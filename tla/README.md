# A formal model of the shop API

This directory holds TLA+ modules for the NestJS shop API in this repository
(`src/`): a PostgreSQL-backed service with users, products, orders, files in an
S3 bucket, a REST and a GraphQL interface. TLC checks the modules on small
instances; TLAPS proves theorems about them for every value of the constants.
Paths below are relative to the repository's root.

## 1. Inventory

| Component | State | Operations | What is hard |
|---|---|---|---|
| Order placement (`src/modules/orders`: controller, `orders.service.ts`, entities) | tables `orders`, `order_items`, `products.stock`; row locks; the connection pool | `POST /orders` | concurrent requests for one product, for one key, for two products in opposite orders; errors between statements; lost commits; crashes; retries; connections that are never released |
| Order listings (`orders.service.ts` `getAll`, `orders-gql.service.ts`) | none of their own | `GET /orders`, GraphQL `orders` | `limit` on joined rows; a page and its count from two statements; walking pages while orders arrive |
| GraphQL data loaders (`loaders.factory.ts`) | per-request batches | `productByproductId`, `orderItemsByOrderId` | the answer must follow the order of the keys |
| Files (`src/modules/files`) | `file_records`, `users.avatar_id`, `products.image_file_id`, the bucket | presign, complete, view (uploads go straight to the bucket) | two statements in `complete` that are not one transaction; concurrent completes; nobody checks the upload |
| Object storage start-up (`storage.service.ts`, `compose.yml`) | the bucket | `onModuleInit` | two instances starting at once; the bucket store not up yet; restarts |
| Authentication (`src/modules/auth`) | `users`; tokens held by clients | register, login, refresh | two registrations of one email; roles frozen in tokens |
| Guards (`scopes.guard.ts`, `roles.guard.ts`, `permission.types.ts`) | none | `canActivate` | pure |
| Products and users reads | none | `GET /products`, `GET /users` | single reads |
| Migrations (`src/migrations`) | the schema | up, down | `down` on populated tables |
| Seed and scripts (`src/seed`, `src/scripts`) | - | development data | resets stock of sold products |
| Configuration, wiring | - | read at start-up | no behaviour over time |

How they interact: controllers call services behind the guards, which trust the
token that authentication issued (`presign` reads the role from it); services share the database and one pool of
connections; order placement and `complete` (product images) and the seed all
write rows of `products`; the listings and loaders read what order placement
commits; files and start-up share the bucket.

What makes each component correct:

* Order placement: stock is conserved and never negative; an order is complete or
  absent; one order for a user and key; an answer is true of the database; every
  request ends; nothing is kept after it.
* Listings: the walk skips nothing that was there all along but for ties, an order
  is repeated or cut only for a reason, an announced page has orders on it.
* Loaders: position k of the answer is about key k.
* Files: what an avatar or image points to is a READY file of that entity; a
  completed file is linked; who put it there was allowed to, as far as the role in
  the token said so at presign.
* Start-up: who listens has bucket and tables; the service comes up once the
  stores do.
* Authentication: one account for an email, true answers, a role that is taken
  away runs out with the access tokens.
* The seed: neither it nor an order undoes the other's write of stock; both end.
* Migrations: the schema is that of the migrations recorded, and keys are guarded
  in all of them.

## 2. Plan

1. `OrdersService` with `ShopLedger`, its abstract specification, and
   `OrdersService_proofs`; `FilesService` and its proofs. **Done.**
2. `OrdersQuery`, `DataLoaders`, `AuthService` with the guards, `Seeding` (the seed
   composed with `OrdersService`), `Startup`, `Migrations`. **Done.**
3. Proofs: every safety property of every module, and the refinement of `ShopLedger`.
   **Done.** What is left to TLC is liveness.

Modules and what they build on:

| Module | Extends | Models |
|---|---|---|
| `ShopLedger` | | what the shop promises: an order is placed once and pays for its stock |
| `OrdersService` | | `POST /orders`; implements `ShopLedger` |
| `Seeding` | `OrdersService` | the seed beside the orders |
| `OrdersQuery` | | both listings of orders |
| `DataLoaders` | | the GraphQL loaders |
| `FilesService` | | presign, complete, links |
| `AuthService` | | accounts, tokens, guards |
| `Startup` | | containers, stores, the bucket |
| `Migrations` | | the schema |

`<X>MC.tla` gives the constants of `<X>` values for TLC, `<X>*.cfg` are the runs, and
`<X>_proofs.tla` holds theorems: `OrdersService_proofs` (the refinement of `ShopLedger`
with it), `Seeding_proofs` (which extends it), `OrdersQuery_proofs`,
`DataLoaders_proofs`, `FilesService_proofs`, `AuthService_proofs`, `Startup_proofs`,
`Migrations_proofs`. A definition whose comment starts with "Mutant" is a
plausible mistake in the code next to it; it is used nowhere in the model, and
putting it in the place of the definition after it makes a property fail.

`complete` of a product image and order placement both write `products`, but other
columns of it, each in a statement of its own; their composition would add no
behaviour to either.

## 3. Order placement

`OrdersService.tla` models `POST /orders` from the controller's check of the
idempotency key to the answer. Each request of `Requests` has a fixed user, key
and body (`Dto`) and is a process whose `pc` names the await it is at:

| pc | code (`orders.service.ts`) | actions |
|---|---|---|
| `idle`, `done`, `lost` | the client | `Post`, `PostRejected` (controller, 400) |
| `find` | 60-67 | `ReturnExisting` (200), `FindNothing`, `PreludeFails` |
| `connect` | 70 | `Connect`, `PreludeFails` |
| `begin` | 71 | `StartTransaction`, `StartTransactionFails` |
| `lock` | 74-95, 151-158 | `LockProduct` once per row, then `ProductsNotFound` (404), `StockTooLow` (409), `ProductUndefined` (500), `StockSuffices` |
| `save_order` | 97-107 | `SaveOrder`, `SaveOrderRefused` |
| `update_stock`, `save_item` | 110-130 | `UpdateStock`, `SaveItem` |
| `commit` | 132 | `Commit` (201), `CommitUnacknowledged` |
| `rollback` | 136-145 | `Rollback`, `RollbackFails` |
| `release` | 146-148 | `Release` |

The database is modelled as far as this code rests on it: committed rows
(`stock`, `orders`, `orderItems`), the uncommitted rows of each transaction
(`txStock`, `txOrder`, `txItems`), `FOR UPDATE` row locks (`rowLock`), the unique
index on (user, key), which makes an insert wait for an uncommitted rival and
fail on a committed one, the foreign key to `users`, atomic commit, the abort of
a transaction at its first error, and the detection of deadlocks. The isolation
level is PostgreSQL's default, READ COMMITTED: a lock is followed by a read of the
last committed version of the row. Nothing orders the rows of the locking query,
so a request locks its rows in any order.

The driver's pool has `PoolSize` connections; a queryRunner holds one from
`Connect` to `Release`, and `findOne` needs a free one for an instant.
`pool` is the set of attempts whose queryRunner has one checked out.
`startTransaction` is awaited before the `try`: when it fails, nothing releases the
queryRunner, and the attempt may stay in `pool` until the process dies (unless the
driver sees that the connection is broken and discards it). The history
`unstarted` remembers the attempts this has happened to.

Faults, at most `MaxFaults` of them anywhere: a statement fails
(`StatementFails`, `PreludeFails`, `StartTransactionFails`), the connection breaks
(`ConnectionLost`, noticed by `QueryRejected` or `RollbackFails`), a commit succeeds
but is not heard of (`CommitUnacknowledged`), the process is killed and restarted
by compose (`Crash`). A client sends a request at most `MaxSends` times, again
after a 500 or after a crash took its answer.

Abstractions: order ids are (request, attempt); order numbers, prices, names
and messages are left out; a clash of the random order number is one of the
statement errors; product ids carry one bit, whether they are spelled as the
database prints them; keys are spellings. Stock and quantities are unbounded
integers: the stock check keeps every value written between 0 and the stock read,
so the width of the column is never exceeded.

### What is checked

| Run | Instance | Shows |
|---|---|---|
| `orders_race` | 3 requests (two are one order sent from two places, the third wants the same products in the other order and more than may be left), 2 products, 2 connections, 2 sends, 1 fault; 98 890 states up to the symmetry of the two | `TypeOK`, `NoOversell`, `LockedRowsAreFresh`, `StockConserved`, `WholeOrders`, `OneOrderPerKey`, `AnswersAreTrue`, `RetryGetsTheOrder`, `OnlyFailedStartsKeep`; `ImplementsLedger`: refinement of `ShopLedger` |
| `orders_refusals` | an order and four requests that are refused (an id in capitals, a product on two lines, no account, no key), 2 connections, 1 send, no fault, fairness; 16 328 states | `StockConserved`, `EveryRequestEnds` |

Why the bounds suffice: two requests are needed for each race on a key, a row or
a pair of rows, and the third lets a race on a key meet a race on stock; two
products are needed for a deadlock; fewer connections than requests make the
pool a resource to wait for; a second send is a retry; one fault reaches every
error path, as no path of the code needs two.

`OnlyFailedStartsKeep` names what the code does not give back: an attempt whose
`startTransaction` has failed may keep its connection, past its answer and past the
next attempts. That is the one exception; nobody else keeps a connection, and nobody
at all a transaction or a row lock. Enough of such failures empty the pool, and then
requests wait for ever: the exception `EveryRequestEnds` makes (its run has no fault).

Fairness (`FairSpec`): weak fairness of what the server does for each request
(`Serve`). The event loop runs every ready continuation and PostgreSQL serves
lock queues in order of arrival; clients and faults are not fair. `EveryRequestEnds`
is checked where two baskets may lock their rows in opposite orders and five
requests share two connections. Deadlock checking is off because clients stop
sending after `MaxSends`.

`LengthsDiffer` looks too strict (see below) and is also what makes the absolute
writes of `UpdateStock` right: the mutant that lets a product be named twice
breaks `StockConserved`.

### Where code and documents disagree

* `double_submit`: `homework05.md:25` "if order with this key exists, return
  existing order". Two concurrent submissions of a basket of one product, in stock
  for both, both find nothing; the loser's INSERT is refused by the unique index and
  answered 500, although its order is committed. A retry then gets it
  (`RetryGetsTheOrder`). With less in stock or more products in the basket, a 409 or
  a deadlock may come first; the instance leaves no room for either.
* `capitals`: `orders.service.ts:89` `productMap.get(item.productId)!`. An id in
  capital letters is a valid UUID, PostgreSQL finds its row, the map does not.

Read off the code, without a run: a body that names one existing product on two
lines gets 404 with an empty list of missing ids (`homework05.md:33` has 404 for
products that are not found); a key is checked without regard to letter case and
stored as it is spelled, so one UUID in two spellings is two keys;
`concurrency-test.ts` sends no token and is answered 401 by the guards.

### What is proved

`OrdersService_proofs.tla` proves, for any number of requests, products,
connections, sends and faults, from the assumptions on the constants named in
`OrdersService.tla`, that `Spec` implies `[]` of `TypeOK`, `NoOversell`,
`LockedRowsAreFresh`, `OneOrderPerKey` and `OnlyFailedStartsKeep`. None of them but
`TypeOK` is inductive alone. The invariant `IndInv` adds

* `LineInv`: the loop is at a line of the body (for the types of items);
* `TxInv`: transactions live inside the `try` block, and only open ones hold locks
  and uncommitted rows;
* `PoolInv`: the pool holds the requests between `connect` and `release`, and beside
  them nobody but attempts in `unstarted`;
* `KeyInv`: an uncommitted order is the only one, committed or not, under its key;
* `SellInv`: from the stock check on, what was read suffices for every line.

Its second half goes on to what the whole transaction does: `WholeOrders`,
`AnswersAreTrue`, `RetryGetsTheOrder`, `StockConserved`, and `ImplementsLedger`, the
refinement of `ShopLedger`. They need to know, at the commit, what the loop over the
lines has done so far; `LedgerInv` adds

* `AttemptInv`: an order bears the number of the attempt that placed it, which is past
  its commit (so that order ids are new);
* `LocksInv`: a transaction holds rows of its products only, and all of them once
  `lockProducts` has returned one row for each line, which makes lines and products
  correspond one to one (`LinesAreProducts`, by counting);
* `WriteInv`: the stock and the items written are those of the lines passed, each
  stock being what was read less what its line sells;
* `WholeOrders` itself, `ReplyInv` (a 200 or 201 is decided on for committed orders
  only) and `RetryInv` (a retry of what is placed does not get past `findOne`).

A commit is then one step of the ledger (`CommitPlaces`): by `LockedRowsAreFresh` the
stock read is the stock there is, by `SellInv` it suffices, by `KeyInv` the order is
the first under its key. Answers map to `Acknowledge` or to nothing (`AnswersTell`),
all other steps to nothing.

`StockConserved` sums up quantities over a set. The sum is a recursive function in
the community modules, and no prover here can instantiate an induction theorem over
an operator; so the quantities are counted as units, one pair for each piece of an
item (`Units`). `SumIsUnits` shows, by a smallest counterexample, that the sum is the
number of units, and adding an item adds its quantity (`SumGrows`). A commit adds
one item for each product it takes from the stock (`CommitSells`), no other step
touches either.

What liveness there is, `EveryRequestEnds`, is model-checked only.

## 4. Files

`FilesService.tla` models `src/modules/files`. A call of `complete` is a process
of `Calls`: its record is read and checked in one step (88-102: `Refuse` with 404,
403 or 400, or `Accept`), and from then on its `pc` is at `save` (104-105) or `link`
(107, 184-193). The two writes share no transaction, and the record as it was read
is worked on to the end. `Presign` is one step, its INSERT: the rows its checks read are never
deleted, and signing asks nobody. The upload is the client's own PUT to the bucket,
which no step of the service looks at, and is left out. `Viewable` is
the check of `GET /files/:id`, which changes nothing. Statements fail with or
without effect (`ReadFails`, `SaveFails`, `LinkFails`), and `Crash` loses every
call under way, at most `MaxFaults` of these in all. A client may call
`complete` again, for any file, as often as it likes.

Roles: `admins` are the users whose row says so; the seed's upsert of an account
(`SeedUser`, `seed.ts:120-132`, whose file may be edited between two runs) gives the
role and takes it away. `tokens` are the users who hold an access token that says
admin: issued while the row said so (`SignIn`), good until it expires (`Expire`),
whatever the row says by then. `MayTouch` is the check of `presign`, and asks the
token; `complete` asks for no role at all.

`replaced`, `overlapped` and `stale` are history variables: the files that have given
way to another file, those two calls of `complete` worked on at once, and those an
admin's token presigned for others though the role was gone from the row, or has gone
since.

A user who loses the role between presign and complete still links the file, to
another's avatar or to a product image: `LinkedFileFits` names these files (`stale`)
as its exception, and promises that there is no other.

| Run | Instance | Shows |
|---|---|---|
| `files` | two users, one of whom the seed makes an admin and demotes, one product, 2 files, 2 calls, private files, 1 fault, fairness; 805 594 states | `TypeOK`, `LinkedFileFits`, `CompletedIsLinked`, `LinksMoveForward`, `ReadyGetsLinked` |

Two files of one entity are what it takes to replace a link, two calls what it
takes to overlap; calls repeat without bound, so every longer history of calls is
covered, as are longer histories of roles and tokens. Visibility decides nothing in the steps of the model but who may view a
file (`Viewable`), which changes no state, so one kind is enough.

Fairness is that of the server for each call (`Serve`), for the same reason as
above. `ReadyGetsLinked` says nothing once a fault has happened, and cannot: a
call that dies between its two writes leaves a READY file without a link, and
line 98 refuses to complete it again.

Two overlapping completes of one file are both answered 200, and the later link
may undo a replacement made in between; `LinksMoveForward` says that this is the
only way back.

Read off the code, without a run: `homework09.md:5-9` lists presign, upload and
complete, and says that complete marks a file ready for use; the code never asks the
bucket, so a READY file may have no object.

`FilesService_proofs.tla` proves `TypeOK`, `LinkedFileFits`, `CompletedIsLinked` and
`LinksMoveForward` for any number of users, files, calls and faults. The
invariant adds `RecordInv` (every record is for the owner's own account, or of an
owner whose role still stands, or `stale`),
`CallInv` (what a call's snapshot says of the record is still true), `OverlapInv`
(two calls on one file are in `overlapped`) and `UsedInv` (a file that is or was
linked is READY, so that `Accept` refuses it, and a call still at work on it
overlapped another).

## 5. Order listings

`OrdersQuery.tla` models a client that walks through the orders page by page, over
`GET /orders` (`joined`) or the GraphQL query, while others place orders.

| Action | Code |
|---|---|
| `Place` | an order of `POST /orders` becomes visible |
| `Start` | the controller or the resolver makes the filter; refusals of a limit |
| `GetOrders` | `OrdersService.getAll`: one statement over orders LEFT JOIN order_items |
| `GetNodes`, `GetTotalCount` | `OrdersGqlService.getAll`: `getManyAndCount`, a statement for the page and one for the count, which is left out when the page tells it |
| `FetchFails` | the count fails, 500, the client asks again |

`created_at` is the start of the transaction, so orders become visible in another
order than that of `created_at`, and may share it; both are chosen freely. ORDER BY
leaves rows with one `created_at` in any order, chosen anew for each statement
(`Heads`). A client of GraphQL goes on while `hasNextPage` says so, one of REST
until a page is empty. The default of 20 rows and a first offset other than 0 are
left out: they start or size the walk like any other limit.

| Run | Instance | Shows |
|---|---|---|
| `orders_query` | 4 orders of 0 to 2 items on 3 values of `created_at`, either interface, 4 filters, limits 0 to 3 with a largest limit of 2; 1 715 384 states | `TypeOK`, `SkippedOnlyOnTies`, `RepeatedOnlyForAReason`, `CutOnlyAtTheEdges`, `AnnouncedPageIsThere` |

Four orders give up to four pages, ties of up to four, and an order that becomes
visible before, within and behind the part already read; one order of two items is
enough to be cut, and the one without items is what
`src/scripts/prefill-orders.sql` loads. The walk ends, so deadlock checking is off.

The properties say how far the listings can be relied on: `GET /orders` may hand
out an order without all of its items, either interface may repeat orders, and
both may skip tied ones, which is what the exceptions in the properties allow; the
run shows that nothing worse happens. No document promises more.

`OrdersQuery_proofs.tla` proves all five properties for any finite set of orders, any
numbers of items, times, filters and limits. The invariant `WalkInv` rests on one
count, the rows of the result that lie above an order because theirs is newer
(`Above`). Orders that are placed only add to it; so `MissingBelow`, what the client
still lacks lies below the offset or on the page in hand, is kept by every step.
While nothing is placed the count stands still, so `ReceivedAbove`, what the client
has lies above the offset, is kept, too. `Announced` says that the count which
announced a page lay beyond its offset, and `Cut` what a page of joined rows can cut:
LIMIT and OFFSET leave a run of the sorted rows, and an order in the middle of a run
is whole. Ties are the exception throughout, as rows that share their `created_at`
have no place of their own.

## 6. GraphQL data loaders

`DataLoaders.tla` models the two batch functions of `loaders.factory.ts`
(`ItemsByOrderId`, `ByProductMap`), the life of the loaders (`CreateLoaders`, once per
request), and the resolvers that ask them (`ProductsWanted`, `Complete`). The package
dataloader is external: it may ask for the pending keys in any batches and in any
order, and remembers answers. Rows come back in any order, and products are written
meanwhile (`WriteProduct`, up to `MaxVersion` versions).

| Run | Instance | Shows |
|---|---|---|
| `data_loaders` | 3 orders with 2, 1 and 0 items of 2 products, 3 versions, requests without bound; 12 416 states | `ItemsAreTheOrders`, `ProductsFit`, `ProductsAreCurrent` |

Two keys in one batch are what it takes to confuse them; two requests, with a write
between, what it takes for a cache to be out of date.

`DataLoaders_proofs.tla` proves the three for any finite sets of orders, items and
products. Rows that come back in any order are a sequence that lists a finite set,
each element once (`ListsTheSet`, by counting); from there `GroupIsTheOrder` and
`ProductIsFound` say that the batch functions find for each key its own rows, and the
invariant (`Clocks`, `ItemsInv`, `ProductsInv`) that the caches of a request hold
nothing else, read after the request began.

## 7. Authentication, guards

`AuthService.tla`: a call of `register`, `login` or `refresh` is a process. `Register`
and `Login` read the account (23-34, 39-54), `Save` or `SaveRefused` is the insert
(the unique constraint on email), `Refresh` reads the account again (56-67), and
`IssueTokenPair` signs what was read. `StatementFails` gives the 500 of register and
login and the 401 that `refresh` makes of every error. `SeedUser` is the seed's
upsert of an account, the one writer that changes a role: the file may have been
edited between two runs. Tokens are kept for good; `Valid` is the strategies' check
of secret and expiry. A hash is known by the password it is of. `RoleScopes`,
`RequiredScopes`, `RequiredRoles`, `Covers` and `Permits` are the guards with what the
routes ask of them.

The clock (`Tick`) stands still while a call is under way: a call takes
milliseconds, a token lives for minutes.

| Run | Instance | Shows |
|---|---|---|
| `auth` | 2 calls, 2 emails, 1 password, one account whose role changes, 1 tick, access tokens of one tick and refresh tokens of two, 1 fault; 603 714 states | `TypeOK`, `OneAccountPerEmail`, `RegisterAnswersAreTrue`, `RoleRunsOut`, `AdminsMayDoWhatUsersMay` |

Two calls race for one email; one tick is where an access token has run out and the
refresh token has not, and calls repeat without bound.

`AuthService_proofs.tla` proves all five for any calls, emails, passwords, lives of
tokens and faults. The invariant adds `IdsInv` (ids are given out in order),
`SignInv` (the role a call is about to sign is held now, or was a moment ago),
`TokenInv` (the role of an access token was held when it was signed, or later: what
`RoleRunsOut` follows from, as the token lives no longer than `AccessTtl`) and
`RegisterInv` (what a registration past its insert has left behind).
`AdminsMayDoWhatUsersMay` is about the tables of scopes and roles alone.

Read off the code, without a run: a failing statement in `refresh` is answered as a
missing account is (`auth.service.ts:64-66`), so a client logs in again where a retry
would do.

## 8. The seed beside the orders

`Seeding.tla` extends `OrdersService` with one more process, `src/seed/seed.ts`, a job
run at any time: `UpsertUser` for each user, one statement that upserts all
products (`LockRow` in the order of the file, then `UpsertProducts`), `UpsertOrders`,
`UpsertItems`, and `SeedFails` at any of them. The statements share no transaction. The
rows exist already; names and prices are left out. A request is given no row the
seed has locked (`Serves`), the seed waits for rows of orders, and
`SeedDeadlockDetected` fails one of a cycle.

| Run | Instance | Shows |
|---|---|---|
| `seeding` | 2 orders that name two products in opposite orders, up to 2 runs of the seed, 1 fault, fairness; 51 939 states | `SeedTypeOK`, `StockSinceSeed`, `SeedEnds` |
| `seeding_orders` | one run, no fault | violates `SeedOrdersAreThere` |

One order and the seed make a cycle of waiting, two orders one that goes through
both; the second run of the seed resets what was sold since the first.
`base` and `soldBefore` are history: the stock last written, and what had been sold
then. Fairness is that of `OrdersService` and of the seed's own process (`Seeds`).

`Seeding_proofs.tla` proves that all the promises of section 3 but the refinement hold
beside the seed, too (`FreshBesideTheSeed`, `NeverOversoldBesideTheSeed`,
`OrdersBesideTheSeed`), and `StockSinceSeed` and `SeedTypeOK`. The invariant of the
orders is kept by every step that leaves the rows locked by orders alone
(`OtherStep`) and by the failure of an order the deadlock check has picked
(`VictimStep`); what makes the seed such a step is `LocksApart`, no row is locked by
both, with `SeedProcess`, the seed holds the rows its statement has passed. With a
commit selling what it takes (`CommitSells`), the stock and what has been sold since
make up what the seed has written last (`HistoryInv`). The ledger is not refined
here: it knows no restocking.

`seeding_orders`: `seed.ts:72` and `:90` give the orders to `alice@example.com` and
`bob@example.com`, `seed.ts:17` and `:24` write `alice@aloe.com` and `bob@aloe.com`; the
lookup at `seed.ts:153` finds nobody, and the orders of the file are never there
(the query plan of `homework05.md:61`, with 4 rows in `order_items`, suggests that
they once were). Were they found, each run would add their items once more:
`orderItemsRepository.upsert` is on the id, and the rows have none.

## 9. Start-up

`Startup.tla` models the services of `compose.yml` and `bootstrap` of `main.ts`. A
container of the service goes from `created` (waiting for its `depends_on`) to
`connect` (TypeOrmModule), `head` and `create` (`ensureBucketExists`) and `listening`;
a rejection makes it `exited`, and docker restarts it without a look at `depends_on`.
Stores come and go (`ComesUp`, `GoesDown`), the migration job runs once, calls fail, a
process dies anywhere (`Crash`).

| Run | Instance | Shows |
|---|---|---|
| `startup` | `api` and `app-dev` with their dependencies, up to 3 faults, fairness; 1 492 states | `TypeOK`, `ListeningMeansReady`, `StartedListens` |

Two instances are what it takes to race for the bucket; three faults let each store
fail and a process die. Fairness: docker restarts stores and the process of `api`
(`restart: unless-stopped`), outages end, a started process runs on. `app-dev` runs
`nest start -w`, which does not exit with the service, so it is not in `Direct` and
promises nothing. What does not come up again is the migration job (`restart: no`):
when it fails, `api` is never started, and nothing is promised of it.

`Startup_proofs.tla` proves `TypeOK` and `ListeningMeansReady` for any instances,
dependencies and number of faults. The invariant adds that an instance past
`created` found the schema there if it depends on the migration, which restarts do
not check again, and that nothing takes schema or bucket away.

## 10. Migrations

`Migrations.tla` has each migration's `up` and `down` as a list of statements that
create and drop objects of the schema; `Works` says when PostgreSQL accepts one, with
the rows of `orders` for unique constraints, `After` what it leaves. The runner of
TypeORM is external: a process reads the migrations table, executes the statements
in one transaction and records them with it (`Run`, `Revert`, `Execute`, `Commit`); it
takes no lock of its own. Statements fail, deadlock, and processes are killed. Where a
process is, is two numbers: `at` in its plan, `line` in the migration there.

Orders are under way meanwhile. Of `createOrder` a client's order keeps what DDL can
meet: the tables its transaction locks, in the order of the code (`OrderTables`):
`products` at line 76, `orders` with the INSERT of line 105, `users` with the check of
its foreign key, `order_items` at line 128. `OrderLocks` takes the next one, which no
migration may hold, and `OrderCommits` or `OrderRolledBack` lets go of all. Orders do
not keep each other waiting here (their row locks are in `OrdersService`), but a
statement of a migration waits for every order that has locked one of its tables.
`WaitsFor` and `InDeadlock` say who waits for whom, orders included; `DeadlockDetected`
fails a migration that is in a cycle, `OrderRolledBack` an order. The other requests of
the service touch one table in a transaction, or read `orders` and then `order_items`,
in which order no migration contradicts them, so they are in no cycle and are left out.
PostgreSQL's lock queue is, too: it lets those pass first who would deadlock otherwise.

| Run | Instance | Shows |
|---|---|---|
| `migrations` | all 5 migrations, 2 processes, one order at a time, 2 users, 1 key; 807 607 states up to symmetry | `TypeOK`, `SchemaMatchesHistory`, `FailsOnlyForAReason`, `KeysAlwaysGuarded` |

Two processes are what it takes to interleave; two users under one key are what
makes the older constraint impossible again. Runs and reverts repeat without bound,
and so do orders; one at a time is enough for a cycle with a migration, and the proof
covers any number of them.

What can make a run or a revert fail (`FailsOnlyForAReason`):

* another run or revert came in its way (`disturbed`);
* the revert of `1700000002000` finds two users under one key;
* a deadlock with an order under way: it holds `products` and needs `orders` or `users`,
  which the migration has locked before it asks for `products`. `1700000004000.up`
  (43-46, `users` then `products`) and a run from `1700000002000` on, which holds `orders`
  by then, are open to that, and so is the revert of the first migration. The other
  reverts are not: each locks tables in the order of the orders, or one alone. A run
  that starts with the first migration is not, either: nobody else sees its tables.

A deadlock that no single order closes involves another process that migrates, which
`DeadlockDetected` counts as disturbed.

`Built`, the schema of the first n migrations, is stated as sets; `MigrationsMC`
assumes, and TLC evaluates, that it is what the statements come to one by one
(`BuiltIsTheFold`).

Two of the properties hold while the table of migrations is in order (`InOrder`). It
may get out of order when one process has read the table and others revert several
migrations before it locks anything: a property of TypeORM's runner. The schema is
then still never without a guard of the keys. With three processes, which is more than
the run has, the table may even hold a migration twice. With the first migration alone
applied, one process plans to run the other four and another to revert the first; a
third runs them and reverts all but the second, and does the same for the first once
that has been reverted under it: the table holds 2, 1. Now the first process, too, runs 2 to 5, and none
of it fails, for the table of orders is new: 2, 1, 2, 3, 4, 5. So `SchemaMatchesHistory`
claims no more than that none is recorded twice *since the first one was*, which holds
for any number of processes.

### What is proved

`Migrations_proofs.tla` proves all four for any number of processes, users and keys,
and any number of orders under way; it assumes no more than that a process which
migrates is not one that places orders (`NoRunnerIsAClient`). What the run could not
show by itself is that a third process or a second order changes nothing. The
invariant `IInv` says

* `Exact`: what is in the schema follows from the records *also when they are out of
  order*. An object stands if its migration is recorded and, if it goes with the table
  of orders or of users, recorded since the first one, which makes those tables anew
  (`Live`, `Stands`); the constraint of the first stands until the third is recorded
  after it. `KeysAlwaysGuarded` follows: either the third is recorded since the first,
  and its index stands, or the constraint does;
* `Seen`: a transaction sees the committed schema without what it took away and with
  what it made (`Took`, `Made`, by what statements it has passed: `Did`);
* `Holding`, `Exclusive`: of all that it has the table locked, and no table is locked
  twice, so that what others commit does not touch it (`OthersMeetCommit`); `Locked`:
  it has nothing locked but what its statements have touched;
* `Served`: the tables an order has locked are there, and no migration has them;
* `Fresh`, `Dropping`: what it made was not there, what it dropped was, so that the
  records it read, however old, do not matter for what it adds to the schema
  (`CommitUpIsExact`, `CommitDownIsExact`);
* `Fitting`, `FittingView`: the rows of orders fit every constraint that is or is about
  to be there;
* `Current`: as long as nobody has come in between, its plan is what the records say.

`FailsOnlyForAReason` is then a matter of the scripts: undisturbed and in order, a
process sees exactly what the statements before its own have made (`SeesBefore`) or
left (`SeesLeft`). `MadeInTime` says that `up` makes every object after what it refers
to, `GoneInTime` that `down` drops it before, `DownDrops` that it drops nothing twice or
too late (a table takes its indexes along); so no statement fails (`UpWorks`,
`DownWorks`) but the one that makes the older constraint again. `DownIsOrderly` says
that no later `down` asks for a table an order may have while it holds one the order
may be waiting for (`OrdersMeetFew`). These lemmas compute with the five scripts as
they are.

## 11. Proved and checked

Proved for every value of the constants, from their named assumptions: every safety
property of the runs that expect to pass, and the refinement of `ShopLedger`. The
assumptions say of what kind the constants are (`DtoAssumption`: what validation lets
through; `StockAssumption`, `NoneAssumption`, `BoundsAssumption`, `FaultsAssumption`,
`SeedAssumption`, `TtlAssumption`, `RowAssumption`, `NumbersAssumption`,
`ItemsAssumption`, `FilesAssumption`, `DependsAssumption`, `NoRunnerIsAClient`), and nothing of how many
there are but that tables are finite where a proof counts rows. Only model-checked:

* liveness, out of the prover's reach: `EveryRequestEnds`, `ReadyGetsLinked`,
  `SeedEnds`, `StartedListens`;
* that `Built` is the fold of the statements (`BuiltIsTheFold`): what a fold computes
  takes induction over data, which the installed provers cannot do.

Where an instance has no fault (`orders_refusals`), the paths of faults are those of
`orders_race`.

## 12. Not modelled

* `GET /products`, `GET /products/:id`, `GET /users`: one read of one table; what they
  require of a token is in section 7.
* Configuration and wiring: declarations read when the process starts.
* `src/scripts`: a runner for one SQL file and a client that posts orders;
  `OrdersService` models what such a client can send.
* Validation of bodies by the DTOs, beyond the fields a module names: a rejected
  body changes nothing.
