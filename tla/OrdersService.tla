--------------------------- MODULE OrdersService ---------------------------
(***************************************************************************)
(* POST /orders: OrdersController.createOrder and                          *)
(* OrdersService.createOrder of src/modules/orders, one action for each    *)
(* stretch of code between two awaits, with the part of PostgreSQL they    *)
(* rest on: row locks taken by SELECT ... FOR UPDATE, the unique index on  *)
(* (user_id, idempotency_key), the foreign key to users, atomic commit,    *)
(* deadlock detection, and the bounded connection pool of the driver.      *)
(*                                                                         *)
(* A client may repeat a request it got no answer or a 500 for, under the  *)
(* same idempotency key.  Statements fail, connections break, the server   *)
(* process is killed and restarted (compose.yml: restart: unless-stopped). *)
(***************************************************************************)
EXTENDS Integers, Sequences, FiniteSets, FiniteSetsExt

CONSTANTS
    Requests,       \* POST /orders requests, each with a fixed user, key and body
    ProductIds,     \* product ids a body may name
    Catalog,        \* those that are rows of the products table
    UserIds,        \* user ids a body may name
    Accounts,       \* those that are rows of the users table
    Keys,           \* idempotency keys that match UUID_REGEX
    Dto,            \* the user, the key and the items of each request
    InitialStock,   \* products.stock before the first request
    None,           \* no key, no lock owner, no order
    PoolSize,       \* connections of the driver's pool
    MaxSends,       \* bound: times a client sends one request
    MaxFaults       \* bound: injected faults (statement, connection, commit, crash)

\* A body names a product by a UUID in any letter case; PostgreSQL compares
\* UUIDs by value but prints them in lower case.  An item is verbatim when its
\* id is spelled as the database prints it.
Item == [productId : ProductIds, verbatim : BOOLEAN, quantity : Nat \ {0}]

\* What ValidationPipe lets through: at least one item, quantities of at least 1.
ASSUME DtoAssumption ==
    \A r \in Requests :
        /\ Dto[r].userId \in UserIds
        /\ Dto[r].idempotencyKey \in Keys \union {None}
        /\ Dto[r].items \in Seq(Item)
        /\ Len(Dto[r].items) >= 1

ASSUME StockAssumption == InitialStock \in [Catalog -> Nat]

ASSUME NoneAssumption == None \notin Requests /\ None \notin Keys

ASSUME BoundsAssumption ==
    /\ PoolSize \in Nat \ {0}
    /\ MaxSends \in Nat
    /\ MaxFaults \in Nat

VARIABLES
    \* Committed rows of the database, and the row locks.
    stock,          \* products.stock
    orders,         \* the orders table
    orderItems,     \* the order_items table
    rowLock,        \* the request whose transaction holds the FOR UPDATE lock on a product
    \* One transaction per request.
    tx,             \* its state on the server
    txStock,        \* the product rows as the transaction has read or written them
    txOrder,        \* the uncommitted row of orders, if any
    txItems,        \* the uncommitted rows of order_items
    \* The connection pool of the process.
    pool,           \* the attempts whose queryRunner has a connection checked out
    unstarted,      \* history: the attempts on this pool whose startTransaction failed
    \* Locals of createOrder.
    pc,             \* where the request is
    productMap,     \* productMap: stock of the products the query returned
    line,           \* the item of dto.items the loop is at
    reply,          \* the answer decided on; delivered once pc is "done"
    \* Bookkeeping of the model.
    sends,          \* how often the client has sent the request
    existed,        \* was an order under its key committed when the request arrived
    faults          \* faults injected so far

vars == <<stock, orders, orderItems, rowLock, tx, txStock, txOrder, txItems,
          pool, unstarted, pc, productMap, line, reply, sends, existed, faults>>
tables  == <<stock, orders, orderItems>>
txVars  == <<tx, txStock, txOrder, txItems, rowLock>>
locals  == <<productMap, line>>
poolVars == <<pool, unstarted>>
client  == <<sends, existed>>

-----------------------------------------------------------------------------
(* Parameters of a request *)

ItemsOf(r)  == Dto[r].items
Lines(r)    == 1 .. Len(ItemsOf(r))
Wanted(r)   == {ItemsOf(r)[k].productId : k \in Lines(r)}
\* The rows WHERE product.id IN (:...productIds) selects: each existing product once.
Found(r)    == Wanted(r) \intersect Catalog
OrderId(r)  == <<r, sends[r]>>
NoReply     == [status |-> 0, order |-> None]
Refusal(code) == [status |-> code, order |-> None]
NoStock     == [p \in Catalog |-> 0]

\* The order the unique index knows under a request's user and key.
OrdersFor(r) ==
    {o \in orders : o.userId = Dto[r].userId /\ o.idempotencyKey = Dto[r].idempotencyKey}

SameKey(r, s) ==
    Dto[r].userId = Dto[s].userId /\ Dto[r].idempotencyKey = Dto[s].idempotencyKey

InTransaction == {"lock", "save_order", "update_stock", "save_item", "commit", "rollback"}
HasConnection == {"begin", "release"} \union InTransaction
AtRest        == {"idle", "done", "lost"}
PCs           == AtRest \union {"find", "connect"} \union HasConnection

FreeConnection == Cardinality(pool) < PoolSize

\* Server side of the end of the transactions of the requests in S, however
\* they end: the row locks go, the uncommitted rows are no longer pending.
EndTransactions(S, state) ==
    /\ tx' = [r \in Requests |-> IF r \in S THEN state ELSE tx[r]]
    /\ rowLock' = [p \in Catalog |-> IF rowLock[p] \in S THEN None ELSE rowLock[p]]
    /\ txStock' = [r \in Requests |-> IF r \in S THEN NoStock ELSE txStock[r]]
    /\ txOrder' = [r \in Requests |-> IF r \in S THEN {} ELSE txOrder[r]]
    /\ txItems' = [r \in Requests |-> IF r \in S THEN {} ELSE txItems[r]]

\* At a statement of an open transaction.
At(r, label) == pc[r] = label /\ tx[r] = "open"

Goto(r, label) == pc' = [pc EXCEPT ![r] = label]
Answer(r, answer) == reply' = [reply EXCEPT ![r] = answer]
Fault == faults < MaxFaults /\ faults' = faults + 1

-----------------------------------------------------------------------------
Init ==
    /\ stock = InitialStock
    /\ orders = {}
    /\ orderItems = {}
    /\ rowLock = [p \in Catalog |-> None]
    /\ tx = [r \in Requests |-> "none"]
    /\ txStock = [r \in Requests |-> NoStock]
    /\ txOrder = [r \in Requests |-> {}]
    /\ txItems = [r \in Requests |-> {}]
    /\ pool = {}
    /\ unstarted = {}
    /\ pc = [r \in Requests |-> "idle"]
    /\ productMap = [r \in Requests |-> NoStock]
    /\ line = [r \in Requests |-> 1]
    /\ reply = [r \in Requests |-> NoReply]
    /\ sends = [r \in Requests |-> 0]
    /\ existed = [r \in Requests |-> FALSE]
    /\ faults = 0

-----------------------------------------------------------------------------
(* The client and the controller *)

MaySend(r) ==
    /\ \/ pc[r] \in {"idle", "lost"}
       \/ pc[r] = "done" /\ reply[r].status = 500
    /\ sends[r] < MaxSends

\* The client posts the request; the idempotency key is a UUID.
Post(r) ==
    /\ MaySend(r)
    /\ Dto[r].idempotencyKey # None
    /\ Goto(r, "find")
    /\ Answer(r, NoReply)
    /\ sends' = [sends EXCEPT ![r] = @ + 1]
    /\ existed' = [existed EXCEPT ![r] = OrdersFor(r) # {}]
    /\ UNCHANGED <<tables, txVars, poolVars, locals, faults>>

\* The header is missing or malformed: BadRequestException, 400.
PostRejected(r) ==
    /\ MaySend(r)
    /\ Dto[r].idempotencyKey = None
    /\ Goto(r, "done")
    /\ Answer(r, Refusal(400))
    /\ sends' = [sends EXCEPT ![r] = @ + 1]
    /\ UNCHANGED <<tables, txVars, poolVars, locals, existed, faults>>

-----------------------------------------------------------------------------
(* Before the transaction *)

\* repository.findOne, a query of its own on any free connection, finds the
\* order: it is returned with isExisting, hence status 200.
ReturnExisting(r) ==
    /\ pc[r] = "find"
    /\ FreeConnection
    /\ \E o \in OrdersFor(r) : Answer(r, [status |-> 200, order |-> o.id])
    /\ Goto(r, "done")
    /\ UNCHANGED <<tables, txVars, poolVars, locals, client, faults>>

Proceed(r, from, to) ==
    /\ pc[r] = from
    /\ Goto(r, to)
    /\ UNCHANGED <<tables, txVars, poolVars, locals, reply, client, faults>>

\* Mutant: the order is looked up by a wrong key and never found.
FindsNothingEver(r) == FreeConnection /\ Proceed(r, "find", "connect")

FindNothing(r) ==
    /\ pc[r] = "find"
    /\ FreeConnection
    /\ OrdersFor(r) = {}
    /\ Proceed(r, "find", "connect")

\* The query, or connecting the queryRunner, fails: nothing in the service
\* catches the error, Nest answers 500.
PreludeFails(r) ==
    /\ pc[r] \in {"find", "connect"}
    /\ Fault
    /\ Answer(r, Refusal(500))
    /\ Goto(r, "done")
    /\ UNCHANGED <<tables, txVars, poolVars, locals, client>>

\* queryRunner.connect waits for a connection of the pool.
Connect(r) ==
    /\ pc[r] = "connect"
    /\ FreeConnection
    /\ pool' = pool \union {OrderId(r)}
    /\ Goto(r, "begin")
    /\ UNCHANGED <<tables, txVars, unstarted, locals, reply, client, faults>>

StartTransaction(r) ==
    /\ pc[r] = "begin"
    /\ tx' = [tx EXCEPT ![r] = "open"]
    /\ Goto(r, "lock")
    /\ UNCHANGED <<tables, rowLock, txStock, txOrder, txItems, poolVars, locals,
                   reply, client, faults>>

\* startTransaction is awaited before the try block: when it rejects, no
\* finally releases the queryRunner.  The connection stays checked out, unless
\* the driver itself sees that it is broken and discards it.
StartTransactionFails(r) ==
    /\ pc[r] = "begin"
    /\ Fault
    /\ pool' \in {pool, pool \ {OrderId(r)}}
    /\ unstarted' = unstarted \union {OrderId(r)}
    /\ Answer(r, Refusal(500))
    /\ Goto(r, "done")
    /\ UNCHANGED <<tables, txVars, locals, client>>

-----------------------------------------------------------------------------
(* The transaction *)

Lock(r, p, read) ==
    /\ At(r, "lock")
    /\ p \in Found(r)
    /\ rowLock' = [rowLock EXCEPT ![p] = r]
    /\ productMap' = [productMap EXCEPT ![r][p] = read]
    /\ txStock' = [txStock EXCEPT ![r][p] = stock[p]]
    /\ UNCHANGED <<tables, tx, txOrder, txItems, poolVars, pc, line, reply, client, faults>>

\* Mutant: plain SELECT, which waits for nobody.
LockNobody(r, p) == rowLock[p] # r /\ Lock(r, p, stock[p])

\* Mutant: the rows are locked, but their columns come from a query cache.
LockCached(r, p) == rowLock[p] = None /\ Lock(r, p, InitialStock[p])

\* SELECT ... FOR UPDATE locks one more row.  Nothing in the query orders the
\* rows, so the scan may reach them in any order; a locked row is waited for,
\* and once locked it is read in its last committed version.
LockProduct(r, p) == rowLock[p] = None /\ Lock(r, p, stock[p])

\* lockProducts has returned.
AllLocked(r) == At(r, "lock") /\ \A p \in Found(r) : rowLock[p] = r

\* Mutant: only missing ids are refused, a product named twice is not.
SomeMissing(r) == Wanted(r) \ Catalog # {}

\* products.length !== productIds.length: one row per distinct existing
\* product against one id per item of the body.
LengthsDiffer(r) == Cardinality(Found(r)) # Len(ItemsOf(r))

\* productMap.get(item.productId)! is a product only for a verbatim id.
Mapped(r, k) == ItemsOf(r)[k].verbatim

\* Mutant: off by one.
NearlyEnough(r, k) == productMap[r][ItemsOf(r)[k].productId] + 1 >= ItemsOf(r)[k].quantity

Enough(r, k) == productMap[r][ItemsOf(r)[k].productId] >= ItemsOf(r)[k].quantity

\* The line at which the loop over dto.items throws.
Throws(r, k) ==
    /\ ~ (Mapped(r, k) /\ Enough(r, k))
    /\ \A j \in 1 .. k - 1 : Mapped(r, j) /\ Enough(r, j)

Refuse(r, code, next) ==
    /\ Answer(r, Refusal(code))
    /\ Goto(r, next)
    /\ UNCHANGED <<tables, txVars, poolVars, locals, client, faults>>

TooFew(r) ==
    AllLocked(r) /\ ~ LengthsDiffer(r) /\ \E k \in Lines(r) : Throws(r, k) /\ Mapped(r, k)

\* Mutant: the refusal returns instead of throwing, and skips the rollback.
TooLowReturns(r) == TooFew(r) /\ Refuse(r, 409, "release")

ProductsNotFound(r) == AllLocked(r) /\ LengthsDiffer(r) /\ Refuse(r, 404, "rollback")
StockTooLow(r) == TooFew(r) /\ Refuse(r, 409, "rollback")

\* product is undefined: reading product.stock is a TypeError, answered with 500.
ProductUndefined(r) ==
    /\ AllLocked(r)
    /\ ~ LengthsDiffer(r)
    /\ \E k \in Lines(r) : Throws(r, k) /\ ~ Mapped(r, k)
    /\ Refuse(r, 500, "rollback")

StockSuffices(r) ==
    /\ AllLocked(r)
    /\ ~ LengthsDiffer(r)
    /\ \A k \in Lines(r) : Mapped(r, k) /\ Enough(r, k)
    /\ Proceed(r, "lock", "save_order")

\* Mutant: the user is left out of the order.
NewOrderOfNobody(r) == [id |-> OrderId(r), userId |-> None,
                        idempotencyKey |-> Dto[r].idempotencyKey]

NewOrder(r) == [id |-> OrderId(r), userId |-> Dto[r].userId,
                idempotencyKey |-> Dto[r].idempotencyKey]

\* Requests whose uncommitted order holds the index entry r wants to insert.
KeyHolders(r) == {s \in Requests \ {r} : txOrder[s] # {} /\ SameKey(r, s)}

InsertOrder(r) ==
    /\ Dto[r].userId \in Accounts
    /\ txOrder' = [txOrder EXCEPT ![r] = {NewOrder(r)}]
    /\ line' = [line EXCEPT ![r] = 1]
    /\ Goto(r, "update_stock")
    /\ UNCHANGED <<tables, tx, rowLock, txStock, txItems, poolVars, productMap,
                   reply, client, faults>>

\* Mutant: without the unique index of order.entity.ts.
SaveAnyOrder(r) == At(r, "save_order") /\ InsertOrder(r)

\* Mutant: saved by this.repository, which takes a connection of its own.
SaveOrderElsewhere(r) ==
    /\ At(r, "save_order")
    /\ FreeConnection
    /\ KeyHolders(r) = {}
    /\ OrdersFor(r) = {}
    /\ InsertOrder(r)

\* Mutant: saved at once, outside the transaction.
SaveOrderOutside(r) ==
    /\ At(r, "save_order")
    /\ OrdersFor(r) = {}
    /\ Dto[r].userId \in Accounts
    /\ orders' = orders \union {NewOrder(r)}
    /\ line' = [line EXCEPT ![r] = 1]
    /\ Goto(r, "update_stock")
    /\ UNCHANGED <<stock, orderItems, txVars, poolVars, productMap, reply, client, faults>>

\* INSERT INTO orders waits for a transaction that has inserted the same user
\* and key, and succeeds when none is committed and the user exists.
SaveOrder(r) ==
    /\ At(r, "save_order")
    /\ KeyHolders(r) = {}
    /\ OrdersFor(r) = {}
    /\ InsertOrder(r)

\* A statement fails on the server, which aborts the transaction at once and
\* drops its locks; the catch block turns the error into a 500.
StatementError(r) ==
    /\ EndTransactions({r}, "aborted")
    /\ Answer(r, Refusal(500))
    /\ Goto(r, "rollback")
    /\ UNCHANGED <<tables, poolVars, locals, client>>

\* The unique index or the foreign key to users refuses the insert.
SaveOrderRefused(r) ==
    /\ At(r, "save_order")
    /\ KeyHolders(r) = {}
    /\ OrdersFor(r) # {} \/ Dto[r].userId \notin Accounts
    /\ StatementError(r)
    /\ UNCHANGED faults

\* UPDATE products SET stock = product.stock - item.quantity: the value
\* written is computed from the row read under the lock.
UpdateStock(r) ==
    LET item == ItemsOf(r)[line[r]] IN
    /\ At(r, "update_stock")
    /\ txStock' = [txStock EXCEPT ![r][item.productId] =
                       productMap[r][item.productId] - item.quantity]
    /\ Goto(r, "save_item")
    /\ UNCHANGED <<tables, tx, rowLock, txOrder, txItems, poolVars, locals,
                   reply, client, faults>>

RowOf(id, k) == [orderId |-> id, line |-> k, productId |-> ItemsOf(id[1])[k].productId,
                 quantity |-> ItemsOf(id[1])[k].quantity]

InsertItem(r, last) ==
    /\ At(r, "save_item")
    /\ txItems' = [txItems EXCEPT ![r] = @ \union {RowOf(OrderId(r), line[r])}]
    /\ line' = [line EXCEPT ![r] = @ + 1]
    /\ Goto(r, IF line[r] >= last THEN "commit" ELSE "update_stock")
    /\ UNCHANGED <<tables, tx, rowLock, txStock, txOrder, poolVars, productMap,
                   reply, client, faults>>

\* Mutant: the loop ends one item early.
SaveItemShort(r) == InsertItem(r, Len(ItemsOf(r)) - 1)

SaveItem(r) == InsertItem(r, Len(ItemsOf(r)))

\* The server makes the transaction's rows permanent.
ApplyCommit(r, state) ==
    /\ At(r, "commit")
    /\ stock' = [p \in Catalog |-> IF rowLock[p] = r THEN txStock[r][p] ELSE stock[p]]
    /\ orders' = orders \union txOrder[r]
    /\ orderItems' = orderItems \union txItems[r]
    /\ EndTransactions({r}, state)

\* Mutant: commitTransaction is forgotten, releasing the queryRunner rolls back.
CommitForgotten(r) ==
    /\ At(r, "commit")
    /\ EndTransactions({r}, "none")
    /\ Answer(r, [status |-> 201, order |-> OrderId(r)])
    /\ Goto(r, "release")
    /\ UNCHANGED <<tables, poolVars, locals, client, faults>>

Commit(r) ==
    /\ ApplyCommit(r, "none")
    /\ Answer(r, [status |-> 201, order |-> OrderId(r)])
    /\ Goto(r, "release")
    /\ UNCHANGED <<poolVars, locals, client, faults>>

\* The server commits, but the connection breaks before commitTransaction
\* hears of it: the catch block runs, and answers 500.
CommitUnacknowledged(r) ==
    /\ ApplyCommit(r, "broken")
    /\ Fault
    /\ Answer(r, Refusal(500))
    /\ Goto(r, "rollback")
    /\ UNCHANGED <<poolVars, locals, client>>

-----------------------------------------------------------------------------
(* Errors inside the try block *)

\* Any other statement error, a clash of the random order number included.
StatementFails(r) ==
    /\ pc[r] \in InTransaction \ {"rollback"}
    /\ tx[r] = "open"
    /\ Fault
    /\ StatementError(r)

\* r waits for s: for the lock on a row, or for the fate of its index entry.
WaitsFor(r, s) ==
    /\ tx[r] = "open"
    /\ \/ pc[r] = "lock" /\ \E p \in Found(r) : rowLock[p] = s /\ s # r
       \/ pc[r] = "save_order" /\ s \in KeyHolders(r)

\* Some cycle of waiting transactions goes through r: whatever is closed under
\* waiting and has a transaction that r waits for also has r.
InWaitCycle(r) ==
    \E s \in Requests : WaitsFor(r, s) /\
        \A S \in SUBSET Requests :
            s \in S /\ (\A x \in S : \A y \in Requests : WaitsFor(x, y) => y \in S) => r \in S

\* deadlock_timeout expires: PostgreSQL fails the statement of one waiter.
DeadlockDetected(r) ==
    /\ InWaitCycle(r)
    /\ StatementError(r)
    /\ UNCHANGED faults

\* The connection breaks; the server aborts the transaction, the process
\* learns of it with its next statement.
ConnectionLost(r) ==
    /\ pc[r] \in InTransaction
    /\ tx[r] # "broken"
    /\ Fault
    /\ EndTransactions({r}, "broken")
    /\ UNCHANGED <<tables, poolVars, pc, locals, reply, client>>

QueryRejected(r) ==
    /\ pc[r] \in InTransaction \ {"rollback"}
    /\ tx[r] = "broken"
    /\ Answer(r, Refusal(500))
    /\ Goto(r, "rollback")
    /\ UNCHANGED <<tables, txVars, poolVars, locals, client, faults>>

\* The error that led to the catch block is rethrown after the rollback.
Rollback(r) ==
    /\ pc[r] = "rollback"
    /\ tx[r] # "broken"
    /\ EndTransactions({r}, "none")
    /\ Goto(r, "release")
    /\ UNCHANGED <<tables, poolVars, locals, reply, client, faults>>

\* rollbackTransaction itself rejects: its error replaces the one being
\* handled, an HttpException included, and Nest answers 500.
RollbackFails(r) ==
    /\ pc[r] = "rollback"
    /\ tx[r] = "broken"
    /\ EndTransactions({r}, "none")
    /\ Answer(r, Refusal(500))
    /\ Goto(r, "release")
    /\ UNCHANGED <<tables, poolVars, locals, client, faults>>

GiveBack(r, connections) ==
    /\ pc[r] = "release"
    /\ pool' = pool \ connections
    /\ productMap' = [productMap EXCEPT ![r] = NoStock]
    /\ line' = [line EXCEPT ![r] = 1]
    /\ Goto(r, "done")
    /\ UNCHANGED <<tables, txVars, unstarted, reply, client, faults>>

\* Mutant: released after the commit, not in finally.
ReleaseAfterCommit(r) == GiveBack(r, IF reply[r].status = 201 THEN {OrderId(r)} ELSE {})

\* finally: the queryRunner gives its connection back; the response is sent.
Release(r) == GiveBack(r, {OrderId(r)})

\* The process is killed and restarted: requests in flight get no answer,
\* their transactions abort, and the new process has a new pool.
Crash ==
    LET S == {r \in Requests : pc[r] \notin AtRest} IN
    /\ S # {}
    /\ Fault
    /\ EndTransactions(S, "none")
    /\ pool' = {}
    /\ unstarted' = {}
    /\ pc' = [r \in Requests |-> IF r \in S THEN "lost" ELSE pc[r]]
    /\ reply' = [r \in Requests |-> IF r \in S THEN NoReply ELSE reply[r]]
    /\ productMap' = [r \in Requests |-> NoStock]
    /\ line' = [r \in Requests |-> 1]
    /\ UNCHANGED <<tables, client>>

-----------------------------------------------------------------------------
\* What the server and the database do on their own for a request.
Serve(r) ==
    \/ ReturnExisting(r) \/ FindNothing(r) \/ Connect(r) \/ StartTransaction(r)
    \/ \E p \in Catalog : LockProduct(r, p)
    \/ ProductsNotFound(r) \/ StockTooLow(r) \/ ProductUndefined(r) \/ StockSuffices(r)
    \/ SaveOrder(r) \/ SaveOrderRefused(r) \/ UpdateStock(r) \/ SaveItem(r) \/ Commit(r)
    \/ DeadlockDetected(r) \/ QueryRejected(r)
    \/ Rollback(r) \/ RollbackFails(r) \/ Release(r)

\* What may go wrong for a request.
GoWrong(r) ==
    \/ PreludeFails(r) \/ StartTransactionFails(r) \/ StatementFails(r)
    \/ ConnectionLost(r) \/ CommitUnacknowledged(r)

Next ==
    \/ \E r \in Requests : Post(r) \/ PostRejected(r) \/ Serve(r) \/ GoWrong(r)
    \/ Crash

Spec == Init /\ [][Next]_vars

\* The event loop and the database keep serving every request; clients owe
\* nothing and faults need not happen.
FairSpec == Spec /\ \A r \in Requests : WF_vars(Serve(r))

-----------------------------------------------------------------------------
(* Correctness *)

Orders == [id : Requests \X Nat, userId : UserIds, idempotencyKey : Keys \union {None}]
Rows   == [orderId : Requests \X Nat, line : Nat, productId : ProductIds, quantity : Nat]
Replies == [status : {0, 200, 201, 400, 404, 409, 500}, order : (Requests \X Nat) \union {None}]

\* Type correctness of the tables, the transactions, the pool and the locals.
TypeOK ==
    /\ stock \in [Catalog -> Int]
    /\ orders \subseteq Orders
    /\ orderItems \subseteq Rows
    /\ rowLock \in [Catalog -> Requests \union {None}]
    /\ tx \in [Requests -> {"none", "open", "aborted", "broken"}]
    /\ txStock \in [Requests -> [Catalog -> Int]]
    /\ txOrder \in [Requests -> SUBSET Orders]
    /\ txItems \in [Requests -> SUBSET Rows]
    /\ pool \subseteq Requests \X Nat
    /\ unstarted \subseteq Requests \X Nat
    /\ pc \in [Requests -> PCs]
    /\ productMap \in [Requests -> [Catalog -> Int]]
    /\ line \in [Requests -> Nat]
    /\ reply \in [Requests -> Replies]
    /\ sends \in [Requests -> Nat]
    /\ existed \in [Requests -> BOOLEAN]
    /\ faults \in Nat

\* No request sells what is not there: the check of product.stock against the
\* quantity (orders.service.ts:88-95) keeps every committed stock at 0 or more.
NoOversell == \A p \in Catalog : stock[p] >= 0

\* While a transaction holds the row lock on a product, the stock it has read
\* is the committed one.  UPDATE writes an absolute value computed from that
\* read (orders.service.ts:113-118), so a stale one would lose an update.
LockedRowsAreFresh ==
    \A p \in Catalog : rowLock[p] # None => productMap[rowLock[p]][p] = stock[p]

\* What left the stock is what the order items sold, through every
\* interleaving, rollback, broken connection and crash.
Sold(p) == MapThenSumSet(LAMBDA i : i.quantity, {i \in orderItems : i.productId = p})
StockConserved == \A p \in Catalog : stock[p] + Sold(p) = InitialStock[p]

\* Each committed order has one item for each line of the body that placed it,
\* and no item is without its order.
WholeOrders ==
    orderItems = UNION {{RowOf(o.id, k) : k \in Lines(o.id[1])} : o \in orders}

\* A user has at most one order under one idempotency key, however often and
\* however concurrently the request is sent (order.entity.ts:24-26).
OneOrderPerKey ==
    \A o1, o2 \in orders :
        o1.userId = o2.userId /\ o1.idempotencyKey = o2.idempotencyKey => o1 = o2

\* A delivered answer is true of the database: 201 names the order this very
\* attempt placed, 200 the one under its key, and an attempt refused with 400,
\* 404 or 409 has placed nothing.
AnswersAreTrue ==
    \A r \in Requests : pc[r] = "done" =>
        /\ reply[r].status = 201 => reply[r].order = OrderId(r)
        /\ reply[r].status \in {200, 201} => \E o \in OrdersFor(r) : o.id = reply[r].order
        /\ reply[r].status \in {400, 404, 409} => \A o \in orders : o.id # OrderId(r)

\* A request that arrives when its order is committed gets it back with 200;
\* only an injected fault turns that into a 500, and nothing into a refusal.
RetryGetsTheOrder ==
    \A r \in Requests : existed[r] /\ pc[r] = "done" =>
        reply[r].status = 200 \/ (reply[r].status = 500 /\ faults > 0)

\* What the try block takes, its catch and finally give back: outside of it a
\* request has no transaction and no row lock.  A connection checked out belongs
\* to the attempt at work, with one exception: startTransaction is awaited before
\* the try (orders.service.ts:71-73), and when it fails nothing releases the
\* queryRunner.  Such an attempt, and no other, may hold its connection for as
\* long as the process lives, past its answer and past the next attempts.
AtWork(a) == pc[a[1]] \in HasConnection /\ a = OrderId(a[1])
OnlyFailedStartsKeep ==
    /\ Cardinality(pool) <= PoolSize
    /\ \A a \in pool : AtWork(a) \/ a \in unstarted
    /\ \A r \in Requests :
        /\ pc[r] \in HasConnection => OrderId(r) \in pool
        /\ pc[r] \notin InTransaction =>
               /\ tx[r] = "none" /\ txOrder[r] = {} /\ txItems[r] = {}
               /\ \A p \in Catalog : rowLock[p] # r

\* Every request that arrives is answered, or lost to a crash: waiting for
\* connections, row locks and index entries always ends, by deadlock detection
\* if need be.  Only a pool left without a connection by failed startTransactions
\* blocks it.
EveryRequestEnds ==
    \A r \in Requests :
        pc[r] = "find" ~> \/ pc[r] \in {"done", "lost"}
                          \/ Cardinality(pool \intersect unstarted) = PoolSize

\* The service implements the ledger: an order, its items and its stock become
\* visible in one step, once for each user and key, and a 200 or 201 is sent
\* for placed orders only.
EntryOf(userId, key, items) ==
    [userId |-> userId, idempotencyKey |-> key,
     lines |-> {[productId |-> i.productId, quantity |-> i.quantity] : i \in items}]
Ledger == INSTANCE ShopLedger WITH
    Entries <- {EntryOf(Dto[r].userId, Dto[r].idempotencyKey,
                        {ItemsOf(r)[k] : k \in Lines(r)}) : r \in Requests},
    ledger <- {EntryOf(o.userId, o.idempotencyKey,
                       {i \in orderItems : i.orderId = o.id}) : o \in orders},
    acknowledged <- {<<Dto[r].userId, Dto[r].idempotencyKey>> :
                        r \in {s \in Requests : pc[s] = "done" /\ reply[s].status \in {200, 201}}}
ImplementsLedger == Ledger!Spec

\* homework05.md: "if order with this key exists, return existing order".  A
\* request about to be answered with an error has no committed order.
ExistingOrderIsReturned ==
    \A r \in Requests :
        pc[r] = "release" /\ reply[r].status >= 400 => OrdersFor(r) = {}

\* "productMap.get(item.productId)!" (orders.service.ts): once every product has
\* been found, the map knows each of them under the id of the body.
EveryProductIsMapped ==
    \A r \in Requests :
        AllLocked(r) /\ ~ LengthsDiffer(r) => \A k \in Lines(r) : Mapped(r, k)
=============================================================================
