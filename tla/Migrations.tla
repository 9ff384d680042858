------------------------------ MODULE Migrations ------------------------------
(***************************************************************************)
(* src/migrations, run and reverted (npm run db:migrate, db:revert, the    *)
(* migrate job of compose.yml) on a database in use.  The schema is a set  *)
(* of objects; a statement creates some and drops some, and fails as       *)
(* PostgreSQL would have it.  TypeORM's migration runner is external: it   *)
(* reads the table of applied migrations, then executes the statements in  *)
(* one transaction, and records what it did with the last of them.         *)
(*                                                                         *)
(* Orders are placed meanwhile: createOrder of OrdersService, of which the *)
(* tables it locks matter here, one after the other, until it ends.        *)
(***************************************************************************)
EXTENDS Integers, FiniteSets, SequencesExt

CONSTANTS
    Runners,    \* processes that run or revert migrations
    Clients,    \* requests of the service that place orders
    Users,
    Keys        \* idempotency keys

ASSUME NoRunnerIsAClient == Runners \intersect Clients = {}

-----------------------------------------------------------------------------
(* The schema *)

\* What goes with its table when that is dropped.
OwnedBy == [
    orders |-> {"UQ_key", "FK_order_user", "idx_status", "idx_user_key"},
    order_items |-> {"FK_item_product", "FK_item_order"},
    users |-> {"password_hash", "role", "avatar_id"},
    products |-> {"image_file_id"},
    file_records |-> {"idx_owner", "idx_entity"}]

\* What an object refers to besides its table.
References == [
    products |-> {"uuid_ossp"}, order_items |-> {"uuid_ossp"}, users |-> {"uuid_ossp"},
    orders |-> {"uuid_ossp", "order_status"}, FK_item_product |-> {"products"},
    FK_item_order |-> {"orders"}, FK_order_user |-> {"users"}, role |-> {"users_role"},
    file_records |-> {"uuid_ossp", "entity_type", "file_status", "visibility"}]

TableOf(o) ==
    IF \E t \in DOMAIN OwnedBy : o \in OwnedBy[t]
    THEN CHOOSE t \in DOMAIN OwnedBy : o \in OwnedBy[t] ELSE o
Refs(o) == IF o \in DOMAIN References THEN References[o] ELSE {}
Owned(S) == UNION {OwnedBy[t] : t \in S \intersect DOMAIN OwnedBy}

\* CREATE TABLE "orders" makes its unique constraint too.
Create(o) == [creates |-> IF o = "orders" THEN {"orders", "UQ_key"} ELSE {o}, drops |-> {}]
Drop(o) == [creates |-> {}, drops |-> {o}]
CreateEach(objects) == [i \in DOMAIN objects |-> Create(objects[i])]
DropEach(objects) == [i \in DOMAIN objects |-> Drop(objects[i])]

Up0 == CreateEach(<<"uuid_ossp", "products", "order_items", "order_status", "orders", "users",
                    "FK_item_product", "FK_item_order", "FK_order_user">>)
Down0 == DropEach(<<"FK_order_user", "FK_item_order", "FK_item_product", "users", "orders",
                    "order_status", "order_items", "products", "uuid_ossp">>)
Up1 == CreateEach(<<"idx_status">>)
Down1 == DropEach(<<"idx_status">>)

\* Mutant: the old constraint goes, the new index is forgotten.
OnlyDropped == <<Drop("UQ_key")>>

Up2 == <<Drop("UQ_key"), Create("idx_user_key")>>
Down2 == <<Drop("idx_user_key"), Create("UQ_key")>>
Up3 == CreateEach(<<"users_role", "password_hash", "role">>)

\* Mutant: the statements of up, undone in the same order.
TypeFirst == DropEach(<<"users_role", "password_hash", "role">>)

Down3 == DropEach(<<"role", "password_hash", "users_role">>)
Up4 == CreateEach(<<"entity_type", "file_status", "visibility", "file_records", "idx_owner",
                    "idx_entity", "avatar_id", "image_file_id">>)

\* Mutant: the column of users first, as up has it.
UsersFirst == DropEach(<<"avatar_id", "image_file_id", "idx_entity", "idx_owner", "file_records",
                         "visibility", "file_status", "entity_type">>)

Down4 == DropEach(<<"image_file_id", "avatar_id", "idx_entity", "idx_owner", "file_records",
                    "visibility", "file_status", "entity_type">>)

Up == <<Up0, Up1, Up2, Up3, Up4>>
Down == <<Down0, Down1, Down2, Down3, Down4>>

\* DROP takes what the table owns along.
After(st, schema) == (schema \ (st.drops \union Owned(st.drops))) \union st.creates

\* The rows of orders fit a unique constraint about to be made.
Fit(rows, o) ==
    \A r, s \in rows : r # s => CASE o = "UQ_key" -> r.key # s.key
                                  [] o = "idx_user_key" -> r.key # s.key \/ r.userId # s.userId
                                  [] OTHER -> TRUE

\* CREATE needs its references and no namesake (the extension: IF NOT EXISTS),
\* DROP (without CASCADE) an object that nothing left refers to.
Works(st, schema, rows) ==
    /\ st.creates \intersect schema \subseteq {"uuid_ossp"}
    /\ \A o \in st.creates :
           Refs(o) \union {TableOf(o)} \subseteq schema \union st.creates /\ Fit(rows, o)
    /\ st.drops \subseteq schema
    /\ \A o \in After(st, schema) : Refs(o) \subseteq After(st, schema)

\* What the statement locks till the end of the transaction; an order that has
\* locked the table for its rows keeps it waiting.
Touches(st) ==
    {TableOf(o) : o \in st.creates \union st.drops} \union
    UNION {Refs(o) : o \in (st.creates \union st.drops) \intersect
                              {"FK_item_product", "FK_item_order", "FK_order_user"}}

\* The tables createOrder locks, in this order: the SELECT ... FOR UPDATE, the
\* INSERT of the order, the check of its foreign key, the INSERT of the items.
OrderTables == <<"products", "orders", "users", "order_items">>

-----------------------------------------------------------------------------
VARIABLES
    schema,     \* the committed objects
    applied,    \* the migrations table: numbers in order of execution
    orders,     \* rows of orders under a key
    plan,       \* migrations a runner means to run, or to revert
    upwards,    \* does it run them
    at,         \* where it is in the plan
    line,       \* the statement of that migration it is at, 0 outside a transaction
    view,       \* the schema as its transaction sees it
    locks,      \* tables, types and extensions its transaction has locked
    failed,     \* what its last transaction failed of: "statement", "deadlock" or "no"
    taken,      \* how many of OrderTables a client's order has locked, 0 when it has none
    disturbed   \* history: has another run or revert committed, or met it in a deadlock,
                \* since it started

database == <<schema, applied, orders>>
vars == <<database, plan, upwards, at, line, view, locks, failed, taken, disturbed>>

Init ==
    /\ schema = {}
    /\ applied = <<>>
    /\ orders = {}
    /\ plan = [m \in Runners |-> <<>>]
    /\ upwards = [m \in Runners |-> TRUE]
    /\ at = [m \in Runners |-> 1]
    /\ line = [m \in Runners |-> 0]
    /\ view = [m \in Runners |-> {}]
    /\ locks = [m \in Runners |-> {}]
    /\ failed = [m \in Runners |-> "no"]
    /\ taken = [c \in Clients |-> 0]
    /\ disturbed = [m \in Runners |-> FALSE]

\* The numbers in S in ascending order: the one sequence there is.
Ascending(S) ==
    {s \in [1..Cardinality(S) -> S] : \A i, j \in DOMAIN s : i < j => s[i] < s[j]}

Starts(m, todo, up) ==
    /\ todo # <<>>
    /\ plan' = [plan EXCEPT ![m] = todo]
    /\ upwards' = [upwards EXCEPT ![m] = up]
    /\ line' = [line EXCEPT ![m] = 1]
    /\ view' = [view EXCEPT ![m] = schema]
    /\ failed' = [failed EXCEPT ![m] = "no"]
    /\ disturbed' = [disturbed EXCEPT ![m] = FALSE]
    /\ UNCHANGED <<database, at, locks, taken>>

\* migration:run takes every migration not yet applied, migration:revert the last.
Run(m) ==
    /\ line[m] = 0
    /\ \E todo \in Ascending(DOMAIN Up \ ToSet(applied)) : Starts(m, todo, TRUE)
Revert(m) ==
    /\ line[m] = 0
    /\ applied # <<>>
    /\ Starts(m, <<Last(applied)>>, FALSE)

Script(m) == (IF upwards[m] THEN Up ELSE Down)[plan[m][at[m]]]
AtStatement(m) == line[m] > 0 /\ at[m] <= Len(plan[m])
Statement(m) == Script(m)[line[m]]

\* What a runner or an order has locked, and what it asks for next.
Held(p) == IF p \in Runners THEN locks[p] ELSE {OrderTables[i] : i \in 1..taken[p]}
Wanted(p) ==
    IF p \in Runners THEN IF AtStatement(p) THEN Touches(Statement(p)) ELSE {}
    ELSE {OrderTables[i] : i \in {taken[p] + 1} \intersect 2..4}

\* Orders share the tables, and do not wait for each other here.
WaitsFor(p, q) ==
    /\ p # q
    /\ p \in Runners \/ q \in Runners
    /\ Wanted(p) \intersect Held(q) # {}

MayGoOn(m) == AtStatement(m) /\ \A p \in Runners \union Clients : ~ WaitsFor(m, p)

\* p is among those it waits for, or these wait for, and so on.
InDeadlock(p) ==
    \A S \in SUBSET (Runners \union Clients) :
        (\A q \in Runners \union Clients :
            WaitsFor(p, q) \/ (\E s \in S : WaitsFor(s, q)) => q \in S)
        => p \in S

-----------------------------------------------------------------------------
(* Orders: a version of the service that fits the schema *)

\* The first lock, or the next: nobody who runs or reverts has the table.
OrderLocks(c) ==
    /\ taken[c] < Len(OrderTables)
    /\ OrderTables[taken[c] + 1] \in schema
    /\ \A m \in Runners : OrderTables[taken[c] + 1] \notin locks[m]
    /\ taken' = [taken EXCEPT ![c] = @ + 1]
    /\ UNCHANGED <<database, plan, upwards, at, line, view, locks, failed, disturbed>>

\* It commits, with all its locks; the row fits the constraints, or its INSERT
\* has failed.
OrderCommits(c, r) ==
    /\ taken[c] = Len(OrderTables)
    /\ r \notin orders
    /\ \A o \in schema : Fit(orders \union {r}, o)
    /\ orders' = orders \union {r}
    /\ taken' = [taken EXCEPT ![c] = 0]
    /\ UNCHANGED <<schema, applied, plan, upwards, at, line, view, locks, failed, disturbed>>

\* It is rolled back, for one of its own errors, or as the victim of a deadlock.
OrderRolledBack(c) ==
    /\ taken[c] > 0
    /\ taken' = [taken EXCEPT ![c] = 0]
    /\ UNCHANGED <<database, plan, upwards, at, line, view, locks, failed, disturbed>>

-----------------------------------------------------------------------------
(* The statements of a run or revert *)

\* On to the next statement, or to the next migration.
Advance(m) ==
    \/ /\ line[m] < Len(Script(m))
       /\ line' = [line EXCEPT ![m] = @ + 1]
       /\ UNCHANGED at
    \/ /\ line[m] = Len(Script(m))
       /\ line' = [line EXCEPT ![m] = 1]
       /\ at' = [at EXCEPT ![m] = @ + 1]

\* Mutant: a transaction for each statement.
ExecuteAlone(m) ==
    /\ MayGoOn(m)
    /\ Works(Statement(m), schema, orders)
    /\ schema' = After(Statement(m), schema)
    /\ view' = [view EXCEPT ![m] = schema']
    /\ Advance(m)
    /\ UNCHANGED <<applied, orders, plan, upwards, locks, failed, taken, disturbed>>

Execute(m) ==
    /\ MayGoOn(m)
    /\ Works(Statement(m), view[m], orders)
    /\ view' = [view EXCEPT ![m] = After(Statement(m), @)]
    /\ locks' = [locks EXCEPT ![m] = @ \union Touches(Statement(m))]
    /\ Advance(m)
    /\ UNCHANGED <<database, plan, upwards, failed, taken, disturbed>>

\* Mutant: the locks outlive the transaction.
EndsHolding(m, why) ==
    /\ at' = [at EXCEPT ![m] = 1]
    /\ line' = [line EXCEPT ![m] = 0]
    /\ failed' = [failed EXCEPT ![m] = why]
    /\ UNCHANGED <<plan, upwards, locks, taken>>

Ends(m, why) ==
    /\ at' = [at EXCEPT ![m] = 1]
    /\ line' = [line EXCEPT ![m] = 0]
    /\ locks' = [locks EXCEPT ![m] = {}]
    /\ failed' = [failed EXCEPT ![m] = why]
    /\ UNCHANGED <<plan, upwards, taken>>

\* All is undone.
RolledBack(m, why) ==
    /\ Ends(m, why)
    /\ view' = [view EXCEPT ![m] = {}]
    /\ UNCHANGED database

StatementFails(m) ==
    /\ MayGoOn(m)
    /\ ~ Works(Statement(m), view[m], orders)
    /\ RolledBack(m, "statement")
    /\ UNCHANGED disturbed

\* PostgreSQL ends a deadlock by failing the statement of one of those in it,
\* here m.  If no order alone keeps it in, another runner does.
DeadlockDetected(m) ==
    /\ InDeadlock(m)
    /\ RolledBack(m, "deadlock")
    /\ disturbed' = [disturbed EXCEPT ![m] =
          @ \/ ~ \E c \in Clients : WaitsFor(m, c) /\ WaitsFor(c, m)]

\* The process is killed.
Killed(m) ==
    /\ line[m] > 0
    /\ RolledBack(m, "no")
    /\ UNCHANGED disturbed

\* The schema changes, the migrations table with it; other transactions see
\* the new schema from their next statement on, with their own changes.
Commit(m) ==
    /\ line[m] > 0
    /\ at[m] > Len(plan[m])
    /\ Ends(m, "no")
    /\ schema' = view[m]
    /\ view' = [n \in Runners |->
          IF line'[n] = 0 THEN {}
          ELSE (view[n] \ (schema \ view[m])) \union (view[m] \ schema)]
    /\ \/ /\ upwards[m]
          /\ applied' = applied \o plan[m]
       \/ /\ ~ upwards[m]
          /\ \E kept \in Ascending({i \in DOMAIN applied : applied[i] # plan[m][1]}) :
                applied' = [i \in DOMAIN kept |-> applied[kept[i]]]
    /\ orders' = IF "orders" \in view[m] THEN orders ELSE {}
    /\ disturbed' = [n \in Runners |-> n # m]

Next ==
    \/ \E c \in Clients :
          \/ OrderLocks(c) \/ OrderRolledBack(c)
          \/ \E u \in Users, k \in Keys : OrderCommits(c, [userId |-> u, key |-> k])
    \/ \E m \in Runners :
          \/ Run(m) \/ Revert(m) \/ Execute(m) \/ Commit(m)
          \/ StatementFails(m) \/ DeadlockDetected(m) \/ Killed(m)

Spec == Init /\ [][Next]_vars

-----------------------------------------------------------------------------
(* Correctness *)

\* Type correctness of the database and the runners; only a transaction has locks.
TypeOK ==
    /\ schema \subseteq UNION {st.creates : st \in UNION {ToSet(Up[k]) : k \in DOMAIN Up}}
    /\ applied \in Seq(DOMAIN Up)
    /\ orders \subseteq [userId : Users, key : Keys]
    /\ \A m \in Runners : line[m] \in Nat /\ (line[m] = 0 => locks[m] = {})
    /\ taken \in [Clients -> 0..Len(OrderTables)]

\* The migrations applied are the first ones, in order.  The runner takes no
\* lock: a run that read the table before another process reverted several
\* migrations applies the later ones alone.  The order is lost then, and with it
\* what down relies on.
InOrder == applied = [k \in DOMAIN applied |-> k]

\* What the statements of the first n migrations make of an empty schema (none
\* creates again what another has dropped).
Built(n) ==
    LET statements == UNION {ToSet(Up[k]) : k \in 1..n}
    IN  (UNION {st.creates : st \in statements}) \ (UNION {st.drops : st \in statements})

\* However runs, reverts, failures and kills interleave, nothing is left half
\* done or undone, and down undoes up: while the migrations are in order the
\* schema is what they make of an empty one.  Since the first one was run, none
\* has been recorded twice.  (A record from before may be left standing: of a
\* migration run after the revert of the first one was planned.)
SchemaMatchesHistory ==
    /\ InOrder => schema = Built(Len(applied))
    /\ \A l, i, j \in DOMAIN applied :
           applied[l] = 1 /\ l <= i /\ i < j => applied[i] # applied[j]

\* A run or revert fails only because another came in its way; or, the revert of
\* Migration1700000002000, because two users have used one key; or because an
\* order under way has locked products and waits for what it has locked, while it
\* needs products itself.  That can happen to a run that finds the shop there and
\* to the revert of the first migration, but to no other revert.
FailsOnlyForAReason ==
    InOrder => \A m \in Runners :
        /\ failed[m] = "statement" =>
              disturbed[m] \/ (~ upwards[m] /\ plan[m] = <<3>> /\ ~ Fit(orders, "UQ_key"))
        /\ failed[m] = "deadlock" =>
              disturbed[m] \/ (IF upwards[m] THEN plan[m][1] # 1 ELSE plan[m] = <<1>>)

\* Every committed schema that has orders also has a unique constraint on the
\* idempotency key, so that no moment of a deployment lets an order be placed
\* twice (order.entity.ts:24-26).
KeysAlwaysGuarded ==
    "orders" \in schema => {"UQ_key", "idx_user_key"} \intersect schema # {}
=============================================================================
