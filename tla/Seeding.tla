------------------------------- MODULE Seeding -------------------------------
(***************************************************************************)
(* src/seed/seed.ts run against the database of a service that takes       *)
(* orders (OrdersService): README.md has the seed as a one-off job at any  *)
(* time, and compose.yml starts it beside the api.  The products are one   *)
(* upsert, which locks the rows one after the other in the order of        *)
(* productsSeed and gives each its stock of the file.                      *)
(***************************************************************************)
EXTENDS OrdersService

CONSTANTS
    UsersSeed,      \* emails of usersSeed
    ProductsSeed,   \* productsSeed: the products in order
    SeedStock,      \* their stock
    OrdersSeed,     \* ordersSeed: id, userEmail, items
    MaxSeeds        \* bound: runs of the seed

ASSUME SeedAssumption ==
    /\ ProductsSeed \in Seq(Catalog)
    /\ Len(ProductsSeed) >= 1
    /\ SeedStock \in [Catalog -> Nat]
    /\ \A o \in OrdersSeed : o.items \in Nat

VARIABLES
    seedPc,         \* the statement the seed is at
    seedLine,       \* the row of usersSeed or productsSeed
    seedLock,       \* the rows of products its statement has locked
    emails,         \* emails of users the seed has written
    seedOrders,     \* orders it has written
    seedItems,      \* order items it has written: a bag, order to count
    seeds,          \* runs so far
    base,           \* history: the stock as written last by something other than an order
    soldBefore      \* history: what had been sold by then

seedTables == <<emails, seedOrders, seedItems>>
seedVars == <<seedPc, seedLine, seedLock, seedTables, seeds, base, soldBefore>>
process == <<pool, unstarted, pc, productMap, line, reply, sends, existed>>
allVars == <<vars, seedVars>>

SeedInit ==
    /\ Init
    /\ seedPc = "idle"
    /\ seedLine = 1
    /\ seedLock = {}
    /\ emails = {}
    /\ seedOrders = {}
    /\ seedItems = [o \in OrdersSeed |-> 0]
    /\ seeds = 0
    /\ base = InitialStock
    /\ soldBefore = NoStock

-----------------------------------------------------------------------------
(* The seed *)

SeedGoto(from, to) == seedPc = from /\ seedPc' = to

SeedStarts ==
    /\ SeedGoto("idle", "users")
    /\ seeds < MaxSeeds
    /\ seeds' = seeds + 1
    /\ seedLine' = 1
    /\ UNCHANGED <<vars, seedLock, seedTables, base, soldBefore>>

\* usersRepository.upsert, a statement for each user.
UpsertUser ==
    /\ seedPc = "users"
    /\ emails' = emails \union {UsersSeed[seedLine]}
    /\ IF seedLine < Len(UsersSeed)
       THEN seedLine' = seedLine + 1 /\ UNCHANGED seedPc
       ELSE seedLine' = 1 /\ seedPc' = "products"
    /\ UNCHANGED <<vars, seedLock, seedOrders, seedItems, seeds, base, soldBefore>>

SeedHolds(p) ==
    /\ seedPc = "products"
    /\ p = ProductsSeed[seedLine]
    /\ seedLock' = seedLock \union {p}
    /\ IF seedLine < Len(ProductsSeed)
       THEN seedLine' = seedLine + 1 /\ UNCHANGED seedPc
       ELSE seedLine' = 1 /\ seedPc' = "written"
    /\ UNCHANGED <<vars, seedTables, seeds, base, soldBefore>>

\* Mutant: a row locked by an order is written without waiting.
LockRowAtOnce(p) == SeedHolds(p)

\* productsRepository.upsert reaches a row, and waits for an order that has it.
LockRow(p) == rowLock[p] = None /\ SeedHolds(p)

\* The upsert is committed.
UpsertProducts ==
    /\ SeedGoto("written", "orders")
    /\ stock' = [p \in Catalog |-> IF p \in seedLock THEN SeedStock[p] ELSE stock[p]]
    /\ base' = [p \in Catalog |-> IF p \in seedLock THEN SeedStock[p] ELSE base[p]]
    /\ soldBefore' = [p \in Catalog |-> IF p \in seedLock THEN Sold(p) ELSE soldBefore[p]]
    /\ seedLock' = {}
    /\ UNCHANGED <<orders, orderItems, txVars, process, faults, seedLine, seedTables, seeds>>

\* An order of the file is kept if its user is one of usersSeed.
OrdersToUpsert == {o \in OrdersSeed : o.userEmail \in emails}

\* ordersRepository.upsert, on the id.
UpsertOrders ==
    /\ SeedGoto("orders", "items")
    /\ seedOrders' = seedOrders \union OrdersToUpsert
    /\ UNCHANGED <<vars, seedLine, seedLock, emails, seedItems, seeds, base, soldBefore>>

\* orderItemsRepository.upsert, on an id that is never given: a row more each time.
UpsertItems ==
    /\ SeedGoto("items", "idle")
    /\ seedItems' = [o \in OrdersSeed |->
                        seedItems[o] + (IF o \in OrdersToUpsert THEN o.items ELSE 0)]
    /\ UNCHANGED <<vars, seedLine, seedLock, emails, seedOrders, seeds, base, soldBefore>>

\* Mutant: the connection outlives the statement.
SeedAbortsHolding ==
    /\ seedPc # "idle"
    /\ seedPc' = "idle"
    /\ UNCHANGED <<tables, process, seedLine, seedLock, seedTables, seeds, base, soldBefore>>

\* The statement the seed is at is undone, finally closes the connection, and
\* the process exits with 1.
SeedAborts ==
    /\ seedPc # "idle"
    /\ seedPc' = "idle"
    /\ seedLock' = {}
    /\ UNCHANGED <<tables, process, seedLine, seedTables, seeds, base, soldBefore>>

SeedFails == SeedAborts /\ Fault /\ UNCHANGED txVars

-----------------------------------------------------------------------------
(* Waiting for each other *)

SeedWaitsFor(r) ==
    seedPc = "products" /\ rowLock[ProductsSeed[seedLine]] = r

WaitsForSeed(r) ==
    At(r, "lock") /\ \E p \in Found(r) : rowLock[p] # r /\ p \in seedLock

\* The transactions that lie on a cycle of waiting through the seed: those the
\* seed waits for, through others or not, which so wait for the seed.
SeedCycle == {r \in Requests :
    /\ \A S \in SUBSET Requests :
           (\A x \in Requests : SeedWaitsFor(x) \/ (\E y \in S : WaitsFor(y, x)) => x \in S) => r \in S
    /\ \A S \in SUBSET Requests :
           (\A x \in Requests : WaitsForSeed(x) \/ (\E y \in S : WaitsFor(x, y)) => x \in S) => r \in S}

\* Mutant: no deadlock detection.
NoDetection == FALSE

\* deadlock_timeout: PostgreSQL fails the seed's statement or an order's.
SeedDeadlockDetected ==
    \/ SeedCycle # {} /\ SeedAborts /\ UNCHANGED <<txVars, faults>>
    \/ \E r \in SeedCycle : StatementError(r) /\ UNCHANGED <<faults, seedVars>>

-----------------------------------------------------------------------------
Seeds ==
    \/ UpsertUser \/ \E p \in Catalog : LockRow(p)
    \/ UpsertProducts \/ UpsertOrders \/ UpsertItems \/ SeedDeadlockDetected

\* A row the seed has locked is given to no order.
Serves(r) ==
    /\ Serve(r)
    /\ \A p \in seedLock : rowLock'[p] = rowLock[p] \/ rowLock'[p] = None
    /\ UNCHANGED seedVars

SeedNext ==
    \/ \E r \in Requests : (Post(r) \/ PostRejected(r) \/ GoWrong(r)) /\ UNCHANGED seedVars
    \/ \E r \in Requests : Serves(r)
    \/ Crash /\ UNCHANGED seedVars
    \/ SeedStarts \/ Seeds \/ SeedFails

SeedSpec == SeedInit /\ [][SeedNext]_allVars

\* As for OrdersService; the process of the seed runs on, too.
SeedFairSpec ==
    SeedSpec /\ WF_allVars(Seeds) /\ \A r \in Requests : WF_allVars(Serves(r))

-----------------------------------------------------------------------------
(* Correctness *)

\* Type correctness of the seed's process and rows; it holds the rows of
\* products its statement has passed, and none outside it.
SeedTypeOK ==
    /\ TypeOK
    /\ seedPc \in {"idle", "users", "products", "written", "orders", "items"}
    /\ seedLine \in Nat \ {0}
    /\ seedLock = CASE seedPc = "products" -> {ProductsSeed[k] : k \in 1 .. seedLine - 1}
                    [] seedPc = "written" -> {ProductsSeed[k] : k \in DOMAIN ProductsSeed}
                    [] OTHER -> {}
    /\ seedOrders \subseteq OrdersSeed
    /\ seedItems \in [OrdersSeed -> Nat]
    /\ base \in [Catalog -> Nat] /\ soldBefore \in [Catalog -> Nat]

\* The seed sets the stock back (seed.ts:134), whatever has been sold; an order
\* under way neither undoes that with the stock it read before, nor is it lost:
\* the stock is the seed's less what has been sold since.
StockSinceSeed ==
    \A p \in Catalog : stock[p] + Sold(p) - soldBefore[p] = base[p]

\* Orders and the seed may wait for each other's rows, but every run ends.
SeedEnds == seedPc = "users" ~> seedPc = "idle"

\* "userEmail: 'alice@example.com'" (seed.ts:72): the file's orders belong to
\* its users, and are there once a run has got past them.
SeedOrdersAreThere == seedPc = "items" => seedOrders = OrdersSeed
=============================================================================
