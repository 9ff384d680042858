--------------------------- MODULE Seeding_proofs ---------------------------
(***************************************************************************)
(* That POST /orders keeps its promises while the seed is run: the two     *)
(* never hold the same row, so that no stock read by an order is written   *)
(* behind its back.                                                        *)
(***************************************************************************)
EXTENDS OrdersService_proofs, Seeding

\* No row is locked by an order and by the seed.
LocksApart == \A p \in seedLock : rowLock[p] = None

\* The seed holds the rows its statement has passed.
SeedProcess ==
    /\ seedPc \in {"idle", "users", "products", "written", "orders", "items"}
    /\ seedLine \in Nat \ {0}
    /\ seedPc = "products" => seedLine <= Len(ProductsSeed)
    /\ seedLock = CASE seedPc = "products" -> {ProductsSeed[k] : k \in 1 .. seedLine - 1}
                    [] seedPc = "written" -> {ProductsSeed[k] : k \in DOMAIN ProductsSeed}
                    [] OTHER -> {}

SeedRows ==
    /\ seedOrders \subseteq OrdersSeed
    /\ seedItems \in [OrdersSeed -> Nat]
    /\ base \in [Catalog -> Nat]

SeedInv ==
    /\ IndInv
    /\ LedgerInv
    /\ LocksApart
    /\ SeedProcess
    /\ SeedRows

-----------------------------------------------------------------------------
(* The orders' invariant *)

\* A step of the service alone.
LEMMA OrdersStep == IndInv /\ LedgerInv /\ Next => IndInv' /\ LedgerInv'
BY TypeStep, LineStep, TxStep, PoolStep, FreshStep, KeyStep, SellStep,
   AttemptStep, LocksStep, WriteStep, WholeStep, ReplyStep, RetryStep DEF IndInv, LedgerInv

\* Whatever else happens, as long as it leaves the rows locked by orders alone.
LEMMA OtherStep ==
    ASSUME IndInv, LedgerInv, UNCHANGED <<orders, orderItems, txVars, process>>,
           faults' \in {faults, faults + 1}, stock' \in [Catalog -> Nat],
           \A p \in Catalog : rowLock[p] # None => stock'[p] = stock[p]
    PROVE  IndInv' /\ LedgerInv'
<1> USE DEF txVars, process
<1>1. TypeOK'
  <2>1. faults' \in Nat /\ stock' \in [Catalog -> Int]
    BY DEF IndInv, TypeOK
  <2> QED BY <2>1 DEF IndInv, TypeOK
<1>2. LineInv' /\ TxInv' /\ PoolInv' /\ LockedRowsAreFresh'
  BY DEF IndInv, LineInv, TxInv, PoolInv, AtWork, OrderId, LockedRowsAreFresh, Lines, ItemsOf
<1>3. KeyInv' /\ OneOrderPerKey'
  BY DEF IndInv, KeyInv, OneOrderPerKey, OrdersFor, NewOrder, OrderId, SameKey
<1>4. SellInv'
  <2>1. \A p \in Catalog : stock'[p] >= 0
    OBVIOUS
  <2> QED BY <2>1 DEF IndInv, SellInv, Enough, Lines, ItemsOf
<1>5. AttemptInv' /\ LocksInv'
  BY Bodies DEF LedgerInv, AttemptInv, OrderId, LocksInv
<1>6. WriteInv'
  <2> SUFFICES ASSUME NEW r \in Requests PROVE Written(r)'
    BY DEF WriteInv
  <2>1. \A k : RowOf(OrderId(r), k)' = RowOf(OrderId(r), k) /\ Remaining(r, k)' = Remaining(r, k)
    BY DEF RowOf, OrderId, Remaining, ItemsOf
  <2>2. StockWritten(r)' = StockWritten(r) /\ ItemsWritten(r)' = ItemsWritten(r)
    BY DEF StockWritten, ItemsWritten
  <2> QED BY <2>1, <2>2, Bodies DEF LedgerInv, WriteInv, Written
<1>7. WholeOrders'
  BY DEF LedgerInv, WholeOrders, RowOf, Lines, ItemsOf
<1>8. ReplyInv'
  BY DEF LedgerInv, ReplyInv, OrdersFor, OrderId
<1>9. RetryInv'
  <2>1. faults' > 0 \/ ~ faults > 0
    BY DEF IndInv, TypeOK
  <2> QED BY <2>1 DEF LedgerInv, RetryInv, OrdersFor
<1> QED BY <1>1, <1>2, <1>3, <1>4, <1>5, <1>6, <1>7, <1>8, <1>9 DEF IndInv, LedgerInv

\* An order's statement is failed to let the seed go on.
LEMMA VictimStep ==
    ASSUME IndInv, LedgerInv, NEW r \in Requests, tx[r] = "open", pc[r] \in {"lock", "save_order"},
           StatementError(r), UNCHANGED faults
    PROVE  IndInv' /\ LedgerInv'
<1> USE DEF IndInv, LedgerInv
<1>1. /\ UNCHANGED <<stock, orders, orderItems, pool, unstarted, productMap, line, sends, existed, faults>>
      /\ EndTransactions({r}, "aborted")
      /\ reply' = [reply EXCEPT ![r] = Refusal(500)]
      /\ pc' = [pc EXCEPT ![r] = "rollback"]
  BY DEF StatementError, tables, poolVars, locals, client, Answer, Goto
<1>2. /\ pc'[r] = "rollback" /\ reply'[r].status = 500
      /\ \A s \in Requests \ {r} : pc'[s] = pc[s] /\ reply'[s] = reply[s]
  BY <1>1 DEF TypeOK, Refusal
<1>3. /\ tx'[r] = "aborted" /\ txOrder'[r] = {} /\ txItems'[r] = {} /\ txStock'[r] = NoStock
      /\ \A p \in Catalog : rowLock'[p] = IF rowLock[p] = r THEN None ELSE rowLock[p]
      /\ \A s \in Requests \ {r} : /\ tx'[s] = tx[s] /\ txOrder'[s] = txOrder[s]
                                   /\ txItems'[s] = txItems[s] /\ txStock'[s] = txStock[s]
  BY <1>1 DEF EndTransactions
<1>4. TypeOK'
  BY <1>1, EndTypes, ReplyTypes DEF TypeOK, PCs, HasConnection, InTransaction
<1>5. LineInv'
  BY <1>1, <1>2 DEF LineInv, Lines, ItemsOf
<1>6. TxInv'
  BY <1>2, <1>3, NoneAssumption DEF TxInv, InTransaction
<1>7. PoolInv'
  BY <1>1, <1>2 DEF PoolInv, AtWork, OrderId, HasConnection, InTransaction
<1>8. LockedRowsAreFresh'
  BY <1>1, <1>3 DEF LockedRowsAreFresh
<1>9. KeyInv' /\ OneOrderPerKey'
  BY <1>1, <1>3 DEF KeyInv, OneOrderPerKey, OrdersFor, NewOrder, OrderId, SameKey
<1>10. SellInv'
  <2>1. \A s \in Requests, p \in Catalog : txStock'[s][p] >= 0
    BY <1>3 DEF SellInv, NoStock
  <2> QED BY <1>1, <1>2, <2>1 DEF SellInv, Enough, Lines, ItemsOf
<1>11. AttemptInv'
  BY <1>1, <1>2 DEF AttemptInv, OrderId
<1>12. LocksInv'
  <2>1. \A s \in Requests, p \in Catalog : rowLock'[p] = s <=> rowLock[p] = s /\ s # r
    BY <1>3, NoneAssumption
  <2>2. ASSUME NEW s \in Requests, NEW p \in Catalog, rowLock'[p] = s PROVE p \in Found(s)
    BY <2>1, <2>2 DEF LocksInv
  <2>3. ASSUME NEW s \in Requests, pc'[s] \in Selling
        PROVE  ~ LengthsDiffer(s) /\ (tx'[s] = "open" => \A p \in Found(s) : rowLock'[p] = s)
    <3>1. s # r /\ pc'[s] = pc[s] /\ tx'[s] = tx[s]
      BY <1>2, <1>3, <2>3 DEF Selling, Writing
    <3> QED BY <2>1, <2>3, <3>1 DEF LocksInv, Found
  <2> QED BY <2>2, <2>3, Bodies DEF LocksInv
<1>13. WriteInv'
  <2> SUFFICES ASSUME NEW s \in Requests \ {r} PROVE Written(s)'
    BY <1>3 DEF WriteInv, Written
  <2>1. \A k : RowOf(OrderId(s), k)' = RowOf(OrderId(s), k) /\ Remaining(s, k)' = Remaining(s, k)
    BY <1>1 DEF RowOf, OrderId, Remaining, ItemsOf
  <2>2. StockWritten(s)' = StockWritten(s) /\ ItemsWritten(s)' = ItemsWritten(s)
    BY <1>1, <1>2 DEF StockWritten, ItemsWritten
  <2>3. Written(s)
    BY DEF WriteInv
  <2>4. /\ pc'[s] = pc[s] /\ tx'[s] = tx[s] /\ txOrder'[s] = txOrder[s] /\ txItems'[s] = txItems[s]
        /\ txStock'[s] = txStock[s] /\ line'[s] = line[s]
    BY <1>1, <1>2, <1>3
  <2> QED BY <2>1, <2>2, <2>3, <2>4, Bodies DEF Written
<1>14. WholeOrders'
  BY <1>1 DEF WholeOrders, RowOf, Lines, ItemsOf
<1>15. ReplyInv'
  BY <1>1, <1>2 DEF ReplyInv, OrdersFor, OrderId
<1>16. RetryInv'
  BY <1>1, <1>2 DEF RetryInv, OrdersFor
<1> QED BY <1>4, <1>5, <1>6, <1>7, <1>8, <1>9, <1>10, <1>11, <1>12, <1>13, <1>14, <1>15, <1>16

\* Who is on a cycle with the seed waits, for the seed or for another order.
LEMMA VictimsWait ==
    ASSUME NEW r \in SeedCycle
    PROVE  r \in Requests /\ tx[r] = "open" /\ pc[r] \in {"lock", "save_order"}
<1> DEFINE Waiting == {x \in Requests : tx[x] = "open" /\ pc[x] \in {"lock", "save_order"}}
<1>1. Waiting \in SUBSET Requests
  OBVIOUS
<1>2. \A x \in Requests : WaitsForSeed(x) \/ (\E y \in Waiting : WaitsFor(x, y)) => x \in Waiting
  BY DEF WaitsForSeed, WaitsFor, At
<1>3. r \in Waiting
  BY <1>1, <1>2 DEF SeedCycle
<1> QED BY <1>3

-----------------------------------------------------------------------------
(* The seed *)

\* Neither takes a row while the other holds it.
LEMMA LocksApartStep ==
    ASSUME IndInv, LocksApart, SeedProcess, SeedNext
    PROVE  LocksApart'
<1> USE DEF LocksApart
<1>1. ASSUME seedLock' = seedLock, \A p \in seedLock : rowLock'[p] = rowLock[p] \/ rowLock'[p] = None
      PROVE  LocksApart'
  BY <1>1
<1>2. seedLock \subseteq Catalog
  <2>1. \A k \in 1 .. Len(ProductsSeed) : ProductsSeed[k] \in Catalog
    BY SeedAssumption
  <2>2. DOMAIN ProductsSeed = 1 .. Len(ProductsSeed) /\ Len(ProductsSeed) \in Nat
    BY SeedAssumption
  <2> QED BY <2>1, <2>2 DEF SeedProcess
<1>3. ASSUME NEW S, NEW state, EndTransactions(S, state), seedLock' = seedLock PROVE LocksApart'
  BY <1>1, <1>2, <1>3 DEF EndTransactions
<1>4. ASSUME rowLock' = rowLock, seedLock' = seedLock \/ seedLock' = {} PROVE LocksApart'
  BY <1>4
<1>5. ASSUME NEW r \in Requests, Post(r) \/ PostRejected(r) \/ GoWrong(r), UNCHANGED seedVars PROVE LocksApart'
  <2>1. CASE Post(r) \/ PostRejected(r) \/ PreludeFails(r) \/ StartTransactionFails(r)
    BY <1>4, <1>5, <2>1 DEF Post, PostRejected, PreludeFails, StartTransactionFails, txVars, seedVars
  <2>2. CASE StatementFails(r) \/ ConnectionLost(r) \/ CommitUnacknowledged(r)
    BY <1>3, <1>5, <2>2 DEF StatementFails, StatementError, ConnectionLost, CommitUnacknowledged, ApplyCommit, seedVars
  <2> QED BY <1>5, <2>1, <2>2 DEF GoWrong
<1>6. ASSUME NEW r \in Requests, Serves(r) PROVE LocksApart'
  BY <1>1, <1>6 DEF Serves, seedVars
<1>7. ASSUME Crash, UNCHANGED seedVars PROVE LocksApart'
  BY <1>3, <1>7 DEF Crash, seedVars
<1>8. CASE SeedStarts \/ UpsertUser \/ UpsertProducts \/ UpsertOrders \/ UpsertItems \/ SeedFails
  BY <1>4, <1>8 DEF SeedStarts, UpsertUser, UpsertProducts, UpsertOrders, UpsertItems, SeedFails, SeedAborts,
       vars, txVars
<1>9. ASSUME NEW p \in Catalog, LockRow(p) PROVE LocksApart'
  BY <1>9 DEF LockRow, SeedHolds, vars
<1>10. CASE SeedDeadlockDetected
  <2>1. CASE SeedAborts /\ UNCHANGED <<txVars, faults>>
    BY <1>4, <2>1 DEF SeedAborts, txVars
  <2>2. CASE \E r \in SeedCycle : StatementError(r) /\ UNCHANGED <<faults, seedVars>>
    BY <1>3, <2>2 DEF StatementError, seedVars
  <2> QED BY <1>10, <2>1, <2>2 DEF SeedDeadlockDetected
<1> QED BY <1>5, <1>6, <1>7, <1>8, <1>9, <1>10 DEF SeedNext, Seeds

\* The seed holds the rows it has passed, and lets go of them when its statement ends.
LEMMA SeedProcessStep == SeedProcess /\ SeedNext => SeedProcess'
<1> SUFFICES ASSUME SeedProcess, SeedNext PROVE SeedProcess'
  OBVIOUS
<1>1. Len(ProductsSeed) \in Nat /\ Len(ProductsSeed) >= 1 /\ DOMAIN ProductsSeed = 1 .. Len(ProductsSeed)
  BY SeedAssumption
<1>2. CASE UNCHANGED seedVars
  BY <1>2 DEF SeedProcess, seedVars
<1>3. ASSUME seedPc' \notin {"products", "written"},
             seedPc' \in {"idle", "users", "orders", "items"}, seedLine' \in Nat \ {0}, seedLock' = {}
      PROVE  SeedProcess'
  BY <1>3 DEF SeedProcess
<1>4. CASE SeedStarts \/ UpsertOrders \/ UpsertItems \/ UpsertProducts
  BY <1>3, <1>4 DEF SeedStarts, UpsertOrders, UpsertItems, UpsertProducts, SeedGoto, SeedProcess
<1>5. CASE SeedAborts
  BY <1>3, <1>5 DEF SeedAborts, SeedProcess
<1>6. CASE UpsertUser
  <2>1. seedLock = {} /\ seedLock' = {} /\ seedLine' \in Nat \ {0}
    BY <1>6 DEF UpsertUser, SeedProcess
  <2>2. seedPc' = "users" \/ (seedPc' = "products" /\ seedLine' = 1)
    BY <1>6 DEF UpsertUser
  <2>3. 1 .. 1 - 1 = {}
    OBVIOUS
  <2> QED BY <1>1, <1>3, <2>1, <2>2, <2>3 DEF SeedProcess
<1>7. ASSUME NEW p \in Catalog, LockRow(p) PROVE SeedProcess'
  <2>1. /\ seedPc = "products" /\ seedLine \in 1 .. Len(ProductsSeed)
        /\ seedLock' = {ProductsSeed[k] : k \in 1 .. seedLine - 1} \union {ProductsSeed[seedLine]}
    BY <1>1, <1>7 DEF LockRow, SeedHolds, SeedProcess
  <2>2. 1 .. seedLine = (1 .. seedLine - 1) \union {seedLine}
    BY <2>1
  <2>3. seedLock' = {ProductsSeed[k] : k \in 1 .. seedLine}
    BY <2>1, <2>2
  <2>4. CASE seedLine < Len(ProductsSeed)
    <3>1. seedLine' = seedLine + 1 /\ seedPc' = "products"
      BY <1>7, <2>1, <2>4 DEF LockRow, SeedHolds
    <3>2. seedLine' - 1 = seedLine /\ seedLine' \in Nat \ {0} /\ seedLine' <= Len(ProductsSeed)
      BY <1>1, <2>1, <2>4, <3>1
    <3> QED BY <2>3, <3>1, <3>2 DEF SeedProcess
  <2>5. CASE ~ seedLine < Len(ProductsSeed)
    <3>1. seedLine = Len(ProductsSeed)
      BY <1>1, <2>1, <2>5
    <3>2. seedLine' = 1 /\ seedPc' = "written"
      BY <1>7, <2>5 DEF LockRow, SeedHolds
    <3> QED BY <1>1, <2>3, <3>1, <3>2 DEF SeedProcess
  <2> QED BY <2>4, <2>5
<1>8. CASE SeedFails \/ SeedDeadlockDetected
  BY <1>2, <1>5, <1>8 DEF SeedFails, SeedDeadlockDetected
<1> QED BY <1>2, <1>4, <1>5, <1>6, <1>7, <1>8 DEF SeedNext, Seeds, Serves

\* It writes what its file has.
LEMMA SeedRowsStep == SeedRows /\ SeedNext => SeedRows'
<1> SUFFICES ASSUME SeedRows, SeedNext PROVE SeedRows'
  OBVIOUS
<1>1. CASE UNCHANGED <<seedTables, base>>
  BY <1>1 DEF SeedRows, seedTables
<1>2. CASE UpsertUser \/ UpsertOrders
  BY <1>2 DEF UpsertUser, UpsertOrders, OrdersToUpsert, SeedRows
<1>3. CASE UpsertItems
  BY <1>3, SeedAssumption DEF UpsertItems, SeedRows
<1>4. CASE UpsertProducts
  BY <1>4, SeedAssumption DEF UpsertProducts, SeedRows, seedTables
<1>5. \/ UNCHANGED <<seedTables, base>> \/ UpsertUser \/ UpsertOrders \/ UpsertItems \/ UpsertProducts
  BY DEF SeedNext, Seeds, Serves, SeedStarts, LockRow, SeedHolds, SeedDeadlockDetected, SeedFails, SeedAborts, seedVars
<1> QED BY <1>1, <1>2, <1>3, <1>4, <1>5

-----------------------------------------------------------------------------
(* The invariant *)

\* Every step, of an order or of the seed, keeps the invariant of both.
LEMMA SeedStep == SeedInv /\ SeedNext => SeedInv'
<1> SUFFICES ASSUME SeedInv, SeedNext PROVE SeedInv'
  OBVIOUS
<1> USE DEF SeedInv
<1>1. LocksApart' /\ SeedProcess' /\ SeedRows'
  BY LocksApartStep, SeedProcessStep, SeedRowsStep
<1>2. stock \in [Catalog -> Nat]
  BY DEF IndInv, TypeOK, SellInv
<1>3. CASE Next
  BY <1>1, <1>3, OrdersStep
<1>4. ASSUME UNCHANGED <<stock, orders, orderItems, txVars, process>>, faults' \in {faults, faults + 1}
      PROVE  IndInv' /\ LedgerInv'
  BY <1>2, <1>4, OtherStep
<1>5. CASE UpsertProducts
  <2>1. stock' \in [Catalog -> Nat]
    BY <1>2, <1>5, SeedAssumption DEF UpsertProducts
  <2>2. \A p \in Catalog : rowLock[p] # None => stock'[p] = stock[p]
    BY <1>5 DEF UpsertProducts, LocksApart
  <2>3. UNCHANGED <<orders, orderItems, txVars, process, faults>>
    BY <1>5 DEF UpsertProducts
  <2> QED BY <1>1, <2>1, <2>2, <2>3, OtherStep
<1>6. ASSUME NEW r \in SeedCycle, StatementError(r), UNCHANGED <<faults, seedVars>> PROVE SeedInv'
  BY <1>1, <1>6, VictimsWait, VictimStep
<1>7. CASE SeedStarts \/ UpsertUser \/ UpsertOrders \/ UpsertItems \/ \E p \in Catalog : LockRow(p)
  <2>1. UNCHANGED vars
    BY <1>7 DEF SeedStarts, UpsertUser, UpsertOrders, UpsertItems, LockRow, SeedHolds
  <2> QED BY <1>1, <1>4, <2>1 DEF vars, txVars, process
<1>8. CASE SeedAborts /\ UNCHANGED txVars /\ (Fault \/ faults' = faults)
  BY <1>1, <1>4, <1>8 DEF SeedAborts, tables, Fault
<1>9. ASSUME NEW r \in Requests, Serves(r) PROVE Next
  BY <1>9 DEF Serves, Next
<1>10. Next \/ SeedStarts \/ Seeds \/ SeedFails
  BY <1>9 DEF SeedNext, Next
<1> QED BY <1>3, <1>5, <1>6, <1>7, <1>8, <1>10 DEF Seeds, SeedDeadlockDetected, SeedFails

\* A stuttering step keeps it.
LEMMA SeedStutter == SeedInv /\ UNCHANGED allVars => SeedInv'
<1> SUFFICES ASSUME SeedInv, UNCHANGED allVars PROVE SeedInv'
  OBVIOUS
<1>1. IndInv' /\ LedgerInv'
  BY Stutter, LedgerStutter DEF SeedInv, allVars
<1>2. LocksApart' /\ SeedProcess' /\ SeedRows'
  BY DEF SeedInv, allVars, vars, seedVars, seedTables, LocksApart, SeedProcess, SeedRows
<1> QED BY <1>1, <1>2 DEF SeedInv

\* It holds before anything has happened.
LEMMA SeedInitInv == SeedInit => SeedInv
<1> SUFFICES ASSUME SeedInit PROVE SeedInv
  OBVIOUS
<1>1. IndInv /\ LedgerInv
  BY InitInv, LedgerInit DEF SeedInit
<1>2. LocksApart /\ SeedProcess /\ SeedRows
  BY StockAssumption DEF SeedInit, LocksApart, SeedProcess, SeedRows
<1> QED BY <1>1, <1>2 DEF SeedInv

\* The orders' invariant, and with it the seed's, holds in every state the
\* service and the seed reach together.
THEOREM SeedInvariance == SeedSpec => []SeedInv
<1>1. SeedInv /\ [SeedNext]_allVars => SeedInv'
  BY SeedStep, SeedStutter
<1> QED BY <1>1, SeedInitInv, PTL DEF SeedSpec

\* No stock is written behind the back of an order that has read it, by another
\* order or by the seed.
THEOREM FreshBesideTheSeed == SeedSpec => []LockedRowsAreFresh
<1>1. SeedInv => LockedRowsAreFresh
  BY DEF SeedInv, IndInv
<1> QED BY <1>1, SeedInvariance, PTL

\* The seed sets the stock back, and still nothing is sold that is not there.
THEOREM NeverOversoldBesideTheSeed == SeedSpec => []NoOversell
<1>1. SeedInv => NoOversell
  BY DEF SeedInv, IndInv, SellInv, NoOversell
<1> QED BY <1>1, SeedInvariance, PTL

\* An order the seed's lock makes fail leaves no half of it, its answer is true, and
\* it keeps nothing: what is kept is still kept by failed startTransactions alone.
THEOREM OrdersBesideTheSeed ==
    SeedSpec => [](WholeOrders /\ OneOrderPerKey /\ AnswersAreTrue /\ RetryGetsTheOrder /\ OnlyFailedStartsKeep)
<1>1. SeedInv => WholeOrders /\ OneOrderPerKey /\ OnlyFailedStartsKeep
  BY DEF SeedInv, IndInv, LedgerInv, TxInv, PoolInv, OnlyFailedStartsKeep
<1>2. SeedInv => AnswersAreTrue /\ RetryGetsTheOrder
  BY DEF SeedInv, LedgerInv, AttemptInv, ReplyInv, RetryInv, AnswersAreTrue, RetryGetsTheOrder
<1> QED BY <1>1, <1>2, SeedInvariance, PTL

-----------------------------------------------------------------------------
(* The stock *)

\* What the history of the seed says of the stock, of finitely many items.
HistoryInv ==
    /\ ItemsFinite
    /\ soldBefore \in [Catalog -> Nat]
    /\ StockSinceSeed

\* Nothing else than an order and the upsert of the products sells or restocks.
LEMMA StockChanges ==
    ASSUME SeedNext
    PROVE  \/ Next /\ UNCHANGED <<base, soldBefore>>
           \/ UNCHANGED <<stock, orderItems, base, soldBefore>>
           \/ UpsertProducts
<1>1. ASSUME NEW r \in Requests, Serves(r) PROVE Next /\ UNCHANGED <<base, soldBefore>>
  BY <1>1 DEF Serves, Next, seedVars
<1>2. ASSUME NEW r \in Requests, (Post(r) \/ PostRejected(r) \/ GoWrong(r)) /\ UNCHANGED seedVars
      PROVE  Next /\ UNCHANGED <<base, soldBefore>>
  BY <1>2 DEF Next, seedVars
<1>3. CASE Crash /\ UNCHANGED seedVars
  BY <1>3 DEF Next, seedVars
<1>4. CASE SeedStarts \/ UpsertUser \/ UpsertOrders \/ UpsertItems \/ \E p \in Catalog : LockRow(p)
  BY <1>4 DEF SeedStarts, UpsertUser, UpsertOrders, UpsertItems, LockRow, SeedHolds, vars
<1>5. CASE SeedFails \/ SeedDeadlockDetected
  BY <1>5 DEF SeedFails, SeedDeadlockDetected, SeedAborts, StatementError, tables, seedVars
<1> QED BY <1>1, <1>2, <1>3, <1>4, <1>5 DEF SeedNext, Seeds

\* What is sold is a natural number after a step, too.
LEMMA SoldTypesNext == (TypeOK /\ ItemsFinite => \A p : Sold(p) \in Nat)'
<1>1. TypeOK /\ ItemsFinite => \A p : Sold(p) \in Nat
  BY SoldTypes
<1> QED BY <1>1, PTL

\* Stock and sales since the seed keep making up what the seed has written.
LEMMA HistoryStep ==
    ASSUME SeedInv, HistoryInv, [SeedNext]_allVars
    PROVE  HistoryInv'
<1> USE DEF HistoryInv
<1>0. TypeOK'
  BY SeedStep, SeedStutter DEF SeedInv, IndInv
<1>1. /\ stock \in [Catalog -> Int] /\ base \in [Catalog -> Nat]
      /\ \A p : Sold(p) \in Nat
  BY SoldTypes DEF SeedInv, IndInv, TypeOK, SeedRows
<1>2. \A p \in Catalog : stock[p] \in Int /\ base[p] \in Nat /\ soldBefore[p] \in Nat
  BY <1>1
<1>3. ASSUME UNCHANGED <<base, soldBefore>>, ItemsFinite', TypeOK',
             \A p \in Catalog : stock'[p] + Sold(p)' = stock[p] + Sold(p)
      PROVE  HistoryInv'
  <2>1. ASSUME NEW p \in Catalog PROVE stock'[p] + Sold(p)' - soldBefore'[p] = base'[p]
    <3>1. stock[p] + Sold(p) - soldBefore[p] = base[p]
      BY DEF StockSinceSeed
    <3>2. stock'[p] + Sold(p)' = stock[p] + Sold(p)
      BY <1>3
    <3>3. stock'[p] \in Int /\ Sold(p)' \in Nat
      BY <1>3, SoldTypesNext DEF TypeOK
    <3> QED BY <1>1, <1>2, <1>3, <3>1, <3>2, <3>3
  <2> QED BY <1>3, <2>1 DEF StockSinceSeed
<1>4. CASE Next /\ UNCHANGED <<base, soldBefore>>
  BY <1>0, <1>3, <1>4, StockStep DEF SeedInv
<1>5. ASSUME orderItems' = orderItems PROVE ItemsFinite' /\ \A p : Sold(p)' = Sold(p)
  BY <1>5, SoldSums, SoldSumsNext DEF ItemsFinite
<1>6. CASE UNCHANGED <<stock, orderItems, base, soldBefore>>
  BY <1>0, <1>3, <1>5, <1>6
<1>7. CASE UpsertProducts
  <2>1. /\ orderItems' = orderItems
        /\ \A p \in Catalog : /\ stock'[p] = IF p \in seedLock THEN SeedStock[p] ELSE stock[p]
                              /\ base'[p] = IF p \in seedLock THEN SeedStock[p] ELSE base[p]
                              /\ soldBefore'[p] = IF p \in seedLock THEN Sold(p) ELSE soldBefore[p]
    BY <1>7 DEF UpsertProducts
  <2>2. soldBefore' \in [Catalog -> Nat]
    BY <1>1, <1>2, <1>7 DEF UpsertProducts
  <2>3. ASSUME NEW p \in Catalog PROVE stock'[p] + Sold(p)' - soldBefore'[p] = base'[p]
    <3>1. CASE p \in seedLock
      <4>1. SeedStock[p] \in Nat
        BY SeedAssumption
      <4> QED BY <1>1, <1>5, <2>1, <3>1, <4>1
    <3>2. CASE p \notin seedLock
      <4>1. stock[p] + Sold(p) - soldBefore[p] = base[p]
        BY DEF StockSinceSeed
      <4> QED BY <1>5, <2>1, <3>2, <4>1
    <3> QED BY <3>1, <3>2
  <2> QED BY <1>5, <2>1, <2>2, <2>3 DEF StockSinceSeed
<1>8. CASE UNCHANGED allVars
  BY <1>6, <1>8 DEF allVars, vars, seedVars
<1> QED BY <1>4, <1>6, <1>7, <1>8, StockChanges

\* What is left and what has been sold since make up what the seed has written
\* last, whatever runs beside it.
THEOREM HistoryInvariance == SeedSpec => []HistoryInv
<1>1. SeedInit => HistoryInv
  <2> SUFFICES ASSUME SeedInit PROVE HistoryInv
    OBVIOUS
  <2>1. ItemsFinite /\ StockConserved
    BY StockInit DEF SeedInit
  <2>2. base = InitialStock /\ soldBefore = [p \in Catalog |-> 0] /\ InitialStock \in [Catalog -> Nat]
    BY StockAssumption DEF SeedInit, NoStock
  <2>3. \A p \in Catalog : stock[p] \in Int /\ Sold(p) \in Nat
    BY <2>1, InitInv, SoldTypes DEF SeedInit, IndInv, TypeOK
  <2>4. \A p \in Catalog : stock[p] + Sold(p) - soldBefore[p] = base[p]
    BY <2>1, <2>2, <2>3 DEF StockConserved
  <2> QED BY <2>1, <2>2, <2>4 DEF HistoryInv, StockSinceSeed
<1>2. SeedInv /\ HistoryInv /\ [SeedNext]_allVars => HistoryInv'
  BY HistoryStep
<1> QED BY <1>1, <1>2, SeedInvariance, PTL DEF SeedSpec

\* The seed sets the stock back, and no order undoes that or is lost by it.
THEOREM StockFromTheSeedOn == SeedSpec => []StockSinceSeed
<1>1. HistoryInv => StockSinceSeed
  BY DEF HistoryInv
<1> QED BY <1>1, HistoryInvariance, PTL

\* Type correctness of the seed beside the service.
THEOREM SeedTypeCorrect == SeedSpec => []SeedTypeOK
<1>1. SeedInv /\ HistoryInv => SeedTypeOK
  BY DEF SeedInv, HistoryInv, IndInv, SeedProcess, SeedRows, SeedTypeOK
<1> QED BY <1>1, SeedInvariance, HistoryInvariance, PTL
=============================================================================
