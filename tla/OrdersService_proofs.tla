----------------------- MODULE OrdersService_proofs -----------------------
(***************************************************************************)
(* Proofs about OrdersService, for any products, bodies, faults and size   *)
(* of the pool.  First the types and what the database guarantees: the     *)
(* pool, the locks, fresh rows, no overselling (IndInv).  Then that POST   *)
(* /orders implements the ledger, and what that takes: orders are whole,   *)
(* answers are true, a retry gets the order.  That invariant (LedgerInv)   *)
(* follows an attempt through the loop over the lines of its body.         *)
(***************************************************************************)
EXTENDS OrdersService, FiniteSetTheorems, TLAPS

\* The empty map of stocks is a map of stocks.
LEMMA NoStockType == NoStock \in [Catalog -> Int]
BY DEF NoStock

\* The answers the service gives are answers.
LEMMA ReplyTypes ==
    /\ NoReply \in Replies
    /\ \A code \in {400, 404, 409, 500} : Refusal(code) \in Replies
BY DEF NoReply, Refusal, Replies

\* Before anything has happened the types are right.
LEMMA InitTypes == Init => TypeOK
<1> SUFFICES ASSUME Init PROVE TypeOK
  OBVIOUS
<1>1. stock \in [Catalog -> Int]
  BY StockAssumption DEF Init
<1>2. /\ rowLock \in [Catalog -> Requests \union {None}]
      /\ orders \subseteq Orders /\ orderItems \subseteq Rows
  BY DEF Init
<1>3. /\ tx \in [Requests -> {"none", "open", "aborted", "broken"}]
      /\ txStock \in [Requests -> [Catalog -> Int]]
      /\ txOrder \in [Requests -> SUBSET Orders]
      /\ txItems \in [Requests -> SUBSET Rows]
  BY NoStockType DEF Init
<1>4. /\ pool \subseteq Requests \X Nat /\ unstarted \subseteq Requests \X Nat /\ faults \in Nat
      /\ pc \in [Requests -> PCs]
      /\ productMap \in [Requests -> [Catalog -> Int]]
      /\ line \in [Requests -> Nat]
      /\ sends \in [Requests -> Nat]
      /\ existed \in [Requests -> BOOLEAN]
  BY NoStockType DEF Init, PCs, AtRest
<1>5. reply \in [Requests -> Replies]
  BY ReplyTypes DEF Init
<1>6. QED
  BY <1>1, <1>2, <1>3, <1>4, <1>5 DEF TypeOK

-----------------------------------------------------------------------------
(* The inductive invariant *)

\* The line the loop is at is a line of the body.
LineInv == \A r \in Requests :
    pc[r] \in {"update_stock", "save_item"} => line[r] \in Lines(r)

\* Only code inside the try block has a transaction, and only an open one has
\* locks and uncommitted rows.
TxInv == \A r \in Requests :
    /\ pc[r] \notin InTransaction => tx[r] = "none"
    /\ tx[r] # "open" =>
           txOrder[r] = {} /\ txItems[r] = {} /\ \A p \in Catalog : rowLock[p] # r

\* What is checked out of the pool is at work or was left by a startTransaction
\* that failed.
PoolInv ==
    /\ IsFiniteSet(pool)
    /\ Cardinality(pool) <= PoolSize
    /\ \A a \in pool : AtWork(a) \/ a \in unstarted
    /\ \A r \in Requests : pc[r] \in HasConnection => OrderId(r) \in pool

\* An uncommitted order is alone under its user and key.
KeyInv == \A r \in Requests : txOrder[r] # {} =>
    /\ txOrder[r] = {NewOrder(r)}
    /\ OrdersFor(r) = {}
    /\ \A s \in Requests \ {r} : SameKey(r, s) => txOrder[s] = {}

\* From the stock check on, what was read suffices for every line.
SellInv ==
    /\ \A p \in Catalog : stock[p] >= 0
    /\ \A r \in Requests, p \in Catalog : txStock[r][p] >= 0
    /\ \A r \in Requests :
           pc[r] \in {"save_order", "update_stock", "save_item", "commit"} =>
               \A k \in Lines(r) : Enough(r, k)

IndInv ==
    /\ TypeOK
    /\ LineInv
    /\ TxInv
    /\ PoolInv
    /\ LockedRowsAreFresh
    /\ KeyInv
    /\ OneOrderPerKey
    /\ SellInv

-----------------------------------------------------------------------------
(* Type correctness *)

\* An order id is a request and the number of its attempt.
LEMMA OrderIds == ASSUME TypeOK, NEW r \in Requests
                  PROVE  OrderId(r) \in Requests \X Nat
BY DEF OrderId, TypeOK

\* What save_order inserts is a row of orders.
LEMMA NewOrderType == ASSUME TypeOK, NEW r \in Requests
                      PROVE  NewOrder(r) \in Orders
BY OrderIds, DtoAssumption DEF NewOrder, Orders

\* A body has lines, and each of them is an item.
LEMMA ItemTypes ==
    ASSUME NEW r \in Requests
    PROVE  /\ Len(ItemsOf(r)) \in Nat
           /\ 1 \in Lines(r)
           /\ \A k \in Lines(r) : ItemsOf(r)[k] \in Item
BY DtoAssumption DEF ItemsOf, Lines

\* What save_item inserts is a row of order_items.
LEMMA RowType == ASSUME TypeOK, NEW r \in Requests, NEW k \in Lines(r)
                 PROVE  RowOf(OrderId(r), k) \in Rows
<1>1. OrderId(r)[1] = r
  BY DEF OrderId
<1>2. k \in Nat /\ ItemsOf(r)[k] \in Item
  BY ItemTypes DEF Lines
<1>3. QED
  BY <1>1, <1>2, OrderIds DEF RowOf, Rows, Item

\* Ending transactions, in whatever state, keeps the types of what they held.
LEMMA EndTypes ==
    ASSUME TypeOK, NEW S, NEW state \in {"none", "open", "aborted", "broken"},
           EndTransactions(S, state)
    PROVE  /\ tx' \in [Requests -> {"none", "open", "aborted", "broken"}]
           /\ rowLock' \in [Catalog -> Requests \union {None}]
           /\ txStock' \in [Requests -> [Catalog -> Int]]
           /\ txOrder' \in [Requests -> SUBSET Orders]
           /\ txItems' \in [Requests -> SUBSET Rows]
BY NoStockType DEF TypeOK, EndTransactions

\* Every step keeps the types.
LEMMA TypeStep == TypeOK /\ LineInv /\ Next => TypeOK'
<1> SUFFICES ASSUME TypeOK, LineInv, Next PROVE TypeOK'
  OBVIOUS
<1> USE DEF tables, txVars, poolVars, locals, client, Goto, Answer, Fault, PCs, AtRest, HasConnection, InTransaction
<1>1. ASSUME NEW r \in Requests, Post(r) PROVE TypeOK'
  BY <1>1, ReplyTypes DEF TypeOK, Post
<1>2. ASSUME NEW r \in Requests, PostRejected(r) PROVE TypeOK'
  BY <1>2, ReplyTypes DEF TypeOK, PostRejected
<1>3. ASSUME NEW r \in Requests, ReturnExisting(r) PROVE TypeOK'
  BY <1>3 DEF TypeOK, ReturnExisting, Orders, Replies, OrdersFor
<1>4. ASSUME NEW r \in Requests, FindNothing(r) \/ StockSuffices(r) PROVE TypeOK'
  BY <1>4 DEF TypeOK, FindNothing, StockSuffices, Proceed
<1>5. ASSUME NEW r \in Requests, Connect(r) PROVE TypeOK'
  BY <1>5, OrderIds DEF TypeOK, Connect
<1>6. ASSUME NEW r \in Requests, StartTransaction(r) PROVE TypeOK'
  BY <1>6 DEF TypeOK, StartTransaction
<1>7. ASSUME NEW r \in Requests, NEW p \in Catalog, LockProduct(r, p) PROVE TypeOK'
  BY <1>7 DEF TypeOK, LockProduct, Lock
<1>8. ASSUME NEW r \in Requests, NEW code \in {404, 409, 500}, Refuse(r, code, "rollback") PROVE TypeOK'
  BY <1>8, ReplyTypes DEF TypeOK, Refuse
<1>9. ASSUME NEW r \in Requests, SaveOrder(r) PROVE TypeOK'
  BY <1>9, NewOrderType DEF TypeOK, SaveOrder, InsertOrder
<1>10. ASSUME NEW r \in Requests, StatementError(r), faults' \in Nat PROVE TypeOK'
  BY <1>10, EndTypes, ReplyTypes DEF TypeOK, StatementError
<1>11. ASSUME NEW r \in Requests, UpdateStock(r) PROVE TypeOK'
  <2> DEFINE item == ItemsOf(r)[line[r]]
  <2>1. item.quantity \in Int
    BY <1>11, ItemTypes DEF UpdateStock, At, LineInv, Item
  <2>2. txStock' \in [Requests -> [Catalog -> Int]]
    <3>1. item.productId \in Catalog => productMap[r][item.productId] \in Int
      BY DEF TypeOK
    <3>2. item.productId \in Catalog =>
            productMap[r][item.productId] - item.quantity \in Int
      BY <2>1, <3>1
    <3> HIDE DEF item
    <3>3. txStock' = [txStock EXCEPT ![r][item.productId] =
                         productMap[r][item.productId] - item.quantity]
      BY <1>11 DEF UpdateStock, item
    <3>4. QED
      BY <3>2, <3>3 DEF TypeOK
  <2>3. QED
    BY <1>11, <2>2 DEF TypeOK, UpdateStock
<1>12. ASSUME NEW r \in Requests, SaveItem(r) PROVE TypeOK'
  BY <1>12, RowType DEF TypeOK, SaveItem, InsertItem, At, LineInv
<1>13. ASSUME NEW r \in Requests, Commit(r) PROVE TypeOK'
  <2>1. [status |-> 201, order |-> OrderId(r)] \in Replies
    BY OrderIds DEF Replies
  <2>2. QED
    BY <1>13, <2>1, EndTypes DEF TypeOK, Commit, ApplyCommit
<1>14. ASSUME NEW r \in Requests, CommitUnacknowledged(r) PROVE TypeOK'
  BY <1>14, EndTypes, ReplyTypes DEF TypeOK, CommitUnacknowledged, ApplyCommit
<1>15. ASSUME NEW r \in Requests, QueryRejected(r) PROVE TypeOK'
  BY <1>15, ReplyTypes DEF TypeOK, QueryRejected
<1>16. ASSUME NEW r \in Requests, Rollback(r) PROVE TypeOK'
  BY <1>16, EndTypes DEF TypeOK, Rollback
<1>16a. ASSUME NEW r \in Requests, RollbackFails(r) PROVE TypeOK'
  BY <1>16a, EndTypes, ReplyTypes DEF TypeOK, RollbackFails
<1>17. ASSUME NEW r \in Requests, Release(r) PROVE TypeOK'
  BY <1>17, NoStockType DEF TypeOK, Release, GiveBack
<1>18. ASSUME NEW r \in Requests, PreludeFails(r) PROVE TypeOK'
  BY <1>18, ReplyTypes DEF TypeOK, PreludeFails
<1>18a. ASSUME NEW r \in Requests, StartTransactionFails(r) PROVE TypeOK'
  BY <1>18a, ReplyTypes, OrderIds DEF TypeOK, StartTransactionFails
<1>19. ASSUME NEW r \in Requests, ConnectionLost(r) PROVE TypeOK'
  BY <1>19, EndTypes DEF TypeOK, ConnectionLost
<1>20. ASSUME Crash PROVE TypeOK'
  BY <1>20, EndTypes, ReplyTypes, NoStockType DEF TypeOK, Crash
<1>21. ASSUME NEW r \in Requests,
              DeadlockDetected(r) \/ SaveOrderRefused(r) \/ StatementFails(r)
       PROVE  TypeOK'
  BY <1>10, <1>21 DEF TypeOK, DeadlockDetected, SaveOrderRefused, StatementFails
<1>22. ASSUME NEW r \in Requests, ProductsNotFound(r) \/ StockTooLow(r) \/ ProductUndefined(r) PROVE TypeOK'
  BY <1>8, <1>22 DEF ProductsNotFound, StockTooLow, ProductUndefined
<1>23. ASSUME NEW r \in Requests, Serve(r) PROVE TypeOK'
  BY <1>23, <1>3, <1>4, <1>5, <1>6, <1>7, <1>9, <1>11, <1>12, <1>13, <1>15, <1>16,
     <1>16a, <1>17, <1>21, <1>22 DEF Serve
<1>24. ASSUME NEW r \in Requests, GoWrong(r) PROVE TypeOK'
  BY <1>24, <1>14, <1>18, <1>18a, <1>19, <1>21 DEF GoWrong
<1>25. QED
  BY <1>1, <1>2, <1>20, <1>23, <1>24 DEF Next

-----------------------------------------------------------------------------
(* The other parts of the invariant *)

\* The loop never leaves the lines of its body.
LEMMA LineStep == TypeOK /\ LineInv /\ Next => LineInv'
<1> SUFFICES ASSUME TypeOK, LineInv, Next PROVE LineInv'
  OBVIOUS
<1> USE DEF tables, txVars, poolVars, locals, client, Goto, TypeOK, LineInv, At
<1>1. ASSUME NEW r \in Requests, SaveOrder(r) PROVE LineInv'
  BY <1>1, ItemTypes DEF SaveOrder, InsertOrder, Lines, ItemsOf
<1>2. ASSUME NEW r \in Requests, UpdateStock(r) PROVE LineInv'
  BY <1>2 DEF UpdateStock, Lines, ItemsOf
<1>3. ASSUME NEW r \in Requests, SaveItem(r) PROVE LineInv'
  BY <1>3, ItemTypes DEF SaveItem, InsertItem, Lines, ItemsOf
<1>4. ASSUME NEW r \in Requests, Release(r) PROVE LineInv'
  BY <1>4 DEF Release, GiveBack, Lines, ItemsOf
<1>5. ASSUME Crash PROVE LineInv'
  BY <1>5 DEF Crash, Lines, ItemsOf
<1>6. ASSUME NEW r \in Requests, NEW label, label \notin {"update_stock", "save_item"},
             Goto(r, label), UNCHANGED line
      PROVE  LineInv'
  BY <1>6 DEF Lines, ItemsOf
<1>7. ASSUME UNCHANGED <<pc, line>> PROVE LineInv'
  BY <1>7 DEF Lines, ItemsOf
<1>8. ASSUME NEW r \in Requests, Post(r) \/ PostRejected(r) PROVE LineInv'
  BY <1>6, <1>8 DEF Post, PostRejected
<1>9. ASSUME NEW r \in Requests, Serve(r) PROVE LineInv'
  <2>1. CASE \E p \in Catalog : LockProduct(r, p)
    BY <1>7, <2>1 DEF LockProduct, Lock
  <2>2. CASE ReturnExisting(r) \/ FindNothing(r) \/ Connect(r) \/ StartTransaction(r)
    BY <1>6, <2>2 DEF ReturnExisting, FindNothing, Proceed, Connect, StartTransaction
  <2>3. CASE ProductsNotFound(r) \/ StockTooLow(r) \/ ProductUndefined(r) \/ StockSuffices(r)
    BY <1>6, <2>3 DEF ProductsNotFound, StockTooLow, ProductUndefined, Refuse, StockSuffices, Proceed
  <2>4. CASE SaveOrderRefused(r) \/ DeadlockDetected(r) \/ QueryRejected(r)
    BY <1>6, <2>4 DEF SaveOrderRefused, DeadlockDetected, StatementError, QueryRejected
  <2>5. CASE Commit(r) \/ Rollback(r) \/ RollbackFails(r)
    BY <1>6, <2>5 DEF Commit, Rollback, RollbackFails
  <2>6. QED
    BY <1>1, <1>2, <1>3, <1>4, <1>9, <2>1, <2>2, <2>3, <2>4, <2>5 DEF Serve
<1>10. ASSUME NEW r \in Requests, GoWrong(r) PROVE LineInv'
  <2>1. CASE PreludeFails(r) \/ StartTransactionFails(r) \/ StatementFails(r)
    BY <1>6, <2>1 DEF PreludeFails, StartTransactionFails, StatementFails, StatementError
  <2>2. CASE ConnectionLost(r)
    BY <1>7, <2>2 DEF ConnectionLost
  <2>3. CASE CommitUnacknowledged(r)
    BY <1>6, <2>3 DEF CommitUnacknowledged
  <2>4. QED
    BY <1>10, <2>1, <2>2, <2>3 DEF GoWrong
<1>11. QED
  BY <1>5, <1>8, <1>9, <1>10 DEF Next

\* Locks and uncommitted rows stay with open transactions.
LEMMA TxStep == TypeOK /\ TxInv /\ Next => TxInv'
<1> SUFFICES ASSUME TypeOK, TxInv, Next PROVE TxInv'
  OBVIOUS
<1> USE DEF tables, txVars, poolVars, locals, client, Goto, TypeOK, TxInv, At,
            InTransaction, AtRest
<1>1. ASSUME NEW r \in Requests, NEW label, Goto(r, label), UNCHANGED txVars,
             tx[r] = "none" \/ label \in InTransaction
      PROVE  TxInv'
  BY <1>1
<1>2. ASSUME NEW r \in Requests, NEW code, Refuse(r, code, "rollback") PROVE TxInv'
  BY <1>2 DEF Refuse, AllLocked
<1>3. ASSUME NEW r \in Requests, pc[r] \in InTransaction, StatementError(r) PROVE TxInv'
  BY <1>3, NoneAssumption DEF StatementError, EndTransactions
<1>4. ASSUME NEW r \in Requests, Post(r) \/ PostRejected(r) PROVE TxInv'
  <2>1. pc[r] \notin InTransaction /\ UNCHANGED txVars
    BY <1>4 DEF Post, PostRejected, MaySend
  <2>2. Goto(r, "find") \/ Goto(r, "done")
    BY <1>4 DEF Post, PostRejected
  <2>3. QED
    BY <1>1, <2>1, <2>2
<1>5. ASSUME NEW r \in Requests, NEW p \in Catalog, LockProduct(r, p) PROVE TxInv'
  BY <1>5, NoneAssumption DEF LockProduct, Lock
<1>6. ASSUME NEW r \in Requests, SaveOrder(r) PROVE TxInv'
  BY <1>6 DEF SaveOrder, InsertOrder
<1>7. ASSUME NEW r \in Requests, UpdateStock(r) PROVE TxInv'
  BY <1>7 DEF UpdateStock
<1>8. ASSUME NEW r \in Requests, SaveItem(r) PROVE TxInv'
  BY <1>8 DEF SaveItem, InsertItem
<1>9. ASSUME NEW r \in Requests, NEW state \in {"none", "broken"}, NEW label,
             EndTransactions({r}, state), Goto(r, label),
             state = "none" \/ label \in InTransaction
      PROVE  TxInv'
  BY <1>9, NoneAssumption DEF EndTransactions
<1>10. ASSUME NEW r \in Requests, ConnectionLost(r) PROVE TxInv'
  BY <1>10, NoneAssumption DEF ConnectionLost, EndTransactions
<1>11. ASSUME Crash PROVE TxInv'
  BY <1>11, NoneAssumption DEF Crash, EndTransactions
<1>12. ASSUME NEW r \in Requests, Serve(r) PROVE TxInv'
  <2>1. CASE ReturnExisting(r)
    BY <2>1 DEF ReturnExisting
  <2>2. CASE Connect(r)
    BY <2>2 DEF Connect
  <2>3. CASE StartTransaction(r)
    BY <2>3 DEF StartTransaction
  <2>4. CASE FindNothing(r)
    BY <1>1, <2>4 DEF FindNothing, Proceed
  <2>4a. CASE StockSuffices(r)
    BY <1>1, <2>4a DEF StockSuffices, Proceed
  <2>5. CASE ProductsNotFound(r) \/ StockTooLow(r) \/ ProductUndefined(r)
    BY <1>2, <2>5 DEF ProductsNotFound, StockTooLow, ProductUndefined
  <2>6. CASE SaveOrderRefused(r)
    BY <1>3, <2>6 DEF SaveOrderRefused
  <2>7. CASE DeadlockDetected(r)
    <3>1. pc[r] \in InTransaction
      BY <2>7 DEF DeadlockDetected, InWaitCycle, WaitsFor
    <3>2. QED
      BY <1>3, <2>7, <3>1 DEF DeadlockDetected
  <2>8. CASE QueryRejected(r)
    BY <2>8 DEF QueryRejected
  <2>9. CASE Commit(r) \/ Rollback(r) \/ RollbackFails(r)
    BY <1>9, <2>9 DEF Commit, ApplyCommit, Rollback, RollbackFails
  <2>10. CASE Release(r)
    BY <2>10 DEF Release, GiveBack
  <2>11. QED
    BY <1>5, <1>6, <1>7, <1>8, <1>12, <2>1, <2>2, <2>3, <2>4, <2>4a, <2>5, <2>6, <2>7,
       <2>8, <2>9, <2>10 DEF Serve
<1>13. ASSUME NEW r \in Requests, GoWrong(r) PROVE TxInv'
  <2>1. CASE PreludeFails(r)
    BY <2>1 DEF PreludeFails
  <2>2. CASE StartTransactionFails(r)
    BY <2>2 DEF StartTransactionFails
  <2>3. CASE StatementFails(r)
    BY <1>3, <2>3 DEF StatementFails
  <2>4. CASE CommitUnacknowledged(r)
    BY <1>9, <2>4 DEF CommitUnacknowledged, ApplyCommit
  <2>5. QED
    BY <1>10, <1>13, <2>1, <2>2, <2>3, <2>4 DEF GoWrong
<1>14. QED
  BY <1>4, <1>11, <1>12, <1>13 DEF Next

\* A connection is checked out by connect and returned by release; only a failed
\* startTransaction leaves one behind.
LEMMA PoolStep == TypeOK /\ TxInv /\ PoolInv /\ Next => PoolInv'
<1> SUFFICES ASSUME TypeOK, TxInv, PoolInv, Next PROVE PoolInv'
  OBVIOUS
<1> USE DEF poolVars, client, Goto, TypeOK, PoolInv, AtWork, OrderId, At, InTransaction,
            HasConnection, AtRest
<1>0. \A a \in pool : a[1] \in Requests
  OBVIOUS
<1>1. ASSUME NEW r \in Requests, NEW label, UNCHANGED <<poolVars, sends>>, Goto(r, label),
             label \in HasConnection <=> pc[r] \in HasConnection
      PROVE  PoolInv'
  BY <1>0, <1>1
<1>2. ASSUME UNCHANGED <<poolVars, sends, pc>> PROVE PoolInv'
  BY <1>2
<1>3. Cardinality(pool) \in Nat /\ PoolSize \in Nat
  BY FS_CardinalityType, BoundsAssumption
<1>4. ASSUME NEW r \in Requests, Connect(r) PROVE PoolInv'
  <2>1. /\ pool' = pool \union {OrderId(r)} /\ UNCHANGED <<unstarted, sends>>
        /\ Cardinality(pool) < PoolSize /\ pc' = [pc EXCEPT ![r] = "begin"]
    BY <1>4 DEF Connect, FreeConnection
  <2>2. /\ IsFiniteSet(pool \union {OrderId(r)})
        /\ Cardinality(pool \union {OrderId(r)}) \in {Cardinality(pool), Cardinality(pool) + 1}
    BY FS_AddElement DEF OrderId
  <2>3. IsFiniteSet(pool') /\ Cardinality(pool') <= PoolSize
    BY <1>3, <2>1, <2>2
  <2>4. \A a \in pool' : AtWork(a)' \/ a \in unstarted'
    BY <1>0, <2>1
  <2>5. \A s \in Requests : pc'[s] \in HasConnection => OrderId(s)' \in pool'
    BY <2>1
  <2>6. QED
    BY <2>3, <2>4, <2>5
<1>5. ASSUME NEW a
      PROVE  IsFiniteSet(pool \ {a}) /\ Cardinality(pool \ {a}) <= PoolSize
  <2>1. /\ IsFiniteSet(pool \ {a})
        /\ Cardinality(pool \ {a}) \in {Cardinality(pool), Cardinality(pool) - 1}
    BY FS_RemoveElement
  <2>2. QED
    BY <1>3, <2>1
<1>6. ASSUME NEW r \in Requests, NEW label, label \notin HasConnection, Goto(r, label),
             UNCHANGED sends, pool \ {OrderId(r)} \subseteq pool', pool' \subseteq pool,
             unstarted \subseteq unstarted', OrderId(r) \in pool' => OrderId(r) \in unstarted'
      PROVE  PoolInv'
  <2>1. pool' = pool \/ pool' = pool \ {OrderId(r)}
    BY <1>6
  <2>2. IsFiniteSet(pool') /\ Cardinality(pool') <= PoolSize
    BY <1>5, <2>1
  <2>3. ASSUME NEW a \in pool' PROVE AtWork(a)' \/ a \in unstarted'
    <3>1. CASE a = OrderId(r)
      BY <1>6, <2>3, <3>1
    <3>2. CASE a # OrderId(r) /\ AtWork(a)
      <4>1. a[1] # r
        BY <3>2
      <4>2. QED
        BY <1>0, <1>6, <2>3, <3>2, <4>1
    <3>3. QED
      BY <1>6, <2>3, <3>1, <3>2
  <2>4. ASSUME NEW s \in Requests, pc'[s] \in HasConnection PROVE OrderId(s)' \in pool'
    <3>1. s # r /\ pc[s] \in HasConnection
      BY <1>6, <2>4
    <3>2. OrderId(s) \in pool /\ OrderId(s) # OrderId(r)
      BY <3>1
    <3>3. QED
      BY <1>6, <3>2
  <2>5. QED
    BY <2>2, <2>3, <2>4
<1>7. ASSUME NEW r \in Requests, StartTransactionFails(r) \/ Release(r) PROVE PoolInv'
  BY <1>6, <1>7 DEF StartTransactionFails, Release, GiveBack
<1>8. ASSUME Crash PROVE PoolInv'
  BY <1>3, <1>8, FS_EmptySet DEF Crash
<1>9. ASSUME NEW r \in Requests, Post(r) \/ PostRejected(r) PROVE PoolInv'
  <2>1. /\ pc[r] \notin HasConnection /\ UNCHANGED poolVars
        /\ sends' = [sends EXCEPT ![r] = @ + 1]
    BY <1>9 DEF Post, PostRejected, MaySend
  <2>2. pc' = [pc EXCEPT ![r] = "find"] \/ pc' = [pc EXCEPT ![r] = "done"]
    BY <1>9 DEF Post, PostRejected
  <2>3. \A s \in Requests : s # r => pc'[s] = pc[s] /\ sends'[s] = sends[s]
    BY <2>1, <2>2
  <2>4. pc'[r] \notin HasConnection
    BY <2>2
  <2>5. \A a \in pool' : AtWork(a)' \/ a \in unstarted'
    BY <1>0, <2>1, <2>3
  <2>6. \A s \in Requests : pc'[s] \in HasConnection => OrderId(s)' \in pool'
    BY <2>1, <2>3, <2>4
  <2>7. QED
    BY <2>1, <2>5, <2>6
<1>10. ASSUME NEW r \in Requests, Serve(r) PROVE PoolInv'
  <2>1. CASE ReturnExisting(r) \/ FindNothing(r) \/ StartTransaction(r)
    BY <1>1, <2>1 DEF ReturnExisting, FindNothing, Proceed, StartTransaction
  <2>2. CASE \E p \in Catalog : LockProduct(r, p)
    BY <1>2, <2>2 DEF LockProduct, Lock
  <2>3. CASE ProductsNotFound(r) \/ StockTooLow(r) \/ ProductUndefined(r) \/ StockSuffices(r)
    BY <1>1, <2>3 DEF ProductsNotFound, StockTooLow, ProductUndefined, Refuse, StockSuffices, Proceed, AllLocked, TooFew
  <2>4. CASE SaveOrder(r) \/ SaveOrderRefused(r) \/ DeadlockDetected(r)
    BY <1>1, <2>4 DEF SaveOrder, InsertOrder, SaveOrderRefused, DeadlockDetected,
         StatementError, InWaitCycle, WaitsFor
  <2>5. CASE UpdateStock(r)
    BY <1>1, <2>5 DEF UpdateStock
  <2>6. CASE SaveItem(r)
    BY <1>1, <2>6 DEF SaveItem, InsertItem
  <2>7. CASE Commit(r) \/ QueryRejected(r) \/ Rollback(r) \/ RollbackFails(r)
    BY <1>1, <2>7 DEF Commit, ApplyCommit, QueryRejected, Rollback, RollbackFails
  <2>8. QED
    BY <1>4, <1>7, <1>10, <2>1, <2>2, <2>3, <2>4, <2>5, <2>6, <2>7 DEF Serve
<1>11. ASSUME NEW r \in Requests, GoWrong(r) PROVE PoolInv'
  <2>1. CASE PreludeFails(r)
    BY <1>1, <2>1 DEF PreludeFails
  <2>2. CASE StatementFails(r) \/ CommitUnacknowledged(r)
    BY <1>1, <2>2 DEF StatementFails, StatementError, CommitUnacknowledged, ApplyCommit
  <2>3. CASE ConnectionLost(r)
    BY <1>2, <2>3 DEF ConnectionLost
  <2>4. QED
    BY <1>7, <1>11, <2>1, <2>2, <2>3 DEF GoWrong
<1>12. QED
  BY <1>8, <1>9, <1>10, <1>11 DEF Next

\* A row that is locked is not written by anyone else.
LEMMA FreshStep == TypeOK /\ TxInv /\ LockedRowsAreFresh /\ Next => LockedRowsAreFresh'
<1> SUFFICES ASSUME TypeOK, TxInv, LockedRowsAreFresh, Next PROVE LockedRowsAreFresh'
  OBVIOUS
<1> USE NoneAssumption DEF tables, txVars, locals, TypeOK, TxInv, LockedRowsAreFresh, At,
        InTransaction, AtRest, EndTransactions
<1>1. ASSUME UNCHANGED <<stock, rowLock, productMap>> PROVE LockedRowsAreFresh'
  BY <1>1
<1>2. ASSUME NEW S, NEW state, EndTransactions(S, state), UNCHANGED <<stock, productMap>>
      PROVE  LockedRowsAreFresh'
  BY <1>2
<1>3. ASSUME NEW r \in Requests, NEW state, ApplyCommit(r, state), UNCHANGED productMap
      PROVE  LockedRowsAreFresh'
  BY <1>3 DEF ApplyCommit
<1>4. ASSUME NEW r \in Requests, NEW p \in Catalog, LockProduct(r, p)
      PROVE  LockedRowsAreFresh'
  BY <1>4 DEF LockProduct, Lock
<1>5. ASSUME NEW r \in Requests, Release(r) PROVE LockedRowsAreFresh'
  <2>1. tx[r] = "none" /\ UNCHANGED <<stock, rowLock>>
    BY <1>5 DEF Release, GiveBack
  <2>2. \A p \in Catalog : rowLock[p] # r
    BY <2>1
  <2>3. \A s \in Requests \ {r} : productMap'[s] = productMap[s]
    BY <1>5 DEF Release, GiveBack
  <2>4. QED
    BY <2>1, <2>2, <2>3
<1>6. ASSUME Crash PROVE LockedRowsAreFresh'
  <2>1. \A p \in Catalog : rowLock'[p] = None
    <3> SUFFICES ASSUME NEW p \in Catalog, rowLock[p] # None PROVE rowLock'[p] = None
      BY <1>6 DEF Crash
    <3>1. pc[rowLock[p]] \notin AtRest
      <4> HIDE DEF InTransaction, AtRest, TypeOK, LockedRowsAreFresh
      <4>1. rowLock[p] \in Requests
        BY DEF TypeOK
      <4>2. pc[rowLock[p]] \in InTransaction
        BY <4>1
      <4>3. QED
        BY <4>2 DEF InTransaction, AtRest
    <3>2. QED
      BY <1>6, <3>1 DEF Crash
  <2>2. QED
    BY <2>1
<1>7. ASSUME NEW r \in Requests, Post(r) \/ PostRejected(r) PROVE LockedRowsAreFresh'
  BY <1>1, <1>7 DEF Post, PostRejected
<1>8. ASSUME NEW r \in Requests, Serve(r) PROVE LockedRowsAreFresh'
  <2>1. CASE ReturnExisting(r) \/ FindNothing(r) \/ Connect(r) \/ StartTransaction(r)
    BY <1>1, <2>1 DEF ReturnExisting, FindNothing, Proceed, Connect, StartTransaction
  <2>2. CASE ProductsNotFound(r) \/ StockTooLow(r) \/ ProductUndefined(r) \/ StockSuffices(r)
    BY <1>1, <2>2 DEF ProductsNotFound, StockTooLow, ProductUndefined, Refuse, StockSuffices, Proceed
  <2>3. CASE SaveOrder(r) \/ UpdateStock(r) \/ SaveItem(r) \/ QueryRejected(r)
    BY <1>1, <2>3 DEF SaveOrder, InsertOrder, UpdateStock, SaveItem, InsertItem, QueryRejected
  <2>4. CASE SaveOrderRefused(r) \/ DeadlockDetected(r) \/ Rollback(r) \/ RollbackFails(r)
    BY <1>2, <2>4 DEF SaveOrderRefused, DeadlockDetected, StatementError, Rollback, RollbackFails
  <2>5. CASE Commit(r)
    BY <1>3, <2>5 DEF Commit
  <2>6. QED
    BY <1>4, <1>5, <1>8, <2>1, <2>2, <2>3, <2>4, <2>5 DEF Serve
<1>9. ASSUME NEW r \in Requests, GoWrong(r) PROVE LockedRowsAreFresh'
  <2>1. CASE PreludeFails(r) \/ StartTransactionFails(r)
    BY <1>1, <2>1 DEF PreludeFails, StartTransactionFails
  <2>2. CASE StatementFails(r) \/ ConnectionLost(r)
    BY <1>2, <2>2 DEF StatementFails, StatementError, ConnectionLost
  <2>3. CASE CommitUnacknowledged(r)
    BY <1>3, <2>3 DEF CommitUnacknowledged
  <2>4. QED
    BY <1>9, <2>1, <2>2, <2>3 DEF GoWrong
<1>10. QED
  BY <1>6, <1>7, <1>8, <1>9 DEF Next

\* What was read goes on to suffice for the lines not yet written.
LEMMA SellStep == TypeOK /\ LineInv /\ SellInv /\ Next => SellInv'
<1> SUFFICES ASSUME TypeOK, LineInv, SellInv, Next PROVE SellInv'
  OBVIOUS
<1> DEFINE Selling == {"save_order", "update_stock", "save_item", "commit"}
<1> USE DEF tables, txVars, locals, Goto, TypeOK, SellInv, At
<1>1. ASSUME NEW r \in Requests, NEW label, Goto(r, label), UNCHANGED <<stock, txStock, productMap>>,
             label \in Selling => \A k \in Lines(r) : Enough(r, k)
      PROVE  SellInv'
  BY <1>1 DEF Enough, Lines, ItemsOf
<1>2. ASSUME UNCHANGED <<stock, pc, productMap>>, \A r \in Requests, p \in Catalog : txStock'[r][p] >= 0
      PROVE SellInv'
  BY <1>2 DEF Enough, Lines, ItemsOf
<1>3. ASSUME NEW S, NEW state, EndTransactions(S, state)
      PROVE  \A r \in Requests, p \in Catalog : txStock'[r][p] >= 0
  BY <1>3 DEF EndTransactions, NoStock
<1>4. ASSUME NEW r \in Requests, NEW label, Goto(r, label), label \notin Selling,
             \A p \in Catalog : stock'[p] >= 0,
             \A s \in Requests, p \in Catalog : txStock'[s][p] >= 0,
             UNCHANGED productMap
      PROVE  SellInv'
  BY <1>4 DEF Enough, Lines, ItemsOf
<1>5. ASSUME NEW r \in Requests, NEW p \in Catalog, LockProduct(r, p) PROVE SellInv'
  BY <1>5 DEF LockProduct, Lock, Enough, Lines, ItemsOf
<1>6. ASSUME NEW r \in Requests, UpdateStock(r) PROVE SellInv'
  <2> DEFINE item == ItemsOf(r)[line[r]]
  <2>1. item.productId \in Catalog =>
            productMap[r][item.productId] - item.quantity >= 0
    BY <1>6, ItemTypes DEF UpdateStock, Enough, Lines, ItemsOf, LineInv, Item
  <2> HIDE DEF item
  <2>2. txStock' = [txStock EXCEPT ![r][item.productId] =
                        productMap[r][item.productId] - item.quantity]
    BY <1>6 DEF UpdateStock, item
  <2>3. \A s \in Requests, p \in Catalog : txStock'[s][p] >= 0
    BY <2>1, <2>2
  <2>4. QED
    BY <1>6, <2>3 DEF UpdateStock, Enough, Lines, ItemsOf
<1>7. ASSUME NEW r \in Requests, NEW state, ApplyCommit(r, state)
      PROVE  \A p \in Catalog : stock'[p] >= 0
  BY <1>7 DEF ApplyCommit
<1>8. ASSUME NEW r \in Requests, Release(r) PROVE SellInv'
  BY <1>8 DEF Release, GiveBack, Enough, Lines, ItemsOf
<1>9. ASSUME Crash PROVE SellInv'
  BY <1>3, <1>9 DEF Crash, AtRest, Enough, Lines, ItemsOf
<1>10. ASSUME NEW r \in Requests, Post(r) \/ PostRejected(r) PROVE SellInv'
  BY <1>1, <1>10 DEF Post, PostRejected
<1>11. ASSUME NEW r \in Requests, Serve(r) PROVE SellInv'
  <2>1. CASE ReturnExisting(r) \/ FindNothing(r) \/ Connect(r) \/ StartTransaction(r)
    BY <1>1, <2>1 DEF ReturnExisting, FindNothing, Proceed, Connect, StartTransaction
  <2>2. CASE ProductsNotFound(r) \/ StockTooLow(r) \/ ProductUndefined(r) \/ StockSuffices(r)
    BY <1>1, <2>2 DEF ProductsNotFound, StockTooLow, ProductUndefined, Refuse, StockSuffices, Proceed
  <2>3. CASE SaveOrder(r) \/ SaveItem(r)
    BY <1>1, <2>3 DEF SaveOrder, InsertOrder, SaveItem, InsertItem
  <2>4. CASE SaveOrderRefused(r) \/ DeadlockDetected(r) \/ Rollback(r) \/ RollbackFails(r)
    BY <1>3, <1>4, <2>4 DEF SaveOrderRefused, DeadlockDetected, StatementError, Rollback, RollbackFails
  <2>5. CASE Commit(r)
    BY <1>3, <1>4, <1>7, <2>5 DEF Commit, ApplyCommit
  <2>6. CASE QueryRejected(r)
    BY <1>1, <2>6 DEF QueryRejected
  <2>7. QED
    BY <1>5, <1>6, <1>8, <1>11, <2>1, <2>2, <2>3, <2>4, <2>5, <2>6 DEF Serve
<1>12. ASSUME NEW r \in Requests, GoWrong(r) PROVE SellInv'
  <2>1. CASE PreludeFails(r) \/ StartTransactionFails(r)
    BY <1>1, <2>1 DEF PreludeFails, StartTransactionFails
  <2>2. CASE StatementFails(r)
    BY <1>3, <1>4, <2>2 DEF StatementFails, StatementError
  <2>3. CASE ConnectionLost(r)
    BY <1>2, <1>3, <2>3 DEF ConnectionLost
  <2>4. CASE CommitUnacknowledged(r)
    BY <1>3, <1>4, <1>7, <2>4 DEF CommitUnacknowledged, ApplyCommit
  <2>5. QED
    BY <1>12, <2>1, <2>2, <2>3, <2>4 DEF GoWrong
<1>13. QED
  BY <1>9, <1>10, <1>11, <1>12 DEF Next

\* Only a commit adds orders, only INSERT INTO orders an uncommitted one.
LEMMA KeyStep == TypeOK /\ TxInv /\ KeyInv /\ OneOrderPerKey /\ Next
                    => KeyInv' /\ OneOrderPerKey'
<1> SUFFICES ASSUME TypeOK, TxInv, KeyInv, OneOrderPerKey, Next
             PROVE  KeyInv' /\ OneOrderPerKey'
  OBVIOUS
<1> DEFINE Goal == KeyInv' /\ OneOrderPerKey'
<1> USE DEF tables, txVars, client, TypeOK
<1>1. ASSUME UNCHANGED <<orders, txOrder, sends>> PROVE Goal
  BY <1>1 DEF KeyInv, OneOrderPerKey, NewOrder, OrderId, OrdersFor, SameKey
<1>2. ASSUME NEW S, UNCHANGED <<orders, sends>>,
             txOrder' = [r \in Requests |-> IF r \in S THEN {} ELSE txOrder[r]]
      PROVE  Goal
  BY <1>2 DEF KeyInv, OneOrderPerKey, NewOrder, OrderId, OrdersFor, SameKey
<1>3. ASSUME NEW r \in Requests, SaveOrder(r) PROVE Goal
  <2>1. /\ txOrder' = [txOrder EXCEPT ![r] = {NewOrder(r)}]
        /\ UNCHANGED <<orders, sends>>
        /\ OrdersFor(r) = {}
        /\ \A s \in Requests \ {r} : SameKey(r, s) => txOrder[s] = {}
    BY <1>3 DEF SaveOrder, InsertOrder, KeyHolders
  <2>2. NewOrder(r)' = NewOrder(r)
    BY <2>1 DEF NewOrder, OrderId
  <2>3. ASSUME NEW s \in Requests, txOrder'[s] # {}
        PROVE  /\ txOrder'[s] = {NewOrder(s)'}
               /\ OrdersFor(s)' = {}
               /\ \A t \in Requests \ {s} : SameKey(s, t)' => txOrder'[t] = {}
    <3>1. NewOrder(s)' = NewOrder(s) /\ OrdersFor(s)' = OrdersFor(s)
      BY <2>1 DEF NewOrder, OrderId, OrdersFor
    <3>2. \A t \in Requests : SameKey(s, t)' = SameKey(s, t) /\ SameKey(s, t) = SameKey(t, s)
      BY DEF SameKey
    <3>3. CASE s = r
      BY <2>1, <3>1, <3>2, <3>3
    <3>4. CASE s # r
      <4>1. txOrder[s] # {} /\ txOrder'[s] = txOrder[s]
        BY <2>1, <2>3, <3>4
      <4>2. ~ SameKey(s, r)
        BY <2>1, <3>2, <3>4, <4>1
      <4>3. QED
        BY <2>1, <3>1, <3>2, <4>1, <4>2 DEF KeyInv
    <3>5. QED
      BY <3>3, <3>4
  <2>4. QED
    BY <2>1, <2>3 DEF KeyInv, OneOrderPerKey
<1>4. ASSUME NEW r \in Requests, NEW state, ApplyCommit(r, state), UNCHANGED sends PROVE Goal
  <2>1. CASE txOrder[r] = {}
    BY <1>2, <1>4, <2>1 DEF ApplyCommit, EndTransactions
  <2>2. CASE txOrder[r] # {}
    <3>1. /\ orders' = orders \union {NewOrder(r)}
          /\ txOrder' = [s \in Requests |-> IF s \in {r} THEN {} ELSE txOrder[s]]
      BY <1>4, <2>2 DEF ApplyCommit, EndTransactions, KeyInv
    <3>2. OrdersFor(r) = {} /\ \A s \in Requests \ {r} : SameKey(r, s) => txOrder[s] = {}
      BY <2>2 DEF KeyInv
    <3>3. OneOrderPerKey'
      BY <3>1, <3>2 DEF OneOrderPerKey, OrdersFor, NewOrder
    <3>4. ASSUME NEW s \in Requests, txOrder'[s] # {}
          PROVE  /\ txOrder'[s] = {NewOrder(s)'}
                 /\ OrdersFor(s)' = {}
                 /\ \A t \in Requests \ {s} : SameKey(s, t)' => txOrder'[t] = {}
      <4>1. s # r /\ txOrder[s] # {} /\ ~ SameKey(r, s)
        BY <3>1, <3>2, <3>4
      <4>2. OrdersFor(s)' = {}
        <5>1. ~ (NewOrder(r).userId = Dto[s].userId
                   /\ NewOrder(r).idempotencyKey = Dto[s].idempotencyKey)
          BY <4>1 DEF NewOrder, SameKey
        <5>2. OrdersFor(s) = {}
          BY <4>1 DEF KeyInv
        <5>3. QED
          BY <3>1, <5>1, <5>2 DEF OrdersFor
      <4>3. txOrder'[s] = {NewOrder(s)'}
        BY <1>4, <3>1, <4>1 DEF KeyInv, NewOrder, OrderId
      <4>4. \A t \in Requests \ {s} : SameKey(s, t)' => txOrder'[t] = {}
        BY <3>1, <4>1 DEF KeyInv, SameKey
      <4>5. QED
        BY <4>2, <4>3, <4>4
    <3>5. QED
      BY <3>3, <3>4 DEF KeyInv
  <2>3. QED
    BY <2>1, <2>2
<1>5. ASSUME NEW r \in Requests, Post(r) \/ PostRejected(r) PROVE Goal
  <2>1. txOrder[r] = {} /\ UNCHANGED <<orders, txOrder>>
    <3>1. pc[r] \notin InTransaction
      BY <1>5 DEF Post, PostRejected, MaySend, InTransaction
    <3>2. UNCHANGED <<orders, txOrder>>
      BY <1>5 DEF Post, PostRejected
    <3>3. QED
      BY <3>1, <3>2 DEF TxInv
  <2>2. \A s \in Requests \ {r} : NewOrder(s)' = NewOrder(s)
    BY <1>5 DEF Post, PostRejected, NewOrder, OrderId
  <2>3. QED
    BY <2>1, <2>2 DEF KeyInv, OneOrderPerKey, OrdersFor, SameKey
<1>6. ASSUME Crash PROVE Goal
  BY <1>2, <1>6 DEF Crash, EndTransactions
<1>7. ASSUME NEW r \in Requests, Serve(r) PROVE Goal
  <2>1. CASE ReturnExisting(r) \/ FindNothing(r) \/ Connect(r) \/ StartTransaction(r)
    BY <1>1, <2>1 DEF ReturnExisting, FindNothing, Proceed, Connect, StartTransaction
  <2>2. CASE \E p \in Catalog : LockProduct(r, p)
    BY <1>1, <2>2 DEF LockProduct, Lock
  <2>3. CASE ProductsNotFound(r) \/ StockTooLow(r) \/ ProductUndefined(r) \/ StockSuffices(r)
    BY <1>1, <2>3 DEF ProductsNotFound, StockTooLow, ProductUndefined, Refuse, StockSuffices, Proceed
  <2>4. CASE UpdateStock(r) \/ SaveItem(r) \/ QueryRejected(r) \/ Release(r)
    BY <1>1, <2>4 DEF UpdateStock, SaveItem, InsertItem, QueryRejected, Release, GiveBack
  <2>5. CASE SaveOrderRefused(r) \/ DeadlockDetected(r) \/ Rollback(r) \/ RollbackFails(r)
    BY <1>2, <2>5 DEF SaveOrderRefused, DeadlockDetected, StatementError, EndTransactions,
         Rollback, RollbackFails
  <2>6. CASE Commit(r)
    BY <1>4, <2>6 DEF Commit
  <2>7. QED
    BY <1>3, <1>7, <2>1, <2>2, <2>3, <2>4, <2>5, <2>6 DEF Serve
<1>8. ASSUME NEW r \in Requests, GoWrong(r) PROVE Goal
  <2>1. CASE PreludeFails(r) \/ StartTransactionFails(r)
    BY <1>1, <2>1 DEF PreludeFails, StartTransactionFails
  <2>2. CASE StatementFails(r) \/ ConnectionLost(r)
    BY <1>2, <2>2 DEF StatementFails, StatementError, EndTransactions, ConnectionLost
  <2>3. CASE CommitUnacknowledged(r)
    BY <1>4, <2>3 DEF CommitUnacknowledged
  <2>4. QED
    BY <1>8, <2>1, <2>2, <2>3 DEF GoWrong
<1>9. QED
  BY <1>5, <1>6, <1>7, <1>8 DEF Next

-----------------------------------------------------------------------------
(* Theorems *)

\* The invariant holds before anything has happened.
LEMMA InitInv == Init => IndInv
<1> SUFFICES ASSUME Init PROVE IndInv
  OBVIOUS
<1>1. TypeOK
  BY InitTypes
<1>2. LineInv /\ TxInv /\ KeyInv /\ OneOrderPerKey
  BY NoneAssumption DEF Init, LineInv, TxInv, KeyInv, OneOrderPerKey, InTransaction
<1>3. PoolInv
  BY FS_EmptySet, BoundsAssumption DEF Init, PoolInv, HasConnection, InTransaction
<1>4. LockedRowsAreFresh
  BY DEF Init, LockedRowsAreFresh
<1>5. SellInv
  BY StockAssumption DEF Init, SellInv, NoStock
<1>6. QED
  BY <1>1, <1>2, <1>3, <1>4, <1>5 DEF IndInv

\* A stuttering step keeps it.
LEMMA Stutter == IndInv /\ UNCHANGED vars => IndInv'
<1> SUFFICES ASSUME IndInv, UNCHANGED vars PROVE IndInv'
  OBVIOUS
<1>1. TypeOK'
  BY DEF IndInv, vars, TypeOK
<1>2. LineInv' /\ TxInv' /\ PoolInv' /\ LockedRowsAreFresh'
  BY DEF IndInv, vars, LineInv, TxInv, PoolInv, AtWork, OrderId, LockedRowsAreFresh, Lines, ItemsOf
<1>3. KeyInv' /\ OneOrderPerKey'
  BY DEF IndInv, vars, KeyInv, OneOrderPerKey, OrdersFor, NewOrder, OrderId, SameKey
<1>4. SellInv'
  BY DEF IndInv, vars, SellInv, Enough, Lines, ItemsOf
<1>5. QED
  BY <1>1, <1>2, <1>3, <1>4 DEF IndInv

\* The conjunction of the parts holds in every reachable state.
THEOREM Invariance == Spec => []IndInv
<1>1. Init => IndInv
  BY InitInv
<1>2. IndInv /\ [Next]_vars => IndInv'
  BY TypeStep, LineStep, TxStep, PoolStep, FreshStep, KeyStep, SellStep, Stutter DEF IndInv
<1>3. QED
  BY <1>1, <1>2, PTL DEF Spec

\* Type correctness of tables, transactions, pool and locals.
THEOREM TypeCorrect == Spec => []TypeOK
<1>1. IndInv => TypeOK
  BY DEF IndInv
<1>2. QED
  BY Invariance, <1>1, PTL

\* However many requests compete, no committed stock is ever negative.
THEOREM NeverOversold == Spec => []NoOversell
<1>1. IndInv => NoOversell
  BY DEF IndInv, SellInv, NoOversell
<1>2. QED
  BY Invariance, <1>1, PTL

\* No update of a stock is lost: what a request computes a new stock from is the
\* committed stock for as long as it holds the lock of the row.
THEOREM NoLostUpdate == Spec => []LockedRowsAreFresh
<1>1. IndInv => LockedRowsAreFresh
  BY DEF IndInv
<1>2. QED
  BY Invariance, <1>1, PTL

\* A user never has two orders under one idempotency key.
THEOREM Idempotent == Spec => []OneOrderPerKey
<1>1. IndInv => OneOrderPerKey
  BY DEF IndInv
<1>2. QED
  BY Invariance, <1>1, PTL

\* Every path gives transaction and locks back, and every path but the one on which
\* startTransaction fails its connection.
THEOREM AllElseReleased == Spec => []OnlyFailedStartsKeep
<1>1. IndInv => OnlyFailedStartsKeep
  BY DEF IndInv, TxInv, PoolInv, OnlyFailedStartsKeep, InTransaction
<1>2. QED
  BY Invariance, <1>1, PTL

-----------------------------------------------------------------------------
(* The ledger *)

Writing == {"update_stock", "save_item", "commit"}
Selling == {"save_order"} \union Writing

\* An order bears the number of the attempt that has placed it; that attempt is
\* past its commit and no refusal is its answer.
AttemptInv ==
    /\ \A o \in orders : o.id[2] <= sends[o.id[1]]
    /\ \A r \in Requests : (\E o \in orders : o.id = OrderId(r)) =>
           /\ pc[r] \in {"rollback", "release", "done", "lost"}
           /\ reply[r].status \notin {400, 404, 409}

\* A transaction locks rows of its products only, and has all of them locked
\* once lockProducts has returned one row for each line.
LocksInv == \A r \in Requests :
    /\ \A p \in Catalog : rowLock[p] = r => p \in Found(r)
    /\ pc[r] \in Selling =>
           /\ ~ LengthsDiffer(r)
           /\ tx[r] = "open" => \A p \in Found(r) : rowLock[p] = r

\* The lines whose stock and whose item the loop has written.
StockWritten(r) == 1 .. (IF pc[r] = "save_item" THEN line[r] ELSE line[r] - 1)
ItemsWritten(r) == 1 .. line[r] - 1

\* What the transaction has written so far, line by line.
Remaining(r, k) == productMap[r][ItemsOf(r)[k].productId] - ItemsOf(r)[k].quantity
Written(r) == tx[r] = "open" =>
    /\ pc[r] \in {"lock", "save_order"} => txItems[r] = {}
    /\ pc[r] \in Writing =>
           /\ txOrder[r] # {}
           /\ txItems[r] = {RowOf(OrderId(r), k) : k \in ItemsWritten(r)}
           /\ \A k \in StockWritten(r) : txStock[r][ItemsOf(r)[k].productId] = Remaining(r, k)
    /\ pc[r] = "commit" => line[r] = Len(ItemsOf(r)) + 1
WriteInv == \A r \in Requests : Written(r)

\* A 200 or 201 is decided on for a committed order only.
ReplyInv == \A r \in Requests :
    /\ reply[r].status \in {200, 201} =>
           /\ pc[r] \in {"release", "done"}
           /\ \E o \in OrdersFor(r) : o.id = reply[r].order
    /\ reply[r].status = 200 => pc[r] = "done"
    /\ reply[r].status = 201 => reply[r].order = OrderId(r)

\* A retry of what is placed does not get past repository.findOne.
RetryInv == \A r \in Requests : existed[r] =>
    /\ Dto[r].idempotencyKey # None
    /\ OrdersFor(r) # {}
    /\ pc[r] \in {"find", "done", "lost"}
    /\ pc[r] = "done" => reply[r].status = 200 \/ (reply[r].status = 500 /\ faults > 0)

LedgerInv ==
    /\ AttemptInv
    /\ LocksInv
    /\ WriteInv
    /\ WholeOrders
    /\ ReplyInv
    /\ RetryInv

-----------------------------------------------------------------------------
(* The lines of a body *)

\* One row for each line is one product for each line.
LEMMA LinesAreProducts ==
    ASSUME NEW r \in Requests, ~ LengthsDiffer(r)
    PROVE  /\ Found(r) = Wanted(r)
           /\ \A j, k \in Lines(r) :
                  ItemsOf(r)[j].productId = ItemsOf(r)[k].productId => j = k
<1> DEFINE n == Len(ItemsOf(r))
           id == [k \in 1 .. n |-> ItemsOf(r)[k].productId]
<1>1. n \in Nat
  BY ItemTypes
<1>2. IsFiniteSet(1 .. n) /\ Cardinality(1 .. n) = n
  <2>1. n \in Int /\ 1 \in Int
    BY <1>1
  <2>2. IsFiniteSet(1 .. n) /\ Cardinality(1 .. n) = IF 1 > n THEN 0 ELSE n - 1 + 1
    BY <2>1, FS_Interval, Zenon
  <2> QED BY <1>1, <2>2
<1>3. id \in Surjection(1 .. n, Wanted(r))
  BY DEF Surjection, Wanted, Lines
<1>4. IsFiniteSet(Wanted(r)) /\ Cardinality(Wanted(r)) <= n
  BY <1>2, <1>3, FS_Surjection
<1>5. Cardinality(Found(r)) = n
  BY DEF LengthsDiffer
<1>6. Found(r) \subseteq Wanted(r)
  BY DEF Found
<1>7. Cardinality(Wanted(r)) = n /\ Found(r) = Wanted(r)
  <2>1. Cardinality(Found(r)) <= Cardinality(Wanted(r))
    BY <1>4, <1>6, FS_Subset
  <2>2. Cardinality(Wanted(r)) \in Nat
    BY <1>4, FS_CardinalityType
  <2>3. Cardinality(Found(r)) = Cardinality(Wanted(r))
    BY <1>1, <1>4, <1>5, <2>1, <2>2
  <2> QED BY <1>1, <1>4, <1>5, <1>6, <2>3, FS_Subset
<1>8. id \in Injection(1 .. n, Wanted(r))
  BY <1>2, <1>3, <1>7, FS_Surjection
<1> QED BY <1>7, <1>8 DEF Injection, IsInjective, Lines

\* The body of a request never changes.
LEMMA Bodies == \A r \in Requests :
    /\ ItemsOf(r)' = ItemsOf(r)
    /\ Lines(r)' = Lines(r)
    /\ Found(r)' = Found(r)
    /\ LengthsDiffer(r)' = LengthsDiffer(r)
BY DEF ItemsOf, Lines, Found, Wanted, LengthsDiffer

-----------------------------------------------------------------------------
(* Attempts and their orders *)

\* An attempt that has placed its order is over, and is never refused after.
LEMMA AttemptStep == TypeOK /\ KeyInv /\ AttemptInv /\ Next => AttemptInv'
<1> SUFFICES ASSUME TypeOK, KeyInv, AttemptInv, Next PROVE AttemptInv'
  OBVIOUS
<1> DEFINE Placed(r) == \E o \in orders : o.id = OrderId(r)
           Over(r) == /\ pc[r] \in {"rollback", "release", "done", "lost"}
                      /\ reply[r].status \notin {400, 404, 409}
<1> USE DEF tables, txVars, client, Goto, Answer
<1>1. ASSUME NEW r \in Requests, UNCHANGED <<orders, sends>>, Placed(r) => Over(r)',
             \A s \in Requests \ {r} : pc'[s] = pc[s] /\ reply'[s] = reply[s]
      PROVE  AttemptInv'
  BY <1>1 DEF AttemptInv, OrderId
<1>2. ASSUME NEW r \in Requests, UNCHANGED <<orders, sends>>, pc[r] \notin {"rollback", "release", "done", "lost"},
             \A s \in Requests \ {r} : pc'[s] = pc[s] /\ reply'[s] = reply[s]
      PROVE  AttemptInv'
  BY <1>1, <1>2 DEF AttemptInv
<1>3. ASSUME UNCHANGED <<orders, sends, pc, reply>> PROVE AttemptInv'
  BY <1>3 DEF AttemptInv, OrderId
<1>4. ASSUME NEW r \in Requests, NEW state, NEW label \in {"release", "rollback"}, NEW answer,
             ApplyCommit(r, state), UNCHANGED sends, Goto(r, label), Answer(r, answer),
             answer.status \in {201, 500}
      PROVE  AttemptInv'
  <2>1. orders' \subseteq orders \union {NewOrder(r)}
    BY <1>4 DEF ApplyCommit, KeyInv
  <2>2. NewOrder(r).id = <<r, sends[r]>> /\ sends[r] \in Nat
    BY DEF NewOrder, OrderId, TypeOK
  <2>3. ASSUME NEW o \in orders' PROVE o.id[2] <= sends'[o.id[1]]
    BY <1>4, <2>1, <2>2 DEF AttemptInv
  <2>4. ASSUME NEW s \in Requests, NEW o \in orders', o.id = OrderId(s)' PROVE Over(s)'
    <3>1. OrderId(s)' = OrderId(s)
      BY <1>4 DEF OrderId
    <3>2. CASE s = r
      BY <1>4, <3>2 DEF TypeOK
    <3>3. CASE s # r
      <4>1. o \in orders
        BY <2>1, <2>2, <2>4, <3>1, <3>3 DEF OrderId
      <4>2. pc'[s] = pc[s] /\ reply'[s] = reply[s]
        BY <1>4, <3>3 DEF TypeOK
      <4> QED BY <2>4, <3>1, <4>1, <4>2 DEF AttemptInv
    <3> QED BY <3>2, <3>3
  <2> QED BY <2>3, <2>4 DEF AttemptInv
<1>5. ASSUME NEW r \in Requests, Post(r) \/ PostRejected(r) PROVE AttemptInv'
  <2>1. /\ orders' = orders /\ sends' = [sends EXCEPT ![r] = @ + 1]
        /\ \A s \in Requests \ {r} : pc'[s] = pc[s] /\ reply'[s] = reply[s]
    BY <1>5 DEF Post, PostRejected, TypeOK
  <2>2. \A o \in orders : o.id \in Requests \X Nat /\ sends[o.id[1]] \in Nat
    BY DEF TypeOK, Orders
  <2>3. \A o \in orders : o.id[2] <= sends'[o.id[1]]
    BY <2>1, <2>2 DEF AttemptInv, TypeOK
  <2>4. \A o \in orders : o.id # <<r, sends[r] + 1>>
    BY <2>2 DEF AttemptInv
  <2>5. OrderId(r)' = <<r, sends[r] + 1>> /\ \A s \in Requests \ {r} : OrderId(s)' = OrderId(s)
    BY <2>1 DEF OrderId, TypeOK
  <2> QED BY <2>1, <2>3, <2>4, <2>5 DEF AttemptInv
<1>6. ASSUME Crash PROVE AttemptInv'
  BY <1>6 DEF Crash, AttemptInv, OrderId, NoReply, AtRest, TypeOK
<1>7. ASSUME NEW r \in Requests, Serve(r) PROVE AttemptInv'
  <2>1. CASE ReturnExisting(r) \/ FindNothing(r) \/ Connect(r) \/ StartTransaction(r)
    BY <1>2, <2>1 DEF ReturnExisting, FindNothing, Proceed, Connect, StartTransaction, TypeOK
  <2>2. CASE \E p \in Catalog : LockProduct(r, p)
    BY <1>3, <2>2 DEF LockProduct, Lock
  <2>3. CASE ProductsNotFound(r) \/ StockTooLow(r) \/ ProductUndefined(r)
    <3>1. pc[r] = "lock" /\ \E code \in {404, 409, 500} : Refuse(r, code, "rollback")
      BY <2>3 DEF ProductsNotFound, StockTooLow, TooFew, ProductUndefined, AllLocked, At
    <3>2. UNCHANGED <<orders, sends>> /\ \A s \in Requests \ {r} : pc'[s] = pc[s] /\ reply'[s] = reply[s]
      BY <3>1 DEF Refuse, TypeOK
    <3> QED BY <1>2, <3>1, <3>2
  <2>4. CASE StockSuffices(r)
    BY <1>2, <2>4 DEF StockSuffices, Proceed, AllLocked, At, TypeOK
  <2>5. CASE SaveOrder(r) \/ UpdateStock(r) \/ SaveItem(r)
    BY <1>2, <2>5 DEF SaveOrder, InsertOrder, UpdateStock, SaveItem, InsertItem, At, TypeOK
  <2>6. CASE SaveOrderRefused(r) \/ QueryRejected(r)
    <3>1. UNCHANGED <<orders, sends>> /\ \A s \in Requests \ {r} : pc'[s] = pc[s] /\ reply'[s] = reply[s]
      BY <2>6 DEF SaveOrderRefused, StatementError, QueryRejected, TypeOK
    <3> QED BY <1>2, <2>6, <3>1 DEF SaveOrderRefused, QueryRejected, InTransaction, At
  <2>7. CASE DeadlockDetected(r)
    BY <1>2, <2>7 DEF DeadlockDetected, InWaitCycle, WaitsFor, StatementError, TypeOK
  <2>8. CASE Commit(r)
    BY <1>4, <2>8 DEF Commit
  <2>9. CASE Rollback(r) \/ RollbackFails(r) \/ Release(r)
    <3>1. Placed(r) => Over(r)'
      BY <2>9 DEF AttemptInv, Rollback, RollbackFails, Refusal, Release, GiveBack, TypeOK
    <3>2. /\ UNCHANGED <<orders, sends>> /\ \A s \in Requests \ {r} : pc'[s] = pc[s] /\ reply'[s] = reply[s]
      BY <2>9 DEF Rollback, RollbackFails, Release, GiveBack, TypeOK
    <3> QED BY <1>1, <2>9, <3>1, <3>2 DEF Rollback, RollbackFails, Release, GiveBack
  <2> QED BY <1>7, <2>1, <2>2, <2>3, <2>4, <2>5, <2>6, <2>7, <2>8, <2>9 DEF Serve
<1>8. ASSUME NEW r \in Requests, GoWrong(r) PROVE AttemptInv'
  <2>1. CASE PreludeFails(r)
    BY <1>2, <2>1 DEF PreludeFails, TypeOK
  <2>2. CASE StartTransactionFails(r)
    BY <1>2, <2>2 DEF StartTransactionFails, TypeOK
  <2>3. CASE StatementFails(r)
    BY <1>2, <2>3 DEF StatementFails, StatementError, InTransaction, TypeOK
  <2>4. CASE ConnectionLost(r)
    BY <1>3, <2>4 DEF ConnectionLost
  <2>5. CASE CommitUnacknowledged(r)
    BY <1>4, <2>5 DEF CommitUnacknowledged, Refusal
  <2> QED BY <1>8, <2>1, <2>3, <2>2, <2>4, <2>5 DEF GoWrong
<1> QED BY <1>5, <1>6, <1>7, <1>8 DEF Next

-----------------------------------------------------------------------------
(* Locks *)

\* The rows stay locked from the stock check to the end of the transaction.
LEMMA LocksStep == TypeOK /\ LocksInv /\ Next => LocksInv'
<1> SUFFICES ASSUME TypeOK, LocksInv, Next PROVE LocksInv'
  OBVIOUS
<1> USE DEF tables, txVars, Goto
<1>1. ASSUME NEW r \in Requests, NEW label, Goto(r, label), UNCHANGED rowLock,
             \A s \in Requests \ {r} : tx'[s] = tx[s],
             label \in Selling => pc[r] \in Selling /\ tx'[r] = tx[r]
      PROVE  LocksInv'
  BY <1>1, Bodies DEF LocksInv, TypeOK
<1>2. ASSUME NEW S, NEW state, EndTransactions(S, state), state # "open",
             \A r \in Requests : pc'[r] = pc[r] \/ pc'[r] \notin Selling
      PROVE  LocksInv'
  <2>1. ASSUME NEW r \in Requests, NEW p \in Catalog, rowLock'[p] = r PROVE p \in Found(r)'
    BY <1>2, <2>1, Bodies, NoneAssumption DEF LocksInv, EndTransactions
  <2>2. ASSUME NEW r \in Requests, pc'[r] \in Selling PROVE ~ LengthsDiffer(r)'
    BY <1>2, <2>2, Bodies DEF LocksInv
  <2>3. ASSUME NEW r \in Requests, pc'[r] \in Selling, tx'[r] = "open", NEW p \in Found(r)'
        PROVE  rowLock'[p] = r
    <3>1. pc[r] \in Selling /\ tx[r] = "open" /\ r \notin S
      BY <1>2, <2>3 DEF EndTransactions
    <3>2. p \in Catalog /\ rowLock[p] = r
      BY <2>3, <3>1, Bodies DEF LocksInv, Found
    <3> QED BY <1>2, <3>1, <3>2 DEF EndTransactions
  <2> QED BY <2>1, <2>2, <2>3 DEF LocksInv
<1>3. ASSUME NEW r \in Requests, NEW S, NEW state, NEW label, Goto(r, label),
             EndTransactions(S, state), state # "open", label \notin Selling
      PROVE  LocksInv'
  BY <1>2, <1>3 DEF TypeOK
<1> USE DEF Selling, Writing
<1>4. ASSUME NEW r \in Requests, NEW p \in Catalog, LockProduct(r, p) PROVE LocksInv'
  BY <1>4, Bodies, NoneAssumption DEF LockProduct, Lock, At, LocksInv, TypeOK
<1>5. ASSUME NEW r \in Requests, StockSuffices(r) PROVE LocksInv'
  BY <1>5, Bodies DEF StockSuffices, AllLocked, At, Proceed, LocksInv, TypeOK
<1>6. ASSUME Crash PROVE LocksInv'
  BY <1>2, <1>6 DEF Crash
<1>7. ASSUME NEW r \in Requests, Post(r) \/ PostRejected(r) PROVE LocksInv'
  BY <1>1, <1>7 DEF Post, PostRejected
<1>8. ASSUME NEW r \in Requests, Serve(r) PROVE LocksInv'
  <2>1. CASE ReturnExisting(r) \/ FindNothing(r) \/ Connect(r) \/ StartTransaction(r)
    BY <1>1, <2>1 DEF ReturnExisting, FindNothing, Proceed, Connect, StartTransaction, TypeOK
  <2>2. CASE ProductsNotFound(r) \/ StockTooLow(r) \/ ProductUndefined(r)
    BY <1>1, <2>2 DEF ProductsNotFound, StockTooLow, ProductUndefined, Refuse
  <2>3. CASE SaveOrder(r) \/ UpdateStock(r) \/ SaveItem(r) \/ QueryRejected(r)
    BY <1>1, <2>3 DEF SaveOrder, InsertOrder, UpdateStock, SaveItem, InsertItem, QueryRejected, At
  <2>4. CASE SaveOrderRefused(r) \/ DeadlockDetected(r) \/ Rollback(r) \/ RollbackFails(r)
    BY <1>3, <2>4 DEF SaveOrderRefused, DeadlockDetected, StatementError, Rollback, RollbackFails
  <2>5. CASE Commit(r)
    BY <1>3, <2>5 DEF Commit, ApplyCommit
  <2>6. CASE Release(r)
    BY <1>1, <2>6 DEF Release, GiveBack
  <2> QED BY <1>4, <1>5, <1>8, <2>1, <2>2, <2>3, <2>4, <2>5, <2>6 DEF Serve
<1>9. ASSUME NEW r \in Requests, GoWrong(r) PROVE LocksInv'
  <2>1. CASE PreludeFails(r) \/ StartTransactionFails(r)
    BY <1>1, <2>1 DEF PreludeFails, StartTransactionFails
  <2>2. CASE StatementFails(r)
    BY <1>3, <2>2 DEF StatementFails, StatementError
  <2>3. CASE ConnectionLost(r)
    BY <1>2, <2>3 DEF ConnectionLost
  <2>4. CASE CommitUnacknowledged(r)
    BY <1>3, <2>4 DEF CommitUnacknowledged, ApplyCommit
  <2> QED BY <1>9, <2>1, <2>2, <2>3, <2>4 DEF GoWrong
<1> QED BY <1>6, <1>7, <1>8, <1>9 DEF Next

-----------------------------------------------------------------------------
(* The loop over the lines *)

\* With each line passed, its stock and its item are written.
LEMMA WriteStep == TypeOK /\ LineInv /\ TxInv /\ LocksInv /\ WriteInv /\ Next => WriteInv'
<1> SUFFICES ASSUME TypeOK, LineInv, TxInv, LocksInv, WriteInv, Next PROVE WriteInv'
  OBVIOUS
<1> DEFINE Same(r) == /\ pc'[r] = pc[r] /\ tx'[r] = tx[r] /\ txOrder'[r] = txOrder[r]
                      /\ txItems'[r] = txItems[r] /\ txStock'[r] = txStock[r]
                      /\ productMap'[r] = productMap[r] /\ line'[r] = line[r]
                      /\ sends'[r] = sends[r]
<1>1. ASSUME NEW r \in Requests, Same(r) PROVE Written(r)'
  <2>1. \A k : RowOf(OrderId(r), k)' = RowOf(OrderId(r), k)
    BY <1>1 DEF RowOf, OrderId, ItemsOf
  <2>2. \A k : Remaining(r, k)' = Remaining(r, k)
    BY <1>1 DEF Remaining, ItemsOf
  <2>3. StockWritten(r)' = StockWritten(r) /\ ItemsWritten(r)' = ItemsWritten(r)
    BY <1>1 DEF StockWritten, ItemsWritten
  <2>4. Written(r)
    BY DEF WriteInv
  <2> QED BY <1>1, <2>1, <2>2, <2>3, <2>4, Bodies DEF Written
<1>2. ASSUME NEW r \in Requests, tx'[r] # "open" \/ pc'[r] \notin {"lock", "save_order"} \union Writing
      PROVE  Written(r)'
  BY <1>2 DEF Written, Writing
<1>3. ASSUME NEW r \in Requests, Written(r)', \A s \in Requests \ {r} : Same(s)
      PROVE  WriteInv'
  BY <1>1, <1>3 DEF WriteInv
<1> HIDE DEF Same
<1>4. ASSUME NEW r \in Requests, NEW s \in Requests \ {r}, EndTransactions({r}, "none") \/ EndTransactions({r}, "aborted")
             \/ EndTransactions({r}, "broken"),
             pc'[s] = pc[s], UNCHANGED <<locals, client>>
      PROVE  Same(s)
  BY <1>4 DEF Same, EndTransactions, locals, client
<1>5. ASSUME NEW r \in Requests, NEW s \in Requests \ {r}, UNCHANGED txVars, pc'[s] = pc[s],
             productMap'[s] = productMap[s], line'[s] = line[s], sends'[s] = sends[s]
      PROVE  Same(s)
  BY <1>5 DEF Same, txVars
<1>6. ASSUME NEW r \in Requests, NEW state \in {"none", "aborted", "broken"}, EndTransactions({r}, state),
             UNCHANGED <<locals, client>>, \A s \in Requests \ {r} : pc'[s] = pc[s]
      PROVE  WriteInv'
  <2>1. tx'[r] # "open"
    BY <1>6 DEF EndTransactions
  <2>2. Written(r)'
    BY <1>2, <2>1
  <2> QED BY <1>3, <1>4, <1>6, <2>2
<1>7. ASSUME NEW r \in Requests, NEW label, Goto(r, label), UNCHANGED txVars,
             \A s \in Requests \ {r} : UNCHANGED <<productMap[s], line[s], sends[s]>>,
             tx[r] = "none" \/ label \notin {"lock", "save_order"} \union Writing
      PROVE  WriteInv'
  <2>1. Written(r)'
    BY <1>2, <1>7 DEF Goto, txVars, TypeOK
  <2>2. \A s \in Requests \ {r} : Same(s)
    BY <1>7 DEF Same, Goto, txVars, TypeOK
  <2> QED BY <1>3, <2>1, <2>2
<1>8. ASSUME NEW r \in Requests, StartTransaction(r) PROVE WriteInv'
  <2>1. txItems'[r] = {} /\ pc'[r] = "lock"
    BY <1>8 DEF StartTransaction, Goto, TxInv, InTransaction, TypeOK
  <2>2. Written(r)'
    BY <2>1 DEF Written, Writing
  <2>3. \A s \in Requests \ {r} : Same(s)
    BY <1>8 DEF Same, StartTransaction, Goto, locals, client, TypeOK
  <2> QED BY <1>3, <2>2, <2>3
<1>9. ASSUME NEW r \in Requests, NEW p \in Catalog, LockProduct(r, p) PROVE WriteInv'
  <2>1. pc'[r] = "lock" /\ txItems'[r] = {}
    BY <1>9 DEF LockProduct, Lock, At, WriteInv, Written
  <2>2. Written(r)'
    BY <2>1 DEF Written, Writing
  <2>3. \A s \in Requests \ {r} : Same(s)
    BY <1>9 DEF Same, LockProduct, Lock, client, TypeOK
  <2> QED BY <1>3, <2>2, <2>3
<1>10. ASSUME NEW r \in Requests, StockSuffices(r) PROVE WriteInv'
  <2>1. pc'[r] = "save_order" /\ txItems'[r] = {}
    BY <1>10 DEF StockSuffices, AllLocked, Proceed, Goto, At, txVars, WriteInv, Written, TypeOK
  <2>2. Written(r)'
    BY <2>1 DEF Written, Writing
  <2>3. \A s \in Requests \ {r} : Same(s)
    BY <1>10 DEF Same, StockSuffices, Proceed, Goto, txVars, locals, client, TypeOK
  <2> QED BY <1>3, <2>2, <2>3
<1>11. ASSUME NEW r \in Requests, SaveOrder(r) PROVE WriteInv'
  <2>1. /\ pc'[r] = "update_stock" /\ line'[r] = 1
        /\ txItems'[r] = {} /\ txOrder'[r] = {NewOrder(r)}
    BY <1>11 DEF SaveOrder, InsertOrder, At, Goto, WriteInv, Written, TypeOK
  <2>2. StockWritten(r)' = {} /\ ItemsWritten(r)' = {}
    BY <2>1 DEF StockWritten, ItemsWritten
  <2>3. Written(r)'
    BY <2>1, <2>2 DEF Written, Writing
  <2>4. \A s \in Requests \ {r} : Same(s)
    BY <1>11 DEF Same, SaveOrder, InsertOrder, Goto, client, TypeOK
  <2> QED BY <1>3, <2>3, <2>4
<1>12. ASSUME NEW r \in Requests, UpdateStock(r) PROVE WriteInv'
  <2> DEFINE product(k) == ItemsOf(r)[k].productId
  <2>1. /\ pc[r] = "update_stock" /\ pc'[r] = "save_item" /\ tx[r] = "open"
        /\ UNCHANGED <<line, txItems, txOrder, productMap, sends>>
        /\ txStock' = [txStock EXCEPT ![r][product(line[r])] = Remaining(r, line[r])]
    BY <1>12 DEF UpdateStock, At, Goto, locals, client, Remaining, TypeOK
  <2>2. /\ line[r] \in Lines(r) /\ line[r] \in Nat
        /\ \A j, k \in Lines(r) : product(j) = product(k) => j = k
        /\ \A k \in Lines(r) : product(k) \in Catalog
    BY <2>1, LinesAreProducts DEF LineInv, LocksInv, Selling, Writing, Found, Wanted, TypeOK
  <2>3. StockWritten(r)' = StockWritten(r) \union {line[r]} /\ ItemsWritten(r)' = ItemsWritten(r)
    <3>1. 1 .. line[r] = (1 .. line[r] - 1) \union {line[r]}
      BY <2>2, ItemTypes DEF Lines
    <3> QED BY <2>1, <3>1 DEF StockWritten, ItemsWritten
  <2>4. StockWritten(r) \subseteq Lines(r) \ {line[r]}
    BY <2>1, <2>2, ItemTypes DEF StockWritten, Lines
  <2>5. \A k : Remaining(r, k)' = Remaining(r, k) /\ RowOf(OrderId(r), k)' = RowOf(OrderId(r), k)
    BY <2>1 DEF Remaining, RowOf, OrderId, ItemsOf
  <2>6. Written(r)
    BY DEF WriteInv
  <2>7. \A k \in StockWritten(r)' : txStock'[r][product(k)] = Remaining(r, k)'
    <3> SUFFICES ASSUME NEW k \in StockWritten(r)' PROVE txStock'[r][product(k)] = Remaining(r, k)
      BY <2>5
    <3>1. txStock[r] \in [Catalog -> Int]
      BY DEF TypeOK
    <3>2. CASE k = line[r]
      <4> HIDE DEF product
      <4> QED BY <2>1, <2>2, <3>1, <3>2 DEF TypeOK
    <3>3. CASE k # line[r]
      <4>1. k \in StockWritten(r) /\ product(k) # product(line[r]) /\ product(k) \in Catalog
        BY <2>2, <2>3, <2>4, <3>3
      <4>2. txStock[r][product(k)] = Remaining(r, k)
        BY <2>1, <2>6, <4>1 DEF Written, Writing
      <4> HIDE DEF product
      <4> QED BY <2>1, <3>1, <4>1, <4>2 DEF TypeOK
    <3> QED BY <3>2, <3>3
  <2>8. Written(r)'
    BY <2>1, <2>3, <2>5, <2>6, <2>7, Bodies DEF Written, Writing
  <2>9. \A s \in Requests \ {r} : Same(s)
    BY <1>12 DEF Same, UpdateStock, Goto, locals, client, TypeOK
  <2> QED BY <1>3, <2>8, <2>9
<1>13. ASSUME NEW r \in Requests, SaveItem(r) PROVE WriteInv'
  <2>1. /\ pc[r] = "save_item" /\ tx[r] = "open"
        /\ pc'[r] = IF line[r] >= Len(ItemsOf(r)) THEN "commit" ELSE "update_stock"
        /\ line'[r] = line[r] + 1
        /\ txItems'[r] = txItems[r] \union {RowOf(OrderId(r), line[r])}
        /\ UNCHANGED <<txOrder, txStock, productMap, sends>>
    BY <1>13 DEF SaveItem, InsertItem, At, Goto, client, TypeOK
  <2>2. /\ line[r] \in Lines(r) /\ line[r] \in Nat /\ line[r] >= 1
        /\ Len(ItemsOf(r)) \in Nat /\ line[r] <= Len(ItemsOf(r))
    BY <2>1, ItemTypes DEF LineInv, Lines, TypeOK
  <2>3. StockWritten(r)' = StockWritten(r) /\ ItemsWritten(r)' = ItemsWritten(r) \union {line[r]}
    <3>1. pc'[r] # "save_item" /\ line'[r] - 1 = line[r]
      BY <2>1, <2>2
    <3>2. 1 .. line[r] = (1 .. line[r] - 1) \union {line[r]}
      BY <2>2
    <3> QED BY <2>1, <3>1, <3>2 DEF StockWritten, ItemsWritten
  <2>4. \A k : Remaining(r, k)' = Remaining(r, k) /\ RowOf(OrderId(r), k)' = RowOf(OrderId(r), k)
    BY <2>1 DEF Remaining, RowOf, OrderId, ItemsOf
  <2>5. Written(r)
    BY DEF WriteInv
  <2>6. txItems'[r] = {RowOf(OrderId(r), k)' : k \in ItemsWritten(r)'}
    BY <2>1, <2>3, <2>4, <2>5 DEF Written, Writing
  <2>7. pc'[r] = "commit" => line'[r] = Len(ItemsOf(r)) + 1
    BY <2>1, <2>2
  <2>8. Written(r)'
    BY <2>1, <2>3, <2>4, <2>5, <2>6, <2>7, Bodies DEF Written, Writing
  <2>9. \A s \in Requests \ {r} : Same(s)
    BY <1>13 DEF Same, SaveItem, InsertItem, Goto, client, TypeOK
  <2> QED BY <1>3, <2>8, <2>9
<1>14. ASSUME NEW r \in Requests, Post(r) \/ PostRejected(r) PROVE WriteInv'
  BY <1>7, <1>14 DEF Post, PostRejected, locals, Writing, TypeOK
<1>15. ASSUME Crash PROVE WriteInv'
  <2>1. \A r \in Requests : tx'[r] # "open"
    BY <1>15 DEF Crash, EndTransactions, TxInv, InTransaction, AtRest
  <2> QED BY <1>2, <2>1 DEF WriteInv
<1>16. ASSUME NEW r \in Requests, Serve(r) PROVE WriteInv'
  <2>1. CASE ReturnExisting(r) \/ FindNothing(r) \/ Connect(r)
    BY <1>7, <2>1 DEF ReturnExisting, FindNothing, Proceed, Connect, locals, client, Writing
  <2>2. CASE ProductsNotFound(r) \/ StockTooLow(r) \/ ProductUndefined(r) \/ QueryRejected(r)
    BY <1>7, <2>2 DEF ProductsNotFound, StockTooLow, ProductUndefined, Refuse, QueryRejected, locals,
         client, Writing
  <2>3. CASE SaveOrderRefused(r) \/ DeadlockDetected(r)
    BY <1>6, <2>3 DEF SaveOrderRefused, DeadlockDetected, StatementError, Goto, TypeOK
  <2>4. CASE Commit(r) \/ Rollback(r) \/ RollbackFails(r)
    BY <1>6, <2>4 DEF Commit, ApplyCommit, Rollback, RollbackFails, Goto, TypeOK
  <2>5. CASE Release(r)
    BY <1>7, <2>5 DEF Release, GiveBack, client, Writing, TypeOK
  <2> QED BY <1>8, <1>9, <1>10, <1>11, <1>12, <1>13, <1>16, <2>1, <2>2, <2>3, <2>4, <2>5 DEF Serve
<1>17. ASSUME NEW r \in Requests, GoWrong(r) PROVE WriteInv'
  <2>1. CASE PreludeFails(r) \/ StartTransactionFails(r)
    BY <1>7, <2>1 DEF PreludeFails, StartTransactionFails, locals, client, Writing
  <2>2. CASE StatementFails(r)
    BY <1>6, <2>2 DEF StatementFails, StatementError, Goto, TypeOK
  <2>3. CASE ConnectionLost(r)
    BY <1>6, <2>3 DEF ConnectionLost
  <2>4. CASE CommitUnacknowledged(r)
    BY <1>6, <2>4 DEF CommitUnacknowledged, ApplyCommit, Goto, TypeOK
  <2> QED BY <1>17, <2>1, <2>2, <2>3, <2>4 DEF GoWrong
<1> QED BY <1>14, <1>15, <1>16, <1>17 DEF Next

-----------------------------------------------------------------------------
(* Commits *)

\* What COMMIT makes visible: the order of the attempt, with a row for each line.
LEMMA CommitEffect ==
    ASSUME TypeOK, KeyInv, WriteInv, NEW r \in Requests, NEW state, ApplyCommit(r, state)
    PROVE  /\ orders' = orders \union {NewOrder(r)}
           /\ orderItems' = orderItems \union {RowOf(OrderId(r), k) : k \in Lines(r)}
           /\ OrdersFor(r) = {}
           /\ \A k \in Lines(r) : txStock[r][ItemsOf(r)[k].productId] = Remaining(r, k)
<1>1. /\ pc[r] = "commit" /\ tx[r] = "open"
      /\ orders' = orders \union txOrder[r]
      /\ orderItems' = orderItems \union txItems[r]
  BY DEF ApplyCommit, At
<1>2. Written(r)
  BY DEF WriteInv
<1>3. /\ txOrder[r] # {} /\ line[r] = Len(ItemsOf(r)) + 1
      /\ txItems[r] = {RowOf(OrderId(r), k) : k \in ItemsWritten(r)}
      /\ \A k \in StockWritten(r) : txStock[r][ItemsOf(r)[k].productId] = Remaining(r, k)
  BY <1>1, <1>2 DEF Written, Writing
<1>4. ItemsWritten(r) = Lines(r) /\ StockWritten(r) = Lines(r)
  BY <1>1, <1>3, ItemTypes DEF ItemsWritten, StockWritten, Lines
<1>5. txOrder[r] = {NewOrder(r)} /\ OrdersFor(r) = {}
  BY <1>3 DEF KeyInv
<1> QED BY <1>1, <1>3, <1>4, <1>5

\* No other step touches the tables.
LEMMA TablesChange ==
    ASSUME Next
    PROVE  \/ UNCHANGED tables
           \/ \E r \in Requests : Commit(r) \/ CommitUnacknowledged(r)
<1>1. ASSUME NEW r \in Requests, Serve(r) PROVE UNCHANGED tables \/ Commit(r)
  BY <1>1 DEF Serve, ReturnExisting, FindNothing, Proceed, Connect, StartTransaction, LockProduct, Lock,
       ProductsNotFound, StockTooLow, ProductUndefined, Refuse, StockSuffices, SaveOrder, InsertOrder,
       SaveOrderRefused, StatementError, UpdateStock, SaveItem, InsertItem, DeadlockDetected,
       QueryRejected, Rollback, RollbackFails, Release, GiveBack, tables
<1>2. ASSUME NEW r \in Requests, GoWrong(r) PROVE UNCHANGED tables \/ CommitUnacknowledged(r)
  BY <1>2 DEF GoWrong, PreludeFails, StartTransactionFails, StatementFails, StatementError, ConnectionLost, tables
<1> QED BY <1>1, <1>2 DEF Next, Post, PostRejected, Crash, tables

\* A commit brings an order with the items of all lines; no other step touches either.
LEMMA WholeStep == TypeOK /\ KeyInv /\ WriteInv /\ WholeOrders /\ Next => WholeOrders'
<1> SUFFICES ASSUME TypeOK, KeyInv, WriteInv, WholeOrders, Next PROVE WholeOrders'
  OBVIOUS
<1>1. \A id, k : RowOf(id, k)' = RowOf(id, k)
  BY DEF RowOf, ItemsOf
<1>2. ASSUME UNCHANGED tables PROVE WholeOrders'
  BY <1>1, <1>2 DEF WholeOrders, tables, Lines, ItemsOf
<1>3. ASSUME NEW r \in Requests, NEW state, ApplyCommit(r, state) PROVE WholeOrders'
  <2> DEFINE Of(o) == {RowOf(o.id, k) : k \in Lines(o.id[1])}
  <2>1. NewOrder(r).id = OrderId(r) /\ OrderId(r)[1] = r
    BY DEF NewOrder, OrderId
  <2>2. Of(NewOrder(r)) = {RowOf(OrderId(r), k) : k \in Lines(r)}
    BY <2>1
  <2>3. orders' = orders \union {NewOrder(r)} /\ orderItems' = orderItems \union Of(NewOrder(r))
    BY <1>3, <2>2, CommitEffect
  <2>4. orderItems = UNION {Of(o) : o \in orders}
    BY DEF WholeOrders
  <2>5. \A o : Of(o)' = Of(o)
    BY <1>1 DEF Lines, ItemsOf
  <2> HIDE DEF Of
  <2>6. orderItems' = UNION {Of(o) : o \in orders'}
    BY <2>3, <2>4
  <2> USE DEF Of
  <2> QED BY <1>1, <2>5, <2>6 DEF WholeOrders, Lines, ItemsOf
<1> QED BY <1>2, <1>3, TablesChange DEF Commit, CommitUnacknowledged

\* Committed orders stay.
LEMMA OrdersGrow ==
    ASSUME TypeOK, KeyInv, WriteInv, Next
    PROVE  /\ orders \subseteq orders'
           /\ \A r \in Requests : OrdersFor(r) \subseteq OrdersFor(r)'
<1>1. orders \subseteq orders'
  BY TablesChange, CommitEffect DEF tables, Commit, CommitUnacknowledged
<1> QED BY <1>1 DEF OrdersFor

-----------------------------------------------------------------------------
(* Answers *)

\* A 200 or 201 is decided on for committed orders only.
LEMMA ReplyStep == TypeOK /\ KeyInv /\ WriteInv /\ ReplyInv /\ Next => ReplyInv'
<1> SUFFICES ASSUME TypeOK, KeyInv, WriteInv, ReplyInv, Next PROVE ReplyInv'
  OBVIOUS
<1> USE DEF Goto, Answer, client
<1> DEFINE True(r) ==
        /\ reply[r].status \in {200, 201} =>
               /\ pc[r] \in {"release", "done"}
               /\ \E o \in OrdersFor(r) : o.id = reply[r].order
        /\ reply[r].status = 200 => pc[r] = "done"
        /\ reply[r].status = 201 => reply[r].order = OrderId(r)
<1>1. ASSUME NEW r \in Requests, pc'[r] = pc[r], reply'[r] = reply[r], sends'[r] = sends[r]
      PROVE  True(r)'
  <2>1. True(r) /\ OrdersFor(r) \subseteq OrdersFor(r)' /\ OrderId(r)' = OrderId(r)
    BY <1>1, OrdersGrow DEF ReplyInv, OrderId
  <2> QED BY <1>1, <2>1
<1>2. ASSUME NEW r \in Requests, reply'[r].status \notin {200, 201} PROVE True(r)'
  BY <1>2
<1>3. ASSUME NEW r \in Requests, True(r)',
             \A s \in Requests \ {r} : pc'[s] = pc[s] /\ reply'[s] = reply[s] /\ sends'[s] = sends[s]
      PROVE  ReplyInv'
  BY <1>1, <1>3 DEF ReplyInv
<1>4. ASSUME UNCHANGED <<pc, reply, sends>> PROVE ReplyInv'
  BY <1>1, <1>4 DEF ReplyInv
<1> HIDE DEF True
<1>5. ASSUME NEW r \in Requests, reply'[r].status \notin {200, 201},
             \A s \in Requests \ {r} : pc'[s] = pc[s] /\ reply'[s] = reply[s] /\ sends'[s] = sends[s]
      PROVE  ReplyInv'
  BY <1>2, <1>3, <1>5
<1>6. ASSUME NEW r \in Requests, NEW label, Goto(r, label), UNCHANGED <<reply, sends>>,
             pc[r] \notin {"release", "done"} \/ (pc[r] = "release" /\ label = "done")
      PROVE  ReplyInv'
  <2>1. True(r)'
    <3>1. CASE reply[r].status \notin {200, 201}
      BY <1>2, <1>6, <3>1
    <3>2. CASE reply[r].status \in {200, 201}
      <4>1. pc[r] = "release" /\ pc'[r] = "done" /\ OrderId(r)' = OrderId(r)
        BY <1>6, <3>2 DEF ReplyInv, TypeOK, OrderId
      <4>2. OrdersFor(r) \subseteq OrdersFor(r)'
        BY OrdersGrow
      <4> QED BY <1>6, <3>2, <4>1, <4>2 DEF ReplyInv, True
    <3> QED BY <3>1, <3>2
  <2> QED BY <1>3, <1>6, <2>1 DEF TypeOK
<1>7. ASSUME NEW r \in Requests, ReturnExisting(r) PROVE ReplyInv'
  <2>1. PICK o \in OrdersFor(r) : reply' = [reply EXCEPT ![r] = [status |-> 200, order |-> o.id]]
    BY <1>7 DEF ReturnExisting
  <2>2. o \in OrdersFor(r)'
    BY OrdersGrow
  <2>3. reply'[r] = [status |-> 200, order |-> o.id] /\ pc'[r] = "done"
    BY <1>7, <2>1 DEF ReturnExisting, TypeOK
  <2>4. True(r)'
    BY <2>2, <2>3 DEF True
  <2> QED BY <1>3, <1>7, <2>1, <2>4 DEF ReturnExisting, TypeOK
<1>8. ASSUME NEW r \in Requests, Commit(r) PROVE ReplyInv'
  <2>1. NewOrder(r) \in OrdersFor(r)' /\ NewOrder(r).id = OrderId(r) /\ OrderId(r)' = OrderId(r)
    BY <1>8, CommitEffect DEF Commit, NewOrder, OrdersFor, OrderId
  <2>2. reply'[r] = [status |-> 201, order |-> OrderId(r)] /\ pc'[r] = "release"
    BY <1>8 DEF Commit, TypeOK
  <2>3. True(r)'
    BY <2>1, <2>2 DEF True
  <2> QED BY <1>3, <1>8, <2>3 DEF Commit, TypeOK
<1>9. ASSUME NEW r \in Requests, NEW label, NEW code \in {400, 404, 409, 500}, Goto(r, label),
              Answer(r, Refusal(code)), UNCHANGED sends
       PROVE  ReplyInv'
  <2>1. reply'[r].status = code
    BY <1>9 DEF Refusal, TypeOK
  <2>2. \A s \in Requests \ {r} : pc'[s] = pc[s] /\ reply'[s] = reply[s] /\ sends'[s] = sends[s]
    BY <1>9 DEF TypeOK
  <2> QED BY <1>5, <2>1, <2>2
<1>10. ASSUME NEW r \in Requests, Post(r) \/ PostRejected(r) PROVE ReplyInv'
  <2>1. reply'[r].status \in {0, 400}
    BY <1>10 DEF Post, PostRejected, NoReply, Refusal, TypeOK
  <2>2. \A s \in Requests \ {r} : pc'[s] = pc[s] /\ reply'[s] = reply[s] /\ sends'[s] = sends[s]
    BY <1>10 DEF Post, PostRejected, TypeOK
  <2> QED BY <1>5, <2>1, <2>2
<1>11. ASSUME Crash PROVE ReplyInv'
  <2>1. ASSUME NEW r \in Requests PROVE True(r)'
    <3>1. CASE pc[r] \in AtRest
      BY <1>1, <1>11, <3>1 DEF Crash
    <3>2. CASE pc[r] \notin AtRest
      BY <1>2, <1>11, <3>2 DEF Crash, NoReply
    <3> QED BY <3>1, <3>2
  <2> QED BY <2>1 DEF ReplyInv, True
<1>12. ASSUME NEW r \in Requests, Serve(r) PROVE ReplyInv'
  <2>1. CASE FindNothing(r) \/ Connect(r) \/ StartTransaction(r) \/ StockSuffices(r)
    BY <1>6, <2>1 DEF FindNothing, Proceed, Connect, StartTransaction, StockSuffices
  <2>2. CASE \E p \in Catalog : LockProduct(r, p)
    BY <1>4, <2>2 DEF LockProduct, Lock
  <2>3. CASE ProductsNotFound(r) \/ StockTooLow(r) \/ ProductUndefined(r) \/ QueryRejected(r)
    BY <1>9, <2>3 DEF ProductsNotFound, StockTooLow, ProductUndefined, Refuse, QueryRejected
  <2>4. CASE SaveOrder(r) \/ UpdateStock(r) \/ SaveItem(r)
    BY <1>6, <2>4 DEF SaveOrder, InsertOrder, UpdateStock, SaveItem, InsertItem, At
  <2>5. CASE SaveOrderRefused(r) \/ DeadlockDetected(r) \/ RollbackFails(r)
    BY <1>9, <2>5 DEF SaveOrderRefused, DeadlockDetected, StatementError, RollbackFails
  <2>6. CASE Rollback(r) \/ Release(r)
    BY <1>6, <2>6 DEF Rollback, Release, GiveBack
  <2> QED BY <1>7, <1>8, <1>12, <2>1, <2>2, <2>3, <2>4, <2>5, <2>6 DEF Serve
<1>13. ASSUME NEW r \in Requests, GoWrong(r) PROVE ReplyInv'
  <2>1. CASE PreludeFails(r) \/ StartTransactionFails(r) \/ StatementFails(r) \/ CommitUnacknowledged(r)
    BY <1>9, <2>1 DEF PreludeFails, StartTransactionFails, StatementFails, StatementError,
         CommitUnacknowledged
  <2>2. CASE ConnectionLost(r)
    BY <1>4, <2>2 DEF ConnectionLost
  <2> QED BY <1>13, <2>1, <2>2 DEF GoWrong
<1> QED BY <1>10, <1>11, <1>12, <1>13 DEF Next

\* A retry of what is placed finds it, and goes no further.
LEMMA RetryStep == TypeOK /\ KeyInv /\ WriteInv /\ RetryInv /\ Next => RetryInv'
<1> SUFFICES ASSUME TypeOK, KeyInv, WriteInv, RetryInv, Next PROVE RetryInv'
  OBVIOUS
<1> USE DEF Goto, Answer, Fault, client
<1> DEFINE Retried(r) == existed[r] =>
        /\ Dto[r].idempotencyKey # None
        /\ OrdersFor(r) # {}
        /\ pc[r] \in {"find", "done", "lost"}
        /\ pc[r] = "done" => reply[r].status = 200 \/ (reply[r].status = 500 /\ faults > 0)
<1>1. ASSUME NEW r \in Requests, existed'[r] = existed[r], ~ existed[r] PROVE Retried(r)'
  BY <1>1
<1>2. \A r \in Requests : existed[r] => OrdersFor(r)' # {} /\ pc[r] \in {"find", "done", "lost"}
  BY OrdersGrow DEF RetryInv
<1>3. ASSUME NEW r \in Requests, existed'[r] => existed[r], pc'[r] = pc[r], reply'[r] = reply[r],
             faults' \in {faults, faults + 1}
      PROVE  Retried(r)'
  <2>1. faults' > 0 \/ ~ faults > 0
    BY <1>3 DEF TypeOK
  <2> QED BY <1>2, <1>3, <2>1 DEF RetryInv
<1>4. ASSUME NEW r \in Requests, existed'[r] => existed[r], pc'[r] \in {"find", "lost"}
      PROVE  Retried(r)'
  BY <1>2, <1>4 DEF RetryInv
<1>5. ASSUME NEW r \in Requests, Retried(r)', faults' \in {faults, faults + 1},
             \A s \in Requests \ {r} : existed'[s] = existed[s] /\ pc'[s] = pc[s] /\ reply'[s] = reply[s]
      PROVE  RetryInv'
  BY <1>3, <1>5 DEF RetryInv
<1> HIDE DEF Retried
<1>6. ASSUME NEW r \in Requests, ~ existed[r], UNCHANGED existed, faults' \in {faults, faults + 1},
             \A s \in Requests \ {r} : pc'[s] = pc[s] /\ reply'[s] = reply[s]
      PROVE  RetryInv'
  BY <1>1, <1>5, <1>6
<1>7. ASSUME NEW r \in Requests, pc[r] \notin {"find", "done", "lost"} PROVE ~ existed[r]
  BY <1>2, <1>7
<1>8. ASSUME UNCHANGED <<pc, reply, existed>>, faults' \in {faults, faults + 1} PROVE RetryInv'
  BY <1>3, <1>8 DEF RetryInv, Retried
<1>9. ASSUME NEW r \in Requests, Post(r) PROVE RetryInv'
  <2>1. Retried(r)'
    BY <1>9 DEF Post, Retried, TypeOK, OrdersFor, tables
  <2> QED BY <1>5, <1>9, <2>1 DEF Post, TypeOK
<1>10. ASSUME NEW r \in Requests, PostRejected(r) PROVE RetryInv'
  <2>1. ~ existed[r]
    BY <1>10 DEF PostRejected, RetryInv
  <2> QED BY <1>6, <1>10, <2>1 DEF PostRejected, TypeOK
<1>11. ASSUME NEW r \in Requests, ReturnExisting(r) PROVE RetryInv'
  <2>1. Retried(r)'
    BY <1>2, <1>11 DEF ReturnExisting, Retried, RetryInv, TypeOK
  <2> QED BY <1>5, <1>11, <2>1 DEF ReturnExisting, TypeOK
<1>12. ASSUME NEW r \in Requests, PreludeFails(r) PROVE RetryInv'
  <2>1. faults' > 0
    BY <1>12 DEF PreludeFails, TypeOK
  <2>2. Retried(r)'
    BY <1>2, <1>12, <2>1 DEF PreludeFails, Refusal, Retried, RetryInv, TypeOK
  <2> QED BY <1>5, <1>12, <2>2 DEF PreludeFails, TypeOK
<1>13. ASSUME Crash PROVE RetryInv'
  <2>1. ASSUME NEW r \in Requests PROVE Retried(r)'
    <3>1. CASE pc[r] \in AtRest
      BY <1>3, <1>13, <3>1 DEF Crash
    <3>2. CASE pc[r] \notin AtRest
      BY <1>4, <1>13, <3>2 DEF Crash
    <3> QED BY <3>1, <3>2
  <2> QED BY <2>1 DEF RetryInv, Retried
<1>14. ASSUME NEW r \in Requests, Serve(r) PROVE RetryInv'
  <2>1. CASE FindNothing(r)
    BY <1>6, <2>1 DEF FindNothing, Proceed, RetryInv, TypeOK
  <2>2. CASE Connect(r) \/ StartTransaction(r) \/ StockSuffices(r)
    BY <1>6, <1>7, <2>2 DEF Connect, StartTransaction, StockSuffices, AllLocked, At, Proceed, TypeOK
  <2>3. CASE \E p \in Catalog : LockProduct(r, p)
    BY <1>8, <2>3 DEF LockProduct, Lock
  <2>4. CASE ProductsNotFound(r) \/ StockTooLow(r) \/ ProductUndefined(r)
    <3>1. ~ existed[r] /\ \E code \in {404, 409, 500} : Refuse(r, code, "rollback")
      BY <1>7, <2>4 DEF ProductsNotFound, StockTooLow, TooFew, ProductUndefined, AllLocked, At
    <3> QED BY <1>6, <3>1 DEF Refuse, TypeOK
  <2>5. CASE SaveOrder(r) \/ UpdateStock(r) \/ SaveItem(r)
    BY <1>6, <1>7, <2>5 DEF SaveOrder, InsertOrder, UpdateStock, SaveItem, InsertItem, At, TypeOK
  <2>6. CASE SaveOrderRefused(r) \/ QueryRejected(r) \/ RollbackFails(r)
    <3>1. ~ existed[r]
      BY <1>7, <2>6 DEF SaveOrderRefused, QueryRejected, RollbackFails, At, InTransaction
    <3>2. /\ UNCHANGED <<existed, faults>>
          /\ \A s \in Requests \ {r} : pc'[s] = pc[s] /\ reply'[s] = reply[s]
      BY <2>6 DEF SaveOrderRefused, StatementError, QueryRejected, RollbackFails, TypeOK
    <3> QED BY <1>6, <3>1, <3>2
  <2>7. CASE DeadlockDetected(r)
    BY <1>6, <1>7, <2>7 DEF DeadlockDetected, InWaitCycle, WaitsFor, StatementError, TypeOK
  <2>8. CASE Commit(r) \/ Rollback(r) \/ Release(r)
    BY <1>6, <1>7, <2>8 DEF Commit, ApplyCommit, Rollback, Release, GiveBack, At, TypeOK
  <2> QED BY <1>11, <1>14, <2>1, <2>2, <2>3, <2>4, <2>5, <2>6, <2>7, <2>8 DEF Serve
<1>15. ASSUME NEW r \in Requests, GoWrong(r) PROVE RetryInv'
  <2>1. CASE StartTransactionFails(r) \/ StatementFails(r) \/ CommitUnacknowledged(r)
    <3>1. ~ existed[r]
      BY <1>7, <2>1 DEF StartTransactionFails, StatementFails, CommitUnacknowledged, ApplyCommit,
           At, InTransaction
    <3>2. /\ UNCHANGED existed /\ faults' = faults + 1
          /\ \A s \in Requests \ {r} : pc'[s] = pc[s] /\ reply'[s] = reply[s]
      BY <2>1 DEF StartTransactionFails, StatementFails, StatementError, CommitUnacknowledged, TypeOK
    <3> QED BY <1>6, <3>1, <3>2
  <2>2. CASE ConnectionLost(r)
    BY <1>8, <2>2 DEF ConnectionLost
  <2> QED BY <1>12, <1>15, <2>1, <2>2 DEF GoWrong
<1> QED BY <1>9, <1>10, <1>13, <1>14, <1>15 DEF Next

-----------------------------------------------------------------------------
(* The invariant *)

\* The invariant of the ledger holds before anything has happened.
LEMMA LedgerInit == Init => LedgerInv
<1> SUFFICES ASSUME Init PROVE LedgerInv
  OBVIOUS
<1>1. AttemptInv /\ LocksInv
  BY NoneAssumption DEF Init, AttemptInv, LocksInv, Selling, Writing
<1>2. WriteInv
  BY DEF Init, WriteInv, Written
<1>3. WholeOrders /\ ReplyInv /\ RetryInv
  BY DEF Init, WholeOrders, ReplyInv, RetryInv, NoReply
<1> QED BY <1>1, <1>2, <1>3 DEF LedgerInv

\* A stuttering step keeps it.
LEMMA LedgerStutter == LedgerInv /\ UNCHANGED vars => LedgerInv'
<1> SUFFICES ASSUME LedgerInv, UNCHANGED vars PROVE LedgerInv'
  OBVIOUS
<1> USE DEF vars, LedgerInv
<1>1. AttemptInv'
  BY DEF AttemptInv, OrderId
<1>2. LocksInv'
  BY Bodies DEF LocksInv
<1>3. WriteInv'
  <2> SUFFICES ASSUME NEW r \in Requests PROVE Written(r)'
    BY DEF WriteInv
  <2>1. \A k : RowOf(OrderId(r), k)' = RowOf(OrderId(r), k) /\ Remaining(r, k)' = Remaining(r, k)
    BY DEF RowOf, OrderId, Remaining, ItemsOf
  <2>2. StockWritten(r)' = StockWritten(r) /\ ItemsWritten(r)' = ItemsWritten(r)
    BY DEF StockWritten, ItemsWritten
  <2> QED BY <2>1, <2>2, Bodies DEF WriteInv, Written
<1>4. WholeOrders'
  BY DEF WholeOrders, RowOf, Lines, ItemsOf
<1>5. ReplyInv'
  BY DEF ReplyInv, OrdersFor, OrderId
<1>6. RetryInv'
  BY DEF RetryInv, OrdersFor
<1> QED BY <1>1, <1>2, <1>3, <1>4, <1>5, <1>6

\* What the attempts have written, locked and been told holds in every
\* reachable state.
THEOREM LedgerInvariance == Spec => []LedgerInv
<1>1. Init => LedgerInv
  BY LedgerInit
<1>2. IndInv /\ LedgerInv /\ [Next]_vars => LedgerInv'
  BY AttemptStep, LocksStep, WriteStep, WholeStep, ReplyStep, RetryStep, LedgerStutter DEF IndInv, LedgerInv
<1> QED BY <1>1, <1>2, Invariance, PTL DEF Spec

\* An order has one item for each line of the body that placed it, and there is
\* no item without its order, whatever fails or breaks.
THEOREM NothingByHalves == Spec => []WholeOrders
<1>1. LedgerInv => WholeOrders
  BY DEF LedgerInv
<1> QED BY <1>1, LedgerInvariance, PTL

\* 201 names the order of this very attempt, 200 the one under its key, and an
\* attempt refused with 400, 404 or 409 has placed nothing.
THEOREM TrueAnswers == Spec => []AnswersAreTrue
<1>1. LedgerInv => AnswersAreTrue
  BY DEF LedgerInv, AttemptInv, ReplyInv, AnswersAreTrue
<1> QED BY <1>1, LedgerInvariance, PTL

\* A request that arrives when its order is committed gets it back, or a 500 if
\* there has been a fault.
THEOREM RetriesSucceed == Spec => []RetryGetsTheOrder
<1>1. LedgerInv => RetryGetsTheOrder
  BY DEF LedgerInv, RetryInv, RetryGetsTheOrder
<1> QED BY <1>1, LedgerInvariance, PTL

-----------------------------------------------------------------------------
(* The refinement *)

\* What the ledger's constants and variables stand for.
Asked(r) == EntryOf(Dto[r].userId, Dto[r].idempotencyKey, {ItemsOf(r)[k] : k \in Lines(r)})
Entry(o) == EntryOf(o.userId, o.idempotencyKey, {i \in orderItems : i.orderId = o.id})
Booked   == {Entry(o) : o \in orders}
Success(r) == pc[r] = "done" /\ reply[r].status \in {200, 201}
Told == {<<Dto[r].userId, Dto[r].idempotencyKey>> : r \in {s \in Requests : Success(s)}}

\* An order takes what its lines say, once for each product.
LEMMA TakenOfLines ==
    ASSUME NEW r \in Requests, ~ LengthsDiffer(r)
    PROVE  /\ \A k \in Lines(r) :
                  Ledger!Taken(Asked(r), ItemsOf(r)[k].productId) = ItemsOf(r)[k].quantity
           /\ \A p : p \notin Found(r) => Ledger!Taken(Asked(r), p) = 0
           /\ \A l, m \in Asked(r).lines : l.productId = m.productId => l = m
<1> DEFINE row(k) == [productId |-> ItemsOf(r)[k].productId, quantity |-> ItemsOf(r)[k].quantity]
<1>1. Asked(r).lines = {row(k) : k \in Lines(r)}
  BY DEF Asked, EntryOf
<1>2. \A j, k \in Lines(r) : row(j).productId = row(k).productId => j = k
  BY LinesAreProducts
<1>3. \A l, m \in Asked(r).lines : l.productId = m.productId => l = m
  BY <1>1, <1>2
<1>4. ASSUME NEW k \in Lines(r)
      PROVE  Ledger!Taken(Asked(r), ItemsOf(r)[k].productId) = ItemsOf(r)[k].quantity
  <2>1. row(k) \in Asked(r).lines /\ row(k).productId = ItemsOf(r)[k].productId
    BY <1>1
  <2>2. \A l \in Asked(r).lines : l.productId = ItemsOf(r)[k].productId => l = row(k)
    BY <1>3, <2>1
  <2> HIDE DEF row
  <2>3. (CHOOSE l \in Asked(r).lines : l.productId = ItemsOf(r)[k].productId) = row(k)
    BY <2>1, <2>2
  <2>4. \E l \in Asked(r).lines : l.productId = ItemsOf(r)[k].productId
    BY <2>1
  <2>5. Ledger!Taken(Asked(r), ItemsOf(r)[k].productId) = row(k).quantity
    BY <2>3, <2>4, Zenon DEF Ledger!Taken
  <2> QED BY <2>5 DEF row
<1>5. ASSUME NEW p, p \notin Found(r) PROVE Ledger!Taken(Asked(r), p) = 0
  <2>1. \A l \in Asked(r).lines : l.productId # p
    BY <1>1, <1>5, LinesAreProducts DEF Wanted
  <2> QED BY <2>1 DEF Ledger!Taken
<1> QED BY <1>3, <1>4, <1>5

\* A commit books the order.
LEMMA CommitBooks ==
    ASSUME IndInv, LedgerInv, NEW r \in Requests, NEW state, ApplyCommit(r, state)
    PROVE  Booked' = Booked \union {Asked(r)}
<1>1. /\ orders' = orders \union {NewOrder(r)}
      /\ orderItems' = orderItems \union {RowOf(OrderId(r), k) : k \in Lines(r)}
  BY CommitEffect DEF IndInv, LedgerInv
<1>2. \A o \in orders : o.id # OrderId(r)
  BY DEF LedgerInv, AttemptInv, ApplyCommit, At
<1>3. \A k : RowOf(OrderId(r), k).orderId = OrderId(r)
  BY DEF RowOf
<1> DEFINE entry(o, items) == EntryOf(o.userId, o.idempotencyKey, {i \in items : i.orderId = o.id})
<1>4. ASSUME NEW o \in orders PROVE entry(o, orderItems') = entry(o, orderItems)
  <2>1. {i \in orderItems' : i.orderId = o.id} = {i \in orderItems : i.orderId = o.id}
    BY <1>1, <1>2, <1>3
  <2> QED BY <2>1
<1>5. ASSUME NEW o, o = NewOrder(r) PROVE entry(o, orderItems') = Asked(r)
  <2>1. \A i \in orderItems : i.orderId # OrderId(r)
    BY <1>2 DEF LedgerInv, WholeOrders, RowOf
  <2>2. o.id = OrderId(r) /\ o.userId = Dto[r].userId /\ o.idempotencyKey = Dto[r].idempotencyKey
    BY <1>5 DEF NewOrder
  <2>3. {i \in orderItems' : i.orderId = o.id} = {RowOf(OrderId(r), k) : k \in Lines(r)}
    BY <1>1, <1>3, <2>1, <2>2
  <2>4. \A k : /\ RowOf(OrderId(r), k).productId = ItemsOf(r)[k].productId
               /\ RowOf(OrderId(r), k).quantity = ItemsOf(r)[k].quantity
    BY DEF RowOf, OrderId
  <2> DEFINE bought(i) == [productId |-> i.productId, quantity |-> i.quantity]
  <2>5. \A k : bought(RowOf(OrderId(r), k)) = bought(ItemsOf(r)[k])
    BY <2>4
  <2> HIDE DEF bought
  <2>6. {bought(i) : i \in {RowOf(OrderId(r), k) : k \in Lines(r)}}
            = {bought(i) : i \in {ItemsOf(r)[k] : k \in Lines(r)}}
    BY <2>5
  <2> USE DEF bought
  <2>7. EntryOf(Dto[r].userId, Dto[r].idempotencyKey, {RowOf(OrderId(r), k) : k \in Lines(r)}) = Asked(r)
    BY <2>6, Zenon DEF EntryOf, Asked
  <2> QED BY <2>2, <2>3, <2>7
<1>6. Booked = {entry(o, orderItems) : o \in orders} /\ Booked' = {entry(o, orderItems') : o \in orders'}
  BY DEF Booked, Entry
<1> HIDE DEF entry
<1> QED BY <1>1, <1>4, <1>5, <1>6

\* A commit takes from the stock what the request asks for, and no more than
\* is there.
LEMMA CommitTakes ==
    ASSUME IndInv, LedgerInv, NEW r \in Requests, NEW state, ApplyCommit(r, state)
    PROVE  /\ stock' = [p \in Catalog |-> stock[p] - Ledger!Taken(Asked(r), p)]
           /\ \A k \in Lines(r) : LET p == ItemsOf(r)[k].productId IN
                  p \in Catalog /\ ItemsOf(r)[k].quantity <= stock[p]
<1> USE DEF IndInv, LedgerInv
<1>1. /\ OrdersFor(r) = {}
      /\ \A k \in Lines(r) : txStock[r][ItemsOf(r)[k].productId] = Remaining(r, k)
  BY CommitEffect
<1>2. /\ pc[r] = "commit" /\ tx[r] = "open"
      /\ stock' = [p \in Catalog |-> IF rowLock[p] = r THEN txStock[r][p] ELSE stock[p]]
  BY DEF ApplyCommit, At
<1>3. ~ LengthsDiffer(r) /\ \A p \in Catalog : rowLock[p] = r <=> p \in Found(r)
  BY <1>2 DEF LocksInv, Selling, Writing
<1>4. \A k \in Lines(r) : ItemsOf(r)[k].productId \in Found(r) /\ ItemsOf(r)[k].productId \in Catalog
  BY <1>3, LinesAreProducts DEF Wanted, Found
<1>5. \A p \in Found(r) : \E k \in Lines(r) : p = ItemsOf(r)[k].productId
  BY DEF Found, Wanted
<1>6. ASSUME NEW k \in Lines(r)
      PROVE  LET p == ItemsOf(r)[k].productId IN
             /\ ItemsOf(r)[k].quantity <= stock[p]
             /\ txStock[r][p] = stock[p] - ItemsOf(r)[k].quantity
  <2> DEFINE p == ItemsOf(r)[k].productId
  <2>1. rowLock[p] = r /\ r # None
    BY <1>3, <1>4, NoneAssumption
  <2>2. productMap[r][p] = stock[p]
    BY <1>4, <2>1 DEF LockedRowsAreFresh
  <2>3. productMap[r][p] >= ItemsOf(r)[k].quantity
    BY <1>2 DEF SellInv, Enough
  <2>4. ItemsOf(r)[k].quantity \in Nat /\ stock[p] \in Int
    BY <1>4, ItemTypes DEF Item, TypeOK
  <2>5. txStock[r][p] = stock[p] - ItemsOf(r)[k].quantity
    BY <1>1, <2>2 DEF Remaining
  <2> QED BY <2>2, <2>3, <2>4, <2>5
<1>7. stock' = [p \in Catalog |-> stock[p] - Ledger!Taken(Asked(r), p)]
  <2>1. ASSUME NEW p \in Catalog, p \in Found(r)
        PROVE  txStock[r][p] = stock[p] - Ledger!Taken(Asked(r), p)
    BY <1>3, <1>5, <1>6, <2>1, TakenOfLines
  <2>2. ASSUME NEW p \in Catalog, p \notin Found(r)
        PROVE  stock[p] = stock[p] - Ledger!Taken(Asked(r), p)
    <3>1. Ledger!Taken(Asked(r), p) = 0
      BY <1>3, <2>2, TakenOfLines
    <3>2. stock[p] \in Int
      BY DEF TypeOK
    <3> QED BY <3>1, <3>2
  <2> QED BY <1>2, <1>3, <2>1, <2>2
<1> QED BY <1>4, <1>6, <1>7

\* A commit, acknowledged or not, places what the request asks for: it is the
\* first under its key, takes no more than is there, and takes it once.
LEMMA CommitPlaces ==
    ASSUME IndInv, LedgerInv, NEW r \in Requests, NEW state, ApplyCommit(r, state), Told' = Told
    PROVE  Ledger!Place(Asked(r))
<1> USE DEF IndInv, LedgerInv
<1>1. OrdersFor(r) = {}
  BY CommitEffect
<1>2. stock' = [p \in Catalog |-> stock[p] - Ledger!Taken(Asked(r), p)]
  BY CommitTakes
<1>3. \A k \in Lines(r) : LET p == ItemsOf(r)[k].productId IN
          p \in Catalog /\ ItemsOf(r)[k].quantity <= stock[p]
  BY CommitTakes
<1>4. ~ LengthsDiffer(r)
  BY DEF LocksInv, Selling, Writing, ApplyCommit, At
<1>5. /\ Asked(r).userId = Dto[r].userId /\ Asked(r).idempotencyKey = Dto[r].idempotencyKey
      /\ \A l \in Asked(r).lines : \E k \in Lines(r) :
             l.productId = ItemsOf(r)[k].productId /\ l.quantity = ItemsOf(r)[k].quantity
  BY DEF Asked, EntryOf
<1>6. ~ Ledger!Placed(Asked(r).userId, Asked(r).idempotencyKey)
  <2>1. \A o \in orders : ~ (o.userId = Dto[r].userId /\ o.idempotencyKey = Dto[r].idempotencyKey)
    BY <1>1 DEF OrdersFor
  <2>2. \A o : Entry(o).userId = o.userId /\ Entry(o).idempotencyKey = o.idempotencyKey
    BY DEF Entry, EntryOf
  <2>3. \A e \in Booked : ~ (e.userId = Dto[r].userId /\ e.idempotencyKey = Dto[r].idempotencyKey)
    BY <2>1, <2>2 DEF Booked
  <2> QED BY <1>5, <2>3 DEF Ledger!Placed, Booked, Entry
<1>7. \A l \in Asked(r).lines : l.productId \in Catalog /\ l.quantity <= stock[l.productId]
  BY <1>3, <1>5
<1>8. \A l, m \in Asked(r).lines : l.productId = m.productId => l = m
  BY <1>4, TakenOfLines
<1>9. Booked' = Booked \union {Asked(r)}
  BY CommitBooks
<1> QED BY <1>2, <1>6, <1>7, <1>8, <1>9 DEF Ledger!Place, Booked, Entry, Told, Success

\* Who has been told of an order: the one the step answers, if it answers with
\* 200 or 201, and whoever had been told before.
LEMMA AnswersTell ==
    ASSUME IndInv, LedgerInv, Next
    PROVE  \/ Told' = Told
           \/ /\ UNCHANGED tables
              /\ \E r \in Requests :
                     OrdersFor(r) # {} /\ Told' = Told \union {<<Dto[r].userId, Dto[r].idempotencyKey>>}
<1> USE DEF IndInv, LedgerInv, Goto, Answer
<1> DEFINE Goal == \/ Told' = Told
                   \/ /\ UNCHANGED tables
                      /\ \E r \in Requests :
                             OrdersFor(r) # {} /\ Told' = Told \union {<<Dto[r].userId, Dto[r].idempotencyKey>>}
<1>1. ASSUME \A r \in Requests : Success(r)' <=> Success(r) PROVE Goal
  BY <1>1 DEF Told
<1>2. ASSUME NEW r \in Requests, Success(r)' <=> Success(r),
             \A s \in Requests \ {r} : pc'[s] = pc[s] /\ reply'[s] = reply[s]
      PROVE  Goal
  BY <1>1, <1>2 DEF Success
<1>3. ASSUME NEW r \in Requests, OrdersFor(r) # {}, UNCHANGED tables, ~ Success(r), Success(r)',
             \A s \in Requests \ {r} : pc'[s] = pc[s] /\ reply'[s] = reply[s]
      PROVE  Goal
  <2>1. \A s \in Requests \ {r} : Success(s)' <=> Success(s)
    BY <1>3 DEF Success
  <2>2. Told' = Told \union {<<Dto[r].userId, Dto[r].idempotencyKey>>}
    BY <1>3, <2>1 DEF Told
  <2> QED BY <1>3, <2>2
<1> HIDE DEF Goal
<1>4. ASSUME UNCHANGED <<pc, reply>> PROVE Goal
  BY <1>1, <1>4 DEF Success
<1>5. ASSUME NEW r \in Requests, pc[r] # "done", pc'[r] # "done",
             \A s \in Requests \ {r} : pc'[s] = pc[s] /\ reply'[s] = reply[s]
      PROVE  Goal
  BY <1>2, <1>5 DEF Success
<1>6. ASSUME NEW r \in Requests, Post(r) \/ PostRejected(r) \/ PreludeFails(r) \/ StartTransactionFails(r)
      PROVE  Goal
  <2>1. ~ Success(r)
    BY <1>6 DEF Post, PostRejected, PreludeFails, StartTransactionFails, MaySend, Success
  <2>2. ~ Success(r)'
    BY <1>6 DEF Post, PostRejected, PreludeFails, StartTransactionFails, NoReply, Refusal, Success, TypeOK
  <2> QED BY <1>2, <1>6, <2>1, <2>2 DEF Post, PostRejected, PreludeFails, StartTransactionFails, TypeOK
<1>7. ASSUME NEW r \in Requests, ReturnExisting(r) PROVE Goal
  <2>1. OrdersFor(r) # {} /\ ~ Success(r) /\ Success(r)'
    BY <1>7 DEF ReturnExisting, Success, TypeOK
  <2> QED BY <1>3, <1>7, <2>1 DEF ReturnExisting, TypeOK
<1>8. ASSUME NEW r \in Requests, Release(r) PROVE Goal
  <2>1. /\ ~ Success(r) /\ pc'[r] = "done" /\ reply' = reply
        /\ \A s \in Requests \ {r} : pc'[s] = pc[s] /\ reply'[s] = reply[s]
    BY <1>8 DEF Release, GiveBack, Success, TypeOK
  <2>2. CASE reply[r].status \in {200, 201}
    <3>1. OrdersFor(r) # {} /\ Success(r)'
      BY <2>1, <2>2 DEF ReplyInv, Success
    <3> QED BY <1>3, <1>8, <2>1, <3>1 DEF Release, GiveBack
  <2>3. CASE reply[r].status \notin {200, 201}
    <3>1. ~ Success(r)'
      BY <2>1, <2>3 DEF Success
    <3> QED BY <1>2, <2>1, <3>1
  <2> QED BY <2>2, <2>3
<1>9. ASSUME Crash PROVE Goal
  <2>1. \A r \in Requests : Success(r)' <=> Success(r)
    BY <1>9 DEF Crash, AtRest, NoReply, Success
  <2> QED BY <1>1, <2>1
<1>10. ASSUME NEW r \in Requests, Serve(r) PROVE Goal
  <2>1. CASE FindNothing(r) \/ Connect(r) \/ StartTransaction(r) \/ StockSuffices(r)
    BY <1>5, <2>1 DEF FindNothing, Proceed, Connect, StartTransaction, StockSuffices, TypeOK
  <2>2. CASE \E p \in Catalog : LockProduct(r, p)
    BY <1>4, <2>2 DEF LockProduct, Lock
  <2>3. CASE ProductsNotFound(r) \/ StockTooLow(r) \/ ProductUndefined(r)
    <3>1. pc[r] = "lock" /\ \E code \in {404, 409, 500} : Refuse(r, code, "rollback")
      BY <2>3 DEF ProductsNotFound, StockTooLow, TooFew, ProductUndefined, AllLocked, At
    <3> QED BY <1>5, <3>1 DEF Refuse, TypeOK
  <2>4. CASE QueryRejected(r)
    BY <1>5, <2>4 DEF QueryRejected, InTransaction, TypeOK
  <2>5. CASE SaveOrder(r) \/ UpdateStock(r) \/ SaveItem(r)
    BY <1>5, <2>5 DEF SaveOrder, InsertOrder, UpdateStock, SaveItem, InsertItem, At, TypeOK
  <2>6. CASE SaveOrderRefused(r) \/ DeadlockDetected(r)
    <3>1. pc[r] \in {"lock", "save_order"} /\ StatementError(r)
      BY <2>6 DEF SaveOrderRefused, DeadlockDetected, InWaitCycle, WaitsFor, At
    <3> QED BY <1>5, <3>1 DEF StatementError, TypeOK
  <2>7. CASE Commit(r)
    BY <1>5, <2>7 DEF Commit, ApplyCommit, At, TypeOK
  <2>8. CASE Rollback(r) \/ RollbackFails(r)
    <3>1. pc[r] = "rollback" /\ pc'[r] = "release"
      BY <2>8 DEF Rollback, RollbackFails, TypeOK
    <3>2. \A s \in Requests \ {r} : pc'[s] = pc[s] /\ reply'[s] = reply[s]
      BY <2>8 DEF Rollback, RollbackFails, TypeOK
    <3> QED BY <1>5, <3>1, <3>2
  <2> QED BY <1>7, <1>8, <1>10, <2>1, <2>2, <2>3, <2>4, <2>5, <2>6, <2>7, <2>8 DEF Serve
<1>11. ASSUME NEW r \in Requests, GoWrong(r) PROVE Goal
  <2>1. CASE StatementFails(r) \/ CommitUnacknowledged(r)
    BY <1>5, <2>1 DEF StatementFails, StatementError, CommitUnacknowledged, ApplyCommit, At, InTransaction, TypeOK
  <2>2. CASE ConnectionLost(r)
    BY <1>4, <2>2 DEF ConnectionLost
  <2> QED BY <1>6, <1>11, <2>1, <2>2 DEF GoWrong
<1>12. Goal
  BY <1>6, <1>9, <1>10, <1>11 DEF Next
<1> QED BY <1>12 DEF Goal

\* Every step of the service is one of the ledger, or changes nothing in it.
LEMMA LedgerStep ==
    ASSUME IndInv, LedgerInv, [Next]_vars
    PROVE  [Ledger!Next]_Ledger!vars
<1>1. ASSUME UNCHANGED tables, Told' = Told PROVE UNCHANGED Ledger!vars
  <2>1. Booked' = Booked /\ stock' = stock
    BY <1>1 DEF Booked, Entry, tables
  <2> QED BY <1>1, <2>1 DEF Ledger!vars, Booked, Entry, Told, Success
<1>2. ASSUME NEW r \in Requests, Ledger!Place(Asked(r)) \/ Ledger!Acknowledge(Asked(r))
      PROVE  Ledger!Next
  BY <1>2 DEF Ledger!Next, Asked
<1>3. ASSUME NEW r \in Requests, UNCHANGED tables, OrdersFor(r) # {},
             Told' = Told \union {<<Dto[r].userId, Dto[r].idempotencyKey>>}
      PROVE  Ledger!Acknowledge(Asked(r))
  <2>1. PICK o \in orders : o.userId = Dto[r].userId /\ o.idempotencyKey = Dto[r].idempotencyKey
    BY <1>3 DEF OrdersFor
  <2>2. Entry(o) \in Booked /\ Entry(o).userId = o.userId /\ Entry(o).idempotencyKey = o.idempotencyKey
    BY DEF Booked, Entry, EntryOf
  <2>3. Asked(r).userId = Dto[r].userId /\ Asked(r).idempotencyKey = Dto[r].idempotencyKey
    BY DEF Asked, EntryOf
  <2>4. Ledger!Placed(Asked(r).userId, Asked(r).idempotencyKey)
    BY <2>1, <2>2, <2>3 DEF Ledger!Placed, Booked, Entry
  <2>5. Booked' = Booked /\ stock' = stock
    BY <1>3 DEF Booked, Entry, tables
  <2> QED BY <1>3, <2>3, <2>4, <2>5 DEF Ledger!Acknowledge, Booked, Entry, Told, Success
<1>4. CASE Next
  <2>1. CASE UNCHANGED tables
    BY <1>1, <1>2, <1>3, <1>4, <2>1, AnswersTell
  <2>2. ASSUME NEW r \in Requests, Commit(r) \/ CommitUnacknowledged(r) PROVE Ledger!Place(Asked(r))
    <3>1. \E state : ApplyCommit(r, state)
      BY <2>2 DEF Commit, CommitUnacknowledged
    <3>2. Told' = Told
      <4>1. /\ pc[r] = "commit" /\ pc'[r] \in {"release", "rollback"}
            /\ \A s \in Requests \ {r} : pc'[s] = pc[s] /\ reply'[s] = reply[s]
        BY <2>2 DEF Commit, CommitUnacknowledged, ApplyCommit, At, Goto, Answer, IndInv, TypeOK
      <4>2. \A s \in Requests : Success(s)' <=> Success(s)
        BY <4>1 DEF Success
      <4> QED BY <4>2 DEF Told
    <3> QED BY <3>1, <3>2, CommitPlaces
  <2> QED BY <1>2, <1>4, <2>1, <2>2, TablesChange
<1>5. CASE UNCHANGED vars
  <2>1. UNCHANGED tables /\ Told' = Told
    BY <1>5 DEF vars, tables, Told, Success
  <2> QED BY <1>1, <2>1
<1> QED BY <1>4, <1>5

\* POST /orders implements the ledger: whatever interleaves, fails, breaks or is
\* killed, an order, its items and its stock become visible in one step, once
\* for each user and key, and a 200 or 201 is sent for placed orders only.
THEOREM ImplementsTheLedger == Spec => ImplementsLedger
<1>1. Init => Ledger!Init
  <2> SUFFICES ASSUME Init PROVE Ledger!Init
    OBVIOUS
  <2>1. Booked = {} /\ Told = {} /\ stock = InitialStock
    BY DEF Init, Booked, Told, Success
  <2> QED BY <2>1 DEF Ledger!Init, Booked, Entry, Told, Success
<1>2. IndInv /\ LedgerInv /\ [Next]_vars => [Ledger!Next]_Ledger!vars
  BY LedgerStep
<1> QED BY <1>1, <1>2, Invariance, LedgerInvariance, PTL DEF Spec, ImplementsLedger, Ledger!Spec

-----------------------------------------------------------------------------
(* Sums of quantities *)

\* A quantity is a number of units; a sum of quantities is their number.
Units(S) == UNION {{i} \X (1 .. i.quantity) : i \in S}

\* What the sum of a set is made of: the recursion of MapThenFoldSet.
OneAndTheRest(s, f) ==
    IF s = {} THEN 0
    ELSE (CHOOSE x \in s : TRUE).quantity + f[s \ {CHOOSE x \in s : TRUE}]

\* The sum of the community modules, unfolded: a function chosen for its equation.
LEMMA SumIsRecursive ==
    ASSUME NEW S
    PROVE  MapThenSumSet(LAMBDA i : i.quantity, S)
               = (CHOOSE f : f = [s \in SUBSET S |-> OneAndTheRest(s, f)])[S]
BY Zenon DEF MapThenSumSet, MapThenFoldSet, OneAndTheRest

\* Finitely many items are finitely many units.
LEMMA UnitsAreFinite ==
    ASSUME NEW S, IsFiniteSet(S), \A i \in S : i.quantity \in Nat
    PROVE  IsFiniteSet(Units(S)) /\ Cardinality(Units(S)) \in Nat
<1> DEFINE units(i) == {i} \X (1 .. i.quantity)
           all == {units(i) : i \in S}
<1>1. ASSUME NEW i \in S PROVE IsFiniteSet(units(i))
  <2>1. IsFiniteSet({i})  BY FS_Singleton
  <2>2. IsFiniteSet(1 .. i.quantity)  BY FS_Interval
  <2> QED  BY <2>1, <2>2, FS_Product
<1>2. [i \in S |-> units(i)] \in Surjection(S, all)
  <2> HIDE DEF units
  <2> QED  BY DEF Surjection
<1>3. IsFiniteSet(all)
  <2> HIDE DEF all
  <2> QED  BY <1>2, FS_Surjection
<1>4. \A T \in all : IsFiniteSet(T)  BY <1>1
<1>5. IsFiniteSet(UNION all)
  <2> HIDE DEF all
  <2> QED  BY <1>3, <1>4, FS_UNION
<1> QED  BY <1>5, FS_CardinalityType DEF Units

\* Another item brings as many units as its quantity.
LEMMA UnitsAdd ==
    ASSUME NEW S, IsFiniteSet(S), \A i \in S : i.quantity \in Nat,
           NEW x, x \notin S, x.quantity \in Nat
    PROVE  Cardinality(Units(S \union {x})) = Cardinality(Units(S)) + x.quantity
<1> DEFINE units == {x} \X (1 .. x.quantity)
<1>1. Units(S \union {x}) = Units(S) \union units  BY DEF Units
<1>2. Units(S) \intersect units = {}
  <2>1. \A u \in Units(S) : u[1] \in S  BY DEF Units
  <2>2. \A u \in units : u[1] = x  OBVIOUS
  <2> QED  BY <2>1, <2>2
<1>3. IsFiniteSet(units) /\ Cardinality(units) = x.quantity
  <2>1. IsFiniteSet({x}) /\ Cardinality({x}) = 1  BY FS_Singleton
  <2>2. IsFiniteSet(1 .. x.quantity) /\ Cardinality(1 .. x.quantity) = x.quantity
    <3>1. 1 \in Int /\ x.quantity \in Int  OBVIOUS
    <3>2. /\ IsFiniteSet(1 .. x.quantity)
          /\ Cardinality(1 .. x.quantity) = IF 1 > x.quantity THEN 0 ELSE x.quantity - 1 + 1
      BY <3>1, FS_Interval, Zenon
    <3> QED  BY <3>2
  <2> DEFINE A == {x}
             B == 1 .. x.quantity
  <2> HIDE DEF A, B
  <2>3. IsFiniteSet(A) /\ IsFiniteSet(B) /\ Cardinality(A) = 1 /\ Cardinality(B) = x.quantity
    BY <2>1, <2>2 DEF A, B
  <2>4. IsFiniteSet(A \X B) /\ Cardinality(A \X B) = Cardinality(A) * Cardinality(B)
    BY <2>3, FS_Product
  <2>5. Cardinality(A \X B) = x.quantity
    BY <2>3, <2>4
  <2> QED  BY <2>4, <2>5 DEF A, B
<1>4. IsFiniteSet(Units(S)) /\ Cardinality(Units(S)) \in Nat  BY UnitsAreFinite
<1>5. Cardinality({}) = 0  BY FS_EmptySet
<1>6. Cardinality(Units(S) \union units)
          = Cardinality(Units(S)) + Cardinality(units) - Cardinality(Units(S) \intersect units)
  <2> HIDE DEF units
  <2> QED  BY <1>3, <1>4, FS_Union
<1> HIDE DEF units
<1>7. Cardinality(Units(S) \intersect units) = 0  BY <1>2, <1>5
<1>8. Cardinality(Units(S) \union units) = Cardinality(Units(S)) + x.quantity
  BY <1>3, <1>4, <1>6, <1>7
<1> QED  BY <1>1, <1>8

\* The sum of the quantities of finitely many items is their number of units.
LEMMA SumIsUnits ==
    ASSUME NEW S, IsFiniteSet(S), \A i \in S : i.quantity \in Nat
    PROVE  MapThenSumSet(LAMBDA i : i.quantity, S) = Cardinality(Units(S))
<1> DEFINE g == [s \in SUBSET S |-> Cardinality(Units(s))]
           f == CHOOSE f : f = [s \in SUBSET S |-> OneAndTheRest(s, f)]
           one(s) == CHOOSE x \in s : TRUE
<1>1. \A s \in SUBSET S : IsFiniteSet(s) /\ \A i \in s : i.quantity \in Nat
  BY FS_Subset
<1>2. ASSUME NEW s \in SUBSET S PROVE g[s] = OneAndTheRest(s, g)
  <2>1. CASE s = {}
    <3>1. Units(s) = {}  BY <2>1 DEF Units
    <3> QED  BY <2>1, <3>1, FS_EmptySet DEF OneAndTheRest
  <2>2. CASE s # {}
    <3> DEFINE x == one(s)
               rest == s \ {x}
    <3>1. x \in s  BY <2>2
    <3> HIDE DEF x
    <3>2. IsFiniteSet(rest) /\ \A i \in rest : i.quantity \in Nat  BY <1>1
    <3>3. x \notin rest /\ x.quantity \in Nat /\ s = rest \union {x}  BY <1>1, <3>1
    <3>4. Cardinality(Units(s)) = Cardinality(Units(rest)) + x.quantity
      <4> HIDE DEF rest
      <4> QED  BY <3>2, <3>3, UnitsAdd
    <3>5. Cardinality(Units(rest)) \in Nat
      <4> HIDE DEF rest
      <4> QED  BY <3>2, UnitsAreFinite
    <3>6. g[s] = x.quantity + g[rest]  BY <3>3, <3>4, <3>5
    <3> HIDE DEF g
    <3> QED  BY <2>2, <3>6 DEF OneAndTheRest, x
  <2> QED  BY <2>1, <2>2
<1>3. g = [s \in SUBSET S |-> OneAndTheRest(s, g)]
  <2>1. g = [s \in SUBSET S |-> g[s]]  OBVIOUS
  <2> HIDE DEF g
  <2> QED  BY <1>2, <2>1
<1>4. f = [s \in SUBSET S |-> OneAndTheRest(s, f)]
  <2> HIDE DEF g
  <2> QED  BY <1>3
<1> DEFINE bad == {s \in SUBSET S : f[s] # g[s]}
           sizes == {Cardinality(s) : s \in bad}
<1> HIDE DEF f, g
<1>5. ASSUME bad # {} PROVE FALSE
  <2>1. sizes \subseteq Nat /\ sizes # {}  BY <1>1, <1>5, FS_CardinalityType
  <2>2. PICK n \in sizes : \A m \in sizes : n <= m
    <3> HIDE DEF sizes
    <3>1. PICK n \in sizes : \A m \in sizes : <<m, n>> \notin OpToRel(<, Nat)
      BY <2>1, NatLessThanWellFounded, WFMin
    <3>2. ASSUME NEW m \in sizes PROVE ~ (m < n)
      <4>1. m \in Nat /\ n \in Nat  BY <2>1
      <4>2. <<m, n>> \notin OpToRel(<, Nat)  BY <3>1
      <4> QED  BY <4>1, <4>2, Zenon DEF OpToRel
    <3> QED  BY <2>1, <3>2
  <2>3. PICK s \in bad : Cardinality(s) = n  BY <2>2
  <2>4. s \in SUBSET S /\ f[s] # g[s]  BY <2>3
  <2>5. f[s] = OneAndTheRest(s, f) /\ g[s] = OneAndTheRest(s, g)  BY <1>2, <1>4, <2>4
  <2>6. s # {}  BY <2>4, <2>5 DEF OneAndTheRest
  <2> DEFINE x == one(s)
             rest == s \ {x}
  <2>7. x \in s  BY <2>6
  <2>8. f[rest] # g[rest]  BY <2>4, <2>5, <2>6 DEF OneAndTheRest
  <2> HIDE DEF x
  <2>9. Cardinality(rest) = Cardinality(s) - 1 /\ Cardinality(s) \in Nat
    BY <1>1, <2>4, <2>7, FS_RemoveElement, FS_CardinalityType
  <2>10. Cardinality(rest) \in sizes  BY <2>4, <2>8
  <2> HIDE DEF sizes, rest
  <2> QED  BY <2>2, <2>3, <2>9, <2>10
<1>6. f[S] = g[S]  BY <1>5
<1>7. g[S] = Cardinality(Units(S))  BY DEF g
<1> QED  BY <1>6, <1>7, SumIsRecursive DEF f

-----------------------------------------------------------------------------
(* What has been sold *)

\* Sold sums up finitely many items.
Quantities(S) == MapThenSumSet(LAMBDA i : i.quantity, S)

\* Another item adds its quantity to the sum.
LEMMA SumGrows ==
    ASSUME NEW S, IsFiniteSet(S), \A i \in S : i.quantity \in Nat,
           NEW x, x \notin S, x.quantity \in Nat
    PROVE  Quantities(S \union {x}) = Quantities(S) + x.quantity
<1>1. IsFiniteSet(S \union {x}) /\ \A i \in S \union {x} : i.quantity \in Nat
  BY FS_AddElement
<1>2. Quantities(S) = Cardinality(Units(S))
  BY SumIsUnits DEF Quantities
<1>3. Quantities(S \union {x}) = Cardinality(Units(S \union {x}))
  <2> DEFINE T == S \union {x}
  <2> HIDE DEF T
  <2>1. Quantities(T) = Cardinality(Units(T))
    BY <1>1, SumIsUnits DEF Quantities, T
  <2> QED BY <2>1 DEF T
<1> QED BY <1>2, <1>3, UnitsAdd

\* The sum is a natural number.
LEMMA SumIsNat ==
    ASSUME NEW S, IsFiniteSet(S), \A i \in S : i.quantity \in Nat
    PROVE  Quantities(S) \in Nat
BY SumIsUnits, UnitsAreFinite DEF Quantities

ItemsFinite == IsFiniteSet(orderItems)

\* What is sold of a product is the sum over its items,
LEMMA SoldSums == \A p : Sold(p) = Quantities({i \in orderItems : i.productId = p})
BY Zenon DEF Sold, Quantities

\* after a step as before.
LEMMA SoldSumsNext == (\A p : Sold(p) = Quantities({i \in orderItems : i.productId = p}))'
BY SoldSums, PTL

\* What is sold of a product is a natural number.
LEMMA SoldTypes ==
    ASSUME TypeOK, ItemsFinite, NEW p
    PROVE  Sold(p) \in Nat
<1> DEFINE S == {i \in orderItems : i.productId = p}
<1>1. IsFiniteSet(S) /\ \A i \in S : i.quantity \in Nat
  BY FS_Subset DEF ItemsFinite, TypeOK, Rows
<1> HIDE DEF S
<1>2. Quantities(S) \in Nat
  BY <1>1, SumIsNat
<1>3. Sold(p) = Quantities(S)
  BY SoldSums DEF S
<1> QED BY <1>2, <1>3

\* A commit sells what it takes from the stock.
LEMMA CommitSells ==
    ASSUME IndInv, LedgerInv, ItemsFinite, NEW r \in Requests, NEW state, ApplyCommit(r, state)
    PROVE  /\ ItemsFinite'
           /\ \A p \in Catalog : stock'[p] + Sold(p)' = stock[p] + Sold(p)
<1> USE DEF IndInv, LedgerInv
<1> DEFINE row(k) == RowOf(OrderId(r), k)
           new == {row(k) : k \in Lines(r)}
           of(p) == {i \in orderItems : i.productId = p}
<1>1. /\ orderItems' = orderItems \union new
      /\ orders' = orders \union {NewOrder(r)}
  BY CommitEffect
<1>2. new \intersect orderItems = {}
  <2>1. \A o \in orders : o.id # OrderId(r)
    BY DEF AttemptInv, ApplyCommit, At
  <2>2. \A i \in orderItems : i.orderId # OrderId(r)
    BY <2>1 DEF WholeOrders, RowOf
  <2> QED BY <2>2 DEF RowOf
<1>3. ~ LengthsDiffer(r)
  BY DEF LocksInv, Selling, Writing, ApplyCommit, At
<1>4. \A k : row(k).productId = ItemsOf(r)[k].productId /\ row(k).quantity = ItemsOf(r)[k].quantity
  BY DEF RowOf, OrderId
<1>5. ItemsFinite'
  <2>1. IsFiniteSet(Lines(r))
    <3>1. 1 \in Int /\ Len(ItemsOf(r)) \in Int
      BY ItemTypes
    <3> QED BY <3>1, FS_Interval, Zenon DEF Lines
  <2>2. [k \in Lines(r) |-> row(k)] \in Surjection(Lines(r), new)
    <3> HIDE DEF row
    <3> QED BY DEF Surjection
  <2>3. IsFiniteSet(new)
    <3> HIDE DEF new
    <3> QED BY <2>1, <2>2, FS_Surjection
  <2> HIDE DEF new
  <2>4. IsFiniteSet(orderItems \union new)
    BY <2>3, FS_Union DEF ItemsFinite
  <2> QED BY <1>1, <2>4 DEF ItemsFinite
<1>6. ASSUME NEW p \in Catalog PROVE stock'[p] + Sold(p)' = stock[p] + Sold(p)
  <2>1. IsFiniteSet(of(p)) /\ \A i \in of(p) : i.quantity \in Nat
    BY FS_Subset DEF ItemsFinite, TypeOK, Rows
  <2>2. stock'[p] = stock[p] - Ledger!Taken(Asked(r), p)
    BY CommitTakes
  <2>3. Sold(p) = Quantities(of(p))
    BY SoldSums
  <2>4. Sold(p)' = Quantities({i \in orderItems' : i.productId = p})
    BY SoldSumsNext
  <2>5. stock[p] \in Int /\ Quantities(of(p)) \in Nat
    <3>1. stock[p] \in Int
      BY DEF TypeOK
    <3> HIDE DEF of
    <3> QED BY <2>1, <3>1, SumIsNat
  <2>6. CASE p \in Found(r)
    <3>1. PICK k \in Lines(r) : p = ItemsOf(r)[k].productId
      BY <2>6 DEF Found, Wanted
    <3>2. \A j \in Lines(r) : ItemsOf(r)[j].productId = p => j = k
      BY <1>3, <3>1, LinesAreProducts
    <3>3. row(k) \in new /\ row(k) \notin of(p) /\ row(k).quantity = ItemsOf(r)[k].quantity
      BY <1>2, <1>4, <3>1
    <3>4. {i \in orderItems' : i.productId = p} = of(p) \union {row(k)}
      BY <1>1, <1>4, <3>1, <3>2
    <3>5. ItemsOf(r)[k].quantity \in Nat
      BY <3>1, ItemTypes DEF Item
    <3> HIDE DEF of, row, new
    <3>6. Quantities(of(p) \union {row(k)}) = Quantities(of(p)) + ItemsOf(r)[k].quantity
      BY <2>1, <3>3, <3>5, SumGrows
    <3>7. Ledger!Taken(Asked(r), p) = ItemsOf(r)[k].quantity
      BY <1>3, <3>1, TakenOfLines
    <3>8. Sold(p)' = Sold(p) + ItemsOf(r)[k].quantity
      BY <2>3, <2>4, <3>4, <3>6
    <3> QED BY <2>2, <2>3, <2>5, <3>5, <3>7, <3>8
  <2>7. CASE p \notin Found(r)
    <3>1. \A i \in new : i.productId # p
      BY <1>4, <2>7 DEF Found, Wanted
    <3>2. {i \in orderItems' : i.productId = p} = of(p)
      BY <1>1, <3>1
    <3>3. Ledger!Taken(Asked(r), p) = 0
      BY <1>3, <2>7, TakenOfLines
    <3> HIDE DEF of, new
    <3>4. Sold(p)' = Sold(p)
      BY <2>3, <2>4, <3>2
    <3> QED BY <2>2, <2>5, <3>3, <3>4
  <2> QED BY <2>6, <2>7
<1> QED BY <1>5, <1>6

\* Every step of the service keeps the sum of what is left and what is sold.
LEMMA StockStep ==
    ASSUME IndInv, LedgerInv, ItemsFinite, [Next]_vars
    PROVE  /\ ItemsFinite'
           /\ \A p \in Catalog : stock'[p] + Sold(p)' = stock[p] + Sold(p)
<1>1. CASE UNCHANGED tables
  <2>1. orderItems' = orderItems /\ stock' = stock
    BY <1>1 DEF tables
  <2>2. \A p : Sold(p)' = Sold(p)
    BY <2>1, SoldSums, SoldSumsNext
  <2> QED BY <2>1, <2>2 DEF ItemsFinite
<1>2. CASE UNCHANGED vars
  BY <1>1, <1>2 DEF vars, tables
<1>3. CASE \E r \in Requests : Commit(r) \/ CommitUnacknowledged(r)
  BY <1>3, CommitSells DEF Commit, CommitUnacknowledged
<1> QED BY <1>1, <1>2, <1>3, TablesChange

\* Before anything is sold all stock is there.
LEMMA StockInit == Init => ItemsFinite /\ StockConserved
<1> SUFFICES ASSUME Init PROVE ItemsFinite /\ StockConserved
  OBVIOUS
<1>1. ItemsFinite
  BY FS_EmptySet DEF Init, ItemsFinite
<1>2. ASSUME NEW p PROVE Sold(p) = 0
  <2>1. {i \in orderItems : i.productId = p} = {}
    BY DEF Init
  <2>2. Units({}) = {}
    BY DEF Units
  <2>3. Quantities({}) = Cardinality(Units({}))
    BY FS_EmptySet, SumIsUnits DEF Quantities
  <2> QED BY <2>1, <2>2, <2>3, SoldSums, FS_EmptySet
<1>3. \A p \in Catalog : stock[p] = InitialStock[p] /\ InitialStock[p] \in Nat
  BY StockAssumption DEF Init
<1> QED BY <1>1, <1>2, <1>3 DEF StockConserved

\* What left the stock is what the committed items sold, whatever is rolled
\* back, breaks or is killed on the way, whoever else sells the same product.
THEOREM StockIsConserved == Spec => []StockConserved
<1>1. IndInv /\ LedgerInv /\ ItemsFinite /\ StockConserved /\ [Next]_vars
          => ItemsFinite' /\ StockConserved'
  BY StockStep DEF StockConserved
<1> QED BY <1>1, StockInit, Invariance, LedgerInvariance, PTL DEF Spec
=============================================================================
