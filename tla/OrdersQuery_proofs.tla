-------------------------- MODULE OrdersQuery_proofs --------------------------
(***************************************************************************)
(* Proofs about OrdersQuery, for any orders, times, filters and limits.    *)
(*                                                                         *)
(* Everything rests on one count: how many rows of the result lie above an *)
(* order, being newer.  Orders placed meanwhile only add to it, so an      *)
(* order not received yet never slips above the offset; and as long as     *)
(* none is placed the count stands still, so an order received already     *)
(* never slips below it.                                                   *)
(***************************************************************************)
EXTENDS OrdersQuery, FiniteSetTheorems, TLAPS

-----------------------------------------------------------------------------
(* Pages of a set of rows *)

(* The smaller of two numbers. *)
LEMMA MinOfTwo ==
    ASSUME NEW a \in Int, NEW b \in Int
    PROVE  Min({a, b}) = IF a <= b THEN a ELSE b
<1> DEFINE m == IF a <= b THEN a ELSE b
<1>1. m \in {a, b} /\ \A y \in {a, b} : m <= y  OBVIOUS
<1>2. \A x \in {a, b} : (\A y \in {a, b} : x <= y) => x = m  OBVIOUS
<1>3. (CHOOSE x \in {a, b} : \A y \in {a, b} : x <= y) = m
  <2> HIDE DEF m
  <2> QED  BY <1>1, <1>2
<1> QED  BY <1>3 DEF Min

(* How many of the rows the first k are. *)
Taken(rows, k) == IF k <= Cardinality(rows) THEN k ELSE Cardinality(rows)

(* A head of the rows has that many, and leaves out none before one it has. *)
LEMMA HeadIs ==
    ASSUME NEW rows, IsFiniteSet(rows), NEW k \in Nat, NEW S \in Heads(rows, k)
    PROVE  /\ S \subseteq rows
           /\ IsFiniteSet(S)
           /\ Cardinality(S) = Taken(rows, k)
           /\ \A r \in S : \A q \in rows \ S : ~ Before(q, r)
<1>1. Cardinality(rows) \in Nat  BY FS_CardinalityType
<1>2. Min({k, Cardinality(rows)}) = Taken(rows, k)  BY <1>1, MinOfTwo DEF Taken
<1>3. S \in SUBSET rows /\ Cardinality(S) = Taken(rows, k)
  BY <1>2 DEF Heads, kSubset
<1>4. \A r \in S : \A q \in rows \ S : ~ Before(q, r)  BY DEF Heads
<1> QED  BY <1>3, <1>4, FS_Subset

-----------------------------------------------------------------------------
(* The result of the statement *)

(* The rows of newer orders. *)
Above(o) == {r \in Result : createdAt[r[1]] > createdAt[o]}

Table ==
    /\ createdAt \in [Orders -> Times]
    /\ placed \subseteq Orders

(* Rows and the orders they belong to. *)
LEMMA RowsAndOrders ==
    /\ \A o : \A r \in RowsOf(o) : r[1] = o
    /\ \A o \in Orders : RowsOf(o) # {}
    /\ \A r \in Result : r[1] \in Selected /\ r \in RowsOf(r[1])
    /\ \A o \in Selected : RowsOf(o) \subseteq Result
<1> DEFINE kinds(o) == IF joined /\ Row[o].items > 0 THEN 1 .. Row[o].items ELSE {0}
<1>1. \A o : \A r \in RowsOf(o) : r[1] = o  BY DEF RowsOf
<1>2. ASSUME NEW o \in Orders PROVE RowsOf(o) # {}
  <2>1. kinds(o) # {}
    <3>1. CASE joined /\ Row[o].items > 0
      <4>1. 1 \in 1 .. Row[o].items  BY <3>1, RowAssumption
      <4> QED  BY <4>1, <3>1
    <3>2. CASE ~ (joined /\ Row[o].items > 0)  BY <3>2
    <3> QED  BY <3>1, <3>2
  <2>2. PICK n : n \in kinds(o)  BY <2>1
  <2>3. <<o, n>> \in RowsOf(o)  BY <2>2 DEF RowsOf
  <2> QED  BY <2>3
<1>3. \A r \in Result : \E o \in Selected : r \in RowsOf(o)  BY DEF Result
<1> QED  BY <1>1, <1>2, <1>3 DEF Result

(* The result is finite, and its rows number the orders unless joined. *)
LEMMA ResultIsFinite ==
    ASSUME Table
    PROVE  /\ IsFiniteSet(Selected)
           /\ IsFiniteSet(Result)
           /\ Cardinality(Result) \in Nat
           /\ ~ joined => Cardinality(Result) = Cardinality(Selected)
<1>1. IsFiniteSet(Selected)
  BY RowAssumption, FS_Subset DEF Table, Selected
<1>2. ASSUME NEW o \in Selected PROVE IsFiniteSet(RowsOf(o))
  <2>1. o \in Orders  BY DEF Table, Selected
  <2>2. IsFiniteSet(1 .. Row[o].items)  BY <2>1, RowAssumption, FS_Interval
  <2>3. IsFiniteSet({o}) /\ IsFiniteSet({0})  BY FS_Singleton
  <2>4. IsFiniteSet(IF joined /\ Row[o].items > 0 THEN 1 .. Row[o].items ELSE {0})
    BY <2>2, <2>3
  <2> QED  BY <2>3, <2>4, FS_Product DEF RowsOf
<1>3. IsFiniteSet(Result)
  <2> DEFINE all == {RowsOf(o) : o \in Selected}
             rowsOf == [o \in Selected |-> RowsOf(o)]
  <2>1. rowsOf \in Surjection(Selected, all)  BY DEF Surjection
  <2>2. IsFiniteSet(all)
    <3> HIDE DEF all, rowsOf
    <3> QED  BY <1>1, <2>1, FS_Surjection
  <2>3. \A T \in all : IsFiniteSet(T)  BY <1>2
  <2>4. IsFiniteSet(UNION all)
    <3> HIDE DEF all
    <3> QED  BY <2>2, <2>3, FS_UNION
  <2> QED  BY <2>4 DEF Result
<1>4. ASSUME ~ joined PROVE Cardinality(Result) = Cardinality(Selected)
  <2>1. \A o : RowsOf(o) = {o} \X {0}  BY <1>4 DEF RowsOf
  <2>2. Result = Selected \X {0}  BY <2>1 DEF Result
  <2>3. IsFiniteSet({0}) /\ Cardinality({0}) = 1  BY FS_Singleton
  <2>4. Cardinality(Result) = Cardinality(Selected) * 1  BY <1>1, <2>2, <2>3, FS_Product
  <2>5. Cardinality(Selected) \in Nat  BY <1>1, FS_CardinalityType
  <2> QED  BY <2>4, <2>5
<1> QED  BY <1>1, <1>3, <1>4, FS_CardinalityType

\* The rows above an order can be counted.
LEMMA AboveIsFinite ==
    ASSUME Table, NEW o
    PROVE  IsFiniteSet(Above(o)) /\ Cardinality(Above(o)) \in Nat
<1>1. Above(o) \subseteq Result  BY DEF Above
<1> QED  BY <1>1, ResultIsFinite, FS_Subset, FS_CardinalityType

(* A set of rows that has all above an order and a row of it has one more. *)
LEMMA OneMoreThanAbove ==
    ASSUME Table, NEW o \in Selected, NEW r \in RowsOf(o),
           NEW S, IsFiniteSet(S), Above(o) \subseteq S, r \in S
    PROVE  Cardinality(Above(o)) < Cardinality(S)
<1>1. r \notin Above(o)
  <2>1. createdAt[o] \in Int  BY NumbersAssumption DEF Table, Selected
  <2> QED  BY <2>1, RowsAndOrders DEF Above
<1>2. IsFiniteSet(Above(o) \union {r}) /\ Cardinality(Above(o) \union {r}) = Cardinality(Above(o)) + 1
  BY <1>1, AboveIsFinite, FS_AddElement
<1>3. Cardinality(Above(o) \union {r}) <= Cardinality(S)  BY FS_Subset
<1>4. Cardinality(S) \in Nat  BY FS_CardinalityType
<1> QED  BY <1>2, <1>3, <1>4, AboveIsFinite

-----------------------------------------------------------------------------
(* What a page holds *)

(* A head that has a row has all rows above it. *)
LEMMA HeadHasAbove ==
    ASSUME Table, NEW k \in Nat, NEW S \in Heads(Result, k), NEW r \in S
    PROVE  Above(r[1]) \subseteq S
<1>1. S \subseteq Result /\ \A q \in Result \ S : ~ Before(q, r)
  BY ResultIsFinite, HeadIs
<1> QED  BY <1>1 DEF Before, Above

(* A head that lacks a row of an order has none of an older one. *)
LEMMA HeadLacks ==
    ASSUME Table, NEW k \in Nat, NEW S \in Heads(Result, k),
           NEW o \in Selected, NEW r \in RowsOf(o), r \notin S
    PROVE  \A q \in S : createdAt[q[1]] >= createdAt[o]
<1>1. r \in Result /\ r[1] = o  BY RowsAndOrders
<1>2. S \subseteq Result /\ \A q \in S : ~ Before(r, q)
  BY <1>1, ResultIsFinite, HeadIs
<1>3. \A q \in S : q[1] \in Selected  BY <1>2, RowsAndOrders
<1>4. \A q \in Selected : createdAt[q] \in Int  BY NumbersAssumption DEF Table, Selected
<1> QED  BY <1>1, <1>2, <1>3, <1>4 DEF Before

(* A head that lacks every row of an order not tied has only rows above it, *)
(* and as many of them as it was asked for. *)
LEMMA HeadOfOthers ==
    ASSUME Table, NEW k \in Nat, NEW S \in Heads(Result, k),
           NEW o \in Selected, ~ Tied(o), RowsOf(o) \intersect S = {}
    PROVE  k <= Cardinality(Above(o))
<1>1. PICK r \in RowsOf(o) : r \in Result  BY RowsAndOrders DEF Table, Selected
<1>2. r \notin S  BY <1>1
<1>3. S \subseteq Result /\ IsFiniteSet(S) /\ Cardinality(S) = Taken(Result, k)
  BY ResultIsFinite, HeadIs
<1>4. ASSUME NEW q \in S PROVE q \in Above(o)
  <2>1. q \in Result /\ q[1] \in Selected /\ q \in RowsOf(q[1])  BY <1>3, RowsAndOrders
  <2>2. q[1] # o  BY <2>1
  <2>3. createdAt[q[1]] # createdAt[o]  BY <2>1, <2>2 DEF Tied
  <2>4. createdAt[q[1]] >= createdAt[o]  BY <1>1, <1>2, HeadLacks
  <2>5. createdAt[q[1]] \in Int /\ createdAt[o] \in Int
    BY <2>1, NumbersAssumption DEF Table, Selected
  <2> QED  BY <2>1, <2>3, <2>4, <2>5 DEF Above
<1>5. Cardinality(S) <= Cardinality(Above(o))  BY <1>4, AboveIsFinite, FS_Subset
<1>6. Cardinality(Above(o)) < Cardinality(Result)
  BY <1>1, ResultIsFinite, OneMoreThanAbove DEF Above
<1> QED  BY <1>3, <1>5, <1>6, AboveIsFinite, ResultIsFinite DEF Taken

(* What the client can rely on when it reads a page, for any order selected. *)
Cut(rows) ==
    \A o \in OrdersOn(rows) :
        \/ RowsOf(o) \subseteq rows
        \/ \A q \in OrdersOn(rows) : createdAt[q] <= createdAt[o]
        \/ \A q \in OrdersOn(rows) : createdAt[q] >= createdAt[o]

\* A page is what LIMIT leaves between two heads of the sorted rows.
LEMMA PageHeads ==
    ASSUME Table, offset \in Nat, limit \in Nat, NEW rows \in Pages(Result, limit, offset)
    PROVE  \E S \in Heads(Result, offset), T \in Heads(Result, offset + limit) :
               /\ rows = T \ S
               /\ S \subseteq T /\ T \subseteq Result
               /\ IsFiniteSet(T)
               /\ Cardinality(T) = Taken(Result, offset + limit)
               /\ Cardinality(S) = Taken(Result, offset)
               /\ Cardinality(rows) = Cardinality(T) - Cardinality(S)
<1> DEFINE longer(S) == {T \in Heads(Result, offset + limit) : S \subseteq T}
<1>1. PICK S \in Heads(Result, offset) : rows \in {T \ S : T \in longer(S)}  BY DEF Pages
<1>2. PICK T \in longer(S) : rows = T \ S  BY <1>1
<1>3. T \in Heads(Result, offset + limit) /\ S \subseteq T /\ rows = T \ S  BY <1>2
<1>4. /\ T \subseteq Result
      /\ IsFiniteSet(T)
      /\ Cardinality(T) = Taken(Result, offset + limit)
  BY <1>3, ResultIsFinite, HeadIs
<1>5. Cardinality(S) = Taken(Result, offset)  BY <1>1, ResultIsFinite, HeadIs
<1>6. T \intersect S = S  BY <1>3
<1>7. Cardinality(T \ S) = Cardinality(T) - Cardinality(T \intersect S)
  BY <1>4, FS_Difference
<1> QED  BY <1>1, <1>3, <1>4, <1>5, <1>6, <1>7

(* An order is cut only as the newest or the oldest. *)
LEMMA PageCutsAtEdges ==
    ASSUME Table, offset \in Nat, limit \in Nat, NEW rows \in Pages(Result, limit, offset)
    PROVE  OrdersOn(rows) \subseteq Selected /\ Cut(rows)
<1>1. PICK S \in Heads(Result, offset), T \in Heads(Result, offset + limit) :
          rows = T \ S /\ T \subseteq Result
  BY PageHeads
<1>2. OrdersOn(rows) \subseteq Selected  BY <1>1, RowsAndOrders DEF OrdersOn
<1>3. ASSUME NEW o \in OrdersOn(rows), ~ (RowsOf(o) \subseteq rows)
      PROVE  \/ \A q \in OrdersOn(rows) : createdAt[q] <= createdAt[o]
             \/ \A q \in OrdersOn(rows) : createdAt[q] >= createdAt[o]
  <2>1. PICK r \in RowsOf(o) : r \notin rows  BY <1>3
  <2>2. r \in Result /\ r[1] = o  BY <1>2, RowsAndOrders
  <2>3. \A q \in Selected : createdAt[q] \in Int  BY NumbersAssumption DEF Table, Selected
  <2>4. CASE r \in S
    <3>1. \A q \in Result \ S : ~ Before(q, r)  BY <2>4, ResultIsFinite, HeadIs
    <3>2. \A q \in rows : createdAt[q[1]] <= createdAt[o]
      BY <1>1, <1>2, <2>2, <2>3, <3>1 DEF Before, OrdersOn
    <3> QED  BY <3>2 DEF OrdersOn
  <2>5. CASE r \notin S
    <3>1. r \notin T  BY <1>1, <2>1, <2>5
    <3>2. \A q \in T : createdAt[q[1]] >= createdAt[o]  BY <1>2, <2>1, <3>1, HeadLacks
    <3> QED  BY <1>1, <3>2 DEF OrdersOn
  <2> QED  BY <2>4, <2>5
<1> QED  BY <1>2, <1>3 DEF Cut

(* With no fewer rows above it than the offset, an order not tied is on the *)
(* page or below it, and the page is not empty; below it, the page is full. *)
LEMMA PageMissesNone ==
    ASSUME Table, offset \in Nat, limit \in Nat, limit >= 1,
           NEW rows \in Pages(Result, limit, offset), NEW o \in Selected, ~ Tied(o),
           offset <= Cardinality(Above(o))
    PROVE  /\ rows # {}
           /\ \/ o \in OrdersOn(rows)
              \/ /\ offset + limit <= Cardinality(Above(o))
                 /\ Cardinality(rows) = limit
<1>1. PICK S \in Heads(Result, offset), T \in Heads(Result, offset + limit) :
          /\ rows = T \ S
          /\ S \subseteq T /\ T \subseteq Result
          /\ Cardinality(T) = Taken(Result, offset + limit)
          /\ Cardinality(S) = Taken(Result, offset)
          /\ Cardinality(rows) = Cardinality(T) - Cardinality(S)
  BY PageHeads
<1>2. PICK row \in RowsOf(o) : row \in Result  BY RowsAndOrders DEF Table, Selected
<1>3. Cardinality(Above(o)) < Cardinality(Result)
  BY <1>2, ResultIsFinite, OneMoreThanAbove DEF Above
<1>4. Cardinality(Above(o)) \in Nat /\ Cardinality(Result) \in Nat
  BY AboveIsFinite, ResultIsFinite
<1>5. Cardinality(rows) >= 1  BY <1>1, <1>3, <1>4 DEF Taken
<1>6. rows # {}  BY <1>5, FS_EmptySet
<1>7. ASSUME o \notin OrdersOn(rows)
      PROVE  offset + limit <= Cardinality(Above(o)) /\ Cardinality(rows) = limit
  <2>1. RowsOf(o) \intersect S = {}
    <3>1. SUFFICES ASSUME NEW r \in RowsOf(o), r \in S PROVE FALSE
      OBVIOUS
    <3>2. r[1] = o  BY RowsAndOrders
    <3>3. Above(o) \subseteq S  BY <3>1, <3>2, HeadHasAbove
    <3>4. IsFiniteSet(S)  BY ResultIsFinite, HeadIs
    <3>5. Cardinality(Above(o)) < Cardinality(S)  BY <3>1, <3>3, <3>4, OneMoreThanAbove
    <3> QED  BY <3>5, <1>1, <1>4 DEF Taken
  <2>2. RowsOf(o) \intersect T = {}
    <3>1. \A r \in rows : r[1] # o  BY <1>7 DEF OrdersOn
    <3> QED  BY <1>1, <2>1, <3>1, RowsAndOrders
  <2>3. offset + limit <= Cardinality(Above(o))  BY <2>2, HeadOfOthers
  <2> QED  BY <1>1, <1>3, <1>4, <2>3 DEF Taken
<1> QED  BY <1>6, <1>7

(* Of the orders on a page, fewer rows lie above than it reaches. *)
LEMMA PageEnds ==
    ASSUME Table, offset \in Nat, limit \in Nat,
           NEW rows \in Pages(Result, limit, offset), NEW o \in OrdersOn(rows)
    PROVE  Cardinality(Above(o)) < offset + limit
<1>1. PICK S \in Heads(Result, offset), T \in Heads(Result, offset + limit) :
          /\ rows = T \ S
          /\ T \subseteq Result
          /\ IsFiniteSet(T)
          /\ Cardinality(T) = Taken(Result, offset + limit)
  BY PageHeads
<1>2. PICK r \in T : r[1] = o  BY <1>1 DEF OrdersOn
<1>3. o \in Selected /\ r \in RowsOf(o)  BY <1>1, <1>2, RowsAndOrders
<1>4. Above(o) \subseteq T  BY <1>2, HeadHasAbove
<1>5. Cardinality(Above(o)) < Cardinality(T)  BY <1>1, <1>3, <1>4, OneMoreThanAbove
<1> QED  BY <1>1, <1>5, AboveIsFinite, ResultIsFinite DEF Taken

(* With fewer rows above it than the offset, the only row of an order not   *)
(* tied is on an earlier page.                                              *)
LEMMA PageStarts ==
    ASSUME Table, offset \in Nat, limit \in Nat,
           NEW rows \in Pages(Result, limit, offset), NEW o \in Selected, ~ Tied(o),
           Cardinality(RowsOf(o)) <= 1, IsFiniteSet(RowsOf(o)),
           Cardinality(Above(o)) < offset
    PROVE  o \notin OrdersOn(rows)
<1>1. PICK S \in Heads(Result, offset), T \in Heads(Result, offset + limit) :
          rows = T \ S /\ T \subseteq Result
  BY PageHeads
<1>2. SUFFICES ASSUME o \in OrdersOn(rows) PROVE FALSE
  OBVIOUS
<1>3. PICK r \in T \ S : r[1] = o  BY <1>1, <1>2 DEF OrdersOn
<1>4. r \in RowsOf(o)  BY <1>1, <1>3, RowsAndOrders
<1>5. RowsOf(o) = {r}
  <2>1. Cardinality(RowsOf(o)) = 1
    <3>1. RowsOf(o) # {}  BY <1>4
    <3>2. Cardinality(RowsOf(o)) \in Nat /\ Cardinality(RowsOf(o)) # 0
      BY <3>1, FS_CardinalityType, FS_EmptySet
    <3> QED  BY <3>2
  <2>2. \E x : RowsOf(o) = {x}  BY <2>1, FS_Singleton
  <2> QED  BY <1>4, <2>2
<1>6. RowsOf(o) \intersect S = {}  BY <1>3, <1>5
<1>7. offset <= Cardinality(Above(o))  BY <1>6, HeadOfOthers
<1> QED  BY <1>7, AboveIsFinite

-----------------------------------------------------------------------------
(* The inductive invariant *)

(* The query, and what the orders of the walk have to do with its filter. *)
QueryInv ==
    /\ pc = "idle" => offset = 0 /\ got = {} /\ page = {}
    /\ pc \in {"page", "count", "done"} => limit >= 1
    /\ pc = "count" => ~ joined
    /\ got \subseteq Selected
    /\ OrdersOn(page) \subseteq Selected
    /\ pc # "idle" => atStart \subseteq Selected

(* What is still missing lies below the offset, or on the page in hand. *)
MissingBelow ==
    \A o \in atStart \ got : ~ Tied(o) =>
        /\ pc \in {"page", "count"} => offset <= Cardinality(Above(o))
        /\ pc = "count" => o \in OrdersOn(page) \/ offset + limit <= Cardinality(Above(o))
        /\ pc # "done"

Single(o) == Cardinality(RowsOf(o)) <= 1

(* While no order is placed, what the client has lies above the offset. *)
ReceivedAbove ==
    ~ grown => \A o \in Selected : ~ Tied(o) /\ Single(o) =>
        /\ pc \in {"page", "count"} /\ o \in got => Cardinality(Above(o)) < offset
        /\ pc = "count" /\ o \in OrdersOn(page) =>
               Cardinality(Above(o)) < offset + limit /\ o \notin got
        /\ o \notin again

(* A page was announced because the count lay beyond its offset. *)
Announced ==
    ~ joined =>
        /\ pc \in {"page", "count"} => offset = 0 \/ offset < Cardinality(Selected)
        /\ pc = "count" => page # {}

WalkInv == TypeOK /\ QueryInv /\ MissingBelow /\ ReceivedAbove /\ Announced /\ Cut(page)

\* The types make the tables finite,
LEMMA TableOK == TypeOK => Table
BY DEF TypeOK, Table

(* What the model counts is finite, now and after a step. *)
Counts ==
    /\ IsFiniteSet(Selected) /\ Cardinality(Selected) \in Nat
    /\ IsFiniteSet(Result)
    /\ \A o : Cardinality(Above(o)) \in Nat

\* and what is counted finite with them,
LEMMA CountsOK == Table => Counts
BY ResultIsFinite, AboveIsFinite, FS_CardinalityType DEF Counts

\* after a step as before.
LEMMA CountsStayOK == Table' => Counts'
BY CountsOK, PTL

(* The page read now. *)
LEMMA PageNow ==
    ASSUME WalkInv, NEW rows \in PagesNow
    PROVE  /\ pc = "page"
           /\ rows \in Pages(Result, limit, offset)
           /\ limit \in Nat /\ limit >= 1 /\ offset \in Nat
           /\ Table
BY TableOK DEF PagesNow, WalkInv, TypeOK, QueryInv

\* Before the walk nothing is missed and nothing received.
LEMMA InitInv == Init => WalkInv
<1> SUFFICES ASSUME Init PROVE WalkInv
  OBVIOUS
<1>1. OrdersOn(page) = {}  BY DEF Init, OrdersOn
<1>2. limit \in Int /\ offset \in Nat  BY DEF Init
<1>3. TypeOK
  <2> USE DEF Init
  <2>1. createdAt \in [Orders -> Times] /\ placed \subseteq Orders  OBVIOUS
  <2>2. OrdersOn(page) \subseteq placed  BY <1>1
  <2>3. got \subseteq placed /\ again \subseteq got /\ atStart \subseteq placed  OBVIOUS
  <2> QED  BY <1>2, <2>1, <2>2, <2>3 DEF TypeOK
<1> QED  BY <1>1, <1>3
         DEF Init, WalkInv, QueryInv, MissingBelow, ReceivedAbove, Announced, Cut

(* A step that leaves the tables and the filter alone selects the same. *)
LEMMA SameTable ==
    ASSUME UNCHANGED <<createdAt, placed, joined, filter>>
    PROVE  /\ Selected' = Selected
           /\ Result' = Result
           /\ \A o : RowsOf(o)' = RowsOf(o)
           /\ \A o : Above(o)' = Above(o)
           /\ \A o : Tied(o)' = Tied(o)
           /\ \A o : Single(o)' = Single(o)
           /\ \A rows : Cut(rows)' = Cut(rows)
<1>1. Selected' = Selected  BY DEF Selected, Selects
<1>2. \A o : RowsOf(o)' = RowsOf(o)  BY DEF RowsOf
<1>3. Result' = Result  BY <1>1, <1>2 DEF Result
<1>4. \A o : Above(o)' = Above(o)  BY <1>3 DEF Above
<1>5. \A o : Tied(o)' = Tied(o)  BY <1>1 DEF Tied
<1>6. \A o : Single(o)' = Single(o)  BY <1>2 DEF Single
<1>7. \A rows : Cut(rows)' = Cut(rows)  BY <1>2 DEF Cut
<1> QED  BY <1>1, <1>2, <1>3, <1>4, <1>5, <1>6, <1>7

(* An order placed adds to the result, and to what lies above the others. *)
LEMMA PlaceAdds ==
    ASSUME Table, Table', UNCHANGED <<createdAt, joined, filter>>, placed \subseteq placed'
    PROVE  /\ Selected \subseteq Selected'
           /\ Cardinality(Selected) <= Cardinality(Selected')
           /\ \A o : RowsOf(o)' = RowsOf(o)
           /\ \A o : Cardinality(Above(o)) <= Cardinality(Above(o)')
           /\ \A o : Tied(o) => Tied(o)'
<1>1. Selected \subseteq Selected'  BY DEF Selected, Selects
<1>2. \A o : RowsOf(o)' = RowsOf(o)  BY DEF RowsOf
<1>3. Result \subseteq Result'  BY <1>1, <1>2 DEF Result
<1>4. IsFiniteSet(Selected') /\ IsFiniteSet(Result')
  BY CountsStayOK DEF Counts
<1>5. Cardinality(Selected) <= Cardinality(Selected')  BY <1>1, <1>4, FS_Subset
<1>6. ASSUME NEW o PROVE Cardinality(Above(o)) <= Cardinality(Above(o)')
  <2>1. Above(o) \subseteq Above(o)' /\ Above(o)' \subseteq Result'  BY <1>3 DEF Above
  <2>2. IsFiniteSet(Above(o)')  BY <1>4, <2>1, FS_Subset
  <2> QED  BY <2>1, <2>2, FS_Subset
<1>7. \A o : Tied(o) => Tied(o)'  BY <1>1 DEF Tied
<1> QED  BY <1>1, <1>2, <1>5, <1>6, <1>7

\* An order placed meanwhile can only add to the rows above another.
LEMMA PlaceInv ==
    ASSUME WalkInv, NEW o \in Orders, Place(o)
    PROVE  WalkInv'
<1>1. TypeOK'  BY DEF WalkInv, TypeOK, Place, query
<1>2. Table /\ Table'
  <2>1. TypeOK' => Table'  BY TableOK, PTL
  <2> QED  BY <1>1, <2>1, TableOK DEF WalkInv
<1>3. /\ Selected \subseteq Selected'
      /\ Cardinality(Selected) <= Cardinality(Selected')
      /\ \A q : RowsOf(q)' = RowsOf(q)
      /\ \A q : Cardinality(Above(q)) <= Cardinality(Above(q)')
      /\ \A q : Tied(q) => Tied(q)'
  BY <1>2, PlaceAdds DEF Place, query
<1>4. \A q : Cardinality(Above(q)) \in Nat /\ Cardinality(Above(q)') \in Nat
  BY <1>2, CountsOK, CountsStayOK DEF Counts
<1>5. Cardinality(Selected) \in Nat /\ Cardinality(Selected') \in Nat
  BY <1>2, CountsOK, CountsStayOK DEF Counts
<1>6. UNCHANGED <<createdAt, joined, pc, filter, limit, offset, page, got, again, atStart>>
  BY DEF Place, query
<1>7. QueryInv'  BY <1>3, <1>6 DEF WalkInv, QueryInv, OrdersOn
<1>8. MissingBelow'
  <2>1. TypeOK  BY DEF WalkInv
  <2>2. limit \in Int /\ offset \in Nat  BY <2>1 DEF TypeOK
  <2> QED  BY <1>3, <1>4, <1>6, <2>2 DEF WalkInv, MissingBelow, OrdersOn
<1>9. ReceivedAbove'
  <2>1. CASE pc = "idle"
    <3>1. got = {} /\ again = {}  BY <2>1 DEF WalkInv, QueryInv, TypeOK
    <3> QED  BY <1>6, <2>1, <3>1 DEF ReceivedAbove
  <2>2. CASE pc # "idle"
    BY <2>2 DEF ReceivedAbove, Place
  <2> QED  BY <2>1, <2>2
<1>10. Announced'
  <2>1. TypeOK  BY DEF WalkInv
  <2>2. offset \in Nat  BY <2>1 DEF TypeOK
  <2> QED  BY <1>3, <1>5, <1>6, <2>2 DEF WalkInv, Announced
<1>11. Cut(page)'  BY <1>3, <1>6 DEF WalkInv, Cut, OrdersOn
<1> QED  BY <1>1, <1>7, <1>8, <1>9, <1>10, <1>11 DEF WalkInv

\* A walk starts at offset 0 with all orders to come.
LEMMA StartInv ==
    ASSUME WalkInv, NEW f \in Filters, NEW n \in Limits, Start(f, n)
    PROVE  WalkInv'
<1>1. /\ offset = 0 /\ got = {} /\ page = {} /\ again = {}
      /\ UNCHANGED <<createdAt, placed, joined, offset, page, got, again, grown>>
      /\ limit' = n
      /\ pc' = IF Valid(n) THEN "page" ELSE "refused"
  BY DEF WalkInv, QueryInv, TypeOK, Start
<1>2. atStart' = Selected'  BY DEF Start, Selected, Selects
<1>3. OrdersOn(page') = {}  BY <1>1 DEF OrdersOn
<1>4. TypeOK'
  <2>1. limit' \in Int  BY <1>1, NumbersAssumption
  <2>2. atStart' \subseteq placed'  BY <1>2 DEF Selected
  <2> QED  BY <1>1, <1>3, <2>1, <2>2 DEF WalkInv, TypeOK
<1>5. QueryInv'
  <2>1. pc' = "page" => limit' >= 1  BY <1>1 DEF Valid
  <2> QED  BY <1>1, <1>2, <1>3, <2>1 DEF QueryInv
<1>6. MissingBelow'
  <2>1. TypeOK' => Table'  BY TableOK, PTL
  <2>2. \A q : 0 <= Cardinality(Above(q)')  BY <1>4, <2>1, CountsStayOK DEF Counts
  <2> QED  BY <1>1, <2>2 DEF MissingBelow
<1>7. ReceivedAbove'  BY <1>1, <1>3 DEF ReceivedAbove
<1>8. Announced'  BY <1>1 DEF Announced
<1>9. Cut(page)'  BY <1>3 DEF Cut, OrdersOn
<1> QED  BY <1>4, <1>5, <1>6, <1>7, <1>8, <1>9 DEF WalkInv

(* What is missing after a page: below it, with a page full before it. *)
LEMMA StillMissing ==
    ASSUME WalkInv, NEW rows \in PagesNow, NEW o \in atStart \ got, ~ Tied(o)
    PROVE  /\ rows # {}
           /\ offset <= Cardinality(Above(o))
           /\ \/ o \in OrdersOn(rows)
              \/ /\ offset + limit <= Cardinality(Above(o))
                 /\ Cardinality(rows) = limit
<1>1. pc = "page" /\ o \in Selected  BY PageNow DEF WalkInv, QueryInv
<1>2. offset <= Cardinality(Above(o))  BY <1>1 DEF WalkInv, MissingBelow
<1> QED  BY <1>1, <1>2, PageNow, PageMissesNone

(* What is new on a page while no order is placed: nothing the client has. *)
LEMMA NothingTwice ==
    ASSUME WalkInv, NEW rows \in PagesNow, ~ grown, NEW o \in OrdersOn(rows), ~ Tied(o), Single(o)
    PROVE  Cardinality(Above(o)) < offset + limit /\ o \notin got
<1>1. o \in Selected /\ o \in Orders
  BY PageNow, PageCutsAtEdges DEF Selected, Table
<1>2. Cardinality(Above(o)) < offset + limit  BY PageNow, PageEnds
<1>3. IsFiniteSet(RowsOf(o))
  <2>1. RowsOf(o) \subseteq Result  BY <1>1, RowsAndOrders
  <2> QED  BY <2>1, PageNow, CountsOK, FS_Subset DEF Counts
<1>4. ASSUME o \in got PROVE FALSE
  <2>1. Cardinality(Above(o)) < offset
    BY <1>1, <1>4, PageNow DEF WalkInv, ReceivedAbove
  <2>2. o \notin OrdersOn(rows)  BY <1>1, <1>3, <2>1, PageNow, PageStarts DEF Single
  <2> QED  BY <2>2
<1> QED  BY <1>2, <1>4

(* Receiving a page preserves what depends neither on when the walk ends nor *)
(* on what is announced.                                                      *)
LEMMA ReceiveInv ==
    ASSUME WalkInv, NEW rows, NEW more \in BOOLEAN, Receive(rows, more),
           pc \in {"page", "count"},
           OrdersOn(rows) \subseteq Selected,
           Cut(rows),
           ~ more => \A o \in atStart \ got : ~ Tied(o) => o \in OrdersOn(rows),
           \A o \in atStart \ got : ~ Tied(o) =>
               o \in OrdersOn(rows) \/ offset + limit <= Cardinality(Above(o)),
           ~ grown => \A o \in OrdersOn(rows) : ~ Tied(o) /\ Single(o) =>
               Cardinality(Above(o)) < offset + limit /\ o \notin got
    PROVE  TypeOK' /\ QueryInv' /\ MissingBelow' /\ ReceivedAbove' /\ Cut(page)'
<1>1. TypeOK /\ limit \in Nat /\ offset \in Nat /\ limit >= 1
  BY DEF WalkInv, TypeOK, QueryInv
<1>2. /\ UNCHANGED <<createdAt, placed, joined, filter, limit, atStart, grown>>
      /\ page' = rows
      /\ got' = got \union OrdersOn(rows)
      /\ again' = again \union (got \intersect OrdersOn(rows))
      /\ pc' = IF more THEN "page" ELSE "done"
      /\ offset' = IF more THEN offset + limit ELSE offset
  BY DEF Receive
<1>3. /\ Selected' = Selected
      /\ \A o : Above(o)' = Above(o)
      /\ \A o : Tied(o)' = Tied(o)
      /\ \A o : Single(o)' = Single(o)
      /\ \A q : Cut(q)' = Cut(q)
  BY <1>2, SameTable
<1>4. OrdersOn(page') = OrdersOn(rows)  BY <1>2
<1>5. \A o : Cardinality(Above(o)) \in Nat  BY <1>1, TableOK, CountsOK DEF Counts
<1>6. TypeOK'
  <2>1. OrdersOn(rows) \subseteq placed  BY DEF Selected
  <2>2. offset' \in Nat /\ limit' \in Int  BY <1>1, <1>2
  <2> QED  BY <1>1, <1>2, <1>4, <2>1, <2>2 DEF TypeOK
<1>7. QueryInv'  BY <1>1, <1>2, <1>3, <1>4 DEF WalkInv, QueryInv
<1>8. MissingBelow'
  <2>1. ASSUME NEW o \in atStart' \ got', ~ Tied(o)'
        PROVE  more /\ offset + limit <= Cardinality(Above(o))
    BY <1>2, <1>3, <2>1
  <2> QED  BY <1>2, <1>3, <2>1 DEF MissingBelow
<1>9. ReceivedAbove'
  <2> SUFFICES ASSUME ~ grown, NEW o \in Selected, ~ Tied(o), Single(o)
               PROVE  /\ pc' \in {"page", "count"} /\ o \in got' => Cardinality(Above(o)) < offset'
                      /\ o \notin again'
    BY <1>2, <1>3 DEF ReceivedAbove
  <2>1. /\ o \in got => Cardinality(Above(o)) < offset
        /\ o \notin again
    BY DEF WalkInv, ReceivedAbove
  <2>2. o \in OrdersOn(rows) => Cardinality(Above(o)) < offset + limit /\ o \notin got
    OBVIOUS
  <2>3. o \in got' => Cardinality(Above(o)) < offset + limit
    BY <1>1, <1>2, <1>5, <2>1, <2>2
  <2> QED  BY <1>2, <2>1, <2>2, <2>3
<1>10. Cut(page)'  BY <1>2, <1>3, <1>4 DEF Cut
<1> QED  BY <1>6, <1>7, <1>8, <1>9, <1>10

\* A page of joined rows moves the walk on by its limit.
LEMMA GetOrdersInv ==
    ASSUME WalkInv, GetOrders
    PROVE  WalkInv'
<1>1. joined /\ joined'  BY DEF GetOrders, Receive
<1>2. PICK rows \in PagesNow : Receive(rows, rows # {})  BY DEF GetOrders
<1>3. OrdersOn(rows) \subseteq Selected /\ Cut(rows)  BY PageNow, PageCutsAtEdges
<1>4. pc = "page"  BY PageNow
<1>5. TypeOK' /\ QueryInv' /\ MissingBelow' /\ ReceivedAbove' /\ Cut(page)'
  BY <1>2, <1>3, <1>4, StillMissing, NothingTwice, ReceiveInv
<1>6. Announced'  BY <1>1 DEF Announced
<1> QED  BY <1>5, <1>6 DEF WalkInv

\* So does a page of orders, with its count or without.
LEMMA GetNodesInv ==
    ASSUME WalkInv, GetNodes
    PROVE  WalkInv'
<1>1. ~ joined  BY DEF GetNodes
<1>2. PICK rows \in PagesNow :
          IF CountKnown(rows)
          THEN Receive(rows, HasNextPage(offset + Cardinality(rows)))
          ELSE /\ page' = rows
               /\ pc' = "count"
               /\ UNCHANGED <<createdAt, placed, joined, filter, limit, offset, history>>
  BY DEF GetNodes
<1>3. OrdersOn(rows) \subseteq Selected /\ Cut(rows)  BY PageNow, PageCutsAtEdges
<1>4. /\ pc = "page"
      /\ limit \in Nat /\ limit >= 1 /\ offset \in Nat
      /\ Table
  BY PageNow
<1>5. PICK S \in Heads(Result, offset), T \in Heads(Result, offset + limit) :
          /\ Cardinality(T) = Taken(Result, offset + limit)
          /\ Cardinality(S) = Taken(Result, offset)
          /\ Cardinality(rows) = Cardinality(T) - Cardinality(S)
  BY PageNow, PageHeads
<1>6. Cardinality(Result) \in Nat /\ Cardinality(Result) = Cardinality(Selected)
  BY <1>1, <1>4, ResultIsFinite
<1>7. Cardinality(rows) \in Nat  BY <1>4, <1>5, <1>6 DEF Taken
<1>8. CASE CountKnown(rows)
  <2>1. HasNextPage(offset + Cardinality(rows)) = FALSE
    BY <1>4, <1>7, <1>8 DEF CountKnown, HasNextPage
  <2>2. Receive(rows, FALSE)
    <3>1. Receive(rows, HasNextPage(offset + Cardinality(rows)))  BY <1>2, <1>8
    <3> QED  BY <2>1, <3>1
  <2>3. Cardinality(rows) # limit  BY <1>4, <1>7, <1>8 DEF CountKnown
  <2>4. \A o \in atStart \ got : ~ Tied(o) => o \in OrdersOn(rows)
    BY <1>2, <2>3, StillMissing
  <2>5. TypeOK' /\ QueryInv' /\ MissingBelow' /\ ReceivedAbove' /\ Cut(page)'
    BY <1>2, <1>3, <1>4, <2>2, <2>4, NothingTwice, ReceiveInv
  <2>6. Announced'  BY <2>2 DEF Receive, Announced
  <2> QED  BY <2>5, <2>6 DEF WalkInv
<1>9. CASE ~ CountKnown(rows)
  <2>1. /\ page' = rows
        /\ pc' = "count"
        /\ UNCHANGED <<createdAt, placed, joined, filter, limit, offset, got, again, atStart, grown>>
    BY <1>2, <1>9 DEF history
  <2>2. /\ Selected' = Selected
        /\ \A o : Above(o)' = Above(o)
        /\ \A o : Tied(o)' = Tied(o)
        /\ \A o : Single(o)' = Single(o)
        /\ \A q : Cut(q)' = Cut(q)
    BY <2>1, SameTable
  <2>3. OrdersOn(page') = OrdersOn(rows)  BY <2>1
  <2>4. TypeOK'
    <3>1. OrdersOn(rows) \subseteq placed  BY <1>3 DEF Selected
    <3> QED  BY <2>1, <2>3, <3>1 DEF WalkInv, TypeOK
  <2>5. QueryInv'  BY <1>1, <1>3, <1>4, <2>1, <2>2, <2>3 DEF WalkInv, QueryInv
  <2>6. MissingBelow'  BY <1>2, <2>1, <2>2, <2>3, StillMissing DEF MissingBelow
  <2>7. ReceivedAbove'
    <3>1. ~ grown => \A o \in OrdersOn(rows) : ~ Tied(o) /\ Single(o) =>
              Cardinality(Above(o)) < offset + limit /\ o \notin got
      BY <1>2, NothingTwice
    <3> QED  BY <1>4, <2>1, <2>2, <2>3, <3>1 DEF WalkInv, ReceivedAbove
  <2>8. rows # {}
    <3>1. CASE offset = 0
      <4>1. Cardinality(rows) >= limit  BY <1>4, <1>7, <1>9, <3>1 DEF CountKnown
      <4> QED  BY <1>4, <4>1, FS_EmptySet
    <3>2. CASE offset # 0
      <4>1. offset < Cardinality(Result)
        BY <1>1, <1>4, <1>6, <3>2 DEF WalkInv, Announced
      <4>2. Cardinality(rows) >= 1  BY <1>4, <1>5, <1>6, <4>1 DEF Taken
      <4> QED  BY <4>2, FS_EmptySet
    <3> QED  BY <3>1, <3>2
  <2>9. Announced'
    BY <1>1, <1>4, <2>1, <2>2, <2>8 DEF WalkInv, Announced
  <2>10. Cut(page)'  BY <1>3, <2>1, <2>2, <2>3 DEF Cut
  <2> QED  BY <2>4, <2>5, <2>6, <2>7, <2>9, <2>10 DEF WalkInv
<1> QED  BY <1>8, <1>9

\* A count that comes after its page may see more orders, not fewer.
LEMMA GetTotalCountInv ==
    ASSUME WalkInv, GetTotalCount
    PROVE  WalkInv'
<1> DEFINE more == HasNextPage(Cardinality(Selected))
<1>1. pc = "count" /\ Receive(page, more)  BY DEF GetTotalCount
<1>2. TypeOK /\ Table  BY TableOK DEF WalkInv
<1>3. limit \in Nat /\ offset \in Nat  BY <1>1, <1>2 DEF WalkInv, QueryInv, TypeOK
<1>4. ~ joined /\ OrdersOn(page) \subseteq Selected /\ Cut(page) /\ atStart \subseteq Selected
  BY <1>1 DEF WalkInv, QueryInv
<1>5. Cardinality(Selected) \in Nat /\ IsFiniteSet(Result) /\ Cardinality(Result) = Cardinality(Selected)
  BY <1>2, <1>4, ResultIsFinite
<1>6. \A o \in atStart \ got : ~ Tied(o) =>
          o \in OrdersOn(page) \/ offset + limit <= Cardinality(Above(o))
  BY <1>1 DEF WalkInv, MissingBelow
<1>7. ASSUME NEW o \in atStart \ got, ~ Tied(o), ~ more PROVE o \in OrdersOn(page)
  <2>1. SUFFICES ASSUME offset + limit <= Cardinality(Above(o)) PROVE FALSE
    BY <1>6, <1>7
  <2>2. o \in Selected /\ o \in Orders  BY <1>4, <1>2 DEF Table, Selected
  <2>3. PICK r : r \in RowsOf(o)  BY <2>2, RowsAndOrders
  <2>4. r \in Result /\ Above(o) \subseteq Result  BY <2>2, <2>3, RowsAndOrders DEF Above
  <2>5. Cardinality(Above(o)) < Cardinality(Result)
    BY <1>2, <1>5, <2>2, <2>3, <2>4, OneMoreThanAbove
  <2>6. Cardinality(Above(o)) \in Nat  BY <1>2, AboveIsFinite
  <2> QED  BY <1>3, <1>5, <1>7, <2>1, <2>5, <2>6 DEF HasNextPage
<1>8. ~ grown => \A o \in OrdersOn(page) : ~ Tied(o) /\ Single(o) =>
          Cardinality(Above(o)) < offset + limit /\ o \notin got
  BY <1>1, <1>4 DEF WalkInv, ReceivedAbove
<1>9. more \in BOOLEAN  BY DEF HasNextPage
<1>10. TypeOK' /\ QueryInv' /\ MissingBelow' /\ ReceivedAbove' /\ Cut(page)'
  <2> HIDE DEF more
  <2> QED  BY <1>1, <1>4, <1>6, <1>7, <1>8, <1>9, ReceiveInv
<1>11. Announced'
  <2>1. Selected' = Selected  BY <1>1, SameTable DEF Receive
  <2>2. pc' = (IF more THEN "page" ELSE "done") /\ offset' = IF more THEN offset + limit ELSE offset
    BY <1>1 DEF Receive
  <2>3. more => offset + limit < Cardinality(Selected)  BY DEF HasNextPage
  <2> HIDE DEF more
  <2> QED  BY <2>1, <2>2, <2>3 DEF Announced
<1> QED  BY <1>10, <1>11 DEF WalkInv

\* A page that is asked for again is asked for at the same offset.
LEMMA FetchFailsInv ==
    ASSUME WalkInv, FetchFails
    PROVE  WalkInv'
<1>1. /\ pc = "count" /\ pc' = "page" /\ page' = {}
      /\ UNCHANGED <<createdAt, placed, joined, filter, limit, offset, got, again, atStart, grown>>
  BY DEF FetchFails, history
<1>2. /\ Selected' = Selected
      /\ \A o : Above(o)' = Above(o)
      /\ \A o : Tied(o)' = Tied(o)
      /\ \A o : Single(o)' = Single(o)
  BY <1>1, SameTable
<1>3. OrdersOn(page') = {}  BY <1>1 DEF OrdersOn
<1>4. TypeOK'  BY <1>1, <1>3 DEF WalkInv, TypeOK
<1>5. QueryInv'  BY <1>1, <1>2, <1>3 DEF WalkInv, QueryInv
<1>6. MissingBelow'  BY <1>1, <1>2 DEF WalkInv, MissingBelow
<1>7. ReceivedAbove'  BY <1>1, <1>2 DEF WalkInv, ReceivedAbove
<1>8. Announced'  BY <1>1, <1>2 DEF WalkInv, Announced
<1>9. Cut(page)'  BY <1>3 DEF Cut, OrdersOn
<1> QED  BY <1>4, <1>5, <1>6, <1>7, <1>8, <1>9 DEF WalkInv

\* Every step keeps the invariant.
LEMMA StepInv == WalkInv /\ [Next]_vars => WalkInv'
<1> SUFFICES ASSUME WalkInv, [Next]_vars PROVE WalkInv'
  OBVIOUS
<1>1. ASSUME NEW o \in Orders, Place(o) PROVE WalkInv'  BY <1>1, PlaceInv
<1>2. ASSUME NEW f \in Filters, NEW n \in Limits, Start(f, n) PROVE WalkInv'
  BY <1>2, StartInv
<1>3. CASE GetOrders  BY <1>3, GetOrdersInv
<1>4. CASE GetNodes  BY <1>4, GetNodesInv
<1>5. CASE GetTotalCount  BY <1>5, GetTotalCountInv
<1>6. CASE FetchFails  BY <1>6, FetchFailsInv
<1>7. CASE UNCHANGED vars
  <2>1. UNCHANGED <<createdAt, placed, joined, pc, filter, limit, offset, page, got, again, atStart, grown>>
    BY <1>7 DEF vars, query, history
  <2>2. /\ Selected' = Selected
        /\ \A o : Above(o)' = Above(o)
        /\ \A o : Tied(o)' = Tied(o)
        /\ \A o : Single(o)' = Single(o)
        /\ \A q : Cut(q)' = Cut(q)
    BY <2>1, SameTable
  <2>3. OrdersOn(page') = OrdersOn(page)  BY <2>1
  <2>4. TypeOK'  BY <2>1, <2>3 DEF WalkInv, TypeOK
  <2>5. QueryInv'  BY <2>1, <2>2, <2>3 DEF WalkInv, QueryInv
  <2>6. MissingBelow'  BY <2>1, <2>2, <2>3 DEF WalkInv, MissingBelow
  <2>7. ReceivedAbove'  BY <2>1, <2>2, <2>3 DEF WalkInv, ReceivedAbove
  <2>8. Announced'  BY <2>1, <2>2 DEF WalkInv, Announced
  <2>9. Cut(page)'  BY <2>1, <2>2, <2>3 DEF WalkInv, Cut
  <2> QED  BY <2>4, <2>5, <2>6, <2>7, <2>8, <2>9 DEF WalkInv
<1> QED  BY <1>1, <1>2, <1>3, <1>4, <1>5, <1>6, <1>7 DEF Next

-----------------------------------------------------------------------------
(* The theorems *)

(* The inductive invariant holds throughout. *)
THEOREM WalkInvariance == Spec => []WalkInv
BY InitInv, StepInv, PTL DEF Spec

(* The table and the query of the client keep their types, and a page or  *)
(* an answer never shows an order that is not committed.                   *)
THEOREM TypeCorrect == Spec => []TypeOK
<1>1. WalkInv => TypeOK  BY DEF WalkInv
<1> QED  BY <1>1, WalkInvariance, PTL

(* A walk that has ended has received every order that was there when it   *)
(* began and shares its created_at with no other, by either interface.     *)
THEOREM MissesOnlyTies == Spec => []SkippedOnlyOnTies
<1>1. WalkInv => SkippedOnlyOnTies  BY DEF WalkInv, MissingBelow, SkippedOnlyOnTies
<1> QED  BY <1>1, WalkInvariance, PTL

(* An order comes twice only when one was placed during the walk, or it is *)
(* tied, or its rows lie on two pages.                                     *)
THEOREM RepeatsForAReason == Spec => []RepeatedOnlyForAReason
<1>1. WalkInv => RepeatedOnlyForAReason
  <2> SUFFICES ASSUME WalkInv, NEW o \in again PROVE grown \/ Tied(o) \/ Cardinality(RowsOf(o)) > 1
    BY DEF RepeatedOnlyForAReason
  <2>1. o \in Selected /\ o \in Orders  BY DEF WalkInv, TypeOK, QueryInv
  <2>2. Cardinality(RowsOf(o)) \in Nat
    <3>1. TypeOK  BY DEF WalkInv
    <3>2. RowsOf(o) \subseteq Result  BY <2>1, RowsAndOrders
    <3> QED  BY <3>1, <3>2, TableOK, CountsOK, FS_Subset, FS_CardinalityType DEF Counts
  <2> QED  BY <2>1, <2>2 DEF WalkInv, ReceivedAbove, Single
<1> QED  BY <1>1, WalkInvariance, PTL

(* Only the newest and the oldest order of a page may lack some of their   *)
(* items.                                                                  *)
THEOREM CutsAtTheEdges == Spec => []CutOnlyAtTheEdges
<1>1. WalkInv => CutOnlyAtTheEdges  BY DEF WalkInv, Cut, CutOnlyAtTheEdges
<1> QED  BY <1>1, WalkInvariance, PTL

(* A page GraphQL has announced has orders on it when it is read.          *)
THEOREM AnnouncedIsThere == Spec => []AnnouncedPageIsThere
<1>1. WalkInv => AnnouncedPageIsThere
  BY DEF WalkInv, QueryInv, Announced, AnnouncedPageIsThere
<1> QED  BY <1>1, WalkInvariance, PTL
=============================================================================
