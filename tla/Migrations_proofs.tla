--------------------------- MODULE Migrations_proofs ---------------------------
(***************************************************************************)
(* Proofs about Migrations, for any number of processes, orders, users and *)
(* keys.                                                                   *)
(*                                                                         *)
(* The schema follows from what is recorded, even out of order: an object  *)
(* is there if its migration is recorded, and, if its table comes and goes *)
(* with the first migration, recorded since that one (Stands).  What a     *)
(* transaction sees is the schema but for what its own statements made     *)
(* and took away, and of that it has locked every table, so that what      *)
(* others commit meanwhile does not get in its way.  An order under way    *)
(* keeps the tables it has locked from all of them.                        *)
(***************************************************************************)
EXTENDS Migrations, FiniteSetTheorems, TLAPS

-----------------------------------------------------------------------------
(* The scripts *)

\* What each migration makes.
Makes == <<
    {"uuid_ossp", "products", "order_items", "order_status", "orders", "UQ_key", "users",
     "FK_item_product", "FK_item_order", "FK_order_user"},
    {"idx_status"}, {"idx_user_key"}, {"users_role", "password_hash", "role"},
    {"entity_type", "file_status", "visibility", "file_records", "idx_owner", "idx_entity",
     "avatar_id", "image_file_id"}>>
Objects == UNION {Makes[k] : k \in 1..5}

\* How many statements it takes.
Length == <<9, 1, 2, 3, 8>>

(* Down has as many statements as up. *)
LEMMA ScriptLengths ==
    /\ DOMAIN Up = 1..5 /\ DOMAIN Down = 1..5
    /\ \A k \in 1..5 : /\ DOMAIN Up[k] = 1..Length[k] /\ Len(Up[k]) = Length[k]
                       /\ DOMAIN Down[k] = 1..Length[k] /\ Len(Down[k]) = Length[k]
<1>1. /\ DOMAIN Up0 = 1..9 /\ Len(Up0) = 9 /\ DOMAIN Down0 = 1..9 /\ Len(Down0) = 9
  BY DEF Up0, Down0, CreateEach, DropEach
<1>2. /\ DOMAIN Up1 = 1..1 /\ Len(Up1) = 1 /\ DOMAIN Down1 = 1..1 /\ Len(Down1) = 1
  BY DEF Up1, Down1, CreateEach, DropEach
<1>3. /\ DOMAIN Up2 = 1..2 /\ Len(Up2) = 2 /\ DOMAIN Down2 = 1..2 /\ Len(Down2) = 2
  BY DEF Up2, Down2
<1>4. /\ DOMAIN Up3 = 1..3 /\ Len(Up3) = 3 /\ DOMAIN Down3 = 1..3 /\ Len(Down3) = 3
  BY DEF Up3, Down3, CreateEach, DropEach
<1>5. /\ DOMAIN Up4 = 1..8 /\ Len(Up4) = 8 /\ DOMAIN Down4 = 1..8 /\ Len(Down4) = 8
  BY DEF Up4, Down4, CreateEach, DropEach
<1> QED  BY <1>1, <1>2, <1>3, <1>4, <1>5 DEF Up, Down, Length

(* The statements, one by one. *)
LEMMA Script1 ==
    /\ Up[1][1] = Create("uuid_ossp") /\ Up[1][2] = Create("products")
    /\ Up[1][3] = Create("order_items") /\ Up[1][4] = Create("order_status")
    /\ Up[1][5] = Create("orders") /\ Up[1][6] = Create("users")
    /\ Up[1][7] = Create("FK_item_product") /\ Up[1][8] = Create("FK_item_order")
    /\ Up[1][9] = Create("FK_order_user")
    /\ Down[1][1] = Drop("FK_order_user") /\ Down[1][2] = Drop("FK_item_order")
    /\ Down[1][3] = Drop("FK_item_product") /\ Down[1][4] = Drop("users")
    /\ Down[1][5] = Drop("orders") /\ Down[1][6] = Drop("order_status")
    /\ Down[1][7] = Drop("order_items") /\ Down[1][8] = Drop("products")
    /\ Down[1][9] = Drop("uuid_ossp")
BY DEF Up, Down, Up0, Down0, CreateEach, DropEach

(* The index on status. *)
LEMMA Script2 ==
    /\ Up[2][1] = Create("idx_status")
    /\ Down[2][1] = Drop("idx_status")
BY DEF Up, Down, Up1, Down1, CreateEach, DropEach

(* The swap of the constraint for the index. *)
LEMMA Script3 ==
    /\ Up[3][1] = Drop("UQ_key") /\ Up[3][2] = Create("idx_user_key")
    /\ Down[3][1] = Drop("idx_user_key") /\ Down[3][2] = Create("UQ_key")
BY DEF Up, Down, Up2, Down2

(* The columns of users. *)
LEMMA Script4 ==
    /\ Up[4][1] = Create("users_role") /\ Up[4][2] = Create("password_hash")
    /\ Up[4][3] = Create("role")
    /\ Down[4][1] = Drop("role") /\ Down[4][2] = Drop("password_hash")
    /\ Down[4][3] = Drop("users_role")
BY DEF Up, Down, Up3, Down3, CreateEach, DropEach

(* The files. *)
LEMMA Script5 ==
    /\ Up[5][1] = Create("entity_type") /\ Up[5][2] = Create("file_status")
    /\ Up[5][3] = Create("visibility") /\ Up[5][4] = Create("file_records")
    /\ Up[5][5] = Create("idx_owner") /\ Up[5][6] = Create("idx_entity")
    /\ Up[5][7] = Create("avatar_id") /\ Up[5][8] = Create("image_file_id")
    /\ Down[5][1] = Drop("image_file_id") /\ Down[5][2] = Drop("avatar_id")
    /\ Down[5][3] = Drop("idx_entity") /\ Down[5][4] = Drop("idx_owner")
    /\ Down[5][5] = Drop("file_records") /\ Down[5][6] = Drop("visibility")
    /\ Down[5][7] = Drop("file_status") /\ Down[5][8] = Drop("entity_type")
BY DEF Up, Down, Up4, Down4, CreateEach, DropEach

(* A statement of up makes what its migration is there for, *)
LEMMA UpMakes ==
    \A k \in 1..5 :
       /\ \A i \in 1..Length[k] : Up[k][i].creates \subseteq Makes[k]
       /\ \A o \in Makes[k] : \E i \in 1..Length[k] : o \in Up[k][i].creates
<1> DEFINE P(k) == /\ \A i \in 1..Length[k] : Up[k][i].creates \subseteq Makes[k]
                   /\ \A o \in Makes[k] : \E i \in 1..Length[k] : o \in Up[k][i].creates
<1>1. P(1)  BY Script1 DEF Makes, Length, Create
<1>2. P(2)  BY Script2 DEF Makes, Length, Create
<1>3. P(3)  BY Script3 DEF Makes, Length, Create, Drop
<1>4. P(4)  BY Script4 DEF Makes, Length, Create
<1>5. P(5)  BY Script5 DEF Makes, Length, Create
<1> HIDE DEF P
<1>6. \A k \in 1..5 : P(k)  BY <1>1, <1>2, <1>3, <1>4, <1>5
<1> QED  BY <1>6 DEF P

(* and drops nothing but, in the third, the constraint made by the first. *)
LEMMA UpDrops ==
    \A k \in 1..5 : \A i \in 1..Length[k] :
       /\ k = 3 /\ i = 1 => Up[k][i].drops = {"UQ_key"} /\ Up[k][i].creates = {}
       /\ ~ (k = 3 /\ i = 1) => Up[k][i].drops = {}
<1> DEFINE P(k) == \A i \in 1..Length[k] :
              /\ k = 3 /\ i = 1 => Up[k][i].drops = {"UQ_key"} /\ Up[k][i].creates = {}
              /\ ~ (k = 3 /\ i = 1) => Up[k][i].drops = {}
<1>1. P(1)  BY Script1 DEF Length, Create
<1>2. P(2)  BY Script2 DEF Length, Create
<1>3. P(3)  BY Script3 DEF Length, Create, Drop
<1>4. P(4)  BY Script4 DEF Length, Create
<1>5. P(5)  BY Script5 DEF Length, Create
<1> HIDE DEF P
<1>6. \A k \in 1..5 : P(k)  BY <1>1, <1>2, <1>3, <1>4, <1>5
<1> QED  BY <1>6 DEF P

(* A statement of down makes nothing, but that constraint again. *)
LEMMA DownMakes ==
    \A k \in 1..5 : \A i \in 1..Length[k] :
       /\ k = 3 /\ i = 2 => Down[k][i].creates = {"UQ_key"} /\ Down[k][i].drops = {}
       /\ ~ (k = 3 /\ i = 2) => Down[k][i].creates = {}
<1> DEFINE P(k) == \A i \in 1..Length[k] :
              /\ k = 3 /\ i = 2 => Down[k][i].creates = {"UQ_key"} /\ Down[k][i].drops = {}
              /\ ~ (k = 3 /\ i = 2) => Down[k][i].creates = {}
<1>1. P(1)  BY Script1 DEF Length, Drop
<1>2. P(2)  BY Script2 DEF Length, Drop
<1>3. P(3)  BY Script3 DEF Length, Create, Drop
<1>4. P(4)  BY Script4 DEF Length, Drop
<1>5. P(5)  BY Script5 DEF Length, Drop
<1> HIDE DEF P
<1>6. \A k \in 1..5 : P(k)  BY <1>1, <1>2, <1>3, <1>4, <1>5
<1> QED  BY <1>6 DEF P

(* No object is made by two migrations. *)
LEMMA MadeOnce ==
    \A j, k \in 1..5 : \A o : o \in Makes[j] /\ o \in Makes[k] => j = k
BY DEF Makes

(* What goes with a table has it as its table. *)
LEMMA TableOfOwned ==
    /\ \A t \in DOMAIN OwnedBy : TableOf(t) = t /\ \A o \in OwnedBy[t] : TableOf(o) = t
    /\ \A o : TableOf(o) # o => TableOf(o) \in DOMAIN OwnedBy /\ o \in OwnedBy[TableOf(o)]
<1>1. \A t, u \in DOMAIN OwnedBy : \A o \in OwnedBy[t] : o \in OwnedBy[u] => t = u
  BY DEF OwnedBy
<1>2. \A t, u \in DOMAIN OwnedBy : t \notin OwnedBy[u]
  BY DEF OwnedBy
<1> QED  BY <1>1, <1>2 DEF TableOf

\* What a statement takes away: what it drops, and what goes with that.
Takes(st) == st.drops \union Owned(st.drops)

(* DROP of a table takes its own along, other DROPs one object. *)
LEMMA TakesOf ==
    /\ DOMAIN OwnedBy = {"orders", "order_items", "users", "products", "file_records"}
    /\ \A o : o \notin DOMAIN OwnedBy => Takes(Drop(o)) = {o}
    /\ \A t \in DOMAIN OwnedBy : Takes(Drop(t)) = {t} \union OwnedBy[t]
<1>1. DOMAIN OwnedBy = {"orders", "order_items", "users", "products", "file_records"}
  BY DEF OwnedBy
<1>2. \A o : o \notin DOMAIN OwnedBy => Takes(Drop(o)) = {o}  BY DEF Takes, Drop, Owned
<1>3. \A t \in DOMAIN OwnedBy : Takes(Drop(t)) = {t} \union OwnedBy[t]
  BY DEF Takes, Drop, Owned
<1> QED  BY <1>1, <1>2, <1>3

(* Undone statement by statement, a migration leaves nothing of what it made; the
   first one takes along what its tables own. *)
LEMMA DownTakes ==
    /\ \A k \in 2..5 : \A o :
          (\E i \in 1..Length[k] : o \in Takes(Down[k][i])) <=> o \in Makes[k]
    /\ \A o \in Objects :
          (\E i \in 1..Length[1] : o \in Takes(Down[1][i])) <=>
             \/ o \in Makes[1]
             \/ TableOf(o) \in {"orders", "users"}
             \/ o = "image_file_id"
<1> DEFINE P(k) == \A o : (\E i \in 1..Length[k] : o \in Takes(Down[k][i])) <=> o \in Makes[k]
<1> USE DEF Length
<1>2. P(2)  BY Script2, TakesOf DEF Makes
<1>3. P(3)  BY Script3, TakesOf DEF Makes, Create, Takes, Owned
<1>4. P(4)  BY Script4, TakesOf DEF Makes
<1>5. P(5)  
  <2>1. /\ Takes(Down[5][1]) = {"image_file_id"} /\ Takes(Down[5][2]) = {"avatar_id"}
        /\ Takes(Down[5][3]) = {"idx_entity"} /\ Takes(Down[5][4]) = {"idx_owner"}
        /\ Takes(Down[5][5]) = {"file_records", "idx_owner", "idx_entity"}
        /\ Takes(Down[5][6]) = {"visibility"} /\ Takes(Down[5][7]) = {"file_status"}
        /\ Takes(Down[5][8]) = {"entity_type"}
    BY Script5, TakesOf DEF OwnedBy
  <2> QED  BY <2>1 DEF Makes
<1>6. ASSUME NEW o \in Objects
      PROVE  (\E i \in 1..Length[1] : o \in Takes(Down[1][i])) <=>
                \/ o \in Makes[1]
                \/ TableOf(o) \in {"orders", "users"}
                \/ o = "image_file_id"
  <2>1. /\ Takes(Down[1][1]) = {"FK_order_user"} /\ Takes(Down[1][2]) = {"FK_item_order"}
        /\ Takes(Down[1][3]) = {"FK_item_product"}
        /\ Takes(Down[1][4]) = {"users"} \union OwnedBy["users"]
        /\ Takes(Down[1][5]) = {"orders"} \union OwnedBy["orders"]
        /\ Takes(Down[1][6]) = {"order_status"}
        /\ Takes(Down[1][7]) = {"order_items"} \union OwnedBy["order_items"]
        /\ Takes(Down[1][8]) = {"products"} \union OwnedBy["products"]
        /\ Takes(Down[1][9]) = {"uuid_ossp"}
    BY Script1, TakesOf
  <2>2. TableOf(o) \in {"orders", "users"} <=>
           \/ o \in {"users"} \union OwnedBy["users"]
           \/ o \in {"orders"} \union OwnedBy["orders"]
    <3>1. {"orders", "users"} \subseteq DOMAIN OwnedBy  BY DEF OwnedBy
    <3> QED  BY <3>1, TableOfOwned
  <2>3. /\ OwnedBy["order_items"] \subseteq Makes[1]
        /\ OwnedBy["products"] = {"image_file_id"}
        /\ {"FK_order_user", "FK_item_order", "FK_item_product", "users", "orders",
            "order_status", "order_items", "products", "uuid_ossp", "UQ_key"} = Makes[1]
        /\ "UQ_key" \in OwnedBy["orders"]
    BY DEF OwnedBy, Makes
  <2> QED  BY <2>1, <2>2, <2>3
<1> HIDE DEF P
<1>7. \A k \in 2..5 : P(k)  BY <1>2, <1>3, <1>4, <1>5
<1> QED  BY <1>6, <1>7 DEF P

(* What a statement changes, it locks. *)
LEMMA TouchesAll ==
    ASSUME NEW st, NEW o, o \in st.creates \/ o \in Takes(st)
    PROVE  TableOf(o) \in Touches(st)
<1>1. CASE o \in st.creates \union st.drops  BY <1>1 DEF Touches
<1>2. CASE o \in Owned(st.drops)
  <2>1. PICK t \in st.drops \intersect DOMAIN OwnedBy : o \in OwnedBy[t]  BY <1>2 DEF Owned
  <2>2. TableOf(o) = TableOf(t)  BY <2>1, TableOfOwned
  <2> QED  BY <2>1, <2>2 DEF Touches
<1> QED  BY <1>1, <1>2 DEF Takes

-----------------------------------------------------------------------------
(* What is recorded *)

\* The migrations recorded since the first one was.
Live(s) == {s[j] : j \in {j \in DOMAIN s : \E i \in DOMAIN s : i <= j /\ s[i] = 1}}

\* Since the first one was, none twice.
Once(s) == \A l, i, j \in DOMAIN s : s[l] = 1 /\ l <= i /\ i < j => s[i] # s[j]

(* An ascending sequence of a set of numbers lists it. *)
LEMMA AscendingLists ==
    ASSUME NEW S, S \subseteq Int, IsFiniteSet(S), NEW s \in Ascending(S)
    PROVE  /\ s \in Seq(S) /\ DOMAIN s = 1..Len(s) /\ ToSet(s) = S
           /\ \A i, j \in DOMAIN s : i < j => s[i] < s[j]
<1> DEFINE D == 1..Cardinality(S)
<1>1. Cardinality(S) \in Nat  BY FS_CardinalityType
<1>2. s \in [D -> S] /\ \A i, j \in D : i < j => s[i] < s[j]  BY DEF Ascending
<1>3. ASSUME NEW i \in D, NEW j \in D, i # j
      PROVE  s[i] # s[j]
  <2>1. s[i] \in Int /\ s[j] \in Int  BY <1>2
  <2>2. i < j \/ j < i  BY <1>1, <1>3
  <2> QED  BY <1>2, <2>1, <2>2
<1>4. s \in Injection(D, S)  BY <1>2, <1>3 DEF Injection, IsInjective
<1>5. Cardinality(D) = Cardinality(S)  BY <1>1, FS_Interval
<1>6. s \in Surjection(D, S)  BY <1>4, <1>5, FS_Injection
<1>7. s \in Seq(S) /\ DOMAIN s = D /\ Len(s) = Cardinality(S)  BY <1>1, <1>2
<1> QED  BY <1>2, <1>6, <1>7 DEF Surjection, ToSet

(* The migrations left, and the records left, are finitely many. *)
LEMMA FiniteParts ==
    \A n \in Nat : \A S \in SUBSET (1..n) : IsFiniteSet(S)
<1> TAKE n \in Nat
<1>1. IsFiniteSet(1..n)  BY FS_Interval
<1> QED  BY <1>1, FS_Subset

(* What running some migrations records. *)
LEMMA RecordSet ==
    ASSUME NEW s \in Seq(1..5), NEW p \in Seq(1..5)
    PROVE  s \o p \in Seq(1..5) /\ ToSet(s \o p) = ToSet(s) \union ToSet(p)
<1> DEFINE t == s \o p
<1>1. \A j \in DOMAIN s : s[j] = t[j] /\ j \in DOMAIN t  OBVIOUS
<1>2. \A j \in DOMAIN p : p[j] = t[Len(s) + j] /\ Len(s) + j \in DOMAIN t  OBVIOUS
<1>3. \A j \in DOMAIN t : \/ j \in DOMAIN s
                          \/ (j - Len(s)) \in DOMAIN p /\ t[j] = p[j - Len(s)]
  OBVIOUS
<1>4. t \in Seq(1..5)  OBVIOUS
<1> HIDE DEF t
<1>5. ToSet(t) = ToSet(s) \union ToSet(p)  BY <1>1, <1>2, <1>3 DEF ToSet
<1> QED  BY <1>4, <1>5 DEF t

(* Since the first one: those too, or those alone if the first one is among them. *)
LEMMA RecordLive ==
    ASSUME NEW s \in Seq(1..5), NEW p \in Seq(1..5)
    PROVE  /\ 1 \in ToSet(s) => Live(s \o p) = Live(s) \union ToSet(p)
           /\ 1 \notin ToSet(s) /\ p # <<>> /\ p[1] = 1 => Live(s \o p) = ToSet(p)
<1> DEFINE t == s \o p
<1>1. \A j \in DOMAIN s : s[j] = t[j] /\ j \in DOMAIN t  OBVIOUS
<1>2. \A j \in DOMAIN p : p[j] = t[Len(s) + j] /\ Len(s) + j \in DOMAIN t  OBVIOUS
<1>3. \A j \in DOMAIN t : \/ j \in DOMAIN s
                          \/ (j - Len(s)) \in DOMAIN p /\ t[j] = p[j - Len(s)] /\ j > Len(s)
  OBVIOUS
<1>4. DOMAIN s = 1..Len(s) /\ DOMAIN p = 1..Len(p) /\ DOMAIN t \subseteq Nat /\ Len(s) \in Nat
  OBVIOUS
<1> HIDE DEF t
<1>5. ASSUME 1 \in ToSet(s)
      PROVE  Live(t) = Live(s) \union ToSet(p)
  <2>1. PICK l \in DOMAIN s : s[l] = 1  BY <1>5 DEF ToSet
  <2>2. ASSUME NEW k \in Live(t)
        PROVE  k \in Live(s) \union ToSet(p)
    BY <1>1, <1>3, <1>4 DEF Live, ToSet
  <2>3. ASSUME NEW k \in Live(s)
        PROVE  k \in Live(t)
    BY <1>1 DEF Live
  <2>4. ASSUME NEW j \in DOMAIN p
        PROVE  p[j] \in Live(t)
    BY <2>1, <1>1, <1>2, <1>4 DEF Live
  <2> QED  BY <2>2, <2>3, <2>4 DEF ToSet
<1>6. ASSUME 1 \notin ToSet(s), p # <<>>, p[1] = 1
      PROVE  Live(t) = ToSet(p)
  <2>1. 1 \in DOMAIN p  BY <1>6
  <2>2. ASSUME NEW k \in Live(t)
        PROVE  k \in ToSet(p)
    <3>1. PICK j \in DOMAIN t, i \in DOMAIN t : k = t[j] /\ i <= j /\ t[i] = 1  BY DEF Live
    <3>2. i \notin DOMAIN s  BY <3>1, <1>1, <1>6 DEF ToSet
    <3>3. j \notin DOMAIN s  BY <3>1, <3>2, <1>3, <1>4
    <3> QED  BY <3>1, <3>3, <1>3 DEF ToSet
  <2>3. ASSUME NEW j \in DOMAIN p
        PROVE  p[j] \in Live(t)
    BY <2>1, <1>2, <1>4, <1>6 DEF Live
  <2> QED  BY <2>2, <2>3 DEF ToSet
<1> QED  BY <1>5, <1>6 DEF t

(* Recording again only what was not recorded since the first one repeats nothing. *)
LEMMA RecordOnce ==
    ASSUME NEW s \in Seq(1..5), NEW p \in Seq(1..5), Once(s),
           \A i, j \in DOMAIN p : i < j => p[i] < p[j],
           \/ 1 \notin ToSet(s)
           \/ 1 \in ToSet(s) /\ 1 \notin ToSet(p) /\ Live(s) \intersect ToSet(p) = {}
    PROVE  Once(s \o p)
<1> DEFINE t == s \o p
<1>1. \A j \in DOMAIN s : s[j] = t[j] /\ j \in DOMAIN t  OBVIOUS
<1>2. \A j \in DOMAIN p : p[j] = t[Len(s) + j] /\ Len(s) + j \in DOMAIN t  OBVIOUS
<1>3. \A j \in DOMAIN t : \/ j \in DOMAIN s
                          \/ (j - Len(s)) \in DOMAIN p /\ t[j] = p[j - Len(s)] /\ j > Len(s)
  OBVIOUS
<1>4. DOMAIN s = 1..Len(s) /\ DOMAIN p = 1..Len(p) /\ DOMAIN t \subseteq Nat /\ Len(s) \in Nat
  OBVIOUS
<1>5. \A j \in DOMAIN p : p[j] \in Int  OBVIOUS
<1> HIDE DEF t
<1>6. SUFFICES ASSUME NEW l \in DOMAIN t, NEW i \in DOMAIN t, NEW j \in DOMAIN t,
                      t[l] = 1, l <= i, i < j, t[i] = t[j]
               PROVE  FALSE
  BY DEF Once, t
<1>7. CASE j \in DOMAIN s
  BY <1>7, <1>6, <1>1, <1>3, <1>4 DEF Once
<1>8. CASE i \notin DOMAIN s
  <2>1. (i - Len(s)) \in DOMAIN p /\ t[i] = p[i - Len(s)]  BY <1>3, <1>8
  <2>2. (j - Len(s)) \in DOMAIN p /\ t[j] = p[j - Len(s)]  BY <1>3, <1>4, <1>6, <1>8
  <2>3. i - Len(s) < j - Len(s)  BY <1>4, <1>6
  <2>4. p[i - Len(s)] < p[j - Len(s)]  BY <2>1, <2>2, <2>3
  <2> QED  BY <2>1, <2>2, <2>4, <1>5, <1>6
<1>9. CASE i \in DOMAIN s /\ j \notin DOMAIN s
  <2>1. l \in DOMAIN s /\ s[l] = 1 /\ s[i] = t[i]  BY <1>1, <1>3, <1>4, <1>6, <1>9
  <2>2. s[i] \in Live(s) /\ 1 \in ToSet(s)  BY <2>1, <1>6, <1>9 DEF Live, ToSet
  <2>3. t[j] \in ToSet(p)  BY <1>3, <1>9 DEF ToSet
  <2> QED  BY <2>1, <2>2, <2>3, <1>6
<1> QED  BY <1>7, <1>8, <1>9

(* What reverting one leaves recorded: Kept lists the records that stay. *)
LEMMA UnrecordSet ==
    ASSUME NEW s \in Seq(1..5), NEW k \in 1..5,
           NEW kept \in Ascending({i \in DOMAIN s : s[i] # k})
    PROVE  /\ [i \in DOMAIN kept |-> s[kept[i]]] \in Seq(1..5)
           /\ ToSet([i \in DOMAIN kept |-> s[kept[i]]]) = ToSet(s) \ {k}
           /\ k # 1 => Live([i \in DOMAIN kept |-> s[kept[i]]]) = Live(s) \ {k}
           /\ k = 1 => Live([i \in DOMAIN kept |-> s[kept[i]]]) = {}
           /\ Once(s) => Once([i \in DOMAIN kept |-> s[kept[i]]])
<1> DEFINE S == {i \in DOMAIN s : s[i] # k}
           t == [i \in DOMAIN kept |-> s[kept[i]]]
<1>1. DOMAIN s = 1..Len(s) /\ Len(s) \in Nat /\ S \subseteq Int  OBVIOUS
<1>2. IsFiniteSet(S)  BY <1>1, FiniteParts
<1>3. /\ kept \in Seq(S) /\ DOMAIN kept = 1..Len(kept) /\ ToSet(kept) = S
      /\ \A i, j \in DOMAIN kept : i < j => kept[i] < kept[j]
  BY <1>1, <1>2, AscendingLists
<1>4. \A i \in DOMAIN kept : kept[i] \in S /\ kept[i] \in Int /\ i \in Int  BY <1>1, <1>3
<1>5. \A l \in S : \E i \in DOMAIN kept : kept[i] = l  BY <1>3 DEF ToSet
<1>6. \A i, j \in DOMAIN kept : kept[i] <= kept[j] => i <= j  BY <1>3, <1>4
<1>7. \A i, j \in DOMAIN kept : i <= j => kept[i] <= kept[j]  BY <1>3, <1>4
<1>8. t \in Seq(1..5)  BY <1>3, <1>4
<1>9. DOMAIN t = DOMAIN kept /\ \A i \in DOMAIN kept : t[i] = s[kept[i]] /\ t[i] # k
  BY <1>4
<1> HIDE DEF t
<1>10. ToSet(t) = ToSet(s) \ {k}  BY <1>4, <1>5, <1>9 DEF ToSet
<1>11. ASSUME k # 1
       PROVE  Live(t) = Live(s) \ {k}
  <2>1. ASSUME NEW e \in Live(t)
        PROVE  e \in Live(s) \ {k}
    BY <1>4, <1>7, <1>9 DEF Live
  <2>2. ASSUME NEW e \in Live(s) \ {k}
        PROVE  e \in Live(t)
    <3>1. PICK j \in DOMAIN s, i \in DOMAIN s : e = s[j] /\ i <= j /\ s[i] = 1
      BY DEF Live
    <3>2. j \in S /\ i \in S  BY <3>1, <1>11
    <3>3. PICK h \in DOMAIN kept : kept[h] = j  BY <3>2, <1>5
    <3>4. PICK g \in DOMAIN kept : kept[g] = i  BY <3>2, <1>5
    <3>5. g <= h /\ t[h] = e /\ t[g] = 1  BY <3>1, <3>3, <3>4, <1>6, <1>9
    <3> QED  BY <3>5, <1>9 DEF Live
  <2> QED  BY <2>1, <2>2
<1>12. k = 1 => Live(t) = {}  BY <1>9 DEF Live
<1>13. ASSUME Once(s)
       PROVE  Once(t)
  <2>1. SUFFICES ASSUME NEW l \in DOMAIN kept, NEW i \in DOMAIN kept, NEW j \in DOMAIN kept,
                        t[l] = 1, l <= i, i < j, t[i] = t[j]
                 PROVE  FALSE
    BY <1>9 DEF Once
  <2>2. kept[l] <= kept[i] /\ kept[i] < kept[j]  BY <2>1, <1>3, <1>7
  <2>3. s[kept[l]] = 1 /\ s[kept[i]] = s[kept[j]]  BY <2>1, <1>9
  <2> QED  BY <2>2, <2>3, <1>4, <1>13 DEF Once
<1> QED  BY <1>8, <1>10, <1>11, <1>12, <1>13 DEF t

-----------------------------------------------------------------------------
(* The invariant *)

\* Is object o there, when the migrations in A are recorded, those in L since the
\* first one was.
Stands(o, A, L) ==
    \E k \in A :
       /\ o \in Makes[k]
       /\ TableOf(o) \in {"orders", "users"} => k \in L
       /\ o = "UQ_key" => 3 \notin L

Types ==
    /\ schema \subseteq Objects
    /\ applied \in Seq(1..5)
    /\ orders \subseteq [userId : Users, key : Keys]
    /\ plan \in [Runners -> Seq(1..5)]
    /\ upwards \in [Runners -> BOOLEAN]
    /\ at \in [Runners -> Nat]
    /\ line \in [Runners -> Nat]
    /\ view \in [Runners -> SUBSET Objects]
    /\ DOMAIN locks = Runners
    /\ failed \in [Runners -> {"no", "statement", "deadlock"}]
    /\ taken \in [Clients -> 0..4]
    /\ disturbed \in [Runners -> BOOLEAN]

Exact ==
    /\ \A o \in Objects : o \in schema <=> Stands(o, ToSet(applied), Live(applied))
    /\ 5 \in ToSet(applied) => 5 \in Live(applied)
    /\ Once(applied)

\* Tables are locked by one transaction at a time.
Exclusive == \A m, n \in Runners : m # n => locks[m] \intersect locks[n] = {}

\* The tables an order has locked are there, and no run or revert has them.
Served(c) ==
    \A i \in 1..taken[c] :
       OrderTables[i] \in schema /\ \A m \in Runners : OrderTables[i] \notin locks[m]

\* The rows of orders fit the constraints there are.
Fitting ==
    /\ orders # {} => "orders" \in schema
    /\ \A o \in schema : Fit(orders, o)

Scripts(m) == IF upwards[m] THEN Up ELSE Down

\* m's transaction has executed statement i of migration k.
Did(m, k, i) ==
    \E a \in DOMAIN plan[m] :
       /\ plan[m][a] = k
       /\ \/ a < at[m] /\ i \in 1..Length[k]
          \/ a = at[m] /\ i \in 1..(line[m] - 1)

\* It has made, or taken away, object o.
Made(m, o) == \E k \in 1..5 : \E i \in 1..Length[k] : Did(m, k, i) /\ o \in Scripts(m)[k][i].creates
Took(m, o) == \E k \in 1..5 : \E i \in 1..Length[k] : Did(m, k, i) /\ o \in Takes(Scripts(m)[k][i])

Placed(m) ==
    /\ line[m] = 0 => at[m] = 1 /\ locks[m] = {}
    /\ line[m] > 0 =>
          /\ plan[m] # <<>>
          /\ at[m] \in 1..(Len(plan[m]) + 1)
          /\ at[m] <= Len(plan[m]) => line[m] \in 1..Length[plan[m][at[m]]]
          /\ at[m] > Len(plan[m]) => line[m] = 1
          /\ upwards[m] => \A a, b \in DOMAIN plan[m] : a < b => plan[m][a] < plan[m][b]
          /\ ~ upwards[m] => Len(plan[m]) = 1

\* What it sees is the schema without what it took and with what it made; only
\* the first migration's constraint is made and taken in one transaction.
Seen(m) ==
    line[m] > 0 =>
       \A o \in Objects : o \in view[m] <=> \/ o \in schema /\ ~ Took(m, o)
                                            \/ Made(m, o) /\ (upwards[m] => ~ Took(m, o))
Holding(m) ==
    line[m] > 0 => \A o \in Objects : Made(m, o) \/ Took(m, o) => TableOf(o) \in locks[m]

\* It has locked nothing but what its statements touch.
Locked(m) ==
    \A t \in locks[m] :
       \E k \in 1..5 : \E i \in 1..Length[k] : Did(m, k, i) /\ t \in Touches(Scripts(m)[k][i])

\* What it made was not there, and has its table.
Fresh(m) ==
    line[m] > 0 /\ upwards[m] =>
       \A o \in Objects : Made(m, o) /\ o # "uuid_ossp" => o \notin schema /\ TableOf(o) \in view[m]

\* What it dropped was there; it dropped the extension when there were no files.
Dropping(m) ==
    line[m] > 0 /\ ~ upwards[m] =>
       /\ \A k \in 1..5 : \A i \in 1..Length[k] : Did(m, k, i) => Down[k][i].drops \subseteq schema
       /\ Did(m, 1, 9) => "file_records" \notin schema

FittingView(m) == line[m] > 0 => \A o \in view[m] : Fit(orders, o)

\* What a transaction may fail of though no other came in its way.
Reason(m, why) ==
    /\ why = "statement" => ~ upwards[m] /\ plan[m] = <<3>> /\ ~ Fit(orders, "UQ_key")
    /\ why = "deadlock" => IF upwards[m] THEN plan[m][1] # 1 ELSE plan[m] = <<1>>

\* Undisturbed, it goes by the records as they are; its statements fail for one
\* reason only, and orders meet it in a deadlock in some cases only.
Current(m) ==
    ~ disturbed[m] =>
       /\ line[m] > 0 /\ upwards[m] => ToSet(plan[m]) = (1..5) \ ToSet(applied)
       /\ line[m] > 0 /\ ~ upwards[m] => applied # <<>> /\ plan[m] = <<applied[Len(applied)]>>
       /\ failed[m] # "no" /\ InOrder => Reason(m, failed[m])

Runner(m) ==
    /\ Placed(m) /\ Seen(m) /\ Holding(m) /\ Locked(m) /\ Fresh(m) /\ Dropping(m)
    /\ FittingView(m) /\ Current(m)

IInv ==
    /\ Types /\ Exact /\ Exclusive /\ Fitting
    /\ \A c \in Clients : Served(c)
    /\ \A m \in Runners : Runner(m)

-----------------------------------------------------------------------------
(* What the invariant says *)

(* The sets of objects, as the model has them. *)
LEMMA ObjectsIs ==
    Objects = UNION {st.creates : st \in UNION {ToSet(Up[k]) : k \in DOMAIN Up}}
<1> DEFINE R == UNION {st.creates : st \in UNION {ToSet(Up[k]) : k \in DOMAIN Up}}
<1>1. ASSUME NEW o \in Objects
      PROVE  o \in R
  <2>1. PICK k \in 1..5 : o \in Makes[k]  BY DEF Objects
  <2>2. PICK i \in 1..Length[k] : o \in Up[k][i].creates  BY <2>1, UpMakes
  <2>3. Up[k][i] \in ToSet(Up[k])  BY <2>2, ScriptLengths DEF ToSet
  <2>4. Up[k][i] \in UNION {ToSet(Up[j]) : j \in DOMAIN Up}  BY <2>3, ScriptLengths
  <2> QED  BY <2>2, <2>4
<1>2. ASSUME NEW o \in R
      PROVE  o \in Objects
  <2>1. PICK st \in UNION {ToSet(Up[k]) : k \in DOMAIN Up} : o \in st.creates  OBVIOUS
  <2>2. PICK k \in 1..5 : st \in ToSet(Up[k])  BY <2>1, ScriptLengths
  <2>3. PICK i \in 1..Length[k] : st = Up[k][i]  BY <2>2, ScriptLengths DEF ToSet
  <2>4. o \in Makes[k]  BY <2>1, <2>3, UpMakes
  <2> QED  BY <2>4 DEF Objects
<1> QED  BY <1>1, <1>2

(* What the first n make, object by object: all they create but the constraint, which
   the third drops. *)
LEMMA BuiltIs ==
    ASSUME NEW n \in 0..5
    PROVE  Built(n) = {o \in Objects : (\E k \in 1..n : o \in Makes[k]) /\ (o = "UQ_key" => n < 3)}
<1> DEFINE sts == UNION {ToSet(Up[k]) : k \in 1..n}
<1>0. \A k \in 1..n : k \in 1..5  OBVIOUS
<1>1. ASSUME NEW o
      PROVE  o \in UNION {st.creates : st \in sts} <=> \E k \in 1..n : o \in Makes[k]
  <2>1. ASSUME NEW k \in 1..n, o \in Makes[k]
        PROVE  o \in UNION {st.creates : st \in sts}
    <3>1. PICK i \in 1..Length[k] : o \in Up[k][i].creates  BY <2>1, <1>0, UpMakes
    <3>2. Up[k][i] \in ToSet(Up[k])  BY <3>1, <1>0, ScriptLengths DEF ToSet
    <3>3. Up[k][i] \in sts  BY <3>2
    <3> QED  BY <3>1, <3>3
  <2>2. ASSUME NEW st \in sts, o \in st.creates
        PROVE  \E k \in 1..n : o \in Makes[k]
    <3>1. PICK k \in 1..n : st \in ToSet(Up[k])  OBVIOUS
    <3>2. PICK i \in 1..Length[k] : st = Up[k][i]  BY <3>1, <1>0, ScriptLengths DEF ToSet
    <3>3. o \in Makes[k]  BY <2>2, <3>2, <1>0, UpMakes
    <3> QED  BY <3>3
  <2> QED  BY <2>1, <2>2
<1>2. ASSUME NEW o
      PROVE  o \in UNION {st.drops : st \in sts} <=> n >= 3 /\ o = "UQ_key"
  <2>1. ASSUME n >= 3, o = "UQ_key"
        PROVE  o \in UNION {st.drops : st \in sts}
    <3>1. 3 \in 1..n /\ 1 \in DOMAIN Up[3]  BY <2>1, ScriptLengths DEF Length
    <3>2. Up[3][1] \in ToSet(Up[3])  BY <3>1 DEF ToSet
    <3>3. Up[3][1] \in sts  BY <3>1, <3>2
    <3>4. "UQ_key" \in Up[3][1].drops  BY Script3 DEF Drop
    <3> QED  BY <2>1, <3>3, <3>4
  <2>2. ASSUME NEW st \in sts, o \in st.drops
        PROVE  n >= 3 /\ o = "UQ_key"
    <3>1. PICK k \in 1..n : st \in ToSet(Up[k])  OBVIOUS
    <3>2. PICK i \in 1..Length[k] : st = Up[k][i]  BY <3>1, <1>0, ScriptLengths DEF ToSet
    <3>3. k = 3 /\ o = "UQ_key"  BY <2>2, <3>2, <1>0, UpDrops
    <3> QED  BY <3>1, <3>3
  <2> QED  BY <2>1, <2>2
<1>3. \A o : (\E k \in 1..n : o \in Makes[k]) => o \in Objects  BY <1>0 DEF Objects
<1> DEFINE C == UNION {st.creates : st \in sts}
           D == UNION {st.drops : st \in sts}
<1>5. \A o : o \in C <=> \E k \in 1..n : o \in Makes[k]  BY <1>1
<1>6. \A o : o \in D <=> n >= 3 /\ o = "UQ_key"  BY <1>2
<1>4. Built(n) = C \ D  BY DEF Built
<1> HIDE DEF C, D
<1> QED  BY <1>3, <1>4, <1>5, <1>6

(* In order, those recorded are the first ones, all since the first. *)
LEMMA InOrderSets ==
    ASSUME NEW s \in Seq(1..5), s = [k \in DOMAIN s |-> k]
    PROVE  /\ Len(s) \in 0..5
           /\ ToSet(s) = 1..Len(s)
           /\ Live(s) = 1..Len(s)
<1>1. DOMAIN s = 1..Len(s) /\ Len(s) \in Nat /\ \A k \in 1..Len(s) : s[k] = k  OBVIOUS
<1>2. Len(s) <= 5
  <2>1. CASE Len(s) > 5
    <3>1. 6 \in 1..Len(s)  BY <2>1, <1>1
    <3>2. s[6] \in 1..5  BY <3>1, <1>1
    <3> QED  BY <3>1, <3>2, <1>1
  <2> QED  BY <2>1, <1>1
<1>3. ToSet(s) = 1..Len(s)  BY <1>1 DEF ToSet
<1>4. ASSUME NEW e \in Live(s)
      PROVE  e \in 1..Len(s)
  BY <1>1 DEF Live
<1>5. ASSUME NEW e \in 1..Len(s)
      PROVE  e \in Live(s)
  <2>1. 1 \in DOMAIN s /\ e \in DOMAIN s /\ 1 <= e /\ s[1] = 1 /\ s[e] = e  BY <1>1
  <2> QED  BY <2>1 DEF Live
<1>6. Live(s) = 1..Len(s)  BY <1>4, <1>5
<1> QED  BY <1>1, <1>2, <1>3, <1>6

(* What is recorded since the first one is recorded, the first one with it. *)
LEMMA LiveIsRecorded ==
    ASSUME NEW s \in Seq(1..5)
    PROVE  /\ Live(s) \subseteq ToSet(s) /\ ToSet(s) \subseteq 1..5
           /\ Live(s) # {} => 1 \in Live(s)
           /\ 1 \in ToSet(s) => 1 \in Live(s)
<1>1. DOMAIN s \subseteq Nat  OBVIOUS
<1>2. \A j \in DOMAIN s : s[j] \in 1..5  OBVIOUS
<1> QED  BY <1>1, <1>2 DEF Live, ToSet

(* Of an object it is known which migration to ask about. *)
LEMMA StandsBy ==
    ASSUME NEW A \in SUBSET (1..5), NEW L, NEW k \in 1..5, NEW o \in Makes[k]
    PROVE  Stands(o, A, L) <=> /\ k \in A
                               /\ TableOf(o) \in {"orders", "users"} => k \in L
                               /\ o = "UQ_key" => 3 \notin L
BY MadeOnce DEF Stands

(* In order, what stands is what the first n make. *)
LEMMA StandsInOrder ==
    ASSUME NEW n \in 0..5, NEW o
    PROVE  Stands(o, 1..n, 1..n) <=> (\E k \in 1..n : o \in Makes[k]) /\ (o = "UQ_key" => n < 3)
BY DEF Stands

(* Names that are looked at below. *)
LEMMA Names ==
    /\ {"orders", "UQ_key", "users", "products", "uuid_ossp"} \subseteq Makes[1]
    /\ "idx_status" \in Makes[2] /\ "idx_user_key" \in Makes[3] /\ "role" \in Makes[4]
    /\ "users_role" \in Makes[4] /\ "file_records" \in Makes[5] /\ "avatar_id" \in Makes[5]
    /\ TableOf("orders") = "orders" /\ TableOf("UQ_key") = "orders"
    /\ TableOf("idx_status") = "orders" /\ TableOf("idx_user_key") = "orders"
    /\ TableOf("role") = "users" /\ TableOf("avatar_id") = "users" /\ TableOf("users") = "users"
    /\ TableOf("products") = "products" /\ TableOf("file_records") = "file_records"
    /\ TableOf("uuid_ossp") = "uuid_ossp" /\ TableOf("users_role") = "users_role"
<1>1. /\ {"orders", "users", "products", "file_records"} \subseteq DOMAIN OwnedBy
      /\ {"UQ_key", "idx_status", "idx_user_key"} \subseteq OwnedBy["orders"]
      /\ {"role", "avatar_id"} \subseteq OwnedBy["users"]
  BY DEF OwnedBy
<1>2. \A t \in DOMAIN OwnedBy : "uuid_ossp" \notin OwnedBy[t] /\ "users_role" \notin OwnedBy[t]
  BY DEF OwnedBy
<1>3. TableOf("uuid_ossp") = "uuid_ossp" /\ TableOf("users_role") = "users_role"
  BY <1>2 DEF TableOf
<1> QED  BY <1>1, <1>3, TableOfOwned DEF Makes

(* What a migration makes is an object. *)
LEMMA NamesAreObjects == \A k \in 1..5 : Makes[k] \subseteq Objects
BY DEF Objects

(* The invariant has the types, *)
LEMMA TypeOKHolds == IInv => TypeOK
<1> SUFFICES ASSUME IInv
             PROVE  TypeOK
  OBVIOUS
<1>1. applied \in Seq(DOMAIN Up)  BY ScriptLengths DEF IInv, Types
<1>2. \A m \in Runners : line[m] \in Nat /\ (line[m] = 0 => locks[m] = {})
  BY DEF IInv, Types, Runner, Placed
<1>3. schema \subseteq Objects /\ orders \subseteq [userId : Users, key : Keys]
  BY DEF IInv, Types
<1>4. taken \in [Clients -> 0..Len(OrderTables)]  BY DEF IInv, Types, OrderTables
<1> QED  BY <1>1, <1>2, <1>3, <1>4, ObjectsIs DEF TypeOK

(* a constraint with the orders: the index once the third is recorded since the first,
   the table's own before, *)
LEMMA KeysAlwaysGuardedHolds == IInv => KeysAlwaysGuarded
<1> SUFFICES ASSUME IInv, "orders" \in schema
             PROVE  "UQ_key" \in schema \/ "idx_user_key" \in schema
  BY DEF KeysAlwaysGuarded
<1> DEFINE A == ToSet(applied)
           L == Live(applied)
<1>1. /\ \A o \in Objects : o \in schema <=> Stands(o, A, L)
      /\ applied \in Seq(1..5)
  BY DEF IInv, Types, Exact
<1>2. L \subseteq A /\ A \subseteq 1..5 /\ (1 \in A => 1 \in L)  BY <1>1, LiveIsRecorded
<1> HIDE DEF A, L
<1>3. {"orders", "UQ_key", "idx_user_key"} \subseteq Objects  BY Names, NamesAreObjects
<1>4. Stands("orders", A, L)  BY <1>1, <1>3
<1>5. 1 \in A  BY <1>2, <1>4, StandsBy, Names
<1>6. CASE 3 \in L
  <2>1. Stands("idx_user_key", A, L)
    BY <1>2, <1>6, StandsBy, Names
  <2> QED  BY <2>1, <1>1, <1>3
<1>7. CASE 3 \notin L
  <2>1. Stands("UQ_key", A, L)  BY <1>2, <1>5, <1>7, StandsBy, Names
  <2> QED  BY <2>1, <1>1, <1>3
<1> QED  BY <1>6, <1>7

(* a schema that follows from the records, *)
LEMMA SchemaMatchesHistoryHolds == IInv => SchemaMatchesHistory
<1> SUFFICES ASSUME IInv
             PROVE  SchemaMatchesHistory
  OBVIOUS
<1>1. /\ \A o \in Objects : o \in schema <=> Stands(o, ToSet(applied), Live(applied))
      /\ schema \subseteq Objects /\ applied \in Seq(1..5) /\ Once(applied)
  BY DEF IInv, Types, Exact
<1>2. ASSUME InOrder
      PROVE  schema = Built(Len(applied))
  <2> DEFINE n == Len(applied)
  <2>1. n \in 0..5 /\ ToSet(applied) = 1..n /\ Live(applied) = 1..n
    BY <1>1, <1>2, InOrderSets DEF InOrder
  <2> HIDE DEF n
  <2>2. \A o \in Objects : o \in schema <=>
           (\E k \in 1..n : o \in Makes[k]) /\ (o = "UQ_key" => n < 3)
    BY <1>1, <2>1, StandsInOrder
  <2>3. schema = Built(n)  BY <1>1, <2>1, <2>2, BuiltIs
  <2> QED  BY <2>3 DEF n
<1> QED  BY <1>1, <1>2 DEF SchemaMatchesHistory, Once

(* and a reason for every failure. *)
LEMMA FailsOnlyForAReasonHolds == IInv => FailsOnlyForAReason
BY DEF IInv, Runner, Current, Reason, FailsOnlyForAReason

-----------------------------------------------------------------------------
(* What leaves the invariant alone *)

(* What a transaction did is a matter of where it is. *)
LEMMA DidKept ==
    ASSUME NEW n, plan'[n] = plan[n], upwards'[n] = upwards[n], at'[n] = at[n],
           line'[n] = line[n]
    PROVE  /\ \A k, i : Did(n, k, i)' <=> Did(n, k, i)
           /\ \A o : Made(n, o)' <=> Made(n, o)
           /\ \A o : Took(n, o)' <=> Took(n, o)
<1>1. \A k, i : Did(n, k, i)' <=> Did(n, k, i)  BY DEF Did
<1>2. Scripts(n)' = Scripts(n)  BY DEF Scripts
<1> QED  BY <1>1, <1>2 DEF Made, Took

(* Nor do its locks come from anywhere else. *)
LEMMA LockedKept ==
    ASSUME NEW n, plan'[n] = plan[n], upwards'[n] = upwards[n], at'[n] = at[n],
           line'[n] = line[n], locks'[n] = locks[n], Locked(n)
    PROVE  Locked(n)'
<1>1. \A k, i : Did(n, k, i)' <=> Did(n, k, i)  BY DidKept
<1>2. Scripts(n)' = Scripts(n)  BY DEF Scripts
<1> QED  BY <1>1, <1>2 DEF Locked

(* A runner that nobody touches, on a database that nobody touches, stays as it is. *)
LEMMA RunnerKept ==
    ASSUME NEW n, plan'[n] = plan[n], upwards'[n] = upwards[n], at'[n] = at[n],
           line'[n] = line[n], view'[n] = view[n], locks'[n] = locks[n],
           failed'[n] = failed[n], disturbed'[n] = disturbed[n],
           UNCHANGED database, Runner(n)
    PROVE  Runner(n)'
<1>1. /\ \A k, i : Did(n, k, i)' <=> Did(n, k, i)
      /\ \A o : Made(n, o)' <=> Made(n, o)
      /\ \A o : Took(n, o)' <=> Took(n, o)
  BY DidKept
<1>2. schema' = schema /\ applied' = applied /\ orders' = orders  BY DEF database
<1>3. Placed(n)'  BY DEF Placed, Runner
<1>4. Seen(n)'  BY <1>1, <1>2 DEF Seen, Runner
<1>5. Holding(n)'  BY <1>1 DEF Holding, Runner
<1>6. Fresh(n)'  BY <1>1, <1>2 DEF Fresh, Runner
<1>7. Dropping(n)'  BY <1>1, <1>2 DEF Dropping, Runner
<1>8. FittingView(n)'  BY <1>2 DEF FittingView, Runner
<1>9. Current(n)'  BY <1>2 DEF Current, Reason, InOrder, Runner
<1>10. Locked(n)'  BY <1>1, LockedKept DEF Runner
<1> QED  BY <1>3, <1>4, <1>5, <1>6, <1>7, <1>8, <1>9, <1>10 DEF Runner

(* A stuttering step changes nothing. *)
LEMMA StutterPreserves == IInv /\ UNCHANGED vars => IInv'
<1> SUFFICES ASSUME IInv, UNCHANGED vars
             PROVE  IInv'
  OBVIOUS
<1>1. /\ UNCHANGED <<database, schema, applied, orders, plan, upwards, at, line, view, locks>>
      /\ UNCHANGED <<failed, taken, disturbed>>
  BY DEF vars, database
<1>2. ASSUME NEW n \in Runners
      PROVE  Runner(n)'
  BY <1>1, RunnerKept DEF IInv
<1>3. (Types /\ Exact /\ Exclusive /\ Fitting)'
  BY <1>1 DEF IInv, Types, Exact, Exclusive, Fitting
<1>4. ASSUME NEW c \in Clients
      PROVE  Served(c)'
  BY <1>1 DEF IInv, Served
<1> QED  BY <1>2, <1>3, <1>4 DEF IInv

(* A runner outside a transaction has nothing to keep to but why it failed last. *)
LEMMA RunnerAtRest ==
    ASSUME NEW n, line'[n] = 0, at'[n] = 1, locks'[n] = {}, Current(n)'
    PROVE  Runner(n)'
BY DEF Runner, Placed, Seen, Holding, Locked, Fresh, Dropping, FittingView

(* On an empty database nobody has done anything. *)
LEMMA InitEstablishes == Init => IInv
<1> SUFFICES ASSUME Init
             PROVE  IInv
  OBVIOUS
<1>1. Types  BY DEF Init, Types
<1>2. Exact  BY DEF Init, Exact, Stands, ToSet, Live, Once
<1>3. Exclusive /\ Fitting  BY DEF Init, Exclusive, Fitting
<1>4. ASSUME NEW m \in Runners
      PROVE  Runner(m)
  <2>1. line[m] = 0 /\ at[m] = 1 /\ locks[m] = {} /\ failed[m] = "no"  BY DEF Init
  <2> QED
    BY <2>1 DEF Runner, Placed, Seen, Holding, Locked, Fresh, Dropping, FittingView, Current
<1>5. ASSUME NEW c \in Clients
      PROVE  Served(c)
  <2>1. taken[c] = 0  BY DEF Init
  <2> QED  BY <2>1 DEF Served
<1> QED  BY <1>1, <1>2, <1>3, <1>4, <1>5 DEF IInv

(* The tables of an order are tables. *)
LEMMA OrderTablesAre ==
    /\ OrderTables[1] = "products" /\ OrderTables[2] = "orders" /\ OrderTables[3] = "users"
    /\ OrderTables[4] = "order_items" /\ Len(OrderTables) = 4
    /\ \A i \in 1..4 : TableOf(OrderTables[i]) = OrderTables[i]
<1>1. /\ OrderTables[1] = "products" /\ OrderTables[2] = "orders" /\ OrderTables[3] = "users"
      /\ OrderTables[4] = "order_items" /\ Len(OrderTables) = 4
  BY DEF OrderTables
<1>2. \A i \in 1..4 : OrderTables[i] \in DOMAIN OwnedBy  BY <1>1, TakesOf
<1> QED  BY <1>1, <1>2, TableOfOwned

(* An order that takes a table, or gives all back, is nothing to the runners. *)
LEMMA OrderMovesPreserves ==
    ASSUME IInv, NEW c \in Clients, OrderLocks(c) \/ OrderRolledBack(c)
    PROVE  IInv'
<1>1. /\ UNCHANGED <<schema, applied, orders, plan, upwards, at, line, view, locks>>
      /\ UNCHANGED <<failed, disturbed>> /\ UNCHANGED database
  BY DEF OrderLocks, OrderRolledBack, database
<1>2. taken \in [Clients -> 0..4]  BY DEF IInv, Types
<1>3. /\ taken' \in [Clients -> 0..4]
      /\ \A d \in Clients : d # c => taken'[d] = taken[d]
      /\ \/ taken'[c] = 0
         \/ /\ taken'[c] = taken[c] + 1
            /\ OrderTables[taken[c] + 1] \in schema
            /\ \A m \in Runners : OrderTables[taken[c] + 1] \notin locks[m]
  <2>1. CASE OrderLocks(c)
    <3>1. taken[c] < 4 /\ taken' = [taken EXCEPT ![c] = taken[c] + 1]
      BY <2>1, OrderTablesAre DEF OrderLocks
    <3>2. taken[c] + 1 \in 0..4  BY <1>2, <3>1
    <3> QED  BY <2>1, <1>2, <3>1, <3>2 DEF OrderLocks
  <2>2. CASE OrderRolledBack(c)
    BY <2>2, <1>2 DEF OrderRolledBack
  <2> QED  BY <2>1, <2>2
<1>4. ASSUME NEW n \in Runners
      PROVE  Runner(n)'
  BY <1>1, RunnerKept DEF IInv
<1>5. (Types /\ Exact /\ Exclusive /\ Fitting)'
  BY <1>1, <1>3 DEF IInv, Types, Exact, Exclusive, Fitting
<1>6. ASSUME NEW d \in Clients
      PROVE  Served(d)'
  <2>1. Served(d) /\ taken[d] \in 0..4  BY <1>2 DEF IInv
  <2>2. CASE d # c  BY <2>1, <2>2, <1>1, <1>3 DEF Served
  <2>3. CASE d = c /\ taken'[c] = 0  BY <2>3 DEF Served
  <2>4. CASE /\ d = c /\ taken'[c] = taken[c] + 1
             /\ OrderTables[taken[c] + 1] \in schema
             /\ \A m \in Runners : OrderTables[taken[c] + 1] \notin locks[m]
    <3>1. \A i \in 1..(taken[c] + 1) : i \in 1..taken[c] \/ i = taken[c] + 1  BY <2>1, <2>4
    <3> QED  BY <3>1, <2>1, <2>4, <1>1 DEF Served
  <2> QED  BY <2>2, <2>3, <2>4, <1>3
<1> QED  BY <1>4, <1>5, <1>6 DEF IInv

(* An order is committed: it fits the constraints of the schema, and no transaction
   that changes them has the table, which the order has. *)
LEMMA OrderCommitsPreserves ==
    ASSUME IInv, NEW c \in Clients, NEW u \in Users, NEW k \in Keys,
           OrderCommits(c, [userId |-> u, key |-> k])
    PROVE  IInv'
<1> DEFINE r == [userId |-> u, key |-> k]
<1>0. /\ taken[c] = 4 /\ UNCHANGED <<schema, applied, plan, upwards, at, line, view, locks>>
      /\ UNCHANGED <<failed, disturbed>>
      /\ taken' = [taken EXCEPT ![c] = 0]
      /\ orders' = orders \union {r}
      /\ \A o \in schema : Fit(orders', o)
  BY OrderTablesAre DEF OrderCommits
<1>1. /\ UNCHANGED <<schema, applied, plan, upwards, at, line, view, locks, failed, disturbed>>
      /\ orders' = orders \union {r}
      /\ "orders" \in schema
      /\ \A m \in Runners : "orders" \notin locks[m]
      /\ \A o \in schema : Fit(orders', o)
  <2>1. 2 \in 1..taken[c] /\ OrderTables[2] = "orders"  BY <1>0, OrderTablesAre
  <2>2. "orders" \in schema /\ \A m \in Runners : "orders" \notin locks[m]
    BY <2>1 DEF IInv, Served
  <2> QED  BY <1>0, <2>2
<1>2. Types'  BY <1>0 DEF IInv, Types
<1>3. (Exact /\ Exclusive)'  BY <1>1 DEF IInv, Exact, Exclusive
<1>4. Fitting'  BY <1>1 DEF Fitting
<1>6. ASSUME NEW d \in Clients
      PROVE  Served(d)'
  <2>1. taken'[d] = 0 \/ taken'[d] = taken[d]  BY <1>0 DEF IInv, Types
  <2> QED  BY <2>1, <1>0 DEF IInv, Served
<1>5. ASSUME NEW n \in Runners
      PROVE  Runner(n)'
  <2>1. /\ \A j, i : Did(n, j, i)' <=> Did(n, j, i)
        /\ \A o : Made(n, o)' <=> Made(n, o)
        /\ \A o : Took(n, o)' <=> Took(n, o)
    BY <1>1, DidKept
  <2>2. Runner(n)  BY DEF IInv
  <2>3. Placed(n)'  BY <1>1, <2>2 DEF Placed, Runner
  <2>4. Seen(n)'  BY <1>1, <2>1, <2>2 DEF Seen, Runner
  <2>5. Holding(n)' /\ Locked(n)'  BY <1>1, <2>1, <2>2, LockedKept DEF Holding, Runner
  <2>6. Fresh(n)'  BY <1>1, <2>1, <2>2 DEF Fresh, Runner
  <2>7. Dropping(n)'  BY <1>1, <2>1, <2>2 DEF Dropping, Runner
  <2>8. FittingView(n)'
    <3>1. SUFFICES ASSUME line[n] > 0, NEW o \in view[n]
                   PROVE  Fit(orders', o)
      BY <1>1 DEF FittingView
    <3>2. CASE o \in schema  BY <3>2, <1>1
    <3>3. CASE o \notin schema
      <4>1. o \in Objects  BY DEF IInv, Types
      <4>2. Made(n, o)  BY <3>1, <3>3, <4>1, <2>2 DEF Seen, Runner
      <4>3. TableOf(o) # "orders"  BY <3>1, <4>1, <4>2, <2>2, <1>1 DEF Holding, Runner
      <4>4. o # "UQ_key" /\ o # "idx_user_key"  BY <4>3, Names
      <4> QED  BY <4>4 DEF Fit
    <3> QED  BY <3>2, <3>3
  <2>9. Current(n)'
    <3>1. ~ Fit(orders, "UQ_key") => ~ Fit(orders', "UQ_key")  BY <1>1 DEF Fit
    <3> QED  BY <3>1, <1>1, <2>2 DEF Current, Reason, InOrder, Runner
  <2> QED  BY <2>3, <2>4, <2>5, <2>6, <2>7, <2>8, <2>9 DEF Runner
<1> QED  BY <1>2, <1>3, <1>4, <1>5, <1>6 DEF IInv

-----------------------------------------------------------------------------
(* A transaction starts and ends *)

(* A transaction starts with a view of the committed schema, and nothing done. *)
LEMMA StartsPreserves ==
    ASSUME IInv, NEW m \in Runners, NEW up \in BOOLEAN, NEW todo \in Seq(1..5),
           line[m] = 0, Starts(m, todo, up),
           up => /\ ToSet(todo) = (1..5) \ ToSet(applied)
                 /\ \A a, b \in DOMAIN todo : a < b => todo[a] < todo[b],
           ~ up => applied # <<>> /\ todo = <<applied[Len(applied)]>>
    PROVE  IInv'
<1>1. /\ todo # <<>>
      /\ UNCHANGED <<schema, applied, orders, at, locks, taken>> /\ UNCHANGED database
      /\ plan' = [plan EXCEPT ![m] = todo]
      /\ upwards' = [upwards EXCEPT ![m] = up]
      /\ line' = [line EXCEPT ![m] = 1]
      /\ view' = [view EXCEPT ![m] = schema]
      /\ failed' = [failed EXCEPT ![m] = "no"]
      /\ disturbed' = [disturbed EXCEPT ![m] = FALSE]
  BY DEF Starts, database
<1>2. Types'  BY <1>1 DEF IInv, Types
<1>3. (Exact /\ Exclusive /\ Fitting)'  BY <1>1 DEF IInv, Exact, Exclusive, Fitting
<1>4. /\ plan'[m] = todo /\ upwards'[m] = up /\ line'[m] = 1 /\ view'[m] = schema
      /\ failed'[m] = "no" /\ disturbed'[m] = FALSE /\ at'[m] = 1 /\ locks'[m] = {}
  BY <1>1 DEF IInv, Types, Runner, Placed
<1>5. ASSUME NEW n \in Runners, n # m
      PROVE  Runner(n)'
  <2>1. /\ plan'[n] = plan[n] /\ upwards'[n] = upwards[n] /\ at'[n] = at[n]
        /\ line'[n] = line[n] /\ view'[n] = view[n] /\ locks'[n] = locks[n]
        /\ failed'[n] = failed[n] /\ disturbed'[n] = disturbed[n]
    BY <1>1, <1>5 DEF IInv, Types
  <2> QED  BY <2>1, <1>1, RunnerKept DEF IInv
<1>6. Runner(m)'
  <2>1. \A k, i : ~ Did(m, k, i)'  BY <1>4 DEF Did
  <2>2. \A o : ~ Made(m, o)' /\ ~ Took(m, o)'  BY <2>1 DEF Made, Took
  <2>3. Placed(m)'
    <3>1. 1 \in DOMAIN todo /\ todo[1] \in 1..5 /\ Len(todo) \in Nat /\ Len(todo) >= 1  BY <1>1
    <3>2. 1 \in 1..Length[todo[1]]  BY <3>1 DEF Length
    <3>3. 1 \in 1..(Len(todo) + 1)  BY <3>1
    <3>4. ~ up => Len(todo) = 1  OBVIOUS
    <3> QED  BY <1>1, <1>4, <3>1, <3>2, <3>3, <3>4 DEF Placed
  <2>4. (Seen(m) /\ Holding(m) /\ Locked(m) /\ Fresh(m) /\ Dropping(m))'
    BY <1>1, <1>4, <2>1, <2>2 DEF Seen, Holding, Locked, Fresh, Dropping
  <2>5. FittingView(m)'  BY <1>1, <1>4 DEF FittingView, IInv, Fitting
  <2>6. Current(m)'  BY <1>1, <1>4 DEF Current
  <2> QED  BY <2>3, <2>4, <2>5, <2>6 DEF Runner
<1>7. ASSUME NEW c \in Clients
      PROVE  Served(c)'
  BY <1>1 DEF IInv, Served
<1> QED  BY <1>2, <1>3, <1>5, <1>6, <1>7 DEF IInv

(* A run is a start: it plans, in order, what is not recorded. *)
LEMMA RunPreserves ==
    ASSUME IInv, NEW m \in Runners, Run(m)
    PROVE  IInv'
<1> DEFINE S == DOMAIN Up \ ToSet(applied)
<1>1. S = (1..5) \ ToSet(applied) /\ S \subseteq Int  BY ScriptLengths
<1>2. line[m] = 0 /\ \E todo \in Ascending(S) : Starts(m, todo, TRUE)  BY DEF Run
<1>3. PICK todo \in Ascending(S) : Starts(m, todo, TRUE)  BY <1>2
<1>4. IsFiniteSet(S)  BY <1>1, FiniteParts
<1> HIDE DEF S
<1>5. /\ todo \in Seq(S) /\ ToSet(todo) = S
      /\ \A a, b \in DOMAIN todo : a < b => todo[a] < todo[b]
  BY <1>1, <1>3, <1>4, AscendingLists
<1>6. todo \in Seq(1..5)  BY <1>1, <1>5
<1> QED  BY <1>1, <1>2, <1>3, <1>5, <1>6, StartsPreserves

(* So is a revert: of the last one recorded. *)
LEMMA RevertPreserves ==
    ASSUME IInv, NEW m \in Runners, Revert(m)
    PROVE  IInv'
<1>1. line[m] = 0 /\ applied # <<>> /\ Starts(m, <<Last(applied)>>, FALSE)  BY DEF Revert
<1>2. applied \in Seq(1..5)  BY DEF IInv, Types
<1>3. Last(applied) = applied[Len(applied)] /\ applied[Len(applied)] \in 1..5
  BY <1>1, <1>2 DEF Last
<1>4. <<Last(applied)>> \in Seq(1..5)  BY <1>3
<1> QED  BY <1>1, <1>3, <1>4, StartsPreserves

(* A transaction ends without a trace.  When it has failed and nobody disturbed it,
   there was a reason. *)
LEMMA RolledBackPreserves ==
    ASSUME IInv, NEW m \in Runners, NEW why \in {"no", "statement", "deadlock"},
           RolledBack(m, why),
           NEW b \in BOOLEAN, disturbed' = [disturbed EXCEPT ![m] = b],
           ~ b /\ why # "no" /\ InOrder => Reason(m, why)
    PROVE  IInv'
<1>1. /\ UNCHANGED <<schema, applied, orders, plan, upwards, taken>> /\ UNCHANGED database
      /\ at' = [at EXCEPT ![m] = 1]
      /\ line' = [line EXCEPT ![m] = 0]
      /\ locks' = [locks EXCEPT ![m] = {}]
      /\ view' = [view EXCEPT ![m] = {}]
      /\ failed' = [failed EXCEPT ![m] = why]
  BY DEF RolledBack, Ends, database
<1>2. Types'  BY <1>1 DEF IInv, Types
<1>3. (Exact /\ Fitting)'  BY <1>1 DEF IInv, Exact, Fitting
<1>4. Exclusive'  BY <1>1 DEF IInv, Exclusive, Types
<1>5. ASSUME NEW n \in Runners, n # m
      PROVE  Runner(n)'
  <2>1. /\ plan'[n] = plan[n] /\ upwards'[n] = upwards[n] /\ at'[n] = at[n]
        /\ line'[n] = line[n] /\ view'[n] = view[n] /\ locks'[n] = locks[n]
        /\ failed'[n] = failed[n] /\ disturbed'[n] = disturbed[n]
    BY <1>1, <1>5 DEF IInv, Types
  <2> QED  BY <2>1, <1>1, RunnerKept DEF IInv
<1>6. Runner(m)'
  <2>1. /\ line'[m] = 0 /\ at'[m] = 1 /\ locks'[m] = {} /\ failed'[m] = why
        /\ disturbed'[m] = b
    BY <1>1 DEF IInv, Types
  <2>2. Reason(m, why)' <=> Reason(m, why)  BY <1>1 DEF Reason
  <2>3. InOrder' <=> InOrder  BY <1>1 DEF InOrder
  <2>4. Current(m)'
    <3>1. ~ b /\ why # "no" /\ InOrder => Reason(m, why)  OBVIOUS
    <3>2. Reason(m, failed[m])' <=> Reason(m, why)  BY <1>1, <2>1 DEF Reason
    <3> QED  BY <2>1, <2>3, <3>1, <3>2 DEF Current
  <2> QED  BY <2>1, <2>4, RunnerAtRest
<1>7. ASSUME NEW c \in Clients
      PROVE  Served(c)'
  <2>1. \A n \in Runners : locks'[n] \subseteq locks[n]  BY <1>1 DEF IInv, Types
  <2> QED  BY <1>1, <2>1 DEF IInv, Served
<1> QED  BY <1>2, <1>3, <1>4, <1>5, <1>6, <1>7 DEF IInv

(* To be killed is no failure. *)
LEMMA KilledPreserves ==
    ASSUME IInv, NEW m \in Runners, Killed(m)
    PROVE  IInv'
<1>1. RolledBack(m, "no") /\ disturbed' = disturbed  BY DEF Killed
<1>2. disturbed' = [disturbed EXCEPT ![m] = disturbed[m]] /\ disturbed[m] \in BOOLEAN
  BY <1>1 DEF IInv, Types
<1> QED  BY <1>1, <1>2, RolledBackPreserves

-----------------------------------------------------------------------------
(* A statement is executed *)

(* Where m is, in numbers. *)
LEMMA Position ==
    ASSUME IInv, NEW m \in Runners, AtStatement(m)
    PROVE  /\ line[m] > 0 /\ at[m] \in DOMAIN plan[m] /\ at[m] \in Nat
           /\ plan[m] \in Seq(1..5)
           /\ plan[m][at[m]] \in 1..5
           /\ line[m] \in 1..Length[plan[m][at[m]]]
           /\ Script(m) = Scripts(m)[plan[m][at[m]]]
           /\ Statement(m) = Scripts(m)[plan[m][at[m]]][line[m]]
           /\ Len(Script(m)) = Length[plan[m][at[m]]]
<1>1. /\ line[m] > 0 /\ at[m] <= Len(plan[m]) /\ plan[m] \in Seq(1..5) /\ at[m] \in Nat
      /\ at[m] \in 1..(Len(plan[m]) + 1)
      /\ line[m] \in 1..Length[plan[m][at[m]]]
  BY DEF AtStatement, IInv, Types, Runner, Placed
<1>2. at[m] \in DOMAIN plan[m] /\ plan[m][at[m]] \in 1..5  BY <1>1
<1>3. Script(m) = Scripts(m)[plan[m][at[m]]]  BY DEF Script, Scripts
<1>4. Len(Script(m)) = Length[plan[m][at[m]]]  BY <1>2, <1>3, ScriptLengths DEF Scripts
<1> QED  BY <1>1, <1>2, <1>3, <1>4 DEF Statement

(* A migration has one to nine statements. *)
LEMMA LengthIs == \A k \in 1..5 : Length[k] \in 1..9
BY DEF Length

(* Onward, one more statement is done. *)
LEMMA AdvanceDoes ==
    ASSUME IInv, NEW m \in Runners, AtStatement(m), Advance(m), UNCHANGED <<plan, upwards>>
    PROVE  /\ at' \in [Runners -> Nat] /\ line' \in [Runners -> Nat]
           /\ \A n \in Runners : n # m => at'[n] = at[n] /\ line'[n] = line[n]
           /\ line'[m] > 0
           /\ Placed(m)'
           /\ \A k \in 1..5 : \A i \in 1..Length[k] :
                 Did(m, k, i)' <=> Did(m, k, i) \/ (k = plan[m][at[m]] /\ i = line[m])
<1> DEFINE a == at[m]
           l == line[m]
           k0 == plan[m][a]
<1>1. /\ l > 0 /\ a \in DOMAIN plan[m] /\ a \in Nat /\ plan[m] \in Seq(1..5)
      /\ k0 \in 1..5 /\ l \in 1..Length[k0] /\ Len(Script(m)) = Length[k0]
      /\ Length[k0] \in 1..9
  BY Position, LengthIs
<1>2. at \in [Runners -> Nat] /\ line \in [Runners -> Nat]  BY DEF IInv, Types
<1>3. /\ upwards[m] => \A x, y \in DOMAIN plan[m] : x < y => plan[m][x] < plan[m][y]
      /\ ~ upwards[m] => Len(plan[m]) = 1
  BY <1>1 DEF IInv, Runner, Placed
<1>4. /\ at' \in [Runners -> Nat] /\ line' \in [Runners -> Nat]
      /\ \A n \in Runners : n # m => at'[n] = at[n] /\ line'[n] = line[n]
  BY <1>1, <1>2 DEF Advance
<1>5. \/ l < Length[k0] /\ line'[m] = l + 1 /\ at'[m] = a
      \/ l = Length[k0] /\ line'[m] = 1 /\ at'[m] = a + 1
  BY <1>1, <1>2 DEF Advance
<1>6. line'[m] > 0  BY <1>1, <1>5
<1>7. Placed(m)'
  <2>1. DOMAIN plan[m] = 1..Len(plan[m]) /\ Len(plan[m]) \in Nat  BY <1>1
  <2>2. CASE l < Length[k0] /\ line'[m] = l + 1 /\ at'[m] = a
    <3>1. l + 1 \in 1..Length[k0]  BY <1>1, <2>2
    <3>2. a \in 1..(Len(plan[m]) + 1) /\ a <= Len(plan[m])  BY <1>1, <2>1
    <3> QED  BY <1>3, <1>6, <2>1, <2>2, <3>1, <3>2, <1>1 DEF Placed
  <2>3. CASE l = Length[k0] /\ line'[m] = 1 /\ at'[m] = a + 1
    <3>1. a + 1 \in 1..(Len(plan[m]) + 1)  BY <1>1, <2>1
    <3>2. a + 1 <= Len(plan[m]) => 1 \in 1..Length[plan[m][a + 1]]
      <4>1. SUFFICES ASSUME a + 1 <= Len(plan[m])
                     PROVE  1 \in 1..Length[plan[m][a + 1]]
        OBVIOUS
      <4>2. plan[m][a + 1] \in 1..5  BY <1>1, <2>1, <4>1
      <4> QED  BY <4>2, LengthIs
    <3> QED  BY <1>3, <1>6, <2>1, <2>3, <3>1, <3>2, <1>1 DEF Placed
  <2> QED  BY <1>5, <2>2, <2>3
<1>8. ASSUME NEW k \in 1..5, NEW i \in 1..Length[k]
      PROVE  Did(m, k, i)' <=> Did(m, k, i) \/ (k = k0 /\ i = l)
  <2>0. Length[k] \in 1..9  BY LengthIs
  <2>1. i \in Nat /\ DOMAIN plan[m] \subseteq Nat  BY <2>0, <1>1
  <2>2. CASE l < Length[k0] /\ line'[m] = l + 1 /\ at'[m] = a
    BY <1>1, <2>0, <2>1, <2>2 DEF Did
  <2>3. CASE l = Length[k0] /\ line'[m] = 1 /\ at'[m] = a + 1
    BY <1>1, <2>0, <2>1, <2>3 DEF Did
  <2> QED  BY <1>5, <2>2, <2>3
<1> QED  BY <1>4, <1>6, <1>7, <1>8

(* A statement of up takes nothing but the constraint. *)
LEMMA UpTakes ==
    \A k \in 1..5 : \A i \in 1..Length[k] :
       Takes(Up[k][i]) = IF k = 3 /\ i = 1 THEN {"UQ_key"} ELSE {}
<1> TAKE k \in 1..5
<1> TAKE i \in 1..Length[k]
<1>1. Up[k][i].drops = IF k = 3 /\ i = 1 THEN {"UQ_key"} ELSE {}  BY UpDrops
<1>2. Owned({}) = {} /\ Owned({"UQ_key"}) = {}  BY TakesOf DEF Owned
<1> QED  BY <1>1, <1>2 DEF Takes

(* A statement takes and makes. *)
LEMMA AfterIs == \A st, s : After(st, s) = (s \ Takes(st)) \union st.creates
BY DEF After, Takes

(* What m has done, after one more statement. *)
LEMMA DoesMore ==
    ASSUME IInv, NEW m \in Runners, Execute(m)
    PROVE  /\ \A o : Made(m, o)' <=> Made(m, o) \/ o \in Statement(m).creates
           /\ \A o : Took(m, o)' <=> Took(m, o) \/ o \in Takes(Statement(m))
<1> DEFINE k0 == plan[m][at[m]]
           l == line[m]
<1>1. AtStatement(m) /\ Advance(m) /\ plan' = plan /\ upwards' = upwards
  BY DEF Execute, MayGoOn
<1>2. \A k \in 1..5 : \A i \in 1..Length[k] : Did(m, k, i)' <=> Did(m, k, i) \/ (k = k0 /\ i = l)
  BY <1>1, AdvanceDoes
<1>3. k0 \in 1..5 /\ l \in 1..Length[k0] /\ Statement(m) = Scripts(m)[k0][l]  BY <1>1, Position
<1>4. Scripts(m)' = Scripts(m)  BY <1>1 DEF Scripts
<1> HIDE DEF k0, l
<1>5. ASSUME NEW o
      PROVE  Made(m, o)' <=> Made(m, o) \/ o \in Statement(m).creates
  BY <1>2, <1>3, <1>4 DEF Made
<1>6. ASSUME NEW o
      PROVE  Took(m, o)' <=> Took(m, o) \/ o \in Takes(Statement(m))
  BY <1>2, <1>3, <1>4 DEF Took
<1> QED  BY <1>5, <1>6

(* Running, m has taken nothing but the constraint, after it has made all that the
   migrations before the third make. *)
LEMMA UpSoFar ==
    ASSUME IInv, NEW m \in Runners, AtStatement(m), upwards[m]
    PROVE  /\ \A o : Took(m, o) => o = "UQ_key" /\ Did(m, 3, 1)
           /\ "UQ_key" \in Statement(m).creates => ~ Did(m, 3, 1)
           /\ Statement(m).creates \subseteq Objects
           /\ Statement(m).creates # {} => Takes(Statement(m)) = {}
           /\ Takes(Statement(m)) \subseteq {"UQ_key"}
<1> DEFINE k0 == plan[m][at[m]]
           l == line[m]
<1>1. /\ k0 \in 1..5 /\ l \in 1..Length[k0] /\ Statement(m) = Up[k0][l] /\ plan[m] \in Seq(1..5)
      /\ at[m] \in DOMAIN plan[m] /\ at[m] \in Nat
  BY Position DEF Scripts
<1>2. \A o : Took(m, o) => o = "UQ_key" /\ Did(m, 3, 1)
  BY UpTakes DEF Took, Scripts
<1>3. Up[k0][l].creates \subseteq Makes[k0]  BY <1>1, UpMakes
<1>4. ASSUME "UQ_key" \in Statement(m).creates, Did(m, 3, 1)
      PROVE  FALSE
  <2>1. k0 = 1  BY <1>1, <1>3, <1>4, MadeOnce, Names
  <2>2. PICK a \in DOMAIN plan[m] : plan[m][a] = 3 /\ (a < at[m] \/ a = at[m])
    BY <1>4 DEF Did
  <2>3. a < at[m]  BY <2>1, <2>2
  <2>4. plan[m][a] < plan[m][at[m]]
    BY <1>1, <2>3 DEF IInv, Runner, Placed, AtStatement
  <2> QED  BY <2>1, <2>2, <2>4
<1>5. Statement(m).creates \subseteq Objects  BY <1>1, <1>3, NamesAreObjects
<1>6. Takes(Statement(m)) \subseteq {"UQ_key"}  BY <1>1, UpTakes
<1>7. ASSUME Statement(m).creates # {}
      PROVE  Takes(Statement(m)) = {}
  <2>1. ~ (k0 = 3 /\ l = 1)  BY <1>1, <1>7, UpDrops
  <2> QED  BY <1>1, <2>1, UpTakes
<1> QED  BY <1>2, <1>4, <1>5, <1>6, <1>7

(* Reverting, m has not made the constraint before its last statement. *)
LEMMA DownSoFar ==
    ASSUME IInv, NEW m \in Runners, AtStatement(m), ~ upwards[m]
    PROVE  /\ \A o : ~ Made(m, o)
           /\ Statement(m).creates \subseteq {"UQ_key"}
           /\ Statement(m).creates # {} => Takes(Statement(m)) = {} 
<1> DEFINE k0 == plan[m][at[m]]
           l == line[m]
<1>1. /\ k0 \in 1..5 /\ l \in 1..Length[k0] /\ Statement(m) = Down[k0][l] /\ plan[m] \in Seq(1..5)
      /\ at[m] \in DOMAIN plan[m] /\ at[m] \in Nat /\ l > 0
  BY Position DEF Scripts
<1>2. Len(plan[m]) = 1  BY <1>1 DEF IInv, Runner, Placed, AtStatement
<1>3. at[m] = 1 /\ DOMAIN plan[m] = {1}  BY <1>1, <1>2
<1>4. ASSUME NEW o, Made(m, o)
      PROVE  FALSE
  <2>0. PICK k \in 1..5 : \E i \in 1..Length[k] : Did(m, k, i) /\ o \in Down[k][i].creates
    BY <1>4 DEF Made, Scripts
  <2>1. PICK i \in 1..Length[k] : Did(m, k, i) /\ o \in Down[k][i].creates  BY <2>0
  <2>2. k = 3 /\ i = 2  BY <2>1, DownMakes
  <2>3. k0 = 3 /\ 2 \in 1..(l - 1)  BY <1>3, <2>1, <2>2 DEF Did
  <2> QED  BY <1>1, <2>3 DEF Length
<1>5. Statement(m).creates \subseteq {"UQ_key"}
  <2>1. CASE k0 = 3 /\ l = 2
    <3>1. Down[k0][l].creates = {"UQ_key"}  BY <1>1, <2>1, DownMakes
    <3> QED  BY <1>1, <3>1
  <2>2. CASE ~ (k0 = 3 /\ l = 2)
    <3>1. Down[k0][l].creates = {}  BY <1>1, <2>2, DownMakes
    <3> QED  BY <1>1, <3>1
  <2> QED  BY <2>1, <2>2
<1>6. ASSUME Statement(m).creates # {}
      PROVE  Takes(Statement(m)) = {}
  <2>1. k0 = 3 /\ l = 2  BY <1>1, <1>6, DownMakes
  <2>2. Statement(m).drops = {}  BY <1>1, <2>1, DownMakes
  <2> QED  BY <2>2 DEF Takes, Owned
<1> QED  BY <1>4, <1>5, <1>6

(* A table is a table of its own. *)
LEMMA TableIsNoConstraint == \A o : TableOf(o) # "UQ_key"
BY TableOfOwned, Names

(* It sees what it did, *)
LEMMA ExecuteSees ==
    ASSUME IInv, NEW m \in Runners, Execute(m)
    PROVE  Seen(m)'
<1> DEFINE C == Statement(m).creates
           T == Takes(Statement(m))
<1>1. AtStatement(m) /\ line[m] > 0 /\ schema' = schema /\ upwards' = upwards
  BY Position DEF Execute, MayGoOn, database
<1>2. view'[m] = (view[m] \ T) \union C
  BY AfterIs DEF Execute, IInv, Types
<1>3. \A o \in Objects : o \in view[m] <=> \/ o \in schema /\ ~ Took(m, o)
                                           \/ Made(m, o) /\ (upwards[m] => ~ Took(m, o))
  BY <1>1 DEF IInv, Runner, Seen
<1>4. \A o : (Made(m, o)' <=> Made(m, o) \/ o \in C) /\ (Took(m, o)' <=> Took(m, o) \/ o \in T)
  BY DoesMore
<1>5. C # {} => T = {}  BY <1>1, UpSoFar, DownSoFar
<1>6. CASE upwards[m]
  <2>1. \A o : o \in C => ~ Took(m, o)  BY <1>1, <1>6, UpSoFar
  <2> HIDE DEF C, T
  <2>2. ASSUME NEW o \in Objects
        PROVE  o \in view'[m] <=> \/ o \in schema /\ ~ Took(m, o)'
                                  \/ Made(m, o)' /\ ~ Took(m, o)'
    BY <1>2, <1>3, <1>4, <1>5, <1>6, <2>1
  <2> QED  BY <2>2, <1>1, <1>6 DEF Seen
<1>7. CASE ~ upwards[m]
  <2>1. \A o : ~ Made(m, o)  BY <1>1, <1>7, DownSoFar
  <2> HIDE DEF C, T
  <2>2. ASSUME NEW o \in Objects
        PROVE  o \in view'[m] <=> \/ o \in schema /\ ~ Took(m, o)'
                                  \/ Made(m, o)'
    BY <1>2, <1>3, <1>4, <1>5, <1>7, <2>1
  <2> QED  BY <2>2, <1>1, <1>7 DEF Seen
<1> QED  BY <1>6, <1>7

(* has locked it, *)
LEMMA ExecuteHolds ==
    ASSUME IInv, NEW m \in Runners, Execute(m)
    PROVE  /\ Holding(m)' /\ Locked(m)' /\ Exclusive' /\ DOMAIN locks' = Runners
           /\ \A n \in Runners : n # m => locks'[n] = locks[n]
           /\ \A c \in Clients : Served(c)'
<1>1. /\ AtStatement(m) /\ line[m] > 0
      /\ \A n \in Runners : ~ WaitsFor(m, n)
      /\ \A c \in Clients : ~ WaitsFor(m, c)
      /\ UNCHANGED <<schema, taken, plan, upwards>> /\ Advance(m)
  BY Position DEF Execute, MayGoOn, database
<1>2. /\ locks' = [locks EXCEPT ![m] = @ \union Touches(Statement(m))]
      /\ DOMAIN locks = Runners
  BY DEF Execute, IInv, Types
<1>3. /\ locks'[m] = locks[m] \union Touches(Statement(m))
      /\ \A n \in Runners : n # m => locks'[n] = locks[n]
      /\ DOMAIN locks' = Runners
  BY <1>2
<1>4. \A n \in Runners : n # m => Touches(Statement(m)) \intersect locks[n] = {}
  BY <1>1 DEF WaitsFor, Wanted, Held
<1>5. Exclusive'  BY <1>3, <1>4 DEF IInv, Exclusive
<1>6. ASSUME NEW o \in Objects, Made(m, o)' \/ Took(m, o)'
      PROVE  TableOf(o) \in locks'[m]
  <2>1. CASE Made(m, o) \/ Took(m, o)
    BY <2>1, <1>1, <1>3 DEF IInv, Runner, Holding
  <2>2. CASE o \in Statement(m).creates \/ o \in Takes(Statement(m))
    BY <2>2, <1>3, TouchesAll
  <2> QED  BY <2>1, <2>2, <1>6, DoesMore
<1>7. Holding(m)'  BY <1>6 DEF Holding
<1>8. ASSUME NEW c \in Clients
      PROVE  Served(c)'
  <2>1. c \notin Runners /\ c # m  BY NoRunnerIsAClient
  <2>2. Touches(Statement(m)) \intersect {OrderTables[i] : i \in 1..taken[c]} = {}
    BY <1>1, <2>1 DEF WaitsFor, Wanted, Held
  <2>3. \A i \in 1..taken[c] : OrderTables[i] \notin locks'[m]  BY <1>3, <2>2 DEF IInv, Served
  <2> QED  BY <1>1, <1>3, <2>3 DEF IInv, Served
<1>9. Locked(m)'
  <2> DEFINE k0 == plan[m][at[m]]
             l == line[m]
  <2>1. \A k \in 1..5 : \A i \in 1..Length[k] :
           Did(m, k, i)' <=> Did(m, k, i) \/ (k = k0 /\ i = l)
    BY <1>1, AdvanceDoes
  <2>2. k0 \in 1..5 /\ l \in 1..Length[k0] /\ Statement(m) = Scripts(m)[k0][l]
    BY <1>1, Position
  <2>3. Scripts(m)' = Scripts(m)  BY <1>1 DEF Scripts
  <2>4. \A t \in locks[m] :
           \E k \in 1..5 : \E i \in 1..Length[k] : Did(m, k, i) /\ t \in Touches(Scripts(m)[k][i])
    BY DEF IInv, Runner, Locked
  <2> HIDE DEF k0, l
  <2>5. ASSUME NEW t \in locks'[m]
        PROVE  \E k \in 1..5 : \E i \in 1..Length[k] :
                  Did(m, k, i)' /\ t \in Touches(Scripts(m)[k][i])
    BY <1>3, <2>1, <2>2, <2>4
  <2> QED  BY <2>3, <2>5 DEF Locked
<1> QED  BY <1>3, <1>5, <1>7, <1>8, <1>9

(* and has made what was not there, with its table, *)
LEMMA ExecuteIsFresh ==
    ASSUME IInv, NEW m \in Runners, Execute(m)
    PROVE  Fresh(m)'
<1> DEFINE C == Statement(m).creates
           T == Takes(Statement(m))
<1>1. AtStatement(m) /\ line[m] > 0 /\ schema' = schema /\ upwards' = upwards
  BY Position DEF Execute, MayGoOn, database
<1>2. view'[m] = (view[m] \ T) \union C
  BY AfterIs DEF Execute, IInv, Types
<1>3. SUFFICES ASSUME upwards[m], NEW o \in Objects, Made(m, o)', o # "uuid_ossp"
               PROVE  o \notin schema /\ TableOf(o) \in view'[m]
  BY <1>1 DEF Fresh
<1>4. T \subseteq {"UQ_key"} /\ (o \in C => ~ Took(m, o))  BY <1>1, <1>3, UpSoFar
<1>5. CASE Made(m, o)
  <2>1. o \notin schema /\ TableOf(o) \in view[m]
    BY <1>1, <1>3, <1>5 DEF IInv, Runner, Fresh
  <2> QED  BY <2>1, <1>2, <1>4, TableIsNoConstraint
<1>6. CASE o \in C
  <2>1. /\ C \intersect view[m] \subseteq {"uuid_ossp"}
        /\ TableOf(o) \in view[m] \union C
    BY <1>6 DEF Execute, Works
  <2>2. o \notin view[m]  BY <1>3, <1>6, <2>1
  <2>3. o \notin schema
    BY <1>1, <1>3, <1>4, <1>6, <2>2 DEF IInv, Runner, Seen
  <2>4. TableOf(o) \in view'[m]  BY <1>2, <1>4, <2>1, TableIsNoConstraint
  <2> QED  BY <2>3, <2>4
<1> QED  BY <1>3, <1>5, <1>6, DoesMore

(* or dropped what was. *)
LEMMA ExecuteDrops ==
    ASSUME IInv, NEW m \in Runners, Execute(m)
    PROVE  Dropping(m)'
<1> DEFINE k0 == plan[m][at[m]]
           l == line[m]
<1>1. /\ AtStatement(m) /\ line[m] > 0 /\ schema' = schema /\ upwards' = upwards /\ plan' = plan
      /\ Advance(m) /\ Works(Statement(m), view[m], orders)
  BY Position DEF Execute, MayGoOn, database
<1>2. SUFFICES ASSUME ~ upwards[m]
               PROVE  /\ \A k \in 1..5 : \A i \in 1..Length[k] :
                            Did(m, k, i)' => Down[k][i].drops \subseteq schema
                      /\ Did(m, 1, 9)' => "file_records" \notin schema
  BY <1>1 DEF Dropping
<1>3. /\ k0 \in 1..5 /\ l \in 1..Length[k0] /\ Statement(m) = Down[k0][l]
      /\ at[m] \in DOMAIN plan[m] /\ plan[m] \in Seq(1..5) /\ at[m] \in Nat
  BY <1>1, <1>2, Position DEF Scripts
<1>4. \A o : ~ Made(m, o)  BY <1>1, <1>2, DownSoFar
<1>5. \A o \in Objects : o \in view[m] <=> o \in schema /\ ~ Took(m, o)
  BY <1>1, <1>2, <1>4 DEF IInv, Runner, Seen
<1>6. view[m] \subseteq Objects  BY DEF IInv, Types
<1>7. /\ \A k \in 1..5 : \A i \in 1..Length[k] : Did(m, k, i) => Down[k][i].drops \subseteq schema
      /\ Did(m, 1, 9) => "file_records" \notin schema
  BY <1>1, <1>2 DEF IInv, Runner, Dropping
<1>8. \A k \in 1..5 : \A i \in 1..Length[k] : Did(m, k, i)' <=> Did(m, k, i) \/ (k = k0 /\ i = l)
  BY <1>1, AdvanceDoes
<1>9. Down[k0][l].drops \subseteq schema
  BY <1>1, <1>3, <1>5, <1>6 DEF Works
<1>10. ASSUME k0 = 1, l = 9
       PROVE  "file_records" \notin schema
  <2>1. Statement(m) = Drop("uuid_ossp")  BY <1>3, <1>10, Script1
  <2>2. Takes(Statement(m)) = {"uuid_ossp"} /\ Statement(m).creates = {}
    <3>1. "uuid_ossp" \notin DOMAIN OwnedBy  BY TakesOf
    <3>2. Takes(Drop("uuid_ossp")) = {"uuid_ossp"}  BY <3>1, TakesOf
    <3>3. Drop("uuid_ossp").creates = {}  BY DEF Drop
    <3> QED  BY <2>1, <3>2, <3>3
  <2>3. After(Statement(m), view[m]) = view[m] \ {"uuid_ossp"}  BY <2>2, AfterIs
  <2>4. "uuid_ossp" \in Refs("file_records")  BY DEF Refs, References
  <2>5. "file_records" \notin view[m]  BY <1>1, <2>3, <2>4 DEF Works
  <2>6. ~ Took(m, "file_records")
    <3>1. SUFFICES ASSUME Took(m, "file_records")
                   PROVE  FALSE
      OBVIOUS
    <3>2. PICK k \in 1..5 : \E i \in 1..Length[k] : Did(m, k, i) /\ "file_records" \in Takes(Down[k][i])
      BY <1>2, <3>1 DEF Took, Scripts
    <3>3. PICK i \in 1..Length[k] : Did(m, k, i) /\ "file_records" \in Takes(Down[k][i])
      BY <3>2
    <3>4. Len(plan[m]) = 1  BY <1>1, <1>2 DEF IInv, Runner, Placed
    <3>5. k = 1  BY <1>3, <1>10, <3>3, <3>4 DEF Did
    <3>6. \/ "file_records" \in Makes[1]
          \/ TableOf("file_records") \in {"orders", "users"}
      BY <3>3, <3>5, DownTakes, Names, NamesAreObjects
    <3> QED  BY <3>6, Names, MadeOnce
  <2> QED  BY <1>5, <2>5, <2>6, Names, NamesAreObjects
<1>11. 1 \in 1..5 /\ 9 \in 1..Length[1]  BY DEF Length
<1> HIDE DEF k0, l
<1> QED  BY <1>7, <1>8, <1>9, <1>10, <1>11

(* Executing a statement keeps the invariant: others are kept out by the locks. *)
LEMMA ExecutePreserves ==
    ASSUME IInv, NEW m \in Runners, Execute(m)
    PROVE  IInv'
<1>1. /\ AtStatement(m) /\ line[m] > 0 /\ Advance(m) /\ Works(Statement(m), view[m], orders)
      /\ UNCHANGED <<schema, applied, orders, plan, upwards, failed, taken, disturbed>>
      /\ UNCHANGED database
      /\ view' = [view EXCEPT ![m] = After(Statement(m), @)]
  BY Position DEF Execute, MayGoOn, database
<1>2. /\ at' \in [Runners -> Nat] /\ line' \in [Runners -> Nat]
      /\ \A n \in Runners : n # m => at'[n] = at[n] /\ line'[n] = line[n]
      /\ line'[m] > 0 /\ Placed(m)'
  BY <1>1, AdvanceDoes
<1>3. /\ Holding(m)' /\ Locked(m)' /\ Exclusive' /\ DOMAIN locks' = Runners
      /\ \A n \in Runners : n # m => locks'[n] = locks[n]
      /\ \A c \in Clients : Served(c)'
  BY ExecuteHolds
<1>4. Statement(m).creates \subseteq Objects
  BY <1>1, UpSoFar, DownSoFar, Names, NamesAreObjects
<1>5. /\ view'[m] = (view[m] \ Takes(Statement(m))) \union Statement(m).creates
      /\ \A n \in Runners : n # m => view'[n] = view[n]
  BY <1>1, AfterIs DEF IInv, Types
<1>6. Types'
  <2>1. view' \in [Runners -> SUBSET Objects]  BY <1>1, <1>4, AfterIs DEF IInv, Types
  <2> QED  BY <1>1, <1>2, <1>3, <2>1 DEF IInv, Types
<1>7. (Exact /\ Fitting)'  BY <1>1 DEF IInv, Exact, Fitting
<1>8. ASSUME NEW n \in Runners, n # m
      PROVE  Runner(n)'
  <2>1. /\ plan'[n] = plan[n] /\ upwards'[n] = upwards[n] /\ at'[n] = at[n]
        /\ line'[n] = line[n] /\ view'[n] = view[n] /\ locks'[n] = locks[n]
        /\ failed'[n] = failed[n] /\ disturbed'[n] = disturbed[n]
    BY <1>1, <1>2, <1>3, <1>5, <1>8
  <2> QED  BY <2>1, <1>1, RunnerKept DEF IInv
<1>9. Runner(m)'
  <2>1. FittingView(m)'
    <3>1. SUFFICES ASSUME NEW o \in view'[m]
                   PROVE  Fit(orders, o)
      BY <1>1 DEF FittingView
    <3>2. CASE o \in view[m]  BY <3>2, <1>1 DEF IInv, Runner, FittingView
    <3>3. CASE o \in Statement(m).creates  BY <3>3, <1>1 DEF Works
    <3> QED  BY <3>1, <3>2, <3>3, <1>5
  <2>2. Current(m)'  BY <1>1, <1>2 DEF IInv, Runner, Current, Reason, InOrder
  <2> QED
    BY <2>1, <2>2, <1>2, <1>3, ExecuteSees, ExecuteIsFresh, ExecuteDrops DEF Runner
<1> QED  BY <1>3, <1>6, <1>7, <1>8, <1>9 DEF IInv

-----------------------------------------------------------------------------
(* A transaction is committed *)

(* It has done all it planned. *)
LEMMA AllDone ==
    ASSUME IInv, NEW m \in Runners, Commit(m)
    PROVE  /\ \A k \in 1..5 : \A i \in 1..Length[k] : Did(m, k, i) <=> k \in ToSet(plan[m])
           /\ line[m] > 0 /\ plan[m] \in Seq(1..5) /\ plan[m] # <<>>
<1>1. /\ line[m] > 0 /\ at[m] > Len(plan[m]) /\ plan[m] \in Seq(1..5) /\ at[m] \in Nat
      /\ plan[m] # <<>> /\ line[m] = 1
  BY DEF Commit, IInv, Types, Runner, Placed
<1>2. \A a \in DOMAIN plan[m] : a < at[m] /\ a # at[m]  BY <1>1
<1> QED  BY <1>1, <1>2 DEF Did, ToSet

(* Running, it sees its own objects besides those there were, the constraint not if the
   third was among them. *)
LEMMA CommitUpView ==
    ASSUME IInv, NEW m \in Runners, Commit(m), upwards[m], NEW k \in 1..5, NEW o \in Makes[k]
    PROVE  o \in view[m] <=> /\ o \in schema \/ k \in ToSet(plan[m])
                             /\ o = "UQ_key" => 3 \notin ToSet(plan[m])
<1>1. o \in Objects /\ line[m] > 0  BY AllDone, NamesAreObjects
<1>2. o \in view[m] <=> \/ o \in schema /\ ~ Took(m, o)
                        \/ Made(m, o) /\ ~ Took(m, o)
  BY <1>1 DEF IInv, Runner, Seen
<1>3. Made(m, o) <=> k \in ToSet(plan[m])
  <2>1. ASSUME Made(m, o)
        PROVE  k \in ToSet(plan[m])
    <3>1. PICK j \in 1..5 : \E i \in 1..Length[j] : Did(m, j, i) /\ o \in Up[j][i].creates
      BY <2>1 DEF Made, Scripts
    <3>2. o \in Makes[j] /\ j \in ToSet(plan[m])  BY <3>1, AllDone, UpMakes
    <3> QED  BY <3>2, MadeOnce
  <2>2. ASSUME k \in ToSet(plan[m])
        PROVE  Made(m, o)
    <3>1. PICK i \in 1..Length[k] : o \in Up[k][i].creates  BY UpMakes
    <3> QED  BY <3>1, <2>2, AllDone DEF Made, Scripts
  <2> QED  BY <2>1, <2>2
<1>4. Took(m, o) <=> o = "UQ_key" /\ 3 \in ToSet(plan[m])
  <2>1. Took(m, o) => o = "UQ_key" /\ 3 \in ToSet(plan[m])
    BY AllDone, UpTakes DEF Took, Scripts
  <2>2. ASSUME o = "UQ_key", 3 \in ToSet(plan[m])
        PROVE  Took(m, o)
    <3>1. 1 \in 1..Length[3]  BY DEF Length
    <3>2. Did(m, 3, 1) /\ o \in Takes(Up[3][1])  BY <2>2, <3>1, AllDone, UpTakes
    <3> QED  BY <3>1, <3>2 DEF Took, Scripts
  <2> QED  BY <2>1, <2>2
<1> QED  BY <1>2, <1>3, <1>4

(* What was run had not been run since the first migration was; and the first was
   recorded, or among it. *)
LEMMA CommitUpIsNew ==
    ASSUME IInv, NEW m \in Runners, Commit(m), upwards[m]
    PROVE  /\ 1 \in ToSet(plan[m]) => 1 \notin ToSet(applied)
           /\ 1 \notin ToSet(plan[m]) =>
                 1 \in ToSet(applied) /\ Live(applied) \intersect ToSet(plan[m]) = {}
<1> DEFINE A == ToSet(applied)
           L == Live(applied)
           P == ToSet(plan[m])
<1>1. /\ applied \in Seq(1..5) /\ line[m] > 0 /\ schema \subseteq Objects
      /\ \A o \in Objects : o \in schema <=> Stands(o, A, L)
      /\ 5 \in A => 5 \in L
      /\ plan[m] \in Seq(1..5) /\ plan[m] # <<>>
  BY AllDone DEF IInv, Types, Exact
<1>2. A \subseteq 1..5 /\ L \subseteq A /\ (L # {} => 1 \in L) /\ (1 \in A => 1 \in L)
  BY <1>1, LiveIsRecorded
<1>3. \A k \in 1..5 : \A o \in Makes[k] :
         o \in view[m] <=> (o \in schema \/ k \in P) /\ (o = "UQ_key" => 3 \notin P)
  BY CommitUpView
<1>4. ASSUME NEW k \in P, NEW o \in Makes[k], o # "uuid_ossp"
      PROVE  k \in 1..5 /\ o \notin schema /\ TableOf(o) \in view[m] /\ o \in Objects
  <2>1. k \in 1..5  BY <1>1 DEF ToSet
  <2>2. PICK i \in 1..Length[k] : o \in Up[k][i].creates  BY <2>1, UpMakes
  <2>3. Made(m, o)  BY <2>1, <2>2, AllDone DEF Made, Scripts
  <2>4. o \in Objects  BY <2>1, NamesAreObjects
  <2> QED  BY <1>1, <1>4, <2>1, <2>3, <2>4 DEF IInv, Runner, Fresh
<1>5. P \subseteq 1..5 /\ P # {}
  <2>1. 1 \in DOMAIN plan[m]  BY <1>1
  <2>2. plan[m][1] \in P  BY <2>1 DEF ToSet
  <2>3. P \subseteq 1..5  BY <1>1 DEF ToSet
  <2> QED  BY <2>2, <2>3
<1> HIDE DEF A, L, P
<1>6. ASSUME 1 \in P
      PROVE  1 \notin A
  <2>1. "products" \notin schema  BY <1>4, <1>6, Names
  <2>2. ~ Stands("products", A, L)  BY <2>1, <1>1, Names, NamesAreObjects
  <2> QED  BY <2>2, <1>2, StandsBy, Names
<1>7. ASSUME 1 \notin P
      PROVE  1 \in A /\ L \intersect P = {}
  <2>1. ASSUME NEW k \in P
        PROVE  1 \in A /\ k \notin L
    <3>1. k \in 2..5  BY <1>5, <1>7
    <3>2. PICK o \in Makes[k] : o # "uuid_ossp" /\ TableOf(o) \in {"orders", "users"}
                                /\ TableOf(o) \in Makes[1] /\ o # "UQ_key"
      <4>1. CASE k = 2  BY <4>1, Names
      <4>2. CASE k = 3  BY <4>2, Names
      <4>3. CASE k = 4  BY <4>3, Names
      <4>4. CASE k = 5  BY <4>4, Names
      <4> QED  BY <3>1, <4>1, <4>2, <4>3, <4>4
    <3>3. o \notin schema /\ TableOf(o) \in view[m] /\ o \in Objects  BY <1>4, <3>2
    <3>4. TableOf(o) \in schema  BY <1>3, <1>7, <3>2, <3>3
    <3>5. Stands(TableOf(o), A, L)  BY <1>1, <3>4
    <3>6. 1 \in A  BY <1>2, <3>2, <3>5, StandsBy
    <3>7. ~ Stands(o, A, L)  BY <1>1, <3>3
    <3>8. k \notin L  BY <1>2, <3>1, <3>2, <3>7, StandsBy
    <3> QED  BY <3>6, <3>8
  <2> QED  BY <2>1, <1>5
<1> QED  BY <1>6, <1>7 DEF A, L, P

(* So the schema it commits is what the records say, with its own appended. *)
LEMMA CommitUpIsExact ==
    ASSUME IInv, NEW m \in Runners, Commit(m), upwards[m]
    PROVE  Exact' /\ applied' \in Seq(1..5)
<1> DEFINE A == ToSet(applied)
           L == Live(applied)
           P == ToSet(plan[m])
           A2 == ToSet(applied')
           L2 == Live(applied')
<1>1. /\ applied \in Seq(1..5) /\ line[m] > 0 /\ schema \subseteq Objects
      /\ \A o \in Objects : o \in schema <=> Stands(o, A, L)
      /\ 5 \in A => 5 \in L
      /\ plan[m] \in Seq(1..5) /\ plan[m] # <<>>
      /\ Once(applied)
      /\ \A x, y \in DOMAIN plan[m] : x < y => plan[m][x] < plan[m][y]
  BY AllDone DEF IInv, Types, Exact, Runner, Placed
<1>2. A \subseteq 1..5 /\ L \subseteq A /\ (L # {} => 1 \in L) /\ (1 \in A => 1 \in L)
  BY <1>1, LiveIsRecorded
<1>3. schema' = view[m] /\ applied' = applied \o plan[m]  BY DEF Commit
<1>4. P \subseteq 1..5  BY <1>1 DEF ToSet
<1>5. /\ 1 \in P => 1 \notin A
      /\ 1 \notin P => 1 \in A /\ L \intersect P = {}
  BY CommitUpIsNew
<1>6. applied' \in Seq(1..5) /\ A2 = A \union P  BY <1>1, <1>3, RecordSet
<1>7. 1 \in P => plan[m][1] = 1
  <2>1. SUFFICES ASSUME 1 \in P
                 PROVE  plan[m][1] = 1
    OBVIOUS
  <2>2. PICK a \in DOMAIN plan[m] : plan[m][a] = 1  BY <2>1 DEF ToSet
  <2>3. 1 \in DOMAIN plan[m] /\ plan[m][1] \in 1..5 /\ a \in Nat /\ a >= 1  BY <1>1
  <2>4. CASE a > 1
    <3>1. plan[m][1] < plan[m][a]  BY <1>1, <2>3, <2>4
    <3> QED  BY <2>2, <2>3, <3>1
  <2>5. a > 1 \/ a = 1  BY <2>3
  <2> QED  BY <2>2, <2>4, <2>5
<1>8. L2 = IF 1 \in P THEN P ELSE L \union P
  BY <1>1, <1>3, <1>5, <1>7, RecordLive
<1>9. Once(applied')
  <2>1. \/ 1 \notin A
        \/ 1 \in A /\ 1 \notin P /\ L \intersect P = {}
    BY <1>5
  <2> QED  BY <1>1, <1>3, <2>1, RecordOnce
<1>10. \A k \in 1..5 : \A o \in Makes[k] :
          o \in view[m] <=> (o \in schema \/ k \in P) /\ (o = "UQ_key" => 3 \notin P)
  BY CommitUpView
<1> HIDE DEF A, L, P, A2, L2
<1>11. 5 \in A2 => 5 \in L2  BY <1>1, <1>2, <1>5, <1>6, <1>8
<1>12. ASSUME NEW o \in Objects
       PROVE  o \in view[m] <=> Stands(o, A2, L2)
  <2>1. PICK k \in 1..5 : o \in Makes[k]  BY DEF Objects
  <2>2. Stands(o, A, L) <=> /\ k \in A
                            /\ TableOf(o) \in {"orders", "users"} => k \in L
                            /\ o = "UQ_key" => 3 \notin L
    BY <1>2, <2>1, StandsBy
  <2>3. A2 \in SUBSET (1..5)  BY <1>2, <1>4, <1>6
  <2>4. Stands(o, A2, L2) <=> /\ k \in A2
                              /\ TableOf(o) \in {"orders", "users"} => k \in L2
                              /\ o = "UQ_key" => 3 \notin L2
    BY <2>1, <2>3, StandsBy
  <2>5. o = "UQ_key" => k = 1  BY <2>1, MadeOnce, Names
  <2>6. o \in view[m] <=> (o \in schema \/ k \in P) /\ (o = "UQ_key" => 3 \notin P)
    BY <1>10, <2>1
  <2>7. o \in schema <=> Stands(o, A, L)  BY <1>1
  <2>8. CASE 1 \in P
    BY <1>2, <1>5, <1>6, <1>8, <2>2, <2>4, <2>5, <2>6, <2>7, <2>8
  <2>9. CASE 1 \notin P
    BY <1>2, <1>5, <1>6, <1>8, <2>2, <2>4, <2>5, <2>6, <2>7, <2>9
  <2> QED  BY <2>8, <2>9
<1> QED  BY <1>3, <1>6, <1>9, <1>11, <1>12 DEF Exact, A2, L2

(* Reverted: all that the migration made is gone, and with the first what came with
   its tables; undoing the third makes the first one's constraint again. *)
LEMMA CommitDownView ==
    ASSUME IInv, NEW m \in Runners, Commit(m), ~ upwards[m]
    PROVE  /\ plan[m][1] \in 1..5 /\ ToSet(plan[m]) = {plan[m][1]}
           /\ \A o \in Objects : Made(m, o) <=> o = "UQ_key" /\ plan[m][1] = 3
           /\ plan[m][1] # 1 => \A o \in Objects : Took(m, o) <=> o \in Makes[plan[m][1]]
           /\ plan[m][1] = 1 => \A o \in Objects : Took(m, o) <=>
                                   \/ o \in Makes[1]
                                   \/ TableOf(o) \in {"orders", "users"}
                                   \/ o = "image_file_id"
           /\ \A o \in Objects : o \in view[m] <=> (o \in schema /\ ~ Took(m, o)) \/ Made(m, o)
<1> DEFINE k0 == plan[m][1]
<1>1. plan[m] \in Seq(1..5) /\ Len(plan[m]) = 1 /\ line[m] > 0
  BY AllDone DEF IInv, Runner, Placed
<1>2. k0 \in 1..5 /\ DOMAIN plan[m] = {1}  BY <1>1
<1>3. ToSet(plan[m]) = {k0}  BY <1>2 DEF ToSet
<1>4. \A k \in 1..5 : \A i \in 1..Length[k] : Did(m, k, i) <=> k = k0  BY <1>3, AllDone
<1>5. \A o \in Objects : o \in view[m] <=> (o \in schema /\ ~ Took(m, o)) \/ Made(m, o)
  BY <1>1 DEF IInv, Runner, Seen
<1> HIDE DEF k0
<1>6. ASSUME NEW o \in Objects
      PROVE  /\ Made(m, o) <=> \E i \in 1..Length[k0] : o \in Down[k0][i].creates
             /\ Took(m, o) <=> \E i \in 1..Length[k0] : o \in Takes(Down[k0][i])
  BY <1>2, <1>4 DEF Made, Took, Scripts
<1>7. ASSUME NEW o \in Objects
      PROVE  Made(m, o) <=> o = "UQ_key" /\ k0 = 3
  <2>1. ASSUME Made(m, o)
        PROVE  o = "UQ_key" /\ k0 = 3
    <3>1. PICK i \in 1..Length[k0] : o \in Down[k0][i].creates  BY <1>6, <2>1
    <3> QED  BY <3>1, <1>2, DownMakes
  <2>2. ASSUME o = "UQ_key", k0 = 3
        PROVE  Made(m, o)
    <3>1. 2 \in 1..Length[3]  BY DEF Length
    <3>2. o \in Down[3][2].creates  BY <2>2, <3>1, DownMakes
    <3> QED  BY <1>6, <2>2, <3>1, <3>2
  <2> QED  BY <2>1, <2>2
<1>8. ASSUME k0 # 1, NEW o \in Objects
      PROVE  Took(m, o) <=> o \in Makes[k0]
  <2>1. k0 \in 2..5  BY <1>2, <1>8
  <2> QED  BY <2>1, <1>6, DownTakes
<1>9. ASSUME k0 = 1, NEW o \in Objects
      PROVE  Took(m, o) <=> \/ o \in Makes[1]
                            \/ TableOf(o) \in {"orders", "users"}
                            \/ o = "image_file_id"
  BY <1>9, <1>6, DownTakes
<1> QED  BY <1>2, <1>3, <1>5, <1>7, <1>8, <1>9 DEF k0

(* So is the one a revert commits, with its own record gone. *)
LEMMA CommitDownIsExact ==
    ASSUME IInv, NEW m \in Runners, Commit(m), ~ upwards[m]
    PROVE  Exact' /\ applied' \in Seq(1..5)
<1> DEFINE A == ToSet(applied)
           L == Live(applied)
           k0 == plan[m][1]
           A2 == ToSet(applied')
           L2 == Live(applied')
<1>1. /\ applied \in Seq(1..5) /\ line[m] > 0
      /\ \A o \in Objects : o \in schema <=> Stands(o, A, L)
      /\ 5 \in A => 5 \in L
      /\ Once(applied)
  BY AllDone DEF IInv, Types, Exact
<1>2. A \subseteq 1..5 /\ L \subseteq A /\ (L # {} => 1 \in L) /\ (1 \in A => 1 \in L)
  BY <1>1, LiveIsRecorded
<1>3. /\ k0 \in 1..5 /\ ToSet(plan[m]) = {k0}
      /\ \A o \in Objects : Made(m, o) <=> o = "UQ_key" /\ k0 = 3
      /\ k0 # 1 => \A o \in Objects : Took(m, o) <=> o \in Makes[k0]
      /\ k0 = 1 => \A o \in Objects : Took(m, o) <=>
                      o \in Makes[1] \/ TableOf(o) \in {"orders", "users"} \/ o = "image_file_id"
      /\ \A o \in Objects : o \in view[m] <=> (o \in schema /\ ~ Took(m, o)) \/ Made(m, o)
  BY CommitDownView
<1>4. schema' = view[m]  BY DEF Commit
<1>5. PICK kept \in Ascending({i \in DOMAIN applied : applied[i] # k0}) :
         applied' = [i \in DOMAIN kept |-> applied[kept[i]]]
  BY DEF Commit
<1>6. /\ applied' \in Seq(1..5) /\ A2 = A \ {k0} /\ Once(applied')
      /\ k0 # 1 => L2 = L \ {k0}
      /\ k0 = 1 => L2 = {}
  <2> DEFINE t == [i \in DOMAIN kept |-> applied[kept[i]]]
  <2> HIDE DEF k0
  <2>0. /\ k0 \in 1..5 /\ applied \in Seq(1..5)
        /\ kept \in Ascending({i \in DOMAIN applied : applied[i] # k0})
    BY <1>1, <1>3, <1>5
  <2>1. Once(applied) /\ applied' = t  BY <1>1, <1>5
  <2>2. /\ t \in Seq(1..5) /\ ToSet(t) = ToSet(applied) \ {k0}
        /\ k0 # 1 => Live(t) = Live(applied) \ {k0}
        /\ k0 = 1 => Live(t) = {}
        /\ Once(applied) => Once(t)
    BY <2>0, UnrecordSet
  <2> HIDE DEF t
  <2> QED  BY <2>1, <2>2
<1>7. k0 = 3 => "idx_user_key" \in schema
  <2>1. SUFFICES ASSUME k0 = 3
                 PROVE  "idx_user_key" \in schema
    OBVIOUS
  <2>2. 1 \in 1..Length[3]  BY DEF Length
  <2>3. Did(m, 3, 1)  BY <2>1, <2>2, <1>3, AllDone
  <2>4. Down[3][1].drops = {"idx_user_key"}  BY Script3 DEF Drop
  <2> QED  BY <1>1, <2>2, <2>3, <2>4 DEF IInv, Runner, Dropping
<1>8. k0 = 1 => "file_records" \notin schema
  <2>1. 9 \in 1..Length[1]  BY DEF Length
  <2>2. k0 = 1 => Did(m, 1, 9)  BY <2>1, <1>3, AllDone
  <2> QED  BY <1>1, <2>2 DEF IInv, Runner, Dropping
<1> HIDE DEF A, L, A2, L2, k0
<1>9. k0 = 3 => 1 \in A
  <2>1. k0 = 3 => Stands("idx_user_key", A, L)  BY <1>1, <1>7, Names, NamesAreObjects
  <2>2. k0 = 3 => 3 \in L  BY <2>1, <1>2, StandsBy, Names
  <2> QED  BY <2>2, <1>2
<1>10. k0 = 1 => 5 \notin A
  <2>1. k0 = 1 => ~ Stands("file_records", A, L)  BY <1>1, <1>8, Names, NamesAreObjects
  <2> QED  BY <2>1, <1>2, StandsBy, Names
<1>11. 5 \in A2 => 5 \in L2  BY <1>1, <1>6, <1>10
<1>12. ASSUME NEW o \in Objects
       PROVE  o \in view[m] <=> Stands(o, A2, L2)
  <2>1. PICK k \in 1..5 : o \in Makes[k]  BY DEF Objects
  <2>2. Stands(o, A, L) <=> /\ k \in A
                            /\ TableOf(o) \in {"orders", "users"} => k \in L
                            /\ o = "UQ_key" => 3 \notin L
    BY <1>2, <2>1, StandsBy
  <2>3. A2 \in SUBSET (1..5)  BY <1>2, <1>6
  <2>4. Stands(o, A2, L2) <=> /\ k \in A2
                              /\ TableOf(o) \in {"orders", "users"} => k \in L2
                              /\ o = "UQ_key" => 3 \notin L2
    BY <2>1, <2>3, StandsBy
  <2>5. /\ o = "UQ_key" => k = 1 /\ TableOf(o) = "orders"
        /\ o = "image_file_id" => k = 5
    <3>1. "image_file_id" \in Makes[5]  BY DEF Makes
    <3> QED  BY <3>1, <2>1, MadeOnce, Names
  <2>6. o \in schema <=> Stands(o, A, L)  BY <1>1
  <2>7. \A j \in 1..5 : o \in Makes[j] <=> j = k  BY <2>1, MadeOnce
  <2>8. o \in view[m] <=> (o \in schema /\ ~ Took(m, o)) \/ (o = "UQ_key" /\ k0 = 3)
    BY <1>3
  <2>9. CASE k0 = 1
    <3>1. Took(m, o) <=> k = 1 \/ TableOf(o) \in {"orders", "users"} \/ o = "image_file_id"
      BY <1>3, <2>7, <2>9
    <3>2. A2 = A \ {1} /\ L2 = {} /\ 5 \notin A  BY <1>6, <1>10, <2>9
    <3> QED  BY <3>1, <3>2, <2>2, <2>4, <2>5, <2>6, <2>8, <2>9
  <2>10. CASE k0 # 1
    <3>1. Took(m, o) <=> k = k0  BY <1>3, <2>7, <2>10
    <3>2. A2 = A \ {k0} /\ L2 = L \ {k0}  BY <1>6, <2>10
    <3>3. CASE o = "UQ_key"
      BY <3>1, <3>2, <3>3, <1>2, <1>9, <2>2, <2>4, <2>5, <2>6, <2>8, <2>10
    <3>4. CASE o # "UQ_key"
      BY <3>1, <3>2, <3>4, <2>2, <2>4, <2>6, <2>8, <2>10
    <3> QED  BY <3>3, <3>4
  <2> QED  BY <2>9, <2>10
<1> QED  BY <1>4, <1>6, <1>11, <1>12 DEF Exact, A2, L2

(* What m commits, another has not changed: it goes on seeing what it did. *)
LEMMA OthersMeetCommit ==
    ASSUME IInv, NEW m \in Runners, Commit(m), NEW n \in Runners, n # m
    PROVE  Runner(n)'
<1>1. /\ schema' = view[m]
      /\ view' = [p \in Runners |->
            IF line'[p] = 0 THEN {}
            ELSE (view[p] \ (schema \ view[m])) \union (view[m] \ schema)]
      /\ orders' = orders \/ orders' = {}
      /\ disturbed' = [p \in Runners |-> p # m]
      /\ plan' = plan /\ upwards' = upwards
      /\ at' = [at EXCEPT ![m] = 1]
      /\ line' = [line EXCEPT ![m] = 0]
      /\ locks' = [locks EXCEPT ![m] = {}]
      /\ line[m] > 0
  BY DEF Commit, Ends
<1>2. /\ plan'[n] = plan[n] /\ upwards'[n] = upwards[n] /\ at'[n] = at[n]
      /\ line'[n] = line[n] /\ locks'[n] = locks[n]
      /\ line[n] > 0 => view'[n] = (view[n] \ (schema \ view[m])) \union (view[m] \ schema)
      /\ disturbed'[n] = TRUE
  <2>1. /\ plan'[n] = plan[n] /\ upwards'[n] = upwards[n] /\ at'[n] = at[n]
        /\ line'[n] = line[n] /\ locks'[n] = locks[n] /\ disturbed'[n] = TRUE
    BY <1>1 DEF IInv, Types
  <2>2. ASSUME line[n] > 0
        PROVE  view'[n] = (view[n] \ (schema \ view[m])) \union (view[m] \ schema)
    <3>1. line'[n] # 0  BY <2>1, <2>2
    <3> QED  BY <1>1, <3>1
  <2> QED  BY <2>1, <2>2
<1>3. /\ \A k, i : Did(n, k, i)' <=> Did(n, k, i)
      /\ \A o : Made(n, o)' <=> Made(n, o)
      /\ \A o : Took(n, o)' <=> Took(n, o)
  BY <1>2, DidKept
<1>4. Runner(n) /\ Runner(m)  BY DEF IInv
<1>5. schema \subseteq Objects /\ view[m] \subseteq Objects /\ view[n] \subseteq Objects
  BY DEF IInv, Types
<1>6. locks[n] \intersect locks[m] = {}  BY DEF IInv, Exclusive
<1>7. \A o \in Objects : o \in view[m] /\ o \notin schema => Made(m, o)
  BY <1>1, <1>4 DEF Runner, Seen
<1>8. \A o \in Objects : o \in schema /\ o \notin view[m] => Took(m, o)
  BY <1>1, <1>4 DEF Runner, Seen
<1>9. \A o \in Objects : ~ (o \in view[m] <=> o \in schema) => TableOf(o) \in locks[m]
  BY <1>1, <1>4, <1>7, <1>8 DEF Runner, Holding
<1>10. Placed(n)'  BY <1>2, <1>4 DEF Runner, Placed
<1>11. Holding(n)' /\ Locked(n)'  BY <1>2, <1>3, <1>4, LockedKept DEF Runner, Holding
<1>12. Current(n)'  BY <1>2 DEF Current
<1>13. FittingView(n)'
  <2>1. SUFFICES ASSUME line[n] > 0, NEW o \in view'[n]
                 PROVE  Fit(orders', o)
    BY <1>2 DEF FittingView
  <2>2. o \in view[n] \/ o \in view[m]  BY <1>2, <2>1
  <2>3. Fit(orders, o)  BY <1>1, <1>4, <2>1, <2>2 DEF Runner, FittingView
  <2> QED  BY <1>1, <2>3 DEF Fit
<1>14. ASSUME line[n] > 0
       PROVE  (Seen(n) /\ Fresh(n) /\ Dropping(n))'
  <2>1. \A o \in Objects : Made(n, o) \/ Took(n, o) => (o \in view[m] <=> o \in schema)
    BY <1>4, <1>6, <1>9, <1>14 DEF Runner, Holding
  <2>2. \A o \in Objects : o \in view[n] <=> \/ o \in schema /\ ~ Took(n, o)
                                             \/ Made(n, o) /\ (upwards[n] => ~ Took(n, o))
    BY <1>4, <1>14 DEF Runner, Seen
  <2>3. Seen(n)'
    <3>1. ASSUME NEW o \in Objects
          PROVE  o \in view'[n] <=> \/ o \in view[m] /\ ~ Took(n, o)
                                    \/ Made(n, o) /\ (upwards[n] => ~ Took(n, o))
      BY <1>2, <1>14, <2>1, <2>2
    <3> QED  BY <3>1, <1>1, <1>2, <1>3 DEF Seen
  <2>4. Fresh(n)'
    <3>1. SUFFICES ASSUME upwards[n], NEW o \in Objects, Made(n, o), o # "uuid_ossp"
                   PROVE  o \notin view[m] /\ TableOf(o) \in view'[n]
      BY <1>1, <1>2, <1>3 DEF Fresh
    <3>2. o \notin schema /\ TableOf(o) \in view[n] /\ TableOf(o) \in locks[n]
      BY <1>4, <1>14, <3>1 DEF Runner, Fresh, Holding
    <3>3. o \notin view[m]  BY <2>1, <3>1, <3>2
    <3>4. TableOf(TableOf(o)) = TableOf(o)  BY TableOfOwned
    <3>5. TableOf(o) \in view[m] <=> TableOf(o) \in schema
      BY <1>5, <1>6, <1>9, <3>2, <3>4
    <3>6. TableOf(o) \in view'[n]  BY <1>2, <1>14, <3>2, <3>5
    <3> QED  BY <3>3, <3>6
  <2>5. Dropping(n)'
    <3>1. SUFFICES ASSUME ~ upwards[n]
                   PROVE  /\ \A k \in 1..5 : \A i \in 1..Length[k] :
                                Did(n, k, i) => Down[k][i].drops \subseteq view[m]
                          /\ Did(n, 1, 9) => "file_records" \notin view[m]
      BY <1>1, <1>2, <1>3 DEF Dropping
    <3>2. /\ \A k \in 1..5 : \A i \in 1..Length[k] : Did(n, k, i) => Down[k][i].drops \subseteq schema
          /\ Did(n, 1, 9) => "file_records" \notin schema
      BY <1>4, <1>14, <3>1 DEF Runner, Dropping
    <3>3. ASSUME NEW k \in 1..5, NEW i \in 1..Length[k], Did(n, k, i), NEW o \in Down[k][i].drops
          PROVE  o \in view[m]
      <4>1. o \in schema /\ o \in Objects  BY <1>5, <3>2, <3>3
      <4>2. Took(n, o)  BY <3>1, <3>3 DEF Took, Takes, Scripts
      <4> QED  BY <2>1, <4>1, <4>2
    <3>4. ASSUME Did(n, 1, 9), "file_records" \in view[m]
          PROVE  FALSE
      <4>1. "file_records" \notin schema /\ "file_records" \in Objects
        BY <3>2, <3>4, Names, NamesAreObjects
      <4>2. Made(m, "file_records")  BY <1>7, <3>4, <4>1
      <4>3. upwards[m]
        <5>1. CASE ~ upwards[m]
          <6>1. "file_records" = "UQ_key"  BY <4>1, <4>2, <5>1, CommitDownView
          <6> QED  BY <6>1
        <5> QED  BY <5>1
      <4>4. 5 \in ToSet(plan[m])
        <5>1. PICK k \in 1..5 : \E i \in 1..Length[k] : Did(m, k, i) /\ "file_records" \in Up[k][i].creates
          BY <4>2, <4>3 DEF Made, Scripts
        <5>2. k \in ToSet(plan[m]) /\ "file_records" \in Makes[k]  BY <5>1, AllDone, UpMakes
        <5> QED  BY <5>2, MadeOnce, Names
      <4>5. Made(m, "avatar_id")
        <5>1. 7 \in 1..Length[5]  BY DEF Length
        <5>2. "avatar_id" \in Up[5][7].creates  BY Script5 DEF Create
        <5> QED  BY <4>3, <4>4, <5>1, <5>2, AllDone DEF Made, Scripts
      <4>6. "users" \in locks[m]
        BY <1>1, <1>4, <4>5, Names, NamesAreObjects DEF Runner, Holding
      <4>7. Did(n, 1, 4)
        <5>1. line[n] \in Nat /\ Length[1] = 9  BY DEF IInv, Types, Length
        <5> QED  BY <3>4, <5>1 DEF Did
      <4>8. Took(n, "users")
        <5>1. 4 \in 1..Length[1] /\ 1 \in 1..5  BY DEF Length
        <5>2. "users" \in Takes(Down[1][4])  BY Script1, TakesOf
        <5> QED  BY <3>1, <4>7, <5>1, <5>2 DEF Took, Scripts
      <4>9. "users" \in locks[n]
        BY <1>4, <1>14, <4>8, Names, NamesAreObjects DEF Runner, Holding
      <4> QED  BY <4>6, <4>9, <1>6
    <3> QED  BY <3>1, <3>3, <3>4
  <2> QED  BY <2>3, <2>4, <2>5
<1>15. line[n] = 0 \/ line[n] > 0  BY DEF IInv, Types
<1>16. line[n] = 0 => (Seen(n) /\ Fresh(n) /\ Dropping(n))'
  BY <1>2 DEF Seen, Fresh, Dropping
<1> QED
  BY <1>10, <1>11, <1>12, <1>13, <1>14, <1>15, <1>16 DEF Runner

(* A commit keeps the invariant. *)
LEMMA CommitPreserves ==
    ASSUME IInv, NEW m \in Runners, Commit(m)
    PROVE  IInv'
<1>1. /\ schema' = view[m]
      /\ view' = [p \in Runners |->
            IF line'[p] = 0 THEN {}
            ELSE (view[p] \ (schema \ view[m])) \union (view[m] \ schema)]
      /\ orders' = IF "orders" \in view[m] THEN orders ELSE {}
      /\ disturbed' = [p \in Runners |-> p # m]
      /\ plan' = plan /\ upwards' = upwards
      /\ at' = [at EXCEPT ![m] = 1]
      /\ line' = [line EXCEPT ![m] = 0]
      /\ locks' = [locks EXCEPT ![m] = {}]
      /\ failed' = [failed EXCEPT ![m] = "no"]
      /\ taken' = taken
      /\ line[m] > 0
  BY DEF Commit, Ends
<1>2. Exact' /\ applied' \in Seq(1..5)
  BY CommitUpIsExact, CommitDownIsExact
<1>3. Types'
  <2>1. view[m] \subseteq Objects  BY DEF IInv, Types
  <2>2. view' \in [Runners -> SUBSET Objects]  BY <1>1, <2>1 DEF IInv, Types
  <2> QED  BY <1>1, <1>2, <2>1, <2>2 DEF IInv, Types
<1>4. Exclusive'  BY <1>1 DEF IInv, Types, Exclusive
<1>5. Fitting'
  <2>1. \A o \in view[m] : Fit(orders, o)  BY <1>1 DEF IInv, Runner, FittingView
  <2> QED  BY <1>1, <2>1 DEF Fitting, Fit
<1>6. Runner(m)'
  <2>1. line'[m] = 0 /\ at'[m] = 1 /\ locks'[m] = {} /\ failed'[m] = "no"
    BY <1>1 DEF IInv, Types
  <2> QED  BY <2>1, RunnerAtRest DEF Current
<1>7. ASSUME NEW c \in Clients
      PROVE  Served(c)'
  <2>1. \A n \in Runners : locks'[n] \subseteq locks[n]  BY <1>1 DEF IInv, Types
  <2>2. Runner(m) /\ Served(c) /\ taken[c] \in 0..4 /\ schema \subseteq Objects
    BY DEF IInv, Types
  <2>3. ASSUME NEW i \in 1..taken[c]
        PROVE  OrderTables[i] \in view[m]
    <3>1. OrderTables[i] \in schema /\ OrderTables[i] \in Objects /\ OrderTables[i] \notin locks[m]
      BY <2>2 DEF Served
    <3>2. TableOf(OrderTables[i]) = OrderTables[i]  BY <2>2, OrderTablesAre
    <3>3. ~ Took(m, OrderTables[i])  BY <1>1, <2>2, <3>1, <3>2 DEF Runner, Holding
    <3> QED  BY <1>1, <2>2, <3>1, <3>3 DEF Runner, Seen
  <2> QED  BY <1>1, <2>1, <2>2, <2>3 DEF Served
<1> QED  BY <1>2, <1>3, <1>4, <1>5, <1>6, <1>7, OthersMeetCommit DEF IInv

-----------------------------------------------------------------------------
(* A statement fails *)

(* What there is to refer to. *)
LEMMA RefsAre ==
    /\ Refs("products") = {"uuid_ossp"} /\ Refs("order_items") = {"uuid_ossp"}
    /\ Refs("users") = {"uuid_ossp"} /\ Refs("orders") = {"uuid_ossp", "order_status"}
    /\ Refs("FK_item_product") = {"products"} /\ Refs("FK_item_order") = {"orders"}
    /\ Refs("FK_order_user") = {"users"} /\ Refs("role") = {"users_role"}
    /\ Refs("file_records") = {"uuid_ossp", "entity_type", "file_status", "visibility"}
    /\ \A o : o \notin {"products", "order_items", "users", "orders", "FK_item_product",
                        "FK_item_order", "FK_order_user", "role", "file_records"} => Refs(o) = {}
BY DEF Refs, References

(* What has no table is its own; the columns, indexes and keys are on one each. *)
LEMMA TablesAre ==
    /\ \A o \in {"uuid_ossp", "order_status", "users_role", "entity_type", "file_status",
                 "visibility", "products", "order_items", "orders", "users", "file_records"} :
          TableOf(o) = o
    /\ \A o \in {"UQ_key", "FK_order_user", "idx_status", "idx_user_key"} : TableOf(o) = "orders"
    /\ \A o \in {"FK_item_product", "FK_item_order"} : TableOf(o) = "order_items"
    /\ \A o \in {"password_hash", "role", "avatar_id"} : TableOf(o) = "users"
    /\ \A o \in {"idx_owner", "idx_entity"} : TableOf(o) = "file_records"
    /\ TableOf("image_file_id") = "products"
<1>1. {"products", "order_items", "orders", "users", "file_records"} \subseteq DOMAIN OwnedBy
  BY TakesOf
<1>2. /\ {"UQ_key", "FK_order_user", "idx_status", "idx_user_key"} \subseteq OwnedBy["orders"]
      /\ {"FK_item_product", "FK_item_order"} \subseteq OwnedBy["order_items"]
      /\ {"password_hash", "role", "avatar_id"} \subseteq OwnedBy["users"]
      /\ {"idx_owner", "idx_entity"} \subseteq OwnedBy["file_records"]
      /\ "image_file_id" \in OwnedBy["products"]
  BY DEF OwnedBy
<1>3. \A o \in {"uuid_ossp", "order_status", "users_role", "entity_type", "file_status", "visibility"} :
         TableOf(o) = o
  BY DEF TableOf, OwnedBy
<1> QED  BY <1>1, <1>2, <1>3, TableOfOwned

(* No statement of up makes what one before it has made. *)
LEMMA MadeByOne ==
    \A k \in 1..5 : \A h, i \in 1..Length[k] :
       h # i => Up[k][h].creates \intersect Up[k][i].creates = {}
<1> DEFINE P(k) == \A h, i \in 1..Length[k] :
                      h # i => Up[k][h].creates \intersect Up[k][i].creates = {}
<1>1. P(1)  BY Script1 DEF Length, Create
<1>2. P(2)  BY DEF Length
<1>3. P(3)  BY Script3 DEF Length, Create, Drop
<1>4. P(4)  BY Script4 DEF Length, Create
<1>5. P(5)  BY Script5 DEF Length, Create
<1> HIDE DEF P
<1>6. \A k \in 1..5 : P(k)  BY <1>1, <1>2, <1>3, <1>4, <1>5
<1> QED  BY <1>6 DEF P

(* What an object needs is made before it, and never dropped by up. *)
LEMMA MadeInTime ==
    \A k \in 1..5 : \A i \in 1..Length[k] : \A o \in Up[k][i].creates :
       \A r \in Refs(o) \union {TableOf(o)} :
          \/ r = o
          \/ /\ r # "UQ_key"
             /\ \/ \E j \in 1..(k - 1) : r \in Makes[j]
                \/ \E h \in 1..i : r \in Up[k][h].creates
<1> DEFINE P(k) == \A i \in 1..Length[k] : \A o \in Up[k][i].creates :
                      \A r \in Refs(o) \union {TableOf(o)} :
                         \/ r = o
                         \/ /\ r # "UQ_key"
                            /\ \/ \E j \in 1..(k - 1) : r \in Makes[j]
                               \/ \E h \in 1..i : r \in Up[k][h].creates
<1>1. P(1)
  <2> DEFINE Q(i) == \A o \in Up[1][i].creates : \A r \in Refs(o) \union {TableOf(o)} :
                        r = o \/ (r # "UQ_key" /\ \E h \in 1..i : r \in Up[1][h].creates)
  <2>0. /\ Up[1][1].creates = {"uuid_ossp"} /\ Up[1][2].creates = {"products"}
        /\ Up[1][3].creates = {"order_items"} /\ Up[1][4].creates = {"order_status"}
        /\ Up[1][5].creates = {"orders", "UQ_key"} /\ Up[1][6].creates = {"users"}
        /\ Up[1][7].creates = {"FK_item_product"} /\ Up[1][8].creates = {"FK_item_order"}
        /\ Up[1][9].creates = {"FK_order_user"}
    BY Script1 DEF Create
  <2>1. Q(1)  BY <2>0, RefsAre, TablesAre
  <2>2. Q(2)  BY <2>0, RefsAre, TablesAre
  <2>3. Q(3)  BY <2>0, RefsAre, TablesAre
  <2>4. Q(4)  BY <2>0, RefsAre, TablesAre
  <2>5. Q(5)  BY <2>0, RefsAre, TablesAre
  <2>6. Q(6)  BY <2>0, RefsAre, TablesAre
  <2>7. Q(7)  BY <2>0, RefsAre, TablesAre
  <2>8. Q(8)  BY <2>0, RefsAre, TablesAre
  <2>9. Q(9)  BY <2>0, RefsAre, TablesAre
  <2> HIDE DEF Q
  <2>10. \A i \in 1..9 : Q(i)  BY <2>1, <2>2, <2>3, <2>4, <2>5, <2>6, <2>7, <2>8, <2>9
  <2> QED  BY <2>10 DEF Q, Length
<1>2. P(2)
  <2>1. Up[2][1].creates = {"idx_status"} /\ Length[2] = 1  BY Script2 DEF Create, Length
  <2>2. Refs("idx_status") = {} /\ TableOf("idx_status") = "orders"  BY RefsAre, TablesAre
  <2> QED  BY <2>1, <2>2, Names
<1>3. P(3)
  <2>1. /\ Up[3][1].creates = {} /\ Up[3][2].creates = {"idx_user_key"} /\ Length[3] = 2
    BY Script3 DEF Create, Drop, Length
  <2>2. Refs("idx_user_key") = {} /\ TableOf("idx_user_key") = "orders"  BY RefsAre, TablesAre
  <2> QED  BY <2>1, <2>2, Names
<1>4. P(4)
  <2>1. /\ Up[4][1].creates = {"users_role"} /\ Up[4][2].creates = {"password_hash"}
        /\ Up[4][3].creates = {"role"} /\ Length[4] = 3
    BY Script4 DEF Create, Length
  <2> QED  BY <2>1, RefsAre, TablesAre, Names
<1>5. P(5)
  <2> DEFINE Q(i) == \A o \in Up[5][i].creates : \A r \in Refs(o) \union {TableOf(o)} :
                        r = o \/ (r # "UQ_key" /\ (r \in Makes[1] \/ \E h \in 1..i : r \in Up[5][h].creates))
  <2>0. /\ Up[5][1].creates = {"entity_type"} /\ Up[5][2].creates = {"file_status"}
        /\ Up[5][3].creates = {"visibility"} /\ Up[5][4].creates = {"file_records"}
        /\ Up[5][5].creates = {"idx_owner"} /\ Up[5][6].creates = {"idx_entity"}
        /\ Up[5][7].creates = {"avatar_id"} /\ Up[5][8].creates = {"image_file_id"}
    BY Script5 DEF Create
  <2>1. Q(1)  BY <2>0, RefsAre, TablesAre
  <2>2. Q(2)  BY <2>0, RefsAre, TablesAre
  <2>3. Q(3)  BY <2>0, RefsAre, TablesAre
  <2>4. Q(4)  BY <2>0, RefsAre, TablesAre, Names
  <2>5. Q(5)  BY <2>0, RefsAre, TablesAre
  <2>6. Q(6)  BY <2>0, RefsAre, TablesAre
  <2>7. Q(7)  BY <2>0, RefsAre, TablesAre, Names
  <2>8. Q(8)  BY <2>0, RefsAre, TablesAre, Names
  <2> HIDE DEF Q
  <2>9. \A i \in 1..8 : Q(i)  BY <2>1, <2>2, <2>3, <2>4, <2>5, <2>6, <2>7, <2>8
  <2> QED  BY <2>9 DEF Q, Length
<1> HIDE DEF P
<1>6. \A k \in 1..5 : P(k)  BY <1>1, <1>2, <1>3, <1>4, <1>5
<1> QED  BY <1>6 DEF P

(* What an object needs goes no sooner than the object. *)
LEMMA GoneInTime ==
    \A n \in 1..5 : \A h \in 1..Length[n] : \A o : \A r \in Refs(o) :
       (\E j \in 1..n : o \in Makes[j]) /\ r \in Takes(Down[n][h])
          => \E g \in 1..h : o \in Takes(Down[n][g])
<1> DEFINE P(n) == \A h \in 1..Length[n] : \A o : \A r \in Refs(o) :
                      (\E j \in 1..n : o \in Makes[j]) /\ r \in Takes(Down[n][h])
                         => \E g \in 1..h : o \in Takes(Down[n][g])
<1>0. \A o : \A r \in Refs(o) :
         \/ o \in {"products", "order_items", "users"} /\ r = "uuid_ossp"
         \/ o = "orders" /\ r \in {"uuid_ossp", "order_status"}
         \/ o = "FK_item_product" /\ r = "products"
         \/ o = "FK_item_order" /\ r = "orders"
         \/ o = "FK_order_user" /\ r = "users"
         \/ o = "role" /\ r = "users_role"
         \/ o = "file_records" /\ r \in {"uuid_ossp", "entity_type", "file_status", "visibility"}
  BY RefsAre
<1>1. P(1)
  <2>1. /\ Takes(Down[1][1]) = {"FK_order_user"} /\ Takes(Down[1][2]) = {"FK_item_order"}
        /\ Takes(Down[1][3]) = {"FK_item_product"}
        /\ "users" \in Takes(Down[1][4]) /\ "orders" \in Takes(Down[1][5])
        /\ Takes(Down[1][6]) = {"order_status"}
        /\ "order_items" \in Takes(Down[1][7]) /\ "products" \in Takes(Down[1][8])
        /\ Takes(Down[1][9]) = {"uuid_ossp"}
    BY Script1, TakesOf
  <2>2. /\ \A r \in Takes(Down[1][4]) : r \notin {"uuid_ossp", "order_status", "products", "orders"}
        /\ \A r \in Takes(Down[1][5]) : r \notin {"uuid_ossp", "order_status", "products", "users"}
        /\ \A r \in Takes(Down[1][7]) : r \notin {"uuid_ossp", "order_status", "products", "orders", "users"}
        /\ \A r \in Takes(Down[1][8]) : r \notin {"uuid_ossp", "order_status", "orders", "users"}
    BY Script1, TakesOf DEF OwnedBy
  <2>3. "role" \notin Makes[1] /\ "file_records" \notin Makes[1]  BY DEF Makes
  <2>4. SUFFICES ASSUME NEW h \in 1..9, NEW o, NEW r \in Refs(o), o \in Makes[1],
                        r \in Takes(Down[1][h])
                 PROVE  \E g \in 1..h : o \in Takes(Down[1][g])
    BY DEF Length
  <2>5. CASE r = "uuid_ossp"
    <3>1. h = 9  BY <2>1, <2>2, <2>4, <2>5
    <3>2. o \in {"products", "order_items", "users", "orders"}  BY <1>0, <2>3, <2>4, <2>5
    <3> QED  BY <2>1, <3>1, <3>2
  <2>6. CASE r = "order_status"
    <3>1. h = 6 /\ o = "orders"  BY <1>0, <2>1, <2>2, <2>4, <2>6
    <3> QED  BY <2>1, <3>1
  <2>7. CASE r = "products"
    <3>1. h = 8 /\ o = "FK_item_product"  BY <1>0, <2>1, <2>2, <2>4, <2>7
    <3> QED  BY <2>1, <3>1
  <2>8. CASE r = "orders"
    <3>1. h = 5 /\ o = "FK_item_order"  BY <1>0, <2>1, <2>2, <2>4, <2>8
    <3> QED  BY <2>1, <3>1
  <2>9. CASE r = "users"
    <3>1. h = 4 /\ o = "FK_order_user"  BY <1>0, <2>1, <2>2, <2>4, <2>9
    <3> QED  BY <2>1, <3>1
  <2> QED  BY <1>0, <2>3, <2>4, <2>5, <2>6, <2>7, <2>8, <2>9
<1>2. P(2)
  <2>1. Takes(Down[2][1]) = {"idx_status"} /\ Length[2] = 1  BY Script2, TakesOf DEF Length
  <2> QED  BY <1>0, <2>1
<1>3. P(3)
  <2>1. Takes(Down[3][1]) = {"idx_user_key"} /\ Takes(Down[3][2]) = {} /\ Length[3] = 2
    BY Script3, TakesOf DEF Length, Create, Takes, Owned
  <2> QED  BY <1>0, <2>1
<1>4. P(4)
  <2>1. /\ Takes(Down[4][1]) = {"role"} /\ Takes(Down[4][2]) = {"password_hash"}
        /\ Takes(Down[4][3]) = {"users_role"} /\ Length[4] = 3
    BY Script4, TakesOf DEF Length
  <2> QED  BY <1>0, <2>1
<1>5. P(5)
  <2>1. /\ Takes(Down[5][1]) = {"image_file_id"} /\ Takes(Down[5][2]) = {"avatar_id"}
        /\ Takes(Down[5][3]) = {"idx_entity"} /\ Takes(Down[5][4]) = {"idx_owner"}
        /\ Takes(Down[5][5]) = {"file_records", "idx_owner", "idx_entity"}
        /\ Takes(Down[5][6]) = {"visibility"} /\ Takes(Down[5][7]) = {"file_status"}
        /\ Takes(Down[5][8]) = {"entity_type"} /\ Length[5] = 8
    BY Script5, TakesOf DEF OwnedBy, Length
  <2> QED  BY <1>0, <2>1
<1> HIDE DEF P
<1>6. \A n \in 1..5 : P(n)  BY <1>1, <1>2, <1>3, <1>4, <1>5
<1> QED  BY <1>6 DEF P

(* Down drops one object at a time, of its own migration, and none twice. *)
LEMMA DownDrops ==
    \A n \in 1..5 : \A i \in 1..Length[n] :
       \A d \in Down[n][i].drops : /\ d \in Makes[n] /\ (d = "UQ_key" => n < 3)
                                   /\ \A h \in 1..(i - 1) : d \notin Takes(Down[n][h])
<1> DEFINE P(n) == \A i \in 1..Length[n] : \A d \in Down[n][i].drops :
                      /\ d \in Makes[n] /\ (d = "UQ_key" => n < 3)
                      /\ \A h \in 1..(i - 1) : d \notin Takes(Down[n][h])
<1>1. P(1)
  <2> DEFINE Q(i) == \A d \in Down[1][i].drops :
                        d \in Makes[1] /\ \A h \in 1..(i - 1) : d \notin Takes(Down[1][h])
  <2>1. /\ Takes(Down[1][1]) = {"FK_order_user"} /\ Takes(Down[1][2]) = {"FK_item_order"}
        /\ Takes(Down[1][3]) = {"FK_item_product"}
        /\ Takes(Down[1][4]) = {"users", "password_hash", "role", "avatar_id"}
        /\ Takes(Down[1][5]) = {"orders", "UQ_key", "FK_order_user", "idx_status", "idx_user_key"}
        /\ Takes(Down[1][6]) = {"order_status"}
        /\ Takes(Down[1][7]) = {"order_items", "FK_item_product", "FK_item_order"}
        /\ Takes(Down[1][8]) = {"products", "image_file_id"}
    BY Script1, TakesOf DEF OwnedBy
  <2>2. /\ Down[1][1].drops = {"FK_order_user"} /\ Down[1][2].drops = {"FK_item_order"}
        /\ Down[1][3].drops = {"FK_item_product"} /\ Down[1][4].drops = {"users"}
        /\ Down[1][5].drops = {"orders"} /\ Down[1][6].drops = {"order_status"}
        /\ Down[1][7].drops = {"order_items"} /\ Down[1][8].drops = {"products"}
        /\ Down[1][9].drops = {"uuid_ossp"}
    BY Script1 DEF Drop
  <2>3. /\ {"FK_order_user", "FK_item_order", "FK_item_product", "users", "orders",
            "order_status", "order_items", "products", "uuid_ossp"} \subseteq Makes[1]
    BY DEF Makes
  <2>4. Q(1) /\ Q(2) /\ Q(3)  BY <2>1, <2>2, <2>3
  <2>5. Q(4)  BY <2>1, <2>2, <2>3
  <2>6. Q(5)  BY <2>1, <2>2, <2>3
  <2>7. Q(6)  BY <2>1, <2>2, <2>3
  <2>8. Q(7)  BY <2>1, <2>2, <2>3
  <2>9. Q(8)  BY <2>1, <2>2, <2>3
  <2>10. Q(9)  BY <2>1, <2>2, <2>3
  <2> HIDE DEF Q
  <2>11. \A i \in 1..9 : Q(i)  BY <2>4, <2>5, <2>6, <2>7, <2>8, <2>9, <2>10
  <2> QED  BY <2>11 DEF Q, Length
<1>2. P(2)  BY Script2 DEF Length, Drop, Makes
<1>3. P(3)  BY Script3 DEF Length, Drop, Create, Makes
<1>4. P(4)
  <2>1. /\ Takes(Down[4][1]) = {"role"} /\ Takes(Down[4][2]) = {"password_hash"} /\ Length[4] = 3
    BY Script4, TakesOf DEF Length
  <2> QED  BY <2>1, Script4 DEF Drop, Makes
<1>5. P(5)
  <2> DEFINE Q(i) == \A d \in Down[5][i].drops :
                        /\ d \in Makes[5] /\ d # "UQ_key"
                        /\ \A h \in 1..(i - 1) : d \notin Takes(Down[5][h])
  <2>1. /\ Takes(Down[5][1]) = {"image_file_id"} /\ Takes(Down[5][2]) = {"avatar_id"}
        /\ Takes(Down[5][3]) = {"idx_entity"} /\ Takes(Down[5][4]) = {"idx_owner"}
        /\ Takes(Down[5][5]) = {"file_records", "idx_owner", "idx_entity"}
        /\ Takes(Down[5][6]) = {"visibility"} /\ Takes(Down[5][7]) = {"file_status"}
    BY Script5, TakesOf DEF OwnedBy
  <2>2. /\ Down[5][1].drops = {"image_file_id"} /\ Down[5][2].drops = {"avatar_id"}
        /\ Down[5][3].drops = {"idx_entity"} /\ Down[5][4].drops = {"idx_owner"}
        /\ Down[5][5].drops = {"file_records"} /\ Down[5][6].drops = {"visibility"}
        /\ Down[5][7].drops = {"file_status"} /\ Down[5][8].drops = {"entity_type"}
    BY Script5 DEF Drop
  <2>3. /\ {"image_file_id", "avatar_id", "idx_entity", "idx_owner", "file_records",
            "visibility", "file_status", "entity_type"} \subseteq Makes[5]
    BY DEF Makes
  <2>4. Q(1) /\ Q(2) /\ Q(3) /\ Q(4)  BY <2>1, <2>2, <2>3
  <2>5. Q(5) /\ Q(6)  BY <2>1, <2>2, <2>3
  <2>6. Q(7)  BY <2>1, <2>2, <2>3
  <2>7. Q(8)  BY <2>1, <2>2, <2>3
  <2> HIDE DEF Q
  <2>8. \A i \in 1..8 : Q(i)  BY <2>4, <2>5, <2>6, <2>7
  <2> QED  BY <2>8 DEF Q, Length
<1> HIDE DEF P
<1>6. \A n \in 1..5 : P(n)  BY <1>1, <1>2, <1>3, <1>4, <1>5
<1> QED  BY <1>6 DEF P

(* What a run from the empty schema sees at statement i of migration k, *)
Before(k, i) ==
    {o \in Objects : /\ \/ \E j \in 1..(k - 1) : o \in Makes[j]
                        \/ \E h \in 1..(i - 1) : o \in Up[k][h].creates
                     /\ o = "UQ_key" => k < 3 \/ (k = 3 /\ i = 1)}

(* and what a revert of the n-th does there. *)
Left(n, i) ==
    {o \in Objects : /\ \E j \in 1..n : o \in Makes[j]
                     /\ o = "UQ_key" => n < 3
                     /\ \A h \in 1..(i - 1) : o \notin Takes(Down[n][h])}

(* In order, no statement of up can fail, if the rows fit what it makes. *)
LEMMA UpWorks ==
    ASSUME NEW k \in 1..5, NEW i \in 1..Length[k], NEW rows,
           \A o \in Up[k][i].creates : Fit(rows, o)
    PROVE  Works(Up[k][i], Before(k, i), rows)
<1> DEFINE st == Up[k][i]
           S == Before(k, i)
           T == After(st, S)
<1>0. Length[k] \in 1..9 /\ 1..(k - 1) \subseteq 1..5 /\ i \in 1..9  BY LengthIs
<1>1. st.creates \subseteq Makes[k] /\ Makes[k] \subseteq Objects  BY UpMakes, NamesAreObjects
<1>2. /\ k = 3 /\ i = 1 => st.drops = {"UQ_key"} /\ Takes(st) = {"UQ_key"} /\ st.creates = {}
      /\ ~ (k = 3 /\ i = 1) => st.drops = {} /\ Takes(st) = {}
  BY UpDrops, UpTakes
<1>3. T = (S \ Takes(st)) \union st.creates  BY AfterIs
<1>4. \A o : o \in S <=> /\ o \in Objects
                         /\ \/ \E j \in 1..(k - 1) : o \in Makes[j]
                            \/ \E h \in 1..(i - 1) : o \in Up[k][h].creates
                         /\ o = "UQ_key" => k < 3 \/ (k = 3 /\ i = 1)
  BY DEF Before
<1> HIDE DEF S, T, st
<1>5. st.creates \intersect S = {}
  <2>1. SUFFICES ASSUME NEW o \in st.creates, o \in S
                 PROVE  FALSE
    OBVIOUS
  <2>2. CASE \E j \in 1..(k - 1) : o \in Makes[j]
    BY <2>1, <2>2, <1>0, <1>1, MadeOnce
  <2>3. CASE \E h \in 1..(i - 1) : o \in Up[k][h].creates
    BY <2>1, <2>3, <1>0, MadeByOne DEF st
  <2> QED  BY <2>1, <2>2, <2>3, <1>4
<1>6. ASSUME NEW j \in 1..k, NEW h \in 1..Length[j], j < k \/ h <= i, NEW o \in Up[j][h].creates,
             NEW r \in Refs(o) \union {TableOf(o)}
      PROVE  r = o \/ (r \in T /\ (j = k => r \in S \union st.creates))
  <2>1. j \in 1..5 /\ Length[j] \in 1..9  BY LengthIs
  <2>2. CASE r = o  BY <2>2
  <2>3. CASE r # "UQ_key" /\ \E g \in 1..(j - 1) : r \in Makes[g]
    <3>1. PICK g \in 1..(j - 1) : r \in Makes[g]  BY <2>3
    <3>2. g \in 1..(k - 1) /\ g \in 1..5  BY <2>1, <3>1
    <3>3. r \in Objects  BY <3>1, <3>2, NamesAreObjects
    <3>4. r \in S  BY <1>4, <2>3, <3>1, <3>2, <3>3
    <3> QED  BY <3>4, <2>3, <1>2, <1>3
  <2>4. CASE r # "UQ_key" /\ \E g \in 1..h : r \in Up[j][g].creates
    <3>1. PICK g \in 1..h : r \in Up[j][g].creates  BY <2>4
    <3>2. g \in 1..Length[j]  BY <2>1, <3>1
    <3>3. r \in Makes[j] /\ r \in Objects  BY <2>1, <3>1, <3>2, UpMakes, NamesAreObjects
    <3>4. CASE j < k
      <4>1. j \in 1..(k - 1)  BY <2>1, <3>4
      <4>2. r \in S  BY <1>4, <2>4, <3>3, <4>1
      <4> QED  BY <4>2, <2>4, <1>2, <1>3
    <3>5. CASE j = k /\ g < i
      <4>1. g \in 1..(i - 1)  BY <1>0, <2>1, <3>2, <3>5
      <4>2. r \in S  BY <1>4, <2>4, <3>1, <3>3, <3>5, <4>1
      <4> QED  BY <4>2, <2>4, <1>2, <1>3
    <3>6. CASE j = k /\ g = i
      <4>1. r \in st.creates  BY <3>1, <3>6 DEF st
      <4> QED  BY <4>1, <1>3
    <3> QED  BY <3>4, <3>5, <3>6, <3>1, <1>0, <1>6, <2>1
  <2> QED  BY <2>1, <2>2, <2>3, <2>4, MadeInTime
<1>7. \A o \in st.creates : Refs(o) \union {TableOf(o)} \subseteq S \union st.creates
  BY <1>0, <1>6 DEF st
<1>8. st.drops \subseteq S
  <2>1. "UQ_key" \in Makes[1] /\ "UQ_key" \in Objects  BY Names, NamesAreObjects
  <2>2. k = 3 /\ i = 1 => "UQ_key" \in S  BY <1>4, <2>1
  <2> QED  BY <1>2, <2>2
<1>9. ASSUME NEW o \in T
      PROVE  Refs(o) \subseteq T
  <2>1. CASE o \in st.creates
    <3>1. \A r \in Refs(o) : r = o \/ r \in T  BY <2>1, <1>0, <1>6 DEF st
    <3> QED  BY <3>1
  <2>2. CASE \E j \in 1..(k - 1) : o \in Makes[j]
    <3>1. PICK j \in 1..(k - 1) : o \in Makes[j]  BY <2>2
    <3>2. j \in 1..5 /\ j \in 1..k /\ j < k  BY <1>0
    <3>3. PICK h \in 1..Length[j] : o \in Up[j][h].creates  BY <3>1, <3>2, UpMakes
    <3>4. \A r \in Refs(o) : r = o \/ r \in T  BY <3>2, <3>3, <1>6
    <3> QED  BY <3>4
  <2>3. CASE \E h \in 1..(i - 1) : o \in Up[k][h].creates
    <3>1. PICK h \in 1..(i - 1) : o \in Up[k][h].creates  BY <2>3
    <3>2. h \in 1..Length[k] /\ h <= i /\ k \in 1..k  BY <1>0
    <3>3. \A r \in Refs(o) : r = o \/ r \in T  BY <3>1, <3>2, <1>6
    <3> QED  BY <3>3
  <2> QED  BY <2>1, <2>2, <2>3, <1>3, <1>4
<1> QED  BY <1>5, <1>7, <1>8, <1>9 DEF Works, st, S, T

(* In order, no statement of down can fail, but for the one that makes the
   constraint again: that one by the rows. *)
LEMMA DownWorks ==
    ASSUME NEW n \in 1..5, NEW i \in 1..Length[n], NEW rows,
           n = 3 /\ i = 2 => Fit(rows, "UQ_key")
    PROVE  Works(Down[n][i], Left(n, i), rows)
<1> DEFINE st == Down[n][i]
           S == Left(n, i)
           T == After(st, S)
<1>0. Length[n] \in 1..9 /\ 1..n \subseteq 1..5 /\ i \in 1..9  BY LengthIs
<1>1. T = (S \ Takes(st)) \union st.creates  BY AfterIs
<1>2. \A o : o \in S <=> /\ o \in Objects
                         /\ \E j \in 1..n : o \in Makes[j]
                         /\ o = "UQ_key" => n < 3
                         /\ \A h \in 1..(i - 1) : o \notin Takes(Down[n][h])
  BY DEF Left
<1>3. st.creates # {} => n = 3 /\ i = 2 /\ st.creates = {"UQ_key"} /\ st.drops = {} /\ Takes(st) = {}
  <2>1. Owned({}) = {}  BY DEF Owned
  <2> QED  BY <2>1, DownMakes DEF Takes
<1>4. \A d \in st.drops : d \in S
  <2>1. Makes[n] \subseteq Objects /\ n \in 1..n  BY NamesAreObjects
  <2> QED  BY <1>2, <2>1, DownDrops
<1> HIDE DEF S, T
<1>5. "UQ_key" \in st.creates => "UQ_key" \notin S /\ "orders" \in S /\ Fit(rows, "UQ_key")
  <2>1. SUFFICES ASSUME n = 3, i = 2
                 PROVE  "UQ_key" \notin S /\ "orders" \in S
    BY <1>3
  <2>2. Takes(Down[3][1]) = {"idx_user_key"}  BY Script3, TakesOf
  <2>3. "orders" \in Objects /\ "orders" \in Makes[1]  BY Names, NamesAreObjects
  <2> QED  BY <1>2, <2>1, <2>2, <2>3
<1>6. Refs("UQ_key") = {} /\ TableOf("UQ_key") = "orders"  BY RefsAre, TablesAre
<1>7. ASSUME NEW o \in S, o \notin Takes(st), NEW r \in Refs(o)
      PROVE  r \in S /\ r \notin Takes(st)
  <2>1. PICK j \in 1..n : o \in Makes[j]  BY <1>2
  <2>2. j \in 1..5  BY <1>0
  <2>3. PICK h \in 1..Length[j] : o \in Up[j][h].creates  BY <2>1, <2>2, UpMakes
  <2>4. \A g \in 1..i : o \notin Takes(Down[n][g])
    <3>1. \A g \in 1..i : g = i \/ g \in 1..(i - 1)  BY <1>0
    <3> QED  BY <3>1, <1>2, <1>7
  <2>5. \A g \in 1..i : r \notin Takes(Down[n][g])
    <3>1. SUFFICES ASSUME NEW g \in 1..i, r \in Takes(Down[n][g])
                   PROVE  FALSE
      OBVIOUS
    <3>2. g \in 1..Length[n] /\ 1..g \subseteq 1..i  BY <1>0
    <3>3. PICK f \in 1..g : o \in Takes(Down[n][f])  BY <2>1, <3>1, <3>2, GoneInTime
    <3> QED  BY <2>4, <3>2, <3>3
  <2>6. \E g \in 1..n : r \in Makes[g]
    <3>1. CASE r = o  BY <2>1, <3>1
    <3>2. CASE \E g \in 1..(j - 1) : r \in Makes[g]  BY <2>2, <3>2
    <3>3. CASE \E g \in 1..h : r \in Up[j][g].creates
      <4>1. PICK g \in 1..h : r \in Up[j][g].creates  BY <3>3
      <4>2. g \in 1..Length[j]  BY <2>2, <2>3, LengthIs
      <4>3. r \in Makes[j]  BY <2>2, <4>1, <4>2, UpMakes
      <4> QED  BY <4>3
    <3> QED  BY <2>2, <2>3, <3>1, <3>2, <3>3, MadeInTime
  <2>7. r # "UQ_key"  BY RefsAre
  <2>8. r \in Objects  BY <2>6, <1>0, NamesAreObjects
  <2>9. i \in 1..i /\ 1..(i - 1) \subseteq 1..i  BY <1>0
  <2> QED  BY <1>2, <2>5, <2>6, <2>7, <2>8, <2>9
<1>8. ASSUME NEW o \in T
      PROVE  Refs(o) \subseteq T
  BY <1>1, <1>3, <1>6, <1>7
<1> HIDE DEF st
<1>9. st.creates \intersect S = {}  BY <1>3, <1>5
<1>10. \A o \in st.creates : Refs(o) \union {TableOf(o)} \subseteq S \union st.creates /\ Fit(rows, o)
  BY <1>3, <1>5, <1>6
<1> QED  BY <1>4, <1>8, <1>9, <1>10 DEF Works, st, S, T

(* The constraint is the harder one to fit; other objects have none. *)
LEMMA FitIs ==
    ASSUME NEW rows
    PROVE  /\ \A o : o \notin {"UQ_key", "idx_user_key"} => Fit(rows, o)
           /\ Fit(rows, "UQ_key") => Fit(rows, "idx_user_key")
           /\ rows = {} => \A o : Fit(rows, o)
BY DEF Fit

(* In order, with the records as they were, m sees what all statements before its
   own have made. *)
LEMMA SeesBefore ==
    ASSUME IInv, NEW m \in Runners, AtStatement(m), upwards[m], ~ disturbed[m], InOrder
    PROVE  /\ view[m] = Before(plan[m][at[m]], line[m])
           /\ \A a \in DOMAIN plan[m] : Len(applied) < plan[m][a]
<1> DEFINE n == Len(applied)
           k0 == plan[m][at[m]]
           l == line[m]
           P == ToSet(plan[m])
<1>1. /\ line[m] > 0 /\ at[m] \in DOMAIN plan[m] /\ plan[m] \in Seq(1..5) /\ k0 \in 1..5
      /\ l \in 1..Length[k0]
  BY Position
<1>2. /\ n \in 0..5 /\ ToSet(applied) = 1..n /\ Live(applied) = 1..n
  BY InOrderSets DEF IInv, Types, InOrder
<1>3. P = (1..5) \ (1..n)  BY <1>1, <1>2 DEF IInv, Runner, Current
<1>4. \A a, b \in DOMAIN plan[m] : a < b => plan[m][a] < plan[m][b]
  BY <1>1 DEF IInv, Runner, Placed, AtStatement
<1>5. DOMAIN plan[m] \subseteq Nat /\ \A a \in DOMAIN plan[m] : plan[m][a] \in 1..5  BY <1>1
<1>6. \A a \in DOMAIN plan[m] : plan[m][a] \in P  BY DEF ToSet
<1>7. \A k \in P : \E a \in DOMAIN plan[m] : plan[m][a] = k  BY DEF ToSet
<1>8. \A a \in DOMAIN plan[m] : n < plan[m][a]  BY <1>2, <1>3, <1>5, <1>6
<1>9. \A o \in Objects : o \in schema <=> (\E k \in 1..n : o \in Makes[k]) /\ (o = "UQ_key" => n < 3)
  BY <1>2, StandsInOrder DEF IInv, Exact
<1>10. \A o \in Objects : o \in view[m] <=> (o \in schema \/ Made(m, o)) /\ ~ Took(m, o)
  BY <1>1 DEF IInv, Runner, Seen
<1> HIDE DEF n, P
<1>11. ASSUME NEW k \in 1..5, NEW i \in 1..Length[k]
       PROVE  Did(m, k, i) <=> n < k /\ (k < k0 \/ (k = k0 /\ i < l))
  <2>0. Length[k] \in 1..9 /\ Length[k0] \in 1..9  BY <1>1, LengthIs
  <2>1. ASSUME Did(m, k, i)
        PROVE  n < k /\ (k < k0 \/ (k = k0 /\ i < l))
    <3>1. PICK a \in DOMAIN plan[m] : /\ plan[m][a] = k
                                      /\ a < at[m] \/ (a = at[m] /\ i \in 1..(l - 1))
      BY <2>1 DEF Did
    <3>2. n < k  BY <3>1, <1>8
    <3>3. a < at[m] => k < k0  BY <3>1, <1>1, <1>4
    <3>4. a = at[m] => k = k0  BY <3>1
    <3> QED  BY <2>0, <3>1, <3>2, <3>3, <3>4, <1>1
  <2>2. ASSUME n < k, k < k0
        PROVE  Did(m, k, i)
    <3>1. k \in P  BY <2>2, <1>2, <1>3
    <3>2. PICK a \in DOMAIN plan[m] : plan[m][a] = k  BY <3>1, <1>7
    <3>3. a # at[m]  BY <3>2, <2>2
    <3>4. a < at[m]
      <4>1. CASE at[m] < a
        <5>1. k0 < k  BY <3>2, <4>1, <1>1, <1>4
        <5> QED  BY <5>1, <2>2, <1>1
      <4>2. a \in Nat /\ at[m] \in Nat  BY <1>1, <1>5
      <4> QED  BY <3>3, <4>1, <4>2
    <3> QED  BY <3>2, <3>4 DEF Did
  <2>3. ASSUME k = k0, i < l
        PROVE  Did(m, k, i)
    <3>1. i \in 1..(l - 1)  BY <2>0, <2>3, <1>1
    <3> QED  BY <3>1, <2>3, <1>1 DEF Did
  <2> QED  BY <2>1, <2>2, <2>3
<1>12. n < k0  BY <1>1, <1>8
<1> HIDE DEF k0, l
<1>13. ASSUME NEW o \in Objects
       PROVE  Took(m, o) <=> o = "UQ_key" /\ n < 3 /\ (3 < k0 \/ (k0 = 3 /\ 1 < l))
  <2>1. \A k \in 1..5 : \A i \in 1..Length[k] :
           o \in Takes(Up[k][i]) <=> k = 3 /\ i = 1 /\ o = "UQ_key"
    BY UpTakes
  <2>2. 1 \in 1..Length[3] /\ 3 \in 1..5  BY DEF Length
  <2>3. Took(m, o) <=> o = "UQ_key" /\ Did(m, 3, 1)  BY <2>1, <2>2 DEF Took, Scripts
  <2>4. 3 < k0 \/ 3 = k0 <=> 3 < k0 \/ k0 = 3  OBVIOUS
  <2> QED  BY <2>2, <2>3, <1>11
<1>14. ASSUME NEW o \in Objects
       PROVE  Made(m, o) <=> \/ \E j \in 1..(k0 - 1) : n < j /\ o \in Makes[j]
                             \/ \E h \in 1..(l - 1) : o \in Up[k0][h].creates
  <2>0. Length[k0] \in 1..9  BY <1>1, LengthIs
  <2>1. ASSUME Made(m, o)
        PROVE  \/ \E j \in 1..(k0 - 1) : n < j /\ o \in Makes[j]
               \/ \E h \in 1..(l - 1) : o \in Up[k0][h].creates
    <3>1. PICK k \in 1..5 : \E i \in 1..Length[k] : Did(m, k, i) /\ o \in Up[k][i].creates
      BY <2>1 DEF Made, Scripts
    <3>2. PICK i \in 1..Length[k] : Did(m, k, i) /\ o \in Up[k][i].creates  BY <3>1
    <3>3. n < k /\ (k < k0 \/ (k = k0 /\ i < l))  BY <3>2, <1>11
    <3>4. o \in Makes[k]  BY <3>2, UpMakes
    <3>5. CASE k < k0
      <4>1. k \in 1..(k0 - 1)  BY <3>5, <1>1
      <4> QED  BY <4>1, <3>3, <3>4
    <3>6. CASE k = k0 /\ i < l
      <4>1. i \in 1..(l - 1)  BY <3>6, <1>1, <2>0
      <4> QED  BY <4>1, <3>2, <3>6
    <3> QED  BY <3>3, <3>5, <3>6
  <2>2. ASSUME NEW j \in 1..(k0 - 1), n < j, o \in Makes[j]
        PROVE  Made(m, o)
    <3>1. j \in 1..5 /\ j < k0  BY <1>1
    <3>2. PICK i \in 1..Length[j] : o \in Up[j][i].creates  BY <2>2, <3>1, UpMakes
    <3>3. Did(m, j, i)  BY <2>2, <3>1, <1>11
    <3> QED  BY <3>1, <3>2, <3>3 DEF Made, Scripts
  <2>3. ASSUME NEW h \in 1..(l - 1), o \in Up[k0][h].creates
        PROVE  Made(m, o)
    <3>1. h \in 1..Length[k0] /\ h < l  BY <1>1, <2>0
    <3>2. Did(m, k0, h)  BY <3>1, <1>1, <1>11, <1>12
    <3> QED  BY <2>3, <3>1, <3>2, <1>1 DEF Made, Scripts
  <2> QED  BY <2>1, <2>2, <2>3
<1>15. ASSUME NEW o \in Objects
       PROVE  o \in view[m] <=> o \in Before(k0, l)
  <2>1. l \in Int /\ k0 \in Int /\ 1 <= l  BY <1>1, LengthIs
  <2>2. (\E j \in 1..(k0 - 1) : o \in Makes[j]) <=>
           \/ \E j \in 1..n : o \in Makes[j]
           \/ \E j \in 1..(k0 - 1) : n < j /\ o \in Makes[j]
    BY <1>1, <1>2, <1>12
  <2>3. o = "UQ_key" => /\ \A j \in 1..5 : o \in Makes[j] => j = 1
                        /\ \A h \in 1..(l - 1) : o \in Up[k0][h].creates => k0 = 1
    <3>0. Length[k0] \in 1..9  BY <1>1, LengthIs
    <3>1. \A h \in 1..(l - 1) : h \in 1..Length[k0]  BY <3>0, <1>1
    <3>2. "UQ_key" \in Makes[1]  BY Names
    <3>3. \A j \in 1..5 : "UQ_key" \in Makes[j] => j = 1  BY <3>2, MadeOnce
    <3>4. \A h \in 1..(l - 1) : Up[k0][h].creates \subseteq Makes[k0]
      BY <3>1, <1>1, UpMakes
    <3>5. \A h \in 1..(l - 1) : "UQ_key" \in Up[k0][h].creates => k0 = 1
      BY <3>3, <3>4, <1>1
    <3> QED  BY <3>3, <3>5
  <2>4. CASE o # "UQ_key"
    BY <2>2, <2>4, <1>9, <1>10, <1>13, <1>14 DEF Before
  <2>5. CASE o = "UQ_key"
    <3>1. o \in Before(k0, l) <=>
             /\ \/ \E j \in 1..(k0 - 1) : o \in Makes[j]
                \/ \E h \in 1..(l - 1) : o \in Up[k0][h].creates
             /\ k0 < 3 \/ (k0 = 3 /\ l = 1)
      BY <2>5 DEF Before
    <3>2. k0 < 3 \/ (k0 = 3 /\ l = 1) <=> ~ (3 < k0 \/ (k0 = 3 /\ 1 < l))
      BY <2>1
    <3>3. CASE n < 3
      BY <2>2, <2>5, <3>1, <3>2, <3>3, <1>9, <1>10, <1>13, <1>14
    <3>4. CASE ~ (n < 3)
      <4>1. k0 > 3  BY <3>4, <1>2, <1>12, <2>1
      <4>2. o \notin schema  BY <2>5, <3>4, <1>9
      <4>3. ~ Made(m, o)
        <5>1. \A j \in 1..(k0 - 1) : n < j => o \notin Makes[j]
          BY <2>3, <2>5, <3>4, <1>1, <1>2
        <5>2. \A h \in 1..(l - 1) : o \notin Up[k0][h].creates  BY <2>3, <2>5, <4>1
        <5> QED  BY <5>1, <5>2, <1>14
      <4> QED  BY <4>1, <4>2, <4>3, <3>1, <1>10, <2>1
    <3> QED  BY <3>3, <3>4
  <2> QED  BY <2>4, <2>5
<1>16. view[m] \subseteq Objects /\ Before(k0, l) \subseteq Objects
  BY DEF IInv, Types, Before
<1>17. view[m] = Before(k0, l)  BY <1>15, <1>16
<1> QED  BY <1>8, <1>17 DEF k0, l, n

(* Reverting the last one, m sees what its statements have left. *)
LEMMA SeesLeft ==
    ASSUME IInv, NEW m \in Runners, AtStatement(m), ~ upwards[m], ~ disturbed[m], InOrder
    PROVE  /\ view[m] = Left(plan[m][at[m]], line[m])
           /\ plan[m] = <<plan[m][at[m]]>>
<1> DEFINE n == Len(applied)
           k0 == plan[m][at[m]]
           l == line[m]
<1>1. /\ line[m] > 0 /\ at[m] \in DOMAIN plan[m] /\ plan[m] \in Seq(1..5) /\ k0 \in 1..5
      /\ l \in 1..Length[k0]
  BY Position
<1>2. /\ n \in 0..5 /\ ToSet(applied) = 1..n /\ Live(applied) = 1..n /\ applied \in Seq(1..5)
  BY InOrderSets DEF IInv, Types, InOrder
<1>3. applied # <<>> /\ plan[m] = <<applied[n]>>  BY <1>1 DEF IInv, Runner, Current
<1>4. n \in DOMAIN applied /\ applied[n] = n  BY <1>2, <1>3 DEF InOrder
<1>5. plan[m] = <<n>> /\ at[m] = 1 /\ DOMAIN plan[m] = {1} /\ k0 = n  BY <1>1, <1>3, <1>4
<1>6. \A o \in Objects : o \in schema <=> (\E k \in 1..n : o \in Makes[k]) /\ (o = "UQ_key" => n < 3)
  BY <1>2, StandsInOrder DEF IInv, Exact
<1>7. \A o : ~ Made(m, o)  BY DownSoFar
<1>8. \A o \in Objects : o \in view[m] <=> o \in schema /\ ~ Took(m, o)
  BY <1>1, <1>7 DEF IInv, Runner, Seen
<1> HIDE DEF n
<1>9. \A k, i : Did(m, k, i) <=> k = n /\ i \in 1..(l - 1)  BY <1>5 DEF Did
<1>10. ASSUME NEW o
       PROVE  Took(m, o) <=> \E h \in 1..(l - 1) : o \in Takes(Down[n][h])
  <2>1. \A h \in 1..(l - 1) : h \in 1..Length[n]  BY <1>1, <1>5, LengthIs
  <2> QED  BY <2>1, <1>1, <1>5, <1>9 DEF Took, Scripts
<1>11. \A o \in Objects : o \in view[m] <=> o \in Left(n, l)  BY <1>6, <1>8, <1>10 DEF Left
<1>12. view[m] \subseteq Objects /\ Left(n, l) \subseteq Objects  BY DEF IInv, Types, Left
<1>13. view[m] = Left(n, l)  BY <1>11, <1>12
<1> QED  BY <1>5, <1>13

(* So a statement that nobody has disturbed fails for one reason. *)
LEMMA FailsForTheKeys ==
    ASSUME IInv, NEW m \in Runners, AtStatement(m), ~ Works(Statement(m), view[m], orders),
           ~ disturbed[m], InOrder
    PROVE  ~ upwards[m] /\ plan[m] = << 3 >> /\ ~ Fit(orders, "UQ_key")
<1> DEFINE k0 == plan[m][at[m]]
           l == line[m]
<1>1. /\ k0 \in 1..5 /\ l \in 1..Length[k0] /\ at[m] \in DOMAIN plan[m]
      /\ Statement(m) = Scripts(m)[k0][l]
  BY Position
<1>2. CASE upwards[m]
  <2>1. view[m] = Before(k0, l) /\ Len(applied) < k0 /\ Statement(m) = Up[k0][l]
    BY <1>1, <1>2, SeesBefore DEF Scripts
  <2> DEFINE n == Len(applied)
  <2>2. /\ n \in 0..5 /\ ToSet(applied) = 1..n /\ Live(applied) = 1..n
    BY InOrderSets DEF IInv, Types, InOrder
  <2>3. \A o \in Objects : o \in schema <=> (\E k \in 1..n : o \in Makes[k]) /\ (o = "UQ_key" => n < 3)
    BY <2>2, StandsInOrder DEF IInv, Exact
  <2>4. {"orders", "UQ_key"} \subseteq Objects /\ {"orders", "UQ_key"} \subseteq Makes[1]
    BY Names, NamesAreObjects
  <2>5. Up[k0][l].creates \subseteq Makes[k0]  BY <1>1, UpMakes
  <2> HIDE DEF n, k0, l
  <2>6. n = 0 => orders = {}
    <3>1. n = 0 => "orders" \notin schema  BY <2>3, <2>4
    <3> QED  BY <3>1 DEF IInv, Fitting
  <2>7. n \in 1..2 => Fit(orders, "UQ_key")
    <3>1. n \in 1..2 => "UQ_key" \in schema  BY <2>3, <2>4
    <3> QED  BY <3>1 DEF IInv, Fitting
  <2>8. \A o \in Up[k0][l].creates : Fit(orders, o)
    <3>1. SUFFICES ASSUME NEW o \in Up[k0][l].creates
                   PROVE  Fit(orders, o)
      OBVIOUS
    <3>2. CASE o = "UQ_key"
      <4>1. k0 = 1  BY <3>2, <2>4, <2>5, <1>1, MadeOnce
      <4>2. n = 0  BY <4>1, <2>1, <2>2 DEF n
      <4> QED  BY <4>2, <2>6, FitIs
    <3>3. CASE o = "idx_user_key"
      <4>1. k0 = 3  BY <3>3, <2>5, <1>1, MadeOnce, Names
      <4>2. n = 0 \/ n \in 1..2  BY <4>1, <2>1, <2>2 DEF n
      <4> QED  BY <3>3, <4>2, <2>6, <2>7, FitIs
    <3> QED  BY <3>2, <3>3, FitIs
  <2>9. Works(Up[k0][l], Before(k0, l), orders)  BY <1>1, <2>8, UpWorks
  <2> QED  BY <2>1, <2>9
<1>3. CASE ~ upwards[m]
  <2>1. view[m] = Left(k0, l) /\ plan[m] = <<k0>> /\ Statement(m) = Down[k0][l]
    BY <1>1, <1>3, SeesLeft DEF Scripts
  <2> HIDE DEF k0, l
  <2>2. k0 = 3 /\ ~ Fit(orders, "UQ_key")  BY <1>1, <2>1, DownWorks
  <2> QED  BY <1>3, <2>1, <2>2
<1> QED  BY <1>2, <1>3

(* A failing statement keeps the invariant. *)
LEMMA StatementFailsPreserves ==
    ASSUME IInv, NEW m \in Runners, StatementFails(m)
    PROVE  IInv'
<1>1. /\ AtStatement(m) /\ ~ Works(Statement(m), view[m], orders)
      /\ RolledBack(m, "statement") /\ disturbed' = disturbed
  BY DEF StatementFails, MayGoOn
<1>2. ~ disturbed[m] /\ InOrder => Reason(m, "statement")
  BY <1>1, FailsForTheKeys DEF Reason
<1>3. disturbed' = [disturbed EXCEPT ![m] = disturbed[m]] /\ disturbed[m] \in BOOLEAN
  BY <1>1 DEF IInv, Types
<1> QED  BY <1>1, <1>2, <1>3, RolledBackPreserves

-----------------------------------------------------------------------------
(* A deadlock *)

(* What the statements of the later downs touch. *)
LEMMA DownTouches ==
    /\ Touches(Down[2][1]) = {"orders"}
    /\ Touches(Down[3][1]) = {"orders"} /\ Touches(Down[3][2]) = {"orders"}
    /\ Touches(Down[4][1]) = {"users"} /\ Touches(Down[4][2]) = {"users"}
    /\ Touches(Down[4][3]) = {"users_role"}
    /\ Touches(Down[5][1]) = {"products"} /\ Touches(Down[5][2]) = {"users"}
    /\ \A i \in 3..8 : \A j \in 1..4 : OrderTables[j] \notin Touches(Down[5][i])
<1> DEFINE FKs == {"FK_item_product", "FK_item_order", "FK_order_user"}
<1>1. /\ \A o : o \notin FKs => Touches(Drop(o)) = {TableOf(o)}
      /\ Touches(Create("UQ_key")) = {TableOf("UQ_key")}
  BY DEF Touches, Drop, Create
<1>2. /\ TableOf("idx_status") = "orders" /\ TableOf("idx_user_key") = "orders"
      /\ TableOf("UQ_key") = "orders" /\ TableOf("role") = "users"
      /\ TableOf("password_hash") = "users" /\ TableOf("users_role") = "users_role"
      /\ TableOf("image_file_id") = "products" /\ TableOf("avatar_id") = "users"
  BY TablesAre
<1>3. /\ TableOf("idx_entity") = "file_records" /\ TableOf("idx_owner") = "file_records"
      /\ TableOf("file_records") = "file_records" /\ TableOf("visibility") = "visibility"
      /\ TableOf("file_status") = "file_status" /\ TableOf("entity_type") = "entity_type"
  BY TablesAre
<1>4. /\ Touches(Down[5][3]) = {"file_records"} /\ Touches(Down[5][4]) = {"file_records"}
      /\ Touches(Down[5][5]) = {"file_records"} /\ Touches(Down[5][6]) = {"visibility"}
      /\ Touches(Down[5][7]) = {"file_status"} /\ Touches(Down[5][8]) = {"entity_type"}
  BY <1>1, <1>3, Script5
<1>5. \A j \in 1..4 : OrderTables[j] \in {"products", "orders", "users", "order_items"}
  BY OrderTablesAre
<1>6. \A i \in 3..8 : \A j \in 1..4 : OrderTables[j] \notin Touches(Down[5][i])
  BY <1>4, <1>5
<1> QED  BY <1>1, <1>2, <1>6, Script2, Script3, Script4, Script5

(* So a later down asks for no table that an order may have, while it has one the
   order may be waiting for. *)
LEMMA DownIsOrderly ==
    ASSUME NEW k \in 2..5, NEW l \in 1..Length[k], NEW h \in 1..(l - 1),
           NEW i \in 2..4, NEW j \in 1..(i - 1),
           OrderTables[i] \in Touches(Down[k][h]), OrderTables[j] \in Touches(Down[k][l])
    PROVE  FALSE
<1>1. /\ Length[2] = 1 /\ Length[3] = 2 /\ Length[4] = 3 /\ Length[5] = 8  BY DEF Length
<1>2. CASE k = 2  BY <1>1, <1>2
<1>3. CASE k = 3
  <2>1. h = 1 /\ l = 2  BY <1>1, <1>3
  <2>2. OrderTables[i] = "orders" /\ OrderTables[j] = "orders"  BY <1>3, <2>1, DownTouches
  <2> QED  BY <2>2, OrderTablesAre
<1>4. CASE k = 4
  <2>1. l \in 2..3 /\ h \in 1..2  BY <1>1, <1>4
  <2>2. OrderTables[i] = "users" /\ OrderTables[j] \in {"users", "users_role"}
    BY <1>4, <2>1, DownTouches
  <2> QED  BY <2>2, OrderTablesAre
<1>5. CASE k = 5
  <2>1. l \in 2..8 /\ h \in 1..7 /\ j \in 1..4 /\ h < l  BY <1>1, <1>5
  <2>2. l = 2
    <3>1. l \notin 3..8  BY <1>5, <2>1, DownTouches
    <3> QED  BY <2>1, <3>1
  <2>3. h = 1  BY <2>1, <2>2
  <2>4. OrderTables[i] = "products"  BY <1>5, <2>3, DownTouches
  <2> QED  BY <2>4, OrderTablesAre
<1> QED  BY <1>2, <1>3, <1>4, <1>5

(* An order that waits for m, and m for it: m runs on a shop that is there, or
   reverts the first migration. *)
LEMMA OrdersMeetFew ==
    ASSUME IInv, NEW m \in Runners, NEW c \in Clients, WaitsFor(m, c), WaitsFor(c, m),
           ~ disturbed[m]
    PROVE  IF upwards[m] THEN plan[m][1] # 1 ELSE plan[m] = << 1 >>
<1>1. c \notin Runners /\ taken[c] \in 0..4  BY NoRunnerIsAClient DEF IInv, Types
<1>2. PICK i \in {taken[c] + 1} \intersect 2..4 : OrderTables[i] \in locks[m]
  BY <1>1 DEF WaitsFor, Wanted, Held
<1>3. AtStatement(m)  BY <1>1 DEF WaitsFor, Wanted
<1>4. PICK j \in 1..taken[c] : OrderTables[j] \in Touches(Statement(m))
  BY <1>1, <1>3 DEF WaitsFor, Wanted, Held
<1>5. i \in 2..4 /\ j \in 1..(i - 1) /\ 1 \in 1..taken[c]  BY <1>1, <1>2, <1>4
<1>6. /\ line[m] > 0 /\ at[m] \in DOMAIN plan[m] /\ plan[m] \in Seq(1..5)
      /\ plan[m][at[m]] \in 1..5 /\ line[m] \in 1..Length[plan[m][at[m]]]
      /\ Statement(m) = Scripts(m)[plan[m][at[m]]][line[m]]
  BY <1>3, Position
<1>7. CASE upwards[m]
  <2>1. "products" \in schema /\ schema \subseteq Objects
    BY <1>5, OrderTablesAre DEF IInv, Served, Types
  <2>2. PICK k \in ToSet(applied) : "products" \in Makes[k]
    BY <2>1 DEF IInv, Exact, Stands
  <2>3. k \in 1..5
    <3>1. applied \in Seq(1..5)  BY DEF IInv, Types
    <3> QED  BY <3>1 DEF ToSet
  <2>4. k = 1  BY <2>2, <2>3, MadeOnce, Names
  <2>5. ToSet(plan[m]) = (1..5) \ ToSet(applied)  BY <1>6, <1>7 DEF IInv, Runner, Current
  <2>6. plan[m][1] \in ToSet(plan[m])
    <3>1. 1 \in DOMAIN plan[m]  BY <1>6
    <3> QED  BY <3>1 DEF ToSet
  <2> QED  BY <1>7, <2>2, <2>4, <2>5, <2>6
<1>8. CASE ~ upwards[m]
  <2>1. Len(plan[m]) = 1  BY <1>6, <1>8 DEF IInv, Runner, Placed
  <2>2. at[m] = 1 /\ DOMAIN plan[m] = {1} /\ plan[m] = <<plan[m][1]>>  BY <1>6, <2>1
  <2> DEFINE k0 == plan[m][1]
             l == line[m]
  <2>3. PICK k \in 1..5 : \E h \in 1..Length[k] : Did(m, k, h) /\ OrderTables[i] \in Touches(Down[k][h])
    BY <1>2, <1>8 DEF IInv, Runner, Locked, Scripts
  <2>4. PICK h \in 1..Length[k] : Did(m, k, h) /\ OrderTables[i] \in Touches(Down[k][h])
    BY <2>3
  <2>5. k = k0 /\ h \in 1..(l - 1)  BY <2>2, <2>4 DEF Did
  <2>6. OrderTables[j] \in Touches(Down[k0][l]) /\ k0 \in 1..5 /\ l \in 1..Length[k0]
    BY <1>4, <1>6, <1>8, <2>2 DEF Scripts
  <2> HIDE DEF k0, l
  <2>7. k0 \notin 2..5
    <3>1. SUFFICES ASSUME k0 \in 2..5 PROVE FALSE  OBVIOUS
    <3> QED  BY <1>5, <2>4, <2>5, <2>6, DownIsOrderly
  <2>8. k0 = 1  BY <2>6, <2>7
  <2> QED  BY <1>8, <2>2, <2>8 DEF k0
<1> QED  BY <1>7, <1>8

(* The victim of a deadlock has been disturbed, or has met an order. *)
LEMMA DeadlockDetectedPreserves ==
    ASSUME IInv, NEW m \in Runners, DeadlockDetected(m)
    PROVE  IInv'
<1> DEFINE b == disturbed[m] \/ ~ \E c \in Clients : WaitsFor(m, c) /\ WaitsFor(c, m)
<1>1. RolledBack(m, "deadlock") /\ disturbed' = [disturbed EXCEPT ![m] = b]
  BY DEF DeadlockDetected
<1>2. b \in BOOLEAN  BY DEF IInv, Types
<1>3. ~ b => Reason(m, "deadlock")  BY OrdersMeetFew DEF Reason
<1> HIDE DEF b
<1> QED  BY <1>1, <1>2, <1>3, RolledBackPreserves

-----------------------------------------------------------------------------
(* The theorems *)

(* Every step keeps the invariant. *)
LEMMA NextPreserves == IInv /\ [Next]_vars => IInv'
<1> SUFFICES ASSUME IInv, [Next]_vars
             PROVE  IInv'
  OBVIOUS
<1>1. ASSUME NEW c \in Clients, NEW u \in Users, NEW k \in Keys,
             OrderCommits(c, [userId |-> u, key |-> k])
      PROVE  IInv'
  BY <1>1, OrderCommitsPreserves
<1>2. ASSUME NEW m \in Runners, Run(m)
      PROVE  IInv'
  BY <1>2, RunPreserves
<1>3. ASSUME NEW m \in Runners, Revert(m)
      PROVE  IInv'
  BY <1>3, RevertPreserves
<1>4. ASSUME NEW m \in Runners, Execute(m)
      PROVE  IInv'
  BY <1>4, ExecutePreserves
<1>5. ASSUME NEW m \in Runners, Commit(m)
      PROVE  IInv'
  BY <1>5, CommitPreserves
<1>6. ASSUME NEW m \in Runners, StatementFails(m)
      PROVE  IInv'
  BY <1>6, StatementFailsPreserves
<1>7. ASSUME NEW m \in Runners, DeadlockDetected(m)
      PROVE  IInv'
  BY <1>7, DeadlockDetectedPreserves
<1>8. ASSUME NEW m \in Runners, Killed(m)
      PROVE  IInv'
  BY <1>8, KilledPreserves
<1>9. ASSUME NEW c \in Clients, OrderLocks(c) \/ OrderRolledBack(c)
      PROVE  IInv'
  BY <1>9, OrderMovesPreserves
<1>10. UNCHANGED vars => IInv'  BY StutterPreserves
<1> QED  BY <1>1, <1>2, <1>3, <1>4, <1>5, <1>6, <1>7, <1>8, <1>9, <1>10 DEF Next

(* The inductive invariant holds throughout: among other things, the committed schema
   follows from the records even when they are out of order (Exact). *)
THEOREM Invariance == Spec => []IInv
<1>1. Init => IInv  BY InitEstablishes
<1>2. IInv /\ [Next]_vars => IInv'  BY NextPreserves
<1> QED  BY <1>1, <1>2, PTL DEF Spec

(* The tables are what the migrations make, and only an open transaction locks. *)
THEOREM MigrationsTypeCorrect == Spec => []TypeOK
<1>1. IInv => TypeOK  BY TypeOKHolds
<1> QED  BY <1>1, Invariance, PTL

(* However many processes run, revert, fail, are killed or deadlock, and in whatever
   order their statements interleave: while the migrations are recorded in order,
   the committed schema is what exactly those make of an empty database, and none
   is recorded twice since the first one was run. *)
THEOREM SchemaFollowsRecords == Spec => []SchemaMatchesHistory
<1>1. IInv => SchemaMatchesHistory  BY SchemaMatchesHistoryHolds
<1> QED  BY <1>1, Invariance, PTL

(* No committed schema, in order or not, has the orders without a unique constraint
   on their idempotency key: the migration that swaps the one for the other leaves
   no moment in which an order could be placed twice. *)
THEOREM KeysNeverUnguarded == Spec => []KeysAlwaysGuarded
<1>1. IInv => KeysAlwaysGuarded  BY KeysAlwaysGuardedHolds
<1> QED  BY <1>1, Invariance, PTL

(* Every up and down works on the schema it finds, unless another run or revert came
   in between, but for the one revert that the rows can make impossible: that of the
   constraint, once two users have used one key.  Orders under way can cost a run
   its transaction, or the revert of the first migration: they lock the tables in
   another order.  They cannot cost any other revert. *)
THEOREM KeysAndOrdersAlone == Spec => []FailsOnlyForAReason
<1>1. IInv => FailsOnlyForAReason  BY FailsOnlyForAReasonHolds
<1> QED  BY <1>1, Invariance, PTL
=============================================================================
