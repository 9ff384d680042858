-------------------------- MODULE DataLoaders_proofs --------------------------
(***************************************************************************)
(* Proofs about DataLoaders, for any orders, items and products.           *)
(*                                                                         *)
(* A SELECT ... IN returns every row it selects exactly once, in any       *)
(* order: its rows are one of the sequences SetToSeqs enumerates, and the  *)
(* first lemmas say that such a sequence lists its whole set, each element *)
(* once.  From there the batch functions give each key its own rows, and   *)
(* the caches of a request hold nothing else.                              *)
(***************************************************************************)
EXTENDS DataLoaders, FunctionTheorems, FiniteSetTheorems, TLAPS

-----------------------------------------------------------------------------
(* Lists of the elements of a set *)

(* A sequence of the elements of a finite set lists all of them, once. *)
LEMMA ListsTheSet ==
    ASSUME NEW S, IsFiniteSet(S), NEW f \in SetToSeqs(S)
    PROVE  /\ DOMAIN f = 1 .. Cardinality(S)
           /\ ToSet(f) = S
           /\ \A i, j \in DOMAIN f : f[i] = f[j] => i = j
<1> DEFINE D == 1 .. Cardinality(S)
<1>1. Cardinality(S) \in Nat  BY FS_CardinalityType
<1>2. f \in [D -> S] /\ \A i, j \in D : i # j => f[i] # f[j]  BY DEF SetToSeqs
<1>3. f \in Injection(D, S)  BY <1>2 DEF Injection, IsInjective
<1>4. Cardinality(D) = Cardinality(S)  BY <1>1, FS_Interval
<1>5. f \in Surjection(D, S)  BY <1>3, <1>4, FS_Injection
<1> QED  BY <1>2, <1>5 DEF Surjection, ToSet

(* The rows read for some keys, one for each, are finitely many. *)
LEMMA RowsAreFinite ==
    ASSUME NEW keys, IsFiniteSet(keys), NEW v
    PROVE  IsFiniteSet({[id |-> p, version |-> v[p]] : p \in keys})
<1> DEFINE T == {[id |-> p, version |-> v[p]] : p \in keys}
           row == [p \in keys |-> [id |-> p, version |-> v[p]]]
<1>1. row \in Surjection(keys, T)  BY DEF Surjection
<1> QED  BY <1>1, FS_Surjection

(* A batch adds the keys it asked for to the cache, *)
LEMMA ResolveAdds ==
    ASSUME NEW cache, NEW keys, IsFiniteSet(keys), NEW ks \in SetToSeqs(keys), NEW values
    PROVE  DOMAIN Resolve(cache, ks, values) = DOMAIN cache \union keys
BY ListsTheSet DEF Resolve

(* leaves the values of other keys alone, *)
LEMMA ResolveKeeps ==
    ASSUME NEW cache, NEW keys, IsFiniteSet(keys), NEW ks \in SetToSeqs(keys), NEW values
    PROVE  \A k \in DOMAIN cache \ keys : Resolve(cache, ks, values)[k] = cache[k]
BY ListsTheSet DEF Resolve

(* and gives each key it asked for the value at the place of that key. *)
LEMMA ResolveGives ==
    ASSUME NEW cache, NEW keys, IsFiniteSet(keys), NEW ks \in SetToSeqs(keys), NEW values
    PROVE  \A k \in keys : \E n \in DOMAIN ks :
               ks[n] = k /\ Resolve(cache, ks, values)[k] = values[n]
<1> TAKE k \in keys
<1> DEFINE n == CHOOSE i \in DOMAIN ks : ks[i] = k
<1>1. ToSet(ks) = keys  BY ListsTheSet
<1>2. \E i \in DOMAIN ks : ks[i] = k  BY <1>1 DEF ToSet
<1>3. n \in DOMAIN ks /\ ks[n] = k  BY <1>2
<1>4. Resolve(cache, ks, values)[k] = values[n]  BY <1>1 DEF Resolve
<1> QED  BY <1>3, <1>4

(* Of the rows of some orders, those of one of them are all of its rows. *)
LEMMA GroupIsTheOrder ==
    ASSUME NEW keys \in SUBSET OrderIds, NEW o \in keys,
           NEW rows \in SetToSeqs({i \in Items : orderId[i] \in keys})
    PROVE  /\ ToSet(ItemsByOrderId(rows, o)) = {i \in Items : orderId[i] = o}
           /\ IsInjective(ItemsByOrderId(rows, o))
<1> DEFINE S == {i \in Items : orderId[i] \in keys}
           G == ItemsByOrderId(rows, o)
<1>1. IsFiniteSet(S)  BY ItemsAssumption, FS_Subset
<1>2. ToSet(rows) = S /\ \A i, j \in DOMAIN rows : rows[i] = rows[j] => i = j
  BY <1>1, ListsTheSet
<1>3. G = [n \in {m \in DOMAIN rows : orderId[rows[m]] = o} |-> rows[n]]
  BY DEF ItemsByOrderId, RestrictValues, Restrict
<1>4. ToSet(G) = {i \in ToSet(rows) : orderId[i] = o}  BY <1>3 DEF ToSet
<1>5. IsInjective(G)  BY <1>2, <1>3 DEF IsInjective
<1> QED  BY <1>2, <1>4, <1>5

(* Every product asked for is found, and is its own. *)
LEMMA ProductIsFound ==
    ASSUME NEW keys, IsFiniteSet(keys), NEW ids \in SetToSeqs(keys),
           NEW rows \in SetToSeqs({[id |-> p, version |-> version[p]] : p \in keys}),
           NEW n \in DOMAIN ids
    PROVE  ByProductMap(rows, ids)[n] = [id |-> ids[n], version |-> version[ids[n]]]
<1> DEFINE S == {[id |-> p, version |-> version[p]] : p \in keys}
           found == [id |-> ids[n], version |-> version[ids[n]]]
<1>1. ids[n] \in keys  BY ListsTheSet DEF ToSet
<1>2. ToSet(rows) = S  BY RowsAreFinite, ListsTheSet
<1>3. found \in ToSet(rows) /\ found.id = ids[n]  BY <1>1, <1>2
<1>4. \A q \in ToSet(rows) : q.id = ids[n] => q = found  BY <1>2
<1>5. (CHOOSE q \in ToSet(rows) : q.id = ids[n]) = found  BY <1>3, <1>4
<1> QED  BY <1>3, <1>5 DEF ByProductMap

-----------------------------------------------------------------------------
(* The inductive invariant *)

(* Where the request began is behind where the table is. *)
Clocks ==
    /\ version \in [ProductIds -> Nat]
    /\ atStart \in [ProductIds -> Nat]
    /\ \A p \in ProductIds : atStart[p] <= version[p]

(* The caches hold what there is for the ids of orders and products. *)
ItemsInv == nodes \subseteq OrderIds /\ DOMAIN itemsOf \subseteq OrderIds /\ ItemsAreTheOrders

(* A cached product is its own, of a version between the two. *)
ProductsInv ==
    /\ DOMAIN productOf \subseteq ProductIds
    /\ \A p \in DOMAIN productOf : productOf[p].id = p
    /\ \A p \in DOMAIN productOf : /\ productOf[p].version \in Nat
                                   /\ atStart[p] <= productOf[p].version
                                   /\ productOf[p].version <= version[p]

LoadersInv == Clocks /\ ItemsInv /\ ProductsInv

\* New loaders remember nothing.
LEMMA NothingIsCached == DOMAIN Nothing = {}
BY DEF Nothing

\* The invariant holds before any request.
LEMMA InitInv == Init => LoadersInv
BY NothingIsCached DEF Init, LoadersInv, Clocks, ItemsInv, ItemsAreTheOrders, ProductsInv

(* The foreign key: what the items of cached orders refer to is a product. *)
LEMMA WantedAreProducts == LoadersInv => ProductsWanted \subseteq ProductIds
<1> SUFFICES ASSUME LoadersInv, NEW p \in ProductsWanted  PROVE p \in ProductIds
  OBVIOUS
<1>1. PICK o \in DOMAIN itemsOf : \E i \in ToSet(itemsOf[o]) : p = productId[i]
  BY DEF ProductsWanted
<1>2. ToSet(itemsOf[o]) \subseteq Items  BY DEF LoadersInv, ItemsInv, ItemsAreTheOrders
<1> QED  BY <1>1, <1>2, ItemsAssumption

\* A product written later makes nothing remembered older than its request.
LEMMA WriteProductInv ==
    ASSUME LoadersInv, NEW p \in ProductIds, WriteProduct(p)
    PROVE  LoadersInv'
<1>1. Clocks'  BY DEF LoadersInv, Clocks, WriteProduct
<1>2. ItemsInv'  BY DEF LoadersInv, ItemsInv, ItemsAreTheOrders, WriteProduct
<1>3. \A q \in ProductIds : version[q] \in Nat /\ version[q] <= version'[q]
  BY DEF LoadersInv, Clocks, WriteProduct
<1>4. /\ DOMAIN productOf \subseteq ProductIds
      /\ \A q \in ProductIds : version'[q] \in Nat
      /\ productOf' = productOf
      /\ atStart' = atStart
  BY <1>1 DEF LoadersInv, ProductsInv, Clocks, WriteProduct
<1>5. ProductsInv'  BY <1>3, <1>4 DEF LoadersInv, ProductsInv
<1> QED  BY <1>1, <1>2, <1>5 DEF LoadersInv

\* A request starts with new loaders.
LEMMA RequestInv ==
    ASSUME LoadersInv, NEW ns \in SUBSET OrderIds, Request(ns)
    PROVE  LoadersInv'
BY NothingIsCached
   DEF LoadersInv, Clocks, ItemsInv, ItemsAreTheOrders, ProductsInv, Request, CreateLoaders

\* A batch of order ids adds to what is remembered the items of those orders,
LEMMA LoadItemsInv ==
    ASSUME LoadersInv, LoadItems
    PROVE  LoadersInv'
<1>1. PICK keys \in (SUBSET Pending(nodes, itemsOf)) \ {{}} : \E ks \in SetToSeqs(keys) :
          \E rows \in SetToSeqs({i \in Items : orderId[i] \in keys}) :
              itemsOf' = Resolve(itemsOf, ks, [n \in DOMAIN ks |-> ItemsByOrderId(rows, ks[n])])
  BY DEF LoadItems
<1>2. PICK ks \in SetToSeqs(keys) :
          \E rows \in SetToSeqs({i \in Items : orderId[i] \in keys}) :
              itemsOf' = Resolve(itemsOf, ks, [n \in DOMAIN ks |-> ItemsByOrderId(rows, ks[n])])
  BY <1>1
<1>3. PICK rows \in SetToSeqs({i \in Items : orderId[i] \in keys}) :
          itemsOf' = Resolve(itemsOf, ks, [n \in DOMAIN ks |-> ItemsByOrderId(rows, ks[n])])
  BY <1>2
<1>4. keys \subseteq OrderIds /\ IsFiniteSet(keys)
  BY ItemsAssumption, FS_Subset DEF LoadersInv, ItemsInv, Pending
<1>5. UNCHANGED <<version, nodes, productOf, atStart>>  BY DEF LoadItems
<1> DEFINE values == [n \in DOMAIN ks |-> ItemsByOrderId(rows, ks[n])]
<1>6. /\ DOMAIN itemsOf' = DOMAIN itemsOf \union keys
      /\ \A k \in keys : \E n \in DOMAIN ks : ks[n] = k /\ itemsOf'[k] = values[n]
      /\ \A k \in DOMAIN itemsOf \ keys : itemsOf'[k] = itemsOf[k]
  <2> HIDE DEF values
  <2> DEFINE new == Resolve(itemsOf, ks, values)
  <2>1. itemsOf' = new  BY <1>3 DEF values
  <2>2. ks \in SetToSeqs(keys) /\ IsFiniteSet(keys)  BY <1>2, <2>1, <1>4
  <2>3. DOMAIN new = DOMAIN itemsOf \union keys  BY <2>2, ResolveAdds
  <2>4. \A k \in DOMAIN itemsOf \ keys : new[k] = itemsOf[k]  BY <2>2, ResolveKeeps
  <2>5. \A k \in keys : \E n \in DOMAIN ks : ks[n] = k /\ new[k] = values[n]
    BY <2>2, ResolveGives
  <2> HIDE DEF new
  <2> QED  BY <2>1, <2>3, <2>4, <2>5
<1>7. ASSUME NEW o \in DOMAIN itemsOf'
      PROVE  /\ ToSet(itemsOf'[o]) = {i \in Items : orderId[i] = o}
             /\ IsInjective(itemsOf'[o])
  <2>1. CASE o \in keys
    <3>1. itemsOf'[o] = ItemsByOrderId(rows, o)  BY <1>6, <2>1
    <3>2. /\ ToSet(ItemsByOrderId(rows, o)) = {i \in Items : orderId[i] = o}
          /\ IsInjective(ItemsByOrderId(rows, o))
      BY <2>1, <1>4, GroupIsTheOrder
    <3> QED  BY <3>1, <3>2
  <2>2. CASE o \notin keys
    BY <1>6, <2>2 DEF LoadersInv, ItemsInv, ItemsAreTheOrders
  <2> QED  BY <2>1, <2>2
<1>8. ItemsInv'
  BY <1>4, <1>5, <1>6, <1>7 DEF LoadersInv, ItemsInv, ItemsAreTheOrders
<1> QED  BY <1>5, <1>8 DEF LoadersInv, Clocks, ProductsInv

\* a batch of product ids the products as they are now.
LEMMA LoadProductsInv ==
    ASSUME LoadersInv, LoadProducts
    PROVE  LoadersInv'
<1>1. PICK keys \in (SUBSET Pending(ProductsWanted, productOf)) \ {{}} :
          \E ks \in SetToSeqs(keys) :
          \E rows \in SetToSeqs({[id |-> p, version |-> version[p]] : p \in keys}) :
              productOf' = Resolve(productOf, ks, ByProductMap(rows, ks))
  BY DEF LoadProducts
<1>2. PICK ks \in SetToSeqs(keys),
           rows \in SetToSeqs({[id |-> p, version |-> version[p]] : p \in keys}) :
          productOf' = Resolve(productOf, ks, ByProductMap(rows, ks))
  BY <1>1
<1>3. keys \subseteq ProductIds /\ IsFiniteSet(keys)
  BY WantedAreProducts, ItemsAssumption, FS_Subset DEF Pending
<1>4. UNCHANGED <<version, nodes, itemsOf, atStart>>  BY DEF LoadProducts
<1> DEFINE values == ByProductMap(rows, ks)
<1>5. /\ DOMAIN productOf' = DOMAIN productOf \union keys
      /\ \A k \in keys : \E n \in DOMAIN ks : ks[n] = k /\ productOf'[k] = values[n]
      /\ \A k \in DOMAIN productOf \ keys : productOf'[k] = productOf[k]
  <2> HIDE DEF values
  <2> DEFINE new == Resolve(productOf, ks, values)
  <2>1. productOf' = new  BY <1>2 DEF values
  <2>2. ks \in SetToSeqs(keys) /\ IsFiniteSet(keys)  BY <1>2, <2>1, <1>3
  <2>3. DOMAIN new = DOMAIN productOf \union keys  BY <2>2, ResolveAdds
  <2>4. \A k \in DOMAIN productOf \ keys : new[k] = productOf[k]  BY <2>2, ResolveKeeps
  <2>5. \A k \in keys : \E n \in DOMAIN ks : ks[n] = k /\ new[k] = values[n]
    BY <2>2, ResolveGives
  <2> HIDE DEF new
  <2> QED  BY <2>1, <2>3, <2>4, <2>5
<1>6. \A n \in DOMAIN ks : values[n] = [id |-> ks[n], version |-> version[ks[n]]]
  BY <1>3, ProductIsFound
<1>7. \A p \in keys : /\ productOf'[p].id = p
                     /\ productOf'[p].version = version[p]
  <2> HIDE DEF values
  <2> TAKE p \in keys
  <2>1. PICK n \in DOMAIN ks : ks[n] = p /\ productOf'[p] = values[n]  BY <1>5
  <2>2. productOf'[p] = [id |-> p, version |-> version[p]]  BY <2>1, <1>6
  <2> QED  BY <2>2
<1>8. ASSUME NEW p \in DOMAIN productOf'
      PROVE  /\ p \in ProductIds
             /\ productOf'[p].id = p
             /\ productOf'[p].version \in Nat
             /\ atStart[p] <= productOf'[p].version
             /\ productOf'[p].version <= version[p]
  <2>1. CASE p \in keys
    <3>1. /\ version[p] \in Nat
          /\ atStart[p] \in Nat
          /\ atStart[p] <= version[p]
      BY <2>1, <1>3 DEF LoadersInv, Clocks
    <3> QED  BY <3>1, <2>1, <1>3, <1>7
  <2>2. CASE p \notin keys
    BY <2>2, <1>5 DEF LoadersInv, ProductsInv
  <2> QED  BY <2>1, <2>2
<1>9. ProductsInv'  BY <1>4, <1>8 DEF ProductsInv
<1> QED  BY <1>4, <1>9 DEF LoadersInv, Clocks, ItemsInv, ItemsAreTheOrders

\* Every step keeps the invariant.
LEMMA StepInv == LoadersInv /\ [Next]_vars => LoadersInv'
<1> SUFFICES ASSUME LoadersInv, [Next]_vars PROVE LoadersInv'
  OBVIOUS
<1>1. ASSUME NEW p \in ProductIds, WriteProduct(p) PROVE LoadersInv'
  BY <1>1, WriteProductInv
<1>2. ASSUME NEW ns \in SUBSET OrderIds, Request(ns) PROVE LoadersInv'
  BY <1>2, RequestInv
<1>3. CASE LoadItems  BY <1>3, LoadItemsInv
<1>4. CASE LoadProducts  BY <1>4, LoadProductsInv
<1>5. CASE Respond
  BY <1>5 DEF LoadersInv, Clocks, ItemsInv, ItemsAreTheOrders, ProductsInv, Respond
<1>6. CASE UNCHANGED vars
  BY <1>6 DEF LoadersInv, Clocks, ItemsInv, ItemsAreTheOrders, ProductsInv, vars
<1> QED  BY <1>1, <1>2, <1>3, <1>4, <1>5, <1>6 DEF Next

-----------------------------------------------------------------------------
(* The theorems *)

(* The inductive invariant holds throughout. *)
THEOREM LoadersInvariance == Spec => []LoadersInv
BY InitInv, StepInv, PTL DEF Spec

(* Whatever batches the loader makes, and in whatever order the rows of a *)
(* SELECT come, a field Order.items gets all items of its order, each     *)
(* once, and no other's.                                                  *)
THEOREM EveryItemOnce == Spec => []ItemsAreTheOrders
<1>1. LoadersInv => ItemsAreTheOrders  BY DEF LoadersInv, ItemsInv
<1> QED  BY <1>1, LoadersInvariance, PTL

(* No field OrderItem.product gets another item's product or an error.  *)
THEOREM OwnProduct == Spec => []ProductsFit
<1>1. LoadersInv => ProductsFit  BY DEF LoadersInv, ProductsInv, ProductsFit
<1> QED  BY <1>1, LoadersInvariance, PTL

(* Loaders made anew for each request never answer with a product older *)
(* than the request, whoever writes products and whenever.              *)
THEOREM NoStaleProduct == Spec => []ProductsAreCurrent
<1>1. LoadersInv => ProductsAreCurrent
  BY DEF LoadersInv, Clocks, ProductsInv, ProductsAreCurrent
<1> QED  BY <1>1, LoadersInvariance, PTL
=============================================================================
