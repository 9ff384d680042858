----------------------------- MODULE DataLoaders -----------------------------
(***************************************************************************)
(* The data loaders behind the fields Order.items and OrderItem.product of *)
(* the GraphQL API (src/modules/graphql).  The context of a request holds  *)
(* loaders of its own.  A loader (package dataloader, external) collects   *)
(* the keys asked for, each once, hands them to its batch function in one  *)
(* call, and gives the i-th value back to whoever asked for the i-th key.  *)
(*                                                                         *)
(* Items never change once their order is committed; products do, and the  *)
(* rows of a SELECT ... IN come in any order.                              *)
(***************************************************************************)
EXTENDS Integers, FiniteSets, SequencesExt

CONSTANTS
    OrderIds,       \* committed orders
    Items,          \* rows of order_items
    ProductIds,     \* rows of products
    orderId,        \* order_items.order_id
    productId,      \* order_items.product_id, a foreign key to products
    MaxVersion      \* bound: versions of a row of products

ASSUME ItemsAssumption ==
    /\ IsFiniteSet(Items)
    /\ IsFiniteSet(OrderIds)
    /\ IsFiniteSet(ProductIds)
    /\ MaxVersion \in Nat
    /\ orderId \in [Items -> OrderIds]
    /\ productId \in [Items -> ProductIds]

VARIABLES
    version,        \* the committed version of each product
    serving,        \* is a request being answered
    nodes,          \* the orders its answer lists
    itemsOf,        \* cache of orderItemsByOrderId: order to items
    productOf,      \* cache of productByproductId: id to a product or an error
    atStart         \* history: version when the request arrived

vars == <<version, serving, nodes, itemsOf, productOf, atStart>>

NotFound == [id |-> "none", version |-> 0]
Nothing == [k \in {} |-> <<>>]

Init ==
    /\ version = [p \in ProductIds |-> 1]
    /\ serving = FALSE
    /\ nodes = {}
    /\ itemsOf = Nothing
    /\ productOf = Nothing
    /\ atStart = version

\* Someone, the seed for one, writes a product.
WriteProduct(p) ==
    /\ version[p] < MaxVersion
    /\ version' = [version EXCEPT ![p] = @ + 1]
    /\ UNCHANGED <<serving, nodes, itemsOf, productOf, atStart>>

\* Mutant: loaders made once, when the module is configured.
SharedLoaders == UNCHANGED <<itemsOf, productOf>>

\* context: () => ({ loaders: factory.createLoaders() }).
CreateLoaders == itemsOf' = Nothing /\ productOf' = Nothing

\* A request whose answer lists the orders ns.
Request(ns) ==
    /\ ~ serving
    /\ serving' = TRUE
    /\ nodes' = ns
    /\ CreateLoaders
    /\ atStart' = version
    /\ UNCHANGED version

\* The fields that call load: items of every node, product of every item there is.
ProductsWanted == {productId[i] : i \in UNION {ToSet(itemsOf[o]) : o \in DOMAIN itemsOf \intersect nodes}}

\* Keys a loader has yet to ask for.
Pending(wanted, cache) == wanted \ DOMAIN cache

\* One call of a batch function with the keys ks; the i-th value goes to the i-th key.
Resolve(cache, ks, values) ==
    [k \in DOMAIN cache \union ToSet(ks) |->
        IF k \in ToSet(ks) THEN values[CHOOSE i \in DOMAIN ks : ks[i] = k] ELSE cache[k]]

\* Mutant: each item replaces the one before it in itemsByOrderId.
LastOfOrder(rows, o) ==
    RestrictDomain(rows, LAMBDA n :
        orderId[rows[n]] = o /\ \A m \in DOMAIN rows : m > n => orderId[rows[m]] # o)

\* itemsByOrderId.get(id) ?? [], each item kept at the place its row had.
ItemsByOrderId(rows, o) == RestrictValues(rows, LAMBDA i : orderId[i] = o)

\* Mutant: the rows are returned in the order the statement has them.
AsTheyCome(rows, ids) == rows

\* ids.map((id) => productMap.get(id) ?? new Error(...)).
ByProductMap(rows, ids) ==
    [n \in DOMAIN ids |->
        IF \E p \in ToSet(rows) : p.id = ids[n]
        THEN CHOOSE p \in ToSet(rows) : p.id = ids[n] ELSE NotFound]

\* The loader may collect the keys in any number of batches.
LoadItems ==
    /\ serving
    /\ \E keys \in (SUBSET Pending(nodes, itemsOf)) \ {{}} : \E ks \in SetToSeqs(keys) :
       \E rows \in SetToSeqs({i \in Items : orderId[i] \in keys}) :
          /\ itemsOf' = Resolve(itemsOf, ks, [n \in DOMAIN ks |-> ItemsByOrderId(rows, ks[n])])
    /\ UNCHANGED <<version, serving, nodes, productOf, atStart>>

LoadProducts ==
    /\ serving
    /\ \E keys \in (SUBSET Pending(ProductsWanted, productOf)) \ {{}} : \E ks \in SetToSeqs(keys) :
       \E rows \in SetToSeqs({[id |-> p, version |-> version[p]] : p \in keys}) :
          /\ productOf' = Resolve(productOf, ks, ByProductMap(rows, ks))
    /\ UNCHANGED <<version, serving, nodes, itemsOf, atStart>>

\* Every field is resolved: the answer is sent.
Complete == nodes \subseteq DOMAIN itemsOf /\ ProductsWanted \subseteq DOMAIN productOf
Respond ==
    /\ serving
    /\ Complete
    /\ serving' = FALSE
    /\ UNCHANGED <<version, nodes, itemsOf, productOf, atStart>>

Next ==
    \/ \E p \in ProductIds : WriteProduct(p)
    \/ \E ns \in SUBSET OrderIds : Request(ns)
    \/ LoadItems \/ LoadProducts \/ Respond

Spec == Init /\ [][Next]_vars

-----------------------------------------------------------------------------
(* Correctness *)

\* Every order comes with all of its items, each once, and with no other
\* order's, in whatever order and batches rows and keys arrive
\* (loaders.factory.ts:36-48).
ItemsAreTheOrders ==
    \A o \in DOMAIN itemsOf :
        /\ ToSet(itemsOf[o]) = {i \in Items : orderId[i] = o}
        /\ IsInjective(itemsOf[o])

\* Each item comes with its own product, never with another's or an error
\* (loaders.factory.ts:25-31): the foreign key keeps the product there.
ProductsFit == \A p \in DOMAIN productOf : productOf[p].id = p

\* A product in an answer is no older than the request (graphql.module.ts:24-26
\* makes loaders, and with them the cache, anew for every request).
ProductsAreCurrent ==
    serving => \A p \in DOMAIN productOf : productOf[p].version >= atStart[p]
=============================================================================
