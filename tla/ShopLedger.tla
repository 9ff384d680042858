----------------------------- MODULE ShopLedger -----------------------------
(***************************************************************************)
(* What POST /orders promises, with the transaction, the locks, the pool   *)
(* and the failures abstracted away: an order is placed in one indivisible *)
(* step that takes its quantities out of the stock, at most one order is   *)
(* placed for a user and an idempotency key, and a client is told of an    *)
(* order only once it is placed.  Orders are never withdrawn.              *)
(***************************************************************************)
EXTENDS Integers

CONSTANTS
    Catalog,        \* the rows of the products table
    InitialStock,   \* products.stock before the first order
    Entries         \* what clients may ask for: records with the fields
                    \* userId, idempotencyKey and lines

VARIABLES
    stock,          \* products.stock
    ledger,         \* the entries placed so far
    acknowledged    \* the (user, key) pairs answered with 200 or 201

vars == <<stock, ledger, acknowledged>>

Placed(userId, key) ==
    \E e \in ledger : e.userId = userId /\ e.idempotencyKey = key

\* The quantity an entry takes of product p.
Taken(e, p) ==
    IF \E l \in e.lines : l.productId = p
    THEN (CHOOSE l \in e.lines : l.productId = p).quantity
    ELSE 0

Init ==
    /\ stock = InitialStock
    /\ ledger = {}
    /\ acknowledged = {}

Place(e) ==
    /\ ~ Placed(e.userId, e.idempotencyKey)
    /\ \A l \in e.lines : l.productId \in Catalog /\ l.quantity <= stock[l.productId]
    /\ \A l, m \in e.lines : l.productId = m.productId => l = m
    /\ stock' = [p \in Catalog |-> stock[p] - Taken(e, p)]
    /\ ledger' = ledger \union {e}
    /\ UNCHANGED acknowledged

Acknowledge(e) ==
    /\ Placed(e.userId, e.idempotencyKey)
    /\ acknowledged' = acknowledged \union {<<e.userId, e.idempotencyKey>>}
    /\ UNCHANGED <<stock, ledger>>

Next == \E e \in Entries : Place(e) \/ Acknowledge(e)

Spec == Init /\ [][Next]_vars
=============================================================================
