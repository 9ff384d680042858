------------------------------ MODULE SeedingMC ------------------------------
(* Values for the constants of Seeding. *)
EXTENDS Seeding, TLC

CONSTANTS r1, r2, ann, bob, k1, milk, tea

OneOf(p) == [productId |-> p, verbatim |-> TRUE, quantity |-> 1]

\* Two orders for the two products.
MCDto ==
    r1 :> [userId |-> ann, idempotencyKey |-> k1, items |-> <<OneOf(milk), OneOf(tea)>>] @@
    r2 :> [userId |-> bob, idempotencyKey |-> k1, items |-> <<OneOf(tea), OneOf(milk)>>]
MCStock == milk :> 1 @@ tea :> 2

\* The file, with one user and one order of two items.
MCUsersSeed == <<"alice@aloe.com">>
MCProductsSeed == <<milk, tea>>
MCSeedStock == milk :> 2 @@ tea :> 2
MCOrdersSeed == {[id |-> "ORD-0001", userEmail |-> "alice@example.com", items |-> 2]}
=============================================================================
