-------------------------- MODULE OrdersServiceMC --------------------------
(***************************************************************************)
(* Small instances of OrdersService for TLC: who sends what.               *)
(***************************************************************************)
EXTENDS OrdersService, TLC

CONSTANTS r1, r2, r3, r4, r5, ann, bob, k1, k2, milk, tea, ghost

Body(userId, key, items) == [userId |-> userId, idempotencyKey |-> key, items |-> items]
OneOf(p) == [productId |-> p, verbatim |-> TRUE, quantity |-> 1]
TwoOf(p) == [productId |-> p, verbatim |-> TRUE, quantity |-> 2]
Capitals(item) == [item EXCEPT !.verbatim = FALSE]

\* Two submissions of one order, and another user's order for the same
\* products in the other order, for which too little may be left.
RaceDto ==
    r1 :> Body(ann, k1, <<OneOf(milk), OneOf(tea)>>) @@
    r2 :> Body(ann, k1, <<OneOf(milk), OneOf(tea)>>) @@
    r3 :> Body(bob, k1, <<OneOf(tea), TwoOf(milk)>>)
RaceStock == milk :> 2 @@ tea :> 2
RaceSymmetry == Permutations({r1, r2})

\* A double submission of a basket of one product, of which there is enough for
\* both: no deadlock and no refusal for the stock can come in between.
DoubleDto == r1 :> Body(ann, k1, <<OneOf(milk)>>) @@ r2 :> Body(ann, k1, <<OneOf(milk)>>)
DoubleStock == milk :> 2 @@ tea :> 2

\* Refusals: a product id in capital letters, a product named twice, a user
\* without an account (ghost), no key; the first two baskets may wait for each
\* other.
RefusedDto ==
    r1 :> Body(ann, k1, <<OneOf(milk), OneOf(tea)>>) @@
    r2 :> Body(bob, k1, <<OneOf(tea), Capitals(OneOf(milk))>>) @@
    r3 :> Body(ann, k2, <<OneOf(milk), TwoOf(milk)>>) @@
    r4 :> Body(ghost, k2, <<OneOf(milk)>>) @@
    r5 :> Body(bob, None, <<OneOf(milk)>>)
RefusedStock == milk :> 3 @@ tea :> 1
=============================================================================
