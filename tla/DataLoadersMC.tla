---------------------------- MODULE DataLoadersMC ----------------------------
(* Values for the constants of DataLoaders. *)
EXTENDS DataLoaders, TLC

CONSTANTS o1, o2, o3, i1, i2, i3, milk, tea

\* An order of two products, one of one of them, one loaded without items.
MCOrderId == i1 :> o1 @@ i2 :> o1 @@ i3 :> o2
MCProductId == i1 :> milk @@ i2 :> tea @@ i3 :> milk
=============================================================================
