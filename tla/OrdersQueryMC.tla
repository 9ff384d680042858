---------------------------- MODULE OrdersQueryMC ----------------------------
(* Values for the constants of OrdersQuery. *)
EXTENDS OrdersQuery, TLC

CONSTANTS o1, o2, o3, o4, ann, bob

\* One order loaded without items, one with several items.
MCRow ==
    o1 :> [userId |-> ann, status |-> "PAID", items |-> 0] @@
    o2 :> [userId |-> bob, status |-> "CREATED", items |-> 2] @@
    o3 :> [userId |-> ann, status |-> "CREATED", items |-> 1] @@
    o4 :> [userId |-> ann, status |-> "CREATED", items |-> 1]

MCFilters == {NoFilter, [NoFilter EXCEPT !.userId = ann],
              [NoFilter EXCEPT !.status = "CREATED", !.toDate = 2],
              [NoFilter EXCEPT !.fromDate = 2]}
=============================================================================
