---------------------------- MODULE AuthServiceMC ----------------------------
(* Values for the constants of AuthService. *)
EXTENDS AuthService, TLC

CONSTANTS c1, c2, alice, root, pw1

\* root is an administrator until the seed is run again with an edited file.
MCSeedRows ==
    {[email |-> root, passwordHash |-> pw1, role |-> "admin"],
     [email |-> root, passwordHash |-> pw1, role |-> "user"]}

Symmetry == Permutations({c1, c2})
=============================================================================
