--------------------------- MODULE FilesServiceMC ---------------------------
(* Values for the constants of FilesService: ann is one of the accounts the *)
(* seed writes, bob is not.                                                 *)
EXTENDS FilesService

CONSTANTS ann, bob, milk, nobody

MCUsers == {ann, bob}
MCSeeded == {ann}
MCProducts == {milk}
MCStrays == {nobody}
=============================================================================
