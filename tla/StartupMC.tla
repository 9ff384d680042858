------------------------------ MODULE StartupMC ------------------------------
(* Values for the constants of Startup: the services of compose.yml. *)
EXTENDS Startup, TLC

MCInstances == {"api", "app-dev"}
MCDependsOn == [api |-> {"postgres", "migrate"}] @@ ("app-dev" :> {"postgres", "minio"})
=============================================================================
