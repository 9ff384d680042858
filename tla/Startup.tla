------------------------------- MODULE Startup -------------------------------
(***************************************************************************)
(* How the service comes up: bootstrap of main.ts, with the connection of  *)
(* TypeOrmModule and StorageService.onModuleInit, as compose.yml starts it *)
(* beside PostgreSQL, the bucket store and the migration job.  docker      *)
(* looks at depends_on when it first starts a container, not when it       *)
(* restarts one that has exited.                                           *)
(***************************************************************************)
EXTENDS Integers

CONSTANTS
    Instances,      \* containers that run the service
    Direct,         \* those whose process is the service itself, not nest start -w: docker
                    \* sees it exit
    DependsOn,      \* depends_on of each: a set of postgres, minio, migrate
    MaxFaults       \* bound: outages, crashes, failing calls

Stores == {"postgres", "minio"}

ASSUME DependsAssumption ==
    /\ Direct \subseteq Instances
    /\ DependsOn \in [Instances -> SUBSET (Stores \union {"migrate"})]

ASSUME FaultsAssumption == MaxFaults \in Nat

VARIABLES
    up,         \* the stores that answer; their volumes outlive an outage
    bucket,     \* does the bucket exist
    migrated,   \* does the schema
    migrate,    \* the migration job
    pc,         \* where each instance is in its start-up
    faults

vars == <<up, bucket, migrated, migrate, pc, faults>>

\* Some earlier run may have left the bucket or the schema behind.
Init ==
    /\ up = {}
    /\ bucket \in BOOLEAN
    /\ migrated \in BOOLEAN
    /\ migrate = "created"
    /\ pc = [i \in Instances |-> "created"]
    /\ faults = 0

Fault == faults < MaxFaults /\ faults' = faults + 1

ComesUp(s) ==
    /\ s \notin up
    /\ up' = up \union {s}
    /\ UNCHANGED <<bucket, migrated, migrate, pc, faults>>

GoesDown(s) ==
    /\ s \in up
    /\ Fault
    /\ up' = up \ {s}
    /\ UNCHANGED <<bucket, migrated, migrate, pc>>

\* The job waits for a healthy PostgreSQL, and is not restarted when it fails.
StartMigrate ==
    /\ migrate = "created"
    /\ "postgres" \in up
    /\ migrate' = "running"
    /\ UNCHANGED <<up, bucket, migrated, pc, faults>>

\* Mutant: the job exits with 0 after an error.
ErrorsIgnored ==
    /\ migrate = "running"
    /\ migrate' = "completed"
    /\ migrated' = (migrated \/ "postgres" \in up)
    /\ UNCHANGED <<up, bucket, pc, faults>>

Migrate ==
    /\ migrate = "running"
    /\ \/ "postgres" \in up /\ migrated' = TRUE /\ migrate' = "completed"
       \/ "postgres" \notin up /\ migrate' = "failed" /\ UNCHANGED migrated
    /\ UNCHANGED <<up, bucket, pc, faults>>

Goto(i, from, to) ==
    /\ pc[i] = from
    /\ pc' = [pc EXCEPT ![i] = to]

\* service_healthy, service_completed_successfully.
Satisfied(i) == DependsOn[i] \subseteq up \union (IF migrate = "completed" THEN {"migrate"} ELSE {})

Start(i) ==
    /\ Satisfied(i)
    /\ Goto(i, "created", "connect")
    /\ UNCHANGED <<up, bucket, migrated, migrate, faults>>

\* NestFactory.create connects to the database, and gives up after some retries.
Connect(i) ==
    /\ Goto(i, "connect", IF "postgres" \in up THEN "head" ELSE "exited")
    /\ UNCHANGED <<up, bucket, migrated, migrate, faults>>

\* HeadBucket.  app.listen runs onModuleInit first, then the server listens.
BucketFound(i) ==
    /\ "minio" \in up /\ bucket
    /\ Goto(i, "head", "listening")
    /\ UNCHANGED <<up, bucket, migrated, migrate, faults>>

\* Any error is taken for a missing bucket.
HeadFails(i) ==
    /\ Goto(i, "head", "create")
    /\ \/ ~ ("minio" \in up /\ bucket) /\ UNCHANGED faults
       \/ Fault
    /\ UNCHANGED <<up, bucket, migrated, migrate>>

CreateBucket(i) ==
    /\ "minio" \in up /\ ~ bucket
    /\ bucket' = TRUE
    /\ Goto(i, "create", "listening")
    /\ UNCHANGED <<up, migrated, migrate, faults>>

\* Mutant: an error of CreateBucket is logged, and the service listens.
ErrorSwallowed(i) ==
    /\ "minio" \notin up \/ bucket
    /\ Goto(i, "create", "listening")
    /\ UNCHANGED <<up, bucket, migrated, migrate, faults>>

\* The store is down, or another instance was faster, which some stores answer
\* with an error: bootstrap() rejects and the process exits.
CreateFails(i) ==
    /\ "minio" \notin up \/ bucket
    /\ \/ Goto(i, "create", "exited")
       \/ "minio" \in up /\ Goto(i, "create", "listening")
    /\ UNCHANGED <<up, bucket, migrated, migrate, faults>>

Crash(i) ==
    /\ pc[i] \notin {"created", "exited"}
    /\ Fault
    /\ pc' = [pc EXCEPT ![i] = "exited"]
    /\ UNCHANGED <<up, bucket, migrated, migrate>>

\* Mutant: restart: no.
NoRestart(i) == FALSE

\* restart: unless-stopped, on-failure.
Restart(i) ==
    /\ Goto(i, "exited", "connect")
    /\ UNCHANGED <<up, bucket, migrated, migrate, faults>>

Runs(i) ==
    \/ Start(i) \/ Connect(i) \/ BucketFound(i) \/ HeadFails(i)
    \/ CreateBucket(i) \/ CreateFails(i)

Next ==
    \/ \E s \in Stores : ComesUp(s) \/ GoesDown(s)
    \/ StartMigrate \/ Migrate
    \/ \E i \in Instances : Runs(i) \/ Restart(i) \/ Crash(i)

Spec == Init /\ [][Next]_vars

\* docker restarts stores and direct instances (restart: unless-stopped) and
\* starts what may start; outages end.
FairSpec ==
    /\ Spec
    /\ \A s \in Stores : WF_vars(ComesUp(s))
    /\ WF_vars(StartMigrate) /\ WF_vars(Migrate)
    /\ \A i \in Instances : WF_vars(Runs(i))
    /\ \A i \in Direct : WF_vars(Restart(i))

-----------------------------------------------------------------------------
(* Correctness *)

\* Type correctness of the deployment; the job completes with the schema only.
TypeOK ==
    /\ up \subseteq Stores
    /\ bucket \in BOOLEAN /\ migrated \in BOOLEAN
    /\ migrate \in {"created", "running", "failed"} \union (IF migrated THEN {"completed"} ELSE {})
    /\ pc \in [Instances -> {"created", "connect", "head", "create", "listening", "exited"}]
    /\ faults \in 0 .. MaxFaults

\* An instance that answers requests has its bucket, and its tables if it was
\* told to wait for the migration, through every race for the bucket, outage
\* and restart (storage.service.ts:59-68, compose.yml:193-197).
ListeningMeansReady ==
    \A i \in Instances : pc[i] = "listening" =>
        bucket /\ ("migrate" \in DependsOn[i] => migrated)

\* However often the bucket store was not up yet, another instance was faster
\* or a process died, an instance that has got as far as the bucket ends up
\* listening: restarts need no dependency, and the bucket needs making once.
StartedListens == \A i \in Direct : pc[i] = "connect" ~> pc[i] = "listening"
=============================================================================
