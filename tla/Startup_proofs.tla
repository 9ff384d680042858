---------------------------- MODULE Startup_proofs ----------------------------
(***************************************************************************)
(* Proofs about Startup, for any instances, dependencies and number of     *)
(* faults; of the constants they need FaultsAssumption alone.              *)
(***************************************************************************)
EXTENDS Startup, TLAPS

\* Who has been started past its dependencies found the schema there, and who
\* listens found or made the bucket; neither is ever taken away.
ReadyInv ==
    \A i \in Instances :
        /\ pc[i] # "created" /\ "migrate" \in DependsOn[i] => migrated
        /\ pc[i] = "listening" => bucket

IndInv == TypeOK /\ ReadyInv

\* Initially nothing is started (compose.yml).
LEMMA InitReady == Init => IndInv
  BY FaultsAssumption DEF Init, IndInv, TypeOK, ReadyInv

\* The steps of docker, the stores and the job keep the invariant.
LEMMA AroundKeeps ==
    ASSUME IndInv,
           (\E s \in Stores : ComesUp(s) \/ GoesDown(s)) \/ StartMigrate \/ Migrate
    PROVE  IndInv'
<1>1. CASE \E s \in Stores : ComesUp(s)
  BY <1>1 DEF IndInv, TypeOK, ReadyInv, ComesUp
<1>2. CASE \E s \in Stores : GoesDown(s)
  BY <1>2, FaultsAssumption DEF IndInv, TypeOK, ReadyInv, GoesDown, Fault
<1>3. CASE StartMigrate
  BY <1>3 DEF IndInv, TypeOK, ReadyInv, StartMigrate
<1>4. CASE Migrate
  BY <1>4 DEF IndInv, TypeOK, ReadyInv, Migrate
<1>5. QED BY <1>1, <1>2, <1>3, <1>4

\* A container leaves "created" only when what it depends on is there.
LEMMA StartKeeps ==
    ASSUME IndInv, NEW i \in Instances, Start(i) PROVE IndInv'
<1>1. TypeOK'
  BY DEF IndInv, TypeOK, Start, Goto
<1>2. ASSUME NEW j \in Instances, "migrate" \in DependsOn[j], pc'[j] # "created"
      PROVE  migrated'
  <2>1. CASE j = i
    <3>1. "migrate" \notin up
      BY DEF IndInv, TypeOK, Stores
    <3>2. migrate = "completed"
      BY <1>2, <2>1, <3>1 DEF Start, Satisfied
    <3>3. QED BY <3>2 DEF IndInv, TypeOK, Start
  <2>2. CASE j # i
    BY <1>2, <2>2 DEF IndInv, TypeOK, ReadyInv, Start, Goto
  <2>3. QED BY <2>1, <2>2
<1>3. ASSUME NEW j \in Instances, pc'[j] = "listening" PROVE bucket'
  BY <1>3 DEF IndInv, TypeOK, ReadyInv, Start, Goto
<1>4. QED BY <1>1, <1>2, <1>3 DEF IndInv, ReadyInv

\* The steps of a started process keep the invariant: each way to "listening"
\* leads past an existing bucket (storage.service.ts:59-68).
LEMMA ProcessKeeps ==
    ASSUME IndInv, NEW i \in Instances,
           \/ Connect(i) \/ BucketFound(i) \/ HeadFails(i)
           \/ CreateBucket(i) \/ CreateFails(i) \/ Restart(i) \/ Crash(i)
    PROVE  IndInv'
<1>1. CASE Connect(i)
  BY <1>1 DEF IndInv, TypeOK, ReadyInv, Connect, Goto
<1>2. CASE BucketFound(i)
  BY <1>2 DEF IndInv, TypeOK, ReadyInv, BucketFound, Goto
<1>3. CASE HeadFails(i)
  BY <1>3, FaultsAssumption DEF IndInv, TypeOK, ReadyInv, HeadFails, Goto, Fault
<1>4. CASE CreateBucket(i)
  BY <1>4 DEF IndInv, TypeOK, ReadyInv, CreateBucket, Goto
<1>5. CASE CreateFails(i)
  BY <1>5 DEF IndInv, TypeOK, ReadyInv, CreateFails, Goto
<1>6. CASE Restart(i)
  BY <1>6 DEF IndInv, TypeOK, ReadyInv, Restart, Goto
<1>7. CASE Crash(i)
  BY <1>7, FaultsAssumption DEF IndInv, TypeOK, ReadyInv, Crash, Fault
<1>8. QED BY <1>1, <1>2, <1>3, <1>4, <1>5, <1>6, <1>7

\* The conjunction is inductive.
THEOREM Invariance == Spec => []IndInv
<1>1. ASSUME IndInv, [Next]_vars PROVE IndInv'
  <2>1. CASE UNCHANGED vars
    BY <1>1, <2>1 DEF IndInv, TypeOK, ReadyInv, vars
  <2>2. CASE Next
    BY <1>1, <2>2, AroundKeeps, StartKeeps, ProcessKeeps DEF Next, Runs
  <2>3. QED BY <1>1, <2>1, <2>2
<1>2. QED BY <1>1, InitReady, PTL DEF Spec

\* An instance that listens has its bucket and, if it waits for the migration,
\* its tables (storage.service.ts:59-68, compose.yml:193-197).
THEOREM Ready == Spec => []ListeningMeansReady
<1>1. IndInv => ListeningMeansReady
  BY DEF IndInv, ReadyInv, ListeningMeansReady
<1>2. QED BY <1>1, Invariance, PTL

\* The deployment is of its type, and the job completes with the schema only.
THEOREM TypeCorrect == Spec => []TypeOK
<1>1. IndInv => TypeOK
  BY DEF IndInv
<1>2. QED BY <1>1, Invariance, PTL
=============================================================================
