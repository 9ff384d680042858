------------------------ MODULE FilesService_proofs ------------------------
(***************************************************************************)
(* Proofs about FilesService, for any number of users, files, calls and    *)
(* faults.                                                                 *)
(***************************************************************************)
EXTENDS FilesService, TLAPS

\* Who may have a file for e, as far as the roles tell: see LinkedFileFits.
Entitled(f, u, e) == Own(u, e) \/ u \in admins \/ f \in stale

\* Every record was admitted by assertEntityAccess, under a role that its owner
\* still has unless stale says otherwise.
RecordInv ==
    \A f \in Files : records[f].status # "absent" => Entitled(f, records[f].owner, records[f].entity)

\* What the snapshot of a call says stays true: the record is there, and READY
\* once this call has saved it.
CallInv ==
    \A c \in Calls :
        /\ pc[c] = "save" => RecordOf(c).status # "absent"
        /\ pc[c] = "link" => RecordOf(c).status = "ready"
        /\ pc[c] = "done" /\ reply[c] = 200 => RecordOf(c).status = "ready"

\* Two calls work on one file only if overlapped says so.
OverlapInv ==
    \A c \in Calls, d \in Calls :
        c # d /\ Working(c) /\ Working(d) /\ FileOf(c) = FileOf(d) => FileOf(c) \in overlapped

Used(f) == f \in replaced \/ \E e \in Linkable : linked[e] = f

\* A file that is or was linked is READY, and a call still at work on it is the
\* late one of two that overlapped.
UsedInv ==
    \A f \in Files : Used(f) =>
        /\ records[f].status = "ready"
        /\ \A c \in Calls : Working(c) /\ FileOf(c) = f => f \in overlapped

IndInv ==
    /\ TypeOK
    /\ RecordInv
    /\ CallInv
    /\ OverlapInv
    /\ UsedInv
    /\ LinkedFileFits
    /\ CompletedIsLinked
    /\ LinksMoveForward

-----------------------------------------------------------------------------
(* What the statements of complete do *)

\* MarkReady changes one status and nothing else.
LEMMA MarkReadyEffect ==
    ASSUME TypeOK, NEW f \in Files, records[f].status # "absent", MarkReady(f)
    PROVE  /\ records' \in [Files -> Records]
           /\ \A g \in Files :
                  /\ records'[g].owner = records[g].owner
                  /\ records'[g].entity = records[g].entity
                  /\ records'[g].visibility = records[g].visibility
                  /\ records'[g].status = IF g = f THEN "ready" ELSE records[g].status
  <1>1. records[f] \in [status : {"pending", "ready"}, owner : Users,
                        entity : Entities, visibility : Visibilities]
    BY DEF TypeOK, Records, Absent
  <1>2. records' = [records EXCEPT ![f] = [records[f] EXCEPT !.status = "ready"]]
    BY DEF MarkReady
  <1>3. [records[f] EXCEPT !.status = "ready"] \in Records
    BY <1>1 DEF Records
  <1>4. records' \in [Files -> Records]
    BY <1>2, <1>3 DEF TypeOK
  <1>5. \A g \in Files : records'[g] = IF g = f THEN [records[f] EXCEPT !.status = "ready"]
                                                 ELSE records[g]
    BY <1>2 DEF TypeOK
  <1> QED BY <1>1, <1>4, <1>5

\* LinkTo sets the column of the file's entity, if it has one, and remembers the
\* file it takes the place of.
LEMMA LinkToEffect ==
    ASSUME TypeOK, NEW f \in Files, LinkTo(f)
    PROVE  /\ linked' \in [Linkable -> Files \union {None}]
           /\ replaced' \subseteq Files
           /\ \A e \in Linkable :
                  linked'[e] = IF e = records[f].entity THEN f ELSE linked[e]
           /\ replaced \subseteq replaced'
           /\ \A e \in Linkable : linked[e] # linked'[e] /\ linked[e] # None => linked[e] \in replaced'
           /\ \A g \in replaced' : g \in replaced \/
                  (g # f /\ \E e \in Linkable : e = records[f].entity /\ linked[e] = g)
  <1>1. CASE records[f].entity \in Linkable
    BY <1>1 DEF TypeOK, LinkTo
  <1>2. CASE records[f].entity \notin Linkable
    BY <1>2 DEF TypeOK, LinkTo
  <1> QED BY <1>1, <1>2

\* The facts about linked and replaced survive LinkTo of a READY file that a
\* call is working on.
LEMMA LinkToPreserves ==
    ASSUME IndInv, NEW c \in Calls, pc[c] = "link", LinkTo(FileOf(c)), records' = records,
           UNCHANGED <<admins, stale>>
    PROVE  /\ LinkedFileFits'
           /\ linked' \in [Linkable -> Files \union {None}]
           /\ replaced' \subseteq Files
           /\ replaced \subseteq replaced'
           /\ \A e \in Linkable : linked'[e] \in replaced' => linked'[e] \in overlapped
           /\ \A f \in Files : Used(f)' => Used(f) \/ f = FileOf(c)
           /\ \A f \in Files : (\E e \in Linkable : linked[e] = f) =>
                  (\E e \in Linkable : e = records[f].entity /\ linked'[e] = f) \/ f \in replaced'
           /\ records[FileOf(c)].entity \in Linkable => linked'[records[FileOf(c)].entity] = FileOf(c)
  <1> DEFINE f == FileOf(c)
  <1>1. f \in Files /\ records[f].status = "ready"
    BY DEF IndInv, TypeOK, CallInv, FileOf, RecordOf
  <1>2. /\ linked' \in [Linkable -> Files \union {None}]
        /\ replaced' \subseteq Files
        /\ \A e \in Linkable : linked'[e] = IF e = records[f].entity THEN f ELSE linked[e]
        /\ replaced \subseteq replaced'
        /\ \A e \in Linkable : linked[e] # linked'[e] /\ linked[e] # None => linked[e] \in replaced'
        /\ \A g \in replaced' : g \in replaced \/
               (g # f /\ \E e \in Linkable : e = records[f].entity /\ linked[e] = g)
    BY <1>1, LinkToEffect DEF IndInv
  <1>3. Own(records[f].owner, records[f].entity) \/ records[f].owner \in admins \/ f \in stale
    BY <1>1 DEF IndInv, RecordInv, Entitled
  <1> HIDE DEF f
  <1>4. LinkedFileFits'
    <2> SUFFICES ASSUME NEW e \in Linkable, linked'[e] # None
                 PROVE  /\ records[linked'[e]].entity = e
                        /\ \/ Own(records[linked'[e]].owner, e)
                           \/ records[linked'[e]].owner \in admins
                           \/ linked'[e] \in stale
                        /\ records[linked'[e]].status = "ready"
      BY DEF LinkedFileFits, Viewable
    <2>1. CASE e = records[f].entity
      BY <2>1, <1>1, <1>2, <1>3
    <2>2. CASE e # records[f].entity
      BY <2>2, <1>2 DEF IndInv, LinkedFileFits, Viewable
    <2> QED BY <2>1, <2>2
  <1>5. ASSUME NEW e \in Linkable, linked'[e] \in replaced'
        PROVE  linked'[e] \in overlapped
    <2>1. CASE e = records[f].entity
      <3>1. linked'[e] = f /\ f \in replaced
        BY <2>1, <1>2, <1>5
      <3> QED BY <3>1, <1>1 DEF IndInv, UsedInv, Used, Working, f
    <2>2. CASE e # records[f].entity
      <3>1. linked'[e] = linked[e] /\ linked[e] # None
        BY <2>2, <1>2, <1>5, FilesAssumption
      <3>2. linked[e] \in replaced
        <4> SUFFICES ASSUME linked[e] \notin replaced PROVE FALSE
          OBVIOUS
        <4>1. PICK d \in Linkable : d = records[f].entity /\ linked[d] = linked[e]
          BY <1>2, <1>5, <3>1
        <4>2. records[linked[e]].entity = e /\ records[linked[e]].entity = d
          BY <4>1, <3>1 DEF IndInv, LinkedFileFits
        <4> QED BY <4>1, <4>2, <2>2
      <3> QED BY <3>1, <3>2 DEF IndInv, LinksMoveForward
    <2> QED BY <2>1, <2>2
  <1>6. ASSUME NEW g \in Files, Used(g)', g # f
        PROVE  Used(g)
    BY <1>2, <1>6 DEF Used
  <1>7. ASSUME NEW g \in Files, NEW e \in Linkable, linked[e] = g
        PROVE  (\E d \in Linkable : d = records[g].entity /\ linked'[d] = g) \/ g \in replaced'
    <2>1. g # None
      BY FilesAssumption
    <2>2. records[g].entity = e
      BY <2>1, <1>7 DEF IndInv, LinkedFileFits
    <2> QED BY <2>1, <2>2, <1>2, <1>7
  <1> QED BY <1>2, <1>4, <1>5, <1>6, <1>7 DEF f

-----------------------------------------------------------------------------
(* The inductive invariant *)

\* The invariant holds before any call.
LEMMA Initially == Init => IndInv
  <1> SUFFICES ASSUME Init PROVE IndInv
    OBVIOUS
  <1> USE DEF Init
  <1>1. TypeOK
    BY FilesAssumption DEF TypeOK, Records
  <1>2. RecordInv /\ CallInv /\ OverlapInv
    BY DEF RecordInv, CallInv, OverlapInv, Absent, Working
  <1>3. UsedInv /\ LinkedFileFits /\ CompletedIsLinked /\ LinksMoveForward
    BY FilesAssumption DEF UsedInv, Used, LinkedFileFits, CompletedIsLinked, LinksMoveForward
  <1> QED BY <1>1, <1>2, <1>3 DEF IndInv

\* A step that leaves the tables alone keeps what the tables alone decide,
\* whatever it does to the calls.
LEMMA TablesAlone ==
    ASSUME IndInv, UNCHANGED <<records, linked, replaced, roles>>
    PROVE  RecordInv' /\ LinkedFileFits' /\ (\A f \in Files : Used(f)' = Used(f))
  BY DEF IndInv, RecordInv, Entitled, LinkedFileFits, Viewable, Used, roles

\* A new record has passed the access check.
LEMMA PresignKeeps ==
    ASSUME IndInv, NEW u \in Users, NEW e \in Entities, NEW v \in Visibilities, NEW f \in Files,
           Presign(u, e, v, f)
    PROVE  IndInv'
  <1> DEFINE r == [status |-> "pending", owner |-> u, entity |-> e, visibility |-> v]
  <1>1. /\ u \in tokens \/ Own(u, e)
        /\ records[f].status = "absent"
        /\ records' = [records EXCEPT ![f] = r]
        /\ stale' = IF u \in tokens \ admins /\ ~Own(u, e) THEN stale \union {f} ELSE stale
        /\ UNCHANGED <<linked, admins, tokens, pc, args, reply, faults, replaced, overlapped>>
    BY DEF Presign, MayTouch, calls
  <1>2. r \in Records
    BY DEF Records
  <1>3. records' \in [Files -> Records] /\ \A g \in Files : records'[g] = IF g = f THEN r ELSE records[g]
    BY <1>1, <1>2 DEF IndInv, TypeOK
  <1>4. r.status = "pending" /\ r.owner = u /\ r.entity = e
    OBVIOUS
  <1> HIDE DEF r
  <1>5. TypeOK'
    BY <1>1, <1>3 DEF IndInv, TypeOK
  <1>6. RecordInv'
    <2>1. Own(u, e) \/ u \in admins \/ f \in stale'
      BY <1>1
    <2>2. stale \subseteq stale'
      BY <1>1
    <2>3. Entitled(f, u, e)'
      BY <1>1, <2>1 DEF Entitled, Own
    <2>4. \A g \in Files : records[g].status # "absent" =>
              Entitled(g, records[g].owner, records[g].entity)'
      BY <1>1, <2>2 DEF IndInv, RecordInv, Entitled, Own
    <2>5. \A g \in Files : g # f => records'[g] = records[g]
      BY <1>3
    <2>6. \A g \in Files : records'[g].status # "absent" =>
              (Own(records'[g].owner, records'[g].entity) \/ records'[g].owner \in admins'
               \/ g \in stale')
      BY <1>3, <1>4, <2>3, <2>4, <2>5 DEF Entitled
    <2> QED BY <2>6 DEF RecordInv, Entitled
  <1>7. CallInv'
    BY <1>1, <1>3 DEF IndInv, TypeOK, CallInv, RecordOf, FileOf
  <1>8. OverlapInv' /\ LinksMoveForward'
    BY <1>1 DEF IndInv, OverlapInv, Working, FileOf, LinksMoveForward
  <1>9. UsedInv'
    BY <1>1, <1>3 DEF IndInv, UsedInv, Used, Working, FileOf
  <1>10. LinkedFileFits'
    <2>1. stale \subseteq stale'
      BY <1>1
    <2> SUFFICES ASSUME NEW d \in Linkable, linked[d] # None
                 PROVE  records'[linked[d]] = records[linked[d]]
      BY <1>1, <2>1 DEF IndInv, LinkedFileFits, Viewable
    <2> QED BY <1>1, <1>3 DEF IndInv, TypeOK, LinkedFileFits, Viewable
  <1>11. CompletedIsLinked'
    BY <1>1, <1>3 DEF IndInv, TypeOK, CompletedIsLinked, CallInv, RecordOf, FileOf
  <1> QED BY <1>5, <1>6, <1>7, <1>8, <1>9, <1>10, <1>11 DEF IndInv

\* The seed, a sign-in or the end of a token: an admin who is none any more
\* leaves files behind, and stale has them.
LEMMA RolesKeep ==
    ASSUME IndInv, NEW u \in Users, SeedUser(u) \/ SignIn(u) \/ Expire(u)
    PROVE  IndInv'
  <1>1. /\ admins' \subseteq Users /\ tokens' \subseteq Users /\ stale' \subseteq Files
        /\ UNCHANGED <<records, linked, pc, args, reply, faults, replaced, overlapped>>
    BY DEF SeedUser, SignIn, Expire, calls, IndInv, TypeOK
  <1>2. /\ stale \subseteq stale'
        /\ \A f \in Files : records[f].owner \in admins =>
               (Own(records[f].owner, records[f].entity) \/ records[f].owner \in admins'
                \/ f \in stale')
    BY DEF SeedUser, SignIn, Expire
  <1>3. TypeOK'
    BY <1>1 DEF IndInv, TypeOK
  <1>4. RecordInv'
    <2>1. \A f \in Files : records[f].status # "absent" =>
              (Own(records[f].owner, records[f].entity) \/ records[f].owner \in admins'
               \/ f \in stale')
      BY <1>2 DEF IndInv, RecordInv, Entitled
    <2> QED BY <1>1, <2>1 DEF RecordInv, Entitled, Own
  <1>5. LinkedFileFits'
    <2>1. ASSUME NEW e \in Linkable, linked[e] # None
          PROVE  \/ Own(records[linked[e]].owner, e)
                 \/ records[linked[e]].owner \in admins'
                 \/ linked[e] \in stale'
      <3>1. linked[e] \in Files /\ records[linked[e]].entity = e
        BY <2>1 DEF IndInv, TypeOK, LinkedFileFits
      <3> QED BY <2>1, <3>1, <1>2 DEF IndInv, LinkedFileFits
    <2> QED BY <1>1, <2>1 DEF IndInv, LinkedFileFits, Viewable, Own
  <1>6. CallInv' /\ OverlapInv' /\ UsedInv' /\ CompletedIsLinked' /\ LinksMoveForward'
    BY <1>1 DEF IndInv, CallInv, OverlapInv, UsedInv, Used, CompletedIsLinked, LinksMoveForward,
                Working, RecordOf, FileOf
  <1> QED BY <1>3, <1>4, <1>5, <1>6 DEF IndInv

\* A call that is refused, or cannot read the record, has touched no table.
LEMMA RefusedKeeps ==
    ASSUME IndInv, NEW c \in Calls, NEW u \in Users, NEW f \in Files,
           NEW status \in {400, 403, 404, 500},
           Call(c, u, f), Answer(c, status), UNCHANGED overlapped, faults' \in Nat
    PROVE  IndInv'
  <1> USE DEF Call, Answer, Goto
  <1>1. TypeOK'
    BY DEF IndInv, TypeOK, roles
  <1>2. \A d \in Calls : d # c => pc'[d] = pc[d] /\ args'[d] = args[d] /\ reply'[d] = reply[d]
    BY DEF IndInv, TypeOK
  <1>3. pc'[c] = "done" /\ reply'[c] # 200
    BY DEF IndInv, TypeOK
  <1>4. CallInv' /\ OverlapInv' /\ CompletedIsLinked'
    BY <1>2, <1>3 DEF IndInv, CallInv, OverlapInv, CompletedIsLinked, Working, RecordOf, FileOf
  <1>5. UsedInv'
    BY <1>2, <1>3, TablesAlone DEF IndInv, UsedInv, Working, FileOf
  <1> QED BY <1>1, <1>4, <1>5, TablesAlone DEF IndInv, LinksMoveForward

\* A call that ends without an answer of 200, and has touched no table.
LEMMA EndKeeps ==
    ASSUME IndInv, NEW c \in Calls, pc[c] \in {"save", "link"}, Answer(c, 500),
           UNCHANGED <<records, linked, args, replaced, overlapped, roles>>, faults' \in Nat
    PROVE  IndInv'
  <1> USE DEF Answer, Goto
  <1>1. TypeOK'
    BY DEF IndInv, TypeOK, roles
  <1>2. \A d \in Calls : d # c => pc'[d] = pc[d] /\ reply'[d] = reply[d]
    BY DEF IndInv, TypeOK
  <1>3. pc'[c] = "done" /\ reply'[c] # 200
    BY DEF IndInv, TypeOK
  <1>4. CallInv' /\ OverlapInv' /\ CompletedIsLinked'
    BY <1>2, <1>3 DEF IndInv, CallInv, OverlapInv, CompletedIsLinked, Working, RecordOf, FileOf
  <1>5. UsedInv'
    BY <1>2, <1>3, TablesAlone DEF IndInv, UsedInv, Working, FileOf
  <1> QED BY <1>1, <1>4, <1>5, TablesAlone DEF IndInv, LinksMoveForward

\* A crash loses calls, not rows.
LEMMA CrashKeeps == ASSUME IndInv, Crash PROVE IndInv'
  <1> USE DEF Crash, Fault
  <1>1. \A d \in Calls : pc'[d] \in {pc[d], "lost"}
    BY DEF IndInv, TypeOK
  <1>2. TypeOK'
    <2>1. pc' \in [Calls -> {"idle", "save", "link", "done", "lost"}]
      BY DEF IndInv, TypeOK
    <2>2. \A d \in Calls : pc'[d] # "idle" => pc[d] # "idle"
      BY DEF IndInv, TypeOK, Working
    <2> QED BY <2>1, <2>2 DEF IndInv, TypeOK, roles
  <1>3. CallInv' /\ OverlapInv' /\ CompletedIsLinked'
    BY <1>1 DEF IndInv, CallInv, OverlapInv, CompletedIsLinked, Working, RecordOf, FileOf
  <1>4. UsedInv'
    BY <1>1, TablesAlone DEF IndInv, UsedInv, Working, FileOf
  <1> QED BY <1>2, <1>3, <1>4, TablesAlone DEF IndInv, LinksMoveForward

\* A call is accepted for a pending file only, which is linked nowhere.
LEMMA AcceptKeeps ==
    ASSUME IndInv, NEW c \in Calls, NEW u \in Users, NEW f \in Files, Accept(c, u, f)
    PROVE  IndInv'
  <1> USE DEF Accept, Call, Begin, Goto
  <1>1. records[f].status = "pending"
    OBVIOUS
  <1>2. /\ pc' \in [Calls -> {"idle", "save", "link", "done", "lost"}]
        /\ args' \in [Calls -> [user : Users \union {None}, file : Files \union {None}]]
        /\ pc'[c] = "save" /\ args'[c] = [user |-> u, file |-> f]
        /\ \A d \in Calls : d # c => pc'[d] = pc[d] /\ args'[d] = args[d] /\ reply'[d] = reply[d]
    BY DEF IndInv, TypeOK
  <1>3. overlapped \subseteq overlapped' /\ overlapped' \subseteq Files
    BY DEF IndInv, TypeOK
  <1>4. \A d \in Calls \ {c} : Working(d) /\ FileOf(d) = f => f \in overlapped'
    OBVIOUS
  <1>5. TypeOK'
    BY <1>2, <1>3 DEF IndInv, TypeOK, roles
  <1>6. CallInv' /\ CompletedIsLinked'
    BY <1>1, <1>2 DEF IndInv, CallInv, CompletedIsLinked, RecordOf, FileOf
  <1>7. \A d \in Calls : Working(d)' <=> d = c \/ Working(d)
    BY <1>2 DEF Working
  <1>8. \A d \in Calls : FileOf(d)' = IF d = c THEN f ELSE FileOf(d)
    BY <1>2 DEF FileOf
  <1>9. OverlapInv'
    <2> SUFFICES ASSUME NEW d \in Calls, NEW e \in Calls, d # e, Working(d)', Working(e)',
                        FileOf(d)' = FileOf(e)'
                 PROVE  FileOf(d)' \in overlapped'
      BY DEF OverlapInv
    <2>1. CASE d # c /\ e # c
      BY <2>1, <1>3, <1>7, <1>8 DEF IndInv, OverlapInv
    <2>2. CASE d = c
      BY <2>2, <1>4, <1>7, <1>8
    <2>3. CASE e = c
      BY <2>3, <1>4, <1>7, <1>8
    <2> QED BY <2>1, <2>2, <2>3
  <1>10. UsedInv'
    <2> SUFFICES ASSUME NEW g \in Files, Used(g)
                 PROVE  /\ records[g].status = "ready"
                        /\ \A d \in Calls : Working(d)' /\ FileOf(d)' = g => g \in overlapped'
      BY TablesAlone DEF UsedInv
    <2>1. records[g].status = "ready" /\ g # f
      BY <1>1 DEF IndInv, UsedInv
    <2>2. \A d \in Calls : Working(d)' /\ FileOf(d)' = g => Working(d) /\ FileOf(d) = g
      BY <2>1, <1>7, <1>8
    <2> QED BY <2>1, <2>2, <1>3 DEF IndInv, UsedInv
  <1>11. LinksMoveForward'
    BY <1>3 DEF IndInv, LinksMoveForward
  <1> QED BY <1>5, <1>6, <1>9, <1>10, <1>11, TablesAlone DEF IndInv

\* The record saved, or not; the call goes on to the link, or ends with 500.
LEMMA SaveKeeps ==
    ASSUME IndInv, NEW c \in Calls, Save(c) \/ SaveFails(c)
    PROVE  IndInv'
  <1>1. pc[c] = "save" /\ UNCHANGED <<linked, args, replaced, overlapped, roles>> /\ faults' \in Nat
    BY DEF Save, SaveFails, Fault, IndInv, TypeOK
  <1>2. CASE UNCHANGED records /\ SaveFails(c)
    BY <1>1, <1>2, EndKeeps DEF SaveFails
  <1>3. CASE MarkReady(FileOf(c))
    <2> DEFINE f == FileOf(c)
    <2>1. f \in Files /\ records[f].status # "absent"
      BY <1>1 DEF IndInv, TypeOK, CallInv, FileOf, RecordOf
    <2>2. /\ records' \in [Files -> Records]
          /\ \A g \in Files :
                 /\ records'[g].owner = records[g].owner
                 /\ records'[g].entity = records[g].entity
                 /\ records'[g].visibility = records[g].visibility
                 /\ records'[g].status = IF g = f THEN "ready" ELSE records[g].status
      BY <1>3, <2>1, MarkReadyEffect DEF IndInv
    <2>3. /\ pc' \in [Calls -> {"idle", "save", "link", "done", "lost"}]
          /\ reply' \in [Calls -> {0, 200, 400, 403, 404, 500}]
          /\ \A d \in Calls : d # c => pc'[d] = pc[d] /\ reply'[d] = reply[d]
          /\ pc'[c] = "link" \/ (pc'[c] = "done" /\ reply'[c] = 500)
      <3>1. CASE Save(c)
        BY <3>1 DEF Save, Goto, IndInv, TypeOK
      <3>2. CASE SaveFails(c)
        BY <3>2 DEF SaveFails, Goto, Answer, IndInv, TypeOK
      <3> QED BY <3>1, <3>2
    <2>4. TypeOK'
      BY <1>1, <2>2, <2>3 DEF IndInv, TypeOK, roles
    <2> HIDE DEF f
    <2>5. RecordInv'
      BY <1>1, <2>1, <2>2 DEF IndInv, RecordInv, Entitled, Own, roles
    <2>6. \A d \in Calls : pc[d] # "idle" => FileOf(d) \in Files
      BY DEF IndInv, TypeOK, FileOf
    <2>7. CallInv'
      BY <1>1, <2>2, <2>3, <2>6 DEF IndInv, CallInv, RecordOf, FileOf, f
    <2>8. OverlapInv'
      BY <1>1, <2>3 DEF IndInv, OverlapInv, Working, FileOf
    <2>9. UsedInv'
      BY <1>1, <2>2, <2>3 DEF IndInv, UsedInv, Used, Working, FileOf
    <2>10. LinkedFileFits'
      BY <1>1, <2>2 DEF IndInv, TypeOK, LinkedFileFits, Viewable, Own, roles
    <2>11. CompletedIsLinked'
      BY <1>1, <2>2, <2>3, <2>6 DEF IndInv, CompletedIsLinked, RecordOf, FileOf
    <2>12. LinksMoveForward'
      BY <1>1 DEF IndInv, LinksMoveForward
    <2> QED BY <2>4, <2>5, <2>7, <2>8, <2>9, <2>10, <2>11, <2>12 DEF IndInv
  <1> QED BY <1>2, <1>3 DEF Save, SaveFails

\* The column written, or not; the call ends with 200, or with 500.
LEMMA LinkKeeps ==
    ASSUME IndInv, NEW c \in Calls, Link(c) \/ LinkFails(c)
    PROVE  IndInv'
  <1>1. pc[c] = "link" /\ UNCHANGED <<records, args, overlapped, roles>> /\ faults' \in Nat
    BY DEF Link, LinkFails, Fault, IndInv, TypeOK
  <1>2. CASE UNCHANGED <<linked, replaced>> /\ LinkFails(c)
    BY <1>1, <1>2, EndKeeps DEF LinkFails
  <1>3. CASE LinkTo(FileOf(c))
    <2>1. /\ LinkedFileFits'
          /\ linked' \in [Linkable -> Files \union {None}]
          /\ replaced' \subseteq Files
          /\ replaced \subseteq replaced'
          /\ \A e \in Linkable : linked'[e] \in replaced' => linked'[e] \in overlapped
          /\ \A f \in Files : Used(f)' => Used(f) \/ f = FileOf(c)
          /\ \A f \in Files : (\E e \in Linkable : linked[e] = f) =>
                 (\E e \in Linkable : e = records[f].entity /\ linked'[e] = f) \/ f \in replaced'
          /\ records[FileOf(c)].entity \in Linkable => linked'[records[FileOf(c)].entity] = FileOf(c)
      BY <1>1, <1>3, LinkToPreserves DEF roles
    <2>2. /\ pc' \in [Calls -> {"idle", "save", "link", "done", "lost"}]
          /\ reply' \in [Calls -> {0, 200, 400, 403, 404, 500}]
          /\ \A d \in Calls : d # c => pc'[d] = pc[d] /\ reply'[d] = reply[d]
          /\ pc'[c] = "done"
      BY DEF Link, LinkFails, Answer, Goto, IndInv, TypeOK
    <2>3. TypeOK'
      BY <1>1, <2>1, <2>2 DEF IndInv, TypeOK, roles
    <2>4. RecordInv' /\ CallInv'
      BY <1>1, <2>2 DEF IndInv, RecordInv, Entitled, CallInv, RecordOf, FileOf, roles
    <2>5. OverlapInv'
      BY <1>1, <2>2 DEF IndInv, OverlapInv, Working, FileOf
    <2>6. UsedInv'
      <3> SUFFICES ASSUME NEW f \in Files, Used(f)'
                   PROVE  /\ records[f].status = "ready"
                          /\ \A d \in Calls : Working(d)' /\ FileOf(d) = f => f \in overlapped
        BY <1>1 DEF UsedInv, FileOf
      <3>1. \A d \in Calls : Working(d)' => Working(d) /\ d # c
        BY <2>2 DEF Working
      <3>2. CASE Used(f)
        BY <3>1, <3>2 DEF IndInv, UsedInv
      <3>3. CASE f = FileOf(c)
        <4>1. records[f].status = "ready"
          BY <1>1, <3>3 DEF IndInv, CallInv, RecordOf
        <4>2. \A d \in Calls : Working(d)' /\ FileOf(d) = f => f \in overlapped
          BY <1>1, <3>1, <3>3 DEF IndInv, OverlapInv, Working
        <4> QED BY <4>1, <4>2
      <3> QED BY <2>1, <3>2, <3>3
    <2>7. CompletedIsLinked'
      <3> SUFFICES ASSUME NEW d \in Calls, pc'[d] = "done", reply'[d] = 200,
                          records[FileOf(d)].entity \in Linkable
                   PROVE  linked'[records[FileOf(d)].entity] = FileOf(d) \/ FileOf(d) \in replaced'
        BY <1>1 DEF CompletedIsLinked, RecordOf, FileOf
      <3>1. CASE d = c
        BY <2>1, <3>1
      <3>2. CASE d # c
        <4>1. linked[records[FileOf(d)].entity] = FileOf(d) \/ FileOf(d) \in replaced
          BY <2>2, <3>2 DEF IndInv, CompletedIsLinked, RecordOf
        <4>2. FileOf(d) \in Files
          BY <2>2, <3>2 DEF IndInv, TypeOK, FileOf
        <4> QED BY <4>1, <4>2, <2>1
      <3> QED BY <3>1, <3>2
    <2>8. LinksMoveForward'
      BY <1>1, <2>1 DEF LinksMoveForward
    <2> QED BY <2>1, <2>3, <2>4, <2>5, <2>6, <2>7, <2>8 DEF IndInv
  <1> QED BY <1>2, <1>3 DEF Link, LinkFails

\* Every step keeps the invariant.
LEMMA Inductive == IndInv /\ [Next]_vars => IndInv'
  <1> SUFFICES ASSUME IndInv, [Next]_vars PROVE IndInv'
    OBVIOUS
  <1>1. ASSUME NEW u \in Users, NEW e \in Entities, NEW v \in Visibilities, NEW f \in Files,
               Presign(u, e, v, f)
        PROVE  IndInv'
    BY <1>1, PresignKeeps
  <1>2. ASSUME NEW u \in Users, SeedUser(u) \/ SignIn(u) \/ Expire(u)
        PROVE  IndInv'
    BY <1>2, RolesKeep
  <1>3. ASSUME NEW c \in Calls, NEW u \in Users, NEW f \in Files,
               Refuse(c, u, f) \/ ReadFails(c, u, f)
        PROVE  IndInv'
    <2>1. /\ Call(c, u, f) /\ UNCHANGED overlapped /\ faults' \in Nat
          /\ \E status \in {400, 403, 404, 500} : Answer(c, status)
      BY <1>3 DEF Refuse, ReadFails, Fault, IndInv, TypeOK
    <2> QED BY <2>1, RefusedKeeps
  <1>4. ASSUME NEW c \in Calls, NEW u \in Users, NEW f \in Files, Accept(c, u, f)
        PROVE  IndInv'
    BY <1>4, AcceptKeeps
  <1>5. ASSUME NEW c \in Calls, Save(c) \/ SaveFails(c)
        PROVE  IndInv'
    BY <1>5, SaveKeeps
  <1>6. ASSUME NEW c \in Calls, Link(c) \/ LinkFails(c)
        PROVE  IndInv'
    BY <1>6, LinkKeeps
  <1>7. CASE Crash
    BY <1>7, CrashKeeps
  <1>8. CASE UNCHANGED vars
    BY <1>8 DEF vars, IndInv, TypeOK, RecordInv, Entitled, Own, CallInv, OverlapInv, UsedInv, Used,
                LinkedFileFits, CompletedIsLinked, LinksMoveForward, Viewable, Working, RecordOf, FileOf
  <1> QED BY <1>1, <1>2, <1>3, <1>4, <1>5, <1>6, <1>7, <1>8, FilesAssumption DEF Next, Serve

\* The inductive invariant holds throughout.
THEOREM Invariance == Spec => []IndInv
  BY Initially, Inductive, PTL DEF Spec

\* The tables, the bucket and the calls keep their types.
THEOREM TypeCorrect == Spec => []TypeOK
  BY Invariance, PTL DEF IndInv

\* What an avatar or product image points to is a READY file of that very entity,
\* presigned by its owner for an own account, or by an admin who still is one or
\* who has lost the role before or after presign.
THEOREM LinksAreRight == Spec => []LinkedFileFits
  BY Invariance, PTL DEF IndInv

\* complete answers 200 for a file of a user or product only after it was linked.
THEOREM CompletedLinks == Spec => []CompletedIsLinked
  BY Invariance, PTL DEF IndInv

\* Only the late link of two overlapping completes brings a replaced file back.
THEOREM NoWayBack == Spec => []LinksMoveForward
  BY Invariance, PTL DEF IndInv
=============================================================================
