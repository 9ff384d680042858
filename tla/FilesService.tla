---------------------------- MODULE FilesService ----------------------------
(***************************************************************************)
(* FilesService of src/modules/files: presign creates a PENDING record and *)
(* a URL for the upload, complete marks the record READY and links it to   *)
(* its user or product, in two statements that share no transaction.  No   *)
(* step asks the bucket whether the client has uploaded anything.          *)
(*                                                                         *)
(* presign takes the caller's role from the access token, complete does    *)
(* not ask for a role; meanwhile the seed gives roles and takes them.      *)
(* Several calls of complete run at once, on one file or on several files  *)
(* of one entity; statements fail, with or without having taken effect,    *)
(* and the process is killed and restarted (compose.yml).                  *)
(***************************************************************************)
EXTENDS Naturals

CONSTANTS
    Users,          \* rows of the users table, and the users tokens are issued to
    Seeded,         \* those the seed writes; its file may change between two runs
    Products,       \* rows of the products table
    Strays,         \* entity ids that are no row of either table
    Visibilities,   \* file visibilities in use
    Files,          \* ids of file records
    Calls,          \* concurrent calls of complete
    None,           \* no user, no entity, no file
    MaxFaults       \* bound: injected faults

ASSUME FilesAssumption ==
    /\ Seeded \subseteq Users
    /\ None \notin Files \union Users
    /\ MaxFaults \in Nat

VARIABLES
    records,        \* the file_records table
    linked,         \* users.avatar_id and products.image_file_id
    admins,         \* the users whose row has the role admin
    tokens,         \* the users who hold an access token that says admin
    pc, args, reply,    \* each call of complete: where it is, its user and file, its answer
    faults,
    replaced,       \* history: files whose link has given way to another file
    overlapped,     \* history: files two calls of complete have worked on at once
    stale           \* history: files presigned for others by an admin's token whose
                    \* role was no more, or has been taken away since

vars == <<records, linked, admins, tokens, pc, args, reply, faults,
          replaced, overlapped, stale>>
calls == <<pc, args, reply>>
roles == <<admins, tokens, stale>>

\* Entities with a row whose column can hold the link.
Linkable == ({"user"} \X Users) \union ({"product"} \X Products)
\* What a request may name; receipts have no table.
Entities == Linkable \union ({"user", "product", "receipt"} \X Strays)
Absent == [status |-> "absent", owner |-> None, entity |-> None, visibility |-> "private"]
Records == {Absent} \union
           [status : {"pending", "ready"}, owner : Users,
            entity : Entities, visibility : Visibilities]

Own(u, e) == e = <<"user", u>>

\* Mutant: an account is as good as another.
MayTouchUsers(u, e) == u \in tokens \/ e[1] = "user"

\* assertEntityAccess: the caller's own account, or anything for an admin, the
\* token being asked, ...
MayTouch(u, e) == u \in tokens \/ Own(u, e)
\* ... as long as the row exists, which is not asked of receipts.
Exists(e) == e[1] = "receipt" \/ e \in Linkable

\* The checks of getFileUrl.
Viewable(u, f) ==
    /\ records[f].status = "ready"
    /\ records[f].visibility = "private" => records[f].owner = u

FileOf(c) == args[c].file
RecordOf(c) == records[FileOf(c)]
\* Past the checks of complete and not yet at its end.
Working(c) == pc[c] \in {"save", "link"}

Goto(c, label) == pc' = [pc EXCEPT ![c] = label]
Answer(c, status) == Goto(c, "done") /\ reply' = [reply EXCEPT ![c] = status]
Fault == faults < MaxFaults /\ faults' = faults + 1

Init ==
    /\ records = [f \in Files |-> Absent]
    /\ linked = [e \in Linkable |-> None]
    /\ admins = {}
    /\ tokens = {}
    /\ pc = [c \in Calls |-> "idle"]
    /\ args = [c \in Calls |-> [user |-> None, file |-> None]]
    /\ reply = [c \in Calls |-> 0]
    /\ faults = 0
    /\ replaced = {}
    /\ overlapped = {}
    /\ stale = {}

-----------------------------------------------------------------------------
(* Roles *)

\* The seed upserts an account, with the role its file has for it now.
SeedUser(u) ==
    /\ \/ u \notin admins /\ admins' = admins \union {u} /\ UNCHANGED stale
       \/ /\ u \in admins
          /\ admins' = admins \ {u}
          /\ stale' = stale \union
                {f \in Files : records[f].owner = u /\ ~Own(u, records[f].entity)}
    /\ UNCHANGED <<records, linked, tokens, calls, faults, replaced, overlapped>>

\* login or refresh: the token carries the role as it is in the row.
SignIn(u) ==
    /\ u \in admins
    /\ tokens' = tokens \union {u}
    /\ UNCHANGED <<records, linked, admins, calls, faults, replaced, overlapped, stale>>

\* The guard accepts a token until it expires, whatever the row says.
Expire(u) ==
    /\ u \in tokens
    /\ tokens' = tokens \ {u}
    /\ UNCHANGED <<records, linked, admins, calls, faults, replaced, overlapped, stale>>

-----------------------------------------------------------------------------
(* presign *)

\* The checks read rows that are never deleted and the URL is signed without
\* asking the bucket, so the INSERT is the one step other actors see.  When its
\* answer is lost, nobody goes on with the file.
Presign(u, e, v, f) ==
    /\ MayTouch(u, e)
    /\ Exists(e)
    /\ records[f].status = "absent"
    /\ records' = [records EXCEPT ![f] = [status |-> "pending", owner |-> u,
                                          entity |-> e, visibility |-> v]]
    /\ stale' = IF u \in tokens \ admins /\ ~Own(u, e) THEN stale \union {f} ELSE stale
    /\ UNCHANGED <<linked, admins, tokens, calls, faults, replaced, overlapped>>

-----------------------------------------------------------------------------
(* complete *)

\* A client calls complete for a file, its own or not, and the record is read.
Call(c, u, f) ==
    /\ pc[c] \in {"idle", "done", "lost"}
    /\ args' = [args EXCEPT ![c] = [user |-> u, file |-> f]]
    /\ UNCHANGED <<records, linked, replaced, roles>>

\* The first check that refuses: 404, 403 or 400.
Refuse(c, u, f) ==
    /\ Call(c, u, f)
    /\ \/ records[f].status = "absent" /\ Answer(c, 404)
       \/ records[f].status # "absent" /\ records[f].owner # u /\ Answer(c, 403)
       \/ records[f].status = "ready" /\ records[f].owner = u /\ Answer(c, 400)
    /\ UNCHANGED <<faults, overlapped>>

\* From here the call works on the record as it has read it.
Begin(c, f) ==
    /\ Goto(c, "save")
    /\ reply' = [reply EXCEPT ![c] = 0]
    /\ overlapped' = IF \E d \in Calls \ {c} : Working(d) /\ FileOf(d) = f
                     THEN overlapped \union {f} ELSE overlapped
    /\ UNCHANGED faults

\* Mutant: only the owner is checked, not the state of the file.
AcceptAny(c, u, f) == Call(c, u, f) /\ records[f].owner = u /\ Begin(c, f)

\* All checks pass.
Accept(c, u, f) ==
    /\ Call(c, u, f)
    /\ records[f].status = "pending"
    /\ records[f].owner = u
    /\ Begin(c, f)

\* Mutant: the enum's other value for a file that is being worked on.
MarkProcessing(f) == records' = [records EXCEPT ![f].status = "processing"]

MarkReady(f) == records' = [records EXCEPT ![f].status = "ready"]

\* Mutant: the record is not saved before it is linked.
SaveForgotten(c) ==
    /\ pc[c] = "save"
    /\ Goto(c, "link")
    /\ UNCHANGED <<records, linked, args, reply, faults, replaced, overlapped, roles>>

\* save(record) with status READY.
Save(c) ==
    /\ pc[c] = "save"
    /\ MarkReady(FileOf(c))
    /\ Goto(c, "link")
    /\ UNCHANGED <<linked, args, reply, faults, replaced, overlapped, roles>>

\* Mutant: linkFileToEntity knows users only.
LinkUser(f) ==
    LET e == records[f].entity IN
    IF e \in {"user"} \X Users
    THEN /\ linked' = [linked EXCEPT ![e] = f]
         /\ replaced' = replaced \union ({linked[e]} \ {f, None})
    ELSE UNCHANGED <<linked, replaced>>

\* linkFileToEntity: UPDATE of one column of the row of the user or product.
LinkTo(f) ==
    LET e == records[f].entity IN
    IF e \in Linkable
    THEN /\ linked' = [linked EXCEPT ![e] = f]
         /\ replaced' = replaced \union ({linked[e]} \ {f, None})
    ELSE UNCHANGED <<linked, replaced>>

Link(c) ==
    /\ pc[c] = "link"
    /\ LinkTo(FileOf(c))
    /\ Answer(c, 200)
    /\ UNCHANGED <<records, args, faults, overlapped, roles>>

-----------------------------------------------------------------------------
(* Faults: nothing catches the error of a statement, Nest answers 500 *)

ReadFails(c, u, f) ==
    /\ Call(c, u, f)
    /\ Fault
    /\ Answer(c, 500)
    /\ UNCHANGED overlapped

\* The statement may have been executed though its result was not heard of.
SaveFails(c) ==
    /\ pc[c] = "save"
    /\ Fault
    /\ MarkReady(FileOf(c)) \/ UNCHANGED records
    /\ Answer(c, 500)
    /\ UNCHANGED <<linked, args, replaced, overlapped, roles>>

LinkFails(c) ==
    /\ pc[c] = "link"
    /\ Fault
    /\ LinkTo(FileOf(c)) \/ UNCHANGED <<linked, replaced>>
    /\ Answer(c, 500)
    /\ UNCHANGED <<records, args, overlapped, roles>>

Crash ==
    /\ \E c \in Calls : Working(c)
    /\ Fault
    /\ pc' = [c \in Calls |-> IF Working(c) THEN "lost" ELSE pc[c]]
    /\ UNCHANGED <<records, linked, args, reply, replaced, overlapped, roles>>

-----------------------------------------------------------------------------
Serve(c) == Save(c) \/ Link(c)

Next ==
    \/ \E u \in Seeded : SeedUser(u)
    \/ \E u \in Users : SignIn(u) \/ Expire(u)
    \/ \E u \in Users, e \in Entities, v \in Visibilities, f \in Files :
           Presign(u, e, v, f)
    \/ \E c \in Calls :
           \/ \E u \in Users, f \in Files :
                  Refuse(c, u, f) \/ Accept(c, u, f) \/ ReadFails(c, u, f)
           \/ Serve(c)
           \/ SaveFails(c) \/ LinkFails(c)
    \/ Crash

Spec == Init /\ [][Next]_vars

\* The server goes on with every call; clients, the seed and faults owe nothing.
FairSpec == Spec /\ \A c \in Calls : WF_vars(Serve(c))

-----------------------------------------------------------------------------
(* Correctness *)

\* Type correctness of the tables and the calls.
TypeOK ==
    /\ records \in [Files -> Records]
    /\ linked \in [Linkable -> Files \union {None}]
    /\ admins \subseteq Users
    /\ tokens \subseteq Users
    /\ pc \in [Calls -> {"idle", "save", "link", "done", "lost"}]
    /\ args \in [Calls -> [user : Users \union {None}, file : Files \union {None}]]
    /\ \A c \in Calls : pc[c] # "idle" => args[c] \in [user : Users, file : Files]
    /\ reply \in [Calls -> {0, 200, 400, 403, 404, 500}]
    /\ faults \in Nat
    /\ replaced \subseteq Files
    /\ overlapped \subseteq Files
    /\ stale \subseteq Files

\* An avatar or product image is a file of that very user or product that can be
\* viewed by its owner, who put it there on an own account or as an admin who is
\* one still.  The one exception, since the token is asked at presign and nothing
\* at complete: a file whose owner had lost the role, or has lost it since, is
\* linked all the same.
LinkedFileFits ==
    \A e \in Linkable : linked[e] # None =>
        LET f == linked[e] IN
        /\ records[f].entity = e
        /\ Own(records[f].owner, e) \/ records[f].owner \in admins \/ f \in stale
        /\ Viewable(records[f].owner, f)

\* A file that a call of complete has answered 200 for is linked to its entity,
\* or was until another file took its place.
CompletedIsLinked ==
    \A c \in Calls :
        pc[c] = "done" /\ reply[c] = 200 /\ RecordOf(c).entity \in Linkable =>
            linked[RecordOf(c).entity] = FileOf(c) \/ FileOf(c) \in replaced

\* An entity never goes back to a file it has given up, unless two completes of
\* that file overlapped: a late second link is the only way.
LinksMoveForward ==
    \A e \in Linkable : linked[e] \in replaced => linked[e] \in overlapped

\* Without faults, a READY file of a user or product gets linked.
ReadyGetsLinked ==
    \A f \in Files :
        records[f].status = "ready" /\ records[f].entity \in Linkable ~>
            (faults > 0 \/ f \in replaced \/ \E e \in Linkable : linked[e] = f)
=============================================================================
