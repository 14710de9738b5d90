---------------------------- MODULE UploadQueue ----------------------------
(***************************************************************************)
(* The upload queue of the browser client (static/ui/app.js): files are    *)
(* queued in the open project and uploaded one after another.  The loop of *)
(* uploadPending goes over the queue as it was when it started, but reads  *)
(* the selected project anew for each file; and it awaits each upload, so  *)
(* the page may queue, open or sign out meanwhile.                         *)
(***************************************************************************)
CONSTANTS
    Projects, Versions,
    Files,      \* relative paths
    Tasks,      \* uploads that may be under way at the same time
    MayFail,    \* whether an upload may fail
    None, Idle

VARIABLES
    project,   \* state.project, None while none is open
    field,     \* the version typed in the form, None if blank
    pending,   \* state.pending
    tasks,
    stored     \* <<project, version, file>> of the uploads the server took

vars == <<project, field, pending, tasks, stored>>

\* An upload in its loop: what it was submitted for, what it sends now and where,
\* what is left, and whether the user has left the page alone since; or one that is
\* done and opens its project again.
Upload == [at : {"send"}, home : Projects, version : Versions, batch : SUBSET Files,
           rest : SUBSET Files, file : Files, to : Projects \cup {None},
           alone : BOOLEAN]
          \cup [at : {"reopen"}, version : Versions]

ASSUME QueueAssumption ==
    /\ None \notin Projects \cup Versions
    /\ Idle \notin Upload
    /\ MayFail \in BOOLEAN

Init ==
    /\ project = None
    /\ field = None
    /\ pending = {}
    /\ tasks = [t \in Tasks |-> Idle]
    /\ stored = {}

Sends(t) == tasks[t] # Idle /\ tasks[t].at = "send"

\* The user does something while uploads are under way.
Disturbed == [t \in Tasks |-> IF Sends(t) THEN [tasks[t] EXCEPT !.alone = FALSE]
                              ELSE tasks[t]]
-----------------------------------------------------------------------------
\* queueFiles; the drop zone is in the detail of an open project.
QueueFiles(entries) ==
    /\ project # None
    /\ pending' = pending \cup entries
    /\ tasks' = Disturbed
    /\ UNCHANGED <<project, field, stored>>

OpenProject(p) ==
    /\ project' = p
    /\ pending' = {}
    /\ field' = None
    /\ tasks' = Disturbed
    /\ UNCHANGED stored

\* Typed, or filled in by openVersion.
SetVersion(v) ==
    /\ project # None
    /\ field' = v
    /\ tasks' = Disturbed
    /\ UNCHANGED <<project, pending, stored>>

\* A sign-out, a 401 to another request, or a sign-in after it.
Leave ==
    /\ project' = None
    /\ pending' = {}
    /\ tasks' = Disturbed
    /\ UNCHANGED <<field, stored>>

Submit(t) ==
    /\ tasks[t] = Idle
    /\ project # None /\ field # None
    /\ \E f \in pending :
          tasks' = [Disturbed EXCEPT ![t] =
                      [at |-> "send", home |-> project, version |-> field, batch |-> pending,
                       rest |-> pending \ {f}, file |-> f, to |-> project, alone |-> TRUE]]
    /\ UNCHANGED <<project, field, pending, stored>>

TakeUpload(t) == stored' = stored \cup {<<tasks[t].to, tasks[t].version, tasks[t].file>>}

\* Mutant: the loop goes on when an upload has failed.
SendNextAnyway(t) ==
    /\ Sends(t)
    /\ \E f \in tasks[t].rest :
          tasks' = [tasks EXCEPT ![t].file = f, ![t].rest = @ \ {f}, ![t].to = project]
    /\ \/ TakeUpload(t)
       \/ UNCHANGED stored
    /\ UNCHANGED <<project, field, pending>>

\* The upload is answered 201 and the next is sent, to the project open by now.
SendNext(t) ==
    /\ Sends(t)
    /\ \E f \in tasks[t].rest :
          tasks' = [tasks EXCEPT ![t].file = f, ![t].rest = @ \ {f}, ![t].to = project]
    /\ TakeUpload(t)
    /\ UNCHANGED <<project, field, pending>>

\* Mutant: the last file is left out.
SentButOne(t) ==
    /\ Sends(t)
    /\ \E f \in Files : tasks[t].rest \subseteq {f}
    /\ TakeUpload(t)
    /\ pending' = {}
    /\ field' = None
    /\ tasks' = [tasks EXCEPT ![t] = [at |-> "reopen", version |-> tasks[t].version]]
    /\ UNCHANGED project

\* The last is answered: the queue is cleared and the project opened again.
SentAll(t) ==
    /\ Sends(t)
    /\ tasks[t].rest = {}
    /\ TakeUpload(t)
    /\ pending' = {}
    /\ field' = None
    /\ tasks' = [tasks EXCEPT ![t] = [at |-> "reopen", version |-> tasks[t].version]]
    /\ UNCHANGED project

\* uploadPending ends with openVersion.
Reopened(t) ==
    /\ tasks[t] # Idle /\ tasks[t].at = "reopen"
    /\ field' = tasks[t].version
    /\ tasks' = [tasks EXCEPT ![t] = Idle]
    /\ UNCHANGED <<project, pending, stored>>

\* An upload or the reopening fails; the server may have taken the file.  The queue
\* stays for another try.
Failed(t) ==
    /\ MayFail
    /\ tasks[t] # Idle
    /\ \/ Sends(t) /\ TakeUpload(t)
       \/ UNCHANGED stored
    /\ tasks' = [tasks EXCEPT ![t] = Idle]
    /\ UNCHANGED <<project, field, pending>>

Next ==
    \/ \E entries \in SUBSET Files : QueueFiles(entries)
    \/ \E p \in Projects : OpenProject(p)
    \/ \E v \in Versions : SetVersion(v)
    \/ Leave
    \/ \E t \in Tasks : Submit(t) \/ SendNext(t) \/ SentAll(t) \/ Reopened(t) \/ Failed(t)

Spec == Init /\ [][Next]_vars
-----------------------------------------------------------------------------
TypeOK ==
    /\ project \in Projects \cup {None}
    /\ field \in Versions \cup {None}
    /\ pending \subseteq Files
    /\ tasks \in [Tasks -> Upload \cup {Idle}]
    /\ stored \subseteq (Projects \cup {None}) \X Versions \X Files

Ends(t) == Sends(t) /\ tasks'[t] # Idle /\ tasks'[t].at = "reopen"

\* The variables have their types, and an upload that ends without a failure has uploaded
\* every file that was queued when it was submitted, whatever happened to the queue since.
BatchUploaded ==
    /\ []TypeOK
    /\ [][\A t \in Tasks : Ends(t) =>
             \A f \in tasks[t].batch : \E p \in Projects \cup {None} :
                 <<p, tasks[t].version, f>> \in stored']_vars

\* An upload during which the user leaves the page alone clears the queue of files that
\* it has uploaded where they were queued, and of no others.
ClearsOnlyUploaded ==
    [][\A t \in Tasks : Ends(t) /\ tasks[t].alone =>
          \A f \in pending : <<tasks[t].home, tasks[t].version, f>> \in stored']_vars
=============================================================================
