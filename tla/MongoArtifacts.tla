--------------------------- MODULE MongoArtifacts ---------------------------
(***************************************************************************)
(* The index of artifacts in MongoDB (mongo.py) next to the storage tree,  *)
(* both shared by several servers: upload_file, delete_file and            *)
(* delete_version (app.py) change the tree and then the index, one command *)
(* each, and the start (sync.py) indexes what has no row.  Within a server *)
(* a handler runs to its end before another begins; another server may act *)
(* between any two of its steps, and each step may be its last.  Which     *)
(* bytes a file holds is left to Artifacts.                                *)
(***************************************************************************)
EXTENDS Naturals, FiniteSets

CONSTANTS
    Files,      \* names of files, each of one version
    Versions,
    VersionOf,
    Servers,    \* processes that share the tree and the database
    MaxFaults   \* bound: processes or commands that fail inside a handler

ASSUME MongoArtifactsAssumption ==
    /\ VersionOf \in [Files -> Versions]
    /\ MaxFaults \in Nat

VARIABLES
    tree,    \* files in the storage tree
    rows,    \* files in the artifacts collection
    server,  \* what each server is in the middle of
    told,    \* what the last answered request on a file said of it
    faults

vars == <<tree, rows, server, told, faults>>

Of(v) == {f \in Files : VersionOf[f] = v}

Places == {"idle", "down", "index", "find", "unindex", "rmtree", "unindexAll",
           "list", "sync", "add"}

\* on: the files that the handler or the start is about; left: those the place it is at is
\* yet to handle; found: those a start has listed and not looked up.  alone: no request or
\* start of another server that can undo its work has met it, see Meets.
Activity == [at : Places, on : SUBSET Files, left : SUBSET Files, found : SUBSET Files,
             alone : BOOLEAN]
Task(place, on, left) ==
    [at |-> place, on |-> on, left |-> left, found |-> {}, alone |-> TRUE]
Idle == Task("idle", {}, {})
Down == Task("down", {}, {})

Uploading == {"index"}
Deleting == {"find", "unindex", "rmtree", "unindexAll"}
Starting == {"list", "sync", "add"}

Init ==
    /\ tree \in SUBSET Files
    /\ rows = {}
    /\ server = [s \in Servers |-> Down]
    /\ told = [f \in Files |-> "nothing"]
    /\ faults = 0

At(s, place) == server[s].at = place
Busy(s) == server[s].at \notin {"idle", "down"}

\* Uploads meet deletions, and a start meets whatever goes on.
Meets(s, place, on) ==
    /\ Busy(s)
    /\ server[s].on \cap on # {}
    /\ \/ place \in Uploading /\ server[s].at \in Deleting
       \/ place \in Deleting /\ server[s].at \in Uploading
       \/ place \in Starting \/ server[s].at \in Starting

\* A handler or a start begins at the given place.
Begin(s, activity) ==
    LET met == {t \in Servers \ {s} : Meets(t, activity.at, activity.on)}
    IN  server' = [t \in Servers |-> IF t = s THEN [activity EXCEPT !.alone = (met = {})]
                                     ELSE IF t \in met THEN [server[t] EXCEPT !.alone = FALSE]
                                     ELSE server[t]]
Go(s, activity) == server' = [server EXCEPT ![s] = activity]
GoOn(s, place, left, found) ==
    Go(s, [at |-> place, on |-> server[s].on, left |-> left, found |-> found,
           alone |-> server[s].alone])
Forget(on) == told' = [f \in Files |-> IF f \in on THEN "nothing" ELSE told[f]]

\* The handler of s is answered with 2xx.
Answer(s, word) ==
    /\ Go(s, Idle)
    /\ told' = [f \in Files |-> IF f \in server[s].on /\ server[s].alone THEN word ELSE told[f]]
-----------------------------------------------------------------------------
(* upload_file: store(), then one upsert. *)

Store(s, f) ==
    /\ At(s, "idle")
    /\ tree' = tree \cup {f}
    /\ Begin(s, Task("index", {f}, {}))
    /\ Forget({f})
    /\ UNCHANGED <<rows, faults>>

UpsertArtifact(s) ==
    /\ At(s, "index")
    /\ rows' = rows \cup server[s].on
    /\ Answer(s, "there")
    /\ UNCHANGED <<tree, faults>>
-----------------------------------------------------------------------------
(* delete_file: unlink, then a lookup and a deletion. *)

\* Mutant: a file that is not there is answered at once.
UnlinkOrDone(s, f) ==
    /\ At(s, "idle")
    /\ tree' = tree \ {f}
    /\ IF f \in tree
       THEN Begin(s, Task("find", {f}, {})) /\ Forget({f})
       ELSE UNCHANGED server /\ told' = [told EXCEPT ![f] = "gone"]
    /\ UNCHANGED <<rows, faults>>

Unlink(s, f) ==
    /\ At(s, "idle")
    /\ tree' = tree \ {f}
    /\ Begin(s, Task("find", {f}, {}))
    /\ Forget({f})
    /\ UNCHANGED <<rows, faults>>

FindArtifact(s) ==
    /\ At(s, "find")
    /\ IF server[s].on \subseteq rows
       THEN GoOn(s, "unindex", {}, {}) /\ UNCHANGED told
       ELSE Answer(s, "gone")
    /\ UNCHANGED <<tree, rows, faults>>

DeleteArtifact(s) ==
    /\ At(s, "unindex")
    /\ rows' = rows \ server[s].on
    /\ Answer(s, "gone")
    /\ UNCHANGED <<tree, faults>>
-----------------------------------------------------------------------------
(* delete_version: rmtree, then one deletion. *)

DeleteVersion(s, v) ==
    /\ At(s, "idle")
    /\ Begin(s, Task("rmtree", Of(v), tree \cap Of(v)))
    /\ Forget(Of(v))
    /\ UNCHANGED <<tree, rows, faults>>

\* An entry that was listed, or that another server put meanwhile into a directory not
\* listed yet.
RmtreeFile(s, f) ==
    /\ At(s, "rmtree")
    /\ f \in server[s].on \cap tree
    /\ tree' = tree \ {f}
    /\ GoOn(s, "rmtree", server[s].left \ {f}, {})
    /\ UNCHANGED <<rows, told, faults>>

RmtreeDone(s) ==
    /\ At(s, "rmtree")
    /\ server[s].on \cap tree = {}
    /\ GoOn(s, "unindexAll", {}, {})
    /\ UNCHANGED <<tree, rows, told, faults>>

\* Another server has removed an entry first, or has put one in a directory that was
\* empty: 500.
RmtreeRaises(s) ==
    /\ At(s, "rmtree")
    /\ ~(server[s].left \subseteq tree) \/ (server[s].left = {} /\ server[s].on \cap tree # {})
    /\ Go(s, Idle)
    /\ UNCHANGED <<tree, rows, told, faults>>

DeleteArtifacts(s) ==
    /\ At(s, "unindexAll")
    /\ rows' = rows \ server[s].on
    /\ Answer(s, "gone")
    /\ UNCHANGED <<tree, faults>>
-----------------------------------------------------------------------------
(* The start: list_all, then for each file a lookup and, if need be, an upsert. *)

Connect(s) ==
    /\ At(s, "down")
    /\ Begin(s, Task("list", Files, Files))
    /\ UNCHANGED <<tree, rows, told, faults>>

ListFile(s, f) ==
    /\ At(s, "list")
    /\ f \in server[s].left
    /\ LET left == server[s].left \ {f}
       IN  GoOn(s, IF left = {} THEN "sync" ELSE "list", left,
                server[s].found \cup ({f} \cap tree))
    /\ UNCHANGED <<tree, rows, told, faults>>

\* Mutant: the start ends at the first file that has a row.
SyncUntilFound(s, f) ==
    /\ At(s, "sync")
    /\ f \in server[s].found
    /\ IF f \in rows THEN GoOn(s, "sync", {}, {})
       ELSE GoOn(s, "add", {f}, server[s].found \ {f})
    /\ UNCHANGED <<tree, rows, told, faults>>

SyncFind(s, f) ==
    /\ At(s, "sync")
    /\ f \in server[s].found
    /\ LET rest == server[s].found \ {f}
       IN  IF f \in rows THEN GoOn(s, "sync", {}, rest) ELSE GoOn(s, "add", {f}, rest)
    /\ UNCHANGED <<tree, rows, told, faults>>

SyncAdd(s) ==
    /\ At(s, "add")
    /\ rows' = rows \cup server[s].left
    /\ GoOn(s, "sync", {}, server[s].found)
    /\ UNCHANGED <<tree, told, faults>>

SyncDone(s) ==
    /\ At(s, "sync")
    /\ server[s].found = {}
    /\ Go(s, Idle)
    /\ UNCHANGED <<tree, rows, told, faults>>
-----------------------------------------------------------------------------
Stop(s) ==
    /\ At(s, "idle")
    /\ Go(s, Down)
    /\ UNCHANGED <<tree, rows, told, faults>>

\* The process dies; or a step raises, which ends a request in 500 and a start for good.
Break(s) ==
    /\ Busy(s)
    /\ faults < MaxFaults
    /\ faults' = faults + 1
    /\ \E after \in IF server[s].at \in Starting THEN {Down} ELSE {Down, Idle} : Go(s, after)
    /\ UNCHANGED <<tree, rows, told>>

Act(s) ==
    \/ UpsertArtifact(s) \/ FindArtifact(s) \/ DeleteArtifact(s)
    \/ RmtreeDone(s) \/ RmtreeRaises(s) \/ DeleteArtifacts(s)
    \/ Connect(s) \/ SyncAdd(s) \/ SyncDone(s) \/ Stop(s) \/ Break(s)
    \/ \E v \in Versions : DeleteVersion(s, v)
    \/ \E f \in Files :
          Store(s, f) \/ Unlink(s, f) \/ RmtreeFile(s, f) \/ ListFile(s, f) \/ SyncFind(s, f)

Next == \E s \in Servers : Act(s)

Spec == Init /\ [][Next]_vars
-----------------------------------------------------------------------------
TypeOK ==
    /\ tree \subseteq Files
    /\ rows \subseteq Files
    /\ server \in [Servers -> Activity]
    /\ told \in [Files -> {"nothing", "there", "gone"}]
    /\ faults \in 0 .. MaxFaults

\* A file whose upload was answered 201 stays in the tree and in the index until the next
\* request on it, whichever servers upload it at once, work on other files, start, stop
\* or break; only a deletion, or a start, that overlaps with the upload may undo it.
UploadsIndexed == \A f \in Files : told[f] = "there" => f \in tree \cap rows

\* A file whose deletion, or whose version's, was answered 204 stays out of both, even if
\* an earlier deletion of it was cut off in the middle; only an upload or a start that
\* overlaps with the deletion may undo it.
DeletionsKept == \A f \in Files : told[f] = "gone" => f \notin tree \cup rows

\* The variables have their types, and both kinds of answers are kept.
AnswersKept == TypeOK /\ UploadsIndexed /\ DeletionsKept

\* A start that no request overlaps leaves no file without a row, whatever was cut off
\* before it.
StartHeals ==
    [][\A s \in Servers :
          At(s, "sync") /\ server[s].alone /\ server'[s] = Idle => tree \subseteq rows]_vars
=============================================================================
