----------------------------- MODULE Artifacts -----------------------------
(***************************************************************************)
(* The artifact half of the HTTP API (app.py): the bytes in the storage    *)
(* tree (FilesystemFileStore, files.py), the index of artifacts in the     *)
(* document of JsonDatabase (database.py), and the synchronisation of the  *)
(* two at startup (sync.py).  The handlers upload_file, delete_file and    *)
(* delete_version change the tree first and the index second and never     *)
(* wait in between, so no other handler sees the middle of one: a crash or *)
(* an OSError does.  running is the handler, or the startup, that is in    *)
(* such a middle.                                                          *)
(***************************************************************************)
EXTENDS JsonStore

CONSTANTS
    Versions,   \* versions of projects: {project}/{version} directories
    Paths,      \* relative paths below a version, as list() reports them
    Names,      \* file names as requests spell them; a path spells itself
    Norm,       \* _safe_relative_path: the path of a name, or NoPath
    Inside,     \* <<p, q>> when path p lies below q taken as a directory
    Contents,   \* what may be uploaded
    Partial, Absent, NoPath, NoRow, Unknown, Idle

\* When a row's uploadedAt was taken: at the upload, or from the file's mtime.
Stamps == {"upload", "mtime"}

ASSUME ArtifactsAssumption ==
    /\ Paths \subseteq Names
    /\ Norm \in [Names -> Paths \cup {NoPath}]
    /\ NoPath \notin Paths
    /\ \A p \in Paths : Norm[p] = p
    /\ Inside \subseteq Paths \X Paths
    /\ Partial \notin Contents
    /\ Absent \notin Contents \cup {Partial}
    /\ Unknown \notin Contents \cup {Partial, Absent}
    /\ NoRow \notin Stamps

\* The artifact half of PersistedState, keyed like find_artifact.
Index == [Versions -> [Names -> Stamps \cup {NoRow}]]

Job == [op : {"copy"}, version : Versions, name : Names, content : Contents]
       \cup [op : {"index", "unindex"}, version : Versions, name : Names]
       \cup [op : {"rmtree", "unindexAll"}, version : Versions]
       \cup [op : {"sync"}]

ASSUME IndexAssumption ==
    /\ Defaults = [v \in Versions |-> [n \in Names |-> NoRow]]
    /\ NoFile \notin Index
    /\ Idle \notin Job

VARIABLES
    files,     \* content of each file of the storage tree, Absent if none
    dirs,      \* the paths that exist as directories
    running,   \* the handler between two of its changes, or the startup
    told,      \* what the last answered upload or deletion said of the name it
               \* was about, Unknown while none settles the name's path
    torn,      \* files whose upload ended in 500 since the server started
    unwritten  \* rows that left memory in a removal that failed to persist, and
               \* that no persist has taken from the file since

treeVars == <<files, dirs>>
vars == <<mem, disk, up, faults, files, dirs, running, told, torn, unwritten>>

Above(p) == {q \in Paths : <<p, q>> \in Inside}

\* A regular file stands where a directory of p is needed, or p is a directory:
\* opening or unlinking p raises an OSError and the request ends in 500.
Blocked(v, p) == p \in dirs[v] \/ \E q \in Above(p) : files[v][q] # Absent

\* The storage root may hold files before the server first runs.
Init ==
    /\ StoreInit
    /\ files \in [Versions -> [Paths -> Contents \cup {Absent}]]
    /\ dirs = [v \in Versions |-> UNION {Above(p) : p \in {q \in Paths : files[v][q] # Absent}}]
    /\ \A v \in Versions, p \in Paths : files[v][p] # Absent => ~Blocked(v, p)
    /\ running = Idle
    /\ told = [v \in Versions |-> [n \in Names |-> Unknown]]
    /\ torn = {}
    /\ unwritten = {}

Serving == up /\ running = Idle
Runs(op) == up /\ running # Idle /\ running.op = op

\* The bookkeeping when a request begins: nothing is settled any more of the path it
\* names, by whichever name.
Unsettle(v, p) ==
    told' = [told EXCEPT ![v] =
                [n \in Names |-> IF Norm[n] = p THEN Unknown ELSE told[v][n]]]

\* What a mutation's answer settles, of the name of its request: nothing unless it was
\* a 2xx.
Answer(value, outcome) == IF outcome = "saved" THEN value ELSE Unknown

\* The bookkeeping when the document is persisted: index is the half of it kept here.
NoteUnwritten(index, outcome) ==
    unwritten' =
        IF outcome = "failed"
        THEN unwritten \cup {k \in Versions \X Names :
                               mem[k[1]][k[2]] # NoRow /\ index[k[1]][k[2]] = NoRow}
        ELSE {k \in unwritten : index[k[1]][k[2]] # NoRow}

PersistIndex(index, outcome) ==
    /\ Persist(index, outcome)
    /\ NoteUnwritten(index, outcome)
-----------------------------------------------------------------------------
(* upload_file: after the form has been read, store() and add_artifact().  *)
(* A name without a path is refused with 400 and changes nothing.          *)

\* Mutant: a row is written without its uploadedAt.
WithBareRow(index, v, n, stamp) == [index EXCEPT ![v][n] = Absent]

WithRow(index, v, n, stamp) == [index EXCEPT ![v][n] = stamp]

\* open("wb") creates the directories and truncates what was there.
OpenForUpload(v, n, content) ==
    LET p == Norm[n]
    IN  /\ Serving
        /\ p # NoPath
        /\ ~Blocked(v, p)
        /\ files' = [files EXCEPT ![v][p] = Partial]
        /\ dirs' = [dirs EXCEPT ![v] = @ \cup Above(p)]
        /\ running' = [op |-> "copy", version |-> v, name |-> n, content |-> content]
        /\ Unsettle(v, p)
        /\ torn' = torn \cup {<<v, p>>}
        /\ UNCHANGED <<mem, disk, up, faults, unwritten>>

CopyDone ==
    /\ Runs("copy")
    /\ files' = [files EXCEPT ![running.version][Norm[running.name]] = running.content]
    /\ running' = [op |-> "index", version |-> running.version, name |-> running.name]
    /\ UNCHANGED <<mem, disk, up, faults, dirs, told, torn, unwritten>>

\* copyfileobj raises: the request ends in 500 and part of the bytes stay.
CopyFails ==
    /\ Runs("copy")
    /\ faults < MaxFaults
    /\ faults' = faults + 1
    /\ running' = Idle
    /\ UNCHANGED <<mem, disk, up, files, dirs, told, torn, unwritten>>

\* add_artifact, with the name as the request spelled it.
AddArtifact(outcome) ==
    LET v == running.version
        n == running.name
    IN  /\ Runs("index")
        /\ PersistIndex(WithRow(mem, v, n, "upload"), outcome)
        /\ running' = Idle
        /\ told' = [told EXCEPT ![v][n] = Answer(files[v][Norm[n]], outcome)]
        /\ torn' = torn \ {<<v, Norm[n]>>}
        /\ UNCHANGED treeVars
-----------------------------------------------------------------------------
(* delete_file: delete() and remove_artifact(). *)

\* unlink(missing_ok=True); a name without a path has no file to unlink.
Unlink(v, n) ==
    LET p == Norm[n]
    IN  /\ Serving
        /\ p # NoPath => ~Blocked(v, p)
        /\ files' = IF p = NoPath THEN files ELSE [files EXCEPT ![v][p] = Absent]
        /\ running' = [op |-> "unindex", version |-> v, name |-> n]
        /\ Unsettle(v, p)
        /\ UNCHANGED <<mem, disk, up, faults, dirs, torn, unwritten>>

\* Mutant: the row leaves memory and the persist is forgotten.
RemoveArtifactInMemory(outcome) ==
    LET v == running.version
        n == running.name
    IN  /\ Runs("unindex")
        /\ mem[v][n] # NoRow
        /\ outcome = "saved"
        /\ mem' = WithRow(mem, v, n, NoRow)
        /\ running' = Idle
        /\ told' = [told EXCEPT ![v][n] = Absent]
        /\ UNCHANGED <<disk, up, faults, files, dirs, torn, unwritten>>

RemoveArtifact(outcome) ==
    LET v == running.version
        n == running.name
    IN  /\ Runs("unindex")
        /\ mem[v][n] # NoRow
        /\ PersistIndex(WithRow(mem, v, n, NoRow), outcome)
        /\ running' = Idle
        /\ told' = [told EXCEPT ![v][n] = Answer(Absent, outcome)]
        /\ UNCHANGED <<files, dirs, torn>>

\* The row is not in memory: answered 204 without a persist.
RemoveNoArtifact ==
    LET v == running.version
        n == running.name
    IN  /\ Runs("unindex")
        /\ mem[v][n] = NoRow
        /\ running' = Idle
        /\ told' = [told EXCEPT ![v][n] = Absent]
        /\ UNCHANGED <<mem, disk, up, faults, files, dirs, torn, unwritten>>
-----------------------------------------------------------------------------
(* delete_version: delete_version() of the store, then remove_version(). *)

BeginRmtree(v) ==
    /\ Serving
    /\ running' = [op |-> "rmtree", version |-> v]
    /\ told' = [told EXCEPT ![v] = [n \in Names |-> Unknown]]
    /\ UNCHANGED <<mem, disk, up, faults, files, dirs, torn, unwritten>>

\* Mutant: only regular files are removed.
RmtreeFile(p) ==
    LET v == running.version
    IN  /\ Runs("rmtree")
        /\ files[v][p] # Absent
        /\ files' = [files EXCEPT ![v][p] = Absent]
        /\ UNCHANGED <<mem, disk, up, faults, dirs, running, told, torn, unwritten>>

\* rmtree goes entry by entry, a directory after what it holds.
RmtreeEntry(p) ==
    LET v == running.version
    IN  /\ Runs("rmtree")
        /\ \/ /\ files[v][p] # Absent
              /\ files' = [files EXCEPT ![v][p] = Absent]
              /\ UNCHANGED dirs
           \/ /\ p \in dirs[v]
              /\ \A q \in Paths : p \in Above(q) => files[v][q] = Absent /\ q \notin dirs[v]
              /\ dirs' = [dirs EXCEPT ![v] = @ \ {p}]
              /\ UNCHANGED files
        /\ UNCHANGED <<mem, disk, up, faults, running, told, torn, unwritten>>

RmtreeFails ==
    /\ Runs("rmtree")
    /\ faults < MaxFaults
    /\ faults' = faults + 1
    /\ running' = Idle
    /\ UNCHANGED <<mem, disk, up, files, dirs, told, torn, unwritten>>

\* Mutant: errors are ignored, the handler goes on with entries left.
RmtreeIgnoringErrors ==
    LET v == running.version
    IN  /\ Runs("rmtree")
        /\ running' = [op |-> "unindexAll", version |-> v]
        /\ UNCHANGED <<mem, disk, up, faults, files, dirs, told, torn, unwritten>>

RmtreeDone ==
    LET v == running.version
    IN  /\ Runs("rmtree")
        /\ dirs[v] = {} /\ \A p \in Paths : files[v][p] = Absent
        /\ running' = [op |-> "unindexAll", version |-> v]
        /\ UNCHANGED <<mem, disk, up, faults, files, dirs, told, torn, unwritten>>

NoRows == [n \in Names |-> NoRow]

RemoveVersion(outcome) ==
    LET v == running.version
    IN  /\ Runs("unindexAll")
        /\ mem[v] # NoRows
        /\ PersistIndex([mem EXCEPT ![v] = NoRows], outcome)
        /\ running' = Idle
        /\ told' = [told EXCEPT ![v] = [n \in Names |-> Answer(Absent, outcome)]]
        /\ UNCHANGED <<files, dirs, torn>>

\* No row of the version is in memory: answered 204 without a persist.
RemoveNoVersion ==
    LET v == running.version
    IN  /\ Runs("unindexAll")
        /\ mem[v] = NoRows
        /\ running' = Idle
        /\ told' = [told EXCEPT ![v] = [n \in Names |-> Absent]]
        /\ UNCHANGED <<mem, disk, up, faults, files, dirs, torn, unwritten>>
-----------------------------------------------------------------------------
(* Startup: the document is loaded, then every file on disk without a row  *)
(* of its own gets one.  An exception here ends the process, like a crash. *)

Start ==
    /\ LoadOrSeed(disk # NoFile)
    /\ running' = [op |-> "sync"]
    /\ torn' = {}
    /\ UNCHANGED <<files, dirs, told, unwritten>>

\* Mutant: every file on disk is indexed anew, whether or not it has a row.
AllFiles == {k \in Versions \X Paths : files[k[1]][k[2]] # Absent}

Unindexed == {k \in Versions \X Paths : /\ files[k[1]][k[2]] # Absent
                                         /\ mem[k[1]][k[2]] = NoRow}

SyncFile(v, p) ==
    /\ Runs("sync")
    /\ <<v, p>> \in Unindexed
    /\ PersistIndex(WithRow(mem, v, p, "mtime"), "saved")
    /\ UNCHANGED <<files, dirs, running, told, torn>>

\* Mutant: the server starts without synchronising.
SyncSkipped ==
    /\ Runs("sync")
    /\ running' = Idle
    /\ UNCHANGED <<mem, disk, up, faults, files, dirs, told, torn, unwritten>>

SyncDone ==
    /\ Runs("sync")
    /\ Unindexed = {}
    /\ running' = Idle
    /\ UNCHANGED <<mem, disk, up, faults, files, dirs, told, torn, unwritten>>

Crash ==
    /\ Die
    /\ running' = Idle
    /\ UNCHANGED <<files, dirs, told, torn, unwritten>>

\* An account handler persists the document this half is part of.
AccountHandlerPersists ==
    /\ running = Idle
    /\ OtherHalfPersisted
    /\ NoteUnwritten(mem, "saved")
    /\ UNCHANGED <<files, dirs, running, told, torn>>
-----------------------------------------------------------------------------
\* list_files: the files of the tree, each with the stamp of the row under its path.
ListFiles(v) ==
    [p \in {q \in Paths : files[v][q] # Absent} |->
        IF mem[v][p] = NoRow THEN "epoch" ELSE mem[v][p]]
-----------------------------------------------------------------------------
\* The steps of a handler or a startup that has begun.
Continue ==
    \/ CopyDone \/ CopyFails \/ RemoveNoArtifact
    \/ RmtreeFails \/ RmtreeDone \/ RemoveNoVersion \/ SyncDone
    \/ \E outcome \in Outcomes :
          AddArtifact(outcome) \/ RemoveArtifact(outcome) \/ RemoveVersion(outcome)
    \/ \E p \in Paths : RmtreeEntry(p)
    \/ \E v \in Versions, p \in Paths : SyncFile(v, p)

Begin ==
    \/ \E v \in Versions, n \in Names, content \in Contents : OpenForUpload(v, n, content)
    \/ \E v \in Versions, n \in Names : Unlink(v, n)
    \/ \E v \in Versions : BeginRmtree(v)

Next == Begin \/ Continue \/ AccountHandlerPersists \/ Crash \/ Start

Spec == Init /\ [][Next]_vars

\* Nothing in a handler or the startup waits for anything: once begun it goes on,
\* unless the process dies.
FairSpec == Spec /\ WF_vars(Continue)
-----------------------------------------------------------------------------
TypeOK ==
    /\ mem \in Index
    /\ disk \in Index \cup {NoFile}
    /\ up \in BOOLEAN
    /\ faults \in 0 .. MaxFaults
    /\ files \in [Versions -> [Paths -> Contents \cup {Partial, Absent}]]
    /\ dirs \in [Versions -> SUBSET Paths]
    /\ running \in Job \cup {Idle}
    /\ told \in [Versions -> [Names -> Contents \cup {Absent, Unknown}]]
    /\ torn \subseteq Versions \X Paths
    /\ unwritten \subseteq Versions \X Names

\* A name whose upload was answered 201 has the uploaded bytes in the file of its path,
\* and a row stamped by that upload in force and in the file, until the next request that
\* changes the path, by whichever name, or its version: through crashes, restarts, syncs
\* and failing writes of other files.
UploadsKept ==
    \A v \in Versions, n \in Names : told[v][n] \in Contents =>
        /\ files[v][Norm[n]] = told[v][n]
        /\ disk # NoFile /\ disk[v][n] = "upload"
        /\ up => mem[v][n] = "upload"

\* A file whose deletion, or whose version's, was answered 204 stays absent, whichever of
\* its names the deletion gave.
DeletedFilesAbsent ==
    \A v \in Versions, n \in Names :
        told[v][n] = Absent /\ Norm[n] # NoPath => files[v][Norm[n]] = Absent

\* The row under the name of a deletion that was answered 204, or under any name of a
\* version so deleted, is neither in memory nor in the file, and no restart brings it
\* back into the version list; except that a row whose removal failed to persist may be
\* in the file still when the deletion is repeated and answered from memory.
DeletedRowsGone ==
    \A v \in Versions, n \in Names : told[v][n] = Absent /\ <<v, n>> \notin unwritten =>
        /\ up => mem[v][n] = NoRow
        /\ disk # NoFile => disk[v][n] = NoRow

Rows(index, v, p) == {n \in Names : Norm[n] = p /\ index[v][n] # NoRow}

\* list_files shows a file with EPOCH as its time for two reasons only: an upload of it
\* has failed since the server started, or its row is under another name of its path.
EpochExplained ==
    Serving => \A v \in Versions : \A p \in DOMAIN ListFiles(v) :
        ListFiles(v)[p] = "epoch" => <<v, p>> \in torn \/ Rows(mem, v, p) # {}

\* What API.md and API-SYSTEM.md promise of DELETE: after the 204 nothing is left of the
\* file in the metadata.  A row under another name of the path stays, and so does one
\* whose first removal failed to persist, after a restart.
DeletionsComplete ==
    Serving => \A v \in Versions, n \in Names :
        told[v][n] = Absent /\ Norm[n] # NoPath => Rows(mem, v, Norm[n]) = {}

\* A handler or a startup that has begun ends, or the process does.
HandlersEnd == (running # Idle) ~> (running = Idle)
=============================================================================
