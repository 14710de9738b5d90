----------------------------- MODULE Downloads -----------------------------
(***************************************************************************)
(* Downloads and archives (app.py, middleware.py) while files are uploaded *)
(* anew and deleted.  download_file only checks that the file is there;    *)
(* FileResponse then stats, opens and reads it piece by piece on worker    *)
(* threads, and between two of these the event loop may run any other      *)
(* handler.  An upload and the writing of an archive run on the event loop *)
(* without a wait: running is the one that does, no handler and no         *)
(* response goes on meanwhile, but a worker thread may be in the middle of *)
(* what it was asked to do.                                                *)
(***************************************************************************)
EXTENDS Naturals, Sequences, FiniteSets

CONSTANTS
    Paths,       \* files of one version that an archive prefix matches
    Contents,    \* what may be uploaded
    Size,        \* the number of pieces of each content
    Requests,    \* downloads and archives that may be under way at once
    MaxFaults,   \* bound: errors and crashes
    Absent, Live, Idle

ASSUME DownloadsAssumption ==
    /\ Size \in [Contents -> Nat]
    /\ MaxFaults \in Nat
    /\ IsFiniteSet(Requests)
    /\ Live # Absent
    /\ {Absent, Live} \cap Seq(Contents \X Nat) = {}

VARIABLES
    files,      \* the bytes of each file, as a sequence of pieces; Absent if none
    running,    \* the handler that occupies the event loop
    response,   \* what each request has come to
    temps,      \* number of temporary archives on disk
    faults

vars == <<files, running, response, temps, faults>>

Bytes(content) == [i \in 1 .. Size[content] |-> <<content, i>>]

DownloadSteps == {"stat", "open", "read", "end"}
ArchiveSteps == {"zip", "send"}

\* The steps of a FileResponse; the thread or the loop has to act next.
Download ==
    [at : DownloadSteps, on : {"thread", "loop"}, path : Paths,
     size : Nat, file : Seq(Contents \X Nat) \cup {Live}, got : Seq(Contents \X Nat),
     began : Seq(Contents \X Nat), overwritten : BOOLEAN]
Tree == [Paths -> Seq(Contents \X Nat) \cup {Absent}]
Archive == [at : ArchiveSteps, left : SUBSET Paths, entries : Tree, began : Tree]
Job == [op : {"copy"}, path : Paths, content : Contents] \cup [op : {"zip"}, request : Requests]

\* Idle is neither a response nor a job.
ASSUME IdleAssumption == Idle \notin Download \cup Archive \cup Job

Init ==
    /\ files \in [Paths -> {Absent} \cup {Bytes(c) : c \in Contents}]
    /\ running = Idle
    /\ response = [r \in Requests |-> Idle]
    /\ temps = 0
    /\ faults = 0

Fault == faults < MaxFaults /\ faults' = faults + 1
Present == {p \in Paths : files[p] # Absent}
Become(r, state) == response' = [response EXCEPT ![r] = state]

\* The bytes that a download reads from: the open file, gone from the tree or not.
Source(d) == IF d.file = Live THEN files[d.path] ELSE d.file

At(r, steps) == response[r] # Idle /\ response[r].at \in steps
On(r, who, steps) == At(r, steps) /\ response[r].on = who
-----------------------------------------------------------------------------
(* download_file and the FileResponse it returns. *)

\* No such file: 404.
DownloadFile(r, p) ==
    /\ running = Idle /\ response[r] = Idle
    /\ p \in Present
    /\ Become(r, [at |-> "stat", on |-> "thread", path |-> p, size |-> 0, file |-> Live,
                  got |-> <<>>, began |-> files[p], overwritten |-> FALSE])
    /\ UNCHANGED <<files, running, temps, faults>>

\* The size is announced.  The file has gone: AccessLogMiddleware answers 500.
Stat(r) ==
    LET d == response[r]
    IN  /\ On(r, "thread", {"stat"})
        /\ Become(r, IF d.path \in Present
                     THEN [d EXCEPT !.on = "loop", !.size = Len(files[d.path])]
                     ELSE Idle)
        /\ UNCHANGED <<files, running, temps, faults>>

\* The file has gone after 200 and its size were sent: the connection is cut, since a
\* second response cannot start.
Open(r) ==
    LET d == response[r]
    IN  /\ On(r, "thread", {"open"})
        /\ Become(r, IF d.path \in Present THEN [d EXCEPT !.on = "loop"] ELSE Idle)
        /\ UNCHANGED <<files, running, temps, faults>>

\* Mutant: the file is opened anew for each piece.
ReadByPath(r) ==
    LET d == response[r]
        next == Len(d.got) + 1
    IN  /\ On(r, "thread", {"read"})
        /\ Become(r, IF d.path \in Present /\ next <= Len(files[d.path])
                     THEN [d EXCEPT !.on = "loop", !.got = Append(@, files[d.path][next])]
                     ELSE [d EXCEPT !.on = "loop", !.at = "end"])
        /\ UNCHANGED <<files, running, temps, faults>>

\* One piece, or the end of the file.
Read(r) ==
    LET d == response[r]
        next == Len(d.got) + 1
    IN  /\ On(r, "thread", {"read"})
        /\ Become(r, IF next <= Len(Source(d))
                     THEN [d EXCEPT !.on = "loop", !.got = Append(@, Source(d)[next])]
                     ELSE [d EXCEPT !.on = "loop", !.at = "end"])
        /\ UNCHANGED <<files, running, temps, faults>>

\* The event loop sends what the thread brought and asks for the next step.  The server
\* cuts the connection when a piece exceeds the announced size.
GoOn(r) ==
    LET d == response[r]
    IN  /\ running = Idle
        /\ On(r, "loop", {"stat", "open", "read"})
        /\ Become(r, IF Len(d.got) > d.size THEN Idle
                     ELSE [d EXCEPT !.on = "thread",
                                    !.at = IF d.at = "stat" THEN "open" ELSE "read"])
        /\ UNCHANGED <<files, running, temps, faults>>

\* A body that is shorter than announced is cut off, too.
EndDownload(r) ==
    /\ running = Idle
    /\ On(r, "loop", {"end"})
    /\ Become(r, Idle)
    /\ UNCHANGED <<files, running, temps, faults>>
-----------------------------------------------------------------------------
(* download_archive: the listing, _write_archive, the response, _unlink. *)

\* Mutant: the archive is written on a worker thread, and the event loop is free.
DownloadArchiveOnThread(r) ==
    /\ running = Idle /\ response[r] = Idle
    /\ Present # {}
    /\ Become(r, [at |-> "zip", left |-> Present, entries |-> [p \in Paths |-> Absent],
                  began |-> files])
    /\ temps' = temps + 1
    /\ UNCHANGED <<files, running, faults>>

\* No file matches: 404.
DownloadArchive(r) ==
    /\ running = Idle /\ response[r] = Idle
    /\ Present # {}
    /\ running' = [op |-> "zip", request |-> r]
    /\ Become(r, [at |-> "zip", left |-> Present, entries |-> [p \in Paths |-> Absent],
                  began |-> files])
    /\ temps' = temps + 1
    /\ UNCHANGED <<files, faults>>

\* A name of the listing that has no file any more is passed over.
WriteEntry(r, p) ==
    /\ At(r, {"zip"})
    /\ p \in response[r].left
    /\ Become(r, [response[r] EXCEPT !.left = @ \ {p}, !.entries[p] = files[p]])
    /\ UNCHANGED <<files, running, temps, faults>>

\* The FileResponse on the archive has the temporary file to itself.
ArchiveWritten(r) ==
    /\ At(r, {"zip"})
    /\ response[r].left = {}
    /\ Become(r, [response[r] EXCEPT !.at = "send"])
    /\ running' = Idle
    /\ UNCHANGED <<files, temps, faults>>

\* Mutant: the response has no background task.
SendArchiveOnly(r) ==
    /\ running = Idle
    /\ At(r, {"send"})
    /\ Become(r, Idle)
    /\ UNCHANGED <<files, running, temps, faults>>

\* The response has been sent, to a client that is there or gone: the background task
\* removes the file.
SendArchive(r) ==
    /\ running = Idle
    /\ At(r, {"send"})
    /\ Become(r, Idle)
    /\ temps' = temps - 1
    /\ UNCHANGED <<files, running, faults>>

\* An error while it is written or sent: nobody removes the file.
ArchiveFails(r) ==
    /\ Fault
    /\ \/ At(r, {"zip"}) /\ running' = Idle
       \/ At(r, {"send"}) /\ running = Idle /\ UNCHANGED running
    /\ Become(r, Idle)
    /\ UNCHANGED <<files, temps>>
-----------------------------------------------------------------------------
(* What changes the files: uploads and deletions, as in Artifacts. *)

\* store truncates the file in place: whoever has it open reads on in the new bytes.
OpenForUpload(p, c) ==
    /\ running = Idle
    /\ files' = [files EXCEPT ![p] = <<>>]
    /\ running' = [op |-> "copy", path |-> p, content |-> c]
    /\ response' = [r \in Requests |->
           IF At(r, DownloadSteps) /\ response[r].path = p /\ response[r].file = Live
           THEN [response[r] EXCEPT !.overwritten = TRUE] ELSE response[r]]
    /\ UNCHANGED <<temps, faults>>

Copies == running # Idle /\ running.op = "copy"

CopyPiece ==
    LET p == running.path
        next == Len(files[p]) + 1
    IN  /\ Copies
        /\ next <= Size[running.content]
        /\ files' = [files EXCEPT ![p] = Append(@, <<running.content, next>>)]
        /\ UNCHANGED <<running, response, temps, faults>>

CopyDone ==
    /\ Copies
    /\ Len(files[running.path]) = Size[running.content]
    /\ running' = Idle
    /\ UNCHANGED <<files, response, temps, faults>>

CopyFails ==
    /\ Copies
    /\ Fault
    /\ running' = Idle
    /\ UNCHANGED <<files, response, temps>>

\* A download that has opened path p, and reads from the file that is in the tree.
Reading(r, p) ==
    /\ On(r, "loop", {"open", "read"}) \/ On(r, "thread", {"read"})
    /\ response[r].path = p /\ response[r].file = Live

\* unlink: whoever has the file open keeps it.
Delete(p) ==
    /\ running = Idle
    /\ p \in Present
    /\ files' = [files EXCEPT ![p] = Absent]
    /\ response' = [r \in Requests |->
           IF Reading(r, p) THEN [response[r] EXCEPT !.file = files[p]] ELSE response[r]]
    /\ UNCHANGED <<running, temps, faults>>

\* The process dies and is started again.
Crash ==
    /\ Fault
    /\ running' = Idle
    /\ response' = [r \in Requests |-> Idle]
    /\ UNCHANGED <<files, temps>>
-----------------------------------------------------------------------------
Next ==
    \/ CopyPiece \/ CopyDone \/ CopyFails \/ Crash
    \/ \E p \in Paths : Delete(p) \/ \E c \in Contents : OpenForUpload(p, c)
    \/ \E r \in Requests :
          \/ Stat(r) \/ Open(r) \/ Read(r) \/ GoOn(r) \/ EndDownload(r)
          \/ DownloadArchive(r) \/ ArchiveWritten(r) \/ SendArchive(r) \/ ArchiveFails(r)
          \/ \E p \in Paths : DownloadFile(r, p) \/ WriteEntry(r, p)

Spec == Init /\ [][Next]_vars
-----------------------------------------------------------------------------
TypeOK ==
    /\ files \in Tree
    /\ running \in Job \cup {Idle}
    /\ response \in [Requests -> Download \cup Archive \cup {Idle}]
    /\ temps \in Nat
    /\ faults \in 0 .. MaxFaults

\* The client has 200 and as many bytes as were announced.
Complete(r) ==
    /\ At(r, {"open", "read", "end"})
    /\ Len(response[r].got) = response[r].size

\* A download that the client received in full is, byte for byte, the file as it was
\* when the download began, even if the file is deleted meanwhile; only an upload to its
\* path spoils it, and one that comes after a deletion only if the file was not yet open
\* (download_file, store, delete).
CompleteIsExact ==
    \A r \in Requests :
        Complete(r) /\ ~response[r].overwritten => response[r].got = response[r].began

\* An archive that is sent holds each file of its version as it was at one instant
\* (download_archive, _write_archive).
ArchiveOfOneInstant ==
    \A r \in Requests : At(r, {"send"}) => response[r].entries = response[r].began

\* The variables have their types, and temporary archives do not pile up: each that is left
\* behind cost an error or a crash (_write_archive, _unlink).
NoStrayArchives ==
    /\ TypeOK
    /\ temps <= faults * Cardinality(Requests) + Cardinality({r \in Requests : At(r, ArchiveSteps)})
=============================================================================
