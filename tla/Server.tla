------------------------------- MODULE Server -------------------------------
(***************************************************************************)
(* One process of the server over the JSON store (create_app, app.py): the *)
(* requests of Accounts and those of Artifacts on one event loop, over one *)
(* document.  Accounts and Artifacts each look at a half of that document  *)
(* and let the other requests persist it at any time; here the two halves  *)
(* are in one memory, in one file and in one process, with one lock: a     *)
(* persist writes both, a crash loses both, a start loads or seeds both.   *)
(***************************************************************************)
EXTENDS Naturals

CONSTANTS
    Users, Projects, Passwords, Tasks, DefaultAccounts, NoAccount,
    Versions, Paths, Names, Norm, Inside, Contents,
    Partial, Absent, NoPath, NoRow,
    Unknown, Idle, NoFile, MaxFaults, ReadErrors

VARIABLES
    book, bookFile,     \* users and grants of the document, in memory and in the file
    index, indexFile,   \* its artifacts
    up,                 \* as in JsonStore
    faults,             \* failed persists of the account requests
    tokens, pending, toldAccounts, toldGrants,        \* as in Accounts
    writeFaults,        \* failed writes of the artifact requests
    files, dirs, running, toldFiles, torn, unwritten, \* as in Artifacts
    forms               \* the tasks that wait for the form of an upload

NewBook == [users |-> DefaultAccounts, grants |-> {}]
NewIndex == [v \in Versions |-> [n \in Names |-> NoRow]]

A == INSTANCE Accounts WITH
        Defaults <- NewBook, mem <- book, disk <- bookFile, told <- toldAccounts

R == INSTANCE Artifacts WITH
        Defaults <- NewIndex, mem <- index, disk <- indexFile,
        faults <- writeFaults, told <- toldFiles

\* The constants are those of both halves.
ASSUME ServerAssumption ==
    /\ A!StoreAssumption /\ A!AccountsAssumption /\ A!ValueAssumption
    /\ R!StoreAssumption /\ R!ArtifactsAssumption /\ R!IndexAssumption

accountVars == <<book, bookFile, faults, tokens, pending, toldAccounts, toldGrants>>
artifactVars == <<index, indexFile, writeFaults, files, dirs, running, toldFiles, torn,
                  unwritten>>
vars == <<accountVars, artifactVars, up, forms>>

Init == A!Init /\ R!Init /\ forms = {}

\* No handler is between two of its changes: the event loop takes the next one.
Serving == up /\ running = Idle
-----------------------------------------------------------------------------
(* Requests on accounts. *)

\* The requests that leave the document alone.
AccountRequest ==
    /\ Serving
    /\ \/ \E u \in Users, password \in Passwords : A!Login(u, password)
       \/ \E s \in Tasks, t \in tokens, request \in A!Request : A!Admit(s, t, request)
       \/ \E s \in Tasks : A!GiveUp(s)
       \/ \E s \in Tasks, u \in Users : A!GrantAgain(s, u)
    /\ UNCHANGED <<artifactVars, forms>>

\* The other half of the document at a persist, and the forms that wait.
IndexPersisted(outcome) ==
    /\ indexFile' = IF outcome = "failed" THEN indexFile ELSE index
    /\ index' = IF outcome = "died" THEN NewIndex ELSE index
    /\ forms' = IF outcome = "died" THEN {} ELSE forms
    /\ IF outcome = "failed" THEN UNCHANGED unwritten ELSE R!NoteUnwritten(index, outcome)
    /\ UNCHANGED <<writeFaults, files, dirs, toldFiles, torn>>

AccountChange(outcome) ==
    \/ \E s \in Tasks, u \in Users, account \in A!Account :
          A!EnrollUser(s, u, account, outcome)
    \/ \E s \in Tasks, current \in Passwords, new \in Passwords :
          A!ChangePassword(s, current, new, outcome)
    \/ \E s \in Tasks, u \in Users : A!GrantAccess(s, u, outcome)
    \/ \E t \in tokens, u \in Users : A!DeleteUser(t, u, outcome)

\* Mutant: account requests run on threads of their own, next to an upload.
ChangeAnyTime(outcome) ==
    /\ up
    /\ AccountChange(outcome)
    /\ IndexPersisted(outcome)
    /\ UNCHANGED running

ChangeAccounts(outcome) ==
    /\ Serving
    /\ AccountChange(outcome)
    /\ IndexPersisted(outcome)
    /\ UNCHANGED running
-----------------------------------------------------------------------------
(* Requests on artifacts.  delete_file and delete_version check the caller *)
(* and go on at once; upload_file waits for its form in between.           *)

AdmitUpload(s, t) ==
    /\ Serving
    /\ s \notin forms
    /\ A!RequireAdmin(t)
    /\ forms' = forms \cup {s}
    /\ UNCHANGED <<accountVars, artifactVars, up>>

\* The client disconnects, or the form or its name is refused.
GiveUpUpload(s) ==
    /\ Serving
    /\ s \in forms
    /\ forms' = forms \ {s}
    /\ UNCHANGED <<accountVars, artifactVars, up>>

BeginArtifacts ==
    /\ \/ \E s \in forms, v \in Versions, n \in Names, content \in Contents :
             /\ R!OpenForUpload(v, n, content)
             /\ forms' = forms \ {s}
       \/ /\ \E t \in tokens : A!RequireAdmin(t)
          /\ \/ \E v \in Versions, n \in Names : R!Unlink(v, n)
             \/ \E v \in Versions : R!BeginRmtree(v)
          /\ UNCHANGED forms
    /\ UNCHANGED accountVars

\* The steps of a handler, and of the startup, that leave the document alone.
ContinueArtifacts ==
    /\ \/ R!CopyDone \/ R!CopyFails \/ R!RemoveNoArtifact \/ R!SyncDone
       \/ R!RmtreeFails \/ R!RmtreeDone \/ R!RemoveNoVersion
       \/ \E p \in Paths : R!RmtreeEntry(p)
    /\ UNCHANGED <<accountVars, forms>>

\* Mutant: after a failed write memory is taken back to what the file holds.
BookRolledBack(outcome) ==
    /\ bookFile' = IF outcome = "failed" THEN bookFile ELSE book
    /\ book' = IF outcome = "died" THEN NewBook
               ELSE IF outcome = "failed" THEN bookFile ELSE book
    /\ pending' = IF outcome = "died" THEN A!NoRequests ELSE pending
    /\ forms' = IF outcome = "died" THEN {} ELSE forms
    /\ UNCHANGED <<faults, tokens, toldAccounts, toldGrants>>

BookPersisted(outcome) ==
    /\ bookFile' = IF outcome = "failed" THEN bookFile ELSE book
    /\ book' = IF outcome = "died" THEN NewBook ELSE book
    /\ pending' = IF outcome = "died" THEN A!NoRequests ELSE pending
    /\ forms' = IF outcome = "died" THEN {} ELSE forms
    /\ UNCHANGED <<faults, tokens, toldAccounts, toldGrants>>

ChangeIndex(outcome) ==
    /\ R!AddArtifact(outcome) \/ R!RemoveArtifact(outcome) \/ R!RemoveVersion(outcome)
    /\ BookPersisted(outcome)

SyncFile(v, p) ==
    /\ R!SyncFile(v, p)
    /\ BookPersisted("saved")
-----------------------------------------------------------------------------
(* The process. *)

Expire(t) ==
    /\ A!Expire(t)
    /\ UNCHANGED <<artifactVars, forms>>

Crash ==
    /\ A!Crash /\ R!Crash
    /\ forms' = {}

\* _load_or_seed: a file that cannot be read, or that holds no user, loses both
\* halves.
Load ==
    /\ bookFile # NoFile /\ A!HasUsers(bookFile)
    /\ book' = bookFile /\ index' = indexFile
    /\ UNCHANGED <<bookFile, indexFile>>

Seed ==
    /\ bookFile # NoFile /\ A!HasUsers(bookFile) => ReadErrors
    /\ book' = NewBook /\ index' = NewIndex
    /\ bookFile' = NewBook /\ indexFile' = NewIndex

Start ==
    /\ ~up
    /\ Load \/ Seed
    /\ up' = TRUE
    /\ running' = [op |-> "sync"]
    /\ torn' = {}
    /\ UNCHANGED <<faults, tokens, pending, toldAccounts, toldGrants,
                   writeFaults, files, dirs, toldFiles, unwritten, forms>>
-----------------------------------------------------------------------------
Next ==
    \/ AccountRequest
    \/ \E outcome \in A!Outcomes : ChangeAccounts(outcome) \/ ChangeIndex(outcome)
    \/ \E s \in Tasks, t \in tokens : AdmitUpload(s, t)
    \/ \E s \in Tasks : GiveUpUpload(s)
    \/ BeginArtifacts \/ ContinueArtifacts
    \/ \E v \in Versions, p \in Paths : SyncFile(v, p)
    \/ \E t \in tokens : Expire(t)
    \/ Crash \/ Start

Spec == Init /\ [][Next]_vars
-----------------------------------------------------------------------------
\* Seen through the account half of the document the server does nothing that
\* Accounts does not allow, whatever uploads, deletions, syncs and failing writes do
\* to the document it shares with them: what Accounts promises holds of the server.
ServesAccounts == A!Spec

\* Nor does it through the artifact half: no enrollment, grant or failing persist of
\* one falls into the middle of an upload or a deletion, and none loses the index.
ServesArtifacts == R!Spec
=============================================================================
