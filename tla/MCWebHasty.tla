----------------------------- MODULE MCWebHasty -----------------------------
(* A small instance of the browser client of a user who waits for nothing: *)
(* of UploadQueue, and of WebSession beside it.  The two modules share no  *)
(* variable and no property is about both, so that it is enough that one   *)
(* moves while the other is where it begins.                               *)
EXTENDS UploadQueue, TLC

CONSTANTS alice, People, RoleOf, PageProjects, Patient, Nobody

VARIABLES session, cookie, buttons, detail, versionList, fileList, handlers, lost

pageVars == <<session, cookie, buttons, detail, versionList, fileList, handlers, lost>>

\* alice is a client, everyone else an admin.
MCRoleOf == [u \in People |-> IF u = alice THEN "Client" ELSE "Admin"]

Page == INSTANCE WebSession WITH Projects <- PageProjects, tasks <- handlers

\* The property of WebSession that is checked here.
NothingDoneSignedOut == Page!NothingDoneSignedOut

Symmetry == Permutations(Tasks) \cup Permutations(Files)

\* Nothing has happened to UploadQueue yet.
NothingQueued ==
    /\ <<project, field, pending, stored>> = <<None, None, {}, {}>>
    /\ \A t \in Tasks : tasks[t] = Idle

HastyNext ==
    \/ Page!Next /\ NothingQueued /\ UNCHANGED vars
    \/ Next /\ Page!Init /\ UNCHANGED pageVars

HastyInit == Init /\ Page!Init
HastySpec == HastyInit /\ [][HastyNext]_<<vars, pageVars>>
=============================================================================
