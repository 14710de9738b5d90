------------------------------ MODULE Accounts ------------------------------
(***************************************************************************)
(* Users, grants and tokens: the account half of the HTTP API (app.py)     *)
(* over JsonDatabase (database.py).  All handlers run on one event loop,   *)
(* so the code between two awaits is one step.  A handler that reads a     *)
(* JSON body checks the caller's token first, then waits for the body, and *)
(* only then reads and changes the database: a task that waits is an entry *)
(* of pending, and any other handler may run meanwhile.                    *)
(***************************************************************************)
EXTENDS JsonStore

CONSTANTS
    Users, Projects, Passwords,
    Tasks,            \* requests that may wait for a body at the same time
    DefaultAccounts,  \* _DEFAULT_USERS, NoAccount for every other user
    NoAccount, Unknown, Idle

Roles == {"Admin", "Client"}
Account == [role : Roles, password : Passwords]

ASSUME AccountsAssumption ==
    /\ NoAccount \notin Account
    /\ Unknown \notin Account \cup {NoAccount}
    /\ DefaultAccounts \in [Users -> Account \cup {NoAccount}]
    /\ \E u \in Users : /\ DefaultAccounts[u] # NoAccount
                        /\ DefaultAccounts[u].role = "Admin"
    /\ Defaults = [users |-> DefaultAccounts, grants |-> {}]

\* The account half of PersistedState.
Document == [users : [Users -> Account \cup {NoAccount}],
             grants : SUBSET (Users \X Projects)]

\* What a task that waits for its body keeps: the operation, the caller that
\* passed the check, and the project of the path for a grant.
Request == [op : {"password", "enroll"}, by : Users]
           \cup [op : {"grant"}, by : Users, project : Projects]

ASSUME ValueAssumption ==
    /\ Idle \notin Request
    /\ NoFile \notin Document

VARIABLES
    tokens,      \* subjects of the issued tokens that have not expired: a JWT
                 \* names its subject and nothing else the server looks at
    pending,     \* the tasks that wait for a body
    told,        \* what the last answered change of an account was, Unknown
                 \* while no answer settles it
    toldGrants   \* grants answered 204 and not touched by a deletion since

vars == <<mem, disk, up, faults, tokens, pending, told, toldGrants>>

NoRequests == [s \in Tasks |-> Idle]

Init ==
    /\ StoreInit
    /\ tokens = {}
    /\ pending = NoRequests
    /\ told = [u \in Users |-> Unknown]
    /\ toldGrants = {}
-----------------------------------------------------------------------------
(* The mutations of JsonDatabase, as functions on the document. *)

WithUser(doc, u, account) == [doc EXCEPT !.users[u] = account]

\* Mutant: the grants of the removed user stay behind.
WithoutUserOnly(doc, u) ==
    [users |-> [doc.users EXCEPT ![u] = NoAccount], grants |-> doc.grants]

WithoutUser(doc, u) ==
    [users |-> [doc.users EXCEPT ![u] = NoAccount],
     grants |-> {g \in doc.grants : g[1] # u}]

\* Mutant: the account is rebuilt without its role.
WithoutRole(doc, u, password) ==
    [doc EXCEPT !.users[u] = [password |-> password]]

WithPassword(doc, u, password) ==
    [doc EXCEPT !.users[u] = [role |-> doc.users[u].role, password |-> password]]

WithGrant(doc, u, p) ==
    [users |-> doc.users, grants |-> doc.grants \cup {<<u, p>>}]

HasUsers(doc) == \E u \in Users : doc.users[u] # NoAccount
-----------------------------------------------------------------------------
(* Authentication. *)

Enrolled(u) == mem.users[u] # NoAccount
IsAdmin(u) == Enrolled(u) /\ mem.users[u].role = "Admin"

\* require_user and require_admin let the token pass.
RequireUser(t) == up /\ t \in tokens /\ Enrolled(t)
RequireAdmin(t) == RequireUser(t) /\ IsAdmin(t)

\* login: the body is awaited before anything is looked at.
Login(u, password) ==
    /\ up
    /\ Enrolled(u) /\ mem.users[u].password = password
    /\ tokens' = tokens \cup {u}
    /\ UNCHANGED <<mem, disk, up, faults, pending, told, toldGrants>>

\* The exp claim passes.
Expire(t) ==
    /\ t \in tokens
    /\ tokens' = tokens \ {t}
    /\ UNCHANGED <<mem, disk, up, faults, pending, told, toldGrants>>
-----------------------------------------------------------------------------
(* Requests with a body: admitted, then resumed or given up. *)

Admit(s, t, request) ==
    /\ pending[s] = Idle
    /\ request.by = t
    /\ IF request.op = "password" THEN RequireUser(t) ELSE RequireAdmin(t)
    /\ pending' = [pending EXCEPT ![s] = request]
    /\ UNCHANGED <<mem, disk, up, faults, tokens, told, toldGrants>>

\* The task ends without effect: the client disconnects, the body is refused
\* with 400, or the operation with 401, 404 or 409.
GiveUp(s) ==
    /\ up
    /\ pending[s] # Idle
    /\ pending' = [pending EXCEPT ![s] = Idle]
    /\ UNCHANGED <<mem, disk, up, faults, tokens, told, toldGrants>>

\* The task is done, or dies with the process and every other task.
Finish(s, outcome) ==
    pending' = IF outcome = "died" THEN NoRequests
               ELSE [pending EXCEPT ![s] = Idle]

\* A change of u's account ends in outcome: only a 2xx answer settles it.
Tell(u, doc, outcome) ==
    told' = [told EXCEPT ![u] = IF outcome = "saved" THEN doc.users[u]
                                ELSE Unknown]

EnrollUser(s, u, account, outcome) ==
    LET doc == WithUser(mem, u, account)
    IN  /\ pending[s] # Idle /\ pending[s].op = "enroll"
        /\ ~Enrolled(u)
        /\ Persist(doc, outcome)
        /\ Tell(u, doc, outcome)
        /\ Finish(s, outcome)
        /\ UNCHANGED <<tokens, toldGrants>>

ChangePassword(s, current, new, outcome) ==
    LET u   == pending[s].by
        doc == WithPassword(mem, u, new)
    IN  /\ pending[s] # Idle /\ pending[s].op = "password"
        /\ Enrolled(u) /\ mem.users[u].password = current
        /\ Persist(doc, outcome)
        /\ Tell(u, doc, outcome)
        /\ Finish(s, outcome)
        /\ UNCHANGED <<tokens, toldGrants>>

\* Mutant: the grant is added whether or not the user is enrolled.
GrantAnyone(s, u, outcome) ==
    /\ pending[s] # Idle /\ pending[s].op = "grant"
    /\ <<u, pending[s].project>> \notin mem.grants
    /\ Persist(WithGrant(mem, u, pending[s].project), outcome)
    /\ toldGrants' = IF outcome = "saved"
                     THEN toldGrants \cup {<<u, pending[s].project>>}
                     ELSE toldGrants
    /\ Finish(s, outcome)
    /\ UNCHANGED <<tokens, told>>

\* Mutant: the grant is answered before it is persisted.
GrantInMemory(s, u, outcome) ==
    /\ up /\ outcome = "saved"
    /\ pending[s] # Idle /\ pending[s].op = "grant"
    /\ Enrolled(u)
    /\ mem' = WithGrant(mem, u, pending[s].project)
    /\ toldGrants' = toldGrants \cup {<<u, pending[s].project>>}
    /\ Finish(s, outcome)
    /\ UNCHANGED <<disk, up, faults, tokens, told>>

GrantAccess(s, u, outcome) ==
    /\ pending[s] # Idle /\ pending[s].op = "grant"
    /\ Enrolled(u)
    /\ <<u, pending[s].project>> \notin mem.grants
    /\ Persist(WithGrant(mem, u, pending[s].project), outcome)
    /\ toldGrants' = IF outcome = "saved"
                     THEN toldGrants \cup {<<u, pending[s].project>>}
                     ELSE toldGrants
    /\ Finish(s, outcome)
    /\ UNCHANGED <<tokens, told>>

\* The grant is in memory already: answered 204 without a persist.
GrantAgain(s, u) ==
    /\ up
    /\ pending[s] # Idle /\ pending[s].op = "grant"
    /\ Enrolled(u)
    /\ <<u, pending[s].project>> \in mem.grants
    /\ toldGrants' = toldGrants \cup {<<u, pending[s].project>>}
    /\ pending' = [pending EXCEPT ![s] = Idle]
    /\ UNCHANGED <<mem, disk, up, faults, tokens, told>>

\* Mutant: an admin may delete their own account.
DeleteAnyUser(t, u, outcome) ==
    LET doc == WithoutUser(mem, u)
    IN  /\ RequireAdmin(t)
        /\ Enrolled(u)
        /\ Persist(doc, outcome)
        /\ Tell(u, doc, outcome)
        /\ toldGrants' = {g \in toldGrants : g[1] # u}
        /\ pending' = IF outcome = "died" THEN NoRequests ELSE pending
        /\ UNCHANGED tokens

\* delete_user has no body and no await: check and effect are one step.
DeleteUser(t, u, outcome) ==
    LET doc == WithoutUser(mem, u)
    IN  /\ RequireAdmin(t)
        /\ u # t
        /\ Enrolled(u)
        /\ Persist(doc, outcome)
        /\ Tell(u, doc, outcome)
        /\ toldGrants' = {g \in toldGrants : g[1] # u}
        /\ pending' = IF outcome = "died" THEN NoRequests ELSE pending
        /\ UNCHANGED tokens

\* An artifact handler persists the document this half is part of.
ArtifactHandlerPersists ==
    /\ OtherHalfPersisted
    /\ pending' = IF up' THEN pending ELSE NoRequests
    /\ UNCHANGED <<tokens, told, toldGrants>>

Crash ==
    /\ Die
    /\ pending' = NoRequests
    /\ UNCHANGED <<tokens, told, toldGrants>>

Start ==
    /\ LoadOrSeed(disk # NoFile /\ HasUsers(disk))
    /\ UNCHANGED <<tokens, pending, told, toldGrants>>
-----------------------------------------------------------------------------
Handler ==
    \/ \E u \in Users, password \in Passwords : Login(u, password)
    \/ \E t \in tokens : Expire(t)
    \/ \E s \in Tasks, t \in tokens, request \in Request : Admit(s, t, request)
    \/ \E s \in Tasks : GiveUp(s)
    \/ \E s \in Tasks, u \in Users, account \in Account, outcome \in Outcomes :
          EnrollUser(s, u, account, outcome)
    \/ \E s \in Tasks, current \in Passwords, new \in Passwords, outcome \in Outcomes :
          ChangePassword(s, current, new, outcome)
    \/ \E s \in Tasks, u \in Users, outcome \in Outcomes : GrantAccess(s, u, outcome)
    \/ \E s \in Tasks, u \in Users : GrantAgain(s, u)
    \/ \E t \in tokens, u \in Users, outcome \in Outcomes : DeleteUser(t, u, outcome)

Next == Handler \/ ArtifactHandlerPersists \/ Crash \/ Start

Spec == Init /\ [][Next]_vars
-----------------------------------------------------------------------------
TypeOK ==
    /\ mem \in Document
    /\ disk \in Document \cup {NoFile}
    /\ up \in BOOLEAN
    /\ faults \in 0 .. MaxFaults
    /\ tokens \subseteq Users
    /\ pending \in [Tasks -> Request \cup {Idle}]
    /\ told \in [Users -> Account \cup {NoAccount, Unknown}]
    /\ toldGrants \subseteq Users \X Projects

AdminIn(doc) == \E u \in Users : /\ doc.users[u] # NoAccount
                                 /\ doc.users[u].role = "Admin"

\* An Admin is always enrolled, in memory and in the store file, whatever
\* admins delete each other, while requests wait and across restarts: nobody
\* else could enroll one.  (delete_user's self-deletion check, app.py:265.)
HasAdmin ==
    /\ AdminIn(mem)
    /\ disk # NoFile => AdminIn(disk)

GrantsTargetUsers(doc) == \A g \in doc.grants : doc.users[g[1]] # NoAccount

\* No grant outlives its user, in memory or in the file, whichever of a grant
\* that waits for its body and a deletion comes first.
NoOrphanGrant ==
    /\ GrantsTargetUsers(mem)
    /\ disk # NoFile => GrantsTargetUsers(disk)

\* An enrollment, deletion or password change that was answered 2xx is what the
\* file holds and what the server serves from then on, through crashes, restarts
\* and failing persists of other operations.
AnsweredAccountsKept ==
    \A u \in Users : told[u] # Unknown =>
        /\ disk # NoFile /\ disk.users[u] = told[u]
        /\ up => mem.users[u] = told[u]

\* Unless a persist has failed, a grant that was answered 204 is in the file, whether
\* it was new or there already, and through crashes and restarts: no answer runs
\* ahead of the file.  (After a failed persist a repeated grant does, database.py:117.)
AnsweredGrantsKept ==
    faults = 0 /\ disk # NoFile => toldGrants \subseteq disk.grants

-----------------------------------------------------------------------------
\* The accounts in force are those in memory, and in the file while the server
\* is down; a store without a file stands for the defaults it will be given.
SavedDocument == IF disk = NoFile THEN Defaults ELSE disk

Book == INSTANCE AccountBook WITH
            book  <- IF up THEN mem ELSE SavedDocument,
            saved <- SavedDocument

\* The handlers, their waits, their crashes and their failing persists implement
\* the atomic operations of the account book.
ImplementsBook == Book!Spec
=============================================================================
