--------------------------- MODULE MongoAccounts ---------------------------
(***************************************************************************)
(* Users and grants in MongoDB: MongoDatabase (mongo.py) under the account *)
(* handlers of app.py.  A handler calls pymongo synchronously, so within   *)
(* one server process it runs to its end before another begins; but each   *)
(* command is a step of its own, between two of which another server on    *)
(* the same database acts, the connection fails or the process dies.       *)
(* Requests begin here when their body has been read; Accounts has the     *)
(* checks and waits before that, which are the same for both databases.    *)
(***************************************************************************)
EXTENDS Naturals, FiniteSets

CONSTANTS
    Users, Projects, Passwords,
    Servers,          \* processes that share the database
    DefaultAccounts,  \* _DEFAULT_USERS, NoAccount for every other user
    NoAccount,
    MaxFaults         \* bound: processes or connections lost inside a handler

Roles == {"Admin", "Client"}
Account == [role : Roles, password : Passwords]

\* What a server does next: "down", the first command of a start or a handler,
\* or the command it has come to.
Activity ==
    [at : {"down", "count", "serving"}]
    \cup [at : {"seed"}, left : SUBSET Users]
    \cup [at : {"insertUser"}, user : Users, account : Account]
    \cup [at : {"insertGrant"}, user : Users, project : Projects]
    \cup [at : {"findVictim", "deleteUser"}, by : Users, user : Users]
    \cup [at : {"deleteGrants"}, user : Users]

ASSUME MongoAssumption ==
    /\ NoAccount \notin Account
    /\ DefaultAccounts \in [Users -> Account \cup {NoAccount}]
    /\ \E u \in Users : /\ DefaultAccounts[u] # NoAccount
                        /\ DefaultAccounts[u].role = "Admin"
    /\ MaxFaults \in Nat

VARIABLES
    users,     \* the users collection
    grants,    \* the grants collection
    server,    \* the activity of each server
    removed,   \* users that were deleted and not enrolled since
    faults,
    overlapped \* two servers have been in the middle of a handler or a start at once

vars == <<users, grants, server, removed, faults, overlapped>>

Down == [at |-> "down"]
Serving == [at |-> "serving"]
Defaults == {u \in Users : DefaultAccounts[u] # NoAccount}

Enrolled(u) == users[u] # NoAccount
IsAdmin(u) == Enrolled(u) /\ users[u].role = "Admin"

Init ==
    /\ users = [u \in Users |-> NoAccount]
    /\ grants = {}
    /\ server = [s \in Servers |-> Down]
    /\ removed = {}
    /\ faults = 0
    /\ overlapped = FALSE

At(s, command) == server[s].at = command
Go(s, activity) == server' = [server EXCEPT ![s] = activity]
-----------------------------------------------------------------------------
(* The start: connect, then _seed_if_empty.                                *)

Connect(s) ==
    /\ At(s, "down")
    /\ Go(s, [at |-> "count"])
    /\ UNCHANGED <<users, grants, removed, faults>>

\* Mutant: the defaults are inserted without a look at the collection.
SeedAlways(s) ==
    /\ At(s, "count")
    /\ Go(s, [at |-> "seed", left |-> Defaults])
    /\ UNCHANGED <<users, grants, removed, faults>>

CountUsers(s) ==
    /\ At(s, "count")
    /\ Go(s, IF \E u \in Users : Enrolled(u) THEN Serving
             ELSE [at |-> "seed", left |-> Defaults])
    /\ UNCHANGED <<users, grants, removed, faults>>

\* insert_many, unordered: documents go in one by one, one that is there already
\* is skipped.
SeedUser(s, u) ==
    /\ At(s, "seed")
    /\ u \in server[s].left
    /\ users' = IF Enrolled(u) THEN users ELSE [users EXCEPT ![u] = DefaultAccounts[u]]
    /\ Go(s, IF server[s].left = {u} THEN Serving
             ELSE [at |-> "seed", left |-> server[s].left \ {u}])
    /\ UNCHANGED <<grants, removed, faults>>
-----------------------------------------------------------------------------
(* change_password: one conditional update.                                *)

ChangePassword(s, u, current, new) ==
    /\ At(s, "serving")
    /\ Enrolled(u) /\ users[u].password = current
    /\ users' = [users EXCEPT ![u] = [role |-> users[u].role, password |-> new]]
    /\ UNCHANGED <<grants, server, removed, faults>>
-----------------------------------------------------------------------------
(* enroll_user: a lookup, then add_user's insert.                          *)

\* An id that is taken is refused with 409.
Enroll(s, u, account) ==
    /\ At(s, "serving")
    /\ ~Enrolled(u)
    /\ Go(s, [at |-> "insertUser", user |-> u, account |-> account])
    /\ UNCHANGED <<users, grants, removed, faults>>

\* Mutant: the document replaces the one that is there.
UpsertUser(s) ==
    LET u == server[s].user
    IN  /\ At(s, "insertUser")
        /\ users' = [users EXCEPT ![u] = server[s].account]
        /\ removed' = removed \ {u}
        /\ Go(s, Serving)
        /\ UNCHANGED <<grants, faults>>

InsertUser(s) ==
    LET u == server[s].user
    IN  /\ At(s, "insertUser")
        /\ ~Enrolled(u)
        /\ users' = [users EXCEPT ![u] = server[s].account]
        /\ removed' = removed \ {u}
        /\ Go(s, Serving)
        /\ UNCHANGED <<grants, faults>>

\* DuplicateKeyError: add_user returns None, which the handler answers with 400.
InsertDuplicateUser(s) ==
    /\ At(s, "insertUser")
    /\ Enrolled(server[s].user)
    /\ Go(s, Serving)
    /\ UNCHANGED <<users, grants, removed, faults>>
-----------------------------------------------------------------------------
(* grant_access: add_grant's lookup, then its insert.  A grant that is     *)
(* there already raises DuplicateKeyError and is answered like a new one.  *)

Grant(s, u, p) ==
    /\ At(s, "serving")
    /\ Enrolled(u)
    /\ Go(s, [at |-> "insertGrant", user |-> u, project |-> p])
    /\ UNCHANGED <<users, grants, removed, faults>>

InsertGrant(s) ==
    /\ At(s, "insertGrant")
    /\ grants' = grants \cup {<<server[s].user, server[s].project>>}
    /\ Go(s, Serving)
    /\ UNCHANGED <<users, removed, faults>>
-----------------------------------------------------------------------------
(* delete_user: require_admin, then remove_user's three commands.          *)

\* Mutant: an admin may delete their own account.
DeleteAny(s, by, u) ==
    /\ At(s, "serving")
    /\ IsAdmin(by)
    /\ Go(s, [at |-> "findVictim", by |-> by, user |-> u])
    /\ UNCHANGED <<users, grants, removed, faults>>

Delete(s, by, u) ==
    /\ At(s, "serving")
    /\ IsAdmin(by)
    /\ u # by
    /\ Go(s, [at |-> "findVictim", by |-> by, user |-> u])
    /\ UNCHANGED <<users, grants, removed, faults>>

\* Nobody to delete: 404.
FindVictim(s) ==
    /\ At(s, "findVictim")
    /\ Go(s, IF Enrolled(server[s].user) THEN [server[s] EXCEPT !.at = "deleteUser"]
             ELSE Serving)
    /\ UNCHANGED <<users, grants, removed, faults>>

DeleteOneUser(s) ==
    LET u == server[s].user
    IN  /\ At(s, "deleteUser")
        /\ users' = [users EXCEPT ![u] = NoAccount]
        /\ removed' = removed \cup {u}
        /\ Go(s, [at |-> "deleteGrants", user |-> u])
        /\ UNCHANGED <<grants, faults>>

\* Mutant: delete_one in place of delete_many.
DeleteOneGrant(s) ==
    /\ At(s, "deleteGrants")
    /\ \/ \E g \in grants : g[1] = server[s].user /\ grants' = grants \ {g}
       \/ (\A g \in grants : g[1] # server[s].user) /\ UNCHANGED grants
    /\ Go(s, Serving)
    /\ UNCHANGED <<users, removed, faults>>

DeleteManyGrants(s) ==
    /\ At(s, "deleteGrants")
    /\ grants' = {g \in grants : g[1] # server[s].user}
    /\ Go(s, Serving)
    /\ UNCHANGED <<users, removed, faults>>
-----------------------------------------------------------------------------
\* A server stops between two requests.
Stop(s) ==
    /\ At(s, "serving")
    /\ Go(s, Down)
    /\ UNCHANGED <<users, grants, removed, faults>>

\* The process dies, or a command raises: a handler is answered 500 and its server
\* goes on, a start fails.
Break(s) ==
    /\ server[s] \notin {Down, Serving}
    /\ faults < MaxFaults
    /\ faults' = faults + 1
    /\ \E after \in IF server[s].at \in {"count", "seed"} THEN {Down} ELSE {Down, Serving} :
          Go(s, after)
    /\ UNCHANGED <<users, grants, removed>>

Act(s) ==
    \/ Connect(s) \/ CountUsers(s) \/ Stop(s) \/ Break(s)
    \/ InsertUser(s) \/ InsertDuplicateUser(s) \/ InsertGrant(s)
    \/ FindVictim(s) \/ DeleteOneUser(s) \/ DeleteManyGrants(s)
    \/ \E u \in Users :
          \/ SeedUser(s, u)
          \/ \E current, new \in Passwords : ChangePassword(s, u, current, new)
          \/ \E account \in Account : Enroll(s, u, account)
          \/ \E p \in Projects : Grant(s, u, p)
          \/ \E by \in Users : Delete(s, by, u)

Step == \E s \in Servers : Act(s)

Overlap == \E s, t \in Servers : s # t /\ {server[s], server[t]} \cap {Down, Serving} = {}

Next == Step /\ overlapped' = (overlapped \/ Overlap')

Spec == Init /\ [][Next]_vars
-----------------------------------------------------------------------------
TypeOK ==
    /\ users \in [Users -> Account \cup {NoAccount}]
    /\ grants \subseteq Users \X Projects
    /\ server \in [Servers -> Activity]
    /\ removed \subseteq Users
    /\ faults \in 0 .. MaxFaults
    /\ overlapped \in BOOLEAN

\* Whatever the admins delete, on whichever server, an Admin remains: the caller that was
\* checked two commands before the deletion is still one, as long as no two servers were
\* in the middle of something at once.  (delete_user's check, app.py:265.)
AdminRemains ==
    [][(\E u \in Users : IsAdmin(u)) /\ ~overlapped => (\E u \in Users : IsAdmin(u))']_vars

\* The variables have their types, and a deleted user stays deleted until an Admin enrolls
\* the id again: no start seeds a default user back, however the starts before it were cut
\* off; only a start that overlaps with another server's may (_seed_if_empty).
RemovedStayRemoved ==
    /\ TypeOK
    /\ overlapped \/ \A u \in removed : ~Enrolled(u)

\* Neither an enrollment nor a seed takes over an account that exists, however
\* many servers enroll and seed at once: an account keeps its role for life.
NoTakeover ==
    [][\A u \in Users : users[u] # NoAccount /\ users'[u] # NoAccount =>
          users'[u].role = users[u].role]_vars
-----------------------------------------------------------------------------
\* The defaults count as enrolled until they have been inserted.
Seeded ==
    /\ \E u \in Users : Enrolled(u)
    /\ \A s \in Servers : ~At(s, "seed")

Document == IF Seeded
            THEN [users |-> users, grants |-> {g \in grants : Enrolled(g[1])}]
            ELSE [users |-> DefaultAccounts, grants |-> {}]

Book == INSTANCE AccountBook WITH book <- Document, saved <- Document

\* Servers that take turns implement the atomic operations of the account book, with a
\* saved copy that is never behind, until one is interrupted inside a handler or a start.
ImplementsBook == Book!Init /\ [][faults' = 0 /\ ~overlapped' => Book!Next]_Document
=============================================================================
