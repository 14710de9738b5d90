------------------------ MODULE MongoAccountsProofs ------------------------
(***************************************************************************)
(* Proofs about MongoAccounts, for any users, projects, passwords and any  *)
(* number of servers and interruptions.                                    *)
(***************************************************************************)
EXTENDS MongoAccounts, TLAPS

\* An activity is known by its command, and has the fields of that command.
LEMMA ActivityFields ==
    ASSUME TypeOK, NEW s \in Servers
    PROVE  /\ At(s, "down") => server[s] = Down
           /\ At(s, "serving") => server[s] = Serving
           /\ At(s, "seed") => server[s].left \in SUBSET Users
           /\ At(s, "insertUser") =>
                 server[s].user \in Users /\ server[s].account \in Account
           /\ At(s, "insertGrant") =>
                 server[s].user \in Users /\ server[s].project \in Projects
           /\ At(s, "findVictim") \/ At(s, "deleteUser") =>
                 /\ server[s].by \in Users /\ server[s].user \in Users
                 /\ [server[s] EXCEPT !.at = "deleteUser"] =
                       [at |-> "deleteUser", by |-> server[s].by, user |-> server[s].user]
           /\ At(s, "deleteGrants") => server[s].user \in Users
  <1>1. server[s] \in Activity
    BY DEF TypeOK
  <1> QED
    BY <1>1 DEF Activity, At, Down, Serving

\* A server that goes to its next command leaves the others where they are.
LEMMA GoesOn ==
    ASSUME TypeOK, NEW s \in Servers, NEW activity, Go(s, activity)
    PROVE  /\ server'[s] = activity
           /\ \A t \in Servers \ {s} : server'[t] = server[t]
           /\ activity \in Activity => server' \in [Servers -> Activity]
  BY DEF TypeOK, Go

\* The commands a server may come to are activities.
LEMMA ActivityTypes ==
    /\ Down \in Activity /\ Serving \in Activity /\ [at |-> "count"] \in Activity
    /\ \A left \in SUBSET Users : [at |-> "seed", left |-> left] \in Activity
    /\ \A u \in Users, account \in Account :
          [at |-> "insertUser", user |-> u, account |-> account] \in Activity
    /\ \A u \in Users, p \in Projects :
          [at |-> "insertGrant", user |-> u, project |-> p] \in Activity
    /\ \A by \in Users, u \in Users :
          [at |-> "findVictim", by |-> by, user |-> u] \in Activity
    /\ \A by \in Users, u \in Users :
          [at |-> "deleteUser", by |-> by, user |-> u] \in Activity
    /\ \A u \in Users : [at |-> "deleteGrants", user |-> u] \in Activity
  BY DEF Activity, Down, Serving

\* A default account is an account.
LEMMA DefaultIsAccount == \A u \in Defaults : DefaultAccounts[u] \in Account
  BY MongoAssumption DEF Defaults

\* Every step keeps the types.
LEMMA TypeStep == TypeOK /\ [Next]_vars => TypeOK'
  <1> SUFFICES ASSUME TypeOK, [Next]_vars PROVE TypeOK'
    OBVIOUS
  <1>1. CASE Next
    <2>1. overlapped' \in BOOLEAN
      BY <1>1 DEF Next, TypeOK
    <2>2. PICK s \in Servers : Act(s)
      BY <1>1 DEF Next, Step
    <2>3. CASE Connect(s) \/ Stop(s) \/ InsertDuplicateUser(s)
      BY <2>1, <2>3, GoesOn, ActivityTypes DEF Connect, Stop, InsertDuplicateUser, TypeOK
    <2>4. CASE CountUsers(s)
      <3>1. Defaults \in SUBSET Users
        BY DEF Defaults
      <3> QED
        BY <2>1, <2>4, <3>1, GoesOn, ActivityTypes DEF CountUsers, TypeOK
    <2>5. CASE Break(s)
      <3>1. PICK after \in {Down, Serving} : Go(s, after)
        BY <2>5 DEF Break
      <3>2. faults' \in 0 .. MaxFaults
        BY <2>5, MongoAssumption DEF Break, TypeOK
      <3> QED
        BY <2>1, <2>5, <3>1, <3>2, GoesOn, ActivityTypes DEF Break, TypeOK
    <2>6. CASE InsertUser(s)
      <3>1. server[s].user \in Users /\ server[s].account \in Account
        BY <2>6, ActivityFields DEF InsertUser
      <3> QED
        BY <2>1, <2>6, <3>1, GoesOn, ActivityTypes DEF InsertUser, TypeOK
    <2>7. CASE InsertGrant(s)
      <3>1. server[s].user \in Users /\ server[s].project \in Projects
        BY <2>7, ActivityFields DEF InsertGrant
      <3> QED
        BY <2>1, <2>7, <3>1, GoesOn, ActivityTypes DEF InsertGrant, TypeOK
    <2>8. CASE FindVictim(s)
      <3>1. [server[s] EXCEPT !.at = "deleteUser"] \in Activity
        <4>1. At(s, "findVictim")
          BY <2>8 DEF FindVictim
        <4>2. [server[s] EXCEPT !.at = "deleteUser"] =
                 [at |-> "deleteUser", by |-> server[s].by, user |-> server[s].user]
          BY <4>1, ActivityFields
        <4>3. [at |-> "deleteUser", by |-> server[s].by, user |-> server[s].user] \in Activity
          BY <4>1, ActivityFields, ActivityTypes
        <4> QED
          BY <4>2, <4>3, Zenon
      <3> QED
        BY <2>1, <2>8, <3>1, GoesOn, ActivityTypes DEF FindVictim, TypeOK
    <2>9. CASE DeleteOneUser(s)
      <3>1. server[s].user \in Users
        BY <2>9, ActivityFields DEF DeleteOneUser
      <3> QED
        BY <2>1, <2>9, <3>1, GoesOn, ActivityTypes DEF DeleteOneUser, TypeOK
    <2>10. CASE DeleteManyGrants(s)
      BY <2>1, <2>10, GoesOn, ActivityTypes DEF DeleteManyGrants, TypeOK
    <2>11. ASSUME NEW u \in Users, SeedUser(s, u) PROVE TypeOK'
      <3>1. server[s].left \in SUBSET Users
        BY <2>11, ActivityFields DEF SeedUser
      <3>2. users' \in [Users -> Account \cup {NoAccount}]
        BY <2>11, MongoAssumption DEF SeedUser, TypeOK
      <3> QED
        BY <2>1, <2>11, <3>1, <3>2, GoesOn, ActivityTypes DEF SeedUser, TypeOK
    <2>12. ASSUME NEW u \in Users, NEW new \in Passwords,
                  \E current \in Passwords : ChangePassword(s, u, current, new)
           PROVE  TypeOK'
      <3>1. [role |-> users[u].role, password |-> new] \in Account
        BY <2>12 DEF ChangePassword, Enrolled, TypeOK, Account
      <3> QED
        BY <2>1, <2>12, <3>1 DEF ChangePassword, TypeOK
    <2>13. ASSUME NEW u \in Users, NEW account \in Account, Enroll(s, u, account)
           PROVE  TypeOK'
      BY <2>1, <2>13, GoesOn, ActivityTypes DEF Enroll, TypeOK
    <2>14. ASSUME NEW u \in Users, NEW p \in Projects, Grant(s, u, p)
           PROVE  TypeOK'
      BY <2>1, <2>14, GoesOn, ActivityTypes DEF Grant, TypeOK
    <2>15. ASSUME NEW u \in Users, NEW by \in Users, Delete(s, by, u)
           PROVE  TypeOK'
      BY <2>1, <2>15, GoesOn, ActivityTypes DEF Delete, TypeOK
    <2> QED
      BY <2>2, <2>3, <2>4, <2>5, <2>6, <2>7, <2>8, <2>9, <2>10, <2>11, <2>12, <2>13,
         <2>14, <2>15
      DEF Act
  <1>2. CASE UNCHANGED vars
    BY <1>2 DEF vars, TypeOK
  <1> QED
    BY <1>1, <1>2

\* Every variable has its type in every reachable state.
THEOREM TypeCorrect == Spec => []TypeOK
  <1>1. Init => TypeOK
    <2> SUFFICES ASSUME Init PROVE TypeOK
      OBVIOUS
    <2>1. faults \in 0 .. MaxFaults
      BY MongoAssumption DEF Init
    <2> QED
      BY <2>1, ActivityTypes DEF Init, TypeOK
  <1> QED
    BY <1>1, TypeStep, PTL DEF Spec
-----------------------------------------------------------------------------
(* Accounts keep their roles. *)

\* What a step may do to one account: insert it where there is none, change its
\* password, or delete it.
AccountStep(u) ==
    \/ users'[u] = users[u]
    \/ ~Enrolled(u)
    \/ users'[u] = NoAccount
    \/ users'[u].role = users[u].role

\* Every step inserts, changes the password of, or deletes an account, or leaves it.
LEMMA AccountsStep ==
    ASSUME TypeOK, NEW s \in Servers, Act(s), NEW u \in Users
    PROVE  AccountStep(u)
  <1>1. CASE \/ Connect(s) \/ CountUsers(s) \/ Stop(s) \/ Break(s)
             \/ InsertDuplicateUser(s) \/ InsertGrant(s)
             \/ FindVictim(s) \/ DeleteManyGrants(s)
    BY <1>1 DEF AccountStep, Connect, CountUsers, Stop, Break, InsertDuplicateUser,
                InsertGrant, FindVictim, DeleteManyGrants
  <1>2. CASE InsertUser(s)
    BY <1>2 DEF AccountStep, InsertUser, Enrolled, TypeOK
  <1>3. CASE DeleteOneUser(s)
    BY <1>3 DEF AccountStep, DeleteOneUser, TypeOK
  <1>4. ASSUME NEW v \in Users, SeedUser(s, v) PROVE AccountStep(u)
    BY <1>4 DEF AccountStep, SeedUser, Enrolled, TypeOK
  <1>5. ASSUME NEW v \in Users, NEW current \in Passwords, NEW new \in Passwords,
               ChangePassword(s, v, current, new)
        PROVE  AccountStep(u)
    <2>1. users' = [users EXCEPT ![v] = [role |-> users[v].role, password |-> new]]
      BY <1>5 DEF ChangePassword
    <2>2. CASE u = v
      BY <2>1, <2>2 DEF AccountStep, TypeOK
    <2>3. CASE u # v
      BY <2>1, <2>3 DEF AccountStep, TypeOK
    <2> QED
      BY <2>2, <2>3
  <1>6. ASSUME NEW v \in Users,
               \/ \E account \in Account : Enroll(s, v, account)
               \/ \E p \in Projects : Grant(s, v, p)
               \/ \E by \in Users : Delete(s, by, v)
        PROVE  AccountStep(u)
    BY <1>6 DEF AccountStep, Enroll, Grant, Delete
  <1> QED
    BY <1>1, <1>2, <1>3, <1>4, <1>5, <1>6 DEF Act

\* A changed password leaves who is enrolled, and in which role.
LEMMA PasswordOnly ==
    ASSUME TypeOK, NEW s \in Servers, NEW u \in Users,
           NEW current \in Passwords, NEW new \in Passwords, ChangePassword(s, u, current, new)
    PROVE  \A v \in Users : (Enrolled(v)' <=> Enrolled(v)) /\ (IsAdmin(v) => IsAdmin(v)')
  <1>1. /\ users' = [users EXCEPT ![u] = [role |-> users[u].role, password |-> new]]
        /\ Enrolled(u)
    BY DEF ChangePassword
  <1>2. [role |-> users[u].role, password |-> new] \in Account
    BY <1>1 DEF Enrolled, TypeOK, Account
  <1>3. users'[u] # NoAccount /\ users'[u].role = users[u].role
    BY <1>1, <1>2, MongoAssumption DEF TypeOK
  <1>4. \A v \in Users : v # u => users'[v] = users[v]
    BY <1>1 DEF TypeOK
  <1> QED
    BY <1>1, <1>3, <1>4 DEF IsAdmin, Enrolled

\* Only delete_one removes an account.
LEMMA StaysEnrolled ==
    ASSUME TypeOK, NEW s \in Servers, Act(s), ~DeleteOneUser(s), NEW u \in Users, Enrolled(u)
    PROVE  users'[u] # NoAccount
  <1>1. CASE \/ Connect(s) \/ CountUsers(s) \/ Stop(s) \/ Break(s)
             \/ InsertDuplicateUser(s) \/ InsertGrant(s)
             \/ FindVictim(s) \/ DeleteManyGrants(s)
    BY <1>1 DEF Enrolled, Connect, CountUsers, Stop, Break, InsertDuplicateUser,
                InsertGrant, FindVictim, DeleteManyGrants
  <1>2. CASE InsertUser(s)
    BY <1>2 DEF InsertUser, Enrolled, TypeOK
  <1>3. ASSUME NEW v \in Users, SeedUser(s, v) PROVE users'[u] # NoAccount
    BY <1>3 DEF SeedUser, Enrolled, TypeOK
  <1>4. ASSUME NEW v \in Users, NEW current \in Passwords, NEW new \in Passwords,
               ChangePassword(s, v, current, new)
        PROVE  users'[u] # NoAccount
    BY <1>4, PasswordOnly DEF Enrolled
  <1>5. ASSUME NEW v \in Users,
               \/ \E account \in Account : Enroll(s, v, account)
               \/ \E p \in Projects : Grant(s, v, p)
               \/ \E by \in Users : Delete(s, by, v)
        PROVE  users'[u] # NoAccount
    BY <1>5 DEF Enrolled, Enroll, Grant, Delete
  <1> QED
    BY <1>1, <1>2, <1>3, <1>4, <1>5 DEF Act

\* However many servers enroll, seed and delete at once, and whatever is cut off: no
\* step takes over an account that exists, it keeps its role for life.
THEOREM RolesAreForLife == Spec => NoTakeover
  <1>1. TypeOK /\ [Next]_vars =>
           [\A u \in Users : users[u] # NoAccount /\ users'[u] # NoAccount =>
               users'[u].role = users[u].role]_vars
    <2> SUFFICES ASSUME TypeOK, Next, NEW u \in Users,
                        users[u] # NoAccount, users'[u] # NoAccount
                 PROVE  users'[u].role = users[u].role
      OBVIOUS
    <2>1. AccountStep(u)
      BY AccountsStep DEF Next, Step
    <2> QED
      BY <2>1 DEF AccountStep, Enrolled
  <1> QED
    BY <1>1, TypeCorrect, PTL DEF Spec, NoTakeover
-----------------------------------------------------------------------------
(* Servers that take turns. *)

Active(s) == server[s] \notin {Down, Serving}

TakeTurns == \A s, t \in Servers : Active(s) /\ Active(t) => s = t

\* The caller of a deletion is an Admin, and another one than its victim, from the check
\* to the command that deletes.
CallerIsAdmin ==
    \A s \in Servers : At(s, "findVictim") \/ At(s, "deleteUser") =>
        server[s].by # server[s].user /\ IsAdmin(server[s].by)

\* Whoever seeds has not missed a deletion.
NoneRemovedUnseeded ==
    (\A u \in Users : ~Enrolled(u)) \/ (\E s \in Servers : At(s, "seed")) => removed = {}

RemovedGone == \A u \in removed : ~Enrolled(u)

\* What holds until two servers have been in the middle of something at once.
Turns ==
    ~overlapped => TakeTurns /\ CallerIsAdmin /\ NoneRemovedUnseeded /\ RemovedGone

\* A step after which no two servers have overlapped is one from such a state, and while
\* a server works the others are between two requests, or down.
LEMMA OthersIdle ==
    ASSUME TypeOK, Turns, Next, ~overlapped', NEW s \in Servers, NEW activity,
           Go(s, activity), Active(s) \/ activity \notin {Down, Serving}
    PROVE  \A t \in Servers \ {s} : server'[t] = server[t] /\ server[t] \in {Down, Serving}
  <1>1. ~overlapped /\ ~Overlap'
    BY DEF Next, TypeOK
  <1>2. TakeTurns /\ TakeTurns'
    BY <1>1 DEF Turns, TakeTurns, Overlap, Active
  <1> QED
    BY <1>2, GoesOn DEF TakeTurns, Active

\* In a state that no overlap has led to, the servers take turns.
LEMMA StillTakeTurns == Next /\ ~overlapped' => TakeTurns'
  BY DEF Next, Overlap, TakeTurns, Active

\* A server that is down or serves is at no command.
LEMMA IdleIsAtNoCommand ==
    /\ Down.at = "down"
    /\ Serving.at = "serving"
  BY DEF Down, Serving

\* Every step keeps what holds of servers that take turns.
LEMMA TurnsStep == TypeOK /\ Turns /\ [Next]_vars => Turns'
  <1> SUFFICES ASSUME TypeOK, Turns, Next, ~overlapped'
               PROVE  (CallerIsAdmin /\ NoneRemovedUnseeded /\ RemovedGone)'
    <2>1. CASE UNCHANGED vars
      BY <2>1 DEF vars, Turns, TakeTurns, Active, CallerIsAdmin, At, IsAdmin, Enrolled,
                  NoneRemovedUnseeded, RemovedGone
    <2> QED
      BY <2>1, StillTakeTurns DEF Turns
  <1> DEFINE Kept == (CallerIsAdmin /\ NoneRemovedUnseeded /\ RemovedGone)'
  <1>1. CallerIsAdmin /\ NoneRemovedUnseeded /\ RemovedGone
    BY DEF Next, Turns, TypeOK
  <1>2. PICK s \in Servers : Act(s)
    BY DEF Next, Step
  <1> USE IdleIsAtNoCommand
  <1>3. ASSUME NEW activity, Go(s, activity), UNCHANGED <<users, removed>>,
               activity.at \notin {"seed", "findVictim", "deleteUser"}
        PROVE  Kept
    BY <1>1, <1>3, GoesOn
    DEF CallerIsAdmin, NoneRemovedUnseeded, RemovedGone, At, IsAdmin, Enrolled
  <1>4. CASE Connect(s) \/ Stop(s) \/ InsertDuplicateUser(s)
    BY <1>3, <1>4 DEF Connect, Stop, InsertDuplicateUser
  <1>5. CASE CountUsers(s)
    <2>1. CASE \E u \in Users : Enrolled(u)
      BY <1>3, <1>5, <2>1 DEF CountUsers
    <2>2. CASE \A u \in Users : ~Enrolled(u)
      <3>1. Go(s, [at |-> "seed", left |-> Defaults])
        BY <1>5, <2>2 DEF CountUsers
      <3> QED
        BY <1>1, <1>5, <2>2, <3>1, GoesOn
        DEF CountUsers, CallerIsAdmin, NoneRemovedUnseeded, RemovedGone, At, IsAdmin, Enrolled
    <2> QED
      BY <2>1, <2>2
  <1>6. CASE Break(s)
    BY <1>3, <1>6 DEF Break
  <1>7. CASE InsertUser(s)
    <2>1. At(s, "insertUser") /\ Go(s, Serving) /\ ~Enrolled(server[s].user)
      BY <1>7 DEF InsertUser
    <2>2. \A t \in Servers : server'[t] \in {Down, Serving}
      BY <2>1, OthersIdle, GoesOn DEF At, Active
    <2>3. server[s].user \in Users /\ server[s].account \in Account
      BY <2>1, ActivityFields
    <2>4. \A u \in Users : u # server[s].user => users'[u] = users[u]
      BY <1>7 DEF InsertUser, TypeOK
    <2>5. users'[server[s].user] = server[s].account
      BY <1>7, <2>3 DEF InsertUser, TypeOK
    <2>6. users'[server[s].user] # NoAccount
      BY <2>3, <2>5, MongoAssumption
    <2>7. \A t \in Servers : server'[t].at \in {"down", "serving"}
      BY <2>2
    <2>8. CallerIsAdmin' /\ NoneRemovedUnseeded'
      BY <2>3, <2>6, <2>7 DEF CallerIsAdmin, NoneRemovedUnseeded, At, Enrolled
    <2>9. RemovedGone'
      BY <1>1, <1>7, <2>4 DEF InsertUser, RemovedGone, Enrolled, TypeOK
    <2> QED
      BY <2>8, <2>9
  <1>8. CASE InsertGrant(s) \/ DeleteManyGrants(s)
    BY <1>3, <1>8 DEF InsertGrant, DeleteManyGrants
  <1>9. CASE FindVictim(s)
    <2>1. CASE Enrolled(server[s].user)
      <3>1. At(s, "findVictim") /\ Go(s, [server[s] EXCEPT !.at = "deleteUser"])
        BY <1>9, <2>1 DEF FindVictim
      <3>2. server'[s] = [at |-> "deleteUser", by |-> server[s].by, user |-> server[s].user]
        BY <3>1, GoesOn, ActivityFields
      <3>3. server'[s].at = "deleteUser" /\ server'[s].by = server[s].by
            /\ server'[s].user = server[s].user
        BY <3>2
      <3>4. \A t \in Servers \ {s} : server'[t] = server[t]
        BY <3>1, GoesOn
      <3> QED
        BY <1>1, <1>9, <3>1, <3>3, <3>4
        DEF FindVictim, CallerIsAdmin, NoneRemovedUnseeded, RemovedGone, At, IsAdmin, Enrolled
    <2>2. CASE ~Enrolled(server[s].user)
      BY <1>3, <1>9, <2>2 DEF FindVictim
    <2> QED
      BY <2>1, <2>2
  <1>10. CASE DeleteOneUser(s)
    <2> DEFINE u == server[s].user
    <2>1. At(s, "deleteUser") /\ Go(s, [at |-> "deleteGrants", user |-> u])
      BY <1>10 DEF DeleteOneUser
    <2>2. server'[s].at = "deleteGrants"
      BY <2>1, GoesOn
    <2>3. \A t \in Servers \ {s} : server'[t].at \in {"down", "serving"}
      BY <2>1, OthersIdle DEF At, Active
    <2>4. \A t \in Servers : server'[t].at \notin {"seed", "findVictim", "deleteUser"}
      BY <2>2, <2>3
    <2>5. u \in Users /\ server[s].by \in Users
      BY <2>1, ActivityFields
    <2>6. /\ users' = [users EXCEPT ![u] = NoAccount]
          /\ removed' = removed \cup {u}
      BY <1>10 DEF DeleteOneUser
    <2>7. users'[server[s].by] # NoAccount
      BY <1>1, <2>1, <2>5, <2>6 DEF CallerIsAdmin, IsAdmin, Enrolled, TypeOK
    <2>8. CallerIsAdmin' /\ NoneRemovedUnseeded'
      BY <2>4, <2>5, <2>7 DEF CallerIsAdmin, NoneRemovedUnseeded, At, Enrolled
    <2>9. RemovedGone'
      BY <1>1, <2>5, <2>6 DEF RemovedGone, Enrolled, TypeOK
    <2> QED
      BY <2>8, <2>9
  <1>11. ASSUME NEW u \in Users, SeedUser(s, u) PROVE Kept
    <2> DEFINE activity == IF server[s].left = {u} THEN Serving
                           ELSE [at |-> "seed", left |-> server[s].left \ {u}]
    <2>1. At(s, "seed") /\ Go(s, activity)
      BY <1>11 DEF SeedUser
    <2>2. \A t \in Servers \ {s} : server'[t].at \in {"down", "serving"}
      BY <2>1, OthersIdle DEF At, Active
    <2>3. server'[s].at \in {"serving", "seed"}
      BY <2>1, GoesOn
    <2>4. \A t \in Servers : server'[t].at \notin {"findVictim", "deleteUser"}
      BY <2>2, <2>3
    <2>5. removed' = {}
      BY <1>1, <1>11, <2>1 DEF SeedUser, NoneRemovedUnseeded
    <2> QED
      BY <2>4, <2>5 DEF CallerIsAdmin, NoneRemovedUnseeded, RemovedGone, At
  <1>12. ASSUME NEW u \in Users, NEW current \in Passwords, NEW new \in Passwords,
                ChangePassword(s, u, current, new)
         PROVE  Kept
    <2>1. UNCHANGED <<server, removed>>
      BY <1>12 DEF ChangePassword
    <2>2. \A v \in Users : (Enrolled(v)' <=> Enrolled(v)) /\ (IsAdmin(v) => IsAdmin(v)')
      BY <1>12, PasswordOnly
    <2>3. \A t \in Servers : At(t, "findVictim") \/ At(t, "deleteUser") =>
             server[t].by \in Users
      BY ActivityFields
    <2>4. CallerIsAdmin'
      BY <1>1, <2>1, <2>2, <2>3 DEF CallerIsAdmin, At
    <2>5. NoneRemovedUnseeded' /\ RemovedGone'
      BY <1>1, <2>1, <2>2 DEF NoneRemovedUnseeded, RemovedGone, At, TypeOK
    <2> QED
      BY <2>4, <2>5
  <1>13. ASSUME NEW u \in Users,
                \/ \E account \in Account : Enroll(s, u, account)
                \/ \E p \in Projects : Grant(s, u, p)
         PROVE  Kept
    BY <1>3, <1>13 DEF Enroll, Grant
  <1>14. ASSUME NEW u \in Users, NEW by \in Users, Delete(s, by, u) PROVE Kept
    <2>1. /\ Go(s, [at |-> "findVictim", by |-> by, user |-> u])
          /\ UNCHANGED <<users, removed>>
          /\ IsAdmin(by) /\ u # by
      BY <1>14 DEF Delete
    <2>2. server'[s].at = "findVictim" /\ server'[s].by = by /\ server'[s].user = u
      BY <2>1, GoesOn
    <2>3. \A t \in Servers \ {s} : server'[t] = server[t]
      BY <2>1, GoesOn
    <2> QED
      BY <1>1, <2>1, <2>2, <2>3
      DEF CallerIsAdmin, NoneRemovedUnseeded, RemovedGone, At, IsAdmin, Enrolled
  <1> QED
    BY <1>2, <1>4, <1>5, <1>6, <1>7, <1>8, <1>9, <1>10, <1>11, <1>12, <1>13, <1>14 DEF Act

\* No server has a seed or a write under way at the start.
LEMMA TurnsInit == Init => Turns
  BY DEF Init, Turns, TakeTurns, Active, CallerIsAdmin, NoneRemovedUnseeded, RemovedGone,
         At, Down

\* A deleted user stays deleted until enrolled again, on however many servers, as long as
\* no two of them were in the middle of something at once: _seed_if_empty never seeds a
\* deleted default user back, whatever start was cut off before.
THEOREM DeletedUsersStayDeleted == Spec => []RemovedStayRemoved
  <1>1. TypeOK /\ Turns => RemovedStayRemoved
    BY DEF Turns, RemovedGone, RemovedStayRemoved
  <1> QED
    BY <1>1, TypeCorrect, TurnsInit, TurnsStep, PTL DEF Spec

\* The caller of delete_user, checked two commands before the deletion, is still an Admin
\* when delete_one runs: no step removes the last Admin.
THEOREM AnAdminRemains == Spec => AdminRemains
  <1>1. TypeOK /\ Turns /\ [Next]_vars =>
           [(\E u \in Users : IsAdmin(u)) /\ ~overlapped => (\E u \in Users : IsAdmin(u))']_vars
    <2> SUFFICES ASSUME TypeOK, Turns, Next, NEW a \in Users, IsAdmin(a), ~overlapped
                 PROVE  \E u \in Users : IsAdmin(u)'
      OBVIOUS
    <2>1. PICK s \in Servers : Act(s)
      BY DEF Next, Step
    <2>2. CASE DeleteOneUser(s)
      <3>1. At(s, "deleteUser") /\ server[s].by \in Users /\ server[s].user \in Users
        BY <2>2, ActivityFields DEF DeleteOneUser
      <3>2. server[s].by # server[s].user /\ IsAdmin(server[s].by)
        BY <3>1 DEF Turns, CallerIsAdmin
      <3>3. users' = [users EXCEPT ![server[s].user] = NoAccount]
        BY <2>2 DEF DeleteOneUser
      <3>4. users'[server[s].by] # NoAccount /\ users'[server[s].by].role = "Admin"
        BY <3>1, <3>2, <3>3 DEF IsAdmin, Enrolled, TypeOK
      <3> QED
        BY <3>1, <3>4 DEF IsAdmin, Enrolled
    <2>3. CASE ~DeleteOneUser(s)
      <3>1. users'[a] # NoAccount
        BY <2>1, <2>3, StaysEnrolled DEF IsAdmin
      <3>2. users'[a].role = "Admin"
        BY <2>1, <3>1, AccountsStep DEF AccountStep, IsAdmin, Enrolled
      <3> QED
        BY <3>1, <3>2 DEF IsAdmin, Enrolled
    <2> QED
      BY <2>2, <2>3
  <1> QED
    BY <1>1, TypeCorrect, TurnsInit, TurnsStep, PTL DEF Spec, AdminRemains
-----------------------------------------------------------------------------
(* The account book. *)

Empty == \A u \in Users : ~Enrolled(u)

\* Before the defaults are in there is no grant and no handler, and the server that
\* inserts them has inserted exactly those it does not have left.
StartsAlone ==
    /\ Empty => /\ grants = {}
                /\ \A s \in Servers : server[s].at \in {"down", "count", "seed"}
    /\ \A s \in Servers : At(s, "seed") =>
          /\ grants = {}
          /\ server[s].left \subseteq Defaults /\ server[s].left # {}
          /\ \A u \in Users :
                users[u] = IF u \in server[s].left THEN NoAccount ELSE DefaultAccounts[u]
          /\ \A t \in Servers \ {s} : At(t, "down")

\* What a handler's lookup told it is still so at its next command.
HandlersKnow ==
    /\ \A s \in Servers : At(s, "insertGrant") \/ At(s, "deleteUser") =>
          Enrolled(server[s].user)
    /\ \A s \in Servers : At(s, "deleteGrants") => ~Enrolled(server[s].user)
    /\ \A g \in grants : \/ Enrolled(g[1])
                         \/ \E s \in Servers : At(s, "deleteGrants") /\ server[s].user = g[1]

\* What holds until a handler or a start is interrupted, or two of them overlap.
Undisturbed == faults = 0 /\ ~overlapped => StartsAlone /\ HandlersKnow

\* A server in a handler, or between two, finds the defaults in.
LEMMA HandlersFindItSeeded ==
    ASSUME StartsAlone, NEW s \in Servers, server[s].at \notin {"down", "count", "seed"}
    PROVE  Seeded
  BY DEF StartsAlone, Seeded, Empty, At

\* As long as the collections are seeded, no server seeds them.
LEMMA SeededStartsAlone == Seeded => StartsAlone
  BY DEF StartsAlone, Seeded, Empty, At

\* A step of a server that neither starts nor ends a seed.
LEMMA StaysSeeded ==
    ASSUME TypeOK, NEW s \in Servers, NEW activity, Go(s, activity), UNCHANGED users,
           activity.at # "seed", ~At(s, "seed")
    PROVE  Seeded' <=> Seeded
  BY GoesOn DEF Seeded, At, Enrolled

\* A state without faults or overlaps has had none before.
LEMMA Uninterrupted ==
    ASSUME TypeOK, Next, faults' = 0, ~overlapped'
    PROVE  faults = 0 /\ ~overlapped
  <1>1. PICK s \in Servers : Act(s)
    BY DEF Next, Step
  <1>2. ~Break(s)
    BY DEF Break, TypeOK
  <1> QED
    BY <1>1, <1>2
    DEF Act, Next, TypeOK, Connect, CountUsers, Stop, InsertUser, InsertDuplicateUser,
        InsertGrant, FindVictim, DeleteOneUser, DeleteManyGrants, SeedUser, ChangePassword,
        Enroll, Grant, Delete

\* Every uninterrupted step of servers that take turns keeps that.
LEMMA UndisturbedStep == TypeOK /\ Turns /\ Undisturbed /\ [Next]_vars => Undisturbed'
  <1> SUFFICES ASSUME TypeOK, Turns, Undisturbed, Next, faults' = 0, ~overlapped'
               PROVE  (StartsAlone /\ HandlersKnow)'
    <2>1. CASE UNCHANGED vars
      BY <2>1 DEF vars, Undisturbed, StartsAlone, Empty, HandlersKnow, At, Enrolled
    <2> QED
      BY <2>1 DEF Undisturbed
  <1> DEFINE Kept == (StartsAlone /\ HandlersKnow)'
  <1>1. PICK s \in Servers : Act(s)
    BY DEF Next, Step
  <1>2. ~Break(s)
    BY DEF Break, TypeOK
  <1>3. faults = 0 /\ ~overlapped
    BY Uninterrupted
  <1>4. StartsAlone /\ HandlersKnow
    BY <1>3 DEF Undisturbed
  <1> USE IdleIsAtNoCommand
  <1>5. ASSUME NEW activity, Go(s, activity), UNCHANGED <<users, grants>>,
               ~At(s, "deleteGrants"),
               activity.at \in {"insertGrant", "deleteUser"} =>
                  /\ activity.user \in Users
                  /\ Enrolled(activity.user),
               activity.at # "deleteGrants"
        PROVE  HandlersKnow'
    BY <1>4, <1>5, GoesOn DEF HandlersKnow, At, Enrolled
  <1>6. Seeded' => StartsAlone'
    BY DEF StartsAlone, Seeded, Empty, At
  <1>7. ASSUME NEW activity, Go(s, activity), UNCHANGED <<users, grants>>,
               server[s].at \notin {"down", "count", "seed", "deleteGrants"},
               activity.at \in {"insertGrant", "deleteUser"} =>
                  /\ activity.user \in Users
                  /\ Enrolled(activity.user),
               activity.at \notin {"deleteGrants", "seed"}
        PROVE  Kept
    <2>1. Seeded'
      BY <1>4, <1>7, HandlersFindItSeeded, StaysSeeded DEF At
    <2> QED
      BY <1>5, <1>6, <1>7, <2>1 DEF At
  <1>8. CASE Connect(s)
    <2>1. At(s, "down") /\ Go(s, [at |-> "count"]) /\ UNCHANGED <<users, grants>>
      BY <1>8 DEF Connect
    <2>2. HandlersKnow'
      BY <1>5, <2>1 DEF At
    <2>3. \A t \in Servers \ {s} : server'[t].at \in {"down", "serving"}
      BY <2>1, OthersIdle
    <2>4. StartsAlone'
      BY <1>4, <2>1, <2>3, GoesOn DEF StartsAlone, Empty, At, Enrolled
    <2> QED
      BY <2>2, <2>4
  <1>9. CASE CountUsers(s)
    <2>1. At(s, "count") /\ UNCHANGED <<users, grants>>
      BY <1>9 DEF CountUsers
    <2>2. \A t \in Servers \ {s} : server'[t] = server[t] /\ server[t] \in {Down, Serving}
      BY <1>9, OthersIdle DEF CountUsers, At, Active
    <2>3. CASE ~Empty
      <3>1. Go(s, Serving)
        BY <1>9, <2>3 DEF CountUsers, Empty
      <3>2. HandlersKnow'
        BY <1>5, <2>1, <3>1 DEF At
      <3>3. Seeded
        BY <2>1, <2>2, <2>3 DEF Seeded, Empty, At
      <3>4. Seeded'
        BY <2>1, <3>1, <3>3, StaysSeeded DEF At
      <3> QED
        BY <1>6, <3>2, <3>4
    <2>4. CASE Empty
      <3> DEFINE activity == [at |-> "seed", left |-> Defaults]
      <3>1. Go(s, activity)
        BY <1>9, <2>4 DEF CountUsers, Empty
      <3>2. HandlersKnow'
        BY <1>5, <2>1, <3>1 DEF At
      <3>3. \A t \in Servers \ {s} : server'[t] = Down
        BY <1>4, <2>2, <2>4 DEF StartsAlone
      <3>4. server'[s] = activity
        BY <3>1, GoesOn
      <3>5. Defaults # {}
        BY MongoAssumption DEF Defaults
      <3>6. \A u \in Users : users[u] = IF u \in Defaults THEN NoAccount ELSE DefaultAccounts[u]
        BY <2>4 DEF Empty, Enrolled, Defaults
      <3>7. grants' = {}
        BY <1>4, <2>1, <2>4 DEF StartsAlone
      <3>8. \A t \in Servers : server'[t].at \in {"down", "count", "seed"}
        BY <3>3, <3>4
      <3> QED
        BY <2>1, <3>2, <3>3, <3>4, <3>5, <3>6, <3>7, <3>8 DEF StartsAlone, At
    <2> QED
      BY <2>3, <2>4
  <1>10. ASSUME NEW u \in Users, SeedUser(s, u) PROVE Kept
    <2> DEFINE left == server[s].left
    <2> DEFINE activity == IF left = {u} THEN Serving
                           ELSE [at |-> "seed", left |-> left \ {u}]
    <2>1. At(s, "seed") /\ u \in left /\ Go(s, activity) /\ UNCHANGED grants
      BY <1>10 DEF SeedUser
    <2>2. server'[s] = activity
      BY <2>1, GoesOn
    <2>3. \A t \in Servers \ {s} : server'[t] = server[t] /\ At(t, "down")
      BY <1>4, <2>1, GoesOn DEF StartsAlone
    <2>4. grants' = {} /\ left \subseteq Defaults
      BY <1>4, <2>1 DEF StartsAlone
    <2>5. users' = [users EXCEPT ![u] = DefaultAccounts[u]]
      BY <1>4, <1>10, <2>1 DEF SeedUser, StartsAlone, Enrolled
    <2>6. \A v \in Users :
             users'[v] = IF v \in left \ {u} THEN NoAccount ELSE DefaultAccounts[v]
      BY <1>4, <2>1, <2>5 DEF StartsAlone, TypeOK
    <2>7. users'[u] # NoAccount
      BY <2>1, <2>4, <2>6 DEF Defaults
    <2>8. \A t \in Servers : server'[t].at \in {"down", "serving", "seed"}
      BY <2>2, <2>3 DEF At
    <2>9. HandlersKnow'
      BY <2>4, <2>8 DEF HandlersKnow, At
    <2>10. \A t \in Servers : At(t, "seed")' => t = s /\ left # {u} /\ server'[t].left = left \ {u}
      BY <2>2, <2>3 DEF At
    <2>11. StartsAlone'
      BY <2>1, <2>3, <2>4, <2>6, <2>7, <2>10 DEF StartsAlone, Empty, Enrolled, At
    <2> QED
      BY <2>9, <2>11
  <1>11. ASSUME NEW u \in Users, NEW current \in Passwords, NEW new \in Passwords,
                ChangePassword(s, u, current, new)
         PROVE  Kept
    <2>1. UNCHANGED <<server, grants>> /\ At(s, "serving")
      BY <1>11 DEF ChangePassword
    <2>2. \A v \in Users : Enrolled(v)' <=> Enrolled(v)
      BY <1>11, PasswordOnly
    <2>3. Seeded'
      BY <1>4, <2>1, <2>2, HandlersFindItSeeded DEF At, Seeded
    <2>4. HandlersKnow'
      <3>1. \A t \in Servers :
               At(t, "insertGrant") \/ At(t, "deleteUser") \/ At(t, "deleteGrants") =>
               server[t].user \in Users
        BY ActivityFields
      <3>2. \A g \in grants : g[1] \in Users
        BY DEF TypeOK
      <3> QED
        BY <1>4, <2>1, <2>2, <3>1, <3>2 DEF HandlersKnow, At
    <2> QED
      BY <1>6, <2>3, <2>4
  <1>12. CASE \/ Stop(s) \/ InsertDuplicateUser(s)
              \/ \E u \in Users : \/ \E account \in Account : Enroll(s, u, account)
                                  \/ \E p \in Projects : Grant(s, u, p)
                                  \/ \E by \in Users : Delete(s, by, u)
    BY <1>7, <1>12 DEF Stop, InsertDuplicateUser, Enroll, Grant, Delete, At
  <1>13. CASE FindVictim(s)
    <2>1. At(s, "findVictim") /\ UNCHANGED <<users, grants>> /\ server[s].user \in Users
      BY <1>13, ActivityFields DEF FindVictim
    <2>2. CASE Enrolled(server[s].user)
      <3> DEFINE activity == [at |-> "deleteUser", by |-> server[s].by, user |-> server[s].user]
      <3>1. Go(s, activity)
        BY <1>13, <2>1, <2>2, ActivityFields DEF FindVictim
      <3>2. activity.at = "deleteUser" /\ activity.user = server[s].user
        OBVIOUS
      <3> HIDE DEF activity
      <3> QED
        BY <1>7, <2>1, <2>2, <3>1, <3>2 DEF At
    <2>3. CASE ~Enrolled(server[s].user)
      <3>1. Go(s, Serving)
        BY <1>13, <2>3 DEF FindVictim
      <3> QED
        BY <1>7, <2>1, <3>1 DEF At
    <2> QED
      BY <2>2, <2>3
  <1>14. CASE InsertUser(s) \/ InsertGrant(s) \/ DeleteOneUser(s) \/ DeleteManyGrants(s)
    <2> DEFINE u == server[s].user
    <2>1. u \in Users /\ server[s].at \notin {"down", "serving", "count", "seed"}
      BY <1>14, ActivityFields
      DEF InsertUser, InsertGrant, DeleteOneUser, DeleteManyGrants, At
    <2>2. Seeded
      BY <1>4, <2>1, HandlersFindItSeeded
    <2>3. PICK activity :
             /\ Go(s, activity)
             /\ activity.at = IF DeleteOneUser(s) THEN "deleteGrants" ELSE "serving"
             /\ DeleteOneUser(s) => activity.user = u
      <3>1. [at |-> "deleteGrants", user |-> u].at = "deleteGrants"
        OBVIOUS
      <3> QED
        BY <1>14, <3>1 DEF InsertUser, InsertGrant, DeleteOneUser, DeleteManyGrants, At
    <2>4. server'[s] = activity
      BY <2>3, GoesOn
    <2>5. \A t \in Servers \ {s} : server'[t] = server[t] /\ server[t].at \in {"down", "serving"}
      BY <2>1, <2>3, OthersIdle DEF Active
    <2>6. \A t \in Servers : server'[t].at \in {"down", "serving", "deleteGrants"}
      BY <2>3, <2>4, <2>5
    <2>7. \A g \in grants : Enrolled(g[1]) \/ (At(s, "deleteGrants") /\ u = g[1])
      BY <1>4, <2>5 DEF HandlersKnow, At
    <2>8. \A g \in grants : g[1] \in Users
      BY DEF TypeOK
    <2>9. ASSUME \E v \in Users : users'[v] # NoAccount PROVE Seeded'
      BY <2>6, <2>9 DEF Seeded, Enrolled, At
    <2>10. CASE InsertUser(s)
      <3>1. server[s].account \in Account /\ UNCHANGED grants
        BY <2>10, ActivityFields DEF InsertUser
      <3>2. users' = [users EXCEPT ![u] = server[s].account]
        BY <2>10 DEF InsertUser
      <3>3. users'[u] # NoAccount
        BY <2>1, <3>1, <3>2, MongoAssumption DEF TypeOK
      <3>4. \A g \in grants : users'[g[1]] # NoAccount
        BY <2>7, <2>8, <2>10, <3>2, <3>3 DEF InsertUser, Enrolled, TypeOK, At
      <3>5. server'[s].at = "serving"
        BY <2>10, GoesOn DEF InsertUser
      <3>6. HandlersKnow'
        BY <2>5, <3>1, <3>4, <3>5 DEF HandlersKnow, Enrolled, At
      <3> QED
        BY <1>6, <2>1, <2>9, <3>3, <3>6
    <2>11. CASE InsertGrant(s)
      <3>1. UNCHANGED users /\ grants' = grants \cup {<<u, server[s].project>>}
        BY <2>11 DEF InsertGrant
      <3>2. Enrolled(u)
        BY <1>4, <2>11 DEF HandlersKnow, InsertGrant
      <3>3. \A g \in grants' : users'[g[1]] # NoAccount
        BY <2>7, <2>11, <3>1, <3>2 DEF InsertGrant, Enrolled, At
      <3>4. server'[s].at = "serving"
        BY <2>11, GoesOn DEF InsertGrant
      <3>5. HandlersKnow'
        BY <2>5, <3>3, <3>4 DEF HandlersKnow, Enrolled, At
      <3> QED
        BY <1>6, <2>1, <2>9, <3>1, <3>2, <3>5 DEF Enrolled
    <2>12. CASE DeleteOneUser(s)
      <3>1. UNCHANGED grants /\ users' = [users EXCEPT ![u] = NoAccount]
        BY <2>12 DEF DeleteOneUser
      <3>2. server'[s].at = "deleteGrants" /\ server'[s].user = u
        BY <2>3, <2>4, <2>12
      <3>3. users'[u] = NoAccount /\ \A v \in Users \ {u} : users'[v] = users[v]
        BY <2>1, <3>1 DEF TypeOK
      <3>4. \A g \in grants : users'[g[1]] # NoAccount \/ g[1] = u
        BY <2>7, <2>8, <3>3 DEF Enrolled
      <3>5. HandlersKnow'
        BY <2>5, <3>1, <3>2, <3>3, <3>4 DEF HandlersKnow, Enrolled, At
      <3>6. server[s].by \in Users /\ server[s].by # u /\ Enrolled(server[s].by)
        BY <1>3, <2>12, ActivityFields DEF DeleteOneUser, Turns, CallerIsAdmin, IsAdmin
      <3> QED
        BY <1>6, <2>9, <3>3, <3>5, <3>6 DEF Enrolled
    <2>13. CASE DeleteManyGrants(s)
      <3>1. UNCHANGED users /\ grants' = {g \in grants : g[1] # u}
        BY <2>13 DEF DeleteManyGrants
      <3>2. \A g \in grants' : users'[g[1]] # NoAccount
        BY <2>7, <3>1 DEF Enrolled
      <3>3. server'[s].at = "serving"
        BY <2>13, GoesOn DEF DeleteManyGrants
      <3>4. HandlersKnow'
        BY <2>5, <3>2, <3>3 DEF HandlersKnow, Enrolled, At
      <3> QED
        BY <1>6, <2>2, <2>9, <3>1, <3>4 DEF Seeded, Enrolled
    <2> QED
      BY <1>14, <2>10, <2>11, <2>12, <2>13
  <1> QED
    BY <1>1, <1>2, <1>8, <1>9, <1>10, <1>11, <1>12, <1>13, <1>14 DEF Act

\* The document of a database in which nothing is being inserted.
LEMMA SeededDocument ==
    Seeded => Document = [users |-> users, grants |-> {g \in grants : Enrolled(g[1])}]
  BY DEF Document

\* The document before that: the default accounts.
LEMMA UnseededDocument ==
    ~Seeded => Document = [users |-> DefaultAccounts, grants |-> {}]
  BY DEF Document

\* A step that leaves the collections, and whether they are seeded, leaves the document.
LEMMA SameDocument ==
    ASSUME UNCHANGED <<users, grants>>, Seeded' <=> Seeded
    PROVE  UNCHANGED Document
  BY DEF Document, Enrolled

\* Every uninterrupted step of servers that take turns is an operation of the account
\* book, or none.
LEMMA BookStep ==
    ASSUME TypeOK, Turns, Undisturbed, Next, faults' = 0, ~overlapped'
    PROVE  Book!Next \/ UNCHANGED Document
  <1>1. PICK s \in Servers : Act(s)
    BY DEF Next, Step
  <1>2. ~Break(s)
    BY DEF Break, TypeOK
  <1>3. faults = 0 /\ ~overlapped
    BY Uninterrupted
  <1>4. StartsAlone /\ HandlersKnow
    BY <1>3 DEF Undisturbed
  <1> USE IdleIsAtNoCommand
  <1>5. ASSUME NEW activity, Go(s, activity), UNCHANGED <<users, grants>>,
               activity.at # "seed", ~At(s, "seed")
        PROVE  UNCHANGED Document
    BY <1>5, StaysSeeded, SameDocument
  <1>6. CASE \/ Connect(s) \/ Stop(s) \/ InsertDuplicateUser(s)
             \/ \E u \in Users : \/ \E account \in Account : Enroll(s, u, account)
                                 \/ \E p \in Projects : Grant(s, u, p)
                                 \/ \E by \in Users : Delete(s, by, u)
    BY <1>5, <1>6 DEF Connect, Stop, InsertDuplicateUser, Enroll, Grant, Delete, At
  <1>7. CASE CountUsers(s)
    <2>1. CASE Empty
      BY <1>7, <2>1, SameDocument DEF CountUsers, Empty, Seeded, Enrolled
    <2>2. CASE ~Empty
      BY <1>5, <1>7, <2>2 DEF CountUsers, Empty, At
    <2> QED
      BY <2>1, <2>2
  <1>8. CASE FindVictim(s)
    <2>1. \E activity : Go(s, activity) /\ activity.at \in {"deleteUser", "serving"}
      <3>1. At(s, "findVictim")
        BY <1>8 DEF FindVictim
      <3>2. [at |-> "deleteUser", by |-> server[s].by, user |-> server[s].user].at = "deleteUser"
        OBVIOUS
      <3> QED
        BY <1>8, <3>1, <3>2, ActivityFields DEF FindVictim
    <2> QED
      BY <1>5, <1>8, <2>1 DEF FindVictim, At
  <1>9. ASSUME NEW u \in Users, SeedUser(s, u) PROVE UNCHANGED Document
    <2> DEFINE left == server[s].left
    <2>1. At(s, "seed") /\ u \in left /\ UNCHANGED grants
      BY <1>9 DEF SeedUser
    <2>2. Go(s, IF left = {u} THEN Serving ELSE [at |-> "seed", left |-> left \ {u}])
      BY <1>9 DEF SeedUser
    <2>3. \A t \in Servers \ {s} : server'[t] = server[t] /\ At(t, "down")
      BY <1>4, <2>1, <2>2, GoesOn DEF StartsAlone
    <2>4. Document = [users |-> DefaultAccounts, grants |-> {}]
      BY <2>1, UnseededDocument DEF Seeded
    <2>5. CASE left = {u}
      <3>1. users' = [users EXCEPT ![u] = DefaultAccounts[u]]
        BY <1>4, <1>9, <2>1 DEF SeedUser, StartsAlone, Enrolled
      <3>2. \A v \in Users : users'[v] = DefaultAccounts[v]
        BY <1>4, <2>1, <2>5, <3>1 DEF StartsAlone, TypeOK
      <3>3. users' = DefaultAccounts
        BY <3>1, <3>2, MongoAssumption DEF TypeOK
      <3>4. grants' = {}
        BY <1>4, <2>1 DEF StartsAlone
      <3>5. server'[s] = Serving
        BY <2>2, <2>5, GoesOn
      <3>6. users'[u] # NoAccount
        BY <1>4, <2>1, <3>2 DEF StartsAlone, Defaults
      <3>7. Seeded'
        BY <2>3, <3>5, <3>6 DEF Seeded, Enrolled, At
      <3> QED
        BY <2>4, <3>3, <3>4, <3>7 DEF Document
    <2>6. CASE left # {u}
      <3>1. server'[s] = [at |-> "seed", left |-> left \ {u}]
        BY <2>2, <2>6, GoesOn
      <3>2. ~Seeded'
        BY <3>1 DEF Seeded, At
      <3> QED
        BY <2>4, <3>2 DEF Document
    <2> QED
      BY <2>5, <2>6
  <1>10. ASSUME NEW u \in Users, NEW current \in Passwords, NEW new \in Passwords,
                ChangePassword(s, u, current, new)
         PROVE  Book!SetPassword(u, new)
    <2>1. /\ UNCHANGED <<server, grants>> /\ At(s, "serving") /\ Enrolled(u)
          /\ users' = [users EXCEPT ![u] = [role |-> users[u].role, password |-> new]]
      BY <1>10 DEF ChangePassword
    <2>2. \A v \in Users : Enrolled(v)' <=> Enrolled(v)
      BY <1>10, PasswordOnly
    <2>3. Seeded /\ Seeded'
      BY <1>4, <2>1, <2>2, HandlersFindItSeeded DEF At, Seeded
    <2>4. Document = [users |-> users, grants |-> {g \in grants : Enrolled(g[1])}]
      BY <2>3, SeededDocument
    <2>5. Document' = [users |-> users', grants |-> {g \in grants' : users'[g[1]] # NoAccount}]
      BY <2>3 DEF Document, Enrolled
    <2>6. \A g \in grants : g[1] \in Users
      BY DEF TypeOK
    <2>7. {g \in grants' : users'[g[1]] # NoAccount} = {g \in grants : Enrolled(g[1])}
      BY <2>1, <2>2, <2>6 DEF Enrolled
    <2> QED
      BY <2>1, <2>4, <2>5, <2>7 DEF Book!SetPassword, Book!Become, Book!Has, Enrolled
  <1>11. CASE InsertUser(s) \/ InsertGrant(s) \/ DeleteOneUser(s) \/ DeleteManyGrants(s)
    <2> DEFINE u == server[s].user
    <2>1. u \in Users /\ server[s].at \notin {"down", "serving", "count", "seed"}
      BY <1>11, ActivityFields
      DEF InsertUser, InsertGrant, DeleteOneUser, DeleteManyGrants, At
    <2>2. PICK activity : Go(s, activity) /\ activity.at \in {"serving", "deleteGrants"}
      <3>1. [at |-> "deleteGrants", user |-> u].at = "deleteGrants"
        OBVIOUS
      <3> QED
        BY <1>11, <3>1 DEF InsertUser, InsertGrant, DeleteOneUser, DeleteManyGrants, At
    <2>3. \A t \in Servers \ {s} : server[t].at \in {"down", "serving"}
      BY <2>1, <2>2, OthersIdle DEF Active
    <2>4. (StartsAlone /\ HandlersKnow)'
      BY UndisturbedStep DEF Undisturbed
    <2>5. Seeded'
      BY <2>2, <2>4, GoesOn DEF StartsAlone, Seeded, Empty, At
    <2>6. Document = [users |-> users, grants |-> {g \in grants : users[g[1]] # NoAccount}]
      BY <1>4, <2>1, HandlersFindItSeeded DEF Document, Enrolled
    <2>7. Document' = [users |-> users', grants |-> {g \in grants' : users'[g[1]] # NoAccount}]
      BY <2>5 DEF Document, Enrolled
    <2>8. \A g \in grants : users[g[1]] # NoAccount \/ (At(s, "deleteGrants") /\ u = g[1])
      BY <1>4, <2>3 DEF HandlersKnow, Enrolled, At
    <2>9. \A g \in grants : g[1] \in Users
      BY DEF TypeOK
    <2>10. CASE InsertUser(s)
      <3>1. /\ ~Enrolled(u) /\ UNCHANGED grants /\ server[s].account \in Account
            /\ users' = [users EXCEPT ![u] = server[s].account]
        BY <2>10, ActivityFields DEF InsertUser
      <3>2. \A g \in grants : users[g[1]] # NoAccount /\ g[1] # u
        BY <2>8, <2>10, <3>1 DEF InsertUser, Enrolled, At
      <3>3. \A g \in grants : users'[g[1]] # NoAccount
        BY <2>9, <3>1, <3>2 DEF TypeOK
      <3>4. Document.grants = grants /\ Document'.grants = grants
        BY <2>6, <2>7, <3>1, <3>2, <3>3
      <3>5. Book!Enroll(u, server[s].account)
        BY <2>6, <2>7, <3>1, <3>4 DEF Book!Enroll, Book!Become, Book!Has, Enrolled
      <3>6. server[s].account \in Book!Accounts
        BY <3>1 DEF Book!Accounts, Account, Roles
      <3> QED
        BY <2>1, <3>5, <3>6 DEF Book!Next
    <2>11. CASE InsertGrant(s)
      <3>1. /\ UNCHANGED users /\ server[s].project \in Projects
            /\ grants' = grants \cup {<<u, server[s].project>>}
        BY <2>11, ActivityFields DEF InsertGrant
      <3>2. Enrolled(u)
        BY <1>4, <2>11 DEF HandlersKnow, InsertGrant
      <3>3. \A g \in grants : users[g[1]] # NoAccount
        BY <2>8, <2>11 DEF InsertGrant, At
      <3>4. Document.grants = grants /\ Document'.grants = grants'
        BY <2>6, <2>7, <3>1, <3>2, <3>3 DEF Enrolled
      <3>5. Book!Grant(u, server[s].project)
        BY <2>6, <2>7, <3>1, <3>2, <3>4 DEF Book!Grant, Book!Become, Book!Has, Enrolled
      <3> QED
        BY <2>1, <3>1, <3>5 DEF Book!Next
    <2>12. CASE DeleteOneUser(s)
      <3>1. UNCHANGED grants /\ users' = [users EXCEPT ![u] = NoAccount]
        BY <2>12 DEF DeleteOneUser
      <3>2. Enrolled(u)
        BY <1>4, <2>12 DEF HandlersKnow, DeleteOneUser
      <3>3. /\ server[s].by \in Users \ {u} /\ Enrolled(server[s].by)
            /\ users[server[s].by].role = "Admin"
        BY <1>3, <2>12, ActivityFields DEF DeleteOneUser, Turns, CallerIsAdmin, IsAdmin
      <3>4. \A g \in grants : users'[g[1]] # NoAccount <=> g[1] # u
        BY <2>8, <2>9, <2>12, <3>1 DEF DeleteOneUser, TypeOK, At
      <3>5. \A g \in grants : users[g[1]] # NoAccount
        BY <2>8, <2>12 DEF DeleteOneUser, At
      <3>6. Document.grants = grants /\ Document'.grants = {g \in grants : g[1] # u}
        BY <2>6, <2>7, <3>1, <3>4, <3>5
      <3>7. Book!Delete(u)
        BY <2>6, <2>7, <3>1, <3>2, <3>3, <3>6
        DEF Book!Delete, Book!Become, Book!Has, Enrolled
      <3> QED
        BY <2>1, <3>7 DEF Book!Next
    <2>13. CASE DeleteManyGrants(s)
      <3>1. UNCHANGED users /\ grants' = {g \in grants : g[1] # u}
        BY <2>13 DEF DeleteManyGrants
      <3>2. users[u] = NoAccount
        BY <1>4, <2>13 DEF HandlersKnow, DeleteManyGrants, Enrolled
      <3>3. {g \in grants' : users'[g[1]] # NoAccount} = {g \in grants : users[g[1]] # NoAccount}
        BY <3>1, <3>2
      <3> QED
        BY <2>6, <2>7, <3>1, <3>3
    <2> QED
      BY <1>11, <2>10, <2>11, <2>12, <2>13
  <1> QED
    BY <1>1, <1>2, <1>6, <1>7, <1>8, <1>9, <1>10, <1>11 DEF Act, Book!Next

\* Servers that take turns implement the account book until a handler or a start is
\* interrupted: remove_user's three commands are one deletion, an insert that follows its
\* lookup is one enrollment or grant, and the seed of a first start is the initial book.
THEOREM MongoIsAnAccountBook == Spec => ImplementsBook
  <1>1. Init => Undisturbed
    BY DEF Init, Undisturbed, StartsAlone, HandlersKnow, At, Down
  <1>2. Init => Book!Init
    BY UnseededDocument DEF Init, Book!Init, Seeded, Enrolled
  <1>3. TypeOK /\ Turns /\ Undisturbed /\ [Next]_vars =>
           [faults' = 0 /\ ~overlapped' => Book!Next]_Document
    <2> SUFFICES ASSUME TypeOK, Turns, Undisturbed, [Next]_vars,
                        faults' = 0, ~overlapped'
                 PROVE  Book!Next \/ UNCHANGED Document
      OBVIOUS
    <2>1. CASE UNCHANGED vars
      BY <2>1, SameDocument DEF vars, Seeded, Enrolled, At
    <2> QED
      BY <2>1, BookStep
  <1> QED
    BY <1>1, <1>2, <1>3, TypeCorrect, TurnsInit, TurnsStep, UndisturbedStep, PTL
    DEF Spec, ImplementsBook
=============================================================================
