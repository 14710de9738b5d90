--------------------------- MODULE AccountsProofs ---------------------------
(***************************************************************************)
(* Proofs about Accounts, for any users, projects, passwords, tasks and    *)
(* number of failing persists.                                             *)
(***************************************************************************)
EXTENDS Accounts, TLAPS

\* The document _write_defaults makes is a document with an Admin and no grant.
LEMMA DefaultsFacts ==
    /\ Defaults \in Document
    /\ AdminIn(Defaults)
    /\ GrantsTargetUsers(Defaults)
  BY AccountsAssumption DEF Document, AdminIn, GrantsTargetUsers

\* A document is a record of its two fields.
LEMMA DocumentFields ==
    ASSUME NEW doc \in Document
    PROVE  /\ doc.users \in [Users -> Account \cup {NoAccount}]
           /\ doc.grants \in SUBSET (Users \X Projects)
           /\ doc = [users |-> doc.users, grants |-> doc.grants]
  BY DEF Document

\* The mutations of JsonDatabase make documents of documents.
LEMMA WithUserType ==
    ASSUME NEW doc \in Document, NEW u \in Users, NEW account \in Account
    PROVE  WithUser(doc, u, account) \in Document
  BY DocumentFields DEF WithUser, Document

\* Removing a user and their grants gives a document.
LEMMA WithoutUserType ==
    ASSUME NEW doc \in Document, NEW u \in Users
    PROVE  WithoutUser(doc, u) \in Document
  BY DocumentFields DEF WithoutUser, Document

\* Changing a password gives a document.
LEMMA WithPasswordType ==
    ASSUME NEW doc \in Document, NEW u \in Users, NEW password \in Passwords,
           doc.users[u] # NoAccount
    PROVE  WithPassword(doc, u, password) \in Document
  <1>1. doc.users[u] \in Account
    BY DocumentFields
  <1>2. [role |-> doc.users[u].role, password |-> password] \in Account
    BY <1>1 DEF Account
  <1> QED
    BY <1>2, DocumentFields DEF WithPassword, Document

\* Adding a grant gives a document.
LEMMA WithGrantType ==
    ASSUME NEW doc \in Document, NEW u \in Users, NEW p \in Projects
    PROVE  WithGrant(doc, u, p) \in Document
  BY DocumentFields DEF WithGrant, Document

\* A persist keeps the types of the store, whatever becomes of it.
LEMMA PersistType ==
    ASSUME TypeOK, NEW doc \in Document, NEW outcome \in Outcomes,
           Persist(doc, outcome)
    PROVE  /\ mem' \in Document
           /\ disk' \in Document \cup {NoFile}
           /\ up' \in BOOLEAN
           /\ faults' \in 0 .. MaxFaults
  BY DefaultsFacts, StoreAssumption DEF TypeOK, Persist

\* The bookkeeping of the answer keeps its types.
LEMMA TellType ==
    ASSUME TypeOK, NEW doc \in Document, NEW outcome, NEW u \in Users,
           Tell(u, doc, outcome)
    PROVE  told' \in [Users -> Account \cup {NoAccount, Unknown}]
  BY DocumentFields DEF TypeOK, Tell

\* Ending a waiting task, or all of them, keeps the type of pending.
LEMMA FinishType ==
    ASSUME TypeOK, NEW outcome, NEW s \in Tasks, Finish(s, outcome)
    PROVE  pending' \in [Tasks -> Request \cup {Idle}]
  BY DEF TypeOK, Finish, NoRequests

\* A waiting task keeps the operation, the caller and the project it was admitted with.
LEMMA PendingType ==
    ASSUME TypeOK, NEW s \in Tasks, pending[s] # Idle
    PROVE  /\ pending[s].by \in Users
           /\ pending[s].op = "grant" => pending[s].project \in Projects
  BY DEF TypeOK, Request

\* Every step keeps the types.
LEMMA TypeStep == TypeOK /\ [Next]_vars => TypeOK'
  <1> SUFFICES ASSUME TypeOK, [Next]_vars PROVE TypeOK'
    OBVIOUS
  <1>1. ASSUME NEW u \in Users, NEW password \in Passwords, Login(u, password)
        PROVE  TypeOK'
    BY <1>1 DEF TypeOK, Login
  <1>2. ASSUME NEW t \in tokens, Expire(t) PROVE TypeOK'
    BY <1>2 DEF TypeOK, Expire
  <1>3. ASSUME NEW s \in Tasks, NEW t \in tokens, NEW request \in Request,
               Admit(s, t, request)
        PROVE  TypeOK'
    BY <1>3 DEF TypeOK, Admit
  <1>4. ASSUME NEW s \in Tasks, GiveUp(s) PROVE TypeOK'
    BY <1>4 DEF TypeOK, GiveUp
  <1>5. ASSUME NEW s \in Tasks, NEW u \in Users, NEW account \in Account,
               NEW outcome \in Outcomes, EnrollUser(s, u, account, outcome)
        PROVE  TypeOK'
    <2>1. WithUser(mem, u, account) \in Document
      BY WithUserType DEF TypeOK
    <2> QED
      BY <1>5, <2>1, PersistType, TellType, FinishType DEF EnrollUser, TypeOK
  <1>6. ASSUME NEW s \in Tasks, NEW current \in Passwords, NEW new \in Passwords,
               NEW outcome \in Outcomes, ChangePassword(s, current, new, outcome)
        PROVE  TypeOK'
    <2>1. pending[s].by \in Users
      BY <1>6, PendingType DEF ChangePassword
    <2>2. WithPassword(mem, pending[s].by, new) \in Document
      BY <1>6, <2>1, WithPasswordType DEF TypeOK, ChangePassword, Enrolled
    <2> QED
      BY <1>6, <2>1, <2>2, PersistType, TellType, FinishType DEF ChangePassword, TypeOK
  <1>7. ASSUME NEW s \in Tasks, NEW u \in Users, NEW outcome \in Outcomes,
               GrantAccess(s, u, outcome)
        PROVE  TypeOK'
    <2>1. pending[s].project \in Projects
      BY <1>7, PendingType DEF GrantAccess
    <2>2. WithGrant(mem, u, pending[s].project) \in Document
      BY <2>1, WithGrantType DEF TypeOK
    <2>3. toldGrants' \subseteq Users \X Projects
      BY <1>7, <2>1 DEF GrantAccess, TypeOK
    <2> QED
      BY <1>7, <2>2, <2>3, PersistType, FinishType DEF GrantAccess, TypeOK
  <1>8. ASSUME NEW s \in Tasks, NEW u \in Users, GrantAgain(s, u) PROVE TypeOK'
    <2>1. pending[s].project \in Projects
      BY <1>8, PendingType DEF GrantAgain
    <2> QED
      BY <1>8, <2>1 DEF GrantAgain, TypeOK
  <1>9. ASSUME NEW t \in tokens, NEW u \in Users, NEW outcome \in Outcomes,
               DeleteUser(t, u, outcome)
        PROVE  TypeOK'
    <2>1. WithoutUser(mem, u) \in Document
      BY WithoutUserType DEF TypeOK
    <2>2. pending' \in [Tasks -> Request \cup {Idle}]
      BY <1>9 DEF DeleteUser, TypeOK, NoRequests
    <2> QED
      BY <1>9, <2>1, <2>2, PersistType, TellType DEF DeleteUser, TypeOK
  <1>10. CASE ArtifactHandlerPersists
    BY <1>10, DefaultsFacts
    DEF ArtifactHandlerPersists, OtherHalfPersisted, TypeOK, NoRequests
  <1>11. CASE Crash
    BY <1>11, DefaultsFacts DEF Crash, Die, TypeOK, NoRequests
  <1>12. CASE Start
    BY <1>12, DefaultsFacts DEF Start, LoadOrSeed, TypeOK
  <1>13. CASE UNCHANGED vars
    BY <1>13 DEF vars, TypeOK
  <1> QED
    BY <1>1, <1>2, <1>3, <1>4, <1>5, <1>6, <1>7, <1>8, <1>9, <1>10, <1>11, <1>12, <1>13
    DEF Next, Handler

\* Every variable has its type in every reachable state.
THEOREM TypeCorrect == Spec => []TypeOK
  <1>1. Init => TypeOK
    <2> SUFFICES ASSUME Init PROVE TypeOK
      OBVIOUS
    <2>1. faults \in 0 .. MaxFaults
      BY StoreAssumption DEF Init, StoreInit
    <2>2. pending \in [Tasks -> Request \cup {Idle}]
      BY DEF Init, NoRequests
    <2> QED
      BY <2>1, <2>2, DefaultsFacts DEF Init, StoreInit, TypeOK
  <1> QED
    BY <1>1, TypeStep, PTL DEF Spec
-----------------------------------------------------------------------------
(* What a step may do to the document. *)

\* The documents a mutation may leave in memory: a user added who was not there,
\* a password changed, a grant given to a user, a user removed while another
\* Admin is enrolled.
Mutation(doc) ==
    \/ \E u \in Users, account \in Account :
          ~Enrolled(u) /\ doc = WithUser(mem, u, account)
    \/ \E u \in Users, password \in Passwords :
          Enrolled(u) /\ doc = WithPassword(mem, u, password)
    \/ \E u \in Users, p \in Projects :
          Enrolled(u) /\ doc = WithGrant(mem, u, p)
    \/ \E u \in Users, v \in Users :
          /\ Enrolled(u) /\ IsAdmin(v) /\ v # u
          /\ doc = WithoutUser(mem, u)

\* Every step leaves the store alone, persists a mutation, or is a persist of the
\* other half, a crash or a start.
StoreStep ==
    \/ UNCHANGED storeVars
    \/ \E doc \in Document, outcome \in Outcomes : Mutation(doc) /\ Persist(doc, outcome)
    \/ OtherHalfPersisted
    \/ Die
    \/ LoadOrSeed(disk # NoFile /\ HasUsers(disk))

\* Every step acts on the store by one of the disjuncts of StoreStep.
LEMMA StepsOnTheStore == TypeOK /\ [Next]_vars => StoreStep
  <1> SUFFICES ASSUME TypeOK, [Next]_vars PROVE StoreStep
    OBVIOUS
  <1>1. ASSUME NEW u \in Users, NEW password \in Passwords, Login(u, password)
        PROVE  StoreStep
    BY <1>1 DEF Login, StoreStep, storeVars
  <1>2. ASSUME NEW t \in tokens, Expire(t) PROVE StoreStep
    BY <1>2 DEF Expire, StoreStep, storeVars
  <1>3. ASSUME NEW s \in Tasks, NEW t \in tokens, NEW request \in Request,
               Admit(s, t, request)
        PROVE  StoreStep
    BY <1>3 DEF Admit, StoreStep, storeVars
  <1>4. ASSUME NEW s \in Tasks, GiveUp(s) PROVE StoreStep
    BY <1>4 DEF GiveUp, StoreStep, storeVars
  <1>5. ASSUME NEW s \in Tasks, NEW u \in Users, NEW account \in Account,
               NEW outcome \in Outcomes, EnrollUser(s, u, account, outcome)
        PROVE  StoreStep
    <2>1. WithUser(mem, u, account) \in Document
      BY WithUserType DEF TypeOK
    <2>2. Mutation(WithUser(mem, u, account))
      BY <1>5 DEF EnrollUser, Mutation
    <2> QED
      BY <1>5, <2>1, <2>2 DEF EnrollUser, StoreStep
  <1>6. ASSUME NEW s \in Tasks, NEW current \in Passwords, NEW new \in Passwords,
               NEW outcome \in Outcomes, ChangePassword(s, current, new, outcome)
        PROVE  StoreStep
    <2> DEFINE doc == WithPassword(mem, pending[s].by, new)
    <2>1. pending[s].by \in Users
      BY <1>6, PendingType DEF ChangePassword
    <2>2. doc \in Document
      BY <1>6, <2>1, WithPasswordType DEF TypeOK, ChangePassword, Enrolled
    <2>3. Mutation(doc)
      BY <1>6, <2>1 DEF ChangePassword, Mutation
    <2>4. Persist(doc, outcome)
      BY <1>6 DEF ChangePassword
    <2> QED
      BY <2>2, <2>3, <2>4 DEF StoreStep
  <1>7. ASSUME NEW s \in Tasks, NEW u \in Users, NEW outcome \in Outcomes,
               GrantAccess(s, u, outcome)
        PROVE  StoreStep
    <2> DEFINE doc == WithGrant(mem, u, pending[s].project)
    <2>1. pending[s].project \in Projects
      BY <1>7, PendingType DEF GrantAccess
    <2>2. doc \in Document
      BY <2>1, WithGrantType DEF TypeOK
    <2>3. Mutation(doc)
      BY <1>7, <2>1 DEF GrantAccess, Mutation
    <2>4. Persist(doc, outcome)
      BY <1>7 DEF GrantAccess
    <2> QED
      BY <2>2, <2>3, <2>4 DEF StoreStep
  <1>8. ASSUME NEW s \in Tasks, NEW u \in Users, GrantAgain(s, u) PROVE StoreStep
    BY <1>8 DEF GrantAgain, StoreStep, storeVars
  <1>9. ASSUME NEW t \in tokens, NEW u \in Users, NEW outcome \in Outcomes,
               DeleteUser(t, u, outcome)
        PROVE  StoreStep
    <2>1. WithoutUser(mem, u) \in Document
      BY WithoutUserType DEF TypeOK
    <2>2. t \in Users /\ IsAdmin(t)
      BY <1>9 DEF DeleteUser, RequireAdmin, TypeOK
    <2>3. Mutation(WithoutUser(mem, u))
      BY <1>9, <2>2 DEF DeleteUser, Mutation
    <2> QED
      BY <1>9, <2>1, <2>3 DEF DeleteUser, StoreStep
  <1>10. CASE ArtifactHandlerPersists
    BY <1>10 DEF ArtifactHandlerPersists, StoreStep
  <1>11. CASE Crash
    BY <1>11 DEF Crash, StoreStep
  <1>12. CASE Start
    BY <1>12 DEF Start, StoreStep
  <1>13. CASE UNCHANGED vars
    BY <1>13 DEF vars, StoreStep, storeVars
  <1> QED
    BY <1>1, <1>2, <1>3, <1>4, <1>5, <1>6, <1>7, <1>8, <1>9, <1>10, <1>11, <1>12, <1>13
    DEF Next, Handler

\* Once there is a store file there always is: a persist renames, it never removes.
LEMMA FileStays == TypeOK /\ [Next]_vars /\ disk # NoFile => disk' # NoFile
  <1> SUFFICES ASSUME TypeOK, StoreStep, disk # NoFile PROVE disk' # NoFile
    BY StepsOnTheStore
  <1>1. NoFile \notin Document
    BY ValueAssumption
  <1>2. CASE UNCHANGED storeVars
    BY <1>2 DEF storeVars
  <1>3. ASSUME NEW doc \in Document, NEW outcome \in Outcomes, Persist(doc, outcome)
        PROVE  disk' # NoFile
    BY <1>1, <1>3 DEF Persist
  <1>4. CASE OtherHalfPersisted \/ Die
    BY <1>1, <1>4 DEF OtherHalfPersisted, Die, TypeOK
  <1>5. CASE LoadOrSeed(disk # NoFile /\ HasUsers(disk))
    BY <1>5, StoreAssumption DEF LoadOrSeed
  <1> QED
    BY <1>2, <1>3, <1>4, <1>5 DEF StoreStep
-----------------------------------------------------------------------------
(* An Admin remains. *)

\* A mutation of a document with an Admin leaves one: a deletion is by another Admin.
LEMMA MutationKeepsAdmin ==
    ASSUME TypeOK, AdminIn(mem), NEW doc, Mutation(doc)
    PROVE  AdminIn(doc)
  <1>1. PICK a \in Users : mem.users[a] # NoAccount /\ mem.users[a].role = "Admin"
    BY DEF AdminIn
  <1>2. mem.users \in [Users -> Account \cup {NoAccount}]
    BY DocumentFields DEF TypeOK
  <1>3. mem.users[a] \in Account
    BY <1>1, <1>2
  <1>4. ASSUME NEW u \in Users, NEW account \in Account,
               ~Enrolled(u), doc = WithUser(mem, u, account)
        PROVE  AdminIn(doc)
    <2>1. a # u
      BY <1>1, <1>4 DEF Enrolled
    <2>2. doc.users = [mem.users EXCEPT ![u] = account]
      BY <1>4, DocumentFields DEF WithUser, TypeOK
    <2> QED
      BY <1>1, <1>2, <2>1, <2>2 DEF AdminIn
  <1>5. ASSUME NEW u \in Users, NEW password \in Passwords,
               Enrolled(u), doc = WithPassword(mem, u, password)
        PROVE  AdminIn(doc)
    <2> DEFINE account == [role |-> mem.users[u].role, password |-> password]
    <2>1. doc.users = [mem.users EXCEPT ![u] = account]
      BY <1>5, DocumentFields DEF WithPassword, TypeOK
    <2>2. mem.users[u] \in Account
      BY <1>2, <1>5 DEF Enrolled
    <2>3. account \in Account
      BY <2>2 DEF Account
    <2>4. doc.users[a] # NoAccount /\ doc.users[a].role = "Admin"
      BY <1>1, <1>2, <2>1, <2>3, AccountsAssumption
    <2> QED
      BY <2>4 DEF AdminIn
  <1>6. ASSUME NEW u \in Users, NEW p \in Projects, doc = WithGrant(mem, u, p)
        PROVE  AdminIn(doc)
    BY <1>1, <1>6 DEF WithGrant, AdminIn
  <1>7. ASSUME NEW u \in Users, NEW v \in Users, IsAdmin(v), v # u,
               doc = WithoutUser(mem, u)
        PROVE  AdminIn(doc)
    BY <1>2, <1>7 DEF WithoutUser, AdminIn, IsAdmin, Enrolled
  <1> QED
    BY <1>4, <1>5, <1>6, <1>7 DEF Mutation

\* Every step on the store keeps an Admin in memory and in the file.
LEMMA AdminStep == TypeOK /\ HasAdmin /\ StoreStep => HasAdmin'
  <1> SUFFICES ASSUME TypeOK, HasAdmin, StoreStep PROVE HasAdmin'
    OBVIOUS
  <1>1. CASE UNCHANGED storeVars
    BY <1>1 DEF storeVars, HasAdmin, AdminIn
  <1>2. ASSUME NEW doc \in Document, NEW outcome \in Outcomes,
               Mutation(doc), Persist(doc, outcome)
        PROVE  HasAdmin'
    <2>1. AdminIn(doc)
      BY <1>2, MutationKeepsAdmin DEF HasAdmin
    <2>2. mem' \in {doc, Defaults} /\ disk' \in {doc, disk}
      BY <1>2 DEF Persist
    <2> QED
      BY <2>1, <2>2, DefaultsFacts DEF HasAdmin, AdminIn
  <1>3. CASE OtherHalfPersisted
    BY <1>3, DefaultsFacts DEF OtherHalfPersisted, HasAdmin, AdminIn
  <1>4. CASE Die
    BY <1>4, DefaultsFacts DEF Die, HasAdmin, AdminIn
  <1>5. CASE LoadOrSeed(disk # NoFile /\ HasUsers(disk))
    BY <1>5, DefaultsFacts DEF LoadOrSeed, HasAdmin, AdminIn
  <1> QED
    BY <1>1, <1>2, <1>3, <1>4, <1>5 DEF StoreStep

\* In every reachable state an Admin is enrolled, in memory and in the file.
THEOREM AdminRemains == Spec => []HasAdmin
  <1>1. Init => HasAdmin
    BY DefaultsFacts DEF Init, StoreInit, HasAdmin, AdminIn
  <1>2. TypeOK /\ HasAdmin /\ [Next]_vars => HasAdmin'
    BY StepsOnTheStore, AdminStep
  <1> QED
    BY <1>1, <1>2, TypeCorrect, PTL DEF Spec
-----------------------------------------------------------------------------
(* Grants go with their users. *)

\* A mutation of a document whose grants have users leaves each grant its user.
LEMMA MutationKeepsGrants ==
    ASSUME TypeOK, GrantsTargetUsers(mem), NEW doc \in Document, Mutation(doc)
    PROVE  GrantsTargetUsers(doc)
  <1>1. /\ mem.users \in [Users -> Account \cup {NoAccount}]
        /\ mem.grants \in SUBSET (Users \X Projects)
    BY DocumentFields DEF TypeOK
  <1>2. ASSUME NEW u \in Users, NEW account \in Account,
               doc = WithUser(mem, u, account)
        PROVE  GrantsTargetUsers(doc)
    <2>1. /\ doc.users = [mem.users EXCEPT ![u] = account]
          /\ doc.grants = mem.grants
      BY <1>2, DocumentFields DEF WithUser, TypeOK
    <2> QED
      BY <1>1, <2>1, AccountsAssumption DEF GrantsTargetUsers
  <1>3. ASSUME NEW u \in Users, NEW password \in Passwords,
               Enrolled(u), doc = WithPassword(mem, u, password)
        PROVE  GrantsTargetUsers(doc)
    <2> DEFINE account == [role |-> mem.users[u].role, password |-> password]
    <2>1. /\ doc.users = [mem.users EXCEPT ![u] = account]
          /\ doc.grants = mem.grants
      BY <1>3, DocumentFields DEF WithPassword, TypeOK
    <2>2. mem.users[u] \in Account
      BY <1>1, <1>3 DEF Enrolled
    <2>3. account \in Account
      BY <2>2 DEF Account
    <2> HIDE DEF account
    <2> QED
      BY <1>1, <2>1, <2>3, AccountsAssumption DEF GrantsTargetUsers
  <1>4. ASSUME NEW u \in Users, NEW p \in Projects, Enrolled(u),
               doc = WithGrant(mem, u, p)
        PROVE  GrantsTargetUsers(doc)
    BY <1>4 DEF WithGrant, GrantsTargetUsers, Enrolled
  <1>5. ASSUME NEW u \in Users, doc = WithoutUser(mem, u)
        PROVE  GrantsTargetUsers(doc)
    BY <1>1, <1>5 DEF WithoutUser, GrantsTargetUsers
  <1> QED
    BY <1>2, <1>3, <1>4, <1>5 DEF Mutation

\* Every step on the store keeps the user of every grant.
LEMMA GrantsStep == TypeOK /\ NoOrphanGrant /\ StoreStep => NoOrphanGrant'
  <1> SUFFICES ASSUME TypeOK, NoOrphanGrant, StoreStep PROVE NoOrphanGrant'
    OBVIOUS
  <1>1. CASE UNCHANGED storeVars
    BY <1>1 DEF storeVars, NoOrphanGrant, GrantsTargetUsers
  <1>2. ASSUME NEW doc \in Document, NEW outcome \in Outcomes,
               Mutation(doc), Persist(doc, outcome)
        PROVE  NoOrphanGrant'
    <2>1. GrantsTargetUsers(doc)
      BY <1>2, MutationKeepsGrants DEF NoOrphanGrant
    <2>2. mem' \in {doc, Defaults} /\ disk' \in {doc, disk}
      BY <1>2 DEF Persist
    <2> QED
      BY <2>1, <2>2, DefaultsFacts DEF NoOrphanGrant, GrantsTargetUsers
  <1>3. CASE OtherHalfPersisted
    BY <1>3, DefaultsFacts DEF OtherHalfPersisted, NoOrphanGrant, GrantsTargetUsers
  <1>4. CASE Die
    BY <1>4, DefaultsFacts DEF Die, NoOrphanGrant, GrantsTargetUsers
  <1>5. CASE LoadOrSeed(disk # NoFile /\ HasUsers(disk))
    BY <1>5, DefaultsFacts DEF LoadOrSeed, NoOrphanGrant, GrantsTargetUsers
  <1> QED
    BY <1>1, <1>2, <1>3, <1>4, <1>5 DEF StoreStep

\* In every reachable state each grant's user is enrolled, in memory and in the file.
THEOREM GrantsGoWithUsers == Spec => []NoOrphanGrant
  <1>1. Init => NoOrphanGrant
    BY DefaultsFacts DEF Init, StoreInit, NoOrphanGrant, GrantsTargetUsers
  <1>2. TypeOK /\ NoOrphanGrant /\ [Next]_vars => NoOrphanGrant'
    BY StepsOnTheStore, GrantsStep
  <1> QED
    BY <1>1, <1>2, TypeCorrect, PTL DEF Spec
-----------------------------------------------------------------------------
(* What was answered is kept. *)

\* A change of u's account, persisted or not, leaves every other account as it
\* was told, and is told itself only when it is in the file.
LEMMA ChangeIsKept ==
    ASSUME TypeOK, AnsweredAccountsKept,
           NEW u \in Users, NEW doc \in Document, NEW outcome \in Outcomes,
           \A v \in Users \ {u} : doc.users[v] = mem.users[v],
           Persist(doc, outcome), Tell(u, doc, outcome)
    PROVE  AnsweredAccountsKept'
  <1> SUFFICES ASSUME NEW v \in Users, told'[v] # Unknown
               PROVE  /\ disk' # NoFile /\ disk'.users[v] = told'[v]
                      /\ up' => mem'.users[v] = told'[v]
    BY DEF AnsweredAccountsKept
  <1>1. doc # NoFile
    BY ValueAssumption
  <1>2. told \in [Users -> Account \cup {NoAccount, Unknown}]
    BY DEF TypeOK
  <1>3. CASE v = u
    BY <1>1, <1>2, <1>3 DEF Persist, Tell
  <1>4. CASE v # u
    <2>1. told'[v] = told[v]
      BY <1>2, <1>4 DEF Tell
    <2>2. /\ disk # NoFile /\ disk.users[v] = told[v]
          /\ mem.users[v] = told[v]
      BY <2>1 DEF AnsweredAccountsKept, Persist
    <2> QED
      BY <1>1, <1>4, <2>1, <2>2 DEF Persist
  <1> QED
    BY <1>3, <1>4

\* A step that changes neither the accounts nor what was told about them.
LEMMA SameAccountsKept ==
    ASSUME AnsweredAccountsKept, UNCHANGED <<mem, disk, up, told>>
    PROVE  AnsweredAccountsKept'
  BY DEF AnsweredAccountsKept

\* When an existing store file can be read, every step keeps the answered accounts.
LEMMA KeptStep ==
    ASSUME ~ReadErrors
    PROVE  TypeOK /\ HasAdmin /\ AnsweredAccountsKept /\ [Next]_vars
              => AnsweredAccountsKept'
  <1> SUFFICES ASSUME TypeOK, HasAdmin, AnsweredAccountsKept, [Next]_vars
               PROVE  AnsweredAccountsKept'
    OBVIOUS
  <1> USE DEF TypeOK
  <1>1. ASSUME NEW u \in Users, NEW password \in Passwords, Login(u, password)
        PROVE  AnsweredAccountsKept'
    BY <1>1, SameAccountsKept DEF Login
  <1>2. ASSUME NEW t \in tokens, Expire(t) PROVE AnsweredAccountsKept'
    BY <1>2, SameAccountsKept DEF Expire
  <1>3. ASSUME NEW s \in Tasks, NEW t \in tokens, NEW request \in Request,
               Admit(s, t, request)
        PROVE  AnsweredAccountsKept'
    BY <1>3, SameAccountsKept DEF Admit
  <1>4. ASSUME NEW s \in Tasks, GiveUp(s) PROVE AnsweredAccountsKept'
    BY <1>4, SameAccountsKept DEF GiveUp
  <1>5. ASSUME NEW s \in Tasks, NEW u \in Users, NEW account \in Account,
               NEW outcome \in Outcomes, EnrollUser(s, u, account, outcome)
        PROVE  AnsweredAccountsKept'
    <2> DEFINE doc == WithUser(mem, u, account)
    <2>1. doc \in Document
      BY WithUserType
    <2>2. \A v \in Users \ {u} : doc.users[v] = mem.users[v]
      BY DocumentFields DEF WithUser
    <2>3. Persist(doc, outcome) /\ Tell(u, doc, outcome)
      BY <1>5 DEF EnrollUser
    <2> HIDE DEF doc
    <2> QED
      BY <2>1, <2>2, <2>3, ChangeIsKept
  <1>6. ASSUME NEW s \in Tasks, NEW current \in Passwords, NEW new \in Passwords,
               NEW outcome \in Outcomes, ChangePassword(s, current, new, outcome)
        PROVE  AnsweredAccountsKept'
    <2> DEFINE u   == pending[s].by
               doc == WithPassword(mem, u, new)
    <2>1. u \in Users
      BY <1>6, PendingType DEF ChangePassword
    <2>2. doc \in Document
      BY <1>6, <2>1, WithPasswordType DEF ChangePassword, Enrolled
    <2>3. \A v \in Users \ {u} : doc.users[v] = mem.users[v]
      BY <2>1, DocumentFields DEF WithPassword
    <2>4. Persist(doc, outcome) /\ Tell(u, doc, outcome)
      BY <1>6 DEF ChangePassword
    <2> HIDE DEF u, doc
    <2> QED
      BY <2>1, <2>2, <2>3, <2>4, ChangeIsKept
  <1>7. ASSUME NEW s \in Tasks, NEW u \in Users, NEW outcome \in Outcomes,
               GrantAccess(s, u, outcome)
        PROVE  AnsweredAccountsKept'
    <2> DEFINE doc == WithGrant(mem, u, pending[s].project)
    <2>1. doc \in Document
      BY <1>7, PendingType, WithGrantType DEF GrantAccess
    <2>2. doc.users = mem.users
      BY DEF WithGrant
    <2>3. Persist(doc, outcome) /\ told' = told
      BY <1>7 DEF GrantAccess
    <2> HIDE DEF doc
    <2> QED
      BY <2>1, <2>2, <2>3, ValueAssumption DEF AnsweredAccountsKept, Persist
  <1>8. ASSUME NEW s \in Tasks, NEW u \in Users, GrantAgain(s, u)
        PROVE  AnsweredAccountsKept'
    BY <1>8, SameAccountsKept DEF GrantAgain
  <1>9. ASSUME NEW t \in tokens, NEW u \in Users, NEW outcome \in Outcomes,
               DeleteUser(t, u, outcome)
        PROVE  AnsweredAccountsKept'
    <2> DEFINE doc == WithoutUser(mem, u)
    <2>1. doc \in Document
      BY WithoutUserType
    <2>2. \A v \in Users \ {u} : doc.users[v] = mem.users[v]
      BY DocumentFields DEF WithoutUser
    <2>3. Persist(doc, outcome) /\ Tell(u, doc, outcome)
      BY <1>9 DEF DeleteUser
    <2> HIDE DEF doc
    <2> QED
      BY <2>1, <2>2, <2>3, ChangeIsKept
  <1>10. CASE ArtifactHandlerPersists
    <2>1. mem # NoFile
      BY ValueAssumption
    <2> QED
      BY <1>10, <2>1
      DEF ArtifactHandlerPersists, OtherHalfPersisted, AnsweredAccountsKept
  <1>11. CASE Crash
    BY <1>11 DEF Crash, Die, AnsweredAccountsKept
  <1>12. CASE Start
    <2>1. disk # NoFile => HasUsers(disk)
      BY DEF HasAdmin, AdminIn, HasUsers
    <2>2. CASE disk # NoFile
      BY <1>12, <2>1, <2>2 DEF Start, LoadOrSeed, AnsweredAccountsKept
    <2>3. CASE disk = NoFile
      BY <1>12, <2>3 DEF Start, LoadOrSeed, AnsweredAccountsKept
    <2> QED
      BY <2>2, <2>3
  <1>13. CASE UNCHANGED vars
    BY <1>13, SameAccountsKept DEF vars
  <1> QED
    BY <1>1, <1>2, <1>3, <1>4, <1>5, <1>6, <1>7, <1>8, <1>9, <1>10, <1>11, <1>12, <1>13
    DEF Next, Handler

\* If the file can always be read, an answered enrollment, deletion or password
\* change is in the file and in force until the account's next change.
THEOREM AnsweredChangesSurvive ==
    ASSUME ~ReadErrors
    PROVE  Spec => []AnsweredAccountsKept
  <1>1. Init => AnsweredAccountsKept
    BY DEF Init, AnsweredAccountsKept
  <1>2. TypeOK /\ HasAdmin /\ AnsweredAccountsKept /\ [Next]_vars
           => AnsweredAccountsKept'
    BY KeptStep
  <1> QED
    BY <1>1, <1>2, TypeCorrect, AdminRemains, PTL DEF Spec
-----------------------------------------------------------------------------
(* Answered grants are kept. *)

\* The server that runs has a file; none was told of a grant before there was one;
\* and until a persist fails, memory is the file.
MemoryIsSaved ==
    /\ up => disk # NoFile
    /\ disk = NoFile => toldGrants = {}
    /\ faults = 0 /\ up => mem = disk

GrantsKept == MemoryIsSaved /\ AnsweredGrantsKept

\* A persist keeps the answered grants, if no answer of its handler runs ahead of it.
LEMMA PersistKeepsGrants ==
    ASSUME TypeOK, GrantsKept, NEW doc \in Document, NEW outcome \in Outcomes,
           Persist(doc, outcome),
           faults = 0 /\ outcome # "failed" => toldGrants' \subseteq doc.grants
    PROVE  GrantsKept'
  <1>1. doc # NoFile /\ faults \in Nat
    BY ValueAssumption, StoreAssumption DEF TypeOK
  <1>2. disk' # NoFile
    BY <1>1 DEF Persist, GrantsKept, MemoryIsSaved
  <1>3. faults' = 0 => outcome # "failed" /\ faults = 0 /\ disk' = doc
    BY <1>1 DEF Persist
  <1>4. up' => mem' = doc
    BY DEF Persist
  <1> QED
    BY <1>2, <1>3, <1>4 DEF GrantsKept, MemoryIsSaved, AnsweredGrantsKept

\* While no persist has failed, the grants answered are among those in memory.
LEMMA ToldGrantsInForce ==
    ASSUME GrantsKept, up, faults = 0
    PROVE  toldGrants \subseteq mem.grants
  BY DEF GrantsKept, MemoryIsSaved, AnsweredGrantsKept

\* A step that changes neither the store nor what was told about grants.
LEMMA SameGrantsKept ==
    ASSUME GrantsKept, UNCHANGED <<mem, disk, up, faults, toldGrants>>
    PROVE  GrantsKept'
  BY DEF GrantsKept, MemoryIsSaved, AnsweredGrantsKept

\* When an existing store file can be read, every step keeps the answered grants.
LEMMA GrantsKeptStep ==
    ASSUME ~ReadErrors
    PROVE  TypeOK /\ HasAdmin /\ GrantsKept /\ [Next]_vars => GrantsKept'
  <1> SUFFICES ASSUME TypeOK, HasAdmin, GrantsKept, [Next]_vars PROVE GrantsKept'
    OBVIOUS
  <1> USE DEF TypeOK
  <1>1. ASSUME NEW u \in Users, NEW password \in Passwords, Login(u, password)
        PROVE  GrantsKept'
    BY <1>1, SameGrantsKept DEF Login
  <1>2. ASSUME NEW t \in tokens, Expire(t) PROVE GrantsKept'
    BY <1>2, SameGrantsKept DEF Expire
  <1>3. ASSUME NEW s \in Tasks, NEW t \in tokens, NEW request \in Request,
               Admit(s, t, request)
        PROVE  GrantsKept'
    BY <1>3, SameGrantsKept DEF Admit
  <1>4. ASSUME NEW s \in Tasks, GiveUp(s) PROVE GrantsKept'
    BY <1>4, SameGrantsKept DEF GiveUp
  <1>5. ASSUME NEW s \in Tasks, NEW u \in Users, NEW account \in Account,
               NEW outcome \in Outcomes, EnrollUser(s, u, account, outcome)
        PROVE  GrantsKept'
    <2> DEFINE doc == WithUser(mem, u, account)
    <2>1. doc \in Document
      BY WithUserType
    <2>2. doc.grants = mem.grants
      BY DocumentFields DEF WithUser
    <2>3. Persist(doc, outcome) /\ toldGrants' = toldGrants /\ up
      BY <1>5 DEF EnrollUser, Persist
    <2> HIDE DEF doc
    <2> QED
      BY <2>1, <2>2, <2>3, ToldGrantsInForce, PersistKeepsGrants
  <1>6. ASSUME NEW s \in Tasks, NEW current \in Passwords, NEW new \in Passwords,
               NEW outcome \in Outcomes, ChangePassword(s, current, new, outcome)
        PROVE  GrantsKept'
    <2> DEFINE u   == pending[s].by
               doc == WithPassword(mem, u, new)
    <2>1. u \in Users
      BY <1>6, PendingType DEF ChangePassword
    <2>2. doc \in Document
      BY <1>6, <2>1, WithPasswordType DEF ChangePassword, Enrolled
    <2>3. doc.grants = mem.grants
      BY <2>1, DocumentFields DEF WithPassword
    <2>4. Persist(doc, outcome) /\ toldGrants' = toldGrants /\ up
      BY <1>6 DEF ChangePassword, Persist
    <2> HIDE DEF u, doc
    <2> QED
      BY <2>2, <2>3, <2>4, ToldGrantsInForce, PersistKeepsGrants
  <1>7. ASSUME NEW s \in Tasks, NEW u \in Users, NEW outcome \in Outcomes,
               GrantAccess(s, u, outcome)
        PROVE  GrantsKept'
    <2> DEFINE p   == pending[s].project
               doc == WithGrant(mem, u, p)
    <2>1. doc \in Document
      BY <1>7, PendingType, WithGrantType DEF GrantAccess
    <2>2. doc.grants = mem.grants \cup {<<u, p>>}
      BY DEF WithGrant
    <2>3. Persist(doc, outcome) /\ toldGrants' \subseteq toldGrants \cup {<<u, p>>} /\ up
      BY <1>7 DEF GrantAccess, Persist
    <2> HIDE DEF p, doc
    <2> QED
      BY <2>1, <2>2, <2>3, ToldGrantsInForce, PersistKeepsGrants
  <1>8. ASSUME NEW s \in Tasks, NEW u \in Users, GrantAgain(s, u) PROVE GrantsKept'
    <2>1. up /\ UNCHANGED <<mem, disk, up, faults>>
      BY <1>8 DEF GrantAgain
    <2>2. faults = 0 => toldGrants' \subseteq mem.grants
      BY <1>8, <2>1, ToldGrantsInForce DEF GrantAgain
    <2> QED
      BY <2>1, <2>2 DEF GrantsKept, MemoryIsSaved, AnsweredGrantsKept
  <1>9. ASSUME NEW t \in tokens, NEW u \in Users, NEW outcome \in Outcomes,
               DeleteUser(t, u, outcome)
        PROVE  GrantsKept'
    <2> DEFINE doc == WithoutUser(mem, u)
    <2>1. doc \in Document
      BY WithoutUserType
    <2>2. doc.grants = {g \in mem.grants : g[1] # u}
      BY DEF WithoutUser
    <2>3. Persist(doc, outcome) /\ toldGrants' = {g \in toldGrants : g[1] # u} /\ up
      BY <1>9 DEF DeleteUser, Persist
    <2> HIDE DEF doc
    <2> QED
      BY <2>1, <2>2, <2>3, ToldGrantsInForce, PersistKeepsGrants
  <1>10. CASE ArtifactHandlerPersists
    <2>1. mem # NoFile
      BY ValueAssumption
    <2> QED
      BY <1>10, <2>1, ToldGrantsInForce
      DEF ArtifactHandlerPersists, OtherHalfPersisted,
          GrantsKept, MemoryIsSaved, AnsweredGrantsKept
  <1>11. CASE Crash
    BY <1>11 DEF Crash, Die, GrantsKept, MemoryIsSaved, AnsweredGrantsKept
  <1>12. CASE Start
    <2>1. disk # NoFile => HasUsers(disk)
      BY DEF HasAdmin, AdminIn, HasUsers
    <2>2. disk' = mem' /\ disk' # NoFile /\ (disk # NoFile => disk' = disk)
      BY <1>12, <2>1, StoreAssumption DEF Start, LoadOrSeed
    <2>3. toldGrants' = toldGrants /\ faults' = faults
      BY <1>12 DEF Start, LoadOrSeed
    <2> QED
      BY <2>2, <2>3 DEF GrantsKept, MemoryIsSaved, AnsweredGrantsKept
  <1>13. CASE UNCHANGED vars
    BY <1>13, SameGrantsKept DEF vars
  <1> QED
    BY <1>1, <1>2, <1>3, <1>4, <1>5, <1>6, <1>7, <1>8, <1>9, <1>10, <1>11, <1>12, <1>13
    DEF Next, Handler

\* If the file can always be read, then until a persist fails every grant that was
\* answered 204 is in the file, unless its user was deleted since: no answer runs
\* ahead of the file, whatever waits, crashes and restarts.
THEOREM AnsweredGrantsSurvive ==
    ASSUME ~ReadErrors
    PROVE  Spec => []AnsweredGrantsKept
  <1>1. Init => GrantsKept
    BY DEF Init, StoreInit, GrantsKept, MemoryIsSaved, AnsweredGrantsKept
  <1>2. TypeOK /\ HasAdmin /\ GrantsKept /\ [Next]_vars => GrantsKept'
    BY GrantsKeptStep
  <1>3. GrantsKept => AnsweredGrantsKept
    BY DEF GrantsKept
  <1> QED
    BY <1>1, <1>2, <1>3, TypeCorrect, AdminRemains, PTL DEF Spec
-----------------------------------------------------------------------------
(* The account book. *)

\* A mutation that is persisted, fails or dies is a step of the account book.
LEMMA MutationIsABookStep ==
    ASSUME TypeOK, NEW doc \in Document, NEW outcome \in Outcomes,
           Mutation(doc), Persist(doc, outcome)
    PROVE  Book!Next
  <1>1. /\ mem = [users |-> mem.users, grants |-> mem.grants]
        /\ doc = [users |-> doc.users, grants |-> doc.grants]
    BY DocumentFields DEF TypeOK
  <1>2. doc # NoFile
    BY ValueAssumption
  <1> DEFINE book   == IF up THEN mem ELSE SavedDocument
             after  == IF up' THEN mem' ELSE SavedDocument'
  <1>3. book = mem /\ after = doc /\ SavedDocument' \in {SavedDocument, doc}
    BY <1>2 DEF Persist, SavedDocument
  <1>4. ASSUME doc = [users |-> doc.users, grants |-> doc.grants]
        PROVE  Book!Become(doc.users, doc.grants)
    BY <1>3, <1>4 DEF Book!Become
  <1>5. ASSUME NEW u \in Users, NEW account \in Account,
               ~Enrolled(u), doc = WithUser(mem, u, account)
        PROVE  Book!Next
    <2>1. /\ doc.users = [mem.users EXCEPT ![u] = account]
          /\ doc.grants = mem.grants
      BY <1>5, <1>1 DEF WithUser
    <2>2. Book!Enroll(u, account)
      BY <1>1, <1>3, <1>4, <1>5, <2>1 DEF Book!Enroll, Book!Has, Enrolled
    <2> QED
      BY <2>2 DEF Book!Next, Book!Accounts, Account, Roles
  <1>6. ASSUME NEW u \in Users, NEW password \in Passwords,
               Enrolled(u), doc = WithPassword(mem, u, password)
        PROVE  Book!Next
    <2>1. /\ doc.users = [mem.users EXCEPT ![u] =
                             [role |-> mem.users[u].role, password |-> password]]
          /\ doc.grants = mem.grants
      BY <1>6, <1>1 DEF WithPassword
    <2>2. Book!SetPassword(u, password)
      BY <1>1, <1>3, <1>4, <1>6, <2>1 DEF Book!SetPassword, Book!Has, Enrolled
    <2> QED
      BY <2>2 DEF Book!Next
  <1>7. ASSUME NEW u \in Users, NEW p \in Projects, Enrolled(u),
               doc = WithGrant(mem, u, p)
        PROVE  Book!Next
    <2>1. Book!Grant(u, p)
      BY <1>1, <1>3, <1>4, <1>7 DEF Book!Grant, Book!Has, Enrolled, WithGrant
    <2> QED
      BY <2>1 DEF Book!Next
  <1>8. ASSUME NEW u \in Users, NEW v \in Users,
               Enrolled(u), IsAdmin(v), v # u, doc = WithoutUser(mem, u)
        PROVE  Book!Next
    <2>1. Book!Delete(u)
      BY <1>1, <1>3, <1>4, <1>8
      DEF Book!Delete, Book!Has, Enrolled, IsAdmin, WithoutUser
    <2> QED
      BY <2>1 DEF Book!Next
  <1> QED
    BY <1>5, <1>6, <1>7, <1>8 DEF Mutation

\* Every step of the server is a step of the account book, or a stutter.
LEMMA BookStep ==
    ASSUME ~ReadErrors
    PROVE  TypeOK /\ HasAdmin /\ StoreStep => [Book!Next]_(Book!bookVars)
  <1> SUFFICES ASSUME TypeOK, HasAdmin, StoreStep
               PROVE  [Book!Next]_(Book!bookVars)
    OBVIOUS
  <1>1. CASE UNCHANGED storeVars
    BY <1>1 DEF storeVars, Book!bookVars, SavedDocument
  <1>2. ASSUME NEW doc \in Document, NEW outcome \in Outcomes,
               Mutation(doc), Persist(doc, outcome)
        PROVE  Book!Next
    BY <1>2, MutationIsABookStep
  <1>3. CASE OtherHalfPersisted
    <2>1. mem # NoFile
      BY ValueAssumption DEF TypeOK
    <2> QED
      BY <1>3, <2>1
      DEF OtherHalfPersisted, Book!Next, Book!Save, SavedDocument
  <1>4. CASE Die
    BY <1>4 DEF Die, Book!Next, Book!FallBack, SavedDocument
  <1>5. CASE LoadOrSeed(disk # NoFile /\ HasUsers(disk))
    <2>1. disk # NoFile => HasUsers(disk)
      BY DEF HasAdmin, AdminIn, HasUsers
    <2> QED
      BY <1>5, <2>1, StoreAssumption DEF LoadOrSeed, Book!bookVars, SavedDocument
  <1> QED
    BY <1>1, <1>2, <1>3, <1>4, <1>5 DEF StoreStep

\* If the file can always be read, the account half of the server implements the
\* account book.
THEOREM ServerImplementsBook ==
    ASSUME ~ReadErrors
    PROVE  Spec => ImplementsBook
  <1>1. Init => Book!Init
    BY AccountsAssumption DEF Init, StoreInit, Book!Init, SavedDocument
  <1>2. TypeOK /\ HasAdmin /\ [Next]_vars => [Book!Next]_(Book!bookVars)
    BY StepsOnTheStore, BookStep
  <1> QED
    BY <1>1, <1>2, TypeCorrect, AdminRemains, PTL DEF Spec, Book!Spec, ImplementsBook
=============================================================================
