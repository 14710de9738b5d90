---------------------------- MODULE ServerProofs ----------------------------
(***************************************************************************)
(* Proofs about Server: seen through the account half of the document it   *)
(* implements Accounts, whatever the artifact requests do to the other     *)
(* half, for any constants.                                                *)
(***************************************************************************)
EXTENDS Server, TLAPS

\* What a persist of an artifact request does to the process.
LEMMA IndexPersists ==
    ASSUME NEW outcome \in A!Outcomes,
           \/ R!AddArtifact(outcome) \/ R!RemoveArtifact(outcome) \/ R!RemoveVersion(outcome)
    PROVE  up /\ up' = (outcome # "died")
  BY DEF R!AddArtifact, R!RemoveArtifact, R!RemoveVersion, R!PersistIndex, R!Persist

\* The steps of the artifact requests that leave the document alone leave the process
\* alone as well.
LEMMA TreeSteps ==
    BeginArtifacts \/ ContinueArtifacts => UNCHANGED <<accountVars, up>>
  <1>1. BeginArtifacts => UNCHANGED <<accountVars, up>>
    BY DEF BeginArtifacts, R!OpenForUpload, R!Unlink, R!BeginRmtree
  <1>2. ContinueArtifacts => UNCHANGED <<accountVars, up>>
    BY DEF ContinueArtifacts, R!CopyDone, R!CopyFails, R!RemoveNoArtifact, R!SyncDone,
           R!RmtreeFails, R!RmtreeDone, R!RemoveNoVersion, R!RmtreeEntry
  <1> QED
    BY <1>1, <1>2

\* Where the account half is concerned, an artifact request persists it or fails.
LEMMA IndexPersistIsAStep ==
    ASSUME up \in BOOLEAN, NEW outcome \in A!Outcomes, up, up' = (outcome # "died"),
           BookPersisted(outcome)
    PROVE  [A!Next]_(A!vars)
  <1>1. CASE outcome = "failed"
    BY <1>1 DEF BookPersisted, A!vars
  <1>2. CASE outcome # "failed"
    <2>1. A!ArtifactHandlerPersists
      BY <1>2 DEF BookPersisted, A!ArtifactHandlerPersists, A!OtherHalfPersisted, A!Outcomes
    <2> QED
      BY <2>1 DEF A!Next
  <1> QED
    BY <1>1, <1>2

\* Every step of the server is a step of Accounts or leaves its half alone.
LEMMA AccountsStep == up \in BOOLEAN /\ [Next]_vars => [A!Next]_(A!vars)
  <1> SUFFICES ASSUME up \in BOOLEAN, [Next]_vars PROVE [A!Next]_(A!vars)
    OBVIOUS
  <1>1. CASE AccountRequest
    BY <1>1 DEF AccountRequest, A!Next, A!Handler
  <1>2. ASSUME NEW outcome \in A!Outcomes, ChangeAccounts(outcome)
        PROVE  [A!Next]_(A!vars)
    BY <1>2 DEF ChangeAccounts, AccountChange, A!Next, A!Handler
  <1>3. ASSUME NEW outcome \in A!Outcomes, ChangeIndex(outcome)
        PROVE  [A!Next]_(A!vars)
    BY <1>3, IndexPersists, IndexPersistIsAStep DEF ChangeIndex
  <1>4. ASSUME NEW s \in Tasks, NEW t \in tokens, AdmitUpload(s, t)
        PROVE  [A!Next]_(A!vars)
    BY <1>4 DEF AdmitUpload, accountVars, A!vars
  <1>5. ASSUME NEW s \in Tasks, GiveUpUpload(s) PROVE [A!Next]_(A!vars)
    BY <1>5 DEF GiveUpUpload, accountVars, A!vars
  <1>6. CASE BeginArtifacts \/ ContinueArtifacts
    BY <1>6, TreeSteps DEF accountVars, A!vars
  <1>7. ASSUME NEW v \in Versions, NEW p \in Paths, SyncFile(v, p)
        PROVE  [A!Next]_(A!vars)
    <2>1. "saved" \in A!Outcomes
      BY DEF A!Outcomes
    <2>2. up /\ up' = ("saved" # "died") /\ BookPersisted("saved")
      BY <1>7 DEF SyncFile, R!SyncFile, R!PersistIndex, R!Persist
    <2> QED
      BY <2>1, <2>2, IndexPersistIsAStep
  <1>8. ASSUME NEW t \in tokens, Expire(t) PROVE [A!Next]_(A!vars)
    BY <1>8 DEF Expire, A!Next, A!Handler
  <1>9. CASE Crash
    BY <1>9 DEF Crash, A!Next
  <1>10. CASE Start
    <2>1. A!Start
      BY <1>10 DEF Start, Load, Seed, A!Start, A!LoadOrSeed
    <2> QED
      BY <2>1 DEF A!Next
  <1>11. CASE UNCHANGED vars
    BY <1>11 DEF vars, accountVars, A!vars
  <1> QED
    BY <1>1, <1>2, <1>3, <1>4, <1>5, <1>6, <1>7, <1>8, <1>9, <1>10, <1>11 DEF Next

\* Whether the process is up stays a truth value.
LEMMA UpStep == up \in BOOLEAN /\ [Next]_vars => (up \in BOOLEAN)'
  <1> SUFFICES ASSUME up \in BOOLEAN, [Next]_vars PROVE up' \in BOOLEAN
    OBVIOUS
  <1>1. CASE AccountRequest
    BY <1>1 DEF AccountRequest, A!Login, A!Admit, A!GiveUp, A!GrantAgain
  <1>2. ASSUME NEW outcome \in A!Outcomes, ChangeAccounts(outcome) PROVE up' \in BOOLEAN
    BY <1>2 DEF ChangeAccounts, AccountChange, A!EnrollUser, A!ChangePassword,
                A!GrantAccess, A!DeleteUser, A!Persist
  <1>3. ASSUME NEW outcome \in A!Outcomes, ChangeIndex(outcome) PROVE up' \in BOOLEAN
    BY <1>3, IndexPersists DEF ChangeIndex
  <1>4. CASE \/ \E s \in Tasks, t \in tokens : AdmitUpload(s, t)
             \/ \E s \in Tasks : GiveUpUpload(s)
             \/ BeginArtifacts \/ ContinueArtifacts
    BY <1>4, TreeSteps DEF AdmitUpload, GiveUpUpload
  <1>5. ASSUME NEW v \in Versions, NEW p \in Paths, SyncFile(v, p) PROVE up' \in BOOLEAN
    BY <1>5 DEF SyncFile, R!SyncFile, R!PersistIndex, R!Persist
  <1>6. CASE \/ \E t \in tokens : Expire(t)
             \/ Crash \/ Start \/ UNCHANGED vars
    BY <1>6 DEF Expire, A!Expire, Crash, A!Crash, A!Die, Start, vars
  <1> QED
    BY <1>1, <1>2, <1>3, <1>4, <1>5, <1>6 DEF Next

\* What Accounts specifies is what the server does to users, grants and tokens: its
\* artifact requests, their failing writes and the one file are no more than Accounts
\* already allows.
THEOREM ServerServesAccounts == Spec => ServesAccounts
  <1>1. Init => A!Init
    BY DEF Init
  <1>2. Init => up \in BOOLEAN
    BY DEF Init, A!Init, A!StoreInit
  <1> QED
    BY <1>1, <1>2, UpStep, AccountsStep, PTL DEF Spec, ServesAccounts, A!Spec
-----------------------------------------------------------------------------
(* The theorems about the two halves, for the variables of the server. *)

AP == INSTANCE AccountsProofs WITH
        Defaults <- NewBook, mem <- book, disk <- bookFile, told <- toldAccounts

RP == INSTANCE ArtifactsProofs WITH
        Defaults <- NewIndex, mem <- index, disk <- indexFile,
        faults <- writeFaults, told <- toldFiles

\* The constants of the server are constants for the theorems about Accounts.
LEMMA AccountsAssumed ==
    AP!StoreAssumption /\ AP!AccountsAssumption /\ AP!ValueAssumption
  <1>1. AP!StoreAssumption
    BY ServerAssumption DEF A!StoreAssumption, AP!StoreAssumption
  <1>2. AP!AccountsAssumption
    BY ServerAssumption
    DEF A!AccountsAssumption, AP!AccountsAssumption, A!Account, AP!Account, A!Roles, AP!Roles
  <1>3. AP!ValueAssumption
    BY ServerAssumption
    DEF A!ValueAssumption, AP!ValueAssumption, A!Request, AP!Request,
        A!Document, AP!Document, A!Account, AP!Account, A!Roles, AP!Roles
  <1> QED
    BY <1>1, <1>2, <1>3

\* They are constants for the theorems about Artifacts as well.
LEMMA ArtifactsAssumed ==
    RP!StoreAssumption /\ RP!ArtifactsAssumption /\ RP!IndexAssumption
  <1>1. RP!StoreAssumption
    BY ServerAssumption DEF R!StoreAssumption, RP!StoreAssumption
  <1>2. RP!ArtifactsAssumption
    BY ServerAssumption
    DEF R!ArtifactsAssumption, RP!ArtifactsAssumption, R!Stamps, RP!Stamps
  <1>3. RP!IndexAssumption
    BY ServerAssumption
    DEF R!IndexAssumption, RP!IndexAssumption, R!Index, RP!Index, R!Job, RP!Job,
        R!Stamps, RP!Stamps
  <1> QED
    BY <1>1, <1>2, <1>3

\* The theorems about Accounts are about the specification that Server instantiates.
LEMMA SameAccounts ==
    /\ A!Init <=> AP!Init
    /\ [A!Next]_(A!vars) <=> [AP!Next]_(AP!vars)
  <1>1. A!Init <=> AP!Init
    BY DEF A!Init, AP!Init, A!StoreInit, AP!StoreInit, A!NoRequests, AP!NoRequests
  <1>2. A!Next <=> AP!Next
    BY DEF A!Next, AP!Next,
        A!StoreInit, AP!StoreInit, A!NoRequests, AP!NoRequests, A!Handler,
        AP!Handler, A!ArtifactHandlerPersists, AP!ArtifactHandlerPersists,
        A!OtherHalfPersisted, AP!OtherHalfPersisted, A!Crash, AP!Crash, A!Die,
        AP!Die, A!Start, AP!Start, A!LoadOrSeed, AP!LoadOrSeed, A!HasUsers,
        AP!HasUsers, A!Login, AP!Login, A!Enrolled, AP!Enrolled, A!Expire,
        AP!Expire, A!Admit, AP!Admit, A!RequireUser, AP!RequireUser, A!RequireAdmin,
        AP!RequireAdmin, A!IsAdmin, AP!IsAdmin, A!GiveUp, AP!GiveUp, A!EnrollUser,
        AP!EnrollUser, A!WithUser, AP!WithUser, A!Persist, AP!Persist, A!Tell,
        AP!Tell, A!Finish, AP!Finish, A!ChangePassword, AP!ChangePassword,
        A!WithPassword, AP!WithPassword, A!GrantAccess, AP!GrantAccess, A!WithGrant,
        AP!WithGrant, A!GrantAgain, AP!GrantAgain, A!DeleteUser, AP!DeleteUser,
        A!WithoutUser, AP!WithoutUser, A!Account, AP!Account, A!Roles, AP!Roles,
        A!Request, AP!Request, A!Outcomes, AP!Outcomes
  <1> QED
    BY <1>1, <1>2 DEF A!vars, AP!vars

\* So are those about Artifacts.
LEMMA SameArtifacts ==
    /\ R!Init <=> RP!Init
    /\ [R!Next]_(R!vars) <=> [RP!Next]_(RP!vars)
  <1>1. R!Init <=> RP!Init
    BY DEF R!Init, RP!Init, R!StoreInit, RP!StoreInit, R!Blocked, RP!Blocked, R!Above, RP!Above
  <1>2. R!Next <=> RP!Next
    BY DEF R!Next, RP!Next,
        R!StoreInit, RP!StoreInit, R!Above, RP!Above, R!Blocked, RP!Blocked,
        R!Serving, RP!Serving, R!Runs, RP!Runs, R!Unsettle, RP!Unsettle, R!Answer,
        RP!Answer, R!NoteUnwritten, RP!NoteUnwritten, R!PersistIndex, RP!PersistIndex,
        R!WithRow, RP!WithRow, R!OpenForUpload, RP!OpenForUpload,
        R!CopyDone, RP!CopyDone, R!CopyFails, RP!CopyFails, R!AddArtifact,
        RP!AddArtifact, R!Unlink, RP!Unlink, R!RemoveArtifact, RP!RemoveArtifact,
        R!RemoveNoArtifact, RP!RemoveNoArtifact, R!BeginRmtree, RP!BeginRmtree,
        R!RmtreeEntry, RP!RmtreeEntry, R!RmtreeFails, RP!RmtreeFails, R!RmtreeDone,
        RP!RmtreeDone, R!NoRows, RP!NoRows, R!RemoveVersion, RP!RemoveVersion,
        R!RemoveNoVersion, RP!RemoveNoVersion, R!Start, RP!Start, R!LoadOrSeed,
        RP!LoadOrSeed, R!Unindexed, RP!Unindexed, R!SyncFile, RP!SyncFile,
        R!SyncDone, RP!SyncDone, R!Crash, RP!Crash, R!Die, RP!Die,
        R!AccountHandlerPersists, RP!AccountHandlerPersists, R!OtherHalfPersisted,
        RP!OtherHalfPersisted, R!Persist, RP!Persist, R!Continue, RP!Continue,
        R!Begin, RP!Begin, R!treeVars, RP!treeVars, R!Outcomes, RP!Outcomes
  <1> QED
    BY <1>1, <1>2 DEF R!vars, RP!vars

\* The server does what the theorems about Accounts suppose.
LEMMA ServerDoesAccounts == Spec => AP!Spec
  <1>1. A!Init => AP!Init
    BY SameAccounts
  <1>2. [A!Next]_(A!vars) => [AP!Next]_(AP!vars)
    BY SameAccounts
  <1> QED
    BY <1>1, <1>2, ServerServesAccounts, PTL DEF ServesAccounts, A!Spec, AP!Spec

\* The types of the account half hold of the server, and an Admin remains.
LEMMA ServerHasAdmin == Spec => [](AP!TypeOK /\ AP!HasAdmin)
  <1>1. AP!Spec => []AP!TypeOK
    BY AccountsAssumed, AP!TypeCorrect
  <1>2. AP!Spec => []AP!HasAdmin
    BY AccountsAssumed, AP!AdminRemains
  <1> QED
    BY <1>1, <1>2, ServerDoesAccounts, PTL
-----------------------------------------------------------------------------
(* The artifact half. *)

\* The two halves are in one file, and a server that runs has written it.
HalvesAgree ==
    /\ bookFile = NoFile <=> indexFile = NoFile
    /\ up => bookFile # NoFile

\* A request on accounts that leaves the document alone leaves the process alone.
LEMMA RequestsLeaveTheProcess ==
    AccountRequest => UNCHANGED <<artifactVars, up>>
  BY DEF AccountRequest, A!Login, A!Admit, A!GiveUp, A!GrantAgain

\* A change of an account is, for the artifact half, a persist by the other half when it
\* reaches the file, and nothing when it does not.
LEMMA BookPersistIsAStep ==
    ASSUME up \in BOOLEAN, NEW outcome \in A!Outcomes, ChangeAccounts(outcome)
    PROVE  [R!Next]_(R!vars)
  <1>1. up /\ up' = (outcome # "died") /\ running = Idle
    BY DEF ChangeAccounts, AccountChange, Serving, A!EnrollUser, A!ChangePassword,
           A!GrantAccess, A!DeleteUser, A!Persist
  <1>2. CASE outcome = "failed"
    BY <1>1, <1>2 DEF ChangeAccounts, IndexPersisted, R!vars
  <1>3. CASE outcome # "failed"
    <2>1. R!AccountHandlerPersists
      BY <1>1, <1>3
      DEF ChangeAccounts, IndexPersisted, R!AccountHandlerPersists, R!OtherHalfPersisted,
          R!NoteUnwritten, A!Outcomes
    <2> QED
      BY <2>1 DEF R!Next
  <1> QED
    BY <1>2, <1>3

\* A file with an Admin has users, so the server loads the index when Artifacts would.
LEMMA ServerStartIsAStep ==
    ASSUME AP!HasAdmin, HalvesAgree, Start
    PROVE  R!Start
  <1>1. bookFile # NoFile => A!HasUsers(bookFile)
    BY DEF AP!HasAdmin, AP!AdminIn, A!HasUsers
  <1> QED
    BY <1>1 DEF HalvesAgree, Start, Load, Seed, R!Start, R!LoadOrSeed

\* Every step of the server is a step of Artifacts or leaves its half alone.
LEMMA ArtifactsStep ==
    AP!TypeOK /\ AP!HasAdmin /\ HalvesAgree /\ [Next]_vars => [R!Next]_(R!vars)
  <1> SUFFICES ASSUME AP!TypeOK, AP!HasAdmin, HalvesAgree, [Next]_vars
               PROVE  [R!Next]_(R!vars)
    OBVIOUS
  <1>1. CASE AccountRequest
    BY <1>1, RequestsLeaveTheProcess DEF artifactVars, R!vars
  <1>2. ASSUME NEW outcome \in A!Outcomes, ChangeAccounts(outcome)
        PROVE  [R!Next]_(R!vars)
    BY <1>2, BookPersistIsAStep DEF AP!TypeOK
  <1>3. ASSUME NEW outcome \in A!Outcomes, ChangeIndex(outcome)
        PROVE  [R!Next]_(R!vars)
    BY <1>3 DEF ChangeIndex, R!Next, R!Continue, A!Outcomes, R!Outcomes
  <1>4. ASSUME NEW s \in Tasks, NEW t \in tokens, AdmitUpload(s, t)
        PROVE  [R!Next]_(R!vars)
    BY <1>4 DEF AdmitUpload, artifactVars, R!vars
  <1>5. ASSUME NEW s \in Tasks, GiveUpUpload(s) PROVE [R!Next]_(R!vars)
    BY <1>5 DEF GiveUpUpload, artifactVars, R!vars
  <1>6. CASE BeginArtifacts
    BY <1>6 DEF BeginArtifacts, R!Next, R!Begin
  <1>7. CASE ContinueArtifacts
    BY <1>7 DEF ContinueArtifacts, R!Next, R!Continue
  <1>8. ASSUME NEW v \in Versions, NEW p \in Paths, SyncFile(v, p)
        PROVE  [R!Next]_(R!vars)
    BY <1>8 DEF SyncFile, R!Next, R!Continue
  <1>9. ASSUME NEW t \in tokens, Expire(t) PROVE [R!Next]_(R!vars)
    BY <1>9 DEF Expire, A!Expire, artifactVars, R!vars
  <1>10. CASE Crash
    BY <1>10 DEF Crash, R!Next
  <1>11. CASE Start
    BY <1>11, ServerStartIsAStep DEF R!Next
  <1>12. CASE UNCHANGED vars
    BY <1>12 DEF vars, artifactVars, R!vars
  <1> QED
    BY <1>1, <1>2, <1>3, <1>4, <1>5, <1>6, <1>7, <1>8, <1>9, <1>10, <1>11, <1>12 DEF Next

\* A server that is down changes its file only by seeding it.
LEMMA DownSteps ==
    ASSUME ~up, [Next]_vars
    PROVE  \/ UNCHANGED <<bookFile, indexFile, up>>
           \/ Start
  <1>1. ~AccountRequest
    BY DEF AccountRequest, Serving
  <1>2. ASSUME NEW outcome \in A!Outcomes
        PROVE  ~ChangeAccounts(outcome) /\ ~ChangeIndex(outcome)
    BY IndexPersists DEF ChangeAccounts, Serving, ChangeIndex
  <1>3. ASSUME NEW s \in Tasks PROVE ~GiveUpUpload(s) /\ \A t \in tokens : ~AdmitUpload(s, t)
    BY DEF GiveUpUpload, AdmitUpload, Serving
  <1>4. ~BeginArtifacts
    BY DEF BeginArtifacts, R!OpenForUpload, R!Unlink, R!BeginRmtree, R!Serving
  <1>5. ~ContinueArtifacts
    BY DEF ContinueArtifacts, R!CopyDone, R!CopyFails, R!RemoveNoArtifact, R!SyncDone,
           R!RmtreeFails, R!RmtreeDone, R!RemoveNoVersion, R!RmtreeEntry, R!Runs
  <1>6. ASSUME NEW v \in Versions, NEW p \in Paths PROVE ~SyncFile(v, p)
    BY DEF SyncFile, R!SyncFile, R!Runs
  <1>7. ~Crash
    BY DEF Crash, A!Crash, A!Die
  <1>8. ASSUME NEW t \in tokens, Expire(t) PROVE UNCHANGED <<bookFile, indexFile, up>>
    BY <1>8 DEF Expire, A!Expire, artifactVars
  <1>9. CASE UNCHANGED vars
    BY <1>9 DEF vars, accountVars, artifactVars
  <1> QED
    BY <1>1, <1>2, <1>3, <1>4, <1>5, <1>6, <1>7, <1>8, <1>9 DEF Next

\* Every step keeps the two halves in one file.
LEMMA HalvesStep ==
    AP!TypeOK /\ AP!HasAdmin /\ RP!Sound /\ HalvesAgree /\ [Next]_vars => HalvesAgree'
  <1> SUFFICES ASSUME AP!TypeOK, AP!HasAdmin, RP!Sound, HalvesAgree, [Next]_vars
               PROVE  HalvesAgree'
    OBVIOUS
  <1>1. CASE bookFile # NoFile
    <2>1. [AP!Next]_(AP!vars)
      BY AccountsStep, SameAccounts DEF AP!TypeOK
    <2>2. bookFile' # NoFile
      BY <1>1, <2>1, AccountsAssumed, AP!FileStays
    <2>3. [RP!Next]_(RP!vars)
      BY ArtifactsStep, SameArtifacts
    <2>4. indexFile' # NoFile
      BY <1>1, <2>3, ArtifactsAssumed, RP!FileStays DEF HalvesAgree
    <2> QED
      BY <2>2, <2>4 DEF HalvesAgree
  <1>2. CASE bookFile = NoFile
    <2>1. ~up /\ indexFile = NoFile
      BY <1>2 DEF HalvesAgree
    <2>2. CASE Start
      <3>1. bookFile' = NewBook /\ indexFile' = NewIndex
        BY <1>2, <2>2 DEF Start, Load, Seed
      <3>2. NewBook # NoFile /\ NewIndex # NoFile
        BY ServerAssumption DEF A!StoreAssumption, R!StoreAssumption
      <3> QED
        BY <3>1, <3>2 DEF HalvesAgree
    <2>3. CASE UNCHANGED <<bookFile, indexFile, up>>
      BY <2>3 DEF HalvesAgree
    <2> QED
      BY <2>1, <2>2, <2>3, DownSteps
  <1> QED
    BY <1>1, <1>2

\* The two halves stay in one file, and the invariant of Artifacts holds of the server.
LEMMA ServerIsSound == Spec => [](RP!Sound /\ HalvesAgree)
  <1>1. Init => RP!Sound
    <2>1. R!Init => RP!Init
      BY SameArtifacts
    <2>2. RP!Init => RP!Sound
      BY ArtifactsAssumed, RP!SoundInit
    <2> QED
      BY <2>1, <2>2 DEF Init
  <1>2. Init => HalvesAgree
    BY DEF Init, A!Init, A!StoreInit, R!Init, R!StoreInit, HalvesAgree
  <1>3. AP!TypeOK /\ AP!HasAdmin /\ RP!Sound /\ HalvesAgree /\ [Next]_vars => RP!Sound'
    <2>1. AP!TypeOK /\ AP!HasAdmin /\ HalvesAgree /\ [Next]_vars => [RP!Next]_(RP!vars)
      BY ArtifactsStep, SameArtifacts
    <2>2. RP!Sound /\ [RP!Next]_(RP!vars) => RP!Sound'
      BY ArtifactsAssumed, RP!SoundStep
    <2> QED
      BY <2>1, <2>2
  <1> QED
    BY <1>1, <1>2, <1>3, HalvesStep, ServerHasAdmin, PTL DEF Spec

\* What Artifacts specifies is what the server does to the tree and its index: no
\* request on an account falls into the middle of an upload or a deletion, no failing
\* persist of one loses the index, and a start keeps or seeds both halves.
THEOREM ServerServesArtifacts == Spec => ServesArtifacts
  <1>1. Init => R!Init
    BY DEF Init
  <1> QED
    BY <1>1, ArtifactsStep, ServerHasAdmin, ServerIsSound, PTL
    DEF Spec, ServesArtifacts, R!Spec
-----------------------------------------------------------------------------
(* What the halves promise holds of the whole. *)

\* The server does what the theorems about Artifacts suppose.
LEMMA ServerDoesArtifacts == Spec => RP!Spec
  <1>1. R!Init => RP!Init
    BY SameArtifacts
  <1>2. [R!Next]_(R!vars) => [RP!Next]_(RP!vars)
    BY SameArtifacts
  <1> QED
    BY <1>1, <1>2, ServerServesArtifacts, PTL DEF ServesArtifacts, R!Spec, RP!Spec

\* In one process, whatever uploads, deletions and failing writes do next to them: an
\* Admin remains, no grant outlives its user, and what was deleted stays deleted.
THEOREM ServerKeepsItsInvariants ==
    Spec => [](A!HasAdmin /\ A!NoOrphanGrant /\ R!DeletedFilesAbsent)
  <1>1. AP!Spec => []AP!HasAdmin
    BY AccountsAssumed, AP!AdminRemains
  <1>2. AP!Spec => []AP!NoOrphanGrant
    BY AccountsAssumed, AP!GrantsGoWithUsers
  <1>3. RP!Spec => []RP!DeletedFilesAbsent
    BY ArtifactsAssumed, RP!AnsweredDeletionsHold
  <1>4. /\ AP!HasAdmin => A!HasAdmin
        /\ AP!NoOrphanGrant => A!NoOrphanGrant
        /\ RP!DeletedFilesAbsent => R!DeletedFilesAbsent
    BY DEF AP!HasAdmin, A!HasAdmin, AP!AdminIn, A!AdminIn,
           AP!NoOrphanGrant, A!NoOrphanGrant, AP!GrantsTargetUsers, A!GrantsTargetUsers,
           RP!DeletedFilesAbsent, R!DeletedFilesAbsent
  <1> QED
    BY <1>1, <1>2, <1>3, <1>4, ServerDoesAccounts, ServerDoesArtifacts, PTL

\* In one process, as long as the store file can be read: an account change and an upload
\* that were answered 2xx survive whatever the other half does, its failing writes
\* included, through crashes and restarts.
THEOREM ServerKeepsItsAnswers ==
    ASSUME ~ReadErrors
    PROVE  Spec => [](A!AnsweredAccountsKept /\ A!AnsweredGrantsKept /\ R!UploadsKept)
  <1>1. AP!Spec => []AP!AnsweredAccountsKept
    BY AccountsAssumed, AP!AnsweredChangesSurvive
  <1>2. AP!Spec => []AP!AnsweredGrantsKept
    BY AccountsAssumed, AP!AnsweredGrantsSurvive
  <1>3. RP!Spec => []RP!UploadsKept
    BY ArtifactsAssumed, RP!AnsweredUploadsSurvive
  <1>4. /\ AP!AnsweredAccountsKept => A!AnsweredAccountsKept
        /\ AP!AnsweredGrantsKept => A!AnsweredGrantsKept
        /\ RP!UploadsKept => R!UploadsKept
    BY DEF AP!AnsweredAccountsKept, A!AnsweredAccountsKept,
           AP!AnsweredGrantsKept, A!AnsweredGrantsKept, RP!UploadsKept, R!UploadsKept
  <1> QED
    BY <1>1, <1>2, <1>3, <1>4, ServerDoesAccounts, ServerDoesArtifacts, PTL

\* In one process, whatever the account requests persist meanwhile: a row whose deletion
\* was answered is gone unless its removal once failed to persist, and only a file whose
\* upload failed or that has another name is listed without a time.
THEOREM ServerKeepsItsIndex == Spec => [](R!DeletedRowsGone /\ R!EpochExplained)
  <1>1. RP!Spec => []RP!DeletedRowsGone
    BY ArtifactsAssumed, RP!DeletedRowsStayGone
  <1>2. RP!Spec => []RP!EpochExplained
    BY ArtifactsAssumed, RP!ListedFilesAreStamped
  <1>3. /\ RP!DeletedRowsGone => R!DeletedRowsGone
        /\ RP!EpochExplained => R!EpochExplained
    BY DEF RP!DeletedRowsGone, R!DeletedRowsGone, RP!Rows, R!Rows,
           RP!EpochExplained, R!EpochExplained, RP!Serving, R!Serving,
           RP!ListFiles, R!ListFiles
  <1> QED
    BY <1>1, <1>2, <1>3, ServerDoesArtifacts, PTL

\* In one process, as long as the store file can be read, the users and grants of the
\* server with all its requests behave like the account book.
THEOREM ServerIsAnAccountBook ==
    ASSUME ~ReadErrors
    PROVE  Spec => AP!ImplementsBook
  <1>1. AP!Spec => AP!ImplementsBook
    BY AccountsAssumed, AP!ServerImplementsBook
  <1> QED
    BY <1>1, ServerDoesAccounts, PTL
=============================================================================
