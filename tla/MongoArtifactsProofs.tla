------------------------ MODULE MongoArtifactsProofs ------------------------
(***************************************************************************)
(* Proofs about MongoArtifacts, for any files and versions, any number of  *)
(* servers and of interruptions.                                           *)
(***************************************************************************)
EXTENDS MongoArtifacts, TLAPS

(* What holds of every reachable state. *)

\* Two servers whose work can undo each other's both know.
MeetingsKnown ==
    \A s \in Servers, t \in Servers :
        s # t /\ Busy(s) /\ Meets(t, server[s].at, server[s].on) =>
            ~server[s].alone /\ ~server[t].alone

\* What a server has done by the place it has come to.
PlacesKnow ==
    \A s \in Servers :
        /\ At(s, "find") => \E f \in Files : server[s].on = {f}
        /\ At(s, "rmtree") => server[s].left \subseteq server[s].on
        /\ At(s, "sync") => server[s].left = {}
        /\ server[s].at \in Starting => server[s].on = Files
        /\ At(s, "index") /\ server[s].alone => server[s].on \subseteq tree
        /\ server[s].at \in {"find", "unindex", "unindexAll"} /\ server[s].alone =>
              server[s].on \cap tree = {}
        /\ server[s].at \in Starting /\ server[s].alone =>
              tree \subseteq rows \cup server[s].left \cup server[s].found

\* Nobody deletes a file that was answered to be there.
ThereForNow ==
    \A f \in Files : told[f] = "there" =>
        /\ f \in tree \cap rows
        /\ \A s \in Servers : server[s].at \in Deleting => f \notin server[s].on

\* Nobody adds a file that was answered to be gone.
GoneForNow ==
    \A f \in Files : told[f] = "gone" =>
        /\ f \notin tree \cup rows
        /\ \A s \in Servers :
              /\ server[s].at \in Uploading => f \notin server[s].on
              /\ server[s].at \in Starting => f \notin server[s].found
              /\ At(s, "add") => f \notin server[s].left

Sound == TypeOK /\ MeetingsKnown /\ PlacesKnow /\ ThereForNow /\ GoneForNow
-----------------------------------------------------------------------------
(* How a step moves a server. *)

\* The fields of a task.
LEMMA TaskFields ==
    ASSUME NEW place \in Places, NEW on \in SUBSET Files, NEW left \in SUBSET Files
    PROVE  /\ Task(place, on, left) \in Activity
           /\ Task(place, on, left).at = place
           /\ Task(place, on, left).on = on
           /\ Task(place, on, left).left = left
           /\ Task(place, on, left).found = {}
           /\ Task(place, on, left).alone = TRUE
  BY DEF Task, Activity

\* Where the handler or the start of s begins: what s is about, and whom it meets.
Begun(s, place, on, left) ==
    /\ server' \in [Servers -> Activity]
    /\ server'[s].at = place /\ server'[s].on = on
    /\ server'[s].left = left /\ server'[s].found = {}
    /\ server'[s].alone <=> \A t \in Servers \ {s} : ~Meets(t, place, on)
    /\ \A t \in Servers \ {s} :
          /\ server'[t].at = server[t].at /\ server'[t].on = server[t].on
          /\ server'[t].left = server[t].left /\ server'[t].found = server[t].found
          /\ server'[t].alone <=> server[t].alone /\ ~Meets(t, place, on)

\* Begin has an activity begin.
LEMMA BeginMeets ==
    ASSUME TypeOK, NEW s \in Servers, NEW place \in Places,
           NEW on \in SUBSET Files, NEW left \in SUBSET Files,
           Begin(s, Task(place, on, left))
    PROVE  Begun(s, place, on, left)
  <1> DEFINE task == Task(place, on, left)
  <1> DEFINE met == {t \in Servers \ {s} : Meets(t, place, on)}
  <1>1. /\ task \in Activity
        /\ task.at = place /\ task.on = on /\ task.left = left /\ task.found = {}
    BY DEF Task, Activity
  <1> HIDE DEF task
  <1>2. server' = [t \in Servers |-> IF t = s THEN [task EXCEPT !.alone = (met = {})]
                                     ELSE IF t \in met THEN [server[t] EXCEPT !.alone = FALSE]
                                     ELSE server[t]]
    BY <1>1 DEF Begin, task
  <1>3. \A a \in Activity, b \in BOOLEAN :
           /\ [a EXCEPT !.alone = b] \in Activity
           /\ [a EXCEPT !.alone = b].at = a.at /\ [a EXCEPT !.alone = b].on = a.on
           /\ [a EXCEPT !.alone = b].left = a.left /\ [a EXCEPT !.alone = b].found = a.found
           /\ [a EXCEPT !.alone = b].alone = b
    BY DEF Activity
  <1>4. \A t \in Servers : server[t] \in Activity
    BY DEF TypeOK
  <1>5. server'[s] = [task EXCEPT !.alone = (met = {})]
    BY <1>2
  <1>6. \A t \in Servers \ {s} :
           server'[t] = IF t \in met THEN [server[t] EXCEPT !.alone = FALSE] ELSE server[t]
    BY <1>2
  <1>7. server' \in [Servers -> Activity]
    BY <1>1, <1>2, <1>3, <1>4
  <1>8. server'[s].alone <=> met = {}
    BY <1>1, <1>3, <1>5
  <1>9. ASSUME NEW t \in Servers \ {s}
        PROVE  /\ server'[t].at = server[t].at /\ server'[t].on = server[t].on
               /\ server'[t].left = server[t].left /\ server'[t].found = server[t].found
               /\ server'[t].alone <=> server[t].alone /\ ~Meets(t, place, on)
    <2>1. server[t].alone \in BOOLEAN
      BY <1>4 DEF Activity
    <2>2. CASE t \in met
      BY <1>3, <1>4, <1>6, <2>2
    <2>3. CASE t \notin met
      BY <1>6, <2>1, <2>3
    <2> QED
      BY <2>2, <2>3
  <1> QED
    BY <1>1, <1>3, <1>5, <1>7, <1>8, <1>9 DEF Begun

\* The handler or the start of s goes on to a place, about the same files.
Moved(s, place, left, found) ==
    /\ server' \in [Servers -> Activity]
    /\ server'[s].at = place /\ server'[s].on = server[s].on
    /\ server'[s].left = left /\ server'[s].found = found
    /\ server'[s].alone = server[s].alone
    /\ \A t \in Servers \ {s} : server'[t] = server[t]

\* It ends.
Rested(s) ==
    /\ server' \in [Servers -> Activity]
    /\ server'[s].at \in {"idle", "down"}
    /\ \A t \in Servers \ {s} : server'[t] = server[t]

\* GoOn has it go on,
LEMMA GoMoves ==
    ASSUME TypeOK, NEW s \in Servers, NEW place \in Places,
           NEW left \in SUBSET Files, NEW found \in SUBSET Files,
           GoOn(s, place, left, found)
    PROVE  Moved(s, place, left, found)
  <1> DEFINE next == [at |-> place, on |-> server[s].on, left |-> left, found |-> found,
                      alone |-> server[s].alone]
  <1>1. next \in Activity
    BY DEF TypeOK, Activity
  <1>2. server' = [server EXCEPT ![s] = next]
    BY DEF Go, GoOn
  <1>3. /\ next.at = place /\ next.on = server[s].on /\ next.left = left
        /\ next.found = found /\ next.alone = server[s].alone
    OBVIOUS
  <1> HIDE DEF next
  <1> QED
    BY <1>1, <1>2, <1>3 DEF Moved, TypeOK

\* and Go to Idle or Down has it end.
LEMMA GoRests ==
    ASSUME TypeOK, NEW s \in Servers, Go(s, Idle) \/ Go(s, Down)
    PROVE  Rested(s)
  <1>1. /\ Idle \in Activity /\ Idle.at = "idle"
        /\ Down \in Activity /\ Down.at = "down"
    BY DEF Idle, Down, Task, Activity, Places
  <1> QED
    BY <1>1 DEF Rested, Go, TypeOK

\* What each action does to the activities.
LEMMA Begins ==
    ASSUME TypeOK, NEW s \in Servers
    PROVE  /\ Connect(s) => Begun(s, "list", Files, Files)
           /\ \A v \in Versions : DeleteVersion(s, v) => Begun(s, "rmtree", Of(v), tree \cap Of(v))
           /\ \A f \in Files : Store(s, f) => Begun(s, "index", {f}, {})
           /\ \A f \in Files : Unlink(s, f) => Begun(s, "find", {f}, {})
  <1>1. \A v \in Versions : Of(v) \in SUBSET Files
    BY DEF Of
  <1> QED
    BY <1>1, BeginMeets DEF Connect, DeleteVersion, Store, Unlink, Places

\* The steps after which the activity of a server goes on,
LEMMA Moves ==
    ASSUME TypeOK, NEW s \in Servers
    PROVE  /\ FindArtifact(s) /\ server[s].on \subseteq rows => Moved(s, "unindex", {}, {})
           /\ RmtreeDone(s) => Moved(s, "unindexAll", {}, {})
           /\ SyncAdd(s) => Moved(s, "sync", {}, server[s].found)
           /\ \A f \in Files :
                 /\ RmtreeFile(s, f) => Moved(s, "rmtree", server[s].left \ {f}, {})
                 /\ ListFile(s, f) =>
                       Moved(s, IF server[s].left \ {f} = {} THEN "sync" ELSE "list",
                             server[s].left \ {f}, server[s].found \cup ({f} \cap tree))
                 /\ SyncFind(s, f) =>
                       IF f \in rows THEN Moved(s, "sync", {}, server[s].found \ {f})
                       ELSE Moved(s, "add", {f}, server[s].found \ {f})
  <1>1. server[s].left \in SUBSET Files /\ server[s].found \in SUBSET Files
    BY DEF TypeOK, Activity
  <1> QED
    BY <1>1, GoMoves
    DEF FindArtifact, RmtreeDone, SyncAdd, RmtreeFile, ListFile, SyncFind, Places

\* and those after which it has ended.
LEMMA Rests ==
    ASSUME TypeOK, NEW s \in Servers,
           \/ UpsertArtifact(s) \/ DeleteArtifact(s) \/ DeleteArtifacts(s)
           \/ FindArtifact(s) /\ ~(server[s].on \subseteq rows)
           \/ RmtreeRaises(s) \/ SyncDone(s) \/ Stop(s) \/ Break(s)
    PROVE  Rested(s)
  BY GoRests DEF UpsertArtifact, DeleteArtifact, DeleteArtifacts, FindArtifact, Answer,
                 RmtreeRaises, SyncDone, Stop, Break
-----------------------------------------------------------------------------
(* Types and meetings. *)

\* Every step keeps the types.
LEMMA TypeStep ==
    ASSUME TypeOK, NEW s \in Servers, Act(s)
    PROVE  TypeOK'
  <1>1. server' \in [Servers -> Activity]
    BY Begins, Moves, Rests DEF Act, Begun, Moved, Rested
  <1>2. CASE \/ Connect(s) \/ \E f \in Files : ListFile(s, f) \/ SyncFind(s, f)
             \/ RmtreeDone(s) \/ RmtreeRaises(s) \/ SyncDone(s) \/ Stop(s)
    BY <1>1, <1>2
    DEF TypeOK, Connect, ListFile, SyncFind, RmtreeDone, RmtreeRaises, SyncDone, Stop
  <1>3. CASE Break(s)
    BY <1>1, <1>3, MongoArtifactsAssumption DEF TypeOK, Break
  <1>4. CASE UpsertArtifact(s) \/ FindArtifact(s) \/ DeleteArtifact(s) \/ DeleteArtifacts(s)
    <2>1. \A word \in {"there", "gone"} : Answer(s, word) =>
             told' \in [Files -> {"nothing", "there", "gone"}]
      BY DEF TypeOK, Answer
    <2>2. server[s].on \subseteq Files
      BY DEF TypeOK, Activity
    <2> QED
      BY <1>1, <1>4, <2>1, <2>2
      DEF TypeOK, UpsertArtifact, FindArtifact, DeleteArtifact, DeleteArtifacts
  <1>5. CASE \/ \E v \in Versions : DeleteVersion(s, v)
             \/ \E f \in Files : Store(s, f) \/ Unlink(s, f)
    <2>1. \A on : Forget(on) => told' \in [Files -> {"nothing", "there", "gone"}]
      BY DEF TypeOK, Forget
    <2> QED
      BY <1>1, <1>5, <2>1 DEF TypeOK, DeleteVersion, Store, Unlink
  <1>6. CASE SyncAdd(s) \/ \E f \in Files : RmtreeFile(s, f)
    BY <1>1, <1>6 DEF TypeOK, Activity, SyncAdd, RmtreeFile
  <1> QED
    BY <1>2, <1>3, <1>4, <1>5, <1>6 DEF Act

\* The variables have their types.
LEMMA TypeInit == Init => TypeOK
  <1>1. Down \in Activity
    BY DEF Down, Task, Activity, Places
  <1>2. 0 \in 0 .. MaxFaults
    BY MongoArtifactsAssumption
  <1> QED
    BY <1>1, <1>2 DEF Init, TypeOK

\* Whoever begins tells those it meets, and is told of them.
LEMMA MeetingsStep ==
    ASSUME TypeOK, MeetingsKnown, NEW s \in Servers, Act(s)
    PROVE  MeetingsKnown'
  <1>1. ASSUME NEW place, NEW on, NEW left, Begun(s, place, on, left) PROVE MeetingsKnown'
    BY <1>1 DEF Begun, MeetingsKnown, Meets, Busy
  <1>2. ASSUME NEW place, NEW left, NEW found, Moved(s, place, left, found), Busy(s),
               place \in Uploading <=> server[s].at \in Uploading,
               place \in Deleting <=> server[s].at \in Deleting,
               place \in Starting <=> server[s].at \in Starting
        PROVE  MeetingsKnown'
    BY <1>2 DEF Moved, MeetingsKnown, Meets, Busy
  <1>3. ASSUME Rested(s) PROVE MeetingsKnown'
    BY <1>3 DEF Rested, MeetingsKnown, Meets, Busy
  <1>4. CASE \/ Connect(s) \/ \E v \in Versions : DeleteVersion(s, v)
             \/ \E f \in Files : Store(s, f) \/ Unlink(s, f)
    BY <1>1, <1>4, Begins
  <1>5. CASE \/ FindArtifact(s) /\ server[s].on \subseteq rows
             \/ RmtreeDone(s) \/ SyncAdd(s)
             \/ \E f \in Files : RmtreeFile(s, f) \/ ListFile(s, f) \/ SyncFind(s, f)
    <2>1. \A f \in Files : RmtreeFile(s, f) => MeetingsKnown'
      BY <1>2, Moves DEF RmtreeFile, At, Busy, Uploading, Deleting, Starting
    <2>2. \A f \in Files : ListFile(s, f) => MeetingsKnown'
      BY <1>2, Moves DEF ListFile, At, Busy, Uploading, Deleting, Starting
    <2>3. \A f \in Files : SyncFind(s, f) => MeetingsKnown'
      BY <1>2, Moves DEF SyncFind, At, Busy, Uploading, Deleting, Starting
    <2>4. RmtreeDone(s) => MeetingsKnown'
      BY <1>2, Moves DEF RmtreeDone, At, Busy, Uploading, Deleting, Starting
    <2>5. SyncAdd(s) => MeetingsKnown'
      BY <1>2, Moves DEF SyncAdd, At, Busy, Uploading, Deleting, Starting
    <2>6. FindArtifact(s) /\ server[s].on \subseteq rows => MeetingsKnown'
      BY <1>2, Moves DEF FindArtifact, At, Busy, Uploading, Deleting, Starting
    <2> QED
      BY <1>5, <2>1, <2>2, <2>3, <2>4, <2>5, <2>6
  <1> QED
    BY <1>3, <1>4, <1>5, Rests DEF Act
-----------------------------------------------------------------------------
(* Answers. *)

\* Every step keeps what holds of the reachable states.
LEMMA SoundStep == Sound /\ [Next]_vars => Sound'
  <1> SUFFICES ASSUME Sound, [Next]_vars PROVE Sound'
    OBVIOUS
  <1>1. CASE UNCHANGED vars
    BY <1>1 DEF vars, Sound, TypeOK, MeetingsKnown, Busy, Meets, PlacesKnow, ThereForNow,
                GoneForNow, At
  <1>2. CASE Next
    <2>1. PICK s \in Servers : Act(s)
      BY <1>2 DEF Next
    <2>2. TypeOK' /\ MeetingsKnown'
      BY <2>1, TypeStep, MeetingsStep DEF Sound
    <2>3. TypeOK /\ MeetingsKnown /\ PlacesKnow /\ ThereForNow /\ GoneForNow
      BY DEF Sound
    <2>4. \A t \in Servers : /\ server[t].on \subseteq Files /\ server[t].left \subseteq Files
                             /\ server[t].found \subseteq Files
                             /\ server[t].alone \in BOOLEAN
      BY <2>3 DEF TypeOK, Activity
    <2> DEFINE Kept == PlacesKnow' /\ ThereForNow' /\ GoneForNow'
    <2>5. ASSUME Connect(s) PROVE Kept
      <3>1. Begun(s, "list", Files, Files) /\ UNCHANGED <<tree, rows, told>>
        BY <2>3, <2>5, Begins DEF Connect
      <3>2. PlacesKnow'
        BY <2>3, <3>1 DEF PlacesKnow, Begun, At, Starting, TypeOK
      <3>3. ThereForNow'
        BY <2>3, <3>1 DEF ThereForNow, Begun, At, Deleting
      <3>4. GoneForNow'
        BY <2>3, <3>1 DEF GoneForNow, Begun, At, Uploading, Starting
      <3> QED
        BY <3>2, <3>3, <3>4
    <2>6. ASSUME NEW v \in Versions, DeleteVersion(s, v) PROVE Kept
      <3>1. /\ Begun(s, "rmtree", Of(v), tree \cap Of(v)) /\ UNCHANGED <<tree, rows>>
            /\ Forget(Of(v))
        BY <2>3, <2>6, Begins DEF DeleteVersion
      <3>2. PlacesKnow'
        BY <2>3, <3>1 DEF PlacesKnow, Begun, At, Starting
      <3>3. ThereForNow'
        BY <2>3, <3>1 DEF ThereForNow, Begun, Forget
      <3>4. GoneForNow'
        BY <2>3, <3>1 DEF GoneForNow, Begun, Forget, At, Uploading, Starting
      <3> QED
        BY <3>2, <3>3, <3>4
    <2>7. ASSUME NEW f \in Files, Store(s, f) PROVE Kept
      <3>1. /\ Begun(s, "index", {f}, {}) /\ UNCHANGED rows
            /\ tree' = tree \cup {f} /\ Forget({f})
        BY <2>3, <2>7, Begins DEF Store
      <3>2. PlacesKnow'
        BY <2>3, <3>1 DEF PlacesKnow, Begun, Meets, Busy, At, Uploading, Deleting, Starting
      <3>3. ThereForNow'
        BY <2>3, <3>1 DEF ThereForNow, Begun, Forget, Deleting
      <3>4. GoneForNow'
        BY <2>3, <3>1 DEF GoneForNow, Begun, Forget, At, Starting
      <3> QED
        BY <3>2, <3>3, <3>4
    <2>8. ASSUME NEW f \in Files, Unlink(s, f) PROVE Kept
      <3>1. /\ Begun(s, "find", {f}, {}) /\ UNCHANGED rows
            /\ tree' = tree \ {f} /\ Forget({f})
        BY <2>3, <2>8, Begins DEF Unlink
      <3>2. PlacesKnow'
        BY <2>3, <3>1 DEF PlacesKnow, Begun, Meets, Busy, At, Uploading, Deleting, Starting
      <3>3. ThereForNow'
        BY <2>3, <3>1 DEF ThereForNow, Begun, Forget, Deleting
      <3>4. GoneForNow'
        BY <2>3, <3>1 DEF GoneForNow, Begun, Forget, At, Uploading, Starting
      <3> QED
        BY <3>2, <3>3, <3>4
    <2>9. ASSUME UpsertArtifact(s) PROVE Kept
      <3>1. /\ Rested(s) /\ UNCHANGED tree /\ rows' = rows \cup server[s].on
            /\ Answer(s, "there") /\ At(s, "index")
        BY <2>3, <2>9, Rests DEF UpsertArtifact
      <3>2. PlacesKnow'
        BY <2>3, <3>1 DEF PlacesKnow, Rested, At, Starting
      <3>3. ThereForNow'
        <4>1. \A t \in Servers : server[s].alone /\ server[t].at \in Deleting =>
                 server[s].on \cap server[t].on = {}
          BY <2>3, <3>1 DEF MeetingsKnown, Meets, Busy, At, Uploading, Deleting
        <4>2. server[s].alone => server[s].on \subseteq tree
          BY <2>3, <3>1 DEF PlacesKnow
        <4> QED
          BY <2>3, <3>1, <4>1, <4>2 DEF ThereForNow, Rested, Answer, Deleting
      <3>4. GoneForNow'
        BY <2>3, <3>1 DEF GoneForNow, Rested, Answer, At, Uploading, Starting
      <3> QED
        BY <3>2, <3>3, <3>4
    <2>10. ASSUME FindArtifact(s), server[s].on \subseteq rows PROVE Kept
      <3>1. Moved(s, "unindex", {}, {}) /\ UNCHANGED <<tree, rows, told>> /\ At(s, "find")
        BY <2>3, <2>10, Moves DEF FindArtifact
      <3>2. PlacesKnow'
        BY <2>3, <3>1 DEF PlacesKnow, Moved, At, Starting
      <3>3. ThereForNow' /\ GoneForNow'
        BY <2>3, <3>1 DEF ThereForNow, GoneForNow, Moved, At, Uploading, Deleting, Starting
      <3> QED
        BY <3>2, <3>3
    \* A deletion by s is over, and nothing is left of the files it was about.
    <2>11. ASSUME Rested(s), Answer(s, "gone"), UNCHANGED tree, rows' \in SUBSET rows,
                  rows' = rows \ server[s].on,
                  server[s].at \in {"find", "unindex", "unindexAll"}
           PROVE  Kept
      <3>1. \A t \in Servers \ {s} : server[s].alone =>
               /\ server[t].at \in Uploading => server[s].on \cap server[t].on = {}
               /\ server[t].at \in Starting => server[s].on \cap server[t].on = {}
        BY <2>3, <2>11 DEF MeetingsKnown, Meets, Busy, Uploading, Deleting, Starting
      <3>2. \A t \in Servers \ {s} : server[t].at \in Starting =>
               ~server[t].alone \/ server[s].on = {}
        <4>1. ASSUME NEW t \in Servers \ {s}, server[t].at \in Starting, server[t].alone,
                     server[s].on # {}
              PROVE  FALSE
          <5>1. server[t].on = Files
            BY <2>3, <4>1 DEF PlacesKnow
          <5>2. Meets(s, server[t].at, server[t].on)
            BY <2>4, <2>11, <4>1, <5>1 DEF Meets, Busy
          <5> QED
            BY <2>3, <4>1, <5>2 DEF MeetingsKnown, Busy, Starting
        <4> QED
          BY <4>1
      <3>3. PlacesKnow'
        BY <2>3, <2>11, <3>2 DEF PlacesKnow, Rested, At, Starting
      <3>4. ThereForNow'
        BY <2>3, <2>11 DEF ThereForNow, Rested, Answer, Deleting
      <3>5. \A t \in Servers \ {s} : server[t].at \in Starting => server[t].on = Files
        BY <2>3 DEF PlacesKnow
      <3>6. server[s].alone => server[s].on \cap tree = {}
        BY <2>3, <2>11 DEF PlacesKnow
      <3>7. ASSUME NEW f \in Files, told'[f] = "gone", told[f] # "gone"
            PROVE  /\ f \notin tree \cup rows'
                   /\ \A t \in Servers \ {s} : /\ server[t].at \in Uploading => f \notin server[t].on
                                               /\ server[t].at \notin Starting
        BY <2>11, <3>1, <3>5, <3>6, <3>7 DEF Answer, TypeOK
      <3>8. GoneForNow'
        BY <2>3, <2>11, <3>7 DEF GoneForNow, Rested, Uploading, Starting, At
      <3> QED
        BY <3>3, <3>4, <3>8
    <2>12. ASSUME FindArtifact(s), ~(server[s].on \subseteq rows) PROVE Kept
      <3>1. \E f \in Files : server[s].on = {f}
        BY <2>3, <2>12 DEF FindArtifact, PlacesKnow
      <3>2. rows' = rows \ server[s].on
        BY <2>12, <3>1 DEF FindArtifact
      <3> QED
        BY <2>3, <2>11, <2>12, <3>2, Rests DEF FindArtifact, At
    <2>13. ASSUME DeleteArtifact(s) \/ DeleteArtifacts(s) PROVE Kept
      BY <2>3, <2>11, <2>13, Rests DEF DeleteArtifact, DeleteArtifacts, At
    <2>14. ASSUME NEW f \in Files, RmtreeFile(s, f) PROVE Kept
      <3>1. /\ Moved(s, "rmtree", server[s].left \ {f}, {}) /\ UNCHANGED <<rows, told>>
            /\ tree' = tree \ {f} /\ At(s, "rmtree") /\ f \in server[s].on
        BY <2>3, <2>14, Moves DEF RmtreeFile, PlacesKnow
      <3>2. \A t \in Servers : At(t, "index") /\ server[t].alone => f \notin server[t].on
        BY <2>3, <3>1 DEF MeetingsKnown, Meets, Busy, At, Uploading, Deleting
      <3>3. PlacesKnow'
        BY <2>3, <3>1, <3>2 DEF PlacesKnow, Moved, At, Starting
      <3>4. ThereForNow'
        BY <2>3, <3>1 DEF ThereForNow, Moved, At, Deleting
      <3>5. GoneForNow'
        BY <2>3, <3>1 DEF GoneForNow, Moved, At, Uploading, Starting
      <3> QED
        BY <3>3, <3>4, <3>5
    <2>15. ASSUME RmtreeDone(s) PROVE Kept
      <3>1. /\ Moved(s, "unindexAll", {}, {}) /\ UNCHANGED <<tree, rows, told>>
            /\ At(s, "rmtree") /\ server[s].on \cap tree = {}
        BY <2>3, <2>15, Moves DEF RmtreeDone
      <3>2. PlacesKnow'
        BY <2>3, <3>1 DEF PlacesKnow, Moved, At, Starting
      <3>3. ThereForNow' /\ GoneForNow'
        BY <2>3, <3>1 DEF ThereForNow, GoneForNow, Moved, At, Uploading, Deleting, Starting
      <3> QED
        BY <3>2, <3>3
    <2>16. ASSUME RmtreeRaises(s) \/ SyncDone(s) \/ Stop(s) \/ Break(s) PROVE Kept
      <3>1. Rested(s) /\ UNCHANGED <<tree, rows, told>>
        BY <2>3, <2>16, Rests DEF RmtreeRaises, SyncDone, Stop, Break
      <3>2. PlacesKnow'
        BY <2>3, <3>1 DEF PlacesKnow, Rested, At, Starting
      <3>3. ThereForNow' /\ GoneForNow'
        BY <2>3, <3>1 DEF ThereForNow, GoneForNow, Rested, At, Uploading, Deleting, Starting
      <3> QED
        BY <3>2, <3>3
    <2>17. ASSUME NEW f \in Files, ListFile(s, f) PROVE Kept
      <3> DEFINE left == server[s].left \ {f}
      <3>1. /\ Moved(s, IF left = {} THEN "sync" ELSE "list", left,
                     server[s].found \cup ({f} \cap tree))
            /\ UNCHANGED <<tree, rows, told>> /\ At(s, "list")
        BY <2>3, <2>17, Moves DEF ListFile
      <3>2. PlacesKnow'
        BY <2>3, <3>1 DEF PlacesKnow, Moved, At, Starting
      <3>3. ThereForNow' /\ GoneForNow'
        BY <2>3, <3>1 DEF ThereForNow, GoneForNow, Moved, At, Uploading, Deleting, Starting
      <3> QED
        BY <3>2, <3>3
    <2>18. ASSUME NEW f \in Files, SyncFind(s, f) PROVE Kept
      <3> DEFINE rest == server[s].found \ {f}
      <3>1. /\ IF f \in rows THEN Moved(s, "sync", {}, rest) ELSE Moved(s, "add", {f}, rest)
            /\ UNCHANGED <<tree, rows, told>> /\ At(s, "sync") /\ f \in server[s].found
        BY <2>3, <2>18, Moves DEF SyncFind
      <3>2. PlacesKnow'
        <4>1. server[s].left = {}
          BY <2>3, <3>1 DEF PlacesKnow
        <4> QED
          BY <2>3, <3>1, <4>1 DEF PlacesKnow, Moved, At, Starting
      <3>3. ThereForNow'
        BY <2>3, <3>1 DEF ThereForNow, Moved, At, Deleting
      <3>4. GoneForNow'
        BY <2>3, <3>1 DEF GoneForNow, Moved, At, Uploading, Starting
      <3> QED
        BY <3>2, <3>3, <3>4
    <2>19. ASSUME SyncAdd(s) PROVE Kept
      <3>1. /\ Moved(s, "sync", {}, server[s].found) /\ UNCHANGED <<tree, told>>
            /\ rows' = rows \cup server[s].left /\ At(s, "add")
        BY <2>3, <2>19, Moves DEF SyncAdd
      <3>2. PlacesKnow'
        BY <2>3, <3>1 DEF PlacesKnow, Moved, At, Starting
      <3>3. ThereForNow'
        BY <2>3, <3>1 DEF ThereForNow, Moved, At, Deleting
      <3>4. GoneForNow'
        BY <2>3, <3>1 DEF GoneForNow, Moved, At, Uploading, Starting
      <3> QED
        BY <3>2, <3>3, <3>4
    <2>20. Kept
      BY <2>1, <2>5, <2>6, <2>7, <2>8, <2>9, <2>10, <2>12, <2>13, <2>14, <2>15, <2>16,
         <2>17, <2>18, <2>19
      DEF Act
    <2> QED
      BY <2>2, <2>20 DEF Sound
  <1> QED
    BY <1>1, <1>2

\* The invariant holds at the start and is kept, so it always holds.
LEMMA AlwaysSound == Spec => []Sound
  <1>1. Init => MeetingsKnown /\ PlacesKnow /\ ThereForNow /\ GoneForNow
    <2>1. Down.at = "down"
      BY DEF Down, Task
    <2> QED
      BY <2>1 DEF Init, MeetingsKnown, Busy, Meets, PlacesKnow, ThereForNow, GoneForNow,
                  At, Uploading, Deleting, Starting
  <1> QED
    BY <1>1, TypeInit, SoundStep, PTL DEF Spec, Sound

\* What upload_file, delete_file and delete_version answered stays so, in the tree and in
\* the index, for any number of servers that share them and whatever is cut off: only work
\* of another server that overlapped with the request may undo it.
THEOREM AnswersAreKept == Spec => []AnswersKept
  <1>1. Sound => AnswersKept
    BY DEF Sound, AnswersKept, UploadsIndexed, DeletionsKept, ThereForNow, GoneForNow
  <1> QED
    BY <1>1, AlwaysSound, PTL

\* A start that no request overlaps ends with a row for every file of the tree, whatever
\* upload was cut off before its upsert (sync_artifacts_from_disk).
THEOREM StartsHeal == Spec => StartHeals
  <1>1. Sound /\ [Next]_vars =>
           [\A s \in Servers :
               At(s, "sync") /\ server[s].alone /\ server'[s] = Idle => tree \subseteq rows]_vars
    <2> SUFFICES ASSUME Sound, Next, NEW s \in Servers,
                        At(s, "sync"), server[s].alone, server'[s] = Idle
                 PROVE  tree \subseteq rows
      OBVIOUS
    <2>1. PICK r \in Servers : Act(r)
      BY DEF Next
    <2>2. TypeOK /\ PlacesKnow
      BY DEF Sound
    <2>3. Idle.at = "idle" /\ Down.at = "down"
      BY DEF Idle, Down, Task
    <2>4. r = s
      BY <2>1, <2>2, <2>3, Begins, Moves, Rests DEF Act, Begun, Moved, Rested, At
    <2>5. ~Break(s)
      <3>1. Break(s) => server'[s] = Down
        BY <2>2 DEF Break, Go, TypeOK, At, Starting
      <3> QED
        BY <2>3, <3>1
    <2>6. ~(\E f \in Files : SyncFind(s, f))
      BY <2>2, <2>3, Moves DEF Moved
    <2>7. SyncDone(s)
      BY <2>1, <2>4, <2>5, <2>6
      DEF Act, At, UpsertArtifact, FindArtifact, DeleteArtifact, RmtreeDone, RmtreeRaises,
          DeleteArtifacts, Connect, SyncAdd, Stop, DeleteVersion, Store, Unlink, RmtreeFile,
          ListFile
    <2> QED
      BY <2>2, <2>7 DEF SyncDone, PlacesKnow, Starting, At
  <1> QED
    BY <1>1, AlwaysSound, PTL DEF Spec, StartHeals
=============================================================================
