-------------------------- MODULE ArtifactsProofs --------------------------
(***************************************************************************)
(* Proofs about Artifacts, for any versions, names, paths and contents and *)
(* any number of failing writes.                                           *)
(***************************************************************************)
EXTENDS Artifacts, TLAPS

\* What the middle of a handler knows of the file it works on.
JobOK ==
    /\ running # Idle => up
    /\ Runs("copy") => /\ Norm[running.name] # NoPath
                       /\ \A n \in Names : Norm[n] = Norm[running.name]
                                              => told[running.version][n] = Unknown
    /\ Runs("index") => /\ Norm[running.name] # NoPath
                        /\ files[running.version][Norm[running.name]] \in Contents
    /\ Runs("unindex") => \/ Norm[running.name] = NoPath
                          \/ files[running.version][Norm[running.name]] = Absent
    /\ Runs("rmtree") => \A n \in Names : told[running.version][n] = Unknown
    /\ Runs("unindexAll") => \A p \in Paths : files[running.version][p] = Absent

Sound == TypeOK /\ JobOK

\* A job is known by its operation, and has the fields of that operation.
LEMMA JobFields ==
    ASSUME TypeOK
    PROVE  /\ Runs("copy") => /\ running.version \in Versions
                              /\ running.name \in Names
                              /\ running.content \in Contents
           /\ Runs("index") \/ Runs("unindex") =>
                              /\ running.version \in Versions
                              /\ running.name \in Names
           /\ Runs("rmtree") \/ Runs("unindexAll") => running.version \in Versions
  BY DEF TypeOK, Runs, Job

\* A name has a path or none.
LEMMA NormType == \A n \in Names : Norm[n] \in Paths \/ Norm[n] = NoPath
  BY ArtifactsAssumption

\* Index updates make indexes of indexes.
LEMMA RowTypes ==
    ASSUME NEW index \in Index, NEW v \in Versions, NEW n \in Names,
           NEW stamp \in Stamps \cup {NoRow}
    PROVE  WithRow(index, v, n, stamp) \in Index
  BY DEF Index, WithRow

\* Emptying a version of an index gives an index.
LEMMA VersionType ==
    ASSUME NEW index \in Index, NEW v \in Versions
    PROVE  [index EXCEPT ![v] = NoRows] \in Index
  BY DEF Index, NoRows

\* The document _write_defaults makes has an index.
LEMMA DefaultsType == Defaults \in Index
  BY IndexAssumption DEF Index

\* A persist keeps the types of the store, whatever becomes of it.
LEMMA PersistType ==
    ASSUME TypeOK, NEW doc \in Index, NEW outcome \in Outcomes, PersistIndex(doc, outcome)
    PROVE  /\ mem' \in Index
           /\ disk' \in Index \cup {NoFile}
           /\ up' \in BOOLEAN
           /\ faults' \in 0 .. MaxFaults
           /\ unwritten' \subseteq Versions \X Names
  BY DefaultsType, StoreAssumption DEF TypeOK, PersistIndex, Persist, NoteUnwritten

\* The bookkeeping at the beginning of a request keeps its type, and leaves what is known
\* of other paths.
LEMMA UnsettleType ==
    ASSUME TypeOK, NEW v \in Versions, NEW p, Unsettle(v, p)
    PROVE  /\ told' \in [Versions -> [Names -> Contents \cup {Absent, Unknown}]]
           /\ \A w \in Versions, n \in Names :
                 told'[w][n] = IF w = v /\ Norm[n] = p THEN Unknown ELSE told[w][n]
  BY DEF TypeOK, Unsettle

\* So does the bookkeeping at its end, and it leaves the other names.
LEMMA AnswerType ==
    ASSUME TypeOK, NEW v \in Versions, NEW n \in Names,
           NEW value \in Contents \cup {Absent, Unknown},
           told' = [told EXCEPT ![v][n] = value]
    PROVE  /\ told' \in [Versions -> [Names -> Contents \cup {Absent, Unknown}]]
           /\ \A w \in Versions, m \in Names :
                 told'[w][m] = IF w = v /\ m = n THEN value ELSE told[w][m]
  BY DEF TypeOK

\* A path of the tree gets a content.
LEMMA FilesType ==
    ASSUME TypeOK, NEW v \in Versions, NEW p \in Paths,
           NEW value \in Contents \cup {Partial, Absent}
    PROVE  [files EXCEPT ![v][p] = value]
              \in [Versions -> [Paths -> Contents \cup {Partial, Absent}]]
  BY DEF TypeOK

\* A fault that may happen stays within the bound.
LEMMA FaultCounted ==
    ASSUME TypeOK, faults < MaxFaults, faults' = faults + 1
    PROVE  faults' \in 0 .. MaxFaults
  BY StoreAssumption DEF TypeOK

\* No handler runs when running is Idle.
LEMMA IdleIsNoJob == Idle \notin Job
  BY IndexAssumption

-----------------------------------------------------------------------------
(* The types and JobOK are inductive. *)

\* upload_file up to the truncation of the file keeps the invariant.
LEMMA UploadSound ==
    ASSUME Sound, NEW v \in Versions, NEW n \in Names, NEW content \in Contents,
           OpenForUpload(v, n, content)
    PROVE  Sound'
  <1>1. Norm[n] \in Paths
    BY NormType DEF OpenForUpload
  <1>2. files' \in [Versions -> [Paths -> Contents \cup {Partial, Absent}]]
    BY <1>1, FilesType DEF OpenForUpload, Sound
  <1>3. dirs' \in [Versions -> SUBSET Paths]
    BY DEF OpenForUpload, Sound, TypeOK, Above
  <1>4. told' \in [Versions -> [Names -> Contents \cup {Absent, Unknown}]]
    BY UnsettleType DEF OpenForUpload, Sound
  <1>5. running' = [op |-> "copy", version |-> v, name |-> n, content |-> content]
    BY DEF OpenForUpload
  <1>6. running' \in Job
    BY <1>5 DEF Job
  <1>7. torn' \subseteq Versions \X Paths
    BY <1>1 DEF OpenForUpload, Sound, TypeOK
  <1>8. TypeOK'
    BY <1>2, <1>3, <1>4, <1>6, <1>7 DEF OpenForUpload, Sound, TypeOK
  <1>9. \A m \in Names : Norm[m] = Norm[n] => told'[v][m] = Unknown
    BY UnsettleType DEF OpenForUpload, Sound
  <1>10. JobOK'
    BY <1>1, <1>5, <1>9, ArtifactsAssumption DEF OpenForUpload, JobOK, Runs, Serving
  <1> QED
    BY <1>8, <1>10 DEF Sound

\* The copy of the bytes, whole or failing, keeps the invariant.
LEMMA CopySound == Sound /\ (CopyDone \/ CopyFails) => Sound'
  <1> SUFFICES ASSUME Sound, CopyDone \/ CopyFails PROVE Sound'
    OBVIOUS
  <1> DEFINE v == running.version
             n == running.name
  <1>1. /\ v \in Versions /\ n \in Names /\ running.content \in Contents
        /\ Norm[n] \in Paths
    BY JobFields, NormType DEF CopyDone, CopyFails, Sound, JobOK
  <1>2. CASE CopyDone
    <2>1. files' \in [Versions -> [Paths -> Contents \cup {Partial, Absent}]]
      BY <1>1, <1>2, FilesType DEF CopyDone, Sound
    <2>2. running' = [op |-> "index", version |-> v, name |-> n]
      BY <1>2 DEF CopyDone
    <2>3. running' \in Job
      BY <1>1, <2>2 DEF Job
    <2>4. TypeOK'
      BY <1>2, <2>1, <2>3 DEF CopyDone, Sound, TypeOK
    <2>5. files'[v][Norm[n]] = running.content
      BY <1>1, <1>2 DEF CopyDone, Sound, TypeOK
    <2>6. JobOK'
      BY <1>1, <1>2, <2>2, <2>5, ArtifactsAssumption DEF CopyDone, JobOK, Runs
    <2> QED
      BY <2>4, <2>6 DEF Sound
  <1>3. CASE CopyFails
    BY <1>3, FaultCounted DEF CopyFails, Sound, TypeOK, JobOK, Runs
  <1> QED
    BY <1>2, <1>3

\* add_artifact keeps the invariant.
LEMMA AddSound ==
    ASSUME Sound, NEW outcome \in Outcomes, AddArtifact(outcome)
    PROVE  Sound'
  <1> DEFINE v == running.version
             n == running.name
             value == Answer(files[v][Norm[n]], outcome)
  <1>1. /\ v \in Versions /\ n \in Names /\ Norm[n] \in Paths
        /\ files[v][Norm[n]] \in Contents
    BY JobFields, NormType DEF AddArtifact, Sound, JobOK
  <1>2. WithRow(mem, v, n, "upload") \in Index
    BY <1>1, RowTypes DEF Sound, TypeOK, Stamps
  <1>3. value \in Contents \cup {Absent, Unknown}
    BY <1>1 DEF Answer
  <1>4. told' \in [Versions -> [Names -> Contents \cup {Absent, Unknown}]]
    <2> HIDE DEF value
    <2>1. told' = [told EXCEPT ![v][n] = value]
      BY DEF AddArtifact, value
    <2> QED
      BY <1>1, <1>3, <2>1, AnswerType DEF Sound
  <1>5. TypeOK'
    BY <1>2, <1>4, PersistType DEF AddArtifact, Sound, TypeOK, treeVars
  <1>6. JobOK'
    BY DEF AddArtifact, JobOK, Runs
  <1> QED
    BY <1>5, <1>6 DEF Sound

\* delete_file up to the unlink keeps the invariant.
LEMMA UnlinkSound ==
    ASSUME Sound, NEW v \in Versions, NEW n \in Names, Unlink(v, n)
    PROVE  Sound'
  <1>1. Norm[n] \in Paths \/ Norm[n] = NoPath
    BY NormType
  <1>2. files' \in [Versions -> [Paths -> Contents \cup {Partial, Absent}]]
    BY <1>1, FilesType DEF Unlink, Sound, TypeOK
  <1>3. told' \in [Versions -> [Names -> Contents \cup {Absent, Unknown}]]
    BY UnsettleType DEF Unlink, Sound
  <1>4. running' = [op |-> "unindex", version |-> v, name |-> n]
    BY DEF Unlink
  <1>5. running' \in Job
    BY <1>4 DEF Job
  <1>6. TypeOK'
    BY <1>2, <1>3, <1>5 DEF Unlink, Sound, TypeOK
  <1>7. Norm[n] = NoPath \/ files'[v][Norm[n]] = Absent
    BY <1>1 DEF Unlink, Sound, TypeOK
  <1>8. JobOK'
    BY <1>4, <1>7 DEF Unlink, JobOK, Runs, Serving
  <1> QED
    BY <1>6, <1>8 DEF Sound

\* remove_artifact keeps the invariant.
LEMMA RemoveSound ==
    ASSUME Sound, NEW outcome \in Outcomes, RemoveArtifact(outcome) \/ RemoveNoArtifact
    PROVE  Sound'
  <1> DEFINE v == running.version
             n == running.name
  <1>1. v \in Versions /\ n \in Names /\ Norm[n] \in Paths \cup {NoPath}
    BY JobFields, NormType DEF RemoveArtifact, RemoveNoArtifact, Sound
  <1>2. JobOK'
    BY DEF RemoveArtifact, RemoveNoArtifact, JobOK, Runs
  <1>3. CASE RemoveArtifact(outcome)
    <2>1. WithRow(mem, v, n, NoRow) \in Index
      BY <1>1, RowTypes DEF Sound, TypeOK
    <2>2. told' \in [Versions -> [Names -> Contents \cup {Absent, Unknown}]]
      BY <1>1, <1>3, AnswerType DEF RemoveArtifact, Answer, Sound
    <2> QED
      BY <1>2, <1>3, <2>1, <2>2, PersistType DEF RemoveArtifact, Sound, TypeOK
  <1>4. CASE RemoveNoArtifact
    <2>1. told' \in [Versions -> [Names -> Contents \cup {Absent, Unknown}]]
      BY <1>1, <1>4, AnswerType DEF RemoveNoArtifact, Sound
    <2> QED
      BY <1>2, <1>4, <2>1 DEF RemoveNoArtifact, Sound, TypeOK
  <1> QED
    BY <1>3, <1>4

\* The start of delete_version keeps the invariant.
LEMMA BeginRmtreeSound ==
    ASSUME Sound, NEW v \in Versions, BeginRmtree(v)
    PROVE  Sound'
  <1>1. running' = [op |-> "rmtree", version |-> v]
    BY DEF BeginRmtree
  <1>2. running' \in Job
    BY <1>1 DEF Job
  <1>3. told' \in [Versions -> [Names -> Contents \cup {Absent, Unknown}]]
    BY DEF BeginRmtree, Sound, TypeOK
  <1>4. TypeOK'
    BY <1>2, <1>3 DEF BeginRmtree, Sound, TypeOK
  <1>5. JobOK'
    BY <1>1 DEF BeginRmtree, JobOK, Runs, Serving, Sound, TypeOK
  <1> QED
    BY <1>4, <1>5 DEF Sound

\* Each entry rmtree removes keeps the invariant.
LEMMA RmtreeEntrySound ==
    ASSUME Sound, NEW p \in Paths, RmtreeEntry(p)
    PROVE  Sound'
  <1>1. running.version \in Versions
    BY JobFields DEF RmtreeEntry, Sound
  <1>2. files' = [files EXCEPT ![running.version][p] = Absent] \/ files' = files
    BY DEF RmtreeEntry
  <1>3. files' \in [Versions -> [Paths -> Contents \cup {Partial, Absent}]]
    <2>1. [files EXCEPT ![running.version][p] = Absent]
             \in [Versions -> [Paths -> Contents \cup {Partial, Absent}]]
      BY <1>1, FilesType DEF Sound
    <2> QED
      BY <1>2, <2>1 DEF Sound, TypeOK
  <1>4. dirs' \in [Versions -> SUBSET Paths]
    BY <1>1 DEF RmtreeEntry, Sound, TypeOK
  <1>5. TypeOK'
    BY <1>3, <1>4 DEF RmtreeEntry, Sound, TypeOK
  <1>6. JobOK'
    BY DEF RmtreeEntry, Sound, JobOK, Runs
  <1> QED
    BY <1>5, <1>6 DEF Sound

\* The end of rmtree, done or failed, keeps the invariant.
LEMMA RmtreeEndSound == Sound /\ (RmtreeFails \/ RmtreeDone) => Sound'
  <1> SUFFICES ASSUME Sound, RmtreeFails \/ RmtreeDone PROVE Sound'
    OBVIOUS
  <1>1. CASE RmtreeFails
    BY <1>1, FaultCounted DEF RmtreeFails, Sound, TypeOK, JobOK, Runs
  <1>2. CASE RmtreeDone
    <2>1. running' = [op |-> "unindexAll", version |-> running.version]
      BY <1>2 DEF RmtreeDone
    <2>2. running' \in Job
      BY <1>2, <2>1, JobFields DEF RmtreeDone, Job, Sound
    <2>3. TypeOK'
      BY <1>2, <2>2 DEF RmtreeDone, Sound, TypeOK
    <2>4. JobOK'
      BY <1>2, <2>1 DEF RmtreeDone, JobOK, Runs
    <2> QED
      BY <2>3, <2>4 DEF Sound
  <1> QED
    BY <1>1, <1>2

\* remove_version keeps the invariant.
LEMMA RemoveVersionSound ==
    ASSUME Sound, NEW outcome \in Outcomes, RemoveVersion(outcome) \/ RemoveNoVersion
    PROVE  Sound'
  <1>1. running.version \in Versions
    BY JobFields DEF RemoveVersion, RemoveNoVersion, Sound
  <1>2. JobOK'
    BY DEF RemoveVersion, RemoveNoVersion, JobOK, Runs
  <1>3. CASE RemoveVersion(outcome)
    <2>1. [mem EXCEPT ![running.version] = NoRows] \in Index
      BY <1>1, VersionType DEF Sound, TypeOK
    <2>2. told' \in [Versions -> [Names -> Contents \cup {Absent, Unknown}]]
      BY <1>1, <1>3 DEF RemoveVersion, Answer, Sound, TypeOK
    <2> QED
      BY <1>2, <1>3, <2>1, <2>2, PersistType DEF RemoveVersion, Sound, TypeOK
  <1>4. CASE RemoveNoVersion
    <2>1. told' \in [Versions -> [Names -> Contents \cup {Absent, Unknown}]]
      BY <1>1, <1>4 DEF RemoveNoVersion, Sound, TypeOK
    <2> QED
      BY <1>2, <1>4, <2>1 DEF RemoveNoVersion, Sound, TypeOK
  <1> QED
    BY <1>3, <1>4

\* Loading the document and dying keep the invariant.
LEMMA StartupSound ==
    Sound /\ (Start \/ SyncDone \/ Crash \/ AccountHandlerPersists) => Sound'
  <1> SUFFICES ASSUME Sound, Start \/ SyncDone \/ Crash \/ AccountHandlerPersists
               PROVE  Sound'
    OBVIOUS
  <1>1. CASE Start
    <2>1. running' = [op |-> "sync"]
      BY <1>1 DEF Start
    <2>2. running' \in Job
      BY <2>1 DEF Job
    <2>3. TypeOK'
      BY <1>1, <2>2, DefaultsType DEF Start, LoadOrSeed, Sound, TypeOK
    <2>4. JobOK'
      BY <1>1, <2>1 DEF Start, LoadOrSeed, JobOK, Runs
    <2> QED
      BY <2>3, <2>4 DEF Sound
  <1>2. CASE SyncDone
    BY <1>2 DEF SyncDone, Sound, TypeOK, JobOK, Runs
  <1>3. CASE Crash
    BY <1>3, DefaultsType DEF Crash, Die, Sound, TypeOK, JobOK, Runs
  <1>4. CASE AccountHandlerPersists
    BY <1>4, DefaultsType
    DEF AccountHandlerPersists, OtherHalfPersisted, NoteUnwritten, Sound, TypeOK, JobOK, Runs
  <1> QED
    BY <1>1, <1>2, <1>3, <1>4

\* The synchronisation of the index with the tree keeps the invariant.
LEMMA SyncSound ==
    ASSUME Sound, NEW v \in Versions, NEW p \in Paths, SyncFile(v, p)
    PROVE  Sound'
  <1>1. p \in Names
    BY ArtifactsAssumption
  <1>2. WithRow(mem, v, p, "mtime") \in Index
    BY <1>1, RowTypes DEF Sound, TypeOK, Stamps
  <1>3. TypeOK'
    BY <1>2, PersistType DEF SyncFile, Sound, TypeOK, Outcomes
  <1>4. JobOK'
    BY DEF SyncFile, PersistIndex, Persist, Sound, JobOK, Runs
  <1> QED
    BY <1>3, <1>4 DEF Sound

\* Every step keeps the invariant.
LEMMA SoundStep == Sound /\ [Next]_vars => Sound'
  <1> SUFFICES ASSUME Sound, [Next]_vars PROVE Sound'
    OBVIOUS
  <1>1. CASE Begin
    BY <1>1, UploadSound, UnlinkSound, BeginRmtreeSound DEF Begin
  <1>2. CASE Continue
    <2>1. "saved" \in Outcomes
      BY DEF Outcomes
    <2> QED
      BY <1>2, <2>1, CopySound, AddSound, RemoveSound, RmtreeEntrySound, RmtreeEndSound,
         RemoveVersionSound, StartupSound, SyncSound
      DEF Continue
  <1>3. CASE AccountHandlerPersists \/ Crash \/ Start
    BY <1>3, StartupSound
  <1>4. CASE UNCHANGED vars
    BY <1>4 DEF vars, Sound, TypeOK, JobOK, Runs
  <1> QED
    BY <1>1, <1>2, <1>3, <1>4 DEF Next

\* The invariant holds at first.
LEMMA SoundInit == Init => Sound
  <1> SUFFICES ASSUME Init PROVE Sound
    OBVIOUS
  <1>1. faults \in 0 .. MaxFaults
    BY StoreAssumption DEF Init, StoreInit
  <1>2. dirs \in [Versions -> SUBSET Paths]
    BY DEF Init, Above
  <1>3. TypeOK
    BY <1>1, <1>2, DefaultsType DEF Init, StoreInit, TypeOK
  <1>4. JobOK
    BY DEF Init, StoreInit, JobOK, Runs
  <1> QED
    BY <1>3, <1>4 DEF Sound

\* The invariant holds in every reachable state.
LEMMA AlwaysSound == Spec => []Sound
  BY SoundInit, SoundStep, PTL DEF Spec

\* Once there is a store file there always is: a persist renames, it never removes.
LEMMA FileStays == Sound /\ [Next]_vars /\ disk # NoFile => disk' # NoFile
  <1> SUFFICES ASSUME Sound, [Next]_vars, disk # NoFile, disk' # disk PROVE disk' # NoFile
    OBVIOUS
  <1>1. TypeOK /\ NoFile \notin Index
    BY IndexAssumption DEF Sound
  <1>2. ASSUME NEW index \in Index, NEW outcome \in Outcomes, PersistIndex(index, outcome)
        PROVE  disk' # NoFile
    BY <1>1, <1>2 DEF PersistIndex, Persist
  <1>3. ASSUME NEW outcome \in Outcomes, AddArtifact(outcome) PROVE disk' # NoFile
    <2>1. WithRow(mem, running.version, running.name, "upload") \in Index
      BY <1>1, <1>3, JobFields, RowTypes DEF AddArtifact, TypeOK, Stamps
    <2> QED
      BY <1>2, <1>3, <2>1 DEF AddArtifact
  <1>4. ASSUME NEW outcome \in Outcomes, RemoveArtifact(outcome) PROVE disk' # NoFile
    <2>1. WithRow(mem, running.version, running.name, NoRow) \in Index
      BY <1>1, <1>4, JobFields, RowTypes DEF RemoveArtifact, TypeOK
    <2> QED
      BY <1>2, <1>4, <2>1 DEF RemoveArtifact
  <1>5. ASSUME NEW outcome \in Outcomes, RemoveVersion(outcome) PROVE disk' # NoFile
    <2>1. [mem EXCEPT ![running.version] = NoRows] \in Index
      BY <1>1, <1>5, JobFields, VersionType DEF RemoveVersion, TypeOK
    <2> QED
      BY <1>2, <1>5, <2>1 DEF RemoveVersion
  <1>6. ASSUME NEW v \in Versions, NEW p \in Paths, SyncFile(v, p) PROVE disk' # NoFile
    <2>1. p \in Names /\ "saved" \in Outcomes
      BY ArtifactsAssumption DEF Outcomes
    <2>2. WithRow(mem, v, p, "mtime") \in Index
      BY <1>1, <2>1, RowTypes DEF TypeOK, Stamps
    <2> QED
      BY <1>2, <1>6, <2>1, <2>2 DEF SyncFile
  <1>7. CASE AccountHandlerPersists
    BY <1>1, <1>7 DEF AccountHandlerPersists, OtherHalfPersisted, TypeOK
  <1>8. CASE Start
    BY <1>8, StoreAssumption DEF Start, LoadOrSeed
  <1>9. CASE Begin
    BY <1>9 DEF Begin, OpenForUpload, Unlink, BeginRmtree
  <1>10. CASE \/ CopyDone \/ CopyFails \/ RemoveNoArtifact \/ RmtreeFails \/ RmtreeDone
              \/ RemoveNoVersion \/ SyncDone \/ \E p \in Paths : RmtreeEntry(p)
    BY <1>10 DEF CopyDone, CopyFails, RemoveNoArtifact, RmtreeFails, RmtreeDone,
                 RemoveNoVersion, SyncDone, RmtreeEntry
  <1>11. CASE Crash \/ UNCHANGED vars
    BY <1>11 DEF Crash, Die, vars
  <1> QED
    BY <1>3, <1>4, <1>5, <1>6, <1>7, <1>8, <1>9, <1>10, <1>11 DEF Next, Continue

\* Every variable has its type in every reachable state.
THEOREM TypeCorrect == Spec => []TypeOK
  <1>1. Sound => TypeOK
    BY DEF Sound
  <1> QED
    BY <1>1, AlwaysSound, PTL
-----------------------------------------------------------------------------
(* Answered uploads are kept. *)

\* UploadsKept for one name; and only names with a path are ever uploaded.
Kept(v, n) ==
    told[v][n] \in Contents =>
        /\ Norm[n] \in Paths
        /\ files[v][Norm[n]] = told[v][n]
        /\ disk # NoFile /\ disk[v][n] = "upload"
        /\ up => mem[v][n] = "upload"

AllKept == \A v \in Versions, n \in Names : Kept(v, n)

\* A name is kept by a step that leaves the index alone and either leaves the file of the
\* name alone or no longer vouches for it.
LEMMA KeptOutsideIndex ==
    ASSUME NEW v \in Versions, NEW n \in Names, Kept(v, n),
           UNCHANGED <<mem, disk, up>>,
           \/ told'[v][n] \notin Contents
           \/ /\ told'[v][n] = told[v][n]
              /\ Norm[n] \in Paths => files'[v][Norm[n]] = files[v][Norm[n]]
    PROVE  Kept(v, n)'
  BY DEF Kept

\* A name is kept by a persist of an index that keeps its row, if it was uploaded.
LEMMA KeptByPersist ==
    ASSUME NEW v \in Versions, NEW n \in Names, Kept(v, n),
           NEW index \in Index, NEW outcome \in Outcomes, PersistIndex(index, outcome),
           mem[v][n] = "upload" => index[v][n] = "upload",
           \/ told'[v][n] \notin Contents
           \/ told'[v][n] = told[v][n] /\ files' = files
    PROVE  Kept(v, n)'
  <1>1. index # NoFile
    BY IndexAssumption
  <1> QED
    BY <1>1 DEF Kept, PersistIndex, Persist

\* Absent and Unknown are not contents.
LEMMA NotContents == Absent \notin Contents /\ Unknown \notin Contents
  BY ArtifactsAssumption

\* When an existing store file can be read, every step keeps the answered uploads.
LEMMA UploadsKeptStep ==
    ASSUME ~ReadErrors
    PROVE  Sound /\ AllKept /\ [Next]_vars => AllKept'
  <1> SUFFICES ASSUME Sound, AllKept, [Next]_vars,
                      NEW w \in Versions, NEW m \in Names
               PROVE  Kept(w, m)'
    BY DEF AllKept
  <1>0. TypeOK /\ Kept(w, m)
    BY DEF AllKept, Sound
  <1>1. ASSUME NEW v \in Versions, NEW n \in Names, NEW content \in Contents,
               OpenForUpload(v, n, content)
        PROVE  Kept(w, m)'
    <2>1. Norm[n] \in Paths
      BY <1>1, NormType DEF OpenForUpload
    <2>2. told'[w][m] = IF w = v /\ Norm[m] = Norm[n] THEN Unknown ELSE told[w][m]
      BY <1>0, <1>1, UnsettleType DEF OpenForUpload
    <2>3. Norm[m] \in Paths /\ ~(w = v /\ Norm[m] = Norm[n])
             => files'[w][Norm[m]] = files[w][Norm[m]]
      BY <1>0, <1>1, <2>1 DEF OpenForUpload, TypeOK
    <2> QED
      BY <1>0, <1>1, <2>2, <2>3, NotContents, KeptOutsideIndex DEF OpenForUpload
  <1>2. CASE CopyDone
    <2> DEFINE v == running.version
               p == Norm[running.name]
    <2>1. v \in Versions /\ p \in Paths
      BY <1>0, <1>2, JobFields, NormType DEF CopyDone, Sound, JobOK
    <2>2. told' = told /\ UNCHANGED <<mem, disk, up>>
      BY <1>2 DEF CopyDone
    <2>3. CASE w = v /\ Norm[m] = p
      <3>1. told[w][m] \notin Contents
        BY <1>2, <2>3, NotContents DEF CopyDone, Sound, JobOK
      <3> QED
        BY <1>0, <2>2, <3>1, KeptOutsideIndex
    <2>4. CASE ~(w = v /\ Norm[m] = p)
      <3>1. Norm[m] \in Paths => files'[w][Norm[m]] = files[w][Norm[m]]
        BY <1>0, <1>2, <2>1, <2>4 DEF CopyDone, TypeOK
      <3> QED
        BY <1>0, <2>2, <3>1, KeptOutsideIndex
    <2> QED
      BY <2>3, <2>4
  <1>3. CASE CopyFails \/ RmtreeFails \/ RmtreeDone \/ SyncDone
    BY <1>0, <1>3, KeptOutsideIndex DEF CopyFails, RmtreeFails, RmtreeDone, SyncDone
  <1>4. ASSUME NEW outcome \in Outcomes, AddArtifact(outcome) PROVE Kept(w, m)'
    <2> DEFINE v == running.version
               n == running.name
               index == WithRow(mem, v, n, "upload")
               value == Answer(files[v][Norm[n]], outcome)
    <2>1. /\ v \in Versions /\ n \in Names /\ Norm[n] \in Paths
          /\ files[v][Norm[n]] \in Contents
      BY <1>0, <1>4, JobFields, NormType DEF AddArtifact, Sound, JobOK
    <2>2. index \in Index
      BY <1>0, <2>1, RowTypes DEF TypeOK, Stamps
    <2>3. PersistIndex(index, outcome) /\ told' = [told EXCEPT ![v][n] = value] /\ files' = files
      BY <1>4 DEF AddArtifact, treeVars
    <2>4. told'[w][m] = IF w = v /\ m = n THEN value ELSE told[w][m]
      BY <1>0, <2>1, <2>3, AnswerType DEF Answer
    <2>5. mem[w][m] = "upload" => index[w][m] = "upload"
      BY <1>0, <2>1 DEF TypeOK, Index, WithRow
    <2>6. CASE w = v /\ m = n /\ outcome = "saved"
      <3>1. told'[w][m] = files'[w][Norm[m]]
        BY <2>3, <2>4, <2>6 DEF Answer
      <3>2. index[w][m] = "upload"
        BY <1>0, <2>1, <2>6 DEF TypeOK, Index, WithRow
      <3>3. disk' = index /\ mem' = index /\ disk' # NoFile
        BY <2>2, <2>3, <2>6, IndexAssumption DEF PersistIndex, Persist
      <3> QED
        BY <2>1, <2>6, <3>1, <3>2, <3>3 DEF Kept
    <2>7. CASE w = v /\ m = n /\ outcome # "saved"
      BY <2>4, <2>7, NotContents DEF Answer, Kept
    <2>8. CASE ~(w = v /\ m = n)
      <3>1. told'[w][m] = told[w][m]
        BY <2>4, <2>8
      <3> HIDE DEF index
      <3> QED
        BY <1>0, <2>2, <2>3, <2>5, <3>1, KeptByPersist
    <2> QED
      BY <2>6, <2>7, <2>8
  <1>5. ASSUME NEW v \in Versions, NEW n \in Names, Unlink(v, n) PROVE Kept(w, m)'
    <2>1. Norm[n] \in Paths \/ Norm[n] = NoPath
      BY NormType
    <2>2. told'[w][m] = IF w = v /\ Norm[m] = Norm[n] THEN Unknown ELSE told[w][m]
      BY <1>0, <1>5, UnsettleType DEF Unlink
    <2>3. Norm[m] \in Paths /\ ~(w = v /\ Norm[m] = Norm[n])
             => files'[w][Norm[m]] = files[w][Norm[m]]
      BY <1>0, <1>5, <2>1 DEF Unlink, TypeOK
    <2> QED
      BY <1>0, <1>5, <2>2, <2>3, NotContents, KeptOutsideIndex DEF Unlink
  <1>6. ASSUME NEW outcome \in Outcomes, RemoveArtifact(outcome) PROVE Kept(w, m)'
    <2> DEFINE v == running.version
               n == running.name
               index == WithRow(mem, v, n, NoRow)
               value == Answer(Absent, outcome)
    <2>1. v \in Versions /\ n \in Names
      BY <1>0, <1>6, JobFields DEF RemoveArtifact
    <2>2. index \in Index
      BY <1>0, <2>1, RowTypes DEF TypeOK
    <2>3. PersistIndex(index, outcome) /\ told' = [told EXCEPT ![v][n] = value] /\ files' = files
      BY <1>6 DEF RemoveArtifact
    <2>4. told'[w][m] = IF w = v /\ m = n THEN value ELSE told[w][m]
      BY <1>0, <2>1, <2>3, AnswerType DEF Answer
    <2>5. CASE w = v /\ m = n
      BY <2>4, <2>5, NotContents DEF Answer, Kept
    <2>6. CASE ~(w = v /\ m = n)
      <3>1. mem[w][m] = "upload" => index[w][m] = "upload"
        BY <1>0, <2>1, <2>6 DEF TypeOK, Index, WithRow
      <3>2. told'[w][m] = told[w][m]
        BY <2>4, <2>6
      <3> HIDE DEF index
      <3> QED
        BY <1>0, <2>2, <2>3, <3>1, <3>2, KeptByPersist
    <2> QED
      BY <2>5, <2>6
  <1>7. CASE RemoveNoArtifact
    <2> DEFINE v == running.version
               n == running.name
    <2>1. v \in Versions /\ n \in Names
      BY <1>0, <1>7, JobFields DEF RemoveNoArtifact
    <2>2. told'[w][m] = IF w = v /\ m = n THEN Absent ELSE told[w][m]
      BY <1>0, <1>7, <2>1, AnswerType DEF RemoveNoArtifact
    <2> QED
      BY <1>0, <1>7, <2>2, NotContents, KeptOutsideIndex DEF RemoveNoArtifact
  <1>8. ASSUME NEW v \in Versions, BeginRmtree(v) PROVE Kept(w, m)'
    <2>1. told'[w][m] = IF w = v THEN Unknown ELSE told[w][m]
      BY <1>0, <1>8 DEF BeginRmtree, TypeOK
    <2> QED
      BY <1>0, <1>8, <2>1, NotContents, KeptOutsideIndex DEF BeginRmtree
  <1>9. ASSUME NEW p \in Paths, RmtreeEntry(p) PROVE Kept(w, m)'
    <2> DEFINE v == running.version
    <2>1. v \in Versions
      BY <1>0, <1>9, JobFields DEF RmtreeEntry
    <2>2. told' = told /\ UNCHANGED <<mem, disk, up>>
      BY <1>9 DEF RmtreeEntry
    <2>3. CASE w = v
      <3>1. told[w][m] \notin Contents
        BY <1>9, <2>3, NotContents DEF RmtreeEntry, Sound, JobOK
      <3> QED
        BY <1>0, <2>2, <3>1, KeptOutsideIndex
    <2>4. CASE w # v
      <3>1. files' = [files EXCEPT ![v][p] = Absent] \/ files' = files
        BY <1>9 DEF RmtreeEntry
      <3>2. Norm[m] \in Paths => files'[w][Norm[m]] = files[w][Norm[m]]
        BY <1>0, <2>1, <2>4, <3>1 DEF TypeOK
      <3> QED
        BY <1>0, <2>2, <3>2, KeptOutsideIndex
    <2> QED
      BY <2>3, <2>4
  <1>10. ASSUME NEW outcome \in Outcomes, RemoveVersion(outcome) PROVE Kept(w, m)'
    <2> DEFINE v == running.version
               index == [mem EXCEPT ![v] = NoRows]
    <2>1. v \in Versions
      BY <1>0, <1>10, JobFields DEF RemoveVersion
    <2>2. index \in Index
      BY <1>0, <2>1, VersionType DEF TypeOK
    <2>3. PersistIndex(index, outcome) /\ files' = files
      BY <1>10 DEF RemoveVersion
    <2>4. told'[w][m] = IF w = v THEN Answer(Absent, outcome) ELSE told[w][m]
      BY <1>0, <1>10, <2>1 DEF RemoveVersion, TypeOK
    <2>5. CASE w = v
      BY <2>4, <2>5, NotContents DEF Answer, Kept
    <2>6. CASE w # v
      <3>1. index[w][m] = mem[w][m]
        BY <1>0, <2>1, <2>6 DEF TypeOK, Index
      <3> HIDE DEF index
      <3> QED
        BY <1>0, <2>2, <2>3, <2>4, <2>6, <3>1, KeptByPersist
    <2> QED
      BY <2>5, <2>6
  <1>11. CASE RemoveNoVersion
    <2>1. running.version \in Versions
      BY <1>0, <1>11, JobFields DEF RemoveNoVersion
    <2>2. told'[w][m] = IF w = running.version THEN Absent ELSE told[w][m]
      BY <1>0, <1>11, <2>1 DEF RemoveNoVersion, TypeOK
    <2> QED
      BY <1>0, <1>11, <2>2, NotContents, KeptOutsideIndex DEF RemoveNoVersion
  <1>12. ASSUME NEW v \in Versions, NEW p \in Paths, SyncFile(v, p) PROVE Kept(w, m)'
    <2> DEFINE index == WithRow(mem, v, p, "mtime")
    <2>1. p \in Names
      BY ArtifactsAssumption
    <2>2. index \in Index
      BY <1>0, <2>1, RowTypes DEF TypeOK, Stamps
    <2>3. PersistIndex(index, "saved") /\ UNCHANGED <<files, told>>
      BY <1>12 DEF SyncFile
    <2>4. mem[v][p] = NoRow
      BY <1>12 DEF SyncFile, Unindexed
    <2>5. NoRow # "upload"
      BY ArtifactsAssumption DEF Stamps
    <2>6. mem[w][m] = "upload" => index[w][m] = "upload"
      BY <1>0, <2>1, <2>4, <2>5 DEF TypeOK, Index, WithRow
    <2>7. "saved" \in Outcomes
      BY DEF Outcomes
    <2> HIDE DEF index
    <2> QED
      BY <1>0, <2>2, <2>3, <2>6, <2>7, KeptByPersist
  <1>13. CASE Start
    <2>1. told' = told /\ files' = files
      BY <1>13 DEF Start
    <2>2. disk # NoFile => disk' = disk /\ mem' = disk
      BY <1>13 DEF Start, LoadOrSeed
    <2> QED
      BY <1>0, <2>1, <2>2 DEF Kept
  <1>14. CASE Crash
    BY <1>0, <1>14 DEF Crash, Die, Kept
  <1>15. CASE AccountHandlerPersists
    <2>1. mem # NoFile
      BY <1>0, IndexAssumption DEF TypeOK
    <2> QED
      BY <1>0, <1>15, <2>1 DEF AccountHandlerPersists, OtherHalfPersisted, Kept
  <1>16. CASE UNCHANGED vars
    BY <1>0, <1>16 DEF vars, Kept
  <1> QED
    BY <1>1, <1>2, <1>3, <1>4, <1>5, <1>6, <1>7, <1>8, <1>9, <1>10, <1>11, <1>12, <1>13,
       <1>14, <1>15, <1>16
    DEF Next, Begin, Continue

\* If the store file can always be read, an answered upload is kept, by whichever name it
\* was made: its bytes in the tree and its row in the index.
THEOREM AnsweredUploadsSurvive ==
    ASSUME ~ReadErrors
    PROVE  Spec => []UploadsKept
  <1>1. Init => AllKept
    <2> SUFFICES ASSUME Init, NEW v \in Versions, NEW n \in Names
                 PROVE  told[v][n] \notin Contents
      BY DEF AllKept, Kept
    <2> QED
      BY NotContents DEF Init
  <1>2. Sound /\ AllKept /\ [Next]_vars => AllKept'
    BY UploadsKeptStep
  <1>3. AllKept => UploadsKept
    BY DEF AllKept, Kept, UploadsKept
  <1> QED
    BY <1>1, <1>2, <1>3, AlwaysSound, PTL DEF Spec
-----------------------------------------------------------------------------
(* Answered deletions are kept. *)

\* Unknown is not the mark of an answered deletion.
LEMMA UnknownIsNotAbsent == Unknown # Absent
  BY ArtifactsAssumption

\* Every step keeps the answered deletions.
LEMMA DeletedStep == Sound /\ DeletedFilesAbsent /\ [Next]_vars => DeletedFilesAbsent'
  <1> SUFFICES ASSUME Sound, DeletedFilesAbsent, [Next]_vars,
                      NEW w \in Versions, NEW m \in Names, told'[w][m] = Absent,
                      Norm[m] # NoPath
               PROVE  files'[w][Norm[m]] = Absent
    BY DEF DeletedFilesAbsent
  <1>0. /\ TypeOK /\ Norm[m] \in Paths
        /\ told[w][m] = Absent => files[w][Norm[m]] = Absent
    BY NormType DEF DeletedFilesAbsent, Sound
  <1>1. ASSUME NEW v \in Versions, NEW n \in Names, NEW content \in Contents,
               OpenForUpload(v, n, content)
        PROVE  files'[w][Norm[m]] = Absent
    <2>1. Norm[n] \in Paths
      BY <1>1, NormType DEF OpenForUpload
    <2>2. told'[w][m] = IF w = v /\ Norm[m] = Norm[n] THEN Unknown ELSE told[w][m]
      BY <1>0, <1>1, UnsettleType DEF OpenForUpload
    <2>3. ~(w = v /\ Norm[m] = Norm[n])
      BY <2>2, UnknownIsNotAbsent
    <2> QED
      BY <1>0, <1>1, <2>1, <2>2, <2>3 DEF OpenForUpload, TypeOK
  <1>2. CASE CopyDone
    <2>1. running.version \in Versions /\ Norm[running.name] \in Paths
      BY <1>0, <1>2, JobFields, NormType DEF CopyDone, Sound, JobOK
    <2>2. told' = told
      BY <1>2 DEF CopyDone
    <2>3. ~(w = running.version /\ Norm[m] = Norm[running.name])
      BY <1>2, <2>2, UnknownIsNotAbsent DEF CopyDone, Sound, JobOK
    <2> QED
      BY <1>0, <1>2, <2>1, <2>2, <2>3 DEF CopyDone, TypeOK
  <1>3. CASE CopyFails \/ RmtreeFails \/ RmtreeDone \/ SyncDone
    BY <1>0, <1>3 DEF CopyFails, RmtreeFails, RmtreeDone, SyncDone
  <1>4. ASSUME NEW outcome \in Outcomes, AddArtifact(outcome)
        PROVE  files'[w][Norm[m]] = Absent
    <2> DEFINE v == running.version
               n == running.name
               value == Answer(files[v][Norm[n]], outcome)
    <2>1. v \in Versions /\ n \in Names /\ files[v][Norm[n]] \in Contents
      BY <1>0, <1>4, JobFields DEF AddArtifact, Sound, JobOK
    <2>2. told' = [told EXCEPT ![v][n] = value] /\ files' = files
      BY <1>4 DEF AddArtifact, treeVars
    <2>3. value # Absent /\ value \in Contents \cup {Absent, Unknown}
      BY <2>1, NotContents, UnknownIsNotAbsent DEF Answer
    <2> HIDE DEF value
    <2>4. told'[w][m] = IF w = v /\ m = n THEN value ELSE told[w][m]
      BY <1>0, <2>1, <2>2, <2>3, AnswerType
    <2> QED
      BY <1>0, <2>2, <2>3, <2>4
  <1>5. ASSUME NEW v \in Versions, NEW n \in Names, Unlink(v, n)
        PROVE  files'[w][Norm[m]] = Absent
    <2>1. Norm[n] \in Paths \/ Norm[n] = NoPath
      BY NormType
    <2>2. told'[w][m] = IF w = v /\ Norm[m] = Norm[n] THEN Unknown ELSE told[w][m]
      BY <1>0, <1>5, UnsettleType DEF Unlink
    <2>3. ~(w = v /\ Norm[m] = Norm[n])
      BY <2>2, UnknownIsNotAbsent
    <2> QED
      BY <1>0, <1>5, <2>1, <2>2, <2>3 DEF Unlink, TypeOK
  <1>6. ASSUME NEW outcome \in Outcomes, RemoveArtifact(outcome) \/ RemoveNoArtifact
        PROVE  files'[w][Norm[m]] = Absent
    <2> DEFINE v == running.version
               n == running.name
    <2>1. v \in Versions /\ n \in Names
      BY <1>0, <1>6, JobFields DEF RemoveArtifact, RemoveNoArtifact
    <2>2. Norm[n] = NoPath \/ files[v][Norm[n]] = Absent
      BY <1>6 DEF RemoveArtifact, RemoveNoArtifact, Sound, JobOK
    <2>3. files' = files
      BY <1>6 DEF RemoveArtifact, RemoveNoArtifact
    <2>4. ~(w = v /\ m = n) => told'[w][m] = told[w][m]
      BY <1>0, <1>6, <2>1, AnswerType DEF RemoveArtifact, RemoveNoArtifact, Answer
    <2> QED
      BY <1>0, <2>2, <2>3, <2>4
  <1>7. ASSUME NEW v \in Versions, BeginRmtree(v) PROVE files'[w][Norm[m]] = Absent
    <2>1. told'[w][m] = IF w = v THEN Unknown ELSE told[w][m]
      BY <1>0, <1>7 DEF BeginRmtree, TypeOK
    <2> QED
      BY <1>0, <1>7, <2>1, UnknownIsNotAbsent DEF BeginRmtree
  <1>8. ASSUME NEW p \in Paths, RmtreeEntry(p) PROVE files'[w][Norm[m]] = Absent
    <2>1. running.version \in Versions
      BY <1>0, <1>8, JobFields DEF RmtreeEntry
    <2>2. files' = [files EXCEPT ![running.version][p] = Absent] \/ files' = files
      BY <1>8 DEF RmtreeEntry
    <2>3. files[w][Norm[m]] = Absent
      BY <1>0, <1>8 DEF RmtreeEntry
    <2> QED
      BY <1>0, <2>1, <2>2, <2>3 DEF TypeOK
  <1>9. ASSUME NEW outcome \in Outcomes, RemoveVersion(outcome) \/ RemoveNoVersion
        PROVE  files'[w][Norm[m]] = Absent
    <2>1. running.version \in Versions
      BY <1>0, <1>9, JobFields DEF RemoveVersion, RemoveNoVersion
    <2>2. files[running.version][Norm[m]] = Absent /\ files' = files
      BY <1>0, <1>9 DEF RemoveVersion, RemoveNoVersion, Sound, JobOK
    <2>3. w # running.version => told'[w][m] = told[w][m]
      BY <1>0, <1>9, <2>1 DEF RemoveVersion, RemoveNoVersion, TypeOK
    <2> QED
      BY <1>0, <2>2, <2>3
  <1>10. ASSUME NEW v \in Versions, NEW p \in Paths, SyncFile(v, p)
         PROVE  files'[w][Norm[m]] = Absent
    BY <1>0, <1>10 DEF SyncFile
  <1>11. CASE AccountHandlerPersists \/ Crash \/ Start \/ UNCHANGED vars
    BY <1>0, <1>11 DEF AccountHandlerPersists, Crash, Start, vars
  <1>12. "saved" \in Outcomes
    BY DEF Outcomes
  <1> QED
    BY <1>1, <1>2, <1>3, <1>4, <1>5, <1>6, <1>7, <1>8, <1>9, <1>10, <1>11, <1>12
    DEF Next, Begin, Continue

\* A file whose deletion, or whose version's, was answered 204 stays absent, whichever of
\* its names was given, whatever fails and crashes, and even when the store file cannot
\* be read.
THEOREM AnsweredDeletionsHold == Spec => []DeletedFilesAbsent
  <1>1. Init => DeletedFilesAbsent
    <2> SUFFICES ASSUME Init, NEW v \in Versions, NEW n \in Names
                 PROVE  told[v][n] # Absent
      BY DEF DeletedFilesAbsent
    <2> QED
      BY UnknownIsNotAbsent DEF Init
  <1> QED
    BY <1>1, DeletedStep, AlwaysSound, PTL DEF Spec
-----------------------------------------------------------------------------
(* The rows of deleted files are gone. *)

\* While the server runs, a row that is not in memory is not in the file either, unless it
\* left memory in a removal that failed to persist.
MemoryAgrees ==
    up /\ disk # NoFile =>
        \A v \in Versions, n \in Names :
            <<v, n>> \notin unwritten /\ mem[v][n] = NoRow => disk[v][n] = NoRow

RowsGone == MemoryAgrees /\ DeletedRowsGone

\* A persist keeps the rows of deleted names away, if its index does.
LEMMA RowsGoneByPersist ==
    ASSUME TypeOK, RowsGone, NEW index \in Index, NEW outcome \in Outcomes,
           PersistIndex(index, outcome),
           \A v \in Versions, n \in Names : told'[v][n] = Absent =>
              \/ told[v][n] = Absent /\ index[v][n] = mem[v][n]
              \/ outcome # "failed" /\ index[v][n] = NoRow
    PROVE  RowsGone'
  <1>1. up /\ (up' => mem' = index)
    BY DEF PersistIndex, Persist
  <1>2. CASE outcome = "failed"
    <2>1. /\ disk' = disk /\ mem' = index /\ up'
          /\ \A v \in Versions, n \in Names : <<v, n>> \notin unwritten' =>
                <<v, n>> \notin unwritten /\ (mem[v][n] = NoRow \/ index[v][n] # NoRow)
      BY <1>2 DEF PersistIndex, Persist, NoteUnwritten
    <2>2. MemoryAgrees'
      BY <1>1, <2>1 DEF RowsGone, MemoryAgrees
    <2>3. DeletedRowsGone'
      BY <1>1, <1>2, <2>1 DEF RowsGone, DeletedRowsGone
    <2> QED
      BY <2>2, <2>3 DEF RowsGone
  <1>3. CASE outcome # "failed"
    <2>1. /\ disk' = index
          /\ \A v \in Versions, n \in Names : <<v, n>> \notin unwritten' =>
                <<v, n>> \notin unwritten \/ index[v][n] = NoRow
      BY <1>3 DEF PersistIndex, Persist, NoteUnwritten
    <2>2. MemoryAgrees'
      BY <1>1, <2>1 DEF MemoryAgrees
    <2>3. DeletedRowsGone'
      BY <1>1, <2>1 DEF RowsGone, DeletedRowsGone
    <2> QED
      BY <2>2, <2>3 DEF RowsGone
  <1> QED
    BY <1>2, <1>3

\* A step outside the index keeps them away, if it deletes no name.
LEMMA RowsGoneOutsideIndex ==
    ASSUME RowsGone, UNCHANGED <<mem, disk, up, unwritten>>,
           \A v \in Versions, n \in Names : told'[v][n] = Absent => told[v][n] = Absent
    PROVE  RowsGone'
  BY DEF RowsGone, MemoryAgrees, DeletedRowsGone

\* Every step keeps the rows of deleted names away.
LEMMA RowsGoneStep == Sound /\ DeletedFilesAbsent /\ RowsGone /\ [Next]_vars => RowsGone'
  <1> SUFFICES ASSUME Sound, DeletedFilesAbsent, RowsGone, [Next]_vars PROVE RowsGone'
    OBVIOUS
  <1>0. TypeOK
    BY DEF Sound
  <1>1. ASSUME NEW v \in Versions, NEW n \in Names, NEW content \in Contents,
               OpenForUpload(v, n, content)
        PROVE  RowsGone'
    <2>1. \A w \in Versions, m \in Names : told'[w][m] = Absent => told[w][m] = Absent
      BY <1>0, <1>1, UnsettleType, UnknownIsNotAbsent DEF OpenForUpload
    <2> QED
      BY <1>1, <2>1, RowsGoneOutsideIndex DEF OpenForUpload
  <1>2. CASE CopyDone \/ CopyFails \/ RmtreeFails \/ RmtreeDone \/ SyncDone
    BY <1>2, RowsGoneOutsideIndex DEF CopyDone, CopyFails, RmtreeFails, RmtreeDone, SyncDone
  <1>3. ASSUME NEW outcome \in Outcomes, AddArtifact(outcome) PROVE RowsGone'
    <2> DEFINE v == running.version
               n == running.name
               index == WithRow(mem, v, n, "upload")
               value == Answer(files[v][Norm[n]], outcome)
    <2>1. v \in Versions /\ n \in Names /\ files[v][Norm[n]] \in Contents
      BY <1>0, <1>3, JobFields DEF AddArtifact, Sound, JobOK
    <2>2. index \in Index
      BY <1>0, <2>1, RowTypes DEF TypeOK, Stamps
    <2>3. PersistIndex(index, outcome) /\ told' = [told EXCEPT ![v][n] = value]
      BY <1>3 DEF AddArtifact
    <2>4. value # Absent /\ value \in Contents \cup {Absent, Unknown}
      BY <2>1, NotContents, UnknownIsNotAbsent DEF Answer
    <2>5. \A w \in Versions, m \in Names :
             told'[w][m] = Absent => told[w][m] = Absent /\ ~(w = v /\ m = n)
      <3> HIDE DEF value
      <3> QED
        BY <1>0, <2>1, <2>3, <2>4, AnswerType
    <2>6. \A w \in Versions, m \in Names : ~(w = v /\ m = n) => index[w][m] = mem[w][m]
      BY <1>0, <2>1 DEF TypeOK, Index, WithRow
    <2> HIDE DEF index, value
    <2> QED
      BY <1>0, <2>2, <2>3, <2>5, <2>6, RowsGoneByPersist
  <1>4. ASSUME NEW v \in Versions, NEW n \in Names, Unlink(v, n) PROVE RowsGone'
    <2>1. \A w \in Versions, m \in Names : told'[w][m] = Absent => told[w][m] = Absent
      BY <1>0, <1>4, UnsettleType, UnknownIsNotAbsent DEF Unlink
    <2> QED
      BY <1>4, <2>1, RowsGoneOutsideIndex DEF Unlink
  <1>5. ASSUME NEW outcome \in Outcomes, RemoveArtifact(outcome) PROVE RowsGone'
    <2> DEFINE v == running.version
               n == running.name
               index == WithRow(mem, v, n, NoRow)
               value == Answer(Absent, outcome)
    <2>1. v \in Versions /\ n \in Names
      BY <1>0, <1>5, JobFields DEF RemoveArtifact
    <2>2. index \in Index
      BY <1>0, <2>1, RowTypes DEF TypeOK
    <2>3. PersistIndex(index, outcome) /\ told' = [told EXCEPT ![v][n] = value]
      BY <1>5 DEF RemoveArtifact
    <2>4. \A w \in Versions, m \in Names :
             told'[w][m] = IF w = v /\ m = n THEN value ELSE told[w][m]
      BY <1>0, <2>1, <2>3, AnswerType DEF Answer
    <2>5. value = Absent => outcome # "failed"
      BY UnknownIsNotAbsent DEF Answer
    <2>6. \A w \in Versions, m \in Names :
             index[w][m] = IF w = v /\ m = n THEN NoRow ELSE mem[w][m]
      BY <1>0, <2>1 DEF TypeOK, Index, WithRow
    <2> HIDE DEF index, value
    <2> QED
      BY <1>0, <2>2, <2>3, <2>4, <2>5, <2>6, RowsGoneByPersist
  <1>6. CASE RemoveNoArtifact
    <2> DEFINE v == running.version
               n == running.name
    <2>1. v \in Versions /\ n \in Names
      BY <1>0, <1>6, JobFields DEF RemoveNoArtifact
    <2>2. up /\ mem[v][n] = NoRow /\ UNCHANGED <<mem, disk, up, unwritten>>
      BY <1>6 DEF RemoveNoArtifact, Runs
    <2>3. \A w \in Versions, m \in Names :
             told'[w][m] = Absent => told[w][m] = Absent \/ (w = v /\ m = n)
      BY <1>0, <1>6, <2>1, AnswerType DEF RemoveNoArtifact
    <2> QED
      BY <2>2, <2>3 DEF RowsGone, MemoryAgrees, DeletedRowsGone
  <1>7. ASSUME NEW v \in Versions, BeginRmtree(v) PROVE RowsGone'
    <2>1. \A w \in Versions, m \in Names : told'[w][m] = Absent => told[w][m] = Absent
      BY <1>0, <1>7, UnknownIsNotAbsent DEF BeginRmtree, TypeOK
    <2> QED
      BY <1>7, <2>1, RowsGoneOutsideIndex DEF BeginRmtree
  <1>8. ASSUME NEW p \in Paths, RmtreeEntry(p) PROVE RowsGone'
    BY <1>8, RowsGoneOutsideIndex DEF RmtreeEntry
  <1>9. ASSUME NEW outcome \in Outcomes, RemoveVersion(outcome) PROVE RowsGone'
    <2> DEFINE v == running.version
               index == [mem EXCEPT ![v] = NoRows]
    <2>1. v \in Versions
      BY <1>0, <1>9, JobFields DEF RemoveVersion
    <2>2. index \in Index
      BY <1>0, <2>1, VersionType DEF TypeOK
    <2>3. PersistIndex(index, outcome)
      BY <1>9 DEF RemoveVersion
    <2>4. \A w \in Versions, m \in Names :
             told'[w][m] = IF w = v THEN Answer(Absent, outcome) ELSE told[w][m]
      BY <1>0, <1>9, <2>1 DEF RemoveVersion, TypeOK
    <2>5. Answer(Absent, outcome) = Absent => outcome # "failed"
      BY UnknownIsNotAbsent DEF Answer
    <2>6. \A w \in Versions, m \in Names :
             index[w][m] = IF w = v THEN NoRow ELSE mem[w][m]
      BY <1>0, <2>1 DEF TypeOK, Index, NoRows
    <2> HIDE DEF index
    <2> QED
      BY <1>0, <2>2, <2>3, <2>4, <2>5, <2>6, RowsGoneByPersist
  <1>10. CASE RemoveNoVersion
    <2> DEFINE v == running.version
    <2>1. v \in Versions
      BY <1>0, <1>10, JobFields DEF RemoveNoVersion
    <2>2. up /\ mem[v] = NoRows /\ UNCHANGED <<mem, disk, up, unwritten>>
      BY <1>10 DEF RemoveNoVersion, Runs
    <2>3. \A w \in Versions, m \in Names :
             told'[w][m] = Absent => told[w][m] = Absent \/ mem[w][m] = NoRow
      BY <1>0, <1>10, <2>1, <2>2 DEF RemoveNoVersion, NoRows, TypeOK
    <2> QED
      BY <2>2, <2>3 DEF RowsGone, MemoryAgrees, DeletedRowsGone
  <1>11. ASSUME NEW v \in Versions, NEW p \in Paths, SyncFile(v, p) PROVE RowsGone'
    <2> DEFINE index == WithRow(mem, v, p, "mtime")
    <2>1. p \in Names /\ Norm[p] = p /\ p # NoPath /\ "saved" \in Outcomes
      BY ArtifactsAssumption DEF Outcomes
    <2>2. index \in Index
      BY <1>0, <2>1, RowTypes DEF TypeOK, Stamps
    <2>3. PersistIndex(index, "saved") /\ told' = told /\ files[v][p] # Absent
      BY <1>11 DEF SyncFile, Unindexed
    <2>4. told[v][p] # Absent
      BY <2>1, <2>3 DEF DeletedFilesAbsent
    <2>5. \A w \in Versions, m \in Names : ~(w = v /\ m = p) => index[w][m] = mem[w][m]
      BY <1>0, <2>1 DEF TypeOK, Index, WithRow
    <2> HIDE DEF index
    <2> QED
      BY <1>0, <2>1, <2>2, <2>3, <2>4, <2>5, RowsGoneByPersist
  <1>12. CASE Start
    <2>1. mem' = disk' /\ (disk' = disk \/ disk' = Defaults)
      BY <1>12 DEF Start, LoadOrSeed
    <2>2. \A v \in Versions, n \in Names : Defaults[v][n] = NoRow
      BY IndexAssumption
    <2>3. told' = told /\ unwritten' = unwritten
      BY <1>12 DEF Start
    <2>4. disk # NoFile \/ disk' = Defaults
      BY <1>12 DEF Start, LoadOrSeed
    <2> QED
      BY <2>1, <2>2, <2>3, <2>4 DEF RowsGone, MemoryAgrees, DeletedRowsGone
  <1>13. CASE Crash
    BY <1>13 DEF Crash, Die, RowsGone, MemoryAgrees, DeletedRowsGone
  <1>14. CASE AccountHandlerPersists
    <2>1. /\ up /\ disk' = mem /\ (up' => mem' = mem) /\ told' = told
          /\ \A v \in Versions, n \in Names :
                <<v, n>> \notin unwritten' => <<v, n>> \notin unwritten \/ mem[v][n] = NoRow
      BY <1>14
      DEF AccountHandlerPersists, OtherHalfPersisted, NoteUnwritten
    <2>2. MemoryAgrees'
      BY <2>1 DEF MemoryAgrees
    <2>3. DeletedRowsGone'
      BY <2>1 DEF RowsGone, DeletedRowsGone
    <2> QED
      BY <2>2, <2>3 DEF RowsGone
  <1>15. CASE UNCHANGED vars
    BY <1>15 DEF vars, RowsGone, MemoryAgrees, DeletedRowsGone
  <1> QED
    BY <1>1, <1>2, <1>3, <1>4, <1>5, <1>6, <1>7, <1>8, <1>9, <1>10, <1>11, <1>12, <1>13,
       <1>14, <1>15
    DEF Next, Begin, Continue

\* The row under a name whose deletion, or whose version's, was answered 204 is gone, in
\* memory and in the file, also when the store file cannot be read at a start, unless an
\* earlier removal of that very row failed to persist.
THEOREM DeletedRowsStayGone == Spec => []DeletedRowsGone
  <1>1. Init => RowsGone
    BY UnknownIsNotAbsent DEF Init, StoreInit, RowsGone, MemoryAgrees, DeletedRowsGone
  <1>2. RowsGone => DeletedRowsGone
    BY DEF RowsGone
  <1> QED
    BY <1>1, <1>2, RowsGoneStep, AlwaysSound, AnsweredDeletionsHold, PTL DEF Spec
-----------------------------------------------------------------------------
(* Listed files have a stamp. *)

\* Once the synchronisation is over, a file without a row under any of its names is one
\* whose upload is under way or has failed, also in the middle of a handler.
FilesStamped ==
    /\ up /\ ~Runs("sync") =>
          \A v \in Versions, p \in Paths :
             files[v][p] # Absent /\ Rows(mem, v, p) = {} => <<v, p>> \in torn
    /\ Runs("copy") => <<running.version, Norm[running.name]>> \in torn

\* A handler's step that neither copies nor heals an upload keeps the files stamped, if
\* it brings no file into the tree and takes the rows of absent files only.
LEMMA StampedByHandler ==
    ASSUME FilesStamped, up, ~Runs("sync"), torn' = torn, ~Runs("copy")',
           \A v \in Versions, p \in Paths :
              up' /\ files'[v][p] # Absent /\ Rows(mem', v, p) = {}
                 => files[v][p] # Absent /\ Rows(mem, v, p) = {}
    PROVE  FilesStamped'
  BY DEF FilesStamped, Rows

\* Every step keeps the listed files stamped.
LEMMA FilesStampedStep == Sound /\ FilesStamped /\ [Next]_vars => FilesStamped'
  <1> SUFFICES ASSUME Sound, FilesStamped, [Next]_vars PROVE FilesStamped'
    OBVIOUS
  <1>0. TypeOK
    BY DEF Sound
  <1>1. ASSUME NEW v \in Versions, NEW n \in Names, NEW content \in Contents,
               OpenForUpload(v, n, content)
        PROVE  FilesStamped'
    <2>1. Norm[n] \in Paths
      BY <1>1, NormType DEF OpenForUpload
    <2>2. up /\ ~Runs("sync") /\ mem' = mem
      BY <1>1 DEF OpenForUpload, Serving, Runs
    <2>3. torn' = torn \cup {<<v, Norm[n]>>}
      BY <1>1 DEF OpenForUpload
    <2>4. \A w \in Versions, q \in Paths :
             <<w, q>> \in torn' \/ files'[w][q] = files[w][q]
      BY <1>0, <1>1, <2>1, <2>3 DEF OpenForUpload, TypeOK
    <2>5. running'.version = v /\ running'.name = n
      BY <1>1 DEF OpenForUpload
    <2> QED
      BY <2>2, <2>3, <2>4, <2>5 DEF FilesStamped, Rows
  <1>2. CASE CopyDone
    <2> DEFINE v == running.version
               p == Norm[running.name]
    <2>1. v \in Versions /\ p \in Paths
      BY <1>0, <1>2, JobFields, NormType DEF CopyDone, Sound, JobOK
    <2>2. up /\ ~Runs("sync") /\ mem' = mem /\ torn' = torn /\ <<v, p>> \in torn
      BY <1>2 DEF CopyDone, Runs, FilesStamped
    <2>3. \A w \in Versions, q \in Paths :
             <<w, q>> \in torn' \/ files'[w][q] = files[w][q]
      BY <1>0, <1>2, <2>1, <2>2 DEF CopyDone, TypeOK
    <2>4. ~Runs("copy")'
      BY <1>2 DEF CopyDone, Runs
    <2> QED
      BY <2>2, <2>3, <2>4 DEF FilesStamped, Rows
  <1>3. CASE CopyFails \/ RmtreeFails \/ RmtreeDone \/ RemoveNoArtifact \/ RemoveNoVersion
    BY <1>3, StampedByHandler
    DEF CopyFails, RmtreeFails, RmtreeDone, RemoveNoArtifact, RemoveNoVersion, Runs
  <1>4. ASSUME NEW outcome \in Outcomes, AddArtifact(outcome) PROVE FilesStamped'
    <2> DEFINE v == running.version
               n == running.name
               index == WithRow(mem, v, n, "upload")
    <2>1. v \in Versions /\ n \in Names /\ Norm[n] \in Paths
      BY <1>0, <1>4, JobFields, NormType DEF AddArtifact, Sound, JobOK
    <2>2. up /\ ~Runs("sync") /\ files' = files /\ torn' = torn \ {<<v, Norm[n]>>}
      BY <1>4 DEF AddArtifact, Runs, treeVars
    <2>3. ~Runs("copy")' /\ (up' => mem' = index)
      BY <1>4 DEF AddArtifact, PersistIndex, Persist, Runs
    <2>4. "upload" # NoRow
      BY ArtifactsAssumption DEF Stamps
    <2>5. \A w \in Versions, m \in Names :
             index[w][m] = NoRow => mem[w][m] = NoRow /\ ~(w = v /\ m = n)
      BY <1>0, <2>1, <2>4 DEF TypeOK, Index, WithRow
    <2> HIDE DEF index
    <2>6. \A w \in Versions, q \in Paths :
             Rows(index, w, q) = {} => Rows(mem, w, q) = {} /\ ~(w = v /\ q = Norm[n])
      BY <2>1, <2>5 DEF Rows
    <2> QED
      BY <2>2, <2>3, <2>6 DEF FilesStamped, Rows
  <1>5. ASSUME NEW v \in Versions, NEW n \in Names, Unlink(v, n) PROVE FilesStamped'
    <2>1. Norm[n] \in Paths \/ Norm[n] = NoPath
      BY NormType
    <2>2. \A w \in Versions, q \in Paths : files'[w][q] # Absent => files[w][q] # Absent
      BY <1>0, <1>5, <2>1 DEF Unlink, TypeOK
    <2> QED
      BY <1>5, <2>2, StampedByHandler DEF Unlink, Serving, Runs
  <1>6. ASSUME NEW outcome \in Outcomes, RemoveArtifact(outcome) PROVE FilesStamped'
    <2> DEFINE v == running.version
               n == running.name
               index == WithRow(mem, v, n, NoRow)
    <2>1. v \in Versions /\ n \in Names
      BY <1>0, <1>6, JobFields DEF RemoveArtifact
    <2>2. /\ up /\ ~Runs("sync") /\ ~Runs("copy")' /\ UNCHANGED <<files, torn>>
          /\ up' => mem' = index
      BY <1>6 DEF RemoveArtifact, PersistIndex, Persist, Runs
    <2>3. Norm[n] = NoPath \/ files[v][Norm[n]] = Absent
      BY <1>6 DEF RemoveArtifact, Sound, JobOK
    <2>4. \A w \in Versions, m \in Names :
             index[w][m] = NoRow => mem[w][m] = NoRow \/ (w = v /\ m = n)
      BY <1>0, <2>1 DEF TypeOK, Index, WithRow
    <2> HIDE DEF index
    <2>5. \A w \in Versions, q \in Paths :
             Rows(index, w, q) = {} => Rows(mem, w, q) = {} \/ (w = v /\ q = Norm[n])
      BY <2>4 DEF Rows
    <2>6. NoPath \notin Paths
      BY ArtifactsAssumption
    <2> QED
      BY <2>2, <2>3, <2>5, <2>6, StampedByHandler DEF Rows
  <1>7. ASSUME NEW v \in Versions, BeginRmtree(v) PROVE FilesStamped'
    BY <1>7, StampedByHandler DEF BeginRmtree, Serving, Runs
  <1>8. ASSUME NEW p \in Paths, RmtreeEntry(p) PROVE FilesStamped'
    <2>1. running.version \in Versions
      BY <1>0, <1>8, JobFields DEF RmtreeEntry
    <2>2. files' = [files EXCEPT ![running.version][p] = Absent] \/ files' = files
      BY <1>8 DEF RmtreeEntry
    <2>3. \A w \in Versions, q \in Paths : files'[w][q] # Absent => files[w][q] # Absent
      BY <1>0, <2>1, <2>2 DEF TypeOK
    <2> QED
      BY <1>8, <2>3, StampedByHandler DEF RmtreeEntry, Runs
  <1>9. ASSUME NEW outcome \in Outcomes, RemoveVersion(outcome) PROVE FilesStamped'
    <2> DEFINE v == running.version
               index == [mem EXCEPT ![v] = NoRows]
    <2>1. v \in Versions
      BY <1>0, <1>9, JobFields DEF RemoveVersion
    <2>2. /\ up /\ ~Runs("sync") /\ ~Runs("copy")' /\ UNCHANGED <<files, torn>>
          /\ up' => mem' = index
      BY <1>9 DEF RemoveVersion, PersistIndex, Persist, Runs
    <2>3. \A p \in Paths : files[v][p] = Absent
      BY <1>9 DEF RemoveVersion, Sound, JobOK
    <2>4. \A w \in Versions \ {v} : index[w] = mem[w]
      BY <1>0, <2>1 DEF TypeOK, Index
    <2> HIDE DEF index
    <2>5. \A w \in Versions \ {v}, q \in Paths : Rows(index, w, q) = Rows(mem, w, q)
      BY <2>4 DEF Rows
    <2> QED
      BY <2>2, <2>3, <2>5, StampedByHandler DEF Rows
  <1>10. ASSUME NEW v \in Versions, NEW p \in Paths, SyncFile(v, p) PROVE FilesStamped'
    BY <1>10 DEF SyncFile, PersistIndex, Persist, Runs, FilesStamped
  <1>11. CASE SyncDone
    <2>1. ASSUME NEW v \in Versions, NEW p \in Paths
          PROVE  files[v][p] # Absent => Rows(mem, v, p) # {}
      <3>1. <<v, p>> \notin Unindexed
        BY <1>11 DEF SyncDone
      <3>2. p \in Names /\ Norm[p] = p
        BY ArtifactsAssumption
      <3> QED
        BY <3>1, <3>2 DEF Unindexed, Rows
    <2> QED
      BY <1>11, <2>1 DEF SyncDone, Runs, FilesStamped, Rows
  <1>12. CASE Start
    <2>1. [op |-> "sync"] # Idle
      BY IdleIsNoJob DEF Job
    <2> QED
      BY <1>12, <2>1 DEF Start, LoadOrSeed, Runs, FilesStamped
  <1>13. CASE Crash
    BY <1>13 DEF Crash, Die, Runs, FilesStamped
  <1>14. CASE AccountHandlerPersists
    BY <1>14 DEF AccountHandlerPersists, OtherHalfPersisted, Runs, FilesStamped, Rows
  <1>15. CASE UNCHANGED vars
    BY <1>15 DEF vars, Runs, FilesStamped, Rows
  <1> QED
    BY <1>1, <1>2, <1>3, <1>4, <1>5, <1>6, <1>7, <1>8, <1>9, <1>10, <1>11, <1>12, <1>13,
       <1>14, <1>15
    DEF Next, Begin, Continue

\* The listing shows the epoch as the time of a file only when an upload of it has failed
\* since the server started or its row is under another name, for any number of failing
\* writes, crashes and unreadable store files.
THEOREM ListedFilesAreStamped == Spec => []EpochExplained
  <1>1. Init => FilesStamped
    BY DEF Init, StoreInit, Runs, FilesStamped
  <1>2. FilesStamped => EpochExplained
    BY DEF FilesStamped, EpochExplained, ListFiles, Serving, Runs
  <1> QED
    BY <1>1, <1>2, FilesStampedStep, AlwaysSound, PTL DEF Spec
=============================================================================
