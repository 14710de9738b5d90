--------------------------- MODULE ReadingProofs ---------------------------
(***************************************************************************)
(* Theorems about what readers get: the bytes of downloads and archives    *)
(* (Downloads), for every number of requests, faults and contents; the     *)
(* files, listings and archive entries that names lead to (Paths) and the  *)
(* links of the documentation (DocPages), for every tree and names of any  *)
(* length; the version that is listed as the latest (VersionList), for     *)
(* every project and store.                                                *)
(***************************************************************************)
EXTENDS Downloads, DocPages, VersionList, FiniteSetTheorems, SequenceTheorems,
        WellFoundedInduction, TLAPS

(* Responses and their fields. *)

Pieces == Seq(Contents \X Nat)

\* What a download keeps from its beginning to its end.
SameOrigin(d, e) == e \in Download /\ e.path = d.path /\ e.began = d.began

\* A response is known by the step it has come to.
LEMMA ResponseKinds ==
    ASSUME TypeOK, NEW r \in Requests
    PROVE  /\ At(r, DownloadSteps) => response[r] \in Download
           /\ At(r, ArchiveSteps) => response[r] \in Archive
           /\ response[r] = Idle \/ At(r, DownloadSteps) \/ At(r, ArchiveSteps)
           /\ ~(At(r, DownloadSteps) /\ At(r, ArchiveSteps))
  BY DEF TypeOK, At, Download, Archive, DownloadSteps, ArchiveSteps
-----------------------------------------------------------------------------
(* What holds of every reachable state of Downloads. *)

PartOf(got, whole) == Len(got) <= Len(whole) /\ \A i \in 1 .. Len(got) : got[i] = whole[i]

Writes(p) == Copies /\ running.path = p

\* A download that has opened its path, and reads from the file that is in the tree.
ReadsInPlace(d) ==
    /\ d.file = Live
    /\ \/ d.on = "loop" /\ d.at \in {"open", "read"}
       \/ d.on = "thread" /\ d.at = "read"

\* A download that no upload has spoilt has got the first pieces of the file it was asked
\* for, which is still in its place unless the download has it open or finds it gone.
Exact(d) ==
    /\ PartOf(d.got, d.began)
    /\ d.file \in {Live, d.began}
    /\ (d.at = "stat" /\ d.on = "thread") \/ d.size = Len(d.began)
    /\ d.file = Live /\ d.at # "end" =>
          \/ files[d.path] = d.began
          \/ files[d.path] = Absent /\ ~ReadsInPlace(d)
    /\ d.file = Live => ~Writes(d.path)

DownloadSound(d) ==
    /\ ReadsInPlace(d) => files[d.path] # Absent
    /\ d.at = "stat" \/ (d.at = "open" /\ d.on = "thread") => d.file = Live
    /\ ~d.overwritten => Exact(d)

DownloadsSound ==
    \A r \in Requests, d \in Download : response[r] = d => DownloadSound(d)

\* The file that an upload writes is there.
CopyIsThere == Copies => files[running.path] # Absent

\* While an archive is written nothing else runs: it holds the files as they are, and as
\* they were when it began.
ZipsExact ==
    \A r \in Requests : At(r, {"zip"}) =>
        /\ running = [op |-> "zip", request |-> r]
        /\ response[r].began = files
        /\ \A p \in Paths :
              response[r].entries[p] = IF p \in response[r].left THEN Absent ELSE files[p]

Archives == {r \in Requests : At(r, ArchiveSteps)}

\* Each archive under way has a temporary file, each fault left behind as many as there
\* are requests at the most.
TempsBounded ==
    /\ Cardinality(Archives) <= temps
    /\ temps <= faults * Cardinality(Requests) + Cardinality(Archives)

Sound ==
    /\ TypeOK /\ CopyIsThere /\ DownloadsSound /\ ZipsExact /\ ArchiveOfOneInstant
    /\ TempsBounded

\* What a download reads in place.
LEMMA ReadingInPlace ==
    ASSUME TypeOK, NEW r \in Requests, NEW p
    PROVE  Reading(r, p) <=> /\ At(r, DownloadSteps) /\ response[r].path = p
                             /\ ReadsInPlace(response[r])
  BY DEF Reading, ReadsInPlace, On, At, DownloadSteps

\* A response that becomes another one, or Idle.
LEMMA Becomes ==
    ASSUME TypeOK, NEW r \in Requests, NEW e \in Download \cup Archive \cup {Idle},
           Become(r, e)
    PROVE  /\ response' \in [Requests -> Download \cup Archive \cup {Idle}]
           /\ response'[r] = e
           /\ \A q \in Requests \ {r} : response'[q] = response[q]
  BY DEF TypeOK, Become

\* The requests that are archives.
LEMMA ArchivesFinite ==
    /\ IsFiniteSet(Archives)
    /\ Cardinality(Archives) \in Nat
    /\ Cardinality(Requests) \in Nat
    /\ Cardinality(Archives) <= Cardinality(Requests)
  <1>1. Archives \subseteq Requests
    BY DEF Archives
  <1> QED
    BY <1>1, FS_Subset, FS_CardinalityType, DownloadsAssumption

\* A step of one download, or its end, concerns no other response.
LEMMA DownloadStep ==
    ASSUME Sound, NEW r \in Requests, NEW e \in Download \cup {Idle}, Become(r, e),
           response[r] = Idle \/ At(r, DownloadSteps),
           UNCHANGED <<files, running, temps, faults>>,
           e # Idle => DownloadSound(e)
    PROVE  Sound'
  <1>1. TypeOK /\ CopyIsThere /\ DownloadsSound /\ ZipsExact /\ ArchiveOfOneInstant
        /\ TempsBounded
    BY DEF Sound
  <1>2. /\ response' \in [Requests -> Download \cup Archive \cup {Idle}]
        /\ response'[r] = e
        /\ \A q \in Requests \ {r} : response'[q] = response[q]
    BY <1>1, Becomes
  <1>3. TypeOK' /\ CopyIsThere'
    BY <1>1, <1>2 DEF TypeOK, CopyIsThere, Copies
  <1>4. \A d \in Download : DownloadSound(d) => DownloadSound(d)'
    BY DEF DownloadSound, ReadsInPlace, Exact, Writes, Copies
  <1>5. DownloadsSound'
    BY <1>1, <1>2, <1>4, IdleAssumption DEF DownloadsSound
  <1>6. \A q \in Requests, steps \in {{"zip"}, {"send"}, ArchiveSteps} :
           /\ At(q, steps)' <=> At(q, steps)
           /\ At(q, steps) => response'[q] = response[q]
    BY <1>2, IdleAssumption DEF At, Download, ArchiveSteps, DownloadSteps
  <1>7. ZipsExact' /\ ArchiveOfOneInstant'
    BY <1>1, <1>6 DEF ZipsExact, ArchiveOfOneInstant
  <1>8. Archives' = Archives
    BY <1>6 DEF Archives
  <1>9. TempsBounded'
    BY <1>1, <1>8 DEF TempsBounded
  <1> QED
    BY <1>3, <1>5, <1>7, <1>9 DEF Sound
-----------------------------------------------------------------------------
(* Downloads. *)

\* A download is sound when it begins.
LEMMA DownloadFileStep ==
    ASSUME Sound, NEW r \in Requests, NEW p \in Paths, DownloadFile(r, p)
    PROVE  Sound'
  <1> DEFINE e == [at |-> "stat", on |-> "thread", path |-> p, size |-> 0, file |-> Live,
                   got |-> <<>>, began |-> files[p], overwritten |-> FALSE]
  <1>1. files[p] \in Pieces /\ running = Idle
    BY DEF Sound, TypeOK, Tree, Pieces, DownloadFile, Present
  <1>2. e \in Download
    BY <1>1 DEF Download, DownloadSteps, Pieces
  <1>3. /\ e.at = "stat" /\ e.on = "thread" /\ e.path = p /\ e.file = Live
        /\ e.got = <<>> /\ e.began = files[p]
    OBVIOUS
  <1>4. Become(r, e) /\ response[r] = Idle /\ UNCHANGED <<files, running, temps, faults>>
    BY DEF DownloadFile
  <1> HIDE DEF e
  <1>5. PartOf(<<>>, files[p])
    BY <1>1 DEF PartOf, Pieces
  <1>6. DownloadSound(e)
    BY <1>1, <1>3, <1>5 DEF DownloadSound, ReadsInPlace, Exact, Writes, Copies
  <1> QED
    BY <1>2, <1>4, <1>6, DownloadStep

\* The fields of a download under way.
LEMMA UnderWay ==
    ASSUME Sound, NEW r \in Requests, At(r, DownloadSteps)
    PROVE  /\ response[r] \in Download /\ DownloadSound(response[r])
           /\ response[r].path \in Paths
           /\ response[r].at \in DownloadSteps /\ response[r].on \in {"thread", "loop"}
           /\ response[r].size \in Nat /\ response[r].got \in Pieces
           /\ response[r].began \in Pieces /\ response[r].file \in Pieces \cup {Live}
           /\ files[response[r].path] \in Pieces \cup {Absent}
  <1>1. response[r] \in Download
    BY ResponseKinds DEF Sound
  <1>2. DownloadSound(response[r])
    BY <1>1 DEF Sound, DownloadsSound
  <1> QED
    BY <1>1, <1>2 DEF Download, Pieces, Sound, TypeOK, Tree

\* The size that is announced is that of the file that was asked for.
LEMMA StatStep ==
    ASSUME Sound, NEW r \in Requests, Stat(r)
    PROVE  Sound'
  <1> DEFINE d == response[r]
  <1>1. /\ At(r, DownloadSteps) /\ d.at = "stat" /\ d.on = "thread"
        /\ UNCHANGED <<files, running, temps, faults>>
    BY DEF Stat, On, At, DownloadSteps
  <1>2. d \in Download /\ DownloadSound(d) /\ files[d.path] \in Pieces \cup {Absent}
        /\ d.path \in Paths
    BY <1>1, UnderWay
  <1>3. CASE d.path \in Present
    <2> DEFINE size == Len(files[d.path])
    <2> DEFINE e == [d EXCEPT !.on = "loop", !.size = size]
    <2>1. size \in Nat /\ files[d.path] # Absent
      BY <1>2, <1>3 DEF Present, Pieces
    <2>2. Become(r, e)
      BY <1>3 DEF Stat
    <2>3. SameOrigin(d, e) /\ e.at = d.at /\ e.on = "loop" /\ e.size = size
          /\ e.file = d.file /\ e.got = d.got /\ e.overwritten = d.overwritten
      BY <1>2, <2>1 DEF SameOrigin, Download, Pieces
    <2> HIDE DEF e
    <2>4. DownloadSound(e)
      BY <1>1, <1>2, <2>1, <2>3 DEF SameOrigin, DownloadSound, ReadsInPlace, Exact
    <2> QED
      BY <1>1, <2>2, <2>3, <2>4, DownloadStep DEF SameOrigin
  <1>4. CASE d.path \notin Present
    BY <1>1, <1>4, DownloadStep DEF Stat
  <1> QED
    BY <1>3, <1>4

\* A file that is opened is there.
LEMMA OpenStep ==
    ASSUME Sound, NEW r \in Requests, Open(r)
    PROVE  Sound'
  <1> DEFINE d == response[r]
  <1>1. /\ At(r, DownloadSteps) /\ d.at = "open" /\ d.on = "thread"
        /\ UNCHANGED <<files, running, temps, faults>>
    BY DEF Open, On, At, DownloadSteps
  <1>2. d \in Download /\ DownloadSound(d)
    BY <1>1, UnderWay
  <1>3. CASE d.path \in Present
    <2> DEFINE e == [d EXCEPT !.on = "loop"]
    <2>1. files[d.path] # Absent /\ Become(r, e)
      BY <1>3 DEF Present, Open
    <2>2. SameOrigin(d, e) /\ e.at = d.at /\ e.on = "loop" /\ e.size = d.size
          /\ e.file = d.file /\ e.got = d.got /\ e.overwritten = d.overwritten
      BY <1>2 DEF SameOrigin, Download
    <2> HIDE DEF e
    <2>3. DownloadSound(e)
      BY <1>1, <1>2, <2>1, <2>2 DEF SameOrigin, DownloadSound, ReadsInPlace, Exact
    <2> QED
      BY <1>1, <2>1, <2>2, <2>3, DownloadStep DEF SameOrigin
  <1>4. CASE d.path \notin Present
    BY <1>1, <1>4, DownloadStep DEF Open
  <1> QED
    BY <1>3, <1>4

\* The next piece of the right bytes extends what was got.
LEMMA NextPiece ==
    ASSUME NEW got \in Pieces, NEW whole \in Pieces, PartOf(got, whole),
           Len(got) + 1 <= Len(whole)
    PROVE  PartOf(Append(got, whole[Len(got) + 1]), whole)
  BY DEF PartOf, Pieces

\* A thread reads from the file that was opened, whatever has become of its name.
LEMMA ReadStep ==
    ASSUME Sound, NEW r \in Requests, Read(r)
    PROVE  Sound'
  <1> DEFINE d == response[r]
  <1> DEFINE next == Len(d.got) + 1
  <1>1. /\ At(r, DownloadSteps) /\ d.at = "read" /\ d.on = "thread"
        /\ UNCHANGED <<files, running, temps, faults>>
    BY DEF Read, On, At, DownloadSteps
  <1>2. /\ d \in Download /\ DownloadSound(d) /\ d.got \in Pieces
        /\ files[d.path] \in Pieces \cup {Absent} /\ d.file \in Pieces \cup {Live}
    BY <1>1, UnderWay
  <1>3. Source(d) \in Pieces
    BY <1>1, <1>2 DEF Source, DownloadSound, ReadsInPlace
  <1>4. ~d.overwritten => Source(d) = d.began
    BY <1>1, <1>2 DEF Source, DownloadSound, ReadsInPlace, Exact
  <1>5. CASE next <= Len(Source(d))
    <2> DEFINE got == Append(d.got, Source(d)[next])
    <2> DEFINE e == [d EXCEPT !.on = "loop", !.got = got]
    <2>1. got \in Pieces
      BY <1>2, <1>3, <1>5 DEF Pieces
    <2>2. ~d.overwritten => PartOf(got, d.began)
      BY <1>2, <1>3, <1>4, <1>5, NextPiece DEF DownloadSound, Exact
    <2>3. Become(r, e)
      BY <1>5 DEF Read
    <2> HIDE DEF got
    <2>4. SameOrigin(d, e) /\ e.at = d.at /\ e.on = "loop" /\ e.size = d.size
          /\ e.file = d.file /\ e.got = got /\ e.overwritten = d.overwritten
      BY <1>2, <2>1 DEF SameOrigin, Download, Pieces
    <2> HIDE DEF e
    <2>5. DownloadSound(e)
      BY <1>1, <1>2, <2>2, <2>4 DEF SameOrigin, DownloadSound, ReadsInPlace, Exact
    <2> QED
      BY <1>1, <2>3, <2>4, <2>5, DownloadStep DEF SameOrigin
  <1>6. CASE ~(next <= Len(Source(d)))
    <2> DEFINE e == [d EXCEPT !.on = "loop", !.at = "end"]
    <2>1. Become(r, e)
      BY <1>6 DEF Read
    <2>2. SameOrigin(d, e) /\ e.at = "end" /\ e.on = "loop" /\ e.size = d.size
          /\ e.file = d.file /\ e.got = d.got /\ e.overwritten = d.overwritten
      BY <1>2 DEF SameOrigin, Download, DownloadSteps
    <2> HIDE DEF e
    <2>3. DownloadSound(e)
      BY <1>1, <1>2, <2>2 DEF SameOrigin, DownloadSound, ReadsInPlace, Exact
    <2> QED
      BY <1>1, <2>1, <2>2, <2>3, DownloadStep DEF SameOrigin
  <1> QED
    BY <1>5, <1>6

\* The thread or the loop goes on with a download, which keeps the invariant.
LEMMA GoOnStep ==
    ASSUME Sound, NEW r \in Requests, GoOn(r) \/ EndDownload(r)
    PROVE  Sound'
  <1> DEFINE d == response[r]
  <1> DEFINE at == IF d.at = "stat" THEN "open" ELSE "read"
  <1> DEFINE e == [d EXCEPT !.on = "thread", !.at = at]
  <1>1. /\ At(r, DownloadSteps) /\ d.at \in DownloadSteps /\ d.on = "loop"
        /\ UNCHANGED <<files, running, temps, faults>>
    BY DEF GoOn, EndDownload, On, At, DownloadSteps
  <1>2. d \in Download /\ DownloadSound(d)
    BY <1>1, UnderWay
  <1>3. CASE Become(r, Idle)
    BY <1>1, <1>3, DownloadStep
  <1>4. CASE ~Become(r, Idle)
    <2>1. d.at \in {"stat", "open", "read"} /\ Become(r, e)
      BY <1>4 DEF GoOn, EndDownload, On, At
    <2>2. at \in DownloadSteps
      BY DEF DownloadSteps
    <2>3. SameOrigin(d, e) /\ e.at = at /\ e.on = "thread" /\ e.size = d.size
          /\ e.file = d.file /\ e.got = d.got /\ e.overwritten = d.overwritten
      BY <1>2, <2>2 DEF SameOrigin, Download, Pieces
    <2> HIDE DEF e
    <2>4. DownloadSound(e)
      BY <1>1, <1>2, <2>1, <2>3 DEF SameOrigin, DownloadSound, ReadsInPlace, Exact
    <2> QED
      BY <1>1, <2>1, <2>3, <2>4, DownloadStep DEF SameOrigin
  <1> QED
    BY <1>3, <1>4
-----------------------------------------------------------------------------
(* Archives. *)

\* A step that leaves the files, and starts no upload, leaves the downloads.
LEMMA SameDownloads ==
    ASSUME Sound, UNCHANGED files, UNCHANGED running \/ ~Copies',
           \A q \in Requests : response'[q] \in Download => response'[q] = response[q]
    PROVE  DownloadsSound' /\ CopyIsThere'
  <1>1. \A d \in Download : DownloadSound(d) => DownloadSound(d)'
    BY DEF DownloadSound, ReadsInPlace, Exact, Writes, Copies
  <1>2. DownloadsSound'
    BY <1>1 DEF Sound, DownloadsSound
  <1>3. CopyIsThere'
    BY DEF Sound, CopyIsThere, Copies
  <1> QED
    BY <1>2, <1>3

\* Idle and the jobs.
LEMMA Jobs ==
    ASSUME NEW r \in Requests
    PROVE  LET job == [op |-> "zip", request |-> r]
           IN  job \in Job /\ job # Idle /\ job.op = "zip" /\ job.request = r
  BY IdleAssumption DEF Job

\* An archive begins with one more temporary file, and occupies the event loop.
LEMMA DownloadArchiveStep ==
    ASSUME Sound, NEW r \in Requests, DownloadArchive(r)
    PROVE  Sound'
  <1> DEFINE a == [at |-> "zip", left |-> Present, entries |-> [p \in Paths |-> Absent],
                   began |-> files]
  <1> DEFINE job == [op |-> "zip", request |-> r]
  <1>1. /\ running = Idle /\ response[r] = Idle /\ running' = job /\ Become(r, a)
        /\ temps' = temps + 1 /\ UNCHANGED <<files, faults>>
    BY DEF DownloadArchive
  <1>2. job \in Job /\ job # Idle /\ job.op = "zip" /\ job.request = r
    BY Jobs
  <1>3. /\ a \in Archive /\ a.at = "zip" /\ a.left = Present /\ a.began = files
        /\ a.entries = [p \in Paths |-> Absent]
    BY DEF Archive, Tree, ArchiveSteps, Present, Sound, TypeOK
  <1> HIDE DEF a, job
  <1>4. /\ response' \in [Requests -> Download \cup Archive \cup {Idle}]
        /\ response'[r] = a
        /\ \A q \in Requests \ {r} : response'[q] = response[q]
    BY <1>1, <1>3, Becomes DEF Sound
  <1>5. TypeOK'
    BY <1>1, <1>2, <1>4 DEF Sound, TypeOK
  <1>6. DownloadsSound' /\ CopyIsThere'
    <2>1. a \notin Download /\ ~Copies'
      BY <1>1, <1>2, <1>3 DEF Download, DownloadSteps, Copies
    <2> QED
      BY <1>1, <1>4, <2>1, SameDownloads
  <1>7. \A q \in Requests : ~At(q, {"zip"})
    BY <1>1, Jobs DEF Sound, ZipsExact
  <1>8. ZipsExact'
    <2>1. /\ a.began = files'
          /\ \A p \in Paths : a.entries[p] = IF p \in a.left THEN Absent ELSE files'[p]
      BY <1>1, <1>3 DEF Present
    <2> QED
      BY <1>1, <1>4, <1>7, <2>1 DEF ZipsExact, At, job
  <1>9. ArchiveOfOneInstant'
    BY <1>3, <1>4 DEF Sound, ArchiveOfOneInstant, At
  <1>10. TempsBounded'
    <2>1. r \notin Archives /\ Archives' = Archives \cup {r}
      BY <1>1, <1>3, <1>4, IdleAssumption DEF Archives, At, ArchiveSteps
    <2>2. Cardinality(Archives') = Cardinality(Archives) + 1
      BY <2>1, ArchivesFinite, FS_AddElement
    <2> QED
      BY <1>1, <2>2, ArchivesFinite DEF Sound, TypeOK, TempsBounded
  <1> QED
    BY <1>5, <1>6, <1>8, <1>9, <1>10 DEF Sound

\* The handler that writes an archive is the only one, and it is that archive's.
LEMMA OneZip ==
    ASSUME Sound, NEW r \in Requests, At(r, {"zip"})
    PROVE  /\ response[r] \in Archive /\ response[r].at = "zip"
           /\ running = [op |-> "zip", request |-> r] /\ running # Idle /\ ~Copies
           /\ \A q \in Requests \ {r} : ~At(q, {"zip"})
  <1>1. response[r] \in Archive /\ response[r].at = "zip"
    BY ResponseKinds DEF Sound, At, ArchiveSteps
  <1>2. running = [op |-> "zip", request |-> r]
    BY DEF Sound, ZipsExact
  <1>3. \A q \in Requests \ {r} : ~At(q, {"zip"})
    BY <1>2, Jobs DEF Sound, ZipsExact
  <1> QED
    BY <1>1, <1>2, <1>3, Jobs DEF Copies

\* An entry holds its file as it is, and as it was when the archive began.
LEMMA WriteEntryStep ==
    ASSUME Sound, NEW r \in Requests, NEW p \in Paths, WriteEntry(r, p)
    PROVE  Sound'
  <1> DEFINE a == response[r]
  <1> DEFINE e == [a EXCEPT !.left = @ \ {p}, !.entries[p] = files[p]]
  <1>1. At(r, {"zip"}) /\ Become(r, e) /\ UNCHANGED <<files, running, temps, faults>>
    BY DEF WriteEntry
  <1>2. a \in Archive /\ a.at = "zip" /\ \A q \in Requests \ {r} : ~At(q, {"zip"})
    BY <1>1, OneZip
  <1>3. files[p] \in Pieces \cup {Absent}
    BY DEF Sound, TypeOK, Tree, Pieces
  <1>4. /\ e \in Archive /\ e.at = "zip" /\ e.began = a.began
        /\ e.left = a.left \ {p} /\ e.entries = [a.entries EXCEPT ![p] = files[p]]
    BY <1>2, <1>3 DEF Archive, Tree, Pieces
  <1> HIDE DEF e
  <1>5. /\ response' \in [Requests -> Download \cup Archive \cup {Idle}]
        /\ response'[r] = e
        /\ \A q \in Requests \ {r} : response'[q] = response[q]
    BY <1>1, <1>4, Becomes DEF Sound
  <1>6. TypeOK'
    BY <1>1, <1>5 DEF Sound, TypeOK
  <1>7. DownloadsSound' /\ CopyIsThere'
    <2>1. e \notin Download
      BY <1>4 DEF Download, DownloadSteps
    <2> QED
      BY <1>1, <1>5, <2>1, SameDownloads
  <1>8. ZipsExact'
    <2>1. a.entries \in Tree
      BY <1>2 DEF Archive
    <2>2. running = [op |-> "zip", request |-> r] /\ a.began = files
          /\ \A q \in Paths : a.entries[q] = IF q \in a.left THEN Absent ELSE files[q]
      BY <1>1 DEF Sound, ZipsExact
    <2>3. \A q \in Paths : e.entries[q] = IF q \in e.left THEN Absent ELSE files[q]
      BY <1>4, <2>1, <2>2 DEF Tree
    <2>4. \A q \in Requests \ {r} : ~At(q, {"zip"})'
      BY <1>2, <1>5 DEF At
    <2> QED
      BY <1>1, <1>4, <1>5, <2>2, <2>3, <2>4 DEF ZipsExact
  <1>9. ArchiveOfOneInstant'
    BY <1>4, <1>5 DEF Sound, ArchiveOfOneInstant, At
  <1>10. TempsBounded'
    <2>1. Archives' = Archives
      BY <1>1, <1>2, <1>4, <1>5, IdleAssumption DEF Archives, At, ArchiveSteps
    <2> QED
      BY <1>1, <2>1 DEF Sound, TempsBounded
  <1> QED
    BY <1>6, <1>7, <1>8, <1>9, <1>10 DEF Sound

\* When no name is left the archive is the files, and so what they were at its beginning.
LEMMA ArchiveWrittenStep ==
    ASSUME Sound, NEW r \in Requests, ArchiveWritten(r)
    PROVE  Sound'
  <1> DEFINE a == response[r]
  <1> DEFINE e == [a EXCEPT !.at = "send"]
  <1>1. /\ At(r, {"zip"}) /\ a.left = {} /\ Become(r, e) /\ running' = Idle
        /\ UNCHANGED <<files, temps, faults>>
    BY DEF ArchiveWritten
  <1>2. a \in Archive /\ a.at = "zip" /\ \A q \in Requests \ {r} : ~At(q, {"zip"})
    BY <1>1, OneZip
  <1>3. /\ e \in Archive /\ e.at = "send" /\ e.began = a.began
        /\ e.entries = a.entries
    BY <1>2 DEF Archive, ArchiveSteps
  <1> HIDE DEF e
  <1>4. /\ response' \in [Requests -> Download \cup Archive \cup {Idle}]
        /\ response'[r] = e
        /\ \A q \in Requests \ {r} : response'[q] = response[q]
    BY <1>1, <1>3, Becomes DEF Sound
  <1>5. TypeOK'
    BY <1>1, <1>4 DEF Sound, TypeOK
  <1>6. DownloadsSound' /\ CopyIsThere'
    <2>1. e \notin Download /\ ~Copies'
      BY <1>1, <1>3 DEF Download, DownloadSteps, Copies
    <2> QED
      BY <1>1, <1>4, <2>1, SameDownloads
  <1>7. ZipsExact'
    BY <1>2, <1>3, <1>4 DEF ZipsExact, At
  <1>8. ArchiveOfOneInstant'
    <2>1. a.entries \in Tree /\ files \in Tree
      BY <1>2 DEF Archive, Sound, TypeOK
    <2>2. a.began = files /\ \A q \in Paths : a.entries[q] = files[q]
      BY <1>1 DEF Sound, ZipsExact
    <2>3. a.entries = files
      BY <2>1, <2>2 DEF Tree
    <2> QED
      BY <1>3, <1>4, <2>2, <2>3 DEF Sound, ArchiveOfOneInstant, At
  <1>9. TempsBounded'
    <2>1. Archives' = Archives
      BY <1>2, <1>3, <1>4, IdleAssumption DEF Archives, At, ArchiveSteps
    <2> QED
      BY <1>1, <2>1 DEF Sound, TempsBounded
  <1> QED
    BY <1>5, <1>6, <1>7, <1>8, <1>9 DEF Sound

\* One archive less: with its temporary file, or with an error.
LEMMA ArchiveEnds ==
    ASSUME Sound, NEW r \in Requests, SendArchive(r) \/ ArchiveFails(r)
    PROVE  Sound'
  <1>1. /\ At(r, ArchiveSteps) /\ Become(r, Idle) /\ running' = Idle
        /\ running # Idle => At(r, {"zip"})
        /\ UNCHANGED files
    BY DEF SendArchive, ArchiveFails, At, ArchiveSteps
  <1>2. /\ response' \in [Requests -> Download \cup Archive \cup {Idle}]
        /\ response'[r] = Idle
        /\ \A q \in Requests \ {r} : response'[q] = response[q]
    BY <1>1, Becomes DEF Sound
  <1>3. r \in Archives /\ Archives' = Archives \ {r}
    BY <1>1, <1>2 DEF Archives, At
  <1>4. Cardinality(Archives') = Cardinality(Archives) - 1
    BY <1>3, ArchivesFinite, FS_RemoveElement
  <1>5. Cardinality(Archives) \in Nat /\ Cardinality(Archives') \in Nat
    BY <1>3, <1>4, ArchivesFinite, FS_RemoveElement, FS_CardinalityType
  <1>6. DownloadsSound' /\ CopyIsThere'
    BY <1>1, <1>2, SameDownloads, IdleAssumption DEF Copies
  <1>7. ZipsExact' /\ ArchiveOfOneInstant'
    <2>1. \A q \in Requests \ {r} : ~At(q, {"zip"})
      BY <1>1, OneZip, Jobs DEF Sound, ZipsExact
    <2> QED
      BY <1>1, <1>2, <2>1 DEF Sound, ZipsExact, ArchiveOfOneInstant, At
  <1>8. CASE SendArchive(r)
    <2>1. temps' = temps - 1 /\ UNCHANGED faults
      BY <1>8 DEF SendArchive
    <2>2. TypeOK' /\ TempsBounded'
      BY <1>1, <1>2, <1>4, <1>5, <2>1, ArchivesFinite DEF Sound, TypeOK, TempsBounded
    <2> QED
      BY <1>6, <1>7, <2>2 DEF Sound
  <1>9. CASE ArchiveFails(r)
    <2>1. UNCHANGED temps /\ faults' = faults + 1 /\ faults' \in 0 .. MaxFaults
      BY <1>9, DownloadsAssumption DEF ArchiveFails, Fault, Sound, TypeOK
    <2>2. TypeOK'
      BY <1>1, <1>2, <2>1 DEF Sound, TypeOK
    <2>3. faults' * Cardinality(Requests) =
              faults * Cardinality(Requests) + Cardinality(Requests)
      BY <2>1, ArchivesFinite DEF Sound, TypeOK
    <2>4. faults * Cardinality(Requests) \in Nat
      BY ArchivesFinite, DownloadsAssumption DEF Sound, TypeOK
    <2>5. Cardinality(Requests) >= 1
      BY <1>4, <1>5, ArchivesFinite
    <2>6. TempsBounded'
      BY <1>4, <1>5, <2>1, <2>3, <2>4, <2>5, ArchivesFinite DEF Sound, TypeOK, TempsBounded
    <2> QED
      BY <1>6, <1>7, <2>2, <2>6 DEF Sound
  <1> QED
    BY <1>8, <1>9
-----------------------------------------------------------------------------
(* Uploads, deletions and crashes. *)

\* While no archive is written, and a step leaves the archives that are sent, they are
\* what they were.
LEMMA SameArchives ==
    ASSUME Sound, ~(\E r \in Requests : At(r, {"zip"})), UNCHANGED temps, UNCHANGED faults,
           \A r \in Requests : At(r, ArchiveSteps) \/ At(r, ArchiveSteps)' =>
               response'[r] = response[r]
    PROVE  ZipsExact' /\ ArchiveOfOneInstant' /\ TempsBounded'
  <1>1. \A r \in Requests : /\ At(r, ArchiveSteps)' <=> At(r, ArchiveSteps)
                            /\ ~At(r, {"zip"})'
                            /\ At(r, {"send"})' => At(r, {"send"}) /\ response'[r] = response[r]
    BY DEF At, ArchiveSteps
  <1>2. Archives' = Archives
    BY <1>1 DEF Archives
  <1> QED
    BY <1>1, <1>2 DEF Sound, ZipsExact, ArchiveOfOneInstant, TempsBounded

\* An upload truncates its file in place, and spoils the downloads that are still to
\* open it, or have it open.
LEMMA OpenForUploadStep ==
    ASSUME Sound, NEW p \in Paths, NEW c \in Contents, OpenForUpload(p, c)
    PROVE  Sound'
  <1> DEFINE job == [op |-> "copy", path |-> p, content |-> c]
  <1>1. /\ running = Idle /\ running' = job /\ files' = [files EXCEPT ![p] = <<>>]
        /\ UNCHANGED <<temps, faults>>
    BY DEF OpenForUpload
  <1>2. job \in Job /\ job.op = "copy" /\ job.path = p
    BY DEF Job
  <1> HIDE DEF job
  <1>3. <<>> \in Pieces /\ <<>> # Absent
    <2>1. <<>> \in Seq(Contents \X Nat)
      OBVIOUS
    <2> QED
      BY <2>1, DownloadsAssumption DEF Pieces
  <1>4. ASSUME NEW r \in Requests
        PROVE  LET d == response[r]
                   e == response'[r]
               IN  /\ At(r, DownloadSteps) =>
                         /\ SameOrigin(d, e) /\ e.at = d.at /\ e.on = d.on
                         /\ e.size = d.size /\ e.file = d.file /\ e.got = d.got
                         /\ ~e.overwritten => ~d.overwritten /\ ~(d.file = Live /\ d.path = p)
                   /\ ~At(r, DownloadSteps) => e = d
    <2>1. response'[r] = IF /\ At(r, DownloadSteps)
                             /\ response[r].path = p /\ response[r].file = Live
                         THEN [response[r] EXCEPT !.overwritten = TRUE] ELSE response[r]
      BY DEF OpenForUpload
    <2>2. At(r, DownloadSteps) => response[r] \in Download
      BY ResponseKinds DEF Sound
    <2>3. ASSUME NEW d \in Download
          PROVE  LET e == [d EXCEPT !.overwritten = TRUE]
                 IN  /\ SameOrigin(d, e) /\ e.at = d.at /\ e.on = d.on
                     /\ e.size = d.size /\ e.file = d.file /\ e.got = d.got
                     /\ e.overwritten
      BY DEF SameOrigin, Download
    <2>4. CASE At(r, DownloadSteps) /\ response[r].path = p /\ response[r].file = Live
      BY <2>1, <2>2, <2>3, <2>4
    <2>5. CASE ~(At(r, DownloadSteps) /\ response[r].path = p /\ response[r].file = Live)
      BY <2>1, <2>2, <2>5 DEF SameOrigin
    <2> QED
      BY <2>4, <2>5
  <1>5. TypeOK'
    <2>1. \A r \in Requests : response'[r] \in Download \cup Archive \cup {Idle}
      BY <1>4 DEF Sound, TypeOK, SameOrigin
    <2>2. response' \in [Requests -> Download \cup Archive \cup {Idle}]
      BY <2>1 DEF OpenForUpload
    <2>3. files' \in Tree
      BY <1>1, <1>3 DEF Sound, TypeOK, Tree, Pieces
    <2> QED
      BY <1>1, <1>2, <2>2, <2>3 DEF Sound, TypeOK
  <1>6. CopyIsThere'
    BY <1>1, <1>2, <1>3 DEF Sound, TypeOK, Tree, CopyIsThere
  <1>7. DownloadsSound'
    <2> SUFFICES ASSUME NEW r \in Requests, NEW e \in Download, response'[r] = e
                 PROVE  DownloadSound(e)'
      BY DEF DownloadsSound
    <2> DEFINE d == response[r]
    <2>1. At(r, DownloadSteps)
      BY <1>4, ResponseKinds, IdleAssumption
      DEF Sound, Archive, Download, DownloadSteps, ArchiveSteps
    <2>2. DownloadSound(d) /\ d.path \in Paths
      BY <2>1, UnderWay
    <2>3. /\ e.path = d.path /\ e.began = d.began /\ e.at = d.at /\ e.on = d.on
          /\ e.size = d.size /\ e.file = d.file /\ e.got = d.got
          /\ ~e.overwritten => ~d.overwritten /\ ~(d.file = Live /\ d.path = p)
      BY <1>4, <2>1 DEF SameOrigin
    <2>4. \A q \in Paths : files'[q] = IF q = p THEN <<>> ELSE files[q]
      BY <1>1 DEF Sound, TypeOK, Tree
    <2>5. ~e.overwritten => ~(e.file = Live /\ Writes(e.path)')
      BY <1>1, <1>2, <2>3 DEF Writes
    <2> QED
      BY <1>3, <2>2, <2>3, <2>4, <2>5 DEF DownloadSound, ReadsInPlace, Exact
  <1>8. ZipsExact' /\ ArchiveOfOneInstant' /\ TempsBounded'
    <2>1. ~(\E r \in Requests : At(r, {"zip"}))
      BY <1>1, OneZip
    <2>2. \A r \in Requests : At(r, ArchiveSteps) \/ At(r, ArchiveSteps)' =>
             response'[r] = response[r]
      <3>1. \A r \in Requests : At(r, ArchiveSteps) => ~At(r, DownloadSteps)
        BY ResponseKinds DEF Sound
      <3>2. \A r \in Requests : At(r, DownloadSteps) => ~At(r, ArchiveSteps)'
        BY <1>4 DEF SameOrigin, Download, At, ArchiveSteps, DownloadSteps
      <3> QED
        BY <1>4, <3>1, <3>2
    <2> QED
      BY <1>1, <2>1, <2>2, SameArchives
  <1> QED
    BY <1>5, <1>6, <1>7, <1>8 DEF Sound

\* What an upload copies goes where no unspoilt download reads.
LEMMA CopyPieceStep ==
    ASSUME Sound, CopyPiece
    PROVE  Sound'
  <1> DEFINE p == running.path
  <1> DEFINE piece == <<running.content, Len(files[p]) + 1>>
  <1>1. /\ Copies /\ files' = [files EXCEPT ![p] = Append(files[p], piece)]
        /\ UNCHANGED <<running, response, temps, faults>>
    BY DEF CopyPiece
  <1>2. p \in Paths /\ running.content \in Contents
    BY <1>1 DEF Sound, TypeOK, Copies, Job
  <1>3. files[p] \in Pieces
    BY <1>1, <1>2 DEF Sound, TypeOK, Tree, CopyIsThere, Pieces
  <1>4. Append(files[p], piece) \in Pieces
    BY <1>2, <1>3 DEF Pieces
  <1>5. Append(files[p], piece) # Absent
    BY <1>4, DownloadsAssumption DEF Pieces
  <1> HIDE DEF piece
  <1>6. files' \in Tree /\ \A q \in Paths : files'[q] = IF q = p THEN Append(files[p], piece)
                                                         ELSE files[q]
    BY <1>1, <1>2, <1>4 DEF Sound, TypeOK, Tree, Pieces
  <1>7. TypeOK' /\ CopyIsThere'
    BY <1>1, <1>2, <1>5, <1>6 DEF Sound, TypeOK, CopyIsThere, Copies
  <1>8. DownloadsSound'
    <2> SUFFICES ASSUME NEW r \in Requests, NEW d \in Download, response[r] = d
                 PROVE  DownloadSound(d)'
      BY <1>1 DEF DownloadsSound
    <2>1. DownloadSound(d) /\ d.path \in Paths
      BY DEF Sound, DownloadsSound, Download
    <2> QED
      BY <1>1, <1>5, <1>6, <2>1 DEF DownloadSound, ReadsInPlace, Exact, Writes, Copies
  <1>9. ZipsExact' /\ ArchiveOfOneInstant' /\ TempsBounded'
    BY <1>1, OneZip, SameArchives
  <1> QED
    BY <1>7, <1>8, <1>9 DEF Sound

\* An upload ends, complete or not.
LEMMA CopyEnds ==
    ASSUME Sound, CopyDone \/ CopyFails
    PROVE  Sound'
  <1>1. Copies /\ running' = Idle /\ UNCHANGED <<files, response, temps>>
    BY DEF CopyDone, CopyFails
  <1>2. faults' \in {faults, faults + 1} /\ faults' \in 0 .. MaxFaults
    BY DownloadsAssumption DEF CopyDone, CopyFails, Fault, Sound, TypeOK
  <1>3. TypeOK'
    BY <1>1, <1>2 DEF Sound, TypeOK
  <1>4. DownloadsSound' /\ CopyIsThere'
    BY <1>1, SameDownloads DEF Copies
  <1>5. ZipsExact' /\ ArchiveOfOneInstant'
    BY <1>1, OneZip DEF Sound, ZipsExact, ArchiveOfOneInstant, At
  <1>6. TempsBounded'
    <2>1. Archives' = Archives
      BY <1>1 DEF Archives, At
    <2>2. /\ (faults + 1) * Cardinality(Requests)
                = faults * Cardinality(Requests) + Cardinality(Requests)
          /\ faults * Cardinality(Requests) \in Nat
      BY ArchivesFinite, DownloadsAssumption DEF Sound, TypeOK
    <2>3. faults' * Cardinality(Requests) >= faults * Cardinality(Requests)
      BY <1>2, <2>2, ArchivesFinite
    <2>4. faults' * Cardinality(Requests) \in Nat
      BY <1>2, <2>2, ArchivesFinite
    <2> QED
      BY <1>1, <2>1, <2>2, <2>3, <2>4, ArchivesFinite DEF Sound, TypeOK, TempsBounded
  <1> QED
    BY <1>3, <1>4, <1>5, <1>6 DEF Sound

\* A deleted file stays with those that have it open.
LEMMA DeleteStep ==
    ASSUME Sound, NEW p \in Paths, Delete(p)
    PROVE  Sound'
  <1>1. /\ running = Idle /\ files' = [files EXCEPT ![p] = Absent]
        /\ files[p] # Absent /\ UNCHANGED <<running, temps, faults>>
    BY DEF Delete, Present
  <1>2. files[p] \in Pieces
    BY <1>1 DEF Sound, TypeOK, Tree, Pieces
  <1>3. ASSUME NEW r \in Requests
        PROVE  LET d == response[r]
                   e == response'[r]
               IN  IF At(r, DownloadSteps) /\ d.path = p /\ ReadsInPlace(d)
                   THEN /\ SameOrigin(d, e) /\ e.at = d.at /\ e.on = d.on
                        /\ e.size = d.size /\ e.got = d.got
                        /\ e.overwritten = d.overwritten /\ e.file = files[p]
                   ELSE e = d
    <2>1. response'[r] = IF Reading(r, p) THEN [response[r] EXCEPT !.file = files[p]]
                         ELSE response[r]
      BY DEF Delete
    <2>2. At(r, DownloadSteps) => response[r] \in Download
      BY ResponseKinds DEF Sound
    <2>3. ASSUME NEW d \in Download
          PROVE  LET e == [d EXCEPT !.file = files[p]]
                 IN  /\ SameOrigin(d, e) /\ e.at = d.at /\ e.on = d.on
                     /\ e.size = d.size /\ e.got = d.got
                     /\ e.overwritten = d.overwritten /\ e.file = files[p]
      BY <1>2 DEF SameOrigin, Download, Pieces
    <2> QED
      BY <2>1, <2>2, <2>3, ReadingInPlace DEF Sound
  <1>4. TypeOK'
    <2>1. \A r \in Requests : response'[r] \in Download \cup Archive \cup {Idle}
      BY <1>3 DEF Sound, TypeOK, SameOrigin
    <2>2. response' \in [Requests -> Download \cup Archive \cup {Idle}]
      BY <2>1 DEF Delete
    <2>3. files' \in Tree
      BY <1>1 DEF Sound, TypeOK, Tree
    <2> QED
      BY <1>1, <2>2, <2>3 DEF Sound, TypeOK
  <1>5. CopyIsThere'
    BY <1>1 DEF CopyIsThere, Copies
  <1>6. DownloadsSound'
    <2> SUFFICES ASSUME NEW r \in Requests, NEW e \in Download, response'[r] = e
                 PROVE  DownloadSound(e)'
      BY DEF DownloadsSound
    <2> DEFINE d == response[r]
    <2>1. At(r, DownloadSteps)
      BY <1>3, ResponseKinds, IdleAssumption
      DEF Sound, Archive, Download, DownloadSteps, ArchiveSteps
    <2>2. DownloadSound(d) /\ d.path \in Paths
      BY <2>1, UnderWay
    <2>3. \A q \in Paths : files'[q] = IF q = p THEN Absent ELSE files[q]
      BY <1>1 DEF Sound, TypeOK, Tree
    <2>4. \A q : ~Writes(q)'
      BY <1>1 DEF Writes, Copies
    <2>5. CASE d.path = p /\ ReadsInPlace(d)
      <3>1. /\ e.path = d.path /\ e.began = d.began /\ e.at = d.at /\ e.on = d.on
            /\ e.size = d.size /\ e.got = d.got
            /\ e.overwritten = d.overwritten /\ e.file = files[p]
        BY <1>3, <2>1, <2>5 DEF SameOrigin
      <3>2. e.file # Live
        BY <1>2, <3>1, DownloadsAssumption DEF Pieces
      <3>3. ~d.overwritten => e.file = d.began
        BY <1>1, <2>2, <2>5, <3>1 DEF DownloadSound, Exact, ReadsInPlace
      <3>4. ~(d.at = "stat" \/ (d.at = "open" /\ d.on = "thread"))
        BY <2>5 DEF ReadsInPlace
      <3> QED
        BY <2>2, <3>1, <3>2, <3>3, <3>4 DEF DownloadSound, Exact, ReadsInPlace
    <2>6. CASE ~(d.path = p /\ ReadsInPlace(d))
      <3>1. e = d
        BY <1>3, <2>6
      <3> QED
        BY <2>2, <2>3, <2>4, <2>6, <3>1 DEF DownloadSound, Exact, ReadsInPlace
    <2> QED
      BY <2>5, <2>6
  <1>7. ZipsExact' /\ ArchiveOfOneInstant' /\ TempsBounded'
    <2>1. ~(\E r \in Requests : At(r, {"zip"}))
      BY <1>1, OneZip
    <2>2. \A r \in Requests : At(r, ArchiveSteps) \/ At(r, ArchiveSteps)' =>
             response'[r] = response[r]
      <3>1. \A r \in Requests : At(r, ArchiveSteps) => ~At(r, DownloadSteps)
        BY ResponseKinds DEF Sound
      <3>2. ASSUME NEW r \in Requests, At(r, DownloadSteps), response'[r] # response[r]
            PROVE  ~At(r, ArchiveSteps)'
        BY <1>3, <3>2 DEF SameOrigin, Download, At, ArchiveSteps, DownloadSteps
      <3> QED
        BY <1>3, <3>1, <3>2
    <2> QED
      BY <1>1, <2>1, <2>2, SameArchives
  <1> QED
    BY <1>4, <1>5, <1>6, <1>7 DEF Sound

\* A crash ends everything but the files and the temporary ones.
LEMMA CrashStep ==
    ASSUME Sound, Crash
    PROVE  Sound'
  <1>1. /\ running' = Idle /\ response' = [r \in Requests |-> Idle]
        /\ UNCHANGED <<files, temps>> /\ faults' = faults + 1
        /\ faults' \in 0 .. MaxFaults
    BY DownloadsAssumption DEF Crash, Fault, Sound, TypeOK
  <1>2. TypeOK'
    BY <1>1 DEF Sound, TypeOK
  <1>3. DownloadsSound' /\ CopyIsThere'
    BY <1>1, SameDownloads, IdleAssumption DEF Copies
  <1>4. Archives' = {}
    BY <1>1 DEF Archives, At
  <1>5. ZipsExact' /\ ArchiveOfOneInstant'
    BY <1>1 DEF ZipsExact, ArchiveOfOneInstant, At
  <1>6. TempsBounded'
    <2>1. /\ (faults + 1) * Cardinality(Requests)
                = faults * Cardinality(Requests) + Cardinality(Requests)
          /\ faults * Cardinality(Requests) \in Nat
      BY ArchivesFinite, DownloadsAssumption DEF Sound, TypeOK
    <2>2. Cardinality(Archives') = 0
      BY <1>4, FS_EmptySet
    <2> QED
      BY <1>1, <2>1, <2>2, ArchivesFinite DEF Sound, TypeOK, TempsBounded
  <1> QED
    BY <1>2, <1>3, <1>5, <1>6 DEF Sound
-----------------------------------------------------------------------------
(* Theorems about downloads and archives. *)

\* The invariant holds at the start.
LEMMA SoundInit == Init => Sound
  <1> SUFFICES ASSUME Init PROVE Sound
    OBVIOUS
  <1>1. files \in Tree
    <2>1. \A c \in Contents : Bytes(c) \in Seq(Contents \X Nat)
      BY DownloadsAssumption DEF Bytes
    <2> QED
      BY <2>1 DEF Init, Tree
  <1>2. faults \in 0 .. MaxFaults
    BY DownloadsAssumption DEF Init
  <1>3. TypeOK
    BY <1>1, <1>2 DEF Init, TypeOK
  <1>4. CopyIsThere /\ DownloadsSound /\ ZipsExact /\ ArchiveOfOneInstant
    BY IdleAssumption
    DEF Init, CopyIsThere, Copies, DownloadsSound, ZipsExact, ArchiveOfOneInstant, At
  <1>5. Archives = {}
    BY DEF Init, Archives, At
  <1>6. TempsBounded
    BY <1>5, FS_EmptySet, ArchivesFinite DEF Init, TempsBounded
  <1> QED
    BY <1>3, <1>4, <1>6 DEF Sound

\* Every step keeps the invariant.
LEMMA SoundStep == Sound /\ [Next]_vars => Sound'
  <1> SUFFICES ASSUME Sound, [Next]_vars PROVE Sound'
    OBVIOUS
  <1>1. CASE UNCHANGED vars
    BY <1>1 DEF vars, Sound, TypeOK, CopyIsThere, Copies, DownloadsSound, DownloadSound,
                ReadsInPlace, Exact, Writes, ZipsExact, ArchiveOfOneInstant, At,
                TempsBounded, Archives
  <1>2. CASE Next
    BY <1>2, CopyPieceStep, CopyEnds, CrashStep, DeleteStep, OpenForUploadStep,
       StatStep, OpenStep, ReadStep, GoOnStep, DownloadArchiveStep, ArchiveWrittenStep,
       ArchiveEnds, DownloadFileStep, WriteEntryStep
    DEF Next
  <1> QED
    BY <1>1, <1>2

\* The invariant always holds.
LEMMA AlwaysSound == Spec => []Sound
  BY SoundInit, SoundStep, PTL DEF Spec

\* A download that the client received in full is the file as it was when the download
\* began, whatever was deleted or uploaded between the stat, the open and the reads of
\* its FileResponse, unless an upload to its path was counted as overwriting it.
THEOREM CompleteDownloadsAreExact == Spec => []CompleteIsExact
  <1>1. Sound => CompleteIsExact
    <2> SUFFICES ASSUME Sound, NEW r \in Requests, Complete(r), ~response[r].overwritten
                 PROVE  response[r].got = response[r].began
      BY DEF CompleteIsExact
    <2> DEFINE d == response[r]
    <2>1. At(r, DownloadSteps) /\ d.at # "stat" /\ Len(d.got) = d.size
      BY DEF Complete, At, DownloadSteps
    <2>2. PartOf(d.got, d.began) /\ Len(d.got) = Len(d.began)
          /\ d.got \in Pieces /\ d.began \in Pieces
      BY <2>1, UnderWay DEF DownloadSound, Exact
    <2> QED
      BY <2>2, SeqEqual DEF PartOf, Pieces
  <1> QED
    BY <1>1, AlwaysSound, PTL

\* An archive that is sent holds each file as it was at one instant: _write_archive runs
\* without a wait, so no upload or deletion comes between two of its entries.
THEOREM ArchivesAreOfOneInstant == Spec => []ArchiveOfOneInstant
  <1>1. Sound => ArchiveOfOneInstant
    BY DEF Sound
  <1> QED
    BY <1>1, AlwaysSound, PTL

\* The variables have their types, and each temporary archive that is left behind cost an
\* error or a crash: the background task of the response removes the others (_unlink).
THEOREM TempsDoNotPileUp == Spec => []NoStrayArchives
  <1>1. Sound => NoStrayArchives
    BY DEF Sound, TempsBounded, Archives, NoStrayArchives
  <1> QED
    BY <1>1, AlwaysSound, PTL
-----------------------------------------------------------------------------
(* Counting. *)

\* A set of naturals that is not empty has a least member.
LEMMA LeastNumber ==
    ASSUME NEW T \in SUBSET Nat, T # {}
    PROVE  \E n \in T : \A m \in T : n <= m
  <1> DEFINE R == OpToRel(<, Nat)
  <1>1. IsWellFoundedOn(R, Nat)
    BY NatLessThanWellFounded
  <1>2. \A n \in Nat, m \in Nat : m < n => <<m, n>> \in R
    BY DEF OpToRel
  <1> HIDE DEF R
  <1>3. PICK n \in T : \A m \in T : ~(<<m, n>> \in R)
    BY <1>1, WFMin
  <1>4. \A m \in T : n \in Nat /\ m \in Nat /\ ~(m < n)
    BY <1>2, <1>3
  <1> QED
    BY <1>4

\* Induction up to n, for what can be said by membership in a set.
LEMMA CountingUp ==
    ASSUME NEW n \in Nat, NEW T, 0 \in T,
           \A i \in 1 .. n : i - 1 \in T => i \in T
    PROVE  0 .. n \subseteq T
  <1> DEFINE U == {i \in 0 .. n : i \notin T}
  <1> SUFFICES ASSUME U # {} PROVE FALSE
    OBVIOUS
  <1>1. U \in SUBSET Nat
    OBVIOUS
  <1> HIDE DEF U
  <1>2. PICK i \in U : \A j \in U : i <= j
    BY <1>1, LeastNumber
  <1> USE DEF U
  <1>3. i \in 1 .. n /\ i - 1 \in T
    BY <1>2
  <1> QED
    BY <1>2, <1>3

\* g holds the values of a computation from q in n steps.
IsTrace(g, n, q, step) == g[0] = q /\ \A i \in 1 .. n : g[i] = step[i][g[i - 1]]

\* A value that is computed in n steps has a trace.
LEMMA TraceExists ==
    ASSUME NEW n \in Nat, NEW Q, NEW q \in Q, NEW step \in [1 .. n -> [Q -> Q]]
    PROVE  \E g \in [0 .. n -> Q] : IsTrace(g, n, q, step)
  <1> DEFINE Is(k, g) == IsTrace(g, k, q, step)
             T == {k \in 0 .. n : \E g \in [0 .. k -> Q] : Is(k, g)}
  <1>1. 0 \in T
    <2>1. [i \in 0 .. 0 |-> q] \in [0 .. 0 -> Q] /\ Is(0, [i \in 0 .. 0 |-> q])
      BY DEF IsTrace
    <2>2. 0 \in 0 .. n
      OBVIOUS
    <2> QED
      BY <2>1, <2>2
  <1>2. ASSUME NEW k \in 1 .. n, k - 1 \in T PROVE k \in T
    <2>1. PICK g \in [0 .. k - 1 -> Q] : Is(k - 1, g)
      BY <1>2
    <2> DEFINE x == step[k][g[k - 1]]
               h == [i \in 0 .. k |-> IF i = k THEN x ELSE g[i]]
    <2>2. g[k - 1] \in Q
      OBVIOUS
    <2>3. x \in Q
      BY <2>2
    <2> HIDE DEF x
    <2>4. h \in [0 .. k -> Q]
      BY <2>3
    <2>5. h[k] = x /\ \A i \in 0 .. k - 1 : h[i] = g[i]
      OBVIOUS
    <2> HIDE DEF h
    <2>6. 0 \in 0 .. k - 1 /\ k - 1 \in 0 .. k - 1
      OBVIOUS
    <2>7. h[0] = q
      BY <2>1, <2>5, <2>6 DEF IsTrace
    <2>8. ASSUME NEW i \in 1 .. k PROVE h[i] = step[i][h[i - 1]]
      <3>1. CASE i = k
        BY <3>1, <2>5, <2>6 DEF x
      <3>2. CASE i # k
        <4>1. i \in 1 .. k - 1 /\ i \in 0 .. k - 1 /\ i - 1 \in 0 .. k - 1
          BY <3>2
        <4> QED
          BY <4>1, <2>1, <2>5 DEF IsTrace
      <3> QED
        BY <3>1, <3>2
    <2>9. Is(k, h)
      BY <2>7, <2>8 DEF IsTrace
    <2>10. k \in 0 .. n
      OBVIOUS
    <2> HIDE DEF Is
    <2> QED
      BY <2>4, <2>9, <2>10
  <1>3. n \in T
    <2> HIDE DEF T
    <2>1. \A i \in 1 .. n : i - 1 \in T => i \in T
      BY <1>2
    <2>2. 0 .. n \subseteq T
      BY <1>1, <2>1, CountingUp
    <2> QED
      BY <2>2
  <1> QED
    BY <1>3
-----------------------------------------------------------------------------
(* Walks through the file system. *)

\* A function that satisfies the equation of a walk is its trace.
LEMMA WalkIsTrace ==
    ASSUME NEW place, NEW name \in Seq(Segments), NEW g,
           g = [i \in 0 .. Len(name) |-> IF i = 0 THEN place ELSE Step(g[i - 1], name[i])]
    PROVE  Walk(place, name) = g[Len(name)]
  <1> DEFINE n == Len(name)
             F(f) == [i \in 0 .. n |-> IF i = 0 THEN place ELSE Step(f[i - 1], name[i])]
             at == CHOOSE f : f = F(f)
  <1>1. n \in Nat
    OBVIOUS
  <1>2. g = F(g)
    OBVIOUS
  <1>3. Walk(place, name) = at[n]
    BY DEF Walk
  <1> HIDE DEF F
  <1>4. at = F(at)
    BY <1>2
  <1> HIDE DEF at
  <1> USE DEF F
  <1> DEFINE T == {i \in 0 .. n : at[i] = g[i]}
  <1> HIDE DEF n
  <1>5. 0 \in T
    <2>1. 0 \in 0 .. n
      BY <1>1
    <2> QED
      BY <1>2, <1>4, <2>1
  <1>6. ASSUME NEW i \in 1 .. n, i - 1 \in T PROVE i \in T
    <2>1. i \in 0 .. n /\ i # 0
      BY <1>1
    <2>2. at[i] = Step(at[i - 1], name[i]) /\ g[i] = Step(g[i - 1], name[i])
      BY <2>1, <1>2, <1>4
    <2> QED
      BY <2>1, <2>2, <1>6
  <1> HIDE DEF T
  <1>7. 0 .. n \subseteq T
    BY <1>1, <1>5, <1>6, CountingUp
  <1>8. n \in 0 .. n
    BY <1>1
  <1> QED
    BY <1>3, <1>7, <1>8 DEF T, n

\* The segments that name no file are three.
LEMMA SpecialSegments == Empty # "." /\ Empty # ".." /\ "." # ".."
  BY Zenon DEF Empty

\* A segment leads from a place to a place.
LEMMA StepType ==
    ASSUME NEW at \in Seq(Segments), NEW segment \in Segments
    PROVE  Step(at, segment) \in Seq(Segments)
  <1>1. CASE segment \in {Empty, "."}
    BY <1>1, SpecialSegments DEF Step
  <1>2. CASE segment = ".."
    <2>1. at # <<>> => Front(at) \in Seq(Segments)
      BY DEF Front
    <2> QED
      BY <1>2, <2>1, SpecialSegments DEF Step
  <1>3. CASE segment \notin {Empty, ".", ".."}
    <2>1. segment # Empty /\ segment # "." /\ segment # ".."
      BY <1>3
    <2>2. Step(at, segment) = Append(at, segment)
      BY <2>1 DEF Step
    <2>3. Append(at, segment) \in Seq(Segments)
      OBVIOUS
    <2> QED
      BY <2>2, <2>3
  <1> QED
    BY <1>1, <1>2, <1>3

\* A walk goes segment by segment.
LEMMA WalkStepwise ==
    ASSUME NEW place \in Seq(Segments), NEW name \in Seq(Segments)
    PROVE  /\ Walk(place, SubSeq(name, 1, 0)) = place
           /\ \A k \in 1 .. Len(name) :
                 Walk(place, SubSeq(name, 1, k)) =
                     Step(Walk(place, SubSeq(name, 1, k - 1)), name[k])
           /\ \A k \in 0 .. Len(name) : Walk(place, SubSeq(name, 1, k)) \in Seq(Segments)
           /\ Walk(place, name) = Walk(place, SubSeq(name, 1, Len(name)))
  <1> DEFINE n == Len(name)
             P == Seq(Segments)
             step == [i \in 1 .. n |-> [at \in P |-> Step(at, name[i])]]
  <1>1. n \in Nat /\ \A i \in 1 .. n : name[i] \in Segments
    OBVIOUS
  <1> HIDE DEF n
  <1>2. \A i \in 1 .. n, at \in P : Step(at, name[i]) \in P
    BY <1>1, StepType
  <1> HIDE DEF P
  <1>3. step \in [1 .. n -> [P -> P]]
    BY <1>2
  <1>4. \A i \in 1 .. n, at \in P : step[i][at] = Step(at, name[i])
    OBVIOUS
  <1>5. place \in P
    BY DEF P
  <1> HIDE DEF step
  <1>6. PICK g \in [0 .. n -> P] : IsTrace(g, n, place, step)
    BY <1>1, <1>3, <1>5, TraceExists
  <1>7. ASSUME NEW i \in 1 .. n PROVE g[i] = Step(g[i - 1], name[i])
    <2>1. i - 1 \in 0 .. n
      BY <1>1
    <2>2. g[i - 1] \in P
      BY <2>1
    <2> QED
      BY <2>2, <1>4, <1>6 DEF IsTrace
  <1>8. ASSUME NEW k \in 0 .. n PROVE Walk(place, SubSeq(name, 1, k)) = g[k]
    <2> DEFINE part == SubSeq(name, 1, k)
               h == [i \in 0 .. k |-> g[i]]
    <2>1. part \in Seq(Segments) /\ Len(part) = k /\ \A i \in 1 .. k : part[i] = name[i]
      BY <1>1 DEF n
    <2> HIDE DEF part
    <2>2. ASSUME NEW i \in 0 .. k
          PROVE  h[i] = IF i = 0 THEN place ELSE Step(h[i - 1], part[i])
      <3>1. CASE i = 0
        BY <3>1, <1>6 DEF IsTrace
      <3>2. CASE i # 0
        <4>1. i \in 1 .. k /\ i \in 1 .. n /\ i - 1 \in 0 .. k
          BY <1>1, <3>2
        <4> QED
          BY <4>1, <3>2, <2>1, <1>7
      <3> QED
        BY <3>1, <3>2
    <2>3. h = [i \in 0 .. k |-> IF i = 0 THEN place ELSE Step(h[i - 1], part[i])]
      <3> DEFINE e(i) == IF i = 0 THEN place ELSE Step(h[i - 1], part[i])
      <3>1. h = [i \in 0 .. k |-> h[i]]
        OBVIOUS
      <3>2. \A i \in 0 .. k : h[i] = e(i)
        BY <2>2
      <3> HIDE DEF h, e
      <3>3. h = [i \in 0 .. k |-> e(i)]
        BY <3>1, <3>2
      <3> QED
        BY <3>3 DEF e
    <2>4. h[k] = g[k]
      BY <1>1
    <2> HIDE DEF h
    <2>5. Walk(place, part) = h[Len(part)]
      BY <2>1, <2>3, WalkIsTrace
    <2> QED
      BY <2>1, <2>4, <2>5 DEF part
  <1>9. \A k \in 1 .. n : k \in 0 .. n /\ k - 1 \in 0 .. n
    BY <1>1
  <1>10. 0 \in 0 .. n
    BY <1>1
  <1>11. SubSeq(name, 1, Len(name)) = name
    OBVIOUS
  <1> QED
    BY <1>6, <1>7, <1>8, <1>9, <1>10, <1>11 DEF n, P, IsTrace
-----------------------------------------------------------------------------
(* Names and prefixes. *)

\* A prefix has the segments the longer path begins with.
LEMMA PrefixPointwise ==
    ASSUME NEW s \in Seq(Segments), NEW t \in Seq(Segments)
    PROVE  IsPrefix(s, t) <=> /\ Len(s) <= Len(t)
                              /\ \A i \in 1 .. Len(s) : s[i] = t[i]
  <1>1. ASSUME Len(s) <= Len(t)
        PROVE  SubSeq(s, 1, Len(s)) = SubSeq(t, 1, Len(s)) <=>
                   \A i \in 1 .. Len(s) : s[i] = t[i]
    <2> DEFINE a == SubSeq(s, 1, Len(s))
               b == SubSeq(t, 1, Len(s))
    <2>1. /\ a \in Seq(Segments) /\ b \in Seq(Segments)
          /\ Len(a) = Len(s) /\ Len(b) = Len(s)
          /\ \A i \in 1 .. Len(s) : a[i] = s[i] /\ b[i] = t[i]
      BY <1>1
    <2> HIDE DEF a, b
    <2>2. a = b <=> \A i \in 1 .. Len(s) : s[i] = t[i]
      BY <2>1
    <2> QED
      BY <2>2 DEF a, b
  <1> QED
    BY <1>1 DEF IsPrefix

\* What is put after a path makes it longer.
LEMMA PrefixOfConcat ==
    ASSUME NEW s \in Seq(Segments), NEW t \in Seq(Segments)
    PROVE  IsPrefix(s, s \o t) /\ (t # <<>> => IsStrictPrefix(s, s \o t))
  <1>1. s \o t \in Seq(Segments) /\ Len(s) <= Len(s \o t)
    OBVIOUS
  <1>2. \A i \in 1 .. Len(s) : s[i] = (s \o t)[i]
    OBVIOUS
  <1>3. t # <<>> => s # s \o t
    <2>1. t # <<>> => Len(s \o t) # Len(s)
      OBVIOUS
    <2> QED
      BY <2>1
  <1> QED
    BY <1>1, <1>2, <1>3, PrefixPointwise DEF IsStrictPrefix

\* A path that begins with another is that one and the rest.
LEMMA PrefixAndRest ==
    ASSUME NEW s \in Seq(Segments), NEW t \in Seq(Segments), IsPrefix(s, t)
    PROVE  LET rest == SubSeq(t, Len(s) + 1, Len(t))
           IN  /\ rest \in Seq(Segments)
               /\ t = s \o rest
               /\ IsStrictPrefix(s, t) => rest # <<>>
  <1> DEFINE rest == SubSeq(t, Len(s) + 1, Len(t))
             both == s \o rest
  <1>1. /\ Len(s) \in Nat /\ Len(t) \in Nat /\ Len(s) <= Len(t)
        /\ \A i \in 1 .. Len(s) : s[i] = t[i]
    BY PrefixPointwise
  <1>2. /\ rest \in Seq(Segments)
        /\ Len(rest) = Len(t) - Len(s)
        /\ \A i \in 1 .. Len(t) - Len(s) : rest[i] = t[Len(s) + i]
    BY <1>1
  <1> HIDE DEF rest
  <1>3. both \in Seq(Segments) /\ Len(both) = Len(t)
    BY <1>1, <1>2
  <1>4. ASSUME NEW i \in 1 .. Len(t) PROVE both[i] = t[i]
    <2>1. CASE i <= Len(s)
      <3>1. i \in 1 .. Len(s)
        BY <2>1, <1>1
      <3>2. both[i] = s[i]
        BY <3>1, <1>1, <1>2
      <3> QED
        BY <3>1, <3>2, <1>1
    <2>2. CASE ~(i <= Len(s))
      <3>1. i - Len(s) \in 1 .. Len(t) - Len(s) /\ Len(s) + (i - Len(s)) = i
        BY <2>2, <1>1
      <3>2. both[i] = rest[i - Len(s)]
        BY <2>2, <1>1, <1>2
      <3> QED
        BY <3>1, <3>2, <1>2
    <2> QED
      BY <2>1, <2>2
  <1> HIDE DEF both
  <1>5. both = t
    BY <1>3, <1>4
  <1>6. s # t => rest # <<>>
    <2>1. rest = <<>> => both = s
      BY DEF both
    <2> QED
      BY <2>1, <1>5
  <1> QED
    BY <1>2, <1>5, <1>6 DEF rest, both, IsStrictPrefix

\* What strip leaves: all of the name between its first and its final segment that is not
\* empty.
LEMMA StrippedIs ==
    ASSUME NEW name \in Seq(Segments), NEW a \in 1 .. Len(name), NEW b \in 1 .. Len(name),
           name[a] # Empty, name[b] # Empty,
           \A j \in 1 .. Len(name) : name[j] # Empty => a <= j /\ j <= b
    PROVE  Stripped(name) = SubSeq(name, a, b)
  <1> DEFINE filled == {i \in DOMAIN name : name[i] # Empty}
             first == CHOOSE i \in filled : \A j \in filled : i <= j
             final  == CHOOSE i \in filled : \A j \in filled : j <= i
  <1>1. /\ a \in filled /\ b \in filled
        /\ \A j \in filled : j \in Nat /\ a <= j /\ j <= b
    OBVIOUS
  <1>2. Stripped(name) = IF filled = {} THEN <<>> ELSE SubSeq(name, first, final)
    BY DEF Stripped
  <1> HIDE DEF filled
  <1>3. first \in filled /\ \A j \in filled : first <= j
    BY <1>1
  <1>4. final \in filled /\ \A j \in filled : j <= final
    BY <1>1
  <1> HIDE DEF first, final
  <1>5. first = a /\ final = b
    <2>1. first <= a /\ a <= first /\ b <= final /\ final <= b
      BY <1>1, <1>3, <1>4
    <2> QED
      BY <2>1, <1>1, <1>3, <1>4
  <1>6. filled # {}
    BY <1>1
  <1> QED
    BY <1>2, <1>5, <1>6

\* Where strip cuts a name that is more than slashes.
LEMMA StrippedWhere ==
    ASSUME NEW name \in Seq(Segments), \E i \in 1 .. Len(name) : name[i] # Empty
    PROVE  \E a \in 1 .. Len(name), b \in 1 .. Len(name) :
              /\ name[a] # Empty /\ name[b] # Empty /\ a <= b
              /\ \A j \in 1 .. Len(name) : name[j] # Empty => a <= j /\ j <= b
              /\ Stripped(name) = SubSeq(name, a, b)
  <1> DEFINE n == Len(name)
             filled == {i \in 1 .. n : name[i] # Empty}
             mirror == {i \in 1 .. n : name[n + 1 - i] # Empty}
  <1>1. n \in Nat
    OBVIOUS
  <1> HIDE DEF n
  <1>2. filled \in SUBSET Nat /\ mirror \in SUBSET Nat /\ filled # {}
    BY DEF n
  <1>3. \A i \in filled : n + 1 - i \in mirror
    BY <1>1
  <1>4. mirror # {}
    BY <1>2, <1>3
  <1>5. PICK a \in filled : \A j \in filled : a <= j
    BY <1>2, LeastNumber
  <1>6. PICK c \in mirror : \A j \in mirror : c <= j
    <2> HIDE DEF mirror
    <2> QED
      BY <1>2, <1>4, LeastNumber
  <1> DEFINE b == n + 1 - c
  <1>7. b \in filled /\ \A j \in filled : j <= b
    <2>1. b \in 1 .. n /\ name[b] # Empty
      BY <1>1, <1>6
    <2>2. ASSUME NEW j \in filled PROVE j <= b
      <3>1. c <= n + 1 - j
        BY <1>3, <1>6
      <3> QED
        BY <3>1, <1>1, <1>6
    <2> QED
      BY <2>1, <2>2
  <1> HIDE DEF b
  <1>8. Stripped(name) = SubSeq(name, a, b)
    BY <1>5, <1>7, StrippedIs DEF n
  <1> QED
    BY <1>5, <1>7, <1>8 DEF n

\* strip leaves nothing of slashes alone.
LEMMA StrippedBlank ==
    ASSUME NEW name \in Seq(Segments), \A i \in 1 .. Len(name) : name[i] = Empty
    PROVE  Stripped(name) = <<>>
  <1>1. {i \in DOMAIN name : name[i] # Empty} = {}
    OBVIOUS
  <1> QED
    BY <1>1 DEF Stripped

\* What strip leaves is a name.
LEMMA StrippedType ==
    ASSUME NEW name \in Seq(Segments)
    PROVE  Stripped(name) \in Seq(Segments)
  <1>1. CASE \E i \in 1 .. Len(name) : name[i] # Empty
    <2>1. PICK a \in 1 .. Len(name), b \in 1 .. Len(name) :
              Stripped(name) = SubSeq(name, a, b)
      BY <1>1, StrippedWhere
    <2>2. SubSeq(name, a, b) \in Seq(Segments)
      OBVIOUS
    <2> QED
      BY <2>1, <2>2
  <1>2. CASE \A i \in 1 .. Len(name) : name[i] = Empty
    <2>1. Stripped(name) = <<>>
      BY <1>2, StrippedBlank
    <2> QED
      BY <2>1
  <1> QED
    BY <1>1, <1>2

\* strip leaves a clean name as it is, and takes the slashes around one away.
LEMMA StrippedClean ==
    ASSUME NEW name \in Seq(Segments), Clean(name), name # <<>>
    PROVE  Stripped(name) = name /\ Stripped(<<Empty>> \o name \o <<Empty>>) = name
  <1> DEFINE n == Len(name)
             padded == <<Empty>> \o name \o <<Empty>>
  <1>1. n \in Nat /\ n >= 1 /\ \A i \in 1 .. n : name[i] \in Segments /\ name[i] # Empty
    BY DEF Clean
  <1>2. Stripped(name) = name
    <2>1. 1 \in 1 .. n /\ n \in 1 .. n /\ SubSeq(name, 1, n) = name
      BY <1>1
    <2>2. \A j \in 1 .. n : 1 <= j /\ j <= n
      BY <1>1
    <2> QED
      BY <1>1, <2>1, <2>2, StrippedIs
  <1>3. /\ padded \in Seq(Segments) /\ Len(padded) = n + 2
        /\ padded[1] = Empty /\ padded[n + 2] = Empty
        /\ \A i \in 1 .. n : padded[i + 1] = name[i]
    BY PathsAssumption
  <1> HIDE DEF n, padded
  <1>4. \A j \in 1 .. Len(padded) : padded[j] # Empty => 2 <= j /\ j <= n + 1
    BY <1>1, <1>3
  <1>5. padded[2] # Empty /\ padded[n + 1] # Empty
    <2>1. padded[1 + 1] = name[1] /\ padded[n + 1] = name[n]
      BY <1>1, <1>3
    <2>2. name[1] # Empty /\ name[n] # Empty
      BY <1>1
    <2> QED
      BY <2>1, <2>2
  <1>6. 2 \in 1 .. Len(padded) /\ n + 1 \in 1 .. Len(padded)
    BY <1>1, <1>3
  <1>7. Stripped(padded) = SubSeq(padded, 2, n + 1)
    BY <1>3, <1>4, <1>5, <1>6, StrippedIs
  <1>8. SubSeq(padded, 2, n + 1) = name
    <2> DEFINE core == SubSeq(padded, 2, n + 1)
    <2>1. core \in Seq(Segments) /\ Len(core) = n
      BY <1>1, <1>3
    <2>2. \A i \in 1 .. n : core[i] = padded[i + 1]
      BY <1>1, <1>3
    <2> HIDE DEF core
    <2>3. core = name
      BY <2>1, <2>2, <1>1, <1>3 DEF n
    <2> QED
      BY <2>3 DEF core
  <1> QED
    BY <1>2, <1>7, <1>8 DEF padded
-----------------------------------------------------------------------------
(* What names lead to. *)

\* An ordinary segment goes one level down, an empty one stays.
LEMMA StepDown ==
    ASSUME NEW at, NEW segment
    PROVE  /\ segment \notin {Empty} \cup Dots => Step(at, segment) = Append(at, segment)
           /\ Step(at, Empty) = at
  BY SpecialSegments DEF Step, Dots

\* Along a clean name the walk goes down, segment by segment.
LEMMA CleanWalk ==
    ASSUME NEW place \in Seq(Segments), NEW name \in Seq(Segments), Clean(name)
    PROVE  Walk(place, name) = place \o name
  <1> DEFINE n == Len(name)
             g == [i \in 0 .. n |-> place \o SubSeq(name, 1, i)]
  <1>1. /\ n \in Nat
        /\ \A i \in 1 .. n : name[i] \in Segments /\ name[i] \notin {Empty} \cup Dots
    BY DEF Clean
  <1>2. place \o SubSeq(name, 1, 0) = place /\ place \o SubSeq(name, 1, n) = place \o name
    OBVIOUS
  <1>3. ASSUME NEW i \in 1 .. n
        PROVE  place \o SubSeq(name, 1, i) = Append(place \o SubSeq(name, 1, i - 1), name[i])
    <2> DEFINE before == SubSeq(name, 1, i - 1)
    <2>1. before \in Seq(Segments) /\ name[i] \in Segments
      OBVIOUS
    <2>2. SubSeq(name, 1, i) = Append(before, name[i])
      OBVIOUS
    <2> HIDE DEF before
    <2>3. place \o Append(before, name[i]) = Append(place \o before, name[i])
      BY <2>1
    <2> QED
      BY <2>2, <2>3 DEF before
  <1> HIDE DEF n
  <1>4. ASSUME NEW i \in 0 .. n
        PROVE  g[i] = IF i = 0 THEN place ELSE Step(g[i - 1], name[i])
    <2>1. CASE i = 0
      <3>1. g[0] = place \o SubSeq(name, 1, 0)
        BY <1>1
      <3> QED
        BY <2>1, <3>1, <1>2
    <2>2. CASE i # 0
      <3>1. i \in 1 .. n /\ i - 1 \in 0 .. n
        BY <2>2, <1>1
      <3>2. g[i] = place \o SubSeq(name, 1, i) /\ g[i - 1] = place \o SubSeq(name, 1, i - 1)
        BY <3>1
      <3> HIDE DEF g
      <3>3. Step(g[i - 1], name[i]) = Append(g[i - 1], name[i])
        BY <3>1, <1>1, StepDown
      <3> QED
        BY <2>2, <3>1, <3>2, <3>3, <1>3
    <2> QED
      BY <2>1, <2>2
  <1>5. g = [i \in 0 .. n |-> IF i = 0 THEN place ELSE Step(g[i - 1], name[i])]
    <2> DEFINE e(i) == IF i = 0 THEN place ELSE Step(g[i - 1], name[i])
    <2>1. g = [i \in 0 .. n |-> g[i]]
      OBVIOUS
    <2>2. \A i \in 0 .. n : g[i] = e(i)
      BY <1>4
    <2> HIDE DEF g, e
    <2>3. g = [i \in 0 .. n |-> e(i)]
      BY <2>1, <2>2
    <2> QED
      BY <2>3 DEF e
  <1>6. g[n] = place \o SubSeq(name, 1, n)
    BY <1>1
  <1> HIDE DEF g
  <1>7. Walk(place, name) = g[n]
    BY <1>5, WalkIsTrace DEF n
  <1> QED
    BY <1>2, <1>6, <1>7

\* The slashes around a name lead nowhere: if what strip leaves is clean, the walk along
\* the whole name ends where the walk along the rest ends.
LEMMA PaddedWalk ==
    ASSUME NEW place \in Seq(Segments), NEW name \in Seq(Segments), Clean(Stripped(name))
    PROVE  Walk(place, name) = place \o Stripped(name)
  <1> DEFINE n == Len(name)
             core == Stripped(name)
  <1>1. n \in Nat /\ core \in Seq(Segments) /\ place \o <<>> = place
    BY StrippedType
  <1>2. CASE \E i \in 1 .. n : name[i] # Empty
    <2>1. PICK a \in 1 .. n, b \in 1 .. n :
              /\ name[a] # Empty /\ name[b] # Empty /\ a <= b
              /\ \A j \in 1 .. n : name[j] # Empty => a <= j /\ j <= b
              /\ core = SubSeq(name, a, b)
      BY <1>2, StrippedWhere
    <2> DEFINE gone(i) == IF i < b THEN i ELSE b
               g == [i \in 0 .. n |-> place \o SubSeq(name, a, gone(i))]
    <2>2. \A i \in a .. b : name[i] \in Segments /\ name[i] \notin {Empty} \cup Dots
      <3>1. \A i \in a .. b : /\ i - a + 1 \in 1 .. Len(SubSeq(name, a, b))
                              /\ SubSeq(name, a, b)[i - a + 1] = name[i]
                              /\ name[i] \in Segments
        BY <2>1
      <3>2. \A k \in 1 .. Len(core) : core[k] \notin {Empty} \cup Dots
        <4>1. DOMAIN core = 1 .. Len(core)
          BY <1>1
        <4> QED
          BY <4>1 DEF Clean
      <3> HIDE DEF core
      <3> QED
        BY <2>1, <3>1, <3>2
    <2>3. g[0] = place
      <3>1. SubSeq(name, a, 0) = <<>>
        OBVIOUS
      <3>2. g[0] = place \o SubSeq(name, a, 0)
        BY <1>1
      <3> QED
        BY <3>1, <3>2, <1>1
    <2>4. ASSUME NEW i \in 1 .. n
          PROVE  g[i] = Step(g[i - 1], name[i])
      <3>1. /\ g[i] = place \o SubSeq(name, a, gone(i))
            /\ g[i - 1] = place \o SubSeq(name, a, gone(i - 1))
        BY <1>1
      <3>2. CASE i < a
        <4>1. gone(i) < a /\ gone(i - 1) < a /\ gone(i) \in Nat /\ gone(i - 1) \in Nat
          BY <3>2, <2>1
        <4>2. SubSeq(name, a, gone(i)) = <<>> /\ SubSeq(name, a, gone(i - 1)) = <<>>
          <5> HIDE DEF gone
          <5> QED
            BY <4>1
        <4>3. name[i] = Empty
          BY <3>2, <2>1
        <4> QED
          BY <3>1, <4>2, <4>3, StepDown
      <3>3. CASE i > b
        <4>1. gone(i) = b /\ gone(i - 1) = b
          BY <3>3, <2>1
        <4>2. name[i] = Empty
          BY <3>3, <2>1
        <4> QED
          BY <3>1, <4>1, <4>2, StepDown
      <3>4. CASE i \in a .. b
        <4>1. gone(i) = i /\ gone(i - 1) = i - 1
          BY <3>4, <2>1
        <4> DEFINE before == SubSeq(name, a, i - 1)
        <4>2. before \in Seq(Segments) /\ name[i] \in Segments
          BY <3>4
        <4>3. SubSeq(name, a, i) = Append(before, name[i])
          BY <3>4
        <4> HIDE DEF before
        <4>4. place \o Append(before, name[i]) = Append(place \o before, name[i])
          BY <4>2
        <4>5. g[i - 1] = place \o before /\ g[i] = place \o Append(before, name[i])
          BY <3>1, <4>1, <4>3 DEF before
        <4>6. Step(place \o before, name[i]) = Append(place \o before, name[i])
          BY <3>4, <2>2, StepDown
        <4> QED
          BY <4>4, <4>5, <4>6
      <3>5. i < a \/ i > b \/ i \in a .. b
        OBVIOUS
      <3> QED
        BY <3>2, <3>3, <3>4, <3>5
    <2>5. g = [i \in 0 .. n |-> IF i = 0 THEN place ELSE Step(g[i - 1], name[i])]
      <3> DEFINE e(i) == IF i = 0 THEN place ELSE Step(g[i - 1], name[i])
      <3>1. g = [i \in 0 .. n |-> g[i]]
        OBVIOUS
      <3> HIDE DEF g
      <3>2. \A i \in 0 .. n : g[i] = e(i)
        BY <1>1, <2>3, <2>4
      <3> HIDE DEF e
      <3>3. g = [i \in 0 .. n |-> e(i)]
        BY <3>1, <3>2
      <3> QED
        BY <3>3 DEF e
    <2>6. g[n] = place \o core
      <3>1. n \in 0 .. n /\ gone(n) = b
        BY <1>1
      <3> QED
        BY <3>1, <2>1
    <2> HIDE DEF g
    <2>7. Walk(place, name) = g[Len(name)]
      BY <2>5, WalkIsTrace
    <2> QED
      BY <2>6, <2>7
  <1>3. CASE \A i \in 1 .. n : name[i] = Empty
    <2> DEFINE g == [i \in 0 .. n |-> place]
    <2>1. \A i \in 1 .. n : Step(place, name[i]) = place
      BY <1>3, StepDown
    <2>2. g = [i \in 0 .. n |-> IF i = 0 THEN place ELSE Step(g[i - 1], name[i])]
      <3> DEFINE e(i) == IF i = 0 THEN place ELSE Step(g[i - 1], name[i])
      <3>1. \A i \in 0 .. n : place = e(i)
        <4>1. \A i \in 1 .. n : i - 1 \in 0 .. n /\ g[i - 1] = place
          BY <1>1
        <4> HIDE DEF g
        <4> QED
          BY <4>1, <2>1, <1>1
      <3> HIDE DEF e
      <3>2. g = [i \in 0 .. n |-> e(i)]
        BY <3>1
      <3> QED
        BY <3>2 DEF e
    <2>3. g[n] = place
      BY <1>1
    <2> HIDE DEF g
    <2>4. Walk(place, name) = g[Len(name)]
      BY <2>2, WalkIsTrace
    <2>5. core = <<>>
      BY <1>3, StrippedBlank
    <2> QED
      BY <2>3, <2>4, <2>5, <1>1
  <1> QED
    BY <1>2, <1>3
-----------------------------------------------------------------------------
(* The rules of the file store. *)

\* Two clean names in a row are a clean name, and so is the rest of one.
LEMMA CleanConcat ==
    ASSUME NEW s \in Seq(Segments), NEW t \in Seq(Segments)
    PROVE  Clean(s \o t) <=> Clean(s) /\ Clean(t)
  <1>1. /\ DOMAIN s = 1 .. Len(s) /\ DOMAIN t = 1 .. Len(t)
        /\ DOMAIN (s \o t) = 1 .. Len(s) + Len(t)
    OBVIOUS
  <1>2. /\ \A i \in 1 .. Len(s) : (s \o t)[i] = s[i] /\ i \in 1 .. Len(s) + Len(t)
        /\ \A i \in 1 .. Len(t) : /\ (s \o t)[Len(s) + i] = t[i]
                                  /\ Len(s) + i \in 1 .. Len(s) + Len(t)
    OBVIOUS
  <1>3. \A i \in 1 .. Len(s) + Len(t) :
            \/ i \in 1 .. Len(s)
            \/ \E j \in 1 .. Len(t) : i = Len(s) + j
    <2> SUFFICES ASSUME NEW i \in 1 .. Len(s) + Len(t), i \notin 1 .. Len(s)
                 PROVE  \E j \in 1 .. Len(t) : i = Len(s) + j
      OBVIOUS
    <2>1. i - Len(s) \in 1 .. Len(t) /\ i = Len(s) + (i - Len(s))
      OBVIOUS
    <2> QED
      BY <2>1
  <1>4. Clean(s \o t) => Clean(s) /\ Clean(t)
    BY <1>1, <1>2 DEF Clean
  <1>5. Clean(s) /\ Clean(t) => Clean(s \o t)
    BY <1>1, <1>2, <1>3 DEF Clean
  <1> QED
    BY <1>4, <1>5

\* A project and a version whose names _safe_segment takes.
SafePair(p, v) == Len(p) = 1 /\ Len(v) = 1 /\ Clean(p) /\ Clean(v)

\* A version's directory is two levels down, or there is none.
LEMMA DirectoryIs ==
    ASSUME NEW p \in Seq(Segments), NEW v \in Seq(Segments)
    PROVE  /\ SafePair(p, v) => DirectoryFor(p, v) = p \o v
           /\ ~SafePair(p, v) => DirectoryFor(p, v) = NoPath
           /\ p \o v \in Seq(Segments) /\ p \o v # NoPath
  <1>1. p # NoPath /\ v # NoPath /\ p \o v # NoPath /\ p \o v \in Seq(Segments)
    <2>1. p \o v \in Seq(Segments)
      OBVIOUS
    <2> QED
      BY <2>1, PathsAssumption
  <1>2. ASSUME SafePair(p, v) PROVE Walk(<<>>, p \o v) = p \o v
    <2>1. Clean(p \o v)
      BY <1>2, CleanConcat DEF SafePair
    <2>2. <<>> \in Seq(Segments) /\ <<>> \o (p \o v) = p \o v
      OBVIOUS
    <2> QED
      BY <1>1, <2>1, <2>2, CleanWalk
  <1>3. SafePair(p, v) <=> NoPath \notin {SafeSegment(p), SafeSegment(v)}
    BY <1>1 DEF SafePair, SafeSegment
  <1> QED
    BY <1>1, <1>2, <1>3 DEF DirectoryFor

\* Names that resolve at all resolve to what strip leaves of them, below the directory.
LEMMA ResolveIs ==
    ASSUME NEW p \in Seq(Segments), NEW v \in Seq(Segments), NEW n \in Seq(Segments)
    PROVE  Resolve(p, v, n) =
               IF SafePair(p, v) /\ Stripped(n) # <<>> /\ Clean(Stripped(n))
               THEN (p \o v) \o Stripped(n) ELSE NoPath
  <1> DEFINE r == Stripped(n)
             d == p \o v
  <1>1. /\ r \in Seq(Segments) /\ r # NoPath
        /\ d \in Seq(Segments) /\ d # NoPath
        /\ d \o r \in Seq(Segments)
    <2>1. r \in Seq(Segments)
      BY StrippedType
    <2> HIDE DEF r
    <2>2. d \in Seq(Segments) /\ d \o r \in Seq(Segments)
      BY <2>1
    <2> HIDE DEF d
    <2> QED
      BY <2>1, <2>2, PathsAssumption
  <1>2. SafeRelativePath(n) = IF r # <<>> /\ Clean(r) THEN r ELSE NoPath
    BY DEF SafeRelativePath
  <1>3. DirectoryFor(p, v) = IF SafePair(p, v) THEN d ELSE NoPath
    BY DirectoryIs
  <1>4. Clean(r) => Walk(d, r) = d \o r
    BY <1>1, CleanWalk
  <1>5. IsPrefix(d, d \o r)
    BY <1>1, PrefixOfConcat
  <1> HIDE DEF r, d
  <1>6. ASSUME SafePair(p, v) /\ r # <<>> /\ Clean(r)
        PROVE  Resolve(p, v, n) = d \o r
    BY <1>1, <1>2, <1>3, <1>4, <1>5, <1>6 DEF Resolve
  <1>7. ASSUME ~(SafePair(p, v) /\ r # <<>> /\ Clean(r))
        PROVE  Resolve(p, v, n) = NoPath
    BY <1>2, <1>3, <1>7 DEF Resolve
  <1> QED
    BY <1>6, <1>7 DEF r, d

\* Where a file of the tree can be: below the directory of a version, under a clean name.
IsFile(f) == f \in Seq(Segments) /\ Len(f) >= 3 /\ Clean(f)

\* The file system's own rule, which Store's guard keeps: no file is a directory.
TreeSound ==
    /\ \A f \in stored : IsFile(f)
    /\ \A f \in stored, g \in stored : ~IsStrictPrefix(f, g)

\* What a request names resolves to the place of a file.
LEMMA ResolvedIsFile ==
    ASSUME NEW p \in Seq(Segments), NEW v \in Seq(Segments), NEW n \in Seq(Segments),
           Resolve(p, v, n) # NoPath
    PROVE  /\ IsFile(Resolve(p, v, n))
           /\ Len(p) = 1 /\ Len(v) = 1
           /\ IsStrictPrefix(p \o v, Resolve(p, v, n))
  <1> DEFINE r == Stripped(n)
             d == p \o v
  <1>1. SafePair(p, v) /\ r # <<>> /\ Clean(r) /\ Resolve(p, v, n) = d \o r
    BY ResolveIs
  <1>2. r \in Seq(Segments) /\ d \in Seq(Segments)
    BY StrippedType
  <1>3. Clean(d) /\ Len(d) = 2
    <2>1. Len(p) = 1 /\ Len(v) = 1 /\ Clean(p) /\ Clean(v)
      BY <1>1 DEF SafePair
    <2>2. Len(d) = Len(p) + Len(v)
      OBVIOUS
    <2>3. Len(d) = 2
      BY <2>1, <2>2
    <2> QED
      BY <2>1, <2>3, CleanConcat
  <1> HIDE DEF r, d
  <1>4. Clean(d \o r)
    BY <1>1, <1>2, <1>3, CleanConcat
  <1>5. Len(d \o r) >= 3 /\ d \o r \in Seq(Segments)
    BY <1>1, <1>2, <1>3
  <1>6. IsStrictPrefix(d, d \o r)
    BY <1>1, <1>2, PrefixOfConcat
  <1> QED
    BY <1>1, <1>4, <1>5, <1>6 DEF IsFile, SafePair, d

\* A file of the tree is under its project and version, and the name that is left leads
\* back to it, with slashes around it too.
LEMMA FileNamed ==
    ASSUME NEW f, IsFile(f), NEW p \in Seq(Segments), NEW v \in Seq(Segments),
           SafePair(p, v), IsPrefix(p \o v, f)
    PROVE  LET name == SubSeq(f, 3, Len(f))
           IN  /\ name \in Seq(Segments) /\ name # <<>> /\ Clean(name)
               /\ f = (p \o v) \o name
               /\ Resolve(p, v, name) = f
               /\ Resolve(p, v, <<Empty>> \o name \o <<Empty>>) = f
               /\ IsStrictPrefix(p \o v, f)
  <1> DEFINE name == SubSeq(f, 3, Len(f))
             padded == <<Empty>> \o name \o <<Empty>>
             d == p \o v
  <1>1. d \in Seq(Segments) /\ Len(d) = 2 /\ f \in Seq(Segments)
    <2>1. Len(p) = 1 /\ Len(v) = 1 /\ f \in Seq(Segments)
      BY DEF SafePair, IsFile
    <2>2. d \in Seq(Segments) /\ Len(d) = Len(p) + Len(v)
      OBVIOUS
    <2> QED
      BY <2>1, <2>2
  <1>2. d # f
    BY <1>1 DEF IsFile
  <1> HIDE DEF d
  <1>3. name \in Seq(Segments) /\ f = d \o name /\ name # <<>>
    <2>1. SubSeq(f, Len(d) + 1, Len(f)) = name
      BY <1>1
    <2>2. IsStrictPrefix(d, f)
      BY <1>2 DEF IsStrictPrefix, d
    <2> HIDE DEF name
    <2> QED
      BY <1>1, <2>1, <2>2, PrefixAndRest DEF IsStrictPrefix
  <1> HIDE DEF name
  <1>4. Clean(name)
    BY <1>1, <1>3, CleanConcat DEF IsFile
  <1>5. Stripped(name) = name /\ Stripped(padded) = name
    BY <1>3, <1>4, StrippedClean
  <1>6. padded \in Seq(Segments)
    BY <1>3, PathsAssumption
  <1> HIDE DEF padded
  <1>7. Resolve(p, v, name) = d \o name
    BY <1>3, <1>4, <1>5, ResolveIs DEF d
  <1>8. Resolve(p, v, padded) = d \o name
    BY <1>3, <1>4, <1>5, <1>6, ResolveIs DEF d
  <1> QED
    BY <1>2, <1>3, <1>4, <1>7, <1>8 DEF d, padded, name, IsStrictPrefix

\* Every file is in the directory of the project and version its path begins with.
LEMMA FileAtHome ==
    ASSUME NEW f, IsFile(f)
    PROVE  /\ <<f[1]>> \in Seq(Segments) /\ <<f[2]>> \in Seq(Segments)
           /\ SafePair(<<f[1]>>, <<f[2]>>)
           /\ IsPrefix(<<f[1]>> \o <<f[2]>>, f)
  <1>1. /\ f \in Seq(Segments) /\ f[1] \in Segments /\ f[2] \in Segments
        /\ 1 \in DOMAIN f /\ 2 \in DOMAIN f /\ Len(f) >= 3
    BY DEF IsFile
  <1> DEFINE p == <<f[1]>>
             v == <<f[2]>>
             d == p \o v
  <1>2. p \in Seq(Segments) /\ v \in Seq(Segments) /\ Len(p) = 1 /\ Len(v) = 1
    BY <1>1
  <1>3. Clean(p) /\ Clean(v)
    <2>1. f[1] \notin {Empty} \cup Dots /\ f[2] \notin {Empty} \cup Dots
      BY <1>1 DEF IsFile, Clean
    <2>2. /\ \A i \in DOMAIN p : p[i] = f[1]
          /\ \A i \in DOMAIN v : v[i] = f[2]
      BY <1>1
    <2> QED
      BY <2>1, <2>2 DEF Clean
  <1>4. d \in Seq(Segments) /\ Len(d) = 2 /\ d[1] = f[1] /\ d[2] = f[2]
    BY <1>1
  <1> HIDE DEF d
  <1>5. \A i \in 1 .. Len(d) : d[i] = f[i]
    <2>1. \A i \in 1 .. Len(d) : i = 1 \/ i = 2
      BY <1>4
    <2> QED
      BY <1>4, <2>1
  <1>6. Len(d) <= Len(f)
    BY <1>1, <1>4
  <1>7. IsPrefix(d, f)
    BY <1>1, <1>4, <1>5, <1>6, PrefixPointwise
  <1> QED
    BY <1>2, <1>3, <1>7 DEF SafePair, d

\* A name below the directory of a version.
Below(p, v, name) == (p \o v) \o name

\* A project, a version and a name can be read off the sequence that they make together.
LEMMA TripleApart ==
    ASSUME NEW p \in Seq(Segments), NEW v \in Seq(Segments), NEW r \in Seq(Segments),
           NEW q \in Seq(Segments), NEW w \in Seq(Segments), NEW s \in Seq(Segments),
           Len(p) = 1, Len(v) = 1, Len(q) = 1, Len(w) = 1,
           Below(p, v, r) = Below(q, w, s)
    PROVE  p = q /\ v = w /\ r = s
  <1> DEFINE Is(all, x, y, z) ==
                 /\ Len(all) = Len(z) + 2 /\ all[1] = x[1] /\ all[2] = y[1]
                 /\ \A i \in 1 .. Len(z) : all[i + 2] = z[i]
  <1>1. ASSUME NEW x \in Seq(Segments), NEW y \in Seq(Segments), NEW z \in Seq(Segments),
               Len(x) = 1, Len(y) = 1
        PROVE  Is((x \o y) \o z, x, y, z)
    <2> DEFINE d == x \o y
               all == d \o z
    <2>1. d \in Seq(Segments) /\ Len(d) = Len(x) + Len(y)
      OBVIOUS
    <2>2. d[1] = x[1] /\ d[2] = y[1]
      <3>1. \A i \in 1 .. Len(x) + Len(y) : d[i] = IF i <= Len(x) THEN x[i] ELSE y[i - Len(x)]
        BY ConcatProperties
      <3> HIDE DEF d
      <3> QED
        BY <1>1, <3>1
    <2> HIDE DEF d
    <2>3. all \in Seq(Segments) /\ Len(all) = Len(d) + Len(z) /\ Len(z) \in Nat
      <3>1. all \in Seq(Segments) /\ Len(all) = Len(d) + Len(z)
        BY <2>1, ConcatProperties
      <3>2. Len(z) \in Nat
        OBVIOUS
      <3> QED
        BY <3>1, <3>2
    <2>4. Len(d) = 2 /\ 1 \in 1 .. Len(d) /\ 2 \in 1 .. Len(d)
      BY <1>1, <2>1
    <2>5. all[1] = d[1] /\ all[2] = d[2]
      BY <2>1, <2>4
    <2>6. \A i \in 1 .. Len(z) : all[Len(d) + i] = z[i]
      BY <2>1
    <2>7. \A i \in 1 .. Len(z) : all[i + 2] = z[i]
      <3> HIDE DEF all
      <3>1. \A i \in 1 .. Len(z) : Len(d) + i = i + 2
        BY <2>3, <2>4
      <3> QED
        BY <2>6, <3>1
    <2> HIDE DEF all
    <2>8. Is(all, x, y, z)
      BY <2>2, <2>3, <2>4, <2>5, <2>7
    <2> HIDE DEF Is
    <2> QED
      BY <2>8 DEF all, d
  <1> DEFINE all == (p \o v) \o r
  <1>2. Is(all, p, v, r) /\ Is(all, q, w, s)
    <2>1. all = (q \o w) \o s
      BY DEF Below
    <2> HIDE DEF Is, all
    <2>2. Is(all, p, v, r)
      BY <1>1 DEF all
    <2>3. Is(all, q, w, s)
      BY <1>1, <2>1
    <2> QED
      BY <2>2, <2>3
  <1> HIDE DEF all
  <1>3. p[1] = q[1] /\ v[1] = w[1]
    BY <1>2
  <1>4. \A x, y \in Seq(Segments) : Len(x) = 1 /\ Len(y) = 1 /\ x[1] = y[1] => x = y
    <2> SUFFICES ASSUME NEW x \in Seq(Segments), NEW y \in Seq(Segments),
                        Len(x) = 1, Len(y) = 1, x[1] = y[1]
                 PROVE  x = y
      OBVIOUS
    <2>1. \A i \in 1 .. Len(x) : x[i] = y[i]
      OBVIOUS
    <2> QED
      BY <2>1, SeqEqual
  <1>5. Len(r) = Len(s) /\ \A i \in 1 .. Len(r) : r[i] = s[i]
    <2>1. Len(r) \in Nat /\ Len(s) \in Nat
      OBVIOUS
    <2>2. Len(r) = Len(s)
      BY <1>2, <2>1
    <2> QED
      BY <1>2, <2>2
  <1>6. r = s
    BY <1>5, SeqEqual
  <1> QED
    BY <1>3, <1>4, <1>6

\* Two requests mean the same file exactly if they name the same project and version, and
\* names that differ in the slashes around them at most (_safe_segment, _safe_relative_path
\* and resolve of files.py): no file can be reached, overwritten or deleted under another
\* version or another name than its own.
THEOREM NamesAreApart ==
    ASSUME NEW p \in Seq(Segments), NEW v \in Seq(Segments), NEW n \in Seq(Segments),
           NEW q \in Seq(Segments), NEW w \in Seq(Segments), NEW m \in Seq(Segments),
           Resolve(p, v, n) # NoPath
    PROVE  Resolve(p, v, n) = Resolve(q, w, m) <=>
               p = q /\ v = w /\ Stripped(n) = Stripped(m)
  <1>1. SafePair(p, v) /\ Resolve(p, v, n) = (p \o v) \o Stripped(n)
    BY ResolveIs
  <1>2. ASSUME p = q, v = w, Stripped(n) = Stripped(m)
        PROVE  Resolve(p, v, n) = Resolve(q, w, m)
    <2>1. Resolve(p, v, n) = IF SafePair(p, v) /\ Stripped(n) # <<>> /\ Clean(Stripped(n))
                             THEN (p \o v) \o Stripped(n) ELSE NoPath
      BY ResolveIs
    <2>2. Resolve(q, w, m) = IF SafePair(q, w) /\ Stripped(m) # <<>> /\ Clean(Stripped(m))
                             THEN (q \o w) \o Stripped(m) ELSE NoPath
      BY ResolveIs
    <2> QED
      BY <1>2, <2>1, <2>2
  <1>3. ASSUME Resolve(p, v, n) = Resolve(q, w, m)
        PROVE  p = q /\ v = w /\ Stripped(n) = Stripped(m)
    <2>1. SafePair(q, w) /\ Resolve(q, w, m) = (q \o w) \o Stripped(m)
      BY <1>3, ResolveIs
    <2>2. Stripped(n) \in Seq(Segments) /\ Stripped(m) \in Seq(Segments)
      BY StrippedType
    <2>3. (p \o v) \o Stripped(n) = (q \o w) \o Stripped(m)
      BY <1>1, <1>3, <2>1
    <2>4. Len(p) = 1 /\ Len(v) = 1 /\ Len(q) = 1 /\ Len(w) = 1
      BY <1>1, <2>1 DEF SafePair
    <2> DEFINE r == Stripped(n)
               s == Stripped(m)
    <2> HIDE DEF r, s
    <2>5. /\ r \in Seq(Segments) /\ s \in Seq(Segments)
          /\ Below(p, v, r) = Below(q, w, s)
      BY <2>2, <2>3 DEF r, s, Below
    <2>6. p = q /\ v = w /\ r = s
      BY <2>4, <2>5, TripleApart
    <2> QED
      BY <2>6 DEF r, s
  <1> QED
    BY <1>2, <1>3
-----------------------------------------------------------------------------
(* The tree. *)

\* The empty tree is sound.
LEMMA TreeFirst == PathsInit => TreeSound
  BY DEF PathsInit, TreeSound

\* Every file is stored below the directory of its version, under a clean name.
LEMMA TreeStays == TreeSound /\ [PathsNext]_stored => TreeSound'
  <1> SUFFICES ASSUME TreeSound, [PathsNext]_stored PROVE TreeSound'
    OBVIOUS
  <1>1. CASE UNCHANGED stored
    BY <1>1 DEF TreeSound
  <1>2. ASSUME NEW p \in Projects, NEW v \in Versions, NEW n \in Names, Store(p, v, n)
        PROVE  TreeSound'
    <2> DEFINE place == Resolve(p, v, n)
    <2>1. /\ place # NoPath /\ stored' = stored \cup {place}
          /\ \A f \in stored : ~IsStrictPrefix(f, place) /\ ~IsStrictPrefix(place, f)
      BY <1>2 DEF Store
    <2>2. p \in Seq(Segments) /\ v \in Seq(Segments) /\ n \in Seq(Segments)
      BY PathsAssumption
    <2>3. IsFile(place)
      BY <2>1, <2>2, ResolvedIsFile
    <2>4. ~IsStrictPrefix(place, place)
      BY DEF IsStrictPrefix
    <2> HIDE DEF place
    <2> QED
      BY <2>1, <2>3, <2>4 DEF TreeSound
  <1> QED
    BY <1>1, <1>2 DEF PathsNext

\* In every reachable state the tree has files where files can be, and no file stands
\* where another needs a directory.
LEMMA TreeAlwaysSound == PathsSpec => []TreeSound
  BY TreeFirst, TreeStays, PTL DEF PathsSpec

\* Whatever names lead to a stored file name its project and version (resolve).
LEMMA InsideWhenSound == TreeSound => StaysInside
  <1> SUFFICES ASSUME TreeSound,
                      NEW p \in Projects, NEW v \in Versions, NEW n \in Names,
                      Resolve(p, v, n) \in stored
               PROVE  /\ Len(p) = 1 /\ Len(v) = 1
                      /\ IsStrictPrefix(p \o v, Resolve(p, v, n))
    BY DEF StaysInside
  <1>1. p \in Seq(Segments) /\ v \in Seq(Segments) /\ n \in Seq(Segments)
    BY PathsAssumption
  <1>2. Resolve(p, v, n) # NoPath
    BY PathsAssumption DEF TreeSound, IsFile
  <1> QED
    BY <1>1, <1>2, ResolvedIsFile

\* For any segments, projects, versions and names: whatever names lead to a stored file,
\* they name the project and the version whose directory it is in (_safe_segment and
\* resolve of files.py).
THEOREM FilesStayInside == PathsSpec => []StaysInside
  BY TreeAlwaysSound, InsideWhenSound, PTL
-----------------------------------------------------------------------------
(* Listings. *)

\* What list gives for a version: for each of its files the rest of its path.
LEMMA ListIs ==
    ASSUME TreeSound, NEW p \in Seq(Segments), NEW v \in Seq(Segments), SafePair(p, v)
    PROVE  List(p, v) = {SubSeq(f, 3, Len(f)) : f \in {g \in stored : IsPrefix(p \o v, g)}}
  <1>1. DirectoryFor(p, v) = p \o v /\ p \o v # NoPath
    BY DirectoryIs
  <1>2. Len(p \o v) = 2
    <2>1. Len(p \o v) = Len(p) + Len(v)
      OBVIOUS
    <2> QED
      BY <2>1 DEF SafePair
  <1>3. \A g \in stored : IsPrefix(p \o v, g) => IsStrictPrefix(p \o v, g)
    BY FileNamed DEF TreeSound
  <1>4. {g \in stored : IsStrictPrefix(p \o v, g)} = {g \in stored : IsPrefix(p \o v, g)}
    BY <1>3 DEF IsStrictPrefix
  <1>5. List(p, v) = {SubSeq(f, 2 + 1, Len(f)) : f \in {g \in stored : IsPrefix(p \o v, g)}}
    BY <1>1, <1>2, <1>4 DEF List
  <1> QED
    BY <1>5

\* The listing of the whole tree has a row for each file, which leads back to it.
LEMMA RowsAreFiles ==
    ASSUME TreeSound
    PROVE  /\ \A r \in ListAll : /\ Resolve(r[1], r[2], r[3]) \in stored
                                 /\ Resolve(r[1], r[2], <<Empty>> \o r[3] \o <<Empty>>)
                                        \in stored
           /\ \A f \in stored : \E r \in ListAll : Resolve(r[1], r[2], r[3]) = f
  <1>1. ASSUME NEW f \in stored
        PROVE  /\ <<f[1]>> \in Seq(Segments) /\ <<f[2]>> \in Seq(Segments)
               /\ SafePair(<<f[1]>>, <<f[2]>>)
               /\ IsPrefix(<<f[1]>> \o <<f[2]>>, f)
    BY FileAtHome DEF TreeSound
  <1>2. ASSUME NEW f \in stored, NEW name \in List(<<f[1]>>, <<f[2]>>)
        PROVE  /\ Resolve(<<f[1]>>, <<f[2]>>, name) \in stored
               /\ Resolve(<<f[1]>>, <<f[2]>>, <<Empty>> \o name \o <<Empty>>) \in stored
    <2> DEFINE p == <<f[1]>>
               v == <<f[2]>>
    <2>1. p \in Seq(Segments) /\ v \in Seq(Segments) /\ SafePair(p, v)
      BY <1>1
    <2>2. name \in List(p, v)
      OBVIOUS
    <2> HIDE DEF p, v
    <2>3. PICK g \in stored : IsPrefix(p \o v, g) /\ name = SubSeq(g, 3, Len(g))
      BY <2>1, <2>2, ListIs
    <2>4. Resolve(p, v, name) = g /\ Resolve(p, v, <<Empty>> \o name \o <<Empty>>) = g
      BY <2>1, <2>3, FileNamed DEF TreeSound
    <2> QED
      BY <2>4 DEF p, v
  <1>3. ASSUME NEW f \in stored
        PROVE  \E name \in List(<<f[1]>>, <<f[2]>>) : Resolve(<<f[1]>>, <<f[2]>>, name) = f
    <2> DEFINE p == <<f[1]>>
               v == <<f[2]>>
    <2>1. p \in Seq(Segments) /\ v \in Seq(Segments) /\ SafePair(p, v) /\ IsPrefix(p \o v, f)
      BY <1>1
    <2> HIDE DEF p, v
    <2>2. SubSeq(f, 3, Len(f)) \in List(p, v)
      BY <2>1, ListIs
    <2>3. Resolve(p, v, SubSeq(f, 3, Len(f))) = f
      BY <2>1, FileNamed DEF TreeSound
    <2> QED
      BY <2>2, <2>3 DEF p, v
  <1>4. ASSUME NEW r \in ListAll
        PROVE  \E f \in stored : \E name \in List(<<f[1]>>, <<f[2]>>) :
                  r = <<<<f[1]>>, <<f[2]>>, name>>
    BY DEF ListAll
  <1>5. ASSUME NEW f \in stored, NEW name \in List(<<f[1]>>, <<f[2]>>)
        PROVE  <<<<f[1]>>, <<f[2]>>, name>> \in ListAll
    <2> DEFINE listed(g) == {<<<<g[1]>>, <<g[2]>>, m>> : m \in List(<<g[1]>>, <<g[2]>>)}
    <2>1. <<<<f[1]>>, <<f[2]>>, name>> \in listed(f)
      OBVIOUS
    <2>2. ListAll = UNION {listed(g) : g \in stored}
      BY DEF ListAll
    <2> HIDE DEF listed
    <2> QED
      BY <2>1, <2>2
  <1>6. ASSUME NEW r \in ListAll
        PROVE  /\ Resolve(r[1], r[2], r[3]) \in stored
               /\ Resolve(r[1], r[2], <<Empty>> \o r[3] \o <<Empty>>) \in stored
    <2>1. PICK f \in stored : \E name \in List(<<f[1]>>, <<f[2]>>) :
                  r = <<<<f[1]>>, <<f[2]>>, name>>
      BY <1>4
    <2>2. PICK name \in List(<<f[1]>>, <<f[2]>>) : r = <<<<f[1]>>, <<f[2]>>, name>>
      BY <2>1
    <2>3. r[1] = <<f[1]>> /\ r[2] = <<f[2]>> /\ r[3] = name
      BY <2>2
    <2> QED
      BY <2>3, <1>2
  <1>7. ASSUME NEW f \in stored PROVE \E r \in ListAll : Resolve(r[1], r[2], r[3]) = f
    <2>1. PICK name \in List(<<f[1]>>, <<f[2]>>) : Resolve(<<f[1]>>, <<f[2]>>, name) = f
      BY <1>3
    <2> DEFINE r == <<<<f[1]>>, <<f[2]>>, name>>
    <2>2. r \in ListAll /\ r[1] = <<f[1]>> /\ r[2] = <<f[2]>> /\ r[3] = name
      BY <1>5
    <2> HIDE DEF r
    <2>3. Resolve(r[1], r[2], r[3]) = f
      BY <2>1, <2>2
    <2> QED
      BY <2>2, <2>3
  <1> QED
    BY <1>6, <1>7

\* For any tree that uploads lead to: a listing names exactly the stored files, and each
\* name it gives leads back to its file, spelled with slashes around it too (list,
\* list_all and resolve of files.py).
THEOREM ListingsLeadBack == PathsSpec => []ListedNamesResolve
  <1>1. TreeSound => ListedNamesResolve
    <2> SUFFICES ASSUME TreeSound PROVE ListedNamesResolve
      OBVIOUS
    <2>1. {Resolve(r[1], r[2], r[3]) : r \in ListAll} = stored
      BY RowsAreFiles
    <2> QED
      BY <2>1, RowsAreFiles DEF ListedNamesResolve
  <1> QED
    BY <1>1, TreeAlwaysSound, PTL
-----------------------------------------------------------------------------
(* The entries of archives. *)

\* Below the same directory, paths begin with each other as their rests do.
LEMMA PrefixBelow ==
    ASSUME NEW d \in Seq(Segments), NEW s \in Seq(Segments), NEW t \in Seq(Segments)
    PROVE  IsPrefix(d \o s, d \o t) <=> IsPrefix(s, t)
  <1>1. /\ d \o s \in Seq(Segments) /\ d \o t \in Seq(Segments)
        /\ Len(d \o s) = Len(d) + Len(s) /\ Len(d \o t) = Len(d) + Len(t)
        /\ Len(d) \in Nat /\ Len(s) \in Nat /\ Len(t) \in Nat
    OBVIOUS
  <1>2. /\ \A i \in 1 .. Len(d) : (d \o s)[i] = d[i] /\ (d \o t)[i] = d[i]
        /\ \A i \in 1 .. Len(s) : (d \o s)[Len(d) + i] = s[i]
        /\ \A i \in 1 .. Len(t) : (d \o t)[Len(d) + i] = t[i]
    OBVIOUS
  <1>3. ASSUME IsPrefix(s, t) PROVE IsPrefix(d \o s, d \o t)
    <2>1. Len(s) <= Len(t) /\ \A i \in 1 .. Len(s) : s[i] = t[i]
      BY <1>3, PrefixPointwise
    <2>2. ASSUME NEW i \in 1 .. Len(d \o s) PROVE (d \o s)[i] = (d \o t)[i]
      <3>1. CASE i \in 1 .. Len(d)
        BY <3>1, <1>2
      <3>2. CASE i \notin 1 .. Len(d)
        <4> DEFINE j == i - Len(d)
        <4>1. j \in 1 .. Len(s) /\ j \in 1 .. Len(t) /\ i = Len(d) + j
          BY <3>2, <1>1, <2>1
        <4> HIDE DEF j
        <4> QED
          BY <4>1, <1>2, <2>1
      <3> QED
        BY <3>1, <3>2
    <2>3. Len(d \o s) <= Len(d \o t)
      BY <1>1, <2>1
    <2> QED
      BY <1>1, <2>2, <2>3, PrefixPointwise
  <1>4. ASSUME IsPrefix(d \o s, d \o t) PROVE IsPrefix(s, t)
    <2>1. /\ Len(d \o s) <= Len(d \o t)
          /\ \A i \in 1 .. Len(d \o s) : (d \o s)[i] = (d \o t)[i]
      BY <1>1, <1>4, PrefixPointwise
    <2>2. Len(s) <= Len(t)
      BY <1>1, <2>1
    <2>3. ASSUME NEW i \in 1 .. Len(s) PROVE s[i] = t[i]
      <3>1. Len(d) + i \in 1 .. Len(d \o s) /\ i \in 1 .. Len(t)
        BY <1>1, <2>2
      <3> QED
        BY <3>1, <1>2, <2>1
    <2> QED
      BY <2>2, <2>3, PrefixPointwise
  <1> QED
    BY <1>3, <1>4

\* What begins with a longer path begins with a shorter one.
LEMMA PrefixTransitive ==
    ASSUME NEW d \in Seq(Segments), NEW s \in Seq(Segments), NEW f \in Seq(Segments),
           IsPrefix(d \o s, f)
    PROVE  IsPrefix(d, f)
  <1>1. /\ d \o s \in Seq(Segments) /\ Len(d) <= Len(d \o s)
        /\ \A i \in 1 .. Len(d) : i \in 1 .. Len(d \o s) /\ (d \o s)[i] = d[i]
    OBVIOUS
  <1>2. Len(d \o s) <= Len(f) /\ \A i \in 1 .. Len(d \o s) : (d \o s)[i] = f[i]
    BY <1>1, PrefixPointwise
  <1>3. Len(d) <= Len(f) /\ \A i \in 1 .. Len(d) : d[i] = f[i]
    BY <1>1, <1>2
  <1> QED
    BY <1>3, PrefixPointwise

\* The names of a listing are the rests of files' paths, and none begins with another.
LEMMA ListedNames ==
    ASSUME TreeSound, NEW p \in Seq(Segments), NEW v \in Seq(Segments), SafePair(p, v)
    PROVE  /\ \A n \in List(p, v) :
                 /\ n \in Seq(Segments) /\ n # <<>>
                 /\ Resolve(p, v, n) = (p \o v) \o n
                 /\ (p \o v) \o n \in stored
           /\ \A f \in stored : IsPrefix(p \o v, f) =>
                 \E n \in List(p, v) : f = (p \o v) \o n
           /\ \A m \in List(p, v), n \in List(p, v) : IsPrefix(m, n) => m = n
  <1> DEFINE d == p \o v
  <1>1. ASSUME NEW f \in stored, IsPrefix(d, f)
        PROVE  LET name == SubSeq(f, 3, Len(f))
               IN  /\ name \in Seq(Segments) /\ name # <<>>
                   /\ f = d \o name /\ Resolve(p, v, name) = f
    BY <1>1, FileNamed DEF TreeSound
  <1>2. List(p, v) = {SubSeq(f, 3, Len(f)) : f \in {g \in stored : IsPrefix(d, g)}}
    BY ListIs
  <1>3. d \in Seq(Segments)
    OBVIOUS
  <1> HIDE DEF d
  <1>4. ASSUME NEW n \in List(p, v)
        PROVE  /\ n \in Seq(Segments) /\ n # <<>>
               /\ Resolve(p, v, n) = d \o n /\ d \o n \in stored
    BY <1>1, <1>2
  <1>5. ASSUME NEW f \in stored, IsPrefix(d, f)
        PROVE  \E n \in List(p, v) : f = d \o n
    BY <1>1, <1>2, <1>5
  <1>6. ASSUME NEW m \in List(p, v), NEW n \in List(p, v), IsPrefix(m, n)
        PROVE  m = n
    <2>1. IsPrefix(d \o m, d \o n)
      BY <1>3, <1>4, <1>6, PrefixBelow
    <2>2. d \o m = d \o n
      BY <2>1, <1>4 DEF TreeSound, IsStrictPrefix
    <2> QED
      BY <2>2, <1>3, <1>4, ConcatSimplifications
  <1> QED
    BY <1>4, <1>5, <1>6 DEF d

\* A prefix that is accepted is what strip leaves, and clean.
LEMMA ArchivePrefixIs ==
    ASSUME NEW raw \in Seq(Segments), ArchivePrefix(raw) # NoPath
    PROVE  /\ ArchivePrefix(raw) = Stripped(raw) /\ Clean(Stripped(raw))
           /\ Stripped(raw) \in Seq(Segments)
  BY StrippedType DEF ArchivePrefix

\* An archive holds the files whose names begin with its prefix.
LEMMA ArchiveHolds ==
    ASSUME TreeSound, NEW p \in Projects, NEW v \in Versions, NEW raw \in Names,
           ArchivePrefix(raw) # NoPath, DirectoryFor(p, v) # NoPath
    PROVE  {e.from : e \in ArchiveEntries(p, v, ArchivePrefix(raw))} =
               {f \in stored : IsPrefix(Walk(DirectoryFor(p, v), raw), f)}
  <1> DEFINE d == p \o v
             prefix == Stripped(raw)
             matching == {m \in List(p, v) : MatchesArchivePrefix(m, prefix)}
             below == {f \in stored : IsPrefix(d \o prefix, f)}
  <1>1. p \in Seq(Segments) /\ v \in Seq(Segments) /\ raw \in Seq(Segments)
    BY PathsAssumption
  <1>2. ArchivePrefix(raw) = prefix /\ Clean(prefix) /\ prefix \in Seq(Segments)
    BY <1>1, ArchivePrefixIs
  <1>3. SafePair(p, v) /\ DirectoryFor(p, v) = d /\ d \in Seq(Segments)
    BY <1>1, DirectoryIs
  <1>4. Walk(d, raw) = d \o prefix
    BY <1>1, <1>2, <1>3, PaddedWalk
  <1>5. {e.from : e \in ArchiveEntries(p, v, prefix)} = {Resolve(p, v, n) : n \in matching}
    <2> DEFINE row(n) == [entry |-> ArchiveEntryName(n, prefix), from |-> Resolve(p, v, n)]
    <2>1. ArchiveEntries(p, v, prefix) = {row(n) : n \in matching}
      BY DEF ArchiveEntries
    <2>2. \A n \in matching : row(n).from = Resolve(p, v, n)
      OBVIOUS
    <2> HIDE DEF row, matching
    <2> QED
      BY <2>1, <2>2
  <1>6. ASSUME NEW n \in matching PROVE Resolve(p, v, n) \in below
    <2>1. n \in List(p, v) /\ IsPrefix(prefix, n)
      BY DEF MatchesArchivePrefix
    <2>2. n \in Seq(Segments) /\ Resolve(p, v, n) = d \o n /\ d \o n \in stored
      BY <2>1, <1>1, <1>3, ListedNames
    <2>3. IsPrefix(d \o prefix, d \o n)
      BY <2>1, <2>2, <1>2, <1>3, PrefixBelow
    <2> QED
      BY <2>2, <2>3
  <1>7. ASSUME NEW f \in below PROVE \E n \in matching : f = Resolve(p, v, n)
    <2>1. f \in stored /\ IsPrefix(d \o prefix, f) /\ f \in Seq(Segments)
      BY DEF TreeSound, IsFile
    <2>2. IsPrefix(d, f)
      BY <2>1, <1>2, <1>3, PrefixTransitive
    <2>3. PICK n \in List(p, v) : f = d \o n
      <3>1. \A g \in stored : IsPrefix(d, g) => \E n \in List(p, v) : g = d \o n
        BY <1>1, <1>3, ListedNames
      <3> HIDE DEF d
      <3> QED
        BY <2>1, <2>2, <3>1
    <2>4. n \in Seq(Segments) /\ Resolve(p, v, n) = d \o n
      BY <1>1, <1>3, ListedNames
    <2>5. IsPrefix(prefix, n)
      BY <2>1, <2>3, <2>4, <1>2, <1>3, PrefixBelow
    <2> QED
      BY <2>3, <2>4, <2>5 DEF MatchesArchivePrefix
  <1> HIDE DEF d, prefix, matching, below
  <1>8. {Resolve(p, v, n) : n \in matching} = below
    BY <1>6, <1>7
  <1>9. below = {f \in stored : IsPrefix(Walk(DirectoryFor(p, v), raw), f)}
    BY <1>3, <1>4 DEF below
  <1> QED
    BY <1>2, <1>5, <1>8, <1>9

\* The entry of a file is the rest of its name behind the prefix, or its last segment
\* when the prefix is the whole name.
LEMMA EntryIs ==
    ASSUME NEW n \in Seq(Segments), n # <<>>, NEW prefix \in Seq(Segments),
           IsPrefix(prefix, n)
    PROVE  /\ ArchiveEntryName(n, prefix) \in Seq(Segments)
           /\ ArchiveEntryName(n, prefix) # <<>>
           /\ n # prefix => n = prefix \o ArchiveEntryName(n, prefix)
  <1>1. CASE n = prefix
    <2>1. ArchiveEntryName(n, prefix) = <<Last(n)>>
      BY <1>1 DEF ArchiveEntryName
    <2>2. Last(n) \in Segments
      BY DEF Last
    <2> HIDE DEF ArchiveEntryName
    <2> QED
      BY <1>1, <2>1, <2>2
  <1>2. CASE n # prefix
    <2> DEFINE rest == SubSeq(n, Len(prefix) + 1, Len(n))
    <2>1. ArchiveEntryName(n, prefix) = rest
      BY <1>2 DEF ArchiveEntryName
    <2>2. rest \in Seq(Segments) /\ n = prefix \o rest /\ rest # <<>>
      BY <1>2, PrefixAndRest DEF IsStrictPrefix
    <2> QED
      BY <2>1, <2>2
  <1> QED
    BY <1>1, <1>2

\* Entries are not empty, and none is where another, of another file, needs a directory.
LEMMA EntriesApart ==
    ASSUME TreeSound, NEW p \in Projects, NEW v \in Versions, NEW raw \in Names,
           ArchivePrefix(raw) # NoPath,
           NEW a \in ArchiveEntries(p, v, ArchivePrefix(raw)),
           NEW b \in ArchiveEntries(p, v, ArchivePrefix(raw))
    PROVE  /\ b.entry # <<>>
           /\ a # b => ~IsPrefix(a.entry, b.entry)
  <1> DEFINE prefix == Stripped(raw)
  <1>1. p \in Seq(Segments) /\ v \in Seq(Segments) /\ raw \in Seq(Segments)
    BY PathsAssumption
  <1>2. ArchivePrefix(raw) = prefix /\ prefix \in Seq(Segments)
    BY <1>1, ArchivePrefixIs
  <1> HIDE DEF prefix
  <1>3. PICK m \in List(p, v) : /\ IsPrefix(prefix, m)
                                /\ a = [entry |-> ArchiveEntryName(m, prefix),
                                        from |-> Resolve(p, v, m)]
    BY <1>2 DEF ArchiveEntries, MatchesArchivePrefix
  <1>4. PICK n \in List(p, v) : /\ IsPrefix(prefix, n)
                                /\ b = [entry |-> ArchiveEntryName(n, prefix),
                                        from |-> Resolve(p, v, n)]
    BY <1>2 DEF ArchiveEntries, MatchesArchivePrefix
  <1>5. SafePair(p, v)
    <2>1. ~SafePair(p, v) => List(p, v) = {}
      BY <1>1, DirectoryIs DEF List
    <2> QED
      BY <2>1, <1>3
  <1>6. /\ m \in Seq(Segments) /\ m # <<>> /\ n \in Seq(Segments) /\ n # <<>>
        /\ (IsPrefix(m, n) => m = n) /\ (IsPrefix(n, m) => m = n)
    BY <1>1, <1>5, ListedNames
  <1> DEFINE em == ArchiveEntryName(m, prefix)
             en == ArchiveEntryName(n, prefix)
  <1>7. /\ em \in Seq(Segments) /\ en \in Seq(Segments) /\ en # <<>>
        /\ m # prefix => m = prefix \o em
        /\ n # prefix => n = prefix \o en
    BY <1>2, <1>3, <1>4, <1>6, EntryIs
  <1>8. a.entry = em /\ b.entry = en /\ (m = n => a = b)
    BY <1>3, <1>4
  <1> HIDE DEF em, en
  <1>9. ASSUME IsPrefix(em, en) PROVE m = n
    <2>1. CASE m = prefix
      BY <2>1, <1>4, <1>6
    <2>2. CASE n = prefix
      BY <2>2, <1>3, <1>6
    <2>3. CASE m # prefix /\ n # prefix
      <3>1. IsPrefix(prefix \o em, prefix \o en)
        BY <1>2, <1>7, <1>9, PrefixBelow
      <3> QED
        BY <3>1, <2>3, <1>6, <1>7
    <2> QED
      BY <2>1, <2>2, <2>3
  <1> QED
    BY <1>7, <1>8, <1>9

\* For any tree that uploads lead to and any prefix that is accepted: the archive has an
\* entry for each file at or below the place the prefix leads to, and for no other; no two
\* entries are the same, and none is where another needs a directory
\* (normalize_archive_prefix, matches_archive_prefix, archive_entry_name of app.py).
THEOREM ArchivesAreWhole == PathsSpec => []ArchivesUnpackWhole
  <1>1. TreeSound => ArchiveComplete
    BY ArchiveHolds DEF ArchiveComplete
  <1>2. TreeSound => EntriesUnpack
    BY EntriesApart DEF EntriesUnpack
  <1> QED
    BY <1>1, <1>2, TreeAlwaysSound, PTL DEF ArchivesUnpackWhole
-----------------------------------------------------------------------------
(* Links between documentation pages. *)

\* The parts that _normalize_relative_path has collected after each segment.
IsPartsTrace(g, joined) ==
    g = [i \in 0 .. Len(joined) |-> IF i = 0 THEN <<>> ELSE AddPart(g[i - 1], joined[i])]

\* A function that satisfies the equation of the loop is its trace.
LEMMA PartsAreTrace ==
    ASSUME NEW dir \in Seq(Segments), NEW href \in Seq(Segments), NEW g,
           IsPartsTrace(g, dir \o href)
    PROVE  NormalizeRelativePath(dir, href) =
               LET path == g[Len(dir \o href)]
               IN  IF path # NoPath /\ IsSafeDocPath(path) THEN path ELSE NoPath
  <1> DEFINE joined == dir \o href
             n == Len(joined)
             F(f) == [i \in 0 .. n |-> IF i = 0 THEN <<>> ELSE AddPart(f[i - 1], joined[i])]
             at == CHOOSE f : f = F(f)
  <1>1. n \in Nat
    OBVIOUS
  <1>2. g = F(g)
    BY DEF IsPartsTrace
  <1>3. NormalizeRelativePath(dir, href) =
            IF at[n] # NoPath /\ IsSafeDocPath(at[n]) THEN at[n] ELSE NoPath
    BY DEF NormalizeRelativePath
  <1> HIDE DEF F
  <1>4. at = F(at)
    BY <1>2
  <1> HIDE DEF at
  <1> USE DEF F
  <1> DEFINE T == {i \in 0 .. n : at[i] = g[i]}
  <1> HIDE DEF n, joined
  <1>5. 0 \in T
    <2>1. 0 \in 0 .. n
      BY <1>1
    <2> QED
      BY <1>2, <1>4, <2>1
  <1>6. ASSUME NEW i \in 1 .. n, i - 1 \in T PROVE i \in T
    <2>1. i \in 0 .. n /\ i # 0
      BY <1>1
    <2>2. at[i] = AddPart(at[i - 1], joined[i]) /\ g[i] = AddPart(g[i - 1], joined[i])
      BY <2>1, <1>2, <1>4
    <2> QED
      BY <2>1, <2>2, <1>6
  <1> HIDE DEF T
  <1>7. 0 .. n \subseteq T
    BY <1>1, <1>5, <1>6, CountingUp
  <1>8. n \in 0 .. n
    BY <1>1
  <1>9. at[n] = g[n]
    BY <1>7, <1>8 DEF T
  <1> QED
    BY <1>3, <1>9 DEF n, joined

\* Parts stay a path, or become None for good.
LEMMA AddPartType ==
    ASSUME NEW parts \in Seq(Segments) \cup {NoPath}, NEW part \in Segments
    PROVE  AddPart(parts, part) \in Seq(Segments) \cup {NoPath}
  <1>1. CASE parts = NoPath
    BY <1>1 DEF AddPart
  <1>2. CASE parts # NoPath
    <2>1. parts \in Seq(Segments)
      BY <1>2
    <2>2. Append(parts, part) \in Seq(Segments)
      BY <2>1
    <2>3. parts # <<>> => Front(parts) \in Seq(Segments)
      BY <2>1 DEF Front
    <2> QED
      BY <1>2, <2>1, <2>2, <2>3, SpecialSegments DEF AddPart
  <1> QED
    BY <1>1, <1>2

\* The loop has a trace for every link.
LEMMA PartsTraceExists ==
    ASSUME NEW joined \in Seq(Segments)
    PROVE  \E g \in [0 .. Len(joined) -> Seq(Segments) \cup {NoPath}] :
              /\ IsPartsTrace(g, joined)
              /\ g[0] = <<>>
              /\ \A i \in 1 .. Len(joined) : g[i] = AddPart(g[i - 1], joined[i])
  <1> DEFINE n == Len(joined)
             Q == Seq(Segments) \cup {NoPath}
             step == [i \in 1 .. n |-> [parts \in Q |-> AddPart(parts, joined[i])]]
  <1>1. n \in Nat /\ \A i \in 1 .. n : joined[i] \in Segments
    OBVIOUS
  <1>2. <<>> \in Q
    OBVIOUS
  <1>3. \A i \in 1 .. n, parts \in Q : AddPart(parts, joined[i]) \in Q
    BY <1>1, AddPartType
  <1> HIDE DEF n, Q
  <1>4. step \in [1 .. n -> [Q -> Q]]
    BY <1>3
  <1>5. \A i \in 1 .. n, parts \in Q : step[i][parts] = AddPart(parts, joined[i])
    OBVIOUS
  <1> HIDE DEF step
  <1>6. PICK g \in [0 .. n -> Q] : IsTrace(g, n, <<>>, step)
    BY <1>1, <1>2, <1>4, TraceExists
  <1>7. ASSUME NEW i \in 1 .. n PROVE g[i] = AddPart(g[i - 1], joined[i])
    <2>1. i - 1 \in 0 .. n
      BY <1>1
    <2>2. g[i - 1] \in Q
      BY <2>1
    <2> QED
      BY <2>2, <1>5, <1>6 DEF IsTrace
  <1>8. g[0] = <<>>
    BY <1>6 DEF IsTrace
  <1>9. IsPartsTrace(g, joined)
    <2> DEFINE e(i) == IF i = 0 THEN <<>> ELSE AddPart(g[i - 1], joined[i])
    <2>1. \A i \in 0 .. n : g[i] = e(i)
      BY <1>1, <1>7, <1>8
    <2> HIDE DEF e
    <2>2. g = [i \in 0 .. n |-> e(i)]
      BY <2>1
    <2> QED
      BY <2>2 DEF e, n, IsPartsTrace
  <1> QED
    BY <1>7, <1>8, <1>9 DEF n, Q

\* The front of a clean path is clean, and one level up from below a place.
LEMMA FrontBelow ==
    ASSUME NEW place \in Seq(Segments), NEW parts \in Seq(Segments), parts # <<>>
    PROVE  /\ Front(parts) \in Seq(Segments)
           /\ Clean(parts) => Clean(Front(parts))
           /\ Front(place \o parts) = place \o Front(parts)
           /\ place \o parts # <<>>
  <1> DEFINE n == Len(parts)
             front == Front(parts)
  <1>1. n \in Nat /\ n >= 1 /\ place \o parts # <<>>
    OBVIOUS
  <1>2. /\ front \in Seq(Segments) /\ Len(front) = n - 1
        /\ \A i \in 1 .. n - 1 : front[i] = parts[i]
    <2>1. front = SubSeq(parts, 1, n - 1) /\ n >= 1
      BY <1>1 DEF Front
    <2>2. /\ SubSeq(parts, 1, n - 1) \in Seq(Segments)
          /\ Len(SubSeq(parts, 1, n - 1)) = n - 1
          /\ \A i \in 1 .. n - 1 : SubSeq(parts, 1, n - 1)[i] = parts[i]
      <3>1. n - 1 \in Nat /\ n - 1 <= Len(parts)
        BY <1>1
      <3> HIDE DEF n
      <3>2. /\ SubSeq(parts, 1, n - 1) \in Seq(Segments)
            /\ Len(SubSeq(parts, 1, n - 1)) = n - 1
        BY <3>1
      <3>3. ASSUME NEW i \in 1 .. n - 1 PROVE SubSeq(parts, 1, n - 1)[i] = parts[i]
        BY <3>1
      <3> QED
        BY <3>2, <3>3
    <2> HIDE DEF front
    <2> QED
      BY <2>1, <2>2
  <1>3. Front(place \o parts) = place \o front
    BY DEF Front
  <1>4. Clean(parts) => Clean(front)
    <2>1. DOMAIN front = 1 .. n - 1 /\ \A i \in 1 .. n - 1 : i \in DOMAIN parts
      BY <1>1, <1>2
    <2> HIDE DEF front
    <2> QED
      BY <2>1, <1>2 DEF Clean
  <1> QED
    BY <1>1, <1>2, <1>3, <1>4

\* One segment of a link: the parts go where the file system goes, and when they become
\* None the walk has left the documentation.
LEMMA OneSegment ==
    ASSUME NEW parts \in Seq(Segments), Clean(parts), NEW part \in Segments
    PROVE  LET next == AddPart(parts, part)
               at == Step(DocsHome \o parts, part)
           IN  /\ \/ /\ next \in Seq(Segments) /\ next # NoPath /\ Clean(next)
                     /\ at = DocsHome \o next
                  \/ /\ next = NoPath
                     /\ ~IsPrefix(DocsHome, at)
               /\ part \notin {Empty} \cup Dots => next = Append(parts, part)
  <1> DEFINE next == AddPart(parts, part)
             at == Step(DocsHome \o parts, part)
  <1>1. /\ DocsHome \in Seq(Segments) /\ DocsHome # <<>>
        /\ DocsHome \o parts \in Seq(Segments) /\ parts # NoPath
    BY PathsAssumption, DocPagesAssumption
  <1>2. CASE part \in {Empty, "."}
    <2>1. next = parts /\ at = DocsHome \o parts
      BY <1>1, <1>2, SpecialSegments DEF AddPart, Step
    <2> QED
      BY <1>1, <1>2, <2>1 DEF Dots
  <1>3. CASE part = ".." /\ parts # <<>>
    <2>1. DocsHome \o parts # <<>>
      BY <1>1, <1>3, FrontBelow
    <2>2. next = Front(parts) /\ at = Front(DocsHome \o parts)
      BY <1>1, <1>3, <2>1, SpecialSegments DEF AddPart, Step
    <2>3. /\ Front(parts) \in Seq(Segments) /\ Clean(Front(parts))
          /\ Front(DocsHome \o parts) = DocsHome \o Front(parts)
      BY <1>1, <1>3, FrontBelow
    <2>4. Front(parts) # NoPath
      BY <2>3, PathsAssumption
    <2> QED
      BY <1>3, <2>2, <2>3, <2>4 DEF Dots
  <1>4. CASE part = ".." /\ parts = <<>>
    <2>1. DocsHome \o parts = DocsHome
      BY <1>1, <1>4
    <2>2. next = NoPath /\ at = Front(DocsHome)
      BY <1>1, <1>4, <2>1, SpecialSegments DEF AddPart, Step
    <2>3. ~(Len(DocsHome) <= Len(Front(DocsHome)))
      BY <1>1 DEF Front
    <2>4. ~IsPrefix(DocsHome, at)
      BY <2>2, <2>3 DEF IsPrefix
    <2> QED
      BY <1>4, <2>2, <2>4 DEF Dots
  <1>5. CASE part \notin {Empty} \cup Dots
    <2>1. part # Empty /\ part # "." /\ part # ".."
      BY <1>5 DEF Dots
    <2>2. next = Append(parts, part) /\ at = Append(DocsHome \o parts, part)
      BY <1>1, <2>1 DEF AddPart, Step
    <2>3. /\ Append(parts, part) \in Seq(Segments)
          /\ Append(DocsHome \o parts, part) = DocsHome \o Append(parts, part)
      BY <1>1
    <2>4. Clean(Append(parts, part))
      <3>1. DOMAIN Append(parts, part) = 1 .. Len(parts) + 1 /\ DOMAIN parts = 1 .. Len(parts)
        OBVIOUS
      <3>2. \A i \in 1 .. Len(parts) : Append(parts, part)[i] = parts[i]
        OBVIOUS
      <3>3. Append(parts, part)[Len(parts) + 1] = part
        OBVIOUS
      <3>4. \A i \in 1 .. Len(parts) + 1 : i \in 1 .. Len(parts) \/ i = Len(parts) + 1
        OBVIOUS
      <3> QED
        BY <1>5, <3>1, <3>2, <3>3, <3>4 DEF Clean
    <2>5. Append(parts, part) # NoPath
      BY <2>3, PathsAssumption
    <2> QED
      BY <2>2, <2>3, <2>4, <2>5
  <1>6. part \in {Empty, "."} \/ part = ".." \/ part \notin {Empty} \cup Dots
    BY DEF Dots
  <1> QED
    BY <1>2, <1>3, <1>4, <1>5, <1>6

\* A link on a clean page that ends in a file name: it is rewritten to where the file
\* system goes, or the walk along it leaves the documentation.
LEMMA LinkMeaning ==
    ASSUME NEW dir \in Seq(Segments), Clean(dir),
           NEW href \in Seq(Segments), href # <<>>, Last(href) \notin {Empty} \cup Dots
    PROVE  LET path == NormalizeRelativePath(dir, href)
           IN  IF path # NoPath THEN DocsHome \o path = Walk(DocsHome \o dir, href)
               ELSE \E i \in 0 .. Len(href) :
                        ~IsPrefix(DocsHome, Walk(DocsHome \o dir, SubSeq(href, 1, i)))
  <1> DEFINE joined == dir \o href
             start == DocsHome \o dir
             W(i) == Walk(start, SubSeq(href, 1, i))
             l == Len(dir)
             m == Len(href)
             Left(i) == \E j \in 0 .. i : ~IsPrefix(DocsHome, W(j))
             path == NormalizeRelativePath(dir, href)
  <1>1. /\ DocsHome \in Seq(Segments) /\ start \in Seq(Segments)
        /\ joined \in Seq(Segments) /\ Len(joined) = l + m
        /\ l \in Nat /\ m \in Nat /\ m >= 1
        /\ \A i \in 1 .. l : joined[i] = dir[i]
        /\ \A i \in 1 .. m : joined[l + i] = href[i] /\ href[i] \in Segments
    BY DocPagesAssumption
  <1>2. PICK g \in [0 .. Len(joined) -> Seq(Segments) \cup {NoPath}] :
              /\ IsPartsTrace(g, joined)
              /\ g[0] = <<>>
              /\ \A i \in 1 .. Len(joined) : g[i] = AddPart(g[i - 1], joined[i])
    <2> HIDE DEF joined
    <2> QED
      BY <1>1, PartsTraceExists
  <1>3. path = IF g[l + m] # NoPath /\ IsSafeDocPath(g[l + m]) THEN g[l + m] ELSE NoPath
    BY <1>1, <1>2, PartsAreTrace
  <1>4. /\ W(0) = start
        /\ \A i \in 1 .. m : W(i) = Step(W(i - 1), href[i])
        /\ W(m) = Walk(start, href)
    <2> HIDE DEF start
    <2> QED
      BY <1>1, WalkStepwise
  <1>5. ASSUME NEW i \in 1 .. l PROVE g[i] = AddPart(g[i - 1], dir[i])
    <2>1. i \in 1 .. Len(joined)
      BY <1>1
    <2> QED
      BY <2>1, <1>1, <1>2
  <1>6. ASSUME NEW i \in 1 .. m PROVE g[l + i] = AddPart(g[l + (i - 1)], href[i])
    <2>1. l + i \in 1 .. Len(joined) /\ (l + i) - 1 = l + (i - 1)
      BY <1>1
    <2> QED
      BY <2>1, <1>1, <1>2
  <1>7. g[l] = dir
    <2> DEFINE T == {i \in 0 .. l : g[i] = SubSeq(dir, 1, i)}
    <2>1. 0 \in T
      <3>1. SubSeq(dir, 1, 0) = <<>> /\ 0 \in 0 .. l
        BY <1>1
      <3> QED
        BY <3>1, <1>2
    <2>2. ASSUME NEW i \in 1 .. l, i - 1 \in T PROVE i \in T
      <3> DEFINE before == SubSeq(dir, 1, i - 1)
      <3>1. /\ before \in Seq(Segments) /\ dir[i] \in Segments
            /\ SubSeq(dir, 1, i) = Append(before, dir[i])
        OBVIOUS
      <3>2. dir[i] \notin {Empty} \cup Dots
        <4>1. i \in DOMAIN dir
          OBVIOUS
        <4> QED
          BY <4>1 DEF Clean
      <3>3. Clean(before)
        <4>1. /\ DOMAIN before = 1 .. i - 1
              /\ \A j \in 1 .. i - 1 : before[j] = dir[j] /\ j \in DOMAIN dir
          OBVIOUS
        <4> HIDE DEF before
        <4> QED
          BY <4>1 DEF Clean
      <3>4. g[i - 1] = before
        BY <2>2
      <3> HIDE DEF before
      <3>5. AddPart(before, dir[i]) = Append(before, dir[i])
        BY <3>1, <3>2, <3>3, OneSegment
      <3>6. g[i] = SubSeq(dir, 1, i)
        BY <3>1, <3>4, <3>5, <1>5
      <3> QED
        BY <3>6, <1>1
    <2>3. SubSeq(dir, 1, l) = dir /\ l \in 0 .. l
      BY <1>1
    <2> HIDE DEF T, l
    <2>4. 0 .. l \subseteq T
      BY <1>1, <2>1, <2>2, CountingUp
    <2> QED
      BY <2>3, <2>4 DEF T
  <1> DEFINE Together(i) ==
                \/ /\ g[l + i] \in Seq(Segments) /\ g[l + i] # NoPath /\ Clean(g[l + i])
                   /\ W(i) = DocsHome \o g[l + i]
                \/ g[l + i] = NoPath /\ Left(i)
             T == {i \in 0 .. m : Together(i)}
  <1>8. 0 \in T
    <2>1. l + 0 = l /\ 0 \in 0 .. m
      BY <1>1
    <2>2. dir # NoPath
      BY PathsAssumption
    <2> HIDE DEF W, Left, l, m
    <2> QED
      BY <2>1, <2>2, <1>4, <1>7
  <1>9. ASSUME NEW i \in 1 .. m, i - 1 \in T PROVE i \in T
    <2>1. /\ g[l + i] = AddPart(g[l + (i - 1)], href[i])
          /\ W(i) = Step(W(i - 1), href[i])
          /\ href[i] \in Segments
      BY <1>1, <1>4, <1>6
    <2>2. i \in 0 .. m /\ i \in 0 .. i /\ \A j \in 0 .. i - 1 : j \in 0 .. i
      BY <1>1
    <2>3. Together(i - 1)
      BY <1>9
    <2> DEFINE parts == g[l + (i - 1)]
    <2>4. CASE /\ parts \in Seq(Segments) /\ parts # NoPath /\ Clean(parts)
               /\ W(i - 1) = DocsHome \o parts
      <3>1. \/ /\ g[l + i] \in Seq(Segments) /\ g[l + i] # NoPath /\ Clean(g[l + i])
               /\ W(i) = DocsHome \o g[l + i]
            \/ g[l + i] = NoPath /\ ~IsPrefix(DocsHome, W(i))
        <4>1. g[l + i] = AddPart(parts, href[i]) /\ W(i) = Step(DocsHome \o parts, href[i])
          BY <2>1, <2>4
        <4> DEFINE next == g[l + i]
                   at   == W(i)
        <4>2. /\ parts \in Seq(Segments) /\ Clean(parts) /\ href[i] \in Segments
              /\ next = AddPart(parts, href[i]) /\ at = Step(DocsHome \o parts, href[i])
          BY <2>1, <2>4, <4>1
        <4> HIDE DEF parts, W, next, at
        <4>3. \/ /\ next \in Seq(Segments) /\ next # NoPath /\ Clean(next)
                 /\ at = DocsHome \o next
              \/ next = NoPath /\ ~IsPrefix(DocsHome, at)
          BY <4>2, OneSegment
        <4> QED
          BY <4>3 DEF next, at
      <3> HIDE DEF W, l, m
      <3> QED
        BY <3>1, <2>2
    <2>5. CASE parts = NoPath /\ Left(i - 1)
      <3>1. g[l + i] = NoPath
        BY <2>1, <2>5 DEF AddPart
      <3>2. Left(i)
        <4> HIDE DEF W
        <4> QED
          BY <2>2, <2>5
      <3> HIDE DEF Left, W, l, m
      <3> QED
        BY <3>1, <3>2, <2>2
    <2> HIDE DEF Left, W, l, m
    <2> QED
      BY <2>3, <2>4, <2>5
  <1>10. Together(m)
    <2> HIDE DEF Together, m
    <2>1. 0 .. m \subseteq T
      <3> HIDE DEF T
      <3> QED
        BY <1>1, <1>8, <1>9, CountingUp
    <2>2. m \in 0 .. m
      BY <1>1
    <2> QED
      BY <2>1, <2>2
  <1>11. ASSUME g[l + m] # NoPath PROVE IsSafeDocPath(g[l + m])
    <2> DEFINE before == g[l + (m - 1)]
    <2>1. m \in 1 .. m /\ m - 1 \in 0 .. m /\ l + (m - 1) \in 0 .. Len(joined)
      BY <1>1
    <2>2. g[l + m] = AddPart(before, href[m]) /\ href[m] = Last(href)
      BY <2>1, <1>6 DEF Last
    <2>3. before \in Seq(Segments) \cup {NoPath}
      BY <2>1, <1>2
    <2>4. before # NoPath
      BY <1>11, <2>2 DEF AddPart
    <2>5. href[m] # Empty /\ href[m] # "." /\ href[m] # ".." /\ href[m] \in Segments
      BY <1>1, <2>1, <2>2 DEF Dots
    <2> HIDE DEF before, m, l
    <2>6. g[l + m] = Append(before, href[m])
      BY <2>2, <2>4, <2>5 DEF AddPart
    <2>7. g[l + m] # <<>>
      <3>1. before \in Seq(Segments)
        BY <2>3, <2>4
      <3>2. ASSUME NEW s \in Seq(Segments), NEW x \in Segments PROVE Append(s, x) # <<>>
        <4>1. Len(Append(s, x)) = Len(s) + 1 /\ Len(s) \in Nat
          OBVIOUS
        <4> DEFINE a == Append(s, x)
        <4>2. a \in Seq(Segments) /\ Len(a) = Len(s) + 1
          OBVIOUS
        <4> HIDE DEF a
        <4>3. a # <<>>
          BY <4>1, <4>2, EmptySeq
        <4> QED
          BY <4>3 DEF a
      <3> QED
        BY <2>5, <2>6, <3>1, <3>2
    <2>8. Clean(g[l + m])
      BY <1>10, <1>11 DEF Together
    <2> QED
      BY <2>7, <2>8 DEF IsSafeDocPath
  <1> HIDE DEF W, l, m, path, start
  <1>12. CASE g[l + m] # NoPath
    <2>1. path = g[l + m] /\ DocsHome \o path = W(m)
      BY <1>3, <1>10, <1>11, <1>12
    <2> QED
      BY <2>1, <1>4, <1>12 DEF path, start
  <1>13. CASE g[l + m] = NoPath
    <2>1. path = NoPath /\ Left(m)
      BY <1>3, <1>10, <1>13
    <2> QED
      BY <2>1 DEF path, start, W, m
  <1> QED
    BY <1>12, <1>13

\* The reader is on the index or on a page below it.
PageSound == page # Index => page \in Seq(Segments) /\ page # <<>> /\ Clean(page)

\* What a link is rewritten to is a safe path of segments.
LEMMA RewrittenType ==
    ASSUME NEW dir \in Seq(Segments), NEW href \in Seq(Segments),
           NormalizeRelativePath(dir, href) # NoPath
    PROVE  /\ NormalizeRelativePath(dir, href) \in Seq(Segments)
           /\ IsSafeDocPath(NormalizeRelativePath(dir, href))
  <1> DEFINE joined == dir \o href
  <1>1. joined \in Seq(Segments) /\ Len(joined) \in 0 .. Len(joined)
    OBVIOUS
  <1> HIDE DEF joined
  <1>2. PICK g \in [0 .. Len(joined) -> Seq(Segments) \cup {NoPath}] : IsPartsTrace(g, joined)
    BY <1>1, PartsTraceExists
  <1>3. g[Len(joined)] \in Seq(Segments) \cup {NoPath}
    BY <1>1
  <1>4. NormalizeRelativePath(dir, href) =
            IF g[Len(joined)] # NoPath /\ IsSafeDocPath(g[Len(joined)])
            THEN g[Len(joined)] ELSE NoPath
    BY <1>2, PartsAreTrace DEF joined
  <1> QED
    BY <1>3, <1>4

\* The directory of a clean page is clean.
LEMMA FrontOfPage ==
    ASSUME NEW s \in Seq(Segments), s # <<>>
    PROVE  Front(s) \in Seq(Segments) /\ (Clean(s) => Clean(Front(s)))
  <1>1. <<>> \in Seq(Segments)
    OBVIOUS
  <1> QED
    BY <1>1, FrontBelow

\* Cards, requests and rewritten links lead to clean pages only.
LEMMA PageStays == PageSound /\ [DocNext]_<<stored, page>> => PageSound'
  <1> SUFFICES ASSUME PageSound, [DocNext]_<<stored, page>>, page' # Index
               PROVE  page' \in Seq(Segments) /\ page' # <<>> /\ Clean(page')
    BY DEF PageSound
  <1>1. CASE UNCHANGED page
    BY <1>1 DEF PageSound
  <1>2. CASE FollowCard
    BY <1>2, DocPagesAssumption DEF FollowCard
  <1>3. ASSUME NEW path \in Names, Visit(path)
        PROVE  page' \in Seq(Segments) /\ page' # <<>> /\ Clean(page')
    <2>1. page' = path /\ Served(path)
      BY <1>3 DEF Visit
    <2>2. path \in Seq(Segments)
      BY PathsAssumption
    <2> QED
      BY <2>1, <2>2 DEF Served, IsSafeDocPath
  <1>4. ASSUME NEW href \in Hrefs, FollowLink(href)
        PROVE  page' \in Seq(Segments) /\ page' # <<>> /\ Clean(page')
    <2>1. /\ page' = NormalizeRelativePath(Front(page), href) /\ page' # NoPath
          /\ page \in Seq(Segments) /\ page # <<>>
      BY <1>4 DEF FollowLink, RewriteDocLink, PageSound
    <2>2. Front(page) \in Seq(Segments) /\ href \in Seq(Segments)
      BY <2>1, FrontOfPage, DocPagesAssumption
    <2>3. page' \in Seq(Segments) /\ IsSafeDocPath(page')
      BY <2>1, <2>2, RewrittenType
    <2> QED
      BY <2>3 DEF IsSafeDocPath
  <1>5. CASE UNCHANGED <<stored, page>>
    BY <1>1, <1>5
  <1>6. CASE DocNext
    BY <1>1, <1>2, <1>3, <1>4, <1>6 DEF DocNext
  <1> QED
    BY <1>5, <1>6

\* For any documentation below any directory and any links that end in a file name: a link
\* on a page that a reader can come to is rewritten to the file that its author meant, and
\* is left alone only when it leads out of the documentation on its way
\* (rewrite_doc_links and _normalize_relative_path of docs.py).
THEOREM LinksLeadWhereMeant == DocSpec => []LinksKeepTheirMeaning
  <1>1. DocInit => PageSound
    BY DEF DocInit, PageSound
  <1>2. PageSound => LinksKeepTheirMeaning
    <2> SUFFICES ASSUME PageSound, page # Index, NEW href \in Hrefs
                 PROVE  LET path == RewriteDocLink(page, href)
                            meant == Walk(DocsHome \o Front(page), href)
                        IN  IF path # NoPath THEN DocsHome \o path = meant
                            ELSE \E i \in 0 .. Len(href) :
                                    ~IsPrefix(DocsHome, Walk(DocsHome \o Front(page),
                                                             SubSeq(href, 1, i)))
      BY DEF LinksKeepTheirMeaning
    <2>1. Front(page) \in Seq(Segments) /\ Clean(Front(page))
      BY FrontOfPage DEF PageSound
    <2>2. href \in Seq(Segments) /\ href # <<>> /\ Last(href) \notin {Empty} \cup Dots
      BY DocPagesAssumption
    <2> QED
      BY <2>1, <2>2, LinkMeaning DEF RewriteDocLink
  <1> QED
    BY <1>1, <1>2, PageStays, PTL DEF DocSpec
-----------------------------------------------------------------------------
(* The version list. *)

\* The stamps that the bounds of the model allow.
Instants == 0 .. MaxTime + Second * Len(Legacy)

\* The versions with a row that no row is newer than.
NewestVersions ==
    {v \in VersionNames : \E n \in FileNames : /\ rows[v][n] # NoRow
                                               /\ \A t \in AllStamps : t <= rows[v][n]}

\* Stamps do not pass the bounds of the model, only so many versions have rows, and the
\* last upload, where it counts, is in a row that no row is newer than.
ListSound ==
    /\ now \in 0 .. MaxTime
    /\ rows \in [VersionNames -> [FileNames -> Instants \cup {NoRow}]]
    /\ \E top \in Nat : \A v \in Grouped(rows) : v <= top
    /\ last # None => phase = "serve" /\ last \in NewestVersions

\* A set of naturals that has a bound and a member has a maximum.
LEMMA MaxIs ==
    ASSUME NEW S \in SUBSET Nat, S # {}, NEW top \in Nat, \A s \in S : s <= top
    PROVE  Max(S) \in S /\ \A s \in S : s <= Max(S)
  <1> DEFINE T == {d \in Nat : \E s \in S : s + d = top}
  <1>1. T \in SUBSET Nat /\ T # {}
    <2>1. PICK s \in S : TRUE
      OBVIOUS
    <2>2. top - s \in T
      BY <2>1
    <2> QED
      BY <2>2
  <1> HIDE DEF T
  <1>2. PICK d \in T : \A e \in T : d <= e
    BY <1>1, LeastNumber
  <1>3. PICK m \in S : m + d = top
    BY <1>2 DEF T
  <1>4. ASSUME NEW s \in S PROVE m >= s
    <2>1. top - s \in T
      BY DEF T
    <2> QED
      BY <1>1, <1>2, <1>3, <2>1
  <1>5. \E x \in S : \A y \in S : x >= y
    BY <1>4
  <1>6. Max(S) \in S /\ \A y \in S : Max(S) >= y
    BY <1>5 DEF Max
  <1> QED
    BY <1>6

\* The facts about constants that the next proofs use.
LEMMA ListConstants ==
    /\ Len(Legacy) \in Nat /\ Instants \subseteq Nat /\ NoRow \notin Instants
    /\ 0 .. MaxTime \subseteq Instants
    /\ MaxTime + Second * Len(Legacy) \in Nat
    /\ \A t \in Instants : t <= MaxTime + Second * Len(Legacy)
  <1>1. Len(Legacy) \in Nat /\ MaxTime \in Nat /\ Second \in Nat
    BY VersionListAssumption
  <1>2. Second * Len(Legacy) \in Nat
    BY <1>1
  <1> QED
    BY <1>1, <1>2, VersionListAssumption DEF Instants

\* The stamps of a version that has rows have a newest one, which is the stamp of a row.
LEMMA NewestIs ==
    ASSUME rows \in [VersionNames -> [FileNames -> Instants \cup {NoRow}]],
           NEW v \in Grouped(rows)
    PROVE  /\ \E n \in FileNames : rows[v][n] # NoRow /\ rows[v][n] = Newest(rows, v)
           /\ \A n \in FileNames : rows[v][n] # NoRow => rows[v][n] <= Newest(rows, v)
           /\ Newest(rows, v) \in Instants
  <1> DEFINE stamps == {rows[v][n] : n \in {m \in FileNames : rows[v][m] # NoRow}}
  <1>1. v \in VersionNames /\ \E n \in FileNames : rows[v][n] # NoRow
    BY DEF Grouped
  <1>2. stamps \in SUBSET Instants /\ stamps # {}
    BY <1>1
  <1>3. Newest(rows, v) = Max(stamps)
    BY DEF Newest
  <1>4. \A n \in FileNames : rows[v][n] # NoRow => rows[v][n] \in stamps
    OBVIOUS
  <1>5. \A t \in stamps : \E n \in FileNames : rows[v][n] # NoRow /\ rows[v][n] = t
    OBVIOUS
  <1> HIDE DEF stamps
  <1>6. Max(stamps) \in stamps /\ \A t \in stamps : t <= Max(stamps)
    BY <1>2, ListConstants, MaxIs
  <1> QED
    BY <1>2, <1>3, <1>4, <1>5, <1>6

\* A stamp is the stamp of a row.
LEMMA StampsIn ==
    ASSUME NEW table, NEW t
    PROVE  t \in (UNION {{table[v][n] : n \in FileNames} : v \in VersionNames}) \ {NoRow}
               <=> t # NoRow /\ \E v \in VersionNames, n \in FileNames : t = table[v][n]
  <1> DEFINE stampsOf == {{table[v][n] : n \in FileNames} : v \in VersionNames}
  <1>1. t \in UNION stampsOf <=> \E S \in stampsOf : t \in S
    <2> HIDE DEF stampsOf
    <2> QED
      OBVIOUS
  <1>2. ASSUME NEW v \in VersionNames, NEW n \in FileNames, t = table[v][n]
        PROVE  \E S \in stampsOf : t \in S
    <2>1. t \in {table[v][m] : m \in FileNames}
      BY <1>2
    <2> QED
      BY <2>1
  <1>3. ASSUME NEW S \in stampsOf, t \in S
        PROVE  \E v \in VersionNames, n \in FileNames : t = table[v][n]
    <2>1. PICK v \in VersionNames : S = {table[v][n] : n \in FileNames}
      OBVIOUS
    <2> QED
      BY <1>3, <2>1
  <1> HIDE DEF stampsOf
  <1>4. t \in (UNION stampsOf) \ {NoRow} <=>
            t # NoRow /\ \E v \in VersionNames, n \in FileNames : t = table[v][n]
    BY <1>1, <1>2, <1>3
  <1> QED
    BY <1>4 DEF stampsOf

\* The same of the stamps in the store.
LEMMA StampsAre ==
    \A t : t \in AllStamps <=>
              t # NoRow /\ \E v \in VersionNames, n \in FileNames : t = rows[v][n]
  BY StampsIn DEF AllStamps

\* The latest version is the last by name of those that no row is newer than.
LEMMA LatestIs ==
    ASSUME ListSound, Grouped(rows) # {}
    PROVE  /\ LatestName(rows) \in NewestVersions
           /\ \A v \in NewestVersions : v <= LatestName(rows)
  <1> DEFINE stamps == AllStamps
             newest == NewestVersions
  <1>1. /\ rows \in [VersionNames -> [FileNames -> Instants \cup {NoRow}]]
        /\ Grouped(rows) \subseteq VersionNames /\ VersionNames \subseteq Nat
    BY VersionListAssumption DEF ListSound, Grouped
  <1>2. PICK top \in Nat : \A v \in Grouped(rows) : v <= top
    BY DEF ListSound
  <1>3. stamps \in SUBSET Instants /\ stamps # {}
    <2>1. \A t \in stamps : \E v \in VersionNames, n \in FileNames :
              t = rows[v][n] /\ t # NoRow
      BY StampsAre
    <2>2. PICK v \in VersionNames, n \in FileNames : rows[v][n] # NoRow
      BY DEF Grouped
    <2>3. rows[v][n] \in stamps
      BY <2>2, StampsAre
    <2> QED
      BY <1>1, <2>1, <2>3
  <1>4. \A v \in VersionNames, n \in FileNames : rows[v][n] # NoRow => rows[v][n] \in stamps
    BY StampsAre
  <1>5. PICK t \in stamps : \A u \in stamps : u <= t
    <2> HIDE DEF stamps
    <2> QED
      BY <1>3, ListConstants, MaxIs
  <1>6. PICK w \in VersionNames, m \in FileNames : rows[w][m] # NoRow /\ rows[w][m] = t
    BY <1>5, StampsAre
  <1>7. w \in newest
    BY <1>5, <1>6 DEF NewestVersions
  <1>8. \A v \in newest : v \in Grouped(rows) /\ v \in Nat
    BY <1>1 DEF NewestVersions, Grouped
  <1>9. \A v \in Grouped(rows) : v \in newest <=> Newest(rows, v) = t
    <2> SUFFICES ASSUME NEW v \in Grouped(rows)
                 PROVE  v \in newest <=> Newest(rows, v) = t
      OBVIOUS
    <2>1. /\ \E n \in FileNames : rows[v][n] # NoRow /\ rows[v][n] = Newest(rows, v)
          /\ \A n \in FileNames : rows[v][n] # NoRow => rows[v][n] <= Newest(rows, v)
          /\ Newest(rows, v) \in Instants
      BY <1>1, NewestIs
    <2>2. Newest(rows, v) \in stamps /\ v \in VersionNames
      BY <1>1, <1>4, <2>1
    <2>3. CASE v \in newest
      <3>1. PICK n \in FileNames : rows[v][n] # NoRow /\ \A u \in stamps : u <= rows[v][n]
        BY <2>3 DEF NewestVersions
      <3>2. rows[v][n] \in stamps
        BY <1>4, <2>2, <3>1
      <3>3. rows[v][n] <= Newest(rows, v) /\ t <= rows[v][n] /\ Newest(rows, v) <= t
        BY <1>5, <2>1, <2>2, <3>1
      <3>4. t \in Nat /\ Newest(rows, v) \in Nat /\ rows[v][n] \in Nat
        <4> HIDE DEF stamps
        <4> QED
          BY <1>3, <1>5, <2>2, <3>2, ListConstants
      <3> QED
        BY <2>3, <3>3, <3>4
    <2>4. CASE Newest(rows, v) = t
      BY <1>5, <2>1, <2>2, <2>4 DEF NewestVersions
    <2> QED
      BY <2>3, <2>4
  <1>10. PICK x \in newest : \A v \in newest : v <= x
    <2> HIDE DEF newest
    <2>1. newest \in SUBSET Nat /\ newest # {} /\ \A v \in newest : v <= top
      BY <1>2, <1>7, <1>8
    <2> QED
      BY <2>1, MaxIs
  <1>11. \A v \in Grouped(rows) : Newest(rows, v) \in Nat /\ Newest(rows, v) <= t
    <2> SUFFICES ASSUME NEW v \in Grouped(rows)
                 PROVE  Newest(rows, v) \in Nat /\ Newest(rows, v) <= t
      OBVIOUS
    <2>1. PICK n \in FileNames : rows[v][n] # NoRow /\ rows[v][n] = Newest(rows, v)
      BY <1>1, NewestIs
    <2>2. rows[v][n] \in stamps
      BY <1>1, <1>4, <2>1
    <2> HIDE DEF stamps
    <2> QED
      BY <1>3, <1>5, <2>1, <2>2, ListConstants
  <1>12. t \in Nat
    <2> HIDE DEF stamps
    <2> QED
      BY <1>3, <1>5, ListConstants
  <1> HIDE DEF newest, stamps
  <1>13. ASSUME NEW v \in Grouped(rows), v # x PROVE SortsAfter(rows, x, v)
    <2>1. /\ Newest(rows, x) = t /\ x \in Nat /\ v \in Nat
          /\ Newest(rows, v) \in Nat /\ Newest(rows, v) <= t
      BY <1>1, <1>8, <1>9, <1>10, <1>11
    <2>2. CASE Newest(rows, v) = t
      <3>1. v <= x
        BY <1>9, <1>10, <2>2
      <3> QED
        BY <1>13, <2>1, <2>2, <3>1 DEF SortsAfter
    <2>3. CASE Newest(rows, v) # t
      BY <1>12, <2>1, <2>3 DEF SortsAfter
    <2> QED
      BY <2>2, <2>3
  <1> DEFINE latest == LatestName(rows)
  <1>14. /\ latest \in Grouped(rows)
         /\ \A v \in Grouped(rows) \ {latest} : SortsAfter(rows, latest, v)
    <2>1. \E v \in Grouped(rows) : \A u \in Grouped(rows) \ {v} : SortsAfter(rows, v, u)
      BY <1>8, <1>10, <1>13
    <2> QED
      BY <2>1 DEF LatestName
  <1> HIDE DEF latest
  <1>15. latest = x
    <2> SUFFICES ASSUME latest # x PROVE FALSE
      OBVIOUS
    <2>1. SortsAfter(rows, latest, x) /\ SortsAfter(rows, x, latest)
      BY <1>8, <1>10, <1>13, <1>14
    <2>2. /\ Newest(rows, x) \in Nat /\ Newest(rows, latest) \in Nat
          /\ x \in Nat /\ latest \in Nat
      BY <1>1, <1>8, <1>10, <1>11, <1>14
    <2> QED
      BY <2>1, <2>2 DEF SortsAfter
  <1> QED
    BY <1>10, <1>15 DEF latest, newest

\* The versions of an old store have a bound.
LEMMA LegacyBound ==
    \E top \in Nat : \A i \in 1 .. Len(Legacy) : Legacy[i][1] <= top
  <1> DEFINE Bounds(k, top) == \A i \in 1 .. k : Legacy[i][1] <= top
             T == {k \in 0 .. Len(Legacy) : \E top \in Nat : Bounds(k, top)}
  <1>1. Len(Legacy) \in Nat /\ \A i \in 1 .. Len(Legacy) : Legacy[i][1] \in Nat
    <2>1. \A i \in 1 .. Len(Legacy) : Legacy[i] \in VersionNames \X FileNames
      BY VersionListAssumption
    <2>2. ASSUME NEW x \in VersionNames \X FileNames PROVE x[1] \in Nat
      BY VersionListAssumption
    <2> QED
      BY <2>1, <2>2, VersionListAssumption
  <1>2. 0 \in T
    <2>1. Bounds(0, 0) /\ 0 \in 0 .. Len(Legacy)
      BY <1>1
    <2> HIDE DEF Bounds
    <2> QED
      BY <2>1
  <1>3. ASSUME NEW k \in 1 .. Len(Legacy), k - 1 \in T PROVE k \in T
    <2>1. PICK top \in Nat : Bounds(k - 1, top)
      BY <1>3
    <2>2. PICK higher \in Nat : top <= higher /\ Legacy[k][1] <= higher
      BY <1>1
    <2>3. ASSUME NEW i \in 1 .. k PROVE Legacy[i][1] <= higher
      <3>1. CASE i = k
        BY <2>2, <3>1
      <3>2. CASE i # k
        <4>1. i \in 1 .. k - 1 /\ Legacy[i][1] \in Nat
          BY <1>1, <3>2
        <4>2. Legacy[i][1] <= top
          BY <2>1, <4>1
        <4> QED
          BY <2>2, <4>1, <4>2
      <3> QED
        BY <3>1, <3>2
    <2>4. Bounds(k, higher) /\ k \in 0 .. Len(Legacy)
      BY <1>1, <2>3
    <2> HIDE DEF Bounds
    <2> QED
      BY <2>4
  <1> HIDE DEF T
  <1>4. 0 .. Len(Legacy) \subseteq T
    BY <1>1, <1>2, <1>3, CountingUp
  <1>5. Len(Legacy) \in T
    BY <1>1, <1>4
  <1>6. PICK top \in Nat : Bounds(Len(Legacy), top)
    <2> HIDE DEF Bounds
    <2> QED
      BY <1>5 DEF T
  <1> QED
    BY <1>6

\* The stamp of a row of the old store.
LegacyStamp(v, n) ==
    IF <<v, n>> \in Range(Legacy)
    THEN now + Second * (Max({i \in 1 .. Len(Legacy) : Legacy[i] = <<v, n>>}) - 1)
    ELSE NoRow

\* The row that the migration stamps last has the largest stamp.
LEMMA TimesGrows ==
    ASSUME NEW a \in Nat, NEW n \in Nat, NEW i \in 1 .. n
    PROVE  a * (i - 1) \in 0 .. a * n
  <1>1. i - 1 \in Nat /\ n - (i - 1) \in Nat
    OBVIOUS
  <1>2. a * (i - 1) \in Nat /\ a * (n - (i - 1)) \in Nat
    BY <1>1
  <1>3. a * n = a * (i - 1) + a * (n - (i - 1))
    BY <1>1
  <1> QED
    BY <1>2, <1>3

\* The migration stamps within the bounds of the model.
LEMMA LegacyStampIs ==
    ASSUME now \in 0 .. MaxTime, NEW v \in VersionNames, NEW n \in FileNames
    PROVE  /\ LegacyStamp(v, n) \in Instants \cup {NoRow}
           /\ LegacyStamp(v, n) # NoRow => \E i \in 1 .. Len(Legacy) : Legacy[i] = <<v, n>>
  <1> DEFINE S == {i \in 1 .. Len(Legacy) : Legacy[i] = <<v, n>>}
  <1>1. /\ Len(Legacy) \in Nat /\ MaxTime \in Nat /\ Second \in Nat
        /\ DOMAIN Legacy = 1 .. Len(Legacy)
    BY VersionListAssumption
  <1>2. CASE <<v, n>> \in Range(Legacy)
    <2>1. PICK i \in 1 .. Len(Legacy) : Legacy[i] = <<v, n>>
      BY <1>1, <1>2 DEF Range
    <2>2. /\ S \in SUBSET Nat /\ S # {}
          /\ (\A s \in S : s <= Len(Legacy)) /\ S \subseteq 1 .. Len(Legacy)
      BY <1>1, <2>1
    <2> HIDE DEF S
    <2>3. Max(S) \in 1 .. Len(Legacy)
      BY <1>1, <2>2, MaxIs
    <2>4. LegacyStamp(v, n) = now + Second * (Max(S) - 1)
      BY <1>2 DEF LegacyStamp, S
    <2>5. Second * (Max(S) - 1) \in 0 .. Second * Len(Legacy)
      BY <1>1, <2>3, TimesGrows
    <2>6. Second * Len(Legacy) \in Nat
      BY <1>1
    <2> DEFINE later == Second * (Max(S) - 1)
               bound == Second * Len(Legacy)
    <2>7. later \in 0 .. bound /\ bound \in Nat /\ LegacyStamp(v, n) = now + later
      BY <2>4, <2>5, <2>6
    <2> HIDE DEF later, bound
    <2>8. now + later \in 0 .. MaxTime + bound
      BY <1>1, <2>7
    <2> QED
      BY <2>1, <2>7, <2>8 DEF Instants, bound
  <1>3. CASE <<v, n>> \notin Range(Legacy)
    BY <1>3 DEF LegacyStamp
  <1> QED
    BY <1>2, <1>3

\* A step that changes one row keeps the rows within their bounds.
LEMMA RowChanged ==
    ASSUME NEW old \in [VersionNames -> [FileNames -> Instants \cup {NoRow}]],
           NEW v \in VersionNames, NEW n \in FileNames, NEW x \in Instants \cup {NoRow},
           \E top \in Nat : \A u \in Grouped(old) : u <= top
    PROVE  LET new == [old EXCEPT ![v][n] = x]
           IN  /\ new \in [VersionNames -> [FileNames -> Instants \cup {NoRow}]]
               /\ \E top \in Nat : \A u \in Grouped(new) : u <= top
  <1> DEFINE new == [old EXCEPT ![v][n] = x]
  <1>1. new \in [VersionNames -> [FileNames -> Instants \cup {NoRow}]]
    OBVIOUS
  <1>2. /\ new[v][n] = x
        /\ \A u \in VersionNames, m \in FileNames : <<u, m>> # <<v, n>> => new[u][m] = old[u][m]
    OBVIOUS
  <1> HIDE DEF new
  <1>3. PICK top \in Nat : \A u \in Grouped(old) : u <= top
    OBVIOUS
  <1>4. PICK higher \in Nat : top <= higher /\ v <= higher
    <2>1. v \in Nat
      BY VersionListAssumption
    <2>2. CASE v <= top
      BY <2>2
    <2>3. CASE ~(v <= top)
      BY <2>1, <2>3
    <2> QED
      BY <2>2, <2>3
  <1>5. ASSUME NEW u \in Grouped(new) PROVE u <= higher
    <2>1. u \in VersionNames /\ u \in Nat
      BY VersionListAssumption DEF Grouped
    <2>2. u = v \/ u \in Grouped(old)
      BY <1>2 DEF Grouped
    <2> QED
      BY <1>3, <1>4, <2>1, <2>2
  <1> QED
    BY <1>1, <1>2, <1>4, <1>5 DEF new

\* The whole invariant is inductive.
LEMMA ListStays == ListSound /\ [ListNext]_listVars => ListSound'
  <1> SUFFICES ASSUME ListSound, [ListNext]_listVars PROVE ListSound'
    OBVIOUS
  <1> DEFINE Table == [VersionNames -> [FileNames -> Instants \cup {NoRow}]]
             Bounded(table) == \E top \in Nat : \A v \in Grouped(table) : v <= top
  <1>1. /\ now \in 0 .. MaxTime /\ rows \in Table /\ Bounded(rows)
        /\ last # None => phase = "serve" /\ last \in NewestVersions
        /\ now \in Instants /\ MaxTime \in Nat
    BY ListConstants, VersionListAssumption DEF ListSound
  <1>2. ASSUME UNCHANGED rows, now' \in 0 .. MaxTime, last' = last,
               phase' = phase \/ phase' = "serve"
        PROVE  ListSound'
    <2>1. NewestVersions' = NewestVersions /\ Grouped(rows)' = Grouped(rows)
      BY <1>2 DEF NewestVersions, AllStamps, Grouped
    <2> QED
      BY <1>1, <1>2, <2>1 DEF ListSound
  <1>3. CASE UNCHANGED listVars
    BY <1>1, <1>2, <1>3 DEF listVars
  <1>4. CASE Load
    <2>1. /\ rows' = [v \in VersionNames |-> [n \in FileNames |-> LegacyStamp(v, n)]]
          /\ last' = None /\ now' = now
      BY <1>1, <1>4 DEF Load, LegacyStamp
    <2>2. rows' \in Table
      BY <1>1, <2>1, LegacyStampIs
    <2>3. PICK top \in Nat : \A i \in 1 .. Len(Legacy) : Legacy[i][1] <= top
      BY LegacyBound
    <2>4. ASSUME NEW v \in Grouped(rows') PROVE v <= top
      <3>1. PICK n \in FileNames : LegacyStamp(v, n) # NoRow /\ v \in VersionNames
        BY <2>1 DEF Grouped
      <3>2. PICK i \in 1 .. Len(Legacy) : Legacy[i] = <<v, n>>
        BY <1>1, <3>1, LegacyStampIs
      <3> QED
        BY <2>3, <3>2
    <2> QED
      BY <1>1, <2>1, <2>2, <2>4 DEF ListSound
  <1>5. ASSUME NEW v \in VersionNames, NEW n \in FileNames, NEW mtime \in 0 .. MaxTime,
               SyncFile(v, n, mtime)
        PROVE  ListSound'
    <2>1. /\ rows' = [rows EXCEPT ![v][n] = mtime]
          /\ now' = now /\ last' = last /\ phase = "sync" /\ mtime \in Instants
      BY <1>5, ListConstants DEF SyncFile
    <2>2. rows' \in Table /\ Bounded(rows')
      BY <1>1, <2>1, RowChanged
    <2>3. last' = None
      BY <1>1, <2>1
    <2> QED
      BY <1>1, <2>1, <2>2, <2>3 DEF ListSound
  <1>6. CASE Serve
    BY <1>1, <1>2, <1>6 DEF Serve
  <1>7. ASSUME NEW v \in VersionNames, NEW n \in FileNames, AddArtifact(v, n)
        PROVE  ListSound'
    <2>1. /\ rows' = [rows EXCEPT ![v][n] = now]
          /\ now' = now /\ phase' = "serve" /\ last' = Uploaded(v)
      BY <1>7 DEF AddArtifact
    <2>2. /\ rows' \in Table /\ Bounded(rows') /\ rows'[v][n] = now
          /\ \A u \in VersionNames, m \in FileNames :
                 <<u, m>> # <<v, n>> => rows'[u][m] = rows[u][m]
      <3>1. now \in Instants \cup {NoRow}
        BY <1>1
      <3> DEFINE new == [rows EXCEPT ![v][n] = now]
      <3>2. new \in Table /\ Bounded(new)
        BY <1>1, <3>1, RowChanged
      <3>4. /\ new[v][n] = now
            /\ \A u \in VersionNames, m \in FileNames :
                   <<u, m>> # <<v, n>> => new[u][m] = rows[u][m]
        BY <1>1
      <3>3. rows' = new
        BY <2>1
      <3> HIDE DEF new
      <3> QED
        BY <3>2, <3>3, <3>4
    <2>3. ASSUME last' # None PROVE last' \in NewestVersions'
      <3>1. last' = v /\ \A t \in AllStamps : ~(t > now)
        BY <2>1, <2>3 DEF Uploaded
      <3>2. ASSUME NEW t \in AllStamps' PROVE t <= rows'[v][n]
        <4>1. PICK u \in VersionNames, m \in FileNames : t = rows'[u][m] /\ t # NoRow
          BY StampsIn DEF AllStamps
        <4>2. t \in Instants /\ t \in Nat /\ now \in Nat
          BY <1>1, <2>2, <4>1, ListConstants
        <4>3. CASE <<u, m>> = <<v, n>>
          BY <2>2, <4>1, <4>2, <4>3
        <4>4. CASE <<u, m>> # <<v, n>>
          <5>1. t = rows[u][m]
            BY <2>2, <4>1, <4>4
          <5>2. t \in AllStamps
            BY <4>1, <5>1, StampsAre
          <5> QED
            BY <2>2, <3>1, <4>2, <5>2
        <4> QED
          BY <4>3, <4>4
      <3>3. rows'[v][n] # NoRow
        BY <1>1, <2>2, ListConstants
      <3> QED
        BY <3>1, <3>2, <3>3 DEF NewestVersions
    <2> QED
      BY <1>1, <2>1, <2>2, <2>3 DEF ListSound
  <1>8. ASSUME NEW v \in VersionNames, NEW n \in FileNames, RemoveArtifact(v, n)
        PROVE  ListSound'
    <2>1. /\ rows' = [rows EXCEPT ![v][n] = NoRow]
          /\ now' = now /\ last' = None
      BY <1>8 DEF RemoveArtifact
    <2>2. rows' \in Table /\ Bounded(rows')
      BY <1>1, <2>1, RowChanged
    <2> QED
      BY <1>1, <2>1, <2>2 DEF ListSound
  <1>9. ASSUME NEW v \in VersionNames, RemoveVersion(v) PROVE ListSound'
    <2>1. /\ rows' = [rows EXCEPT ![v] = [n \in FileNames |-> NoRow]]
          /\ now' = now /\ last' = None
      BY <1>9 DEF RemoveVersion
    <2>2. rows' \in Table
      BY <1>1, <2>1
    <2>3. Grouped(rows') \subseteq Grouped(rows)
      BY <1>1, <2>1 DEF Grouped
    <2> QED
      BY <1>1, <2>1, <2>2, <2>3 DEF ListSound
  <1>10. CASE Tick
    BY <1>1, <1>2, <1>10 DEF Tick
  <1> QED
    BY <1>3, <1>4, <1>5, <1>6, <1>7, <1>8, <1>9, <1>10 DEF ListNext

\* A project without rows is a sound start.
LEMMA ListStarts == ListInit => ListSound
  <1> SUFFICES ASSUME ListInit PROVE ListSound
    OBVIOUS
  <1>1. /\ now = 0 /\ MaxTime \in Nat /\ last = None
        /\ rows \in [VersionNames -> [FileNames -> Instants \cup {NoRow}]]
    BY VersionListAssumption DEF ListInit
  <1>2. Grouped(rows) = {}
    BY DEF ListInit, Grouped
  <1> QED
    BY <1>1, <1>2 DEF ListSound

\* Unless rows were deleted since or the migration stamped rows in the future, the version
\* that is listed as the latest has its newest row from the time of the last upload
\* (add_artifact and version_summaries of database.py), for any project, any store of an
\* older release and any clock that is not set back.
THEOREM LastUploadCounts == ListSpec => []LastUploadIsLatest
  <1>1. ListSound => LastUploadIsLatest
    <2> SUFFICES ASSUME ListSound, last # None
                 PROVE  Newest(rows, LatestName(rows)) = Newest(rows, last)
      BY DEF LastUploadIsLatest
    <2>1. last \in NewestVersions /\ \A v \in NewestVersions : v \in Grouped(rows)
      BY DEF ListSound, NewestVersions, Grouped
    <2>2. LatestName(rows) \in NewestVersions
      BY <2>1, LatestIs
    <2>3. ASSUME NEW v \in NewestVersions, NEW w \in NewestVersions
          PROVE  Newest(rows, v) <= Newest(rows, w) /\ Newest(rows, v) \in Nat
      <3>1. rows \in [VersionNames -> [FileNames -> Instants \cup {NoRow}]]
        BY DEF ListSound
      <3>2. PICK n \in FileNames : rows[v][n] # NoRow /\ rows[v][n] = Newest(rows, v)
        BY <2>1, <3>1, NewestIs
      <3>3. rows[v][n] \in AllStamps /\ rows[v][n] \in Instants
        BY <3>1, <3>2, StampsAre DEF NewestVersions
      <3>4. PICK m \in FileNames : rows[w][m] # NoRow /\ rows[v][n] <= rows[w][m]
        BY <3>3 DEF NewestVersions
      <3>5. rows[w][m] <= Newest(rows, w) /\ Newest(rows, w) \in Instants
        BY <2>1, <3>1, <3>4, NewestIs
      <3>6. rows[w][m] \in Instants
        BY <3>1, <3>4 DEF NewestVersions
      <3>7. /\ rows[v][n] \in Nat /\ rows[w][m] \in Nat /\ Newest(rows, w) \in Nat
            /\ rows[v][n] <= rows[w][m] /\ rows[w][m] <= Newest(rows, w)
        BY <3>3, <3>4, <3>5, <3>6, ListConstants
      <3> QED
        BY <3>2, <3>7
    <2> QED
      BY <2>1, <2>2, <2>3
  <1> QED
    BY <1>1, ListStarts, ListStays, PTL DEF ListSpec

\* The members of S that come before v.
Before(S, v) == {w \in S : w < v}

\* More members of a finite set come before a greater one.
LEMMA BeforeGrows ==
    ASSUME NEW S \in SUBSET Nat, IsFiniteSet(S), NEW v \in S
    PROVE  /\ Cardinality(Before(S, v)) \in Nat
           /\ Cardinality(Before(S, v)) < Cardinality(S)
           /\ \A w \in S : v < w => Cardinality(Before(S, v)) < Cardinality(Before(S, w))
  <1>1. IsFiniteSet(Before(S, v)) /\ v \notin Before(S, v) /\ Cardinality(Before(S, v)) \in Nat
    <2>1. Before(S, v) \in SUBSET S /\ v \notin Before(S, v)
      BY DEF Before
    <2>2. IsFiniteSet(Before(S, v))
      BY <2>1, FS_Subset
    <2> QED
      BY <2>1, <2>2, FS_CardinalityType
  <1> DEFINE with == Before(S, v) \cup {v}
  <1>2. IsFiniteSet(with) /\ Cardinality(with) = Cardinality(Before(S, v)) + 1
    BY <1>1, FS_AddElement
  <1>3. with \in SUBSET S /\ \A w \in S : v < w => with \in SUBSET Before(S, w)
    <2>1. with \in SUBSET S
      BY DEF Before
    <2>2. ASSUME NEW w \in S, v < w, NEW x \in with PROVE x \in Before(S, w)
      <3>1. x \in Nat /\ v \in Nat /\ w \in Nat /\ (x < v \/ x = v)
        BY <2>1 DEF Before
      <3> QED
        BY <2>1, <2>2, <3>1 DEF Before
    <2> QED
      BY <2>1, <2>2
  <1>4. \A w \in S : IsFiniteSet(Before(S, w)) /\ Cardinality(Before(S, w)) \in Nat
    <2> SUFFICES ASSUME NEW w \in S
                 PROVE  IsFiniteSet(Before(S, w)) /\ Cardinality(Before(S, w)) \in Nat
      OBVIOUS
    <2>1. Before(S, w) \in SUBSET S
      BY DEF Before
    <2>2. IsFiniteSet(Before(S, w))
      BY <2>1, FS_Subset
    <2> QED
      BY <2>2, FS_CardinalityType
  <1> HIDE DEF with
  <1>5. Cardinality(S) \in Nat /\ Cardinality(with) <= Cardinality(S)
    BY <1>3, FS_Subset, FS_CardinalityType
  <1>6. ASSUME NEW w \in S, v < w PROVE Cardinality(with) <= Cardinality(Before(S, w))
    BY <1>3, <1>4, <1>6, FS_Subset
  <1> QED
    BY <1>1, <1>2, <1>4, <1>5, <1>6

\* Sorting lists every member of a finite set of naturals once, in increasing order.
LEMMA SortedIs ==
    ASSUME NEW S \in SUBSET Nat, IsFiniteSet(S)
    PROVE  /\ Cardinality(S) \in Nat
           /\ Sorted(S) \in [1 .. Cardinality(S) -> S]
           /\ \A v \in S : \E i \in 1 .. Cardinality(S) : Sorted(S)[i] = v
           /\ \A i, j \in 1 .. Cardinality(S) : i < j => Sorted(S)[i] < Sorted(S)[j]
  <1> DEFINE k == Cardinality(S)
             place(v) == Cardinality(Before(S, v)) + 1
             f == [v \in S |-> place(v)]
  <1>1. k \in Nat
    BY FS_CardinalityType
  <1>2. \A v \in S : place(v) \in 1 .. k
    BY <1>1, BeforeGrows
  <1>3. \A v, w \in S : v < w => place(v) < place(w)
    BY BeforeGrows
  <1>4. \A v, w \in S : place(v) = place(w) => v = w
    <2> SUFFICES ASSUME NEW v \in S, NEW w \in S, place(v) = place(w), v # w PROVE FALSE
      OBVIOUS
    <2> HIDE DEF place, k
    <2>1. v < w \/ w < v
      OBVIOUS
    <2>2. place(v) \in Nat
      BY <1>1, <1>2
    <2> QED
      BY <1>3, <2>1, <2>2
  <1> HIDE DEF place
  <1>5. \A i \in 1 .. k : \E v \in S : place(v) = i
    <2>1. f \in Injection(S, 1 .. k)
      BY <1>2, <1>4 DEF Injection, IsInjective
    <2>2. IsFiniteSet(1 .. k) /\ Cardinality(1 .. k) = k
      <3> HIDE DEF k
      <3> QED
        BY <1>1, FS_Interval
    <2> HIDE DEF f
    <2>3. f \in Surjection(S, 1 .. k)
      BY <2>1, <2>2, FS_Injection
    <2>4. \A i \in 1 .. k : \E v \in S : f[v] = i
      BY <2>3 DEF Surjection
    <2> QED
      BY <2>4 DEF f
  <1>6. \A i \in 1 .. k : Sorted(S)[i] = CHOOSE v \in S : Cardinality(Before(S, v)) = i - 1
    BY DEF Sorted, Before
  <1>7. \A i \in 1 .. k : Sorted(S)[i] \in S /\ place(Sorted(S)[i]) = i
    <2> SUFFICES ASSUME NEW i \in 1 .. k
                 PROVE  Sorted(S)[i] \in S /\ place(Sorted(S)[i]) = i
      OBVIOUS
    <2>1. \E v \in S : Cardinality(Before(S, v)) = i - 1
      <3>1. PICK v \in S : place(v) = i
        BY <1>5
      <3>2. Cardinality(Before(S, v)) \in Nat
        BY BeforeGrows
      <3>3. Cardinality(Before(S, v)) = i - 1
        BY <1>1, <3>1, <3>2 DEF place
      <3> QED
        BY <3>3
    <2> DEFINE x == CHOOSE v \in S : Cardinality(Before(S, v)) = i - 1
    <2>2. x \in S /\ Cardinality(Before(S, x)) = i - 1
      BY <2>1
    <2>3. Sorted(S)[i] = x
      BY <1>6
    <2> HIDE DEF x
    <2> QED
      BY <1>1, <2>2, <2>3 DEF place
  <1>8. Sorted(S) \in [1 .. k -> S]
    <2> DEFINE e(i) == CHOOSE v \in S : Cardinality({w \in S : w < v}) = i - 1
    <2>1. Sorted(S) = [i \in 1 .. k |-> e(i)]
      BY DEF Sorted
    <2> HIDE DEF k, e
    <2>2. \A i \in 1 .. k : e(i) \in S
      BY <1>7, <2>1
    <2> QED
      BY <2>1, <2>2
  <1>9. \A v \in S : \E i \in 1 .. k : Sorted(S)[i] = v
    BY <1>2, <1>4, <1>7
  <1>10. ASSUME NEW i \in 1 .. k, NEW j \in 1 .. k, i < j PROVE Sorted(S)[i] < Sorted(S)[j]
    <2> DEFINE v == Sorted(S)[i]
               w == Sorted(S)[j]
    <2>1. v \in S /\ w \in S /\ place(v) = i /\ place(w) = j
      BY <1>7
    <2> HIDE DEF v, w, k
    <2>2. v \in Nat /\ w \in Nat /\ v # w /\ ~(w < v)
      BY <1>1, <1>3, <1>10, <2>1
    <2>3. v < w
      BY <2>2
    <2> QED
      BY <2>3 DEF v, w
  <1> QED
    BY <1>1, <1>8, <1>9, <1>10

\* For any stamps that uploads, deletions, the startup synchronisation and the migration
\* leave: the list names each version once and in order, and marks as latest the one
\* that version_summaries of database.py promises.
THEOREM SummariesAreRight == ListSpec => []SummariesRight
  <1>1. ListSound => SummariesRight
    <2> SUFFICES ASSUME ListSound PROVE SummariesRight
      OBVIOUS
    <2> DEFINE names == Sorted(Grouped(rows))
               k == Cardinality(Grouped(rows))
               latest == LatestName(rows)
               list == VersionSummaries(rows)
    <2>1. Grouped(rows) \in SUBSET Nat /\ IsFiniteSet(Grouped(rows))
      <3>1. Grouped(rows) \in SUBSET Nat
        BY VersionListAssumption DEF Grouped
      <3> QED
        BY <3>1, FS_BoundedSetOfNaturals DEF ListSound
    <2>2. /\ k \in Nat
          /\ names \in [1 .. k -> Grouped(rows)]
          /\ \A v \in Grouped(rows) : \E i \in 1 .. k : names[i] = v
          /\ \A i, j \in 1 .. k : i < j => names[i] < names[j]
      BY <2>1, SortedIs
    <2>3. list = [i \in 1 .. k |-> [name |-> names[i], latest |-> names[i] = latest]]
      <3>1. list = [i \in 1 .. Len(names) |-> [name |-> names[i], latest |-> names[i] = latest]]
        BY DEF VersionSummaries
      <3> HIDE DEF names, k, latest, list
      <3>2. Len(names) = k
        BY <2>2
      <3> QED
        BY <3>1, <3>2
    <2> HIDE DEF names, k, latest, list
    <2>4. DOMAIN list = 1 .. k
      BY <2>3
    <2>5. \A i \in 1 .. k : list[i].name = names[i] /\ list[i].latest = (names[i] = latest)
      BY <2>3
    <2>6. {list[i].name : i \in DOMAIN list} = Grouped(rows)
      BY <2>2, <2>4, <2>5
    <2>7. \A i, j \in DOMAIN list : i < j => list[i].name < list[j].name
      BY <2>2, <2>4, <2>5
    <2>8. ASSUME NEW i \in DOMAIN list
          PROVE  list[i].latest <=> /\ list[i].name \in NewestVersions
                                    /\ \A v \in NewestVersions : v <= list[i].name
      <3>1. names[i] \in Grouped(rows)
        BY <2>2, <2>4
      <3>2. latest \in NewestVersions /\ \A v \in NewestVersions : v <= latest
        BY <3>1, LatestIs DEF latest
      <3>3. \A v \in NewestVersions : v \in Nat
        BY VersionListAssumption DEF NewestVersions
      <3>4. ASSUME names[i] \in NewestVersions, \A v \in NewestVersions : v <= names[i]
            PROVE  names[i] = latest
        BY <3>2, <3>3, <3>4
      <3> QED
        BY <2>4, <2>5, <3>2, <3>4
    <2> QED
      BY <2>6, <2>7, <2>8 DEF SummariesRight, NewestVersions, list
  <1> QED
    BY <1>1, ListStarts, ListStays, PTL DEF ListSpec
=============================================================================
