------------------------------- MODULE Paths -------------------------------
(***************************************************************************)
(* The path rules of FilesystemFileStore (files.py) and the archive        *)
(* prefixes of app.py.  A name is the sequence of the segments between its *)
(* slashes, empty ones included; backslashes count as slashes, because     *)
(* both rules replace them first.  A place in the file system is the       *)
(* sequence of the names from the storage root down.                       *)
(***************************************************************************)
EXTENDS Naturals, FiniteSets, SequencesExt

CONSTANTS
    Segments,   \* what may stand between two slashes, "", "." and ".." included
    Projects,   \* what requests name as project and version
    Versions,
    Names,      \* names and prefixes of requests: nonempty sequences of segments
    MaxFiles,   \* bound: files in the tree
    NoPath      \* None

Empty == ""   \* the segment between two slashes
Dots == {".", ".."}

ASSUME PathsAssumption ==
    /\ {Empty} \cup Dots \subseteq Segments
    /\ Projects \cup Versions \cup Names \subseteq Seq(Segments) \ {<<>>}
    /\ MaxFiles \in Nat
    /\ NoPath \notin Seq(Segments)

VARIABLE stored   \* the places of the regular files below the storage root

Blank(name) == name = <<Empty>>

\* Where a segment leads from a place.
Step(at, segment) ==
    CASE segment \in {Empty, "."} -> at
      [] segment = ".." -> IF at = <<>> THEN at ELSE Front(at)
      [] OTHER -> Append(at, segment)

\* Where the operating system ends up from a place.
Walk(place, name) ==
    LET at[i \in 0 .. Len(name)] == IF i = 0 THEN place ELSE Step(at[i - 1], name[i])
    IN  at[Len(name)]

\* strip("/")
Stripped(name) ==
    LET filled == {i \in DOMAIN name : name[i] # Empty}
        first == CHOOSE i \in filled : \A j \in filled : i <= j
        last  == CHOOSE i \in filled : \A j \in filled : j <= i
    IN  IF filled = {} THEN <<>> ELSE SubSeq(name, first, last)

Clean(name) == \A i \in DOMAIN name : name[i] \notin {Empty} \cup Dots

\* Mutant: a segment may be "." or "..".
AnySegment(name) == IF Len(name) = 1 /\ ~Blank(name) THEN name ELSE NoPath

\* _safe_segment: one segment, without slashes.
SafeSegment(name) ==
    IF Len(name) = 1 /\ Clean(name) THEN name ELSE NoPath

\* _safe_relative_path
SafeRelativePath(name) ==
    IF Stripped(name) # <<>> /\ Clean(Stripped(name)) THEN Stripped(name) ELSE NoPath

\* _directory_for
DirectoryFor(project, version) ==
    IF NoPath \in {SafeSegment(project), SafeSegment(version)} THEN NoPath
    ELSE Walk(<<>>, project \o version)

\* resolve
Resolve(project, version, name) ==
    LET directory == DirectoryFor(project, version)
        relative == SafeRelativePath(name)
    IN  IF NoPath \in {directory, relative} THEN NoPath
        ELSE LET resolved == Walk(directory, relative)
             IN  IF IsPrefix(directory, resolved) THEN resolved ELSE NoPath

\* Mutant: the last segment alone.
ListBaseNames(project, version) ==
    LET directory == DirectoryFor(project, version)
    IN  IF directory = NoPath THEN {}
        ELSE {<<Last(f)>> : f \in {g \in stored : IsStrictPrefix(directory, g)}}

\* list: the files below the directory, relative to it.
List(project, version) ==
    LET directory == DirectoryFor(project, version)
    IN  IF directory = NoPath THEN {}
        ELSE {SubSeq(f, Len(directory) + 1, Len(f)) :
                  f \in {g \in stored : IsStrictPrefix(directory, g)}}

\* list_all: every name below the directories two levels down.
ListAll ==
    UNION {{<<<<f[1]>>, <<f[2]>>, name>> : name \in List(<<f[1]>>, <<f[2]>>)} : f \in stored}

PathsInit == stored = {}

\* store: a file where a directory is needed, or a directory in its place, raises.
Store(project, version, name) ==
    LET place == Resolve(project, version, name)
    IN  /\ place # NoPath
        /\ ~\E f \in stored : IsStrictPrefix(f, place) \/ IsStrictPrefix(place, f)
        /\ Cardinality(stored \cup {place}) <= MaxFiles
        /\ stored' = stored \cup {place}

\* Deletions lead to trees that uploads lead to as well, and are left out.
PathsNext ==
    \E p \in Projects, v \in Versions, n \in Names : Store(p, v, n)

PathsSpec == PathsInit /\ [][PathsNext]_stored
-----------------------------------------------------------------------------
(* download_archive: which files, under which entry names. *)

\* normalize_archive_prefix: <<>> is the whole version.
ArchivePrefix(raw) ==
    IF Clean(Stripped(raw)) THEN Stripped(raw) ELSE NoPath

\* Mutant: only what lies below the prefix.
BelowArchivePrefix(name, prefix) == IsStrictPrefix(prefix, name)

\* matches_archive_prefix
MatchesArchivePrefix(name, prefix) == IsPrefix(prefix, name)

\* archive_entry_name
ArchiveEntryName(name, prefix) ==
    IF prefix # <<>> /\ name = prefix THEN <<Last(name)>>
    ELSE SubSeq(name, Len(prefix) + 1, Len(name))

\* _write_archive: the entries, with the place each is read from.
ArchiveEntries(project, version, prefix) ==
    {[entry |-> ArchiveEntryName(n, prefix), from |-> Resolve(project, version, n)] :
        n \in {m \in List(project, version) : MatchesArchivePrefix(m, prefix)}}
-----------------------------------------------------------------------------
\* Whatever names lead to a stored file, they name the project and the version whose
\* directory it is in: no other version's files are read, overwritten or deleted.
\* (_safe_segment and resolve.)
StaysInside ==
    \A p \in Projects, v \in Versions, n \in Names :
        Resolve(p, v, n) \in stored =>
            Len(p) = 1 /\ Len(v) = 1 /\ IsStrictPrefix(p \o v, Resolve(p, v, n))

\* A listing names exactly the files of the version, and each name it gives leads back
\* to its file, for downloads, deletions and the startup synchronisation alike; a name
\* that is spelled with slashes around it leads to the same file.
ListedNamesResolve ==
    /\ {Resolve(r[1], r[2], r[3]) : r \in ListAll} = stored
    /\ \A r \in ListAll : Resolve(r[1], r[2], <<Empty>> \o r[3] \o <<Empty>>) \in stored

\* For every prefix that is accepted, an archive has an entry for each file at or below
\* the place the prefix leads to, and for no other; it cannot be accepted and lead out
\* of the version.
ArchiveComplete ==
    \A p \in Projects, v \in Versions, raw \in Names :
        LET prefix == ArchivePrefix(raw)
            directory == DirectoryFor(p, v)
        IN  prefix # NoPath /\ directory # NoPath =>
                {e.from : e \in ArchiveEntries(p, v, prefix)} =
                    {f \in stored : IsPrefix(Walk(directory, raw), f)}

\* An archive can be unpacked: no two files have the same entry, and none has an entry
\* where another needs a directory.
EntriesUnpack ==
    \A p \in Projects, v \in Versions, raw \in Names :
        LET prefix == ArchivePrefix(raw)
        IN  prefix # NoPath =>
                \A d, e \in ArchiveEntries(p, v, prefix) :
                    /\ e.entry # <<>>
                    /\ d # e => ~IsPrefix(d.entry, e.entry)

\* An archive is whole and can be unpacked.
ArchivesUnpackWhole == ArchiveComplete /\ EntriesUnpack
=============================================================================
