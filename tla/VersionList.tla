---------------------------- MODULE VersionList ----------------------------
(***************************************************************************)
(* Which version of a project is the latest: version_summaries             *)
(* (database.py) over the artifact rows of one project, the stamps those   *)
(* rows get from uploads, from the startup synchronisation and from the    *)
(* migration of a store written before rows had an uploadedAt.  Version    *)
(* names are numbers, ordered as Python orders the strings; one unit of    *)
(* time is a microsecond, the resolution of a stamp (timefmt.py).          *)
(***************************************************************************)
EXTENDS Naturals, SequencesExt

CONSTANTS
    VersionNames, FileNames,
    MaxTime,    \* bound: the last time of the clock
    Second,     \* how many units of time the migration puts between two rows
    Legacy,     \* the unstamped rows <<version, name>> of the store, in file order
    NoRow, None

ASSUME VersionListAssumption ==
    /\ VersionNames \subseteq Nat
    /\ MaxTime \in Nat /\ Second \in Nat
    /\ Legacy \in Seq(VersionNames \X FileNames)
    /\ NoRow \notin Nat
    /\ None \notin VersionNames

VARIABLES
    rows,     \* uploadedAt of each artifact row of the project
    now,      \* the clock, never set back
    phase,    \* "load", "sync" and then "serve"
    last      \* the version of the last upload; None once rows were deleted since, or
              \* if the migration had stamped a row later than it

listVars == <<rows, now, phase, last>>

Grouped(table) == {v \in VersionNames : \E n \in FileNames : table[v][n] # NoRow}

AllStamps == (UNION {{rows[v][n] : n \in FileNames} : v \in VersionNames}) \ {NoRow}

Newest(table, v) == Max({table[v][n] : n \in {m \in FileNames : table[v][m] # NoRow}})

\* Mutant: the later name wins.
NameAfter(table, v, w) == v > w

\* sort_key: by the newest stamp, then by name.
SortsAfter(table, v, w) ==
    \/ Newest(table, v) > Newest(table, w)
    \/ Newest(table, v) = Newest(table, w) /\ v > w

LatestName(table) ==
    CHOOSE v \in Grouped(table) :
        \A w \in Grouped(table) \ {v} : SortsAfter(table, v, w)

\* sorted: a name comes after as many names as are smaller.
Sorted(names) ==
    [i \in 1 .. Cardinality(names) |->
        CHOOSE v \in names : Cardinality({w \in names : w < v}) = i - 1]

VersionSummaries(table) ==
    LET names == Sorted(Grouped(table))
    IN  [i \in 1 .. Len(names) |->
            [name |-> names[i], latest |-> names[i] = LatestName(table)]]
-----------------------------------------------------------------------------
ListInit ==
    /\ rows = [v \in VersionNames |-> [n \in FileNames |-> NoRow]]
    /\ now = 0
    /\ phase = "load"
    /\ last = None

\* _load_or_seed: the legacy rows are stamped one second apart, from now on.
Load ==
    /\ phase = "load"
    /\ rows' = [v \in VersionNames |-> [n \in FileNames |->
                  IF <<v, n>> \in Range(Legacy)
                  THEN now + Second * (Max({i \in 1 .. Len(Legacy) : Legacy[i] = <<v, n>>}) - 1)
                  ELSE NoRow]]
    /\ phase' = "sync"
    /\ UNCHANGED <<now, last>>

\* sync_artifacts_from_disk: a file without a row gets its mtime as stamp.
SyncFile(v, n, mtime) ==
    /\ phase = "sync"
    /\ rows[v][n] = NoRow
    /\ mtime <= now
    /\ rows' = [rows EXCEPT ![v][n] = mtime]
    /\ UNCHANGED <<now, phase, last>>

Serve ==
    /\ phase = "sync"
    /\ phase' = "serve"
    /\ UNCHANGED <<rows, now, last>>

Uploaded(v) == IF \E t \in AllStamps : t > now THEN None ELSE v

\* Mutant: a re-upload keeps the stamp of the first upload.
AddOnce(v, n) ==
    /\ phase = "serve"
    /\ rows' = [rows EXCEPT ![v][n] = IF @ = NoRow THEN now ELSE @]
    /\ last' = Uploaded(v)
    /\ UNCHANGED <<now, phase>>

\* add_artifact of an upload: a re-upload takes the place of the row.
AddArtifact(v, n) ==
    /\ phase = "serve"
    /\ rows' = [rows EXCEPT ![v][n] = now]
    /\ last' = Uploaded(v)
    /\ UNCHANGED <<now, phase>>

RemoveArtifact(v, n) ==
    /\ phase = "serve"
    /\ rows[v][n] # NoRow
    /\ rows' = [rows EXCEPT ![v][n] = NoRow]
    /\ last' = None
    /\ UNCHANGED <<now, phase>>

RemoveVersion(v) ==
    /\ phase = "serve"
    /\ v \in Grouped(rows)
    /\ rows' = [rows EXCEPT ![v] = [n \in FileNames |-> NoRow]]
    /\ last' = None
    /\ UNCHANGED <<now, phase>>

Tick ==
    /\ now < MaxTime
    /\ now' = now + 1
    /\ UNCHANGED <<rows, phase, last>>

ListNext ==
    \/ Load
    \/ \E v \in VersionNames, n \in FileNames, mtime \in 0 .. MaxTime : SyncFile(v, n, mtime)
    \/ Serve
    \/ \E v \in VersionNames, n \in FileNames : AddArtifact(v, n) \/ RemoveArtifact(v, n)
    \/ \E v \in VersionNames : RemoveVersion(v)
    \/ Tick

ListSpec == ListInit /\ [][ListNext]_listVars
-----------------------------------------------------------------------------
\* The list names each version that has rows once, in order, and marks as latest
\* exactly one: a version that holds a row no row of the project is newer than,
\* the last by name if there are several.  (The reference for version_summaries.)
SummariesRight ==
    LET list   == VersionSummaries(rows)
        newest == {v \in VersionNames : \E n \in FileNames : /\ rows[v][n] # NoRow
                                                     /\ \A t \in AllStamps : t <= rows[v][n]}
    IN  /\ {list[i].name : i \in DOMAIN list} = Grouped(rows)
        /\ \A i, j \in DOMAIN list : i < j => list[i].name < list[j].name
        /\ \A i \in DOMAIN list :
              list[i].latest <=> list[i].name \in newest /\ \A v \in newest : v <= list[i].name

\* Unless rows were deleted since or the migration has stamped rows in the future, no
\* version is listed as later than the one uploaded to last: the latest version was
\* uploaded to at that same time.
LastUploadIsLatest ==
    last # None => Newest(rows, LatestName(rows)) = Newest(rows, last)
=============================================================================
