----------------------------- MODULE JsonStore -----------------------------
(***************************************************************************)
(* The single JSON document behind JsonDatabase (database.py).  The        *)
(* process keeps the document in memory (_state) and, at the end of every  *)
(* mutation, writes the whole of it to a temporary file that replaces the  *)
(* store file in one rename.  Every mutation changes memory first and      *)
(* persists last, inside one lock, on one event loop: it is one step, with *)
(* three outcomes.  What the document holds is left to the modules that    *)
(* extend this one: each looks at its own half of it.                      *)
(***************************************************************************)
EXTENDS Naturals

CONSTANTS
    Defaults,    \* the document _write_defaults makes
    NoFile,      \* the store file is missing or blank
    MaxFaults,   \* bound: how many persists may fail with OSError
    ReadErrors   \* whether read_text of an existing file may raise OSError

ASSUME StoreAssumption ==
    /\ MaxFaults \in Nat
    /\ ReadErrors \in BOOLEAN
    /\ Defaults # NoFile

VARIABLES
    mem,     \* _state; never read while the process is down
    disk,    \* the store file
    up,      \* the process has finished create_app and serves requests
    faults   \* persists that have failed so far

storeVars == <<mem, disk, up, faults>>

\* What became of a mutation: persisted and answered; raised by _persist and
\* answered 500; persisted, but the process died before the answer left.
Outcomes == {"saved", "failed", "died"}

StoreInit ==
    /\ mem = Defaults
    /\ disk = NoFile
    /\ up = FALSE
    /\ faults = 0

\* Mutant of Persist: the store file written in place, so that a failed write
\* leaves it blank.
PersistInPlace(doc, outcome) ==
    /\ up
    /\ outcome = "failed" => faults < MaxFaults
    /\ faults' = IF outcome = "failed" THEN faults + 1 ELSE faults
    /\ disk' = IF outcome = "failed" THEN NoFile ELSE doc
    /\ mem' = IF outcome = "died" THEN Defaults ELSE doc
    /\ up' = (outcome # "died")

\* The end of every mutation: memory holds doc when _persist starts.  A failed
\* write or rename leaves the old file in place and the new document in memory.
Persist(doc, outcome) ==
    /\ up
    /\ outcome = "failed" => faults < MaxFaults
    /\ faults' = IF outcome = "failed" THEN faults + 1 ELSE faults
    /\ disk' = IF outcome = "failed" THEN disk ELSE doc
    /\ mem' = IF outcome = "died" THEN Defaults ELSE doc
    /\ up' = (outcome # "died")

\* A handler that changes only the other half of the document persists all of it,
\* and the process may die before its answer leaves.
OtherHalfPersisted ==
    /\ up
    /\ disk' = mem
    /\ \/ UNCHANGED <<mem, up>>
       \/ mem' = Defaults /\ up' = FALSE
    /\ UNCHANGED faults

\* The process stops between two steps; memory is lost.
Die ==
    /\ up
    /\ up' = FALSE
    /\ mem' = Defaults
    /\ UNCHANGED <<disk, faults>>

\* _load_or_seed.  hasUsers is false when the file holds no user.  A file that
\* cannot be read is treated like a missing one.
LoadOrSeed(hasUsers) ==
    /\ ~up
    /\ up' = TRUE
    /\ UNCHANGED faults
    /\ \/ /\ disk # NoFile /\ hasUsers
          /\ mem' = disk
          /\ UNCHANGED disk
       \/ /\ disk = NoFile \/ ~hasUsers \/ ReadErrors
          /\ mem' = Defaults
          /\ disk' = Defaults
=============================================================================
