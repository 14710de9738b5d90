----------------------------- MODULE MCReading -----------------------------
(* Small instances of Downloads and of VersionList for TLC: what is        *)
(* downloaded of a version, and which version is listed as the latest.     *)
(* The two share no variable and no property is about both, so that it is  *)
(* enough that one moves while the other is where it begins.               *)
EXTENDS Downloads, VersionList, TLC

CONSTANTS long, other, short, f, g

MCContents == {long, other, short}
MCSize == [c \in MCContents |-> IF c = short THEN 1 ELSE 2]
Symmetry == Permutations(Paths) \cup Permutations(Requests) \cup Permutations({long, other})

\* A store of an older release: two files of version 1, then one of version 2.
MCLegacy == <<<<1, f>>, <<1, g>>, <<2, f>>>>

\* No file, no response, and nothing has happened to Downloads yet.
NobodyReads ==
    /\ files = [p \in Paths |-> Absent]
    /\ response = [r \in Requests |-> Idle]
    /\ <<running, temps, faults>> = <<Idle, 0, 0>>

ReadingNext ==
    \/ Next /\ ListInit /\ UNCHANGED listVars
    \/ ListNext /\ NobodyReads /\ UNCHANGED vars

ReadingInit == Init /\ ListInit
ReadingSpec == ReadingInit /\ [][ReadingNext]_<<vars, listVars>>
=============================================================================
