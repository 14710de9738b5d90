---------------------------- MODULE MCWebSession ----------------------------
(* Small instances of WebSession for TLC. *)
EXTENDS WebSession, TLC

CONSTANTS alice

\* alice is a client, everyone else an admin.
MCRoleOf == [u \in People |-> IF u = alice THEN "Client" ELSE "Admin"]

Symmetry == Permutations(Tasks)
=============================================================================
