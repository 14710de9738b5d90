---------------------------- MODULE MCAccounts ----------------------------
(* Small instances of Accounts for TLC. *)
EXTENDS Accounts, TLC

CONSTANTS admin, alice, p1

MCDefaultAccounts ==
    [u \in Users |-> [role |-> IF u = admin THEN "Admin" ELSE "Client", password |-> p1]]

MCDefaults == [users |-> MCDefaultAccounts, grants |-> {}]

Symmetry == Permutations(Tasks)
=============================================================================
