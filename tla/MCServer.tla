----------------------------- MODULE MCServer -----------------------------
(* A small instance of Server for TLC. *)
EXTENDS Server

CONSTANTS admin, alice, p1, lib

MCDefaultAccounts ==
    [u \in Users |-> [role |-> IF u = admin THEN "Admin" ELSE "Client", password |-> p1]]

MCNorm == [n \in Names |-> n]
=============================================================================
