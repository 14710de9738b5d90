------------------------------ MODULE MCMongo ------------------------------
(* Small instances of MongoAccounts for TLC. *)
EXTENDS MongoAccounts, TLC

CONSTANTS admin, alice, p1

\* A default admin and a default client; any other user is enrolled later.
MCDefaultAccounts ==
    [u \in Users |-> CASE u = admin -> [role |-> "Admin", password |-> p1]
                       [] u = alice -> [role |-> "Client", password |-> p1]
                       [] OTHER -> NoAccount]

Symmetry == Permutations(Servers)
=============================================================================
