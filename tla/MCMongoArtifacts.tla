-------------------------- MODULE MCMongoArtifacts --------------------------
(* Small instances of MongoArtifacts for TLC. *)
EXTENDS MongoArtifacts, TLC

CONSTANTS a, b, c, v, w

MCVersionOf == (a :> v) @@ (b :> v) @@ (c :> w)
Symmetry == Permutations(Servers) \cup Permutations({a, b})
=============================================================================
