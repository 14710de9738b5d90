---------------------------- MODULE MCArtifacts ----------------------------
(* Small instances of Artifacts for TLC. *)
EXTENDS Artifacts

CONSTANTS lib, libBin, respelled, climb

\* lib/bin lies below lib.
MCInside == {<<libBin, lib>>} \cap (Paths \X Paths)

\* "lib\bin" is another name of lib/bin, and "../app" is refused.
MCNorm == [n \in Names |-> IF n = climb THEN NoPath ELSE IF n = respelled THEN libBin ELSE n]

MCDefaults == [v \in Versions |-> [n \in Names |-> NoRow]]
=============================================================================
