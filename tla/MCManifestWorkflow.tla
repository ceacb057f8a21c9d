-------------------------- MODULE MCManifestWorkflow --------------------------
(***************************************************************************)
(* Instances of ManifestWorkflow for TLC: the second manifest's JSON       *)
(* carries the id of the first one, as an operator's copy does.            *)
(***************************************************************************)
EXTENDS ManifestWorkflow

MCCarries == [m \in Manifests |-> IF m = 2 THEN 1 ELSE m]
===============================================================================
