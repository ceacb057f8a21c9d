------------------------------ MODULE MCCampaigns ------------------------------
(***************************************************************************)
(* Instances of Campaigns for TLC: the second manifest's JSON carries the  *)
(* id of the first one, as an operator's copy does.                        *)
(***************************************************************************)
EXTENDS Campaigns

MCCarries == [m \in Manifests |-> IF m = 2 THEN 1 ELSE m]
===============================================================================
