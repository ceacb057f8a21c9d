---------------------------- MODULE MCDecisionLoop ----------------------------
(***************************************************************************)
(* DecisionLoop with the rule sets of the runs: one that tells the two     *)
(* audiences apart and one that matches only the second.                   *)
(***************************************************************************)
EXTENDS DecisionLoop

CONSTANTS m1, m2, few, many

OnePolicy == {[a \in {few, many} |-> IF a = few THEN m1 ELSE m2]}
TwoPolicies == OnePolicy \cup {[a \in {few, many} |-> IF a = few THEN None ELSE m1]}
===============================================================================
