---------------------------- MODULE OrderedDelivery ---------------------------
(***************************************************************************)
(* What the player may rely on when it applies commands: however sessions, *)
(* restarts and losses fall, no command is applied twice and none after a  *)
(* later one.  Commands are numbered in the order they were issued.        *)
(***************************************************************************)
EXTENDS Naturals

VARIABLES
    issued,     \* how many commands were issued
    applied     \* the number of the command applied last

Init == issued = 0 /\ applied = 0

Issue == issued' = issued + 1 /\ UNCHANGED applied

\* Commands may be lost, so any later one may be next.
Apply == applied' \in (applied + 1)..issued /\ UNCHANGED issued

Next == Issue \/ Apply

Spec == Init /\ [][Next]_<<issued, applied>>
===============================================================================
