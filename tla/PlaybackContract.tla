--------------------------- MODULE PlaybackContract ---------------------------
(***************************************************************************)
(* What ICD-4 promises of the player, independently of how it keeps time:  *)
(* one creative plays at a time, for at least the dwell it was activated   *)
(* with unless the player is held or locked out; a creative that ended     *)
(* stays away for its cooldown; a held player keeps its creative; a locked *)
(* player (safe mode) plays nothing until it is unlocked.                  *)
(*                                                                         *)
(* Time is counted down, in the unit of the dwell and cooldown values.     *)
(* PlayerStateMachine keeps time stamps instead and implements this.       *)
(***************************************************************************)
EXTENDS Naturals

CONSTANTS
    Manifests,      \* the creatives the player can be told to play
    None,           \* no creative: the fallback bundle is due on screen
    DwellTimes,     \* the minimum dwells an activation may ask for
    CooldownTimes   \* the cooldowns an activation may ask for

VARIABLES
    playing,        \* the creative due on screen, or None
    held,           \* a freeze is in force
    locked,         \* safe mode is in force
    dwellLeft,      \* time before the playing creative may be replaced
    coolDue,        \* cooldown owed by the playing creative once it ends
    coolLeft        \* per creative: time before it may start again

contractVars == <<playing, held, locked, dwellLeft, coolDue, coolLeft>>

Init ==
    /\ playing = None
    /\ held = FALSE
    /\ locked = FALSE
    /\ dwellLeft = 0
    /\ coolDue = 0
    /\ coolLeft = [m \in Manifests |-> 0]

\* The cooldowns once the playing creative ended and "next" took its place:
\* only a creative that really leaves the screen starts to cool down.
AfterEnd(next) ==
    [m \in Manifests |->
        IF m = playing /\ m # next THEN coolDue ELSE coolLeft[m]]

Start(m, dwell, cooldown) ==
    /\ ~locked
    /\ playing = None \/ held \/ dwellLeft = 0
    /\ coolLeft[m] = 0
    /\ playing' = m
    /\ held' = FALSE
    /\ dwellLeft' = dwell
    /\ coolDue' = cooldown
    /\ coolLeft' = AfterEnd(m)
    /\ UNCHANGED locked

Hold ==
    /\ playing # None
    /\ held' = TRUE
    /\ UNCHANGED <<playing, locked, dwellLeft, coolDue, coolLeft>>

\* Fall back, entering safe mode or not; falling back never leaves safe mode.
FallBack(lock) ==
    /\ locked => lock
    /\ playing' = None
    /\ held' = FALSE
    /\ locked' = lock
    /\ dwellLeft' = 0
    /\ coolDue' = 0
    /\ coolLeft' = AfterEnd(None)

Unlock ==
    /\ locked
    /\ locked' = FALSE
    /\ UNCHANGED <<playing, held, dwellLeft, coolDue, coolLeft>>

Pred(n) == IF n = 0 THEN 0 ELSE n - 1

Elapse ==
    /\ dwellLeft' = Pred(dwellLeft)
    /\ coolLeft' = [m \in Manifests |-> Pred(coolLeft[m])]
    /\ UNCHANGED <<playing, held, locked, coolDue>>

Next ==
    \/ \E m \in Manifests, d \in DwellTimes, c \in CooldownTimes : Start(m, d, c)
    \/ Hold
    \/ \E lock \in BOOLEAN : FallBack(lock)
    \/ Unlock
    \/ Elapse

Spec == Init /\ [][Next]_contractVars
===============================================================================
