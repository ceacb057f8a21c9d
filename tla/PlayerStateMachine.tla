-------------------------- MODULE PlayerStateMachine --------------------------
(***************************************************************************)
(* services/player/player/state.py: the pure state machine that decides    *)
(* what the player's display is for.  Every method is synchronous, so each *)
(* is one action.  The reasons, which are only reported, are left out; the *)
(* monotonic clock is "now" and its unit stands for a millisecond.         *)
(***************************************************************************)
EXTENDS Integers

CONSTANTS
    Manifests,      \* manifest ids a command may name
    None,           \* Python's None
    DwellTimes,     \* the min_dwell_ms values commands carry
    CooldownTimes,  \* the cooldown_ms values commands carry
    MaxTime         \* bound on the clock

ASSUME ConstantsAssumption ==
    /\ None \notin Manifests
    /\ None \notin Nat
    /\ DwellTimes \subseteq Nat
    /\ CooldownTimes \subseteq Nat
    /\ MaxTime \in Nat

VARIABLES
    state,              \* _state
    active,             \* _active_manifest_id
    activatedAt,        \* _activated_at
    minDwell,           \* _min_dwell_ms
    cooldownForActive,  \* _cooldown_ms_for_active
    cooldowns,          \* _cooldowns; no entry is one of zero length
    now,                \* time.monotonic()
    result              \* the TransitionResult of the latest call

timerVars == <<activatedAt, minDwell, cooldownForActive, cooldowns>>
machineVars == <<state, active, activatedAt, minDwell, cooldownForActive, cooldowns>>
vars == <<state, active, activatedAt, minDwell, cooldownForActive, cooldowns, now, result>>

\* The values of PlayerState, spelt as the enumeration spells them.
States == {"fallback", "active", "frozen", "safe_mode"}
Actions == {"play_manifest", "show_fallback", "hold"}

TransitionResult ==
    [accepted : BOOLEAN, new_state : States, action : Actions,
     manifest : Manifests \cup {None}]

\* A result that reports the state the call leaves behind.
Return(ok, act, manifest) ==
    result' = [accepted |-> ok, new_state |-> state', action |-> act,
               manifest |-> manifest]

Rejected(act, manifest) ==
    /\ UNCHANGED machineVars
    /\ Return(FALSE, act, manifest)

\* Mutant: the dwell compared with the cooldown that came with the command.
DwellElapsedByCooldown == activatedAt = None \/ now - activatedAt >= cooldownForActive

DwellElapsed == activatedAt = None \/ now - activatedAt >= minDwell

\* Mutant: the cooldown ends one unit early.
InCooldownEndsEarly(m) == now - cooldowns[m].at + 1 < cooldowns[m].ms

InCooldown(m) == now - cooldowns[m].at < cooldowns[m].ms

\* Mutant: the cooldown counted from the activation instead of the end.
CooldownsFromActivation ==
    IF active = None
    THEN cooldowns
    ELSE [cooldowns EXCEPT ![active] =
            [at |-> now, ms |-> cooldownForActive - (now - activatedAt)]]

\* Record the cooldown of the manifest that is active, if there is one.
CooldownsRecorded ==
    IF active = None
    THEN cooldowns
    ELSE [cooldowns EXCEPT ![active] = [at |-> now, ms |-> cooldownForActive]]

Init ==
    /\ state = "fallback"
    /\ active = None
    /\ activatedAt = None
    /\ minDwell = 0
    /\ cooldownForActive = 0
    /\ cooldowns = [m \in Manifests |-> [at |-> 0, ms |-> 0]]
    /\ now = 0
    /\ result = [accepted |-> TRUE, new_state |-> "fallback",
                 action |-> "show_fallback", manifest |-> None]
-------------------------------------------------------------------------------
(***************************************************************************)
(* activate_creative, and its four ways out.                               *)
(***************************************************************************)
ActivateInSafeMode ==
    /\ state = "safe_mode"
    /\ Rejected("show_fallback", None)
    /\ UNCHANGED now

ActivateBeforeDwell ==
    /\ state = "active"
    /\ ~DwellElapsed
    /\ Rejected("hold", active)
    /\ UNCHANGED now

MayConsider == state # "safe_mode" /\ (state = "active" => DwellElapsed)

ActivateInCooldown(m) ==
    /\ MayConsider
    /\ InCooldown(m)
    /\ Rejected("hold", active)
    /\ UNCHANGED now

Activate(m, dwell, cooldown) ==
    /\ MayConsider
    /\ ~InCooldown(m)
    /\ cooldowns' = CooldownsRecorded
    /\ state' = "active"
    /\ active' = m
    /\ activatedAt' = now
    /\ minDwell' = dwell
    /\ cooldownForActive' = cooldown
    /\ Return(TRUE, "play_manifest", m)
    /\ UNCHANGED now

OnActivateCreative(m, dwell, cooldown) ==
    \/ ActivateInSafeMode
    \/ ActivateBeforeDwell
    \/ ActivateInCooldown(m)
    \/ Activate(m, dwell, cooldown)
-------------------------------------------------------------------------------
FreezeNothing ==
    /\ state \in {"safe_mode", "fallback"}
    /\ Rejected("show_fallback", None)
    /\ UNCHANGED now

\* ACTIVE becomes FROZEN; FROZEN only takes the new reason.
FreezeCreative ==
    /\ state \in {"active", "frozen"}
    /\ state' = "frozen"
    /\ UNCHANGED <<active, timerVars, now>>
    /\ Return(TRUE, "hold", active)

OnFreeze == FreezeNothing \/ FreezeCreative

\* Mutant: the timers are cleared, the active manifest is forgotten about.
DeactivateTimersOnly ==
    /\ cooldowns' = CooldownsRecorded
    /\ activatedAt' = None
    /\ UNCHANGED <<active, minDwell, cooldownForActive, now>>

\* _activated_at and the active manifest are cleared, _min_dwell_ms and
\* _cooldown_ms_for_active keep their last value.
Deactivate ==
    /\ cooldowns' = CooldownsRecorded
    /\ active' = None
    /\ activatedAt' = None
    /\ UNCHANGED <<minDwell, cooldownForActive, now>>

OnSafeMode ==
    /\ state' = "safe_mode"
    /\ Deactivate
    /\ Return(TRUE, "show_fallback", None)

ClearNothing ==
    /\ state # "safe_mode"
    /\ Rejected("hold", None)
    /\ UNCHANGED now

ClearSafeMode ==
    /\ state = "safe_mode"
    /\ state' = "fallback"
    /\ UNCHANGED <<active, timerVars, now>>
    /\ Return(TRUE, "show_fallback", None)

OnClearSafeMode == ClearNothing \/ ClearSafeMode

LoseConnectionInSafeMode ==
    /\ state = "safe_mode"
    /\ UNCHANGED <<machineVars, now>>
    /\ Return(TRUE, "show_fallback", None)

\* Mutant: the creative goes on playing without a session.
LoseConnectionKeepsPlaying ==
    /\ state # "safe_mode"
    /\ UNCHANGED <<machineVars, now>>
    /\ Return(TRUE, IF active = None THEN "show_fallback" ELSE "play_manifest", active)

LoseConnection ==
    /\ state # "safe_mode"
    /\ state' = "fallback"
    /\ Deactivate
    /\ Return(TRUE, "show_fallback", None)

OnConnectionLost == LoseConnectionInSafeMode \/ LoseConnection

\* What a new process starts with; not a step of this one.
Reset ==
    /\ state' = "fallback"
    /\ active' = None
    /\ activatedAt' = None
    /\ minDwell' = 0
    /\ cooldownForActive' = 0
    /\ cooldowns' = [m \in Manifests |-> [at |-> 0, ms |-> 0]]
    /\ UNCHANGED <<now, result>>

Tick ==
    /\ now < MaxTime
    /\ now' = now + 1
    /\ UNCHANGED <<machineVars, result>>

Next ==
    \/ \E m \in Manifests, d \in DwellTimes, c \in CooldownTimes :
          OnActivateCreative(m, d, c)
    \/ OnFreeze
    \/ OnSafeMode
    \/ OnClearSafeMode
    \/ OnConnectionLost
    \/ Tick

Spec == Init /\ [][Next]_vars
-------------------------------------------------------------------------------
(***************************************************************************)
(* Properties                                                              *)
(***************************************************************************)

\* Every variable stays in its range, the time stamps never in the future.
TypeOK ==
    /\ state \in States
    /\ active \in Manifests \cup {None}
    /\ activatedAt \in Nat \cup {None}
    /\ minDwell \in Nat
    /\ cooldownForActive \in Nat
    /\ cooldowns \in [Manifests -> [at : Nat, ms : Nat]]
    /\ now \in Nat
    /\ result \in TransitionResult

\* A manifest is held exactly in ACTIVE and FROZEN, and exactly then there is
\* an activation time to measure its dwell from: a transition that forgot one
\* of the three would leave a dwell that never elapses or is never enforced.
ModeMatchesContent ==
    /\ state \in {"active", "frozen"} <=> active # None
    /\ active # None <=> activatedAt # None

\* When a creative was activated, the cooldown of its previous showing had
\* run out: its entry is from before and was over by then, or was written by
\* a re-activation of the creative itself at that very time.
CooldownServed ==
    active # None =>
        LET entry == cooldowns[active]
        IN  \/ entry.at + entry.ms <= activatedAt
            \/ entry.at = activatedAt

\* The part of "ms" that remains at "now" when it began at "at".
Left(at, ms) == IF now - at < ms THEN ms - (now - at) ELSE 0

\* The state machine as the contract sees it.  Re-activating the creative that
\* plays also writes a cooldown entry for it, although it has not ended; the
\* contract owes a playing creative no waiting time.
DwellLeft == IF activatedAt = None THEN 0 ELSE Left(activatedAt, minDwell)
CoolDue == IF active = None THEN 0 ELSE cooldownForActive
CoolLeft ==
    [m \in Manifests |->
        IF m = active THEN 0 ELSE Left(cooldowns[m].at, cooldowns[m].ms)]

Contract == INSTANCE PlaybackContract WITH
    playing   <- active,
    held      <- state = "frozen",
    locked    <- state = "safe_mode",
    dwellLeft <- DwellLeft,
    coolDue   <- CoolDue,
    coolLeft  <- CoolLeft

\* Time stamps and all, the state machine keeps the contract: dwell, cooldown,
\* freeze and safe mode, whatever the order of commands and disconnections.
ImplementsContract == Contract!Spec
===============================================================================
