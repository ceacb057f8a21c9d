------------------------------ MODULE Supervisor ------------------------------
(***************************************************************************)
(* The supervisor and the player it watches: the health loop with its      *)
(* restart ladder, and the safe-mode relay from dashboard-api to the       *)
(* player's control endpoint, two tasks that await their HTTP calls.       *)
(*                                                                         *)
(* The player is the one critical service, hence the one service here; the *)
(* ladder of another one is the same without the engagement of safe mode.  *)
(* A unit of time is HEALTH_POLL_INTERVAL_S.  Restart time stamps are kept *)
(* as their ages: no two of one life are the same, since a unit holds one  *)
(* evaluation at most, and an age beyond the window, which is pruned       *)
(* before anything is counted, is as good as any other.                    *)
(***************************************************************************)
EXTENDS Naturals, FiniteSets

CONSTANTS
    FailureThreshold, RestartThreshold, BootLoopThreshold,
    Window,         \* FAST_FAIL_WINDOW_S in polls
    ReportedKey,    \* the key under which the dashboard's answer holds the flag
    Faults          \* the disturbances an instance considers

FaultKinds == {"crash", "slow", "docker", "lost_answer", "supervisor_restart"}

ASSUME SupervisorAssumption ==
    /\ FailureThreshold \in Nat \ {0}
    /\ RestartThreshold \in Nat
    /\ BootLoopThreshold \in Nat
    /\ Window \in Nat
    /\ Faults \subseteq FaultKinds

VARIABLES
    failures,       \* consecutive_failures, up to the threshold it is compared with
    restartCount,   \* restart_count
    ages,           \* restart_timestamps
    inBootLoop,     \* in_boot_loop
    escalated,      \* escalated
    step,           \* where the health loop awaits
    polled,         \* it probed in this unit of time
    startedAgo,     \* age of the ts the current evaluation took
    issued,         \* ages of the docker restart calls that did not fail, from their issue
    relay,          \* what the relay is about to send
    byDashboard,    \* _engaged_by_dashboard
    bySupervisor,   \* _engaged_by_supervisor
    intent,         \* dashboard-api: SafeModeState.is_active
    playerUp,       \* the player answers
    safe            \* the player's state machine is in SAFE_MODE

ladder == <<failures, restartCount, ages, inBootLoop, escalated>>
loop == <<step, polled, startedAgo, issued>>
flags == <<relay, byDashboard, bySupervisor>>
playerVars == <<playerUp, safe>>
vars == <<ladder, loop, flags, intent, playerVars>>

Init ==
    /\ failures = 0
    /\ restartCount = 0
    /\ ages = {}
    /\ inBootLoop = FALSE
    /\ escalated = FALSE
    /\ step = "probe"
    /\ polled = FALSE
    /\ startedAgo = 0
    /\ issued = {}
    /\ relay = "idle"
    /\ byDashboard = FALSE
    /\ bySupervisor = FALSE
    /\ intent = FALSE
    /\ playerUp \in BOOLEAN
    /\ safe = FALSE
-------------------------------------------------------------------------------
(***************************************************************************)
(* The health loop                                                         *)
(***************************************************************************)
ProbeHealthy ==
    /\ step = "probe" /\ ~polled
    /\ playerUp
    /\ failures' = 0
    /\ polled' = TRUE
    /\ UNCHANGED <<restartCount, ages, inBootLoop, escalated, step, startedAgo, issued>>

\* Mutant: the stamp on the edge of the window is dropped with the older ones.
RecentOpen(as) == {a \in as : a < Window}

\* prune_timestamps: the edge of the window belongs to it.
Recent(as) == {a \in as : a <= Window}

\* Mutant: the terminal states are not looked at.
MayActAlways(n) == n >= FailureThreshold

\* The threshold is crossed and no terminal state was reached.
MayAct(n) == n >= FailureThreshold /\ ~inBootLoop /\ ~escalated

\* Mutant: one more restart than the ceiling.
CeilingPassed == restartCount > RestartThreshold

CeilingReached == restartCount >= RestartThreshold

\* The calls the window still holds; only the properties look at them.
StillIssued(as) == {a \in as : a <= Window}

DetectBootLoop ==
    /\ Cardinality(ages') >= BootLoopThreshold
    /\ inBootLoop' = TRUE
    /\ step' = "engage"
    /\ UNCHANGED <<escalated, startedAgo, issued>>

\* Mutant: safe mode is engaged, the escalation is not noted.
EscalateUnmarked ==
    /\ Cardinality(ages') < BootLoopThreshold
    /\ CeilingReached
    /\ step' = "engage"
    /\ UNCHANGED <<inBootLoop, escalated, startedAgo, issued>>

Escalate ==
    /\ Cardinality(ages') < BootLoopThreshold
    /\ CeilingReached
    /\ escalated' = TRUE
    /\ step' = "engage"
    /\ UNCHANGED <<inBootLoop, startedAgo, issued>>

StartRestart ==
    /\ Cardinality(ages') < BootLoopThreshold
    /\ ~CeilingReached
    /\ step' = "restart"
    /\ startedAgo' = 0
    /\ issued' = StillIssued(issued) \cup {0}
    /\ UNCHANGED <<inBootLoop, escalated>>

\* evaluate, up to the docker call.
Evaluate ==
    /\ ages' = Recent(ages)
    /\ DetectBootLoop \/ Escalate \/ StartRestart

ProbeUnhealthy ==
    /\ step = "probe" /\ ~polled
    /\ ~playerUp \/ "slow" \in Faults
    /\ failures' = IF failures < FailureThreshold THEN failures + 1 ELSE failures
    /\ polled' = TRUE
    /\ \/ MayAct(failures') /\ Evaluate
       \/ ~MayAct(failures')
          /\ UNCHANGED <<ages, inBootLoop, escalated, step, startedAgo, issued>>
    /\ UNCHANGED restartCount

Probe ==
    /\ ProbeHealthy \/ ProbeUnhealthy
    /\ UNCHANGED <<flags, intent, playerVars>>

\* record_restart, with the time stamp taken before the call.
RestartSucceeds ==
    /\ restartCount' = restartCount + 1
    /\ ages' = ages \cup {startedAgo}
    /\ playerUp' = FALSE /\ safe' = FALSE
    /\ UNCHANGED issued

\* An error, or a timeout after 30 s of a restart that may still happen; nothing
\* counts it.
RestartFails ==
    /\ "docker" \in Faults
    /\ \/ playerUp' = FALSE /\ safe' = FALSE
       \/ UNCHANGED playerVars
    /\ issued' = issued \ {startedAgo}
    /\ UNCHANGED <<restartCount, ages>>

DockerRestart ==
    /\ step = "restart"
    /\ step' = "probe"
    /\ RestartSucceeds \/ RestartFails
    /\ UNCHANGED <<failures, inBootLoop, escalated, polled, startedAgo, flags, intent>>

\* POST and DELETE /control/safe-mode of the player.  It changes its state before
\* it draws and answers: what the caller takes for a failure (a 500 of a display
\* that failed, a timeout) may have been done.
Control(engaged, ok) ==
    \/ /\ playerUp
       /\ ok \/ "lost_answer" \in Faults
       /\ safe' = engaged
    \/ /\ ~ok
       /\ ~playerUp \/ "lost_answer" \in Faults
       /\ UNCHANGED safe

\* engage_safe_mode_supervisor, sent once.
Engage ==
    /\ step = "engage"
    /\ step' = "probe"
    /\ \E ok \in BOOLEAN :
          /\ Control(TRUE, ok)
          /\ bySupervisor' = (bySupervisor \/ ok)
    /\ UNCHANGED <<ladder, polled, startedAgo, issued, relay, byDashboard, intent, playerUp>>
-------------------------------------------------------------------------------
(***************************************************************************)
(* The safe-mode relay                                                     *)
(***************************************************************************)

\* intent.get("is_active", False)
DashboardWants == ReportedKey = "is_active" /\ intent

\* The other polls, and those the dashboard does not answer, change nothing.
RelayPoll ==
    /\ relay = "idle"
    /\ \/ DashboardWants /\ ~byDashboard /\ relay' = "engage"
       \/ ~DashboardWants /\ byDashboard /\ relay' = "clear"
    /\ UNCHANGED <<ladder, loop, byDashboard, bySupervisor, intent, playerVars>>

\* Only an answer from the player moves the flag; the next poll tries again.
RelaySend ==
    /\ relay # "idle"
    /\ relay' = "idle"
    /\ \E ok \in BOOLEAN :
          /\ Control(relay = "engage", ok)
          /\ byDashboard' = IF ok THEN relay = "engage" ELSE byDashboard
    /\ UNCHANGED <<ladder, loop, bySupervisor, intent, playerUp>>
-------------------------------------------------------------------------------
\* POST and DELETE /api/v1/safe-mode of dashboard-api.
SetIntent(active) ==
    /\ intent # active
    /\ intent' = active
    /\ UNCHANGED <<ladder, loop, flags, playerVars>>

PlayerCrashes ==
    /\ "crash" \in Faults
    /\ playerUp
    /\ playerUp' = FALSE /\ safe' = FALSE
    /\ UNCHANGED <<ladder, loop, flags, intent>>

\* Docker started it, and it got as far as its control endpoint.
PlayerStarts ==
    /\ ~playerUp
    /\ playerUp' = TRUE
    /\ UNCHANGED <<ladder, loop, flags, intent, safe>>

\* The supervisor keeps nothing.
SupervisorRestarts ==
    /\ "supervisor_restart" \in Faults
    /\ failures' = 0
    /\ restartCount' = 0
    /\ ages' = {}
    /\ inBootLoop' = FALSE /\ escalated' = FALSE
    /\ step' = "probe" /\ polled' = FALSE /\ startedAgo' = 0
    /\ relay' = "idle"
    /\ byDashboard' = FALSE /\ bySupervisor' = FALSE
    /\ issued' = {}
    /\ UNCHANGED <<intent, playerVars>>

Older(a) == IF a > Window THEN a ELSE a + 1

Tick ==
    /\ polled
    /\ polled' = FALSE
    /\ ages' = {Older(a) : a \in ages}
    /\ issued' = StillIssued({Older(a) : a \in issued})
    /\ startedAgo' = IF step = "restart" THEN Older(startedAgo) ELSE 0
    /\ UNCHANGED <<failures, restartCount, inBootLoop, escalated, step, flags, intent, playerVars>>

Next ==
    \/ Probe \/ DockerRestart \/ Engage
    \/ RelayPoll \/ RelaySend
    \/ \E active \in BOOLEAN : SetIntent(active)
    \/ PlayerCrashes \/ PlayerStarts \/ SupervisorRestarts
    \/ Tick

Spec == Init /\ [][Next]_vars

\* Both loops run for ever and every call has a timeout.  The player is owed
\* nothing: it may fail to start.
Fairness ==
    /\ WF_vars(Probe) /\ WF_vars(DockerRestart) /\ WF_vars(Engage)
    /\ WF_vars(RelayPoll) /\ WF_vars(RelaySend)
    /\ WF_vars(Tick)

FairSpec == Spec /\ Fairness
-------------------------------------------------------------------------------
(***************************************************************************)
(* Properties                                                              *)
(***************************************************************************)
Ages == 0..(Window + 1)

TypeOK ==
    /\ failures \in 0..FailureThreshold
    /\ restartCount \in 0..RestartThreshold
    /\ ages \subseteq Ages
    /\ inBootLoop \in BOOLEAN /\ escalated \in BOOLEAN
    /\ step \in {"probe", "restart", "engage"}
    /\ polled \in BOOLEAN
    /\ startedAgo \in Ages
    /\ issued \subseteq 0..Window
    /\ relay \in {"idle", "engage", "clear"}
    /\ byDashboard \in BOOLEAN /\ bySupervisor \in BOOLEAN
    /\ intent \in BOOLEAN
    /\ playerUp \in BOOLEAN /\ safe \in BOOLEAN

\* No window holds more than BOOT_LOOP_THRESHOLD of the restarts one life of the
\* supervisor issues and docker confirms (service-health-report.schema.json on
\* in_boot_loop, "supervisor stops restarting"), although a restart is recorded
\* only after the await.
RestartsBounded == Cardinality(issued) <= BootLoopThreshold

\* From a terminal state on nothing is restarted (restart_manager.py,
\* "Boot-loop and escalation are sticky").
TerminalIsFinal ==
    [][(inBootLoop \/ escalated) /\ (inBootLoop' \/ escalated') => step' # "restart"]_vars

\* A player that stays down is not restarted for ever: unless the supervisor
\* itself keeps restarting, or docker keeps failing, the ladder ends for good.
LadderEnds ==
    /\ <>[]~playerUp
    /\ <>[][~SupervisorRestarts]_vars
    /\ <>[][DockerRestart => restartCount' # restartCount]_vars
    => <>[](inBootLoop \/ escalated)

\* A safe mode the operator asked for reaches the player (system.py: "The
\* supervisor service (ICD-8) is responsible for polling this state and sending
\* the safe_mode command to the player").
OperatorSafeModeEngages == <>[](intent /\ playerUp) => <>safe
===============================================================================
