--------------------------- MODULE SupervisorProofs ---------------------------
(***************************************************************************)
(* Proofs about Supervisor, for every threshold and window and every       *)
(* choice of disturbances: type correctness, that the terminal states of   *)
(* the restart ladder are final, and that no window holds more restarts    *)
(* than the boot-loop threshold allows.                                    *)
(***************************************************************************)
EXTENDS Supervisor, FiniteSetTheorems, TLAPS

USE SupervisorAssumption

\* A restart is under way only outside the terminal states and below the
\* ceiling, which the docker call then may reach.
LadderInv ==
    /\ restartCount \in 0..RestartThreshold
    /\ step = "restart" => ~inBootLoop /\ ~escalated /\ restartCount < RestartThreshold

\* The supervisor starts with an empty ladder.
LEMMA InitLadder == Init => LadderInv
  <1> SUFFICES ASSUME Init PROVE LadderInv
    OBVIOUS
  <1>1. restartCount \in 0..RestartThreshold
    BY DEF Init
  <1>2. step # "restart"
    BY DEF Init
  <1>3. QED
    BY <1>1, <1>2 DEF LadderInv

\* A probe starts a restart only where the terminal states and the ceiling let it.
LEMMA ProbeLadder ==
    ASSUME LadderInv, Probe
    PROVE  LadderInv'
  <1> USE DEF LadderInv
  <1>1. restartCount' = restartCount /\ step = "probe"
    BY DEF Probe, ProbeHealthy, ProbeUnhealthy
  <1>2. CASE ProbeHealthy
    BY <1>1, <1>2 DEF ProbeHealthy
  <1>3. CASE ProbeUnhealthy /\ MayAct(failures')
    <2>1. ~inBootLoop /\ ~escalated
      BY <1>3 DEF MayAct
    <2>2. CASE DetectBootLoop
      BY <1>1, <2>1, <2>2 DEF DetectBootLoop
    <2>3. CASE Escalate
      BY <1>1, <2>1, <2>3 DEF Escalate
    <2>4. CASE StartRestart
      BY <1>1, <2>1, <2>4 DEF StartRestart, CeilingReached
    <2>5. QED
      BY <1>3, <2>2, <2>3, <2>4 DEF ProbeUnhealthy, Evaluate
  <1>4. CASE ProbeUnhealthy /\ ~MayAct(failures')
    BY <1>1, <1>4 DEF ProbeUnhealthy
  <1>5. QED
    BY <1>2, <1>3, <1>4 DEF Probe

\* The count goes up with a restart that docker confirms, and with nothing else.
LEMMA NextLadder == LadderInv /\ [Next]_vars => LadderInv'
  <1> SUFFICES ASSUME LadderInv, [Next]_vars PROVE LadderInv'
    OBVIOUS
  <1> USE DEF LadderInv
  <1>1. CASE Probe
    BY <1>1, ProbeLadder
  <1>2. CASE DockerRestart
    <2>1. restartCount' = restartCount \/ restartCount' = restartCount + 1
      BY <1>2 DEF DockerRestart, RestartSucceeds, RestartFails
    <2>2. QED
      BY <1>2, <2>1 DEF DockerRestart
  <1>3. CASE Engage
    BY <1>3 DEF Engage, ladder
  <1>4. CASE SupervisorRestarts
    <2>1. restartCount' \in 0..RestartThreshold
      BY <1>4 DEF SupervisorRestarts
    <2>2. step' # "restart"
      BY <1>4 DEF SupervisorRestarts
    <2>3. QED
      BY <2>1, <2>2
  <1>5. CASE Tick
    BY <1>5 DEF Tick
  <1>6. CASE RelayPoll \/ RelaySend \/ (\E a \in BOOLEAN : SetIntent(a)) \/ PlayerCrashes
             \/ PlayerStarts \/ UNCHANGED vars
    BY <1>6 DEF RelayPoll, RelaySend, SetIntent, PlayerCrashes, PlayerStarts, ladder, loop, vars
  <1>7. QED
    BY <1>1, <1>2, <1>3, <1>4, <1>5, <1>6 DEF Next

\* So it always holds.
LEMMA AlwaysLadder == Spec => []LadderInv
  BY InitLadder, NextLadder, PTL DEF Spec

\* From a boot loop or an escalation on nothing is restarted until the
\* supervisor itself starts again.
THEOREM TerminalStateIsFinal == Spec => TerminalIsFinal
  <1>1. LadderInv /\ [Next]_vars =>
            [(inBootLoop \/ escalated) /\ (inBootLoop' \/ escalated') => step' # "restart"]_vars
    <2> SUFFICES ASSUME LadderInv, [Next]_vars
                 PROVE  inBootLoop' \/ escalated' => step' # "restart"
      OBVIOUS
    <2>1. LadderInv'
      BY NextLadder
    <2>2. QED
      BY <2>1 DEF LadderInv
  <1>2. QED
    BY <1>1, AlwaysLadder, PTL DEF Spec, TerminalIsFinal
-------------------------------------------------------------------------------
(***************************************************************************)
(* Type correctness                                                        *)
(***************************************************************************)
TypeInv == TypeOK /\ LadderInv

\* Time makes an age older up to one beyond the window.
LEMMA OlderType ==
    ASSUME NEW a \in Ages
    PROVE  Older(a) \in Ages
  BY DEF Ages, Older

LEMMA InitTypeInv == Init => TypeInv
  <1> SUFFICES ASSUME Init PROVE TypeInv
    OBVIOUS
  <1>1. LadderInv
    BY InitLadder
  <1>2. /\ failures \in 0..FailureThreshold
        /\ restartCount \in 0..RestartThreshold
        /\ ages \subseteq Ages /\ issued \subseteq 0..Window
        /\ startedAgo \in Ages
    BY <1>1 DEF Init, LadderInv, Ages
  <1>3. /\ inBootLoop \in BOOLEAN /\ escalated \in BOOLEAN /\ polled \in BOOLEAN
        /\ step \in {"probe", "restart", "engage"}
        /\ relay \in {"idle", "engage", "clear"}
        /\ byDashboard \in BOOLEAN /\ bySupervisor \in BOOLEAN /\ intent \in BOOLEAN
        /\ playerUp \in BOOLEAN /\ safe \in BOOLEAN
    BY DEF Init
  <1>4. QED
    BY <1>1, <1>2, <1>3 DEF TypeInv, TypeOK

\* Evaluating the ladder only ever drops time stamps.
LEMMA EvaluateType ==
    ASSUME TypeOK, Evaluate
    PROVE  /\ ages' \subseteq Ages /\ issued' \subseteq 0..Window
           /\ step' \in {"probe", "restart", "engage"}
           /\ inBootLoop' \in BOOLEAN /\ escalated' \in BOOLEAN
           /\ startedAgo' \in Ages
  <1> USE DEF TypeOK
  <1>1. ages' \subseteq Ages
    BY DEF Evaluate, Recent
  <1>2. CASE DetectBootLoop
    BY <1>1, <1>2 DEF DetectBootLoop
  <1>3. CASE Escalate
    BY <1>1, <1>3 DEF Escalate
  <1>4. CASE StartRestart
    <2>1. 0 \in Ages /\ 0 \in 0..Window
      BY DEF Ages
    <2>2. issued' \subseteq 0..Window
      BY <1>4, <2>1 DEF StartRestart, StillIssued
    <2>3. QED
      BY <1>1, <1>4, <2>1, <2>2 DEF StartRestart
  <1>5. QED
    BY <1>2, <1>3, <1>4 DEF Evaluate

LEMMA ProbeType ==
    ASSUME TypeOK, LadderInv', Probe
    PROVE  TypeOK'
  <1>1. UNCHANGED <<flags, intent, playerVars>> /\ polled' = TRUE
    BY DEF Probe, ProbeHealthy, ProbeUnhealthy
  <1>2. failures' \in 0..FailureThreshold
    BY DEF Probe, ProbeHealthy, ProbeUnhealthy, TypeOK
  <1>3. /\ ages' \subseteq Ages /\ issued' \subseteq 0..Window
        /\ step' \in {"probe", "restart", "engage"}
        /\ inBootLoop' \in BOOLEAN /\ escalated' \in BOOLEAN
        /\ startedAgo' \in Ages
    <2>1. CASE ProbeUnhealthy /\ Evaluate
      BY <2>1, EvaluateType
    <2>2. CASE UNCHANGED <<ages, inBootLoop, escalated, step, startedAgo, issued>>
      BY <2>2 DEF TypeOK
    <2>3. QED
      BY <2>1, <2>2 DEF Probe, ProbeHealthy, ProbeUnhealthy
  <1>4. restartCount' \in 0..RestartThreshold
    BY DEF LadderInv
  <1>5. QED
    BY <1>1, <1>2, <1>3, <1>4 DEF TypeOK, flags, playerVars

LEMMA NextTypeInv == TypeInv /\ [Next]_vars => TypeInv'
  <1> SUFFICES ASSUME TypeInv, [Next]_vars
               PROVE  TypeOK'
    BY NextLadder DEF TypeInv
  <1> USE DEF TypeInv, TypeOK
  <1>r. LadderInv'
    BY NextLadder
  <1>n. restartCount' \in 0..RestartThreshold
    BY <1>r DEF LadderInv
  <1>1. CASE Probe
    BY <1>1, <1>r, ProbeType
  <1>2. CASE DockerRestart
    <2>1. ages' \subseteq Ages /\ issued' \subseteq 0..Window
      BY <1>2 DEF DockerRestart, RestartSucceeds, RestartFails
    <2>2. playerUp' \in BOOLEAN /\ safe' \in BOOLEAN
      BY <1>2 DEF DockerRestart, RestartSucceeds, RestartFails, playerVars
    <2>3. QED
      BY <1>2, <1>n, <2>1, <2>2 DEF DockerRestart, flags
  <1>3. CASE Engage
    <2>1. safe' \in BOOLEAN /\ bySupervisor' \in BOOLEAN
      BY <1>3 DEF Engage, Control
    <2>2. QED
      BY <1>3, <1>n, <2>1 DEF Engage, ladder
  <1>4. CASE RelayPoll
    BY <1>4, <1>n DEF RelayPoll, ladder, loop, playerVars
  <1>5. CASE RelaySend
    <2>1. safe' \in BOOLEAN /\ byDashboard' \in BOOLEAN
      BY <1>5 DEF RelaySend, Control
    <2>2. QED
      BY <1>5, <1>n, <2>1 DEF RelaySend, ladder, loop
  <1>6. ASSUME NEW a \in BOOLEAN, SetIntent(a)
        PROVE  TypeOK'
    BY <1>6, <1>n DEF SetIntent, ladder, loop, flags, playerVars
  <1>7. CASE PlayerCrashes
    BY <1>7, <1>n DEF PlayerCrashes, ladder, loop, flags
  <1>8. CASE PlayerStarts
    BY <1>8, <1>n DEF PlayerStarts, ladder, loop, flags
  <1>9. CASE SupervisorRestarts
    <2>1. 0 \in Ages /\ {} \subseteq Ages
      BY DEF Ages
    <2>2. failures' \in 0..FailureThreshold /\ ages' \subseteq Ages
          /\ startedAgo' \in Ages /\ issued' \subseteq 0..Window
      BY <1>9, <2>1 DEF SupervisorRestarts
    <2>3. /\ inBootLoop' \in BOOLEAN /\ escalated' \in BOOLEAN /\ polled' \in BOOLEAN
          /\ step' \in {"probe", "restart", "engage"}
          /\ relay' \in {"idle", "engage", "clear"}
          /\ byDashboard' \in BOOLEAN /\ bySupervisor' \in BOOLEAN
      BY <1>9 DEF SupervisorRestarts
    <2>4. QED
      BY <1>9, <1>n, <2>2, <2>3 DEF SupervisorRestarts, playerVars
  <1>10. CASE Tick
    <2>1. {Older(a) : a \in ages} \subseteq Ages
      BY OlderType
    <2>2. issued' \subseteq 0..Window
      <3>1. issued \subseteq Ages
        BY DEF Ages
      <3>2. {Older(a) : a \in issued} \subseteq Ages
        BY <3>1, OlderType
      <3>3. QED
        BY <1>10, <3>2 DEF Tick, StillIssued, Ages
    <2>3. startedAgo' \in Ages
      <3>1. 0 \in Ages
        BY DEF Ages
      <3>2. QED
        BY <1>10, <3>1, OlderType DEF Tick
    <2>4. QED
      BY <1>10, <1>n, <2>1, <2>2, <2>3 DEF Tick, flags, playerVars
  <1>11. CASE UNCHANGED vars
    BY <1>11, <1>n DEF vars, ladder, loop, flags, playerVars
  <1>12. QED
    BY <1>1, <1>2, <1>3, <1>4, <1>5, <1>6, <1>7, <1>8, <1>9, <1>10, <1>11 DEF Next

\* The counters stay below their thresholds, the time stamps in their range,
\* whatever the player, docker and the supervisor's own restarts do.
THEOREM TypeCorrect == Spec => []TypeOK
  <1>1. TypeInv => TypeOK
    BY DEF TypeInv
  <1>2. QED
    BY <1>1, InitTypeInv, NextTypeInv, PTL DEF Spec
-------------------------------------------------------------------------------
(***************************************************************************)
(* Restarts in a window                                                    *)
(***************************************************************************)

\* A restart that docker has not answered yet is issued and not recorded; every
\* other one is recorded, so that those the ladder does not see are at most one.
RestartInv ==
    /\ TypeInv
    /\ step # "restart" => issued \subseteq ages
    /\ step = "restart" => issued \ {startedAgo} \subseteq ages
    /\ Cardinality(issued) <= BootLoopThreshold

\* The sets of ages are finite, and smaller ones have no more elements.
LEMMA AgesFinite ==
    ASSUME NEW big, big \subseteq 0..(Window + 1), NEW small, small \subseteq big
    PROVE  /\ IsFiniteSet(big) /\ IsFiniteSet(small)
           /\ Cardinality(small) \in Nat /\ Cardinality(big) \in Nat
           /\ Cardinality(small) <= Cardinality(big)
  <1>1. IsFiniteSet(0..(Window + 1))
    BY FS_Interval
  <1>2. IsFiniteSet(big)
    BY <1>1, FS_Subset
  <1>3. QED
    BY <1>2, FS_Subset, FS_CardinalityType

\* Getting older makes no two ages out of one.
LEMMA ImageNoMore ==
    ASSUME NEW stamps, stamps \subseteq Ages, NEW image, image = {Older(a) : a \in stamps}
    PROVE  /\ image \subseteq Ages
           /\ Cardinality(image) <= Cardinality(stamps)
  <1>1. image \subseteq Ages
    BY OlderType
  <1>2. IsFiniteSet(stamps)
    BY AgesFinite DEF Ages
  <1>3. [a \in stamps |-> Older(a)] \in Surjection(stamps, image)
    BY DEF Surjection
  <1>4. QED
    BY <1>1, <1>2, <1>3, FS_Surjection

LEMMA OlderNoMore ==
    ASSUME NEW stamps, stamps \subseteq Ages,
           NEW aged, \A x \in aged : \E a \in stamps : x = Older(a)
    PROVE  aged \subseteq Ages /\ Cardinality(aged) <= Cardinality(stamps)
  <1>1. PICK image : image = {Older(a) : a \in stamps}
    OBVIOUS
  <1>2. image \subseteq Ages /\ Cardinality(image) <= Cardinality(stamps)
    BY <1>1, ImageNoMore
  <1>3. aged \subseteq image
    BY <1>1
  <1>4. /\ Cardinality(aged) <= Cardinality(image)
        /\ Cardinality(aged) \in Nat /\ Cardinality(image) \in Nat
        /\ Cardinality(stamps) \in Nat
    BY <1>2, <1>3, AgesFinite DEF Ages
  <1>5. Cardinality(aged) <= Cardinality(stamps)
    BY <1>2, <1>4
  <1>6. aged \subseteq Ages
    BY <1>2, <1>3
  <1>7. QED
    BY <1>5, <1>6

LEMMA InitRestartInv == Init => RestartInv
  <1> SUFFICES ASSUME Init PROVE RestartInv
    OBVIOUS
  <1>1. Cardinality({}) = 0
    BY FS_EmptySet
  <1>2. issued = {} /\ step = "probe"
    BY DEF Init
  <1>3. QED
    BY <1>1, <1>2, InitTypeInv DEF RestartInv

\* What is issued in the window has been recorded, so there is room for one more
\* below the threshold; what the window has left behind is dropped by both.
LEMMA EvaluateRestart ==
    ASSUME RestartInv, step = "probe", Evaluate, TypeInv'
    PROVE  RestartInv'
  <1>1. issued \subseteq ages /\ issued \subseteq 0..Window /\ ages \subseteq Ages
    BY DEF RestartInv, TypeInv, TypeOK
  <1>2. issued \subseteq ages'
    BY <1>1 DEF Evaluate, Recent
  <1>3. CASE DetectBootLoop \/ Escalate
    BY <1>2, <1>3 DEF DetectBootLoop, Escalate, RestartInv
  <1>4. CASE StartRestart
    <2>1. Cardinality(ages') < BootLoopThreshold
      BY <1>4 DEF StartRestart
    <2>2. StillIssued(issued) \subseteq ages'
      BY <1>2 DEF StillIssued
    <2>3. ages' \subseteq 0..(Window + 1)
      BY <1>1 DEF Evaluate, Recent, Ages
    <2>4. /\ IsFiniteSet(StillIssued(issued))
          /\ Cardinality(StillIssued(issued)) \in Nat /\ Cardinality(ages') \in Nat
          /\ Cardinality(StillIssued(issued)) <= Cardinality(ages')
      BY <2>2, <2>3, AgesFinite
    <2>5. Cardinality(StillIssued(issued)) + 1 <= BootLoopThreshold
      BY <2>1, <2>4
    <2>6. \/ Cardinality(StillIssued(issued) \cup {0}) = Cardinality(StillIssued(issued))
          \/ Cardinality(StillIssued(issued) \cup {0}) = Cardinality(StillIssued(issued)) + 1
      BY <2>4, FS_AddElement
    <2>7. Cardinality(issued') <= BootLoopThreshold
      BY <1>4, <2>4, <2>5, <2>6 DEF StartRestart
    <2>8. issued' \ {startedAgo'} \subseteq ages'
      BY <1>4, <2>2 DEF StartRestart
    <2>9. QED
      BY <1>4, <2>7, <2>8 DEF StartRestart, RestartInv
  <1>5. QED
    BY <1>3, <1>4 DEF Evaluate

LEMMA NextRestartInv == RestartInv /\ [Next]_vars => RestartInv'
  <1> SUFFICES ASSUME RestartInv, [Next]_vars
               PROVE  RestartInv'
    OBVIOUS
  <1>t. TypeInv'
    BY NextTypeInv DEF RestartInv
  <1>s. /\ issued \subseteq Ages /\ ages \subseteq Ages /\ startedAgo \in Ages
        /\ Cardinality(issued) \in Nat
    <2>1. issued \subseteq 0..(Window + 1) /\ ages \subseteq Ages /\ startedAgo \in Ages
      BY DEF RestartInv, TypeInv, TypeOK
    <2>2. QED
      BY <2>1, AgesFinite DEF Ages
  <1>1. CASE Probe
    <2>1. CASE Evaluate
      BY <1>1, <1>t, <2>1, EvaluateRestart DEF Probe, ProbeHealthy, ProbeUnhealthy
    <2>2. CASE UNCHANGED <<ages, step, startedAgo, issued>>
      BY <1>t, <2>2 DEF RestartInv
    <2>3. QED
      BY <1>1, <2>1, <2>2 DEF Probe, ProbeHealthy, ProbeUnhealthy
  <1>2. CASE DockerRestart
    <2>1. step = "restart" /\ step' = "probe"
      BY <1>2 DEF DockerRestart
    <2>2. CASE RestartSucceeds
      BY <1>t, <2>1, <2>2 DEF RestartSucceeds, RestartInv
    <2>3. CASE RestartFails
      <3>1. issued' = issued \ {startedAgo} /\ ages' = ages
        BY <2>3 DEF RestartFails
      <3>2. Cardinality(issued') <= Cardinality(issued) /\ Cardinality(issued') \in Nat
        BY <1>s, <3>1, AgesFinite DEF Ages
      <3>3. QED
        BY <1>s, <1>t, <2>1, <3>1, <3>2 DEF RestartInv
    <2>4. QED
      BY <1>2, <2>2, <2>3 DEF DockerRestart
  <1>3. CASE Engage
    BY <1>3, <1>t DEF Engage, ladder, RestartInv
  <1>4. CASE SupervisorRestarts
    <2>1. Cardinality({}) = 0
      BY FS_EmptySet
    <2>2. issued' = {} /\ step' = "probe"
      BY <1>4 DEF SupervisorRestarts
    <2>3. QED
      BY <1>t, <2>1, <2>2 DEF RestartInv
  <1>5. CASE Tick
    <2>1. /\ ages' = {Older(a) : a \in ages}
          /\ issued' = StillIssued({Older(a) : a \in issued})
          /\ step' = step
          /\ step = "restart" => startedAgo' = Older(startedAgo)
      BY <1>5 DEF Tick
    <2>2. \A x \in issued' : \E a \in issued : x = Older(a)
      BY <2>1 DEF StillIssued
    <2>3. Cardinality(issued') <= Cardinality(issued) /\ Cardinality(issued') \in Nat
      <3>1. issued' \subseteq Ages /\ Cardinality(issued') <= Cardinality(issued)
        BY <1>s, <2>2, OlderNoMore
      <3>2. QED
        BY <3>1, AgesFinite DEF Ages
    <2>4. CASE step = "restart"
      <3>1. \A x \in issued' \ {startedAgo'} : \E a \in issued \ {startedAgo} : x = Older(a)
        BY <2>1, <2>2, <2>4
      <3>2. issued' \ {startedAgo'} \subseteq ages'
        BY <2>1, <2>4, <3>1 DEF RestartInv
      <3>3. QED
        BY <1>s, <1>t, <2>1, <2>3, <2>4, <3>2 DEF RestartInv
    <2>5. CASE step # "restart"
      <3>1. issued' \subseteq ages'
        BY <2>1, <2>2, <2>5 DEF RestartInv
      <3>2. QED
        BY <1>s, <1>t, <2>1, <2>3, <2>5, <3>1 DEF RestartInv
    <2>6. QED
      BY <2>4, <2>5
  <1>6. CASE RelayPoll \/ RelaySend \/ (\E a \in BOOLEAN : SetIntent(a)) \/ PlayerCrashes
             \/ PlayerStarts \/ UNCHANGED vars
    <2>1. UNCHANGED <<ages, step, startedAgo, issued>>
      BY <1>6 DEF RelayPoll, RelaySend, SetIntent, PlayerCrashes, PlayerStarts, ladder, loop, vars
    <2>2. QED
      BY <1>t, <2>1 DEF RestartInv
  <1>7. QED
    BY <1>1, <1>2, <1>3, <1>4, <1>5, <1>6 DEF Next

\* However probes, slow or failing docker calls and crashes of the player fall,
\* no window holds more restarts than the boot-loop threshold, although the one
\* under way is not recorded before docker answers.
THEOREM RestartsAreBounded == Spec => []RestartsBounded
  <1>1. RestartInv => RestartsBounded
    BY DEF RestartInv, RestartsBounded
  <1>2. QED
    BY <1>1, InitRestartInv, NextRestartInv, PTL DEF Spec
===============================================================================
