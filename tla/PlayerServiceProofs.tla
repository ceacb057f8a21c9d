-------------------------- MODULE PlayerServiceProofs -------------------------
(***************************************************************************)
(* Proofs about PlayerService, for any number of control requests and any  *)
(* faults: type correctness, what the screen shows and what the delivered  *)
(* events say once the event loop has settled, and that the process keeps  *)
(* the playback contract.  What a state machine call does to the machine   *)
(* itself is proved in PlayerStateMachineProofs and cited from there.      *)
(***************************************************************************)
EXTENDS PlayerService, TLAPS

P == INSTANCE PlayerStateMachineProofs

USE ServiceAssumption, MachineAssumption

-------------------------------------------------------------------------------
(***************************************************************************)
(* The state machine inside the process                                    *)
(***************************************************************************)

\* The two instances of the state machine are one and the same.
LEMMA SameConstants == P!ConstantsAssumption
  BY DEF SM!ConstantsAssumption, P!ConstantsAssumption

LEMMA SameTypes ==
    /\ SM!TypeOK <=> P!TypeOK
    /\ SM!States = P!States /\ SM!Actions = P!Actions
    /\ SM!TransitionResult = P!TransitionResult
  BY DEF SM!TypeOK, P!TypeOK, SM!States, P!States, SM!Actions, P!Actions,
         SM!TransitionResult, P!TransitionResult

LEMMA SameInit == SM!Init <=> P!Init
  BY DEF SM!Init, P!Init

\* A synchronous call of one of the machine's methods.
Call ==
    \/ \E m \in Manifests, d \in DwellTimes, c \in CooldownTimes :
          SM!OnActivateCreative(m, d, c)
    \/ SM!OnFreeze
    \/ SM!OnSafeMode
    \/ SM!OnClearSafeMode
    \/ SM!OnConnectionLost

LEMMA SameActivate ==
    ASSUME NEW m, NEW d, NEW c, SM!OnActivateCreative(m, d, c)
    PROVE  P!OnActivateCreative(m, d, c)
  BY DEF SM!OnActivateCreative, P!OnActivateCreative,
         SM!ActivateInSafeMode, P!ActivateInSafeMode,
         SM!ActivateBeforeDwell, P!ActivateBeforeDwell,
         SM!ActivateInCooldown, P!ActivateInCooldown, SM!Activate, P!Activate,
         SM!MayConsider, P!MayConsider, SM!InCooldown, P!InCooldown,
         SM!DwellElapsed, P!DwellElapsed, SM!CooldownsRecorded, P!CooldownsRecorded,
         SM!Rejected, P!Rejected, SM!Return, P!Return, SM!machineVars, P!machineVars

LEMMA SameOther ==
    /\ SM!OnFreeze => P!OnFreeze
    /\ SM!OnSafeMode => P!OnSafeMode
    /\ SM!OnClearSafeMode => P!OnClearSafeMode
    /\ SM!OnConnectionLost => P!OnConnectionLost
    /\ SM!Tick => P!Tick
  BY DEF SM!OnFreeze, P!OnFreeze, SM!OnSafeMode, P!OnSafeMode, SM!Tick, P!Tick,
         SM!OnClearSafeMode, P!OnClearSafeMode, SM!OnConnectionLost, P!OnConnectionLost,
         SM!FreezeNothing, P!FreezeNothing, SM!FreezeCreative, P!FreezeCreative,
         SM!ClearNothing, P!ClearNothing, SM!ClearSafeMode, P!ClearSafeMode,
         SM!LoseConnectionInSafeMode, P!LoseConnectionInSafeMode,
         SM!LoseConnection, P!LoseConnection, SM!Deactivate, P!Deactivate,
         SM!CooldownsRecorded, P!CooldownsRecorded, SM!timerVars, P!timerVars,
         SM!Rejected, P!Rejected, SM!Return, P!Return, SM!machineVars, P!machineVars

LEMMA CallIsNext == Call \/ SM!Tick => P!Next
  BY SameActivate, SameOther DEF Call, P!Next

\* A result names what the machine holds after the call: the manifest to play
\* is the active one, the fallback is shown only when nothing is active.
ResultFits ==
    /\ result.action = "play_manifest" => result.manifest = active /\ active \in Manifests
    /\ result.action = "show_fallback" => active = None

\* A call keeps the machine's invariant, its result fits the state it leaves,
\* and "hold" leaves the active manifest as it was.
LEMMA CallFits ==
    ASSUME P!MachineInv, Call
    PROVE  P!MachineInv' /\ ResultFits' /\ (result'.action = "hold" => active' = active)
  <1>1. P!MachineInv'
    BY CallIsNext, P!NextMachineInv, SameConstants
  <1>m. P!ModeMatchesContent
    BY DEF P!MachineInv
  <1>2. ResultFits' /\ (result'.action = "hold" => active' = active)
    <2>1. ASSUME NEW m \in Manifests, NEW d \in DwellTimes, NEW c \in CooldownTimes,
                 SM!OnActivateCreative(m, d, c)
          PROVE  ResultFits' /\ (result'.action = "hold" => active' = active)
      BY <2>1, <1>m DEF ResultFits, P!ModeMatchesContent, SM!OnActivateCreative,
         SM!ActivateInSafeMode, SM!ActivateBeforeDwell, SM!ActivateInCooldown,
         SM!Activate, SM!Rejected, SM!Return, SM!machineVars
    <2>2. ASSUME SM!OnFreeze \/ SM!OnSafeMode \/ SM!OnClearSafeMode \/ SM!OnConnectionLost
          PROVE  ResultFits' /\ (result'.action = "hold" => active' = active)
      BY <2>2, <1>m DEF ResultFits, P!ModeMatchesContent, SM!OnFreeze, SM!OnSafeMode,
         SM!OnClearSafeMode, SM!OnConnectionLost, SM!FreezeNothing, SM!FreezeCreative,
         SM!ClearNothing, SM!ClearSafeMode, SM!LoseConnectionInSafeMode,
         SM!LoseConnection, SM!Deactivate, SM!timerVars,
         SM!Rejected, SM!Return, SM!machineVars
    <2>3. QED
      BY <2>1, <2>2 DEF Call
  <1>3. QED
    BY <1>1, <1>2

\* Everything in its range, and the machine's own invariant.
ServiceInv == TypeOK /\ P!MachineInv
-------------------------------------------------------------------------------
(***************************************************************************)
(* Type correctness                                                        *)
(***************************************************************************)
LEMMA UnchangedMachine ==
    ASSUME ServiceInv, UNCHANGED machine
    PROVE  SM!TypeOK' /\ P!MachineInv'
  <1>1. UNCHANGED P!vars
    BY DEF machine, P!vars
  <1>2. P!MachineInv'
    BY <1>1, P!NextMachineInv, SameConstants DEF ServiceInv
  <1>3. SM!TypeOK'
    BY DEF machine, SM!TypeOK, ServiceInv, TypeOK
  <1>4. QED
    BY <1>2, <1>3

\* The machine's invariant contains its type correctness, primed or not.
LEMMA MachineTypes == P!MachineInv' => SM!TypeOK'
  BY DEF P!MachineInv, P!TypeOK, SM!TypeOK, P!States, SM!States, P!Actions, SM!Actions,
         P!TransitionResult, SM!TransitionResult

\* Whatever well-typed result starts a transition, the task is well typed.
LEMMA BeginType ==
    ASSUME TypeOK, NEW t \in Tasks, NEW r, Begin(t, r),
           r.action \in SM!Actions, r.new_state \in SM!States,
           r.manifest \in Manifests \cup {None}
    PROVE  task' \in [Tasks -> TaskStates]
  BY DEF Begin, TypeOK, TaskStates, IdleTask, SM!Actions, SM!States

\* A task that moves on, or ends, is well typed.
LEMMA GotoType ==
    ASSUME TypeOK, NEW t \in Tasks,
           \/ \E step \in {"loop", "report", "activated", "remember"} : Goto(t, step)
           \/ Finish(t)
    PROVE  task' \in [Tasks -> TaskStates]
  BY DEF Goto, Finish, TypeOK, TaskStates, IdleTask, SM!Actions, SM!States

\* What is noted of a transition is a truth value.
HistoryNoted == undisturbed' \in BOOLEAN /\ announced' \in BOOLEAN

LEMMA HistoryType ==
    ASSUME TypeOK, NEW t,
           NoteBegin(t) \/ NoteFailure \/ NoteActivation(t) \/ NoteRestart \/ UNCHANGED history
    PROVE  HistoryNoted
  <1>1. undisturbed \in BOOLEAN /\ announced \in BOOLEAN
    BY DEF TypeOK
  <1>2. CASE NoteBegin(t)
    BY <1>1, <1>2 DEF NoteBegin, Alone, HistoryNoted
  <1>3. CASE NoteFailure
    BY <1>3 DEF NoteFailure, HistoryNoted
  <1>4. CASE NoteActivation(t)
    BY <1>1, <1>4 DEF NoteActivation, HistoryNoted
  <1>5. CASE NoteRestart
    BY <1>5 DEF NoteRestart, HistoryNoted
  <1>6. CASE UNCHANGED history
    BY <1>1, <1>6 DEF history, HistoryNoted
  <1>7. QED
    BY <1>2, <1>3, <1>4, <1>5, <1>6

LEMMA ExitType ==
    ASSUME ServiceInv, Exit, HistoryNoted, UNCHANGED <<machine, bundle, events>>
    PROVE  ServiceInv'
  <1>1. task' \in [Tasks -> TaskStates]
    BY DEF Exit, TaskStates, IdleTask, SM!Actions, SM!States
  <1>2. QED
    BY <1>1, UnchangedMachine DEF Exit, ServiceInv, TypeOK, events, HistoryNoted

LEMMA InitServiceInv == Init => ServiceInv
  <1> SUFFICES ASSUME Init PROVE ServiceInv
    OBVIOUS
  <1>1. P!MachineInv
    BY SameInit, SameConstants, P!InitMachineInv DEF Init
  <1>2. SM!TypeOK
    BY <1>1, SameTypes DEF P!MachineInv
  <1>3. AnyFallback \in FallbackAssets
    BY DEF AnyFallback
  <1>4. task \in [Tasks -> TaskStates]
    BY DEF Init, TaskStates, IdleTask, SM!Actions, SM!States
  <1>5. QED
    BY <1>1, <1>2, <1>3, <1>4 DEF Init, ServiceInv, TypeOK

\* A failed message leaves the display as it was, or loaded, or with the flag set.
LEMMA TakenType ==
    ASSUME TypeOK, NEW t \in Tasks, MessageTakenOrNot(t)
    PROVE  /\ screen' \in Manifests \cup FallbackAssets \cup {Blank}
           /\ looping' \in BOOLEAN /\ mpvUp' \in BOOLEAN
  <1>1. task[t].asset \in Manifests \cup FallbackAssets \cup {None}
    BY DEF TypeOK, TaskStates
  <1>2. Loaded(t) \in Manifests \cup FallbackAssets \cup {Blank} /\ LoopFlag(t) \in BOOLEAN
    BY <1>1 DEF Loaded, LoopFlag
  <1>3. CASE UNCHANGED display
    BY <1>3 DEF display, TypeOK
  <1>4. CASE screen' = Loaded(t) /\ UNCHANGED <<looping, mpvUp>>
    BY <1>2, <1>4 DEF TypeOK
  <1>5. CASE looping' = LoopFlag(t) /\ UNCHANGED <<screen, mpvUp>>
    BY <1>2, <1>5 DEF TypeOK
  <1>6. QED
    BY <1>3, <1>4, <1>5 DEF MessageTakenOrNot

LEMMA FailureType ==
    ASSUME ServiceInv, NEW t \in Tasks, RendererFails(t)
    PROVE  ServiceInv'
  <1> USE DEF ServiceInv, TypeOK
  <1>h. HistoryNoted
    BY HistoryType DEF RendererFails
  <1>1. CASE ShowFallbackInstead(t)
    <2>0. task' = [task EXCEPT ![t] = [task[t] EXCEPT !.at = "load", !.asset = bundle]]
      BY <1>1 DEF ShowFallbackInstead
    <2>1. task' \in [Tasks -> TaskStates]
      BY <2>0 DEF TaskStates
    <2>2. QED
      BY <1>1, <1>h, <2>1, TakenType, UnchangedMachine
         DEF RendererFails, ShowFallbackInstead, HistoryNoted, events
  <1>2. CASE Exit
    BY <1>2, <1>h, ExitType DEF RendererFails
  <1>3. CASE Finish(t) /\ MessageTakenOrNot(t) /\ UNCHANGED <<running, link>>
    <2>1. task' \in [Tasks -> TaskStates]
      BY <1>3, GotoType
    <2>2. QED
      BY <1>3, <1>h, <2>1, TakenType, UnchangedMachine DEF RendererFails, HistoryNoted, events
  <1>4. QED
    BY <1>1, <1>2, <1>3 DEF RendererFails, TransitionFails

\* One step of a task that is in the middle of a transition.
LEMMA ContinueType ==
    ASSUME ServiceInv, NEW t \in Tasks, Continue(t)
    PROVE  ServiceInv'
  <1> USE DEF ServiceInv, TypeOK
  <1>t. task[t] \in TaskStates
    OBVIOUS
  <1>1. CASE LoadFile(t)
    <2>1. task' \in [Tasks -> TaskStates]
      BY <1>1, GotoType DEF LoadFile
    <2>2. screen' \in Manifests \cup FallbackAssets \cup {Blank}
      BY <1>1, <1>t DEF LoadFile, Loaded, TaskStates
    <2>3. QED
      BY <1>1, <2>1, <2>2, UnchangedMachine DEF LoadFile, history, events
  <1>2. CASE SetLoop(t)
    <2>1. task' \in [Tasks -> TaskStates]
      BY <1>2, GotoType DEF SetLoop
    <2>2. QED
      BY <1>2, <2>1, UnchangedMachine DEF SetLoop, LoopFlag, history, events
  <1>3. CASE RendererFails(t)
    BY <1>3, FailureType
  <1>4. CASE Report(t)
    <2>m. task[t].manifest \in Manifests \cup {None}
      BY <1>t DEF TaskStates
    <2>1. CASE ReportManifest(t)
      <3>1. task' \in [Tasks -> TaskStates]
        BY <2>1, GotoType DEF ReportManifest
      <3>2. prev' \in Manifests \cup {None} /\ view' \in Manifests \cup {None}
        BY <2>1, <2>m DEF ReportManifest
      <3>3. QED
        BY <1>4, <3>1, <3>2, UnchangedMachine DEF Report, display, history
    <2>2. CASE ReportFallback(t)
      <3>1. task' \in [Tasks -> TaskStates]
        BY <2>2, GotoType DEF ReportFallback
      <3>2. prev' \in Manifests \cup {None} /\ view' \in Manifests \cup {None}
        BY <2>2 DEF ReportFallback, Delivered
      <3>3. QED
        BY <1>4, <3>1, <3>2, UnchangedMachine DEF Report, display, history
    <2>3. QED
      BY <1>4, <2>1, <2>2 DEF Report
  <1>5. CASE ReportActivated(t)
    <2>1. task' \in [Tasks -> TaskStates]
      BY <1>5, GotoType DEF ReportActivated
    <2>2. view' \in Manifests \cup {None}
      BY <1>5, <1>t DEF ReportActivated, Delivered, TaskStates
    <2>3. QED
      BY <1>5, <2>1, <2>2, UnchangedMachine DEF ReportActivated, display, history
  <1>6. CASE Remember(t)
    <2>1. task' \in [Tasks -> TaskStates]
      BY <1>6, GotoType DEF Remember
    <2>2. prev' \in Manifests \cup {None}
      BY <1>6, <1>t DEF Remember, TaskStates
    <2>3. HistoryNoted
      BY <1>6, HistoryType DEF Remember
    <2>4. QED
      BY <1>6, <2>1, <2>2, <2>3, UnchangedMachine DEF Remember, display, HistoryNoted
  <1>7. QED
    BY <1>1, <1>2, <1>3, <1>4, <1>5, <1>6 DEF Continue

\* A machine call and the transition it starts.
LEMMA CalledType ==
    ASSUME ServiceInv, Call, NEW t \in Tasks, Begin(t, result'),
           link' \in {"up", "down"}, UNCHANGED Surroundings
    PROVE  ServiceInv'
  <1>1. P!MachineInv' /\ SM!TypeOK'
    BY CallFits, MachineTypes DEF ServiceInv
  <1>2. task' \in [Tasks -> TaskStates]
    <2>1. result' \in SM!TransitionResult
      BY <1>1 DEF SM!TypeOK
    <2>2. QED
      BY <2>1, BeginType DEF ServiceInv, SM!TransitionResult
  <1>3. HistoryNoted
    BY HistoryType DEF Begin, ServiceInv
  <1>4. QED
    BY <1>1, <1>2, <1>3 DEF Surroundings, display, events, ServiceInv, TypeOK, HistoryNoted

\* The commands, the control requests and a lost session are such calls, or an
\* activation refused without a call.
LEMMA HandlerCall ==
    ASSUME ConnectionLost \/ Commands
    PROVE  \/ /\ Call
              /\ \E t \in {"ws"} \cup Requests : Idle(t) /\ Begin(t, result')
              /\ link' \in {link, "down"}
              /\ UNCHANGED Surroundings
           \/ /\ RefuseActivation
              /\ Idle("ws")
              /\ UNCHANGED <<link, Surroundings>>
  <1>t. "ws" \in Tasks /\ Requests \subseteq Tasks
    BY DEF Tasks
  <1>1. CASE ConnectionLost
    BY <1>1, <1>t DEF ConnectionLost, Call
  <1>2. ASSUME NEW m \in Manifests, NEW d \in DwellTimes, NEW c \in CooldownTimes,
               ReceiveActivate(m, d, c)
        PROVE  \/ /\ Call
                  /\ Idle("ws") /\ Begin("ws", result')
                  /\ UNCHANGED <<link, Surroundings>>
               \/ /\ RefuseActivation
                  /\ Idle("ws")
                  /\ UNCHANGED <<link, Surroundings>>
    BY <1>2 DEF ReceiveActivate, Call
  <1>3. CASE ReceiveFreeze \/ ReceiveSafeMode \/ ReceiveClearSafeMode
    BY <1>3, <1>t DEF ReceiveFreeze, ReceiveSafeMode, ReceiveClearSafeMode, Call
  <1>4. ASSUME NEW r \in Requests, RequestSafeMode(r) \/ RequestClear(r)
        PROVE  /\ Call
               /\ Idle(r) /\ Begin(r, result')
               /\ UNCHANGED <<link, Surroundings>>
    BY <1>4 DEF RequestSafeMode, RequestClear, Call
  <1>5. QED
    BY <1>1, <1>2, <1>3, <1>4, <1>t DEF Commands

\* An activation refused outside a call still starts a well-typed transition.
LEMMA RefusedType ==
    ASSUME ServiceInv, RefuseActivation,
           UNCHANGED <<link, Surroundings>>
    PROVE  ServiceInv'
  <1>1. state \in SM!States /\ active \in Manifests \cup {None}
    BY DEF ServiceInv, TypeOK, SM!TypeOK
  <1>2. "ws" \in Tasks /\ {"hold", "show_fallback"} \subseteq SM!Actions
    BY DEF Tasks, SM!Actions
  <1>3. task' \in [Tasks -> TaskStates]
    BY <1>1, <1>2, BeginType DEF RefuseActivation, ServiceInv
  <1>4. HistoryNoted
    BY HistoryType DEF RefuseActivation, Begin, ServiceInv
  <1>5. QED
    BY <1>3, <1>4, UnchangedMachine
       DEF RefuseActivation, Surroundings, display, events, ServiceInv, TypeOK, HistoryNoted

LEMMA CommandType ==
    ASSUME ServiceInv, ConnectionLost \/ Commands
    PROVE  ServiceInv'
  <1>1. link \in {"up", "down"}
    BY DEF ServiceInv, TypeOK
  <1>2. {"ws"} \cup Requests \subseteq Tasks
    BY DEF Tasks
  <1>3. QED
    BY <1>1, <1>2, HandlerCall, CalledType, RefusedType

\* A new process has a new machine: that of Init, at the present time.
LEMMA ResetMachine ==
    ASSUME P!MachineInv, SM!Reset
    PROVE  P!MachineInv'
  <1>1. P!TypeOK'
    BY DEF P!MachineInv, P!TypeOK, SM!Reset, P!States, P!TransitionResult
  <1>2. P!ModeMatchesContent' /\ P!CooldownServed'
    BY DEF SM!Reset, P!ModeMatchesContent, P!CooldownServed
  <1>3. QED
    BY <1>1, <1>2 DEF P!MachineInv

LEMMA EnvironmentType ==
    ASSUME ServiceInv, Environment
    PROVE  ServiceInv'
  <1> USE DEF ServiceInv, TypeOK
  <1>1. CASE Tick
    <2>1. P!MachineInv' /\ SM!TypeOK'
      BY <1>1, CallIsNext, P!NextMachineInv, SameConstants, MachineTypes DEF Tick
    <2>2. QED
      BY <1>1, <2>1 DEF Tick, display, events, history
  <1>4. CASE ContentEnds
    BY <1>4, UnchangedMachine DEF ContentEnds, events, history
  <1>5. CASE MpvDies
    BY <1>5, UnchangedMachine DEF MpvDies, events, history
  <1>6. CASE BrokerDrop
    BY <1>6, UnchangedMachine DEF BrokerDrop, display, history
  <1>7. CASE ProcessDies
    BY <1>7, HistoryType, ExitType DEF ProcessDies
  <1>8. CASE Restart
    <2>1. P!MachineInv' /\ SM!TypeOK'
      BY <1>8, ResetMachine, MachineTypes DEF Restart
    <2>2. HistoryNoted
      BY <1>8, HistoryType DEF Restart
    <2>3. QED
      BY <1>8, <2>1, <2>2 DEF Restart, HistoryNoted
  <1>9. QED
    BY <1>1, <1>4, <1>5, <1>6, <1>7, <1>8 DEF Environment

\* No value of PlayerState is spelt in upper case: the refresh loop takes the
\* new path over but never draws it.
LEMMA RefreshNeverDraws ==
    ASSUME TypeOK, RefreshFallback
    PROVE  task' = task
  <1>1. state \notin {"FALLBACK", "SAFE_MODE"}
    BY DEF TypeOK, SM!TypeOK, SM!States
  <1>2. QED
    BY <1>1 DEF RefreshFallback

LEMMA LoopType ==
    ASSUME ServiceInv,
           Connect \/ CleanClose \/ RefreshFallback \/ ConnectMqtt
    PROVE  ServiceInv'
  <1> USE DEF ServiceInv, TypeOK
  <1>1. CASE Connect \/ CleanClose
    BY <1>1, UnchangedMachine DEF Connect, CleanClose, Surroundings, display, events, history
  <1>2. CASE RefreshFallback
    <2>1. task' = task
      BY <1>2, RefreshNeverDraws
    <2>2. QED
      BY <1>2, <2>1, UnchangedMachine DEF RefreshFallback, display, events, history
  <1>4. CASE ConnectMqtt
    BY <1>4, UnchangedMachine DEF ConnectMqtt, display, history
  <1>5. QED
    BY <1>1, <1>2, <1>4

LEMMA NextServiceInv == ServiceInv /\ [Next]_vars => ServiceInv'
  <1> SUFFICES ASSUME ServiceInv, [Next]_vars
               PROVE  ServiceInv'
    OBVIOUS
  <1>1. CASE UNCHANGED vars
    BY <1>1, UnchangedMachine DEF vars, display, events, history, ServiceInv, TypeOK
  <1>2. CASE Next
    BY <1>2, ContinueType, CommandType, LoopType, EnvironmentType DEF Next
  <1>3. QED
    BY <1>1, <1>2

\* Every variable of the process stays in its range, with any number of
\* concurrent control requests and under any of the faults.
THEOREM TypeCorrect == Spec => []TypeOK
  <1>1. ServiceInv => TypeOK
    BY DEF ServiceInv
  <1>2. QED
    BY <1>1, InitServiceInv, NextServiceInv, PTL DEF Spec
-------------------------------------------------------------------------------
(***************************************************************************)
(* One transition at a time                                                *)
(***************************************************************************)
Busy(t) == task[t].at # "idle"

\* The transition under way in a task is about what the machine holds.
Fits(t) ==
    \/ /\ task[t].action = "play_manifest" /\ active \in Manifests
       /\ task[t].manifest = active /\ task[t].asset = active
    \/ task[t].action = "show_fallback" /\ active = None /\ task[t].asset \in FallbackAssets

\* As long as nothing disturbs it, a transition is the only one under way and
\* agrees with the machine.
TransitionInv ==
    /\ ServiceInv
    /\ ~Busy("refresh")
    /\ ~running => ~mpvUp /\ \A t \in Tasks : ~Busy(t)
    /\ undisturbed => \A t \in Tasks : Busy(t) => Alone(t) /\ Fits(t)

\* A transition that task t starts with the result r.
Starts(t, r) ==
    /\ Idle(t)
    /\ Begin(t, r)
    /\ UNCHANGED Surroundings
    /\ r.action \in {"play_manifest", "show_fallback", "hold"}
    /\ r.action = "play_manifest" => r.manifest = active' /\ active' \in Manifests
    /\ r.action = "show_fallback" => active' = None
    /\ r.action = "hold" => active' = active

LEMMA CommandStarts ==
    ASSUME ServiceInv, ServiceInv', ConnectionLost \/ Commands
    PROVE  \E t \in {"ws"} \cup Requests : \E r : Starts(t, r)
  <1>1. ASSUME Call, UNCHANGED Surroundings,
               NEW t \in {"ws"} \cup Requests, Idle(t), Begin(t, result')
        PROVE  \E u \in {"ws"} \cup Requests : \E r : Starts(u, r)
    <2>1. result'.action \in {"play_manifest", "show_fallback", "hold"}
      BY DEF ServiceInv, TypeOK, SM!TypeOK, SM!TransitionResult, SM!Actions
    <2>2. ResultFits' /\ (result'.action = "hold" => active' = active)
      BY <1>1, CallFits DEF ServiceInv
    <2>3. Starts(t, result')
      BY <1>1, <2>1, <2>2 DEF Starts, ResultFits
    <2>4. QED
      BY <2>3
  <1>2. ASSUME RefuseActivation, Idle("ws"), UNCHANGED <<link, Surroundings>>
        PROVE  \E u \in {"ws"} \cup Requests : \E r : Starts(u, r)
    <2> DEFINE r == [accepted |-> FALSE, new_state |-> state, manifest |-> active,
                     action |-> IF state # "fallback" THEN "hold" ELSE "show_fallback"]
    <2>1. active' = active
      BY <1>2 DEF RefuseActivation, machine
    <2>2. state = "fallback" => active = None
      BY DEF ServiceInv, P!MachineInv, P!ModeMatchesContent
    <2>3. Begin("ws", r)
      BY <1>2 DEF RefuseActivation
    <2>4. Starts("ws", r)
      BY <1>2, <2>1, <2>2, <2>3 DEF Starts
    <2>5. QED
      BY <2>4
  <1>3. QED
    BY <1>1, <1>2, HandlerCall

\* What the steps of a task do to the tasks.
LEMMA Moved ==
    ASSUME TypeOK, NEW t \in Tasks, NEW step, Goto(t, step)
    PROVE  /\ \A u \in Tasks \ {t} : task'[u] = task[u]
           /\ task'[t].at = step
           /\ task'[t].action = task[t].action
           /\ task'[t].manifest = task[t].manifest
           /\ task'[t].asset = task[t].asset
  BY DEF Goto, TypeOK, TaskStates

LEMMA Finished ==
    ASSUME TypeOK, NEW t \in Tasks, Finish(t)
    PROVE  /\ \A u \in Tasks \ {t} : task'[u] = task[u]
           /\ task'[t].at = "idle"
  BY DEF Finish, TypeOK, IdleTask

LEMMA Begun ==
    ASSUME TypeOK, NEW t \in Tasks, NEW r, Begin(t, r)
    PROVE  /\ \A u \in Tasks \ {t} : task'[u] = task[u]
           /\ r.action = "hold" => task'[t].at = "idle" /\ UNCHANGED history
           /\ r.action # "hold" =>
                /\ task'[t].at = "load" /\ task'[t].action = r.action
                /\ task'[t].manifest = r.manifest
                /\ task'[t].asset = IF r.action = "play_manifest" THEN r.manifest ELSE bundle
                /\ NoteBegin(t)
  BY DEF Begin, TypeOK, IdleTask

LEMMA InitTransitionInv == Init => TransitionInv
  <1>1. "refresh" \in Tasks
    BY DEF Tasks
  <1>2. QED
    BY <1>1, InitServiceInv DEF Init, TransitionInv, Busy, IdleTask

LEMMA SameTransitionInv ==
    ASSUME TransitionInv, ServiceInv', UNCHANGED <<active, task, running, undisturbed>>,
           mpvUp' = mpvUp \/ ~mpvUp'
    PROVE  TransitionInv'
  BY DEF TransitionInv, Busy, Alone, Fits

\* A task that goes on or ends is the one that was under way.
LEMMA MovedTransitionInv ==
    ASSUME TransitionInv, ServiceInv', NEW t \in Tasks, Busy(t),
           Finish(t) \/ \E step : Goto(t, step),
           UNCHANGED <<active, running, mpvUp, undisturbed>>
    PROVE  TransitionInv'
  <1>1. TypeOK /\ t # "refresh" /\ "refresh" \in Tasks /\ running
    BY DEF TransitionInv, ServiceInv, Tasks
  <1>2. \A u \in Tasks \ {t} : task'[u] = task[u]
    BY <1>1, Moved, Finished
  <1>3. ASSUME undisturbed', NEW u \in Tasks, Busy(u)'
        PROVE  Alone(u)' /\ Fits(u)'
    <2>1. Alone(t) /\ Fits(t)
      BY <1>3 DEF TransitionInv
    <2>2. u = t
      BY <1>2, <1>3, <2>1 DEF Alone, Busy
    <2>3. Fits(t)'
      BY <1>1, <1>3, <2>1, <2>2, Moved, Finished DEF Busy, Fits
    <2>4. QED
      BY <1>2, <2>1, <2>2, <2>3 DEF Alone
  <1>4. ~Busy("refresh")'
    BY <1>1, <1>2 DEF TransitionInv, Busy
  <1>5. QED
    BY <1>1, <1>3, <1>4 DEF TransitionInv

LEMMA FailureTransitionInv ==
    ASSUME TransitionInv, ServiceInv', NEW t \in Tasks, RendererFails(t)
    PROVE  TransitionInv'
  <1>1. TypeOK /\ t # "refresh" /\ "refresh" \in Tasks /\ running
    BY DEF RendererFails, TransitionInv, ServiceInv, Tasks, Busy
  <1>2. ~undisturbed'
    BY DEF RendererFails, NoteFailure
  <1>3. CASE Exit
    BY <1>1, <1>2, <1>3 DEF Exit, TransitionInv, Busy, IdleTask
  <1>4. CASE ShowFallbackInstead(t)
    BY <1>1, <1>2, <1>4 DEF ShowFallbackInstead, TransitionInv, ServiceInv, TypeOK, Busy
  <1>5. CASE Finish(t) /\ UNCHANGED running
    BY <1>1, <1>2, <1>5, Finished DEF TransitionInv, Busy
  <1>6. QED
    BY <1>3, <1>4, <1>5 DEF RendererFails, TransitionFails

LEMMA ContinueTransitionInv ==
    ASSUME TransitionInv, ServiceInv', NEW t \in Tasks, Continue(t)
    PROVE  TransitionInv'
  <1>1. CASE RendererFails(t)
    BY <1>1, FailureTransitionInv
  <1>2. CASE LoadFile(t)
    BY <1>2, MovedTransitionInv DEF LoadFile, Busy, machine, history
  <1>3. CASE SetLoop(t)
    BY <1>3, MovedTransitionInv DEF SetLoop, Busy, machine, history
  <1>4. CASE Report(t)
    BY <1>4, MovedTransitionInv
       DEF Report, ReportManifest, ReportFallback, Busy, machine, display, history
  <1>5. CASE ReportActivated(t)
    BY <1>5, MovedTransitionInv DEF ReportActivated, Busy, machine, display, history
  <1>6. CASE Remember(t)
    BY <1>6, MovedTransitionInv DEF Remember, NoteActivation, Busy, machine, display
  <1>7. QED
    BY <1>1, <1>2, <1>3, <1>4, <1>5, <1>6 DEF Continue

\* A transition that begins alone is undisturbed; one that does nothing leaves
\* the machine with what it held.
LEMMA StartTransitionInv ==
    ASSUME TransitionInv, ServiceInv', NEW t \in {"ws"} \cup Requests, NEW r, Starts(t, r)
    PROVE  TransitionInv'
  <1>1. TypeOK /\ t \in Tasks /\ t # "refresh" /\ "refresh" \in Tasks
    BY DEF TransitionInv, ServiceInv, Tasks
  <1>2. running /\ UNCHANGED <<running, mpvUp>> /\ ~Busy(t)
    BY DEF Starts, Idle, Surroundings, display, Busy
  <1>3. \A u \in Tasks \ {t} : task'[u] = task[u]
    BY <1>1, Begun DEF Starts
  <1>4. ~Busy("refresh")'
    BY <1>1, <1>3 DEF TransitionInv, Busy
  <1>5. CASE r.action = "hold"
    <2>1. ~Busy(t)' /\ UNCHANGED <<active, undisturbed>>
      BY <1>1, <1>5, Begun DEF Starts, Busy, history
    <2>2. ASSUME undisturbed', NEW u \in Tasks, Busy(u)'
          PROVE  Alone(u)' /\ Fits(u)'
      BY <1>2, <1>3, <2>1, <2>2 DEF TransitionInv, Busy, Alone, Fits
    <2>3. QED
      BY <1>2, <1>4, <2>2 DEF TransitionInv
  <1>6. CASE r.action # "hold"
    <2>1. /\ task'[t].action = r.action /\ task'[t].manifest = r.manifest
          /\ task'[t].asset = IF r.action = "play_manifest" THEN r.manifest ELSE bundle
          /\ undisturbed' = Alone(t)
      BY <1>1, <1>6, Begun DEF Starts, NoteBegin
    <2>2. Fits(t)'
      BY <1>1, <1>6, <2>1 DEF Starts, Fits, TypeOK
    <2>3. ASSUME undisturbed', NEW u \in Tasks, Busy(u)'
          PROVE  Alone(u)' /\ Fits(u)'
      <3>1. u = t
        BY <1>3, <2>1, <2>3 DEF Alone, Busy
      <3>2. QED
        BY <1>3, <2>1, <2>2, <2>3, <3>1 DEF Alone
    <2>4. QED
      BY <1>2, <1>4, <2>3 DEF TransitionInv
  <1>7. QED
    BY <1>5, <1>6

LEMMA NextTransitionInv == TransitionInv /\ [Next]_vars => TransitionInv'
  <1> SUFFICES ASSUME TransitionInv, [Next]_vars
               PROVE  TransitionInv'
    OBVIOUS
  <1>s. ServiceInv /\ ServiceInv'
    BY NextServiceInv DEF TransitionInv
  <1>1. CASE \E t \in Tasks : Continue(t)
    BY <1>1, <1>s, ContinueTransitionInv
  <1>2. CASE ConnectionLost \/ Commands
    BY <1>2, <1>s, CommandStarts, StartTransitionInv
  <1>3. CASE RefreshFallback
    BY <1>3, <1>s, RefreshNeverDraws, SameTransitionInv
       DEF RefreshFallback, ServiceInv, machine, display, history
  <1>4. CASE Connect \/ CleanClose \/ ConnectMqtt
    BY <1>4, <1>s, SameTransitionInv
       DEF Connect, CleanClose, ConnectMqtt, Surroundings, machine, display, history
  <1>5. CASE Environment
    <2>1. CASE Tick \/ ContentEnds \/ MpvDies \/ BrokerDrop
      BY <1>s, <2>1, SameTransitionInv DEF Tick, SM!Tick, SM!machineVars, ContentEnds, MpvDies,
         BrokerDrop, machine, display, history
    <2>2. CASE ProcessDies
      <3>1. "refresh" \in Tasks
        BY DEF Tasks
      <3>2. QED
        BY <1>s, <2>2, <3>1 DEF ProcessDies, Exit, TransitionInv, Busy, IdleTask
    <2>3. CASE Restart
      BY <1>s, <2>3 DEF Restart, TransitionInv, Busy
    <2>4. QED
      BY <1>5, <2>1, <2>2, <2>3 DEF Environment
  <1>6. CASE UNCHANGED vars
    BY <1>6, <1>s, SameTransitionInv DEF vars, machine, display, history
  <1>7. QED
    BY <1>1, <1>2, <1>3, <1>4, <1>5, <1>6 DEF Next
-------------------------------------------------------------------------------
(***************************************************************************)
(* What the screen shows                                                   *)
(***************************************************************************)

\* The screen shows what the machine holds and keeps showing it, up to the end
\* of content that does not loop or was not there.
Shown ==
    /\ active = None => screen \in FallbackAssets /\ looping
    /\ active # None => screen \in {active, Blank}
    /\ active \in LoopingManifests \cap CachedManifests => screen = active /\ looping

Drawing(t) == task[t].at \in {"load", "loop"}

\* An undisturbed transition has loaded its content by its second message, and
\* with that message the screen shows what the machine holds.
DisplayInv ==
    /\ TransitionInv
    /\ running /\ mpvUp /\ undisturbed =>
        /\ \A t \in Tasks : task[t].at = "loop" => screen = Loaded(t)
        /\ (\A t \in Tasks : ~Drawing(t)) => Shown

LEMMA InitDisplayInv == Init => DisplayInv
  <1>1. AnyFallback \in FallbackAssets
    BY DEF AnyFallback
  <1>2. QED
    BY <1>1, InitTransitionInv DEF Init, SM!Init, DisplayInv, IdleTask, Shown

LEMMA SameDisplayInv ==
    ASSUME DisplayInv, TransitionInv', UNCHANGED <<active, task, running, display, undisturbed>>
    PROVE  DisplayInv'
  BY DEF DisplayInv, display, Shown, Drawing, Loaded

\* The steps after the second message leave the display alone.
LEMMA ReportDisplayInv ==
    ASSUME DisplayInv, TransitionInv', NEW t \in Tasks, Busy(t), ~Drawing(t),
           Finish(t) \/ \E step \in {"activated", "remember"} : Goto(t, step),
           UNCHANGED <<active, running, display, undisturbed>>
    PROVE  DisplayInv'
  <1>1. TypeOK
    BY DEF DisplayInv, TransitionInv, ServiceInv
  <1>2. (\A u \in Tasks \ {t} : task'[u] = task[u]) /\ task'[t].at \notin {"load", "loop"}
    BY <1>1, Moved, Finished
  <1>3. \A u \in Tasks : Drawing(u)' <=> Drawing(u)
    BY <1>2 DEF Drawing
  <1>4. \A u \in Tasks : task'[u].at = "loop" => u # t /\ Loaded(u)' = Loaded(u)
    BY <1>2 DEF Loaded
  <1>5. ASSUME (running /\ mpvUp /\ undisturbed)'
        PROVE  /\ (\A u \in Tasks : task[u].at = "loop" => screen = Loaded(u))'
               /\ ((\A u \in Tasks : ~Drawing(u)) => Shown)'
    <2>1. /\ \A u \in Tasks : task[u].at = "loop" => screen = Loaded(u)
          /\ (\A u \in Tasks : ~Drawing(u)) => Shown
      BY <1>5 DEF DisplayInv, display
    <2>2. Shown => Shown'
      BY DEF Shown, display
    <2>3. QED
      BY <1>2, <1>3, <1>4, <2>1, <2>2 DEF display
  <1>6. QED
    BY <1>5 DEF DisplayInv

LEMMA LoadDisplayInv ==
    ASSUME DisplayInv, TransitionInv', NEW t \in Tasks, LoadFile(t)
    PROVE  DisplayInv'
  <1>1. TypeOK
    BY DEF DisplayInv, TransitionInv, ServiceInv
  <1>2. /\ \A u \in Tasks \ {t} : task'[u] = task[u]
        /\ task'[t].at = "loop" /\ task'[t].asset = task[t].asset
    BY <1>1, Moved DEF LoadFile
  <1>3. Drawing(t)'
    BY <1>2 DEF Drawing
  <1>4. ASSUME undisturbed', NEW u \in Tasks, task'[u].at = "loop"
        PROVE  screen' = Loaded(u)'
    <2>1. u = t
      BY <1>4, <1>2 DEF TransitionInv, Busy, Alone
    <2>2. QED
      BY <1>2, <2>1 DEF LoadFile, Loaded
  <1>5. QED
    BY <1>3, <1>4 DEF DisplayInv

LEMMA LoopDisplayInv ==
    ASSUME DisplayInv, TransitionInv', NEW t \in Tasks, SetLoop(t)
    PROVE  DisplayInv'
  <1>1. TypeOK /\ t # "refresh"
    BY DEF SetLoop, DisplayInv, TransitionInv, ServiceInv, Busy
  <1>2. (\A u \in Tasks \ {t} : task'[u] = task[u]) /\ task'[t].at = "report"
    BY <1>1, Moved DEF SetLoop
  <1>3. ASSUME undisturbed'
        PROVE  Shown' /\ \A u \in Tasks : task'[u].at # "loop"
    <2>1. undisturbed /\ running /\ mpvUp /\ Busy(t)
      BY <1>3 DEF SetLoop, history, Busy
    <2>2. Alone(t) /\ Fits(t)
      BY <2>1 DEF DisplayInv, TransitionInv
    <2>3. screen = Loaded(t)
      BY <2>1 DEF DisplayInv, SetLoop
    <2>4. screen' = screen /\ active' = active /\ looping' = LoopFlag(t)
      BY DEF SetLoop, machine
    <2>5. CASE active = None
      <3>1. task[t].asset \in FallbackAssets
        BY <2>2, <2>5 DEF Fits, SM!ConstantsAssumption
      <3>2. QED
        BY <1>2, <2>2, <2>3, <2>4, <2>5, <3>1 DEF Alone, Loaded, LoopFlag, Shown
    <2>6. CASE active # None
      <3>1. task[t].asset = active /\ active \in Manifests
        BY <2>2, <2>6 DEF Fits
      <3>2. Shown'
        BY <2>3, <2>4, <2>6, <3>1 DEF Loaded, LoopFlag, Shown
      <3>3. QED
        BY <1>2, <2>2, <3>2 DEF Alone
    <2>7. QED
      BY <2>5, <2>6
  <1>4. QED
    BY <1>3 DEF DisplayInv

LEMMA ContinueDisplayInv ==
    ASSUME DisplayInv, TransitionInv', NEW t \in Tasks, Continue(t)
    PROVE  DisplayInv'
  <1>1. CASE LoadFile(t)
    BY <1>1, LoadDisplayInv
  <1>2. CASE SetLoop(t)
    BY <1>2, LoopDisplayInv
  <1>3. CASE RendererFails(t)
    BY <1>3 DEF RendererFails, NoteFailure, DisplayInv
  <1>4. CASE Report(t)
    BY <1>4, ReportDisplayInv
       DEF Report, ReportManifest, ReportFallback, Busy, Drawing, machine, history
  <1>5. CASE ReportActivated(t)
    BY <1>5, ReportDisplayInv DEF ReportActivated, Busy, Drawing, machine, history
  <1>6. CASE Remember(t)
    BY <1>6, ReportDisplayInv DEF Remember, NoteActivation, Busy, Drawing, machine
  <1>7. QED
    BY <1>1, <1>2, <1>3, <1>4, <1>5, <1>6 DEF Continue

\* A transition that begins alone has everything still to draw, and one that
\* does nothing finds the display as it was.
LEMMA StartDisplayInv ==
    ASSUME DisplayInv, TransitionInv', NEW t \in {"ws"} \cup Requests, NEW r, Starts(t, r)
    PROVE  DisplayInv'
  <1>1. TypeOK /\ t \in Tasks
    BY DEF DisplayInv, TransitionInv, ServiceInv, Tasks
  <1>2. UNCHANGED <<running, screen, looping, mpvUp>> /\ task[t].at = "idle"
    BY DEF Starts, Idle, Surroundings, display
  <1>3. \A u \in Tasks \ {t} : task'[u] = task[u]
    BY <1>1, Begun DEF Starts
  <1>4. CASE r.action = "hold"
    <2>1. task'[t].at = "idle" /\ UNCHANGED <<active, undisturbed>>
      BY <1>1, <1>4, Begun DEF Starts, history
    <2>2. \A u \in Tasks : Drawing(u)' <=> Drawing(u)
      BY <1>2, <1>3, <2>1 DEF Drawing
    <2>3. \A u \in Tasks : task'[u].at = "loop" => task[u].at = "loop" /\ Loaded(u)' = Loaded(u)
      BY <1>3, <2>1 DEF Loaded
    <2>4. Shown => Shown'
      BY <1>2, <2>1 DEF Shown
    <2>5. QED
      BY <1>2, <2>1, <2>2, <2>3, <2>4 DEF DisplayInv
  <1>5. CASE r.action # "hold"
    <2>1. task'[t].at = "load" /\ (undisturbed' => Alone(t))
      BY <1>1, <1>5, Begun DEF Starts, NoteBegin
    <2>2. Drawing(t)'
      BY <2>1 DEF Drawing
    <2>3. ASSUME undisturbed', NEW u \in Tasks, task'[u].at = "loop"
          PROVE  FALSE
      BY <1>3, <2>1, <2>3 DEF Alone
    <2>4. QED
      BY <1>1, <2>2, <2>3 DEF DisplayInv
  <1>6. QED
    BY <1>4, <1>5

LEMMA EnvironmentDisplayInv ==
    ASSUME DisplayInv, TransitionInv', Environment
    PROVE  DisplayInv'
  <1>1. CASE Tick \/ BrokerDrop
    BY <1>1, SameDisplayInv DEF Tick, SM!Tick, SM!machineVars, BrokerDrop, machine, history
  <1>2. CASE ContentEnds
    <2>1. screen' = Blank /\ ~looping' /\ UNCHANGED <<running, mpvUp, undisturbed, active, task>>
      BY <1>2 DEF ContentEnds, machine, history
    <2>2. \A t \in Tasks : task'[t].at # "loop" /\ (Drawing(t)' <=> Drawing(t))
      BY <1>2, <2>1 DEF ContentEnds, Drawing
    <2>3. Shown => Shown'
      BY <1>2, <2>1 DEF ContentEnds, Shown
    <2>4. QED
      BY <2>1, <2>2, <2>3 DEF DisplayInv
  <1>3. CASE MpvDies
    BY <1>3 DEF MpvDies, DisplayInv
  <1>4. CASE ProcessDies
    BY <1>4 DEF ProcessDies, Exit, DisplayInv
  <1>5. CASE Restart
    <2>1. screen' \in FallbackAssets /\ looping' /\ active' = None /\ task' = task
      BY <1>5 DEF Restart, SM!Reset
    <2>2. Shown'
      BY <2>1 DEF Shown, SM!ConstantsAssumption
    <2>3. \A t \in Tasks : task'[t].at # "loop"
      BY <1>5, <2>1 DEF Restart, DisplayInv, TransitionInv, Busy
    <2>4. QED
      BY <2>2, <2>3 DEF DisplayInv
  <1>6. QED
    BY <1>1, <1>2, <1>3, <1>4, <1>5 DEF Environment

LEMMA NextDisplayInv == DisplayInv /\ [Next]_vars => DisplayInv'
  <1> SUFFICES ASSUME DisplayInv, [Next]_vars
               PROVE  DisplayInv'
    OBVIOUS
  <1>s. TransitionInv /\ TransitionInv' /\ ServiceInv /\ ServiceInv'
    BY NextTransitionInv DEF DisplayInv, TransitionInv
  <1>1. CASE \E t \in Tasks : Continue(t)
    BY <1>1, <1>s, ContinueDisplayInv
  <1>2. CASE ConnectionLost \/ Commands
    BY <1>2, <1>s, CommandStarts, StartDisplayInv
  <1>3. CASE RefreshFallback
    BY <1>3, <1>s, RefreshNeverDraws, SameDisplayInv
       DEF RefreshFallback, ServiceInv, machine, history
  <1>4. CASE Connect \/ CleanClose \/ ConnectMqtt
    BY <1>4, <1>s, SameDisplayInv
       DEF Connect, CleanClose, ConnectMqtt, Surroundings, machine, history
  <1>5. CASE Environment
    BY <1>5, <1>s, EnvironmentDisplayInv
  <1>6. CASE UNCHANGED vars
    BY <1>6, <1>s, SameDisplayInv DEF vars, machine, history
  <1>7. QED
    BY <1>1, <1>2, <1>3, <1>4, <1>5, <1>6 DEF Next

\* Once the event loop is idle, the display shows what the state machine says,
\* if no other transition was under way when the latest one began and none of
\* its messages to mpv failed: for every number of concurrent control requests
\* and any faults, whatever races and failures went before.
THEOREM ScreenAlwaysMatchesState == Spec => []ScreenMatchesState
  <1>1. DisplayInv => ScreenMatchesState
    <2> SUFFICES ASSUME DisplayInv, Settled, undisturbed
                 PROVE  ShowsWhatIsActive
      BY DEF ScreenMatchesState
    <2>1. \A t \in Tasks : ~Drawing(t)
      BY DEF Settled, Drawing
    <2>2. Shown
      BY <2>1 DEF DisplayInv, Settled
    <2>3. QED
      BY <2>2 DEF Shown, ShowsWhatIsActive
  <1>2. QED
    BY <1>1, InitDisplayInv, NextDisplayInv, PTL DEF Spec
-------------------------------------------------------------------------------
(***************************************************************************)
(* What the delivered events say                                           *)
(***************************************************************************)
Publishing(t) == task[t].at \in {"activated", "remember"}

\* What the creative remembered, and the one the delivered events name, have to
\* do with the machine while the events are announced: the transition under way
\* is the only one, and follows what it announced.
Agrees ==
    /\ (\A t \in Tasks : ~Busy(t)) => prev = active
    /\ mqtt = "off" => view = None
    /\ mqtt = "live" =>
        /\ (\A t \in Tasks : ~Publishing(t)) => view \in {None, prev}
        /\ \A t \in Tasks : task[t].at = "activated" => view = None
        /\ \A t \in Tasks : task[t].at = "remember" => view \in {None, active}

ReportInv ==
    /\ TransitionInv
    /\ announced => undisturbed
    /\ \A t \in Tasks : task[t].at = "activated" => task[t].action = "play_manifest"
    /\ mqtt = "off" => \A t \in Tasks : ~Publishing(t)
    \* an undisturbed activation that was delivered names what is remembered next
    /\ undisturbed /\ mqtt = "live" =>
        \A t \in Tasks : task[t].at = "remember" /\ task[t].action = "play_manifest"
                            => view = task[t].manifest
    /\ announced /\ running => Agrees

LEMMA InitReportInv == Init => ReportInv
  BY InitTransitionInv DEF Init, SM!Init, ReportInv, Agrees, Busy, Publishing, IdleTask

LEMMA SameReportInv ==
    ASSUME ReportInv, TransitionInv', UNCHANGED <<active, task, running, events, history>>
    PROVE  ReportInv'
  BY DEF ReportInv, Agrees, Busy, Publishing, events, history

\* A step with the display leaves the events for later.
LEMMA DrawReportInv ==
    ASSUME ReportInv, TransitionInv', NEW t \in Tasks, task[t].at \in {"load", "loop"},
           \E step \in {"loop", "report"} : Goto(t, step),
           UNCHANGED <<active, running, events, history>>
    PROVE  ReportInv'
  <1>1. TypeOK
    BY DEF ReportInv, TransitionInv, ServiceInv
  <1>2. /\ \A u \in Tasks \ {t} : task'[u] = task[u]
        /\ task'[t].at \in {"loop", "report"}
    BY <1>1, Moved
  <1>3. UNCHANGED <<prev, mqtt, view, undisturbed, announced>>
    BY DEF events, history
  <1>4. \A u \in Tasks : /\ Busy(u)' <=> Busy(u)
                         /\ Publishing(u)' <=> Publishing(u)
                         /\ task'[u].at \in {"activated", "remember"} => task'[u] = task[u]
    BY <1>2 DEF Busy, Publishing
  <1>5. Agrees => Agrees'
    BY <1>3, <1>4 DEF Agrees
  <1>6. QED
    BY <1>3, <1>4, <1>5 DEF ReportInv

\* A step that reports: the events change, and one task moves on or ends.
LEMMA ReportReportInv ==
    ASSUME ReportInv, TransitionInv', NEW t \in Tasks, Report(t)
    PROVE  ReportInv'
  <1>1. TypeOK /\ Busy(t) /\ running /\ task[t].at = "report"
    BY DEF ReportInv, TransitionInv, ServiceInv, Report, Busy
  <1>2. UNCHANGED <<active, running, mqtt, undisturbed, announced>>
    BY DEF Report, machine, history
  <1>3. \A u \in Tasks \ {t} : task'[u] = task[u]
    BY <1>1, Moved, Finished DEF Report, ReportManifest, ReportFallback
  <1>4. undisturbed => Alone(t) /\ Fits(t)
    BY <1>1 DEF ReportInv, TransitionInv
  <1>5. announced => undisturbed
    BY DEF ReportInv
  <1>6. announced => Agrees /\ (mqtt = "live" => view \in {None, prev})
    <2>1. ASSUME announced PROVE \A u \in Tasks : ~Publishing(u)
      BY <1>1, <1>4, <1>5, <2>1 DEF Alone, Publishing
    <2>2. QED
      BY <1>1, <2>1 DEF ReportInv, Agrees
  <1>7. CASE ReportManifest(t) /\ task[t].action = "play_manifest" /\ mqtt = "live"
    <2>1. CASE view' = None /\ Goto(t, "activated") /\ UNCHANGED prev
      <3>1. /\ task'[t].at = "activated" /\ task'[t].action = "play_manifest"
        BY <1>1, <1>7, <2>1, Moved
      <3>2. \A u \in Tasks : undisturbed => task'[u].at # "remember"
        BY <1>3, <1>4, <3>1 DEF Alone
      <3>3. announced => Agrees'
        BY <1>2, <1>5, <1>7, <2>1, <3>1, <3>2 DEF Agrees, Busy, Publishing
      <3>4. QED
        BY <1>2, <1>3, <1>7, <3>1, <3>2, <3>3 DEF ReportInv
    <2>2. CASE view' = task[t].manifest /\ Goto(t, "remember") /\ UNCHANGED prev
      <3>1. task'[t].at = "remember" /\ task'[t].manifest = task[t].manifest
        BY <1>1, <2>2, Moved
      <3>2. \A u \in Tasks : undisturbed => u = t \/ task'[u].at = "idle"
        BY <1>3, <1>4 DEF Alone
      <3>3. announced => Agrees'
        <4>1. announced => view' \in {None, active'}
          BY <1>2, <1>4, <1>5, <1>7, <2>2 DEF Fits
        <4>2. QED
          BY <1>2, <1>5, <1>7, <3>1, <3>2, <4>1 DEF Agrees, Busy, Publishing
      <3>4. QED
        BY <1>2, <1>3, <1>7, <2>2, <3>1, <3>2, <3>3 DEF ReportInv
    <2>3. QED
      BY <1>7, <2>1, <2>2 DEF ReportManifest
  <1>8. CASE /\ prev' = (IF task[t].action = "play_manifest" THEN task[t].manifest ELSE None)
             /\ Finish(t) /\ (mqtt = "live" => view' = view /\ (announced => view \in {None, prev'}))
             /\ (mqtt = "off" => view' = view)
    <2>1. task'[t].at = "idle"
      BY <1>1, <1>8, Finished
    <2>2. \A u \in Tasks : undisturbed => ~Busy(u)' /\ ~Publishing(u)'
      BY <1>3, <1>4, <2>1 DEF Alone, Busy, Publishing
    <2>3. undisturbed => prev' = active
      BY <1>4, <1>8 DEF Fits
    <2>4. announced => Agrees'
      BY <1>2, <1>5, <1>6, <1>8, <2>2, <2>3 DEF Agrees, Publishing
    <2>5. \A u \in Tasks : task'[u].at # "idle" => task'[u] = task[u]
      BY <1>3, <2>1
    <2>6. \A u \in Tasks : Publishing(u)' => Publishing(u)
      BY <2>5 DEF Publishing
    <2>7. \A u \in Tasks : undisturbed => task'[u].at # "remember"
      BY <2>2 DEF Publishing
    <2>8. QED
      BY <1>2, <2>4, <2>5, <2>6, <2>7 DEF ReportInv
  <1>9. CASE /\ task[t].action = "show_fallback" /\ mqtt = "live"
             /\ view' = None /\ Goto(t, "remember") /\ UNCHANGED prev
    <2>1. task'[t].at = "remember" /\ task'[t].action = "show_fallback"
      BY <1>1, <1>9, Moved
    <2>2. \A u \in Tasks : undisturbed => u = t \/ task'[u].at = "idle"
      BY <1>3, <1>4 DEF Alone
    <2>3. announced => Agrees'
      BY <1>2, <1>5, <1>9, <2>1, <2>2 DEF Agrees, Busy, Publishing
    <2>4. QED
      BY <1>2, <1>3, <1>9, <2>1, <2>2, <2>3 DEF ReportInv
  <1>10. CASE ReportManifest(t) /\ task[t].action = "play_manifest" /\ mqtt # "live"
    BY <1>8, <1>10 DEF ReportManifest
  <1>11. CASE ReportFallback(t) /\ task[t].action = "show_fallback"
    <2>1. CASE mqtt = "live" /\ prev # None
      BY <1>9, <1>11, <2>1 DEF ReportFallback, Delivered
    <2>2. CASE mqtt = "live" /\ prev = None
      BY <1>6, <1>8, <1>11, <2>2 DEF ReportFallback
    <2>3. CASE mqtt # "live"
      BY <1>8, <1>11, <2>3 DEF ReportFallback, Delivered
    <2>4. QED
      BY <2>1, <2>2, <2>3
  <1>12. QED
    BY <1>7, <1>10, <1>11 DEF Report

LEMMA ActivatedReportInv ==
    ASSUME ReportInv, TransitionInv', NEW t \in Tasks, ReportActivated(t)
    PROVE  ReportInv'
  <1>1. TypeOK /\ Busy(t) /\ running /\ task[t].at = "activated"
    BY DEF ReportInv, TransitionInv, ServiceInv, ReportActivated, Busy
  <1>2. UNCHANGED <<active, running, mqtt, prev, undisturbed, announced>>
    BY DEF ReportActivated, machine, history
  <1>3. /\ \A u \in Tasks \ {t} : task'[u] = task[u]
        /\ task'[t].at = "remember" /\ task'[t].manifest = task[t].manifest
    BY <1>1, Moved DEF ReportActivated
  <1>4. undisturbed => Alone(t) /\ Fits(t)
    BY <1>1 DEF ReportInv, TransitionInv
  <1>5. \A u \in Tasks : undisturbed => u = t \/ task'[u].at = "idle"
    BY <1>3, <1>4 DEF Alone
  <1>6. mqtt # "off"
    BY <1>1 DEF ReportInv, Publishing
  <1>7. mqtt = "live" => view' = task[t].manifest
    BY DEF ReportActivated, Delivered
  <1>8. announced => undisturbed /\ (mqtt = "live" => view' \in {None, active'})
    <2>1. task[t].action = "play_manifest"
      BY <1>1 DEF ReportInv
    <2>2. QED
      BY <1>2, <1>4, <1>7, <2>1 DEF ReportInv, Fits
  <1>9. announced => Agrees'
    BY <1>2, <1>3, <1>5, <1>6, <1>8 DEF Agrees, Busy, Publishing
  <1>10. QED
    BY <1>2, <1>3, <1>5, <1>6, <1>7, <1>9 DEF ReportInv

LEMMA RememberReportInv ==
    ASSUME ReportInv, TransitionInv', NEW t \in Tasks, Remember(t)
    PROVE  ReportInv'
  <1>1. TypeOK /\ Busy(t) /\ running /\ task[t].at = "remember"
    BY DEF ReportInv, TransitionInv, ServiceInv, Remember, Busy
  <1>2. UNCHANGED <<active, running, mqtt, view, undisturbed>>
    BY DEF Remember, NoteActivation, machine
  <1>3. (\A u \in Tasks \ {t} : task'[u] = task[u]) /\ task'[t].at = "idle"
    BY <1>1, Finished DEF Remember
  <1>4. undisturbed => Alone(t) /\ Fits(t)
    BY <1>1 DEF ReportInv, TransitionInv
  <1>5. \A u \in Tasks : task'[u].at # "idle" => task'[u] = task[u]
    BY <1>3
  <1>6. \A u \in Tasks : Publishing(u)' => Publishing(u)
    BY <1>5 DEF Publishing
  <1>7. \A u \in Tasks : undisturbed => ~Busy(u)' /\ ~Publishing(u)' /\ task'[u].at # "remember"
    BY <1>3, <1>4 DEF Alone, Busy, Publishing
  <1>8. mqtt # "off"
    BY <1>1 DEF ReportInv, Publishing
  <1>9. undisturbed => prev' = active
    BY <1>4 DEF Remember, Fits
  <1>10. ASSUME announced'
         PROVE  undisturbed /\ (mqtt = "live" => view \in {None, active})
    <2>1. CASE announced
      BY <1>1, <2>1 DEF ReportInv, Agrees
    <2>2. CASE undisturbed /\ mqtt = "live" /\ task[t].action = "play_manifest"
      BY <1>1, <1>4, <2>2 DEF ReportInv, Fits
    <2>3. QED
      BY <1>10, <2>1, <2>2 DEF Remember, NoteActivation
  <1>11. announced' => Agrees'
    BY <1>2, <1>7, <1>8, <1>9, <1>10 DEF Agrees, Publishing
  <1>12. QED
    BY <1>2, <1>5, <1>6, <1>7, <1>10, <1>11 DEF ReportInv

LEMMA FailureReportInv ==
    ASSUME ReportInv, TransitionInv', NEW t \in Tasks, RendererFails(t)
    PROVE  ReportInv'
  <1>1. TypeOK
    BY DEF ReportInv, TransitionInv, ServiceInv
  <1>2. ~undisturbed' /\ ~announced' /\ UNCHANGED mqtt
    BY DEF RendererFails, NoteFailure, events
  <1>3. \A u \in Tasks : Publishing(u)' => task'[u] = task[u]
    <2>1. CASE Exit
      BY <2>1 DEF Exit, IdleTask, Publishing
    <2>2. CASE ShowFallbackInstead(t)
      BY <1>1, <2>2 DEF ShowFallbackInstead, Publishing, TypeOK, TaskStates
    <2>3. CASE Finish(t)
      BY <1>1, <2>3, Finished DEF Publishing
    <2>4. QED
      BY <2>1, <2>2, <2>3 DEF RendererFails, TransitionFails
  <1>4. QED
    BY <1>2, <1>3 DEF ReportInv, Publishing

LEMMA ContinueReportInv ==
    ASSUME ReportInv, TransitionInv', NEW t \in Tasks, Continue(t)
    PROVE  ReportInv'
  <1>1. CASE LoadFile(t)
    BY <1>1, DrawReportInv DEF LoadFile, machine
  <1>2. CASE SetLoop(t)
    <2>1. t # "refresh"
      BY <1>2 DEF SetLoop, ReportInv, TransitionInv, Busy
    <2>2. QED
      BY <1>2, <2>1, DrawReportInv DEF SetLoop, machine
  <1>3. QED
    BY <1>1, <1>2, FailureReportInv, ReportReportInv, ActivatedReportInv, RememberReportInv
       DEF Continue

\* A transition that begins leaves the events for later.
LEMMA StartReportInv ==
    ASSUME ReportInv, TransitionInv', NEW t \in {"ws"} \cup Requests, NEW r, Starts(t, r)
    PROVE  ReportInv'
  <1>1. TypeOK /\ t \in Tasks
    BY DEF ReportInv, TransitionInv, ServiceInv, Tasks
  <1>2. UNCHANGED <<running, prev, mqtt, view>> /\ task[t].at = "idle" /\ running
    BY DEF Starts, Idle, Surroundings, display, events
  <1>3. (\A u \in Tasks \ {t} : task'[u] = task[u]) /\ task'[t].at \in {"idle", "load"}
    BY <1>1, Begun DEF Starts
  <1>4. \A u \in Tasks : /\ Publishing(u)' <=> Publishing(u)
                         /\ task'[u].at \in {"activated", "remember"} => task'[u] = task[u]
    BY <1>2, <1>3 DEF Publishing
  <1>5. CASE r.action = "hold"
    <2>1. task'[t].at = "idle" /\ UNCHANGED <<active, undisturbed, announced>>
      BY <1>1, <1>5, Begun DEF Starts, history
    <2>2. \A u \in Tasks : Busy(u)' <=> Busy(u)
      BY <1>2, <1>3, <2>1 DEF Busy
    <2>3. Agrees => Agrees'
      BY <1>2, <1>4, <2>1, <2>2 DEF Agrees
    <2>4. QED
      BY <1>2, <1>4, <2>1, <2>3 DEF ReportInv
  <1>6. CASE r.action # "hold"
    <2>1. /\ task'[t].at = "load"
          /\ undisturbed' = Alone(t)
          /\ announced' = (announced /\ Alone(t))
      BY <1>1, <1>6, Begun DEF Starts, NoteBegin
    <2>2. Busy(t)'
      BY <2>1 DEF Busy
    <2>3. ASSUME Alone(t), NEW u \in Tasks
          PROVE  task'[u].at \notin {"activated", "remember"}
      BY <1>3, <2>1, <2>3 DEF Alone
    <2>4. announced' => Agrees'
      BY <1>1, <1>2, <1>4, <2>1, <2>2, <2>3 DEF Agrees, ReportInv
    <2>5. undisturbed' => Alone(t)
      BY <2>1
    <2>6. announced' => undisturbed'
      BY <2>1
    <2>7. QED
      BY <1>2, <1>4, <2>3, <2>4, <2>5, <2>6 DEF ReportInv
  <1>7. QED
    BY <1>5, <1>6

LEMMA EnvironmentReportInv ==
    ASSUME ReportInv, TransitionInv', Environment
    PROVE  ReportInv'
  <1>1. CASE Tick \/ ContentEnds \/ MpvDies
    BY <1>1, SameReportInv DEF Tick, SM!Tick, SM!machineVars, ContentEnds, MpvDies, machine
  <1>2. CASE BrokerDrop
    BY <1>2 DEF BrokerDrop, ReportInv, Agrees, Busy, Publishing, machine, history
  <1>3. CASE ProcessDies
    <2>1. \A t \in Tasks : task'[t].at = "idle"
      BY <1>3 DEF ProcessDies, Exit, IdleTask
    <2>2. ~running' /\ UNCHANGED <<undisturbed, announced>>
      BY <1>3 DEF ProcessDies, Exit, history
    <2>3. QED
      BY <2>1, <2>2 DEF ReportInv, Publishing
  <1>4. CASE Restart
    <2>1. \A t \in Tasks : task'[t].at = "idle"
      BY <1>4 DEF Restart, ReportInv, TransitionInv, Busy
    <2>2. /\ prev' = None /\ active' = None /\ mqtt' = "off" /\ view' = view
          /\ undisturbed' /\ announced' = (view = None)
      BY <1>4 DEF Restart, SM!Reset, NoteRestart
    <2>3. announced' => Agrees'
      BY <2>1, <2>2 DEF Agrees
    <2>4. QED
      BY <2>1, <2>2, <2>3 DEF ReportInv, Publishing
  <1>5. QED
    BY <1>1, <1>2, <1>3, <1>4 DEF Environment

LEMMA NextReportInv == ReportInv /\ [Next]_vars => ReportInv'
  <1> SUFFICES ASSUME ReportInv, [Next]_vars
               PROVE  ReportInv'
    OBVIOUS
  <1>s. TransitionInv /\ TransitionInv' /\ ServiceInv /\ ServiceInv'
    BY NextTransitionInv DEF ReportInv, TransitionInv
  <1>1. CASE \E t \in Tasks : Continue(t)
    BY <1>1, <1>s, ContinueReportInv
  <1>2. CASE ConnectionLost \/ Commands
    BY <1>2, <1>s, CommandStarts, StartReportInv
  <1>3. CASE RefreshFallback
    BY <1>3, <1>s, RefreshNeverDraws, SameReportInv
       DEF RefreshFallback, ServiceInv, machine
  <1>4. CASE Connect \/ CleanClose
    BY <1>4, <1>s, SameReportInv DEF Connect, CleanClose, Surroundings, machine
  <1>5. CASE ConnectMqtt
    BY <1>5, <1>s DEF ConnectMqtt, ReportInv, Agrees, Busy, Publishing, machine, history
  <1>6. CASE Environment
    BY <1>6, <1>s, EnvironmentReportInv
  <1>7. CASE UNCHANGED vars
    BY <1>7, <1>s, SameReportInv DEF vars, machine
  <1>8. QED
    BY <1>1, <1>2, <1>3, <1>4, <1>5, <1>6, <1>7 DEF Next

\* From an activation that was delivered on, or from a start with no creative
\* announced, the delivered events name the creative that plays or none, as long
\* as transitions run one at a time and no message to mpv fails: for every number
\* of control requests and any faults, whenever the broker connection came up.
THEOREM ImpressionsAreAlwaysTrue == Spec => []ImpressionsAreTrue
  <1>1. ReportInv => ImpressionsAreTrue
    <2> SUFFICES ASSUME ReportInv, Settled, mqtt = "live", announced
                 PROVE  view \in {None, active}
      BY DEF ImpressionsAreTrue
    <2>1. \A t \in Tasks : ~Busy(t) /\ ~Publishing(t)
      BY DEF Settled, Busy, Publishing
    <2>2. Agrees
      BY DEF ReportInv, Settled
    <2>3. QED
      BY <2>1, <2>2 DEF Agrees
  <1>2. QED
    BY <1>1, InitReportInv, NextReportInv, PTL DEF Spec
-------------------------------------------------------------------------------
(***************************************************************************)
(* The process keeps the playback contract                                 *)
(***************************************************************************)

\* The tasks that walk through a transition leave the machine alone.
LEMMA ContinueLeavesMachine ==
    ASSUME NEW t \in Tasks, Continue(t)
    PROVE  UNCHANGED machine
  BY DEF Continue, LoadFile, SetLoop, RendererFails, Report, ReportActivated, Remember

\* Every step of the process is at most one step of the machine, or a new process.
LEMMA OneMachineStep ==
    ASSUME [Next]_vars
    PROVE  [P!Next]_P!vars \/ Restart
  <1>1. CASE UNCHANGED machine
    BY <1>1 DEF machine, P!vars
  <1>2. ASSUME NEW t \in Tasks, Continue(t) PROVE UNCHANGED machine
    BY <1>2, ContinueLeavesMachine
  <1>3. CASE Connect \/ CleanClose \/ RefreshFallback \/ ConnectMqtt
    BY <1>1, <1>3 DEF Connect, CleanClose, RefreshFallback, ConnectMqtt
  <1>4. CASE ConnectionLost \/ Commands
    BY <1>1, <1>4, HandlerCall, CallIsNext DEF RefuseActivation
  <1>5. CASE Environment
    <2>1. CASE Tick
      BY <2>1, CallIsNext DEF Tick
    <2>2. CASE ContentEnds \/ MpvDies \/ BrokerDrop \/ ProcessDies
      BY <1>1, <2>2 DEF ContentEnds, MpvDies, BrokerDrop, ProcessDies
    <2>3. QED
      BY <1>5, <2>1, <2>2 DEF Environment
  <1>6. CASE UNCHANGED vars
    BY <1>1, <1>6 DEF vars
  <1>7. QED
    BY <1>1, <1>2, <1>3, <1>4, <1>5, <1>6 DEF Next

\* Whatever tasks, requests and faults interleave, the machine inside the process
\* keeps dwell, cooldown, freeze and safe mode as the contract has them, from one
\* start of the process to the next; a new process owes nothing any more.
THEOREM ProcessKeepsContract ==
    Spec => P!Contract!Init /\ [][P!Contract!Next \/ Restart]_P!Contract!contractVars
  <1>1. Init => P!Contract!Init
    BY SameInit, SameConstants, P!InitImplements DEF Init
  <1>2. ServiceInv /\ [Next]_vars => [P!Contract!Next \/ Restart]_P!Contract!contractVars
    BY OneMachineStep, SameConstants, P!NextImplements DEF ServiceInv
  <1>3. QED
    BY <1>1, <1>2, InitServiceInv, NextServiceInv, PTL DEF Spec

\* A process that is not killed, with an mpv that is not and answers, is never
\* replaced.
Alive == running /\ mpvUp

LEMMA StaysAlive ==
    ASSUME Faults \cap {"process_death", "mpv_death", "ipc"} = {}, Alive, [Next]_vars
    PROVE  Alive'
  <1>0. UNCHANGED <<running, mpvUp>> => Alive'
    BY Zenon DEF Alive
  <1>1. ASSUME NEW t \in Tasks, Continue(t) PROVE Alive'
    BY <1>1 DEF Alive, Continue, LoadFile, SetLoop, RendererFails, Report, ReportActivated,
       Remember, display
  <1>2. CASE ConnectionLost \/ Commands
    <2>1. UNCHANGED Surroundings
      BY <1>2, HandlerCall
    <2>2. UNCHANGED <<running, mpvUp>>
      BY <2>1 DEF Surroundings, display
    <2>3. QED
      BY <1>0, <2>2
  <1>3. CASE Connect \/ CleanClose \/ RefreshFallback \/ ConnectMqtt
    <2>1. UNCHANGED <<running, mpvUp>>
      BY <1>3 DEF Connect, CleanClose, RefreshFallback, ConnectMqtt, Surroundings,
         display
    <2>2. QED
      BY <1>0, <2>1
  <1>4. CASE Environment
    BY <1>4 DEF Alive, Environment, Tick, ContentEnds, MpvDies,
       BrokerDrop, ProcessDies, Restart, display
  <1>5. CASE UNCHANGED vars
    <2>1. UNCHANGED <<running, mpvUp>>
      BY <1>5 DEF vars, display
    <2>2. QED
      BY <1>0, <2>1
  <1>6. QED
    BY <1>1, <1>2, <1>3, <1>4, <1>5 DEF Next

\* A living process is not restarted.
LEMMA NoRestart == Alive => ~Restart
  BY DEF Alive, Restart

\* The two instances see the same contract.
LEMMA SameContract ==
    /\ P!Contract!Init <=> SM!Contract!Init
    /\ [P!Contract!Next]_P!Contract!contractVars <=> [SM!Contract!Next]_SM!Contract!contractVars
  <1>1. /\ P!DwellLeft = SM!DwellLeft /\ P!CoolDue = SM!CoolDue /\ P!CoolLeft = SM!CoolLeft
        /\ P!DwellLeft' = SM!DwellLeft' /\ P!CoolDue' = SM!CoolDue' /\ P!CoolLeft' = SM!CoolLeft'
    BY DEF P!DwellLeft, SM!DwellLeft, P!CoolDue, SM!CoolDue, P!CoolLeft, SM!CoolLeft, P!Left, SM!Left
  <1>2. P!Contract!Init <=> SM!Contract!Init
    BY <1>1 DEF P!Contract!Init, SM!Contract!Init
  <1>3. UNCHANGED P!Contract!contractVars <=> UNCHANGED SM!Contract!contractVars
    BY <1>1 DEF P!Contract!contractVars, SM!Contract!contractVars
  <1>4. /\ \A m, d, c : P!Contract!Start(m, d, c) <=> SM!Contract!Start(m, d, c)
        /\ \A lock : P!Contract!FallBack(lock) <=> SM!Contract!FallBack(lock)
    BY <1>1 DEF P!Contract!Start, SM!Contract!Start, P!Contract!AfterEnd, SM!Contract!AfterEnd,
       P!Contract!FallBack, SM!Contract!FallBack
  <1>5. /\ P!Contract!Hold <=> SM!Contract!Hold
        /\ P!Contract!Unlock <=> SM!Contract!Unlock
        /\ P!Contract!Elapse <=> SM!Contract!Elapse
    BY <1>1 DEF P!Contract!Hold, SM!Contract!Hold, P!Contract!Unlock, SM!Contract!Unlock,
       P!Contract!Elapse, SM!Contract!Elapse, P!Contract!Pred, SM!Contract!Pred
  <1>6. QED
    BY <1>2, <1>3, <1>4, <1>5 DEF P!Contract!Next, SM!Contract!Next

\* Where the process is not killed and no message to mpv fails, the process with
\* its concurrent tasks implements the playback contract, for every other fault.
THEOREM LivingProcessImplementsContract ==
    ASSUME Faults \cap {"process_death", "mpv_death", "ipc"} = {}
    PROVE  Spec => SM!ImplementsContract
  <1>1. Init => P!Contract!Init /\ Alive
    BY SameInit, SameConstants, P!InitImplements DEF Init, Alive
  <1>2. ServiceInv /\ Alive /\ [Next]_vars => [P!Contract!Next]_P!Contract!contractVars /\ Alive'
    BY OneMachineStep, SameConstants, StaysAlive, NoRestart, P!NextImplements DEF ServiceInv
  <1>3. QED
    BY <1>1, <1>2, SameContract, InitServiceInv, NextServiceInv, PTL
       DEF Spec, SM!ImplementsContract, SM!Contract!Spec
===============================================================================
