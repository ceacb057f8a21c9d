----------------------- MODULE PlayerStateMachineProofs -----------------------
(***************************************************************************)
(* Proofs about PlayerStateMachine, for every set of manifests, dwells and *)
(* cooldowns: type correctness, the agreement of mode and content, that    *)
(* cooldowns are served, and that the machine implements PlaybackContract. *)
(***************************************************************************)
EXTENDS PlayerStateMachine, TLAPS

USE ConstantsAssumption

-------------------------------------------------------------------------------
(***************************************************************************)
(* Type correctness                                                        *)
(***************************************************************************)

\* Recording a cooldown keeps the table of cooldowns well formed.
LEMMA CooldownsRecordedType ==
    ASSUME TypeOK
    PROVE  CooldownsRecorded \in [Manifests -> [at : Nat, ms : Nat]]
  BY DEF TypeOK, CooldownsRecorded

LEMMA InitTypeOK == Init => TypeOK
  BY DEF Init, TypeOK, States, TransitionResult, Actions

\* A result that reports a state of the machine is a TransitionResult.
LEMMA ReturnType ==
    ASSUME NEW ok \in BOOLEAN, NEW act \in Actions,
           NEW manifest \in Manifests \cup {None},
           state' \in States, Return(ok, act, manifest)
    PROVE  result' \in TransitionResult
  BY DEF Return, TransitionResult

\* A rejection changes nothing but the result.
LEMMA RejectedTypeOK ==
    ASSUME TypeOK, NEW act \in Actions, NEW manifest \in Manifests \cup {None},
           Rejected(act, manifest), UNCHANGED now
    PROVE  TypeOK'
  <1>1. UNCHANGED machineVars /\ Return(FALSE, act, manifest)
    BY DEF Rejected
  <1>2. state' \in States
    BY <1>1 DEF TypeOK, machineVars
  <1>3. result' \in TransitionResult
    BY <1>1, <1>2, ReturnType
  <1>4. QED
    BY <1>1, <1>3 DEF TypeOK, machineVars

\* Every method keeps every variable in its range.
LEMMA NextTypeOK == TypeOK /\ [Next]_vars => TypeOK'
  <1> SUFFICES ASSUME TypeOK, [Next]_vars
               PROVE  TypeOK'
    OBVIOUS
  <1>a. /\ None \in Manifests \cup {None}
        /\ active \in Manifests \cup {None}
        /\ {"hold", "show_fallback", "play_manifest"} \subseteq Actions
        /\ {TRUE, FALSE} \subseteq BOOLEAN
    BY DEF TypeOK, Actions
  <1>1. ASSUME NEW m \in Manifests, NEW d \in DwellTimes, NEW c \in CooldownTimes,
               OnActivateCreative(m, d, c)
        PROVE  TypeOK'
    <2>1. CASE ActivateInSafeMode
      BY <2>1, <1>a, RejectedTypeOK DEF ActivateInSafeMode
    <2>2. CASE ActivateBeforeDwell
      BY <2>2, <1>a, RejectedTypeOK DEF ActivateBeforeDwell
    <2>3. CASE ActivateInCooldown(m)
      BY <2>3, <1>a, RejectedTypeOK DEF ActivateInCooldown
    <2>4. CASE Activate(m, d, c)
      <3>1. state' \in States
        BY <2>4 DEF Activate, States
      <3>2. result' \in TransitionResult
        BY <2>4, <3>1, <1>a, ReturnType DEF Activate
      <3>3. QED
        BY <2>4, <3>1, <3>2, CooldownsRecordedType DEF Activate, TypeOK
    <2>5. QED
      BY <1>1, <2>1, <2>2, <2>3, <2>4 DEF OnActivateCreative
  <1>2. CASE OnFreeze
    <2>1. CASE FreezeNothing
      BY <2>1, <1>a, RejectedTypeOK DEF FreezeNothing
    <2>2. CASE FreezeCreative
      <3>1. state' \in States
        BY <2>2 DEF FreezeCreative, States
      <3>2. result' \in TransitionResult
        BY <2>2, <3>1, <1>a, ReturnType DEF FreezeCreative
      <3>3. QED
        BY <2>2, <3>1, <3>2 DEF FreezeCreative, TypeOK, timerVars
    <2>3. QED
      BY <1>2, <2>1, <2>2 DEF OnFreeze
  <1>3. CASE OnSafeMode
    <2>1. state' \in States
      BY <1>3 DEF OnSafeMode, States
    <2>2. result' \in TransitionResult
      BY <1>3, <2>1, <1>a, ReturnType DEF OnSafeMode
    <2>3. QED
      BY <1>3, <2>1, <2>2, CooldownsRecordedType DEF OnSafeMode, Deactivate, TypeOK
  <1>4. CASE OnClearSafeMode
    <2>1. CASE ClearNothing
      BY <2>1, <1>a, RejectedTypeOK DEF ClearNothing
    <2>2. CASE ClearSafeMode
      <3>1. state' \in States
        BY <2>2 DEF ClearSafeMode, States
      <3>2. result' \in TransitionResult
        BY <2>2, <3>1, <1>a, ReturnType DEF ClearSafeMode
      <3>3. QED
        BY <2>2, <3>1, <3>2 DEF ClearSafeMode, TypeOK, timerVars
    <2>3. QED
      BY <1>4, <2>1, <2>2 DEF OnClearSafeMode
  <1>5. CASE OnConnectionLost
    <2>1. CASE LoseConnectionInSafeMode
      <3>1. state' \in States
        BY <2>1 DEF LoseConnectionInSafeMode, TypeOK, machineVars
      <3>2. result' \in TransitionResult
        BY <2>1, <3>1, <1>a, ReturnType DEF LoseConnectionInSafeMode
      <3>3. QED
        BY <2>1, <3>1, <3>2 DEF LoseConnectionInSafeMode, TypeOK, machineVars
    <2>2. CASE LoseConnection
      <3>1. state' \in States
        BY <2>2 DEF LoseConnection, States
      <3>2. result' \in TransitionResult
        BY <2>2, <3>1, <1>a, ReturnType DEF LoseConnection
      <3>3. QED
        BY <2>2, <3>1, <3>2, CooldownsRecordedType
           DEF LoseConnection, Deactivate, TypeOK
    <2>3. QED
      BY <1>5, <2>1, <2>2 DEF OnConnectionLost
  <1>6. CASE Tick
    BY <1>6 DEF Tick, TypeOK, machineVars
  <1>7. CASE UNCHANGED vars
    BY <1>7 DEF vars, TypeOK
  <1>8. QED
    BY <1>1, <1>2, <1>3, <1>4, <1>5, <1>6, <1>7 DEF Next

\* Every variable of the state machine stays in its range.
THEOREM TypeCorrect == Spec => []TypeOK
  <1>1. QED
    BY InitTypeOK, NextTypeOK, PTL DEF Spec
-------------------------------------------------------------------------------
(***************************************************************************)
(* Mode, content and cooldowns.  CooldownServed is not inductive alone: a  *)
(* manifest that is active must have an activation time, which is what     *)
(* ModeMatchesContent adds.                                                *)
(***************************************************************************)
MachineInv == TypeOK /\ ModeMatchesContent /\ CooldownServed

\* A step that leaves the machine's own variables alone leaves MachineInv alone.
LEMMA UnchangedKeepsInv ==
    ASSUME ModeMatchesContent, CooldownServed, UNCHANGED machineVars
    PROVE  ModeMatchesContent' /\ CooldownServed'
  BY DEF machineVars, ModeMatchesContent, CooldownServed

\* A step to a state without a manifest satisfies both parts.
LEMMA DeactivateEstablishesInv ==
    ASSUME Deactivate, state' \in {"fallback", "safe_mode"}
    PROVE  ModeMatchesContent' /\ CooldownServed'
  BY DEF Deactivate, ModeMatchesContent, CooldownServed

LEMMA ActivateKeepsInv ==
    ASSUME MachineInv, NEW m \in Manifests, NEW d \in DwellTimes,
           NEW c \in CooldownTimes, Activate(m, d, c)
    PROVE  ModeMatchesContent' /\ CooldownServed'
  <1> USE DEF MachineInv
  <1>1. /\ state' = "active" /\ active' = m /\ activatedAt' = now
        /\ cooldowns' = CooldownsRecorded /\ ~InCooldown(m)
    BY DEF Activate
  <1>2. now \in Nat /\ now # None /\ m # None
    BY DEF TypeOK
  <1>3. ModeMatchesContent'
    BY <1>1, <1>2 DEF ModeMatchesContent
  <1>4. CASE active = m
    <2>1. cooldowns'[m].at = now
      BY <1>1, <1>2, <1>4 DEF CooldownsRecorded, TypeOK
    <2>2. QED
      BY <1>1, <1>3, <2>1 DEF CooldownServed
  <1>5. CASE active # m
    <2>1. cooldowns'[m] = cooldowns[m]
      BY <1>1, <1>5 DEF CooldownsRecorded, TypeOK
    <2>2. cooldowns[m].at \in Nat /\ cooldowns[m].ms \in Nat
      BY DEF TypeOK
    <2>3. cooldowns[m].at + cooldowns[m].ms <= now
      BY <1>1, <1>2, <2>2 DEF InCooldown
    <2>4. QED
      BY <1>1, <1>3, <2>1, <2>3 DEF CooldownServed
  <1>6. QED
    BY <1>4, <1>5

LEMMA InitMachineInv == Init => MachineInv
  BY InitTypeOK DEF Init, MachineInv, ModeMatchesContent, CooldownServed

LEMMA NextMachineInv == MachineInv /\ [Next]_vars => MachineInv'
  <1> SUFFICES ASSUME MachineInv, [Next]_vars
               PROVE  ModeMatchesContent' /\ CooldownServed'
    BY NextTypeOK DEF MachineInv
  <1> USE DEF MachineInv
  <1>1. ASSUME NEW m \in Manifests, NEW d \in DwellTimes, NEW c \in CooldownTimes,
               OnActivateCreative(m, d, c)
        PROVE  ModeMatchesContent' /\ CooldownServed'
    BY <1>1, ActivateKeepsInv, UnchangedKeepsInv
       DEF OnActivateCreative, ActivateInSafeMode, ActivateBeforeDwell,
           ActivateInCooldown, Rejected
  <1>2. CASE OnFreeze
    <2>1. CASE FreezeNothing
      BY <2>1, UnchangedKeepsInv DEF FreezeNothing, Rejected
    <2>2. CASE FreezeCreative
      BY <2>2 DEF FreezeCreative, timerVars, ModeMatchesContent, CooldownServed
    <2>3. QED
      BY <1>2, <2>1, <2>2 DEF OnFreeze
  <1>3. CASE OnSafeMode
    BY <1>3, DeactivateEstablishesInv DEF OnSafeMode
  <1>4. CASE OnClearSafeMode
    <2>1. CASE ClearNothing
      BY <2>1, UnchangedKeepsInv DEF ClearNothing, Rejected
    <2>2. CASE ClearSafeMode
      BY <2>2 DEF ClearSafeMode, timerVars, ModeMatchesContent, CooldownServed
    <2>3. QED
      BY <1>4, <2>1, <2>2 DEF OnClearSafeMode
  <1>5. CASE OnConnectionLost
    BY <1>5, DeactivateEstablishesInv, UnchangedKeepsInv
       DEF OnConnectionLost, LoseConnectionInSafeMode, LoseConnection
  <1>6. CASE Tick
    BY <1>6, UnchangedKeepsInv DEF Tick
  <1>7. CASE UNCHANGED vars
    BY <1>7, UnchangedKeepsInv DEF vars, machineVars
  <1>8. QED
    BY <1>1, <1>2, <1>3, <1>4, <1>5, <1>6, <1>7 DEF Next

\* A manifest is held exactly in ACTIVE and FROZEN, with an activation time.
THEOREM ModeAlwaysMatchesContent == Spec => []ModeMatchesContent
  <1>1. MachineInv => ModeMatchesContent
    BY DEF MachineInv
  <1>2. QED
    BY <1>1, InitMachineInv, NextMachineInv, PTL DEF Spec

\* No creative is activated before the cooldown of its last showing ran out.
THEOREM CooldownAlwaysServed == Spec => []CooldownServed
  <1>1. MachineInv => CooldownServed
    BY DEF MachineInv
  <1>2. QED
    BY <1>1, InitMachineInv, NextMachineInv, PTL DEF Spec
-------------------------------------------------------------------------------
(***************************************************************************)
(* PlayerStateMachine implements PlaybackContract.  An accepted activation *)
(* is a Start, a freeze of a creative a Hold, safe mode and a lost         *)
(* connection a FallBack, a clear an Unlock, a tick of the clock Elapse;   *)
(* what is rejected changes nothing the contract sees.                     *)
(***************************************************************************)

LEMMA ElapsedMeansNoDwellLeft ==
    ASSUME MachineInv, DwellElapsed
    PROVE  DwellLeft = 0
  BY DEF MachineInv, TypeOK, DwellElapsed, DwellLeft, Left

LEMMA CooledMeansNoneLeft ==
    ASSUME MachineInv, NEW m \in Manifests, ~InCooldown(m)
    PROVE  CoolLeft[m] = 0
  BY DEF MachineInv, TypeOK, InCooldown, CoolLeft, Left

\* Recording the cooldown of the active manifest is what the contract calls
\* the end of a showing, for every manifest but the one that plays next.
LEMMA RecordedIsAfterEnd ==
    ASSUME MachineInv, cooldowns' = CooldownsRecorded, UNCHANGED now,
           active' \in Manifests \cup {None},
           active' # None => CoolLeft[active'] = 0
    PROVE  CoolLeft' = Contract!AfterEnd(active')
  <1>1. SUFFICES ASSUME NEW m \in Manifests
                 PROVE  (IF m = active' THEN 0
                         ELSE Left(cooldowns[m].at, cooldowns[m].ms)')
                        = IF m = active /\ m # active' THEN CoolDue ELSE CoolLeft[m]
    BY DEF CoolLeft, Contract!AfterEnd
  <1>2. /\ now \in Nat /\ cooldownForActive \in Nat
        /\ cooldowns \in [Manifests -> [at : Nat, ms : Nat]]
    BY DEF MachineInv, TypeOK
  <1>3. CASE m = active'
    BY <1>3
  <1>4. CASE m # active' /\ m = active
    <2>1. cooldowns'[m] = [at |-> now, ms |-> cooldownForActive]
      BY <1>2, <1>4 DEF CooldownsRecorded
    <2>2. Left(cooldowns[m].at, cooldowns[m].ms)' = cooldownForActive
      BY <1>2, <2>1 DEF Left
    <2>3. QED
      BY <1>4, <2>2 DEF CoolDue
  <1>5. CASE m # active' /\ m # active
    <2>1. cooldowns'[m] = cooldowns[m]
      BY <1>2, <1>5 DEF CooldownsRecorded
    <2>2. QED
      BY <1>5, <2>1 DEF CoolLeft, Left
  <1>6. QED
    BY <1>3, <1>4, <1>5

LEMMA ActivateIsStart ==
    ASSUME MachineInv, NEW m \in Manifests, NEW d \in DwellTimes,
           NEW c \in CooldownTimes, Activate(m, d, c)
    PROVE  Contract!Start(m, d, c)
  <1> USE DEF Activate
  <1>1. active = None \/ state = "frozen" \/ DwellLeft = 0
    BY ElapsedMeansNoDwellLeft
       DEF MayConsider, MachineInv, ModeMatchesContent, TypeOK, States
  <1>2. CoolLeft[m] = 0
    BY CooledMeansNoneLeft
  <1>3. DwellLeft' = d
    BY DEF DwellLeft, Left, MachineInv, TypeOK
  <1>4. CoolDue' = c
    BY DEF CoolDue
  <1>5. CoolLeft' = Contract!AfterEnd(m)
    BY <1>2, RecordedIsAfterEnd
  <1>6. QED
    BY <1>1, <1>2, <1>3, <1>4, <1>5 DEF Contract!Start, MayConsider

LEMMA DeactivateIsFallBack ==
    ASSUME MachineInv, Deactivate, state' \in {"fallback", "safe_mode"},
           state = "safe_mode" => state' = "safe_mode"
    PROVE  Contract!FallBack(state' = "safe_mode")
  <1>1. DwellLeft' = 0 /\ CoolDue' = 0
    BY DEF Deactivate, DwellLeft, CoolDue
  <1>2. CoolLeft' = Contract!AfterEnd(None)
    BY RecordedIsAfterEnd DEF Deactivate
  <1>3. QED
    BY <1>1, <1>2 DEF Contract!FallBack, Deactivate

\* A step that leaves the machine's variables and the clock alone is invisible.
LEMMA UnchangedIsStutter ==
    ASSUME UNCHANGED machineVars, UNCHANGED now
    PROVE  UNCHANGED Contract!contractVars
  BY DEF machineVars, Contract!contractVars, DwellLeft, CoolDue, CoolLeft, Left

\* Freezing and clearing safe mode change the mode only.
LEMMA ModeOnlyStep ==
    ASSUME UNCHANGED <<active, timerVars, now>>
    PROVE  UNCHANGED <<active, DwellLeft, CoolDue, CoolLeft>>
  BY DEF timerVars, DwellLeft, CoolDue, CoolLeft, Left

LEMMA TickIsElapse ==
    ASSUME MachineInv, Tick
    PROVE  Contract!Elapse
  <1> USE DEF MachineInv, TypeOK, Tick, machineVars
  <1>1. ASSUME NEW at \in Nat, NEW ms \in Nat
        PROVE  (IF now' - at < ms THEN ms - (now' - at) ELSE 0)
               = Contract!Pred(Left(at, ms))
    BY DEF Left, Contract!Pred
  <1>2. DwellLeft' = Contract!Pred(DwellLeft)
    BY <1>1 DEF DwellLeft, Left, Contract!Pred
  <1>3. ASSUME NEW m \in Manifests
        PROVE  (IF m = active' THEN 0
                ELSE Left(cooldowns[m].at, cooldowns[m].ms)')
               = Contract!Pred(CoolLeft[m])
    BY <1>1 DEF CoolLeft, Left, Contract!Pred
  <1>4. CoolLeft' = [m \in Manifests |-> Contract!Pred(CoolLeft[m])]
    BY <1>3 DEF CoolLeft
  <1>5. CoolDue' = CoolDue
    BY DEF CoolDue
  <1>6. QED
    BY <1>2, <1>4, <1>5 DEF Contract!Elapse

LEMMA InitImplements == Init => Contract!Init
  BY DEF Init, Contract!Init, DwellLeft, CoolDue, CoolLeft, Left

LEMMA NextImplements ==
    MachineInv /\ [Next]_vars => [Contract!Next]_Contract!contractVars
  <1> SUFFICES ASSUME MachineInv, [Next]_vars
               PROVE  Contract!Next \/ UNCHANGED Contract!contractVars
    OBVIOUS
  <1>1. ASSUME NEW m \in Manifests, NEW d \in DwellTimes, NEW c \in CooldownTimes,
               OnActivateCreative(m, d, c)
        PROVE  Contract!Next \/ UNCHANGED Contract!contractVars
    <2>1. CASE Activate(m, d, c)
      BY <2>1, ActivateIsStart DEF Contract!Next
    <2>2. CASE ActivateInSafeMode \/ ActivateBeforeDwell \/ ActivateInCooldown(m)
      BY <2>2, UnchangedIsStutter
         DEF ActivateInSafeMode, ActivateBeforeDwell, ActivateInCooldown, Rejected
    <2>3. QED
      BY <1>1, <2>1, <2>2 DEF OnActivateCreative
  <1>2. CASE OnFreeze
    <2>1. CASE FreezeNothing
      BY <2>1, UnchangedIsStutter DEF FreezeNothing, Rejected
    <2>2. CASE FreezeCreative
      <3>1. Contract!Hold
        BY <2>2, ModeOnlyStep
           DEF FreezeCreative, Contract!Hold, MachineInv, ModeMatchesContent
      <3>2. QED
        BY <3>1 DEF Contract!Next
    <2>3. QED
      BY <1>2, <2>1, <2>2 DEF OnFreeze
  <1>3. CASE OnSafeMode
    BY <1>3, DeactivateIsFallBack DEF OnSafeMode, Contract!Next
  <1>4. CASE OnClearSafeMode
    <2>1. CASE ClearNothing
      BY <2>1, UnchangedIsStutter DEF ClearNothing, Rejected
    <2>2. CASE ClearSafeMode
      <3>1. Contract!Unlock
        BY <2>2, ModeOnlyStep DEF ClearSafeMode, Contract!Unlock
      <3>2. QED
        BY <3>1 DEF Contract!Next
    <2>3. QED
      BY <1>4, <2>1, <2>2 DEF OnClearSafeMode
  <1>5. CASE OnConnectionLost
    <2>1. CASE LoseConnectionInSafeMode
      BY <2>1, UnchangedIsStutter DEF LoseConnectionInSafeMode
    <2>2. CASE LoseConnection
      BY <2>2, DeactivateIsFallBack DEF LoseConnection, Contract!Next
    <2>3. QED
      BY <1>5, <2>1, <2>2 DEF OnConnectionLost
  <1>6. CASE Tick
    BY <1>6, TickIsElapse DEF Contract!Next
  <1>7. CASE UNCHANGED vars
    BY <1>7, UnchangedIsStutter DEF vars, machineVars
  <1>8. QED
    BY <1>1, <1>2, <1>3, <1>4, <1>5, <1>6, <1>7 DEF Next

\* The time-stamping machine keeps the dwell, cooldown, freeze and safe-mode
\* promises of PlaybackContract in every behaviour.
THEOREM MachineImplementsContract == Spec => ImplementsContract
  <1>1. QED
    BY InitImplements, NextImplements, InitMachineInv, NextMachineInv, PTL
       DEF Spec, ImplementsContract, Contract!Spec
===============================================================================
