-------------------------- MODULE DecisionLoopProofs --------------------------
(***************************************************************************)
(* Proofs about DecisionLoop, for every set of manifests, audiences and    *)
(* rules, every dwell and cooldown and every length of the wire: type      *)
(* correctness, what is on its way agrees with what the loop believes, and *)
(* without close handshakes a player believed frozen is not playing on.    *)
(***************************************************************************)
EXTENDS DecisionLoop, SequenceTheorems, TLAPS

USE LoopAssumption, NoneAssumption

-------------------------------------------------------------------------------
(***************************************************************************)
(* The command stream                                                      *)
(***************************************************************************)
Last == wire[Len(wire)]

\* The command that made the loop believe what it believes.
Believed == IF playerFrozen THEN Freeze ELSE ActivateCommand(current)

InputsInv == policy \in Policies /\ signal \in Signals \cup {None}

Types ==
    /\ wire \in Seq(Commands)
    /\ sending \in Commands \cup {None}
    /\ current \in Manifests \cup {None}
    /\ playerFrozen \in BOOLEAN
    /\ link \in {"down", "open", "broken", "closed"}

\* A session the gateway knows is open, and one it does not know carries nothing.
SessionInv ==
    /\ registered => link = "open"
    /\ ~registered /\ link \in {"open", "down"} => wire = << >>

\* A command is sent only to a player that is not believed frozen any more, or
\* not yet.
SendingInv == sending # None => ~playerFrozen

\* Between two sends the last command on its way is the one that is believed.
LastIsBelieved == registered /\ wire # << >> /\ sending = None => Last = Believed

StreamInv == Types /\ SessionInv /\ SendingInv /\ LastIsBelieved

\* A freeze is not taken for an activation.
LEMMA FreezeIsNoActivation ==
    /\ \A m : ActivateCommand(m) # Freeze
    /\ \A m : ActivateCommand(m).manifest = m
    /\ Freeze \in Commands
    /\ \A m \in Manifests : ActivateCommand(m) \in Commands
    /\ \A c \in Commands : c # Freeze => c.manifest \in Manifests /\ c = ActivateCommand(c.manifest)
  <1>1. \A m : ActivateCommand(m) # Freeze
    BY DEF ActivateCommand, Freeze
  <1>2. \A m : ActivateCommand(m).manifest = m
    BY DEF ActivateCommand
  <1>3. QED
    BY <1>1, <1>2 DEF Commands

\* Nothing was sent to the player that is connected at the start.
LEMMA InitStream == Init => StreamInv
  <1> SUFFICES ASSUME Init PROVE StreamInv
    OBVIOUS
  <1>1. wire = << >> /\ sending = None /\ current = None /\ playerFrozen = FALSE
        /\ registered /\ link = "open"
    BY DEF Init
  <1>2. Types
    BY <1>1, EmptySeq DEF Types
  <1>3. QED
    BY <1>1, <1>2 DEF StreamInv, SessionInv, SendingInv, LastIsBelieved

\* A command that is sent is believed when nobody is connected, else awaited.
LEMMA BroadcastStream ==
    ASSUME StreamInv, sending = None, NEW c \in Commands, Broadcast(c),
           c = Freeze => ~playerFrozen,
           UNCHANGED <<machine, inputs, session>>
    PROVE  StreamInv'
  <1> USE DEF StreamInv, session
  <1>1. CASE registered
    <2>1. sending' = c /\ playerFrozen' = FALSE /\ current' = current /\ c # None
      BY <1>1 DEF Broadcast, Types
    <2>2. QED
      BY <1>1, <2>1 DEF Types, SessionInv, SendingInv, LastIsBelieved
  <1>2. CASE ~registered
    <2>1. Believe(c) /\ sending' = sending
      BY <1>2 DEF Broadcast
    <2>2. current' \in Manifests \cup {None} /\ playerFrozen' \in BOOLEAN
      BY <2>1, FreezeIsNoActivation DEF Believe, Types
    <2>3. QED
      BY <1>2, <2>1, <2>2 DEF Types, SessionInv, SendingInv, LastIsBelieved
  <1>3. QED
    BY <1>1, <1>2

\* The rules and the signals are those there can be.
LEMMA NextInputs == InputsInv /\ [Next]_vars => InputsInv'
  <1> SUFFICES ASSUME InputsInv, [Next]_vars PROVE InputsInv'
    OBVIOUS
  <1>1. CASE UNCHANGED <<policy, signal>>
    BY <1>1 DEF InputsInv
  <1>2. ASSUME NEW s \in Signals, ReceiveSignal(s) PROVE InputsInv'
    BY <1>2 DEF ReceiveSignal, InputsInv
  <1>3. ASSUME NEW p \in Policies, ReloadPolicy(p) PROVE InputsInv'
    BY <1>3 DEF ReloadPolicy, InputsInv
  <1>4. CASE OptimizerRestarts
    BY <1>4 DEF OptimizerRestarts, InputsInv
  <1>5. CASE Tick \/ Sent \/ Receive
    BY <1>1, <1>5 DEF Tick, Sent, Receive, inputs
  <1>6. CASE Connect \/ Register \/ EndSession \/ Break \/ PlayerRestarts
    BY <1>1, <1>6 DEF Connect, Register, EndSession, Break, PlayerRestarts, inputs
  <1>7. CASE SignalAges \/ ControlRequest \/ TimePasses \/ UNCHANGED vars
    BY <1>1, <1>7 DEF SignalAges, ControlRequest, TimePasses, inputs, vars
  <1>8. QED
    BY <1>2, <1>3, <1>4, <1>5, <1>6, <1>7 DEF Next

\* The rules answer a signal with a manifest or with nothing.
LEMMA CandidateType ==
    ASSUME InputsInv, signal # None
    PROVE  Candidate \in Manifests \cup {None}
  <1>1. signal.audience \in Audiences
    BY DEF InputsInv, Signals
  <1>2. policy \in [Audiences -> Manifests \cup {None}]
    BY DEF InputsInv
  <1>3. QED
    BY <1>1, <1>2 DEF Candidate

\* A tick sends a freeze only to a player not believed frozen.
LEMMA TickStream ==
    ASSUME InputsInv, StreamInv, Tick
    PROVE  StreamInv'
  <1>1. CASE FreezeDue /\ ~playerFrozen /\ Broadcast(Freeze)
    BY <1>1, BroadcastStream, FreezeIsNoActivation DEF Tick
  <1>2. CASE /\ ~FreezeDue /\ Candidate # None
             /\ Broadcast(ActivateCommand(Candidate))
    <2>1. Candidate \in Manifests
      BY <1>2, CandidateType DEF Tick, StreamInv
    <2>2. QED
      BY <1>2, <2>1, BroadcastStream, FreezeIsNoActivation DEF Tick
  <1>3. QED
    BY <1>1, <1>2 DEF Tick

\* After the send the loop believes what it sent, received or not.
LEMMA SentStream ==
    ASSUME StreamInv, Sent
    PROVE  StreamInv'
  <1> USE DEF StreamInv
  <1>1. /\ sending # None /\ sending \in Commands /\ Believe(sending) /\ sending' = None
        /\ UNCHANGED <<link, registered>>
    BY DEF Sent, Types
  <1>2. /\ current' \in Manifests \cup {None} /\ playerFrozen' \in BOOLEAN
        /\ sending = Believed'
    <2>1. CASE sending = Freeze
      BY <1>1, <2>1 DEF Believe, Believed, Types
    <2>2. CASE sending # Freeze
      BY <1>1, <2>2, FreezeIsNoActivation DEF Believe, Believed
    <2>3. QED
      BY <2>1, <2>2
  <1>3. CASE registered /\ wire' = Append(wire, sending)
    <2>1. wire' \in Seq(Commands) /\ Last' = sending
      BY <1>1, <1>3, AppendProperties DEF Types, Last
    <2>2. QED
      BY <1>1, <1>2, <1>3, <2>1 DEF Types, SessionInv, SendingInv, LastIsBelieved
  <1>4. CASE ~registered /\ UNCHANGED wire
    BY <1>1, <1>2, <1>4 DEF Types, SessionInv, SendingInv, LastIsBelieved
  <1>5. QED
    BY <1>3, <1>4 DEF Sent

\* What the player takes off the wire is not what was sent last, unless it was all.
LEMMA ReceiveStream ==
    ASSUME StreamInv, Receive
    PROVE  StreamInv'
  <1> USE DEF StreamInv
  <1>1. /\ wire # << >> /\ link # "down" /\ wire' = Tail(wire)
        /\ UNCHANGED <<beliefs, sending, link, registered>>
    BY DEF Receive
  <1>2. /\ wire' \in Seq(Commands)
        /\ wire' # << >> => Last' = Last
    <2>1. /\ Tail(wire) \in Seq(Commands) /\ Len(Tail(wire)) = Len(wire) - 1
          /\ \A i \in 1..Len(Tail(wire)) : Tail(wire)[i] = wire[i + 1]
          /\ Len(wire) \in Nat
      BY <1>1, HeadTailProperties, LenProperties DEF Types
    <2>2. ASSUME Tail(wire) # << >> PROVE Tail(wire)[Len(Tail(wire))] = wire[Len(wire)]
      <3>1. Len(Tail(wire)) \in 1..Len(Tail(wire))
        BY <2>1, <2>2, EmptySeq
      <3>2. Len(Tail(wire)) + 1 = Len(wire)
        BY <2>1
      <3>3. QED
        BY <2>1, <3>1, <3>2
    <2>3. QED
      BY <1>1, <2>1, <2>2 DEF Last
  <1>3. QED
    BY <1>1, <1>2 DEF beliefs, Types, SessionInv, SendingInv, LastIsBelieved, Believed

\* The end of a session, or of a process at either side, loses commands and is
\* followed by a session that has none.
LEMMA SessionStream ==
    ASSUME StreamInv,
           Connect \/ Register \/ Break \/ EndSession \/ PlayerRestarts \/ OptimizerRestarts
    PROVE  StreamInv'
  <1> USE DEF StreamInv
  <1>1. CASE Connect \/ Register \/ EndSession
    BY <1>1 DEF Connect, Register, EndSession, beliefs, Types, SessionInv, SendingInv,
       LastIsBelieved, Believed, Last
  <1>2. CASE Break
    <2>1. PICK n \in 0..Len(wire) : wire' = SubSeq(wire, 1, n)
      BY <1>2 DEF Break
    <2>2. Len(wire) \in Nat /\ \A i \in 1..n : wire[i] \in Commands
      BY LenProperties, ElementOfSeq DEF Types
    <2>3. wire' \in Seq(Commands)
      BY <2>1, <2>2, SubSeqProperties
    <2>4. QED
      BY <1>2, <2>3 DEF Break, beliefs, Types, SessionInv, SendingInv, LastIsBelieved
  <1>3. CASE PlayerRestarts
    BY <1>3, EmptySeq DEF PlayerRestarts, beliefs, Types, SessionInv, SendingInv, LastIsBelieved
  <1>4. CASE OptimizerRestarts
    <2>1. /\ current' = None /\ playerFrozen' = FALSE /\ sending' = None /\ registered' = FALSE
          /\ wire' = wire /\ link' # "open" /\ (link' = "down" => link = "down")
          /\ link' \in {link, "broken", "closed"}
      BY <1>4 DEF OptimizerRestarts
    <2>2. QED
      BY <2>1 DEF Types, SessionInv, SendingInv, LastIsBelieved
  <1>5. QED
    BY <1>1, <1>2, <1>3, <1>4

\* Every step of the loop, the session and the player keeps the invariant.
LEMMA NextStream == InputsInv /\ StreamInv /\ [Next]_vars => StreamInv'
  <1> SUFFICES ASSUME InputsInv, StreamInv, [Next]_vars PROVE StreamInv'
    OBVIOUS
  <1>1. CASE UNCHANGED <<beliefs, sending, session>>
    BY <1>1 DEF StreamInv, beliefs, session, Types, SessionInv, SendingInv, LastIsBelieved,
       Believed, Last
  <1>2. CASE \/ \E s \in Signals : ReceiveSignal(s)
             \/ SignalAges \/ ControlRequest \/ TimePasses
             \/ \E p \in Policies : ReloadPolicy(p)
             \/ UNCHANGED vars
    BY <1>1, <1>2 DEF ReceiveSignal, SignalAges, ControlRequest, TimePasses, ReloadPolicy, vars
  <1>3. QED
    BY <1>2, TickStream, SentStream, ReceiveStream, SessionStream DEF Next

\* The last command on its way to a player that is connected is the one the loop
\* believes in, through restarts and lost sessions and with any rules.
THEOREM StreamAlwaysAgrees == Spec => []StreamAgreesWithBelief
  <1>0. Init => InputsInv
    BY DEF Init, InputsInv
  <1>1. StreamInv => StreamAgreesWithBelief
    BY DEF StreamInv, LastIsBelieved, Last, Believed, StreamAgreesWithBelief
  <1>2. QED
    BY <1>0, <1>1, InitStream, NextInputs, NextStream, PTL DEF Spec

-------------------------------------------------------------------------------
(***************************************************************************)
(* The player believed frozen                                              *)
(***************************************************************************)

\* No session ends unnoticed; one the gateway does not know finds the player
\* without a creative, and once a freeze was received it plays none on.
PlayerInv ==
    /\ link # "closed"
    /\ ~registered /\ link \in {"open", "down"} => state # "active"
    /\ registered /\ wire = << >> /\ playerFrozen => state # "active"

\* What stops the player, and what does not start it.
LEMMA MachineStops ==
    /\ SM!OnFreeze \/ SM!OnConnectionLost \/ SM!Reset => state' # "active"
    /\ SM!OnSafeMode \/ SM!OnClearSafeMode \/ SM!Tick => state' \in {state, "safe_mode", "fallback"}
  <1>1. SM!OnFreeze => state' # "active"
    BY DEF SM!OnFreeze, SM!FreezeNothing, SM!FreezeCreative, SM!Rejected, SM!machineVars
  <1>2. SM!OnConnectionLost => state' # "active"
    BY DEF SM!OnConnectionLost, SM!LoseConnectionInSafeMode, SM!LoseConnection, SM!machineVars
  <1>3. SM!Reset => state' # "active"
    BY DEF SM!Reset
  <1>4. SM!OnSafeMode \/ SM!OnClearSafeMode \/ SM!Tick => state' \in {state, "safe_mode", "fallback"}
    BY DEF SM!OnSafeMode, SM!OnClearSafeMode, SM!ClearNothing, SM!ClearSafeMode, SM!Tick,
       SM!Rejected, SM!machineVars
  <1>5. QED
    BY <1>1, <1>2, <1>3, <1>4

\* A freeze becomes believed with its send, on the wire or to nobody.
LEMMA LoopPlayer ==
    ASSUME StreamInv, PlayerInv, Tick \/ Sent
    PROVE  PlayerInv'
  <1> USE DEF PlayerInv
  <1>1. CASE Tick
    <2>1. UNCHANGED <<state, session>> /\ (registered => (playerFrozen' => playerFrozen))
      <3>1. ASSUME NEW c, Broadcast(c), registered PROVE playerFrozen' => playerFrozen
        BY <3>1 DEF Broadcast
      <3>2. QED
        BY <1>1, <3>1 DEF Tick, machine
    <2>2. QED
      BY <2>1 DEF session
  <1>2. CASE Sent
    <2>1. UNCHANGED <<state, link, registered>>
      BY <1>2 DEF Sent, machine
    <2>2. registered => wire' # << >>
      BY <1>2, AppendProperties DEF Sent, StreamInv, Types
    <2>3. QED
      BY <2>1, <2>2
  <1>3. QED
    BY <1>1, <1>2

\* When the last command is received from a player believed frozen, it is the
\* freeze.
LEMMA ReceivePlayer ==
    ASSUME StreamInv, PlayerInv, Receive
    PROVE  PlayerInv'
  <1> USE DEF PlayerInv
  <1>1. /\ wire # << >> /\ link # "down" /\ wire' = Tail(wire)
        /\ UNCHANGED <<playerFrozen, link, registered>>
    BY DEF Receive, beliefs
  <1>2. ~registered => link' \notin {"open", "down"}
    BY <1>1 DEF StreamInv, SessionInv
  <1>3. ASSUME registered, wire' = << >>, playerFrozen PROVE state' # "active"
    <2>1. Head(wire) = Last
      <3>1. Len(wire) \in Nat /\ Len(wire) # 0 /\ Len(Tail(wire)) = Len(wire) - 1
        BY <1>1, EmptySeq, LenProperties, HeadTailProperties DEF StreamInv, Types
      <3>2. Len(wire) = 1
        BY <1>1, <1>3, <3>1
      <3>3. QED
        BY <3>2, <1>1 DEF Last, StreamInv, Types
    <2>2. Last = Freeze
      BY <1>1, <1>3 DEF StreamInv, SendingInv, LastIsBelieved, Believed
    <2>3. SM!OnFreeze
      BY <2>1, <2>2 DEF Receive
    <2>4. QED
      BY <2>3, MachineStops
  <1>4. QED
    BY <1>1, <1>2, <1>3

\* A session that breaks, and a player that restarts, leave no creative on.
LEMMA SessionPlayer ==
    ASSUME "clean_close" \notin Faults, StreamInv, PlayerInv,
           Connect \/ Register \/ Break \/ EndSession \/ PlayerRestarts \/ OptimizerRestarts
    PROVE  PlayerInv'
  <1> USE DEF PlayerInv
  <1>1. CASE Connect \/ Register
    BY <1>1 DEF Connect, Register, machine, beliefs
  <1>2. CASE Break
    BY <1>2 DEF Break
  <1>3. CASE EndSession
    <2>1. link = "broken" /\ SM!OnConnectionLost
      BY <1>3 DEF EndSession
    <2>2. state' # "active" /\ link' = "down" /\ registered' = registered /\ ~registered
      BY <1>3, <2>1, MachineStops DEF EndSession, StreamInv, SessionInv
    <2>3. QED
      BY <2>2
  <1>4. CASE PlayerRestarts
    BY <1>4, MachineStops DEF PlayerRestarts
  <1>5. CASE OptimizerRestarts
    <2>1. /\ registered' = FALSE /\ state' = state
          /\ link' \in {"broken", link} /\ (link = "open" => link' = "broken")
      BY <1>5 DEF OptimizerRestarts, machine
    <2>2. link = "down" => ~registered
      BY DEF StreamInv, SessionInv
    <2>3. QED
      BY <2>1, <2>2
  <1>6. QED
    BY <1>1, <1>2, <1>3, <1>4, <1>5

\* As long as sessions end without a close handshake every step keeps it.
LEMMA NextPlayer ==
    ASSUME "clean_close" \notin Faults
    PROVE  StreamInv /\ PlayerInv /\ [Next]_vars => PlayerInv'
  <1> SUFFICES ASSUME StreamInv, PlayerInv, [Next]_vars PROVE PlayerInv'
    OBVIOUS
  <1>1. CASE ControlRequest \/ TimePasses
    <2>1. UNCHANGED <<playerFrozen, session>> /\ state' \in {state, "safe_mode", "fallback"}
      BY <1>1, MachineStops DEF ControlRequest, TimePasses, beliefs
    <2>2. QED
      BY <2>1 DEF PlayerInv, session
  <1>2. CASE \/ \E s \in Signals : ReceiveSignal(s)
             \/ SignalAges
             \/ \E p \in Policies : ReloadPolicy(p)
             \/ UNCHANGED vars
    <2>1. UNCHANGED <<state, playerFrozen, session>>
      BY <1>2 DEF ReceiveSignal, SignalAges, ReloadPolicy, vars, machine, beliefs
    <2>2. QED
      BY <2>1 DEF PlayerInv, session
  <1>3. QED
    BY <1>1, <1>2, LoopPlayer, ReceivePlayer, SessionPlayer DEF Next

\* Without close handshakes a freeze that the loop believes in is obeyed: the
\* player is not playing on, whatever sessions and processes ended in between.
THEOREM FreezeIsObeyed ==
    ASSUME "clean_close" \notin Faults
    PROVE  Spec => []FrozenBeliefHolds
  <1>1. Init => InputsInv /\ StreamInv /\ PlayerInv
    <2>1. Init => InputsInv /\ PlayerInv
      BY DEF Init, SM!Init, InputsInv, PlayerInv
    <2>2. QED
      BY <2>1, InitStream
  <1>2. StreamInv /\ PlayerInv => FrozenBeliefHolds
    <2> SUFFICES ASSUME StreamInv, PlayerInv, playerFrozen, wire = << >>, link # "broken"
                 PROVE  state # "active"
      BY DEF FrozenBeliefHolds
    <2>1. CASE registered
      BY <2>1 DEF PlayerInv
    <2>2. CASE ~registered
      BY <2>2 DEF PlayerInv, StreamInv, SessionInv, Types
    <2>3. QED
      BY <2>1, <2>2
  <1>3. QED
    BY <1>1, <1>2, NextInputs, NextStream, NextPlayer, PTL DEF Spec
-------------------------------------------------------------------------------
(***************************************************************************)
(* Type correctness                                                        *)
(***************************************************************************)
P == INSTANCE PlayerStateMachineProofs WITH
    DwellTimes <- {Dwell}, CooldownTimes <- {Cooldown}

\* What TypeOK says beyond the stream and the inputs.
RestInv ==
    /\ SM!TypeOK
    /\ stale \in BOOLEAN
    /\ registered \in BOOLEAN

\* The state machine's own proofs are about the machine of this module.
LEMMA SameMachine ==
    /\ P!ConstantsAssumption
    /\ SM!TypeOK <=> P!TypeOK
    /\ SM!TypeOK' <=> P!TypeOK'
  BY MachineAssumption DEF SM!ConstantsAssumption, P!ConstantsAssumption,
     SM!TypeOK, P!TypeOK, SM!States, P!States, SM!Actions, P!Actions,
     SM!TransitionResult, P!TransitionResult

LEMMA ActivateKeepsTypes ==
    ASSUME SM!TypeOK, NEW m \in Manifests, SM!OnActivateCreative(m, Dwell, Cooldown)
    PROVE  SM!TypeOK'
  <1>1. P!OnActivateCreative(m, Dwell, Cooldown)
    BY DEF SM!OnActivateCreative, P!OnActivateCreative,
       SM!ActivateInSafeMode, P!ActivateInSafeMode,
       SM!ActivateBeforeDwell, P!ActivateBeforeDwell,
       SM!ActivateInCooldown, P!ActivateInCooldown, SM!Activate, P!Activate,
       SM!MayConsider, P!MayConsider, SM!InCooldown, P!InCooldown,
       SM!DwellElapsed, P!DwellElapsed, SM!CooldownsRecorded, P!CooldownsRecorded,
       SM!Rejected, P!Rejected, SM!Return, P!Return, SM!machineVars, P!machineVars
  <1>2. P!Next
    BY <1>1 DEF P!Next
  <1>3. QED
    BY <1>2, SameMachine, P!NextTypeOK

LEMMA CallKeepsTypes ==
    ASSUME SM!TypeOK,
           \/ SM!OnFreeze \/ SM!OnSafeMode \/ SM!OnClearSafeMode
           \/ SM!OnConnectionLost \/ SM!Tick
    PROVE  SM!TypeOK'
  <1>1. P!Next
    BY DEF P!Next, SM!OnFreeze, P!OnFreeze, SM!OnSafeMode, P!OnSafeMode, SM!Tick, P!Tick,
       SM!OnClearSafeMode, P!OnClearSafeMode, SM!OnConnectionLost, P!OnConnectionLost,
       SM!FreezeNothing, P!FreezeNothing, SM!FreezeCreative, P!FreezeCreative,
       SM!ClearNothing, P!ClearNothing, SM!ClearSafeMode, P!ClearSafeMode,
       SM!LoseConnectionInSafeMode, P!LoseConnectionInSafeMode,
       SM!LoseConnection, P!LoseConnection, SM!Deactivate, P!Deactivate,
       SM!CooldownsRecorded, P!CooldownsRecorded, SM!timerVars, P!timerVars,
       SM!Rejected, P!Rejected, SM!Return, P!Return, SM!machineVars, P!machineVars
  <1>2. QED
    BY <1>1, SameMachine, P!NextTypeOK

\* A new player process starts with a machine in range.
LEMMA ResetKeepsTypes ==
    ASSUME SM!TypeOK, SM!Reset
    PROVE  SM!TypeOK'
  BY DEF SM!TypeOK, SM!Reset, SM!States, SM!TransitionResult

LEMMA NextRest == StreamInv /\ RestInv /\ [Next]_vars => RestInv'
  <1> SUFFICES ASSUME StreamInv, RestInv, [Next]_vars
               PROVE  RestInv'
    OBVIOUS
  <1> USE DEF RestInv
  <1>m. ASSUME UNCHANGED machine
        PROVE  SM!TypeOK'
    BY <1>m DEF machine, SM!TypeOK
  <1>1. CASE Tick \/ Sent
    BY <1>1, <1>m DEF Tick, Sent, inputs, session
  <1>2. CASE Receive
    <2>1. Head(wire) \in Commands
      BY <1>2, HeadTailProperties DEF Receive, StreamInv, Types
    <2>2. SM!TypeOK'
      BY <1>2, <2>1, FreezeIsNoActivation, ActivateKeepsTypes, CallKeepsTypes DEF Receive
    <2>3. QED
      BY <1>2, <2>2 DEF Receive, inputs
  <1>3. CASE Connect \/ Register \/ Break
    BY <1>3, <1>m DEF Connect, Register, Break, inputs
  <1>4. CASE EndSession
    BY <1>4, <1>m, CallKeepsTypes DEF EndSession, inputs
  <1>5. CASE PlayerRestarts
    BY <1>5, ResetKeepsTypes DEF PlayerRestarts, inputs
  <1>6. CASE ControlRequest \/ TimePasses
    BY <1>6, CallKeepsTypes DEF ControlRequest, TimePasses, inputs, session
  <1>7. ASSUME NEW s \in Signals, ReceiveSignal(s)
        PROVE  RestInv'
    BY <1>7, <1>m DEF ReceiveSignal, session
  <1>8. ASSUME NEW p \in Policies, ReloadPolicy(p)
        PROVE  RestInv'
    BY <1>8, <1>m DEF ReloadPolicy, session
  <1>9. CASE SignalAges
    BY <1>9, <1>m DEF SignalAges, session
  <1>10. CASE OptimizerRestarts
    BY <1>10, <1>m DEF OptimizerRestarts
  <1>11. CASE UNCHANGED vars
    BY <1>11, <1>m DEF vars, inputs, session
  <1>12. QED
    BY <1>1, <1>2, <1>3, <1>4, <1>5, <1>6, <1>7, <1>8, <1>9, <1>10, <1>11 DEF Next

\* Loop, session and player stay in their ranges under any of the faults.
THEOREM TypeCorrect == Spec => []TypeOK
  <1>1. Init => InputsInv /\ RestInv
    <2>1. SM!Init => P!Init
      BY DEF SM!Init, P!Init
    <2>2. Init => SM!TypeOK
      BY <2>1, SameMachine, P!InitTypeOK DEF Init
    <2>3. QED
      BY <2>2 DEF Init, InputsInv, RestInv
  <1>2. InputsInv /\ StreamInv /\ RestInv => TypeOK
    BY DEF InputsInv, StreamInv, Types, RestInv, TypeOK
  <1>3. QED
    BY <1>1, <1>2, InitStream, NextInputs, NextStream, NextRest, PTL DEF Spec
===============================================================================
