----------------------------- MODULE DecisionLoop -----------------------------
(***************************************************************************)
(* The decision-optimizer's 1 Hz loop driving the player's state machine.  *)
(*                                                                         *)
(* The loop never asks the player anything: it remembers what it sent last *)
(* (current, playerFrozen) and sends only what differs from that.  Here it *)
(* is composed with the session that carries the commands and the player   *)
(* that may lose, refuse or outlive them.                                  *)
(*                                                                         *)
(* CommandChannel shows that a session delivers in order and refuses       *)
(* nothing, so a session is a queue here.  Numbers of players are only     *)
(* counted and reported, hence one connection, known or not.               *)
(***************************************************************************)
EXTENDS Integers, Sequences

CONSTANTS
    Manifests, None, MaxTime,  \* PlayerStateMachine's
    Dwell, Cooldown,    \* min_dwell_ms and cooldown_ms of the policy
    Audiences,          \* what a signal says of the audience
    Policies,           \* rule sets: the manifest evaluate() picks per audience
    MaxWire,            \* bound on the commands in flight
    Faults              \* the disturbances an instance considers

FaultKinds ==
    {"break", "clean_close", "player_restart", "optimizer_restart", "safe_mode", "policy_reload"}

ASSUME LoopAssumption ==
    /\ Policies \subseteq [Audiences -> Manifests \cup {None}]
    /\ Policies # {}
    /\ Dwell \in Nat /\ Cooldown \in Nat
    /\ MaxWire \in Nat \ {0}
    /\ Faults \subseteq FaultKinds

VARIABLES
    state, active, activatedAt, minDwell, cooldownForActive, cooldowns, now, result,
    policy,         \* DecisionLoop._policy
    signal,         \* SignalConsumer.latest_signal
    stale,          \* signal_age_ms() exceeds STALE_SIGNAL_THRESHOLD_MS
    current,        \* DecisionLoop._current_manifest_id
    playerFrozen,   \* DecisionLoop._player_frozen
    sending,        \* the command of the broadcast under way, or None
    link,           \* the session: none, open, or ended with messages left
    registered,     \* the gateway's handler has added the session
    wire            \* commands in flight on the session

machine == <<state, active, activatedAt, minDwell, cooldownForActive, cooldowns, now, result>>
beliefs == <<current, playerFrozen>>
inputs == <<policy, signal, stale>>
session == <<link, registered, wire>>
vars == <<machine, beliefs, inputs, sending, session>>

SM == INSTANCE PlayerStateMachine WITH
    DwellTimes <- {Dwell}, CooldownTimes <- {Cooldown}

ASSUME MachineAssumption == SM!ConstantsAssumption

Signals == [audience : Audiences, hold : BOOLEAN]
Freeze == [type |-> "freeze", manifest |-> None]
ActivateCommand(m) == [type |-> "activate_creative", manifest |-> m]
Commands == {Freeze} \cup {ActivateCommand(m) : m \in Manifests}

ASSUME NoneAssumption == None \notin Manifests \cup Commands

\* The appliance has booted and the player is connected.
Init ==
    /\ SM!Init
    /\ policy \in Policies
    /\ signal = None
    /\ stale = FALSE
    /\ current = None
    /\ playerFrozen = FALSE
    /\ sending = None
    /\ link = "open"
    /\ registered = TRUE
    /\ wire = << >>
-------------------------------------------------------------------------------
(***************************************************************************)
(* The loop                                                                *)
(***************************************************************************)

\* _freeze_reason: too old, from a degraded pipeline, or asking for a freeze
\* itself (hold stands for the last two).  Without any signal nothing is frozen.
FreezeDue == signal # None /\ (stale \/ signal.hold)

\* policy.evaluate(signal), None when no rule matches.
Candidate == policy[signal.audience]

\* Mutant: the freeze is not remembered.
BelieveActivationsOnly(command) ==
    /\ current' = IF command = Freeze THEN current ELSE command.manifest
    /\ playerFrozen' = FALSE

\* What follows the await in _tick: the belief holds whether or not anybody
\* received the command.
Believe(command) ==
    IF command = Freeze
    THEN playerFrozen' = TRUE /\ UNCHANGED current
    ELSE current' = command.manifest /\ playerFrozen' = FALSE

\* _broadcast returns at once when nobody is connected, and awaits otherwise.
\* _player_frozen is cleared before an activation is sent.
Broadcast(command) ==
    IF registered
    THEN /\ Len(wire) < MaxWire
         /\ sending' = command
         /\ playerFrozen' = (playerFrozen /\ command = Freeze)
         /\ UNCHANGED current
    ELSE Believe(command) /\ UNCHANGED sending

\* Mutant: a signal no rule matches sends an activation of nothing.
TickWithoutMatch ==
    /\ sending = None
    /\ signal # None
    /\ \/ FreezeDue /\ ~playerFrozen /\ Broadcast(Freeze)
       \/ /\ ~FreezeDue
          /\ Candidate # current \/ playerFrozen
          /\ Broadcast(ActivateCommand(Candidate))
    /\ UNCHANGED <<machine, inputs, session>>

\* Mutant: the end of a freeze is no reason to send again.
TickOnlyChanges ==
    /\ sending = None
    /\ signal # None
    /\ \/ FreezeDue /\ ~playerFrozen /\ Broadcast(Freeze)
       \/ /\ ~FreezeDue
          /\ Candidate \notin {None, current}
          /\ Broadcast(ActivateCommand(Candidate))
    /\ UNCHANGED <<machine, inputs, session>>

\* Mutant: rules are evaluated during a freeze as well.
TickDuringFreeze ==
    /\ sending = None
    /\ signal # None
    /\ \/ FreezeDue /\ ~playerFrozen /\ Broadcast(Freeze)
       \/ /\ Candidate # None
          /\ Candidate # current \/ playerFrozen
          /\ Broadcast(ActivateCommand(Candidate))
    /\ UNCHANGED <<machine, inputs, session>>

\* A tick that sends something; the others change nothing.
Tick ==
    /\ sending = None
    /\ signal # None
    /\ \/ FreezeDue /\ ~playerFrozen /\ Broadcast(Freeze)
       \/ /\ ~FreezeDue
          /\ Candidate # None
          /\ Candidate # current \/ playerFrozen
          /\ Broadcast(ActivateCommand(Candidate))
    /\ UNCHANGED <<machine, inputs, session>>

\* ws.send returns or raises, and the tick goes on.  A session that opened in
\* the meantime is not among those the broadcast goes to.
Sent ==
    /\ sending # None
    /\ \/ registered /\ wire' = Append(wire, sending)
       \/ ~registered /\ UNCHANGED wire
    /\ Believe(sending)
    /\ sending' = None
    /\ UNCHANGED <<machine, inputs, link, registered>>

ReceiveSignal(s) ==
    /\ signal' = s
    /\ stale' = FALSE
    /\ UNCHANGED <<machine, beliefs, policy, sending, session>>

SignalAges ==
    /\ signal # None /\ ~stale
    /\ stale' = TRUE
    /\ UNCHANGED <<machine, beliefs, policy, signal, sending, session>>

\* rules_reload hot-swaps the engine; the belief is kept.
ReloadPolicy(p) ==
    /\ "policy_reload" \in Faults
    /\ p # policy
    /\ policy' = p
    /\ UNCHANGED <<machine, beliefs, signal, stale, sending, session>>

\* The gateway's process ends: nothing of the loop is persisted.
OptimizerRestarts ==
    /\ "optimizer_restart" \in Faults
    /\ signal' = None
    /\ stale' = FALSE
    /\ current' = None
    /\ playerFrozen' = FALSE
    /\ sending' = None
    /\ link' \in (IF link # "open" THEN {link} ELSE
                  {"broken"} \cup (IF "clean_close" \in Faults THEN {"closed"} ELSE {}))
    /\ registered' = FALSE
    /\ UNCHANGED <<machine, policy, wire>>
-------------------------------------------------------------------------------
(***************************************************************************)
(* The session and the player                                              *)
(***************************************************************************)
Connect ==
    /\ link = "down"
    /\ link' = "open"
    /\ UNCHANGED <<machine, beliefs, inputs, sending, registered, wire>>

\* Not while a broadcast to the connections of before is under way.
Register ==
    /\ link = "open" /\ ~registered
    /\ sending = None
    /\ registered' = TRUE
    /\ UNCHANGED <<machine, beliefs, inputs, sending, link, wire>>

\* The session ends, with a close handshake or without, and loses the tail.
Break ==
    /\ link = "open"
    /\ \/ "break" \in Faults /\ link' = "broken"
       \/ "clean_close" \in Faults /\ link' = "closed"
    /\ registered' = FALSE
    /\ \E n \in 0..Len(wire) : wire' = SubSeq(wire, 1, n)
    /\ UNCHANGED <<machine, beliefs, inputs, sending>>

\* The filter lets it pass; the manifests of the policy are all known.
Receive ==
    /\ wire # << >>
    /\ link # "down"
    /\ wire' = Tail(wire)
    /\ LET c == Head(wire)
       IN  \/ c = Freeze /\ SM!OnFreeze
           \/ c # Freeze /\ SM!OnActivateCreative(c.manifest, Dwell, Cooldown)
    /\ UNCHANGED <<beliefs, inputs, sending, link, registered>>

\* Mutant: the state machine is told of no end of a session.
EndSessionUntold ==
    /\ wire = << >>
    /\ link \in {"broken", "closed"}
    /\ link' = "down"
    /\ UNCHANGED <<machine, beliefs, inputs, sending, registered, wire>>

\* After a close handshake the state machine is not told.
EndSession ==
    /\ wire = << >>
    /\ \/ link = "broken" /\ SM!OnConnectionLost
       \/ link = "closed" /\ UNCHANGED machine
    /\ link' = "down"
    /\ UNCHANGED <<beliefs, inputs, sending, registered, wire>>

PlayerRestarts ==
    /\ "player_restart" \in Faults
    /\ SM!Reset
    /\ link' = "down"
    /\ registered' = FALSE
    /\ wire' = << >>
    /\ UNCHANGED <<beliefs, inputs, sending>>

\* The player's control endpoint, used by the supervisor.
ControlRequest ==
    /\ "safe_mode" \in Faults
    /\ SM!OnSafeMode \/ SM!OnClearSafeMode
    /\ UNCHANGED <<beliefs, inputs, sending, session>>

TimePasses ==
    /\ SM!Tick
    /\ UNCHANGED <<beliefs, inputs, sending, session>>

Next ==
    \/ Tick \/ Sent
    \/ Connect \/ Register \/ Receive \/ EndSession
    \/ \E s \in Signals : ReceiveSignal(s)
    \/ SignalAges
    \/ \E p \in Policies : ReloadPolicy(p)
    \/ Break \/ OptimizerRestarts \/ PlayerRestarts \/ ControlRequest
    \/ TimePasses

Spec == Init /\ [][Next]_vars

\* The loop ticks at 1 Hz, sends complete, the player reads its socket and
\* reconnects with bounded backoff, time goes on.  Signals, rules and faults
\* come as they please.
Fairness ==
    /\ WF_vars(Tick) /\ WF_vars(Sent)
    /\ WF_vars(Connect) /\ WF_vars(Register)
    /\ WF_vars(Receive) /\ WF_vars(EndSession)
    /\ WF_vars(TimePasses)

FairSpec == Spec /\ Fairness
-------------------------------------------------------------------------------
(***************************************************************************)
(* Properties                                                              *)
(***************************************************************************)
TypeOK ==
    /\ SM!TypeOK
    /\ policy \in Policies
    /\ signal \in Signals \cup {None}
    /\ stale \in BOOLEAN
    /\ current \in Manifests \cup {None}
    /\ playerFrozen \in BOOLEAN
    /\ sending \in Commands \cup {None}
    /\ link \in {"down", "open", "broken", "closed"}
    /\ registered \in BOOLEAN
    /\ wire \in Seq(Commands)

\* The manifest the loop would have the player show now.
Wanted == IF signal = None \/ FreezeDue THEN None ELSE Candidate

\* Belief and command stream never part: once the player is believed frozen,
\* nothing but the freeze itself is the last thing on its way, and otherwise
\* the last thing is the activation of the manifest believed to play.
StreamAgreesWithBelief ==
    wire # << >> /\ sending = None /\ link = "open" /\ registered =>
        wire[Len(wire)] = IF playerFrozen THEN Freeze ELSE ActivateCommand(current)

\* A player believed frozen is not playing on and accepting replacements, as
\* long as no close handshake hid the end of a session from it: a freeze that a
\* broken session swallowed, or that a restart forgot, leaves it in the fallback.
FrozenBeliefHolds ==
    playerFrozen /\ sending = None /\ wire = << >> /\ link # "broken" =>
        state # "active"

\* While a freeze is due for good the player ends up holding its creative or
\* having none, sessions that break or not (decision_loop.py, "Hold - no rule
\* evaluation while frozen"; REC-003).
FreezeStopsSwitching ==
    [](link # "closed") => (<>[]FreezeDue => <>[](state # "active"))

\* With a session that lasts and no safe mode, and no dwell or cooldown to
\* refuse a command, the audience that stays is followed, whatever freezes and
\* rule reloads came before.
FollowsAudience ==
    [](link = "open" /\ state # "safe_mode") =>
        \A m \in Manifests :
            <>[](Wanted = m) => <>[](active = m /\ state = "active")
===============================================================================
