---------------------------- MODULE CommandChannel ----------------------------
(***************************************************************************)
(* The way of a command from decision-optimizer to the player: the gateway *)
(* numbers and broadcasts it, a WebSocket session carries it, and the      *)
(* player's command handler filters it.                                    *)
(*                                                                         *)
(* A broadcast awaits each send, so sessions come and go in the middle of  *)
(* one.  A session that breaks loses what was in flight from some point    *)
(* on; the gateway may hold a broken session until its keepalive gives up. *)
(* Either end restarts at any time; sessions are numbered as they open.    *)
(***************************************************************************)
EXTENDS Integers, Sequences, SequencesExt

CONSTANTS
    MaxIssued,      \* bound on the commands issued
    MaxSessions,    \* bound on the sessions opened
    MaxSeen         \* _MAX_SEEN_IDS

ASSUME ChannelAssumption ==
    MaxIssued \in Nat /\ MaxSessions \in Nat /\ MaxSeen \in Nat \ {0, 1}

VARIABLES
    seq,            \* PlayerGateway._sequence
    issued,         \* the commands ever issued; stands for the fresh command_id
    connections,    \* PlayerGateway._connections
    broadcast,      \* the _broadcast that is under way
    opened,         \* sessions opened so far
    broken,         \* sessions that ended, whoever knows about it
    wire,           \* per session: what was sent and not yet received
    session,        \* the session the player receives from, 0 without one
    lastSeq,        \* CommandHandler._last_sequence
    seen,           \* CommandHandler._seen_command_ids, oldest first
    applied         \* the last command dispatched to the state machine

gateway == <<seq, issued, connections, broadcast>>
network == <<opened, broken, wire>>
player == <<session, lastSeq, seen, applied>>
vars == <<gateway, network, player>>

Sessions == 1..MaxSessions
Commands == [id : 1..MaxIssued, seq : Nat \ {0}]
NoCommand == [id |-> 0, seq |-> 0]
Idle == [command |-> NoCommand, to |-> {}, dead |-> {}]

Init ==
    /\ seq = 0
    /\ issued = 0
    /\ connections = {}
    /\ broadcast = Idle
    /\ opened = 0
    /\ broken = {}
    /\ wire = [s \in Sessions |-> << >>]
    /\ session = 0
    /\ lastSeq = -1
    /\ seen = << >>
    /\ applied = NoCommand
-------------------------------------------------------------------------------
(***************************************************************************)
(* The gateway                                                             *)
(***************************************************************************)

\* The handler coroutine of session s starts, some time after the handshake.
Register(s) ==
    /\ s <= opened
    /\ s \notin connections \cup broken
    /\ connections' = connections \cup {s}
    /\ UNCHANGED <<seq, issued, broadcast, network, player>>

\* It learns that the session ended.
Deregister(s) ==
    /\ s \in connections \cap broken
    /\ connections' = connections \ {s}
    /\ UNCHANGED <<seq, issued, broadcast, network, player>>

\* Mutant: the number of a command that failed validation is not taken back.
NextSequenceNoRollback(valid) == seq + 1

\* The number a command takes: taken back when the command is not valid.
NextSequence(valid) == IF valid THEN seq + 1 ELSE seq

\* The decision loop issues one command at a time, to the connections there
\* are at the start.  An invalid command is not sent.
StartBroadcast(valid) ==
    /\ broadcast = Idle
    /\ connections # {}
    /\ issued < MaxIssued
    /\ seq' = NextSequence(valid)
    /\ IF valid
       THEN /\ issued' = issued + 1
            /\ broadcast' = [command |-> [id |-> issued', seq |-> seq'],
                             to |-> connections, dead |-> {}]
       ELSE UNCHANGED <<issued, broadcast>>
    /\ UNCHANGED <<connections, network, player>>

\* One await ws.send.  On a broken session it raises, or the frame is lost.
SendTo(s) ==
    /\ s \in broadcast.to
    /\ \/ /\ s \notin broken
          /\ wire' = [wire EXCEPT ![s] = Append(@, broadcast.command)]
          /\ broadcast' = [broadcast EXCEPT !.to = @ \ {s}]
       \/ /\ s \in broken
          /\ \/ broadcast' = [broadcast EXCEPT !.to = @ \ {s}, !.dead = @ \cup {s}]
             \/ broadcast' = [broadcast EXCEPT !.to = @ \ {s}]
          /\ UNCHANGED wire
    /\ UNCHANGED <<seq, issued, connections, opened, broken, player>>

EndBroadcast ==
    /\ broadcast # Idle
    /\ broadcast.to = {}
    /\ connections' = connections \ broadcast.dead
    /\ broadcast' = Idle
    /\ UNCHANGED <<seq, issued, network, player>>

Live == (1..opened) \ broken

\* Mutant: command ids drawn from a counter of the process.
GatewayRestartsIds ==
    /\ seq' = 0
    /\ issued' = 0
    /\ connections' = {}
    /\ broadcast' = Idle
    /\ broken' = 1..opened
    /\ UNCHANGED <<opened, wire, player>>

\* A new process numbers from 1 again; its command ids are new all the same.
\* What was already sent may still arrive.
GatewayRestarts ==
    /\ seq' = 0
    /\ connections' = {}
    /\ broadcast' = Idle
    /\ broken' = 1..opened
    /\ UNCHANGED <<issued, opened, wire, player>>
-------------------------------------------------------------------------------
(***************************************************************************)
(* The session                                                             *)
(***************************************************************************)

\* Mutant: reset_session is not called.
ConnectNoReset ==
    /\ session = 0
    /\ opened < MaxSessions
    /\ opened' = opened + 1
    /\ session' = opened'
    /\ UNCHANGED <<gateway, broken, wire, lastSeq, seen, applied>>

\* The handshake, and reset_session before the first message is received.
Connect ==
    /\ session = 0
    /\ opened < MaxSessions
    /\ opened' = opened + 1
    /\ session' = opened'
    /\ lastSeq' = -1
    /\ UNCHANGED <<gateway, broken, wire, seen, applied>>

\* The tail of what is in flight is lost.
Break(s) ==
    /\ s \in Live
    /\ \E n \in 0..Len(wire[s]) : wire' = [wire EXCEPT ![s] = SubSeq(@, 1, n)]
    /\ broken' = broken \cup {s}
    /\ UNCHANGED <<gateway, opened, player>>
-------------------------------------------------------------------------------
(***************************************************************************)
(* The player's command handler                                            *)
(***************************************************************************)
Accepts(c) == ~Contains(seen, c.id) /\ c.seq > lastSeq

\* Mutant: the record of command ids is never cut.
PruneNothing(ids) == ids

\* Above the limit the older half is forgotten.
Pruned(ids) ==
    IF Len(ids) > MaxSeen
    THEN SubSeq(ids, (MaxSeen \div 2) + 1, Len(ids))
    ELSE ids

\* handle_raw up to the dispatch.
Receive ==
    /\ session # 0
    /\ wire[session] # << >>
    /\ LET c == Head(wire[session])
       IN  /\ wire' = [wire EXCEPT ![session] = Tail(@)]
           /\ IF Accepts(c)
              THEN /\ lastSeq' = c.seq
                   /\ seen' = Pruned(Append(seen, c.id))
                   /\ applied' = c
              ELSE UNCHANGED <<lastSeq, seen, applied>>
    /\ UNCHANGED <<gateway, opened, broken, session>>

\* The receive loop ends once what had arrived was handled.
EndSession ==
    /\ session \in broken
    /\ wire[session] = << >>
    /\ session' = 0
    /\ UNCHANGED <<gateway, network, lastSeq, seen, applied>>

PlayerRestarts ==
    /\ session' = 0
    /\ lastSeq' = -1
    /\ seen' = << >>
    /\ broken' = broken \cup ({session} \ {0})
    /\ UNCHANGED <<gateway, opened, wire, applied>>

Next ==
    \/ \E s \in Sessions : Register(s) \/ Deregister(s) \/ SendTo(s) \/ Break(s)
    \/ \E valid \in BOOLEAN : StartBroadcast(valid)
    \/ EndBroadcast \/ GatewayRestarts
    \/ Connect \/ Receive \/ EndSession \/ PlayerRestarts

Spec == Init /\ [][Next]_vars
-------------------------------------------------------------------------------
(***************************************************************************)
(* Properties                                                              *)
(***************************************************************************)

\* Every variable stays in its range, and the record of ids within its limit.
TypeOK ==
    /\ seq \in Nat /\ issued \in 0..MaxIssued
    /\ connections \subseteq 1..opened
    /\ broadcast \in [command : Commands \cup {NoCommand},
                      to : SUBSET Sessions, dead : SUBSET Sessions]
    /\ opened \in 0..MaxSessions
    /\ broken \subseteq 1..opened
    /\ DOMAIN wire = Sessions
    /\ \A s \in Sessions : \A i \in DOMAIN wire[s] : wire[s][i] \in Commands
    /\ session \in 0..opened
    /\ lastSeq \in Nat \cup {-1}
    /\ Len(seen) <= MaxSeen /\ \A i \in DOMAIN seen : seen[i] \in 1..MaxIssued
    /\ applied \in Commands \cup {NoCommand}

\* The filter of the command handler never refuses what the gateway sent:
\* neither the numbers after a restart of either end nor the ids run into it
\* (player_gateway.py, "any positive sequence will be accepted").
NothingRefused ==
    session # 0 /\ wire[session] # << >> => Accepts(Head(wire[session]))

\* Within a session the commands arrive without a gap: what the player sees
\* from its first command on is all the gateway sent.
NoGapInSession ==
    session # 0 /\ wire[session] # << >> =>
        lastSeq \in {-1, Head(wire[session]).seq - 1}

Delivery == INSTANCE OrderedDelivery WITH applied <- applied.id

\* Commands are applied at most once and in the order they were issued,
\* across sessions and restarts of either end.
ImplementsOrderedDelivery == Delivery!Spec
===============================================================================
