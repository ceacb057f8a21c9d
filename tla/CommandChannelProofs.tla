------------------------- MODULE CommandChannelProofs -------------------------
(***************************************************************************)
(* Proofs about CommandChannel, for any number of commands and sessions    *)
(* and every length of the record of ids: type correctness, that the       *)
(* player's filter refuses nothing, that a session has no gap, and that    *)
(* the channel implements OrderedDelivery.                                 *)
(***************************************************************************)
EXTENDS CommandChannel, SequenceTheorems, TLAPS

USE ChannelAssumption

-------------------------------------------------------------------------------
(***************************************************************************)
(* The inductive invariant                                                 *)
(***************************************************************************)

\* TypeOK, with what it leaves open about sequences.
Types ==
    /\ seq \in Nat
    /\ issued \in 0..MaxIssued
    /\ opened \in 0..MaxSessions
    /\ connections \subseteq 1..opened
    /\ broken \subseteq 1..opened
    /\ broadcast \in [command : Commands \cup {NoCommand},
                      to : SUBSET (1..opened), dead : SUBSET (1..opened)]
    /\ wire \in [Sessions -> Seq(Commands)]
    /\ session \in 0..opened
    /\ lastSeq \in Nat \cup {-1}
    /\ seen \in Seq(1..MaxIssued)
    /\ Len(seen) <= MaxSeen
    /\ applied \in Commands \cup {NoCommand}

\* What is on the wires was sent in the order it was issued, and only there
\* where a session was opened.
WiresOrdered ==
    \A s \in Sessions :
        /\ s > opened => wire[s] = << >>
        /\ \A i \in 1..Len(wire[s]) : wire[s][i].id <= issued
        /\ \A i, j \in 1..Len(wire[s]) : i < j => wire[s][i].id < wire[s][j].id

\* The command that is being broadcast is the latest one, and those it has yet
\* to be sent to know older ones only.
BroadcastIsLatest ==
    broadcast.to # {} =>
        /\ broadcast.command \in Commands
        /\ broadcast.command.id = issued
        /\ broadcast.command.seq = seq
        /\ \A s \in broadcast.to : \A i \in 1..Len(wire[s]) : wire[s][i].id < issued
        /\ session \in broadcast.to => applied.id < issued

\* The player has applied, and remembers, nothing later than what is to come.
AppliedIsEarlier ==
    /\ applied.id <= issued
    /\ \A k \in 1..Len(seen) : seen[k] <= applied.id
    /\ session # 0 => \A i \in 1..Len(wire[session]) : applied.id < wire[session][i].id

\* Only the player's session can be alive; a broadcast drops dead sessions and
\* owes its command to registered ones.
SessionsKnown ==
    /\ Live \subseteq {session}
    /\ broadcast.dead \subseteq broken
    /\ broadcast.to \subseteq connections \cup broken

\* The number that went to the player last, received or not.
LastNumber ==
    IF wire[session] = << >> THEN lastSeq ELSE wire[session][Len(wire[session])].seq

\* The numbers on a wire follow each other, go on from the one received last
\* and, in a session that lives, reach up to the gateway's.
NumbersFollow ==
    /\ \A s \in Sessions : \A i \in 1..(Len(wire[s]) - 1) :
           wire[s][i + 1].seq = wire[s][i].seq + 1
    /\ session # 0 /\ wire[session] # << >> => lastSeq \in {-1, wire[session][1].seq - 1}
    /\ session \in Live =>
           \/ wire[session] = << >> /\ lastSeq = -1
           \/ /\ session \in connections
              /\ LastNumber = IF session \in broadcast.to THEN seq - 1 ELSE seq

ChannelInv ==
    /\ Types
    /\ WiresOrdered
    /\ BroadcastIsLatest
    /\ AppliedIsEarlier
    /\ SessionsKnown
    /\ NumbersFollow

\* What the actions that do not touch the network keep as it is.
USE DEF gateway, network, player, Sessions

-------------------------------------------------------------------------------
(***************************************************************************)
(* The gateway                                                             *)
(***************************************************************************)

\* Whatever is on a wire is a command.
LEMMA OnWire ==
    ASSUME Types, NEW s \in Sessions
    PROVE  /\ wire[s] \in Seq(Commands)
           /\ Len(wire[s]) \in Nat
           /\ wire[s] = << >> <=> Len(wire[s]) = 0
           /\ \A i \in 1..Len(wire[s]) :
                  /\ wire[s][i] \in Commands
                  /\ wire[s][i].id \in Nat
                  /\ wire[s][i].seq \in Nat /\ wire[s][i].seq > 0
  <1>1. wire[s] \in Seq(Commands)
    BY DEF Types
  <1>2. \A i \in 1..Len(wire[s]) : wire[s][i] \in Commands
    BY <1>1, ElementOfSeq
  <1>3. \A c \in Commands : c.id \in Nat /\ c.seq \in Nat /\ c.seq > 0
    BY DEF Commands
  <1>4. QED
    BY <1>1, <1>2, <1>3, LenProperties, EmptySeq

\* The last applied command has a number, 0 before the first.
LEMMA AppliedType ==
    ASSUME Types
    PROVE  applied.id \in Nat
  <1>1. CASE applied \in Commands
    BY <1>1 DEF Commands
  <1>2. CASE applied = NoCommand
    BY <1>2 DEF NoCommand
  <1>3. QED
    BY <1>1, <1>2 DEF Types

\* Nothing was opened, sent or applied.
LEMMA InitChannel == Init => ChannelInv
  BY DEF Init, ChannelInv, Types, WiresOrdered, BroadcastIsLatest, AppliedIsEarlier,
     SessionsKnown, NumbersFollow, LastNumber, Live, Idle, NoCommand, Commands

\* Learning of a session, or of its end, moves no command.
LEMMA RegisterChannel ==
    ASSUME ChannelInv, NEW s \in Sessions, Register(s) \/ Deregister(s)
    PROVE  ChannelInv'
  <1> USE DEF ChannelInv, Register, Deregister
  <1>1. Types'
    <2>1. CASE Register(s)
      <3>1. s \in 1..opened
        BY <2>1 DEF Types
      <3>2. QED
        BY <2>1, <3>1 DEF Types
    <2>2. CASE Deregister(s)
      BY <2>2 DEF Types
    <2>3. QED
      BY <2>1, <2>2
  <1>2. WiresOrdered' /\ BroadcastIsLatest' /\ AppliedIsEarlier'
    BY DEF WiresOrdered, BroadcastIsLatest, AppliedIsEarlier
  <1>3. SessionsKnown'
    BY DEF SessionsKnown, Live
  <1>4. NumbersFollow'
    BY DEF NumbersFollow, LastNumber, Live
  <1>5. QED
    BY <1>1, <1>2, <1>3, <1>4

\* A valid command takes the next id and number, an invalid one neither.
LEMMA StartBroadcastChannel ==
    ASSUME ChannelInv, NEW valid \in BOOLEAN, StartBroadcast(valid)
    PROVE  ChannelInv'
  <1> USE DEF ChannelInv
  <1>1. CASE ~valid
    <2>1. UNCHANGED vars
      BY <1>1 DEF StartBroadcast, NextSequence, vars
    <2>2. QED
      BY <2>1 DEF vars, Types, WiresOrdered, BroadcastIsLatest, AppliedIsEarlier,
         SessionsKnown, NumbersFollow, LastNumber, Live
  <1>2. CASE valid
    <2>1. /\ seq' = seq + 1 /\ issued' = issued + 1 /\ issued' \in 1..MaxIssued
          /\ broadcast.to = {}
          /\ broadcast' = [command |-> [id |-> issued', seq |-> seq'],
                           to |-> connections, dead |-> {}]
          /\ UNCHANGED <<connections, network, player>>
      BY <1>2 DEF StartBroadcast, NextSequence, Types, Idle
    <2>2. /\ broadcast'.to = connections /\ broadcast'.dead = {}
          /\ broadcast'.command = [id |-> issued', seq |-> seq']
          /\ broadcast'.command \in Commands
      BY <2>1 DEF Types, Commands
    <2>3. Types'
      BY <2>1, <2>2 DEF Types
    <2>4. WiresOrdered'
      <3>1. \A s \in Sessions : \A i \in 1..Len(wire[s]) : wire[s][i].id <= issued + 1
        <4> SUFFICES ASSUME NEW s \in Sessions, NEW i \in 1..Len(wire[s])
                     PROVE  wire[s][i].id <= issued + 1
          OBVIOUS
        <4>1. wire[s][i].id \in Nat
          BY OnWire
        <4>2. wire[s][i].id <= issued
          BY DEF WiresOrdered
        <4>3. QED
          BY <4>1, <4>2 DEF Types
      <3>2. wire' = wire /\ opened' = opened /\ issued' = issued + 1
        BY <2>1
      <3>3. WiresOrdered
        OBVIOUS
      <3>4. QED
        BY <3>1, <3>2, <3>3 DEF WiresOrdered
    <2>5. BroadcastIsLatest'
      <3>1. \A s \in connections : \A i \in 1..Len(wire[s]) : wire[s][i].id < issued + 1
        <4> SUFFICES ASSUME NEW s \in connections, NEW i \in 1..Len(wire[s])
                     PROVE  wire[s][i].id < issued + 1
          OBVIOUS
        <4>1. s \in Sessions /\ wire[s] \in Seq(Commands)
          BY DEF Types
        <4>2. wire[s][i] \in Commands
          BY <4>1, ElementOfSeq
        <4>3. QED
          BY <4>1, <4>2 DEF WiresOrdered, Commands, Types
      <3>2. applied.id < issued + 1
        BY DEF AppliedIsEarlier, Types, Commands, NoCommand
      <3>3. QED
        BY <2>1, <2>2, <3>1, <3>2 DEF BroadcastIsLatest
    <2>6. AppliedIsEarlier'
      BY <2>1 DEF AppliedIsEarlier, Types, Commands, NoCommand
    <2>7. SessionsKnown'
      BY <2>1, <2>2 DEF SessionsKnown, Live
    <2>8. NumbersFollow'
      BY <2>1, <2>2 DEF NumbersFollow, LastNumber, Live, Types
    <2>9. QED
      BY <2>3, <2>4, <2>5, <2>6, <2>7, <2>8
  <1>3. QED
    BY <1>1, <1>2

\* A send that puts the command on the wire.
LEMMA SendAliveChannel ==
    ASSUME ChannelInv, NEW s \in broadcast.to, s \notin broken,
           wire' = [wire EXCEPT ![s] = Append(@, broadcast.command)],
           broadcast' = [broadcast EXCEPT !.to = @ \ {s}],
           UNCHANGED <<seq, issued, connections, opened, broken, player>>
    PROVE  ChannelInv'
  <1> USE DEF ChannelInv
  <1> DEFINE c == broadcast.command
             n == Len(wire[s])
  <1>1. /\ s \in Sessions /\ s \in 1..opened /\ wire[s] \in Seq(Commands) /\ n \in Nat
        /\ c \in Commands /\ c.id = issued /\ c.seq = seq
    BY LenProperties DEF Types, BroadcastIsLatest
  <1>2. /\ wire'[s] \in Seq(Commands) /\ wire'[s] # << >> /\ Len(wire'[s]) = n + 1
        /\ \A i \in 1..n : wire'[s][i] = wire[s][i]
        /\ wire'[s][n + 1] = c
    <2>1. wire'[s] = Append(wire[s], c)
      BY <1>1 DEF Types
    <2>2. QED
      BY <1>1, <2>1, AppendProperties
  <1>3. \A t \in Sessions \ {s} : wire'[t] = wire[t]
    BY DEF Types
  <1>4. /\ broadcast'.to = broadcast.to \ {s} /\ broadcast'.dead = broadcast.dead
        /\ broadcast'.command = c
    BY DEF Types
  <1>5. s = session
    BY <1>1 DEF SessionsKnown, Live
  <1>6. \A i \in 1..n : wire[s][i] \in Commands /\ wire[s][i].id < issued
    BY <1>1, ElementOfSeq DEF BroadcastIsLatest
  <1>7. Types'
    BY <1>1, <1>2, <1>3 DEF Types
  <1>8. WiresOrdered'
    <2>1. \A t \in Sessions \ {s} :
              /\ t > opened => wire'[t] = << >>
              /\ \A i \in 1..Len(wire'[t]) : wire'[t][i].id <= issued
              /\ \A i, j \in 1..Len(wire'[t]) : i < j => wire'[t][i].id < wire'[t][j].id
      BY <1>3 DEF WiresOrdered
    <2>2. \A i \in 1..Len(wire'[s]) : wire'[s][i].id <= issued
      <3>1. \A i \in 1..n : wire[s][i].id \in Nat /\ wire[s][i].id < issued
        BY <1>1, <1>6, OnWire
      <3>2. QED
        BY <1>1, <1>2, <3>1 DEF Types
    <2>3. \A i, j \in 1..Len(wire'[s]) : i < j => wire'[s][i].id < wire'[s][j].id
      BY <1>1, <1>2, <1>6 DEF WiresOrdered
    <2>4. ~(s > opened)
      BY <1>1 DEF Types
    <2>5. QED
      BY <2>1, <2>2, <2>3, <2>4 DEF WiresOrdered
  <1>9. BroadcastIsLatest'
    BY <1>3, <1>4 DEF BroadcastIsLatest, Types
  <1>10. AppliedIsEarlier'
    <2>1. applied.id < c.id
      BY <1>1, <1>5 DEF BroadcastIsLatest
    <2>2. QED
      BY <1>1, <1>2, <1>5, <2>1 DEF AppliedIsEarlier
  <1>11. SessionsKnown'
    BY <1>4 DEF SessionsKnown, Live
  <1>12. NumbersFollow'
    <2>1. \/ n = 0 /\ lastSeq = -1
          \/ /\ session \in connections
             /\ LastNumber = seq - 1
      BY <1>1, <1>5, EmptySeq DEF NumbersFollow, Live
    <2>2. session \in connections
      BY <1>5 DEF SessionsKnown
    <2>3. n > 0 => wire[s][n].seq + 1 = c.seq
      <3>1. SUFFICES ASSUME n > 0 PROVE wire[s][n].seq + 1 = c.seq
        OBVIOUS
      <3>2. wire[s] # << >> /\ wire[s][n].seq \in Nat
        BY <1>1, <3>1, OnWire
      <3>3. wire[s][n].seq = seq - 1
        BY <1>1, <1>5, <2>1, <3>1, <3>2 DEF LastNumber
      <3>4. QED
        BY <1>1, <3>2, <3>3 DEF Types
    <2>4. n = 0 => lastSeq \in {-1, c.seq - 1}
      BY <1>1, <1>5, <2>1 DEF LastNumber
    <2>5. \A t \in Sessions : \A i \in 1..(Len(wire'[t]) - 1) :
              wire'[t][i + 1].seq = wire'[t][i].seq + 1
      <3>1. \A i \in 1..n : wire'[s][i + 1].seq = wire'[s][i].seq + 1
        <4> SUFFICES ASSUME NEW i \in 1..n PROVE wire'[s][i + 1].seq = wire'[s][i].seq + 1
          OBVIOUS
        <4>1. CASE i = n
          BY <4>1, <1>1, <1>2, <2>3
        <4>2. CASE i # n
          <5>1. i \in 1..n /\ i + 1 \in 1..n /\ i \in 1..(n - 1)
            BY <4>2, <1>1
          <5>2. wire[s][i + 1].seq = wire[s][i].seq + 1
            BY <1>1, <5>1 DEF NumbersFollow
          <5>3. QED
            BY <1>2, <5>1, <5>2
        <4>3. QED
          BY <4>1, <4>2
      <3>2. Len(wire'[s]) - 1 = n
        BY <1>1, <1>2
      <3>3. \A t \in Sessions \ {s} : \A i \in 1..(Len(wire'[t]) - 1) :
                wire'[t][i + 1].seq = wire'[t][i].seq + 1
        BY <1>3 DEF NumbersFollow
      <3>4. QED
        BY <3>1, <3>2, <3>3
    <2>6. lastSeq \in {-1, wire'[s][1].seq - 1}
      <3>1. CASE n = 0
        BY <3>1, <1>2, <2>4
      <3>2. CASE n > 0
        BY <3>2, <1>1, <1>2, <1>5, EmptySeq DEF NumbersFollow, Types
      <3>3. QED
        BY <1>1, <3>1, <3>2
    <2>7. LastNumber' = seq
      BY <1>1, <1>2, <1>5 DEF LastNumber
    <2>8. session \notin broadcast'.to
      BY <1>4, <1>5
    <2>9. QED
      BY <1>5, <2>2, <2>5, <2>6, <2>7, <2>8 DEF NumbersFollow
  <1>13. QED
    BY <1>7, <1>8, <1>9, <1>10, <1>11, <1>12

\* A send on a session that is broken puts nothing on the wire.
LEMMA SendBrokenChannel ==
    ASSUME ChannelInv, NEW s \in broadcast.to, s \in broken,
           \/ broadcast' = [broadcast EXCEPT !.to = @ \ {s}, !.dead = @ \cup {s}]
           \/ broadcast' = [broadcast EXCEPT !.to = @ \ {s}],
           UNCHANGED <<wire, seq, issued, connections, opened, broken, player>>
    PROVE  ChannelInv'
  <1> USE DEF ChannelInv
  <1>1. /\ broadcast'.to = broadcast.to \ {s}
        /\ broadcast'.dead \subseteq broadcast.dead \cup {s}
        /\ broadcast'.command = broadcast.command
        /\ s \in 1..opened
    BY DEF Types
  <1>2. Types'
    BY <1>1 DEF Types
  <1>3. WiresOrdered' /\ AppliedIsEarlier'
    BY DEF WiresOrdered, AppliedIsEarlier
  <1>4. BroadcastIsLatest'
    BY <1>1 DEF BroadcastIsLatest
  <1>5. SessionsKnown'
    BY <1>1 DEF SessionsKnown, Live
  <1>6. NumbersFollow'
    BY <1>1 DEF NumbersFollow, LastNumber, Live
  <1>7. QED
    BY <1>2, <1>3, <1>4, <1>5, <1>6

\* Only sessions that broke are dropped with a broadcast.
LEMMA EndBroadcastChannel ==
    ASSUME ChannelInv, EndBroadcast
    PROVE  ChannelInv'
  <1> USE DEF ChannelInv
  <1>1. /\ broadcast.to = {} /\ broadcast' = Idle
        /\ connections' = connections \ broadcast.dead
        /\ UNCHANGED <<seq, issued, network, player>>
    BY DEF EndBroadcast
  <1>2. broadcast'.to = {} /\ broadcast'.dead = {}
    BY <1>1 DEF Idle
  <1>3. Types'
    BY <1>1 DEF Types, Idle
  <1>4. WiresOrdered' /\ AppliedIsEarlier' /\ BroadcastIsLatest'
    BY <1>1, <1>2 DEF WiresOrdered, AppliedIsEarlier, BroadcastIsLatest
  <1>5. SessionsKnown'
    BY <1>1, <1>2 DEF SessionsKnown, Live
  <1>6. session \in Live /\ session \in connections => session \in connections'
    BY <1>1 DEF SessionsKnown, Live
  <1>7. NumbersFollow'
    BY <1>1, <1>2, <1>6 DEF NumbersFollow, LastNumber, Live
  <1>8. QED
    BY <1>3, <1>4, <1>5, <1>7

\* The numbers start over and no session lives that saw the old ones.
LEMMA GatewayRestartsChannel ==
    ASSUME ChannelInv, GatewayRestarts
    PROVE  ChannelInv'
  <1> USE DEF ChannelInv, GatewayRestarts
  <1>1. broadcast'.to = {} /\ broadcast'.dead = {} /\ Live' = {}
    BY DEF Idle, Live
  <1>2. Types'
    BY DEF Types, Idle
  <1>3. WiresOrdered' /\ AppliedIsEarlier' /\ BroadcastIsLatest'
    BY <1>1 DEF WiresOrdered, AppliedIsEarlier, BroadcastIsLatest
  <1>4. SessionsKnown'
    BY <1>1 DEF SessionsKnown
  <1>5. NumbersFollow'
    BY <1>1 DEF NumbersFollow
  <1>6. QED
    BY <1>2, <1>3, <1>4, <1>5

-------------------------------------------------------------------------------
(***************************************************************************)
(* The session                                                             *)
(***************************************************************************)
\* A new session has an empty wire and expects any number.
LEMMA ConnectChannel ==
    ASSUME ChannelInv, Connect
    PROVE  ChannelInv'
  <1> USE DEF ChannelInv
  <1>1. /\ session = 0 /\ opened' = opened + 1 /\ session' = opened + 1 /\ lastSeq' = -1
        /\ opened + 1 \in Sessions /\ opened \in Nat
        /\ UNCHANGED <<gateway, broken, wire, seen, applied>>
    BY DEF Connect, Types
  <1>2. wire[opened + 1] = << >> /\ Len(wire[opened + 1]) = 0
    BY <1>1, OnWire DEF WiresOrdered
  <1>3. opened + 1 \notin broadcast.to
    BY <1>1 DEF Types
  <1>4. Types'
    <2>1. 1..opened \subseteq 1..(opened + 1)
      BY <1>1
    <2>2. QED
      BY <1>1, <2>1 DEF Types
  <1>5. WiresOrdered'
    <2>1. \A s \in Sessions : s > opened + 1 => s > opened
      BY <1>1
    <2>2. QED
      BY <1>1, <2>1 DEF WiresOrdered
  <1>6. BroadcastIsLatest'
    BY <1>1, <1>3 DEF BroadcastIsLatest
  <1>7. AppliedIsEarlier'
    BY <1>1, <1>2 DEF AppliedIsEarlier
  <1>8. SessionsKnown'
    <2>1. Live = {}
      BY <1>1 DEF SessionsKnown, Live
    <2>2. Live' \subseteq {session'}
      BY <1>1, <2>1 DEF Live
    <2>3. QED
      BY <1>1, <2>2 DEF SessionsKnown
  <1>9. NumbersFollow'
    BY <1>1, <1>2 DEF NumbersFollow
  <1>10. QED
    BY <1>4, <1>5, <1>6, <1>7, <1>8, <1>9

\* What a break leaves on the wire is the beginning of what was there.
LEMMA BreakChannel ==
    ASSUME ChannelInv, NEW s \in Sessions, Break(s)
    PROVE  ChannelInv'
  <1> USE DEF ChannelInv
  <1>1. PICK n \in 0..Len(wire[s]) : wire' = [wire EXCEPT ![s] = SubSeq(@, 1, n)]
    BY DEF Break
  <1>2. /\ s \in 1..opened /\ s \notin broken /\ broken' = broken \cup {s}
        /\ UNCHANGED <<gateway, opened, player>>
    BY DEF Break, Live
  <1>3. /\ wire'[s] \in Seq(Commands) /\ Len(wire'[s]) = n
        /\ \A i \in 1..n : wire'[s][i] = wire[s][i]
        /\ n \in Nat /\ n <= Len(wire[s]) /\ Len(wire[s]) \in Nat
    <2>1. n \in Nat /\ n <= Len(wire[s]) /\ Len(wire[s]) \in Nat
      BY OnWire
    <2>2. \A i \in 1..n : wire[s][i] \in Commands
      BY <2>1, OnWire
    <2>3. wire'[s] = SubSeq(wire[s], 1, n)
      BY <1>1 DEF Types
    <2>4. /\ SubSeq(wire[s], 1, n) \in Seq(Commands)
          /\ Len(SubSeq(wire[s], 1, n)) = IF 1 <= n THEN n - 1 + 1 ELSE 0
          /\ \A i \in 1..(n - 1 + 1) : SubSeq(wire[s], 1, n)[i] = wire[s][1 + i - 1]
      BY <2>1, <2>2, SubSeqProperties
    <2>5. \A i \in 1..n : i \in 1..(n - 1 + 1) /\ 1 + i - 1 = i
      BY <2>1
    <2>6. QED
      BY <2>1, <2>3, <2>4, <2>5
  <1>4. \A t \in Sessions \ {s} : wire'[t] = wire[t]
    BY <1>1 DEF Types
  <1>5. \A t \in Sessions : \A i \in 1..Len(wire'[t]) :
            i \in 1..Len(wire[t]) /\ wire'[t][i] = wire[t][i]
    BY <1>3, <1>4
  <1>6. Types'
    BY <1>1, <1>2, <1>3, <1>4 DEF Types
  <1>7. WiresOrdered'
    <2>1. \A t \in Sessions : t > opened => t # s
      BY <1>2 DEF Types
    <2>2. QED
      BY <1>2, <1>4, <1>5, <2>1 DEF WiresOrdered
  <1>8. BroadcastIsLatest'
    <2>1. \A t \in broadcast.to : t \in Sessions
      BY DEF Types
    <2>2. QED
      BY <1>2, <1>5, <2>1 DEF BroadcastIsLatest
  <1>9. session # 0 => session \in Sessions
    BY DEF Types
  <1>10. AppliedIsEarlier'
    BY <1>2, <1>5, <1>9 DEF AppliedIsEarlier
  <1>11. Live' = Live \ {s}
    BY <1>2 DEF Live
  <1>12. SessionsKnown'
    BY <1>2, <1>11 DEF SessionsKnown
  <1>13. NumbersFollow'
    <2>1. \A i \in 1..(Len(wire'[s]) - 1) : wire'[s][i + 1].seq = wire'[s][i].seq + 1
      <3> SUFFICES ASSUME NEW i \in 1..(n - 1)
                   PROVE  wire'[s][i + 1].seq = wire'[s][i].seq + 1
        BY <1>3
      <3>1. i \in 1..n /\ i + 1 \in 1..n /\ i \in 1..(Len(wire[s]) - 1)
        BY <1>3
      <3>2. wire[s][i + 1].seq = wire[s][i].seq + 1
        BY <3>1 DEF NumbersFollow
      <3>3. QED
        BY <1>3, <3>1, <3>2
    <2>2. \A t \in Sessions \ {s} : \A i \in 1..(Len(wire'[t]) - 1) :
              wire'[t][i + 1].seq = wire'[t][i].seq + 1
      BY <1>4 DEF NumbersFollow
    <2>3. ASSUME session # 0, wire'[session] # << >>
          PROVE  lastSeq \in {-1, wire'[session][1].seq - 1}
      <3>1. CASE session = s
        <4>1. n # 0
          BY <3>1, <2>3, <1>3, EmptySeq
        <4>2. 1 \in 1..n /\ wire[s] # << >>
          BY <4>1, <1>3, OnWire
        <4>3. QED
          BY <3>1, <4>2, <1>3, <2>3 DEF NumbersFollow
      <3>2. CASE session # s
        BY <3>2, <1>4, <1>9, <2>3 DEF NumbersFollow
      <3>3. QED
        BY <3>1, <3>2
    <2>4. session \in Live' => session # s /\ wire'[session] = wire[session]
      <3>1. Live \subseteq Sessions
        BY DEF Live, Types
      <3>2. QED
        BY <1>4, <1>11, <3>1
    <2>5. session \in Live' => LastNumber' = LastNumber
      BY <1>2, <2>4 DEF LastNumber
    <2>6. session \in Live' =>
              \/ wire'[session] = << >> /\ lastSeq = -1
              \/ /\ session \in connections
                 /\ LastNumber' = IF session \in broadcast.to THEN seq - 1 ELSE seq
      BY <1>11, <2>4, <2>5 DEF NumbersFollow
    <2>7. UNCHANGED <<seq, connections, broadcast, session, lastSeq>>
      BY <1>2
    <2>8. QED
      BY <2>1, <2>2, <2>3, <2>6, <2>7 DEF NumbersFollow
  <1>14. QED
    BY <1>6, <1>7, <1>8, <1>10, <1>12, <1>13

\* Without a session nothing is received; the record of ids may be lost.
LEMMA EndSessionChannel ==
    ASSUME ChannelInv, EndSession \/ PlayerRestarts
    PROVE  ChannelInv'
  <1> USE DEF ChannelInv
  <1>1. /\ session' = 0 /\ session \in broken' \cup {0}
        /\ broken \subseteq broken' /\ broken' \subseteq broken \cup ({session} \ {0})
        /\ UNCHANGED <<gateway, opened, wire, applied>>
        /\ \/ lastSeq' = lastSeq /\ seen' = seen
           \/ lastSeq' = -1 /\ seen' = << >>
    BY DEF EndSession, PlayerRestarts
  <1>2. broken' \subseteq 1..opened
    BY <1>1 DEF Types
  <1>3. Types'
    <2>1. seen' \in Seq(1..MaxIssued) /\ Len(seen') <= MaxSeen
      <3>1. CASE seen' = seen
        BY <3>1 DEF Types
      <3>2. CASE seen' = << >>
        BY <3>2, EmptySeq
      <3>3. QED
        BY <1>1, <3>1, <3>2
    <2>2. lastSeq' \in Nat \cup {-1} /\ session' \in 0..opened
      BY <1>1 DEF Types
    <2>3. QED
      BY <1>1, <1>2, <2>1, <2>2 DEF Types
  <1>4. WiresOrdered'
    BY <1>1 DEF WiresOrdered
  <1>5. BroadcastIsLatest'
    BY <1>1 DEF BroadcastIsLatest, Types
  <1>6. AppliedIsEarlier'
    BY <1>1 DEF AppliedIsEarlier
  <1>7. Live' = {}
    <2>1. Live' \subseteq Live \ {session}
      BY <1>1 DEF Live, Types
    <2>2. QED
      BY <2>1 DEF SessionsKnown
  <1>8. SessionsKnown'
    BY <1>1, <1>7 DEF SessionsKnown
  <1>9. NumbersFollow'
    BY <1>1, <1>7 DEF NumbersFollow
  <1>10. QED
    BY <1>3, <1>4, <1>5, <1>6, <1>8, <1>9

-------------------------------------------------------------------------------
(***************************************************************************)
(* The player's command handler                                            *)
(***************************************************************************)

\* What the player is about to receive passes its filter.
LEMMA HeadAccepted ==
    ASSUME ChannelInv, session # 0, wire[session] # << >>
    PROVE  /\ session \in Sessions /\ 1 \in 1..Len(wire[session])
           /\ Head(wire[session]) = wire[session][1]
           /\ Accepts(Head(wire[session]))
  <1> USE DEF ChannelInv
  <1> DEFINE c == wire[session][1]
  <1>1. session \in Sessions
    BY DEF Types
  <1>2. 1 \in 1..Len(wire[session])
    BY <1>1, OnWire
  <1>3. Head(wire[session]) = c
    BY <1>1, <1>2, OnWire
  <1>4. c.id \in Nat /\ c.seq \in Nat /\ c.seq > 0
    BY <1>1, <1>2, OnWire
  <1>5. c.seq > lastSeq
    BY <1>4 DEF NumbersFollow, Types
  <1>6. \A k \in 1..Len(seen) : seen[k] # c.id
    <2> SUFFICES ASSUME NEW k \in 1..Len(seen), seen[k] = c.id PROVE FALSE
      OBVIOUS
    <2>1. applied.id \in Nat
      BY AppliedType
    <2>2. seen[k] <= applied.id /\ applied.id < c.id
      BY <1>2 DEF AppliedIsEarlier
    <2>3. QED
      BY <1>4, <2>1, <2>2
  <1>7. QED
    BY <1>1, <1>2, <1>3, <1>5, <1>6 DEF Accepts, Contains

\* The record of ids forgets some and invents none, and keeps to its limit.
LEMMA PrunedRecord ==
    ASSUME NEW ids \in Seq(1..MaxIssued), Len(ids) <= MaxSeen + 1
    PROVE  /\ Pruned(ids) \in Seq(1..MaxIssued)
           /\ Len(Pruned(ids)) <= MaxSeen
           /\ \A k \in 1..Len(Pruned(ids)) : \E j \in 1..Len(ids) : Pruned(ids)[k] = ids[j]
  <1>1. Len(ids) \in Nat
    BY LenProperties
  <1>2. CASE Len(ids) <= MaxSeen
    BY <1>1, <1>2 DEF Pruned
  <1>3. CASE Len(ids) > MaxSeen
    <2> DEFINE half == MaxSeen \div 2
               kept == SubSeq(ids, half + 1, Len(ids))
    <2>1. half \in Nat /\ half >= 1 /\ half <= MaxSeen
      OBVIOUS
    <2>2. Len(ids) = MaxSeen + 1
      BY <1>1, <1>3
    <2>3. \A i \in (half + 1)..Len(ids) : i \in 1..Len(ids) /\ ids[i] \in 1..MaxIssued
      BY <1>1, <2>1, ElementOfSeq
    <2> HIDE DEF half
    <2>4. /\ kept \in Seq(1..MaxIssued)
          /\ Len(kept) = IF half + 1 <= Len(ids) THEN Len(ids) - (half + 1) + 1 ELSE 0
          /\ \A i \in 1..(Len(ids) - (half + 1) + 1) : kept[i] = ids[half + 1 + i - 1]
      <3>1. half + 1 \in Int /\ Len(ids) \in Int
        BY <1>1, <2>1
      <3>2. QED
        BY <2>3, <3>1, SubSeqProperties
    <2> HIDE DEF kept
    <2>5. Len(kept) = Len(ids) - half /\ Len(kept) <= MaxSeen
      BY <2>1, <2>2, <2>4
    <2>6. \A k \in 1..Len(kept) : \E j \in 1..Len(ids) : kept[k] = ids[j]
      <3> SUFFICES ASSUME NEW k \in 1..Len(kept)
                   PROVE  \E j \in 1..Len(ids) : kept[k] = ids[j]
        OBVIOUS
      <3>1. k \in 1..(Len(ids) - (half + 1) + 1) /\ half + 1 + k - 1 \in 1..Len(ids)
        BY <1>1, <2>1, <2>5
      <3>2. QED
        BY <2>4, <3>1
    <2>7. Pruned(ids) = kept
      BY <1>3 DEF Pruned, half, kept
    <2>8. QED
      BY <2>4, <2>5, <2>6, <2>7
  <1>4. Len(ids) <= MaxSeen \/ Len(ids) > MaxSeen
    BY <1>1
  <1>5. QED
    BY <1>2, <1>3, <1>4

\* Receiving takes the first command off the wire and applies it.
LEMMA ReceiveChannel ==
    ASSUME ChannelInv, Receive
    PROVE  ChannelInv' /\ applied'.id \in (applied.id + 1)..issued
  <1> USE DEF ChannelInv
  <1> DEFINE s == session
             c == wire[s][1]
             n == Len(wire[s])
  <1>1. /\ s # 0 /\ wire[s] # << >>
        /\ UNCHANGED <<gateway, opened, broken, session>>
        /\ wire' = [wire EXCEPT ![s] = Tail(@)]
    BY DEF Receive
  <1>2. s \in Sessions /\ 1 \in 1..n /\ n \in Nat /\ Head(wire[s]) = c /\ Accepts(c)
    BY <1>1, HeadAccepted, OnWire
  <1>3. lastSeq' = c.seq /\ seen' = Pruned(Append(seen, c.id)) /\ applied' = c
    BY <1>2 DEF Receive
  <1>4. /\ c \in Commands /\ c.id \in 1..MaxIssued /\ c.seq \in Nat /\ c.seq > 0
        /\ c.id <= issued /\ applied.id < c.id
    <2>1. c \in Commands
      BY <1>2, OnWire
    <2>2. c.id <= issued /\ applied.id < c.id
      BY <1>1, <1>2 DEF WiresOrdered, AppliedIsEarlier
    <2>3. QED
      BY <2>1, <2>2 DEF Commands
  <1>5. /\ wire'[s] \in Seq(Commands) /\ Len(wire'[s]) = n - 1
        /\ \A i \in 1..(n - 1) : wire'[s][i] = wire[s][i + 1] /\ i + 1 \in 1..n /\ i \in 1..n
    <2>1. wire'[s] = Tail(wire[s])
      BY <1>1, <1>2 DEF Types
    <2>2. wire[s] \in Seq(Commands)
      BY <1>2, OnWire
    <2>3. /\ Tail(wire[s]) \in Seq(Commands)
          /\ Len(Tail(wire[s])) = n - 1
          /\ \A i \in 1..Len(Tail(wire[s])) : Tail(wire[s])[i] = wire[s][i + 1]
      BY <1>1, <2>2, HeadTailProperties
    <2>4. \A i \in 1..(n - 1) : i + 1 \in 1..n /\ i \in 1..n
      BY <1>2
    <2>5. QED
      BY <2>1, <2>3, <2>4
  <1>6. \A t \in Sessions \ {s} : wire'[t] = wire[t]
    BY <1>1 DEF Types
  <1>7. /\ seen' \in Seq(1..MaxIssued) /\ Len(seen') <= MaxSeen
        /\ \A k \in 1..Len(seen') : seen'[k] <= c.id
    <2> DEFINE ids == Append(seen, c.id)
    <2>1. seen \in Seq(1..MaxIssued) /\ Len(seen) \in Nat /\ Len(seen) <= MaxSeen
      BY LenProperties DEF Types
    <2>2. /\ ids \in Seq(1..MaxIssued) /\ Len(ids) = Len(seen) + 1
          /\ \A i \in 1..Len(seen) : ids[i] = seen[i]
          /\ ids[Len(seen) + 1] = c.id
      BY <1>4, <2>1, AppendProperties
    <2> HIDE DEF ids
    <2>3. \A i \in 1..Len(ids) : ids[i] <= c.id
      <3> SUFFICES ASSUME NEW i \in 1..Len(ids) PROVE ids[i] <= c.id
        OBVIOUS
      <3>1. CASE i = Len(seen) + 1
        BY <1>4, <2>2, <3>1
      <3>2. CASE i # Len(seen) + 1
        <4>1. i \in 1..Len(seen)
          BY <2>1, <2>2, <3>2
        <4>2. ids[i] = seen[i] /\ seen[i] <= applied.id /\ seen[i] \in 1..MaxIssued
          BY <2>1, <2>2, <4>1, ElementOfSeq DEF AppliedIsEarlier
        <4>3. QED
          BY <1>4, <4>2, AppliedType
      <3>3. QED
        BY <3>1, <3>2
    <2>4. Len(ids) <= MaxSeen + 1
      BY <2>1, <2>2
    <2>5. seen' = Pruned(ids)
      BY <1>3 DEF ids
    <2>6. QED
      BY <2>2, <2>3, <2>4, <2>5, PrunedRecord
  <1>8. Types'
    <2>1. wire' \in [Sessions -> Seq(Commands)]
      BY <1>1, <1>2, <1>5, <1>6 DEF Types
    <2>2. lastSeq' \in Nat \cup {-1} /\ applied' \in Commands \cup {NoCommand}
      BY <1>3, <1>4
    <2>3. QED
      BY <1>1, <1>7, <2>1, <2>2 DEF Types
  <1>9. WiresOrdered'
    <2>1. \A t \in Sessions \ {s} :
              /\ t > opened => wire'[t] = << >>
              /\ \A i \in 1..Len(wire'[t]) : wire'[t][i].id <= issued
              /\ \A i, j \in 1..Len(wire'[t]) : i < j => wire'[t][i].id < wire'[t][j].id
      BY <1>6 DEF WiresOrdered
    <2>2. \A i \in 1..(n - 1) : wire'[s][i].id <= issued
      BY <1>2, <1>5 DEF WiresOrdered
    <2>3. \A i, j \in 1..(n - 1) : i < j => wire'[s][i].id < wire'[s][j].id
      <3> SUFFICES ASSUME NEW i \in 1..(n - 1), NEW j \in 1..(n - 1), i < j
                   PROVE  wire'[s][i].id < wire'[s][j].id
        OBVIOUS
      <3>1. i + 1 \in 1..n /\ j + 1 \in 1..n /\ i + 1 < j + 1
        BY <1>2
      <3>2. wire[s][i + 1].id < wire[s][j + 1].id
        BY <1>2, <3>1 DEF WiresOrdered
      <3>3. QED
        BY <1>5, <3>2
    <2>4. ~(s > opened)
      BY <1>1, <1>2 DEF WiresOrdered
    <2>5. QED
      BY <1>1, <1>5, <2>1, <2>2, <2>3, <2>4 DEF WiresOrdered
  <1>10. BroadcastIsLatest'
    <2>1. ASSUME broadcast.to # {}, NEW t \in broadcast.to, NEW i \in 1..Len(wire'[t])
          PROVE  wire'[t][i].id < issued
      <3>1. t \in Sessions
        BY <2>1 DEF Types
      <3>2. CASE t = s
        BY <1>5, <2>1, <3>2 DEF BroadcastIsLatest
      <3>3. CASE t # s
        BY <1>6, <2>1, <3>1, <3>3 DEF BroadcastIsLatest
      <3>4. QED
        BY <3>2, <3>3
    <2>2. s \in broadcast.to => c.id < issued
      BY <1>2 DEF BroadcastIsLatest
    <2>3. QED
      BY <1>1, <1>3, <2>1, <2>2 DEF BroadcastIsLatest
  <1>11. AppliedIsEarlier'
    <2>1. \A i \in 1..(n - 1) : c.id < wire'[s][i].id
      <3> SUFFICES ASSUME NEW i \in 1..(n - 1) PROVE c.id < wire[s][i + 1].id
        BY <1>5
      <3>1. i + 1 \in 1..n /\ 1 < i + 1
        BY <1>2
      <3>2. QED
        BY <1>2, <3>1 DEF WiresOrdered
    <2>2. QED
      BY <1>1, <1>3, <1>4, <1>5, <1>7, <2>1 DEF AppliedIsEarlier
  <1>12. SessionsKnown'
    BY <1>1 DEF SessionsKnown, Live
  <1>13. NumbersFollow'
    <2>1. \A t \in Sessions : \A i \in 1..(Len(wire'[t]) - 1) :
              wire'[t][i + 1].seq = wire'[t][i].seq + 1
      <3>1. ASSUME NEW i \in 1..(n - 2)
            PROVE  wire'[s][i + 1].seq = wire'[s][i].seq + 1
        <4>1. i \in 1..(n - 1) /\ i + 1 \in 1..(n - 1)
          BY <1>2, <3>1
        <4>2. wire'[s][i] = wire[s][i + 1] /\ wire'[s][i + 1] = wire[s][i + 1 + 1]
          BY <1>5, <4>1
        <4>3. wire[s][i + 1 + 1].seq = wire[s][i + 1].seq + 1
          BY <1>2, <4>1 DEF NumbersFollow
        <4>4. QED
          BY <4>2, <4>3
      <3>2. Len(wire'[s]) - 1 = n - 2
        BY <1>2, <1>5
      <3>3. \A t \in Sessions \ {s} : \A i \in 1..(Len(wire'[t]) - 1) :
                wire'[t][i + 1].seq = wire'[t][i].seq + 1
        BY <1>6 DEF NumbersFollow
      <3>4. QED
        BY <3>1, <3>2, <3>3
    <2> HIDE DEF n
    <2>0. n # 1 => 1 \in 1..(n - 1) /\ n - 1 \in 1..(n - 1) /\ n - 1 + 1 = n
      BY <1>2
    <2> USE DEF n
    <2>2. n # 1 => wire'[s][1].seq = c.seq + 1
      <3> SUFFICES ASSUME n # 1 PROVE wire'[s][1].seq = c.seq + 1
        OBVIOUS
      <3>1. wire[s][1 + 1].seq = wire[s][1].seq + 1
        BY <1>2, <2>0 DEF NumbersFollow
      <3>2. wire'[s][1] = wire[s][1 + 1]
        BY <1>5, <2>0
      <3>3. QED
        BY <3>1, <3>2
    <2>3. wire'[s] = << >> <=> n - 1 = 0
      BY <1>2, <1>5, <1>8, OnWire, EmptySeq
    <2>4. wire'[s] # << >> => lastSeq' = wire'[s][1].seq - 1
      BY <1>3, <1>4, <2>2, <2>3
    <2>5. LastNumber' = LastNumber
      <3>1. LastNumber = wire[s][n].seq
        BY <1>1 DEF LastNumber
      <3>2. CASE n = 1
        BY <1>1, <1>3, <2>3, <3>1, <3>2 DEF LastNumber
      <3>3. CASE n # 1
        <4>1. n - 1 \in 1..(n - 1) /\ n - 1 + 1 = n
          BY <2>0, <3>3
        <4>2. wire'[s][n - 1] = wire[s][n]
          BY <1>5, <4>1
        <4>3. QED
          BY <1>1, <1>2, <1>5, <2>3, <3>1, <3>3, <4>2 DEF LastNumber
      <3>4. QED
        BY <3>2, <3>3
    <2>6. session \in Live =>
              /\ session \in connections
              /\ LastNumber = IF session \in broadcast.to THEN seq - 1 ELSE seq
      BY <1>1 DEF NumbersFollow
    <2>7. Live' = Live
      BY <1>1 DEF Live
    <2>8. QED
      BY <1>1, <2>1, <2>4, <2>5, <2>6, <2>7 DEF NumbersFollow
  <1>14. applied'.id \in (applied.id + 1)..issued
    <2>1. applied.id \in Nat
      BY AppliedType
    <2>2. issued \in Nat
      BY DEF Types
    <2>3. c.id \in (applied.id + 1)..issued
      BY <1>4, <2>1, <2>2
    <2>4. QED
      BY <1>3, <2>3
  <1>15. QED
    BY <1>8, <1>9, <1>10, <1>11, <1>12, <1>13, <1>14

-------------------------------------------------------------------------------
(***************************************************************************)
(* The theorems                                                            *)
(***************************************************************************)
\* Every step keeps the invariant.
LEMMA NextChannel == ChannelInv /\ [Next]_vars => ChannelInv'
  <1> SUFFICES ASSUME ChannelInv, [Next]_vars PROVE ChannelInv'
    OBVIOUS
  <1>1. ASSUME NEW s \in Sessions, SendTo(s) PROVE ChannelInv'
    BY <1>1, SendAliveChannel, SendBrokenChannel DEF SendTo
  <1>2. CASE UNCHANGED vars
    BY <1>2 DEF vars, ChannelInv, Types, WiresOrdered, BroadcastIsLatest, AppliedIsEarlier,
       SessionsKnown, NumbersFollow, LastNumber, Live
  <1>3. QED
    BY <1>1, <1>2, RegisterChannel, StartBroadcastChannel, EndBroadcastChannel,
       GatewayRestartsChannel, ConnectChannel, BreakChannel, EndSessionChannel,
       ReceiveChannel DEF Next

\* So it always holds.
LEMMA AlwaysChannel == Spec => []ChannelInv
  BY InitChannel, NextChannel, PTL DEF Spec

\* Every variable stays in its range: the record of ids is never longer than
\* its limit, however long the player runs.
THEOREM ChannelTypeCorrect == Spec => []TypeOK
  <1>1. ChannelInv => TypeOK
    <2> SUFFICES ASSUME ChannelInv PROVE TypeOK
      OBVIOUS
    <2>1. \A s \in Sessions : \A i \in DOMAIN wire[s] : wire[s][i] \in Commands
      BY OnWire, LenProperties DEF ChannelInv
    <2>2. \A k \in DOMAIN seen : seen[k] \in 1..MaxIssued
      BY LenProperties DEF ChannelInv, Types
    <2>3. 1..opened \subseteq Sessions
      BY DEF ChannelInv, Types
    <2>4. QED
      BY <2>1, <2>2, <2>3 DEF ChannelInv, Types, TypeOK
  <1>2. QED
    BY <1>1, AlwaysChannel, PTL

\* The command handler never refuses what the gateway sent, however often
\* either end restarts and sessions break.
THEOREM NothingEverRefused == Spec => []NothingRefused
  <1>1. ChannelInv => NothingRefused
    BY HeadAccepted DEF NothingRefused
  <1>2. QED
    BY <1>1, AlwaysChannel, PTL

\* What the player receives in a session is all the gateway sent from its first
\* command on.
THEOREM NoGapEver == Spec => []NoGapInSession
  <1>1. ChannelInv => NoGapInSession
    BY HeadAccepted DEF NoGapInSession, ChannelInv, NumbersFollow
  <1>2. QED
    BY <1>1, AlwaysChannel, PTL

\* The channel implements OrderedDelivery: no command is applied twice and none
\* after a later one.
THEOREM ChannelImplementsOrderedDelivery == Spec => ImplementsOrderedDelivery
  <1>1. Init => Delivery!Init
    BY DEF Init, Delivery!Init, NoCommand
  <1>2. ChannelInv /\ [Next]_vars => [Delivery!Next]_<<issued, applied.id>>
    <2> SUFFICES ASSUME ChannelInv, [Next]_vars
                 PROVE  Delivery!Next \/ UNCHANGED <<issued, applied.id>>
      OBVIOUS
    <2>1. CASE Receive
      <3>1. applied'.id \in (applied.id + 1)..issued /\ issued' = issued
        BY <2>1, ReceiveChannel DEF Receive
      <3>2. QED
        BY <3>1 DEF Delivery!Next, Delivery!Apply
    <2>2. ASSUME NEW valid \in BOOLEAN, StartBroadcast(valid)
          PROVE  Delivery!Next \/ UNCHANGED <<issued, applied.id>>
      BY <2>2 DEF StartBroadcast, Delivery!Next, Delivery!Issue
    <2>3. ASSUME NEW s \in Sessions, Register(s) \/ Deregister(s) \/ SendTo(s) \/ Break(s)
          PROVE  UNCHANGED <<issued, applied.id>>
      BY <2>3 DEF Register, Deregister, SendTo, Break
    <2>4. CASE EndBroadcast \/ GatewayRestarts \/ Connect \/ EndSession \/ PlayerRestarts
      BY <2>4 DEF EndBroadcast, GatewayRestarts, Connect, EndSession, PlayerRestarts
    <2> QED
      BY <2>1, <2>2, <2>3, <2>4 DEF Next, vars
  <1>3. QED
    BY <1>1, <1>2, AlwaysChannel, PTL DEF Spec, ImplementsOrderedDelivery, Delivery!Spec
===============================================================================
