------------------------ MODULE AudiencePipelineProofs ------------------------
(***************************************************************************)
(* Proofs about AudiencePipeline, for every window, staleness threshold,   *)
(* set of scenes and choice of drivers and disturbances: what the decision *)
(* loop acts on was reported recently and not as degraded, and every       *)
(* variable keeps its range.                                               *)
(***************************************************************************)
EXTENDS AudiencePipeline, SequenceTheorems, FiniteSetTheorems, TLAPS

USE PipelineAssumption

-------------------------------------------------------------------------------
(***************************************************************************)
(* What is on its way, the window and the ages                             *)
(***************************************************************************)
Entry == [o : Built, age : 0..Window]
AgedEntry == [o : Built, age : Nat]

StreamOK ==
    /\ cv = [at |-> cv.at, attempt |-> cv.attempt, wait |-> cv.wait, latest |-> cv.latest]
    /\ cv.latest \in Built \cup {None}
    /\ outbox \in Seq(Built)
    /\ window \in Seq(Entry)
    /\ age \in 0..(Stale + 1)
    /\ arrived \in 0..(Window + Stale + 1)

\* Nothing in the window is younger than the last arrival, and a signal that is
\* not stale was built from a window that was not empty.
ArrivalsKnown ==
    /\ \A i \in DOMAIN window : arrived <= window[i].age
    /\ latest # None /\ age <= Stale => arrived <= Window + age

\* What a signal that is not stale does not tell arrived after it was built.
DegradedKnown ==
    latest # None /\ age <= Stale /\ ~latest.degraded =>
        \A i \in DOMAIN window : window[i].o.degraded => window[i].age <= age

SignalInv == StreamOK /\ ArrivalsKnown /\ DegradedKnown

\* The smaller of two numbers.
LEMMA MinOfTwo ==
    ASSUME NEW a \in Int, NEW b \in Int
    PROVE  Min({a, b}) = IF a <= b THEN a ELSE b
  <1>1. \E x \in {a, b} : \A y \in {a, b} : x <= y
    OBVIOUS
  <1>2. Min({a, b}) \in {a, b} /\ \A y \in {a, b} : Min({a, b}) <= y
    BY <1>1 DEF Min
  <1>3. QED
    BY <1>2

\* The rest of a sequence.
LEMMA RestOfSeq ==
    ASSUME NEW E, NEW s \in Seq(E), NEW n \in 0..Len(s)
    PROVE  /\ SubSeq(s, n + 1, Len(s)) \in Seq(E)
           /\ Len(SubSeq(s, n + 1, Len(s))) = Len(s) - n
           /\ \A i \in 1..(Len(s) - n) : SubSeq(s, n + 1, Len(s))[i] = s[n + i]
  <1>1. Len(s) \in Nat /\ \A i \in 1..Len(s) : s[i] \in E
    OBVIOUS
  <1>2. QED
    BY <1>1

\* What a prune leaves is of what it was given, and in the window.
LEMMA PruneKeeps ==
    ASSUME NEW entries \in Seq(AgedEntry), Prune(entries)
    PROVE  /\ window' \in Seq(Entry)
           /\ \A i \in DOMAIN window' : \E j \in DOMAIN entries : window'[i] = entries[j]
  <1>1. PICK n \in 0..Len(entries) :
            /\ \A i \in (n + 1)..Len(entries) : InWindow(entries[i])
            /\ window' = SubSeq(entries, n + 1, Len(entries))
    BY DEF Prune
  <1>2. /\ Len(window') = Len(entries) - n
        /\ \A i \in 1..Len(window') : window'[i] = entries[n + i]
        /\ window' \in Seq(AgedEntry)
    BY <1>1, RestOfSeq
  <1>3. Len(window') \in Nat /\ DOMAIN window' = 1..Len(window')
    BY <1>2
  <1>4. ASSUME NEW i \in DOMAIN window'
        PROVE  n + i \in DOMAIN entries /\ window'[i] = entries[n + i] /\ window'[i] \in Entry
    <2>1. n + i \in (n + 1)..Len(entries) /\ n + i \in DOMAIN entries
      BY <1>1, <1>2, <1>3
    <2>2. window'[i] = entries[n + i]
      BY <1>2, <1>3
    <2>3. entries[n + i].age <= Window
      BY <1>1, <2>1 DEF InWindow
    <2>4. entries[n + i] \in AgedEntry
      BY <2>1
    <2>5. entries[n + i] \in Entry
      BY <2>3, <2>4 DEF Entry, AgedEntry
    <2>6. QED
      BY <2>1, <2>2, <2>5
  <1>5. window' \in Seq(Entry)
    BY <1>2, <1>3, <1>4
  <1>6. QED
    BY <1>4, <1>5

\* The window of the next unit, before the prune.
LEMMA AgedWindow ==
    ASSUME window \in Seq(Entry)
    PROVE  /\ [i \in DOMAIN window |-> Older(window[i])] \in Seq(AgedEntry)
           /\ \A i \in DOMAIN window : /\ Older(window[i]).o = window[i].o
                                       /\ Older(window[i]).age = window[i].age + 1
  <1>1. /\ DOMAIN window = 1..Len(window) /\ Len(window) \in Nat
        /\ \A i \in DOMAIN window : window[i] \in Entry
    OBVIOUS
  <1>2. ASSUME NEW i \in DOMAIN window
        PROVE  /\ Older(window[i]) \in AgedEntry
               /\ Older(window[i]).o = window[i].o
               /\ Older(window[i]).age = window[i].age + 1
    BY <1>1, <1>2 DEF Older, Entry, AgedEntry
  <1>3. [i \in DOMAIN window |-> Older(window[i])] \in Seq(AgedEntry)
    BY <1>1, <1>2
  <1>4. QED
    BY <1>2, <1>3

\* The ages of a window are numbers up to the window's width.
LEMMA EntryAges ==
    ASSUME NEW w \in Seq(Entry), NEW i \in DOMAIN w
    PROVE  w[i].age \in Nat /\ w[i].age <= Window
  <1>1. w[i] \in Entry
    OBVIOUS
  <1>2. QED
    BY <1>1 DEF Entry

\* Observations that arrive are entries.
LEMMA ArriveType ==
    ASSUME window \in Seq(Entry), NEW os \in Seq(Built)
    PROVE  /\ Arrive(os) \in Seq(Entry)
           /\ \A i \in DOMAIN Arrive(os) :
                  Arrive(os)[i].age = 0 \/ (i \in DOMAIN window /\ Arrive(os)[i] = window[i])
  <1> DEFINE new == [i \in DOMAIN os |-> Arrival(os[i])]
  <1>1. /\ Len(os) \in Nat /\ DOMAIN os = 1..Len(os) /\ \A i \in DOMAIN os : os[i] \in Built
        /\ Len(window) \in Nat /\ DOMAIN window = 1..Len(window)
    OBVIOUS
  <1>2. ASSUME NEW i \in DOMAIN os
        PROVE  Arrival(os[i]) \in Entry /\ Arrival(os[i]).age = 0
    BY <1>1 DEF Arrival, Entry
  <1>3. new \in Seq(Entry) /\ Len(new) = Len(os) /\ \A i \in 1..Len(os) : new[i].age = 0
    <2>1. \A i \in 1..Len(os) : Arrival(os[i]) \in Entry
      BY <1>1, <1>2
    <2>2. new \in Seq(Entry) /\ Len(new) = Len(os)
      BY <1>1, <2>1
    <2>3. \A i \in 1..Len(os) : new[i].age = 0
      BY <1>1, <1>2
    <2>4. QED
      BY <2>2, <2>3
  <1>4. Arrive(os) = window \o new
    BY DEF Arrive
  <1> HIDE DEF new
  <1>5. window \o new \in Seq(Entry) /\ Len(window \o new) = Len(window) + Len(os)
    <2>1. /\ window \o new \in Seq(Entry)
          /\ Len(window \o new) = Len(window) + Len(new)
      BY <1>3, ConcatProperties, Zenon
    <2>2. QED
      BY <1>3, <2>1
  <1>6. ASSUME NEW i \in 1..(Len(window) + Len(os))
        PROVE  \/ (window \o new)[i].age = 0
               \/ i \in DOMAIN window /\ (window \o new)[i] = window[i]
    <2>1. CASE i <= Len(window)
      <3>1. i \in 1..Len(window)
        BY <1>1, <2>1
      <3>2. (window \o new)[i] = window[i]
        BY <1>3, <3>1, ConcatProperties
      <3>3. QED
        BY <1>1, <3>1, <3>2
    <2>2. CASE i > Len(window)
      <3>1. i - Len(window) \in 1..Len(os)
        BY <1>1, <2>2
      <3>2. (window \o new)[i] = new[i - Len(window)]
        BY <1>1, <1>3, <2>2, ConcatProperties
      <3>3. QED
        BY <1>3, <3>1, <3>2
    <2>3. i <= Len(window) \/ i > Len(window)
      BY <1>1
    <2>4. QED
      BY <2>1, <2>2, <2>3
  <1>7. QED
    BY <1>4, <1>5, <1>6

\* What input-cv hands to paho is an observation of a scene, or the last one of
\* DeepStream, again.
LEMMA CvStream ==
    ASSUME StreamOK, CvStep \/ CvStart \/ CvRestarts
    PROVE  StreamOK'
  <1> USE DEF StreamOK
  <1>1. UNCHANGED <<window, age, arrived>>
    BY DEF CvStep, CvStart, CvRestarts, stateVars, optVars
  <1>2. ASSUME NEW o \in Built, Publish(o)
        PROVE  outbox' \in Seq(Built)
    BY <1>2 DEF Publish
  <1>3. camera \in Scenes => Observed(camera) \in Built
    BY DEF Built
  <1>4. /\ cv' = [at |-> cv'.at, attempt |-> cv'.attempt, wait |-> cv'.wait, latest |-> cv'.latest]
        /\ cv'.latest \in Built \cup {None}
    <2>1. CASE CvStart \/ CvRestarts
      BY <2>1 DEF CvStart, CvRestarts, Starting
    <2>2. CASE Open \/ Sleep \/ ReadError
      <3>1. CASE Wait
        BY <3>1 DEF Wait
      <3>2. CASE Open /\ ~Wait
        BY <3>2 DEF Open
      <3>3. CASE Sleep
        BY <3>3 DEF Sleep
      <3>4. QED
        BY <2>2, <3>1, <3>2, <3>3 DEF ReadError
    <2>3. CASE ReadScene
      BY <1>3, <2>3 DEF ReadScene
    <2>4. CASE ReadAgain
      BY <2>4 DEF ReadAgain
    <2>5. QED
      BY <2>1, <2>2, <2>3, <2>4 DEF CvStep
  <1>5. outbox' \in Seq(Built)
    <2>1. CASE CvStart \/ CvRestarts
      <3>1. outbox' = outbox \/ outbox' = << >>
        BY <2>1 DEF CvStart, CvRestarts
      <3>2. QED
        BY <3>1, EmptySeq
    <2>2. CASE Open \/ Sleep \/ ReadError
      <3>1. UNCHANGED outbox
        BY <2>2, Zenon DEF Open, Sleep, ReadError
      <3>2. QED
        BY <3>1
    <2>3. CASE ReadScene
      BY <1>2, <1>3, <2>3 DEF ReadScene
    <2>4. CASE ReadAgain
      BY <1>2, <2>4 DEF ReadAgain
    <2>5. QED
      BY <2>1, <2>2, <2>3, <2>4 DEF CvStep
  <1>6. QED
    BY <1>1, <1>4, <1>5

\* Time goes on: everything is a unit older, and what is too old is gone.
LEMMA TickSignal ==
    ASSUME SignalInv, Tick
    PROVE  SignalInv'
  <1> USE DEF SignalInv
  <1>0. age \in Int /\ age + 1 \in Int /\ arrived \in Int /\ arrived + 1 \in Int
        /\ Stale + 1 \in Int /\ Window + Stale + 1 \in Int
    BY DEF StreamOK
  <1> DEFINE aged == [i \in DOMAIN window |-> Older(window[i])]
  <1>1. UNCHANGED <<cv, outbox, latest>>
    BY DEF Tick, cvVars
  <1>2. /\ age' \in 0..(Stale + 1)
        /\ latest # None /\ age' <= Stale => age' = age + 1
    <2>1. Min({age + 1, Stale + 1}) = IF age + 1 <= Stale + 1 THEN age + 1 ELSE Stale + 1
      BY <1>0, MinOfTwo
    <2>2. age' = IF latest = None THEN 0 ELSE Min({age + 1, Stale + 1})
      BY DEF Tick
    <2>3. QED
      BY <2>1, <2>2 DEF StreamOK
  <1>3. arrived' \in 0..(Window + Stale + 1) /\ arrived' <= arrived + 1
    <2>1. arrived' = Min({arrived + 1, Window + Stale + 1})
      BY DEF Tick
    <2>2. arrived' = IF arrived + 1 <= Window + Stale + 1 THEN arrived + 1
                     ELSE Window + Stale + 1
      BY <1>0, <2>1, MinOfTwo
    <2>3. QED
      BY <2>2 DEF StreamOK
  <1>4. /\ window' \in Seq(Entry)
        /\ \A i \in DOMAIN window' : \E j \in DOMAIN window :
               window'[i].o = window[j].o /\ window'[i].age = window[j].age + 1
    <2>1. aged \in Seq(AgedEntry) /\ Prune(aged)
      BY AgedWindow DEF Tick, StreamOK
    <2>2. /\ window' \in Seq(Entry)
          /\ \A i \in DOMAIN window' : \E j \in DOMAIN aged : window'[i] = aged[j]
      BY <2>1, PruneKeeps
    <2>3. \A j \in DOMAIN window : /\ aged[j].o = window[j].o
                                   /\ aged[j].age = window[j].age + 1
      BY AgedWindow DEF StreamOK
    <2>4. QED
      BY <2>2, <2>3
  <1>5. \A j \in DOMAIN window : window[j].age \in Nat
    BY EntryAges DEF StreamOK
  <1>6. StreamOK'
    BY <1>1, <1>2, <1>3, <1>4 DEF StreamOK
  <1>7. \A i \in DOMAIN window' : arrived' <= window'[i].age
    <2> SUFFICES ASSUME NEW i \in DOMAIN window' PROVE arrived' <= window'[i].age
      OBVIOUS
    <2>1. PICK j \in DOMAIN window : window'[i].age = window[j].age + 1
      BY <1>4
    <2>2. arrived <= window[j].age
      BY DEF ArrivalsKnown
    <2>3. QED
      BY <1>0, <1>3, <1>5, <2>1, <2>2
  <1>8. latest' # None /\ age' <= Stale => arrived' <= Window + age'
    BY <1>0, <1>1, <1>2, <1>3 DEF ArrivalsKnown
  <1>9. ASSUME latest # None, age' <= Stale, ~latest.degraded, NEW i \in DOMAIN window',
               window'[i].o.degraded
        PROVE  window'[i].age <= age'
    <2>1. PICK j \in DOMAIN window :
              window'[i].o = window[j].o /\ window'[i].age = window[j].age + 1
      BY <1>4
    <2>2. age' = age + 1
      BY <1>2, <1>9
    <2>3. window[j].age <= age
      BY <1>0, <1>9, <2>1, <2>2 DEF DegradedKnown
    <2>4. QED
      BY <1>0, <1>5, <2>1, <2>2, <2>3
  <1>10. DegradedKnown'
    BY <1>1, <1>9 DEF DegradedKnown
  <1>11. QED
    BY <1>6, <1>7, <1>8, <1>10 DEF ArrivalsKnown

\* A new signal tells what is in the window, and one is built of no empty one.
LEMMA PublishSignalSignal ==
    ASSUME SignalInv, PublishSignal
    PROVE  SignalInv'
  <1> USE DEF SignalInv
  <1>1. UNCHANGED <<cv, outbox, window, arrived>>
    BY DEF PublishSignal, cvVars, stateVars
  <1>2. CASE UNCHANGED <<latest, age>>
    BY <1>1, <1>2 DEF StreamOK, ArrivalsKnown, DegradedKnown
  <1>3. CASE window # << >> /\ latest' = BuildSignal(ObservationsOf(window)) /\ age' = 0
    <2>1. /\ DOMAIN window = 1..Len(window) /\ Len(window) \in Nat /\ Len(window) # 0
          /\ \A i \in DOMAIN window : window[i] \in Entry
      BY <1>3 DEF StreamOK
    <2>2. DOMAIN ObservationsOf(window) = DOMAIN window
          /\ \A i \in DOMAIN window : ObservationsOf(window)[i] = window[i].o
      BY DEF ObservationsOf
    <2>3. ObservationsOf(window) # << >>
      BY <2>1, <2>2
    <2>4. latest'.degraded = AnyDegraded(ObservationsOf(window))
      BY <1>3, <2>3 DEF BuildSignal
    <2>5. DegradedKnown'
      BY <1>1, <2>2, <2>4 DEF DegradedKnown, AnyDegraded
    <2>6. arrived <= Window
      <3>1. 1 \in DOMAIN window
        BY <2>1
      <3>2. arrived <= window[1].age /\ window[1].age <= Window /\ window[1].age \in Nat
        BY <3>1, EntryAges DEF ArrivalsKnown, StreamOK
      <3>3. QED
        BY <3>2 DEF StreamOK
    <2>7. ArrivalsKnown'
      BY <1>1, <1>3, <2>6 DEF ArrivalsKnown, StreamOK
    <2>8. StreamOK'
      BY <1>1, <1>3 DEF StreamOK
    <2>9. QED
      BY <2>5, <2>7, <2>8
  <1>4. QED
    BY <1>2, <1>3 DEF PublishSignal

\* What arrives is as young as can be.
LEMMA DeliverSignal ==
    ASSUME SignalInv, Deliver
    PROVE  SignalInv'
  <1> USE DEF SignalInv
  <1>1. UNCHANGED <<cv, latest, age>> /\ outbox' = << >>
    BY DEF Deliver, optVars
  <1>2. CASE UNCHANGED <<window, arrived>>
    BY <1>1, <1>2, EmptySeq DEF StreamOK, ArrivalsKnown, DegradedKnown
  <1>3. CASE window' = Arrive(outbox) /\ arrived' = 0
    <2>1. window' \in Seq(Entry)
      BY <1>3, ArriveType DEF StreamOK
    <2>2. \A i \in DOMAIN window' :
              window'[i].age = 0 \/ (i \in DOMAIN window /\ window'[i] = window[i])
      BY <1>3, ArriveType DEF StreamOK
    <2>3. \A i \in DOMAIN window' : window'[i].age \in Nat
      BY <2>1, EntryAges
    <2>4. StreamOK'
      BY <1>1, <1>3, <2>1, EmptySeq DEF StreamOK
    <2>5. ArrivalsKnown'
      BY <1>1, <1>3, <2>3 DEF ArrivalsKnown, StreamOK
    <2>6. DegradedKnown'
      BY <1>1, <2>2 DEF DegradedKnown, StreamOK
    <2>7. QED
      BY <2>4, <2>5, <2>6
  <1>4. QED
    BY <1>2, <1>3 DEF Deliver

\* A process has received nothing and sends nothing when it starts.
LEMMA InitSignal == Init => SignalInv
  <1> SUFFICES ASSUME Init PROVE SignalInv
    OBVIOUS
  <1>1. StreamOK
    BY EmptySeq DEF Init, StreamOK, Starting
  <1>2. QED
    BY <1>1 DEF Init, SignalInv, ArrivalsKnown, DegradedKnown

\* Every loop, connection, disturbance and unit of time keeps the invariant.
LEMMA NextSignal == SignalInv /\ [Next]_vars => SignalInv'
  <1> SUFFICES ASSUME SignalInv, [Next]_vars
               PROVE  SignalInv'
    OBVIOUS
  <1>1. ASSUME UNCHANGED <<cv, outbox>>, UNCHANGED <<window, latest, age, arrived>>
        PROVE  SignalInv'
    BY <1>1 DEF SignalInv, StreamOK, ArrivalsKnown, DegradedKnown
  <1>2. CASE CvStep \/ CvStart \/ CvRestarts
    <2>1. UNCHANGED <<window, latest, age, arrived>>
      BY <1>2 DEF CvStep, CvStart, CvRestarts, stateVars, optVars
    <2>2. QED
      BY <1>2, <2>1, CvStream DEF SignalInv, ArrivalsKnown, DegradedKnown
  <1>3. CASE AudienceStateRestarts
    <2>1. UNCHANGED <<cv, outbox, latest, age, arrived>> /\ window' = << >>
      BY <1>3 DEF AudienceStateRestarts, cvVars, optVars
    <2>2. StreamOK'
      BY <2>1, EmptySeq DEF SignalInv, StreamOK
    <2>3. QED
      BY <2>1, <2>2 DEF SignalInv, ArrivalsKnown, DegradedKnown
  <1>4. CASE OptimizerRestarts
    <2>1. UNCHANGED <<cv, outbox, window, arrived>> /\ latest' = None /\ age' = 0
      BY <1>4 DEF OptimizerRestarts, cvVars, stateVars
    <2>2. QED
      BY <2>1 DEF SignalInv, StreamOK, ArrivalsKnown, DegradedKnown
  <1>5. CASE CvReconnect \/ SubConnect \/ PubConnect \/ OptConnect \/ Decide
    BY <1>1, <1>5 DEF CvReconnect, SubConnect, PubConnect, OptConnect, Decide, cvVars,
       stateVars, optVars
  <1>6. CASE BrokerFails \/ BrokerReturns \/ UNCHANGED vars
    BY <1>1, <1>6 DEF BrokerFails, BrokerReturns, vars, cvVars, stateVars, optVars
  <1>7. ASSUME NEW c, CameraChanges(c)
        PROVE  SignalInv'
    BY <1>1, <1>7 DEF CameraChanges, cvVars, stateVars, optVars
  <1>8. QED
    BY <1>2, <1>3, <1>4, <1>5, <1>6, <1>7, TickSignal, PublishSignalSignal, DeliverSignal
       DEF Next, Restarts

-------------------------------------------------------------------------------
(***************************************************************************)
(* The processes, their connections and the backoff                        *)
(***************************************************************************)
\* What TypeOK says besides StreamOK.
ProcessesOK ==
    /\ setting \in Settings
    /\ camera \in Scenes \cup {"stalled", "absent"}
    /\ cv.at \in {"start", "opening", "waiting", "reading"}
    /\ cv.attempt \in 0..MaxBackoff /\ cv.wait \in 0..MaxBackoff
    /\ cv.at = "waiting" => cv.wait > 0
    /\ Len(outbox) <= MaxOutbox
    /\ cvLink \in BOOLEAN /\ broker \in BOOLEAN /\ sub \in BOOLEAN /\ opt \in BOOLEAN
    /\ pub \in {"connecting", "connected", "dead"}
    /\ decision \in {"none", "hold", "freeze", "act"}
    /\ due \subseteq Loops

\* A power of two is positive: it counts the subsets of a set.
LEMMA PowerOfTwo ==
    ASSUME NEW n \in Nat
    PROVE  2^n \in Nat \ {0}
  <1>1. IsFiniteSet(1..n) /\ Cardinality(1..n) = n
    BY FS_Interval
  <1>2. IsFiniteSet(SUBSET (1..n)) /\ Cardinality(SUBSET (1..n)) = 2^n
    BY <1>1, FS_SUBSET
  <1>3. SUBSET (1..n) # {}
    OBVIOUS
  <1>4. Cardinality(SUBSET (1..n)) \in Nat /\ Cardinality(SUBSET (1..n)) # 0
    BY <1>2, <1>3, FS_CardinalityType, FS_EmptySet
  <1>5. QED
    BY <1>2, <1>4

\* A wait is never nothing and never above the ceiling, however often it failed.
LEMMA BackoffBounds ==
    ASSUME NEW attempt \in Nat
    PROVE  Backoff(attempt) \in 1..MaxBackoff /\ NextAttempt(attempt) \in 0..MaxBackoff
  <1>1. 2^attempt \in Nat \ {0} /\ MaxBackoff \in Nat \ {0}
    BY PowerOfTwo DEF PipelineAssumption
  <1>2. Backoff(attempt) = IF 2^attempt <= MaxBackoff THEN 2^attempt ELSE MaxBackoff
    BY <1>1, MinOfTwo DEF Backoff
  <1>3. NextAttempt(attempt) = IF attempt + 1 <= MaxBackoff THEN attempt + 1 ELSE MaxBackoff
    BY <1>1, MinOfTwo DEF NextAttempt
  <1>4. QED
    BY <1>1, <1>2, <1>3

\* What is queued for the broker is never more than paho keeps.
LEMMA PublishBounds ==
    ASSUME StreamOK, ProcessesOK, NEW o \in Built, Publish(o)
    PROVE  Len(outbox') <= MaxOutbox
  <1>1. outbox \in Seq(Built) /\ Len(outbox) \in Nat
    BY DEF StreamOK
  <1>2. CASE Len(outbox) < MaxOutbox
    <2>1. outbox' = Append(outbox, o)
      BY <1>2 DEF Publish
    <2>2. Len(outbox') = Len(outbox) + 1
      BY <1>1, <2>1, AppendProperties
    <2>3. QED
      BY <1>1, <1>2, <2>2 DEF PipelineAssumption
  <1>3. CASE ~(Len(outbox) < MaxOutbox)
    BY <1>3 DEF Publish, ProcessesOK
  <1>4. QED
    BY <1>2, <1>3

\* The camera loop opens, sleeps and reads.
LEMMA CvStepProcesses ==
    ASSUME StreamOK, ProcessesOK, CvStep
    PROVE  ProcessesOK'
  <1>1. /\ UNCHANGED <<setting, camera, cvLink, broker, sub, opt, pub, decision>>
        /\ due' \subseteq Loops
    BY DEF CvStep, Turn, ProcessesOK, stateVars, optVars
  <1> DEFINE CvOK == /\ cv'.at \in {"start", "opening", "waiting", "reading"}
                     /\ cv'.attempt \in 0..MaxBackoff /\ cv'.wait \in 0..MaxBackoff
                     /\ cv'.at = "waiting" => cv'.wait > 0
             OutboxOK == Len(outbox') <= MaxOutbox
  <1>2. SUFFICES CvOK /\ OutboxOK
    BY <1>1 DEF ProcessesOK
  <1>3. cv = [at |-> cv.at, attempt |-> cv.attempt, wait |-> cv.wait, latest |-> cv.latest]
    BY DEF StreamOK
  <1>4. cv.attempt \in Nat /\ cv.wait \in Nat /\ MaxBackoff \in Nat
    BY DEF ProcessesOK, PipelineAssumption
  <1>5. ASSUME Wait PROVE CvOK
    <2>1. cv'.at = "waiting" /\ cv'.wait = Backoff(cv.attempt) /\ cv'.attempt = NextAttempt(cv.attempt)
      BY <1>3, <1>5 DEF Wait
    <2>2. QED
      BY <1>4, <2>1, BackoffBounds
  <1>6. camera \in Scenes => Observed(camera) \in Built
    BY DEF Built
  <1>7. CASE Open
    <2>1. OutboxOK
      BY <1>7 DEF Open, ProcessesOK
    <2>2. CASE cv' = [cv EXCEPT !.at = "reading", !.attempt = 0]
      BY <1>3, <1>4, <2>1, <2>2 DEF ProcessesOK
    <2>3. QED
      BY <1>5, <1>7, <2>1, <2>2 DEF Open
  <1>8. CASE Sleep
    <2>1. /\ cv'.wait = cv.wait - 1 /\ cv'.attempt = cv.attempt
          /\ cv'.at = IF cv.wait = 1 THEN "opening" ELSE "waiting"
      BY <1>3, <1>8 DEF Sleep
    <2>2. cv.wait > 0
      BY <1>8 DEF Sleep, ProcessesOK
    <2>3. CvOK
      BY <1>4, <2>1, <2>2 DEF ProcessesOK
    <2>4. OutboxOK
      BY <1>8 DEF Sleep, ProcessesOK
    <2>5. QED
      BY <2>3, <2>4
  <1>9. CASE ReadScene
    <2>1. cv'.at = cv.at /\ cv'.attempt = cv.attempt /\ cv'.wait = cv.wait
      BY <1>3, <1>9 DEF ReadScene
    <2>2. CvOK
      BY <2>1 DEF ProcessesOK
    <2>3. OutboxOK
      BY <1>6, <1>9, PublishBounds DEF ReadScene
    <2>4. QED
      BY <2>2, <2>3
  <1>10. CASE ReadError
    <2>1. OutboxOK
      BY <1>10 DEF ReadError, ProcessesOK
    <2>2. QED
      BY <1>5, <1>10, <2>1 DEF ReadError
  <1>11. CASE ReadAgain
    <2>1. CvOK
      BY <1>11 DEF ReadAgain, ProcessesOK
    <2>2. OutboxOK
      <3>1. CASE UNCHANGED outbox
        BY <3>1 DEF ProcessesOK
      <3>2. CASE cv.latest # None /\ Publish(cv.latest)
        BY <3>2, PublishBounds DEF StreamOK
      <3>3. QED
        BY <1>11, <3>1, <3>2 DEF ReadAgain
    <2>3. QED
      BY <2>1, <2>2
  <1>12. QED
    BY <1>7, <1>8, <1>9, <1>10, <1>11 DEF CvStep

\* The processes start with nothing, at a camera.
LEMMA InitProcesses == Init => ProcessesOK
  <1> SUFFICES ASSUME Init PROVE ProcessesOK
    OBVIOUS
  <1>1. Len(outbox) = 0
    BY EmptySeq DEF Init
  <1>2. cv.at = "start" /\ cv.attempt = 0 /\ cv.wait = 0
    BY DEF Init, Starting
  <1>3. MaxBackoff \in Nat /\ MaxOutbox \in Nat
    BY DEF PipelineAssumption
  <1>4. /\ setting \in Settings /\ camera \in Scenes \cup {"stalled", "absent"}
        /\ cvLink \in BOOLEAN /\ broker \in BOOLEAN /\ sub \in BOOLEAN /\ opt \in BOOLEAN
        /\ pub = "connecting" /\ decision = "none" /\ due = Loops
    BY DEF Init
  <1>5. QED
    BY <1>1, <1>2, <1>3, <1>4 DEF ProcessesOK

\* Connections, disturbances and the other loops leave every process at a place it
\* knows.
LEMMA NextProcesses == StreamOK /\ ProcessesOK /\ [Next]_vars => ProcessesOK'
  <1> SUFFICES ASSUME StreamOK, ProcessesOK, [Next]_vars PROVE ProcessesOK'
    OBVIOUS
  <1> USE DEF ProcessesOK
  <1>0. cv = [at |-> cv.at, attempt |-> cv.attempt, wait |-> cv.wait, latest |-> cv.latest]
    BY DEF StreamOK
  <1>1. CASE CvStart
    <2>1. /\ cv'.at = "opening" /\ cv'.attempt = cv.attempt /\ cv'.wait = cv.wait
          /\ cvLink' = TRUE
      BY <1>0, <1>1 DEF CvStart
    <2>2. QED
      BY <1>1, <2>1 DEF CvStart, stateVars, optVars
  <1>2. CASE CvStep
    BY <1>2, CvStepProcesses
  <1>3. CASE CvReconnect \/ SubConnect \/ PubConnect \/ OptConnect \/ BrokerReturns
    BY <1>3 DEF CvReconnect, SubConnect, PubConnect, OptConnect, BrokerReturns, cvVars, stateVars,
       optVars
  <1>4. CASE Deliver
    <2>1. Len(outbox') = 0
      BY <1>4, EmptySeq DEF Deliver
    <2>2. QED
      BY <1>4, <2>1 DEF Deliver, optVars, PipelineAssumption
  <1>5. CASE PublishSignal
    BY <1>5 DEF PublishSignal, Turn, cvVars, stateVars
  <1>6. CASE Decide
    <2>1. decision' \in {"hold", "freeze", "act"}
      BY <1>6, Zenon DEF Decide
    <2>2. QED
      BY <1>6, <2>1 DEF Decide, Turn, cvVars, stateVars
  <1>7. ASSUME NEW c \in Scenes \cup {"stalled", "absent"}, CameraChanges(c) PROVE ProcessesOK'
    BY <1>7 DEF CameraChanges, cvVars, stateVars, optVars
  <1>8. CASE BrokerFails
    BY <1>8 DEF BrokerFails
  <1>9. CASE CvRestarts
    <2>1. Len(outbox') = 0
      BY <1>9, EmptySeq DEF CvRestarts
    <2>2. cv'.at = "start" /\ cv'.attempt = 0 /\ cv'.wait = 0
      BY <1>9 DEF CvRestarts, Starting
    <2>3. MaxBackoff \in Nat /\ MaxOutbox \in Nat
      BY DEF PipelineAssumption
    <2>4. UNCHANGED <<setting, camera, broker, sub, opt, pub, decision, due>> /\ cvLink' \in BOOLEAN
      BY <1>9 DEF CvRestarts, stateVars, optVars
    <2>5. QED
      BY <2>1, <2>2, <2>3, <2>4
  <1>10. CASE AudienceStateRestarts \/ OptimizerRestarts
    BY <1>10 DEF AudienceStateRestarts, OptimizerRestarts, cvVars, stateVars, optVars
  <1>11. CASE Tick
    BY <1>11 DEF Tick, cvVars
  <1>12. CASE UNCHANGED vars
    BY <1>12 DEF vars, cvVars, stateVars, optVars
  <1>13. QED
    BY <1>1, <1>2, <1>3, <1>4, <1>5, <1>6, <1>7, <1>8, <1>9, <1>10, <1>11, <1>12
       DEF Next, Restarts

\* Every process is at a place it knows, waits for a time between one unit and the
\* ceiling before it tries the camera again (next_backoff_seconds), and every queue
\* and age keeps its bound, whatever fails and restarts.
THEOREM TypeCorrect == Spec => []TypeOK
  <1>1. StreamOK /\ ProcessesOK => TypeOK
    BY DEF StreamOK, ProcessesOK, TypeOK, Entry
  <1>2. SignalInv /\ ProcessesOK /\ [Next]_vars => ProcessesOK'
    BY NextProcesses DEF SignalInv
  <1>3. SignalInv => StreamOK
    BY DEF SignalInv
  <1>4. QED
    BY <1>1, <1>2, <1>3, InitSignal, NextSignal, InitProcesses, PTL DEF Spec

-------------------------------------------------------------------------------
(***************************************************************************)
(* What the decision loop acts on                                          *)
(***************************************************************************)
\* An act needs a signal that is not stale and reports no degraded pipeline.
LEMMA ActNeedsSignal ==
    ASSUME Decide, decision' = "act"
    PROVE  latest # None /\ ~(age > Stale) /\ ~latest.degraded
  BY DEF Decide, FreezeReason

\* The decision loop never acts on an audience nobody has been reporting for
\* longer than the window and the staleness threshold together, whichever of the
\* services between them was restarted or cut off.
THEOREM AlwaysActsOnRecentArrivals == Spec => ActsOnRecentArrivals
  <1>1. SignalInv /\ [Next]_vars => [Decide /\ decision' = "act" => arrived <= Window + Stale]_vars
    BY ActNeedsSignal DEF SignalInv, StreamOK, ArrivalsKnown
  <1>2. QED
    BY <1>1, InitSignal, NextSignal, PTL DEF Spec, ActsOnRecentArrivals

\* A degraded observation holds the player as long as it is in the window,
\* whatever better ones followed it, once the signal had the time to say so.
THEOREM DegradedAlwaysHolds == Spec => DegradedHolds
  <1>1. ASSUME SignalInv, Decide, decision' = "act", NEW i \in DOMAIN window,
               window[i].o.degraded
        PROVE  window[i].age <= Stale
    <2>1. window[i].age <= age /\ age <= Stale /\ window[i].age \in Nat
      BY <1>1, ActNeedsSignal, EntryAges DEF SignalInv, StreamOK, DegradedKnown
    <2>2. QED
      BY <1>1, <2>1 DEF SignalInv, StreamOK
  <1>2. SignalInv /\ [Next]_vars =>
            [Decide /\ decision' = "act" =>
                 \A i \in DOMAIN window : window[i].o.degraded => window[i].age <= Stale]_vars
    BY <1>1
  <1>3. QED
    BY <1>2, InitSignal, NextSignal, PTL DEF Spec, DegradedHolds
===============================================================================
