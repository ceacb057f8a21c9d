---------------------------- MODULE AudiencePipeline ----------------------------
(***************************************************************************)
(* From the camera to the decision loop: input-cv's supervision loop and   *)
(* its MQTT client, audience-state's subscriber, window and publish loop,  *)
(* and the optimizer's signal consumer with the tick that asks it.         *)
(*                                                                         *)
(* A unit of time is the publish interval, which is the decision loop's    *)
(* too; in each unit input-cv, the publish loop and the decision loop take *)
(* one step, in any order.  The camera loop reads faster than that: what   *)
(* it reads in a unit is one observation here.  The broker hands over at   *)
(* once what it takes.                                                     *)
(***************************************************************************)
EXTENDS AudienceWindow

CONSTANTS
    Scenes,         \* what there is to see
    Observed(_),    \* the observation input-cv builds of a scene
    Window,         \* WINDOW_MS
    Stale,          \* STALE_SIGNAL_THRESHOLD_MS
    MaxBackoff,     \* max_backoff_ms, the initial one being one unit
    MaxOutbox,      \* bound on the observations that wait for the broker
    Settings        \* the drivers and disturbances an instance considers

Drivers == {"raises", "deepstream"}
FaultKinds == {"broker", "stall", "unplug", "input_cv", "audience_state", "optimizer"}

ASSUME PipelineAssumption ==
    /\ Window \in Nat /\ Stale \in Nat /\ MaxBackoff \in Nat \ {0}
    /\ MaxOutbox \in Nat \ {0}
    /\ MinStability \in Nat \ {0}
    /\ \A s \in Settings : s.driver \in Drivers /\ s.faults \subseteq FaultKinds

VARIABLES
    setting,    \* the PipelineDriver, one that raises on a stall or DeepStream, and
                \* the disturbances of this behaviour
    camera,     \* the scene before it, "stalled" or "absent"
    cv,         \* input-cv: [at, attempt, wait, latest]
    cvLink,     \* paho's connection
    outbox,     \* what paho has not sent
    broker,     \* it is up
    sub,        \* audience-state's subscription
    pub,        \* its publish loop's connection
    window,     \* _observations, as [o, age]
    opt,        \* the optimizer's subscription
    latest,     \* SignalConsumer._latest
    age,        \* the age of it
    decision,   \* what the last tick did
    due,        \* the loops that have not come round in this unit
    arrived     \* units since an observation arrived; only the properties look at it

cvVars == <<setting, cv, cvLink, outbox>>
stateVars == <<sub, pub, window, arrived>>
optVars == <<opt, latest, age, decision>>
vars == <<cvVars, camera, broker, stateVars, optVars, due>>

Loops == {"cv", "publish", "decide"}

\* Mutant: no ceiling.
BackoffUncapped(attempt) == 2^attempt

\* next_backoff_seconds; an attempt past the ceiling is as good as any other.
Backoff(attempt) == Min({2^attempt, MaxBackoff})

NextAttempt(attempt) == Min({attempt + 1, MaxBackoff})

Starting == [at |-> "start", attempt |-> 0, wait |-> 0, latest |-> None]

Init ==
    /\ setting \in Settings
    /\ camera \in Scenes
    /\ cv = Starting
    /\ cvLink = FALSE
    /\ outbox = << >>
    /\ broker = TRUE
    /\ sub = FALSE
    /\ pub = "connecting"
    /\ window = << >>
    /\ opt = FALSE
    /\ latest = None
    /\ age = 0
    /\ decision = "none"
    /\ due = Loops
    /\ arrived = Window + Stale + 1

Turn(l) == l \in due /\ due' = due \ {l}

-------------------------------------------------------------------------------
(***************************************************************************)
(* input-cv                                                                *)
(***************************************************************************)

\* connect() raises without a broker, and docker starts the process again.
CvStart ==
    /\ cv.at = "start"
    /\ broker
    /\ cv' = [cv EXCEPT !.at = "opening"]
    /\ cvLink' = TRUE
    /\ UNCHANGED <<setting, outbox, camera, broker, stateVars, optVars, due>>

\* wait_and_record
Wait == cv' = [cv EXCEPT !.at = "waiting", !.wait = Backoff(cv.attempt),
                         !.attempt = NextAttempt(cv.attempt)]

\* A stalled device still has its path.
Open ==
    /\ cv.at = "opening"
    /\ IF camera = "absent" THEN Wait ELSE cv' = [cv EXCEPT !.at = "reading", !.attempt = 0]
    /\ UNCHANGED outbox

Sleep ==
    /\ cv.at = "waiting"
    /\ cv' = [cv EXCEPT !.wait = @ - 1, !.at = IF cv.wait = 1 THEN "opening" ELSE "waiting"]
    /\ UNCHANGED outbox

\* MqttPublisher.publish, QoS 1: what cannot be sent is queued.
Publish(o) == outbox' = IF Len(outbox) < MaxOutbox THEN Append(outbox, o) ELSE outbox

\* The driver has a frame of the scene.
ReadScene ==
    /\ cv.at = "reading"
    /\ camera \in Scenes
    /\ cv' = [cv EXCEPT !.latest = IF setting.driver = "deepstream" THEN Observed(camera) ELSE None]
    /\ Publish(Observed(camera))

\* Mutant: a read error is passed over, the last frame counts once more.
ReadErrorPassedOver ==
    /\ cv.at = "reading"
    /\ camera \notin Scenes
    /\ setting.driver = "raises"
    /\ \E scene \in Scenes : Publish(Observed(scene))
    /\ UNCHANGED cv

\* PipelineReadError: close, and back to the reopen loop.
ReadError ==
    /\ cv.at = "reading"
    /\ camera \notin Scenes
    /\ setting.driver = "raises"
    /\ Wait
    /\ UNCHANGED outbox

\* DeepStream's read_metadata returns the last frame's metadata whatever happens.
ReadAgain ==
    /\ cv.at = "reading"
    /\ camera \notin Scenes
    /\ setting.driver = "deepstream"
    /\ IF cv.latest = None THEN UNCHANGED outbox ELSE Publish(cv.latest)
    /\ UNCHANGED cv

CvStep ==
    /\ Turn("cv")
    /\ Open \/ Sleep \/ ReadScene \/ ReadError \/ ReadAgain
    /\ UNCHANGED <<setting, cvLink, camera, broker, stateVars, optVars>>

\* paho's own thread.
CvReconnect ==
    /\ cv.at # "start"
    /\ broker /\ ~cvLink
    /\ cvLink' = TRUE
    /\ UNCHANGED <<setting, cv, outbox, camera, broker, stateVars, optVars, due>>

-------------------------------------------------------------------------------
(***************************************************************************)
(* audience-state                                                          *)
(***************************************************************************)

\* Mutant: the edge of the window does not belong to it.
InWindowOpen(entry) == entry.age < Window

\* _prune: received_at >= cutoff.
InWindow(entry) == entry.age <= Window

\* ObservationConsumer.process and add: the window counts from the arrival.
Arrival(o) == [o |-> o, age |-> 0]
Arrive(os) == window \o [i \in DOMAIN os |-> Arrival(os[i])]

\* paho sends what waits; nobody keeps it for a subscriber that is not there.
Deliver ==
    /\ cvLink /\ outbox # << >>
    /\ outbox' = << >>
    /\ IF sub THEN window' = Arrive(outbox) /\ arrived' = 0
       ELSE UNCHANGED <<window, arrived>>
    /\ UNCHANGED <<setting, cv, cvLink, camera, broker, sub, pub, optVars, due>>

SubConnect ==
    /\ broker /\ ~sub
    /\ sub' = TRUE
    /\ UNCHANGED <<cvVars, camera, broker, pub, window, arrived, optVars, due>>

\* The first connection of the publish loop; its error handler tries again.
PubConnect ==
    /\ broker /\ pub = "connecting"
    /\ pub' = "connected"
    /\ UNCHANGED <<cvVars, camera, broker, sub, window, arrived, optVars, due>>

ObservationsOf(entries) == [i \in DOMAIN entries |-> entries[i].o]

\* Mutant: an empty window repeats the last signal.
PublishSignalAgain ==
    /\ Turn("publish")
    /\ IF pub = "connected" /\ opt /\ (window # << >> \/ latest # None)
       THEN /\ latest' = IF window = << >> THEN latest ELSE BuildSignal(ObservationsOf(window))
            /\ age' = 0
       ELSE UNCHANGED <<latest, age>>
    /\ UNCHANGED <<cvVars, camera, broker, stateVars, opt, decision>>

\* One round of the publish loop.  A connection that was lost stays lost:
\* publish() catches the error that would have had the loop reconnect.
PublishSignal ==
    /\ Turn("publish")
    /\ IF pub = "connected" /\ opt /\ window # << >>
       THEN latest' = BuildSignal(ObservationsOf(window)) /\ age' = 0
       ELSE UNCHANGED <<latest, age>>
    /\ UNCHANGED <<cvVars, camera, broker, stateVars, opt, decision>>

-------------------------------------------------------------------------------
(***************************************************************************)
(* decision-optimizer                                                      *)
(***************************************************************************)
OptConnect ==
    /\ broker /\ ~opt
    /\ opt' = TRUE
    /\ UNCHANGED <<cvVars, camera, broker, stateVars, latest, age, decision, due>>

\* _freeze_reason
FreezeReason == age > Stale \/ latest.degraded \/ latest.freeze

Decide ==
    /\ Turn("decide")
    /\ decision' = CASE latest = None -> "hold"
                     [] latest # None /\ FreezeReason -> "freeze"
                     [] OTHER -> "act"
    /\ UNCHANGED <<cvVars, camera, broker, stateVars, opt, latest, age>>

-------------------------------------------------------------------------------
(***************************************************************************)
(* The rest of the world                                                   *)
(***************************************************************************)
\* Only the next read would tell a change after this unit's read from one before.
CameraChanges(c) ==
    /\ "cv" \in due
    /\ c # camera
    /\ \/ c \in Scenes
       \/ c = "stalled" /\ "stall" \in setting.faults
       \/ c = "absent" /\ "unplug" \in setting.faults
    /\ camera' = c
    /\ UNCHANGED <<cvVars, broker, stateVars, optVars, due>>

\* The connections drop with the broker.
BrokerFails ==
    /\ "broker" \in setting.faults
    /\ broker
    /\ broker' = FALSE
    /\ cvLink' = FALSE /\ sub' = FALSE /\ opt' = FALSE
    /\ pub' = IF pub = "connected" THEN "dead" ELSE pub
    /\ UNCHANGED <<setting, cv, outbox, camera, window, arrived, latest, age, decision, due>>

BrokerReturns ==
    /\ ~broker
    /\ broker' = TRUE
    /\ UNCHANGED <<cvVars, camera, stateVars, optVars, due>>

CvRestarts ==
    /\ "input_cv" \in setting.faults
    /\ cv # Starting
    /\ cv' = Starting
    /\ cvLink' = FALSE
    /\ outbox' = << >>
    /\ UNCHANGED <<setting, camera, broker, stateVars, optVars, due>>

AudienceStateRestarts ==
    /\ "audience_state" \in setting.faults
    /\ sub' = FALSE
    /\ pub' = "connecting"
    /\ window' = << >>
    /\ UNCHANGED <<cvVars, camera, broker, arrived, optVars, due>>

OptimizerRestarts ==
    /\ "optimizer" \in setting.faults
    /\ latest # None
    /\ opt' = FALSE
    /\ latest' = None /\ age' = 0
    /\ decision' = "none"
    /\ UNCHANGED <<cvVars, camera, broker, stateVars, due>>

Restarts == CvRestarts \/ AudienceStateRestarts \/ OptimizerRestarts

Older(entry) == [entry EXCEPT !.age = @ + 1]

\* _prune, of entries in the order of their arrival: the oldest go.
Prune(entries) ==
    \E n \in 0..Len(entries) :
        /\ \A i \in 1..n : ~InWindow(entries[i])
        /\ \A i \in (n + 1)..Len(entries) : InWindow(entries[i])
        /\ window' = SubSeq(entries, n + 1, Len(entries))

\* No loop is late by a unit, and what paho can send it has sent.
Tick ==
    /\ due \subseteq (IF cv.at = "start" THEN {"cv"} ELSE {})
    /\ ~(cvLink /\ outbox # << >>)
    /\ due' = Loops
    /\ Prune([i \in DOMAIN window |-> Older(window[i])])
    /\ age' = IF latest = None THEN 0 ELSE Min({age + 1, Stale + 1})
    /\ arrived' = Min({arrived + 1, Window + Stale + 1})
    /\ UNCHANGED <<cvVars, camera, broker, sub, pub, opt, latest, decision>>

Next ==
    \/ CvStart \/ CvStep \/ CvReconnect
    \/ Deliver \/ SubConnect \/ PubConnect \/ PublishSignal
    \/ OptConnect \/ Decide
    \/ \E c \in Scenes \cup {"stalled", "absent"} : CameraChanges(c)
    \/ BrokerFails \/ BrokerReturns
    \/ Restarts
    \/ Tick

Spec == Init /\ [][Next]_vars

\* Every loop runs for ever, every client that retries gets through to a broker
\* that stays, docker starts what ended.  Time goes on however often the broker
\* bounces.  The camera and the broker are owed nothing.
Fairness ==
    /\ WF_vars(CvStart) /\ WF_vars(CvStep) /\ WF_vars(CvReconnect)
    /\ WF_vars(Deliver) /\ WF_vars(SubConnect) /\ WF_vars(PubConnect)
    /\ WF_vars(PublishSignal) /\ WF_vars(OptConnect) /\ WF_vars(Decide)
    /\ SF_vars(Tick)

FairSpec == Spec /\ Fairness
-------------------------------------------------------------------------------
(***************************************************************************)
(* Properties                                                              *)
(***************************************************************************)
Built == {Observed(scene) : scene \in Scenes}

TypeOK ==
    /\ setting \in Settings
    /\ camera \in Scenes \cup {"stalled", "absent"}
    /\ cv \in [at : {"start", "opening", "waiting", "reading"}, attempt : 0..MaxBackoff,
               wait : 0..MaxBackoff, latest : Built \cup {None}]
    /\ cv.at = "waiting" => cv.wait > 0
    /\ outbox \in Seq(Built) /\ Len(outbox) <= MaxOutbox
    /\ cvLink \in BOOLEAN /\ broker \in BOOLEAN /\ sub \in BOOLEAN /\ opt \in BOOLEAN
    /\ pub \in {"connecting", "connected", "dead"}
    /\ window \in Seq([o : Built, age : 0..Window])
    /\ age \in 0..(Stale + 1)
    /\ decision \in {"none", "hold", "freeze", "act"}
    /\ due \subseteq Loops
    /\ arrived \in 0..(Window + Stale + 1)

\* The decision loop never acts on an audience nobody has been reporting for
\* longer than the window and the staleness threshold together, whichever of the
\* services between them was restarted or cut off (_freeze_reason, "Signal age
\* exceeds stale threshold").
ActsOnRecentArrivals ==
    [][Decide /\ decision' = "act" => arrived <= Window + Stale]_vars

\* A degraded observation holds the player as long as it is in the window,
\* whatever better ones followed it, once the signal had the time to say so
\* (_freeze_reason, "Upstream pipeline is degraded").
DegradedHolds ==
    [][Decide /\ decision' = "act" =>
           \A i \in DOMAIN window : window[i].o.degraded => window[i].age <= Stale]_vars

\* A camera that a driver reports as gone, or a publish loop that lost its
\* connection, ends in a player held for good, not in decisions about people who
\* left long ago.
SilenceFreezes ==
    /\ <>[](setting.driver = "raises" /\ camera \notin Scenes) => <>[](decision # "act")
    /\ <>[](pub = "dead") => <>[](decision # "act")

\* Once the disturbances end, decisions resume and go on without a freeze in
\* between, whatever the camera's backoff and the order of the loops, unless the
\* publish loop lost its connection (main.py of input-cv, "back to open/reopen
\* loop").
DecisionsResume ==
    /\ <>[](camera \in Scenes /\ broker /\ pub # "dead")
    /\ <>[](\A scene \in Scenes : camera = scene => ~Observed(scene).degraded)
    /\ <>[][~Restarts]_vars
    => <>[](decision = "act")
===============================================================================
