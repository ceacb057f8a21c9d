----------------------------- MODULE PlayerService ----------------------------
(***************************************************************************)
(* The player process: one asyncio event loop on which the WebSocket       *)
(* command handler, the HTTP control endpoint and the background loops     *)
(* call the one state machine and then drive the one display.              *)
(*                                                                         *)
(* A state machine call is atomic.  What follows it is not: showing        *)
(* something is two IPC messages to mpv and then up to two MQTT publishes, *)
(* and every one of these awaits lets another task run.  A task therefore  *)
(* walks through                                                           *)
(*    idle -> load -> loop -> report (-> activated) (-> remember) -> idle. *)
(*                                                                         *)
(* The filter on sequence numbers and command ids is CommandChannel's: a   *)
(* command here is one that passed it.  The manifest store is              *)
(* ManifestWorkflow's: here an activation may be for a manifest it does    *)
(* not hold or no longer accepts.  What the fallback library would select  *)
(* is the environment's choice whenever the code asks it.                  *)
(***************************************************************************)
EXTENDS Integers

CONSTANTS
    Manifests, None, DwellTimes, CooldownTimes, MaxTime,  \* PlayerStateMachine's
    Requests,           \* slots for concurrent HTTP control requests
    FallbackAssets,     \* assets the fallback library can hold
    LoopingManifests,   \* manifests whose first item has loop = true
    CachedManifests,    \* manifests whose asset is in ASSET_CACHE_PATH
    Blank,              \* mpv has nothing to show
    Faults              \* the disturbances an instance considers

FaultKinds ==
    {"clean_close", "process_death", "mpv_death", "ipc", "broker_drop"}

ASSUME ServiceAssumption ==
    /\ FallbackAssets # {}
    /\ LoopingManifests \subseteq Manifests
    /\ CachedManifests \subseteq Manifests
    /\ Manifests \cap FallbackAssets = {}
    /\ None \notin Manifests \cup FallbackAssets
    /\ Blank \notin Manifests \cup FallbackAssets
    /\ {"ws", "refresh"} \cap Requests = {}
    /\ Faults \subseteq FaultKinds

VARIABLES
    state, active, activatedAt, minDwell, cooldownForActive, cooldowns, now, result,
    running,    \* the process lives; docker restarts it when it does not
    task,       \* what each task of the event loop is in the middle of
    link,       \* the WebSocket session with decision-optimizer
    screen,     \* what mpv shows
    looping,    \* mpv's loop-file property is "inf"
    mpvUp,      \* the mpv child process lives
    bundle,     \* FallbackBundle.asset_path
    prev,       \* _prev_manifest_id
    mqtt,       \* the ICD-9 client: not set, connected, or set but disconnected
    view,       \* the creative that plays according to the events delivered
    undisturbed,  \* history, see there
    announced     \* history, see there

machine == <<state, active, activatedAt, minDwell, cooldownForActive, cooldowns, now, result>>
display == <<screen, looping, mpvUp>>
events == <<prev, mqtt, view>>
history == <<undisturbed, announced>>
vars == <<machine, running, task, link, display, bundle, events, history>>

SM == INSTANCE PlayerStateMachine

ASSUME MachineAssumption == SM!ConstantsAssumption

Tasks == {"ws", "refresh"} \cup Requests
IdleTask == [at |-> "idle", action |-> "hold", state |-> "fallback",
             manifest |-> None, asset |-> None]

AnyFallback == CHOOSE f \in FallbackAssets : TRUE

\* The steps of run() up to the command loop: no other task runs before them.
Init ==
    /\ SM!Init
    /\ running = TRUE
    /\ task = [t \in Tasks |-> IdleTask]
    /\ link = "down"
    /\ screen = AnyFallback
    /\ looping = TRUE
    /\ mpvUp = TRUE
    /\ bundle = AnyFallback
    /\ prev = None
    /\ mqtt = "off"
    /\ view = None
    /\ undisturbed = TRUE
    /\ announced = TRUE
-------------------------------------------------------------------------------
(***************************************************************************)
(* History.  No code reads these two variables, the properties do:         *)
(*   undisturbed  no other transition was under way when the latest one    *)
(*                began, and no message to mpv failed in it;               *)
(*   announced    this held of every transition since the process started  *)
(*                on a view that named no creative, or since a creative's  *)
(*                activation was delivered.                                *)
(***************************************************************************)
Alone(t) == \A u \in Tasks \ {t} : task[u].at = "idle"

NoteBegin(t) ==
    /\ undisturbed' = Alone(t)
    /\ announced' = (announced /\ Alone(t))

NoteFailure ==
    /\ undisturbed' = FALSE
    /\ announced' = FALSE

NoteActivation(t) ==
    /\ announced' = (announced \/ (undisturbed /\ mqtt = "live" /\ task[t].action = "play_manifest"))
    /\ UNCHANGED undisturbed

NoteRestart ==
    /\ undisturbed' = TRUE
    /\ announced' = (view = None)
-------------------------------------------------------------------------------
(***************************************************************************)
(* on_transition: the display, then the events                             *)
(***************************************************************************)

\* The synchronous start of on_transition(r) in task t.  The fallback path is
\* read here, before any await; "hold" needs neither the display nor, as far as
\* the impressions are concerned, an event.
Begin(t, r) ==
    \/ /\ r.action = "hold"
       /\ task' = [task EXCEPT ![t] = IdleTask]
       /\ UNCHANGED history
    \/ /\ r.action # "hold"
       /\ task' = [task EXCEPT ![t] =
              [at |-> "load", action |-> r.action, state |-> r.new_state, manifest |-> r.manifest,
               asset |-> IF r.action = "play_manifest" THEN r.manifest ELSE bundle]]
       /\ NoteBegin(t)

Goto(t, step) == task' = [task EXCEPT ![t].at = step]
Finish(t) == task' = [task EXCEPT ![t] = IdleTask]

\* loadfile ... replace: mpv is left idle when the file is not there.
Loaded(t) == IF task[t].asset \in FallbackAssets \cup CachedManifests THEN task[t].asset ELSE Blank

LoadFile(t) ==
    /\ running /\ mpvUp
    /\ task[t].at = "load"
    /\ screen' = Loaded(t)
    /\ Goto(t, "loop")
    /\ UNCHANGED <<machine, running, link, looping, mpvUp, bundle, events, history>>

\* Mutant: the loop flag of the manifest, which the fallback does not have.
SetLoopOfManifest(t) ==
    /\ running /\ mpvUp
    /\ task[t].at = "loop"
    /\ looping' = (task[t].manifest \in LoopingManifests)
    /\ IF t = "refresh" THEN Finish(t) ELSE Goto(t, "report")
    /\ UNCHANGED <<machine, running, link, screen, mpvUp, bundle, events, history>>

\* set_property loop-file, one global property of the mpv process.
LoopFlag(t) == task[t].asset \in FallbackAssets \cup LoopingManifests

SetLoop(t) ==
    /\ running /\ mpvUp
    /\ task[t].at = "loop"
    /\ looping' = LoopFlag(t)
    \* the refresh loop only draws; the other tasks go on to report
    /\ IF t = "refresh" THEN Finish(t) ELSE Goto(t, "report")
    /\ UNCHANGED <<machine, running, link, screen, mpvUp, bundle, events, history>>

\* The process ends: mpv is its child, the other tasks die with it.
Exit ==
    /\ running' = FALSE
    /\ mpvUp' = FALSE
    /\ screen' = Blank
    /\ task' = [t \in Tasks |-> IdleTask]
    /\ link' = "down"
    /\ UNCHANGED looping

\* A message that raised may have reached a living mpv, or not.
MessageTakenOrNot(t) ==
    \/ UNCHANGED display
    \/ /\ mpvUp /\ task[t].at = "load"
       /\ screen' = Loaded(t)
       /\ UNCHANGED <<looping, mpvUp>>
    \/ /\ mpvUp /\ task[t].at = "loop"
       /\ looping' = LoopFlag(t)
       /\ UNCHANGED <<screen, mpvUp>>

\* What play_manifest_item raises is caught, what show_fallback raises is not.
Rescuable(t) == task[t].action = "play_manifest" /\ task[t].asset \in Manifests

\* The fallback is shown instead, with the path it has by now.  The machine is
\* not told, and the transition is reported as the play_manifest it was.
ShowFallbackInstead(t) ==
    /\ task' = [task EXCEPT ![t].at = "load", ![t].asset = bundle]
    /\ MessageTakenOrNot(t)
    /\ UNCHANGED <<running, link>>

\* RendererError leaves the command handler's loop and with it the process; in a
\* control request it becomes a response with status 500.
TransitionFails(t) ==
    \/ t = "ws" /\ Exit
    \/ /\ t \in Requests
       /\ Finish(t)
       /\ MessageTakenOrNot(t)
       /\ UNCHANGED <<running, link>>

\* RendererError: mpv is dead, or its socket failed although it lives.
RendererFails(t) ==
    /\ running
    /\ ~mpvUp \/ "ipc" \in Faults
    /\ task[t].at \in {"load", "loop"}
    /\ IF Rescuable(t) THEN ShowFallbackInstead(t) ELSE TransitionFails(t)
    /\ NoteFailure
    /\ UNCHANGED <<machine, bundle, events>>

\* A publish reaches the broker only over a live connection.
Delivered(creative) == IF mqtt = "live" THEN creative ELSE view

\* A creative is on screen: the one before it ended, this one began.
\* _prev_manifest_id is read once, after the display was driven.  Without a
\* live client the publishes do not suspend and the report is one step.
ReportManifest(t) ==
    \/ /\ mqtt = "live"
       /\ IF prev \notin {None, task[t].manifest}
          THEN view' = None /\ Goto(t, "activated")
          ELSE view' = task[t].manifest /\ Goto(t, "remember")
       /\ UNCHANGED prev
    \/ /\ mqtt # "live"
       /\ prev' = task[t].manifest
       /\ Finish(t)
       /\ UNCHANGED view

\* Mutant: the creative that was replaced by the fallback is not reported.
ReportFallbackSilently(t) ==
    /\ prev' = None
    /\ Finish(t)
    /\ UNCHANGED view

\* The fallback is on screen: the creative before it, if any, ended.
ReportFallback(t) ==
    \/ /\ prev # None
       /\ view' = Delivered(None)
       /\ IF mqtt = "live"
          THEN Goto(t, "remember") /\ UNCHANGED prev
          ELSE Finish(t) /\ prev' = None
    \/ /\ prev = None
       /\ Finish(t)
       /\ UNCHANGED <<prev, view>>

Report(t) ==
    /\ running
    /\ task[t].at = "report"
    /\ \/ task[t].action = "play_manifest" /\ ReportManifest(t)
       \/ task[t].action = "show_fallback" /\ ReportFallback(t)
    /\ UNCHANGED <<machine, running, link, display, bundle, mqtt, history>>

ReportActivated(t) ==
    /\ running
    /\ task[t].at = "activated"
    /\ view' = Delivered(task[t].manifest)
    /\ Goto(t, "remember")
    /\ UNCHANGED <<machine, running, link, display, bundle, prev, mqtt, history>>

\* Mutant: the asset is remembered instead of the manifest.
RememberAsset(t) ==
    /\ running
    /\ task[t].at = "remember"
    /\ prev' = task[t].asset
    /\ Finish(t)
    /\ NoteActivation(t)
    /\ UNCHANGED <<machine, running, link, display, bundle, mqtt, view>>

Remember(t) ==
    /\ running
    /\ task[t].at = "remember"
    /\ prev' = IF task[t].action = "play_manifest" THEN task[t].manifest ELSE None
    /\ Finish(t)
    /\ NoteActivation(t)
    /\ UNCHANGED <<machine, running, link, display, bundle, mqtt, view>>

Continue(t) ==
    LoadFile(t) \/ SetLoop(t) \/ RendererFails(t)
    \/ Report(t) \/ ReportActivated(t) \/ Remember(t)
-------------------------------------------------------------------------------
(***************************************************************************)
(* The command handler: receives only while its own task is idle           *)
(***************************************************************************)
Idle(t) == running /\ task[t].at = "idle"
Surroundings == <<running, display, bundle, events>>

Connect ==
    /\ Idle("ws")
    /\ link = "down"
    /\ link' = "up"
    /\ UNCHANGED <<machine, task, Surroundings, history>>

\* An abnormal drop of the session, or an attempt to connect that failed.
ConnectionLost ==
    /\ Idle("ws")
    /\ SM!OnConnectionLost
    /\ Begin("ws", result')
    /\ link' = "down"
    /\ UNCHANGED Surroundings

\* A close handshake (1000, 1001) ends the receive loop without an exception:
\* run() goes straight to the next attempt to connect.
CleanClose ==
    /\ "clean_close" \in Faults
    /\ Idle("ws")
    /\ link = "up"
    /\ link' = "down"
    /\ UNCHANGED <<machine, task, Surroundings, history>>

\* Mutant: a refused activation shows the fallback, whatever is playing.
RefuseActivationToFallback ==
    /\ Begin("ws", [accepted |-> FALSE, new_state |-> state, manifest |-> None,
                    action |-> "show_fallback"])
    /\ UNCHANGED machine

\* Unknown to the store or expired: the state machine is not called.
RefuseActivation ==
    /\ Begin("ws", [accepted |-> FALSE, new_state |-> state, manifest |-> active,
                    action |-> IF state # "fallback" THEN "hold" ELSE "show_fallback"])
    /\ UNCHANGED machine

ReceiveActivate(m, d, c) ==
    /\ Idle("ws") /\ link = "up"
    /\ \/ RefuseActivation
       \/ SM!OnActivateCreative(m, d, c) /\ Begin("ws", result')
    /\ UNCHANGED <<link, Surroundings>>

ReceiveFreeze ==
    /\ Idle("ws") /\ link = "up"
    /\ SM!OnFreeze
    /\ Begin("ws", result')
    /\ UNCHANGED <<link, Surroundings>>

ReceiveSafeMode ==
    /\ Idle("ws") /\ link = "up"
    /\ SM!OnSafeMode
    /\ Begin("ws", result')
    /\ UNCHANGED <<link, Surroundings>>

ReceiveClearSafeMode ==
    /\ Idle("ws") /\ link = "up"
    /\ SM!OnClearSafeMode
    /\ Begin("ws", result')
    /\ UNCHANGED <<link, Surroundings>>
-------------------------------------------------------------------------------
(***************************************************************************)
(* The control endpoint and the background loops                           *)
(***************************************************************************)
RequestSafeMode(r) ==
    /\ Idle(r)
    /\ SM!OnSafeMode
    /\ Begin(r, result')
    /\ UNCHANGED <<link, Surroundings>>

RequestClear(r) ==
    /\ Idle(r)
    /\ SM!OnClearSafeMode
    /\ Begin(r, result')
    /\ UNCHANGED <<link, Surroundings>>

\* validate() selects anew.  The loop compares the state's value with upper-case
\* names, and the values are lower case.
RefreshFallback ==
    /\ Idle("refresh")
    /\ bundle' \in FallbackAssets
    /\ task' = IF bundle' # bundle /\ state \in {"FALLBACK", "SAFE_MODE"}
               THEN [task EXCEPT !["refresh"].at = "load", !["refresh"].asset = bundle']
               ELSE task
    /\ UNCHANGED <<machine, running, link, display, events, history>>

ConnectMqtt ==
    /\ running
    /\ mqtt = "off"
    /\ mqtt' = "live"
    /\ UNCHANGED <<machine, running, task, link, display, bundle, prev, view, history>>
-------------------------------------------------------------------------------
(***************************************************************************)
(* The environment: time, mpv, the broker, crashes                         *)
(***************************************************************************)
Tick ==
    /\ SM!Tick
    /\ UNCHANGED <<running, task, link, display, bundle, events, history>>

\* Content that does not loop ends, and mpv --idle shows nothing.  It outlasts
\* the moment between the two IPC messages of one call.
ContentEnds ==
    /\ mpvUp /\ ~looping
    /\ screen # Blank
    /\ \A t \in Tasks : task[t].at # "loop"
    /\ screen' = Blank
    /\ UNCHANGED <<machine, running, task, link, looping, mpvUp, bundle, events, history>>

MpvDies ==
    /\ "mpv_death" \in Faults
    /\ mpvUp
    /\ mpvUp' = FALSE
    /\ screen' = Blank
    /\ UNCHANGED <<machine, running, task, link, looping, bundle, events, history>>

\* The client object stays set: nothing waits on the connection but a sleep.
BrokerDrop ==
    /\ "broker_drop" \in Faults
    /\ mqtt = "live"
    /\ mqtt' = "stale"
    /\ UNCHANGED <<machine, running, task, link, display, bundle, prev, view, history>>

ProcessDies ==
    /\ "process_death" \in Faults
    /\ running
    /\ Exit
    /\ UNCHANGED <<machine, bundle, events, history>>

\* A new process; what the broker delivered and the files are all that is kept.
Restart ==
    /\ ~running
    /\ running' = TRUE
    /\ mpvUp' = TRUE
    /\ looping' = TRUE
    /\ bundle' \in FallbackAssets
    /\ screen' = bundle'
    /\ prev' = None
    /\ mqtt' = "off"
    /\ SM!Reset
    /\ NoteRestart
    /\ UNCHANGED <<task, link, view>>

Commands ==
    \/ \E m \in Manifests, d \in DwellTimes, c \in CooldownTimes : ReceiveActivate(m, d, c)
    \/ ReceiveFreeze
    \/ ReceiveSafeMode
    \/ ReceiveClearSafeMode
    \/ \E r \in Requests : RequestSafeMode(r) \/ RequestClear(r)

Environment ==
    \/ Tick
    \/ ContentEnds \/ MpvDies \/ BrokerDrop \/ ProcessDies \/ Restart

Next ==
    \/ \E t \in Tasks : Continue(t)
    \/ Connect \/ ConnectionLost \/ CleanClose
    \/ Commands
    \/ RefreshFallback \/ ConnectMqtt
    \/ Environment

Spec == Init /\ [][Next]_vars

\* The event loop runs every ready task; an unconnected handler tries to
\* connect for ever (bounded backoff); the periodic loops come round; docker
\* restarts the container.  Commands and faults are owed nothing.
Fairness ==
    /\ \A t \in Tasks : WF_vars(Continue(t))
    /\ WF_vars(Connect \/ (link = "down" /\ ConnectionLost))
    /\ WF_vars(RefreshFallback)
    /\ WF_vars(ConnectMqtt)
    /\ WF_vars(Restart)

FairSpec == Spec /\ Fairness
-------------------------------------------------------------------------------
(***************************************************************************)
(* Properties                                                              *)
(***************************************************************************)
TaskStates ==
    [at : {"idle", "load", "loop", "report", "activated", "remember"},
     action : SM!Actions, state : SM!States, manifest : Manifests \cup {None},
     asset : Manifests \cup FallbackAssets \cup {None}]

TypeOK ==
    /\ SM!TypeOK
    /\ running \in BOOLEAN
    /\ task \in [Tasks -> TaskStates]
    /\ link \in {"up", "down"}
    /\ screen \in Manifests \cup FallbackAssets \cup {Blank}
    /\ looping \in BOOLEAN /\ mpvUp \in BOOLEAN
    /\ bundle \in FallbackAssets
    /\ prev \in Manifests \cup {None}
    /\ mqtt \in {"off", "live", "stale"}
    /\ view \in Manifests \cup {None}
    /\ undisturbed \in BOOLEAN /\ announced \in BOOLEAN

\* No transition is under way anywhere in the process.
Settled == running /\ mpvUp /\ \A t \in Tasks : task[t].at = "idle"

\* Where the machine plays nothing: the fallback bundle; otherwise the active
\* creative, or nothing once content has ended that does not loop or was not
\* there.
ShowsWhatIsActive ==
    IF active = None THEN screen \in FallbackAssets
    ELSE \/ screen = active
         \/ screen = Blank /\ active \notin LoopingManifests \cap CachedManifests

\* Two transitions under way at a time, or a message to mpv that fails, may
\* leave anything on the screen and any loop flag in mpv, but the next
\* transition that runs by itself repairs both: once the event loop is idle,
\* the display shows what the state machine says (state.py, "ACTIVE - rendering
\* an approved manifest", "SAFE_MODE - rendering fallback bundle"), and neither
\* the fallback nor a cached creative that loops has come to its end.
ScreenMatchesState == Settled /\ undisturbed => ShowsWhatIsActive

\* The delivered events name no other creative than the one that plays, once
\* the event loop is idle and whenever the broker connection came up.  Events
\* lost in a race, in a failed transition or with the process leave a creative
\* named that ended, until the next one is activated.
ImpressionsAreTrue ==
    Settled /\ mqtt = "live" /\ announced => view \in {None, active}

\* A player in safe mode shows the fallback bundle once the event loop is idle
\* (state.py, "SAFE_MODE - rendering fallback bundle").  The code breaks it: a
\* request and a command call the machine in one order and mpv in the other.
SafeModeShowsFallback ==
    Settled /\ state = "safe_mode" => screen \in FallbackAssets

\* However requests and commands interleave, a player whose session stays
\* away ends up showing the fallback bundle and keeps showing it.
LostSessionShowsFallback ==
    <>[](running /\ mpvUp /\ link = "down") => <>[](screen \in FallbackAssets)
===============================================================================
