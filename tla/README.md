# Verification of the Adaptive-Advertisement appliance

TLA+ modules, TLC runs and TLAPS proofs about the services under `src/services`.
The appliance looks at the audience in front of a screen and picks what to show:

    camera -> input-cv -> audience-state -> decision-optimizer -> player -> mpv
                 (MQTT, ICD-2)  (MQTT, ICD-3)     (WebSocket, ICD-4)
    dashboard-ui -> dashboard-api -> manifest files, rules, safe-mode intent
    supervisor: polls every service, restarts containers, relays safe mode
    creative: serves the approved manifests

Paths below are relative to `src/services/<service>/<package>/`.

## 1. Inventory

### player
* **State machine** (`state.py`). State: mode (FALLBACK, ACTIVE, FROZEN,
  SAFE_MODE), active manifest, activation time, dwell and cooldown of the active
  manifest, cooldown per manifest. Operations: activate, freeze, safe mode, clear,
  connection lost; all synchronous. Correct if dwell and cooldown are served, safe
  mode is left only by a clear, and mode and content never disagree.
* **Command handler** (`command_handler.py`). State: last sequence number, recent
  command ids, the WebSocket session. Filters out-of-order and repeated commands,
  dispatches the others, reconnects with backoff (1 s to 30 s). Hard: sessions end
  in two ways, either end restarts, the filter must not refuse what is new.
* **Process** (`main.py`, `renderer.py`, `health.py`, `event_publisher.py`,
  `manifest_store.py`). One asyncio loop: command handler, control endpoint of the
  supervisor, fallback refresh and manifest reload (60 s), MQTT client. Each of the
  first two calls the state machine and then awaits mpv and the broker, so they
  interleave on one display. Correct if what is shown agrees with the state machine,
  the screen is never blank and reported impressions are true.
* **Fallback bundle** (`fallback.py`): the order in which a fallback asset is
  selected. **Play events** (`play_event_publisher.py`): fire-and-forget tasks.

### decision-optimizer
* **Decision loop** (`decision_loop.py`). State: policy, what it sent last, whether
  the player is believed frozen. Once a second: freeze, activate or nothing. Open
  loop: the player never answers. Correct if belief, commands in flight and player
  agree as far as they can, freezes are obeyed and the audience is followed.
* **Gateway** (`player_gateway.py`): connections, sequence numbers, broadcasts that
  await each send. Correct if commands arrive in order, at most once, without a gap.
* **Signal consumer** (`signal_consumer.py`): latest valid signal and its age,
  message-id deduplication. **Policy** (`policy.py`): rules, priority, weights.

### supervisor
* **Health loop** (`main.py`, `restart_manager.py`, `service_table.py`,
  `health_probe.py`). Per service: consecutive failures, restart count, restart
  time stamps, two sticky terminal flags. Probe, restart through docker, boot-loop
  detection, escalation, engagement of safe mode. Hard: time stamps are taken before
  an await that may take 30 s and are compared with a sliding window.
* **Safe-mode relay** (`safe_mode_relay.py`): polls the operator's intent and sends
  engage or clear to the player; two flags of its own.
* Storage monitor and health endpoint report only.

### audience-state, input-cv, creative
* **Window and signal** (`observation_store.py`, `signal_publisher.py`, `main.py`).
  State: the sliding window, a subscription, the publish loop's own MQTT client.
  Averages, suppresses demographics that not everybody in the window has, asks for
  a freeze. Hard: edges of the window, arrival against frame time, a connection
  that is lost after it came up. Correct if old or degraded observations hold the
  player and good ones do so no longer than they must.
* **input-cv** (`main.py`, `pipeline/`, `backoff.py`, `mqtt_publisher.py`).
  State: the device, the number of the attempt, paho's queue. Correct if a camera
  that is gone is noticed and one that is back is used again.
* **creative** (`manifest_store.py`): the manifest files it read when it started.

### dashboard-api
* **Manifest workflow** (`routers/manifests.py`). State: a row per manifest (draft,
  approved, enabled, disabled, ...), a file per enabled manifest, the rules file.
  Requests await the database to read and to commit, lock no row, and write the
  disk in between. Read by the player, creative and the optimizer. Correct if what
  was not approved never gets out and row, file and readers come to agree.
* **Campaigns** (`routers/campaigns.py`): a status and links to manifests, with
  positions; correct if only approved manifests are linked.
* **Rule generator** (`rule_generator.py`): from tags to rules; pure. Correct if some
  rule always matches and a manifest appears for those, and when, its tags say.
* **Safe-mode intent** (`routers/system.py`): one row. **Assets and fallback library**
  (`routers/assets.py`, `routers/fallback.py`), **sinks** (MQTT into the database),
  **analytics**: kept and read by nobody else in the appliance, the fallback
  library excepted.
* Front ends, migrations, provisioning and tools keep no state that the behaviour
  of the appliance depends on.

`PROJECT.json` lists every component with its files and status, and the hazards at
their lines.

## 2. Modules

| module | models | composed of |
| --- | --- | --- |
| `PlaybackContract` | what ICD-4 promises of a player, with remaining times counted down | |
| `PlayerStateMachine` | `player/state.py`, one action per way out of each method; implements `PlaybackContract` | |
| `PlayerService` | the player process: tasks, display, events and their failures | `PlayerStateMachine` |
| `OrderedDelivery` | what the player may rely on when commands arrive | |
| `CommandChannel` | gateway, sessions, filter; implements `OrderedDelivery` | |
| `DecisionLoop` | the decision loop, one session, the player's state machine | `PlayerStateMachine` |
| `Supervisor` | health loop, restart ladder, safe-mode relay, player as seen from there | |
| `AudienceWindow` | what a window of observations becomes as a signal; operators | |
| `Policy` | which rules match and which manifests may be drawn; operators | `AudienceWindow` |
| `RuleGenerator` | from tags to rules; operators | `Policy` |
| `AdSelection` | operator, camera and clock choosing what these three are given | `RuleGenerator` |
| `AudiencePipeline` | camera, input-cv, broker, audience-state, signal consumer and tick | `AudienceWindow` |
| `ManifestWorkflow` | rows, files, rules file, overlapping requests, and the three readers | |
| `Campaigns` | a campaign edited next to the workflow | `ManifestWorkflow` |

`MCDecisionLoop`, `MCAdSelection`, `MCAudiencePipeline`, `MCManifestWorkflow` and
`MCCampaigns` hold the constants of runs; the `...Proofs` modules hold the theorems of section 4.

**PlayerStateMachine.** The variables are the fields of `StateMachine`, plus the
clock and the result of the latest call. `cooldowns` is total; an entry of length 0
stands for a missing key. The reasons, only logged and reported, are left out.
`DwellLeft`, `CoolLeft`, `CoolDue` are the refinement mapping to the contract.

**PlayerService.** A transition is one atomic state-machine call followed by steps
of the calling task: `load` and `loop` (the two mpv messages), `report`,
`activated`, `remember` (the MQTT publishes and the previous manifest written after
them). A task is the command session (`ws`), the fallback refresh, or one HTTP
request. A message to mpv fails when mpv is dead, or with fault `ipc` although it
lives and perhaps after it took the message (`RendererFails`): an activation then
draws the fallback and goes on to be reported as what it was, with the machine
ACTIVE; a failure of the fallback ends the process when the session's task meets it
and only the request when a request does, as in the code. `Restart` is one step
because no other task runs before the display is up. The filter on numbers and ids
is `CommandChannel`'s; a command here has passed it. The manifest store is
`ManifestWorkflow`'s, so an activation may be refused here for any manifest. What the
fallback library would select is a choice at each refresh and start. `undisturbed`
and `announced` are not code: they say what the properties may expect of display and
events after transitions that raced or failed (see `NoteBegin` and its neighbours).

**CommandChannel.** `issued` counts commands and stands for their fresh ids. The
gateway registers a session some time after the handshake and may go on sending to
one that broke. Keepalive, backoff and the text of messages are left out; messages
that are not valid change nothing in the player and are left out as well.

**DecisionLoop.** `current` and `playerFrozen` are the loop's beliefs, `sending` the
send it awaits. `CommandChannel` shows that a session is a queue that refuses
nothing, so it is one here. A rule set is the function from audiences to manifests
it computes (`Policy` has the rules themselves); `hold` in a signal stands for the
freeze causes of `_freeze_reason` other than age (`AudiencePipeline` has those).

**Supervisor.** One service, the player, which is the critical one. Unit of time:
one poll. Time stamps are kept as a set of ages, capped beyond the window: a poll
issues one restart at most, so two of them never have the same age. The evaluation is
split at its await (`Evaluate`, `DockerRestart`); the relay at its request
(`RelayPoll`, `RelaySend`). The player changes its state before it draws and answers
(`health.py:93-94`), so what the caller takes for a failure may have been done
(`Control`, fault `lost_answer`). `issued` is not code: it remembers the docker calls for
`RestartsBounded`, in a set of ages as well. `ReportedKey` is the key of the dashboard's answer: dashboard-api
sends `active`, the relay and its tests (`tests/test_safe_mode_relay.py:37`) use
`is_active`. Run `supervisor` sets it to the latter so that the relay's steps occur
between those of the ladder; none of its properties is about intent or flags.

**AudienceWindow, Policy, RuleGenerator, AdSelection.** The first three are functions
of the code as operators: `BuildSignal` is `build_signal` with the `compute_*`
methods, shares in ten-thousandths because the code rounds to four places;
`Matches`, `TopTier` and `Selectable` are `Rule.matches` and the tier `evaluate`
draws from; `GenerateRules` and `BuildRulesFile` follow `rule_generator.py` table
by table. The conditions of a rule are a function whose domain is the conditions
that are set, and `Updated` is Python's `{**c, **d}`. The weighted draw is a choice among
the tier: every weight is positive. `AdSelection` makes a state machine of them: an
operator enabling, tagging and disabling manifests and syncing the rules, a window
that fills and empties, an hour that passes.

**AudiencePipeline.** A unit of time is the publish interval, which is also the
decision loop's; in each unit the camera loop, the publish loop and the tick run
once, in any order (`due`). The window holds observations with the age since they
*arrived*, as the code has it, oldest first, so what the prune drops is the front of
it; `arrived` is not code, the properties use it. paho's
queue (`outbox`) survives the broker. A `setting` fixes the driver - one that raises
when reading fails, or DeepStream's, which returns the last metadata - and the
disturbances of a behaviour. The deduplication by message id is left out: there are
no duplicates to find when each observation is delivered once.

**ManifestWorkflow.** A request reads its row and checks its transition (`Load`),
does what it does to the disk, and commits; other requests run in between. The disk
step may fail, tear a file (`write_text` truncates first) or leave the rest undone
by a crash; the commit may fail and roll back the row but no file. Sync writes the
rules file and asks the optimizer to reload. The player rescans, creative reads only
when it starts, the optimizer reads at start and at a reload, and a torn rules file
ends a starting optimizer. `settled` and `synced` are not code: they say when the
properties may expect agreement. What rules are made of tags is `RuleGenerator`'s.
A file is named by its row's id and known to its readers by the id in its JSON, which
dashboard-api does not compare (`Carries`); a reader refuses JSON that fails ICD-5's
schema or names no approval (`Carries[m] = None`), which dashboard-api does not check
either. Of two files with one id a rescan keeps the later one (`Loadable`).

**Campaigns.** One request on the campaign at a time among those on manifests: the
check of the manifest's status and the insert of the link are two steps, with the
position computed as the code does.

## 3. Runs

Runs that pass, with distinct states:

| run | states | shows |
| --- | --- | --- |
| `player_state_machine` | 174,588 | `ModeMatchesContent`, `CooldownServed`, and that the state machine implements `PlaybackContract` |
| `player_process` | 874,884 | with a control request and every fault: once all tasks are idle, display and loop flag follow the state machine after a transition that ran by itself, delivered events name the creative that plays or none, and a session that stays away ends in the fallback |
| `command_channel` | 147,098 | at most once and in order (`ImplementsOrderedDelivery`), nothing refused, no gap within a session |
| `decision_loop` | 442,664 | belief and command stream agree, a player believed frozen does not play on |
| `decision_follow` | 8,186 | the audience is followed; a freeze that stays is obeyed |
| `supervisor` | 15,240 | restarts per window are bounded, terminal states final and reached for a player that stays down |
| `ad_selection` | 74,304 | some rule always matches; no targeting without disclosure and attention; hours are kept, across midnight too; two matching dimensions displace one |
| `manifest_workflow` | 891,718 | nothing unapproved gets out; files follow the status once a request went undisturbed, and the player's library the files; a sync that ran alone makes the engine current; an optimizer stopped by a torn rules file comes back |
| `campaigns` | 625,720 | nothing unapproved is linked; the player knows an id as long as one of the two manifests that carry it stays enabled |
| `audience_pipeline` | 712,332 | no decision on what is too old or degraded; silence ends in a hold; decisions resume |

Two runs find a disagreement between the code and what the repository says of it.

* `intent_ignored`: `system.py:177` says the supervisor polls the intent and sends
  safe mode; the relay reads a key dashboard-api does not send
  (`safe_mode_relay.py:89`), so an intent never reaches the player.
* `safe_mode_race`: `state.py:9` says that SAFE_MODE renders the fallback bundle; a
  safe mode requested while an activation is being drawn (`player/main.py:228`) may
  reach the machine after the activation and mpv before it, and the creative stays.

### Bounds and why they are enough
* `PlayerStateMachine`: two manifests (a third one behaves as the second: every
  test is about the active one and one other), `MaxTime = 6` for dwells and
  cooldowns up to 3, so that each is met before, at and after its boundary, twice
  in a row. The proofs remove the bound.
* `PlayerService`: one slot in `Requests`, for two tasks are what a race needs, and
  one fallback asset. Three manifests: one that is cached and loops, one that ends,
  one that is not there, so that the flag and the content of two transitions can mix
  in every way. Dwell and cooldown of 0: what they refuse is `PlayerStateMachine`'s,
  and a refused activation is possible at any time here. The proofs remove all of it.
* `CommandChannel`: `MaxIssued = 4` commands over `MaxSessions = 3` sessions with
  `MaxSeen = 2` (5000 in the code), so that ids are forgotten, both ends restart
  and commands follow the last restart. The proofs remove all three.
* `DecisionLoop`: `MaxWire` 2 (1 in `decision_follow`) commands in flight: a freeze
  and an activation may follow each other unseen. Two audiences and two rule sets,
  one with an audience no rule matches.
* `Supervisor`: thresholds 2, 4, 2 and a window of 4 polls instead of 2, 5, 3 and
  12, so that both terminal states are reached, also with restarts at the edge of
  the window.
* `AdSelection`: a library of two manifests with 5 and 6 choices of tags - none, one
  per dimension, pairs, the night alone and beside a window that touches it or not,
  each frequency, a promotion - of which `MaxEnabled = 2` compete; six observations
  that tell the tags apart, two of them a ten-thousandth apart at the attention
  gate; windows of up to `MaxWindow = 2`; all 24 hours.
* `AudiencePipeline`: `Window = 2`, `Stale = 1`, `MinStability = 2`, `MaxBackoff = 2`
  units and `MaxOutbox = 2` observations. The stability minimum equals the window,
  the tightest setting that can decide at all; a signal may be one tick old and just
  fresh, or two and stale; the backoff reaches its ceiling. `Settings` has each kind
  of disturbance by itself, as often as it likes: several at a time add no state one
  of them does not reach and multiply the number of states.
* `ManifestWorkflow`: one manifest, two tags, two requests at a time. Requests on
  different manifests meet in the rules file, where two syncs do so here, and in the
  readers' stores; a third request finds what two left. `reject` is left to
  `campaigns`, which has two manifests with one id in their JSON, one request on them
  and a disk that may fail. The proofs remove the number of manifests, tags and
  requests, and which ids they carry.
* `Faults` names the disturbances of an instance, in every module.

Every passing run checks for deadlock.

### Fairness
Commands, requests, signals and faults are owed nothing. Weakly fair are: the steps
of a task in the middle of a transition or a request (asyncio runs every ready task,
and mpv, MQTT, database and HTTP calls return or raise); connecting, which is tried
for ever with a bounded backoff; the periodic loops, which catch what they call may
raise; the restart of a container (`restart: unless-stopped` in
`docker-compose.yml`); in `Supervisor` both loops, whose calls all have a timeout,
but not the start of the player; in `ManifestWorkflow` the rescan of the player and
the restart of an optimizer that gave up, but not creative's, which nobody restarts.
One action is strongly fair: `Tick` of `AudiencePipeline`. A broker that goes and
comes back enables and disables the loops' steps for ever and with them the end of a
unit of time; time itself does not depend on the broker.

What the liveness properties assume beyond that is in their statements:
`FollowsAudience` wants a session that lasts and is run without dwell and cooldown,
`FreezeStopsSwitching` no close handshake, `LostSessionShowsFallback` a process and
an mpv that stay up in the end, `LadderEnds` that the supervisor and
docker do not fail for ever, `LibraryFollows` and `OptimizerComesBack` a status and
a rules file that settle, `DecisionsResume` a scene that is not degraded, a broker
that stays and a publish loop that did not lose its connection (section 6).

## 4. Proofs

Proved by TLAPS, for every value of the constants that the modules' assumptions
allow. TLC evaluates each assumption on a run of the module, and checked each
inductive invariant on the run's instance before it was proved.

| module | theorems (property) |
| --- | --- |
| `PlayerStateMachineProofs` | `TypeCorrect`, `ModeAlwaysMatchesContent`, `CooldownAlwaysServed`, `MachineImplementsContract` |
| `PlayerServiceProofs` | `TypeCorrect`, `ScreenAlwaysMatchesState`, `ImpressionsAreAlwaysTrue`, `ProcessKeepsContract`, `LivingProcessImplementsContract` |
| `CommandChannelProofs` | `ChannelTypeCorrect`, `NothingEverRefused`, `NoGapEver`, `ChannelImplementsOrderedDelivery` |
| `DecisionLoopProofs` | `TypeCorrect`, `StreamAlwaysAgrees` (`StreamAgreesWithBelief`), `FreezeIsObeyed` (`FrozenBeliefHolds`) |
| `SupervisorProofs` | `TypeCorrect`, `TerminalStateIsFinal`, `RestartsAreBounded` |
| `AudiencePipelineProofs` | `TypeCorrect`, `AlwaysActsOnRecentArrivals`, `DegradedAlwaysHolds` |
| `AdSelectionProofs` | `SomeRuleAlwaysMatches`, `HoursAlwaysKept` (`KeepsItsHours`), `SliceAlwaysWins` (`SliceBeatsSingleTag`), `TargetingAlwaysGuarded` (`TargetingNeedsDisclosureAndAttention`), `SignalAlwaysValid`, `SharesStayDistributions` |
| `ManifestWorkflowProofs` | `TypeCorrect`, `OnlyApprovedEverGetsOut`, `SyncedIsAlwaysCurrent`, `FilesAlwaysFollowStatus`, `LinkedWasAlwaysApproved` |

The property is in brackets where the theorem's name does not give it away.
`SignalAlwaysValid`, `SharesStayDistributions`, `ProcessKeepsContract` and
`LivingProcessImplementsContract` state what they prove themselves and belong to no run.

**Player.** For every set of manifests, dwells and cooldowns in Nat and every bound
on time, by `MachineInv == TypeOK /\ ModeMatchesContent /\ CooldownServed` (with
the time stamps not in the future). None of the last two is inductive alone: a
cooldown is recorded for the active manifest, so its entry is known to be served
only if it is known that there is an activation time whenever a manifest is active.
The implementation proof maps each action to the step of the contract it stands
for: a rejection to a stutter, the clock to `Elapse`, an activation to `Start`,
which needs the invariant to show that the cooldown the machine tested is the one
the contract counts down.

**Player process.** Every state-machine call in it is an action of
`PlayerStateMachine`, so `MachineInv` is carried over (`MachineAssumption` passes
the machine's constants on) and the rest is about the phase each task is in. The
first three theorems have no hypothesis: they hold for any number of control
requests at a time, any content, looping and cached or not, and all faults.

* `ScreenAlwaysMatchesState`. Two transitions under way, or a message that fails, may
  leave anything on the display (`safe_mode_race` shows it), so the statement is about
  recovery: a transition that begins with no other one under way and whose messages
  are taken (`undisturbed`) leaves the display as the machine says. `TransitionInv`
  ties what a task carries to the machine's state while it is the only one;
  `DisplayInv` says what screen and loop flag are after each of its steps. Neither
  follows from the property, which is silent while a task is busy. After a race the
  display is wrong until the next transition that draws; the property does not say
  that one comes.
* `ImpressionsAreAlwaysTrue`. An event is lost with a race, a failed message or a
  process, and the creative it would have ended stays named until the next one is
  delivered; `announced` holds from a delivered activation, or a start with no
  creative named, as long as transitions run one at a time. `ReportInv` adds which
  creative is remembered and which one the events name, phase by phase.
* `LivingProcessImplementsContract` excludes the faults that end a process
  (`process_death`, and `mpv_death` and `ipc`, whose RendererError does): no step of
  any task is more than one call of the machine (`OneMachineStep`), however requests
  race, and a process that lives is never replaced (`StaysAlive`). With those faults
  only `Restart` is no step of the contract, as the code keeps nothing on disk of
  dwell, cooldowns and freeze: `ProcessKeepsContract` says that nothing else departs
  from it.

**Channel.** For any number of commands, sessions and remembered ids
(`ChannelAssumption`: at least two are remembered; with one, half of it is none).
`NothingRefused` is not inductive: `ChannelInv` adds that along each wire numbers
ascend one by one and ids ascend, that what is being broadcast is the latest
command, that what was applied and remembered is older than what is in flight, and
which number a session is due next. The three safety theorems follow from the head
of the wire; ordered delivery because an id that is applied is above the last one.

**Decision loop.** `StreamInv` says what the last command in flight is, for a
session in any state, and that nothing is being sent while the player is believed
frozen. `FreezeIsObeyed` adds `PlayerInv`: a session the gateway does not know finds
the player without a creative, and once a freeze was received it plays none. Its
hypothesis `"clean_close" \notin Faults` excludes the session that ends by a close
handshake, which the player's state machine is not told of (section 6); without it
the property does not hold. `NoneAssumption` keeps the absent value apart.

**Supervisor.** `LadderInv`: a restart under way started outside the terminal states
and below the ceiling. `RestartInv`: of the restarts that were issued, only the one
under way may not be in the list yet, and it is recorded with the time it began, as
the code does. So the window the code counts and the one the property counts differ
by that one at most, and the code's `len >= threshold` before each restart bounds
both.

**Pipeline.** `SignalInv`, for every window and staleness threshold and any choice
of drivers and disturbances: a signal that is `age` units old was built from a
window whose youngest entry was then at most `Window` old (`ArrivalsKnown`), and
what is in the window now and degraded, but was not when the signal was built, has
arrived since (`DegradedKnown`). Neither property could be inductive: they say
nothing of a signal that was published and is yet to be decided upon.

That every variable keeps its range (`TypeCorrect`) rests on the stream being well
formed and on the backoff (`recovery/backoff.py:32`), which is positive because 2 to
the `attempt` counts the subsets of a set, at least the empty one (`PowerOfTwo`).

**Selection.** `SelectionInv`: no manifest is enabled twice, the engine holds the
file of those that are, and the window holds observations. `SelectionAssumption` has
tags and observations pass their validation, `NoneAssumption` keeps the absent value
apart from dimensions, answers and shares. From it, `SelectedForAReason`: a manifest
that may be drawn has a rule of its own in the top tier or is the safety fallback.
The theorems follow from the tables: what the conditions of each tag name (`AudienceFields`), which hours
the slots of a time tag leave (`SlotKeepsHours`, `SlotCoversHours`), that merged
conditions hold where both do (`PairMatches`), and which priorities there are
(`GeneratedRule`, `PlainRuleIsLow`).

Three of them also need what a mean is. `MapThenSumSet` is a fold, the value of a
recursive function over the subsets of a set; `SummationExists` builds that function
size by size, and `SumInduction` draws a conclusion on the whole set from its least
subset that would not have it (`LeastNatural`, `LeastSubset`, from the library's
`WFMin`: an induction that takes a set and not an operator). So sums keep the bounds
of their terms (`SumBounds`) and add up (`SumOfTwo`), and banker's rounding does not
leave a bound and is off by a half at most (`RoundedBounds`, `RoundedNear`).
`TargetingAlwaysGuarded` follows the attention from the observations through the
mean into the gate; `SignalAlwaysValid` has all parts of a signal in the ranges of
ICD-3; `SharesStayDistributions` has the shares sum to what those of the observations
do (`contracts/decision-optimizer/audience-state-signal.schema.json:124`,
"summing to approximately 1.0"), two ten-thousandths more or less for four ages and
one for two genders.

**Workflow and campaigns.** `ApprovalInv` follows an approval from the row over the
request, the file and the rules file to the readers: a request past its guard
carries a status that only an approved row has, a file is of an approved manifest
whether its commit succeeded or not, and so is what a reader holds. Approval is
never taken back in the row (`approved_at` is kept), which makes each part stable
under the others' steps. `CampaignInv` adds the manifest that a request between
check and insert has in hand. `FilesInv`: a request that nobody disturbed is the only
one that concerns its manifest, so the status it read still holds at its commit; a
settled file departs from its row only by such a request between disk and commit.
What a reader loads is a subset of the whole files, whichever ids these carry.
`SyncInv`: a sync that ran alone leaves the rules it was going to load in the file
until it reloads. `MarkersAssumption` says that the markers of a torn file, an
optimizer that is down and an absent request are not rules or requests.

### Only model-checked
Liveness under fairness and what is about ENABLED, which this prover does not reach:
`LostSessionShowsFallback`, `FollowsAudience`, `FreezeStopsSwitching`, `LadderEnds`,
`LibraryFollows`, `OptimizerComesBack`, `SilenceFreezes` and `DecisionsResume`.
`OperatorSafeModeEngages` and `SafeModeShowsFallback` are refuted by runs. Every other
property of a run is a theorem.

No module uses RECURSIVE, and the modules the theorems are about filter no sequence
where a theorem would have to know the result.

## 5. Plan and what is not modelled

Done: the player with its contract; channel, ordered delivery and decision loop; the
supervisor; window, policy and rule generator; the pipeline from the camera; manifest
workflow and campaigns; the proofs above. Next, in this order:

1. The sinks and the play-event publisher: sampling, deduplication, reconnects and
   the order of fire-and-forget publishes.
2. `FallbackSelection`: the order of the candidates and the marker file; the fallback
   library of dashboard-api, whose uploads and archiving it reads.
3. The expiry of manifests as creative and the player see it.

Not modelled, and why:

* Storage monitor and health endpoints, logging, metrics, analytics: report only.
* Status, events and uptime of `routers/system.py`: reports over the intent's row.
* `schemas.py` (but the validation of tags), `models.py`, migrations, configuration:
  declarations, of which the models' types take what matters.
* DeepStream's native pipeline: environment of its driver. input-cv's check for
  banned keys and its health report: neither changes what it does next.
* Front ends, tools, provisioning: no state of the appliance.

## 6. Disagreements met while modelling that no run states

They explain assumptions of the runs above and the faults these leave out.

* `command_handler.py:155`: a close handshake ends the receive loop without an
  exception, so the state machine is not told, against `state.py:292-293` ("All
  other states revert to FALLBACK"). The connection attempt that fails after it tells
  the machine, which is why `LostSessionShowsFallback` holds all the same.
* `renderer.py:210`: an item with `loop: false`, the default (`player/main.py:96`),
  ends and mpv stays idle, against `contracts/player/README.md:24` ("Screen must never
  go blank"). `ScreenMatchesState` allows a blank screen for such content and for the
  next case only.
* `player/main.py:98-104`: after a RendererError with mpv alive the fallback is drawn
  while the machine is ACTIVE, and `manifest_activated` is published all the same
  (`:240`): dwell runs and an impression is counted for what was never shown.
* `player/main.py:90`: a manifest whose asset is not cached is loaded all the same,
  against `contracts/creative/README.md:18` ("must fall back to the static fallback
  bundle, not blank the screen").
* `player/main.py:276`: the refresh compares the state with upper-case names, the
  values are lower case (`state.py:43-46`); a new fallback asset is not drawn.
* `player/main.py:194`: a broker connection that drops after it came up is not
  opened again, against the docstring at `:175`.
* `renderer.py:224`: a dead mpv is noticed only by the next command.
* `state.py:151`: re-activating the active creative starts its own cooldown, so a
  freeze of it cannot be lifted by activating it until that is over
  (`contracts/player/player-command.schema.json:64` and `:76`).
* `state.py:305`: a lost session ends the playing creative; REC-003 asks for it to
  be kept.
* `manifest_store.py:107`: a disabled manifest that plays goes on playing.
* `command_handler.py:131`: sequence numbers start over with each session;
  `contracts/player/README.md:20` has the rule hold across reconnects.
* `decision_loop.py:162`: a switch refused for dwell or cooldown is not tried again
  (PERF-005, `technical-requirements-package.md:93`).
* `player/main.py:228`: a control request and a command drive one display; their
  state-machine calls may come in one order and their mpv messages in the other,
  which leaves a creative on screen in safe mode: run `safe_mode_race`. What the
  two transitions publish may mix in the same way.
* `decision_loop.py:142`: a player that restarts is not sent the creative the loop
  believes it plays, until another one is wanted; `contracts/player/README.md:26`
  has it resume within 10 s. An activation sent while no player was there is not
  sent again either.
* `supervisor/main.py:93`: safe mode is engaged once, on a player that is down at
  that moment, and a failed engagement is not repeated (`main.py:13-14`).
* `restart_manager.py:118`: docker calls that fail or time out are not counted, and
  a call that timed out may still restart; `RestartsBounded` counts those confirmed.
* A restarted supervisor forgets that it or the operator engaged safe mode, so a
  clear of the intent no longer reaches the player (`safe_mode_relay.py:100`).
* `safe_mode_relay.py:128-142`, `player/health.py:93-94`: the player enters safe mode
  before it draws and answers; when the answer is a 500 or comes after 5 s, the flag
  stays off, and if the operator clears the intent before the next poll, or it was the
  supervisor's one attempt, no clear ever reaches the player.
* `state.py:68`: safe mode is not kept; a player that restarts accepts activations
  while the relay believes safe mode engaged and does not send it again.
* `audience_state/main.py:111`: the publish loop reconnects when the broker refuses
  it, but `signal_publisher.py:148` catches the error of a lost connection, so the
  loop goes on publishing into nothing until it is restarted. `SilenceFreezes` shows
  that the player is held meanwhile.
* `pipeline/deepstream_driver.py:175`: no `PipelineReadError` is raised by a stalled
  or unplugged device, against `abstract.py:53`; the last frame's audience counts on.
* `observation_store.py:73`: the window counts from the arrival, so observations that
  paho queued while the broker was away count as fresh, all at once.
* `manifests.py:19` ("Archived is terminal"): of two overlapping requests that read
  the same status the later commit wins, so an enable or a disable may follow an
  archive. A PATCH may bring back a campaign archived in between in the same way.
* `manifests.py:288` ("so the creative service can load it"): `manifest_json` is any
  object (`schemas.py:58`) and is written as it is, without the approval of the row.
  JSON that carries no `approved_at` and `approved_by`, or fails ICD-5 otherwise, is
  refused by both readers, and one with another id is known under that one only:
  `LibraryFollows` claims the id in the JSON, and nothing of a refused manifest.
* `manifests.py:507`: the file that an enable with a failed commit left behind stays
  when the approved row is archived, since only an enabled one's file is removed; the
  player goes on knowing it. `FilesFollowStatus` waits for a request that touches the
  file.
* `manifests.py:401`: two syncs that cross may leave the rules of the older select in
  file and engine; `SyncedMeansCurrent` claims nothing of them.
* `manifests.py:320` ("so the creative service stops serving it"): creative reads
  the directory at its start only.
* `campaigns.py:190` ("Unapproved manifests cannot be added"): a manifest rejected
  between the check and the insert is linked; `LinkedWasApproved` says approved once.
* `campaigns.py:227` ("Append at end"): `max(position) or -1` takes 0 for none, so
  every manifest of a campaign gets position 0.
* `policy.py:6` and `:71` ("the first match wins") and `rule_generator.py:551` ("a
  fractionally higher priority"): `evaluate` draws by weight among all matching rules
  of the highest priority, and the generator writes a `_tiebreak_index` nobody reads.
* `rule_generator.py:311` ("sporadically"): a reminder's priority 7 is above the
  general tag's 5, so it takes the whole tier instead of coming up now and then.
