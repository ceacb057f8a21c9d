--------------------------- MODULE ManifestWorkflow ---------------------------
(***************************************************************************)
(* The approval workflow of the dashboard-api and everything that hangs on *)
(* it: the rows of the database, the manifest files and the rules file it  *)
(* writes, and the three services that read them - the player's manifest   *)
(* store, the creative service and the decision-optimizer's policy engine. *)
(*                                                                         *)
(* A request awaits the database twice, to read its row and to commit, and *)
(* other requests run in between; no row is locked.  What it does to the   *)
(* disk happens between the two and is undone by nobody.                   *)
(***************************************************************************)
EXTENDS FiniteSets, Naturals

CONSTANTS
    Manifests,      \* ids of the rows, numbered as their file names sort
    Carries,        \* the manifest_id inside each row's manifest_json, or None
    Tags,           \* what the operator may tag a manifest with
    Requests,       \* the requests that can be under way at a time
    Operations,     \* the endpoints an instance considers
    Faults,         \* the disturbances an instance considers
    None,
    Torn,           \* what a rules file cut short holds
    Down            \* the engine of an optimizer that did not start

Statuses == {"none", "draft", "approved", "rejected", "enabled", "disabled", "archived"}
Transitions == {"approve", "reject", "enable", "disable", "archive"}
AllOperations == Transitions \cup {"create", "tags", "sync"}
FaultKinds ==
    {"disk_error", "commit_error", "crash", "reload_error", "optimizer_restart"}

ASSUME WorkflowAssumption ==
    /\ Operations \subseteq AllOperations
    /\ Faults \subseteq FaultKinds
    /\ Manifests \subseteq Nat
    /\ Carries \in [Manifests -> Nat \cup {None}]
    /\ None \notin Manifests
    /\ Tags # {}

\* The rules built from the tags of a set of manifests.
RuleSets == UNION {[S -> Tags] : S \in SUBSET Manifests}

\* What the requests keep across their awaits.
TagRequests ==
    [op : {"create", "tags"}, manifest : Manifests, seen : Statuses, tags : Tags,
     phase : {"disk", "commit"}, clean : BOOLEAN]
StatusRequests ==
    [op : Transitions, manifest : Manifests, seen : Statuses, tags : {None},
     phase : {"disk", "commit"}, clean : BOOLEAN]
SyncRequests ==
    [op : {"sync"}, rules : RuleSets, phase : {"disk", "reload"}, clean : BOOLEAN]

\* None of the markers is a value it stands in for.
ASSUME MarkersAssumption ==
    /\ Torn \notin RuleSets /\ Down \notin RuleSets
    /\ None \notin TagRequests \cup StatusRequests \cup SyncRequests

VARIABLES
    row,        \* the manifests table: status, approved_at set, audience_tags
    file,       \* MANIFEST_OUTPUT_DIR: no file, a whole one or one cut short
    rulesFile,  \* RULES_FILE: the tags of the manifests it was built from, or Torn
    request,    \* what each request under way is about to do
    library,    \* the player's ManifestStore: the rows whose manifest_json it holds
    served,     \* the creative service's ManifestStore, likewise
    engine,     \* the rules of the decision-optimizer's engine, or Down
    settled,    \* history: nothing disturbed the last request that concerned the file
    synced      \* history: no change since an undisturbed sync reached the optimizer

disk == <<file, rulesFile>>
readers == <<library, served, engine>>
history == <<settled, synced>>
vars == <<row, disk, request, readers, history>>

StatusOf(m) == row[m].status

\* What build_rules_file makes of the enabled manifests (see RuleGenerator).
EnabledRules ==
    [m \in {x \in Manifests : StatusOf(x) = "enabled"} |-> row[m].tags]

Init ==
    /\ \E t \in Tags :
           row = [m \in Manifests |-> [status |-> "none", approved |-> FALSE, tags |-> t]]
    /\ file = [m \in Manifests |-> "none"]
    /\ rulesFile = EnabledRules
    /\ request = [r \in Requests |-> None]
    /\ library = {}
    /\ served = {}
    /\ engine = rulesFile
    /\ settled = [m \in Manifests |-> TRUE]
    /\ synced = TRUE
-------------------------------------------------------------------------------
(***************************************************************************)
(* The guards                                                              *)
(***************************************************************************)
Target(op) ==
    CASE op = "create" -> "draft"
      [] op = "approve" -> "approved"
      [] op = "reject" -> "rejected"
      [] op = "enable" -> "enabled"
      [] op = "disable" -> "disabled"
      [] op = "archive" -> "archived"

\* Mutant: a draft may be enabled.
ValidTransitionsFromDraft(status) ==
    CASE status = "draft" -> {"approved", "enabled", "rejected", "archived"}
      [] status \in {"approved", "disabled"} -> {"enabled", "rejected", "archived"}
      [] status = "rejected" -> {"approved", "archived"}
      [] status = "enabled" -> {"disabled", "archived"}
      [] OTHER -> {}

\* _VALID_TRANSITIONS.
ValidTransitions(status) ==
    CASE status = "draft" -> {"approved", "rejected", "archived"}
      [] status = "approved" -> {"enabled", "rejected", "archived"}
      [] status = "rejected" -> {"approved", "archived"}
      [] status = "enabled" -> {"disabled", "archived"}
      [] status = "disabled" -> {"enabled", "archived"}
      [] status \in {"archived", "none"} -> {}

CanTransition(current, target) == target \in ValidTransitions(current)

\* Everything that ends a request with 404 or 409 changes nothing.
Allowed(op, status) ==
    CASE op = "create" -> status = "none"
      [] op = "tags" -> status \notin {"none", "archived"}
      [] op \in Transitions -> CanTransition(status, Target(op))
-------------------------------------------------------------------------------
(***************************************************************************)
(* The requests on a manifest                                              *)
(***************************************************************************)
Pending(r) == request[r] # None
On(m) == {r \in Requests : Pending(r) /\ request[r].op # "sync" /\ request[r].manifest = m}
Syncing == {r \in Requests : Pending(r) /\ request[r].op = "sync"}

\* Mutant: archiving a disabled manifest removes the file, of an enabled one not.
TouchesFileWrongStatus(op, status) ==
    op \in {"enable", "disable"} \/ (op = "archive" /\ status = "disabled")

\* Whether the handler touches the file, by the status it has read.
TouchesFile(op, status) ==
    op \in {"enable", "disable"} \/ (op = "archive" /\ status = "enabled")

\* Two requests on one manifest disturb each other; tags concern no file.
Disturbed(m) ==
    [r \in Requests |->
        IF r \in On(m) /\ request[r].op # "tags"
        THEN [request[r] EXCEPT !.clean = FALSE] ELSE request[r]]

\* _get_manifest_or_404 and the guard.
Load(r, op, m, t) ==
    /\ ~Pending(r)
    /\ op \in Operations
    /\ Allowed(op, StatusOf(m))
    /\ request' =
           [IF op = "tags" THEN request ELSE Disturbed(m) EXCEPT ![r] =
               [op |-> op, manifest |-> m, seen |-> StatusOf(m),
                tags |-> IF op \in {"create", "tags"} THEN t ELSE None,
                phase |-> IF TouchesFile(op, StatusOf(m)) THEN "disk" ELSE "commit",
                clean |-> \A q \in On(m) : request[q].op = "tags"]]
    /\ UNCHANGED <<row, disk, readers, history>>

\* Mutant: the file of before is kept.
WriteOnce(r) ==
    LET m == request[r].manifest
    IN  /\ file' = [file EXCEPT ![m] = IF @ = "none" THEN "whole" ELSE @]
        /\ request' = [request EXCEPT ![r].phase = "commit"]

\* _write_manifest_to_disk, _remove_manifest_from_disk.
WriteFile(r) ==
    /\ file' = [file EXCEPT ![request[r].manifest] = "whole"]
    /\ request' = [request EXCEPT ![r].phase = "commit"]

RemoveFile(r) ==
    /\ file' = [file EXCEPT ![request[r].manifest] = "none"]
    /\ request' = [request EXCEPT ![r].phase = "commit"]

\* An OSError is logged and the request goes on; a write may have begun.
FileFails(r) ==
    /\ "disk_error" \in Faults
    /\ \/ UNCHANGED file
       \/ request[r].op = "enable" /\ file' = [file EXCEPT ![request[r].manifest] = "torn"]
    /\ request' = [request EXCEPT ![r].phase = "commit", ![r].clean = FALSE]

TouchFile(r) ==
    /\ Pending(r) /\ request[r].op # "sync" /\ request[r].phase = "disk"
    /\ \/ request[r].op = "enable" /\ WriteFile(r)
       \/ request[r].op # "enable" /\ RemoveFile(r)
       \/ FileFails(r)
    /\ UNCHANGED <<row, rulesFile, readers, history>>

\* Mutant: the status is the name of the operation.
NewRowByOperation(q) == [row[q.manifest] EXCEPT !.status = q.op]

\* The columns the handler assigned; the others keep what others committed.
NewRow(q) ==
    CASE q.op = "tags" -> [row[q.manifest] EXCEPT !.tags = q.tags]
      [] q.op = "create" -> [status |-> "draft", approved |-> FALSE, tags |-> q.tags]
      [] q.op = "approve" -> [row[q.manifest] EXCEPT !.status = "approved", !.approved = TRUE]
      [] OTHER -> [row[q.manifest] EXCEPT !.status = Target(q.op)]

\* The event and the row commit together; a second insert of an id fails.
Commit(r) ==
    /\ Pending(r) /\ request[r].op # "sync" /\ request[r].phase = "commit"
    /\ LET q == request[r]
           m == q.manifest
       IN  IF q.op = "create" /\ StatusOf(m) # "none"
           THEN UNCHANGED <<row, history>>
           ELSE /\ row' = [row EXCEPT ![m] = NewRow(q)]
                /\ settled' = IF q.op = "tags" THEN settled ELSE
                       [settled EXCEPT ![m] = q.clean /\ (@ \/ TouchesFile(q.op, q.seen))]
                /\ synced' = (synced /\ EnabledRules' = EnabledRules)
    /\ request' = [request EXCEPT ![r] = None]
    /\ UNCHANGED <<disk, readers>>

\* The database refuses or is gone: 500, and the disk stays as it is.
CommitFails(r) ==
    /\ "commit_error" \in Faults
    /\ Pending(r) /\ request[r].op # "sync" /\ request[r].phase = "commit"
    /\ settled' = [settled EXCEPT ![request[r].manifest] =
           @ /\ ~TouchesFile(request[r].op, request[r].seen)]
    /\ request' = [request EXCEPT ![r] = None]
    /\ UNCHANGED <<row, disk, readers, synced>>
-------------------------------------------------------------------------------
(***************************************************************************)
(* sync-rules                                                              *)
(***************************************************************************)
\* The select; what it saw is kept until the file is written.
SelectEnabled(r) ==
    /\ ~Pending(r)
    /\ "sync" \in Operations
    /\ request' =
           [q \in Requests |->
               IF q = r
               THEN [op |-> "sync", rules |-> EnabledRules, phase |-> "disk",
                     clean |-> Syncing = {}]
               ELSE IF q \in Syncing THEN [request[q] EXCEPT !.clean = FALSE]
               ELSE request[q]]
    /\ UNCHANGED <<row, disk, readers, history>>

\* An OSError ends the request with 500; a write may have begun.
WriteRules(r) ==
    /\ r \in Syncing /\ request[r].phase = "disk"
    /\ \/ /\ rulesFile' = request[r].rules
          /\ request' = [request EXCEPT ![r].phase = "reload"]
       \/ /\ "disk_error" \in Faults
          /\ rulesFile' \in {rulesFile, Torn}
          /\ request' = [request EXCEPT ![r] = None]
    /\ synced' = (synced /\ rulesFile' = rulesFile)
    /\ UNCHANGED <<row, file, readers, settled>>

\* Mutant: the reload answers from the engine it has.
LoadedNothing == engine

\* load_policy on the file of now; a file it cannot read keeps the old rules.
Loaded == IF rulesFile = Torn \/ engine = Down THEN engine ELSE rulesFile

\* The POST of the reload; whether it failed or only its answer was lost, the
\* request goes on.  The event it commits changes nothing here.
Reload(r) ==
    /\ r \in Syncing /\ request[r].phase = "reload"
    /\ \/ /\ engine' = Loaded
          /\ synced' = (\/ synced
                        \/ /\ request[r].clean /\ engine # Down
                           /\ request[r].rules = EnabledRules)
       \/ /\ "reload_error" \in Faults
          /\ UNCHANGED <<engine, synced>>
    /\ request' = [request EXCEPT ![r] = None]
    /\ UNCHANGED <<row, disk, library, served, settled>>
-------------------------------------------------------------------------------
(***************************************************************************)
(* The process ends, in the middle of a write or not                       *)
(***************************************************************************)
Crash ==
    /\ "crash" \in Faults
    /\ \E r \in Requests : Pending(r)
    /\ request' = [r \in Requests |-> None]
    /\ \/ UNCHANGED disk
       \/ /\ \E r \in Requests :
                 /\ Pending(r) /\ request[r].op = "enable" /\ request[r].phase = "disk"
                 /\ file' = [file EXCEPT ![request[r].manifest] = "torn"]
          /\ UNCHANGED rulesFile
       \/ /\ \E r \in Syncing : request[r].phase = "disk"
          /\ rulesFile' = Torn
          /\ UNCHANGED file
    /\ settled' = [m \in Manifests |->
           settled[m] /\ \A r \in On(m) : ~TouchesFile(request[r].op, request[r].seen)]
    /\ synced' = (synced /\ rulesFile' = rulesFile)
    /\ UNCHANGED <<row, readers>>
-------------------------------------------------------------------------------
(***************************************************************************)
(* The readers                                                             *)
(***************************************************************************)
\* dashboard-api takes any JSON for manifest_json and writes it as it is.  A
\* reader refuses one that fails the schema of ICD-5 or carries no approval
\* (None): the operator's approval is a column of the row and is not in it.
Readable == {m \in Manifests : file[m] = "whole" /\ Carries[m] # None}

\* A manifest is known by the id in the JSON, whatever the row's is.  Files are
\* read in the order of their names, and a later one replaces an earlier one.
Loadable == {m \in Readable : \A n \in Readable : Carries[n] = Carries[m] => n <= m}

\* Mutant: a rescan merges and evicts nothing.
RescanLibraryMerging ==
    /\ ~(Loadable \subseteq library)
    /\ library' = library \cup Loadable
    /\ UNCHANGED <<row, disk, request, served, engine, history>>

\* ManifestStore.reload of the player, periodically and at its start.
RescanLibrary ==
    /\ library # Loadable
    /\ library' = Loadable
    /\ UNCHANGED <<row, disk, request, served, engine, history>>

\* load_directory of the creative service, at its start and never again.
CreativeStarts ==
    /\ served # Loadable
    /\ served' = Loadable
    /\ UNCHANGED <<row, disk, request, library, engine, history>>

\* Mutant: a start that fails waits for better rules instead of exiting.
OptimizerStartsOnce ==
    /\ "optimizer_restart" \in Faults
    /\ engine # Down
    /\ engine' = IF rulesFile = Torn THEN Down ELSE rulesFile
    /\ engine' # engine
    /\ UNCHANGED <<row, disk, request, library, served, history>>

\* A start without readable rules is aborted, and tried again.
OptimizerStarts ==
    /\ "optimizer_restart" \in Faults
    /\ engine' = IF rulesFile = Torn THEN Down ELSE rulesFile
    /\ engine' # engine
    /\ UNCHANGED <<row, disk, request, library, served, history>>

Handle(r) == TouchFile(r) \/ Commit(r) \/ WriteRules(r) \/ Reload(r)

Next ==
    \/ \E r \in Requests :
           \/ \E op \in AllOperations \ {"sync"}, m \in Manifests, t \in Tags : Load(r, op, m, t)
           \/ SelectEnabled(r)
           \/ Handle(r)
           \/ CommitFails(r)
    \/ Crash
    \/ RescanLibrary \/ CreativeStarts \/ OptimizerStarts

Spec == Init /\ [][Next]_vars

\* Awaits end, the player rescans (MANIFEST_RELOAD_INTERVAL_S) and docker
\* restarts an optimizer that gave up.  The operator owes nothing, and nobody
\* restarts the creative service.
Fairness ==
    /\ \A r \in Requests : WF_vars(Handle(r))
    /\ WF_vars(RescanLibrary)
    /\ WF_vars(engine = Down /\ OptimizerStarts)

FairSpec == Spec /\ Fairness
-------------------------------------------------------------------------------
(***************************************************************************)
(* Properties                                                              *)
(***************************************************************************)
TypeOK ==
    /\ row \in [Manifests -> [status : Statuses, approved : BOOLEAN, tags : Tags]]
    /\ file \in [Manifests -> {"none", "whole", "torn"}]
    /\ rulesFile \in RuleSets \cup {Torn}
    /\ request \in [Requests -> TagRequests \cup StatusRequests \cup SyncRequests \cup {None}]
    /\ library \in SUBSET Manifests
    /\ served \in SUBSET Manifests
    /\ engine \in RuleSets \cup {Down}
    /\ settled \in [Manifests -> BOOLEAN]
    /\ synced \in BOOLEAN

\* Nothing that was never approved reaches the player, the creative service or
\* the rules, whatever requests overlap and whatever fails between the row, the
\* file and their readers (manifests.py, "non-bypassable").
OnlyApprovedGetsOut ==
    \A m \in library \cup served \cup (IF engine = Down THEN {} ELSE DOMAIN engine) :
        row[m].approved

\* Once the last request that concerned the file went undisturbed, the file is
\* there exactly for an enabled manifest, whatever had been left behind before.
FilesFollowStatus ==
    \A m \in Manifests :
        settled[m] /\ On(m) = {} =>
            file[m] = IF StatusOf(m) = "enabled" THEN "whole" ELSE "none"

\* After a sync that ran alone and reached the optimizer, and until the next
\* change, the engine decides by the rows as they are - also after a restart.
SyncedMeansCurrent == synced => engine = EnabledRules

\* The ids the player can be asked to play.
Known == {Carries[m] : m \in library}

\* The player comes to know what is enabled, by the id in its JSON and unless it
\* refuses that, and holds no longer what is not enabled: "disabling a manifest
\* in the dashboard (which removes the file) takes effect on the next cycle"
\* (player's manifest_store.py).
LibraryFollows ==
    \A m \in Manifests :
        /\ <>[](settled[m] /\ StatusOf(m) = "enabled" /\ Carries[m] # None)
               => <>[](Carries[m] \in Known)
        /\ <>[](settled[m] /\ StatusOf(m) # "enabled") => <>[](m \notin library)

\* An optimizer that could not start for a torn file is back once there are rules.
OptimizerComesBack == <>[](rulesFile # Torn) => <>[](engine # Down)
===============================================================================
