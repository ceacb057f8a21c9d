------------------------ MODULE ManifestWorkflowProofs ------------------------
(***************************************************************************)
(* Proofs about ManifestWorkflow and Campaigns, for every set of           *)
(* manifests, tags and requests under way, every choice of operations and  *)
(* of disturbances: type correctness, that only what was approved gets     *)
(* out, that after an undisturbed sync the engine decides by the rows as   *)
(* they are, that after an undisturbed request the file is that of the     *)
(* row, and that a campaign holds only what was approved.                  *)
(***************************************************************************)
EXTENDS Campaigns, TLAPS

USE WorkflowAssumption

ManifestRequests == TagRequests \cup StatusRequests
Rows == [status : Statuses, approved : BOOLEAN, tags : Tags]

-------------------------------------------------------------------------------
(***************************************************************************)
(* Type correctness                                                        *)
(***************************************************************************)

\* The rules of the rows are rules.
LEMMA EnabledRulesType ==
    ASSUME row \in [Manifests -> Rows]
    PROVE  EnabledRules \in RuleSets
  <1> DEFINE S == {x \in Manifests : StatusOf(x) = "enabled"}
  <1>1. S \in SUBSET Manifests
    OBVIOUS
  <1>2. EnabledRules \in [S -> Tags]
    BY DEF EnabledRules, Rows
  <1>3. QED
    BY <1>1, <1>2 DEF RuleSets

\* The empty database and directory, and the rules built from them.
LEMMA InitTypeOK == Init => TypeOK
  <1> SUFFICES ASSUME Init PROVE TypeOK
    OBVIOUS
  <1>1. row \in [Manifests -> Rows]
    BY DEF Init, Statuses, Rows
  <1>2. EnabledRules \in RuleSets
    BY <1>1, EnabledRulesType
  <1>3. QED
    BY <1>1, <1>2 DEF Init, TypeOK, Rows

\* The row a request commits is a row.
LEMMA NewRowType ==
    ASSUME TypeOK, NEW q \in ManifestRequests
    PROVE  NewRow(q) \in Rows
  <1>1. row[q.manifest] \in Rows
    BY DEF TypeOK, ManifestRequests, TagRequests, StatusRequests, Rows
  <1>2. CASE q \in TagRequests
    BY <1>1, <1>2 DEF NewRow, TagRequests, Rows, Statuses
  <1>3. CASE q \in StatusRequests
    BY <1>1, <1>3 DEF NewRow, Target, StatusRequests, Transitions, Rows, Statuses
  <1>4. QED
    BY <1>2, <1>3 DEF ManifestRequests

\* A request that was disturbed is a request of its kind.
LEMMA DisturbedType ==
    ASSUME TypeOK, NEW m \in Manifests
    PROVE  Disturbed(m) \in [Requests -> ManifestRequests \cup SyncRequests \cup {None}]
  <1> DEFINE R == ManifestRequests \cup SyncRequests \cup {None}
  <1>1. request \in [Requests -> R]
    BY DEF TypeOK, ManifestRequests
  <1>2. ASSUME NEW r \in Requests, r \in On(m)
        PROVE  [request[r] EXCEPT !.clean = FALSE] \in R
    <2>1. request[r] \in ManifestRequests
      BY <1>1, <1>2 DEF On, Pending, SyncRequests
    <2>2. QED
      BY <2>1 DEF ManifestRequests, TagRequests, StatusRequests
  <1>3. QED
    BY <1>1, <1>2 DEF Disturbed

\* A handler that goes on or ends leaves the other requests alone.
LEMMA RequestType ==
    ASSUME TypeOK, NEW r \in Requests,
           NEW q \in ManifestRequests \cup SyncRequests \cup {None},
           request' = [request EXCEPT ![r] = q]
    PROVE  request' \in [Requests -> TagRequests \cup StatusRequests \cup SyncRequests \cup {None}]
  BY DEF TypeOK, ManifestRequests

\* A request on a manifest is not a sync.
LEMMA OfManifest ==
    ASSUME TypeOK, NEW r \in Requests, Pending(r), request[r].op # "sync"
    PROVE  request[r] \in ManifestRequests
  BY DEF TypeOK, Pending, SyncRequests, ManifestRequests

\* A sync is no request on a manifest.
LEMMA OfSync ==
    ASSUME TypeOK, NEW r \in Syncing
    PROVE  r \in Requests /\ request[r] \in SyncRequests
  BY DEF TypeOK, Syncing, Pending, TagRequests, StatusRequests, Transitions

\* A request begins with the status it has read.
LEMMA LoadTypeOK ==
    ASSUME TypeOK, NEW r \in Requests, NEW op \in AllOperations \ {"sync"},
           NEW m \in Manifests, NEW t \in Tags, Load(r, op, m, t)
    PROVE  TypeOK'
  <1> DEFINE q == [op |-> op, manifest |-> m, seen |-> StatusOf(m),
                   tags |-> IF op \in {"create", "tags"} THEN t ELSE None,
                   phase |-> IF TouchesFile(op, StatusOf(m)) THEN "disk" ELSE "commit",
                   clean |-> \A p \in On(m) : request[p].op = "tags"]
  <1>1. StatusOf(m) \in Statuses
    BY DEF TypeOK, StatusOf
  <1>2. q.phase \in {"disk", "commit"} /\ q.clean \in BOOLEAN
    OBVIOUS
  <1>3. CASE op \in {"create", "tags"}
    <2>1. q \in TagRequests
      BY <1>1, <1>2, <1>3 DEF TagRequests
    <2> QED
      BY <2>1, DisturbedType DEF Load, TypeOK, ManifestRequests, disk, readers, history
  <1>4. CASE op \in Transitions
    <2>1. q \in StatusRequests
      BY <1>1, <1>2, <1>4 DEF StatusRequests, Transitions
    <2> QED
      BY <2>1, DisturbedType DEF Load, TypeOK, ManifestRequests, disk, readers, history
  <1>5. QED
    BY <1>3, <1>4 DEF AllOperations

\* The file is written, removed or left in between.
LEMMA TouchFileTypeOK ==
    ASSUME TypeOK, NEW r \in Requests, TouchFile(r)
    PROVE  TypeOK'
  <1>1. request[r] \in ManifestRequests
    BY OfManifest DEF TouchFile
  <1>2. request[r].manifest \in Manifests
    BY <1>1 DEF ManifestRequests, TagRequests, StatusRequests
  <1>3. /\ [request[r] EXCEPT !.phase = "commit"] \in ManifestRequests
        /\ [request[r] EXCEPT !.phase = "commit", !.clean = FALSE] \in ManifestRequests
    BY <1>1 DEF ManifestRequests, TagRequests, StatusRequests
  <1>4. request' \in [Requests -> TagRequests \cup StatusRequests \cup SyncRequests \cup {None}]
    <2>1. \/ request' = [request EXCEPT ![r].phase = "commit"]
          \/ request' = [request EXCEPT ![r].phase = "commit", ![r].clean = FALSE]
      BY DEF TouchFile, WriteFile, RemoveFile, FileFails
    <2>2. QED
      BY <1>3, <2>1 DEF TypeOK, ManifestRequests
  <1>5. file' \in [Manifests -> {"none", "whole", "torn"}]
    BY <1>2 DEF TypeOK, TouchFile, WriteFile, RemoveFile, FileFails
  <1>6. QED
    BY <1>4, <1>5 DEF TypeOK, TouchFile, readers, history

\* The row is committed, or the insert refused.
LEMMA CommitTypeOK ==
    ASSUME TypeOK, NEW r \in Requests, Commit(r)
    PROVE  TypeOK'
  <1> DEFINE q == request[r]
  <1>1. q \in ManifestRequests
    BY OfManifest DEF Commit
  <1>2. q.manifest \in Manifests /\ q.clean \in BOOLEAN
    BY <1>1 DEF ManifestRequests, TagRequests, StatusRequests
  <1>3. NewRow(q) \in Rows
    BY <1>1, NewRowType
  <1>4. row' \in [Manifests -> Rows]
    BY <1>2, <1>3 DEF Commit, TypeOK, Rows
  <1>5. settled' \in [Manifests -> BOOLEAN]
    <2>1. (q.clean /\ (settled[q.manifest] \/ TouchesFile(q.op, q.seen))) \in BOOLEAN
      OBVIOUS
    <2>2. \/ settled' = settled
          \/ settled' = [settled EXCEPT ![q.manifest] =
                 q.clean /\ (@ \/ TouchesFile(q.op, q.seen))]
      BY DEF Commit, history
    <2>3. QED
      BY <1>2, <2>1, <2>2 DEF TypeOK
  <1>6. synced' \in BOOLEAN
    BY DEF Commit, TypeOK, history
  <1>7. request' \in [Requests -> TagRequests \cup StatusRequests \cup SyncRequests \cup {None}]
    BY RequestType DEF Commit
  <1>8. QED
    BY <1>4, <1>5, <1>6, <1>7 DEF Commit, TypeOK, Rows, disk, readers

\* A sync begins with the rules of the enabled rows.
LEMMA SelectEnabledTypeOK ==
    ASSUME TypeOK, NEW r \in Requests, SelectEnabled(r)
    PROVE  TypeOK'
  <1> DEFINE q == [op |-> "sync", rules |-> EnabledRules, phase |-> "disk",
                   clean |-> Syncing = {}]
  <1>1. q \in SyncRequests
    BY EnabledRulesType DEF TypeOK, Rows, SyncRequests
  <1>2. ASSUME NEW p \in Syncing
        PROVE  [request[p] EXCEPT !.clean = FALSE] \in SyncRequests
    BY OfSync DEF SyncRequests
  <1>3. request' \in [Requests -> TagRequests \cup StatusRequests \cup SyncRequests \cup {None}]
    BY <1>1, <1>2 DEF SelectEnabled, TypeOK
  <1>4. QED
    BY <1>3 DEF SelectEnabled, TypeOK, disk, readers, history

\* The rules file is written, cut short or left.
LEMMA WriteRulesTypeOK ==
    ASSUME TypeOK, NEW r \in Requests, WriteRules(r)
    PROVE  TypeOK'
  <1>1. request[r] \in SyncRequests
    BY OfSync DEF WriteRules
  <1>2. /\ request[r].rules \in RuleSets
        /\ [request[r] EXCEPT !.phase = "reload"] \in SyncRequests
    BY <1>1 DEF SyncRequests
  <1>3. rulesFile' \in RuleSets \cup {Torn}
    BY <1>2 DEF WriteRules, TypeOK
  <1>4. request' \in [Requests -> TagRequests \cup StatusRequests \cup SyncRequests \cup {None}]
    BY <1>2 DEF WriteRules, TypeOK
  <1>5. synced' \in BOOLEAN
    BY DEF WriteRules, TypeOK
  <1>6. QED
    BY <1>3, <1>4, <1>5 DEF WriteRules, TypeOK, readers

\* An engine loads rules or keeps what it has.
LEMMA LoadedType == TypeOK => Loaded \in RuleSets \cup {Down}
  BY DEF TypeOK, Loaded

\* The reload reaches the engine or does not.
LEMMA ReloadTypeOK ==
    ASSUME TypeOK, NEW r \in Requests, Reload(r)
    PROVE  TypeOK'
  <1>1. engine' \in RuleSets \cup {Down}
    BY LoadedType DEF Reload, TypeOK
  <1>2. request' \in [Requests -> TagRequests \cup StatusRequests \cup SyncRequests \cup {None}]
    BY RequestType DEF Reload
  <1>3. synced' \in BOOLEAN
    BY DEF Reload, TypeOK
  <1>4. QED
    BY <1>1, <1>2, <1>3 DEF Reload, TypeOK, disk

\* A commit that fails ends its request.
LEMMA CommitFailsTypeOK ==
    ASSUME TypeOK, NEW r \in Requests, CommitFails(r)
    PROVE  TypeOK'
  <1> DEFINE q == request[r]
  <1>1. q.manifest \in Manifests
    BY OfManifest DEF CommitFails, ManifestRequests, TagRequests, StatusRequests
  <1>2. (settled[q.manifest] /\ ~TouchesFile(q.op, q.seen)) \in BOOLEAN
    OBVIOUS
  <1>3. settled' \in [Manifests -> BOOLEAN]
    BY <1>1, <1>2 DEF CommitFails, TypeOK
  <1>4. request' \in [Requests -> TagRequests \cup StatusRequests \cup SyncRequests \cup {None}]
    BY RequestType DEF CommitFails
  <1>5. QED
    BY <1>3, <1>4 DEF CommitFails, TypeOK, disk, readers

\* A crash ends every request, perhaps in the middle of a write.
LEMMA CrashTypeOK ==
    ASSUME TypeOK, Crash
    PROVE  TypeOK'
  <1>1. file' \in [Manifests -> {"none", "whole", "torn"}]
    BY DEF Crash, TypeOK, disk
  <1>2. rulesFile' \in RuleSets \cup {Torn}
    BY DEF Crash, TypeOK, disk
  <1>3. settled' \in [Manifests -> BOOLEAN]
    BY DEF Crash
  <1>4. synced' \in BOOLEAN
    BY DEF Crash
  <1>5. QED
    BY <1>1, <1>2, <1>3, <1>4 DEF Crash, TypeOK, readers

\* The readers take what is on the disk.
LEMMA ReadersTypeOK ==
    ASSUME TypeOK, RescanLibrary \/ CreativeStarts \/ OptimizerStarts
    PROVE  TypeOK'
  <1>1. Loadable \in SUBSET Manifests
    BY DEF Loadable, Readable
  <1>2. QED
    BY <1>1 DEF RescanLibrary, CreativeStarts, OptimizerStarts, TypeOK, disk, history

\* Every request, disturbance and reader keeps every variable in its range.
LEMMA NextTypeOK == TypeOK /\ [Next]_vars => TypeOK'
  <1> SUFFICES ASSUME TypeOK, [Next]_vars PROVE TypeOK'
    OBVIOUS
  <1>1. ASSUME NEW r \in Requests, Handle(r) PROVE TypeOK'
    BY <1>1, TouchFileTypeOK, CommitTypeOK, WriteRulesTypeOK, ReloadTypeOK DEF Handle
  <1>2. CASE UNCHANGED vars
    BY <1>2 DEF vars, disk, readers, history, TypeOK
  <1>3. QED
    BY <1>1, <1>2, LoadTypeOK, SelectEnabledTypeOK, CommitFailsTypeOK, CrashTypeOK,
       ReadersTypeOK DEF Next

\* The rows, the files, the requests under way and what the services loaded
\* stay in their ranges, for any number of manifests and requests.
THEOREM TypeCorrect == Spec => []TypeOK
  BY InitTypeOK, NextTypeOK, PTL DEF Spec

-------------------------------------------------------------------------------
(***************************************************************************)
(* Only what was approved gets out                                         *)
(*                                                                         *)
(* The readers are not inductive by themselves: between the approval and   *)
(* the readers stand the files, the rules file and what a request read     *)
(* before another one committed.  The approval is never taken back, so     *)
(* all of them may rely on the row of now.                                 *)
(***************************************************************************)
Approved == {m \in Manifests : row[m].approved}

RowsApproved ==
    \A m \in Manifests :
        /\ StatusOf(m) = "none" => m \notin Approved
        /\ StatusOf(m) \in {"approved", "enabled", "disabled"} => m \in Approved

\* Who has read a status to enable or disable has read an approved one.
RequestsApproved ==
    \A r \in Requests : Pending(r) =>
        /\ request[r].op \in {"enable", "disable"} => request[r].manifest \in Approved
        /\ request[r].op = "sync" => DOMAIN request[r].rules \subseteq Approved

FilesApproved ==
    /\ \A m \in Manifests : file[m] # "none" => m \in Approved
    /\ rulesFile # Torn => DOMAIN rulesFile \subseteq Approved

ReadersApproved ==
    /\ library \cup served \subseteq Approved
    /\ engine # Down => DOMAIN engine \subseteq Approved

ApprovalInv ==
    TypeOK /\ RowsApproved /\ RequestsApproved /\ FilesApproved /\ ReadersApproved

\* What the readers hold is approved.
LEMMA ApprovalIsEnough == ApprovalInv => OnlyApprovedGetsOut
  BY DEF ApprovalInv, ReadersApproved, OnlyApprovedGetsOut, Approved

\* Rules are built from approved manifests.
LEMMA EnabledRulesApproved ==
    ASSUME RowsApproved
    PROVE  DOMAIN EnabledRules \subseteq Approved
  BY DEF RowsApproved, EnabledRules

\* Nothing is approved and nothing is out.
LEMMA InitApproval == Init => ApprovalInv
  <1> SUFFICES ASSUME Init PROVE ApprovalInv
    OBVIOUS
  <1>1. TypeOK
    BY InitTypeOK
  <1>2. RowsApproved
    BY DEF Init, RowsApproved, StatusOf, Approved
  <1>3. RequestsApproved
    BY DEF Init, RequestsApproved, Pending
  <1>4. FilesApproved
    BY <1>2, EnabledRulesApproved DEF Init, FilesApproved
  <1>5. ReadersApproved
    BY <1>2, EnabledRulesApproved DEF Init, ReadersApproved
  <1>6. QED
    BY <1>1, <1>2, <1>3, <1>4, <1>5 DEF ApprovalInv

\* Who enables or disables has read a status that only an approval leads to.
LEMMA AllowedIsApproved ==
    ASSUME TypeOK, RowsApproved, NEW m \in Manifests, NEW op \in {"enable", "disable"},
           Allowed(op, StatusOf(m))
    PROVE  m \in Approved
  <1>1. op \in Transitions
    BY DEF Transitions
  <1>2. Target(op) \in ValidTransitions(StatusOf(m))
    BY <1>1 DEF Allowed, CanTransition, Transitions
  <1>3. StatusOf(m) \in {"approved", "enabled", "disabled"}
    <2>1. StatusOf(m) \in Statuses
      BY DEF TypeOK, StatusOf
    <2>2. QED
      BY <1>2, <2>1 DEF Target, ValidTransitions, Statuses
  <1>4. QED
    BY <1>3 DEF RowsApproved

\* A request begins on the status its manifest has.
LEMMA LoadApproval ==
    ASSUME ApprovalInv, NEW r \in Requests, NEW op \in AllOperations \ {"sync"},
           NEW m \in Manifests, NEW t \in Tags, Load(r, op, m, t)
    PROVE  RequestsApproved'
  <1> SUFFICES ASSUME NEW p \in Requests, Pending(p)'
               PROVE  /\ request'[p].op \in {"enable", "disable"} =>
                             request'[p].manifest \in Approved
                      /\ request'[p].op = "sync" => DOMAIN request'[p].rules \subseteq Approved
    BY DEF RequestsApproved, Approved, Load
  <1> USE DEF ApprovalInv
  <1>1. CASE p = r
    <2>1. request'[p].op = op /\ request'[p].manifest = m
      BY <1>1, DisturbedType DEF Load, TypeOK
    <2>2. Allowed(op, StatusOf(m))
      BY DEF Load
    <2>3. QED
      BY <2>1, <2>2, AllowedIsApproved
  <1>2. CASE p # r
    <2>1. request'[p] \in {request[p], Disturbed(m)[p]}
      BY <1>2, DisturbedType DEF Load, TypeOK
    <2>2. CASE request'[p] = request[p]
      BY <2>2 DEF RequestsApproved, Pending
    <2>3. CASE p \in On(m) /\ request'[p] = [request[p] EXCEPT !.clean = FALSE]
      <3>1. Pending(p) /\ request[p] \in ManifestRequests
        BY <2>3, OfManifest DEF On
      <3>2. /\ request'[p].op = request[p].op
            /\ request'[p].manifest = request[p].manifest
            /\ request[p].op # "sync"
        BY <2>3, <3>1 DEF ManifestRequests, TagRequests, StatusRequests, Transitions
      <3>3. QED
        BY <3>1, <3>2 DEF RequestsApproved
    <2>4. QED
      BY <2>1, <2>2, <2>3 DEF Disturbed
  <1>3. QED
    BY <1>1, <1>2

\* A sync begins with rules of approved manifests.
LEMMA SelectEnabledApproval ==
    ASSUME ApprovalInv, NEW r \in Requests, SelectEnabled(r)
    PROVE  RequestsApproved'
  <1> SUFFICES ASSUME NEW p \in Requests, Pending(p)'
               PROVE  /\ request'[p].op \in {"enable", "disable"} =>
                             request'[p].manifest \in Approved
                      /\ request'[p].op = "sync" => DOMAIN request'[p].rules \subseteq Approved
    BY DEF RequestsApproved, Approved, SelectEnabled
  <1> USE DEF ApprovalInv
  <1>1. CASE p = r
    <2>1. request'[p].op = "sync" /\ request'[p].rules = EnabledRules
      BY <1>1 DEF SelectEnabled
    <2>2. QED
      BY <2>1, EnabledRulesApproved
  <1>2. CASE p # r /\ p \in Syncing
    <2>1. request'[p] = [request[p] EXCEPT !.clean = FALSE]
      BY <1>2 DEF SelectEnabled
    <2>2. request'[p].op = "sync" /\ request'[p].rules = request[p].rules
      BY <1>2, <2>1, OfSync DEF SyncRequests
    <2>3. QED
      BY <1>2, <2>2 DEF RequestsApproved, Syncing
  <1>3. CASE p # r /\ p \notin Syncing
    BY <1>3 DEF SelectEnabled, RequestsApproved, Pending
  <1>4. QED
    BY <1>1, <1>2, <1>3

\* A handler that goes on keeps its operation and its manifest.
LEMMA TouchFileApproval ==
    ASSUME ApprovalInv, NEW r \in Requests, TouchFile(r)
    PROVE  RequestsApproved' /\ FilesApproved'
  <1> USE DEF ApprovalInv
  <1> DEFINE q == request[r]
  <1>1. q \in ManifestRequests
    BY OfManifest DEF TouchFile
  <1>2. \/ request' = [request EXCEPT ![r].phase = "commit"]
        \/ request' = [request EXCEPT ![r].phase = "commit", ![r].clean = FALSE]
    BY DEF TouchFile, WriteFile, RemoveFile, FileFails
  <1>3. request'[r].op = q.op /\ request'[r].manifest = q.manifest /\ q.op # "sync"
    BY <1>1, <1>2 DEF TypeOK, ManifestRequests, TagRequests, StatusRequests, Transitions
  <1>4. \A p \in Requests \ {r} : request'[p] = request[p]
    BY <1>2 DEF TypeOK
  <1>5. Approved' = Approved
    BY DEF TouchFile, Approved
  <1>6. RequestsApproved'
    BY <1>3, <1>4, <1>5 DEF RequestsApproved, Pending, TouchFile
  <1>7. q.op = "enable" => q.manifest \in Approved
    BY DEF RequestsApproved, TouchFile
  <1>8. \A m \in Manifests : file'[m] # "none" => m \in Approved
    <2>1. \/ file' = [file EXCEPT ![q.manifest] = "none"]
          \/ file' = file
          \/ q.op = "enable" /\ file' = [file EXCEPT ![q.manifest] = "whole"]
          \/ q.op = "enable" /\ file' = [file EXCEPT ![q.manifest] = "torn"]
      BY DEF TouchFile, WriteFile, RemoveFile, FileFails
    <2>2. QED
      BY <1>7, <2>1 DEF FilesApproved, TypeOK
  <1>9. QED
    BY <1>5, <1>6, <1>8 DEF FilesApproved, TouchFile

\* A commit takes no approval back, and gives a status that needs one only to a
\* manifest that has it: a row that is created had none.
LEMMA NewRowApproved ==
    ASSUME TypeOK, RowsApproved, NEW q \in ManifestRequests,
           q.op = "create" => StatusOf(q.manifest) = "none",
           q.op \in {"enable", "disable"} => q.manifest \in Approved
    PROVE  /\ row[q.manifest].approved => NewRow(q).approved
           /\ NewRow(q).status = "none" => ~NewRow(q).approved
           /\ NewRow(q).status \in {"approved", "enabled", "disabled"} => NewRow(q).approved
  <1> DEFINE m == q.manifest
  <1>1. m \in Manifests /\ row[m] \in Rows
    BY DEF TypeOK, ManifestRequests, TagRequests, StatusRequests, Rows
  <1>2. /\ row[m].status = "none" => ~row[m].approved
        /\ row[m].status \in {"approved", "enabled", "disabled"} => row[m].approved
        /\ q.op = "create" => ~row[m].approved
        /\ q.op \in {"enable", "disable"} => row[m].approved
    BY <1>1 DEF RowsApproved, StatusOf, Approved
  <1>3. CASE q.op = "tags"
    BY <1>1, <1>2, <1>3 DEF NewRow, Rows
  <1>4. CASE q.op = "create"
    BY <1>1, <1>2, <1>4 DEF NewRow
  <1>5. CASE q.op = "approve"
    BY <1>1, <1>5 DEF NewRow, Rows
  <1>6. CASE q.op \in {"reject", "enable", "disable", "archive"}
    <2>1. NewRow(q) = [row[m] EXCEPT !.status = Target(q.op)]
      BY <1>6 DEF NewRow
    <2>2. NewRow(q).status = Target(q.op) /\ NewRow(q).approved = row[m].approved
      BY <1>1, <2>1 DEF Rows
    <2>3. Target(q.op) # "none" /\ (Target(q.op) \in {"approved", "enabled", "disabled"} =>
              q.op \in {"enable", "disable"})
      BY <1>6 DEF Target
    <2>4. QED
      BY <1>2, <2>2, <2>3
  <1>7. QED
    BY <1>3, <1>4, <1>5, <1>6 DEF ManifestRequests, TagRequests, StatusRequests, Transitions

\* A commit, of whatever request, takes no approval back.
LEMMA CommitApproval ==
    ASSUME ApprovalInv, NEW r \in Requests, Commit(r)
    PROVE  RowsApproved' /\ RequestsApproved' /\ Approved \subseteq Approved'
  <1> USE DEF ApprovalInv
  <1> DEFINE q == request[r]
  <1>1. q \in ManifestRequests /\ q.manifest \in Manifests
    BY OfManifest DEF Commit, ManifestRequests, TagRequests, StatusRequests
  <1>2. q.op \in {"enable", "disable"} => q.manifest \in Approved
    BY DEF Commit, RequestsApproved
  <1>3. ASSUME row' = row
        PROVE  RowsApproved' /\ Approved \subseteq Approved'
    BY <1>3 DEF RowsApproved, StatusOf, Approved
  <1>4. ASSUME row' = [row EXCEPT ![q.manifest] = NewRow(q)],
               q.op = "create" => StatusOf(q.manifest) = "none"
        PROVE  RowsApproved' /\ Approved \subseteq Approved'
    <2>1. /\ row'[q.manifest] = NewRow(q)
          /\ \A m \in Manifests \ {q.manifest} : row'[m] = row[m]
      BY <1>1, <1>4 DEF TypeOK
    <2>2. RowsApproved'
      BY <1>1, <1>2, <1>4, <2>1, NewRowApproved DEF RowsApproved, StatusOf, Approved
    <2>3. Approved \subseteq Approved'
      BY <1>1, <1>2, <1>4, <2>1, NewRowApproved DEF Approved
    <2>4. QED
      BY <2>2, <2>3
  <1>5. RowsApproved' /\ Approved \subseteq Approved'
    <2>1. \/ row' = row
          \/ /\ row' = [row EXCEPT ![q.manifest] = NewRow(q)]
             /\ q.op = "create" => StatusOf(q.manifest) = "none"
      BY DEF Commit
    <2>2. QED
      BY <1>3, <1>4, <2>1
  <1>6. RequestsApproved'
    <2>1. \A p \in Requests : Pending(p)' => Pending(p) /\ request'[p] = request[p]
      BY DEF Commit, Pending, TypeOK
    <2>2. QED
      BY <1>5, <2>1 DEF RequestsApproved
  <1>7. QED
    BY <1>5, <1>6

\* The file gets the rules of a sync.
LEMMA WriteRulesApproval ==
    ASSUME ApprovalInv, NEW r \in Requests, WriteRules(r)
    PROVE  RequestsApproved' /\ FilesApproved'
  <1> USE DEF ApprovalInv
  <1>1. Approved' = Approved /\ file' = file
    BY DEF WriteRules, Approved
  <1>2. request[r] \in SyncRequests /\ Pending(r) /\ request[r].op = "sync"
    BY OfSync DEF WriteRules, Syncing
  <1>3. DOMAIN request[r].rules \subseteq Approved
    BY <1>2 DEF RequestsApproved
  <1>4. FilesApproved'
    BY <1>1, <1>3 DEF FilesApproved, WriteRules
  <1>5. RequestsApproved'
    <2>1. ASSUME NEW p \in Requests, Pending(p)'
          PROVE  /\ Pending(p)
                 /\ request'[p] = request[p] \/
                    (p = r /\ request'[p] = [request[p] EXCEPT !.phase = "reload"])
      BY <1>2, <2>1 DEF WriteRules, Pending, TypeOK
    <2>2. [request[r] EXCEPT !.phase = "reload"].op = "sync"
      BY <1>2 DEF SyncRequests
    <2>3. [request[r] EXCEPT !.phase = "reload"].rules = request[r].rules
      BY <1>2 DEF SyncRequests
    <2>4. QED
      BY <1>1, <1>3, <2>1, <2>2, <2>3 DEF RequestsApproved
  <1>6. QED
    BY <1>4, <1>5

\* What ends the requests and touches no row keeps what is left of them approved.
LEMMA EndedApproval ==
    ASSUME RequestsApproved, UNCHANGED row,
           \A p \in Requests : Pending(p)' => request'[p] = request[p]
    PROVE  RequestsApproved'
  BY DEF RequestsApproved, Pending, Approved

\* The engine gets the rules of the file.
LEMMA ReloadApproval ==
    ASSUME ApprovalInv, NEW r \in Requests, Reload(r)
    PROVE  RequestsApproved' /\ ReadersApproved'
  <1> USE DEF ApprovalInv
  <1>1. RequestsApproved'
    BY EndedApproval DEF Reload, Pending, TypeOK
  <1>2. Loaded # Down => DOMAIN Loaded \subseteq Approved
    BY DEF Loaded, FilesApproved, ReadersApproved
  <1>3. ReadersApproved'
    BY <1>2 DEF Reload, ReadersApproved, Approved
  <1>4. QED
    BY <1>1, <1>3

\* A crash leaves no file of a manifest that was not enabled.
LEMMA CrashApproval ==
    ASSUME ApprovalInv, Crash
    PROVE  RequestsApproved' /\ FilesApproved'
  <1> USE DEF ApprovalInv
  <1>1. RequestsApproved'
    BY DEF Crash, RequestsApproved, Pending
  <1>2. Approved' = Approved
    BY DEF Crash, Approved
  <1>3. \A m \in Manifests : file'[m] # "none" => m \in Approved
    <2>1. \/ file' = file
          \/ \E r \in Requests : /\ Pending(r) /\ request[r].op = "enable"
                                 /\ file' = [file EXCEPT ![request[r].manifest] = "torn"]
      BY DEF Crash, disk
    <2>2. QED
      BY <2>1 DEF RequestsApproved, FilesApproved, TypeOK
  <1>4. rulesFile' # Torn => DOMAIN rulesFile' \subseteq Approved
    BY DEF Crash, FilesApproved, disk
  <1>5. QED
    BY <1>1, <1>2, <1>3, <1>4 DEF FilesApproved

\* The readers only learn of files that are there.
LEMMA ReadersStayApproved ==
    ASSUME ApprovalInv, RescanLibrary \/ CreativeStarts \/ OptimizerStarts
    PROVE  ReadersApproved'
  <1>1. Loadable \subseteq Approved
    BY DEF Loadable, Readable, ApprovalInv, FilesApproved
  <1>2. Approved' = Approved
    BY DEF RescanLibrary, CreativeStarts, OptimizerStarts, Approved
  <1>3. QED
    BY <1>1, <1>2 DEF ApprovalInv, FilesApproved, ReadersApproved, RescanLibrary,
       CreativeStarts, OptimizerStarts

\* Every request, disturbance and reader keeps the invariant.
LEMMA NextApproval == ApprovalInv /\ [Next]_vars => ApprovalInv'
  <1> SUFFICES ASSUME ApprovalInv, [Next]_vars PROVE ApprovalInv'
    OBVIOUS
  <1>1. TypeOK'
    BY NextTypeOK DEF ApprovalInv
  <1> USE <1>1 DEF ApprovalInv
  <1>2. ASSUME NEW r \in Requests, NEW op \in AllOperations \ {"sync"},
               NEW m \in Manifests, NEW t \in Tags, Load(r, op, m, t)
        PROVE  ApprovalInv'
    BY <1>2, LoadApproval DEF Load, disk, readers, RowsApproved, StatusOf, Approved,
       FilesApproved, ReadersApproved
  <1>3. ASSUME NEW r \in Requests, SelectEnabled(r) PROVE ApprovalInv'
    BY <1>3, SelectEnabledApproval DEF SelectEnabled, disk, readers, RowsApproved, StatusOf,
       Approved, FilesApproved, ReadersApproved
  <1>4. ASSUME NEW r \in Requests, TouchFile(r) PROVE ApprovalInv'
    BY <1>4, TouchFileApproval DEF TouchFile, readers, RowsApproved, StatusOf, Approved,
       ReadersApproved
  <1>5. ASSUME NEW r \in Requests, Commit(r) PROVE ApprovalInv'
    BY <1>5, CommitApproval DEF Commit, disk, readers, FilesApproved, ReadersApproved
  <1>6. ASSUME NEW r \in Requests, WriteRules(r) PROVE ApprovalInv'
    BY <1>6, WriteRulesApproval DEF WriteRules, readers, RowsApproved, StatusOf, Approved,
       ReadersApproved
  <1>7. ASSUME NEW r \in Requests, Reload(r) PROVE ApprovalInv'
    BY <1>7, ReloadApproval DEF Reload, disk, RowsApproved, StatusOf, Approved, FilesApproved
  <1>8. ASSUME NEW r \in Requests, CommitFails(r) PROVE ApprovalInv'
    <2>1. RequestsApproved'
      BY <1>8, EndedApproval DEF CommitFails, Pending, TypeOK
    <2>2. QED
      BY <1>8, <2>1 DEF CommitFails, disk, readers, RowsApproved, StatusOf, Approved,
         FilesApproved, ReadersApproved
  <1>9. CASE Crash
    BY <1>9, CrashApproval DEF Crash, readers, RowsApproved, StatusOf, Approved,
       ReadersApproved
  <1>10. CASE RescanLibrary \/ CreativeStarts \/ OptimizerStarts
    BY <1>10, ReadersStayApproved DEF RescanLibrary, CreativeStarts, OptimizerStarts, disk,
       RowsApproved, RequestsApproved, StatusOf, Approved, FilesApproved, Pending
  <1>11. CASE UNCHANGED vars
    BY <1>11 DEF vars, disk, readers, history, RowsApproved, RequestsApproved, StatusOf,
       Approved, FilesApproved, ReadersApproved, Pending
  <1>12. QED
    BY <1>2, <1>3, <1>4, <1>5, <1>6, <1>7, <1>8, <1>9, <1>10, <1>11 DEF Next, Handle

\* No manifest reaches the player, the creative service or the rules of the
\* optimizer before its approval, for any number of manifests and of requests
\* that overlap, with any disturbance.
THEOREM OnlyApprovedEverGetsOut == Spec => []OnlyApprovedGetsOut
  <1>1. Spec => []ApprovalInv
    BY InitApproval, NextApproval, PTL DEF Spec
  <1>2. QED
    BY <1>1, ApprovalIsEnough, PTL

-------------------------------------------------------------------------------
(***************************************************************************)
(* The engine decides by the rows                                          *)
(***************************************************************************)

\* A sync that nobody disturbed is alone, and what it wrote is still there.
SyncAlone ==
    \A r \in Syncing : request[r].clean =>
        /\ Syncing = {r}
        /\ request[r].phase = "reload" => rulesFile = request[r].rules

SyncInv ==
    /\ TypeOK
    /\ SyncAlone
    /\ synced => engine = EnabledRules /\ rulesFile = EnabledRules

LEMMA InitSync == Init => SyncInv
  BY InitTypeOK DEF Init, SyncInv, SyncAlone, Syncing, Pending

\* The rules follow from the rows alone.
LEMMA SameRowsSameRules == UNCHANGED row => UNCHANGED EnabledRules
  BY DEF EnabledRules, StatusOf

\* The syncs that go on as before are as alone as before.
LEMMA SameSyncs ==
    ASSUME SyncAlone, UNCHANGED rulesFile,
           \A p \in Syncing' : p \in Syncing /\ request'[p] = request[p]
    PROVE  SyncAlone'
  BY DEF SyncAlone

\* A request on a manifest leaves the syncs alone.
LEMMA LoadSync ==
    ASSUME SyncInv, NEW r \in Requests, NEW op \in AllOperations \ {"sync"},
           NEW m \in Manifests, NEW t \in Tags, Load(r, op, m, t)
    PROVE  SyncAlone'
  <1> USE DEF SyncInv
  <1>1. ASSUME NEW p \in Syncing'
        PROVE  p \in Syncing /\ request'[p] = request[p]
    <2>1. p \in Requests /\ request'[p] # None /\ request'[p].op = "sync"
      BY <1>1 DEF Syncing, Pending
    <2>2. p # r
      <3>1. p = r => request'[p].op = op
        BY DisturbedType DEF Load, TypeOK
      <3>2. QED
        BY <2>1, <3>1
    <2>3. request'[p] \in {request[p], Disturbed(m)[p]}
      BY <2>1, <2>2, DisturbedType DEF Load, TypeOK
    <2>4. CASE request'[p] = request[p]
      BY <2>1, <2>4 DEF Syncing, Pending
    <2>5. CASE p \in On(m) /\ request'[p] = [request[p] EXCEPT !.clean = FALSE]
      <3>1. request[p] \in ManifestRequests /\ request[p].op # "sync"
        BY <2>5, OfManifest DEF On
      <3>2. request'[p].op = request[p].op
        BY <2>5, <3>1 DEF ManifestRequests, TagRequests, StatusRequests
      <3>3. QED
        BY <2>1, <3>1, <3>2
    <2>6. QED
      BY <2>1, <2>3, <2>4, <2>5 DEF Disturbed
  <1>2. QED
    BY <1>1, SameSyncs DEF Load, disk

\* A sync that begins disturbs the others, and is disturbed by them.
LEMMA SelectEnabledSync ==
    ASSUME SyncInv, NEW r \in Requests, SelectEnabled(r)
    PROVE  SyncAlone'
  <1> USE DEF SyncInv
  <1>1. Syncing' \subseteq Syncing \cup {r}
    <2>1. ASSUME NEW p \in Requests, p # r, p \notin Syncing
          PROVE  request'[p] = request[p]
      BY <2>1 DEF SelectEnabled
    <2>2. QED
      BY <2>1 DEF Syncing, Pending
  <1>2. ASSUME NEW p \in Syncing, p # r
        PROVE  ~request'[p].clean
    <2>1. request[p] \in SyncRequests
      BY OfSync
    <2>2. request'[p] = [request[p] EXCEPT !.clean = FALSE]
      BY <1>2 DEF SelectEnabled, Syncing
    <2>3. QED
      BY <2>1, <2>2 DEF SyncRequests
  <1>3. request'[r].clean => Syncing = {}
    BY DEF SelectEnabled
  <1>4. request'[r].phase = "disk"
    BY DEF SelectEnabled
  <1>5. QED
    BY <1>1, <1>2, <1>3, <1>4 DEF SyncAlone

LEMMA HandlerSync ==
    ASSUME SyncInv, NEW r \in Requests, TouchFile(r) \/ Commit(r) \/ CommitFails(r)
    PROVE  SyncAlone'
  <1> USE DEF SyncInv
  <1>1. r \notin Syncing
    BY DEF TouchFile, Commit, CommitFails, Syncing
  <1>2. ASSUME NEW p \in Requests, p # r
        PROVE  request'[p] = request[p]
    BY <1>2 DEF TouchFile, WriteFile, RemoveFile, FileFails, Commit, CommitFails, TypeOK
  <1>3. r \notin Syncing'
    <2>1. CASE TouchFile(r)
      <3>1. request[r] \in ManifestRequests
        BY <2>1, OfManifest DEF TouchFile
      <3>2. request'[r].op = request[r].op /\ request[r].op # "sync"
        BY <2>1, <3>1 DEF TouchFile, WriteFile, RemoveFile, FileFails, TypeOK,
           ManifestRequests, TagRequests, StatusRequests
      <3>3. QED
        BY <3>2 DEF Syncing
    <2>2. CASE Commit(r) \/ CommitFails(r)
      BY <2>2 DEF Commit, CommitFails, Syncing, Pending, TypeOK
    <2>3. QED
      BY <2>1, <2>2
  <1>4. UNCHANGED rulesFile
    BY DEF TouchFile, Commit, CommitFails, disk
  <1>5. QED
    BY <1>1, <1>2, <1>3, <1>4, SameSyncs DEF Syncing, Pending

\* Whoever writes the rules is alone or disturbed; so is everyone else.
LEMMA WriteRulesSync ==
    ASSUME SyncInv, NEW r \in Requests, WriteRules(r)
    PROVE  SyncAlone'
  <1> USE DEF SyncInv
  <1>1. r \in Syncing /\ request[r] \in SyncRequests
    BY OfSync DEF WriteRules
  <1>2. ASSUME NEW p \in Requests, p # r
        PROVE  request'[p] = request[p]
    BY <1>2 DEF WriteRules, TypeOK
  <1>3. ASSUME NEW p \in Syncing', p # r
        PROVE  ~request'[p].clean
    <2>1. p \in Syncing /\ request'[p] = request[p]
      BY <1>2, <1>3 DEF Syncing, Pending
    <2>2. QED
      BY <1>1, <1>3, <2>1 DEF SyncAlone
  <1>4. ASSUME r \in Syncing', request'[r].clean
        PROVE  Syncing' = {r} /\ rulesFile' = request'[r].rules
    <2>1. /\ request' = [request EXCEPT ![r].phase = "reload"]
          /\ rulesFile' = request[r].rules
      BY <1>4 DEF WriteRules, Syncing, Pending, TypeOK
    <2>2. request'[r].clean = request[r].clean /\ request'[r].rules = request[r].rules
      BY <1>1, <2>1 DEF TypeOK, SyncRequests
    <2>3. Syncing = {r}
      BY <1>1, <1>4, <2>2 DEF SyncAlone
    <2>4. Syncing' \subseteq {r}
      BY <1>2, <2>3 DEF Syncing, Pending
    <2>5. QED
      BY <1>4, <2>1, <2>2, <2>4
  <1>5. QED
    BY <1>3, <1>4 DEF SyncAlone

LEMMA ReloadSync ==
    ASSUME SyncInv, NEW r \in Requests, Reload(r)
    PROVE  SyncAlone' /\ (synced' => engine' = EnabledRules' /\ rulesFile' = EnabledRules')
  <1> USE DEF SyncInv
  <1>1. SyncAlone'
    <2>1. \A p \in Syncing' : p \in Syncing /\ request'[p] = request[p]
      BY DEF Reload, Syncing, Pending, TypeOK
    <2>2. QED
      BY <2>1, SameSyncs DEF Reload, disk
  <1>2. EnabledRules' = EnabledRules /\ rulesFile' = rulesFile
    BY SameRowsSameRules DEF Reload, disk
  <1>3. EnabledRules # Torn /\ EnabledRules # Down
    BY EnabledRulesType, MarkersAssumption DEF TypeOK, Rows
  <1>4. CASE synced
    <2>1. Loaded = EnabledRules
      BY <1>3, <1>4 DEF Loaded
    <2>2. engine' = Loaded \/ engine' = engine
      BY DEF Reload
    <2>3. QED
      BY <1>1, <1>2, <1>4, <2>1, <2>2
  <1>5. ASSUME ~synced, synced'
        PROVE  engine' = EnabledRules /\ rulesFile = EnabledRules
    <2>1. /\ request[r].clean /\ request[r].phase = "reload" /\ r \in Syncing
          /\ engine # Down /\ request[r].rules = EnabledRules
      BY <1>5 DEF Reload
    <2>2. engine' = Loaded
      BY <1>5 DEF Reload
    <2>3. rulesFile = EnabledRules
      BY <2>1 DEF SyncAlone
    <2>4. QED
      BY <1>3, <2>1, <2>2, <2>3 DEF Loaded
  <1>6. QED
    BY <1>1, <1>2, <1>4, <1>5

LEMMA NextSync == SyncInv /\ [Next]_vars => SyncInv'
  <1> SUFFICES ASSUME SyncInv, [Next]_vars
               PROVE  SyncInv'
    OBVIOUS
  <1> USE DEF SyncInv
  <1>t. TypeOK'
    BY NextTypeOK
  <1>1. ASSUME NEW r \in Requests, NEW op \in AllOperations \ {"sync"},
               NEW m \in Manifests, NEW t \in Tags, Load(r, op, m, t)
        PROVE  SyncInv'
    BY <1>1, <1>t, LoadSync, SameRowsSameRules DEF Load, disk, readers, history
  <1>2. ASSUME NEW r \in Requests, SelectEnabled(r)
        PROVE  SyncInv'
    BY <1>2, <1>t, SelectEnabledSync, SameRowsSameRules DEF SelectEnabled, disk, readers, history
  <1>3. ASSUME NEW r \in Requests, TouchFile(r)
        PROVE  SyncInv'
    BY <1>3, <1>t, HandlerSync, SameRowsSameRules DEF TouchFile, readers, history
  <1>4. ASSUME NEW r \in Requests, Commit(r)
        PROVE  SyncInv'
    BY <1>4, <1>t, HandlerSync, SameRowsSameRules DEF Commit, disk, readers, history
  <1>5. ASSUME NEW r \in Requests, CommitFails(r)
        PROVE  SyncInv'
    BY <1>5, <1>t, HandlerSync, SameRowsSameRules DEF CommitFails, disk, readers
  <1>6. ASSUME NEW r \in Requests, WriteRules(r)
        PROVE  SyncInv'
    BY <1>6, <1>t, WriteRulesSync, SameRowsSameRules DEF WriteRules, readers
  <1>7. ASSUME NEW r \in Requests, Reload(r)
        PROVE  SyncInv'
    BY <1>7, <1>t, ReloadSync
  <1>8. CASE Crash
    <2>1. SyncAlone'
      BY <1>8 DEF Crash, SyncAlone, Syncing, Pending
    <2>2. QED
      BY <1>8, <1>t, <2>1, SameRowsSameRules DEF Crash, readers
  <1>9. CASE RescanLibrary \/ CreativeStarts
    <2>1. SyncAlone'
      BY <1>9, SameSyncs DEF RescanLibrary, CreativeStarts, disk, Syncing, Pending
    <2>2. QED
      BY <1>9, <1>t, <2>1, SameRowsSameRules DEF RescanLibrary, CreativeStarts, disk, history
  <1>10. CASE OptimizerStarts
    <2>1. SyncAlone'
      BY <1>10, SameSyncs DEF OptimizerStarts, disk, Syncing, Pending
    <2>2. EnabledRules # Torn
      BY EnabledRulesType, MarkersAssumption DEF TypeOK, Rows
    <2>3. QED
      BY <1>10, <1>t, <2>1, <2>2, SameRowsSameRules DEF OptimizerStarts, disk, history
  <1>11. CASE UNCHANGED vars
    <2>1. SyncAlone'
      BY <1>11, SameSyncs DEF vars, disk, Syncing, Pending
    <2>2. QED
      BY <1>11, <1>t, <2>1, SameRowsSameRules DEF vars, disk, readers, history
  <1>12. QED
    BY <1>1, <1>2, <1>3, <1>4, <1>5, <1>6, <1>7, <1>8, <1>9, <1>10, <1>11 DEF Next, Handle

\* After a sync that ran alone and reached the optimizer, and until the next
\* change of the rows, the engine's rules are those of the rows, also when the
\* optimizer, or the dashboard-api in the middle of something else, restarts.
THEOREM SyncedIsAlwaysCurrent == Spec => []SyncedMeansCurrent
  <1>1. SyncInv => SyncedMeansCurrent
    BY DEF SyncInv, SyncedMeansCurrent
  <1>2. QED
    BY <1>1, InitSync, NextSync, PTL DEF Spec

-------------------------------------------------------------------------------
(***************************************************************************)
(* The files follow the rows                                               *)
(***************************************************************************)
FileOf(status) == IF status = "enabled" THEN "whole" ELSE "none"
Fits(m) == file[m] = FileOf(StatusOf(m))

\* The requests that concern the file of a manifest or what it depends on.
Concerning(m) == {r \in On(m) : request[r].op # "tags"}
Touching(r) == TouchesFile(request[r].op, request[r].seen)

\* A request that nobody disturbed is alone, so what it has read still holds;
\* once it is past the disk, the file is that of the status it will commit.
CleanRequests ==
    \A m \in Manifests : \A r \in Concerning(m) : request[r].clean =>
        /\ Concerning(m) = {r}
        /\ request[r].seen = StatusOf(m)
        /\ Allowed(request[r].op, request[r].seen)
        /\ request[r].phase = "commit" /\ Touching(r) =>
               file[m] = FileOf(Target(request[r].op))

\* Who is at the disk has a file to touch there.
DiskRequests ==
    \A m \in Manifests : \A r \in On(m) : request[r].phase = "disk" => Touching(r)

\* Who has touched the file of a manifest and is yet to commit.
Committing(m) ==
    {r \in Concerning(m) : request[r].phase = "commit" /\ Touching(r)}

\* A file departs from the row only by a request that has touched it, and whose
\* end, if it was disturbed or fails, unsettles the manifest.
SettledFiles ==
    \A m \in Manifests : settled[m] => Fits(m) \/ Committing(m) # {}

FilesInv == TypeOK /\ CleanRequests /\ DiskRequests /\ SettledFiles

LEMMA InitFiles == Init => FilesInv
  <1> SUFFICES ASSUME Init PROVE FilesInv
    OBVIOUS
  <1>1. \A m \in Manifests : On(m) = {} /\ Fits(m)
    BY DEF Init, On, Pending, Fits, FileOf, StatusOf
  <1>2. QED
    BY <1>1, InitTypeOK DEF FilesInv, CleanRequests, DiskRequests, SettledFiles, Concerning

\* What is under way on a manifest.
LEMMA OnType ==
    ASSUME TypeOK, NEW m \in Manifests, NEW r \in On(m)
    PROVE  /\ r \in Requests /\ Pending(r) /\ request[r] \in ManifestRequests
           /\ request[r].op \in AllOperations \ {"sync"} /\ request[r].manifest = m
           /\ request[r].seen \in Statuses /\ request[r].phase \in {"disk", "commit"}
           /\ request[r].clean \in BOOLEAN
  <1>1. r \in Requests /\ Pending(r) /\ request[r] \in ManifestRequests
    BY OfManifest DEF On
  <1>2. QED
    BY <1>1 DEF On, ManifestRequests, TagRequests, StatusRequests, AllOperations, Transitions

\* Steps that concern no manifest's file: the requests on manifests go on as
\* they were, and no other becomes one.
LEMMA SameFiles ==
    ASSUME FilesInv, UNCHANGED <<row, file, settled>>,
           \A m \in Manifests : \A r \in On(m) : request'[r] = request[r],
           \A m \in Manifests : On(m)' = On(m)
    PROVE  CleanRequests' /\ DiskRequests' /\ SettledFiles'
  <1> USE DEF FilesInv
  <1>1. ASSUME NEW m \in Manifests
        PROVE  /\ Concerning(m)' = Concerning(m)
               /\ Committing(m)' = Committing(m)
               /\ Fits(m)' = Fits(m)
               /\ StatusOf(m)' = StatusOf(m)
    BY DEF Concerning, Committing, Touching, Fits, StatusOf
  <1>2. CleanRequests'
    BY <1>1 DEF CleanRequests, Concerning, Touching
  <1>3. DiskRequests'
    BY DEF DiskRequests, Touching
  <1>4. SettledFiles'
    BY <1>1 DEF SettledFiles
  <1>5. QED
    BY <1>2, <1>3, <1>4

\* A sync is on no manifest before, during and after its steps.
LEMMA SyncFiles ==
    ASSUME FilesInv, NEW r \in Requests, SelectEnabled(r) \/ WriteRules(r) \/ Reload(r)
    PROVE  CleanRequests' /\ DiskRequests' /\ SettledFiles'
  <1> USE DEF FilesInv
  <1>1. \A m \in Manifests : r \notin On(m) /\ On(m) \cap Syncing = {}
    BY DEF SelectEnabled, WriteRules, Reload, Syncing, On
  <1>2. ASSUME NEW p \in Requests, p # r, p \notin Syncing
        PROVE  request'[p] = request[p]
    BY <1>2 DEF SelectEnabled, WriteRules, Reload, TypeOK
  <1>3. ASSUME NEW p \in Requests, p = r \/ p \in Syncing
        PROVE  ~(Pending(p)' /\ request'[p].op # "sync")
    <2>1. CASE SelectEnabled(r)
      <3>1. p \in Syncing => [request[p] EXCEPT !.clean = FALSE].op = "sync"
        BY OfSync DEF SyncRequests
      <3>2. QED
        BY <1>3, <2>1, <3>1 DEF SelectEnabled
    <2>2. CASE WriteRules(r)
      <3>1. [request[r] EXCEPT !.phase = "reload"].op = "sync"
        BY <2>2, OfSync DEF WriteRules, SyncRequests
      <3>2. request'[r] \in {[request[r] EXCEPT !.phase = "reload"], None}
        BY <2>2 DEF WriteRules, TypeOK
      <3>3. p # r => request'[p] = request[p]
        BY <2>2 DEF WriteRules, TypeOK
      <3>4. QED
        BY <1>3, <3>1, <3>2, <3>3 DEF Pending, Syncing
    <2>3. CASE Reload(r)
      BY <1>3, <2>3 DEF Reload, Pending, Syncing, TypeOK
    <2>4. QED
      BY <2>1, <2>2, <2>3
  <1>4. \A m \in Manifests : On(m)' = On(m)
    BY <1>1, <1>2, <1>3 DEF On, Pending, Syncing
  <1>5. \A m \in Manifests : \A p \in On(m) : request'[p] = request[p]
    BY <1>1, <1>2 DEF On
  <1>6. UNCHANGED <<row, file, settled>>
    BY DEF SelectEnabled, WriteRules, Reload, disk, history
  <1>7. QED
    BY <1>4, <1>5, <1>6, SameFiles

\* A request that begins disturbs those it finds, and is disturbed by them.
LEMMA LoadFiles ==
    ASSUME FilesInv, NEW r \in Requests, NEW op \in AllOperations \ {"sync"},
           NEW m \in Manifests, NEW t \in Tags, Load(r, op, m, t)
    PROVE  CleanRequests' /\ DiskRequests' /\ SettledFiles'
  <1> USE DEF FilesInv
  <1>1. /\ request'[r].op = op /\ request'[r].manifest = m
        /\ request'[r].seen = StatusOf(m) /\ Allowed(op, StatusOf(m))
        /\ request'[r].phase = IF TouchesFile(op, StatusOf(m)) THEN "disk" ELSE "commit"
        /\ request'[r].clean <=> \A p \in On(m) : request[p].op = "tags"
    BY DisturbedType DEF Load, TypeOK
  <1>2. \A x \in Manifests : r \notin On(x)
    BY DEF Load, On
  <1>3. ASSUME NEW p \in Requests, p # r
        PROVE  \/ request'[p] = request[p] /\ (p \notin Concerning(m) \/ op = "tags")
               \/ /\ p \in Concerning(m) /\ op # "tags"
                  /\ request'[p] = [request[p] EXCEPT !.clean = FALSE]
    <2>1. request'[p] = IF op = "tags" THEN request[p] ELSE Disturbed(m)[p]
      BY <1>3, DisturbedType DEF Load, TypeOK
    <2>2. QED
      BY <2>1 DEF Disturbed, Concerning
  <1>4. ASSUME NEW x \in Manifests, NEW p \in On(x)
        PROVE  /\ p \in On(x)' /\ request'[p].op = request[p].op
               /\ request'[p].seen = request[p].seen
               /\ request'[p].phase = request[p].phase
               /\ request'[p].clean =>
                      request[p].clean /\ (op = "tags" \/ p \notin Concerning(m))
    <2>1. p # r /\ p \in Requests /\ request[p] \in ManifestRequests
      BY <1>2, OnType
    <2>2. CASE request'[p] = request[p] /\ (p \notin Concerning(m) \/ op = "tags")
      BY <2>1, <2>2 DEF On, Pending
    <2>3. CASE request'[p] = [request[p] EXCEPT !.clean = FALSE]
      <3>1. request'[p] \in ManifestRequests
        BY <2>1, <2>3 DEF ManifestRequests, TagRequests, StatusRequests
      <3>2. request'[p] # None
        BY <3>1, MarkersAssumption DEF ManifestRequests
      <3>3. /\ request'[p].op = request[p].op /\ request'[p].seen = request[p].seen
            /\ request'[p].phase = request[p].phase
            /\ request'[p].manifest = request[p].manifest
            /\ request'[p].clean = FALSE
        BY <2>1, <2>3 DEF ManifestRequests, TagRequests, StatusRequests
      <3>4. QED
        BY <2>1, <3>2, <3>3 DEF On, Pending
    <2>4. QED
      BY <1>3, <2>1, <2>2, <2>3
  <1>5. ASSUME NEW x \in Manifests, NEW p \in On(x)', p # r
        PROVE  p \in On(x)
    <2>1. p \in Requests /\ request'[p] # None /\ request'[p].op # "sync"
      BY <1>5 DEF On, Pending
    <2>2. CASE request'[p] = request[p]
      BY <1>5, <2>2 DEF On, Pending
    <2>3. CASE p \in Concerning(m)
      <3>1. p \in On(m)
        BY <2>3 DEF Concerning
      <3>2. p \in On(m)'
        BY <1>4, <3>1
      <3>3. x = m
        BY <1>5, <3>2 DEF On
      <3>4. QED
        BY <3>1, <3>3
    <2>4. QED
      BY <1>3, <1>5, <2>1, <2>2, <2>3
  <1>6. ASSUME NEW x \in Manifests
        PROVE  StatusOf(x)' = StatusOf(x) /\ file'[x] = file[x] /\ settled'[x] = settled[x]
    BY DEF Load, disk, history, StatusOf
  <1>7. CleanRequests'
    <2> SUFFICES ASSUME NEW x \in Manifests, NEW p \in Concerning(x)', request'[p].clean
                 PROVE  /\ Concerning(x)' = {p}
                        /\ request'[p].seen = StatusOf(x)
                        /\ Allowed(request'[p].op, request'[p].seen)
                        /\ request'[p].phase = "commit" /\ Touching(p)' =>
                               file[x] = FileOf(Target(request'[p].op))
      BY <1>6 DEF CleanRequests
    <2>1. CASE p = r
      <3>1. x = m /\ op # "tags"
        BY <1>1, <2>1 DEF Concerning, On
      <3>2. \A z \in On(m) : request[z].op = "tags"
        BY <1>1, <2>1
      <3>3. Concerning(m)' \subseteq {r}
        BY <1>4, <1>5, <3>2 DEF Concerning
      <3>4. request'[p].phase = "commit" => ~Touching(p)'
        BY <1>1, <2>1 DEF Touching
      <3>5. QED
        BY <1>1, <2>1, <3>1, <3>3, <3>4
    <2>2. CASE p # r
      <3>1. p \in On(x) /\ p \in Concerning(x)
        BY <1>4, <1>5, <2>2 DEF Concerning
      <3>2. request[p].clean /\ (op = "tags" \/ x # m)
        BY <1>4, <3>1
      <3>3. Concerning(x)' \subseteq Concerning(x)
        BY <1>1, <1>4, <1>5, <3>2 DEF Concerning, On
      <3>4. Touching(p)' = Touching(p)
        BY <1>4, <3>1 DEF Touching
      <3>5. QED
        BY <1>4, <3>1, <3>2, <3>3, <3>4 DEF CleanRequests
    <2>3. QED
      BY <2>1, <2>2
  <1>8. DiskRequests'
    <2> SUFFICES ASSUME NEW x \in Manifests, NEW p \in On(x)', request'[p].phase = "disk"
                 PROVE  TouchesFile(request'[p].op, request'[p].seen)
      BY DEF DiskRequests, Touching
    <2>1. QED
      BY <1>1, <1>4, <1>5 DEF DiskRequests, Touching
  <1>9. SettledFiles'
    <2> SUFFICES ASSUME NEW x \in Manifests, settled[x], ~Fits(x)
                 PROVE  Committing(x)' # {}
      BY <1>6 DEF SettledFiles, Fits
    <2>1. PICK p \in Committing(x) : TRUE
      BY DEF SettledFiles
    <2>2. p \in On(x) /\ request[p].op # "tags" /\ request[p].phase = "commit"
          /\ TouchesFile(request[p].op, request[p].seen)
      BY <2>1 DEF Committing, Concerning, Touching
    <2>3. p \in Committing(x)'
      BY <1>4, <2>2 DEF Committing, Concerning, Touching
    <2>4. QED
      BY <2>3
  <1>10. QED
    BY <1>7, <1>8, <1>9

\* A handler at the disk has its file to itself, or is marked as disturbed.
LEMMA TouchFileFiles ==
    ASSUME FilesInv, NEW r \in Requests, TouchFile(r)
    PROVE  CleanRequests' /\ DiskRequests' /\ SettledFiles'
  <1> USE DEF FilesInv
  <1> DEFINE m == request[r].manifest
  <1>1. /\ request[r] \in ManifestRequests /\ m \in Manifests
        /\ r \in On(m) /\ request[r].phase = "disk"
    <2>1. request[r] \in ManifestRequests
      BY OfManifest DEF TouchFile
    <2>2. QED
      BY <2>1 DEF TouchFile, On, ManifestRequests, TagRequests, StatusRequests
  <1>2. /\ Touching(r) /\ r \in Concerning(m)
        /\ request[r].op \in {"enable", "disable", "archive"}
    BY <1>1 DEF DiskRequests, Touching, TouchesFile, Concerning
  <1>3. \/ request' = [request EXCEPT ![r].phase = "commit"]
        \/ request' = [request EXCEPT ![r].phase = "commit", ![r].clean = FALSE]
    BY DEF TouchFile, WriteFile, RemoveFile, FileFails
  <1>4. /\ request'[r] \in ManifestRequests /\ request'[r] # None
        /\ request'[r].op = request[r].op /\ request'[r].manifest = m
        /\ request'[r].seen = request[r].seen /\ request'[r].phase = "commit"
        /\ request'[r].clean => request[r].clean
    <2>1. request'[r] \in ManifestRequests
      <3>1. /\ [request[r] EXCEPT !.phase = "commit"] \in ManifestRequests
            /\ [request[r] EXCEPT !.phase = "commit", !.clean = FALSE] \in ManifestRequests
        BY <1>1 DEF ManifestRequests, TagRequests, StatusRequests
      <3>2. QED
        BY <1>3, <3>1 DEF TypeOK
    <2>2. request'[r] # None
      BY <2>1, MarkersAssumption DEF ManifestRequests
    <2>3. QED
      BY <1>1, <1>3, <2>1, <2>2 DEF TypeOK, ManifestRequests, TagRequests, StatusRequests
  <1>5. \A p \in Requests \ {r} : request'[p] = request[p]
    BY <1>3 DEF TypeOK
  <1>6. ASSUME NEW x \in Manifests
        PROVE  /\ On(x)' = On(x) /\ Concerning(x)' = Concerning(x)
               /\ StatusOf(x)' = StatusOf(x) /\ settled'[x] = settled[x]
               /\ x # m => file'[x] = file[x]
    <2>1. On(x)' = On(x)
      BY <1>1, <1>4, <1>5 DEF On, Pending
    <2>2. Concerning(x)' = Concerning(x)
      BY <1>4, <1>5, <2>1 DEF Concerning, On
    <2>3. x # m => file'[x] = file[x]
      BY DEF TouchFile, WriteFile, RemoveFile, FileFails, TypeOK
    <2>4. QED
      BY <2>1, <2>2, <2>3 DEF TouchFile, history, StatusOf
  <1>7. \A p \in Requests : Touching(p)' = Touching(p)
    BY <1>4, <1>5 DEF Touching
  <1>8. request'[r].clean => file'[m] = FileOf(Target(request[r].op))
    <2>1. CASE request[r].op = "enable" /\ WriteFile(r)
      BY <1>1, <2>1 DEF WriteFile, FileOf, Target, TypeOK
    <2>2. CASE request[r].op # "enable" /\ RemoveFile(r)
      BY <1>1, <1>2, <2>2 DEF RemoveFile, FileOf, Target, TypeOK
    <2>3. CASE FileFails(r)
      <3>1. request'[r] = [request[r] EXCEPT !.phase = "commit", !.clean = FALSE]
        BY <2>3 DEF FileFails, TypeOK
      <3>2. ~request'[r].clean
        BY <1>1, <3>1 DEF ManifestRequests, TagRequests, StatusRequests
      <3>3. QED
        BY <3>2
    <2>4. QED
      BY <2>1, <2>2, <2>3 DEF TouchFile
  <1>9. CleanRequests'
    <2> SUFFICES ASSUME NEW x \in Manifests, NEW p \in Concerning(x), request'[p].clean
                 PROVE  /\ Concerning(x) = {p}
                        /\ request'[p].seen = StatusOf(x)
                        /\ Allowed(request'[p].op, request'[p].seen)
                        /\ request'[p].phase = "commit" /\ Touching(p) =>
                               file'[x] = FileOf(Target(request'[p].op))
      BY <1>6, <1>7 DEF CleanRequests, Concerning, On
    <2>1. CASE p = r
      <3>1. x = m
        BY <2>1 DEF Concerning, On
      <3>2. QED
        BY <1>4, <1>8, <2>1, <3>1 DEF CleanRequests
    <2>2. CASE p # r
      <3>1. request'[p] = request[p] /\ Concerning(x) = {p}
        BY <1>5, <2>2 DEF CleanRequests, Concerning, On
      <3>2. x # m
        BY <1>2, <2>2, <3>1
      <3>3. QED
        BY <1>6, <3>1, <3>2 DEF CleanRequests
    <2>3. QED
      BY <2>1, <2>2
  <1>10. DiskRequests'
    <2> SUFFICES ASSUME NEW x \in Manifests, NEW p \in On(x), request'[p].phase = "disk"
                 PROVE  Touching(p)
      BY <1>6, <1>7 DEF DiskRequests, On
    <2>1. p # r /\ request'[p] = request[p]
      BY <1>4, <1>5 DEF On
    <2>2. QED
      BY <2>1 DEF DiskRequests
  <1>11. SettledFiles'
    <2> SUFFICES ASSUME NEW x \in Manifests, settled[x]
                 PROVE  Fits(x)' \/ Committing(x)' # {}
      BY <1>6 DEF SettledFiles
    <2>1. CASE x = m
      <3>1. r \in Committing(x)'
        <4>1. r \in Concerning(x)'
          BY <1>1, <1>2, <1>6, <2>1
        <4>2. r \in Requests
          BY <1>1, OnType
        <4>3. Touching(r)'
          BY <1>2, <1>7, <4>2
        <4>4. QED
          BY <1>4, <4>1, <4>3 DEF Committing
      <3>2. QED
        BY <2>1, <3>1
    <2>2. CASE x # m
      <3>1. Fits(x)' = Fits(x)
        BY <1>6, <2>2 DEF Fits
      <3>2. \A p \in Concerning(x) : request'[p] = request[p]
        BY <1>5, <2>2 DEF Concerning, On
      <3>3. Committing(x) \subseteq Committing(x)'
        BY <1>6, <1>7, <3>2 DEF Committing, Concerning, On
      <3>4. QED
        BY <3>1, <3>3 DEF SettledFiles
    <2>3. QED
      BY <2>1, <2>2
  <1>12. QED
    BY <1>9, <1>10, <1>11

\* When a request ends, those on other manifests go on as they were, and on its
\* own nobody was undisturbed but it.
LEMMA EndedFiles ==
    ASSUME FilesInv, NEW m \in Manifests, NEW r \in On(m),
           request' = [request EXCEPT ![r] = None], UNCHANGED file,
           \A x \in Manifests : x # m \/ r \notin Concerning(m) => StatusOf(x)' = StatusOf(x)
    PROVE  /\ CleanRequests' /\ DiskRequests'
           /\ \A x \in Manifests : /\ On(x)' = On(x) \ {r}
                                   /\ Committing(x)' = Committing(x) \ {r}
  <1> USE DEF FilesInv
  <1>1. r \in Requests /\ request'[r] = None
    BY DEF On, TypeOK
  <1>2. \A p \in Requests \ {r} : request'[p] = request[p]
    BY DEF TypeOK
  <1>3. ASSUME NEW x \in Manifests
        PROVE  /\ On(x)' = On(x) \ {r}
               /\ Concerning(x)' = Concerning(x) \ {r}
               /\ Committing(x)' = Committing(x) \ {r}
    <2>1. On(x)' = On(x) \ {r}
      BY <1>1, <1>2 DEF On, Pending
    <2>2. Concerning(x)' = Concerning(x) \ {r}
      BY <1>2, <2>1 DEF Concerning, On
    <2>3. Committing(x)' = Committing(x) \ {r}
      BY <1>2, <2>2 DEF Committing, Concerning, On, Touching
    <2>4. QED
      BY <2>1, <2>2, <2>3
  <1>4. CleanRequests'
    <2> SUFFICES ASSUME NEW x \in Manifests, NEW p \in Concerning(x), p # r, request[p].clean
                 PROVE  /\ Concerning(x) \ {r} = {p}
                        /\ request[p].seen = StatusOf(x)'
                        /\ Allowed(request[p].op, request[p].seen)
                        /\ request[p].phase = "commit" /\ Touching(p) =>
                               file[x] = FileOf(Target(request[p].op))
      BY <1>2, <1>3 DEF CleanRequests, Concerning, On, Touching
    <2>1. Concerning(x) = {p}
      BY DEF CleanRequests
    <2>2. x # m \/ r \notin Concerning(m)
      BY <2>1
    <2>3. QED
      BY <2>1, <2>2 DEF CleanRequests
  <1>5. DiskRequests'
    BY <1>2, <1>3 DEF DiskRequests, On, Touching
  <1>6. QED
    BY <1>3, <1>4, <1>5

\* An operation that leaves the file alone neither enables nor is allowed to
\* an enabled manifest.
LEMMA UntouchedFits ==
    ASSUME NEW op \in AllOperations \ {"tags", "sync"}, NEW status \in Statuses,
           Allowed(op, status), ~TouchesFile(op, status)
    PROVE  FileOf(Target(op)) = FileOf(status)
  <1>1. CASE op = "create"
    BY <1>1 DEF Allowed, FileOf, Target, Transitions
  <1>2. CASE op \in {"approve", "reject", "archive"}
    <2>1. Target(op) \in ValidTransitions(status)
      BY <1>2 DEF Allowed, CanTransition, Transitions
    <2>2. status = "enabled" => op = "archive"
      BY <1>2, <2>1 DEF ValidTransitions, Target
    <2>3. status # "enabled"
      BY <2>2 DEF TouchesFile
    <2>4. Target(op) # "enabled"
      BY <1>2 DEF Target
    <2>5. QED
      BY <2>3, <2>4 DEF FileOf
  <1>3. QED
    BY <1>1, <1>2 DEF TouchesFile, AllOperations, Transitions

\* The status a request commits.
LEMMA CommittedStatus ==
    ASSUME TypeOK, NEW q \in ManifestRequests
    PROVE  NewRow(q).status = IF q.op = "tags" THEN StatusOf(q.manifest) ELSE Target(q.op)
  <1>1. row[q.manifest] \in Rows
    BY DEF TypeOK, ManifestRequests, TagRequests, StatusRequests, Rows
  <1>2. q.op \in AllOperations \ {"sync"}
    BY DEF ManifestRequests, TagRequests, StatusRequests, AllOperations, Transitions
  <1>3. q.op = "tags" => NewRow(q) = [row[q.manifest] EXCEPT !.tags = q.tags]
    BY DEF NewRow
  <1>4. q.op = "create" => NewRow(q).status = "draft"
    BY DEF NewRow
  <1>5. q.op = "approve" =>
            NewRow(q) = [row[q.manifest] EXCEPT !.status = "approved", !.approved = TRUE]
    BY DEF NewRow
  <1>6. q.op \in {"reject", "enable", "disable", "archive"} =>
            NewRow(q) = [row[q.manifest] EXCEPT !.status = Target(q.op)]
    BY DEF NewRow
  <1>7. QED
    BY <1>1, <1>2, <1>3, <1>4, <1>5, <1>6 DEF StatusOf, Target, Rows, AllOperations, Transitions

\* A request whose commit settles its manifest leaves the file of its status.
LEMMA CommitFiles ==
    ASSUME FilesInv, NEW m \in Manifests, NEW r \in On(m), Commit(r)
    PROVE  CleanRequests' /\ DiskRequests' /\ SettledFiles'
  <1> USE DEF FilesInv
  <1> DEFINE q == request[r]
  <1>1. /\ r \in Requests /\ q \in ManifestRequests /\ q.manifest = m
        /\ q.op \in AllOperations \ {"sync"} /\ q.seen \in Statuses /\ q.phase = "commit"
    BY OnType DEF Commit
  <1>2. request' = [request EXCEPT ![r] = None] /\ UNCHANGED file
    BY DEF Commit, disk
  <1>3. ASSUME NEW x \in Manifests, x # m
        PROVE  StatusOf(x)' = StatusOf(x) /\ settled'[x] = settled[x]
    BY <1>1, <1>3 DEF Commit, TypeOK, StatusOf, history
  <1>4. q.op = "tags" => StatusOf(m)' = StatusOf(m) /\ settled' = settled
    BY <1>1, CommittedStatus DEF Commit, TypeOK, StatusOf, history
  <1>5. /\ CleanRequests' /\ DiskRequests'
        /\ \A x \in Manifests : Committing(x)' = Committing(x) \ {r}
    <2>1. \A x \in Manifests : x # m \/ r \notin Concerning(m) => StatusOf(x)' = StatusOf(x)
      BY <1>3, <1>4 DEF Concerning
    <2>2. QED
      BY <1>2, <2>1, EndedFiles
  <1>6. ASSUME NEW x \in Manifests, x # m, settled'[x]
        PROVE  Fits(x)' \/ Committing(x)' # {}
    <2>1. r \notin Committing(x)
      BY <1>1, <1>6 DEF Committing, Concerning, On
    <2>2. Fits(x)' = Fits(x)
      BY <1>2, <1>3, <1>6 DEF Fits
    <2>3. QED
      BY <1>3, <1>5, <1>6, <2>1, <2>2 DEF SettledFiles
  <1>7. ASSUME StatusOf(m)' = StatusOf(m), settled[m], ~Touching(r)
        PROVE  Fits(m)' \/ Committing(m)' # {}
    <2>1. r \notin Committing(m)
      BY <1>7 DEF Committing
    <2>2. Fits(m)' = Fits(m)
      BY <1>2, <1>7 DEF Fits
    <2>3. QED
      BY <1>5, <1>7, <2>1, <2>2 DEF SettledFiles
  <1>8. ASSUME q.op = "tags"
        PROVE  settled'[m] => Fits(m)' \/ Committing(m)' # {}
    BY <1>1, <1>4, <1>7, <1>8 DEF Touching, TouchesFile
  <1>9. ASSUME q.op = "create", StatusOf(m) # "none"
        PROVE  settled'[m] => Fits(m)' \/ Committing(m)' # {}
    <2>1. StatusOf(m)' = StatusOf(m) /\ settled' = settled
      BY <1>1, <1>9 DEF Commit, StatusOf, history
    <2>2. QED
      BY <1>7, <1>9, <2>1 DEF Touching, TouchesFile
  <1>10. ASSUME q.op # "tags", ~(q.op = "create" /\ StatusOf(m) # "none"), settled'[m]
         PROVE  Fits(m)'
    <2>1. /\ row' = [row EXCEPT ![m] = NewRow(q)]
          /\ settled' = [settled EXCEPT ![m] = q.clean /\ (@ \/ TouchesFile(q.op, q.seen))]
      BY <1>1, <1>10 DEF Commit
    <2>2. StatusOf(m)' = Target(q.op)
      BY <1>1, <1>10, <2>1, CommittedStatus DEF TypeOK, StatusOf
    <2>3. q.clean /\ (settled[m] \/ Touching(r))
      BY <1>10, <2>1 DEF TypeOK, Touching
    <2>4. r \in Concerning(m)
      BY <1>10 DEF Concerning
    <2>5. /\ Concerning(m) = {r} /\ q.seen = StatusOf(m) /\ Allowed(q.op, q.seen)
          /\ Touching(r) => file[m] = FileOf(Target(q.op))
      BY <1>1, <2>3, <2>4 DEF CleanRequests
    <2>6. CASE Touching(r)
      BY <1>2, <2>2, <2>5, <2>6 DEF Fits
    <2>7. CASE ~Touching(r)
      <3>1. Committing(m) = {}
        BY <2>5, <2>7 DEF Committing
      <3>2. file[m] = FileOf(StatusOf(m))
        BY <2>3, <2>7, <3>1 DEF SettledFiles, Fits
      <3>3. FileOf(Target(q.op)) = FileOf(StatusOf(m))
        BY <1>1, <1>10, <2>5, <2>7, UntouchedFits DEF Touching
      <3>4. QED
        BY <1>2, <2>2, <3>2, <3>3 DEF Fits
    <2>8. QED
      BY <2>6, <2>7
  <1>11. settled'[m] => Fits(m)' \/ Committing(m)' # {}
    BY <1>8, <1>9, <1>10
  <1>12. QED
    BY <1>5, <1>6, <1>11 DEF SettledFiles

\* A request that fails after it touched the file unsettles the manifest.
LEMMA CommitFailsFiles ==
    ASSUME FilesInv, NEW m \in Manifests, NEW r \in On(m), CommitFails(r)
    PROVE  CleanRequests' /\ DiskRequests' /\ SettledFiles'
  <1> USE DEF FilesInv
  <1>1. r \in Requests /\ request[r].manifest = m
    BY DEF On
  <1>2. request' = [request EXCEPT ![r] = None] /\ UNCHANGED <<row, file>>
    BY DEF CommitFails, disk
  <1>3. ASSUME NEW x \in Manifests
        PROVE  /\ StatusOf(x)' = StatusOf(x) /\ Fits(x)' = Fits(x)
               /\ settled'[x] => settled[x] /\ (x = m => ~Touching(r))
    BY <1>1, <1>2 DEF CommitFails, StatusOf, Fits, Touching, TypeOK
  <1>4. /\ CleanRequests' /\ DiskRequests'
        /\ \A x \in Manifests : Committing(x)' = Committing(x) \ {r}
    BY <1>2, <1>3, EndedFiles
  <1>5. ASSUME NEW x \in Manifests, settled'[x]
        PROVE  Fits(x)' \/ Committing(x)' # {}
    <2>1. r \notin Committing(x)
      BY <1>1, <1>3, <1>5 DEF Committing, Concerning, On
    <2>2. QED
      BY <1>3, <1>4, <1>5, <2>1 DEF SettledFiles
  <1>6. QED
    BY <1>4, <1>5 DEF SettledFiles

\* A crash unsettles every manifest whose file somebody has touched or was
\* about to, and leaves the other files alone.
LEMMA CrashFiles ==
    ASSUME FilesInv, Crash
    PROVE  CleanRequests' /\ DiskRequests' /\ SettledFiles'
  <1> USE DEF FilesInv
  <1>1. \A m \in Manifests : On(m)' = {}
    BY DEF Crash, On, Pending
  <1>2. CleanRequests' /\ DiskRequests'
    BY <1>1 DEF CleanRequests, DiskRequests, Concerning
  <1>3. ASSUME NEW m \in Manifests, settled'[m]
        PROVE  Fits(m)'
    <2>1. settled[m] /\ \A r \in On(m) : ~Touching(r)
      BY <1>3 DEF Crash, Touching
    <2>2. Fits(m)
      BY <2>1 DEF SettledFiles, Committing, Concerning
    <2>3. file'[m] = file[m]
      <3>1. ASSUME NEW r \in Requests, Pending(r), request[r].op = "enable",
                   request[r].manifest = m
            PROVE  FALSE
        BY <2>1, <3>1 DEF On, Touching, TouchesFile
      <3>2. \/ file' = file
            \/ \E r \in Requests : /\ Pending(r) /\ request[r].op = "enable"
                                   /\ file' = [file EXCEPT ![request[r].manifest] = "torn"]
        BY DEF Crash, disk
      <3>3. QED
        BY <3>1, <3>2 DEF TypeOK
    <2>4. QED
      BY <2>2, <2>3 DEF Crash, Fits, StatusOf
  <1>4. QED
    BY <1>2, <1>3 DEF SettledFiles

\* Every request, disturbance and reader keeps the invariant.
LEMMA NextFiles == FilesInv /\ [Next]_vars => FilesInv'
  <1> SUFFICES ASSUME FilesInv, [Next]_vars
               PROVE  CleanRequests' /\ DiskRequests' /\ SettledFiles'
    BY NextTypeOK DEF FilesInv
  <1>1. ASSUME NEW r \in Requests, Commit(r) \/ CommitFails(r)
        PROVE  CleanRequests' /\ DiskRequests' /\ SettledFiles'
    <2>1. Pending(r) /\ request[r].op # "sync"
      BY <1>1 DEF Commit, CommitFails
    <2>2. request[r].manifest \in Manifests
      BY <2>1, OfManifest DEF FilesInv, ManifestRequests, TagRequests, StatusRequests
    <2>3. r \in On(request[r].manifest)
      BY <2>1 DEF On
    <2>4. QED
      BY <1>1, <2>2, <2>3, CommitFiles, CommitFailsFiles
  <1>2. ASSUME UNCHANGED <<row, file, settled, request>>
        PROVE  CleanRequests' /\ DiskRequests' /\ SettledFiles'
    BY <1>2, SameFiles DEF On, Pending
  <1>3. CASE RescanLibrary \/ CreativeStarts \/ OptimizerStarts \/ UNCHANGED vars
    BY <1>2, <1>3 DEF RescanLibrary, CreativeStarts, OptimizerStarts, vars, disk, history
  <1>4. ASSUME NEW r \in Requests, Handle(r)
        PROVE  CleanRequests' /\ DiskRequests' /\ SettledFiles'
    BY <1>1, <1>4, TouchFileFiles, SyncFiles DEF Handle
  <1>5. QED
    BY <1>1, <1>3, <1>4, LoadFiles, SyncFiles, CrashFiles DEF Next

\* Once the last request that concerned the file of a manifest went undisturbed,
\* the file is there exactly for an enabled manifest, for any number of requests
\* that overlap, fail or are cut off in between.
THEOREM FilesAlwaysFollowStatus == Spec => []FilesFollowStatus
  <1>1. FilesInv => FilesFollowStatus
    BY DEF FilesInv, SettledFiles, FilesFollowStatus, Committing, Concerning, Fits, FileOf
  <1>2. QED
    BY <1>1, InitFiles, NextFiles, PTL DEF Spec

-------------------------------------------------------------------------------
(***************************************************************************)
(* A campaign holds only what was approved                                 *)
(***************************************************************************)
\* The edit under way, as far as it concerns a manifest: one that is about to
\* be linked was found approved.
EditInv ==
    \/ edit = None
    \/ edit.op = "update"
    \/ \E m \in Manifests : edit = [op |-> "add", manifest |-> m, phase |-> "manifest"]
    \/ \E m \in Approved : edit = [op |-> "add", manifest |-> m, phase |-> "link"]
    \/ edit.op = "insert" /\ edit.manifest \in Approved

LinksApproved == DOMAIN links \subseteq Approved

CampaignInv == ApprovalInv /\ EditInv /\ LinksApproved

\* No request takes an approval back.
LEMMA ApprovedForGood ==
    ASSUME ApprovalInv, Next
    PROVE  Approved \subseteq Approved'
  <1>1. ASSUME NEW r \in Requests, Commit(r) PROVE Approved \subseteq Approved'
    BY <1>1, CommitApproval
  <1>2. CASE UNCHANGED row
    BY <1>2 DEF Approved
  <1>3. ASSUME NEW r \in Requests, NEW op, NEW m, NEW t, Load(r, op, m, t)
        PROVE  UNCHANGED row
    BY <1>3 DEF Load
  <1>4. ASSUME NEW r \in Requests,
               SelectEnabled(r) \/ TouchFile(r) \/ WriteRules(r) \/ Reload(r) \/ CommitFails(r)
        PROVE  UNCHANGED row
    BY <1>4 DEF SelectEnabled, TouchFile, WriteRules, Reload, CommitFails
  <1>5. Crash \/ RescanLibrary \/ CreativeStarts \/ OptimizerStarts => UNCHANGED row
    BY DEF Crash, RescanLibrary, CreativeStarts, OptimizerStarts
  <1>6. QED
    BY <1>1, <1>2, <1>3, <1>4, <1>5 DEF Next, Handle

\* What the workflow does to the manifests disturbs no campaign.
LEMMA WorkflowKeepsCampaign ==
    ASSUME CampaignInv, Next, UNCHANGED campaignVars
    PROVE  EditInv' /\ LinksApproved'
  <1>1. Approved \subseteq Approved'
    BY ApprovedForGood DEF CampaignInv
  <1>2. UNCHANGED <<links, edit>>
    BY DEF campaignVars
  <1>3. LinksApproved'
    BY <1>1, <1>2 DEF CampaignInv, LinksApproved
  <1>4. EditInv'
    BY <1>1, <1>2 DEF CampaignInv, EditInv
  <1>5. QED
    BY <1>3, <1>4

\* An edit links the manifest it has checked.
LEMMA EditKeepsCampaign ==
    ASSUME CampaignInv, CampaignNext
    PROVE  EditInv' /\ LinksApproved'
  <1> USE DEF CampaignInv
  <1>1. Approved' = Approved
    BY DEF CampaignNext, vars, Approved
  <1>2. CASE CreateCampaign
    BY <1>1, <1>2 DEF CreateCampaign, EditInv, LinksApproved
  <1>3. ASSUME NEW s, StartUpdate(s) PROVE EditInv' /\ LinksApproved'
    BY <1>1, <1>3 DEF StartUpdate, Edits, EditInv, LinksApproved
  <1>4. ASSUME NEW m \in Manifests, StartAdd(m) PROVE EditInv' /\ LinksApproved'
    BY <1>1, <1>4 DEF StartAdd, Edits, EditInv, LinksApproved
  <1>5. ASSUME NEW m \in Manifests, Remove(m) PROVE EditInv' /\ LinksApproved'
    BY <1>1, <1>5 DEF Remove, EditInv, LinksApproved
  <1>6. CASE CommitUpdate \/ CampaignFails
    BY <1>1, <1>6 DEF CommitUpdate, CampaignFails, Edits, EditInv, LinksApproved
  <1>7. CASE CheckManifest
    <2>1. PICK m \in Manifests : edit = [op |-> "add", manifest |-> m, phase |-> "manifest"]
      BY <1>7 DEF CheckManifest, EditInv
    <2>2. CASE ~Activatable(m)
      BY <1>1, <1>7, <2>1, <2>2 DEF CheckManifest, Edits, EditInv, LinksApproved
    <2>3. CASE Activatable(m)
      <3>1. m \in Approved
        BY <2>3 DEF Activatable, ApprovalInv, RowsApproved, StatusOf, Approved
      <3>2. edit' = [op |-> "add", manifest |-> m, phase |-> "link"]
        BY <1>7, <2>1, <2>3 DEF CheckManifest, Edits
      <3>3. QED
        BY <1>1, <1>7, <3>1, <3>2 DEF CheckManifest, Edits, EditInv, LinksApproved
    <2>4. QED
      BY <2>2, <2>3
  <1>8. CASE CheckLink
    <2>1. PICK m \in Approved : edit = [op |-> "add", manifest |-> m, phase |-> "link"]
      BY <1>8 DEF CheckLink, EditInv
    <2>2. edit' \in {None, [op |-> "insert", manifest |-> m, position |-> NextPosition]}
      BY <1>8, <2>1 DEF CheckLink, Edits
    <2>3. QED
      BY <1>1, <1>8, <2>2 DEF CheckLink, Edits, EditInv, LinksApproved
  <1>9. CASE CommitAdd
    <2>1. edit.manifest \in Approved
      BY <1>9 DEF CommitAdd, EditInv
    <2>2. DOMAIN links' = DOMAIN links \cup {edit.manifest} /\ edit' = None
      BY <1>9 DEF CommitAdd
    <2>3. QED
      BY <1>1, <2>1, <2>2 DEF EditInv, LinksApproved
  <1>10. QED
    BY <1>2, <1>3, <1>4, <1>5, <1>6, <1>7, <1>8, <1>9 DEF CampaignNext, CampaignHandle

\* No campaign holds a manifest that was never approved, whatever becomes of the
\* manifest between the check and the insert.
THEOREM LinkedWasAlwaysApproved == CampaignSpec => []LinkedWasApproved
  <1>1. CampaignInit => CampaignInv
    <2> SUFFICES ASSUME CampaignInit PROVE CampaignInv
      OBVIOUS
    <2>1. ApprovalInv
      BY InitApproval DEF CampaignInit
    <2>2. EditInv /\ LinksApproved
      BY DEF CampaignInit, EditInv, LinksApproved
    <2>3. QED
      BY <2>1, <2>2 DEF CampaignInv
  <1>2. CampaignInv /\ [BothNext]_allVars => CampaignInv'
    <2> SUFFICES ASSUME CampaignInv, [BothNext]_allVars PROVE CampaignInv'
      OBVIOUS
    <2>1. CASE Next /\ UNCHANGED campaignVars
      BY <2>1, NextApproval, WorkflowKeepsCampaign DEF CampaignInv
    <2>2. CASE CampaignNext
      <3>1. ApprovalInv'
        BY <2>2, NextApproval DEF CampaignNext, CampaignInv
      <3>2. QED
        BY <2>2, <3>1, EditKeepsCampaign DEF CampaignInv
    <2>3. CASE UNCHANGED allVars
      <3>1. UNCHANGED vars /\ UNCHANGED <<links, edit>> /\ UNCHANGED row
        BY <2>3 DEF allVars, campaignVars, vars
      <3>2. ApprovalInv'
        BY <3>1, NextApproval DEF CampaignInv
      <3>3. QED
        BY <3>1, <3>2 DEF CampaignInv, EditInv, LinksApproved, Approved
    <2>4. QED
      BY <2>1, <2>2, <2>3 DEF BothNext
  <1>3. CampaignInv => LinkedWasApproved
    BY DEF CampaignInv, LinksApproved, LinkedWasApproved, Approved
  <1>4. QED
    BY <1>1, <1>2, <1>3, PTL DEF CampaignSpec
===============================================================================
