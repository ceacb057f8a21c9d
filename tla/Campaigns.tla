------------------------------- MODULE Campaigns -------------------------------
(***************************************************************************)
(* A campaign of the dashboard-api next to the manifests it groups.  One   *)
(* request on it at a time runs among those on the manifests; it awaits    *)
(* the database for the campaign, the manifest, the link and the position, *)
(* and to commit, and others commit in between.                            *)
(*                                                                         *)
(* Names, descriptions and dates decide nothing and are left out.          *)
(***************************************************************************)
EXTENDS ManifestWorkflow, Integers, FiniteSetsExt, Functions

CampaignStatuses == {"none", "draft", "active", "paused", "archived"}

VARIABLES
    campaign,   \* its status
    links,      \* campaign_manifests: the position of every manifest in it
    edit        \* the request on it that is under way

campaignVars == <<campaign, links, edit>>
allVars == <<vars, campaignVars>>

CampaignInit ==
    /\ Init
    /\ campaign = "none"
    /\ links = [m \in {} |-> 0]
    /\ edit = None
-------------------------------------------------------------------------------
(***************************************************************************)
(* create_campaign, update_campaign and archive_campaign                   *)
(***************************************************************************)
Edits(e) == edit' = e /\ UNCHANGED <<campaign, links>>

CreateCampaign ==
    /\ edit = None
    /\ campaign = "none"
    /\ campaign' = "draft"
    /\ UNCHANGED <<links, edit>>

\* _get_campaign_or_404 and the guard; a PATCH without a status keeps it.
StartUpdate(status) ==
    /\ edit = None
    /\ campaign \notin {"none", "archived"}
    /\ Edits([op |-> "update", seen |-> campaign, status |-> status])

\* Only a column that differs from what was read is written.
CommitUpdate ==
    /\ edit # None /\ edit.op = "update"
    /\ campaign' = IF edit.status = edit.seen THEN campaign ELSE edit.status
    /\ edit' = None
    /\ UNCHANGED links
-------------------------------------------------------------------------------
(***************************************************************************)
(* add_manifest_to_campaign and remove_manifest_from_campaign              *)
(***************************************************************************)
StartAdd(m) ==
    /\ edit = None
    /\ campaign \notin {"none", "archived"}
    /\ Edits([op |-> "add", manifest |-> m, phase |-> "manifest"])

\* Mutant: any manifest that was not turned down.
ActivatableUnlessRejected(m) == StatusOf(m) \notin {"none", "rejected", "archived"}

\* _ACTIVATABLE_MANIFEST_STATUSES.
Activatable(m) == StatusOf(m) \in {"approved", "enabled"}

\* 404 or 409, or on to the link.
CheckManifest ==
    /\ edit # None /\ edit.op = "add" /\ edit.phase = "manifest"
    /\ Edits(IF Activatable(edit.manifest) THEN [edit EXCEPT !.phase = "link"] ELSE None)

\* max_pos_result.scalar_one_or_none() or -1, plus 1: a maximum of 0 is none.
NextPosition ==
    LET highest == IF DOMAIN links = {} THEN 0 ELSE Max(Range(links))
    IN  IF highest = 0 THEN 0 ELSE highest + 1

\* A manifest that is in the campaign already is answered as if it were added.
CheckLink ==
    /\ edit # None /\ edit.op = "add" /\ edit.phase = "link"
    /\ Edits(IF edit.manifest \in DOMAIN links THEN None
             ELSE [op |-> "insert", manifest |-> edit.manifest, position |-> NextPosition])

\* The primary key refuses a second link.
CommitAdd ==
    /\ edit # None /\ edit.op = "insert"
    /\ links' = [m \in DOMAIN links \cup {edit.manifest} |->
                    IF m \in DOMAIN links THEN links[m] ELSE edit.position]
    /\ edit' = None
    /\ UNCHANGED campaign

\* A campaign may be archived and still lose manifests.
Remove(m) ==
    /\ edit = None
    /\ m \in DOMAIN links
    /\ links' = [x \in DOMAIN links \ {m} |-> links[x]]
    /\ UNCHANGED <<campaign, edit>>

\* The commit fails, or the process ends.
CampaignFails == edit # None /\ Edits(None)

CampaignHandle == CommitUpdate \/ CheckManifest \/ CheckLink \/ CommitAdd

CampaignNext ==
    /\ \/ CreateCampaign
       \/ \E status \in CampaignStatuses \ {"none"} : StartUpdate(status)
       \/ \E m \in Manifests : StartAdd(m) \/ Remove(m)
       \/ CampaignHandle
       \/ CampaignFails
    /\ UNCHANGED vars

BothNext == (Next /\ UNCHANGED campaignVars) \/ CampaignNext

CampaignSpec ==
    /\ CampaignInit
    /\ [][BothNext]_allVars
    /\ Fairness
    /\ WF_allVars(CampaignHandle /\ UNCHANGED vars)
-------------------------------------------------------------------------------
(***************************************************************************)
(* Properties                                                              *)
(***************************************************************************)
\* No campaign holds a manifest that was never approved, whatever happened to
\* the manifest between the check and the insert (campaigns.py, "Unapproved
\* manifests cannot be added - approval is non-bypassable").
LinkedWasApproved == \A m \in DOMAIN links : row[m].approved
===============================================================================
