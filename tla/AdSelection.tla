------------------------------ MODULE AdSelection ------------------------------
(***************************************************************************)
(* From the camera's observations and the operator's tags to the manifests *)
(* the decision loop may pick: AudienceWindow makes the signal,            *)
(* RuleGenerator the rules, and Policy puts the two together at an hour of *)
(* the day.                                                                *)
(*                                                                         *)
(* How the rules, the observations and the signals get from one service to *)
(* the next is in ManifestWorkflow and AudiencePipeline; here they do, and *)
(* the question is whom the tags let in.                                   *)
(***************************************************************************)
EXTENDS RuleGenerator

CONSTANTS
    Library,        \* the manifests, with the tags the operator may give them
    Observations,   \* what input-cv may observe
    MaxEnabled,     \* bound on the manifests enabled at a time
    MaxWindow       \* bound on the observations of a window

\* _validate_audience_tags, on every manifest that is created or tagged.
ValidTags(tags) ==
    /\ tags \in Seq(ALL_VALID_TAGS)
    /\ \A i, j \in DOMAIN tags : tags[i] = tags[j] => i = j

\* What the schema of the observations lets through.
ValidObservation(o) ==
    /\ o.present \in Nat /\ o.confidence \in 0..Whole /\ o.degraded \in BOOLEAN
    /\ o.attention \in 0..Whole \cup {None}
    /\ \/ o.demographics = None
       \/ /\ DOMAIN o.demographics \subseteq Bins
          /\ \A bin \in DOMAIN o.demographics : o.demographics[bin] \in 0..Whole

ASSUME SelectionAssumption ==
    /\ \A m \in Library : ValidTags(m.tags)
    /\ \A o \in Observations : ValidObservation(o)
    /\ MaxEnabled \in Nat /\ MaxWindow \in Nat

VARIABLES
    enabled,    \* the enabled manifests, ORDER BY enabled_at DESC
    engine,     \* the rules the policy engine holds
    window,     \* the observations of the last WINDOW_MS
    hour        \* now_fn().hour

vars == <<enabled, engine, window, hour>>

signal == BuildSignal(window)

\* _tick evaluates no rules without a signal or while it asks for a freeze.
Evaluated == window # << >> /\ ~signal.freeze /\ ~signal.degraded

SelectableNow == IF Evaluated THEN Selectable(engine, signal, hour) ELSE {}

Init ==
    /\ enabled = << >>
    /\ engine = LoadPolicy({}, BuildRulesFile(enabled))
    /\ window = << >>
    /\ hour = 0

\* sync-rules, after the operator changed something.
Sync(manifests) ==
    /\ enabled' = manifests
    /\ engine' = LoadPolicy(engine, BuildRulesFile(manifests))
    /\ UNCHANGED <<window, hour>>

IsEnabled(id) == \E i \in DOMAIN enabled : enabled[i].id = id

Enable(m) ==
    /\ Len(enabled) < MaxEnabled
    /\ ~IsEnabled(m.id)
    /\ Sync(<<m>> \o enabled)

Disable(id) ==
    \E i \in DOMAIN enabled :
        /\ enabled[i].id = id
        /\ Sync(SubSeq(enabled, 1, i - 1) \o SubSeq(enabled, i + 1, Len(enabled)))

\* New tags leave enabled_at alone.
Retag(m) ==
    \E i \in DOMAIN enabled :
        /\ enabled[i].id = m.id
        /\ Sync([enabled EXCEPT ![i] = m])

\* An observation arrives; those before it that are too old are pruned.
Observe(o) ==
    /\ \E n \in 0..Len(window) :
           /\ n < MaxWindow
           /\ window' = Append(SubSeq(window, Len(window) - n + 1, Len(window)), o)
    /\ UNCHANGED <<enabled, engine, hour>>

HourPasses ==
    /\ hour' = (hour + 1) % 24
    /\ UNCHANGED <<enabled, engine, window>>

Next ==
    \/ \E m \in Library : Enable(m) \/ Retag(m)
    \/ \E id \in {m.id : m \in Library} : Disable(id)
    \/ \E o \in Observations : Observe(o)
    \/ HourPasses

Spec == Init /\ [][Next]_vars

-------------------------------------------------------------------------------
(***************************************************************************)
(* Properties                                                              *)
(***************************************************************************)
\* Whatever the tags, the audience and the hour, some rule matches: the engine
\* never leaves the loop without a manifest (build_rules_file, "playback must
\* never go blank").
SomeRuleMatches == Evaluated => Matching(engine, signal, hour) # {}

IsHead(id) == enabled # << >> /\ enabled[1].id = id

\* The manifest is on the list only as the file's safety fallback.
AsFallback(id) ==
    /\ IsHead(id) \/ enabled = << >>
    /\ \A rule \in TopTier(engine, signal, hour) : rule.priority = -1

Has(m, tags) == TagsOf(m) \cap tags # {}

\* The operator aims the manifest at an audience and at nobody else, at no time.
Targeted(m) ==
    /\ Has(m, AUDIENCE_TAGS \ {"attract", "general"})
    /\ ~Has(m, {"attract", "general"})
    /\ Frequency(m) = "freq_primary"

\* Somebody the camera saw is not described, or nobody of those it looked at
\* looks back.
Undescribed == Describing(window) # DOMAIN window
Inattentive ==
    /\ Attentive(window) # {}
    /\ \A i \in Attentive(window) : window[i].attention < 3500

\* A manifest aimed at somebody is not brought up by an audience that not every
\* observation describes, nor by one that does not look, in any combination of
\* its tags (PRIV-001, the privacy guard of policy.py, the attention gate of
\* rule_generator.py, CRM-004).
TargetingNeedsDisclosureAndAttention ==
    Undescribed \/ Inattentive =>
        \A i \in DOMAIN enabled :
            Targeted(enabled[i]) =>
                enabled[i].id \notin SelectableNow \/ AsFallback(enabled[i].id)

\* What the operator means by the tag.
OpenHours(tag) ==
    CASE tag = "time_morning" -> 6..10
      [] tag = "time_lunch" -> 11..13
      [] tag = "time_afternoon" -> 14..16
      [] tag = "time_happy_hour" -> 16..18
      [] tag = "time_evening" -> 18..21
      [] tag = "time_late_night" -> {22, 23, 0, 1, 2, 3, 4, 5}
      [] OTHER -> 0..23     \* time_all_day

\* A manifest with time tags and no reminder is selectable in its hours only,
\* and a manifest meant for everybody in its hours is: a night that crosses
\* midnight loses no hour to the split and gains none.
KeepsItsHours ==
    \A i \in DOMAIN enabled :
        LET m == enabled[i]
            times == TagsOf(m) \cap TIME_TAGS
            open == hour \in UNION {OpenHours(tag) : tag \in times}
        IN  Evaluated /\ times # {} /\ Frequency(m) = "freq_primary" =>
                /\ m.id \in SelectableNow => open \/ AsFallback(m.id)
                /\ /\ open
                   /\ ~Has(m, AUDIENCE_TAGS) \/ Has(m, {"general"})
                   /\ signal.count >= 1 /\ signal.confidence >= 6000
                   => \E rule \in Matching(engine, signal, hour) :
                          rule.manifest = m.id /\ rule.priority >= TimeOnlyBoost

\* The audience a tag of the age, gender or attire dimension aims at is there, and
\* on the average it looks.
Applies(tag) ==
    /\ Evaluated
    /\ signal.suppressed = FALSE
    /\ AttentionHolds(AttentionGate, signal)
    /\ PresenceHolds(AudienceConditions(tag), signal)
    /\ DemographicsHold(AudienceConditions(tag), signal)

Plain(m) == ~Has(m, TIME_TAGS) /\ ~Has(m, OCCASION_TAGS)

\* A manifest that two of its dimensions hit displaces those that one hits, when
\* neither has an hour or a promotion to its advantage (CRM-004/005, "rewards
\* manifests that correctly target a specific audience slice").
SliceBeatsSingleTag ==
    \A i, j \in DOMAIN enabled :
        /\ Plain(enabled[i]) /\ Plain(enabled[j])
        /\ \E pair \in CrossPairs(enabled[i]) : Applies(pair[1]) /\ Applies(pair[2])
        /\ CrossPairs(enabled[j]) = {}
        => enabled[j].id \notin SelectableNow
===============================================================================
