-------------------------------- MODULE Policy --------------------------------
(***************************************************************************)
(* The decision-optimizer's policy engine: which rules match a signal and  *)
(* which manifests may be selected by them.                                *)
(*                                                                         *)
(* A rule is [manifest, priority, conditions]; its conditions are a        *)
(* function from the fields it sets to their thresholds, a field left None *)
(* in the code is outside the domain, and a demographic field is named by  *)
(* the bin it bounds.  Ids serve the log only.  The weighted draw within a *)
(* tier is a choice: every weight is positive, so no rule of the tier is   *)
(* ever out of the draw.  The order and the repetitions that only the draw *)
(* would notice are left out, so a rule list is a set.                     *)
(***************************************************************************)
EXTENDS AudienceWindow

ConditionFields ==
    Bins \cup
    {"presence_count_gte", "presence_count_lte", "presence_count_eq",
     "presence_confidence_gte", "demographics_suppressed_eq",
     "attention_engaged_gte", "time_hour_gte", "time_hour_lte"}

Rule(manifest, priority, conditions) ==
    [manifest |-> manifest, priority |-> priority, conditions |-> conditions]

-------------------------------------------------------------------------------
(***************************************************************************)
(* Rule.matches                                                            *)
(*                                                                         *)
(* The signals are those of BuildSignal.  Every signal that reaches the    *)
(* engine has passed its schema, so presence is never missing.             *)
(***************************************************************************)
Sets(c, field) == field \in DOMAIN c

PresenceHolds(c, signal) ==
    /\ Sets(c, "presence_count_gte") => signal.count >= c["presence_count_gte"]
    /\ Sets(c, "presence_count_lte") => signal.count <= c["presence_count_lte"]
    /\ Sets(c, "presence_count_eq") => signal.count = c["presence_count_eq"]
    /\ Sets(c, "presence_confidence_gte") =>
           signal.confidence >= c["presence_confidence_gte"]

\* No attention in the signal: the condition passes.
AttentionHolds(c, signal) ==
    Sets(c, "attention_engaged_gte") /\ signal.engaged # None =>
        signal.engaged >= c["attention_engaged_gte"]

\* bool(demographics.get("suppressed", True)): silence means suppressed.
Suppressed(signal) == signal.suppressed \in {TRUE, None}

Share(signal, bin) == IF bin \in DOMAIN signal.shares THEN signal.shares[bin] ELSE 0

HasDemographicCondition(c) == DOMAIN c \cap Bins # {}

DemographicsHold(c, signal) ==
    /\ Sets(c, "demographics_suppressed_eq") =>
           Suppressed(signal) = c["demographics_suppressed_eq"]
    /\ HasDemographicCondition(c) => ~Suppressed(signal)
    /\ \A bin \in DOMAIN c \cap Bins : Share(signal, bin) >= c[bin]

HourHolds(c, hour) ==
    /\ Sets(c, "time_hour_gte") => hour >= c["time_hour_gte"]
    /\ Sets(c, "time_hour_lte") => hour <= c["time_hour_lte"]

Matches(rule, signal, hour) ==
    /\ PresenceHolds(rule.conditions, signal)
    /\ AttentionHolds(rule.conditions, signal)
    /\ DemographicsHold(rule.conditions, signal)
    /\ HourHolds(rule.conditions, hour)

-------------------------------------------------------------------------------
(***************************************************************************)
(* PolicyEngine.evaluate and load_policy                                   *)
(***************************************************************************)
Matching(rules, signal, hour) == {r \in rules : Matches(r, signal, hour)}

TopTier(rules, signal, hour) ==
    LET matching == Matching(rules, signal, hour)
    IN  {r \in matching : \A q \in matching : q.priority <= r.priority}

\* What evaluate may return; {} is its None, hold the current content.
Selectable(rules, signal, hour) ==
    {r.manifest : r \in TopTier(rules, signal, hour)}

\* The engine after a load of the file: a file without rules is refused and
\* the engine of before stays.
LoadPolicy(engine, file) == IF file = {} THEN engine ELSE file
===============================================================================
