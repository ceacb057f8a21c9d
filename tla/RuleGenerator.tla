----------------------------- MODULE RuleGenerator -----------------------------
(***************************************************************************)
(* From the operator's tags on a manifest to the rules of the policy       *)
(* engine (dashboard-api's rule_generator.py).                             *)
(*                                                                         *)
(* A manifest is [id, tags], its tags a sequence without repetition (the   *)
(* schemas refuse others).  A time window is the pair of conditions it     *)
(* adds, so a slot updates the conditions of a rule, and "no window"       *)
(* is the slot that adds nothing.                                          *)
(***************************************************************************)
EXTENDS Policy

CONSTANT StubManifest       \* the id "manifest-attract"

\* What is missing is not mistaken for a dimension, an answer or a share.
ASSUME NoneAssumption ==
    /\ None \notin {"age", "gender", "attire"}
    /\ None # FALSE
    /\ None \notin 0..Whole

AUDIENCE_TAGS ==
    {"attract", "general", "solo_adult", "group_adults", "adult_with_child",
     "teenager_group", "seniors", "male_focus", "female_focus"} \cup AttireBins
TIME_TAGS ==
    {"time_morning", "time_lunch", "time_afternoon", "time_happy_hour",
     "time_evening", "time_late_night", "time_all_day"}
OCCASION_TAGS == {"promo_featured", "promo_limited_time", "promo_seasonal"}
FREQUENCY_TAGS == {"freq_primary", "freq_recurring", "freq_ambient"}
ALL_VALID_TAGS == AUDIENCE_TAGS \cup TIME_TAGS \cup OCCASION_TAGS \cup FREQUENCY_TAGS

TagsOf(m) == {m.tags[i] : i \in DOMAIN m.tags}

-------------------------------------------------------------------------------
(***************************************************************************)
(* The tables                                                              *)
(***************************************************************************)
Always == [field \in {} |-> 0]

\* {**c, **d}
Updated(c, d) ==
    [field \in DOMAIN c \cup DOMAIN d |->
        IF field \in DOMAIN d THEN d[field] ELSE c[field]]

Presence(count, confidence) ==
    [presence_count_gte |-> count, presence_confidence_gte |-> confidence]

\* The less reliably an attire is recognised, the higher its threshold.
AttireThreshold(tag) ==
    CASE tag \in {"attire_formal", "attire_athletic", "attire_outdoor_technical",
                  "attire_workwear_uniform"} -> 4500
      [] tag \in {"attire_business_casual", "attire_streetwear", "attire_casual"} -> 5000
      [] OTHER -> 5500

AudienceConditions(tag) ==
    CASE tag = "attract" -> Always
      [] tag = "general" -> Presence(1, 6000)
      [] tag = "solo_adult" ->
             [presence_count_eq |-> 1, presence_confidence_gte |-> 7000, adult |-> 5000]
      [] tag = "group_adults" -> Updated(Presence(2, 7000), [adult |-> 5000])
      [] tag = "adult_with_child" -> Updated(Presence(2, 7000), [child |-> 2000, adult |-> 3000])
      [] tag = "teenager_group" -> Updated(Presence(1, 7000), [young_adult |-> 5000])
      [] tag = "seniors" -> Updated(Presence(1, 7000), [senior |-> 4000])
      [] tag = "male_focus" -> Updated(Presence(1, 6000), [male |-> 5500])
      [] tag = "female_focus" -> Updated(Presence(1, 6000), [female |-> 5500])
      [] OTHER ->     \* the attires
             Updated(Presence(1, 6000), [field \in {tag} |-> AttireThreshold(tag)])

Dimension(tag) ==
    CASE tag \in {"attract", "general"} -> None
      [] tag \in {"male_focus", "female_focus"} -> "gender"
      [] tag \in AttireBins -> "attire"
      [] OTHER -> "age"

BasePriority(tag) ==
    CASE tag = "attract" -> 0
      [] tag = "general" -> 5
      [] OTHER -> 10

TimeOnlyBoost == 10
TimeAudienceBoost == 20
CrossDimBonus == 3

OccasionBonus(tag) ==
    CASE tag = "promo_featured" -> 15
      [] tag = "promo_limited_time" -> 30
      [] OTHER -> 0

Slot(from, to) == [time_hour_gte |-> from, time_hour_lte |-> to]

\* Mutant: the night is one window, which no hour satisfies.
TimeWindowsUnsplit(tag) ==
    IF tag = "time_late_night" THEN {Slot(22, 5)} ELSE {Slot(0, 23)}

\* The night crosses midnight and needs two windows.
TimeWindows(tag) ==
    CASE tag = "time_morning" -> {Slot(6, 10)}
      [] tag = "time_lunch" -> {Slot(11, 13)}
      [] tag = "time_afternoon" -> {Slot(14, 16)}
      [] tag = "time_happy_hour" -> {Slot(16, 18)}
      [] tag = "time_evening" -> {Slot(18, 21)}
      [] tag = "time_late_night" -> {Slot(22, 23), Slot(0, 5)}
      [] OTHER -> {Always}     \* time_all_day

ReminderPriority(frequency) == IF frequency = "freq_recurring" THEN 7 ELSE 3

AttentionGate == [attention_engaged_gte |-> 3500]

-------------------------------------------------------------------------------
(***************************************************************************)
(* The rules of one manifest                                               *)
(***************************************************************************)
InjectAttentionGate(c, tag) ==
    IF Dimension(tag) = None THEN c ELSE Updated(c, AttentionGate)

\* The more restrictive of two thresholds on the same field.
MergeConditions(a, b) ==
    [field \in DOMAIN a \cup DOMAIN b |->
        IF field \notin DOMAIN b THEN a[field]
        ELSE IF field \notin DOMAIN a THEN b[field]
        ELSE Max({a[field], b[field]})]

\* The first of the frequency tags in the list counts.
Frequency(m) ==
    LET frequencies == SelectSeq(m.tags, LAMBDA tag : tag \in FREQUENCY_TAGS)
    IN  IF frequencies = << >> THEN "freq_primary" ELSE Head(frequencies)

\* The sum over the promotion tags of the manifest, of which there are three.
TagBonus(m, tag) == IF tag \in TagsOf(m) THEN OccasionBonus(tag) ELSE 0
Bonus(m) ==
    TagBonus(m, "promo_featured") + TagBonus(m, "promo_limited_time")
        + TagBonus(m, "promo_seasonal")

\* Where the slots of the time tags meet the audience tags.
SlotsOf(m) ==
    LET times == TagsOf(m) \cap TIME_TAGS
    IN  IF times = {} THEN {Always} ELSE UNION {TimeWindows(tag) : tag \in times}

AudienceBoost(m) == IF TagsOf(m) \cap TIME_TAGS = {} THEN 0 ELSE TimeAudienceBoost

AudienceRules(m) ==
    {Rule(m.id,
          BasePriority(tag) + AudienceBoost(m) + Bonus(m),
          Updated(InjectAttentionGate(AudienceConditions(tag), tag), slot)) :
        tag \in TagsOf(m) \cap AUDIENCE_TAGS, slot \in SlotsOf(m)}

\* Pairs of tags of different dimensions.
CrossPairs(m) ==
    {pair \in (TagsOf(m) \cap AUDIENCE_TAGS) \X (TagsOf(m) \cap AUDIENCE_TAGS) :
        /\ Dimension(pair[1]) # None /\ Dimension(pair[2]) # None
        /\ Dimension(pair[1]) # Dimension(pair[2])}

\* What two tags ask for together, of people who look.
GatedMerge(pair, slot) ==
    Updated(Updated(MergeConditions(AudienceConditions(pair[1]), AudienceConditions(pair[2])),
                    AttentionGate),
            slot)

\* Mutant: the merged conditions lose the gate.
CrossDimRulesUngated(m) ==
    {Rule(m.id,
          10 + CrossDimBonus + AudienceBoost(m) + Bonus(m),
          Updated(MergeConditions(AudienceConditions(pair[1]), AudienceConditions(pair[2])), slot)) :
        pair \in CrossPairs(m), slot \in SlotsOf(m)}

\* Mutant: a pair is worth no more than one of its tags.
CrossDimRulesUnrewarded(m) ==
    {Rule(m.id,
          10 + AudienceBoost(m) + Bonus(m),
          GatedMerge(pair, slot)) :
        pair \in CrossPairs(m), slot \in SlotsOf(m)}

CrossDimRules(m) ==
    {Rule(m.id,
          10 + CrossDimBonus + AudienceBoost(m) + Bonus(m),
          GatedMerge(pair, slot)) :
        pair \in CrossPairs(m), slot \in SlotsOf(m)}

\* Time tags alone: whoever is there, in these windows.
PresenceRules(m) ==
    IF TagsOf(m) \cap AUDIENCE_TAGS = {} /\ TagsOf(m) \cap TIME_TAGS # {}
    THEN {Rule(m.id, TimeOnlyBoost + Bonus(m), Updated(Presence(1, 6000), slot)) :
             slot \in SlotsOf(m)}
    ELSE {}

PrimaryRules(m) == AudienceRules(m) \cup CrossDimRules(m) \cup PresenceRules(m)

\* A recurring or ambient manifest that has rules gets one more, for any hour.
ReminderRules(m) ==
    IF Frequency(m) # "freq_primary" /\ PrimaryRules(m) # {}
    THEN {Rule(m.id, ReminderPriority(Frequency(m)), Presence(1, 6000))}
    ELSE {}

GenerateRules(m) == PrimaryRules(m) \cup ReminderRules(m)

-------------------------------------------------------------------------------
(***************************************************************************)
(* The rules file, from the enabled manifests, the latest enabled first    *)
(***************************************************************************)
AllRules(enabled) == UNION {GenerateRules(enabled[i]) : i \in DOMAIN enabled}

IsCatchAll(rule) == DOMAIN rule.conditions = {}

SafetyFallback(enabled) ==
    Rule(IF enabled = << >> THEN StubManifest ELSE enabled[1].id, -1, Always)

\* Mutant: any rule open to everybody is taken for a catch-all.
BuildRulesFileOnPresence(enabled) ==
    IF \E rule \in AllRules(enabled) : ~HasDemographicCondition(rule.conditions)
    THEN AllRules(enabled)
    ELSE AllRules(enabled) \cup {SafetyFallback(enabled)}

BuildRulesFile(enabled) ==
    IF \E rule \in AllRules(enabled) : IsCatchAll(rule)
    THEN AllRules(enabled)
    ELSE AllRules(enabled) \cup {SafetyFallback(enabled)}
===============================================================================
