--------------------------- MODULE AdSelectionProofs ---------------------------
(***************************************************************************)
(* Proofs about AdSelection, for every library, every observation and any  *)
(* number of enabled manifests: some rule always matches, time tags keep   *)
(* their hours, aimed manifests wait for disclosure and attention, and a   *)
(* pair of matching dimensions displaces one.                              *)
(*                                                                         *)
(* What a signal says is a mean over its window, and a mean is a fold: two *)
(* parts prove, by well-founded induction on the subsets of the window,    *)
(* that a sum exists, keeps the bounds of its terms and adds up with       *)
(* others.  From it come the range of every signal, that its shares sum up *)
(* to what those of the observations do, and that an audience that looks   *)
(* away fails the attention gate.                                          *)
(***************************************************************************)
EXTENDS AdSelection, SequenceTheorems, FiniteSetTheorems, TLAPS

-------------------------------------------------------------------------------
(***************************************************************************)
(* The engine and the list                                                 *)
(***************************************************************************)
\* No manifest is enabled twice.
UniqueIds == \A i, j \in DOMAIN enabled : enabled[i].id = enabled[j].id => i = j

\* The engine holds the rules of the manifests that are enabled.
SelectionInv ==
    /\ enabled \in Seq(Library)
    /\ UniqueIds
    /\ engine = BuildRulesFile(enabled)
    /\ window \in Seq(Observations)
    /\ hour \in 0..23

\* The file has a rule that asks for nothing, whatever the tags make of it.
LEMMA FileHasCatchAll ==
    ASSUME NEW manifests
    PROVE  \E rule \in BuildRulesFile(manifests) : IsCatchAll(rule)
  <1>1. IsCatchAll(SafetyFallback(manifests))
    BY DEF IsCatchAll, SafetyFallback, Rule, Always
  <1>2. CASE \E rule \in AllRules(manifests) : IsCatchAll(rule)
    BY <1>2 DEF BuildRulesFile
  <1>3. CASE ~\E rule \in AllRules(manifests) : IsCatchAll(rule)
    <2>1. BuildRulesFile(manifests) = AllRules(manifests) \cup {SafetyFallback(manifests)}
      BY <1>3 DEF BuildRulesFile
    <2>2. QED
      BY <1>1, <2>1
  <1>4. QED
    BY <1>2, <1>3

\* A load takes the file: it is never empty.
LEMMA FileIsLoaded ==
    ASSUME NEW rules, NEW manifests
    PROVE  LoadPolicy(rules, BuildRulesFile(manifests)) = BuildRulesFile(manifests)
  BY FileHasCatchAll DEF LoadPolicy

\* No manifest at first, and the rules of none.
LEMMA InitSelection == Init => SelectionInv
  <1> SUFFICES ASSUME Init PROVE SelectionInv
    OBVIOUS
  <1>1. enabled = << >> /\ window = << >> /\ hour = 0
    BY DEF Init
  <1>2. engine = BuildRulesFile(enabled)
    BY FileIsLoaded DEF Init
  <1>3. QED
    BY <1>1, <1>2 DEF SelectionInv, UniqueIds

\* A sync takes over a list without repetitions.
LEMMA SyncKeepsSelection ==
    ASSUME SelectionInv, NEW manifests \in Seq(Library), Sync(manifests),
           \A i, j \in DOMAIN manifests : manifests[i].id = manifests[j].id => i = j
    PROVE  SelectionInv'
  <1>1. enabled' = manifests /\ UNCHANGED <<window, hour>>
    BY DEF Sync
  <1>2. engine' = BuildRulesFile(manifests)
    BY FileIsLoaded DEF Sync
  <1>3. QED
    BY <1>1, <1>2 DEF SelectionInv, UniqueIds

\* A sequence without its k-th element.
LEMMA WithoutOne ==
    ASSUME NEW S, NEW s \in Seq(S), NEW k \in DOMAIN s
    PROVE  LET rest == SubSeq(s, 1, k - 1) \o SubSeq(s, k + 1, Len(s)) IN
           /\ rest \in Seq(S) /\ DOMAIN rest = 1..Len(s) - 1
           /\ \A i \in DOMAIN rest : rest[i] = s[IF i < k THEN i ELSE i + 1]
  <1> DEFINE front == SubSeq(s, 1, k - 1)
             back == SubSeq(s, k + 1, Len(s))
  <1>0. Len(s) \in Nat /\ k \in 1..Len(s)
    OBVIOUS
  <1>1. \A i \in 1..Len(s) : s[i] \in S
    OBVIOUS
  <1>2. /\ front \in Seq(S) /\ Len(front) = k - 1
        /\ \A i \in 1..k - 1 : front[i] = s[i]
    <2>1. \A i \in 1..k - 1 : s[i] \in S /\ 1 + i - 1 = i
      BY <1>0, <1>1
    <2>2. QED
      BY <1>0, <2>1, SubSeqProperties
  <1>3. /\ back \in Seq(S) /\ Len(back) = Len(s) - k
        /\ \A i \in 1..Len(s) - k : back[i] = s[k + i]
    <2>1. \A i \in k + 1..Len(s) : s[i] \in S
      BY <1>0, <1>1
    <2>2. /\ back \in Seq(S)
          /\ Len(back) = IF k + 1 <= Len(s) THEN Len(s) - (k + 1) + 1 ELSE 0
          /\ \A i \in 1..Len(s) - (k + 1) + 1 : back[i] = s[(k + 1) + i - 1]
      BY <1>0, <2>1, SubSeqProperties
    <2>3. QED
      BY <1>0, <2>2
  <1> HIDE DEF front, back
  <1>4. /\ front \o back \in Seq(S)
        /\ Len(front \o back) = Len(front) + Len(back)
        /\ \A i \in 1..Len(front) + Len(back) : (front \o back)[i] =
               IF i <= Len(front) THEN front[i] ELSE back[i - Len(front)]
    BY <1>2, <1>3, ConcatProperties
  <1> DEFINE rest == front \o back
  <1>5. rest \in Seq(S) /\ DOMAIN rest = 1..Len(s) - 1
    BY <1>0, <1>2, <1>3, <1>4
  <1>6. ASSUME NEW i \in 1..Len(s) - 1 PROVE rest[i] = s[IF i < k THEN i ELSE i + 1]
    <2>1. CASE i < k
      BY <1>0, <1>2, <1>3, <1>4, <2>1
    <2>2. CASE ~(i < k)
      <3>1. i - (k - 1) \in 1..Len(s) - k /\ k + (i - (k - 1)) = i + 1
        BY <1>0, <2>2
      <3>2. i \in 1..Len(front) + Len(back) /\ ~(i <= Len(front)) /\ Len(front) = k - 1
        BY <1>0, <1>2, <1>3, <2>2
      <3>3. rest[i] = back[i - (k - 1)]
        BY <1>4, <3>2
      <3>4. QED
        BY <1>3, <2>2, <3>1, <3>3
    <2>3. QED
      BY <2>1, <2>2
  <1>7. QED
    BY <1>5, <1>6 DEF front, back

\* The operator changes the list and syncs; the others leave both alone.
LEMMA NextSelection == SelectionInv /\ [Next]_vars => SelectionInv'
  <1> SUFFICES ASSUME SelectionInv, [Next]_vars PROVE SelectionInv'
    OBVIOUS
  <1>0. enabled \in Seq(Library) /\ UniqueIds
    BY DEF SelectionInv
  <1>1. ASSUME NEW m \in Library, Enable(m) PROVE SelectionInv'
    <2> DEFINE grown == <<m>> \o enabled
    <2>1. grown \in Seq(Library) /\ Len(grown) = Len(enabled) + 1
      BY <1>0
    <2>2. grown[1] = m /\ \A i \in DOMAIN grown \ {1} : grown[i] = enabled[i - 1] /\ i - 1 \in DOMAIN enabled
      BY <1>0, <2>1
    <2>3. \A i \in DOMAIN enabled : enabled[i].id # m.id
      BY <1>1 DEF Enable, IsEnabled
    <2>4. \A i, j \in DOMAIN grown : grown[i].id = grown[j].id => i = j
      <3> SUFFICES ASSUME NEW i \in DOMAIN grown, NEW j \in DOMAIN grown, 
                          grown[i].id = grown[j].id 
                   PROVE i = j
        OBVIOUS
      <3>0. i \in Int /\ j \in Int
        BY <2>1
      <3>1. CASE i = 1 \/ j = 1
        BY <3>1, <2>2, <2>3
      <3>2. CASE i # 1 /\ j # 1
        <4>1. i - 1 = j - 1
          BY <3>2, <2>2, <1>0 DEF UniqueIds
        <4>2. QED
          BY <4>1, <3>0
      <3>3. QED
        BY <3>1, <3>2
    <2>5. Sync(grown)
      BY <1>1 DEF Enable
    <2>6. QED
      BY <2>1, <2>4, <2>5, SyncKeepsSelection
  <1>2. ASSUME NEW id, Disable(id) PROVE SelectionInv'
    <2>1. PICK k \in DOMAIN enabled :
              Sync(SubSeq(enabled, 1, k - 1) \o SubSeq(enabled, k + 1, Len(enabled)))
      BY <1>2 DEF Disable
    <2> DEFINE rest == SubSeq(enabled, 1, k - 1) \o SubSeq(enabled, k + 1, Len(enabled))
               old(i) == IF i < k THEN i ELSE i + 1
    <2>2. /\ rest \in Seq(Library) /\ DOMAIN rest = 1..Len(enabled) - 1
          /\ \A i \in DOMAIN rest : rest[i] = enabled[old(i)]
      BY <1>0, WithoutOne
    <2>3. \A i, j \in DOMAIN rest : rest[i].id = rest[j].id => i = j
      <3> HIDE DEF rest
      <3> SUFFICES ASSUME NEW i \in DOMAIN rest, NEW j \in DOMAIN rest, rest[i].id = rest[j].id
                   PROVE  i = j
        OBVIOUS
      <3>1. old(i) \in DOMAIN enabled /\ old(j) \in DOMAIN enabled
        BY <1>0, <2>2
      <3>2. old(i) = old(j)
        BY <1>0, <2>2, <3>1 DEF UniqueIds
      <3>3. QED
        BY <2>2, <3>2
    <2>4. QED
      BY <2>1, <2>2, <2>3, SyncKeepsSelection
  <1>3. ASSUME NEW m \in Library, Retag(m) PROVE SelectionInv'
    <2>1. PICK k \in DOMAIN enabled : enabled[k].id = m.id /\ Sync([enabled EXCEPT ![k] = m])
      BY <1>3 DEF Retag
    <2> DEFINE tagged == [enabled EXCEPT ![k] = m]
    <2>2. tagged \in Seq(Library) /\ DOMAIN tagged = DOMAIN enabled
      BY <1>0
    <2>3. \A i \in DOMAIN enabled : tagged[i].id = enabled[i].id
      BY <2>1
    <2>4. QED
      BY <1>0, <2>1, <2>2, <2>3, SyncKeepsSelection DEF UniqueIds
  <1>4. ASSUME NEW o \in Observations, Observe(o) PROVE SelectionInv'
    <2>1. PICK n \in 0..Len(window) :
              window' = Append(SubSeq(window, Len(window) - n + 1, Len(window)), o)
      BY <1>4 DEF Observe
    <2>2. window \in Seq(Observations)
      BY DEF SelectionInv
    <2>3. SubSeq(window, Len(window) - n + 1, Len(window)) \in Seq(Observations)
      BY <2>2, SubSeqProperties
    <2>4. window' \in Seq(Observations)
      BY <2>1, <2>3, AppendProperties
    <2>5. QED
      BY <1>4, <2>4 DEF Observe, SelectionInv, UniqueIds
  <1>5. CASE HourPasses
    BY <1>5 DEF HourPasses, SelectionInv, UniqueIds
  <1>6. CASE UNCHANGED vars
    BY <1>6 DEF vars, SelectionInv, UniqueIds
  <1>7. QED
    BY <1>1, <1>2, <1>3, <1>4, <1>5, <1>6 DEF Next

\* The invariant, for the theorems below.
LEMMA SelectionHolds == Spec => []SelectionInv
  BY InitSelection, NextSelection, PTL DEF Spec

-------------------------------------------------------------------------------
(***************************************************************************)
(* Some rule always matches                                                *)
(***************************************************************************)

\* A rule that asks for nothing matches at any hour.
LEMMA CatchAllMatches ==
    ASSUME NEW rule, IsCatchAll(rule), NEW s, NEW h
    PROVE  Matches(rule, s, h)
  BY DEF IsCatchAll, Matches, PresenceHolds, AttentionHolds, DemographicsHold, HourHolds,
     HasDemographicCondition, Sets

\* No choice of tags, no audience and no hour leaves the loop without a manifest
\* to play (build_rules_file, "playback must never go blank").
THEOREM SomeRuleAlwaysMatches == Spec => []SomeRuleMatches
  <1>1. SelectionInv => SomeRuleMatches
    BY CatchAllMatches, FileHasCatchAll DEF SelectionInv, SomeRuleMatches, Matching
  <1>2. QED
    BY <1>1, SelectionHolds, PTL

-------------------------------------------------------------------------------
(***************************************************************************)
(* The rules of one manifest                                               *)
(***************************************************************************)
\* The fields of a slot.
HourFields == {"time_hour_gte", "time_hour_lte"}

\* A slot names hours only.
LEMMA SlotFields ==
    ASSUME NEW m, NEW slot \in SlotsOf(m)
    PROVE  DOMAIN slot \subseteq HourFields
  <1>1. DOMAIN Always = {}
    BY DEF Always
  <1>2. \A a, b : DOMAIN Slot(a, b) = HourFields
    BY DEF Slot, HourFields
  <1>3. \A tag : \A w \in TimeWindows(tag) : DOMAIN w \subseteq HourFields
    BY <1>1, <1>2 DEF TimeWindows
  <1>4. QED
    BY <1>1, <1>3 DEF SlotsOf

\* The bonus of a promotion.
LEMMA BonusValue ==
    ASSUME NEW m
    PROVE  /\ Bonus(m) \in Nat
           /\ ~Has(m, OCCASION_TAGS) => Bonus(m) = 0
  <1>1. \A tag : TagBonus(m, tag) \in Nat
    BY DEF TagBonus, OccasionBonus
  <1>2. ~Has(m, OCCASION_TAGS) => \A tag \in OCCASION_TAGS : TagBonus(m, tag) = 0
    BY DEF TagBonus, Has
  <1>3. QED
    BY <1>1, <1>2 DEF Bonus, OCCASION_TAGS

\* The rules of a manifest name it, above the fallback's priority.
LEMMA GeneratedRule ==
    ASSUME NEW m, NEW rule \in GenerateRules(m)
    PROVE  rule.manifest = m.id /\ rule.priority \in Nat
  <1>0. Bonus(m) \in Nat /\ AudienceBoost(m) \in Nat
    BY BonusValue DEF AudienceBoost, TimeAudienceBoost
  <1>1. CASE rule \in AudienceRules(m)
    <2>1. \A tag : BasePriority(tag) \in Nat
      BY DEF BasePriority
    <2>2. QED
      BY <1>0, <1>1, <2>1 DEF AudienceRules, Rule
  <1>2. CASE rule \in CrossDimRules(m)
    BY <1>0, <1>2 DEF CrossDimRules, Rule, CrossDimBonus
  <1>3. CASE rule \in PresenceRules(m)
    BY <1>0, <1>3 DEF PresenceRules, Rule, TimeOnlyBoost
  <1>4. CASE rule \in ReminderRules(m)
    BY <1>4 DEF ReminderRules, Rule, ReminderPriority
  <1>5. QED
    BY <1>1, <1>2, <1>3, <1>4 DEF GenerateRules, PrimaryRules

\* Who is on the list is there for a rule of its own, or as the file's fallback.
LEMMA SelectedForAReason ==
    ASSUME SelectionInv, NEW i \in DOMAIN enabled,
           enabled[i].id \in Selectable(engine, signal, hour), ~AsFallback(enabled[i].id)
    PROVE  \E rule \in TopTier(engine, signal, hour) :
               rule \in GenerateRules(enabled[i])
  <1>1. PICK rule \in TopTier(engine, signal, hour) : rule.manifest = enabled[i].id
    BY DEF Selectable
  <1>2. rule \in engine /\ engine = BuildRulesFile(enabled)
    BY <1>1 DEF TopTier, Matching, SelectionInv
  <1>3. \A r \in AllRules(enabled) : r.priority \in Nat /\ \E j \in DOMAIN enabled :
            r.manifest = enabled[j].id /\ r \in GenerateRules(enabled[j])
    BY GeneratedRule DEF AllRules
  <1>4. CASE rule \in AllRules(enabled)
    BY <1>1, <1>3, <1>4 DEF SelectionInv, UniqueIds
  <1>5. CASE rule = SafetyFallback(enabled)
    <2>1. rule.priority = -1 /\ (enabled # << >> => rule.manifest = enabled[1].id)
      BY <1>5 DEF SafetyFallback, Rule
    <2>2. \A r \in engine : r.priority \in Nat \/ r.priority = -1
      BY <1>2, <1>3 DEF BuildRulesFile, SafetyFallback, Rule
    <2>3. \A r \in TopTier(engine, signal, hour) : r.priority = -1
      <3>1. \A r \in TopTier(engine, signal, hour) : r \in engine /\ r.priority <= rule.priority
        BY <1>1 DEF TopTier, Matching
      <3>2. QED
        BY <2>1, <2>2, <3>1
    <2>4. IsHead(enabled[i].id) \/ enabled = << >>
      BY <1>1, <2>1 DEF IsHead
    <2>5. QED
      BY <2>3, <2>4 DEF AsFallback
  <1>6. QED
    BY <1>2, <1>4, <1>5 DEF BuildRulesFile

\* What is enabled is in the engine.
LEMMA OwnRulesAreLoaded ==
    ASSUME SelectionInv, NEW i \in DOMAIN enabled
    PROVE  GenerateRules(enabled[i]) \subseteq engine
  BY DEF SelectionInv, BuildRulesFile, AllRules

-------------------------------------------------------------------------------
(***************************************************************************)
(* Hours                                                                   *)
(***************************************************************************)
\* A rule with a slot of a time tag matches in the hours of that tag only.
LEMMA SlotKeepsHours ==
    ASSUME NEW tag \in TIME_TAGS, NEW slot \in TimeWindows(tag), NEW c, NEW h \in 0..23,
           HourHolds(Updated(c, slot), h)
    PROVE  h \in OpenHours(tag)
  <1>1. ASSUME NEW from \in Nat, NEW to \in Nat, slot = Slot(from, to)
        PROVE  from <= h /\ h <= to
    <2>1. /\ DOMAIN slot = HourFields
          /\ slot["time_hour_gte"] = from /\ slot["time_hour_lte"] = to
      BY <1>1 DEF Slot, HourFields
    <2>2. QED
      BY <2>1 DEF HourHolds, Sets, Updated, HourFields
  <1>2. \/ tag = "time_morning" /\ slot = Slot(6, 10)
        \/ tag = "time_lunch" /\ slot = Slot(11, 13)
        \/ tag = "time_afternoon" /\ slot = Slot(14, 16)
        \/ tag = "time_happy_hour" /\ slot = Slot(16, 18)
        \/ tag = "time_evening" /\ slot = Slot(18, 21)
        \/ tag = "time_late_night" /\ slot = Slot(22, 23)
        \/ tag = "time_late_night" /\ slot = Slot(0, 5)
        \/ tag = "time_all_day"
    BY DEF TIME_TAGS, TimeWindows
  <1>3. CASE tag = "time_all_day"
    BY <1>3 DEF OpenHours
  <1>4. CASE tag = "time_late_night"
    <2>1. (22 <= h /\ h <= 23) \/ (0 <= h /\ h <= 5)
      BY <1>1, <1>2, <1>4
    <2>2. h \in {22, 23, 0, 1, 2, 3, 4, 5}
      BY <2>1
    <2>3. QED
      BY <1>4, <2>2 DEF OpenHours
  <1>5. CASE tag \notin {"time_all_day", "time_late_night"}
    <2>1. CASE tag = "time_morning"
      <3>1. 6 <= h /\ h <= 10
        BY <1>1, <1>2, <2>1
      <3>2. QED
        BY <3>1, <2>1 DEF OpenHours
    <2>2. CASE tag = "time_lunch"
      <3>1. 11 <= h /\ h <= 13
        BY <1>1, <1>2, <2>2
      <3>2. QED
        BY <3>1, <2>2 DEF OpenHours
    <2>3. CASE tag = "time_afternoon"
      <3>1. 14 <= h /\ h <= 16
        BY <1>1, <1>2, <2>3
      <3>2. QED
        BY <3>1, <2>3 DEF OpenHours
    <2>4. CASE tag = "time_happy_hour"
      <3>1. 16 <= h /\ h <= 18
        BY <1>1, <1>2, <2>4
      <3>2. QED
        BY <3>1, <2>4 DEF OpenHours
    <2>5. CASE tag = "time_evening"
      <3>1. 18 <= h /\ h <= 21
        BY <1>1, <1>2, <2>5
      <3>2. QED
        BY <3>1, <2>5 DEF OpenHours
    <2>6. QED
      BY <1>5, <2>1, <2>2, <2>3, <2>4, <2>5 DEF TIME_TAGS
  <1>6. QED
    BY <1>3, <1>4, <1>5

\* And there is one for each of them.
LEMMA SlotCoversHours ==
    ASSUME NEW tag \in TIME_TAGS, NEW h \in OpenHours(tag)
    PROVE  h \in 0..23 /\ \E slot \in TimeWindows(tag) : HourHolds(slot, h)
  <1>1. \A from, to : from \in Nat /\ to \in Nat /\ h \in from..to => HourHolds(Slot(from, to), h)
    BY DEF HourHolds, Sets, Slot
  <1>2. HourHolds(Always, h)
    BY DEF HourHolds, Sets, Always
  <1>3. CASE tag = "time_late_night"
    BY <1>1, <1>3 DEF TimeWindows, OpenHours
  <1>4. CASE tag = "time_all_day"
    BY <1>2, <1>4 DEF TimeWindows, OpenHours
  <1>5. CASE tag \notin {"time_all_day", "time_late_night"}
    BY <1>1, <1>5 DEF TimeWindows, OpenHours, TIME_TAGS
  <1>6. QED
    BY <1>3, <1>4, <1>5

\* A manifest with time tags and no reminder has rules of its hours only.
LEMMA TimedRuleIsInHours ==
    ASSUME NEW m, TagsOf(m) \cap TIME_TAGS # {}, Frequency(m) = "freq_primary",
           NEW rule \in GenerateRules(m), NEW h \in 0..23, HourHolds(rule.conditions, h)
    PROVE  \E tag \in TagsOf(m) \cap TIME_TAGS : h \in OpenHours(tag)
  <1>1. rule \in PrimaryRules(m)
    BY DEF GenerateRules, ReminderRules
  <1>2. PICK slot \in SlotsOf(m) : \E c : rule.conditions = Updated(c, slot)
    <2>1. CASE rule \in AudienceRules(m)
      BY <2>1 DEF AudienceRules, Rule
    <2>2. CASE rule \in CrossDimRules(m)
      BY <2>2 DEF CrossDimRules, Rule, GatedMerge
    <2>3. CASE rule \in PresenceRules(m)
      BY <2>3 DEF PresenceRules, Rule
    <2>4. QED
      BY <1>1, <2>1, <2>2, <2>3 DEF PrimaryRules
  <1>3. PICK tag \in TagsOf(m) \cap TIME_TAGS : slot \in TimeWindows(tag)
    BY <1>2 DEF SlotsOf
  <1>4. h \in OpenHours(tag)
    BY <1>2, <1>3, SlotKeepsHours
  <1>5. QED
    BY <1>3, <1>4

\* Whoever is there, in the hours of the slot.
LEMMA PresenceSlotMatches ==
    ASSUME NEW slot, DOMAIN slot \subseteq HourFields, NEW s, NEW h, HourHolds(slot, h),
           s.count >= 1, s.confidence >= 6000,
           NEW rule, rule.conditions = Updated(Presence(1, 6000), slot)
    PROVE  Matches(rule, s, h)
  <1> DEFINE c == rule.conditions
  <1>1. /\ DOMAIN Presence(1, 6000) = {"presence_count_gte", "presence_confidence_gte"}
        /\ Presence(1, 6000)["presence_count_gte"] = 1
        /\ Presence(1, 6000)["presence_confidence_gte"] = 6000
    BY DEF Presence
  <1>2. /\ DOMAIN c = {"presence_count_gte", "presence_confidence_gte"} \cup DOMAIN slot
        /\ c["presence_count_gte"] = 1
        /\ c["presence_confidence_gte"] = 6000
        /\ \A f \in DOMAIN slot : c[f] = slot[f]
    BY <1>1 DEF Updated, HourFields
  <1> HIDE DEF c
  <1>3. PresenceHolds(c, s)
    BY <1>2 DEF PresenceHolds, Sets, HourFields
  <1>4. AttentionHolds(c, s)
    BY <1>2 DEF AttentionHolds, Sets, HourFields
  <1>5. DemographicsHold(c, s)
    <2>1. DOMAIN c \cap Bins = {} /\ "demographics_suppressed_eq" \notin DOMAIN c
      BY <1>2 DEF HourFields, Bins, AgeBins, GenderBins, AttireBins
    <2>2. QED
      BY <2>1 DEF DemographicsHold, HasDemographicCondition, Sets
  <1>6. HourHolds(c, h)
    BY <1>2 DEF HourHolds, Sets, HourFields
  <1>7. QED
    BY <1>3, <1>4, <1>5, <1>6 DEF Matches, c

\* A manifest meant for everybody has a rule in each of its hours.
LEMMA OpenManifestMatches ==
    ASSUME NEW m, ~Has(m, AUDIENCE_TAGS) \/ Has(m, {"general"}),
           NEW tag \in TagsOf(m) \cap TIME_TAGS, NEW h \in OpenHours(tag),
           NEW s, s.count >= 1, s.confidence >= 6000
    PROVE  \E rule \in GenerateRules(m) : Matches(rule, s, h) /\ rule.priority >= TimeOnlyBoost
  <1>1. PICK slot \in TimeWindows(tag) : HourHolds(slot, h)
    BY SlotCoversHours
  <1>2. slot \in SlotsOf(m)
    BY <1>1 DEF SlotsOf
  <1>3. DOMAIN slot \subseteq HourFields
    BY <1>2, SlotFields
  <1>4. Bonus(m) \in Nat
    BY BonusValue
  <1> DEFINE c == Updated(Presence(1, 6000), slot)
  <1>5. CASE Has(m, {"general"})
    <2> DEFINE rule == Rule(m.id, BasePriority("general") + AudienceBoost(m) + Bonus(m), c)
    <2>1. "general" \in TagsOf(m) \cap AUDIENCE_TAGS
      BY <1>5 DEF Has, AUDIENCE_TAGS
    <2>2. InjectAttentionGate(AudienceConditions("general"), "general") = Presence(1, 6000)
      <3>1. Dimension("general") = None
        BY DEF Dimension, AttireBins
      <3>2. AudienceConditions("general") = Presence(1, 6000)
        BY DEF AudienceConditions
      <3>3. QED
        BY <3>1, <3>2 DEF InjectAttentionGate
    <2>3. rule \in GenerateRules(m)
      BY <1>2, <2>1, <2>2 DEF GenerateRules, PrimaryRules, AudienceRules
    <2>4. rule.conditions = c /\ rule.priority = 25 + Bonus(m)
      BY DEF Rule, BasePriority, AudienceBoost, TimeAudienceBoost
    <2>5. Matches(rule, s, h)
      BY <1>1, <1>3, <2>4, PresenceSlotMatches
    <2>6. rule.priority >= TimeOnlyBoost
      BY <1>4, <2>4 DEF TimeOnlyBoost
    <2>7. QED
      BY <2>3, <2>5, <2>6
  <1>6. CASE ~Has(m, AUDIENCE_TAGS)
    <2> DEFINE rule == Rule(m.id, TimeOnlyBoost + Bonus(m), c)
    <2>1. rule \in GenerateRules(m)
      BY <1>2, <1>6 DEF GenerateRules, PrimaryRules, PresenceRules, Has
    <2>2. rule.conditions = c /\ rule.priority = 10 + Bonus(m)
      BY DEF Rule, TimeOnlyBoost
    <2>3. Matches(rule, s, h)
      BY <1>1, <1>3, <2>2, PresenceSlotMatches
    <2>4. rule.priority >= TimeOnlyBoost
      BY <1>4, <2>2 DEF TimeOnlyBoost
    <2>5. QED
      BY <2>1, <2>3, <2>4
  <1>7. QED
    BY <1>5, <1>6

\* Selected by a rule of its own, in its slot; matched by one for every hour.
LEMMA HoursAreKept == SelectionInv => KeepsItsHours
  <1> SUFFICES ASSUME SelectionInv, NEW i \in DOMAIN enabled, Evaluated,
                      TagsOf(enabled[i]) \cap TIME_TAGS # {},
                      Frequency(enabled[i]) = "freq_primary"
               PROVE  LET m == enabled[i]
                          open == hour \in UNION {OpenHours(tag) : tag \in TagsOf(m) \cap TIME_TAGS}
                      IN  /\ m.id \in SelectableNow => open \/ AsFallback(m.id)
                          /\ /\ open
                             /\ ~Has(m, AUDIENCE_TAGS) \/ Has(m, {"general"})
                             /\ signal.count >= 1 /\ signal.confidence >= 6000
                             => \E rule \in Matching(engine, signal, hour) :
                                    rule.manifest = m.id /\ rule.priority >= TimeOnlyBoost
    BY DEF KeepsItsHours
  <1> DEFINE m == enabled[i]
             open == hour \in UNION {OpenHours(tag) : tag \in TagsOf(m) \cap TIME_TAGS}
  <1>1. ASSUME m.id \in SelectableNow, ~AsFallback(m.id) PROVE open
    <2>1. PICK rule \in TopTier(engine, signal, hour) : rule \in GenerateRules(m)
      BY <1>1, SelectedForAReason DEF SelectableNow
    <2>2. HourHolds(rule.conditions, hour)
      BY <2>1 DEF TopTier, Matching, Matches
    <2>3. hour \in 0..23
      BY DEF SelectionInv
    <2>4. \E tag \in TagsOf(m) \cap TIME_TAGS : hour \in OpenHours(tag)
      BY <2>1, <2>2, <2>3, TimedRuleIsInHours
    <2>5. QED
      BY <2>4
  <1>2. ASSUME open, ~Has(m, AUDIENCE_TAGS) \/ Has(m, {"general"}),
               signal.count >= 1, signal.confidence >= 6000
        PROVE  \E rule \in Matching(engine, signal, hour) :
                   rule.manifest = m.id /\ rule.priority >= TimeOnlyBoost
    <2>1. PICK tag \in TagsOf(m) \cap TIME_TAGS : hour \in OpenHours(tag)
      BY <1>2
    <2>2. PICK rule \in GenerateRules(m) :
              Matches(rule, signal, hour) /\ rule.priority >= TimeOnlyBoost
      BY <1>2, <2>1, OpenManifestMatches
    <2>3. rule \in Matching(engine, signal, hour) /\ rule.manifest = m.id
      BY <2>2, OwnRulesAreLoaded, GeneratedRule DEF Matching
    <2>4. QED
      BY <2>2, <2>3
  <1>3. QED
    BY <1>1, <1>2

\* A manifest is on the list in the hours of its time tags only, but for the
\* safety fallback, and in each of them if it is meant for everybody, however
\* many manifests compete and whatever else they are tagged with (the windows of
\* generate_rules_for_manifest, the night across midnight among them).
THEOREM HoursAlwaysKept == Spec => []KeepsItsHours
  BY HoursAreKept, SelectionHolds, PTL

-------------------------------------------------------------------------------
(***************************************************************************)
(* Aim                                                                     *)
(***************************************************************************)
\* The fields the conditions of an audience tag may set.
AudienceFieldNames == Bins \cup
    {"presence_count_gte", "presence_count_eq", "presence_confidence_gte"}

\* Thresholds, one of them on a bin if the tag aims at somebody.
LEMMA AudienceFields ==
    ASSUME NEW tag \in AUDIENCE_TAGS
    PROVE  /\ DOMAIN AudienceConditions(tag) \subseteq AudienceFieldNames
           /\ \A f \in DOMAIN AudienceConditions(tag) : AudienceConditions(tag)[f] \in Nat
           /\ tag \notin {"attract", "general"} =>
                  HasDemographicCondition(AudienceConditions(tag))
  <1> DEFINE c == AudienceConditions(tag)
  <1> USE DEF AudienceFieldNames, HasDemographicCondition, Bins, AgeBins, GenderBins
  <1>1. CASE tag = "attract"
    BY <1>1 DEF AudienceConditions, Always
  <1>2. CASE tag = "general"
    BY <1>2 DEF AudienceConditions, Presence
  <1>3. CASE tag = "solo_adult"
    BY <1>3 DEF AudienceConditions
  <1>4. CASE tag = "group_adults"
    BY <1>4 DEF AudienceConditions, Updated, Presence
  <1>41. CASE tag \in {"adult_with_child", "teenager_group", "seniors", "male_focus", "female_focus"}
    BY <1>41 DEF AudienceConditions, Updated, Presence
  <1>5. CASE tag \in AttireBins
    <2>1. c = Updated(Presence(1, 6000), [field \in {tag} |-> AttireThreshold(tag)])
      BY <1>5 DEF AudienceConditions, AttireBins
    <2>2. AttireThreshold(tag) \in Nat
      BY DEF AttireThreshold
    <2>3. tag \in Bins /\ tag \notin {"presence_count_gte", "presence_confidence_gte"}
      BY <1>5 DEF AttireBins
    <2>4. QED
      BY <1>5, <2>1, <2>2, <2>3 DEF Updated, Presence
  <1>6. QED
    BY <1>1, <1>2, <1>3, <1>4, <1>41, <1>5 DEF AUDIENCE_TAGS

\* What an aimed rule asks for whatever its slot: a bin, and that people look.
LEMMA AimedConditions ==
    ASSUME NEW c, HasDemographicCondition(c), NEW slot, DOMAIN slot \subseteq HourFields,
           NEW rule, rule.conditions = Updated(Updated(c, AttentionGate), slot)
    PROVE  \A s, h : Matches(rule, s, h) => ~Suppressed(s) /\ AttentionHolds(AttentionGate, s)
  <1> DEFINE d == rule.conditions
  <1>1. /\ DOMAIN AttentionGate = {"attention_engaged_gte"}
        /\ AttentionGate["attention_engaged_gte"] = 3500
    BY DEF AttentionGate
  <1>2. /\ DOMAIN c \subseteq DOMAIN d
        /\ "attention_engaged_gte" \in DOMAIN d
        /\ d["attention_engaged_gte"] = 3500
    BY <1>1 DEF Updated, HourFields
  <1> HIDE DEF d
  <1>3. HasDemographicCondition(d)
    BY <1>2 DEF HasDemographicCondition
  <1>4. \A s : DemographicsHold(d, s) => ~Suppressed(s)
    BY <1>3 DEF DemographicsHold
  <1>5. \A s : AttentionHolds(d, s) => AttentionHolds(AttentionGate, s)
    BY <1>1, <1>2 DEF AttentionHolds, Sets
  <1>6. QED
    BY <1>4, <1>5 DEF Matches, d

\* Each tag but the first two belongs to a dimension.
LEMMA DimensionOfAim ==
    ASSUME NEW tag
    PROVE  tag \in {"attract", "general"} <=> Dimension(tag) = None
  BY NoneAssumption DEF Dimension, AttireBins

\* Merged conditions name what either names.
LEMMA MergedNames ==
    ASSUME NEW a, NEW b
    PROVE  DOMAIN MergeConditions(a, b) = DOMAIN a \cup DOMAIN b
  BY DEF MergeConditions

\* Every rule of a manifest aimed at somebody is an aimed one.
LEMMA TargetedRule ==
    ASSUME NEW m, Targeted(m), NEW rule \in GenerateRules(m)
    PROVE  \A s, h : Matches(rule, s, h) => ~Suppressed(s) /\ AttentionHolds(AttentionGate, s)
  <1>1. rule \in AudienceRules(m) \cup CrossDimRules(m)
    BY DEF Targeted, GenerateRules, PrimaryRules, ReminderRules, PresenceRules, Has
  <1>2. CASE rule \in AudienceRules(m)
    <2>1. PICK tag \in TagsOf(m) \cap AUDIENCE_TAGS, slot \in SlotsOf(m) :
              rule.conditions = Updated(InjectAttentionGate(AudienceConditions(tag), tag), slot)
      BY <1>2 DEF AudienceRules, Rule
    <2>2. tag \notin {"attract", "general"}
      BY <2>1 DEF Targeted, Has
    <2>3. InjectAttentionGate(AudienceConditions(tag), tag)
              = Updated(AudienceConditions(tag), AttentionGate)
      BY <2>2, DimensionOfAim DEF InjectAttentionGate
    <2>4. HasDemographicCondition(AudienceConditions(tag))
      BY <2>1, <2>2, AudienceFields
    <2>5. DOMAIN slot \subseteq HourFields
      BY <2>1, SlotFields
    <2>6. QED
      BY <2>1, <2>3, <2>4, <2>5, AimedConditions
  <1>3. CASE rule \in CrossDimRules(m)
    <2>1. PICK pair \in CrossPairs(m), slot \in SlotsOf(m) : rule.conditions = GatedMerge(pair, slot)
      BY <1>3 DEF CrossDimRules, Rule
    <2> DEFINE c == MergeConditions(AudienceConditions(pair[1]), AudienceConditions(pair[2]))
    <2>2. pair[1] \in AUDIENCE_TAGS /\ pair[1] \notin {"attract", "general"}
      BY <2>1, DimensionOfAim DEF CrossPairs
    <2>3. HasDemographicCondition(c)
      BY <2>2, AudienceFields, MergedNames DEF HasDemographicCondition
    <2>4. DOMAIN slot \subseteq HourFields
      BY <2>1, SlotFields
    <2>5. rule.conditions = Updated(Updated(c, AttentionGate), slot)
      BY <2>1 DEF GatedMerge
    <2>6. QED
      BY <2>3, <2>4, <2>5, AimedConditions
  <1>4. QED
    BY <1>1, <1>2, <1>3

\* What TargetingNeedsDisclosureAndAttention says, with the attention the signal
\* reports in the place of what the window observed.
AimNeedsDisclosureAndAttention ==
    Evaluated /\ (Undescribed \/ ~AttentionHolds(AttentionGate, signal)) =>
        \A i \in DOMAIN enabled :
            Targeted(enabled[i]) =>
                enabled[i].id \notin SelectableNow \/ AsFallback(enabled[i].id)

\* It would be selected by a rule that wants both.
LEMMA AimIsGuarded == SelectionInv => AimNeedsDisclosureAndAttention
  <1> SUFFICES ASSUME SelectionInv, Evaluated, NEW i \in DOMAIN enabled, Targeted(enabled[i]),
                      Undescribed \/ ~AttentionHolds(AttentionGate, signal),
                      enabled[i].id \in SelectableNow, ~AsFallback(enabled[i].id)
               PROVE  FALSE
    BY DEF AimNeedsDisclosureAndAttention
  <1>1. PICK rule \in TopTier(engine, signal, hour) : rule \in GenerateRules(enabled[i])
    BY SelectedForAReason DEF SelectableNow
  <1>2. Matches(rule, signal, hour)
    BY <1>1 DEF TopTier, Matching
  <1>3. Undescribed => Suppressed(signal)
    <2>1. Undescribed => ~Discloses(window)
      BY DEF Undescribed, Discloses
    <2>2. signal.suppressed = IF Describing(window) = {} THEN None ELSE ~Discloses(window)
      BY DEF Evaluated, signal, BuildSignal
    <2>3. QED
      BY <2>1, <2>2 DEF Suppressed
  <1>4. QED
    BY <1>1, <1>2, <1>3, TargetedRule

-------------------------------------------------------------------------------
(***************************************************************************)
(* Sums and means over a window                                            *)
(***************************************************************************)
\* A set of naturals has a least element.
LEMMA LeastNatural ==
    ASSUME NEW T \in SUBSET Nat, T # {}
    PROVE  \E n \in T : \A m \in T : n <= m
  <1>1. IsWellFoundedOn(OpToRel(<, Nat), Nat)
    BY NatLessThanWellFounded
  <1>2. PICK n \in T : \A m \in T : <<m, n>> \notin OpToRel(<, Nat)
    BY <1>1, WFMin
  <1>3. \A m \in T : ~(m < n)
    BY <1>2 DEF OpToRel
  <1>4. QED
    BY <1>3

\* Among subsets of a finite set, one has none of the others inside.
LEMMA LeastSubset ==
    ASSUME NEW S, IsFiniteSet(S), NEW F \in SUBSET SUBSET S, F # {}
    PROVE  \E T \in F : \A U \in F : U \subseteq T => U = T
  <1>1. IsWellFoundedOn(StrictSubsetOrdering(S), SUBSET S)
    BY FS_FiniteSubsetsOfFinite, FS_StrictSubsetOrderingWellFounded
  <1>2. PICK T \in F : \A U \in F : <<U, T>> \notin StrictSubsetOrdering(S)
    BY <1>1, WFMin
  <1>3. QED
    BY <1>2 DEF StrictSubsetOrdering

\* The element a sum takes next, and one step of the summation.
NextTerm(s) == CHOOSE x \in s : TRUE
SumStep(f, it, s) == IF s = {} THEN 0 ELSE f[NextTerm(s)] + it[s \ {NextTerm(s)}]

\* The summation as the fold defines it.
Summation(f, S) == CHOOSE it : it = [s \in SUBSET S |-> SumStep(f, it, s)]

LEMMA NextTermIn == ASSUME NEW s, s # {} PROVE NextTerm(s) \in s
  BY DEF NextTerm

\* Some function satisfies the recursive equation of a sum.
LEMMA SummationExists ==
    ASSUME NEW S, IsFiniteSet(S), NEW f
    PROVE  \E it : it = [s \in SUBSET S |-> SumStep(f, it, s)]
  <1> DEFINE Small(n) == {s \in SUBSET S : Cardinality(s) <= n}
             UpTo(n, it) == \A s \in Small(n) : it[s] = SumStep(f, it, s)
             Missing == {n \in Nat : ~\E it : UpTo(n, it)}
  <1>0. \A s \in SUBSET S : IsFiniteSet(s) /\ Cardinality(s) \in Nat
    BY FS_Subset, FS_CardinalityType
  <1>1. \E it : UpTo(0, it)
    <2> DEFINE zero == [s \in SUBSET S |-> 0]
    <2>1. \A s \in Small(0) : s = {}
      BY <1>0, FS_EmptySet
    <2>2. UpTo(0, zero)
      BY <2>1 DEF SumStep
    <2>3. QED
      BY <2>2
  <1>2. ASSUME NEW n \in Nat, \E it : UpTo(n, it) PROVE \E it : UpTo(n + 1, it)
    <2>1. PICK old : UpTo(n, old)
      BY <1>2
    <2> DEFINE new == [s \in SUBSET S |-> SumStep(f, old, s)]
    <2>2. \A s \in Small(n) : new[s] = old[s]
      BY <2>1
    <2>3. ASSUME NEW s \in Small(n + 1) PROVE new[s] = SumStep(f, new, s)
      <3>1. CASE s = {}
        BY <3>1 DEF SumStep
      <3>2. CASE s # {}
        <4> DEFINE rest == s \ {NextTerm(s)}
        <4>1. NextTerm(s) \in s
          BY <3>2, NextTermIn
        <4>2. Cardinality(rest) = Cardinality(s) - 1
          BY <1>0, <4>1, FS_RemoveElement
        <4>3. rest \in Small(n)
          BY <1>0, <4>2
        <4>4. new[rest] = old[rest]
          BY <2>2, <4>3
        <4>5. QED
          BY <3>2, <4>4 DEF SumStep
      <3>3. QED
        BY <3>1, <3>2
    <2>4. QED
      BY <2>3
  <1> HIDE DEF UpTo
  <1>3. Missing = {}
    <2> SUFFICES ASSUME Missing # {} PROVE FALSE
      OBVIOUS
    <2>1. PICK n \in Missing : \A m \in Missing : n <= m
      BY LeastNatural
    <2>2. n # 0
      BY <1>1
    <2>3. n - 1 \in Nat /\ n - 1 \notin Missing /\ (n - 1) + 1 = n
      BY <2>1, <2>2
    <2>4. QED
      BY <1>2, <2>3
  <1>4. PICK it : UpTo(Cardinality(S), it)
    BY <1>0, <1>3
  <1>5. \A s \in SUBSET S : s \in Small(Cardinality(S))
    BY <1>0, FS_Subset
  <1> DEFINE whole == [s \in SUBSET S |-> it[s]]
  <1>6. \A s \in SUBSET S : it[s] = SumStep(f, it, s)
    BY <1>4, <1>5 DEF UpTo
  <1>7. \A s \in SUBSET S : SumStep(f, whole, s) = SumStep(f, it, s)
    BY DEF SumStep
  <1>8. whole = [s \in SUBSET S |-> SumStep(f, whole, s)]
    BY <1>6, <1>7
  <1>9. QED
    BY <1>8

\* The sum of a set is one of its values and the sum of the others.
LEMMA SummationStep ==
    ASSUME NEW S, IsFiniteSet(S), NEW f
    PROVE  \A s \in SUBSET S : Summation(f, S)[s] = SumStep(f, Summation(f, S), s)
  <1>1. Summation(f, S) = [s \in SUBSET S |-> SumStep(f, Summation(f, S), s)]
    BY SummationExists DEF Summation
  <1>2. QED
    BY <1>1

\* What holds of the empty set, and of a set whenever it does without the next
\* term, holds of the whole: the sets of which it holds are given.
LEMMA SumInduction ==
    ASSUME NEW S, IsFiniteSet(S), NEW Good,
           {} \in Good,
           \A s \in SUBSET S : s # {} /\ s \ {NextTerm(s)} \in Good => s \in Good
    PROVE  S \in Good
  <1> DEFINE Wrong == {s \in SUBSET S : s \notin Good}
  <1>1. Wrong = {}
    <2> SUFFICES ASSUME Wrong # {} PROVE FALSE
      OBVIOUS
    <2>0. Wrong \in SUBSET SUBSET S
      OBVIOUS
    <2>1. PICK T \in Wrong : \A U \in Wrong : U \subseteq T => U = T
      <3> HIDE DEF Wrong
      <3>1. QED
        BY <2>0, LeastSubset
    <2>2. NextTerm(T) \in T /\ T \ {NextTerm(T)} \in SUBSET S
      BY NextTermIn
    <2>3. T \ {NextTerm(T)} \notin Wrong
      BY <2>1, <2>2
    <2>4. QED
      BY <2>2, <2>3
  <1>2. QED
    BY <1>1

\* The sum of naturals is one; that of n terms is at least n times what each is at
\* least, and at most n times what each is at most.
LEMMA SumBounds ==
    ASSUME NEW S, IsFiniteSet(S), NEW f, \A i \in S : f[i] \in Nat,
           NEW a \in Nat, NEW b \in Nat
    PROVE  /\ Summation(f, S)[S] \in Nat
           /\ (\A i \in S : a <= f[i]) => a * Cardinality(S) <= Summation(f, S)[S]
           /\ (\A i \in S : f[i] <= b) => Summation(f, S)[S] <= b * Cardinality(S)
  <1> DEFINE it == Summation(f, S)
             Least == \A i \in S : a <= f[i]
             Most == \A i \in S : f[i] <= b
             Bounded(s) == /\ it[s] \in Nat
                           /\ Least => a * Cardinality(s) <= it[s]
                           /\ Most => it[s] <= b * Cardinality(s)
             Good == {s \in SUBSET S : Bounded(s)}
  <1>0. \A s \in SUBSET S : IsFiniteSet(s) /\ Cardinality(s) \in Nat
    BY FS_Subset, FS_CardinalityType
  <1>1. \A s \in SUBSET S : it[s] = SumStep(f, it, s)
    BY SummationStep
  <1> HIDE DEF it
  <1>2. Bounded({})
    <2>1. it[{}] = 0
      BY <1>1 DEF SumStep
    <2>2. Cardinality({}) = 0 /\ a * 0 = 0 /\ b * 0 = 0
      BY FS_EmptySet
    <2>3. QED
      BY <2>1, <2>2
  <1>3. ASSUME NEW s \in SUBSET S, s # {}, Bounded(s \ {NextTerm(s)}) PROVE Bounded(s)
    <2> DEFINE x == f[NextTerm(s)]
               rest == s \ {NextTerm(s)}
    <2>1. NextTerm(s) \in s
      BY <1>3, NextTermIn
    <2>2. it[s] = x + it[rest] /\ x \in Nat /\ (Least => a <= x) /\ (Most => x <= b)
      BY <1>1, <1>3, <2>1 DEF SumStep
    <2>3. Cardinality(rest) = Cardinality(s) - 1
      BY <1>0, <2>1, FS_RemoveElement
    <2>4. \A c, k \in Nat : c * k \in Nat /\ c * k = c + c * (k - 1)
      OBVIOUS
    <2>5. /\ a * Cardinality(rest) \in Nat /\ b * Cardinality(rest) \in Nat
          /\ a * Cardinality(s) = a + a * Cardinality(rest)
          /\ b * Cardinality(s) = b + b * Cardinality(rest)
      BY <1>0, <2>3, <2>4
    <2> HIDE DEF x, rest, Least, Most
    <2>6. /\ it[rest] \in Nat
          /\ Least => a * Cardinality(rest) <= it[rest]
          /\ Most => it[rest] <= b * Cardinality(rest)
      BY <1>3 DEF rest
    <2>7. QED
      BY <2>2, <2>5, <2>6
  <1> HIDE DEF Bounded
  <1>4. S \in Good
    <2>1. {} \in Good /\ \A s \in SUBSET S : s # {} /\ s \ {NextTerm(s)} \in Good => s \in Good
      BY <1>2, <1>3
    <2> HIDE DEF Good
    <2>2. QED
      BY <2>1, SumInduction
  <1>5. QED
    BY <1>4 DEF Bounded, it

\* The sum of sums is the sum of both.
LEMMA SumOfTwo ==
    ASSUME NEW S, IsFiniteSet(S), NEW f, NEW g, NEW h,
           \A i \in S : f[i] \in Nat /\ g[i] \in Nat /\ h[i] = f[i] + g[i]
    PROVE  Summation(h, S)[S] = Summation(f, S)[S] + Summation(g, S)[S]
  <1> DEFINE F == Summation(f, S)
             G == Summation(g, S)
             H == Summation(h, S)
             Adds(s) == F[s] \in Nat /\ G[s] \in Nat /\ H[s] = F[s] + G[s]
             Good == {s \in SUBSET S : Adds(s)}
  <1>1. \A s \in SUBSET S : /\ F[s] = SumStep(f, F, s)
                            /\ G[s] = SumStep(g, G, s)
                            /\ H[s] = SumStep(h, H, s)
    BY SummationStep
  <1> HIDE DEF F, G, H
  <1>2. Adds({})
    <2>1. F[{}] = 0 /\ G[{}] = 0 /\ H[{}] = 0
      BY <1>1 DEF SumStep
    <2>2. QED
      BY <2>1
  <1>3. ASSUME NEW s \in SUBSET S, s # {}, Adds(s \ {NextTerm(s)}) PROVE Adds(s)
    <2> DEFINE x == NextTerm(s)
               rest == s \ {NextTerm(s)}
    <2>1. x \in S
      BY <1>3, NextTermIn
    <2>2. F[s] = f[x] + F[rest] /\ G[s] = g[x] + G[rest] /\ H[s] = h[x] + H[rest]
      BY <1>1, <1>3 DEF SumStep
    <2>3. f[x] \in Nat /\ g[x] \in Nat /\ h[x] = f[x] + g[x]
      BY <2>1
    <2>4. F[rest] \in Nat /\ G[rest] \in Nat /\ H[rest] = F[rest] + G[rest]
      BY <1>3
    <2> HIDE DEF x, rest
    <2>5. QED
      BY <2>2, <2>3, <2>4
  <1> HIDE DEF Adds
  <1>4. S \in Good
    <2>1. {} \in Good /\ \A s \in SUBSET S : s # {} /\ s \ {NextTerm(s)} \in Good => s \in Good
      BY <1>2, <1>3
    <2> HIDE DEF Good
    <2>2. QED
      BY <2>1, SumInduction
  <1>5. QED
    BY <1>4 DEF Adds, F, G, H

\* Rounding a quotient does not leave its bound.
LEMMA RoundedBounds ==
    ASSUME NEW n \in Nat \ {0}, NEW sum \in Nat, NEW b \in Nat
    PROVE  /\ Rounded(sum, n) \in Nat
           /\ sum <= b * n => Rounded(sum, n) <= b
  <1> DEFINE q == sum \div n
             r == sum % n
  <1>1. q \in Nat /\ r \in 0..n - 1 /\ sum = n * q + r
    OBVIOUS
  <1> HIDE DEF q, r
  <1>2. ASSUME sum <= b * n PROVE q < b \/ (q = b /\ r = 0)
    <2>1. CASE q > b
      <3>1. q >= b + 1
        BY <1>1, <2>1
      <3>2. n * q >= n * (b + 1)
        BY <1>1, <3>1
      <3>3. n * (b + 1) = b * n + n
        OBVIOUS
      <3>4. n * q \in Nat /\ b * n \in Nat
        BY <1>1
      <3>5. QED
        BY <1>1, <1>2, <3>2, <3>3, <3>4
    <2>2. CASE q = b
      <3>1. n * q = b * n /\ b * n \in Nat
        BY <2>2
      <3>2. QED
        BY <1>1, <1>2, <2>2, <3>1
    <2>3. QED
      BY <1>1, <2>1, <2>2
  <1>3. q % 2 \in {0, 1} /\ 2 * r \in Nat
    BY <1>1
  <1>4. Rounded(sum, n) = IF 2 * r < n THEN q ELSE IF 2 * r > n THEN q + 1 ELSE q + (q % 2)
    BY DEF Rounded, q, r
  <1>5. QED
    BY <1>1, <1>2, <1>3, <1>4

\* A rounded quotient is off by a half at most.
LEMMA RoundedNear ==
    ASSUME NEW n \in Nat \ {0}, NEW sum \in Nat
    PROVE  /\ 2 * (n * Rounded(sum, n)) <= 2 * sum + n
           /\ 2 * sum <= 2 * (n * Rounded(sum, n)) + n
  <1> DEFINE q == sum \div n
             r == sum % n
  <1>1. q \in Nat /\ r \in 0..n - 1 /\ sum = n * q + r /\ q % 2 \in {0, 1}
    OBVIOUS
  <1>2. Rounded(sum, n) = IF 2 * r < n THEN q ELSE IF 2 * r > n THEN q + 1 ELSE q + (q % 2)
    BY DEF Rounded
  <1> HIDE DEF q, r
  <1>3. n * (q + 1) = n * q + n /\ n * q \in Nat
    BY <1>1
  <1>4. CASE Rounded(sum, n) = q /\ 2 * r <= n
    BY <1>1, <1>3, <1>4
  <1>5. CASE Rounded(sum, n) = q + 1 /\ 2 * r >= n
    BY <1>1, <1>3, <1>5
  <1>6. QED
    BY <1>1, <1>2, <1>4, <1>5

\* A mean is the rounded quotient of a sum.
LEMMA MeanOfSum ==
    ASSUME NEW values
    PROVE  Mean(values) = Rounded(Summation(values, DOMAIN values)[DOMAIN values],
                                  Cardinality(DOMAIN values))
  BY DEF Mean, MapThenSumSet, MapThenFoldSet, Summation, SumStep, NextTerm

\* A mean is where the values are.
LEMMA MeanBounds ==
    ASSUME NEW values, IsFiniteSet(DOMAIN values), DOMAIN values # {},
           \A i \in DOMAIN values : values[i] \in Nat, NEW b \in Nat
    PROVE  /\ Mean(values) \in Nat
           /\ (\A i \in DOMAIN values : values[i] <= b) => Mean(values) <= b
  <1>1. Mean(values) = Rounded(Summation(values, DOMAIN values)[DOMAIN values],
                               Cardinality(DOMAIN values))
    BY MeanOfSum
  <1> DEFINE n == Cardinality(DOMAIN values)
             sum == Summation(values, DOMAIN values)[DOMAIN values]
  <1>2. n \in Nat \ {0}
    BY FS_CardinalityType, FS_EmptySet
  <1>3. /\ sum \in Nat
        /\ (\A i \in DOMAIN values : values[i] <= b) => sum <= b * n
    BY SumBounds
  <1> HIDE DEF n, sum
  <1>4. Rounded(sum, n) \in Nat /\ (sum <= b * n => Rounded(sum, n) <= b)
    BY <1>2, <1>3, RoundedBounds
  <1>5. QED
    BY <1>1, <1>3, <1>4 DEF n, sum

\* From a product by a positive number.
LEMMA CancelFactor ==
    ASSUME NEW n \in Nat \ {0}, NEW x \in Int, NEW y \in Int, n * x <= n * y
    PROVE  x <= y
  <1> SUFFICES ASSUME x >= y + 1 PROVE FALSE
    OBVIOUS
  <1>1. n * x >= n * (y + 1)
    OBVIOUS
  <1>2. n * (y + 1) = n * y + n
    OBVIOUS
  <1>3. n * x \in Int /\ n * y \in Int
    OBVIOUS
  <1>4. QED
    BY <1>1, <1>2, <1>3

\* Two means of values that sum up to between low and high do so too, up to the
\* rounding of both.
LEMMA MeansOfTwo ==
    ASSUME NEW S, IsFiniteSet(S), S # {}, NEW low \in Nat, NEW high \in Nat,
           NEW f, NEW g, DOMAIN f = S, DOMAIN g = S,
           \A i \in S : f[i] \in Nat /\ g[i] \in Nat /\ f[i] + g[i] \in low..high
    PROVE  Mean(f) + Mean(g) \in (low - 1)..(high + 1)
  <1> DEFINE n == Cardinality(S)
             h == [i \in S |-> f[i] + g[i]]
             F == Summation(f, S)[S]
             G == Summation(g, S)[S]
             H == Summation(h, S)[S]
  <1>1. n \in Nat \ {0}
    BY FS_CardinalityType, FS_EmptySet
  <1>2. \A i \in S : h[i] = f[i] + g[i] /\ h[i] \in Nat /\ low <= h[i] /\ h[i] <= high
    OBVIOUS
  <1>3. Mean(f) = Rounded(F, n) /\ Mean(g) = Rounded(G, n)
    BY MeanOfSum
  <1> HIDE DEF h
  <1>4. H = F + G
    BY <1>2, SumOfTwo
  <1>5. F \in Nat /\ G \in Nat /\ low * n <= H /\ H <= high * n
    BY <1>2, SumBounds
  <1> HIDE DEF n, F, G, H
  <1>6. /\ 2 * (n * Mean(f)) <= 2 * F + n /\ 2 * F <= 2 * (n * Mean(f)) + n
        /\ 2 * (n * Mean(g)) <= 2 * G + n /\ 2 * G <= 2 * (n * Mean(g)) + n
        /\ Mean(f) \in Nat /\ Mean(g) \in Nat
    BY <1>1, <1>3, <1>5, RoundedNear, RoundedBounds
  <1>7. /\ n * (Mean(f) + Mean(g)) = n * Mean(f) + n * Mean(g)
        /\ n * (low - 1) = low * n - n /\ n * (high + 1) = high * n + n
        /\ n * Mean(f) \in Nat /\ n * Mean(g) \in Nat /\ low * n \in Nat /\ high * n \in Nat
    BY <1>1, <1>6
  <1>8. n * (low - 1) <= n * (Mean(f) + Mean(g)) /\ n * (Mean(f) + Mean(g)) <= n * (high + 1)
    BY <1>1, <1>4, <1>5, <1>6, <1>7
  <1>9. low - 1 <= Mean(f) + Mean(g) /\ Mean(f) + Mean(g) <= high + 1
    BY <1>1, <1>6, <1>8, CancelFactor
  <1>10. QED
    BY <1>6, <1>9

\* So do four.
LEMMA MeansOfFour ==
    ASSUME NEW S, IsFiniteSet(S), S # {}, NEW low \in Nat, NEW high \in Nat,
           NEW f, NEW g, NEW p, NEW q,
           DOMAIN f = S, DOMAIN g = S, DOMAIN p = S, DOMAIN q = S,
           \A i \in S : /\ f[i] \in Nat /\ g[i] \in Nat /\ p[i] \in Nat /\ q[i] \in Nat
                        /\ f[i] + g[i] + p[i] + q[i] \in low..high
    PROVE  Mean(f) + Mean(g) + Mean(p) + Mean(q) \in (low - 2)..(high + 2)
  <1> DEFINE n == Cardinality(S)
             fg == [i \in S |-> f[i] + g[i]]
             pq == [i \in S |-> p[i] + q[i]]
             h == [i \in S |-> fg[i] + pq[i]]
             F == Summation(f, S)[S]
             G == Summation(g, S)[S]
             P == Summation(p, S)[S]
             Q == Summation(q, S)[S]
             H == Summation(h, S)[S]
  <1>1. n \in Nat \ {0}
    BY FS_CardinalityType, FS_EmptySet
  <1>2. /\ \A i \in S : fg[i] = f[i] + g[i] /\ fg[i] \in Nat
        /\ \A i \in S : pq[i] = p[i] + q[i] /\ pq[i] \in Nat
        /\ \A i \in S : h[i] = fg[i] + pq[i] /\ h[i] \in Nat /\ low <= h[i] /\ h[i] <= high
    OBVIOUS
  <1>3. /\ Mean(f) = Rounded(F, n) /\ Mean(g) = Rounded(G, n)
        /\ Mean(p) = Rounded(P, n) /\ Mean(q) = Rounded(Q, n)
    BY MeanOfSum
  <1> HIDE DEF fg, pq, h
  <1>4. H = F + G + P + Q
    <2>1. Summation(fg, S)[S] = F + G
      BY <1>2, SumOfTwo
    <2>2. Summation(pq, S)[S] = P + Q
      BY <1>2, SumOfTwo
    <2>3. H = Summation(fg, S)[S] + Summation(pq, S)[S]
      BY <1>2, SumOfTwo
    <2>4. F \in Nat /\ G \in Nat /\ P \in Nat /\ Q \in Nat
      BY SumBounds
    <2> HIDE DEF F, G, P, Q, H
    <2>5. QED
      BY <2>1, <2>2, <2>3, <2>4
  <1>5. /\ F \in Nat /\ G \in Nat /\ P \in Nat /\ Q \in Nat
        /\ low * n <= H /\ H <= high * n
    BY <1>2, SumBounds
  <1> HIDE DEF n, F, G, P, Q, H
  <1>6. /\ 2 * (n * Mean(f)) <= 2 * F + n /\ 2 * F <= 2 * (n * Mean(f)) + n
        /\ 2 * (n * Mean(g)) <= 2 * G + n /\ 2 * G <= 2 * (n * Mean(g)) + n
        /\ 2 * (n * Mean(p)) <= 2 * P + n /\ 2 * P <= 2 * (n * Mean(p)) + n
        /\ 2 * (n * Mean(q)) <= 2 * Q + n /\ 2 * Q <= 2 * (n * Mean(q)) + n
        /\ Mean(f) \in Nat /\ Mean(g) \in Nat /\ Mean(p) \in Nat /\ Mean(q) \in Nat
    BY <1>1, <1>3, <1>5, RoundedNear, RoundedBounds
  <1> DEFINE sum == Mean(f) + Mean(g) + Mean(p) + Mean(q)
  <1>7. /\ n * sum = n * Mean(f) + n * Mean(g) + n * Mean(p) + n * Mean(q)
        /\ n * (low - 2) = low * n - 2 * n /\ n * (high + 2) = high * n + 2 * n
        /\ n * Mean(f) \in Nat /\ n * Mean(g) \in Nat /\ n * Mean(p) \in Nat
        /\ n * Mean(q) \in Nat /\ low * n \in Nat /\ high * n \in Nat
    BY <1>1, <1>6
  <1>s. sum \in Nat
    BY <1>6
  <1> HIDE DEF sum
  <1>8. n * (low - 2) <= n * sum /\ n * sum <= n * (high + 2)
    BY <1>1, <1>4, <1>5, <1>6, <1>7
  <1>9. low - 2 <= sum /\ sum <= high + 2
    BY <1>1, <1>s, <1>8, CancelFactor
  <1>10. QED
    BY <1>s, <1>9 DEF sum

-------------------------------------------------------------------------------
(***************************************************************************)
(* What a signal says                                                      *)
(***************************************************************************)
\* What the schema of the signals lets through, and no share of anybody without
\* disclosure.
ValidSignal(s) ==
    /\ s.count \in Nat /\ s.confidence \in 0..Whole
    /\ s.freeze \in BOOLEAN /\ s.degraded \in BOOLEAN
    /\ s.engaged \in 0..Whole \cup {None}
    /\ s.suppressed \in BOOLEAN \cup {None}
    /\ DOMAIN s.shares \subseteq Bins
    /\ \A bin \in DOMAIN s.shares : s.shares[bin] \in 0..Whole
    /\ DOMAIN s.shares # {} => s.suppressed = FALSE

\* The unit is a number, whichever.
LEMMA WholeIsNatural == Whole \in Nat
  BY DEF Whole

\* The positions of a window are finitely many, and each holds an observation.
LEMMA WindowPositions ==
    ASSUME NEW w \in Seq(Observations)
    PROVE  /\ \A P \in SUBSET DOMAIN w : IsFiniteSet(P)
           /\ \A i \in DOMAIN w : w[i] \in Observations /\ ValidObservation(w[i])
           /\ w # << >> => DOMAIN w # {}
  <1>1. DOMAIN w = 1..Len(w) /\ Len(w) \in Nat
    OBVIOUS
  <1>2. IsFiniteSet(1..Len(w))
    BY <1>1, FS_Interval
  <1>3. \A P \in SUBSET DOMAIN w : IsFiniteSet(P)
    BY <1>1, <1>2, FS_Subset
  <1>4. \A i \in DOMAIN w : w[i] \in Observations
    OBVIOUS
  <1>5. w # << >> => DOMAIN w # {}
    <2>1. Len(w) = 0 => w = << >>
      BY EmptySeq
    <2>2. Len(w) # 0 => 1 \in 1..Len(w)
      BY <1>1
    <2>3. QED
      BY <1>1, <2>1, <2>2, Zenon
  <1>6. \A o \in Observations : ValidObservation(o)
    BY SelectionAssumption
  <1>7. QED
    BY <1>3, <1>4, <1>5, <1>6

\* The attention of a window is a share, or nobody reports any.
LEMMA EngagedBounds ==
    ASSUME NEW w \in Seq(Observations), NEW b \in Nat
    PROVE  /\ Engaged(w) \in 0..Whole \cup {None}
           /\ Attentive(w) # {} => Engaged(w) \in 0..Whole
           /\ Attentive(w) # {} /\ (\A i \in Attentive(w) : w[i].attention <= b) =>
                  Engaged(w) <= b
  <1> DEFINE values == [i \in Attentive(w) |-> w[i].attention]
  <1>1. DOMAIN values = Attentive(w) /\ IsFiniteSet(Attentive(w))
    BY WindowPositions DEF Attentive
  <1>2. \A i \in Attentive(w) : values[i] = w[i].attention /\ values[i] \in 0..Whole
    BY WindowPositions DEF Attentive, ValidObservation
  <1>3. Attentive(w) # {} => Engaged(w) = Mean(values)
    BY DEF Engaged
  <1>4. Attentive(w) = {} => Engaged(w) = None
    BY DEF Engaged
  <1> HIDE DEF values
  <1>5. ASSUME Attentive(w) # {}
        PROVE  /\ Mean(values) \in Nat /\ Mean(values) <= Whole
               /\ (\A i \in Attentive(w) : w[i].attention <= b) => Mean(values) <= b
    <2>1. \A i \in DOMAIN values : values[i] \in Nat /\ values[i] <= Whole
      BY <1>1, <1>2
    <2>2. Mean(values) \in Nat /\ Mean(values) <= Whole
      BY <1>1, <1>5, <2>1, MeanBounds, WholeIsNatural
    <2>3. (\A i \in DOMAIN values : values[i] <= b) => Mean(values) <= b
      BY <1>1, <1>5, <2>1, MeanBounds
    <2>4. QED
      BY <1>1, <1>2, <2>2, <2>3
  <1>6. QED
    BY <1>3, <1>4, <1>5

\* Every share of a window that discloses is a share.
LEMMA SharesBounds ==
    ASSUME NEW w \in Seq(Observations), w # << >>, Discloses(w)
    PROVE  /\ DOMAIN Shares(w) \subseteq Bins
           /\ \A bin \in DOMAIN Shares(w) : Shares(w)[bin] \in 0..Whole
  <1>1. DOMAIN Shares(w) = DisclosedBins(w)
    BY DEF Shares
  <1>2. \A bin \in DisclosedBins(w) : 
            bin \in Bins /\ \A i \in Describing(w) : bin \in DOMAIN w[i].demographics
    BY DEF DisclosedBins, ReportedByAll, Bins
  <1>3. ASSUME NEW bin \in DisclosedBins(w) PROVE Shares(w)[bin] \in 0..Whole
    <2> DEFINE values == [i \in Describing(w) |-> w[i].demographics[bin]]
    <2>1. DOMAIN values = Describing(w) /\ IsFiniteSet(Describing(w)) /\ Describing(w) # {}
      BY WindowPositions DEF Describing, Discloses
    <2>2. \A i \in Describing(w) : values[i] \in 0..Whole
      BY <1>2, WindowPositions DEF Describing, ValidObservation
    <2>3. Shares(w)[bin] = Mean(values)
      BY <1>3 DEF Shares
    <2> HIDE DEF values
    <2>4. \A i \in DOMAIN values : values[i] \in Nat /\ values[i] <= Whole
      BY <2>1, <2>2
    <2>5. Mean(values) \in Nat /\ Mean(values) <= Whole
      BY <2>1, <2>4, MeanBounds, WholeIsNatural
    <2>6. QED
      BY <2>3, <2>5
  <1>4. QED
    BY <1>1, <1>2, <1>3

\* The count of a window is a count, and its confidence a share.
LEMMA PresenceBounds ==
    ASSUME NEW w \in Seq(Observations), w # << >>
    PROVE  /\ Mean([i \in DOMAIN w |-> w[i].present]) \in Nat
           /\ Confidence(w) \in 0..Whole
  <1> DEFINE counts == [i \in DOMAIN w |-> w[i].present]
             values == [i \in DOMAIN w |-> w[i].confidence]
  <1>1. /\ DOMAIN counts = DOMAIN w /\ DOMAIN values = DOMAIN w
        /\ IsFiniteSet(DOMAIN w) /\ DOMAIN w # {}
    BY WindowPositions
  <1>2. \A i \in DOMAIN w : counts[i] \in Nat /\ values[i] \in 0..Whole
    BY WindowPositions DEF ValidObservation
  <1>3. Confidence(w) = Mean(values)
    BY DEF Confidence
  <1> HIDE DEF counts, values
  <1>4. Mean(counts) \in Nat
    BY <1>1, <1>2, MeanBounds
  <1>5. \A i \in DOMAIN values : values[i] \in Nat /\ values[i] <= Whole
    BY <1>1, <1>2
  <1>6. Mean(values) \in Nat /\ Mean(values) <= Whole
    BY <1>1, <1>5, MeanBounds, WholeIsNatural
  <1>7. QED
    BY <1>3, <1>4, <1>6 DEF counts

\* A window of valid observations makes a valid signal.
LEMMA SignalOfValidWindow ==
    ASSUME NEW w \in Seq(Observations), w # << >>
    PROVE  ValidSignal(BuildSignal(w))
  <1> DEFINE s == BuildSignal(w)
  <1>1. /\ s.count = Mean([i \in DOMAIN w |-> w[i].present])
        /\ s.confidence = Confidence(w)
        /\ s.freeze = FreezeDecision(w) /\ s.degraded = AnyDegraded(w)
        /\ s.engaged = Engaged(w)
        /\ s.suppressed = IF Describing(w) = {} THEN None ELSE ~Discloses(w)
        /\ s.shares = IF Describing(w) # {} /\ Discloses(w) THEN Shares(w) ELSE NoShares
    BY DEF BuildSignal
  <1> HIDE DEF s
  <1>2. s.count \in Nat /\ s.confidence \in 0..Whole /\ s.engaged \in 0..Whole \cup {None}
    BY <1>1, PresenceBounds, EngagedBounds
  <1>3. s.freeze \in BOOLEAN /\ s.degraded \in BOOLEAN
    BY <1>1 DEF FreezeDecision, AnyDegraded
  <1>4. s.suppressed \in BOOLEAN \cup {None}
    BY <1>1 DEF Discloses
  <1>5. CASE Describing(w) # {} /\ Discloses(w)
    <2>1. s.shares = Shares(w) /\ s.suppressed = FALSE
      BY <1>1, <1>5
    <2>2. QED
      BY <1>2, <1>3, <1>4, <2>1, SharesBounds, <1>5 DEF ValidSignal, s
  <1>6. CASE ~(Describing(w) # {} /\ Discloses(w))
    <2>1. DOMAIN s.shares = {}
      BY <1>1, <1>6 DEF NoShares
    <2>2. QED
      BY <1>2, <1>3, <1>4, <2>1 DEF ValidSignal, s
  <1>7. QED
    BY <1>5, <1>6

\* Whatever valid observations are in the window, the signal made of them passes
\* the schema of its consumer (build_signal, ICD-3), and carries shares of the
\* audience only where it says that they are not suppressed.
THEOREM SignalAlwaysValid == Spec => [](window # << >> => ValidSignal(signal))
  <1>1. SelectionInv => (window # << >> => ValidSignal(signal))
    BY SignalOfValidWindow DEF SelectionInv, signal
  <1>2. QED
    BY <1>1, SelectionHolds, PTL

AgesSum(d) == d["child"] + d["young_adult"] + d["adult"] + d["senior"]
GendersSum(d) == d["male"] + d["female"]

\* The shares of a signal that discloses sum to between low and high, up to the
\* half by which each may be rounded.
SharesDistributed(low, high) ==
    window # << >> /\ signal.suppressed = FALSE =>
        /\ AgeBins \subseteq DOMAIN signal.shares
        /\ AgesSum(signal.shares) \in (low - 2)..(high + 2)
        /\ GenderBins \cap DOMAIN signal.shares # {} =>
               GendersSum(signal.shares) \in (low - 1)..(high + 1)

\* Where every observation distributes its audience over the ages, and over the
\* genders if it reports them, so does a signal that discloses, up to the rounding
\* of each share (compute_demographics; ICD-3 has the values sum to approximately
\* 1.0, in whatever range those of the observations do).
THEOREM SharesStayDistributions ==
    ASSUME NEW low \in Nat, NEW high \in Nat,
           \A o \in Observations : o.demographics # None =>
               /\ AgeBins \subseteq DOMAIN o.demographics =>
                      AgesSum(o.demographics) \in low..high
               /\ GenderBins \subseteq DOMAIN o.demographics =>
                      GendersSum(o.demographics) \in low..high
    PROVE  Spec => []SharesDistributed(low, high)
  <1>1. SelectionInv => SharesDistributed(low, high)
    <2> SUFFICES ASSUME SelectionInv, window # << >>, signal.suppressed = FALSE
                 PROVE  /\ AgeBins \subseteq DOMAIN signal.shares
                        /\ AgesSum(signal.shares) \in (low - 2)..(high + 2)
                        /\ GenderBins \cap DOMAIN signal.shares # {} =>
                               GendersSum(signal.shares) \in (low - 1)..(high + 1)
      BY DEF SharesDistributed
    <2> DEFINE S == Describing(window)
               values(bin) == [i \in S |-> window[i].demographics[bin]]
    <2>1. /\ signal.suppressed = IF S = {} THEN None ELSE ~Discloses(window)
          /\ signal.shares = IF S # {} /\ Discloses(window) THEN Shares(window) ELSE NoShares
      BY DEF signal, BuildSignal
    <2>2. Discloses(window) /\ S = DOMAIN window /\ S # {} /\ IsFiniteSet(S)
      <3>1. window \in Seq(Observations)
        BY DEF SelectionInv
      <3>2. S # {}
        BY <2>1, NoneAssumption
      <3>3. Discloses(window) \in BOOLEAN
        BY DEF Discloses
      <3>4. Discloses(window)
        BY <2>1, <3>2, <3>3
      <3>5. QED
        BY <3>1, <3>2, <3>4, WindowPositions DEF Discloses
    <2>3. signal.shares = Shares(window)
      BY <2>1, <2>2
    <2>4. \A i \in S : /\ window[i] \in Observations /\ window[i].demographics # None
                       /\ \A bin \in DOMAIN window[i].demographics :
                              window[i].demographics[bin] \in Nat
      BY WindowPositions DEF SelectionInv, Describing, ValidObservation
    <2>5. /\ DOMAIN signal.shares = DisclosedBins(window)
          /\ \A bin \in DisclosedBins(window) : signal.shares[bin] = Mean(values(bin))
      BY <2>3 DEF Shares
    <2>6. AgeBins \subseteq DisclosedBins(window) /\ ReportedByAll(window, AgeBins)
      BY <2>2 DEF Discloses, DisclosedBins
    <2>7. ASSUME GenderBins \cap DisclosedBins(window) # {}
          PROVE  GenderBins \subseteq DisclosedBins(window) /\ ReportedByAll(window, GenderBins)
      BY <2>7 DEF DisclosedBins, AgeBins, GenderBins, AttireBins
    <2>8. AgesSum(signal.shares) \in (low - 2)..(high + 2)
      <3>1. \A i \in S : AgeBins \subseteq DOMAIN window[i].demographics
        BY <2>6 DEF ReportedByAll
      <3>2. \A i \in S : AgesSum(window[i].demographics) \in low..high
        BY <2>4, <3>1
      <3>3. \A i \in S : \A bin \in AgeBins : values(bin)[i] \in Nat
        BY <2>4, <3>1
      <3>4. \A i \in S : values("child")[i] + values("young_adult")[i] + values("adult")[i]
                             + values("senior")[i] \in low..high
        BY <3>2 DEF AgesSum
      <3>5. \A bin : DOMAIN values(bin) = S
        OBVIOUS
      <3>6. {"child", "young_adult", "adult", "senior"} = AgeBins
        BY DEF AgeBins
      <3> HIDE DEF values, S
      <3>7. Mean(values("child")) + Mean(values("young_adult")) + Mean(values("adult"))
                + Mean(values("senior")) \in (low - 2)..(high + 2)
        BY <2>2, <3>3, <3>4, <3>5, <3>6, MeansOfFour
      <3>8. QED
        BY <2>5, <2>6, <3>6, <3>7 DEF AgesSum
    <2>9. ASSUME GenderBins \cap DisclosedBins(window) # {}
          PROVE  GendersSum(signal.shares) \in (low - 1)..(high + 1)
      <3>1. \A i \in S : GenderBins \subseteq DOMAIN window[i].demographics
        BY <2>7, <2>9 DEF ReportedByAll
      <3>2. \A i \in S : GendersSum(window[i].demographics) \in low..high
        BY <2>4, <3>1
      <3>3. \A i \in S : \A bin \in GenderBins : values(bin)[i] \in Nat
        BY <2>4, <3>1
      <3>4. \A i \in S : values("male")[i] + values("female")[i] \in low..high
        BY <3>2 DEF GendersSum
      <3>5. \A bin : DOMAIN values(bin) = S
        OBVIOUS
      <3>6. {"male", "female"} = GenderBins
        BY DEF GenderBins
      <3> HIDE DEF values, S
      <3>7. Mean(values("male")) + Mean(values("female")) \in (low - 1)..(high + 1)
        BY <2>2, <3>3, <3>4, <3>5, <3>6, MeansOfTwo
      <3>8. QED
        BY <2>5, <2>7, <2>9, <3>6, <3>7 DEF GendersSum
    <2>10. QED
      BY <2>5, <2>6, <2>8, <2>9
  <1>2. QED
    BY <1>1, SelectionHolds, PTL

\* Of an audience that looks away the signal says so, and the gate is shut.
LEMMA InattentiveFailsTheGate ==
    ASSUME SelectionInv, window # << >>, Inattentive
    PROVE  ~AttentionHolds(AttentionGate, signal)
  <1>1. window \in Seq(Observations)
    BY DEF SelectionInv
  <1>2. \A i \in Attentive(window) : window[i].attention <= 3499
    <2>1. \A i \in Attentive(window) : window[i].attention \in 0..Whole
      BY <1>1, WindowPositions DEF Attentive, ValidObservation
    <2>2. QED
      BY <2>1 DEF Inattentive
  <1>3. Engaged(window) \in 0..Whole /\ Engaged(window) <= 3499
    BY <1>1, <1>2, EngagedBounds DEF Inattentive
  <1>4. signal.engaged = Engaged(window)
    BY DEF signal, BuildSignal
  <1>5. Engaged(window) # None
    BY <1>3, NoneAssumption
  <1>6. QED
    BY <1>3, <1>4, <1>5 DEF AttentionHolds, AttentionGate, Sets

\* A manifest aimed at somebody is never brought up by an audience that not every
\* observation describes, nor by one in which nobody who is looked at looks back,
\* whatever its combination of tags (Rule.matches' privacy guard and the gate of
\* _inject_attention_gate; the observations are those of the window, not what the
\* signal makes of them).
THEOREM TargetingAlwaysGuarded == Spec => []TargetingNeedsDisclosureAndAttention
  <1>1. SelectionInv => TargetingNeedsDisclosureAndAttention
    <2> SUFFICES ASSUME SelectionInv, Undescribed \/ Inattentive,
                        NEW i \in DOMAIN enabled, Targeted(enabled[i])
                 PROVE  enabled[i].id \notin SelectableNow \/ AsFallback(enabled[i].id)
      BY DEF TargetingNeedsDisclosureAndAttention
    <2>1. CASE ~Evaluated
      BY <2>1 DEF SelectableNow
    <2>2. CASE Evaluated
      <3>1. Undescribed \/ ~AttentionHolds(AttentionGate, signal)
        BY <2>2, InattentiveFailsTheGate DEF Evaluated
      <3>2. QED
        BY <2>2, <3>1, AimIsGuarded DEF AimNeedsDisclosureAndAttention
    <2>3. QED
      BY <2>1, <2>2
  <1>2. QED
    BY <1>1, SelectionHolds, PTL

-------------------------------------------------------------------------------
(***************************************************************************)
(* Pairs of dimensions                                                     *)
(***************************************************************************)
\* A threshold on a number.
IsCondition(c) == /\ DOMAIN c \subseteq AudienceFieldNames
                  /\ \A f \in DOMAIN c : c[f] \in Nat

\* A merged threshold is one of the two.
LEMMA MergedField ==
    ASSUME NEW a, NEW b, IsCondition(a), IsCondition(b),
           NEW f \in DOMAIN MergeConditions(a, b)
    PROVE  \/ f \in DOMAIN a /\ MergeConditions(a, b)[f] = a[f]
           \/ f \in DOMAIN b /\ MergeConditions(a, b)[f] = b[f]
  <1>1. CASE f \notin DOMAIN a \/ f \notin DOMAIN b
    BY <1>1 DEF MergeConditions
  <1>2. CASE f \in DOMAIN a /\ f \in DOMAIN b
    <2>1. MergeConditions(a, b)[f] = Max({a[f], b[f]})
      BY <1>2 DEF MergeConditions
    <2>2. a[f] \in Int /\ b[f] \in Int
      BY <1>2 DEF IsCondition
    <2>3. \E x \in {a[f], b[f]} : \A y \in {a[f], b[f]} : x >= y
      BY <2>2
    <2>4. Max({a[f], b[f]}) \in {a[f], b[f]}
      BY <2>3 DEF Max
    <2>5. QED
      BY <1>2, <2>1, <2>4
  <1>3. QED
    BY <1>1, <1>2

\* An audience both tags aim at matches the rule of the pair.
LEMMA PairMatches ==
    ASSUME NEW a, NEW b, IsCondition(a), IsCondition(b), NEW s, NEW h,
           ~Suppressed(s), AttentionHolds(AttentionGate, s),
           PresenceHolds(a, s), DemographicsHold(a, s),
           PresenceHolds(b, s), DemographicsHold(b, s),
           NEW rule,
           rule.conditions = Updated(Updated(MergeConditions(a, b), AttentionGate), Always)
    PROVE  Matches(rule, s, h)
  <1> DEFINE merged == MergeConditions(a, b)
             d == rule.conditions
  <1>1. /\ DOMAIN AttentionGate = {"attention_engaged_gte"}
        /\ AttentionGate["attention_engaged_gte"] = 3500
        /\ DOMAIN Always = {}
    BY DEF AttentionGate, Always
  <1>2. DOMAIN merged = DOMAIN a \cup DOMAIN b
    BY MergedNames
  <1> HIDE DEF merged
  <1>3. DOMAIN merged \subseteq AudienceFieldNames
    BY <1>2 DEF IsCondition
  <1>4. /\ DOMAIN d = DOMAIN merged \cup {"attention_engaged_gte"}
        /\ d["attention_engaged_gte"] = 3500
        /\ \A f \in DOMAIN merged : f # "attention_engaged_gte" => d[f] = merged[f]
    BY <1>1 DEF Updated, merged
  <1>5. AudienceFieldNames \cap {"attention_engaged_gte", "time_hour_gte", "time_hour_lte",
                                 "presence_count_lte", "demographics_suppressed_eq"} = {}
    BY DEF AudienceFieldNames, Bins, AgeBins, GenderBins, AttireBins
  <1>6. \A f \in DOMAIN merged :
            \/ f \in DOMAIN a /\ d[f] = a[f]
            \/ f \in DOMAIN b /\ d[f] = b[f]
    BY <1>3, <1>4, <1>5, MergedField DEF merged
  <1> HIDE DEF d
  <1>7. PresenceHolds(d, s)
    <2>1. ASSUME NEW f \in {"presence_count_gte", "presence_count_eq", "presence_confidence_gte"},
                 f \in DOMAIN d
          PROVE  (f \in DOMAIN a /\ d[f] = a[f]) \/ (f \in DOMAIN b /\ d[f] = b[f])
      BY <1>4, <1>6, <2>1
    <2>2. "presence_count_lte" \notin DOMAIN d
      BY <1>3, <1>4, <1>5
    <2>3. QED
      BY <2>1, <2>2 DEF PresenceHolds, Sets
  <1>8. DemographicsHold(d, s)
    <2>1. ASSUME NEW bin \in DOMAIN d \cap Bins PROVE Share(s, bin) >= d[bin]
      <3>1. bin \in DOMAIN merged
        BY <1>4, <1>5, <2>1 DEF AudienceFieldNames
      <3>2. QED
        BY <1>6, <2>1, <3>1 DEF DemographicsHold
    <2>2. "demographics_suppressed_eq" \notin DOMAIN d
      BY <1>3, <1>4, <1>5
    <2>3. QED
      BY <2>1, <2>2 DEF DemographicsHold, Sets
  <1>9. AttentionHolds(d, s)
    BY <1>1, <1>4 DEF AttentionHolds, Sets
  <1>10. HourHolds(d, h)
    BY <1>3, <1>4, <1>5 DEF HourHolds, Sets
  <1>11. QED
    BY <1>7, <1>8, <1>9, <1>10 DEF Matches, d

\* Without an hour, a promotion and a pair, ten is the most.
LEMMA PlainRuleIsLow ==
    ASSUME NEW m, Plain(m), CrossPairs(m) = {}, NEW rule \in GenerateRules(m)
    PROVE  rule.priority \in Nat /\ rule.priority <= 10
  <1>1. Bonus(m) = 0 /\ AudienceBoost(m) = 0
    BY BonusValue DEF Plain, Has, AudienceBoost
  <1>2. CASE rule \in AudienceRules(m)
    <2>1. \A tag : BasePriority(tag) \in Nat /\ BasePriority(tag) <= 10
      BY DEF BasePriority
    <2>2. QED
      BY <1>1, <1>2, <2>1 DEF AudienceRules, Rule
  <1>3. CASE rule \in ReminderRules(m)
    BY <1>3 DEF ReminderRules, Rule, ReminderPriority
  <1>4. rule \notin CrossDimRules(m) /\ rule \notin PresenceRules(m)
    BY DEF CrossDimRules, PresenceRules, Plain, Has
  <1>5. QED
    BY <1>2, <1>3, <1>4 DEF GenerateRules, PrimaryRules

\* The rule of the pair is in the engine, matches and is above the other's.
LEMMA SlicesWin == SelectionInv => SliceBeatsSingleTag
  <1> SUFFICES ASSUME SelectionInv, NEW i \in DOMAIN enabled, NEW j \in DOMAIN enabled,
                      Plain(enabled[i]), Plain(enabled[j]),
                      NEW pair \in CrossPairs(enabled[i]), Applies(pair[1]), Applies(pair[2]),
                      CrossPairs(enabled[j]) = {},
                      enabled[j].id \in SelectableNow
               PROVE  FALSE
    BY DEF SliceBeatsSingleTag
  <1> DEFINE m == enabled[i]
             a == AudienceConditions(pair[1])
             b == AudienceConditions(pair[2])
             rule == Rule(m.id, 10 + CrossDimBonus + AudienceBoost(m) + Bonus(m),
                          GatedMerge(pair, Always))
  <1>1. rule \in engine
    <2>1. Always \in SlotsOf(m)
      BY DEF SlotsOf, Plain, Has
    <2>2. QED
      BY <2>1, OwnRulesAreLoaded DEF GenerateRules, PrimaryRules, CrossDimRules
  <1>2. rule.priority = 13
    BY BonusValue DEF Rule, CrossDimBonus, AudienceBoost, Plain, Has
  <1>3. Matches(rule, signal, hour)
    <2>1. IsCondition(a) /\ IsCondition(b)
      BY AudienceFields DEF CrossPairs, IsCondition
    <2>2. ~Suppressed(signal)
      BY NoneAssumption DEF Applies, Suppressed
    <2>3. rule.conditions = Updated(Updated(MergeConditions(a, b), AttentionGate), Always)
      BY DEF Rule, GatedMerge
    <2>4. /\ AttentionHolds(AttentionGate, signal)
          /\ PresenceHolds(a, signal) /\ DemographicsHold(a, signal)
          /\ PresenceHolds(b, signal) /\ DemographicsHold(b, signal)
      BY DEF Applies
    <2> HIDE DEF rule, a, b
    <2>5. QED
      BY <2>1, <2>2, <2>3, <2>4, PairMatches
  <1>4. \A r \in TopTier(engine, signal, hour) : 13 <= r.priority
    BY <1>1, <1>2, <1>3 DEF TopTier, Matching
  <1>5. CASE AsFallback(enabled[j].id)
    <2>1. PICK r \in TopTier(engine, signal, hour) : r.manifest = enabled[j].id
      BY DEF SelectableNow, Selectable
    <2>2. r.priority = -1
      BY <1>5, <2>1 DEF AsFallback
    <2>3. QED
      BY <1>4, <2>2
  <1>6. CASE ~AsFallback(enabled[j].id)
    <2>1. PICK r \in TopTier(engine, signal, hour) : r \in GenerateRules(enabled[j])
      BY <1>6, SelectedForAReason DEF SelectableNow
    <2>2. QED
      BY <1>4, <2>1, PlainRuleIsLow
  <1>7. QED
    BY <1>5, <1>6

\* Two dimensions that the audience meets displace every plain manifest that has
\* no such pair, whatever it is tagged with (_generate_cross_dim_rules).
THEOREM SliceAlwaysWins == Spec => []SliceBeatsSingleTag
  BY SlicesWin, SelectionHolds, PTL
===============================================================================
