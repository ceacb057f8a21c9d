---------------------------- MODULE AudienceWindow ----------------------------
(***************************************************************************)
(* What the audience-state service makes of the observations in its        *)
(* window: ObservationWindow's compute_* methods and build_signal.         *)
(*                                                                         *)
(* An observation is [present, confidence, degraded, demographics,         *)
(* attention].  Demographics is None or a function from the bins it        *)
(* reports to their shares, attention None or the engaged share.  Shares   *)
(* and confidences are in ten-thousandths, the precision the code rounds   *)
(* to.  A bin of the attire group carries the group's name.  Dwell times   *)
(* and the ambient share decide nothing and are left out.                  *)
(***************************************************************************)
EXTENDS Integers, Sequences, FiniteSetsExt

CONSTANTS
    None,               \* a part that is missing
    MinStability,       \* MIN_STABILITY_OBSERVATIONS
    ConfidenceFreeze    \* CONFIDENCE_FREEZE_THRESHOLD

AgeBins == {"child", "young_adult", "adult", "senior"}
GenderBins == {"male", "female"}
AttireBins ==
    {"attire_formal", "attire_business_casual", "attire_casual", "attire_athletic",
     "attire_outdoor_technical", "attire_workwear_uniform", "attire_streetwear",
     "attire_luxury_premium", "attire_lounge_comfort", "attire_smart_occasion"}
Bins == AgeBins \cup GenderBins \cup AttireBins

\* Everybody, or all certainty, in ten-thousandths.
Whole == 10000

\* Python's round(): to the nearest, and to the even one in the middle.
Rounded(sum, n) ==
    LET q == sum \div n
        rest == 2 * (sum % n)
    IN  IF rest < n THEN q ELSE IF rest > n THEN q + 1 ELSE q + (q % 2)

\* The mean of a function's values, over the positions of a window.
Mean(values) ==
    Rounded(MapThenSumSet(LAMBDA i : values[i], DOMAIN values), Cardinality(DOMAIN values))

Confidence(w) == Mean([i \in DOMAIN w |-> w[i].confidence])

-------------------------------------------------------------------------------
(***************************************************************************)
(* compute_state                                                           *)
(***************************************************************************)
Stable(w) == Len(w) >= MinStability

\* Mutant: a better observation makes up for it.
AnyDegradedAtLast(w) == w[Len(w)].degraded

AnyDegraded(w) == \E i \in DOMAIN w : w[i].degraded

FreezeDecision(w) ==
    ~Stable(w) \/ Confidence(w) < ConfidenceFreeze \/ AnyDegraded(w)

-------------------------------------------------------------------------------
(***************************************************************************)
(* compute_demographics and compute_attention                              *)
(***************************************************************************)
Describing(w) == {i \in DOMAIN w : w[i].demographics # None}

\* A group that every describing observation reports in full.
ReportedByAll(w, group) ==
    \A i \in Describing(w) : group \subseteq DOMAIN w[i].demographics

\* Mutant: the observations that describe nobody are passed over.
DisclosesFewer(w) ==
    /\ MapThenSumSet(LAMBDA i : w[i].confidence, DOMAIN w) >= ConfidenceFreeze * Len(w)
    /\ ReportedByAll(w, AgeBins)

\* Some but not all describing, too little confidence or an age bin missing
\* anywhere: suppressed.
Discloses(w) ==
    /\ Describing(w) = DOMAIN w
    /\ MapThenSumSet(LAMBDA i : w[i].confidence, DOMAIN w) >= ConfidenceFreeze * Len(w)
    /\ ReportedByAll(w, AgeBins)

DisclosedBins(w) ==
    UNION {group \in {AgeBins, GenderBins, AttireBins} : ReportedByAll(w, group)}

Shares(w) ==
    [bin \in DisclosedBins(w) |-> Mean([i \in Describing(w) |-> w[i].demographics[bin]])]

Attentive(w) == {i \in DOMAIN w : w[i].attention # None}

Engaged(w) ==
    IF Attentive(w) = {} THEN None ELSE Mean([i \in Attentive(w) |-> w[i].attention])

-------------------------------------------------------------------------------
(***************************************************************************)
(* build_signal                                                            *)
(***************************************************************************)
NoShares == [bin \in {} |-> 0]

\* suppressed is None when the signal carries no demographics at all.
BuildSignal(w) ==
    IF w = << >> THEN None
    ELSE [count |-> Mean([i \in DOMAIN w |-> w[i].present]),
          confidence |-> Confidence(w),
          freeze |-> FreezeDecision(w),
          degraded |-> AnyDegraded(w),
          engaged |-> Engaged(w),
          suppressed |-> IF Describing(w) = {} THEN None ELSE ~Discloses(w),
          shares |-> IF Describing(w) # {} /\ Discloses(w) THEN Shares(w) ELSE NoShares]
===============================================================================
