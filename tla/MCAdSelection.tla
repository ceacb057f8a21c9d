----------------------------- MODULE MCAdSelection -----------------------------
(***************************************************************************)
(* AdSelection over two manifests and the tags that make rules differ: no  *)
(* tag, one per dimension, pairs of dimensions, the night, each frequency  *)
(* and a promotion; and over observations of the audiences that tell the   *)
(* tags apart, one of them describing nobody and one of people looking     *)
(* away.                                                                   *)
(***************************************************************************)
EXTENDS AdSelection, TLC

CONSTANTS m1, m2, stub

Tagged(id, tags) == [id |-> id, tags |-> tags]

MCLibrary ==
    {Tagged(m1, tags) : tags \in
        {<< >>,
         <<"attract", "general">>,
         <<"teenager_group", "male_focus">>,
         <<"time_late_night", "solo_adult", "attire_formal">>,
         <<"general", "time_late_night", "time_morning">>}}
    \cup
    {Tagged(m2, tags) : tags \in
        {<<"female_focus", "attire_casual", "promo_seasonal">>,
         <<"seniors">>,
         <<"male_focus", "freq_recurring">>,
         <<"attract", "time_late_night">>,
         <<"time_lunch", "time_late_night">>,
         <<"adult_with_child", "promo_limited_time", "time_evening", "freq_ambient">>}}

Observation(present, confidence, demographics, attention) ==
    [present |-> present, confidence |-> confidence, degraded |-> FALSE,
     demographics |-> demographics, attention |-> attention]

Ages(child, young_adult, adult, senior) ==
    [child |-> child, young_adult |-> young_adult, adult |-> adult, senior |-> senior]

MCObservations ==
    {Observation(0, 9000, None, None),
     Observation(1, 6500, [male |-> 6000, female |-> 4000] @@ Ages(0, 6000, 4000, 0), 3500),
     Observation(2, 9000, [male |-> 6000, female |-> 4000] @@ Ages(1000, 6000, 2000, 1000), 3500),
     Observation(2, 9000, [male |-> 6000, female |-> 4000] @@ Ages(1000, 6000, 2000, 1000), 3499),
     Observation(1, 8000, [bin \in AttireBins |-> IF bin = "attire_formal" THEN 4500 ELSE 0]
                          @@ Ages(2000, 0, 5000, 3000), 5000),
     Observation(2, 8000, [male |-> 4500, female |-> 5500]
                          @@ [bin \in AttireBins |-> IF bin = "attire_casual" THEN 5000 ELSE 0]
                          @@ Ages(2000, 0, 4000, 4000), None)}
===============================================================================
