--------------------------- MODULE MCAudiencePipeline ---------------------------
(***************************************************************************)
(* AudiencePipeline with two scenes: one the camera sees well, and one the *)
(* pipeline reports as degraded.  Each kind of disturbance comes by itself *)
(* and as often as it likes, a stall together with an unplugged camera.    *)
(***************************************************************************)
EXTENDS AudiencePipeline

MCObserved(scene) ==
    [present |-> 1, confidence |-> 9000, degraded |-> scene = "blurred",
     demographics |-> None, attention |-> None]
Setting(driver, faults) == [driver |-> driver, faults |-> faults]

MCSettings ==
    {Setting(driver, {"stall", "unplug"}) : driver \in Drivers}
    \cup
    {Setting("raises", {fault}) : fault \in {"broker", "input_cv", "audience_state", "optimizer"}}
===============================================================================
