-------------------------- MODULE MCWorkPipeline --------------------------
(***************************************************************************)
(* Instances of WorkPipeline for TLC.                                      *)
(***************************************************************************)
EXTENDS WorkPipeline, TLC

CONSTANTS e1, e2, e3, r1, s1, s2

\* Bound: the third row only comes to be as a replay, and waits for its claim.
ThirdWaits ==
    phase'[e3] # "absent" =>
        replayOf'[e3] # None /\ phase'[e3] = "pending" /\ attemptCount'[e3] = 0

ThreeRowSpec == Init /\ [][Next /\ ThirdWaits]_pipelineVars

Symmetric == Permutations({e1, e2})
=============================================================================
