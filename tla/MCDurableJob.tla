--------------------------- MODULE MCDurableJob ---------------------------
(***************************************************************************)
(* Instances of DurableJob for TLC.                                        *)
(***************************************************************************)
EXTENDS DurableJob, TLC

CONSTANTS k1, k2, s1, s2

Symmetric == Permutations({k1, k2}) \cup Permutations({s1, s2})
=============================================================================
