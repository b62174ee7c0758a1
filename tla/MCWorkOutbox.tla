--------------------------- MODULE MCWorkOutbox ---------------------------
(***************************************************************************)
(* Instances of WorkOutbox for TLC.                                        *)
(***************************************************************************)
EXTENDS WorkOutbox, TLC

CONSTANTS e1, e2, r1, r2

\* The relay loses no time but in queue.add: no other call takes a tick.
PromptSpec ==
    Init /\ [][Next /\ (Tick => \A r \in Relay : pc[r] \in {"idle", "publishing"})]_outboxVars

Symmetric == Permutations({e1, e2}) \cup Permutations({r1, r2})
=============================================================================
