------------------------ MODULE MCGeneratedMaterial ------------------------
(***************************************************************************)
(* Instances of GeneratedMaterial for TLC.                                 *)
(***************************************************************************)
EXTENDS GeneratedMaterial, TLC

CONSTANTS m1, s1, s2

Symmetric == Permutations({s1, s2})

\* TLC leaves a function unevaluated until something looks at all of it, and its
\* workers would then share it: the view looks at every variable.
Evaluated == LET others == <<settled, attemptsMade, stalls, issued, token, claimToken, content, graded,
                        artifact, captionVars>> IN others = others

\* AttachContext can show any captions at any time.  Once the only material is
\* asked for, no step and no property looks at more of those shown now than
\* whether an overview is for them, or whether a quiz is of older ones.
Captions(m) ==
    CASE row[m] = None -> <<source, translation>>
      [] row[m] # None /\ kind[m] = "quiz" -> <<IsStale(m)>>
      [] row[m] # None /\ kind[m] = "overview" -> <<IsCurrent(m), m \in moved>>

\* A claim can be taken unless it is live, and a slot passes the conditions of a
\* statement only while it owns one; tokens are not looked at otherwise, and
\* nobody counts the attempts of a job that is over.
Counted(k) == IF jobState[k] \in {"completed", "failed"} THEN None
              ELSE <<attemptsMade[k], stalls[k]>>
Claims == <<claimLive, [s \in Slot |-> Jobs!Owns(s)]>>

\* Nor does any step or property look at what was reported to the learning run,
\* or at which execution wrote what a row holds.
Executions == <<jobState, lockOwner, [k \in Job |-> Counted(k)], Claims,
                result, deadLetter, pc, job, final, leaseLost, verdict, faults>>

Row(m) == <<kind[m], row[m], content[m] # None, graded[m] # None, Captions(m)>>

View == <<Executions, [m \in Material |-> Row(m)], step, untold, Evaluated>>
=============================================================================
