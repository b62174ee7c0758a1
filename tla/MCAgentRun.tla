----------------------------- MODULE MCAgentRun -----------------------------
(***************************************************************************)
(* Instances of AgentRun for TLC.                                          *)
(***************************************************************************)
EXTENDS AgentRun, TLC

CONSTANTS w1, w2, p1

Symmetric == Permutations({w1, w2})

\* One kind of job that can fail.
RetrievalFails == [k \in Kind |-> IF k = "retrieval" THEN {"completed", "failed"} ELSE {"completed"}]

\* The quiz handler refuses payloads of version 1, which approval writes.
QuizRefused == [k \in Kind |-> IF k = "quiz" THEN {"failed"} ELSE {"completed"}]

\* Versions and tokens only count as being the run's or not: one that is not
\* now will never be again.
Numbers ==
    <<IF seen.version = version THEN seen.plan ELSE None,
      [w \in Worker |-> [work[w] EXCEPT !.version = @ = version,
                                        !.token = Mine(w) # 0 /\ @ = lease[Mine(w)]]],
      [a \in Attempt |-> lease[a] = 0],
      issued = 0>>

\* TLC leaves a function unevaluated until something looks at all of it, and its
\* workers would then share it: the view looks at every variable.
Evaluated == vars = vars

\* Once there is a course no step reads the attempts, the usage or the proposal
\* again, nor does any change them: only the work on the course goes on.
View ==
    IF course # 0 THEN <<state, course, itemVars, faults, seen.version = version, Evaluated>>
    ELSE <<state, cancelling, spent, tries, attempt, live, used, plan, itemVars, offerVars,
           overtime, faults, Numbers, Evaluated>>
=============================================================================
