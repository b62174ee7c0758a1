-------------------------- MODULE MCProviderBudget --------------------------
(***************************************************************************)
(* Instances of ProviderBudget for TLC.                                    *)
(***************************************************************************)
EXTENDS ProviderBudget, TLC

CONSTANTS u1, u2, k1, k2, w1, w2, q1, q2, j1, j2

\* One video is twice as long as the other.
TwoLengths == [k \in Key |-> IF k = k1 THEN 1 ELSE 2]

\* TLC leaves a function unevaluated until something looks at all of it, and its
\* workers would then share it: the view looks at every variable.
Evaluated == budgetVars = budgetVars

\* Nothing reads the day of a subscription that is not active, or the key, the
\* day and the cost of a released work that nobody subscribes to.
View ==
    LET over(w) == workState[w] = "released" /\ \A u \in User : subState[w][u] \notin Active
    IN
    <<today, workState, event, subState, requestVars, op,
      [w \in Work |-> IF over(w) THEN <<>> ELSE <<workKey[w], workDay[w], actual[w]>>],
      [w \in Work |-> [u \in User |-> IF subState[w][u] \in Active THEN subDay[w][u] ELSE 0]],
      Evaluated>>

Symmetric ==
    Permutations({u1, u2}) \cup Permutations({w1, w2})
        \cup Permutations({q1, q2}) \cup Permutations({j1, j2})
=============================================================================
