---------------------------- MODULE MCCourseIndex ---------------------------
(***************************************************************************)
(* Instances of CourseIndex for TLC.                                       *)
(***************************************************************************)
EXTENDS CourseIndex, TLC

CONSTANTS p1, s1, s2, x1, x2

Symmetric == Permutations({s1, s2}) \cup Permutations({x1, x2})

\* TLC leaves a function unevaluated until something looks at all of it, and its
\* workers would then share it: the view looks at every variable.
Evaluated == vars = vars

\* An event to prepare captions matters to the step it is for, and to the
\* post, whichever step it is for.
Job(a) == <<asset[a], told[a], a \in stray, a \in late>>

Jobs ==
    IF source \in Post
    THEN LET jobs == {<<source, st>> : st \in Step \cup {None}}
         IN  {<<j, Cardinality({a \in jobs : Job(a) = j})>> : j \in {Job(a) : a \in jobs}}
    ELSE [p \in Post |-> Job(<<p, source>>)]

\* The index of a post depends on the course only by the plan that can still
\* create it, and no step depends on the version last given.
View ==
    <<post, source, chunk, index, Jobs, exec, historyVars, faults,
      IF source \in Post THEN <<course.status = "none">> ELSE <<course, step, listed>>,
      Evaluated>>
=============================================================================
