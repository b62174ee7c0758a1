------------------------ MODULE MCCaptionArtifacts ------------------------
EXTENDS CaptionArtifacts, TLC

CONSTANTS w1, c1, c2, t1, t2

Symmetric == Permutations({c1, c2}) \cup Permutations({t1, t2})

(* Two answers that differ in their only batch.                            *)
Answers == {<<t1>>, <<t2>>}

(* TLC leaves a function unevaluated until something looks at all of it,   *)
(* and its workers would then share it: the view looks at every variable.  *)
Evaluated == artifactVars = artifactVars

(* The artifacts an execution writes, and those of a work whose words and  *)
(* order no action and no property looks at any more: the words of live    *)
(* captions, those of a job that is over, and in its last execution those  *)
(* of an artifact it does not write.                                       *)
Written(w) == {Source(w)} \cup IF run[w].needs = "translated" THEN {<<w, "translation">>} ELSE {}
Unread == {x \in Artifact : \/ x[1] \in Session
                            \/ run[x[1]].at = "over"
                            \/ run[x[1]].attempt = MaxRuns /\ x \notin Written(x[1])}

(* The table without words that are not read and without rows that are not *)
(* published by then.  Generations are only compared, captions with        *)
(* captions and translations with translations.                            *)
Table ==
    LET unread == Unread
        dropped == {x \in unread : x[1] \in Work /\ captions[x].status # "ready"}
        rows == Rows(captions) \ dropped
        older(x) == {y \in rows : /\ x[2] = "translation" <=> y[2] = "translation"
                                  /\ captions[y].generation < captions[x].generation}
    IN  [x \in rows |-> [captions[x] EXCEPT !.generation = older(x),
                                            !.segment = IF x \in unread THEN Null ELSE @]]

(* What was last requested for indexing is never read.                     *)
View == <<Table, video, shown, work, subscribed, attached, attaching, owner, run,
          Evaluated>>
=============================================================================
