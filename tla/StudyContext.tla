---------------------------- MODULE StudyContext ----------------------------
(***************************************************************************)
(* The study context of one learner: the captions it shows, of which many  *)
(* jobs, live sessions and other learners have a part, and the material    *)
(* that is generated from them.  CaptionArtifacts has the pointers of the  *)
(* context, GeneratedMaterial their generations; here they are the same.   *)
(***************************************************************************)
EXTENDS CaptionArtifacts, GeneratedMaterial

CONSTANT Learner    \* the context: a member of Context

LearnerSource == Generation(shown[Learner].source)
LearnerTranslation == Generation(shown[Learner].translation)

\* A step of the captions, whether or not the context shows others by it.
CaptionsGoOn == CaptionsNext /\ Shows(LearnerSource', LearnerTranslation')

\* A request, a look, an answer or a job: no statement of theirs writes captions.
MaterialGoesOn == MaterialNext /\ UNCHANGED artifactVars

StudyNext == CaptionsGoOn \/ MaterialGoesOn

StudySpec == CaptionsInit /\ Init /\ [][StudyNext]_<<artifactVars, vars>>

-----------------------------------------------------------------------------
\* The generations the material goes by are those of the pointers.
Linked == source = LearnerSource /\ translation = LearnerTranslation

\* Material is only ever made of captions that were published, as captions or as
\* a translation of them (requestAdaptiveQuiz, requestOwnerOverview).
MaterialIsOfPublished ==
    \A m \in Material : row[m] # None =>
        \E a \in Artifact : captions[a].status = "ready" /\ captions[a].generation = artifact[m]
=============================================================================
