------------------------- MODULE GeneratedMaterial -------------------------
(***************************************************************************)
(* Study material that a job generates for one study context: adaptive     *)
(* quizzes (quiz-generation.worker.ts, postgres-quiz.repository.ts) and    *)
(* overviews (learning-summary.worker.ts,                                  *)
(* postgres-learning-overview.repository.ts).  A material is a row the     *)
(* learner asks for; its event becomes a job of DurableJob, and a dead     *)
(* letter of that event can be replayed as a second job.  The executions   *)
(* of a job are fenced in the records of DurableJob, not in the row: there *)
(* only the conditions of the statements below stand between two of them.  *)
(*                                                                         *)
(* Meanwhile the context moves on to newer captions: the material belongs  *)
(* to the artifact that was current when it was asked for.  A pending      *)
(* overview is called generating here, as a quiz is.                       *)
(***************************************************************************)
EXTENDS Naturals

CONSTANTS
    Material, Slot,
    MaxAttempts, MaxStalls, ExhaustedCode, ForeignCode, None,
    MaxGeneration,  \* bound: caption artifacts of the video
    MaxFaults       \* bound: crashes and failed calls, see DurableJob

\* The event of the material and, once it is dead-lettered, its replay.
Job == Material \X {"request", "replay"}

TaskFailure == {"NOT_GENERATABLE", "INVALID_RESPONSE", "CHECKPOINT_CONFLICT"}

ASSUME MaterialConstants ==
    /\ MaxGeneration \in Nat \ {0}
    /\ MaxAttempts \in Nat \ {0}
    /\ MaxStalls \in Nat
    /\ MaxFaults \in Nat
    /\ ExhaustedCode \notin TaskFailure
    /\ ForeignCode \cap (TaskFailure \cup {ExhaustedCode}) = {}
    /\ {"succeeded", "error"} \cap ({ExhaustedCode} \cup ForeignCode) = {}
    /\ None \notin Slot \cup Job \cup (Job \X Nat) \cup ForeignCode \cup
          {"succeeded", "error", "generating", "ready", "failed", "evaluated", "stale"} \cup
          TaskFailure \cup {ExhaustedCode}

VARIABLES
    jobState, lockOwner, attemptsMade, stalls, issued, claimToken, claimLive,
    result, deadLetter, settled, pc, job, token, final, leaseLost, verdict, faults,
    kind,         \* quiz or overview
    row,          \* state of the row; None before it is asked for
    artifact,     \* generation of the caption artifact the row belongs to
    content,      \* execution whose questions or summary the row holds
    graded,       \* content the learner's answers were graded against
    source,       \* generation of the context's source captions, 0 without any
    translation,  \* generation of their translation, 0 without one
    step,         \* where the handler is in each slot, or how its task ends
    moved,        \* materials whose captions were not effective at some time
    untold        \* jobs that ended without the handler's last word

Jobs == INSTANCE DurableJob

jobVars == <<jobState, lockOwner, attemptsMade, stalls, issued, claimToken, claimLive,
             result, deadLetter, settled, pc, job, token, final, leaseLost, verdict, faults>>
rowVars == <<kind, row, artifact, content, graded>>
captionVars == <<source, translation, moved>>
vars == <<jobVars, rowVars, captionVars, step, untold>>

-----------------------------------------------------------------------------
Outcome == {"succeeded", "error"} \cup TaskFailure

HandlerStep == {"idle", "load", "generate", "handled"} \cup Outcome

\* An execution of a job, by the token of its claim.
Execution(s) == <<job[s], token[s]>>

TypeOK ==
    /\ Jobs!TypeOK
    /\ kind \in [Material -> {"quiz", "overview"}]
    /\ row \in [Material -> {None, "generating", "ready", "failed", "evaluated", "stale"}]
    /\ artifact \in [Material -> 0..MaxGeneration]
    /\ content \in [Material -> (Job \X Nat) \cup {None}]
    /\ graded \in [Material -> (Job \X Nat) \cup {None}]
    /\ source \in 0..MaxGeneration
    /\ translation \in 0..MaxGeneration
    /\ step \in [Slot -> HandlerStep]
    /\ moved \subseteq Material
    /\ untold \subseteq Job

Init ==
    /\ Jobs!Init
    /\ kind \in [Material -> {"quiz", "overview"}]
    /\ row = [m \in Material |-> None]
    /\ artifact = [m \in Material |-> 0]
    /\ content = [m \in Material |-> None]
    /\ graded = [m \in Material |-> None]
    /\ source = 0
    /\ translation = 0
    /\ step = [s \in Slot |-> "idle"]
    /\ moved = {}
    /\ untold = {}

-----------------------------------------------------------------------------
(***************************************************************************)
(* The captions of the context, as CaptionArtifacts has them.  Generations *)
(* of a video are numbered in the order of their creation, those of other  *)
(* contexts included; a translation comes after its source.                *)
(***************************************************************************)

\* COALESCE(current_translation_caption_artifact_id, current_source_...)
Effective == IF translation # 0 THEN translation ELSE source

\* The row is for the captions the context shows now.
IsCurrent(m) == artifact[m] = Effective

\* The artifact of the row is neither the source nor the translation.
IsStale(m) == artifact[m] \notin {source, translation}

\* The context shows the source of generation g, with a translation or without.
Shows(g, t) ==
    /\ source' = g
    /\ translation' = t
    /\ moved' = moved \cup {m \in Material : row[m] # None /\ artifact[m] # Effective'}
    /\ UNCHANGED <<jobVars, rowVars, step, untold>>

TranslationsOf(g) == {0} \cup (g + 1)..MaxGeneration

\* A job publishes a source: it is newer than the one of the video, but the
\* translation the context showed may be newer still.
PublishSource ==
    \E g \in (source + 1)..MaxGeneration : Shows(g, 0)

PublishTranslation ==
    /\ source # 0
    /\ \E t \in (Effective + 1)..MaxGeneration : Shows(source, t)

\* A live session ends: its captions are not older than the source, or the
\* context keeps what it shows.
FinalizeLive ==
    \E g \in (source..MaxGeneration) \ {0} : \E t \in TranslationsOf(g) : Shows(g, t)

\* attachContext reads the pointer of the video before it waits for the row of
\* the context, and so may bring back what was shown before.
AttachContext ==
    \E g \in 0..MaxGeneration : \E t \in TranslationsOf(g) : Shows(g, t)

-----------------------------------------------------------------------------
(***************************************************************************)
(* What the learner does.  Asking again finds the row and changes nothing. *)
(***************************************************************************)

\* requestAdaptiveQuiz, requestOwnerOverview: the row and its event appear
\* together, for the captions that are effective now.
Request(m) ==
    /\ row[m] = None
    /\ source # 0
    /\ row' = [row EXCEPT ![m] = "generating"]
    /\ artifact' = [artifact EXCEPT ![m] = Effective]
    /\ UNCHANGED <<jobVars, captionVars, kind, content, graded, step, untold>>

\* findOwnerAdaptiveQuiz marks a quiz of older captions.
Look(m) ==
    /\ kind[m] = "quiz" /\ row[m] \in {"generating", "ready"}
    /\ IsStale(m)
    /\ row' = [row EXCEPT ![m] = "stale"]
    /\ UNCHANGED <<jobVars, captionVars, kind, artifact, content, graded, step, untold>>

\* Only a quiz that is ready takes answers, and an attempt makes it evaluated.
Answerable(m) == row[m] = "ready"

\* submitAdaptiveQuiz: a quiz of older captions turns stale, whatever state it
\* was in; otherwise the answers are graded and the quiz is evaluated.  The
\* same answers again are only repeated.
Submit(m) ==
    /\ kind[m] = "quiz" /\ row[m] # None
    /\ \/ /\ IsStale(m)
          /\ row' = [row EXCEPT ![m] = "stale"]
          /\ UNCHANGED graded
       \/ /\ ~IsStale(m)
          /\ Answerable(m)
          /\ row' = [row EXCEPT ![m] = "evaluated"]
          /\ graded' = [graded EXCEPT ![m] = content[m]]
    /\ UNCHANGED <<jobVars, captionVars, kind, artifact, content, step, untold>>

-----------------------------------------------------------------------------
(***************************************************************************)
(* The handler in its slot, between the steps of DurableJob.               *)
(***************************************************************************)

At(s, l) == step' = [step EXCEPT ![s] = l]

\* The material of the job of s.
Of(s) == job[s][1]

\* The task starts once the claim is taken.
Acquire(s) ==
    /\ Jobs!Acquire(s)
    /\ At(s, IF pc'[s] = "running" THEN "load" ELSE "idle")
    /\ UNCHANGED <<rowVars, captionVars, untold>>

Generated(m) == {"ready"} \cup IF kind[m] = "quiz" THEN {"evaluated"} ELSE {}

\* process reads the row: generated material is a success already, and only
\* material that is generating is generated.
Load(s) ==
    /\ pc[s] = "running" /\ step[s] = "load"
    /\ \/ row[Of(s)] \in Generated(Of(s)) /\ At(s, "succeeded")
       \/ row[Of(s)] = "generating" /\ At(s, "generate")
       \/ row[Of(s)] \notin Generated(Of(s)) \cup {"generating"} /\ At(s, "NOT_GENERATABLE")
    /\ UNCHANGED <<jobVars, rowVars, captionVars, untold>>

\* The call of the model fails; so it does once the claim is known to be lost,
\* which aborts its signal.
GenerateFails(s) ==
    /\ pc[s] = "running" /\ step[s] = "generate"
    /\ At(s, "error")
    /\ UNCHANGED <<jobVars, rowVars, captionVars, untold>>

\* The model answers and the signal is looked at.  The statement that follows
\* may come late, but so may the heartbeat that finds the claim lost.
Answered(s) == pc[s] = "running" /\ step[s] = "generate" /\ ~leaseLost[s]

\* Mutant: the state of the row is not looked at.
FailAnyway(m) == row' = [row EXCEPT ![m] = "failed"]

\* failAdaptiveQuizGeneration, failGeneration: only while it is generating.
FailRow(m) ==
    row' = IF row[m] = "generating" THEN [row EXCEPT ![m] = "failed"] ELSE row

\* An answer that does not validate fails the row and the job.
Refuse(s) ==
    /\ Answered(s)
    /\ FailRow(Of(s))
    /\ At(s, "INVALID_RESPONSE")
    /\ UNCHANGED <<jobVars, kind, artifact, content, graded, captionVars, untold>>

\* Mutant: a row of any state takes the content.
CanFillAny(m) == row[m] # None

\* The row takes content only while it is generating, and an overview only
\* while its captions are effective.
CanFill(m) == row[m] = "generating" /\ (kind[m] = "overview" => IsCurrent(m))

Fill(s) ==
    /\ row' = [row EXCEPT ![Of(s)] = "ready"]
    /\ content' = [content EXCEPT ![Of(s)] = Execution(s)]

\* Mutant: a quiz that another execution filled is a conflict too.
NoneFilled(m) == FALSE

\* completeAdaptiveQuizGeneration is content with a quiz that is filled
\* already; completeGeneration of the overview is not.
FilledBefore(m) == kind[m] = "quiz" /\ row[m] \in {"ready", "evaluated"}

Save(s) ==
    /\ Answered(s)
    /\ \/ CanFill(Of(s)) /\ Fill(s) /\ At(s, "succeeded")
       \/ ~CanFill(Of(s)) /\ FilledBefore(Of(s)) /\ At(s, "succeeded")
          /\ UNCHANGED <<row, content>>
       \/ ~CanFill(Of(s)) /\ ~FilledBefore(Of(s)) /\ At(s, "CHECKPOINT_CONFLICT")
          /\ UNCHANGED <<row, content>>
    /\ UNCHANGED <<jobVars, kind, artifact, graded, captionVars, untold>>

\* The statement fails, with or without having committed.
SaveFails(s) ==
    /\ Answered(s)
    /\ Jobs!Fault
    /\ \/ CanFill(Of(s)) /\ Fill(s)
       \/ UNCHANGED <<row, content>>
    /\ At(s, "error")
    /\ UNCHANGED <<jobState, lockOwner, attemptsMade, stalls, issued, claimToken, claimLive,
                   result, deadLetter, settled, pc, job, token, final, leaseLost, verdict,
                   kind, artifact, graded, captionVars, untold>>

\* The task returns or throws what its last step made of it.
TaskEnds(s) ==
    /\ step[s] \in Outcome
    /\ Jobs!TaskEnds(s)
    /\ verdict'[s] = Jobs!Thrown(s, step[s])
    /\ At(s, "idle")
    /\ UNCHANGED <<rowVars, captionVars, untold>>

\* Mutant: the executor's own errors are not caught.
RecordedOnly(s) == final[s] /\ pc[s] = "settling"

LastAttempt(s) == final[s]

\* The catch of handle has something to do before the error goes on: on a final
\* attempt any error of the executor fails the row, WorkJobBusyError and
\* WorkJobLeaseLostError included.
MustFailRow(s) ==
    /\ pc[s] \in {"settling", "reporting"} /\ step[s] # "handled"
    /\ verdict[s] # "succeeded"
    /\ LastAttempt(s)

CatchFinal(s) ==
    /\ MustFailRow(s)
    /\ FailRow(Of(s))
    /\ At(s, "handled")
    /\ UNCHANGED <<jobVars, kind, artifact, content, graded, captionVars, untold>>

\* The call fails: its error takes the place of the one that was caught.
CatchFails(s) ==
    /\ MustFailRow(s)
    /\ Jobs!Fault
    /\ \/ FailRow(Of(s))
       \/ UNCHANGED row
    /\ At(s, "handled")
    /\ Jobs!Goto(s, "reporting")
    /\ verdict' = [verdict EXCEPT ![s] = "error"]
    /\ untold' = untold \cup {job[s]}
    /\ UNCHANGED <<jobState, lockOwner, attemptsMade, stalls, issued, claimToken, claimLive,
                   result, deadLetter, settled, kind, artifact, content, graded, captionVars>>

\* The router settles and reports what leaves the handler.
Settle(s) ==
    /\ ~MustFailRow(s)
    /\ Jobs!Settle(s) \/ Jobs!SettleFails(s)
    /\ At(s, "handled")
    /\ UNCHANGED <<rowVars, captionVars, untold>>

Report(s) ==
    /\ ~MustFailRow(s)
    /\ Jobs!Report(s)
    /\ At(s, "idle")
    /\ UNCHANGED <<rowVars, captionVars, untold>>

Crash(s) ==
    /\ Jobs!Crash(s)
    /\ At(s, "idle")
    /\ UNCHANGED <<rowVars, captionVars, untold>>

\* Steps of the executor that the handler does not see.
Execute(s) ==
    /\ Jobs!Complete(s) \/ Jobs!Release(s)
    /\ UNCHANGED <<rowVars, captionVars, step, untold>>

ExecuteFails(s) ==
    /\ \/ Jobs!AcquireFails(s) \/ Jobs!CompleteFails(s) \/ Jobs!ReleaseFails(s)
       \/ Jobs!LoseLease(s)
    /\ UNCHANGED <<rowVars, captionVars, step, untold>>

-----------------------------------------------------------------------------
(***************************************************************************)
(* The queue and the relay.                                                *)
(***************************************************************************)

\* An event can become a job once its row is committed, a replay once the
\* event has a dead letter.
Requested(k) ==
    \/ k[2] = "request" /\ row[k[1]] # None /\ deadLetter[k] = None
    \/ k[2] = "replay" /\ deadLetter[<<k[1], "request">>] # None

Enqueue(k) ==
    /\ Requested(k)
    /\ Jobs!Enqueue(k)
    /\ UNCHANGED <<rowVars, captionVars, step, untold>>

\* The relay gives up an event it could not publish.  That the add may land all
\* the same, and letters about jobs that run, are left to WorkPipeline.
RelayGivesUp(k) ==
    /\ Requested(k) /\ jobState[k] = "absent"
    /\ Jobs!ForeignLetter(k)
    /\ untold' = untold \cup {k}
    /\ UNCHANGED <<rowVars, captionVars, step>>

Start(s, k) ==
    /\ Jobs!Start(s, k)
    /\ UNCHANGED <<rowVars, captionVars, step, untold>>

\* A job that stalled too often is given up by the queue alone.
Stalled(k) ==
    /\ Jobs!Stalled(k)
    /\ untold' = IF jobState'[k] = "failed" THEN untold \cup {k} ELSE untold
    /\ UNCHANGED <<rowVars, captionVars, step>>

Expire(k) ==
    /\ Jobs!Expire(k)
    /\ UNCHANGED <<rowVars, captionVars, step, untold>>

-----------------------------------------------------------------------------
SlotStep(s) ==
    \/ Acquire(s) \/ Load(s) \/ GenerateFails(s) \/ Refuse(s) \/ Save(s) \/ TaskEnds(s)
    \/ Execute(s) \/ CatchFinal(s) \/ Settle(s) \/ Report(s)

NewCaptions == PublishSource \/ PublishTranslation \/ FinalizeLive \/ AttachContext

MaterialNext ==
    \/ \E m \in Material : Request(m) \/ Look(m) \/ Submit(m)
    \/ \E k \in Job : Enqueue(k) \/ RelayGivesUp(k) \/ Stalled(k) \/ Expire(k)
    \/ \E s \in Slot, k \in Job : Start(s, k)
    \/ \E s \in Slot : SlotStep(s) \/ SaveFails(s) \/ CatchFails(s) \/ ExecuteFails(s) \/ Crash(s)

Next == NewCaptions \/ MaterialNext

Spec == Init /\ [][Next]_vars

-----------------------------------------------------------------------------
(***************************************************************************)
(* What the learner is promised.                                           *)
(***************************************************************************)

\* Work recorded as done has left its content, whatever executions ran side by
\* side, and a row that failed holds none.
SuccessHasContent ==
    \A m \in Material :
        /\ (\E k \in Job : k[1] = m /\ result[k] = "succeeded") => content[m] # None
        /\ row[m] \in {"generating", "failed"} => content[m] = None

\* A job of a quiz ends in a conflict only when the quiz cannot be had any
\* more: an execution that comes second is not one.  That of an overview can
\* be ready all the same, or its captions were not effective for a time.
ConflictIsReal ==
    \A k \in Job : result[k] \in {"NOT_GENERATABLE", "CHECKPOINT_CONFLICT"} =>
        \/ row[k[1]] \in {"failed", "stale"}
        \/ kind[k[1]] = "overview" /\ result[k] = "CHECKPOINT_CONFLICT"
           /\ (row[k[1]] = "ready" \/ k[1] \in moved)

\* Content comes once and for the captions of the row: what the learner has
\* seen is what the answers are graded against, even if a late execution or the
\* replay of the event generates something else.
ContentOnce ==
    [][\A m \in Material :
         /\ content[m] # None => content'[m] = content[m]
         /\ graded[m] # None => graded'[m] = graded[m]
         /\ content'[m] # content[m] /\ kind[m] = "overview" => IsCurrent(m)]_vars

\* When the job of a request is over, the learner is not left waiting for it,
\* unless it was the queue or the relay that ended it, the handler's last call
\* failed, or the captions of the overview were not effective for a time.
WaitIsAnswered ==
    \A m \in Material :
        row[m] = "generating" /\ jobState[<<m, "request">>] \in {"completed", "failed"} =>
            \/ \E k \in untold : k[1] = m
            \/ kind[m] = "overview" /\ m \in moved

-----------------------------------------------------------------------------
(***************************************************************************)
(* Why it does: the inductive invariant the proofs rest on.                *)
(***************************************************************************)

\* What a verdict on job k presupposes, whoever gives it and however late.
Earned(v, k) ==
    /\ v = "succeeded" => content[k[1]] # None
    /\ v = "INVALID_RESPONSE" => row[k[1]] \notin {None, "generating"}
    /\ v \in {"NOT_GENERATABLE", "CHECKPOINT_CONFLICT"} =>
          \/ row[k[1]] \in {"failed", "stale"}
          \/ kind[k[1]] = "overview" /\ v = "CHECKPOINT_CONFLICT"
             /\ (row[k[1]] = "ready" \/ k[1] \in moved)
    /\ v = ExhaustedCode => attemptsMade[k] + 1 >= MaxAttempts

\* The learner is not kept waiting, or knows why.
NotWaiting(m) == row[m] # "generating" \/ \E k \in untold : k[1] = m

\* A row has content when its state says so, is graded once, and its captions
\* have been effective all along unless it is marked.
RowInOrder(m) ==
    /\ row[m] \in {None, "generating", "failed"} => content[m] = None
    /\ row[m] \in {"ready", "evaluated"} => content[m] # None
    /\ graded[m] # None => row[m] \in {"evaluated", "stale"}
    /\ kind[m] = "overview" => row[m] \notin {"evaluated", "stale"}
    /\ row[m] # None /\ m \notin moved => IsCurrent(m)

\* The handler is where its slot is.
StepInPlace(s) ==
    /\ pc[s] = "idle" <=> job[s] = None
    /\ pc[s] = "idle" => verdict[s] = None /\ ~final[s] /\ step[s] = "idle"
    /\ step[s] \in {"load", "generate"} \cup Outcome => pc[s] = "running"
    /\ step[s] = "handled" => pc[s] \in {"settling", "reporting"}
    /\ pc[s] = "completing" => verdict[s] \in {"succeeded"} \cup Jobs!TerminalCode

\* It has earned what it says, knows a final attempt for one, and on a final
\* attempt is done only once the row is failed.
SlotEarned(s) ==
    pc[s] # "idle" =>
        /\ row[Of(s)] # None
        /\ Earned(verdict[s], job[s])
        /\ step[s] \in Outcome => Earned(step[s], job[s])
        /\ final[s] => attemptsMade[job[s]] + 1 >= MaxAttempts
        /\ lockOwner[job[s]] = s /\ ~final[s] => attemptsMade[job[s]] + 1 < MaxAttempts
        /\ step[s] = "handled" /\ final[s] => NotWaiting(Of(s))

\* The record of a job is earned, and a job that is over has been answered.
JobInOrder(k) ==
    /\ jobState[k] # "absent" \/ deadLetter[k] # None => row[k[1]] # None
    /\ Earned(result[k], k)
    /\ jobState[k] \in {"completed", "failed"} =>
          NotWaiting(k[1]) \/ (kind[k[1]] = "overview" /\ k[1] \in moved)

MaterialInv ==
    /\ \A m \in Material : RowInOrder(m)
    /\ \A s \in Slot : StepInPlace(s) /\ SlotEarned(s)
    /\ \A k \in Job : JobInOrder(k)
=============================================================================
