------------------------ MODULE WorkPipeline_proofs ------------------------
(***************************************************************************)
(* The two halves of the pipeline behave as their own modules say: every   *)
(* step of the pipeline is a step of the outbox in some environment, and a *)
(* step of the job execution in some environment.  What WorkOutbox_proofs  *)
(* and DurableJob_proofs show of any behaviour of the halves thereby holds *)
(* of the pipeline.  What only the two together promise, that the letters  *)
(* of one side and the results of the other agree, has its own invariant.  *)
(***************************************************************************)
EXTENDS WorkPipeline, TLAPS

USE DEF Jobs!TerminalCode, Jobs!FailureCode

\* What the two halves know of each other: the letters and the jobs are what
\* their types say, and a slot at work has a job that the relay enqueued.
Links ==
    /\ deadLetter \in [Event -> Jobs!FailureCode \cup {None}]
    /\ jobState \in [Event -> {"absent", "waiting", "active", "completed", "failed"}]
    /\ slotPc \in [Slot -> Jobs!SlotPc]
    /\ job \in [Slot -> Event \cup {None}]
    /\ \A s \in Slot : slotPc[s] # "idle" => job[s] \in Event /\ jobState[job[s]] # "absent"

-----------------------------------------------------------------------------
(***************************************************************************)
(* The side of the jobs.                                                   *)
(***************************************************************************)

\* The relay's retry is the foreign letter of the execution, or nothing to it.
LEMMA RetryIsForeign ==
    ASSUME NEW e, deadLetter \in [Event -> Jobs!FailureCode \cup {None}],
           UNCHANGED jobsOnly,
           Outbox!RetryRow(e)
    PROVE  Jobs!Next \/ UNCHANGED Jobs!jobVars
<1>1. CASE deadLetter' = deadLetter
  BY <1>1 DEF jobsOnly, Jobs!jobVars, Jobs!bullVars, Jobs!claimVars,
              Jobs!recordVars, Jobs!slotVars
<1>2. CASE deadLetter' # deadLetter
  <2>1. deadLetter' = [deadLetter EXCEPT ![e] = Outbox!FirstLetter(e)]
    BY <1>2 DEF Outbox!RetryRow
  <2>2. e \in Event /\ deadLetter[e] = None
    BY <1>2, <2>1 DEF Outbox!FirstLetter
  <2>3. deadLetter' = [deadLetter EXCEPT ![e] = QueueUnavailable]
    BY <2>1, <2>2 DEF Outbox!FirstLetter
  <2>4. Jobs!ForeignLetter(e)
    BY <2>2, <2>3 DEF jobsOnly, Jobs!ForeignLetter, Jobs!bullVars, Jobs!claimVars,
                      Jobs!slotVars
  <2> QED BY <2>2, <2>4 DEF Jobs!Next
<1> QED BY <1>1, <1>2

\* A step of the outbox that touches no letter is none of the execution.
LEMMA LettersUntouched ==
    ASSUME UNCHANGED jobsOnly, UNCHANGED deadLetter
    PROVE  UNCHANGED Jobs!jobVars
BY DEF jobsOnly, Jobs!jobVars, Jobs!bullVars, Jobs!claimVars, Jobs!recordVars, Jobs!slotVars

\* Every step of the pipeline is one of the execution, or a stutter.
LEMMA JobsStep ==
    ASSUME Links, [Next]_pipelineVars
    PROVE  Jobs!Next \/ UNCHANGED Jobs!jobVars
<1>1. CASE OutboxStep
  <2> USE <1>1
  <2>0. UNCHANGED jobsOnly /\ deadLetter \in [Event -> Jobs!FailureCode \cup {None}]
    BY DEF OutboxStep, Links
  <2>1. ASSUME NEW e \in Event, Outbox!Append(e) \/ Outbox!Withdraw(e)
        PROVE  UNCHANGED Jobs!jobVars
    BY <2>0, <2>1, LettersUntouched DEF Outbox!Append, Outbox!Withdraw, Outbox!letterVars
  <2>2. ASSUME NEW e \in Event, NEW f \in Event, Outbox!Replay(e, f)
        PROVE  UNCHANGED Jobs!jobVars
    BY <2>0, <2>2, LettersUntouched DEF Outbox!Replay
  <2>3. ASSUME NEW r \in Relay, Outbox!RelayStep(r)
        PROVE  Jobs!Next \/ UNCHANGED Jobs!jobVars
    <3>1. CASE Outbox!Retry(r)
      BY <2>0, <3>1, RetryIsForeign, LettersUntouched DEF Outbox!Retry, Outbox!letterVars
    <3>2. CASE ~Outbox!Retry(r)
      <4>1. UNCHANGED deadLetter
        BY <2>3, <3>2 DEF Outbox!RelayStep, Outbox!Claim, Outbox!StartPublish,
              Outbox!EndBatch, Outbox!PublishOk, Outbox!PublishTimedOut, Outbox!Ack,
              Outbox!AckRow, Outbox!letterVars
      <4> QED BY <4>1, <2>0, LettersUntouched
    <3> QED BY <3>1, <3>2
  <2>4. ASSUME NEW r \in Relay, Outbox!RelayFault(r)
        PROVE  Jobs!Next \/ UNCHANGED Jobs!jobVars
    <3>1. CASE Outbox!RetryFails(r)
      BY <2>0, <3>1, RetryIsForeign, LettersUntouched DEF Outbox!RetryFails, Outbox!letterVars
    <3>2. CASE ~Outbox!RetryFails(r)
      <4>1. UNCHANGED deadLetter
        BY <2>4, <3>2 DEF Outbox!RelayFault, Outbox!ClaimLost, Outbox!PublishError,
              Outbox!AckFails, Outbox!Crash, Outbox!AckRow, Outbox!letterVars
      <4> QED BY <4>1, <2>0, LettersUntouched
    <3> QED BY <3>1, <3>2
  <2>5. ASSUME Outbox!Tick PROVE UNCHANGED Jobs!jobVars
    BY <2>0, <2>5, LettersUntouched DEF Outbox!Tick, Outbox!letterVars
  <2> QED BY <2>1, <2>2, <2>3, <2>4, <2>5 DEF OutboxStep
<1>2. ASSUME NEW r \in Relay, NEW e \in Event, Land(r, e)
      PROVE  Jobs!Next \/ UNCHANGED Jobs!jobVars
  <2>1. CASE jobState[e] = "absent"
    BY <1>2, <2>1 DEF Land, Jobs!Next
  <2>2. CASE jobState[e] # "absent"
    BY <1>2, <2>2, LettersUntouched DEF Land
  <2> QED BY <2>1, <2>2
<1>3. CASE JobStep
  BY <1>3 DEF JobStep, Jobs!Next
<1>4. CASE UNCHANGED pipelineVars
  BY <1>4, LettersUntouched DEF pipelineVars
<1> QED BY <1>1, <1>2, <1>3, <1>4 DEF Next

-----------------------------------------------------------------------------
(***************************************************************************)
(* What links the halves is kept.                                          *)
(***************************************************************************)

\* A completion writes a letter that says what the slot recorded.
LEMMA LetterTyped ==
    ASSUME NEW k, NEW v, deadLetter \in [Event -> Jobs!FailureCode \cup {None}],
           Jobs!RecordResult(k, v)
    PROVE  deadLetter' \in [Event -> Jobs!FailureCode \cup {None}]
BY DEF Jobs!RecordResult

LEMMA LinksInit == ASSUME Init PROVE Links
BY DEF Init, Jobs!Init, Links, Jobs!SlotPc

\* The steps of a slot other than Start keep its job or drop it.
LEMMA LinksStep ==
    ASSUME Links, Jobs!Next \/ UNCHANGED Jobs!jobVars
    PROVE  Links'
<1> USE DEF Links
<1>1. ASSUME NEW k \in Event, Jobs!Enqueue(k) PROVE Links'
  BY <1>1 DEF Jobs!Enqueue, Jobs!recordVars, Jobs!slotVars
<1>2. ASSUME NEW k \in Event, Jobs!ForeignLetter(k) PROVE Links'
  BY <1>2 DEF Jobs!ForeignLetter, Jobs!bullVars, Jobs!slotVars
<1>3. ASSUME NEW k \in Event, Jobs!Stalled(k) PROVE Links'
  BY <1>3 DEF Jobs!Stalled, Jobs!recordVars, Jobs!slotVars
<1>4. ASSUME NEW k \in Event, Jobs!Expire(k) PROVE Links'
  BY <1>4 DEF Jobs!Expire, Jobs!bullVars, Jobs!recordVars, Jobs!slotVars
<1>5. ASSUME NEW s \in Slot, NEW k \in Event, Jobs!Start(s, k) PROVE Links'
  BY <1>5 DEF Jobs!Start, Jobs!recordVars, Jobs!SlotPc
<1>6. ASSUME NEW s \in Slot, Jobs!SlotStep(s) PROVE Links'
  <2>1. CASE Jobs!Acquire(s)
    BY <2>1 DEF Jobs!Acquire, Jobs!Goto, Jobs!bullVars, Jobs!recordVars, Jobs!SlotPc
  <2>2. CASE Jobs!TaskEnds(s)
    BY <2>2 DEF Jobs!TaskEnds, Jobs!Goto, Jobs!bullVars, Jobs!recordVars, Jobs!SlotPc
  <2>3. CASE Jobs!Complete(s)
    <3>1. deadLetter' \in [Event -> Jobs!FailureCode \cup {None}]
      BY <2>3, LetterTyped DEF Jobs!Complete, Jobs!recordVars
    <3> QED BY <2>3, <3>1 DEF Jobs!Complete, Jobs!Goto, Jobs!bullVars, Jobs!SlotPc
  <2>4. CASE Jobs!Release(s)
    BY <2>4 DEF Jobs!Release, Jobs!Goto, Jobs!bullVars, Jobs!recordVars, Jobs!SlotPc
  <2>5. CASE Jobs!Settle(s)
    BY <2>5 DEF Jobs!Settle, Jobs!Goto, Jobs!bullVars, Jobs!recordVars, Jobs!SlotPc
  <2>6. CASE Jobs!Report(s)
    <3>1. /\ deadLetter' = deadLetter
          /\ slotPc' = [slotPc EXCEPT ![s] = "idle"]
          /\ job' = [job EXCEPT ![s] = None]
      BY <2>6 DEF Jobs!Report, Jobs!Rest, Jobs!recordVars
    <3>2. \/ jobState' = jobState
          \/ /\ jobState[job[s]] = "active"
             /\ \E x \in {"waiting", "completed", "failed"} :
                   jobState' = [jobState EXCEPT ![job[s]] = x]
      BY <2>6 DEF Jobs!Report
    <3> QED BY <3>1, <3>2 DEF Jobs!SlotPc
  <2> QED BY <1>6, <2>1, <2>2, <2>3, <2>4, <2>5, <2>6 DEF Jobs!SlotStep
<1>7. ASSUME NEW s \in Slot, Jobs!LoseLease(s) PROVE Links'
  BY <1>7 DEF Jobs!LoseLease, Jobs!bullVars, Jobs!recordVars
<1>8. ASSUME NEW s \in Slot, Jobs!SlotFault(s) PROVE Links'
  <2>1. CASE Jobs!AcquireFails(s)
    BY <2>1 DEF Jobs!AcquireFails, Jobs!Goto, Jobs!bullVars, Jobs!recordVars, Jobs!SlotPc
  <2>2. CASE Jobs!CompleteFails(s)
    <3>1. deadLetter' \in [Event -> Jobs!FailureCode \cup {None}]
      BY <2>2, LetterTyped DEF Jobs!CompleteFails, Jobs!recordVars
    <3> QED BY <2>2, <3>1 DEF Jobs!CompleteFails, Jobs!Goto, Jobs!bullVars, Jobs!SlotPc
  <2>3. CASE Jobs!ReleaseFails(s)
    BY <2>3 DEF Jobs!ReleaseFails, Jobs!Goto, Jobs!bullVars, Jobs!recordVars, Jobs!SlotPc
  <2>4. CASE Jobs!SettleFails(s)
    BY <2>4 DEF Jobs!SettleFails, Jobs!Goto, Jobs!bullVars, Jobs!recordVars, Jobs!SlotPc
  <2>5. CASE Jobs!Crash(s)
    BY <2>5 DEF Jobs!Crash, Jobs!Rest, Jobs!bullVars, Jobs!recordVars, Jobs!SlotPc
  <2> QED BY <1>8, <2>1, <2>2, <2>3, <2>4, <2>5 DEF Jobs!SlotFault
<1>9. CASE UNCHANGED Jobs!jobVars
  BY <1>9 DEF Jobs!jobVars, Jobs!bullVars, Jobs!recordVars, Jobs!slotVars
<1> QED BY <1>1, <1>2, <1>3, <1>4, <1>5, <1>6, <1>7, <1>8, <1>9 DEF Jobs!Next

-----------------------------------------------------------------------------
(***************************************************************************)
(* The side of the outbox.                                                 *)
(***************************************************************************)

\* Once it exists a job stays in the queue, whatever the execution does.
LEMMA QueueKept == ASSUME Links, JobStep PROVE Queue' = Queue
<1>1. SUFFICES ASSUME NEW e \in Event PROVE (jobState'[e] = "absent") <=> (jobState[e] = "absent")
  BY DEF Queue
<1>2. ASSUME NEW k \in Event, Jobs!Stalled(k) \/ Jobs!Expire(k)
      PROVE  (jobState'[e] = "absent") <=> (jobState[e] = "absent")
  BY <1>2 DEF Links, Jobs!Stalled, Jobs!Expire, Jobs!bullVars
<1>3. ASSUME NEW s \in Slot, NEW k \in Event, Jobs!Start(s, k)
      PROVE  (jobState'[e] = "absent") <=> (jobState[e] = "absent")
  BY <1>3 DEF Links, Jobs!Start
<1>4. ASSUME NEW s \in Slot, Jobs!Report(s)
      PROVE  (jobState'[e] = "absent") <=> (jobState[e] = "absent")
  <2>1. \/ jobState' = jobState
        \/ /\ jobState[job[s]] = "active"
           /\ \E x \in {"waiting", "completed", "failed"} :
                 jobState' = [jobState EXCEPT ![job[s]] = x]
    BY <1>4 DEF Jobs!Report
  <2> QED BY <2>1 DEF Links
<1>5. ASSUME NEW s \in Slot, Jobs!SlotStep(s) \/ Jobs!LoseLease(s) \/ Jobs!SlotFault(s),
             ~Jobs!Report(s)
      PROVE  jobState' = jobState
  BY <1>5 DEF Jobs!SlotStep, Jobs!SlotFault, Jobs!LoseLease, Jobs!Acquire, Jobs!TaskEnds,
        Jobs!Complete, Jobs!Release, Jobs!Settle, Jobs!AcquireFails, Jobs!CompleteFails,
        Jobs!ReleaseFails, Jobs!SettleFails, Jobs!Crash, Jobs!bullVars
<1> QED BY <1>2, <1>3, <1>4, <1>5 DEF JobStep, Jobs!SlotStep

\* A step of the execution that touches no letter is none of the outbox.
LEMMA OutboxUntouched ==
    ASSUME UNCHANGED outboxOnly, UNCHANGED deadLetter, Queue' = Queue
    PROVE  UNCHANGED Outbox!outboxVars
BY DEF outboxOnly, Outbox!outboxVars, Outbox!rowVars, Outbox!letterVars, Outbox!relayVars

\* The letter of a completion is the worker's letter of the outbox.
LEMMA RecordIsLetter ==
    ASSUME Links, UNCHANGED outboxOnly, Queue' = Queue,
           NEW s \in Slot, slotPc[s] # "idle",
           NEW v, Jobs!LetterAgrees(job[s], v), Jobs!RecordResult(job[s], v)
    PROVE  Outbox!Next \/ UNCHANGED Outbox!outboxVars
<1>1. CASE deadLetter' = deadLetter
  BY <1>1, OutboxUntouched
<1>2. CASE deadLetter' # deadLetter
  <2>1. v \in TaskFailure \cup {ExhaustedCode} /\ deadLetter' = [deadLetter EXCEPT ![job[s]] = v]
    BY <1>2 DEF Jobs!RecordResult
  <2>2. job[s] \in Event /\ job[s] \in Queue
    BY DEF Links, Queue
  <2>3. deadLetter[job[s]] = None
    BY <1>2, <2>1, <2>2 DEF Links, Jobs!LetterAgrees
  <2>4. v \in Jobs!FailureCode \ {QueueUnavailable}
    BY <2>1, PipelineConstants
  <2>5. Outbox!WorkerLetter(job[s])
    BY <2>1, <2>2, <2>3, <2>4 DEF Outbox!WorkerLetter, outboxOnly, Outbox!rowVars,
          Outbox!relayVars
  <2> QED BY <2>2, <2>5 DEF Outbox!Next
<1> QED BY <1>1, <1>2

\* Every step of the pipeline is one of the outbox, or a stutter.
LEMMA OutboxStepOrStutter ==
    ASSUME Links, [Next]_pipelineVars
    PROVE  Outbox!Next \/ UNCHANGED Outbox!outboxVars
<1>1. CASE OutboxStep
  BY <1>1 DEF OutboxStep, Outbox!Next
<1>2. ASSUME NEW r \in Relay, NEW e \in Event, Land(r, e)
      PROVE  Outbox!Next
  BY <1>2 DEF Land, Outbox!Next
<1>3. CASE JobStep
  <2>1. UNCHANGED outboxOnly /\ Queue' = Queue
    BY <1>3, QueueKept DEF JobStep
  <2>2. ASSUME NEW s \in Slot, Jobs!Complete(s)
        PROVE  Outbox!Next \/ UNCHANGED Outbox!outboxVars
    BY <2>1, <2>2, RecordIsLetter, OutboxUntouched DEF Jobs!Complete, Jobs!recordVars
  <2>3. ASSUME NEW s \in Slot, Jobs!CompleteFails(s)
        PROVE  Outbox!Next \/ UNCHANGED Outbox!outboxVars
    BY <2>1, <2>3, RecordIsLetter, OutboxUntouched DEF Jobs!CompleteFails, Jobs!recordVars
  <2>4. ASSUME NEW k \in Event,
               Jobs!Stalled(k) \/ Jobs!Expire(k) \/ \E s \in Slot : Jobs!Start(s, k)
        PROVE  deadLetter' = deadLetter
    BY <2>4 DEF Jobs!Stalled, Jobs!Expire, Jobs!Start, Jobs!recordVars
  <2>5. ASSUME NEW s \in Slot, Jobs!SlotStep(s) \/ Jobs!LoseLease(s) \/ Jobs!SlotFault(s),
               ~Jobs!Complete(s), ~Jobs!CompleteFails(s)
        PROVE  deadLetter' = deadLetter
    BY <2>5 DEF Jobs!SlotStep, Jobs!SlotFault, Jobs!LoseLease, Jobs!Acquire, Jobs!TaskEnds,
          Jobs!Release, Jobs!Settle, Jobs!Report, Jobs!AcquireFails, Jobs!ReleaseFails,
          Jobs!SettleFails, Jobs!Crash, Jobs!recordVars
  <2> QED BY <1>3, <2>1, <2>2, <2>3, <2>4, <2>5, OutboxUntouched DEF JobStep
<1>4. CASE UNCHANGED pipelineVars
  <2>1. Queue' = Queue
    BY <1>4 DEF pipelineVars, jobsOnly, Queue
  <2> QED BY <1>4, <2>1, OutboxUntouched DEF pipelineVars
<1> QED BY <1>1, <1>2, <1>3, <1>4 DEF Next

-----------------------------------------------------------------------------
LEMMA LinksAlways == Spec => []Links
<1>1. Init => Links
  BY LinksInit
<1>2. Links /\ [Next]_pipelineVars => Links'
  BY JobsStep, LinksStep
<1> QED BY <1>1, <1>2, PTL DEF Spec

\* In the pipeline the worker behaves as DurableJob says, the relay being the
\* source of its jobs and of the letters it did not write.
THEOREM JobsInPipeline == Spec => JobsPart
<1>1. Init => Jobs!Init
  BY DEF Init
<1>2. Links /\ [Next]_pipelineVars => [Jobs!Next]_(Jobs!jobVars)
  BY JobsStep
<1> QED BY <1>1, <1>2, LinksAlways, PTL DEF Spec, JobsPart, Jobs!Spec

\* In the pipeline the outbox behaves as WorkOutbox says, the completions of the
\* worker being the source of the letters its relays did not write.
THEOREM OutboxInPipeline == Spec => OutboxPart
<1>1. Init => Outbox!Init
  BY DEF Init
<1>2. Links /\ [Next]_pipelineVars => [Outbox!Next]_(Outbox!outboxVars)
  BY OutboxStepOrStutter
<1> QED BY <1>1, <1>2, LinksAlways, PTL DEF Spec, OutboxPart, Outbox!Spec

-----------------------------------------------------------------------------
(***************************************************************************)
(* What neither half can say alone: the letters of one side against the    *)
(* results of the other.                                                   *)
(***************************************************************************)
RecordTypes ==
    /\ phase \in [Event -> {"absent", "pending", "published", "terminal"}]
    /\ attemptCount \in [Event -> Nat]
    /\ replayOf \in [Event -> Event \cup {None}]
    /\ issued \in [Event -> Nat]
    /\ claimToken \in [Event -> Nat]
    /\ claimLive \in [Event -> BOOLEAN]
    /\ result \in [Event -> {"succeeded", None} \cup Jobs!TerminalCode]
    /\ verdict \in [Slot -> Jobs!Verdict \cup {None}]

PipelineInv == Links /\ RecordTypes /\ LettersInv

\* What a step can do to the claims, results and letters on the side of the jobs.
Completion(s) ==
    /\ slotPc[s] = "completing" /\ Jobs!Owns(s)
    /\ Jobs!LetterAgrees(job[s], verdict[s])
    /\ Jobs!RecordResult(job[s], verdict[s])

ClaimEffect ==
    \/ \E k \in Event : Jobs!CanAcquire(k) /\ Jobs!InsertClaim(k)
    \/ \E s \in Slot : Jobs!DeleteClaim(job[s])
    \/ \E k \in Event : Jobs!Expire(k)
    \/ UNCHANGED Jobs!claimVars

JobEffect ==
    /\ UNCHANGED <<phase, attemptCount, replayOf>>
    /\ \/ \E s \in Slot : Completion(s)
       \/ UNCHANGED Jobs!recordVars /\ ClaimEffect

\* And on the side of the rows.
RowEffect ==
    /\ UNCHANGED <<result, Jobs!claimVars>>
    /\ \/ \E e \in Event : /\ phase[e] = "absent" \/ phase[e] = "pending"
                           /\ \E x \in {"pending", "terminal"} :
                                 phase' = [phase EXCEPT ![e] = x]
                           /\ UNCHANGED <<attemptCount, deadLetter, replayOf>>
       \/ \E e \in Event, f \in Event : Outbox!Replay(e, f)
       \/ \E S \in SUBSET Event : Outbox!ClaimRows(S) /\ UNCHANGED Outbox!letterVars
       \/ \E r \in Relay : /\ Outbox!Holds(r, current[r])
                           /\ Outbox!AckRow(current[r]) \/ Outbox!RetryRow(current[r])
       \/ UNCHANGED <<phase, attemptCount, Outbox!letterVars>>

LEMMA JobEffects ==
    ASSUME Links, JobStep
    PROVE  JobEffect
<1>0. UNCHANGED <<phase, attemptCount, replayOf>>
  BY DEF JobStep, outboxOnly
<1> USE <1>0 DEF JobEffect, ClaimEffect
<1>1. ASSUME NEW k \in Event, Jobs!Stalled(k) PROVE JobEffect
  BY <1>1 DEF Jobs!Stalled
<1>2. ASSUME NEW k \in Event, Jobs!Expire(k) PROVE JobEffect
  BY <1>2 DEF Jobs!Expire
<1>3. ASSUME NEW s \in Slot, NEW k \in Event, Jobs!Start(s, k) PROVE JobEffect
  BY <1>3 DEF Jobs!Start
<1>4. ASSUME NEW s \in Slot, Jobs!Acquire(s) \/ Jobs!AcquireFails(s) PROVE JobEffect
  <2>1. job[s] \in Event
    BY <1>4 DEF Links, Jobs!Acquire, Jobs!AcquireFails
  <2> QED BY <1>4, <2>1 DEF Jobs!Acquire, Jobs!AcquireFails
<1>5. ASSUME NEW s \in Slot, Jobs!Complete(s) \/ Jobs!CompleteFails(s) PROVE JobEffect
  BY <1>5 DEF Jobs!Complete, Jobs!CompleteFails, Completion
<1>6. ASSUME NEW s \in Slot, Jobs!Release(s) PROVE JobEffect
  BY <1>6 DEF Jobs!Release
<1>7. ASSUME NEW s \in Slot,
             \/ Jobs!LoseLease(s) \/ Jobs!TaskEnds(s) \/ Jobs!ReleaseFails(s)
             \/ Jobs!Settle(s) \/ Jobs!SettleFails(s) \/ Jobs!Report(s) \/ Jobs!Crash(s)
      PROVE JobEffect
  BY <1>7 DEF Jobs!LoseLease, Jobs!TaskEnds, Jobs!ReleaseFails, Jobs!Settle,
              Jobs!SettleFails, Jobs!Report, Jobs!Crash
<1> QED
  BY <1>1, <1>2, <1>3, <1>4, <1>5, <1>6, <1>7 DEF JobStep, Jobs!SlotStep, Jobs!SlotFault

LEMMA RowEffects ==
    ASSUME OutboxStep
    PROVE  RowEffect
<1>0. UNCHANGED <<result, Jobs!claimVars>>
  BY DEF OutboxStep, jobsOnly, Jobs!claimVars
<1> USE <1>0 DEF RowEffect
<1>1. ASSUME NEW e \in Event, Outbox!Append(e) \/ Outbox!Withdraw(e) PROVE RowEffect
  BY <1>1 DEF Outbox!Append, Outbox!Withdraw, Outbox!letterVars
<1>2. ASSUME NEW e \in Event, NEW f \in Event, Outbox!Replay(e, f) PROVE RowEffect
  BY <1>2
<1>3. ASSUME NEW r \in Relay, Outbox!Claim(r) \/ Outbox!ClaimLost(r) PROVE RowEffect
  BY <1>3 DEF Outbox!Claim, Outbox!ClaimLost
<1>4. ASSUME NEW r \in Relay,
             \/ Outbox!StartPublish(r) \/ Outbox!EndBatch(r) \/ Outbox!PublishOk(r)
             \/ Outbox!PublishError(r) \/ Outbox!PublishTimedOut(r) \/ Outbox!Crash(r)
      PROVE RowEffect
  BY <1>4 DEF Outbox!StartPublish, Outbox!EndBatch, Outbox!PublishOk, Outbox!PublishError,
              Outbox!PublishTimedOut, Outbox!Crash, Outbox!rowVars
<1>5. ASSUME NEW r \in Relay, Outbox!Ack(r) \/ Outbox!AckFails(r) PROVE RowEffect
  BY <1>5 DEF Outbox!Ack, Outbox!AckFails, Outbox!rowVars
<1>6. ASSUME NEW r \in Relay, Outbox!Retry(r) \/ Outbox!RetryFails(r) PROVE RowEffect
  BY <1>6 DEF Outbox!Retry, Outbox!RetryFails, Outbox!rowVars
<1>7. CASE Outbox!Tick
  BY <1>7 DEF Outbox!Tick
<1> QED
  BY <1>1, <1>2, <1>3, <1>4, <1>5, <1>6, <1>7 DEF OutboxStep, Outbox!RelayStep, Outbox!RelayFault

\* An add changes no record.
LEMMA LandEffect ==
    ASSUME NEW r \in Relay, NEW e \in Event, Land(r, e)
    PROVE  UNCHANGED <<phase, attemptCount, replayOf, deadLetter, result, Jobs!claimVars,
                       slotPc, verdict>>
<1>1. UNCHANGED <<result, Jobs!claimVars, slotPc, verdict>>
  BY DEF Land, Jobs!Enqueue, Jobs!recordVars, Jobs!slotVars, Jobs!claimVars, jobsOnly
<1>2. UNCHANGED <<phase, attemptCount, replayOf, deadLetter>>
  BY DEF Land, Outbox!Land, Outbox!rowVars, Outbox!letterVars
<1> QED BY <1>1, <1>2

-----------------------------------------------------------------------------
LEMMA JobRecordTypes ==
    ASSUME Links, RecordTypes, VerdictsInOrder, JobEffect
    PROVE  /\ issued' \in [Event -> Nat] /\ claimToken' \in [Event -> Nat]
           /\ claimLive' \in [Event -> BOOLEAN]
           /\ result' \in [Event -> {"succeeded", None} \cup Jobs!TerminalCode]
<1> USE DEF RecordTypes
<1>1. ASSUME NEW s \in Slot, Completion(s)
      PROVE  result' \in [Event -> {"succeeded", None} \cup Jobs!TerminalCode]
  BY <1>1 DEF Completion, Jobs!RecordResult, VerdictsInOrder
<1>2. ASSUME NEW k, Jobs!DeleteClaim(k)
      PROVE  /\ issued' \in [Event -> Nat] /\ claimToken' \in [Event -> Nat]
             /\ claimLive' \in [Event -> BOOLEAN]
  BY <1>2 DEF Jobs!DeleteClaim
<1>3. ASSUME NEW k \in Event, Jobs!InsertClaim(k)
      PROVE  /\ issued' \in [Event -> Nat] /\ claimToken' \in [Event -> Nat]
             /\ claimLive' \in [Event -> BOOLEAN]
  BY <1>3 DEF Jobs!InsertClaim, Jobs!NewToken
<1>4. ASSUME NEW k \in Event, Jobs!Expire(k)
      PROVE  /\ issued' \in [Event -> Nat] /\ claimToken' \in [Event -> Nat]
             /\ claimLive' \in [Event -> BOOLEAN]
  BY <1>4 DEF Jobs!Expire
<1>5. CASE UNCHANGED Jobs!recordVars /\ ClaimEffect
  BY <1>5, <1>2, <1>3, <1>4 DEF ClaimEffect, Jobs!recordVars, Jobs!claimVars
<1> QED BY <1>1, <1>2, <1>5 DEF JobEffect, Completion, Jobs!RecordResult

LEMMA VerdictTypes ==
    ASSUME Links, RecordTypes, [Next]_pipelineVars
    PROVE  verdict' \in [Slot -> Jobs!Verdict \cup {None}]
<1> USE DEF RecordTypes
<1>1. ASSUME NEW s \in Slot, Jobs!Acquire(s) \/ Jobs!AcquireFails(s)
      PROVE verdict' \in [Slot -> Jobs!Verdict \cup {None}]
  <2>1. job[s] \in Event
    BY <1>1 DEF Links, Jobs!Acquire, Jobs!AcquireFails
  <2> QED BY <1>1, <2>1 DEF Jobs!Acquire, Jobs!AcquireFails, Jobs!Verdict
<1>2. ASSUME NEW s \in Slot, Jobs!TaskEnds(s)
      PROVE verdict' \in [Slot -> Jobs!Verdict \cup {None}]
  BY <1>2 DEF Jobs!TaskEnds, Jobs!Thrown, Jobs!Exhausted, Jobs!Verdict
<1>3. ASSUME NEW s \in Slot, Jobs!Complete(s) \/ Jobs!CompleteFails(s) \/ Jobs!SettleFails(s)
      PROVE verdict' \in [Slot -> Jobs!Verdict \cup {None}]
  BY <1>3 DEF Jobs!Complete, Jobs!CompleteFails, Jobs!SettleFails, Jobs!Verdict
<1>4. ASSUME NEW s \in Slot, Jobs!Report(s) \/ Jobs!Crash(s)
      PROVE verdict' \in [Slot -> Jobs!Verdict \cup {None}]
  BY <1>4 DEF Jobs!Report, Jobs!Crash, Jobs!Rest
<1>5. ASSUME NEW s \in Slot,
             \/ Jobs!Release(s) \/ Jobs!ReleaseFails(s) \/ Jobs!Settle(s) \/ Jobs!LoseLease(s)
      PROVE verdict' = verdict
  BY <1>5 DEF Jobs!Release, Jobs!ReleaseFails, Jobs!Settle, Jobs!LoseLease
<1>6. ASSUME NEW k \in Event,
             Jobs!Stalled(k) \/ Jobs!Expire(k) \/ \E s \in Slot : Jobs!Start(s, k)
      PROVE verdict' = verdict
  BY <1>6 DEF Jobs!Stalled, Jobs!Expire, Jobs!Start, Jobs!slotVars
<1>7. CASE JobStep
  BY <1>7, <1>1, <1>2, <1>3, <1>4, <1>5, <1>6 DEF JobStep, Jobs!SlotStep, Jobs!SlotFault
<1>8. CASE OutboxStep
  BY <1>8 DEF OutboxStep, jobsOnly
<1>9. ASSUME NEW r \in Relay, NEW e \in Event, Land(r, e) PROVE verdict' = verdict
  BY <1>9, LandEffect
<1>10. CASE UNCHANGED pipelineVars
  BY <1>10 DEF pipelineVars, jobsOnly
<1> QED BY <1>7, <1>8, <1>9, <1>10 DEF Next

\* The rows keep their types; claims count up.
LEMMA RowRecordTypes ==
    ASSUME RecordTypes, RowEffect
    PROVE  /\ phase' \in [Event -> {"absent", "pending", "published", "terminal"}]
           /\ attemptCount' \in [Event -> Nat]
           /\ replayOf' \in [Event -> Event \cup {None}]
<1> USE DEF RecordTypes
<1>1. ASSUME NEW e \in Event, NEW f \in Event, Outbox!Replay(e, f)
      PROVE  /\ phase' \in [Event -> {"absent", "pending", "published", "terminal"}]
             /\ attemptCount' \in [Event -> Nat]
             /\ replayOf' \in [Event -> Event \cup {None}]
  BY <1>1 DEF Outbox!Replay
<1>2. ASSUME NEW S \in SUBSET Event, Outbox!ClaimRows(S), UNCHANGED Outbox!letterVars
      PROVE  /\ phase' \in [Event -> {"absent", "pending", "published", "terminal"}]
             /\ attemptCount' \in [Event -> Nat]
             /\ replayOf' \in [Event -> Event \cup {None}]
  BY <1>2 DEF Outbox!ClaimRows, Outbox!letterVars
<1>3. ASSUME NEW e, Outbox!AckRow(e) \/ Outbox!RetryRow(e)
      PROVE  /\ phase' \in [Event -> {"absent", "pending", "published", "terminal"}]
             /\ attemptCount' \in [Event -> Nat]
             /\ replayOf' \in [Event -> Event \cup {None}]
  BY <1>3 DEF Outbox!AckRow, Outbox!RetryRow, Outbox!letterVars
<1> QED BY <1>1, <1>2, <1>3 DEF RowEffect, Outbox!letterVars

LEMMA RecordTypesStep ==
    ASSUME Links, RecordTypes, VerdictsInOrder, [Next]_pipelineVars
    PROVE  RecordTypes'
<1>1. verdict' \in [Slot -> Jobs!Verdict \cup {None}]
  BY VerdictTypes
<1>2. CASE JobStep
  <2>1. JobEffect
    BY <1>2, JobEffects
  <2> QED BY <1>1, <2>1, JobRecordTypes DEF RecordTypes, JobEffect
<1>3. CASE OutboxStep
  <2>1. RowEffect
    BY <1>3, RowEffects
  <2> QED BY <1>1, <2>1, RowRecordTypes DEF RecordTypes, RowEffect, Jobs!claimVars
<1>4. ASSUME NEW r \in Relay, NEW e \in Event, Land(r, e) PROVE RecordTypes'
  BY <1>1, <1>4, LandEffect DEF RecordTypes, Jobs!claimVars
<1>5. CASE UNCHANGED pipelineVars
  BY <1>1, <1>5 DEF RecordTypes, pipelineVars, outboxOnly, jobsOnly
<1> QED BY <1>2, <1>3, <1>4, <1>5 DEF Next

-----------------------------------------------------------------------------
\* What a step makes of one event: it changes no record, a slot records the
\* success or, with its letter, the failure of unrecorded work, or a relay
\* closes the row with the first letter.
Records(e) ==
    \/ result'[e] = result[e] /\ deadLetter'[e] = deadLetter[e]
    \/ /\ result[e] = None /\ result'[e] = "succeeded"
       /\ deadLetter'[e] = deadLetter[e]
    \/ /\ result[e] = None /\ result'[e] \in Jobs!TerminalCode
       /\ deadLetter[e] \in {None, result'[e]} /\ deadLetter'[e] = result'[e]
    \/ /\ result'[e] = result[e]
       /\ deadLetter[e] = None /\ deadLetter'[e] = QueueUnavailable
       /\ phase'[e] = "terminal" /\ attemptCount'[e] >= MaxAttempts

LEMMA RecordSteps ==
    ASSUME PipelineInv, [Next]_pipelineVars, NEW e \in Event
    PROVE  Records(e)
<1> USE DEF PipelineInv, LettersInv, RecordTypes, Links, Records
<1>1. ASSUME NEW s \in Slot, Completion(s) PROVE Records(e)
  <2>1. job[s] \in Event /\ verdict[s] \in {"succeeded"} \cup Jobs!TerminalCode
    BY <1>1 DEF Completion, VerdictsInOrder
  <2>2. result[job[s]] = None
    BY <1>1, <2>1 DEF Completion, Jobs!Owns, Jobs!RecordedIsUnclaimed, Jobs!Recorded
  <2>3. /\ result' = [result EXCEPT ![job[s]] = verdict[s]]
        /\ deadLetter' = IF verdict[s] \in Jobs!TerminalCode
                         THEN [deadLetter EXCEPT ![job[s]] = verdict[s]] ELSE deadLetter
    BY <1>1 DEF Completion, Jobs!RecordResult
  <2>4. CASE e # job[s]
    BY <2>3, <2>4
  <2>5. CASE e = job[s] /\ verdict[s] = "succeeded"
    BY <2>2, <2>3, <2>5, PipelineConstants
  <2>6. CASE e = job[s] /\ verdict[s] \in Jobs!TerminalCode
    <3>1. deadLetter[e] \in {None, verdict[s]}
      BY <1>1, <2>6 DEF Completion, Jobs!LetterAgrees
    <3> QED BY <2>2, <2>3, <2>6, <3>1
  <2> QED BY <2>1, <2>4, <2>5, <2>6
<1>2. CASE JobStep
  <2>1. JobEffect
    BY <1>2, JobEffects
  <2> QED BY <1>1, <2>1 DEF JobEffect, Jobs!recordVars
<1>3. ASSUME NEW c, Outbox!RetryRow(c), UNCHANGED result PROVE Records(e)
  <2>1. CASE deadLetter'[e] = deadLetter[e]
    BY <1>3, <2>1
  <2>2. CASE deadLetter'[e] # deadLetter[e]
    <3>1. /\ attemptCount[c] >= MaxAttempts /\ attemptCount' = attemptCount
          /\ phase' = [phase EXCEPT ![c] = "terminal"]
          /\ deadLetter' = [deadLetter EXCEPT ![c] = Outbox!FirstLetter(c)]
      BY <1>3, <2>2 DEF Outbox!RetryRow, Outbox!Exhausted
    <3>2. c = e
      BY <2>2, <3>1
    <3> QED BY <1>3, <2>2, <3>1, <3>2 DEF Outbox!FirstLetter
  <2> QED BY <2>1, <2>2
<1>4. CASE OutboxStep
  <2>1. RowEffect
    BY <1>4, RowEffects
  <2> QED
    BY <1>3, <2>1 DEF RowEffect, Outbox!Replay, Outbox!AckRow, Outbox!letterVars
<1>5. ASSUME NEW r \in Relay, NEW f \in Event, Land(r, f) PROVE Records(e)
  BY <1>5, LandEffect
<1>6. CASE UNCHANGED pipelineVars
  BY <1>6 DEF pipelineVars, jobsOnly
<1> QED BY <1>2, <1>4, <1>5, <1>6 DEF Next

\* A closed row stays closed, and its attempts are not uncounted.
LEMMA RowSteps ==
    ASSUME PipelineInv, [Next]_pipelineVars, NEW e \in Event
    PROVE  /\ phase[e] = "terminal" => phase'[e] = "terminal"
           /\ attemptCount'[e] >= attemptCount[e]
<1> USE DEF PipelineInv, RecordTypes
<1>1. CASE JobStep
  BY <1>1 DEF JobStep, outboxOnly
<1>2. CASE OutboxStep
  <2>1. ASSUME NEW f \in Event, NEW g \in Event, Outbox!Replay(f, g)
        PROVE  /\ phase[e] = "terminal" => phase'[e] = "terminal"
               /\ attemptCount'[e] = attemptCount[e]
    BY <2>1 DEF Outbox!Replay
  <2>2. ASSUME NEW S \in SUBSET Event, Outbox!ClaimRows(S)
        PROVE  phase' = phase /\ attemptCount'[e] >= attemptCount[e]
    BY <2>2 DEF Outbox!ClaimRows
  <2>3. ASSUME NEW r \in Relay, Outbox!Holds(r, current[r]),
               Outbox!AckRow(current[r]) \/ Outbox!RetryRow(current[r])
        PROVE  /\ phase[e] = "terminal" => phase'[e] = "terminal"
               /\ attemptCount'[e] = attemptCount[e]
    BY <2>3 DEF Outbox!Holds, Outbox!AckRow, Outbox!RetryRow
  <2>4. RowEffect
    BY <1>2, RowEffects
  <2> QED BY <2>1, <2>2, <2>3, <2>4 DEF RowEffect
<1>3. ASSUME NEW r \in Relay, NEW f \in Event, Land(r, f)
      PROVE phase' = phase /\ attemptCount' = attemptCount
  BY <1>3, LandEffect
<1>4. CASE UNCHANGED pipelineVars
  BY <1>4 DEF pipelineVars, outboxOnly
<1> QED BY <1>1, <1>2, <1>3, <1>4 DEF Next

\* A claim is only given on unrecorded work, and goes with the record.
LEMMA UnclaimedStep ==
    ASSUME PipelineInv, [Next]_pipelineVars
    PROVE  Jobs!RecordedIsUnclaimed'
<1> USE DEF PipelineInv, LettersInv, RecordTypes, Jobs!RecordedIsUnclaimed, Jobs!Recorded
<1>1. ASSUME NEW k, Jobs!DeleteClaim(k), \A l \in Event \ {k} : result'[l] = result[l]
      PROVE  Jobs!RecordedIsUnclaimed'
  BY <1>1 DEF Jobs!DeleteClaim
<1>2. ASSUME NEW k \in Event, Jobs!CanAcquire(k), Jobs!InsertClaim(k), UNCHANGED result
      PROVE  Jobs!RecordedIsUnclaimed'
  BY <1>2 DEF Jobs!CanAcquire, Jobs!InsertClaim
<1>3. ASSUME NEW k \in Event, Jobs!Expire(k), UNCHANGED result PROVE Jobs!RecordedIsUnclaimed'
  BY <1>3 DEF Jobs!Expire
<1>4. CASE UNCHANGED <<result, Jobs!claimVars>>
  BY <1>4 DEF Jobs!claimVars
<1>5. CASE JobStep
  <2>1. JobEffect
    BY <1>5, JobEffects
  <2>2. ASSUME NEW s \in Slot, Completion(s) PROVE Jobs!RecordedIsUnclaimed'
    BY <1>1, <2>2 DEF Completion, Jobs!RecordResult
  <2>3. CASE UNCHANGED Jobs!recordVars /\ ClaimEffect
    BY <1>1, <1>2, <1>3, <1>4, <2>3 DEF ClaimEffect, Jobs!recordVars
  <2> QED BY <2>1, <2>2, <2>3 DEF JobEffect
<1>6. CASE OutboxStep
  BY <1>4, <1>6, RowEffects DEF RowEffect
<1>7. ASSUME NEW r \in Relay, NEW f \in Event, Land(r, f) PROVE Jobs!RecordedIsUnclaimed'
  BY <1>4, <1>7, LandEffect
<1>8. CASE UNCHANGED pipelineVars
  BY <1>4, <1>8 DEF pipelineVars, jobsOnly, Jobs!claimVars
<1> QED BY <1>5, <1>6, <1>7, <1>8 DEF Next

\* The task's outcome is only recorded when it is a success or a terminal code.
LEMMA VerdictsStep ==
    ASSUME PipelineInv, [Next]_pipelineVars
    PROVE  VerdictsInOrder'
<1> USE DEF PipelineInv, LettersInv, RecordTypes, Links, VerdictsInOrder
<1>1. ASSUME NEW s \in Slot, Jobs!TaskEnds(s) PROVE VerdictsInOrder'
  BY <1>1 DEF Jobs!TaskEnds, Jobs!Thrown, Jobs!Exhausted, Jobs!Goto
<1>2. ASSUME NEW s \in Slot, NEW l \in Jobs!SlotPc, l # "completing",
             slotPc' = [slotPc EXCEPT ![s] = l],
             \A t \in Slot \ {s} : verdict'[t] = verdict[t]
      PROVE  VerdictsInOrder'
  BY <1>2
<1>3. ASSUME NEW s \in Slot,
             \/ Jobs!Acquire(s) \/ Jobs!AcquireFails(s) \/ Jobs!Complete(s)
             \/ Jobs!CompleteFails(s) \/ Jobs!Release(s) \/ Jobs!ReleaseFails(s)
             \/ Jobs!Settle(s) \/ Jobs!SettleFails(s)
      PROVE  VerdictsInOrder'
  <2>1. /\ \E l \in Jobs!SlotPc \ {"completing"} : slotPc' = [slotPc EXCEPT ![s] = l]
        /\ \A t \in Slot \ {s} : verdict'[t] = verdict[t]
    BY <1>3 DEF Jobs!Acquire, Jobs!AcquireFails, Jobs!Complete, Jobs!CompleteFails,
          Jobs!Release, Jobs!ReleaseFails, Jobs!Settle, Jobs!SettleFails, Jobs!Goto, Jobs!SlotPc
  <2> QED BY <1>2, <2>1
<1>4. ASSUME NEW s \in Slot, Jobs!Report(s) \/ Jobs!Crash(s) PROVE VerdictsInOrder'
  <2>1. Jobs!Rest(s)
    BY <1>4 DEF Jobs!Report, Jobs!Crash
  <2> QED BY <1>2, <2>1 DEF Jobs!Rest, Jobs!SlotPc
<1>5. ASSUME NEW s \in Slot, NEW k \in Event, Jobs!Start(s, k) PROVE VerdictsInOrder'
  BY <1>2, <1>5 DEF Jobs!Start, Jobs!SlotPc
<1>6. CASE UNCHANGED <<slotPc, verdict>>
  BY <1>6
<1>7. ASSUME NEW s \in Slot, Jobs!LoseLease(s) PROVE UNCHANGED <<slotPc, verdict>>
  BY <1>7 DEF Jobs!LoseLease
<1>8. ASSUME NEW k \in Event, Jobs!Stalled(k) \/ Jobs!Expire(k) PROVE UNCHANGED <<slotPc, verdict>>
  BY <1>8 DEF Jobs!Stalled, Jobs!Expire, Jobs!slotVars
<1>9. CASE JobStep
  BY <1>1, <1>3, <1>4, <1>5, <1>6, <1>7, <1>8, <1>9 DEF JobStep, Jobs!SlotStep, Jobs!SlotFault
<1>10. CASE OutboxStep
  BY <1>6, <1>10 DEF OutboxStep, jobsOnly
<1>11. ASSUME NEW r \in Relay, NEW f \in Event, Land(r, f) PROVE VerdictsInOrder'
  BY <1>6, <1>11, LandEffect
<1>12. CASE UNCHANGED pipelineVars
  BY <1>6, <1>12 DEF pipelineVars, jobsOnly
<1> QED BY <1>9, <1>10, <1>11, <1>12 DEF Next

\* A replay needs a letter, and a letter stays.
LEMMA ReplaysStep ==
    ASSUME PipelineInv, [Next]_pipelineVars
    PROVE  ReplaysHaveLetters'
<1> USE DEF PipelineInv, LettersInv, RecordTypes, ReplaysHaveLetters
<1>1. None \notin Event /\ QueueUnavailable # None /\ None \notin Jobs!TerminalCode
  BY PipelineConstants
<1>2. \A e \in Event : deadLetter[e] # None => deadLetter'[e] # None
  BY <1>1, RecordSteps DEF Records
<1>3. \A e \in Event, f \in Event : replayOf'[f] = e =>
          replayOf[f] = e \/ Outbox!Replay(e, f)
  <2>1. CASE JobStep
    BY <2>1 DEF JobStep, outboxOnly
  <2>2. CASE OutboxStep
    <3>1. RowEffect
      BY <2>2, RowEffects
    <3> QED
      BY <3>1 DEF RowEffect, Outbox!Replay, Outbox!AckRow, Outbox!RetryRow, Outbox!letterVars
  <2>3. ASSUME NEW r \in Relay, NEW f \in Event, Land(r, f) PROVE replayOf' = replayOf
    BY <2>3, LandEffect
  <2>4. CASE UNCHANGED pipelineVars
    BY <2>4 DEF pipelineVars, outboxOnly
  <2> QED BY <2>1, <2>2, <2>3, <2>4 DEF Next
<1> QED BY <1>2, <1>3 DEF Outbox!Replay, Outbox!Replayable

LEMMA LettersStep ==
    ASSUME PipelineInv, [Next]_pipelineVars
    PROVE  LettersExplained' /\ Jobs!TerminalHasLetter'
<1> SUFFICES ASSUME NEW e \in Event
    PROVE  /\ deadLetter'[e] = QueueUnavailable =>
                 /\ phase'[e] = "terminal" /\ attemptCount'[e] >= MaxAttempts
                 /\ result'[e] \in {None, "succeeded"}
           /\ deadLetter'[e] \notin {None, QueueUnavailable} => result'[e] = deadLetter'[e]
           /\ result'[e] \in Jobs!TerminalCode => deadLetter'[e] = result'[e]
  BY DEF LettersExplained, Jobs!TerminalHasLetter
<1>1. /\ deadLetter[e] = QueueUnavailable =>
            /\ phase[e] = "terminal" /\ attemptCount[e] >= MaxAttempts
            /\ result[e] \in {None, "succeeded"}
      /\ deadLetter[e] \notin {None, QueueUnavailable} => result[e] = deadLetter[e]
      /\ result[e] \in Jobs!TerminalCode => deadLetter[e] = result[e]
      /\ result[e] \in {"succeeded", None} \cup Jobs!TerminalCode
  BY DEF PipelineInv, LettersInv, RecordTypes, LettersExplained, Jobs!TerminalHasLetter
<1>2. /\ QueueUnavailable # None /\ {None, QueueUnavailable, "succeeded"} \cap Jobs!TerminalCode = {}
  BY PipelineConstants
<1>3. /\ phase[e] = "terminal" => phase'[e] = "terminal"
      /\ attemptCount[e] >= MaxAttempts => attemptCount'[e] >= MaxAttempts
  <2>1. attemptCount[e] \in Nat /\ attemptCount'[e] \in Nat /\ MaxAttempts \in Nat
    BY RecordTypesStep, PipelineConstants DEF PipelineInv, LettersInv, RecordTypes
  <2> QED BY <2>1, RowSteps
<1>4. Records(e)
  BY RecordSteps
<1> QED BY <1>1, <1>2, <1>3, <1>4 DEF Records

\* The claims, results and letters of both sides are in order together.
THEOREM PipelineCorrect == Spec => []PipelineInv
<1>1. Init => PipelineInv
  <2> SUFFICES ASSUME Init PROVE PipelineInv
    OBVIOUS
  <2>1. Links
    BY LinksInit
  <2>2. RecordTypes
    BY DEF Init, Jobs!Init, Outbox!Init, RecordTypes
  <2>3. LettersInv
    BY PipelineConstants DEF Init, Jobs!Init, Outbox!Init, LettersInv, VerdictsInOrder,
          LettersExplained, ReplaysHaveLetters, Jobs!RecordedIsUnclaimed, Jobs!Recorded,
          Jobs!TerminalHasLetter
  <2> QED BY <2>1, <2>2, <2>3 DEF PipelineInv
<1>2. PipelineInv /\ [Next]_pipelineVars => PipelineInv'
  <2> SUFFICES ASSUME PipelineInv, [Next]_pipelineVars PROVE PipelineInv'
    OBVIOUS
  <2>1. Links'
    BY JobsStep, LinksStep DEF PipelineInv
  <2>2. RecordTypes'
    BY RecordTypesStep DEF PipelineInv, LettersInv
  <2>3. LettersInv'
    BY UnclaimedStep, VerdictsStep, ReplaysStep, LettersStep DEF LettersInv
  <2> QED BY <2>1, <2>2, <2>3 DEF PipelineInv
<1> QED BY <1>1, <1>2, PTL DEF Spec

\* Whichever side writes a letter first, it is right about the work: the relay
\* gave up a row that ran out of attempts and no worker has recorded a failure
\* of it, or a worker repeats the result it recorded
\* (retryOutboxEvent and complete of postgres-work.repository.ts).
THEOREM LettersAreExplained == Spec => []LettersExplained
<1>1. PipelineInv => LettersExplained
  BY DEF PipelineInv, LettersInv
<1> QED BY <1>1, PipelineCorrect, PTL

\* Work that succeeded is replayed only from a letter of the relay, on a row
\* that it closed without hearing of its publish (replayDeadLetter).
THEOREM RepeatedWorkWasUnheard == Spec => []RepeatedOnlyIfUnheard
<1>1. PipelineInv => RepeatedOnlyIfUnheard
  <2> SUFFICES ASSUME PipelineInv, NEW e \in Event, NEW f \in Event,
                      replayOf[f] = e, result[e] = "succeeded"
               PROVE  deadLetter[e] = QueueUnavailable /\ phase[e] = "terminal"
    BY DEF RepeatedOnlyIfUnheard
  <2>1. deadLetter[e] \in Jobs!FailureCode /\ "succeeded" \notin Jobs!FailureCode
    BY PipelineConstants DEF PipelineInv, Links, LettersInv, ReplaysHaveLetters
  <2>2. deadLetter[e] # None /\ deadLetter[e] # result[e]
    BY <2>1 DEF PipelineInv, LettersInv, ReplaysHaveLetters
  <2> QED BY <2>2 DEF PipelineInv, LettersInv, LettersExplained
<1> QED BY <1>1, PipelineCorrect, PTL

-----------------------------------------------------------------------------
(***************************************************************************)
(* Replays.                                                                *)
(***************************************************************************)

\* A row that was never appended replays nothing.
AbsentReplaysNothing == \A f \in Event : phase[f] = "absent" => replayOf[f] = None

\* What a step does to letters and their replays.
LEMMA ReplayEffects ==
    ASSUME RecordTypes, [Next]_pipelineVars
    PROVE  \/ \E e, f \in Event : Outbox!Replay(e, f)
           \/ /\ UNCHANGED <<replayed, replayOf>>
              /\ \A f \in Event : phase'[f] = "absent" => phase[f] = "absent"
<1> USE DEF RecordTypes, Outbox!letterVars
<1>1. CASE JobStep
  BY <1>1 DEF JobStep, outboxOnly
<1>2. ASSUME NEW r \in Relay, NEW e \in Event, Land(r, e)
      PROVE  UNCHANGED <<replayed, replayOf, phase>>
  BY <1>2 DEF Land, Outbox!Land, Outbox!rowVars
<1>3. CASE OutboxStep
  <2>1. ASSUME NEW e \in Event, Outbox!Append(e) \/ Outbox!Withdraw(e)
        PROVE  /\ UNCHANGED <<replayed, replayOf>>
               /\ \A f \in Event : phase'[f] = "absent" => phase[f] = "absent"
    BY <2>1 DEF Outbox!Append, Outbox!Withdraw
  <2>2. ASSUME NEW r \in Relay, Outbox!RelayStep(r) \/ Outbox!RelayFault(r)
        PROVE  /\ UNCHANGED <<replayed, replayOf>>
               /\ \A f \in Event : phase'[f] = "absent" => phase[f] = "absent"
    <3>1. ASSUME Outbox!Claim(r) \/ Outbox!ClaimLost(r) PROVE UNCHANGED <<replayed, replayOf, phase>>
      BY <3>1 DEF Outbox!Claim, Outbox!ClaimLost, Outbox!ClaimRows
    <3>2. ASSUME \/ Outbox!StartPublish(r) \/ Outbox!EndBatch(r) \/ Outbox!PublishOk(r)
                 \/ Outbox!PublishError(r) \/ Outbox!PublishTimedOut(r) \/ Outbox!Crash(r)
          PROVE  UNCHANGED <<replayed, replayOf, phase>>
      BY <3>2 DEF Outbox!StartPublish, Outbox!EndBatch, Outbox!PublishOk, Outbox!PublishError,
                  Outbox!PublishTimedOut, Outbox!Crash, Outbox!rowVars
    <3>3. ASSUME Outbox!Ack(r) \/ Outbox!AckFails(r)
          PROVE  /\ UNCHANGED <<replayed, replayOf>>
                 /\ \A f \in Event : phase'[f] = "absent" => phase[f] = "absent"
      BY <3>3 DEF Outbox!Ack, Outbox!AckFails, Outbox!AckRow, Outbox!rowVars
    <3>4. ASSUME Outbox!Retry(r) \/ Outbox!RetryFails(r)
          PROVE  /\ UNCHANGED <<replayed, replayOf>>
                 /\ \A f \in Event : phase'[f] = "absent" => phase[f] = "absent"
      BY <3>4 DEF Outbox!Retry, Outbox!RetryFails, Outbox!RetryRow, Outbox!rowVars
    <3> QED BY <2>2, <3>1, <3>2, <3>3, <3>4 DEF Outbox!RelayStep, Outbox!RelayFault
  <2>3. CASE Outbox!Tick
    BY <2>3 DEF Outbox!Tick
  <2> QED BY <1>3, <2>1, <2>2, <2>3 DEF OutboxStep
<1>4. CASE UNCHANGED pipelineVars
  BY <1>4 DEF pipelineVars, outboxOnly
<1> QED BY <1>1, <1>2, <1>3, <1>4 DEF Next

\* The letter of e is replayed by f while it has no replay, and f replays no other.
LEMMA ReplayAdds ==
    ASSUME RecordTypes, AbsentReplaysNothing, ReplayedOnce,
           NEW e \in Event, NEW f \in Event, Outbox!Replay(e, f)
    PROVE  AbsentReplaysNothing' /\ ReplayedOnce'
<1>1. /\ replayed' = replayed \cup {e} /\ e \notin replayed
      /\ phase' = [phase EXCEPT ![f] = "pending"] /\ replayOf' = [replayOf EXCEPT ![f] = e]
      /\ replayOf[f] = None
  BY DEF Outbox!Replay, Outbox!MarkReplayed, Outbox!Replayable, AbsentReplaysNothing
<1>2. AbsentReplaysNothing'
  BY <1>1 DEF AbsentReplaysNothing, RecordTypes
<1>3. \A g \in Event : replayOf'[g] = IF g = f THEN e ELSE replayOf[g]
  BY <1>1 DEF RecordTypes
<1>4. e # None /\ \A g \in Event : replayOf[g] # e
  BY <1>1, PipelineConstants DEF ReplayedOnce, Outbox!ReplayedOnce
<1>5. ASSUME NEW d \in Event PROVE d \in replayed' <=> \E g \in Event : replayOf'[g] = d
  <2>1. CASE d = e
    BY <1>1, <1>3, <2>1
  <2>2. CASE d # e
    <3>1. d # None
      BY PipelineConstants
    <3>2. (\E g \in Event : replayOf'[g] = d) <=> \E g \in Event : replayOf[g] = d
      BY <1>1, <1>3, <2>2, <3>1
    <3> QED BY <1>1, <2>2, <3>2 DEF ReplayedOnce, Outbox!ReplayedOnce
  <2> QED BY <2>1, <2>2
<1>6. \A g, h \in Event : replayOf'[g] = replayOf'[h] /\ replayOf'[g] # None => g = h
  BY <1>3, <1>4 DEF ReplayedOnce, Outbox!ReplayedOnce
<1> QED BY <1>2, <1>5, <1>6 DEF ReplayedOnce, Outbox!ReplayedOnce

\* A dead letter, whoever wrote it and however often it is asked for, yields at
\* most one replay, and is marked exactly when it has (replayDeadLetter).
THEOREM LettersYieldOneReplay == Spec => []ReplayedOnce
<1> DEFINE Once == AbsentReplaysNothing /\ ReplayedOnce
<1>1. Init => Once
  <2> SUFFICES ASSUME Init PROVE Once
    OBVIOUS
  <2>1. replayOf = [e \in Event |-> None] /\ replayed = {}
    BY DEF Init, Outbox!Init
  <2> QED BY <2>1, PipelineConstants DEF AbsentReplaysNothing, ReplayedOnce, Outbox!ReplayedOnce
<1>2. PipelineInv /\ Once /\ [Next]_pipelineVars => Once'
  <2> SUFFICES ASSUME PipelineInv, Once, [Next]_pipelineVars PROVE Once'
    OBVIOUS
  <2>1. RecordTypes
    BY DEF PipelineInv, LettersInv
  <2>2. CASE \E e, f \in Event : Outbox!Replay(e, f)
    BY <2>1, <2>2, ReplayAdds
  <2>3. CASE /\ UNCHANGED <<replayed, replayOf>>
             /\ \A f \in Event : phase'[f] = "absent" => phase[f] = "absent"
    BY <2>3 DEF AbsentReplaysNothing, ReplayedOnce, Outbox!ReplayedOnce
  <2> QED BY <2>1, <2>2, <2>3, ReplayEffects
<1>3. Once => ReplayedOnce
  OBVIOUS
<1> HIDE DEF Once
<1>4. Spec => []Once
  BY <1>1, <1>2, PipelineCorrect, PTL DEF Spec
<1> QED BY <1>3, <1>4, PTL
=============================================================================
