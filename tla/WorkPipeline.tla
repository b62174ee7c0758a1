--------------------------- MODULE WorkPipeline ---------------------------
(***************************************************************************)
(* The work pipeline end to end: the outbox and its relays (WorkOutbox) in *)
(* the API process feed the queue that the worker slots (DurableJob) take  *)
(* jobs from.  The two share the queue, whose job ids derive from the      *)
(* event ids, and the table of dead letters, which either side may write   *)
(* first.  An event type has one handler version, so an event is a job.    *)
(***************************************************************************)
EXTENDS Naturals, FiniteSets

CONSTANTS
    Event, Relay, Slot,
    MaxAttempts, BatchLimit, Lease, PublishTimeout, RetryDelay, MaxStalls,
    TaskFailure, ExhaustedCode, QueueUnavailable, None,
    MaxClaims,                     \* bound, see WorkOutbox
    MaxRelayFaults, MaxSlotFaults  \* bounds: MaxFaults of the two sides

ASSUME PipelineConstants ==
    /\ MaxAttempts \in Nat \ {0}
    /\ BatchLimit \in Nat \ {0}
    /\ Lease \in Nat \ {0}
    /\ PublishTimeout \in Nat \ {0} /\ PublishTimeout < Lease
    /\ RetryDelay \in Nat
    /\ MaxStalls \in Nat
    /\ MaxClaims \in Nat \ {0}
    /\ MaxRelayFaults \in Nat /\ MaxSlotFaults \in Nat
    /\ None \notin Event \cup Slot \cup TaskFailure \cup {ExhaustedCode, QueueUnavailable}
    /\ QueueUnavailable \notin TaskFailure \cup {ExhaustedCode}
    /\ {"succeeded", "error", "completed", "failed"} \cap
         (TaskFailure \cup {ExhaustedCode, QueueUnavailable, None}) = {}

VARIABLES
    phase, attemptCount, leaseToken, leaseLeft, availableIn, withdrawn,
    deadLetter, replayed, replayOf,
    relayPc, held, current, timer, outstanding,
    jobState, lockOwner, attemptsMade, stalls,
    issued, claimToken, claimLive,
    result, settled,
    slotPc, job, token, final, leaseLost, verdict,
    relayFaults, slotFaults

\* The outbox sees the queue as the set of jobs that exist in it.
Queue == {e \in Event : jobState[e] # "absent"}

Jobs == INSTANCE DurableJob WITH
    Job <- Event, ForeignCode <- {QueueUnavailable}, pc <- slotPc,
    MaxFaults <- MaxSlotFaults, faults <- slotFaults

Outbox == INSTANCE WorkOutbox WITH
    FailureCode <- Jobs!FailureCode, queue <- Queue, pc <- relayPc,
    MaxFaults <- MaxRelayFaults, faults <- relayFaults

\* What only one side changes.
outboxOnly == <<phase, attemptCount, leaseToken, leaseLeft, availableIn, withdrawn,
                replayed, replayOf, relayPc, held, current, timer, outstanding, relayFaults>>
jobsOnly == <<jobState, lockOwner, attemptsMade, stalls, issued, claimToken,
              claimLive, result, settled, slotPc, job, token, final, leaseLost, verdict,
              slotFaults>>
pipelineVars == <<outboxOnly, jobsOnly, deadLetter>>

TypeOK == Outbox!TypeOK /\ Jobs!TypeOK

Init == Jobs!Init /\ Outbox!Init

-----------------------------------------------------------------------------
\* Steps of the outbox that leave the queue alone.  The workers' letters, the
\* environment of WorkOutbox, come from the completions of JobStep; the foreign
\* letters of DurableJob come from the retries of the relays.
OutboxStep ==
    /\ UNCHANGED jobsOnly
    /\ \/ \E e \in Event : Outbox!Append(e) \/ Outbox!Withdraw(e)
       \/ \E e, f \in Event : Outbox!Replay(e, f)
       \/ \E r \in Relay : Outbox!RelayStep(r) \/ Outbox!RelayFault(r)
       \/ Outbox!Tick

\* An add reaches BullMQ: a new job, or nothing when the id exists.
Land(r, e) ==
    /\ IF jobState[e] = "absent" THEN Jobs!Enqueue(e)
                                 ELSE UNCHANGED <<jobsOnly, deadLetter>>
    /\ Outbox!Land(r, e)

\* Steps of the queue and of the worker.
JobStep ==
    /\ UNCHANGED outboxOnly
    /\ \/ \E e \in Event : Jobs!Stalled(e) \/ Jobs!Expire(e)
       \/ \E s \in Slot, e \in Event : Jobs!Start(s, e)
       \/ \E s \in Slot : Jobs!SlotStep(s) \/ Jobs!LoseLease(s) \/ Jobs!SlotFault(s)

Next ==
    \/ OutboxStep
    \/ \E r \in Relay, e \in Event : Land(r, e)
    \/ JobStep

Spec == Init /\ [][Next]_pipelineVars

\* The poll timer always schedules the next cycle and every call returns, so
\* each relay goes on; the queue answers; time passes.  Rows are claimed in
\* the order of available_at, so one that stays claimable gets its turn.  Every
\* task ends (tasks have timeouts of their own), a slot that is free takes a
\* waiting job, and the queue finds the jobs of dead slots.
Fairness ==
    /\ WF_pipelineVars(OutboxStep /\ Outbox!Tick)
    /\ \A r \in Relay : WF_pipelineVars(OutboxStep /\ Outbox!RelayStep(r))
    /\ \A r \in Relay, e \in Event :
          /\ WF_pipelineVars(Land(r, e))
          /\ SF_pipelineVars(OutboxStep /\ Outbox!ClaimOf(r, e))
    /\ \A s \in Slot : WF_pipelineVars(JobStep /\ Jobs!SlotStep(s))
    /\ \A e \in Event :
          /\ SF_pipelineVars(JobStep /\ \E s \in Slot : Jobs!Start(s, e))
          /\ WF_pipelineVars(JobStep /\ Jobs!Stalled(e) /\ UNCHANGED slotFaults)

FairSpec == Spec /\ Fairness

-----------------------------------------------------------------------------
(***************************************************************************)
(* What the pipeline promises.                                             *)
(***************************************************************************)

\* Whoever writes a dead letter first is right about it: the relay's says that
\* the row ran out of attempts, and then no worker records a terminal result
\* against it; a worker's repeats the result it recorded.
LettersExplained ==
    \A e \in Event :
        /\ deadLetter[e] = QueueUnavailable =>
              /\ phase[e] = "terminal" /\ attemptCount[e] >= MaxAttempts
              /\ result[e] \in {None, "succeeded"}
        /\ deadLetter[e] \notin {None, QueueUnavailable} => result[e] = deadLetter[e]

\* Work that succeeded is requested once more only after the relay gave up the
\* row without learning that its publish had worked: the operator has no other
\* letter to replay.
RepeatedOnlyIfUnheard ==
    \A e, f \in Event : replayOf[f] = e /\ result[e] = "succeeded" =>
        deadLetter[e] = QueueUnavailable /\ phase[e] = "terminal"

\* A dead letter, whoever wrote it, yields at most one replay, and is marked
\* exactly when it has (replayDeadLetter).
ReplayedOnce == Outbox!ReplayedOnce

\* Every event is carried through: it is withdrawn or dead-lettered, or its job
\* is completed or given up.
Finished(e) ==
    \/ phase[e] = "terminal"
    \/ phase[e] = "published" /\ jobState[e] \in {"completed", "failed"}
EveryEventFinishes == \A e \in Event : phase[e] = "pending" ~> Finished(e)

-----------------------------------------------------------------------------
(***************************************************************************)
(* Why it does: the inductive invariant the proofs rest on.                *)
(***************************************************************************)

\* Only work with a letter is replayed, and letters stay.
ReplaysHaveLetters ==
    \A e, f \in Event : replayOf[f] = e => deadLetter[e] # None

\* What a slot is about to record is a success or a terminal code.
VerdictsInOrder ==
    \A s \in Slot : slotPc[s] = "completing" =>
        verdict[s] \in {"succeeded"} \cup Jobs!TerminalCode

\* Claims and letters of the execution, and what the rows say of the letters.
LettersInv ==
    /\ Jobs!RecordedIsUnclaimed /\ Jobs!TerminalHasLetter /\ VerdictsInOrder
    /\ LettersExplained /\ ReplaysHaveLetters

-----------------------------------------------------------------------------
\* Each half behaves in the pipeline as its own module says it does with an
\* arbitrary environment, so that what is shown of the halves holds here.
OutboxPart == Outbox!Spec
JobsPart == Jobs!Spec
=============================================================================
