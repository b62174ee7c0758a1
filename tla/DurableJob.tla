---------------------------- MODULE DurableJob ----------------------------
(***************************************************************************)
(* The execution of queued work: BullMQ hands a job to a worker slot       *)
(* (bullmq-video-asset.worker.ts), the DurableJobExecutor runs its task    *)
(* under a claim it renews by a heartbeat and records the result           *)
(* (durable-job.executor.ts, postgres-work.repository.ts), and the router  *)
(* reports the result to the learning run (durable-work.router.ts).        *)
(*                                                                         *)
(* A job is one pair of event and handler version.  The expiry of a claim  *)
(* is a step that may come at any time: a heartbeat can be as late as the  *)
(* process is slow.  The tokens of claims are random UUIDs; they are       *)
(* numbered here in the order they are drawn.                              *)
(***************************************************************************)
EXTENDS Naturals

CONSTANTS
    Job,            \* the keys (event, handler version)
    Slot,           \* the concurrent executions of the worker processes
    MaxAttempts,    \* attempts of a BullMQ job, the event's max_attempts
    MaxStalls,      \* maxStalledCount of the BullMQ worker
    TaskFailure,    \* codes of the WorkJobTerminalErrors a task throws
    ExhaustedCode,  \* the code of a final attempt that failed otherwise
    ForeignCode,    \* codes of dead letters the executor did not write
    None,           \* SQL NULL, no job, no error
    MaxFaults       \* bound: crashes and failed calls that are explored

TerminalCode == TaskFailure \cup {ExhaustedCode}
FailureCode == TerminalCode \cup ForeignCode

ASSUME JobConstants ==
    /\ MaxAttempts \in Nat \ {0}
    /\ MaxStalls \in Nat
    /\ MaxFaults \in Nat
    /\ None \notin Job \cup Slot \cup FailureCode
    /\ {"succeeded", "error", "completed", "failed"} \cap (FailureCode \cup {None}) = {}
    /\ ForeignCode \cap TerminalCode = {}

VARIABLES
    jobState,     \* BullMQ: absent, waiting, active, completed or failed
    lockOwner,    \* BullMQ: the slot an active job is locked by
    attemptsMade, \* BullMQ: attempts of the job that ended in an error
    stalls,       \* BullMQ: times the job was found stalled
    issued,       \* claim tokens drawn so far for the job
    claimToken,   \* lease_token in work_job_claims, 0 without a row
    claimLive,    \* lease_expires_at is still in the future
    result,       \* work_job_results: succeeded, a terminal code, or None
    deadLetter,   \* failure code in work_dead_letters, or None
    settled,      \* outcome last reported to the learning run, or None
    pc,           \* where each slot is in the handling of its job
    job,          \* the job of the slot
    token,        \* the claim token it was given
    final,        \* isFinalAttempt of its attempt context
    leaseLost,    \* its heartbeat has lost the claim
    verdict,      \* what the slot is about to record or to report
    faults        \* faults so far

bullVars == <<jobState, lockOwner, attemptsMade, stalls>>
claimVars == <<issued, claimToken, claimLive>>
recordVars == <<result, deadLetter>>
slotVars == <<pc, job, token, final, leaseLost, verdict>>
jobVars == <<bullVars, claimVars, recordVars, settled, slotVars, faults>>

-----------------------------------------------------------------------------
SlotPc == {"idle", "acquiring", "running", "completing", "releasing",
           "settling", "reporting"}

\* What an attempt ends in: a result, a terminal error with its code, or any
\* other error, which BullMQ retries.
Verdict == {"succeeded", "error"} \cup TerminalCode

TypeOK ==
    /\ jobState \in [Job -> {"absent", "waiting", "active", "completed", "failed"}]
    /\ lockOwner \in [Job -> Slot \cup {None}]
    /\ attemptsMade \in [Job -> 0..MaxAttempts]
    /\ stalls \in [Job -> 0..MaxStalls]
    /\ issued \in [Job -> Nat]
    /\ claimToken \in [Job -> Nat]
    /\ claimLive \in [Job -> BOOLEAN]
    /\ result \in [Job -> {"succeeded", None} \cup TerminalCode]
    /\ deadLetter \in [Job -> FailureCode \cup {None}]
    /\ settled \in [Job -> {"completed", "failed", None}]
    /\ pc \in [Slot -> SlotPc]
    /\ job \in [Slot -> Job \cup {None}]
    /\ token \in [Slot -> Nat]
    /\ final \in [Slot -> BOOLEAN]
    /\ leaseLost \in [Slot -> BOOLEAN]
    /\ verdict \in [Slot -> Verdict \cup {None}]
    /\ faults \in 0..MaxFaults

Init ==
    /\ jobState = [k \in Job |-> "absent"]
    /\ lockOwner = [k \in Job |-> None]
    /\ attemptsMade = [k \in Job |-> 0]
    /\ stalls = [k \in Job |-> 0]
    /\ issued = [k \in Job |-> 0]
    /\ claimToken = [k \in Job |-> 0]
    /\ claimLive = [k \in Job |-> FALSE]
    /\ result = [k \in Job |-> None]
    /\ deadLetter = [k \in Job |-> None]
    /\ settled = [k \in Job |-> None]
    /\ pc = [s \in Slot |-> "idle"]
    /\ job = [s \in Slot |-> None]
    /\ token = [s \in Slot |-> 0]
    /\ final = [s \in Slot |-> FALSE]
    /\ leaseLost = [s \in Slot |-> FALSE]
    /\ verdict = [s \in Slot |-> None]
    /\ faults = 0

-----------------------------------------------------------------------------
Fault ==
    /\ faults < MaxFaults
    /\ faults' = faults + 1

\* The WHERE clauses of complete and renew: the claim still carries the token
\* of s and has not expired.  release only asks for the token.
HasToken(s) == token[s] # 0 /\ claimToken[job[s]] = token[s]
Owns(s) == HasToken(s) /\ claimLive[job[s]]

\* Slots that are still executing job k, whether or not they know better.
Working(k) == {s \in Slot : job[s] = k}

Goto(s, l) ==
    /\ pc' = [pc EXCEPT ![s] = l]
    /\ UNCHANGED <<job, token, final, leaseLost>>

\* s is done with its job, or its process is gone.
Rest(s) ==
    /\ pc' = [pc EXCEPT ![s] = "idle"]
    /\ job' = [job EXCEPT ![s] = None]
    /\ token' = [token EXCEPT ![s] = 0]
    /\ final' = [final EXCEPT ![s] = FALSE]
    /\ leaseLost' = [leaseLost EXCEPT ![s] = FALSE]
    /\ verdict' = [verdict EXCEPT ![s] = None]

DeleteClaim(k) ==
    /\ claimToken' = [claimToken EXCEPT ![k] = 0]
    /\ claimLive' = [claimLive EXCEPT ![k] = FALSE]
    /\ UNCHANGED issued

-----------------------------------------------------------------------------
(***************************************************************************)
(* BullMQ, as the worker is configured.                                    *)
(***************************************************************************)

\* The relay's queue.add; the job is kept under its id when it is over.
Enqueue(k) ==
    /\ jobState[k] = "absent"
    /\ jobState' = [jobState EXCEPT ![k] = "waiting"]
    /\ UNCHANGED <<lockOwner, attemptsMade, stalls, claimVars, recordVars,
                   settled, slotVars, faults>>

\* A slot takes the job; attemptContext counts the attempt from one.
Start(s, k) ==
    /\ pc[s] = "idle"
    /\ jobState[k] = "waiting"
    /\ jobState' = [jobState EXCEPT ![k] = "active"]
    /\ lockOwner' = [lockOwner EXCEPT ![k] = s]
    /\ pc' = [pc EXCEPT ![s] = "acquiring"]
    /\ job' = [job EXCEPT ![s] = k]
    /\ final' = [final EXCEPT ![s] = attemptsMade[k] + 1 >= MaxAttempts]
    /\ UNCHANGED <<attemptsMade, stalls, claimVars, recordVars, settled, token,
                   leaseLost, verdict, faults>>

\* Mutant: the queue never notices that a slot is gone.
NeverGone(k) == FALSE

\* The slot that locked k no longer works on it.
OwnerGone(k) == job[lockOwner[k]] # k

\* The lock of an active job ran out: its slot is gone, or its process was
\* too slow to renew the lock.  One stall too many fails the job.
Stalled(k) ==
    /\ jobState[k] = "active"
    /\ \/ OwnerGone(k) /\ UNCHANGED faults
       \/ ~OwnerGone(k) /\ Fault
    /\ IF stalls[k] < MaxStalls
       THEN /\ jobState' = [jobState EXCEPT ![k] = "waiting"]
            /\ stalls' = [stalls EXCEPT ![k] = @ + 1]
       ELSE /\ jobState' = [jobState EXCEPT ![k] = "failed"]
            /\ UNCHANGED stalls
    /\ lockOwner' = [lockOwner EXCEPT ![k] = None]
    /\ UNCHANGED <<attemptsMade, claimVars, recordVars, settled, slotVars>>

\* Mutant: an attempt too few.
OneLessLeft(k) == attemptsMade[k] + 2 < MaxAttempts

\* Failing now, k has an attempt left.
AttemptsLeft(k) == attemptsMade[k] + 1 < MaxAttempts

\* The processor returns or throws.  A terminal error is unrecoverable, any
\* other error uses up an attempt.  A slot that lost the lock is not heard.
Report(s) ==
    LET k == job[s] IN
    /\ pc[s] = "reporting"
    /\ IF jobState[k] = "active" /\ lockOwner[k] = s
       THEN /\ lockOwner' = [lockOwner EXCEPT ![k] = None]
            /\ \/ /\ verdict[s] = "succeeded"
                  /\ jobState' = [jobState EXCEPT ![k] = "completed"]
                  /\ UNCHANGED attemptsMade
               \/ /\ verdict[s] \in TerminalCode
                  /\ jobState' = [jobState EXCEPT ![k] = "failed"]
                  /\ attemptsMade' = [attemptsMade EXCEPT ![k] = @ + 1]
               \/ /\ verdict[s] = "error"
                  /\ jobState' = [jobState EXCEPT ![k] =
                        IF AttemptsLeft(k) THEN "waiting" ELSE "failed"]
                  /\ attemptsMade' = [attemptsMade EXCEPT ![k] = @ + 1]
       ELSE UNCHANGED <<jobState, lockOwner, attemptsMade>>
    /\ Rest(s)
    /\ UNCHANGED <<stalls, claimVars, recordVars, settled, faults>>

\* The process of s dies; the queue still counts the job as active.
Crash(s) ==
    /\ pc[s] # "idle"
    /\ Fault
    /\ Rest(s)
    /\ UNCHANGED <<bullVars, claimVars, recordVars, settled>>

-----------------------------------------------------------------------------
(***************************************************************************)
(* DurableJobExecutor.execute and the statements of the execution store.   *)
(***************************************************************************)

\* Mutant: a live claim is taken over.
CanAcquireBusy(k) == result[k] = None

\* acquire inserts a claim, or takes over an expired one, of unrecorded work.
CanAcquire(k) == result[k] = None /\ (claimToken[k] = 0 \/ ~claimLive[k])

NewToken(k) == issued[k] + 1

InsertClaim(k) ==
    /\ issued' = [issued EXCEPT ![k] = @ + 1]
    /\ claimToken' = [claimToken EXCEPT ![k] = NewToken(k)]
    /\ claimLive' = [claimLive EXCEPT ![k] = TRUE]

\* acquire: a recorded result is replayed, a free or expired claim is taken,
\* a live one makes this attempt fail with WorkJobBusyError.
Acquire(s) ==
    LET k == job[s] IN
    /\ pc[s] = "acquiring"
    /\ \/ /\ result[k] # None
          /\ Goto(s, "settling")
          /\ verdict' = [verdict EXCEPT ![s] = result[k]]
          /\ UNCHANGED claimVars
       \/ /\ CanAcquire(k)
          /\ InsertClaim(k)
          /\ pc' = [pc EXCEPT ![s] = "running"]
          /\ token' = [token EXCEPT ![s] = NewToken(k)]
          /\ UNCHANGED <<job, final, leaseLost, verdict>>
       \/ /\ result[k] = None /\ ~CanAcquire(k)
          /\ Goto(s, "reporting")
          /\ verdict' = [verdict EXCEPT ![s] = "error"]
          /\ UNCHANGED claimVars
    /\ UNCHANGED <<bullVars, recordVars, settled, faults>>

\* The acquisition fails, possibly after it was committed: then the claim
\* stays behind under a token nobody knows.
AcquireFails(s) ==
    /\ pc[s] = "acquiring"
    /\ Fault
    /\ \/ CanAcquire(job[s]) /\ InsertClaim(job[s])
       \/ UNCHANGED claimVars
    /\ Goto(s, "reporting")
    /\ verdict' = [verdict EXCEPT ![s] = "error"]
    /\ UNCHANGED <<bullVars, recordVars, settled>>

\* The lease of a claim runs out.
Expire(k) ==
    /\ claimLive[k]
    /\ claimLive' = [claimLive EXCEPT ![k] = FALSE]
    /\ UNCHANGED <<bullVars, issued, claimToken, recordVars, settled, slotVars, faults>>

\* The heartbeat finds the claim gone or expired, or its call fails; it aborts
\* the task's signal and the attempt will not record anything.  A renewal that
\* succeeds leaves the claim as live as it was.
LoseLease(s) ==
    /\ pc[s] = "running"
    /\ ~leaseLost[s]
    /\ \/ ~Owns(s) /\ UNCHANGED faults
       \/ Owns(s) /\ Fault
    /\ leaseLost' = [leaseLost EXCEPT ![s] = TRUE]
    /\ UNCHANGED <<bullVars, claimVars, recordVars, settled, pc, job, token, final, verdict>>

\* exhaustedFailure: a final attempt turns any error into a terminal one.
Exhausted(s, v) == IF v = "error" /\ final[s] THEN ExhaustedCode ELSE v

\* Mutant: the lost lease is not looked at.
Unaware(s, v) == Exhausted(s, v)

\* What execute makes of the outcome v of the task: the lost lease comes first.
Thrown(s, v) == IF leaseLost[s] THEN "error" ELSE Exhausted(s, v)

\* The task returns or throws and the heartbeat is stopped.  With the lease
\* lost the claim is released and WorkJobLeaseLostError thrown, on a final
\* attempt too; a result or a terminal error goes on to be recorded.
TaskEnds(s) ==
    /\ pc[s] = "running"
    /\ \E v \in {"succeeded", "error"} \cup TaskFailure :
         /\ verdict' = [verdict EXCEPT ![s] = Thrown(s, v)]
         /\ Goto(s, IF Thrown(s, v) = "error" THEN "releasing" ELSE "completing")
    /\ UNCHANGED <<bullVars, claimVars, recordVars, settled, faults>>

\* A terminal failure needs the dead letter to be absent or to say the same.
LetterAgrees(k, v) ==
    v \in TerminalCode => deadLetter[k] \in {None, v}

\* Mutant: no dead letter is written.
ResultOnly(k, v) ==
    /\ DeleteClaim(k)
    /\ result' = [result EXCEPT ![k] = v]
    /\ UNCHANGED deadLetter

\* The transaction of complete: the claim goes, the result and, for a terminal
\* failure, the dead letter come.
RecordResult(k, v) ==
    /\ DeleteClaim(k)
    /\ result' = [result EXCEPT ![k] = v]
    /\ deadLetter' = IF v \in TerminalCode THEN [deadLetter EXCEPT ![k] = v]
                                           ELSE deadLetter

\* complete refuses an expired or foreign claim (WorkJobLeaseLostError) and a
\* dead letter that says something else (WorkJobCompletionConflictError); the
\* transaction rolls back and the attempt ends in an ordinary error.
Complete(s) ==
    LET k == job[s] IN
    /\ pc[s] = "completing"
    /\ \/ /\ Owns(s) /\ LetterAgrees(k, verdict[s])
          /\ RecordResult(k, verdict[s])
          /\ Goto(s, "settling")
          /\ UNCHANGED verdict
       \/ /\ ~(Owns(s) /\ LetterAgrees(k, verdict[s]))
          /\ Goto(s, "releasing")
          /\ verdict' = [verdict EXCEPT ![s] = "error"]
          /\ UNCHANGED <<claimVars, recordVars>>
    /\ UNCHANGED <<bullVars, settled, faults>>

\* The completion call fails, with or without having committed.
CompleteFails(s) ==
    LET k == job[s] IN
    /\ pc[s] = "completing"
    /\ Fault
    /\ \/ Owns(s) /\ LetterAgrees(k, verdict[s]) /\ RecordResult(k, verdict[s])
       \/ UNCHANGED <<claimVars, recordVars>>
    /\ Goto(s, "releasing")
    /\ verdict' = [verdict EXCEPT ![s] = "error"]
    /\ UNCHANGED <<bullVars, settled>>

\* release; its own failure is swallowed and leaves the claim to expire.
Release(s) ==
    /\ pc[s] = "releasing"
    /\ IF HasToken(s) THEN DeleteClaim(job[s]) ELSE UNCHANGED claimVars
    /\ Goto(s, "reporting")
    /\ UNCHANGED <<bullVars, recordVars, settled, verdict, faults>>

ReleaseFails(s) ==
    /\ pc[s] = "releasing"
    /\ Fault
    /\ Goto(s, "reporting")
    /\ UNCHANGED <<bullVars, claimVars, recordVars, settled, verdict>>

-----------------------------------------------------------------------------
\* DurableWorkRouter: the learning run hears of a success or a terminal
\* failure before the queue does.
\* Mutant: a failure is reported as a success.
AlwaysCompleted(v) == "completed"

SettledAs(v) == IF v = "succeeded" THEN "completed" ELSE "failed"

Settle(s) ==
    /\ pc[s] = "settling"
    /\ settled' = [settled EXCEPT ![job[s]] = SettledAs(verdict[s])]
    /\ Goto(s, "reporting")
    /\ UNCHANGED <<bullVars, claimVars, recordVars, verdict, faults>>

\* An error of the report takes the place of the outcome, so that BullMQ
\* retries even a terminal failure.
SettleFails(s) ==
    /\ pc[s] = "settling"
    /\ Fault
    /\ \/ settled' = [settled EXCEPT ![job[s]] = SettledAs(verdict[s])]
       \/ UNCHANGED settled
    /\ Goto(s, "reporting")
    /\ verdict' = [verdict EXCEPT ![s] = "error"]
    /\ UNCHANGED <<bullVars, claimVars, recordVars>>

\* The relay dead-letters the event of k without knowing what became of it.
ForeignLetter(k) ==
    /\ deadLetter[k] = None
    /\ \E c \in ForeignCode : deadLetter' = [deadLetter EXCEPT ![k] = c]
    /\ UNCHANGED <<bullVars, claimVars, result, settled, slotVars, faults>>

-----------------------------------------------------------------------------
SlotStep(s) ==
    \/ Acquire(s) \/ TaskEnds(s) \/ Complete(s) \/ Release(s) \/ Settle(s) \/ Report(s)

SlotFault(s) ==
    \/ AcquireFails(s) \/ CompleteFails(s) \/ ReleaseFails(s) \/ SettleFails(s)
    \/ Crash(s)

Next ==
    \/ \E k \in Job : Enqueue(k) \/ ForeignLetter(k) \/ Stalled(k) \/ Expire(k)
    \/ \E s \in Slot, k \in Job : Start(s, k)
    \/ \E s \in Slot : SlotStep(s) \/ LoseLease(s) \/ SlotFault(s)

Spec == Init /\ [][Next]_jobVars

-----------------------------------------------------------------------------
(***************************************************************************)
(* What the execution of jobs promises.                                    *)
(***************************************************************************)
Recorded(k) == result[k] # None

\* However many slots execute one job after stalls, crashes and expired leases,
\* at most one of them can renew its claim or record a result.
SingleOwner ==
    \A s, t \in Slot :
        job[s] = job[t] /\ job[s] # None /\ Owns(s) /\ Owns(t) => s = t

\* Once the result is recorded nobody holds a claim on the job, so no slot that
\* is still running its task can do anything but give up.
RecordedIsUnclaimed ==
    \A k \in Job : Recorded(k) => claimToken[k] = 0 /\ ~claimLive[k]

\* A terminal result comes with the dead letter that explains it.
TerminalHasLetter ==
    \A k \in Job : result[k] \in TerminalCode => deadLetter[k] = result[k]

\* The learning run and the queue believe of a job what its result says, though
\* they are told in separate calls that can fail or be repeated.
VerdictsAgree ==
    \A k \in Job :
        /\ settled[k] = "completed" => result[k] = "succeeded"
        /\ settled[k] = "failed" => result[k] \in TerminalCode
        /\ jobState[k] = "completed" => settled[k] = "completed"

\* The queue gives up a job without a verdict only after all its attempts or
\* all the stalls it allows.
GivenUpOnlyWhenSpent ==
    \A k \in Job : jobState[k] = "failed" /\ settled[k] = None =>
        attemptsMade[k] = MaxAttempts \/ stalls[k] = MaxStalls

\* A recorded result is never overwritten, and no dead letter either.
RecordsAreFinal ==
    [][\A k \in Job :
          /\ Recorded(k) => result'[k] = result[k]
          /\ deadLetter[k] # None => deadLetter'[k] = deadLetter[k]]_jobVars

\* Only a slot whose claim is live and whose heartbeat has not given up records
\* a result: a slot that was aborted never does, even if its claim is renewed.
OnlyOwnerRecords ==
    [][\A k \in Job : result'[k] # result[k] =>
          \E s \in Working(k) : Owns(s) /\ ~leaseLost[s] /\ verdict[s] = result'[k]]_jobVars

\* What the executor's test says of a final attempt, that its failure is
\* recorded: a job is not given up without a result.
GivenUpIsRecorded == \A k \in Job : jobState[k] = "failed" => Recorded(k)

-----------------------------------------------------------------------------
(***************************************************************************)
(* Why it does: the inductive invariant the proofs rest on.                *)
(***************************************************************************)

\* Tokens are never ahead of those drawn, no two slots were ever given the
\* same token of a job, and only a claim can be live.
TokensFresh ==
    /\ \A k \in Job : claimToken[k] <= issued[k] /\ (claimLive[k] => claimToken[k] # 0)
    /\ \A s \in Slot : token[s] # 0 => token[s] <= issued[job[s]]
    /\ \A s, t \in Slot :
          job[s] = job[t] /\ token[s] = token[t] /\ token[s] # 0 => s = t

\* What a slot is about to record or report is what its place in execute says:
\* a slot that records was not aborted, one that settles repeats the recorded
\* result, one that reports an outcome has settled it.
SlotsInOrder ==
    \A s \in Slot :
        /\ pc[s] = "idle" <=> job[s] = None
        /\ pc[s] \in {"idle", "acquiring"} => token[s] = 0
        /\ pc[s] = "completing" =>
              verdict[s] \in {"succeeded"} \cup TerminalCode /\ ~leaseLost[s]
        /\ pc[s] = "releasing" => verdict[s] = "error"
        /\ pc[s] = "settling" => Recorded(job[s]) /\ verdict[s] = result[job[s]]
        /\ pc[s] = "reporting" =>
              \/ verdict[s] = "error"
              \/ /\ verdict[s] \in {"succeeded"} \cup TerminalCode
                 /\ settled[job[s]] = SettledAs(verdict[s])

\* What a slot works on is a job the queue knows.
JobsExist == \A s \in Slot : pc[s] # "idle" => jobState[job[s]] # "absent"

\* A job that is still to be run has an attempt left to run it.
AttemptLeft ==
    \A k \in Job : jobState[k] \in {"absent", "waiting", "active"} =>
        attemptsMade[k] < MaxAttempts

JobInv ==
    /\ TypeOK /\ TokensFresh /\ SlotsInOrder /\ JobsExist /\ AttemptLeft
    /\ RecordedIsUnclaimed /\ TerminalHasLetter /\ VerdictsAgree
    /\ GivenUpOnlyWhenSpent

-----------------------------------------------------------------------------
\* The claims as leased work: a result settles the job for good.
Leased == INSTANCE LeasedWork WITH
    Item <- Job,
    Outcome <- {"succeeded"} \cup TerminalCode,
    Withdrawn <- "withdrawn",
    holder <- claimToken,
    live <- claimLive,
    verdict <- result

\* The claims and results implement LeasedWork.
ImplementsLeasedWork == Leased!Spec
=============================================================================
