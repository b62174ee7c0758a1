------------------------------ MODULE AgentRun ------------------------------
(***************************************************************************)
(* A run of the course agent, from the request to the published course:    *)
(* agent-run.processor.ts, postgres-agent-run-attempt.repository.ts,       *)
(* postgres-agent-run.repository.ts, postgres-learning-proposal.repository *)
(* .ts.  Workers lease an attempt, reserve what is left of the budget of   *)
(* the run, call the agent and record its plan or its failure; the owner   *)
(* cancels, retries and approves with the version he has seen; approval    *)
(* creates the course and one work item for each job of each step, and the *)
(* jobs settle the items.  The owner can also take the first step of the   *)
(* plan as a proposal for a course of his own.                             *)
(*                                                                         *)
(* Cost is reserved and reconciled like tokens and left out.               *)
(***************************************************************************)
EXTENDS Integers, FiniteSets, FiniteSetsExt

CONSTANTS
    Worker,
    Step,           \* steps of a plan
    Posted,         \* those that come from a post: their video is fetched
    CallBudget, TokenBudget,
    Outcomes,       \* what a job of each kind can come to
    None,
    MaxAttempts,    \* bound: attempts of the run
    MaxEvents,      \* bound: events of a work item
    MaxFaults       \* bound: crashes, failed calls, late workers, lost jobs

Kind == {"video", "retrieval", "quiz"}

ASSUME AgentRunConstants ==
    /\ Posted \subseteq Step /\ Step # {}
    /\ CallBudget \in Nat \ {0} /\ TokenBudget \in Nat \ {0}
    /\ Outcomes \in [Kind -> SUBSET {"completed", "failed"}]
    /\ MaxAttempts \in Nat \ {0} /\ MaxEvents \in Nat \ {0} /\ MaxFaults \in Nat
    /\ None \notin {"queued", "running", "awaiting_approval", "completed", "failed",
                    "cancelled", "lost", "pending", "approved", "dismissed", "expired"}

Attempt == 1..MaxAttempts

\* Work items of an approved run; the events of one are numbered.
Item == {i \in Step \X Kind : i[2] = "video" => i[1] \in Posted}
Event == Item \X (1..MaxEvents)

VARIABLES
    state, version, cancelling,   \* the row of the run
    spent,        \* usage of the run
    tries,        \* attempts so far
    attempt,      \* their states
    lease,        \* token of each attempt, 0 without one
    live,         \* the lease has not expired
    used,         \* usage reserved or recorded for each attempt
    issued,       \* lease tokens so far
    plan,         \* attempt whose steps the run proposes, 0 without any
    course,       \* attempt whose steps became the course, 0 without one
    steps,        \* those of them that are still in the course
    item,         \* states of the work items
    events,       \* events appended for each
    handed,       \* video events that have appended their retrieval event
    verdict,      \* how the job of an event ended
    told,         \* events whose verdict reached the run
    proposal,     \* state of the proposal
    offered,      \* attempt whose first step it offers
    seen,         \* version and plan the owner decides on
    overtime,     \* the wall time of the run is used up
    work,         \* what each worker does
    faults

attemptVars == <<tries, attempt, lease, live, used, issued>>
runVars == <<state, version, cancelling, spent, plan, course>>
itemVars == <<steps, item, events, handed, verdict, told>>
offerVars == <<proposal, offered>>
vars == <<attemptVars, runVars, itemVars, offerVars, seen, overtime, work, faults>>

-----------------------------------------------------------------------------
Usage == [calls : Nat, tokens : Nat]

Nothing == [calls |-> 0, tokens |-> 0]
OneCall == [calls |-> 1, tokens |-> 0]

Plus(u, v) == [calls |-> u.calls + v.calls, tokens |-> u.tokens + v.tokens]

Minus(u, v) == [calls |-> u.calls - v.calls, tokens |-> u.tokens - v.tokens]
Within(u, v) == u.calls <= v.calls /\ u.tokens <= v.tokens

Budget == [calls |-> CallBudget, tokens |-> TokenBudget]

\* What a worker reserves: a call, and all the tokens that are left.
Room(u) == [calls |-> 1, tokens |-> TokenBudget - u.tokens]

Idle == [at |-> "idle", attempt |-> 0, token |-> 0, version |-> 0,
         reservation |-> Nothing, usage |-> Nothing]

WorkStep == {"idle", "reserve", "call", "complete", "concede", "audit", "fail"}

TypeOK ==
    /\ state \in {None, "queued", "running", "awaiting_approval", "approved",
                  "completed", "failed", "cancelled"}
    /\ version \in Nat
    /\ cancelling \in BOOLEAN
    /\ spent \in Usage
    /\ tries \in 0..MaxAttempts
    /\ attempt \in [Attempt -> {None, "queued", "running", "completed", "failed", "cancelled"}]
    /\ lease \in [Attempt -> Nat]
    /\ live \in [Attempt -> BOOLEAN]
    /\ used \in [Attempt -> Usage]
    /\ issued \in Nat
    /\ plan \in 0..MaxAttempts
    /\ course \in 0..MaxAttempts
    /\ steps \subseteq Step
    /\ item \in [Item -> {None, "queued", "completed", "failed"}]
    /\ events \in [Item -> 0..MaxEvents]
    /\ handed \subseteq Event
    /\ verdict \in [Event -> {None, "completed", "failed", "lost"}]
    /\ told \subseteq Event
    /\ proposal \in {None, "pending", "approved", "dismissed", "expired"}
    /\ offered \in 0..MaxAttempts
    /\ seen \in [version : Nat, plan : 0..MaxAttempts]
    /\ overtime \in BOOLEAN
    /\ work \in [Worker -> [at : WorkStep, attempt : 0..MaxAttempts, token : Nat,
                            version : Nat, reservation : Usage, usage : Usage]]
    /\ faults \in 0..MaxFaults

Init ==
    /\ state = None /\ version = 0 /\ cancelling = FALSE
    /\ spent = Nothing
    /\ tries = 0
    /\ attempt = [a \in Attempt |-> None]
    /\ lease = [a \in Attempt |-> 0]
    /\ live = [a \in Attempt |-> FALSE]
    /\ used = [a \in Attempt |-> Nothing]
    /\ issued = 0
    /\ plan = 0 /\ course = 0 /\ steps = {}
    /\ item = [i \in Item |-> None]
    /\ events = [i \in Item |-> 0]
    /\ handed = {} /\ told = {}
    /\ verdict = [e \in Event |-> None]
    /\ proposal = None /\ offered = 0
    /\ seen = [version |-> 0, plan |-> 0]
    /\ overtime = FALSE
    /\ work = [w \in Worker |-> Idle]
    /\ faults = 0

Fault == faults < MaxFaults /\ faults' = faults + 1

\* A new version of the run, as every change of its state makes.
Become(s) == state' = s /\ version' = version + 1

-----------------------------------------------------------------------------
(***************************************************************************)
(* The owner.  Asking twice with one key finds the run; a command with     *)
(* another version than the run's is refused.                              *)
(***************************************************************************)

AddAttempt ==
    /\ tries < MaxAttempts
    /\ tries' = tries + 1
    /\ attempt' = [attempt EXCEPT ![tries + 1] = "queued"]
    /\ UNCHANGED <<lease, live, used, issued>>

Create ==
    /\ state = None
    /\ Become("queued")
    /\ AddAttempt
    /\ UNCHANGED <<cancelling, spent, plan, course, itemVars, offerVars, seen, overtime, work, faults>>

Look ==
    /\ seen # [version |-> version, plan |-> plan]
    /\ seen' = [version |-> version, plan |-> plan]
    /\ UNCHANGED <<attemptVars, runVars, itemVars, offerVars, overtime, work, faults>>

\* Mutant: the version of a command is not compared.
AnyVersion == state # None

\* lockOwnerRun
AsSeen == state # None /\ seen.version = version

\* Mutant: cancelling leaves the attempt to its worker.
AttemptsGoOn == UNCHANGED <<attempt, lease, live>>

CloseAttempts ==
    LET open == {a \in Attempt : attempt[a] \in {"queued", "running"}} IN
    /\ attempt' = [a \in Attempt |-> IF a \in open THEN "cancelled" ELSE attempt[a]]
    /\ lease' = [a \in Attempt |-> IF a \in open THEN 0 ELSE lease[a]]
    /\ live' = [a \in Attempt |-> IF a \in open THEN FALSE ELSE live[a]]

Cancel ==
    /\ AsSeen
    /\ state \in {"queued", "running", "awaiting_approval"}
    /\ Become("cancelled")
    /\ cancelling' = TRUE
    /\ CloseAttempts
    /\ UNCHANGED <<tries, used, issued, spent, plan, course, itemVars, offerVars, seen,
                   overtime, work, faults>>

\* retryRun of a run without a course: another attempt on the same budget.
RetryPlan ==
    /\ AsSeen
    /\ state \in {"failed", "cancelled"} /\ course = 0
    /\ Become("queued")
    /\ cancelling' = FALSE
    /\ AddAttempt
    /\ UNCHANGED <<spent, plan, course, itemVars, offerVars, seen, overtime, work, faults>>

FailedItems == {i \in Item : item[i] = "failed"}

\* An item of a step that is gone belongs to no step: nothing settles it, and
\* there is nothing to name in a new event.
Settleable(i) == i[1] \in steps

\* Mutant: the failed items are sent again but stay failed.
SendOnly == UNCHANGED item

Requeue == item' = [i \in Item |-> IF i \in FailedItems THEN "queued" ELSE item[i]]

\* requeueApprovedWork: the failed items of an approved run get new events, or
\* none does.
RetryWork ==
    /\ AsSeen
    /\ state = "failed" /\ course # 0
    /\ FailedItems # {}
    /\ \A i \in FailedItems : events[i] < MaxEvents /\ Settleable(i)
    /\ Requeue
    /\ events' = [i \in Item |-> IF i \in FailedItems THEN events[i] + 1 ELSE events[i]]
    /\ Become("approved")
    /\ UNCHANGED <<attemptVars, cancelling, spent, plan, course, steps, handed, verdict, told,
                   offerVars, seen, overtime, work, faults>>

\* The retrieval of a step from a post waits for its video.
SentAtOnce(i) == i[2] = "retrieval" => i[1] \notin Posted

\* approveRun, enqueueApprovedStep: course, work items and events together.
Approve ==
    /\ AsSeen
    /\ state = "awaiting_approval"
    /\ course' = plan
    /\ steps' = Step
    /\ item' = [i \in Item |-> "queued"]
    /\ events' = [i \in Item |-> IF SentAtOnce(i) THEN 1 ELSE 0]
    /\ Become("approved")
    /\ UNCHANGED <<attemptVars, cancelling, spent, plan, handed, verdict, told,
                   offerVars, seen, overtime, work, faults>>

\* enqueueCourseStepRetrieval: an edit has every step it keeps indexed again.
Reindexed(kept, i) == i[2] = "retrieval" /\ i[1] \in kept

\* updateMetadata and replaceSteps of the course the run has made.  Nothing
\* tells the jobs of these events from those of the run.
EditCourse(kept) ==
    /\ kept \subseteq steps /\ steps # {}
    /\ \A i \in Item : Reindexed(kept, i) => events[i] < MaxEvents
    /\ steps' = kept
    /\ events' = [i \in Item |-> IF Reindexed(kept, i) THEN events[i] + 1 ELSE events[i]]
    /\ UNCHANGED <<attemptVars, runVars, item, handed, verdict, told, offerVars, seen,
                   overtime, work, faults>>

-----------------------------------------------------------------------------
(***************************************************************************)
(* The proposal: the first step of the plan, offered for seven days.       *)
(***************************************************************************)

\* createFromVerifiedRun: a run has one proposal, whatever it plans later.
Offer ==
    /\ state = "awaiting_approval" /\ proposal = None
    /\ proposal' = "pending"
    /\ offered' = plan
    /\ UNCHANGED <<attemptVars, runVars, itemVars, seen, overtime, work, faults>>

\* finishRun: only a run that awaits approval is finished with it.
FinishRun(s) ==
    IF state = "awaiting_approval" THEN Become(s) ELSE UNCHANGED <<state, version>>

\* approve, dismiss and expireIfNeeded
Decide(d) ==
    /\ proposal = "pending"
    /\ proposal' = d
    /\ \/ d = "approved" /\ FinishRun("completed")
       \/ d = "dismissed" /\ FinishRun("cancelled")
       \/ d = "expired" /\ UNCHANGED <<state, version>>
    /\ UNCHANGED <<attemptVars, cancelling, spent, plan, course, itemVars, offered, seen,
                   overtime, work, faults>>

-----------------------------------------------------------------------------
(***************************************************************************)
(* A worker on its attempt: processClaim.                                  *)
(***************************************************************************)

At(w, s) == work' = [work EXCEPT ![w].at = s]

\* The worker goes on to report a failure that used u.
Report(w, s, u) == work' = [work EXCEPT ![w].at = s, ![w].usage = u]

\* The attempt w works on, and what it has reserved.
Mine(w) == work[w].attempt

\* An attempt that waits, or whose lease expired.
Claimable(a) ==
    /\ ~cancelling
    /\ \/ state = "queued" /\ attempt[a] = "queued"
       \/ state = "running" /\ attempt[a] = "running" /\ ~live[a]

\* claimRunAttempt, then what processClaim decides before its first call: an
\* attempt that has usage already was left by a worker that stopped, and
\* without room in the budget nothing is started.
Begin(w, a, t, v) ==
    LET next(s, u) == [at |-> s, attempt |-> a, token |-> t, version |-> v,
                       reservation |-> u, usage |-> u]
    IN  work' = [work EXCEPT ![w] =
            IF used[a] # Nothing THEN next("audit", used[a])
            ELSE IF Room(spent).tokens < 1 \/ ~Within(Plus(spent, Room(spent)), Budget)
                 THEN next("audit", Nothing)
                 ELSE next("reserve", Room(spent))]

Claim(w, a) ==
    /\ work[w].at = "idle"
    /\ Claimable(a)
    /\ attempt' = [attempt EXCEPT ![a] = "running"]
    /\ lease' = [lease EXCEPT ![a] = issued + 1]
    /\ live' = [live EXCEPT ![a] = TRUE]
    /\ issued' = issued + 1
    /\ Become("running")
    /\ Begin(w, a, issued + 1, version + 1)
    /\ UNCHANGED <<tries, used, cancelling, spent, plan, course, itemVars, offerVars, seen,
                   overtime, faults>>

\* lockLeasedAttempt
Holds(w) ==
    /\ state = "running" /\ version = work[w].version /\ ~cancelling
    /\ attempt[Mine(w)] = "running"
    /\ lease[Mine(w)] = work[w].token
    /\ live[Mine(w)]

\* validateAgentUsage of the usage of the run with u more.
Fits(u) == Within(Plus(spent, u), Budget) /\ ~overtime

TakeRoom(w) ==
    LET r == work[w].reservation IN
    /\ used' = [used EXCEPT ![Mine(w)] = Plus(@, r)]
    /\ spent' = Plus(spent, r)

otherThanUsage == <<tries, attempt, lease, live, issued, state, version, cancelling, plan,
                    course, itemVars, offerVars, seen, overtime>>

\* reserveRunUsage
Reserve(w) ==
    /\ work[w].at = "reserve"
    /\ \/ /\ Holds(w) /\ Fits(work[w].reservation)
          /\ TakeRoom(w)
          /\ At(w, "call")
       \/ /\ Holds(w) /\ ~Fits(work[w].reservation)
          /\ used[Mine(w)] # work[w].reservation
          /\ Report(w, "audit", Nothing)
          /\ UNCHANGED <<used, spent>>
       \/ /\ ~Holds(w) \/ (~Fits(work[w].reservation) /\ used[Mine(w)] = work[w].reservation)
          /\ At(w, "idle")
          /\ UNCHANGED <<used, spent>>
    /\ UNCHANGED <<otherThanUsage, faults>>

\* The call fails, with or without having committed, and the worker does not
\* know of a reservation.
ReserveFails(w) ==
    /\ work[w].at = "reserve"
    /\ Fault
    /\ \/ Holds(w) /\ Fits(work[w].reservation) /\ TakeRoom(w)
       \/ UNCHANGED <<used, spent>>
    /\ Report(w, "audit", OneCall)
    /\ UNCHANGED otherThanUsage

\* authorizeAgentMcpCall, before every tool call of the agent.
Authorized(w) ==
    /\ state = "running" /\ ~cancelling
    /\ attempt[Mine(w)] = "running" /\ lease[Mine(w)] = work[w].token /\ live[Mine(w)]

Reported == [calls : 1..CallBudget, tokens : 0..TokenBudget]

\* The call of the agent: it may come too late to start, fail or take too long
\* and be charged in full, or come back with its usage and a plan or nonsense.
Call(w) ==
    /\ work[w].at = "call"
    /\ \/ overtime /\ Report(w, "audit", Nothing)
       \/ ~overtime /\ Report(w, "audit", work[w].reservation)
       \/ /\ ~overtime /\ Authorized(w)
          /\ \E u \in Reported :
                \/ Report(w, "audit", u)
                \/ Within(u, work[w].reservation) /\ Report(w, "complete", u)
                \/ ~Within(u, work[w].reservation) /\ Report(w, "audit", work[w].reservation)
    /\ UNCHANGED <<attemptVars, runVars, itemVars, offerVars, seen, overtime, faults>>

\* reconcileReservedUsage: the usage of w takes the place of what is reserved.
Reconciles(w) == Within(work[w].usage, used[Mine(w)])

\* Mutant: what was reserved is not given back.
ChargeAgain(w) ==
    /\ spent' = Plus(spent, work[w].usage)
    /\ used' = [used EXCEPT ![Mine(w)] = work[w].usage]

Reconcile(w) ==
    /\ spent' = Plus(Minus(spent, used[Mine(w)]), work[w].usage)
    /\ used' = [used EXCEPT ![Mine(w)] = work[w].usage]

\* The attempt of w ends in s, and the lease with it.
EndAttempt(w, s) ==
    /\ attempt' = [attempt EXCEPT ![Mine(w)] = s]
    /\ lease' = [lease EXCEPT ![Mine(w)] = 0]
    /\ live' = [live EXCEPT ![Mine(w)] = FALSE]
    /\ Reconcile(w)

\* The steps of the plan take the place of those proposed before.
TakePlan(w) ==
    /\ EndAttempt(w, "completed")
    /\ Become("awaiting_approval")
    /\ plan' = Mine(w)
    /\ UNCHANGED <<tries, issued, cancelling, course>>

\* completeRunAttempt: invalid steps, overtime and usage are errors of one kind,
\* which fail the attempt without an audit.
Complete(w) ==
    /\ work[w].at = "complete"
    /\ \/ Holds(w) /\ Reconciles(w) /\ ~overtime /\ TakePlan(w) /\ At(w, "idle")
       \/ ~Holds(w) /\ At(w, "idle") /\ UNCHANGED <<attemptVars, runVars>>
       \/ At(w, "concede") /\ UNCHANGED <<attemptVars, runVars>>
    /\ UNCHANGED <<itemVars, offerVars, seen, overtime, faults>>

CompleteFails(w) ==
    /\ work[w].at = "complete"
    /\ Fault
    /\ \/ Holds(w) /\ Reconciles(w) /\ ~overtime /\ TakePlan(w)
       \/ UNCHANGED <<attemptVars, runVars>>
    /\ Report(w, "audit", work[w].reservation)
    /\ UNCHANGED <<itemVars, offerVars, seen, overtime>>

\* recordAudit before the failure is recorded; without the audit it is not.
Audit(w) ==
    /\ work[w].at = "audit"
    /\ \/ At(w, "fail") /\ UNCHANGED faults
       \/ Fault /\ At(w, "idle")
    /\ UNCHANGED <<attemptVars, runVars, itemVars, offerVars, seen, overtime>>

FailRun(w) ==
    /\ EndAttempt(w, "failed")
    /\ Become("failed")
    /\ UNCHANGED <<tries, issued, cancelling, plan, course>>

\* failRunAttempt; a usage above the reservation is an error here, and so is a
\* failed call: after a plan that was not accepted either leads to the audit,
\* after the audit the attempt is left to expire.
Fail(w) ==
    /\ work[w].at \in {"concede", "fail"}
    /\ \/ /\ Holds(w) => Reconciles(w)
          /\ IF Holds(w) THEN FailRun(w) ELSE UNCHANGED <<attemptVars, runVars>>
          /\ At(w, "idle")
          /\ UNCHANGED faults
       \/ /\ \/ Holds(w) /\ ~Reconciles(w) /\ UNCHANGED <<attemptVars, runVars, faults>>
             \/ Fault /\ Holds(w) /\ Reconciles(w) /\ FailRun(w)
             \/ Fault /\ UNCHANGED <<attemptVars, runVars>>
          /\ IF work[w].at = "concede" THEN Report(w, "audit", work[w].reservation)
                                       ELSE At(w, "idle")
    /\ UNCHANGED <<itemVars, offerVars, seen, overtime>>

Crash(w) ==
    /\ work[w].at # "idle"
    /\ Fault
    /\ At(w, "idle")
    /\ UNCHANGED <<attemptVars, runVars, itemVars, offerVars, seen, overtime>>

\* A lease runs out: it is a fault when its worker is still there.
Expire(a) ==
    /\ attempt[a] = "running" /\ live[a]
    /\ IF \E w \in Worker : work[w].at # "idle" /\ work[w].token = lease[a]
       THEN Fault ELSE UNCHANGED faults
    /\ live' = [live EXCEPT ![a] = FALSE]
    /\ UNCHANGED <<tries, attempt, lease, used, issued, runVars, itemVars, offerVars, seen,
                   overtime, work>>

\* started_at is set by the first claim and never again.
RunOutOfTime ==
    /\ issued > 0 /\ ~overtime
    /\ overtime' = TRUE
    /\ UNCHANGED <<attemptVars, runVars, itemVars, offerVars, seen, work, faults>>

-----------------------------------------------------------------------------
(***************************************************************************)
(* The jobs of the work items.  How an event becomes a job, and how often  *)
(* it runs, is in WorkPipeline; a dead letter may be replayed.             *)
(***************************************************************************)

runButState == <<cancelling, spent, plan, course>>

Open(i, e) == e <= events[i] /\ verdict[<<i, e>>] = None

\* processVideoAsset appends the retrieval event of the step before it is done.
HandOver(p, e) ==
    LET i == <<p, "video">>
        r == <<p, "retrieval">>
    IN  /\ i \in Item /\ Open(i, e) /\ <<i, e>> \notin handed
        /\ events[r] < MaxEvents
        /\ handed' = handed \cup {<<i, e>>}
        /\ events' = [events EXCEPT ![r] = @ + 1]
        /\ UNCHANGED <<attemptVars, runVars, steps, item, verdict, told, offerVars, seen, overtime,
                       work, faults>>

\* Mutant: the video is done without its retrieval event.
CanEndAlone(i, e, o) == TRUE

CanEnd(i, e, o) == i[2] = "video" /\ o = "completed" => <<i, e>> \in handed

JobEnds(i, e) ==
    /\ Open(i, e)
    /\ \E o \in Outcomes[i[2]] :
          /\ CanEnd(i, e, o)
          /\ verdict' = [verdict EXCEPT ![<<i, e>>] = o]
    /\ UNCHANGED <<attemptVars, runVars, steps, item, events, handed, told, offerVars, seen,
                   overtime, work, faults>>

\* The relay or the queue gives the job up, and nobody settles the item.
JobIsLost(i, e) ==
    /\ Open(i, e)
    /\ Fault
    /\ verdict' = [verdict EXCEPT ![<<i, e>>] = "lost"]
    /\ UNCHANGED <<attemptVars, runVars, steps, item, events, handed, told, offerVars, seen,
                   overtime, work>>

Replay(i, e) ==
    /\ e <= events[i] /\ verdict[<<i, e>>] \in {"failed", "lost"}
    /\ events[i] < MaxEvents
    /\ Fault
    /\ events' = [events EXCEPT ![i] = @ + 1]
    /\ UNCHANGED <<attemptVars, runVars, steps, item, handed, verdict, told, offerVars, seen,
                   overtime, work>>

AllDone == \A i \in Item : item'[i] = "completed"

\* settleAgentWorkItem for the verdict of the job: an item that is settled
\* stays as it is; a failed item fails the run, the last one completes it.
Settle(i, e) ==
    LET o == verdict[<<i, e>>]
        waits == item[i] = "queued" /\ Settleable(i)
    IN
    /\ e <= events[i] /\ o \in {"completed", "failed"}
    /\ IF <<i, e>> \in told THEN Fault ELSE UNCHANGED faults
    /\ told' = told \cup {<<i, e>>}
    /\ item' = [item EXCEPT ![i] = IF waits THEN o ELSE @]
    /\ IF /\ waits
          /\ \/ o = "failed" /\ state \notin {"completed", "failed", "cancelled"}
             \/ o = "completed" /\ AllDone /\ state = "approved"
       THEN Become(o)
       ELSE UNCHANGED <<state, version>>
    /\ UNCHANGED <<attemptVars, runButState, steps, events, handed, verdict, offerVars, seen,
                   overtime, work>>

-----------------------------------------------------------------------------
WorkerStep(w) ==
    \/ \E a \in Attempt : Claim(w, a)
    \/ Reserve(w) \/ Call(w) \/ Complete(w) \/ Audit(w) \/ Fail(w)

JobStep(i, e) == JobEnds(i, e) \/ Settle(i, e)

Next ==
    \/ Create \/ Look \/ Cancel \/ RetryPlan \/ RetryWork \/ Approve
    \/ \E kept \in SUBSET Step : EditCourse(kept)
    \/ Offer \/ \E d \in {"approved", "dismissed", "expired"} : Decide(d)
    \/ \E w \in Worker : WorkerStep(w) \/ ReserveFails(w) \/ CompleteFails(w) \/ Crash(w)
    \/ \E a \in Attempt : Expire(a)
    \/ RunOutOfTime
    \/ \E p \in Step, e \in 1..MaxEvents : HandOver(p, e)
    \/ \E i \in Item, e \in 1..MaxEvents : JobStep(i, e) \/ JobIsLost(i, e) \/ Replay(i, e)

Spec == Init /\ [][Next]_vars

\* Jobs run to their end and are settled.
Fairness ==
    \A e \in 1..MaxEvents :
        /\ \A p \in Step : WF_vars(HandOver(p, e))
        /\ \A i \in Item :
              WF_vars(JobEnds(i, e)) /\ WF_vars(Settle(i, e) /\ UNCHANGED faults)

FairSpec == Spec /\ Fairness

-----------------------------------------------------------------------------
(***************************************************************************)
(* What the owner is promised.                                             *)
(***************************************************************************)

\* The usage of a run is that of its attempts and never above the budget it was
\* created with, whatever workers stop, lose their lease or report, and however
\* often the run is retried.
UsageOf(u) == [calls |-> MapThenSumSet(LAMBDA a : u[a].calls, Attempt),
               tokens |-> MapThenSumSet(LAMBDA a : u[a].tokens, Attempt)]

BudgetKept == spent = UsageOf(used) /\ Within(spent, Budget)

\* The run is where its last attempt is, and the attempts before are over: no
\* worker but one can still bring the run anything.
RunFollowsAttempts ==
    /\ state \in {"queued", "running"} => attempt[tries] = state
    /\ state = "awaiting_approval" => attempt[tries] = "completed" /\ plan = tries
    /\ \A a \in Attempt : attempt[a] \in {"queued", "running"} => a = tries /\ attempt[a] = state
    /\ \A a \in Attempt : lease[a] # 0 <=> attempt[a] = "running"

\* The course is made of the plan the owner has looked at, though the run may be
\* cancelled, retried and planned again in another window.
ApprovedWhatWasSeen ==
    [][course' # course => course = 0 /\ course' = seen.plan /\ course' # 0]_vars

\* A run with a course is where its items are: it is completed when all of its
\* work succeeded, failed when there is something to retry, and waits only
\* for items.
RunFollowsItems ==
    course # 0 =>
        /\ state \in {"approved", "failed", "completed"}
        /\ state = "completed" => \A i \in Item : item[i] = "completed"
        /\ state = "failed" => FailedItems # {}
        /\ state = "approved" => FailedItems = {} /\ \E i \in Item : item[i] = "queued"
        /\ \A i \in Item : item[i] = "completed" =>
               \E e \in 1..events[i] : verdict[<<i, e>>] = "completed"

\* An item that waits has a job that is still to settle it, unless a job of it
\* was lost, its video has not come to it or its step was taken out of the
\* course.
WaitingHasJob ==
    \A i \in Item : item[i] = "queued" /\ Settleable(i) =>
        \/ \E e \in 1..events[i] : <<i, e>> \notin told
        \/ i[2] = "retrieval" /\ item[<<i[1], "video">>] # "completed"

\* Settlement drives the approved run to completed.
ApprovedCompletes == state = "approved" ~> state = "completed"
=============================================================================
