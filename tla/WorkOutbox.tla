---------------------------- MODULE WorkOutbox ----------------------------
(***************************************************************************)
(* The transactional outbox of the work pipeline: the rows of              *)
(* work_outbox_events, the relays that claim them in batches under a       *)
(* lease and publish them to the queue (outbox-relay.service.ts), the dead *)
(* letters they leave behind and the operator's replay of those            *)
(* (postgres-work.repository.ts).  The workers, which share the table of   *)
(* dead letters, are the environment; WorkPipeline puts them in place.     *)
(*                                                                         *)
(* Time is counted in ticks.  Expiry instants are kept as the time left    *)
(* until them, which is all the SQL compares with statement_timestamp().   *)
(* A claim stores a fresh random lease_token and adds one to attempt_count *)
(* in the same UPDATE, so the attempt number stands for the token.         *)
(***************************************************************************)
EXTENDS Naturals, FiniteSets

CONSTANTS
    Event,           \* identities of outbox rows, of replays too
    Relay,           \* relay processes
    MaxAttempts,     \* work_outbox_events.max_attempts
    BatchLimit,      \* rows claimed at a time (25)
    Lease,           \* OUTBOX_LEASE_MS in ticks
    PublishTimeout,  \* publishTimeoutMs in ticks
    RetryDelay,      \* retryDelayMs in ticks
    FailureCode,     \* failure codes of dead letters, the workers' too
    QueueUnavailable,\* the code a relay dead-letters with
    None,            \* SQL NULL
    MaxClaims,       \* bound: claims of one row that are explored
    MaxFaults        \* bound: crashes and failed calls that are explored

ASSUME OutboxConstants ==
    /\ MaxAttempts \in Nat \ {0}
    /\ BatchLimit \in Nat \ {0}
    /\ Lease \in Nat \ {0}
    /\ PublishTimeout \in Nat \ {0}
    /\ RetryDelay \in Nat
    /\ MaxClaims \in Nat \ {0}
    /\ MaxFaults \in Nat
    /\ QueueUnavailable \in FailureCode
    /\ None \notin FailureCode
    /\ None \notin Event

\* The constructor of OutboxRelayService refuses any other timeout.
ASSUME PublishTimeoutBelowLease == PublishTimeout < Lease

VARIABLES
    phase,        \* phase[e]: absent, pending, published or terminal
    attemptCount, \* attempt_count of e
    leaseToken,   \* the claim that holds e, 0 for NULL
    leaseLeft,    \* ticks until lease_expires_at, 0 when it has passed
    availableIn,  \* ticks until available_at
    withdrawn,    \* events whose provider reservation was released
    deadLetter,   \* failure code of the dead letter of e, None without one
    replayed,     \* events whose dead letter has replayed_at set
    replayOf,     \* the event that e replays (work_replay_audits), or None
    queue,        \* events that have a job in the queue, kept forever
    pc,           \* where each relay is in publishOnce
    held,         \* held[r][e]: the token r claimed e under, 0 if not in its batch
    current,      \* the event r is publishing, None between events
    timer,        \* ticks the current publish of r has taken
    outstanding,  \* queue.add calls of r not yet answered by the queue
    faults        \* faults so far

rowVars == <<phase, attemptCount, leaseToken, leaseLeft, availableIn, withdrawn>>
letterVars == <<deadLetter, replayed, replayOf>>
relayVars == <<pc, held, current, timer>>
outboxVars == <<rowVars, letterVars, queue, relayVars, outstanding, faults>>

-----------------------------------------------------------------------------
RelayPc == {"idle", "batch", "publishing", "acking", "retrying"}

RowTypes ==
    /\ phase \in [Event -> {"absent", "pending", "published", "terminal"}]
    /\ attemptCount \in [Event -> Nat]
    /\ leaseToken \in [Event -> Nat]
    /\ leaseLeft \in [Event -> 0..Lease]
    /\ availableIn \in [Event -> 0..RetryDelay]
    /\ withdrawn \in SUBSET Event

LetterTypes ==
    /\ deadLetter \in [Event -> FailureCode \cup {None}]
    /\ replayed \in SUBSET Event
    /\ replayOf \in [Event -> Event \cup {None}]

RelayTypes ==
    /\ pc \in [Relay -> RelayPc]
    /\ held \in [Relay -> [Event -> Nat]]
    /\ current \in [Relay -> Event \cup {None}]
    /\ timer \in [Relay -> 0..PublishTimeout]

TypeOK ==
    /\ RowTypes /\ LetterTypes /\ RelayTypes
    /\ queue \in SUBSET Event
    /\ outstanding \in [Relay -> SUBSET Event]
    /\ faults \in 0..MaxFaults

Init ==
    /\ phase = [e \in Event |-> "absent"]
    /\ attemptCount = [e \in Event |-> 0]
    /\ leaseToken = [e \in Event |-> 0]
    /\ leaseLeft = [e \in Event |-> 0]
    /\ availableIn = [e \in Event |-> 0]
    /\ withdrawn = {}
    /\ deadLetter = [e \in Event |-> None]
    /\ replayed = {}
    /\ replayOf = [e \in Event |-> None]
    /\ queue = {}
    /\ pc = [r \in Relay |-> "idle"]
    /\ held = [r \in Relay |-> [e \in Event |-> 0]]
    /\ current = [r \in Relay |-> None]
    /\ timer = [r \in Relay |-> 0]
    /\ outstanding = [r \in Relay |-> {}]
    /\ faults = 0

-----------------------------------------------------------------------------
\* Mutant: the token is not compared.
HoldsOpenRow(r, e) == phase[e] = "pending" /\ held[r][e] # 0

\* The batch of r, and the test of ackOutboxEvent and retryOutboxEvent: the
\* row is open and still carries the token r claimed it under.  Neither
\* statement looks at lease_expires_at.
Batch(r) == {e \in Event : held[r][e] # 0}
Holds(r, e) ==
    /\ phase[e] = "pending"
    /\ held[r][e] # 0
    /\ leaseToken[e] = held[r][e]

\* r reports a failed or broken call; the number of those is bounded.
Fault ==
    /\ faults < MaxFaults
    /\ faults' = faults + 1

\* publishOnce ends and the next cycle starts from nothing: after the batch,
\* when an error escapes the loop, or because the process died.
Abandon(r) ==
    /\ pc' = [pc EXCEPT ![r] = "idle"]
    /\ held' = [held EXCEPT ![r] = [e \in Event |-> 0]]
    /\ current' = [current EXCEPT ![r] = None]
    /\ timer' = [timer EXCEPT ![r] = 0]

\* The loop goes on with the next event of the batch.
NextEvent(r) ==
    /\ pc' = [pc EXCEPT ![r] = "batch"]
    /\ held' = [held EXCEPT ![r][current[r]] = 0]
    /\ current' = [current EXCEPT ![r] = None]
    /\ timer' = [timer EXCEPT ![r] = 0]

\* r moves on within one event.
Goto(r, l) ==
    /\ pc' = [pc EXCEPT ![r] = l]
    /\ UNCHANGED <<held, current, timer>>

ClearLease(e) ==
    /\ leaseToken' = [leaseToken EXCEPT ![e] = 0]
    /\ leaseLeft' = [leaseLeft EXCEPT ![e] = 0]

-----------------------------------------------------------------------------
(***************************************************************************)
(* The rows.                                                               *)
(***************************************************************************)

\* appendOutboxEvent and the raw INSERTs of the repositories.  Appending an
\* id that exists does nothing (ON CONFLICT DO NOTHING) and is a stutter.
Append(e) ==
    /\ phase[e] = "absent"
    /\ phase' = [phase EXCEPT ![e] = "pending"]
    /\ UNCHANGED <<attemptCount, leaseToken, leaseLeft, availableIn, withdrawn,
                   letterVars, queue, relayVars, outstanding, faults>>

\* A row is claimable when it is open, due and not under a running lease.
Claimable(e) ==
    /\ phase[e] = "pending"
    /\ availableIn[e] = 0
    /\ leaseToken[e] = 0 \/ leaseLeft[e] = 0

\* Mutant: every claim has the same token.
SameToken(e) == 1

\* The token a claim of e draws.
NewToken(e) == attemptCount[e] + 1

\* The UPDATE of claimOutboxBatch on the rows S.  SKIP LOCKED may pass over
\* any claimable row, so every selection of at most BatchLimit is possible.
ClaimRows(S) ==
    /\ S # {}
    /\ \A e \in S : Claimable(e) /\ attemptCount[e] < MaxClaims
    /\ Cardinality(S) <= BatchLimit
    /\ attemptCount' = [e \in Event |-> IF e \in S THEN attemptCount[e] + 1
                                                 ELSE attemptCount[e]]
    /\ leaseToken' = [e \in Event |-> IF e \in S THEN NewToken(e) ELSE leaseToken[e]]
    /\ leaseLeft' = [e \in Event |-> IF e \in S THEN Lease ELSE leaseLeft[e]]
    /\ UNCHANGED <<phase, availableIn, withdrawn>>

\* The UPDATE of ackOutboxEvent, once its WHERE clause has matched.
AckRow(e) ==
    /\ phase' = [phase EXCEPT ![e] = "published"]
    /\ ClearLease(e)
    /\ UNCHANGED <<attemptCount, availableIn, withdrawn, letterVars>>

\* Mutant: closed an attempt early.
ExhaustedEarly(e) == attemptCount[e] + 1 >= MaxAttempts

Exhausted(e) == attemptCount[e] >= MaxAttempts

\* Mutant: an earlier letter is overwritten.
LastLetter(e) == QueueUnavailable

\* The INSERT of the dead letter: ON CONFLICT DO NOTHING.
FirstLetter(e) == IF deadLetter[e] = None THEN QueueUnavailable ELSE deadLetter[e]

\* The UPDATE and INSERT of retryOutboxEvent, once the WHERE clause has
\* matched: a row out of attempts is closed with a dead letter, unless it has
\* one already; any other row becomes available again after the delay.
RetryRow(e) ==
    /\ ClearLease(e)
    /\ \/ /\ Exhausted(e)
          /\ phase' = [phase EXCEPT ![e] = "terminal"]
          /\ deadLetter' = [deadLetter EXCEPT ![e] = FirstLetter(e)]
          /\ UNCHANGED availableIn
       \/ /\ ~Exhausted(e)
          /\ availableIn' = [availableIn EXCEPT ![e] = RetryDelay]
          /\ UNCHANGED <<phase, deadLetter>>
    /\ UNCHANGED <<attemptCount, withdrawn, replayed, replayOf>>

\* releaseSubscription gives up the last reservation of the work of e: the
\* row is closed unless it is over already, whoever holds its lease.
Withdraw(e) ==
    /\ phase[e] = "pending"
    /\ phase' = [phase EXCEPT ![e] = "terminal"]
    /\ withdrawn' = withdrawn \cup {e}
    /\ UNCHANGED <<attemptCount, leaseToken, leaseLeft, availableIn, letterVars,
                   queue, relayVars, outstanding, faults>>

\* A worker records that the job of e failed for good, whatever the relay has
\* made of the row meanwhile.
WorkerLetter(e) ==
    /\ e \in queue
    /\ deadLetter[e] = None
    /\ \E c \in FailureCode \ {QueueUnavailable} :
          deadLetter' = [deadLetter EXCEPT ![e] = c]
    /\ UNCHANGED <<rowVars, replayed, replayOf, queue, relayVars, outstanding, faults>>

\* Mutant: a letter is replayed again.
ReplayableAgain(e) == deadLetter[e] # None

\* Mutant: work without a letter is replayed.
ReplayableAlways(e) == e \notin replayed

Replayable(e) == deadLetter[e] # None /\ e \notin replayed

\* replayed_at is set.
MarkReplayed(e) == replayed' = replayed \cup {e}

\* replayDeadLetter: one statement locks the dead letter, appends the row f
\* with the same work under an id of its own, marks the letter and audits it.
Replay(e, f) ==
    /\ Replayable(e)
    /\ phase[f] = "absent"
    /\ phase' = [phase EXCEPT ![f] = "pending"]
    /\ MarkReplayed(e)
    /\ replayOf' = [replayOf EXCEPT ![f] = e]
    /\ UNCHANGED <<attemptCount, leaseToken, leaseLeft, availableIn, withdrawn,
                   deadLetter, queue, relayVars, outstanding, faults>>

-----------------------------------------------------------------------------
(***************************************************************************)
(* The relays: one cycle of publishOnce after another.                     *)
(***************************************************************************)

Claim(r) ==
    /\ pc[r] = "idle"
    /\ \E S \in SUBSET Event :
         /\ ClaimRows(S)
         /\ held' = [held EXCEPT ![r] =
                         [e \in Event |-> IF e \in S THEN NewToken(e) ELSE 0]]
    /\ pc' = [pc EXCEPT ![r] = "batch"]
    /\ UNCHANGED <<letterVars, queue, current, timer, outstanding, faults>>

\* The claim commits but the answer never reaches the relay: the rows stay
\* leased with nobody to publish them.
ClaimLost(r) ==
    /\ pc[r] = "idle"
    /\ Fault
    /\ \E S \in SUBSET Event : ClaimRows(S)
    /\ UNCHANGED <<letterVars, queue, relayVars, outstanding>>

StartPublish(r) ==
    /\ pc[r] = "batch"
    /\ \E e \in Batch(r) :
         /\ current' = [current EXCEPT ![r] = e]
         /\ outstanding' = [outstanding EXCEPT ![r] = @ \cup {e}]
    /\ pc' = [pc EXCEPT ![r] = "publishing"]
    /\ timer' = [timer EXCEPT ![r] = 0]
    /\ UNCHANGED <<rowVars, letterVars, queue, held, faults>>

EndBatch(r) ==
    /\ pc[r] = "batch"
    /\ Batch(r) = {}
    /\ Abandon(r)
    /\ UNCHANGED <<rowVars, letterVars, queue, outstanding, faults>>

\* A queue.add takes effect.  The job id is derived from the event, so a
\* second add of the same event changes nothing.  The call may belong to a
\* publish r has long given up: the timeout does not cancel it.
Land(r, e) ==
    /\ e \in outstanding[r]
    /\ queue' = queue \cup {e}
    /\ outstanding' = [outstanding EXCEPT ![r] = @ \ {e}]
    /\ UNCHANGED <<rowVars, letterVars, relayVars, faults>>

\* Mutant: the answer of the queue is not awaited.
NotAwaited(r) == TRUE

Answered(r) == current[r] \notin outstanding[r]

PublishOk(r) ==
    /\ pc[r] = "publishing"
    /\ Answered(r)
    /\ Goto(r, "acking")
    /\ UNCHANGED <<rowVars, letterVars, queue, outstanding, faults>>

\* queue.add rejects: it never takes effect, or its command is still on the way
\* to the queue, over a connection that broke.
PublishError(r) ==
    /\ pc[r] = "publishing"
    /\ Fault
    /\ Goto(r, "retrying")
    /\ \/ outstanding' = [outstanding EXCEPT ![r] = @ \ {current[r]}]
       \/ UNCHANGED outstanding
    /\ UNCHANGED <<rowVars, letterVars, queue>>

\* withPublishTimeout rejects first; the add is left to its fate.
PublishTimedOut(r) ==
    /\ pc[r] = "publishing"
    /\ timer[r] = PublishTimeout
    /\ Fault
    /\ Goto(r, "retrying")
    /\ UNCHANGED <<rowVars, letterVars, queue, outstanding>>

\* ackOutboxEvent; finding nothing to update it throws WorkLeaseLostError,
\* which leaves the loop and gives up the rest of the batch.
Ack(r) ==
    /\ pc[r] = "acking"
    /\ \/ /\ Holds(r, current[r])
          /\ AckRow(current[r])
          /\ NextEvent(r)
       \/ /\ ~Holds(r, current[r])
          /\ Abandon(r)
          /\ UNCHANGED <<rowVars, letterVars>>
    /\ UNCHANGED <<queue, outstanding, faults>>

\* The database call fails, with or without its effect; any error that is not
\* a lost lease is answered with a retry.
AckFails(r) ==
    /\ pc[r] = "acking"
    /\ Fault
    /\ \/ Holds(r, current[r]) /\ AckRow(current[r])
       \/ UNCHANGED <<rowVars, letterVars>>
    /\ Goto(r, "retrying")
    /\ UNCHANGED <<queue, outstanding>>

Retry(r) ==
    /\ pc[r] = "retrying"
    /\ \/ /\ Holds(r, current[r])
          /\ RetryRow(current[r])
          /\ NextEvent(r)
       \/ /\ ~Holds(r, current[r])
          /\ Abandon(r)
          /\ UNCHANGED <<rowVars, letterVars>>
    /\ UNCHANGED <<queue, outstanding, faults>>

\* An error of the retry itself escapes publishOnce.
RetryFails(r) ==
    /\ pc[r] = "retrying"
    /\ Fault
    /\ \/ Holds(r, current[r]) /\ RetryRow(current[r])
       \/ UNCHANGED <<rowVars, letterVars>>
    /\ Abandon(r)
    /\ UNCHANGED <<queue, outstanding>>

\* The process dies and is started again; of its unanswered calls only those on
\* the way to the queue still take effect.
Crash(r) ==
    /\ pc[r] # "idle" \/ outstanding[r] # {}
    /\ Fault
    /\ Abandon(r)
    /\ \E S \in SUBSET outstanding[r] : outstanding' = [outstanding EXCEPT ![r] = S]
    /\ UNCHANGED <<rowVars, letterVars, queue>>

WithinDeadline == \A r \in Relay : pc[r] = "publishing" => timer[r] < PublishTimeout

\* A tick passes, never beyond the deadline of a publish.
Tick ==
    /\ WithinDeadline
    /\ leaseLeft' = [e \in Event |-> IF leaseLeft[e] = 0 THEN 0 ELSE leaseLeft[e] - 1]
    /\ availableIn' = [e \in Event |-> IF availableIn[e] = 0 THEN 0 ELSE availableIn[e] - 1]
    /\ timer' = [r \in Relay |-> IF pc[r] = "publishing" THEN timer[r] + 1 ELSE timer[r]]
    /\ UNCHANGED <<phase, attemptCount, leaseToken, withdrawn, letterVars, queue,
                   pc, held, current, outstanding, faults>>

-----------------------------------------------------------------------------
RelayStep(r) ==
    \/ Claim(r) \/ StartPublish(r) \/ EndBatch(r)
    \/ PublishOk(r) \/ PublishTimedOut(r) \/ Ack(r) \/ Retry(r)

RelayFault(r) ==
    \/ ClaimLost(r) \/ PublishError(r) \/ AckFails(r) \/ RetryFails(r) \/ Crash(r)

Next ==
    \/ \E e \in Event : Append(e) \/ Withdraw(e) \/ WorkerLetter(e)
    \/ \E e, f \in Event : Replay(e, f)
    \/ \E r \in Relay : RelayStep(r) \/ RelayFault(r)
    \/ \E r \in Relay, e \in Event : Land(r, e)
    \/ Tick

Spec == Init /\ [][Next]_outboxVars

\* The claim of one row; the pipeline states its fairness.
ClaimOf(r, e) == Claim(r) /\ held'[r][e] # 0

-----------------------------------------------------------------------------
(***************************************************************************)
(* What the outbox promises.                                               *)
(***************************************************************************)
Settled(e) == phase[e] \in {"published", "terminal"}

\* A row marked published has its job in the queue: whatever timeouts, lost
\* leases and failed calls came between, the mark is never set by a relay whose
\* own add did not take effect.
PublishedIsQueued == \A e \in Event : phase[e] = "published" => e \in queue

\* A row is closed without being published only when it was withdrawn or ran
\* out of attempts, and in the latter case a dead letter is there to replay; no
\* other row has a dead letter of the relay.  A withdrawn row stays closed, though
\* the relay that held it at the withdrawal may still answer for it.
ClosedWithReason ==
    \A e \in Event :
        /\ phase[e] = "terminal" =>
              e \in withdrawn \/ (deadLetter[e] # None /\ attemptCount[e] >= MaxAttempts)
        /\ deadLetter[e] = QueueUnavailable =>
              phase[e] = "terminal" /\ attemptCount[e] >= MaxAttempts
        /\ e \in withdrawn => phase[e] = "terminal"

\* However late their statements arrive, two relays never both pass the token
\* test on one row.
SingleHolder ==
    \A r1, r2 \in Relay, e \in Event : Holds(r1, e) /\ Holds(r2, e) => r1 = r2

\* A row nobody holds always has an attempt left: a holder that used up the
\* last one closes the row instead of giving it back.
FreeRowHasBudget ==
    \A e \in Event : phase[e] = "pending" /\ leaseToken[e] = 0 =>
        attemptCount[e] < MaxAttempts

\* A dead letter yields at most one replay, and is marked exactly when it has.
ReplayedOnce ==
    /\ \A e \in Event : e \in replayed <=> \E f \in Event : replayOf[f] = e
    /\ \A f, g \in Event : replayOf[f] = replayOf[g] /\ replayOf[f] # None => f = g

\* An open row leaves that state only by the relay that holds its latest token
\* and is working on it, or by the withdrawal of its work.
OnlyHolderSettles ==
    [][\A e \in Event : phase[e] = "pending" /\ phase'[e] # "pending" =>
          \/ \E r \in Relay : current[r] = e /\ held[r][e] = leaseToken[e]
          \/ e \in withdrawn' \ withdrawn]_outboxVars

\* A settled row is never reopened, claimed or given another verdict, though
\* relays with old claims and late replies are still about.
SettledForGood ==
    [][\A e \in Event : Settled(e) =>
          phase'[e] = phase[e] /\ attemptCount'[e] = attemptCount[e]]_outboxVars

\* What the relay's constructor and its test say of the publish timeout: it ends
\* a publish while the lease on the row still runs.  It does not hold for rows
\* that share the lease of a batch.
PublishWithinLease ==
    \A r \in Relay : pc[r] = "publishing" => leaseLeft[current[r]] > 0

-----------------------------------------------------------------------------
(***************************************************************************)
(* Why it does: the inductive invariant the proofs rest on.                *)
(***************************************************************************)

\* Tokens are never ahead of the claims that drew them, and no two relays ever
\* hold the same token of a row.
TokensFresh ==
    /\ \A e \in Event : leaseToken[e] <= attemptCount[e]
    /\ \A r \in Relay, e \in Event : held[r][e] <= attemptCount[e]
    /\ \A r1, r2 \in Relay, e \in Event :
          held[r1][e] = held[r2][e] /\ held[r1][e] # 0 => r1 = r2

\* The add of the event a relay is publishing is under way or has landed, and
\* has landed when the relay goes on to acknowledge it.
AddsTracked ==
    \A r \in Relay :
        /\ pc[r] = "publishing" => current[r] \in queue \cup outstanding[r]
        /\ pc[r] = "acking" => current[r] \in queue

\* A row that was never appended has no history.
AbsentIsBlank ==
    \A e \in Event : phase[e] = "absent" =>
        attemptCount[e] = 0 /\ leaseLeft[e] = 0 /\ replayOf[e] = None

OutboxInv ==
    /\ TokensFresh /\ AddsTracked /\ AbsentIsBlank
    /\ PublishedIsQueued /\ ClosedWithReason /\ FreeRowHasBudget /\ ReplayedOnce

-----------------------------------------------------------------------------
\* The rows as leased work: published, or closed by a relay that gave up or by
\* the withdrawal of the work.
RowVerdict(e) ==
    CASE phase[e] = "published" -> "published"
      [] phase[e] = "terminal" -> "closed"
      [] OTHER -> None

Leased == INSTANCE LeasedWork WITH
    Item <- Event,
    Outcome <- {"published", "closed"},
    Withdrawn <- "closed",
    issued <- attemptCount,
    holder <- [e \in Event |-> IF phase[e] = "pending" THEN leaseToken[e] ELSE 0],
    live <- [e \in Event |-> phase[e] = "pending" /\ leaseLeft[e] > 0],
    verdict <- [e \in Event |-> RowVerdict(e)]

\* The outbox implements LeasedWork.
ImplementsLeasedWork == Leased!Spec
=============================================================================
