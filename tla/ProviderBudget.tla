--------------------------- MODULE ProviderBudget ---------------------------
(***************************************************************************)
(* Reservations of paid caption work.  A learning intake                   *)
(* (learning-item.service.ts) reserves audio seconds and cost for a video, *)
(* or joins the work another user has reserved for it, then attaches its   *)
(* study context, and gives the reservation back when that fails           *)
(* (postgres-provider-budget.repository.ts).  The worker that makes the    *)
(* captions commits the work at its actual cost or fails it                *)
(* (postgres-caption-artifact.repository.ts).                              *)
(*                                                                         *)
(* Transactions run at READ COMMITTED.  A step is a statement together     *)
(* with what its transaction does under the locks it holds; a statement    *)
(* that may wait for a row lock is two steps, the reading of its snapshot  *)
(* and the writing.  A wait is a guard.  Prices are in units of one audio  *)
(* second, so that an estimate is the requested seconds, and all days are  *)
(* of one month.                                                           *)
(***************************************************************************)
EXTENDS Naturals, FiniteSets, FiniteSetsExt

CONSTANTS
    User,
    Key,                 \* work keys: provider, video, range and purpose
    Work,                \* identities of provider_work_reservations
    Request,             \* those who run LearningItemService.start, call after call
    Worker,              \* workers that execute caption jobs
    Seconds,             \* Seconds[k]: the audio seconds that key k asks for
    MaxUserSeconds,      \* maxUserDailyAudioSeconds
    MaxDailySeconds,     \* maxGlobalDailyAudioSeconds
    MaxDailyCost,        \* maxGlobalDailyCostMicrounits
    MaxMonthlyCost,      \* maxGlobalMonthlyCostMicrounits
    MaxWorks,            \* maxConcurrentWorks
    MaxWorksPerUser,     \* maxConcurrentWorksPerUser
    None,                \* no row, no request
    LastDay              \* bound: days that are explored

ASSUME BudgetConstants ==
    /\ Seconds \in [Key -> Nat \ {0}]
    /\ MaxUserSeconds \in Nat /\ MaxDailySeconds \in Nat
    /\ MaxDailyCost \in Nat /\ MaxMonthlyCost \in Nat
    /\ MaxWorks \in Nat /\ MaxWorksPerUser \in Nat
    /\ LastDay \in Nat \ {0}
    /\ IsFiniteSet(Work) /\ IsFiniteSet(User)
    /\ None \notin Work \cup Key \cup User

VARIABLES
    today,      \* the date of the clock
    workState,  \* workState[w]: absent, reserved, committed or released
    workKey,    \* work_key of w
    workDay,    \* usage_day of w
    actual,     \* actual_cost_microunits of w
    event,      \* outbox event of w: none, open, taken by the relay, withdrawn
    subState,   \* subState[w][u]: absent, reserved, committed or released
    subDay,     \* usage_day of the subscription of u to w
    pc,         \* where each request is, idle between calls
    call,       \* the user, key and usage day of a request
    work,       \* the work it reserves from, None when it has to create it
    created,    \* subscriptionCreated
    op          \* op[k]: the statement worker k has under way, or None

workVars == <<workState, workKey, workDay, actual, event>>
subVars == <<subState, subDay>>
requestVars == <<pc, call, work, created>>
budgetVars == <<today, workVars, subVars, requestVars, op>>

Day == 1..LastDay
RowState == {"absent", "reserved", "committed", "released"}
Call == [user : User, key : Key, day : Day]
Operation == [kind : {"commit", "fail"}, work : Work, subs : SUBSET User]

ASSUME NoneIsNoCall == None \notin Call

RowTypes ==
    /\ workState \in [Work -> RowState]
    /\ workKey \in [Work -> Key \cup {None}]
    /\ workDay \in [Work -> Day]
    /\ actual \in [Work -> Nat]
    /\ event \in [Work -> {"none", "open", "taken", "withdrawn"}]
    /\ subState \in [Work -> [User -> RowState]]
    /\ subDay \in [Work -> [User -> Day]]

RequestTypes ==
    /\ pc \in [Request -> {"idle", "waiting", "admitted", "context", "attaching",
                           "charging", "compensating"}]
    /\ call \in [Request -> Call \cup {None}]
    /\ work \in [Request -> Work \cup {None}]
    /\ created \in [Request -> BOOLEAN]
    /\ \A q \in Request :
         /\ pc[q] = "idle" <=> call[q] = None
         /\ pc[q] \in {"context", "attaching", "charging", "compensating"} => work[q] # None
         /\ pc[q] = "compensating" => created[q]

TypeOK ==
    /\ today \in Day
    /\ RowTypes
    /\ RequestTypes
    /\ op \in [Worker -> Operation \cup {None}]

Init ==
    /\ today = 1
    /\ workState = [w \in Work |-> "absent"]
    /\ workKey = [w \in Work |-> None]
    /\ workDay = [w \in Work |-> 1]
    /\ actual = [w \in Work |-> 0]
    /\ event = [w \in Work |-> "none"]
    /\ subState = [w \in Work |-> [u \in User |-> "absent"]]
    /\ subDay = [w \in Work |-> [u \in User |-> 1]]
    /\ pc = [q \in Request |-> "idle"]
    /\ call = [q \in Request |-> None]
    /\ work = [q \in Request |-> None]
    /\ created = [q \in Request |-> FALSE]
    /\ op = [k \in Worker |-> None]

-----------------------------------------------------------------------------
(***************************************************************************)
(* What the statements read.                                               *)
(***************************************************************************)
Active == {"reserved", "committed"}

\* At most one: provider_work_reservations_active_work_key is unique.
ActiveWorks(k) == {w \in Work : workState[w] \in Active /\ workKey[w] = k}

Reservers(w) == {u \in User : subState[w][u] = "reserved"}

\* Committed at no cost, a work counts for nothing.
Free(w) == workState[w] = "committed" /\ actual[w] = 0

Cost(w) == IF workState[w] = "committed" THEN actual[w] ELSE Seconds[workKey[w]]

WorksOf(d) == {w \in Work : workState[w] \in Active /\ workDay[w] = d}

DailySeconds(d) ==
    MapThenSumSet(LAMBDA w : Seconds[workKey[w]], {w \in WorksOf(d) : ~Free(w)})

DailyCost(d) == MapThenSumSet(Cost, WorksOf(d))

MonthlyCost == MapThenSumSet(Cost, {w \in Work : workState[w] \in Active})

UserSeconds(u, d) ==
    MapThenSumSet(LAMBDA w : Seconds[workKey[w]],
        {w \in Work : subState[w][u] \in Active /\ subDay[w][u] = d /\ ~Free(w)})

ReservedWorks == {w \in Work : workState[w] = "reserved"}

ReservedBy(u) == {w \in Work : subState[w][u] = "reserved"}

\* Mutant: a work that is joined is not counted for its user.
UserFitsUnlessJoined(u, d, n, joins) == joins \/ UserSeconds(u, d) + n <= MaxUserSeconds

UserFits(u, d, n, joins) == UserSeconds(u, d) + n <= MaxUserSeconds

\* Mutant: one more when the limit is reached.
DayFitsBarely(d, n) == DailySeconds(d) <= MaxDailySeconds /\ DailyCost(d) <= MaxDailyCost

DayFits(d, n) == DailySeconds(d) + n <= MaxDailySeconds /\ DailyCost(d) + n <= MaxDailyCost

MonthFits(n) == MonthlyCost + n <= MaxMonthlyCost

SlotsFree(u, joins) ==
    /\ joins \/ Cardinality(ReservedWorks) < MaxWorks
    /\ Cardinality(ReservedBy(u)) < MaxWorksPerUser

\* assertAvailable: whoever joins a work costs nothing but his own allowance.
Available(c, joins) ==
    /\ joins \/ (MonthFits(Seconds[c.key]) /\ DayFits(c.day, Seconds[c.key]))
    /\ UserFits(c.user, c.day, Seconds[c.key], joins)
    /\ SlotsFree(c.user, joins)

\* Mutant: the advisory lock is not taken.
NoDayLock(d) == TRUE

\* pg_advisory_xact_lock is named for the usage day of the request.
DayLockFree(d) == \A q \in Request : pc[q] = "admitted" => call[q].day # d

\* Mutant: the work is read without FOR UPDATE.
NoRowLock(w) == TRUE

\* Nobody holds the row of w from SELECT ... FOR UPDATE to the commit.
RowFree(w) == \A q \in Request : pc[q] = "admitted" => work[q] # w

-----------------------------------------------------------------------------
(***************************************************************************)
(* A request: LearningItemService.start and the transactions it runs.  Any *)
(* of its calls may fail, and its process may die, at any time.            *)
(***************************************************************************)
Goto(q, label) == pc' = [pc EXCEPT ![q] = label] /\ UNCHANGED <<call, work, created>>

\* start returns or throws.
Return(q) ==
    /\ pc' = [pc EXCEPT ![q] = "idle"]
    /\ call' = [call EXCEPT ![q] = None]
    /\ work' = [work EXCEPT ![q] = None]
    /\ created' = [created EXCEPT ![q] = FALSE]

\* reserve takes the date before it waits for a connection and the lock.
Begin(q) ==
    /\ pc[q] = "idle"
    /\ \E u \in User, k \in Key :
         call' = [call EXCEPT ![q] = [user |-> u, key |-> k, day |-> today]]
    /\ pc' = [pc EXCEPT ![q] = "waiting"]
    /\ UNCHANGED <<today, workVars, subVars, work, created, op>>

\* The user has an active reservation already: it is returned as joined.  One
\* that was read just before it was given back is returned as well, and ends
\* like Die when the context cannot be attached to it.
Rejoin(q) ==
    /\ pc[q] = "waiting"
    /\ DayLockFree(call[q].day)
    /\ \E w \in ActiveWorks(call[q].key) :
         /\ RowFree(w)
         /\ subState[w][call[q].user] \in Active
         /\ work' = [work EXCEPT ![q] = w]
    /\ pc' = [pc EXCEPT ![q] = "context"]
    /\ UNCHANGED <<today, workVars, subVars, call, created, op>>

\* With the day and, if there is one, the active work of the key locked, the
\* limits are read and judged.  The locks are kept until Insert.
Admit(q) ==
    LET works == ActiveWorks(call[q].key)
    IN
    /\ pc[q] = "waiting"
    /\ DayLockFree(call[q].day)
    /\ \A w \in works : RowFree(w) /\ subState[w][call[q].user] \notin Active
    /\ \/ /\ Available(call[q], works # {})
          /\ pc' = [pc EXCEPT ![q] = "admitted"]
          /\ \E w \in works \cup {None} :
               /\ w = None => works = {}
               /\ work' = [work EXCEPT ![q] = w]
          /\ UNCHANGED <<call, created>>
       \/ ~Available(call[q], works # {}) /\ Return(q)
    /\ UNCHANGED <<today, workVars, subVars, op>>

\* createWork: the reservation and its outbox event.
CreateWork(w, c) ==
    /\ workState[w] = "absent"
    /\ workState' = [workState EXCEPT ![w] = "reserved"]
    /\ workKey' = [workKey EXCEPT ![w] = c.key]
    /\ workDay' = [workDay EXCEPT ![w] = c.day]
    /\ event' = [event EXCEPT ![w] = "open"]
    /\ UNCHANGED actual

Subscribe(w, c) ==
    /\ subState' = [subState EXCEPT ![w][c.user] = "reserved"]
    /\ subDay' = [subDay EXCEPT ![w][c.user] = c.day]

\* The rows are inserted and committed.  When the answer to the COMMIT is
\* lost, reserve throws and nothing is given back.
Insert(q) ==
    /\ pc[q] = "admitted"
    /\ \E w \in Work :
         /\ \/ work[q] = None /\ ActiveWorks(call[q].key) = {} /\ CreateWork(w, call[q])
            \/ work[q] = w /\ subState[w][call[q].user] = "absent" /\ UNCHANGED workVars
         /\ Subscribe(w, call[q])
         /\ \/ /\ work' = [work EXCEPT ![q] = w]
               /\ created' = [created EXCEPT ![q] = TRUE]
               /\ pc' = [pc EXCEPT ![q] = "context"]
               /\ UNCHANGED call
            \/ Return(q)
    /\ UNCHANGED <<today, op>>

\* A unique index refuses the rows: a request of another day has created a work
\* of the key, or the user once gave this very subscription back.
InsertRefused(q) ==
    /\ pc[q] = "admitted"
    /\ \/ work[q] = None /\ ActiveWorks(call[q].key) # {}
       \/ work[q] # None /\ subState[work[q]][call[q].user] # "absent"
    /\ Return(q)
    /\ UNCHANGED <<today, workVars, subVars, op>>

\* What start does about an error after the reservation.
GiveUp(q) == IF created[q] THEN Goto(q, "compensating") ELSE Return(q)

ContextFails(q) ==
    /\ pc[q] = "context"
    /\ GiveUp(q)
    /\ UNCHANGED <<today, workVars, subVars, op>>

Attachable(q) == subState[work[q]][call[q].user] \in Active

\* The UPDATE of attachContext reads the work as it is when it starts.
AttachRead(q) ==
    /\ pc[q] = "context"
    /\ \/ /\ Attachable(q)
          /\ \/ workState[work[q]] = "reserved" /\ Goto(q, "attaching")
             \/ workState[work[q]] = "committed" /\ Goto(q, "charging")
       \/ ~(Attachable(q) /\ workState[work[q]] \in Active) /\ GiveUp(q)
    /\ UNCHANGED <<today, workVars, subVars, op>>

\* Then it locks the subscription and looks at that row again, and at that row
\* only.  It may throw, with its effect or without.
AttachWrite(q) ==
    /\ pc[q] \in {"attaching", "charging"}
    /\ \/ /\ Attachable(q)
          /\ IF pc[q] = "charging"
               THEN subState' = [subState EXCEPT ![work[q]][call[q].user] = "committed"]
               ELSE UNCHANGED subState
          /\ Return(q) \/ GiveUp(q)
       \/ GiveUp(q) /\ UNCHANGED subState
    /\ UNCHANGED <<today, workVars, subDay, op>>

\* The NOT EXISTS of releaseSubscription, u's own subscription being released.
NobodyLeft(w, u) == Reservers(w) \subseteq {u}

\* Mutant: the event is left to the relay.
LeaveEvent(w) == event[w]

\* An event that is not published yet is closed; a relay that has taken it by
\* then does not notice.
CloseEvent(w) == IF event[w] = "open" THEN "withdrawn" ELSE event[w]

\* The rows that releaseSubscription finds under the lock of the work.
Releasable(w, u) == workState[w] = "reserved" /\ subState[w][u] = "reserved"

Release(w, u) ==
    /\ subState' = [subState EXCEPT ![w][u] = "released"]
    /\ IF NobodyLeft(w, u)
         THEN /\ workState' = [workState EXCEPT ![w] = "released"]
              /\ event' = [event EXCEPT ![w] = CloseEvent(w)]
         ELSE UNCHANGED <<workState, event>>
    /\ UNCHANGED <<workKey, workDay, actual, subDay>>

\* releaseSubscription.  With nothing to release, or nothing done because the
\* call fails (as the victim of a deadlock with failGeneration, for one, which
\* locks the rows in the other order), start throws
\* LEARNING_INTAKE_COMPENSATION_FAILED.
Compensate(q) ==
    /\ pc[q] = "compensating"
    /\ \/ /\ RowFree(work[q])
          /\ Releasable(work[q], call[q].user)
          /\ Release(work[q], call[q].user)
       \/ UNCHANGED <<workVars, subVars>>
    /\ Return(q)
    /\ UNCHANGED <<today, op>>

\* The process dies, or reserve fails and is rolled back: nothing is
\* compensated.
Die(q) ==
    /\ pc[q] # "idle"
    /\ Return(q)
    /\ UNCHANGED <<today, workVars, subVars, op>>

-----------------------------------------------------------------------------
(***************************************************************************)
(* The relay and the workers.                                              *)
(***************************************************************************)

\* A relay claims the event, after which its job may run at any time.
TakeEvent(w) ==
    /\ event[w] = "open"
    /\ event' = [event EXCEPT ![w] = "taken"]
    /\ UNCHANGED <<today, workState, workKey, workDay, actual, subVars, requestVars,
                   op>>

\* The job of w reaches commitWork or failGeneration under a valid lease: the
\* statement reads a reserved work and its reserved subscriptions.
Start(k) ==
    /\ op[k] = None
    /\ \E w \in Work, kind \in {"commit", "fail"} :
         /\ event[w] = "taken"
         /\ workState[w] = "reserved"
         /\ op' = [op EXCEPT ![k] = [kind |-> kind, work |-> w, subs |-> Reservers(w)]]
    /\ UNCHANGED <<today, workVars, subVars, requestVars>>

\* Of the subscriptions it has read a statement changes those still reserved.
Settle(w, S, state) ==
    subState' = [subState EXCEPT ![w] =
        [u \in User |-> IF u \in S /\ subState[w][u] = "reserved" THEN state
                                                                  ELSE subState[w][u]]]

StillReserved(w) == workState[w] = "reserved"

\* commitWork: captions that were found cost nothing, those made by
\* transcription at most the seconds asked for.
Commit(k) ==
    LET w == op[k].work
    IN
    /\ op[k] # None
    /\ op[k].kind = "commit"
    /\ RowFree(w)
    /\ IF StillReserved(w)
         THEN /\ workState' = [workState EXCEPT ![w] = "committed"]
              /\ \E n \in 0..Seconds[workKey[w]] : actual' = [actual EXCEPT ![w] = n]
              /\ Settle(w, op[k].subs, "committed")
         ELSE UNCHANGED <<workState, actual, subState>>
    /\ op' = [op EXCEPT ![k] = None]
    /\ UNCHANGED <<today, workKey, workDay, event, subDay, requestVars>>

\* failGeneration: the subscriptions are released first, whatever becomes of the
\* work.
Fail(k) ==
    LET w == op[k].work
    IN
    /\ op[k] # None
    /\ op[k].kind = "fail"
    /\ RowFree(w)
    /\ Settle(w, op[k].subs, "released")
    /\ IF StillReserved(w) THEN workState' = [workState EXCEPT ![w] = "released"]
                           ELSE UNCHANGED workState
    /\ op' = [op EXCEPT ![k] = None]
    /\ UNCHANGED <<today, workKey, workDay, actual, event, subDay, requestVars>>

\* The statement is rolled back, as the victim of a deadlock for one.
Abort(k) ==
    /\ op[k] # None
    /\ op' = [op EXCEPT ![k] = None]
    /\ UNCHANGED <<today, workVars, subVars, requestVars>>

NextDay ==
    /\ today < LastDay
    /\ today' = today + 1
    /\ UNCHANGED <<workVars, subVars, requestVars, op>>

-----------------------------------------------------------------------------
RequestStep(q) ==
    \/ Begin(q) \/ Rejoin(q) \/ Admit(q) \/ Insert(q) \/ InsertRefused(q)
    \/ ContextFails(q) \/ AttachRead(q) \/ AttachWrite(q) \/ Compensate(q) \/ Die(q)

WorkerStep(k) == Start(k) \/ Commit(k) \/ Fail(k) \/ Abort(k)

Next ==
    \/ \E q \in Request : RequestStep(q)
    \/ \E k \in Worker : WorkerStep(k)
    \/ \E w \in Work : TakeEvent(w)
    \/ NextDay

Spec == Init /\ [][Next]_budgetVars

-----------------------------------------------------------------------------
(***************************************************************************)
(* Properties.                                                             *)
(***************************************************************************)

\* No user's reservations of a day exceed his allowance, though the works he
\* joined may be paid for, committed or given up by others at any time.
UserWithinDay == \A u \in User, d \in Day : UserSeconds(u, d) <= MaxUserSeconds

\* Nor do the works of a day exceed the limits of the day, though requests run
\* side by side and the works of the day before are still open.
WorksWithinDay ==
    \A d \in Day : DailySeconds(d) <= MaxDailySeconds /\ DailyCost(d) <= MaxDailyCost

\* The works of the month stay within the monthly limit.
WorksWithinMonth == MonthlyCost <= MaxMonthlyCost

\* Nobody exceeds the limits of concurrent works.
SlotsWithinLimits ==
    /\ Cardinality(ReservedWorks) <= MaxWorks
    /\ \A u \in User : Cardinality(ReservedBy(u)) <= MaxWorksPerUser

\* The limits that span days, whoever joins, commits or releases meanwhile.
\* They hold until a request crosses midnight: the lock is one of the day,
\* and two requests that took theirs on either side do not exclude each
\* other.
ServiceWithinLimits == today = 1 => WorksWithinMonth /\ SlotsWithinLimits

\* A reserved work always has somebody waiting for it: the last one to go takes
\* the work along, whichever of request and worker that is.
ReservedWorkIsWanted == \A w \in Work : workState[w] = "reserved" => Reservers(w) # {}

\* The relay is never offered the event of a work that nobody wants any more.
OpenEventIsWanted == \A w \in Work : event[w] = "open" => workState[w] = "reserved"

\* A subscriber is charged only for work that was carried out, and a work that
\* a request still holds by its row lock is not settled under it.
ChargedForWorkDone ==
    /\ \A w \in Work, u \in User : subState[w][u] = "committed" => workState[w] = "committed"
    /\ \A q \in Request :
         pc[q] = "admitted" /\ work[q] # None => workState[work[q]] \in Active

\* A request that was handed the reservation of another request of its user, a
\* double click for one, never takes that from it: only the request that made a
\* reservation gives it back, or the worker that failed the work.
OnlyCreatorGivesBack ==
    [][\A w \in Work, u \in User : subState[w][u] = "reserved" /\ subState'[w][u] = "released" =>
         \/ \E q \in Request : created[q] /\ work[q] = w /\ call[q].user = u
         \/ \E k \in Worker : op[k] # None /\ op[k].work = w /\ op[k].kind = "fail"]_budgetVars

\* What is settled stays settled: two workers of one job, a late compensation
\* and a late context may still act on the rows.
SettledStays ==
    [][\A w \in Work :
         /\ workState[w] \in {"committed", "released"} =>
               workState'[w] = workState[w] /\ actual'[w] = actual[w]
         /\ \A u \in User : subState[w][u] \in {"committed", "released"} =>
               subState'[w][u] = subState[w][u]]_budgetVars

\* The subscription a request has read as paid for is, whenever it writes that
\* down, and a job runs only on an event the relay has taken.
ReadsHold ==
    /\ \A q \in Request : pc[q] = "charging" => workState[work[q]] = "committed"
    /\ \A k \in Worker : op[k] # None => event[op[k].work] = "taken"

\* An identity that is not in use has left nothing behind.
AbsentIsBlank ==
    \A w \in Work : workState[w] = "absent" =>
        event[w] = "none" /\ \A u \in User : subState[w][u] = "absent"

RowInv ==
    /\ ReservedWorkIsWanted /\ OpenEventIsWanted /\ ChargedForWorkDone
    /\ ReadsHold /\ AbsentIsBlank

\* What the test of a concurrent release and the test of a failed generation
\* expect: a released work has no active subscription.  It does not hold: see
\* Start and Fail.
ReleasedWorkHasNoSubscriber ==
    \A w \in Work, u \in User : workState[w] = "released" => subState[w][u] \notin Active

\* What the test of the compensation expects: a subscription that start is about
\* to give back is found by releaseSubscription, unless it is settled already.
\* It does not hold: see Releasable.
CompensationFinds ==
    \A q \in Request :
        pc[q] = "compensating" /\ subState[work[q]][call[q].user] = "reserved" =>
            Releasable(work[q], call[q].user)
=============================================================================
