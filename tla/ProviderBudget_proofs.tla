----------------------- MODULE ProviderBudget_proofs -----------------------
(***************************************************************************)
(* Proofs about ProviderBudget: types, and what binds the rows of works,   *)
(* subscriptions and events together, and the limits, for any users,       *)
(* works, requests, workers and limits.                                    *)
(***************************************************************************)
EXTENDS Integers, ProviderBudget, FiniteSetTheorems, WellFoundedInduction, TLAPS

-----------------------------------------------------------------------------
\* A request goes on or returns.
LEMMA MoveTypes ==
    ASSUME RequestTypes, NEW q \in Request, call[q] # None,
           NEW label \in {"attaching", "charging", "compensating"},
           \/ Return(q)
           \/ Goto(q, label) /\ work[q] # None /\ (label = "compensating" => created[q])
    PROVE  RequestTypes'
<1> USE DEF RequestTypes
<1>1. CASE Return(q)
  BY <1>1 DEF Return
<1>2. CASE Goto(q, label) /\ work[q] # None /\ (label = "compensating" => created[q])
  <2>1. pc[q] # "idle"
    OBVIOUS
  <2>2. QED
    BY <1>2, <2>1 DEF Goto
<1>3. QED
  BY <1>1, <1>2

LEMMA GiveUpTypes ==
    ASSUME RequestTypes, NEW q \in Request, call[q] # None, work[q] # None, GiveUp(q)
    PROVE  RequestTypes'
BY MoveTypes DEF GiveUp

\* What the actions of a request do to its own state.
LEMMA RequestTypesStep ==
    ASSUME TypeOK, NEW q \in Request, RequestStep(q)
    PROVE  RequestTypes'
<1> USE DEF TypeOK
<1>0. ASSUME pc[q] # "idle" PROVE call[q] # None
  BY <1>0 DEF RequestTypes
<1>1. CASE Begin(q)
  <2>1. PICK u \in User, k \in Key :
          call' = [call EXCEPT ![q] = [user |-> u, key |-> k, day |-> today]]
    BY <1>1 DEF Begin
  <2>2. [user |-> u, key |-> k, day |-> today] \in Call
    BY DEF Call
  <2>3. [user |-> u, key |-> k, day |-> today] # None
    BY <2>2, NoneIsNoCall
  <2>4. QED
    BY <1>1, <2>1, <2>2, <2>3 DEF Begin, RequestTypes
<1>2. CASE Rejoin(q)
  <2>1. PICK w \in ActiveWorks(call[q].key) : work' = [work EXCEPT ![q] = w]
    BY <1>2 DEF Rejoin
  <2>2. w \in Work /\ w # None
    BY BudgetConstants DEF ActiveWorks
  <2>3. QED
    BY <1>2, <2>1, <2>2 DEF Rejoin, RequestTypes
<1>3. CASE Admit(q)
  <2>1. CASE Return(q)
    BY <1>0, <1>3, <2>1, MoveTypes DEF Admit
  <2>2. CASE ~Return(q)
    <3>1. PICK w \in ActiveWorks(call[q].key) \cup {None} : work' = [work EXCEPT ![q] = w]
      BY <1>3, <2>2 DEF Admit
    <3>2. w \in Work \cup {None}
      BY DEF ActiveWorks
    <3>3. pc' = [pc EXCEPT ![q] = "admitted"] /\ UNCHANGED <<call, created>> /\ pc[q] = "waiting"
      BY <1>3, <2>2 DEF Admit
    <3>4. QED
      BY <3>1, <3>2, <3>3 DEF RequestTypes
  <2>3. QED
    BY <2>1, <2>2
<1>4. CASE Insert(q)
  <2>1. CASE Return(q)
    BY <1>0, <1>4, <2>1, MoveTypes DEF Insert
  <2>2. CASE ~Return(q)
    <3>1. PICK w \in Work : work' = [work EXCEPT ![q] = w]
      BY <1>4, <2>2 DEF Insert
    <3>2. /\ pc' = [pc EXCEPT ![q] = "context"] /\ UNCHANGED call /\ pc[q] = "admitted"
          /\ created' = [created EXCEPT ![q] = TRUE]
      BY <1>4, <2>2 DEF Insert
    <3>3. w # None
      BY BudgetConstants
    <3>4. QED
      BY <3>1, <3>2, <3>3 DEF RequestTypes
  <2>3. QED
    BY <2>1, <2>2
<1>5. CASE InsertRefused(q) \/ Compensate(q) \/ Die(q)
  BY <1>0, <1>5, MoveTypes DEF InsertRefused, Compensate, Die
<1>6. ASSUME pc[q] \in {"context", "attaching", "charging"} PROVE work[q] # None
  BY <1>6 DEF RequestTypes
<1>7. CASE ContextFails(q)
  BY <1>0, <1>6, <1>7, GiveUpTypes DEF ContextFails
<1>8. CASE AttachRead(q)
  BY <1>0, <1>6, <1>8, GiveUpTypes, MoveTypes DEF AttachRead
<1>9. CASE AttachWrite(q)
  BY <1>0, <1>6, <1>9, GiveUpTypes, MoveTypes DEF AttachWrite
<1>10. QED
  BY <1>1, <1>2, <1>3, <1>4, <1>5, <1>7, <1>8, <1>9 DEF RequestStep

\* What the statements do to the rows.
LEMMA RowTypesStep ==
    ASSUME TypeOK, [Next]_budgetVars
    PROVE  RowTypes'
<1> USE DEF TypeOK, RowTypes, RowState
<1>1. CASE UNCHANGED <<workVars, subVars>>
  BY <1>1 DEF workVars, subVars
<1>2. ASSUME NEW q \in Request, Insert(q) PROVE RowTypes'
  <2>1. PICK w \in Work :
          /\ \/ CreateWork(w, call[q])
             \/ UNCHANGED workVars
          /\ Subscribe(w, call[q])
    BY <1>2 DEF Insert
  <2>2. call[q] \in Call
    BY <1>2 DEF Insert, RequestTypes
  <2>3. /\ workState' \in [Work -> RowState] /\ workKey' \in [Work -> Key \cup {None}]
        /\ workDay' \in [Work -> Day] /\ actual' \in [Work -> Nat]
        /\ event' \in [Work -> {"none", "open", "taken", "withdrawn"}]
    <3>1. CASE CreateWork(w, call[q])
      BY <2>2, <3>1 DEF CreateWork, Call
    <3>2. CASE UNCHANGED workVars
      BY <3>2 DEF workVars
    <3>3. QED
      BY <2>1, <3>1, <3>2
  <2>4. subState' \in [Work -> [User -> RowState]] /\ subDay' \in [Work -> [User -> Day]]
    BY <2>1, <2>2 DEF Subscribe, Call
  <2>5. QED
    BY <2>3, <2>4
<1>3. ASSUME NEW q \in Request, AttachWrite(q) PROVE RowTypes'
  <2>1. UNCHANGED workVars /\ UNCHANGED subDay
    BY <1>3 DEF AttachWrite
  <2>2. \/ UNCHANGED subState
        \/ subState' = [subState EXCEPT ![work[q]][call[q].user] = "committed"]
    BY <1>3 DEF AttachWrite
  <2>3. CASE UNCHANGED subState
    BY <2>1, <2>3 DEF workVars
  <2>4. CASE subState' = [subState EXCEPT ![work[q]][call[q].user] = "committed"]
    BY <2>1, <2>4 DEF workVars
  <2>5. QED
    BY <2>2, <2>3, <2>4
<1>4. ASSUME NEW q \in Request, Release(work[q], call[q].user) PROVE RowTypes'
  BY <1>4 DEF Release, CloseEvent
<1>5. ASSUME NEW w \in Work, TakeEvent(w) PROVE RowTypes'
  BY <1>5 DEF TakeEvent, subVars
<1>6. ASSUME NEW w \in Work, NEW S \in SUBSET User, NEW state \in RowState,
             Settle(w, S, state)
      PROVE  subState' \in [Work -> [User -> RowState]]
  BY <1>6 DEF Settle
<1>7. ASSUME NEW k \in Worker, op[k] # None
      PROVE op[k].work \in Work /\ op[k].subs \in SUBSET User
  BY <1>7 DEF Operation
<1>8. ASSUME NEW k \in Worker, Commit(k) PROVE RowTypes'
  <2>1. CASE StillReserved(op[k].work)
    <3>1. PICK n \in 0..Seconds[workKey[op[k].work]] :
            actual' = [actual EXCEPT ![op[k].work] = n]
      BY <1>8, <2>1 DEF Commit
    <3>2. QED
      BY <1>6, <1>7, <1>8, <2>1, <3>1 DEF Commit
  <2>2. CASE ~StillReserved(op[k].work)
    BY <1>8, <2>2 DEF Commit
  <2>3. QED
    BY <2>1, <2>2
<1>9. ASSUME NEW k \in Worker, Fail(k) PROVE RowTypes'
  BY <1>6, <1>7, <1>9 DEF Fail
<1>10. QED
  BY <1>1, <1>2, <1>3, <1>4, <1>5, <1>8, <1>9
  DEF Next, RequestStep, WorkerStep, budgetVars, Begin, Rejoin, Admit, InsertRefused,
      ContextFails, AttachRead, Compensate, Die, Start, Abort, NextDay

THEOREM TypeCorrect == Spec => []TypeOK
<1>1. Init => TypeOK
  BY BudgetConstants DEF Init, TypeOK, RowTypes, RequestTypes, RowState, Day
<1>2. TypeOK /\ [Next]_budgetVars => TypeOK'
  <2> SUFFICES ASSUME TypeOK, [Next]_budgetVars PROVE TypeOK'
    OBVIOUS
  <2>1. today' \in Day
    <3>1. CASE NextDay
      BY <3>1, BudgetConstants DEF TypeOK, Day, NextDay
    <3>2. ~NextDay => today' = today
      BY DEF Next, RequestStep, WorkerStep, budgetVars, Begin, Rejoin, Admit, Insert,
             InsertRefused, ContextFails, AttachRead, AttachWrite, Compensate, Die,
             TakeEvent, Start, Commit, Fail, Abort
    <3>3. QED
      BY <3>1, <3>2 DEF TypeOK
  <2>2. RequestTypes'
    <3>1. CASE UNCHANGED requestVars
      BY <3>1 DEF TypeOK, RequestTypes, requestVars
    <3>2. QED
      BY <3>1, RequestTypesStep
      DEF Next, WorkerStep, budgetVars, TakeEvent, Start, Commit, Fail, Abort, NextDay
  <2>3. op' \in [Worker -> Operation \cup {None}]
    <3> USE DEF TypeOK
    <3>1. ASSUME NEW k \in Worker, Start(k) PROVE op' \in [Worker -> Operation \cup {None}]
      BY <3>1 DEF Start, Operation, Reservers
    <3>2. ASSUME NEW k \in Worker, Commit(k) \/ Fail(k) \/ Abort(k)
          PROVE op' \in [Worker -> Operation \cup {None}]
      BY <3>2 DEF Commit, Fail, Abort
    <3>3. QED
      BY <3>1, <3>2
      DEF Next, RequestStep, WorkerStep, budgetVars, Begin, Rejoin, Admit, Insert,
          InsertRefused, ContextFails, AttachRead, AttachWrite, Compensate, Die,
          TakeEvent, NextDay
  <2>4. QED
    BY <2>1, <2>2, <2>3, RowTypesStep DEF TypeOK
<1>3. QED
  BY <1>1, <1>2, PTL DEF Spec

-----------------------------------------------------------------------------
\* A release that a compensating request carries out.
Released(q) ==
    /\ pc[q] = "compensating"
    /\ RowFree(work[q])
    /\ Releasable(work[q], call[q].user)
    /\ Release(work[q], call[q].user)

RowsKept == UNCHANGED <<workState, event, subState, actual>>

\* The steps that change a row.
LEMMA RowSteps ==
    ASSUME [Next]_budgetVars
    PROVE  \/ RowsKept
           \/ \E q \in Request : Insert(q) \/ AttachWrite(q) \/ (Released(q) /\ Compensate(q))
           \/ \E w \in Work : TakeEvent(w)
           \/ \E k \in Worker : Commit(k) \/ Fail(k)
<1>1. ASSUME NEW q \in Request, Compensate(q) PROVE Released(q) \/ RowsKept
  BY <1>1 DEF Compensate, Released, RowsKept, workVars, subVars
<1>2. QED
  BY <1>1
  DEF Next, RequestStep, WorkerStep, budgetVars, Begin, Rejoin, Admit, InsertRefused,
      ContextFails, AttachRead, Die, Start, Abort, NextDay, RowsKept, workVars, subVars

\* The work of a request past reserve.
LEMMA WorkKnown ==
    ASSUME TypeOK, NEW q \in Request,
           pc[q] \in {"context", "attaching", "charging", "compensating"}
    PROVE  work[q] \in Work /\ call[q].user \in User
BY DEF TypeOK, RequestTypes, Call

LEMMA OpKnown ==
    ASSUME TypeOK, NEW k \in Worker, op[k] # None
    PROVE  op[k].work \in Work /\ op[k].subs \in SUBSET User
BY DEF TypeOK, Operation

\* A work is created once, settled once, and that is all.
LEMMA WorkMoves ==
    ASSUME TypeOK, [Next]_budgetVars
    PROVE  \A w \in Work :
             \/ workState'[w] = workState[w]
             \/ workState[w] = "absent" /\ workState'[w] = "reserved"
             \/ workState[w] = "reserved" /\ workState'[w] \in {"committed", "released"}
<1> SUFFICES ASSUME NEW w \in Work
             PROVE \/ workState'[w] = workState[w]
                   \/ workState[w] = "absent" /\ workState'[w] = "reserved"
                   \/ workState[w] = "reserved" /\ workState'[w] \in {"committed", "released"}
  OBVIOUS
<1> USE DEF TypeOK, RowTypes
<1>1. ASSUME NEW q \in Request, Insert(q)
      PROVE \/ workState'[w] = workState[w]
            \/ workState[w] = "absent" /\ workState'[w] = "reserved"
  <2>1. PICK v \in Work : CreateWork(v, call[q]) \/ UNCHANGED workVars
    BY <1>1 DEF Insert
  <2>2. CASE CreateWork(v, call[q])
    BY <2>2 DEF CreateWork
  <2>3. CASE UNCHANGED workVars
    BY <2>3 DEF workVars
  <2>4. QED
    BY <2>1, <2>2, <2>3
<1>2. ASSUME NEW q \in Request, Released(q)
      PROVE \/ workState'[w] = workState[w]
            \/ workState[w] = "reserved" /\ workState'[w] = "released"
  BY <1>2 DEF Released, Releasable, Release
<1>3. ASSUME NEW k \in Worker, Commit(k) \/ Fail(k)
      PROVE \/ workState'[w] = workState[w]
            \/ workState[w] = "reserved" /\ workState'[w] \in {"committed", "released"}
  <2>1. CASE StillReserved(op[k].work)
    <3>1. \/ workState' = [workState EXCEPT ![op[k].work] = "committed"]
          \/ workState' = [workState EXCEPT ![op[k].work] = "released"]
      BY <1>3, <2>1 DEF Commit, Fail
    <3>2. QED
      BY <2>1, <3>1 DEF StillReserved
  <2>2. CASE ~StillReserved(op[k].work)
    BY <1>3, <2>2 DEF Commit, Fail
  <2>3. QED
    BY <2>1, <2>2
<1>4. QED
  BY RowSteps, <1>1, <1>2, <1>3 DEF RowsKept, AttachWrite, workVars, TakeEvent

\* An event is taken for good.
LEMMA TakenStays ==
    ASSUME TypeOK, AbsentIsBlank, [Next]_budgetVars, NEW w \in Work, event[w] = "taken"
    PROVE  event'[w] = "taken"
<1> USE DEF TypeOK, RowTypes
<1>1. ASSUME NEW q \in Request, Insert(q) PROVE event'[w] = "taken"
  BY <1>1 DEF Insert, CreateWork, workVars, AbsentIsBlank
<1>2. ASSUME NEW q \in Request, Released(q) PROVE event'[w] = "taken"
  BY <1>2 DEF Released, Release, CloseEvent
<1>3. ASSUME NEW v \in Work, TakeEvent(v) PROVE event'[w] = "taken"
  BY <1>3 DEF TakeEvent
<1>4. QED
  BY RowSteps, <1>1, <1>2, <1>3 DEF RowsKept, AttachWrite, workVars, Commit, Fail

\* What has been read stays true until it is used.
LEMMA ReadsStep ==
    ASSUME TypeOK, AbsentIsBlank, ReadsHold, [Next]_budgetVars
    PROVE  ReadsHold'
<1>1. ASSUME NEW q \in Request, pc'[q] = "charging"
      PROVE  \/ pc[q] = "charging" /\ work'[q] = work[q]
             \/ workState[work[q]] = "committed" /\ work'[q] = work[q] /\ work[q] \in Work
  <2> USE <1>1 DEF TypeOK, RequestTypes
  <2>1. ASSUME NEW r \in Request, Return(r) PROVE pc[q] = "charging" /\ work'[q] = work[q]
    BY <2>1 DEF Return
  <2>2. ASSUME NEW r \in Request, GiveUp(r) PROVE pc[q] = "charging" /\ work'[q] = work[q]
    BY <2>1, <2>2 DEF GiveUp, Goto
  <2>3. ASSUME NEW r \in Request, AttachRead(r)
        PROVE \/ pc[q] = "charging" /\ work'[q] = work[q]
              \/ workState[work[q]] = "committed" /\ work'[q] = work[q] /\ work[q] \in Work
    <3>1. CASE GiveUp(r)
      BY <2>2, <3>1
    <3>2. CASE Goto(r, "attaching")
      BY <3>2 DEF Goto
    <3>3. CASE Goto(r, "charging") /\ workState[work[r]] = "committed" /\ pc[r] = "context"
      BY <3>3, WorkKnown DEF Goto
    <3>4. QED
      BY <2>3, <3>1, <3>2, <3>3 DEF AttachRead
  <2>4. ASSUME NEW r \in Request, Begin(r) \/ Rejoin(r)
        PROVE pc[q] = "charging" /\ work'[q] = work[q]
    BY <2>4 DEF Begin, Rejoin
  <2>5. ASSUME NEW r \in Request, Admit(r) \/ Insert(r)
        PROVE pc[q] = "charging" /\ work'[q] = work[q]
    <3>1. CASE Return(r)
      BY <2>1, <3>1
    <3>2. CASE ~Return(r)
      BY <2>5, <3>2 DEF Admit, Insert
    <3>3. QED
      BY <3>1, <3>2
  <2>6. ASSUME NEW r \in Request, RequestStep(r)
        PROVE \/ pc[q] = "charging" /\ work'[q] = work[q]
              \/ workState[work[q]] = "committed" /\ work'[q] = work[q] /\ work[q] \in Work
    BY <2>1, <2>2, <2>3, <2>4, <2>5, <2>6
    DEF RequestStep, InsertRefused, ContextFails, AttachWrite, Compensate, Die
  <2>7. CASE UNCHANGED requestVars
    BY <2>7 DEF requestVars
  <2>8. QED
    BY <2>6, <2>7 DEF Next, WorkerStep, budgetVars, TakeEvent, Start, Commit, Fail, Abort, NextDay
<1>2. ASSUME NEW q \in Request, pc'[q] = "charging" PROVE workState'[work'[q]] = "committed"
  <2>1. work[q] \in Work /\ workState[work[q]] = "committed" /\ work'[q] = work[q]
    BY <1>1, <1>2, WorkKnown DEF ReadsHold
  <2>2. QED
    BY <2>1, WorkMoves
<1>3. ASSUME NEW k \in Worker, op'[k] # None PROVE event'[op'[k].work] = "taken"
  <2>1. CASE op'[k] = op[k]
    BY <1>3, <2>1, OpKnown, TakenStays DEF ReadsHold
  <2>2. ASSUME op'[k] # op[k], NEW j \in Worker, Start(j) PROVE event'[op'[k].work] = "taken"
    BY <1>3, <2>2 DEF Start, TypeOK, workVars
  <2>3. ASSUME NEW j \in Worker, op' = [op EXCEPT ![j] = None] PROVE op'[k] = op[k]
    BY <1>3, <2>3 DEF TypeOK
  <2>4. QED
    BY <2>1, <2>2, <2>3
    DEF Next, RequestStep, WorkerStep, budgetVars, Begin, Rejoin, Admit, Insert,
        InsertRefused, ContextFails, AttachRead, AttachWrite, Compensate, Die, TakeEvent,
        Commit, Fail, Abort, NextDay
<1>4. QED
  BY <1>2, <1>3 DEF ReadsHold

-----------------------------------------------------------------------------
\* A subscription is made once and settled once; it is charged only for a work
\* that is committed.
SubMove(w, u) ==
    \/ subState'[w][u] = subState[w][u]
    \/ subState[w][u] = "absent" /\ subState'[w][u] = "reserved" /\ workState'[w] # "absent"
    \/ subState[w][u] = "reserved" /\ subState'[w][u] = "released"
    \/ subState[w][u] \in Active /\ subState'[w][u] = "committed" /\ workState'[w] = "committed"

LEMMA SubMoves ==
    ASSUME TypeOK, AbsentIsBlank, ReadsHold, ChargedForWorkDone, [Next]_budgetVars,
           NEW w \in Work, NEW u \in User
    PROVE  SubMove(w, u)
<1> USE DEF TypeOK, RowTypes
<1>1. ASSUME NEW q \in Request, Insert(q) PROVE SubMove(w, u)
  <2>1. PICK v \in Work :
          /\ \/ CreateWork(v, call[q])
             \/ /\ work[q] = v /\ subState[v][call[q].user] = "absent"
                /\ UNCHANGED workVars
          /\ Subscribe(v, call[q])
    BY <1>1 DEF Insert
  <2>2. call[q].user \in User
    BY <1>1 DEF Insert, RequestTypes, Call
  <2>3. \/ subState'[w][u] = subState[w][u]
        \/ w = v /\ u = call[q].user /\ subState'[w][u] = "reserved"
    BY <2>1, <2>2 DEF Subscribe
  <2>4. CASE CreateWork(v, call[q])
    <3>1. workState[v] = "absent" /\ workState'[v] = "reserved"
      BY <2>4 DEF CreateWork
    <3>2. QED
      BY <2>3, <3>1 DEF SubMove, AbsentIsBlank
  <2>5. CASE work[q] = v /\ subState[v][call[q].user] = "absent" /\ UNCHANGED workVars
    <3>1. workState[v] \in Active
      BY <1>1, <2>5, BudgetConstants DEF Insert, ChargedForWorkDone
    <3>2. QED
      BY <2>3, <2>5, <3>1 DEF SubMove, workVars, Active
  <2>6. QED
    BY <2>1, <2>4, <2>5
<1>2. ASSUME NEW q \in Request, AttachWrite(q) PROVE SubMove(w, u)
  <2>1. \/ UNCHANGED subState
        \/ /\ pc[q] = "charging" /\ Attachable(q)
           /\ subState' = [subState EXCEPT ![work[q]][call[q].user] = "committed"]
    BY <1>2 DEF AttachWrite
  <2>2. workState' = workState
    BY <1>2 DEF AttachWrite, workVars
  <2>3. CASE UNCHANGED subState
    BY <2>3 DEF SubMove
  <2>4. CASE /\ pc[q] = "charging" /\ Attachable(q)
             /\ subState' = [subState EXCEPT ![work[q]][call[q].user] = "committed"]
    BY <2>2, <2>4, WorkKnown DEF SubMove, Attachable, Active, ReadsHold
  <2>5. QED
    BY <2>1, <2>3, <2>4
<1>3. ASSUME NEW q \in Request, Released(q) PROVE SubMove(w, u)
  BY <1>3, WorkKnown DEF Released, Releasable, Release, SubMove
<1>4. ASSUME NEW k \in Worker, Commit(k) PROVE SubMove(w, u)
  <2>1. CASE StillReserved(op[k].work)
    <3>1. workState' = [workState EXCEPT ![op[k].work] = "committed"]
      BY <1>4, <2>1 DEF Commit
    <3>2. op[k].work \in Work /\ op[k].subs \in SUBSET User
      BY <1>4, OpKnown DEF Commit
    <3>3. Settle(op[k].work, op[k].subs, "committed")
      BY <1>4, <2>1 DEF Commit
    <3>4. \/ subState'[w][u] = subState[w][u]
          \/ w = op[k].work /\ subState[w][u] = "reserved" /\ subState'[w][u] = "committed"
      BY <3>2, <3>3 DEF Settle
    <3>5. QED
      BY <3>1, <3>2, <3>4 DEF SubMove, Active
  <2>2. CASE ~StillReserved(op[k].work)
    BY <1>4, <2>2 DEF Commit, SubMove
  <2>3. QED
    BY <2>1, <2>2
<1>5. ASSUME NEW k \in Worker, Fail(k) PROVE SubMove(w, u)
  <2>1. op[k].work \in Work /\ op[k].subs \in SUBSET User
    BY <1>5, OpKnown DEF Fail
  <2>2. Settle(op[k].work, op[k].subs, "released")
    BY <1>5 DEF Fail
  <2>3. \/ subState'[w][u] = subState[w][u]
        \/ w = op[k].work /\ subState[w][u] = "reserved" /\ subState'[w][u] = "released"
    BY <2>1, <2>2 DEF Settle
  <2>4. QED
    BY <2>3 DEF SubMove
<1>6. QED
  BY RowSteps, <1>1, <1>2, <1>3, <1>4, <1>5 DEF RowsKept, TakeEvent, subVars, SubMove

-----------------------------------------------------------------------------
LEMMA BlankStep ==
    ASSUME TypeOK, AbsentIsBlank, ReadsHold, ChargedForWorkDone, [Next]_budgetVars
    PROVE  AbsentIsBlank'
<1> SUFFICES ASSUME NEW w \in Work, workState'[w] = "absent"
             PROVE event'[w] = "none" /\ \A u \in User : subState'[w][u] = "absent"
  BY DEF AbsentIsBlank
<1>1. /\ workState[w] = "absent" /\ event[w] = "none"
      /\ \A u \in User : subState[w][u] = "absent"
  BY WorkMoves DEF AbsentIsBlank
<1>2. \A u \in User : subState'[w][u] = "absent"
  BY <1>1, SubMoves DEF SubMove, Active
<1>3. event'[w] = "none"
  <2> USE DEF TypeOK, RowTypes
  <2>1. ASSUME NEW q \in Request, Insert(q) PROVE event'[w] = "none"
    <3>1. PICK v \in Work : CreateWork(v, call[q]) \/ UNCHANGED workVars
      BY <2>1 DEF Insert
    <3>2. CASE CreateWork(v, call[q])
      BY <1>1, <3>2 DEF CreateWork
    <3>3. CASE UNCHANGED workVars
      BY <1>1, <3>3 DEF workVars
    <3>4. QED
      BY <3>1, <3>2, <3>3
  <2>2. ASSUME NEW q \in Request, Released(q) PROVE event'[w] = "none"
    BY <1>1, <2>2 DEF Released, Release, CloseEvent
  <2>3. ASSUME NEW v \in Work, TakeEvent(v) PROVE event'[w] = "none"
    BY <1>1, <2>3 DEF TakeEvent
  <2>4. QED
    BY RowSteps, <1>1, <2>1, <2>2, <2>3 DEF RowsKept, AttachWrite, workVars, Commit, Fail
<1>4. QED
  BY <1>2, <1>3

\* Only an event the relay has taken lets a worker settle the work.
LEMMA OpenStep ==
    ASSUME TypeOK, AbsentIsBlank, ReadsHold, OpenEventIsWanted, [Next]_budgetVars
    PROVE  OpenEventIsWanted'
<1> SUFFICES ASSUME NEW w \in Work, event'[w] = "open" PROVE workState'[w] = "reserved"
  BY DEF OpenEventIsWanted
<1> USE DEF TypeOK, RowTypes
<1>1. ASSUME event[w] = "open", workState'[w] = workState[w] PROVE workState'[w] = "reserved"
  BY <1>1 DEF OpenEventIsWanted
<1>2. ASSUME NEW q \in Request, Insert(q) PROVE workState'[w] = "reserved"
  <2>1. PICK v \in Work : CreateWork(v, call[q]) \/ UNCHANGED workVars
    BY <1>2 DEF Insert
  <2>2. CASE CreateWork(v, call[q])
    BY <1>1, <2>2 DEF CreateWork
  <2>3. CASE UNCHANGED workVars
    BY <1>1, <2>3 DEF workVars
  <2>4. QED
    BY <2>1, <2>2, <2>3
<1>3. ASSUME NEW q \in Request, Released(q) PROVE workState'[w] = "reserved"
  <2>1. CASE NobodyLeft(work[q], call[q].user)
    BY <1>1, <1>3, <2>1 DEF Released, Release, CloseEvent
  <2>2. CASE ~NobodyLeft(work[q], call[q].user)
    BY <1>1, <1>3, <2>2 DEF Released, Release
  <2>3. QED
    BY <2>1, <2>2
<1>4. ASSUME NEW v \in Work, TakeEvent(v) PROVE workState'[w] = "reserved"
  BY <1>1, <1>4 DEF TakeEvent
<1>5. ASSUME NEW k \in Worker, Commit(k) \/ Fail(k) PROVE workState'[w] = "reserved"
  <2>1. event[w] = "open"
    BY <1>5 DEF Commit, Fail
  <2>2. op[k].work # w
    BY <1>5, <2>1 DEF Commit, Fail, ReadsHold
  <2>3. \/ UNCHANGED workState
        \/ workState' = [workState EXCEPT ![op[k].work] = "committed"]
        \/ workState' = [workState EXCEPT ![op[k].work] = "released"]
    BY <1>5 DEF Commit, Fail
  <2>4. QED
    BY <1>1, <2>1, <2>2, <2>3
<1>6. QED
  BY RowSteps, <1>1, <1>2, <1>3, <1>4, <1>5 DEF RowsKept, AttachWrite, workVars

\* The row lock keeps the work of an admitted request from being settled.
LEMMA ChargedStep ==
    ASSUME TypeOK, AbsentIsBlank, ReadsHold, ChargedForWorkDone, [Next]_budgetVars
    PROVE  ChargedForWorkDone'
<1>1. ASSUME NEW w \in Work, NEW u \in User, subState'[w][u] = "committed"
      PROVE  workState'[w] = "committed"
  BY <1>1, SubMoves, WorkMoves DEF SubMove, ChargedForWorkDone
<1>2. ASSUME NEW q \in Request, pc[q] = "admitted", work[q] # None
      PROVE  workState'[work[q]] \in Active
  <2> USE DEF TypeOK, RowTypes
  <2>1. work[q] \in Work /\ workState[work[q]] \in Active /\ ~RowFree(work[q])
    BY <1>2 DEF ChargedForWorkDone, RowFree, RequestTypes
  <2>2. ASSUME NEW r \in Request, Released(r) PROVE workState'[work[q]] = workState[work[q]]
    BY <2>1, <2>2, WorkKnown DEF Released, Release
  <2>3. ASSUME NEW k \in Worker, Commit(k) \/ Fail(k)
        PROVE workState'[work[q]] = workState[work[q]]
    <3>1. op[k].work # work[q]
      BY <2>1, <2>3 DEF Commit, Fail
    <3>2. \/ UNCHANGED workState
          \/ workState' = [workState EXCEPT ![op[k].work] = "committed"]
          \/ workState' = [workState EXCEPT ![op[k].work] = "released"]
      BY <2>3 DEF Commit, Fail
    <3>3. QED
      BY <2>1, <3>1, <3>2
  <2>4. ASSUME NEW r \in Request, Insert(r) PROVE workState'[work[q]] = workState[work[q]]
    <3>1. PICK v \in Work : CreateWork(v, call[r]) \/ UNCHANGED workVars
      BY <2>4 DEF Insert
    <3>2. CASE CreateWork(v, call[r])
      BY <2>1, <3>2 DEF CreateWork, Active
    <3>3. CASE UNCHANGED workVars
      BY <3>3 DEF workVars
    <3>4. QED
      BY <3>1, <3>2, <3>3
  <2>5. QED
    BY RowSteps, <2>1, <2>2, <2>3, <2>4 DEF RowsKept, AttachWrite, workVars, TakeEvent
<1>3. ASSUME NEW q \in Request, pc'[q] = "admitted"
      PROVE  \/ pc[q] = "admitted" /\ work'[q] = work[q]
             \/ work'[q] \in ActiveWorks(call[q].key) \cup {None} /\ workState' = workState
  <2> USE <1>3 DEF TypeOK, RequestTypes
  <2>1. ASSUME NEW r \in Request, Return(r) PROVE pc[q] = "admitted" /\ work'[q] = work[q]
    BY <2>1 DEF Return
  <2>2. ASSUME NEW r \in Request, GiveUp(r) PROVE pc[q] = "admitted" /\ work'[q] = work[q]
    BY <2>1, <2>2 DEF GiveUp, Goto
  <2>3. ASSUME NEW r \in Request, AttachRead(r)
        PROVE pc[q] = "admitted" /\ work'[q] = work[q]
    BY <2>2, <2>3 DEF AttachRead, Goto
  <2>4. ASSUME NEW r \in Request, Begin(r) \/ Rejoin(r)
        PROVE pc[q] = "admitted" /\ work'[q] = work[q]
    BY <2>4 DEF Begin, Rejoin
  <2>5. ASSUME NEW r \in Request, Insert(r) PROVE pc[q] = "admitted" /\ work'[q] = work[q]
    <3>1. CASE Return(r)
      BY <2>1, <3>1
    <3>2. CASE ~Return(r)
      BY <2>5, <3>2 DEF Insert
    <3>3. QED
      BY <3>1, <3>2
  <2>6. ASSUME NEW r \in Request, Admit(r)
        PROVE \/ pc[q] = "admitted" /\ work'[q] = work[q]
              \/ work'[q] \in ActiveWorks(call[q].key) \cup {None} /\ workState' = workState
    <3>1. CASE Return(r)
      BY <2>1, <3>1
    <3>2. CASE ~Return(r)
      <4>1. PICK w \in ActiveWorks(call[r].key) \cup {None} : work' = [work EXCEPT ![r] = w]
        BY <2>6, <3>2 DEF Admit
      <4>2. pc' = [pc EXCEPT ![r] = "admitted"] /\ workState' = workState
        BY <2>6, <3>2 DEF Admit, workVars
      <4>3. CASE q = r
        BY <4>1, <4>2, <4>3
      <4>4. CASE q # r
        BY <4>1, <4>2, <4>4
      <4>5. QED
        BY <4>3, <4>4
    <3>3. QED
      BY <3>1, <3>2
  <2>7. ASSUME NEW r \in Request, RequestStep(r)
        PROVE \/ pc[q] = "admitted" /\ work'[q] = work[q]
              \/ work'[q] \in ActiveWorks(call[q].key) \cup {None} /\ workState' = workState
    BY <2>1, <2>2, <2>3, <2>4, <2>5, <2>6, <2>7
    DEF RequestStep, InsertRefused, ContextFails, AttachWrite, Compensate, Die
  <2>8. CASE UNCHANGED requestVars
    BY <2>8 DEF requestVars
  <2>9. QED
    BY <2>7, <2>8 DEF Next, WorkerStep, budgetVars, TakeEvent, Start, Commit, Fail, Abort, NextDay
<1>4. ASSUME NEW q \in Request, pc'[q] = "admitted", work'[q] # None
      PROVE  workState'[work'[q]] \in Active
  <2>1. CASE pc[q] = "admitted" /\ work'[q] = work[q]
    BY <1>2, <1>4, <2>1
  <2>2. CASE work'[q] \in ActiveWorks(call[q].key) \cup {None} /\ workState' = workState
    BY <1>4, <2>2 DEF ActiveWorks
  <2>3. QED
    BY <1>3, <1>4, <2>1, <2>2
<1>5. QED
  BY <1>1, <1>4 DEF ChargedForWorkDone

\* The last reserved subscription takes the work along.
LEMMA WantedStep ==
    ASSUME TypeOK, AbsentIsBlank, ReadsHold, ChargedForWorkDone, ReservedWorkIsWanted,
           [Next]_budgetVars
    PROVE  ReservedWorkIsWanted'
<1> SUFFICES ASSUME NEW w \in Work, workState'[w] = "reserved"
             PROVE \E u \in User : subState'[w][u] = "reserved"
  BY DEF ReservedWorkIsWanted, Reservers
<1> USE DEF TypeOK, RowTypes
<1>1. ASSUME NEW q \in Request, Insert(q), workState[w] = "absent"
      PROVE \E u \in User : subState'[w][u] = "reserved"
  <2>1. PICK v \in Work :
          /\ CreateWork(v, call[q]) \/ UNCHANGED workVars
          /\ Subscribe(v, call[q])
    BY <1>1 DEF Insert
  <2>2. call[q].user \in User
    BY <1>1 DEF Insert, RequestTypes, Call
  <2>3. CreateWork(v, call[q]) /\ v = w
    BY <1>1, <2>1 DEF CreateWork, workVars
  <2>4. subState'[w][call[q].user] = "reserved"
    BY <2>1, <2>2, <2>3 DEF Subscribe
  <2>5. QED
    BY <2>2, <2>4
<1>2. CASE workState[w] = "absent"
  <2>1. ASSUME NEW q \in Request, Released(q) PROVE FALSE
    BY <1>2, <2>1 DEF Released, Release
  <2>2. ASSUME NEW k \in Worker, Commit(k) \/ Fail(k) PROVE FALSE
    <3>1. \/ UNCHANGED workState
          \/ workState' = [workState EXCEPT ![op[k].work] = "committed"]
          \/ workState' = [workState EXCEPT ![op[k].work] = "released"]
      BY <2>2 DEF Commit, Fail
    <3>2. QED
      BY <1>2, <3>1
  <2>3. QED
    BY RowSteps, <1>1, <1>2, <2>1, <2>2 DEF RowsKept, AttachWrite, workVars, TakeEvent
<1>3. CASE workState[w] = "reserved"
  <2>1. PICK u \in User : subState[w][u] = "reserved"
    BY <1>3 DEF ReservedWorkIsWanted, Reservers
  <2>2. CASE subState'[w][u] = "reserved"
    BY <2>2
  <2>3. CASE subState'[w][u] # "reserved"
    <3>1. subState'[w][u] = "released"
      BY <2>1, <2>3, SubMoves DEF SubMove
    <3>2. ASSUME NEW q \in Request, Insert(q) PROVE FALSE
      BY <2>1, <3>1, <3>2 DEF Insert, Subscribe
    <3>3. ASSUME NEW q \in Request, AttachWrite(q) PROVE FALSE
      <4>1. \/ UNCHANGED subState
            \/ subState' = [subState EXCEPT ![work[q]][call[q].user] = "committed"]
        BY <3>3 DEF AttachWrite
      <4>2. CASE UNCHANGED subState
        BY <2>1, <3>1, <4>2
      <4>3. CASE subState' = [subState EXCEPT ![work[q]][call[q].user] = "committed"]
        <5>1. subState'[w][u] \in {"reserved", "committed"}
          BY <2>1, <4>3
        <5>2. QED
          BY <3>1, <5>1
      <4>4. QED
        BY <4>1, <4>2, <4>3
    <3>4. ASSUME NEW q \in Request, Released(q)
          PROVE \E v \in User : subState'[w][v] = "reserved"
      <4>1. work[q] = w /\ call[q].user = u
        BY <2>1, <3>1, <3>4 DEF Released, Release
      <4>2. ~NobodyLeft(w, u)
        BY <3>4, <4>1 DEF Released, Release
      <4>3. PICK v \in User : v # u /\ subState[w][v] = "reserved"
        BY <4>2 DEF NobodyLeft, Reservers
      <4>4. subState'[w][v] = "reserved"
        BY <3>4, <4>1, <4>3 DEF Released, Release
      <4>5. QED
        BY <4>4
    <3>5. ASSUME NEW k \in Worker, Commit(k) PROVE FALSE
      <4>1. CASE StillReserved(op[k].work)
        <5>1. Settle(op[k].work, op[k].subs, "committed")
          BY <3>5, <4>1 DEF Commit
        <5>2. subState'[w][u] \in {"reserved", "committed"}
          BY <2>1, <5>1 DEF Settle
        <5>3. QED
          BY <3>1, <5>2
      <4>2. CASE ~StillReserved(op[k].work)
        BY <2>1, <3>1, <3>5, <4>2 DEF Commit
      <4>3. QED
        BY <4>1, <4>2
    <3>6. ASSUME NEW k \in Worker, Fail(k) PROVE FALSE
      <4>1. op[k].work = w
        BY <2>1, <3>1, <3>6, OpKnown DEF Fail, Settle
      <4>2. workState'[w] = "released"
        BY <1>3, <3>6, <4>1 DEF Fail, StillReserved
      <4>3. QED
        BY <4>2
    <3>7. QED
      BY RowSteps, <2>1, <3>1, <3>2, <3>3, <3>4, <3>5, <3>6 DEF RowsKept, TakeEvent, subVars
  <2>4. QED
    BY <2>2, <2>3
<1>4. QED
  BY <1>2, <1>3, WorkMoves

-----------------------------------------------------------------------------
\* The rows of works, subscriptions and events agree, and what requests and
\* workers have read of them holds.
THEOREM RowsCorrect == Spec => []RowInv
<1>1. Init => RowInv
  BY BudgetConstants
  DEF Init, RowInv, ReservedWorkIsWanted, OpenEventIsWanted, ChargedForWorkDone,
      ReadsHold, AbsentIsBlank
<1>2. TypeOK /\ RowInv /\ [Next]_budgetVars => RowInv'
  BY WantedStep, OpenStep, ChargedStep, ReadsStep, BlankStep DEF RowInv
<1>3. QED
  BY <1>1, <1>2, TypeCorrect, PTL DEF Spec

\* A reserved work always has a subscriber who waits for it.
THEOREM ReservedWorksAreWanted == Spec => []ReservedWorkIsWanted
<1>1. RowInv => ReservedWorkIsWanted
  BY DEF RowInv
<1>2. QED
  BY <1>1, RowsCorrect, PTL

\* The relay is offered the events of reserved works only.
THEOREM OpenEventsAreWanted == Spec => []OpenEventIsWanted
<1>1. RowInv => OpenEventIsWanted
  BY DEF RowInv
<1>2. QED
  BY <1>1, RowsCorrect, PTL

\* A committed subscription belongs to a committed work, and the work of an
\* admitted request is not settled under its lock.
THEOREM ChargesAreForWorkDone == Spec => []ChargedForWorkDone
<1>1. RowInv => ChargedForWorkDone
  BY DEF RowInv
<1>2. QED
  BY <1>1, RowsCorrect, PTL

\* A settled work and a settled subscription never change.
THEOREM SettledRowsStay == Spec => SettledStays
<1>1. TypeOK /\ RowInv /\ [Next]_budgetVars =>
        [\A w \in Work :
          /\ workState[w] \in {"committed", "released"} =>
                workState'[w] = workState[w] /\ actual'[w] = actual[w]
          /\ \A u \in User : subState[w][u] \in {"committed", "released"} =>
                subState'[w][u] = subState[w][u]]_budgetVars
  <2> SUFFICES ASSUME TypeOK, RowInv, [Next]_budgetVars, NEW w \in Work
               PROVE /\ workState[w] \in {"committed", "released"} =>
                           workState'[w] = workState[w] /\ actual'[w] = actual[w]
                     /\ \A u \in User : subState[w][u] \in {"committed", "released"} =>
                           subState'[w][u] = subState[w][u]
    OBVIOUS
  <2>1. \A u \in User : subState[w][u] \in {"committed", "released"} =>
                           subState'[w][u] = subState[w][u]
    BY SubMoves DEF SubMove, RowInv, Active
  <2>2. workState[w] \in {"committed", "released"} => workState'[w] = workState[w]
    BY WorkMoves
  <2>3. ASSUME workState[w] \in {"committed", "released"} PROVE actual'[w] = actual[w]
    <3> USE DEF TypeOK, RowTypes
    <3>1. ASSUME NEW k \in Worker, Commit(k) PROVE actual'[w] = actual[w]
      <4>1. CASE StillReserved(op[k].work)
        <5>1. PICK n : actual' = [actual EXCEPT ![op[k].work] = n]
          BY <3>1, <4>1 DEF Commit
        <5>2. op[k].work # w
          BY <2>3, <4>1 DEF StillReserved
        <5>3. QED
          BY <5>1, <5>2
      <4>2. CASE ~StillReserved(op[k].work)
        BY <3>1, <4>2 DEF Commit
      <4>3. QED
        BY <4>1, <4>2
    <3>2. ASSUME NEW q \in Request, Insert(q) PROVE actual' = actual
      BY <3>2 DEF Insert, CreateWork, workVars
    <3>3. QED
      BY RowSteps, <3>1, <3>2
      DEF RowsKept, AttachWrite, workVars, Released, Release, TakeEvent, Fail
  <2>4. QED
    BY <2>1, <2>2, <2>3
<1>2. QED
  BY <1>1, TypeCorrect, RowsCorrect, PTL DEF Spec, SettledStays

\* Only the request that made a reservation gives it back, or the worker that
\* fails its work.
THEOREM CreatorsGiveBack == Spec => OnlyCreatorGivesBack
<1>1. TypeOK /\ [Next]_budgetVars =>
        [\A w \in Work, u \in User :
           subState[w][u] = "reserved" /\ subState'[w][u] = "released" =>
             \/ \E q \in Request : created[q] /\ work[q] = w /\ call[q].user = u
             \/ \E k \in Worker : op[k] # None /\ op[k].work = w /\ op[k].kind = "fail"]_budgetVars
  <2> SUFFICES ASSUME TypeOK, [Next]_budgetVars, NEW w \in Work, NEW u \in User,
                      subState[w][u] = "reserved", subState'[w][u] = "released"
               PROVE \/ \E q \in Request : created[q] /\ work[q] = w /\ call[q].user = u
                     \/ \E k \in Worker : op[k] # None /\ op[k].work = w /\ op[k].kind = "fail"
    OBVIOUS
  <2> USE DEF TypeOK, RowTypes
  <2>1. ASSUME NEW q \in Request, Insert(q) PROVE FALSE
    BY <2>1 DEF Insert, Subscribe
  <2>2. ASSUME NEW q \in Request, AttachWrite(q) PROVE FALSE
    <3>1. \/ UNCHANGED subState
          \/ subState' = [subState EXCEPT ![work[q]][call[q].user] = "committed"]
      BY <2>2 DEF AttachWrite
    <3>2. CASE UNCHANGED subState
      BY <3>2
    <3>3. CASE subState' = [subState EXCEPT ![work[q]][call[q].user] = "committed"]
      <4>1. subState'[w][u] \in {"reserved", "committed"}
        BY <3>3
      <4>2. QED
        BY <4>1
    <3>4. QED
      BY <3>1, <3>2, <3>3
  <2>3. ASSUME NEW q \in Request, Released(q)
        PROVE created[q] /\ work[q] = w /\ call[q].user = u
    <3>1. work[q] = w /\ call[q].user = u
      BY <2>3 DEF Released, Release
    <3>2. created[q]
      BY <2>3 DEF Released, RequestTypes
    <3>3. QED
      BY <3>1, <3>2
  <2>4. ASSUME NEW k \in Worker, Commit(k) PROVE FALSE
    <3>1. CASE StillReserved(op[k].work)
      <4>1. Settle(op[k].work, op[k].subs, "committed")
        BY <2>4, <3>1 DEF Commit
      <4>2. subState'[w][u] \in {"reserved", "committed"}
        BY <4>1 DEF Settle
      <4>3. QED
        BY <4>2
    <3>2. CASE ~StillReserved(op[k].work)
      BY <2>4, <3>2 DEF Commit
    <3>3. QED
      BY <3>1, <3>2
  <2>5. ASSUME NEW k \in Worker, Fail(k)
        PROVE op[k] # None /\ op[k].work = w /\ op[k].kind = "fail"
    BY <2>5, OpKnown DEF Fail, Settle
  <2>6. QED
    BY RowSteps, <2>1, <2>2, <2>3, <2>4, <2>5 DEF RowsKept, TakeEvent, subVars
<1>2. QED
  BY <1>1, TypeCorrect, PTL DEF Spec, OnlyCreatorGivesBack

-----------------------------------------------------------------------------
(***************************************************************************)
(* Sums over finite sets, as the community modules define them: what is    *)
(* added to a sum, and when one sum is no more than another.  A sum is a   *)
(* function defined by recursion on sets; the facts follow by induction on *)
(* the size of the set, each time from a smallest counterexample.          *)
(***************************************************************************)

\* The element that the fold takes next.
Pick(s) == CHOOSE x \in s : TRUE

\* g[s] is the sum of f over s, for every s that is a part of S.
IsSum(g, f, S) ==
    g = [s \in SUBSET S |-> IF s = {} THEN 0 ELSE f[Pick(s)] + g[s \ {Pick(s)}]]

Total(f, S) == MapThenSumSet(LAMBDA x : f[x], S)

\* A set of numbers that is not empty has a least one.
LEMMA Least ==
    ASSUME NEW T \in SUBSET Nat, T # {}
    PROVE  \E x \in T : \A y \in T : x <= y
<1> DEFINE R == OpToRel(<, Nat)
<1>1. IsWellFoundedOn(R, Nat)
  BY NatLessThanWellFounded
<1>2. \A a, b \in Nat : a < b => <<a, b>> \in R
  <2> TAKE a, b \in Nat
  <2>1. HAVE a < b
  <2>2. <<a, b>> \in Nat \X Nat
    OBVIOUS
  <2>3. <<a, b>>[1] < <<a, b>>[2]
    BY <2>1
  <2>4. QED
    BY <2>2, <2>3, Zenon DEF OpToRel
<1> HIDE DEF R
<1>3. \E x \in T : \A y \in T : ~(<<y, x>> \in R)
  BY <1>1, WFMin
<1>4. PICK x \in T : \A y \in T : ~(<<y, x>> \in R)
  BY <1>3
<1>5. ASSUME NEW y \in T PROVE x <= y
  <2>1. x \in Nat /\ y \in Nat
    OBVIOUS
  <2>2. ~(y < x)
    BY <1>2, <1>4, <2>1
  <2>3. QED
    BY <2>1, <2>2
<1>6. QED
  BY <1>5

\* Of the parts of S in a set of them one has the fewest elements.
LEMMA Smallest ==
    ASSUME NEW S, IsFiniteSet(S), NEW C \in SUBSET (SUBSET S), C # {}
    PROVE  \E T \in C : \A U \in SUBSET T : U # T => U \notin C
<1> DEFINE sizes == {Cardinality(T) : T \in C}
<1>1. \A T \in C : IsFiniteSet(T) /\ Cardinality(T) \in Nat
  BY FS_Subset, FS_CardinalityType
<1>2. sizes \in SUBSET Nat /\ sizes # {}
  BY <1>1
<1> HIDE DEF sizes
<1>3. PICK n \in sizes : \A m \in sizes : n <= m
  BY <1>2, Least
<1>4. PICK T \in C : Cardinality(T) = n
  BY <1>3 DEF sizes
<1>5. ASSUME NEW U \in SUBSET T, U # T, U \in C PROVE FALSE
  <2>1. Cardinality(U) <= Cardinality(T) /\ Cardinality(U) # Cardinality(T)
    BY <1>1, <1>5, FS_Subset
  <2>2. Cardinality(U) \in sizes
    BY <1>5 DEF sizes
  <2>3. QED
    BY <1>1, <1>2, <1>3, <1>4, <1>5, <2>1, <2>2
<1>6. QED
  BY <1>5

LEMMA PickIn ==
    ASSUME NEW s, s # {}
    PROVE  Pick(s) \in s
BY DEF Pick

LEMMA SumValue ==
    ASSUME NEW S, NEW f, NEW g, IsSum(g, f, S), NEW s \in SUBSET S
    PROVE  g[s] = IF s = {} THEN 0 ELSE f[Pick(s)] + g[s \ {Pick(s)}]
<1> DEFINE value(t) == IF t = {} THEN 0 ELSE f[Pick(t)] + g[t \ {Pick(t)}]
<1>1. g = [t \in SUBSET S |-> value(t)]
  BY DEF IsSum
<1> HIDE DEF value
<1>2. g[s] = value(s)
  BY <1>1
<1>3. QED
  BY <1>2 DEF value

LEMMA SumEmpty ==
    ASSUME NEW S, NEW f, NEW g, IsSum(g, f, S)
    PROVE  g[{}] = 0
BY SumValue

LEMMA SumNext ==
    ASSUME NEW S, NEW f, NEW g, IsSum(g, f, S), NEW s \in SUBSET S, s # {}
    PROVE  /\ g[s] = f[Pick(s)] + g[s \ {Pick(s)}]
           /\ Pick(s) \in s
BY SumValue, PickIn

\* The sums over a part of S are the same whether S is summed or the part.
LEMMA SumUnique ==
    ASSUME NEW S, IsFiniteSet(S), NEW T \in SUBSET S, NEW f, NEW g, NEW h,
           IsSum(g, f, S), IsSum(h, f, T)
    PROVE  \A U \in SUBSET T : g[U] = h[U]
<1> DEFINE C == {U \in SUBSET T : g[U] # h[U]}
<1>1. SUFFICES ASSUME C # {} PROVE FALSE
  OBVIOUS
<1>2. C \in SUBSET (SUBSET S)
  OBVIOUS
<1> HIDE DEF C
<1>3. PICK U \in C : \A V \in SUBSET U : V # U => V \notin C
  BY <1>1, <1>2, Smallest
<1>4. U \in SUBSET S /\ U \in SUBSET T /\ g[U] # h[U]
  BY DEF C
<1>5. U # {}
  <2>1. g[{}] = 0 /\ h[{}] = 0
    BY SumEmpty
  <2>2. QED
    BY <1>4, <2>1
<1> DEFINE V == U \ {Pick(U)}
<1>6. g[U] = f[Pick(U)] + g[V] /\ Pick(U) \in U
  BY <1>4, <1>5, SumNext
<1>7. V \in SUBSET U /\ V # U
  BY <1>6
<1>8. h[U] = f[Pick(U)] + h[V]
  BY <1>4, <1>5, SumNext
<1> HIDE DEF V
<1>9. g[V] = h[V]
  BY <1>3, <1>4, <1>7 DEF C
<1>10. QED
  BY <1>4, <1>6, <1>8, <1>9

\* Every finite set can be summed.
LEMMA SumExists ==
    ASSUME NEW S, IsFiniteSet(S), NEW f
    PROVE  \E g : IsSum(g, f, S)
<1> DEFINE C == {U \in SUBSET S : ~\E g : IsSum(g, f, U)}
<1>1. SUFFICES ASSUME C # {} PROVE FALSE
  OBVIOUS
<1>2. C \in SUBSET (SUBSET S)
  OBVIOUS
<1> HIDE DEF C
<1>3. PICK T \in C : \A V \in SUBSET T : V # T => V \notin C
  BY <1>2, <1>1, Smallest
<1> DEFINE of(V) == CHOOSE g : IsSum(g, f, V)
<1>4. ASSUME NEW V \in SUBSET T, V # T PROVE IsSum(of(V), f, V)
  BY <1>2, <1>3, <1>4 DEF C
<1> HIDE DEF of
<1> DEFINE rest(V) == V \ {Pick(V)}
           h == [V \in SUBSET T |-> IF V = {} THEN 0 ELSE f[Pick(V)] + of(rest(V))[rest(V)]]
<1>5. ASSUME NEW V \in SUBSET T, V # {}, V # T PROVE h[V] = of(V)[V]
  <2>1. rest(V) \in SUBSET V /\ rest(V) # T
    BY <1>5, PickIn
  <2>2. of(V)[V] = f[Pick(V)] + of(V)[rest(V)]
    BY <1>4, <1>5, SumNext
  <2>3. IsFiniteSet(V)
    BY <1>2, <1>5, FS_Subset
  <2>4. of(V)[rest(V)] = of(rest(V))[rest(V)]
    BY <1>4, <1>5, <2>1, <2>3, SumUnique
  <2>5. QED
    BY <1>5, <2>2, <2>4
<1>6. ASSUME NEW V \in SUBSET T, V # {} PROVE of(rest(V))[rest(V)] = h[rest(V)]
  <2>1. rest(V) \in SUBSET T /\ rest(V) # T
    BY <1>6, PickIn
  <2>2. CASE rest(V) # {}
    BY <1>5, <2>1, <2>2
  <2>3. CASE rest(V) = {}
    <3>1. IsSum(of({}), f, {})
      BY <1>4, <2>1, <2>3
    <3>2. of({})[{}] = 0
      BY <3>1, SumEmpty
    <3>3. QED
      BY <2>3, <3>2
  <2>4. QED
    BY <2>2, <2>3
<1>7. h = [V \in SUBSET T |-> IF V = {} THEN 0 ELSE f[Pick(V)] + h[rest(V)]]
  <2> DEFINE k == [V \in SUBSET T |-> IF V = {} THEN 0 ELSE f[Pick(V)] + h[rest(V)]]
  <2>1. ASSUME NEW V \in SUBSET T PROVE h[V] = k[V]
    BY <1>6, <2>1
  <2>2. QED
    BY <2>1
<1>8. IsSum(h, f, T)
  BY <1>7 DEF IsSum
<1>9. QED
  BY <1>2, <1>3, <1>8 DEF C

LEMMA SumNat ==
    ASSUME NEW S, IsFiniteSet(S), NEW f \in [S -> Nat], NEW g, IsSum(g, f, S)
    PROVE  \A U \in SUBSET S : g[U] \in Nat
<1> DEFINE C == {U \in SUBSET S : g[U] \notin Nat}
<1>1. SUFFICES ASSUME C # {} PROVE FALSE
  OBVIOUS
<1>2. C \in SUBSET (SUBSET S)
  OBVIOUS
<1> HIDE DEF C
<1>3. PICK U \in C : \A V \in SUBSET U : V # U => V \notin C
  BY <1>1, <1>2, Smallest
<1>4. U \in SUBSET S /\ g[U] \notin Nat
  BY DEF C
<1>5. U # {}
  BY <1>4, SumEmpty
<1> DEFINE V == U \ {Pick(U)}
<1>6. Pick(U) \in U /\ g[U] = f[Pick(U)] + g[V]
  BY <1>4, <1>5, SumNext
<1> HIDE DEF V
<1>7. g[V] \in Nat
  <2>1. V \in SUBSET U /\ V # U
    BY <1>6 DEF V
  <2>2. QED
    BY <1>3, <1>4, <2>1 DEF C
<1>8. f[Pick(U)] \in Nat
  BY <1>4, <1>6
<1>9. QED
  BY <1>4, <1>6, <1>7, <1>8

\* The order of the fold does not matter.
LEMMA SumAdd ==
    ASSUME NEW S, IsFiniteSet(S), NEW f \in [S -> Nat], NEW g, IsSum(g, f, S)
    PROVE  \A U \in SUBSET S : \A x \in S \ U : g[U \cup {x}] = f[x] + g[U]
<1> DEFINE Off(U) == \E x \in S \ U : g[U \cup {x}] # f[x] + g[U]
           C == {U \in SUBSET S : Off(U)}
<1>1. SUFFICES ASSUME C # {} PROVE FALSE
  OBVIOUS
<1>2. C \in SUBSET (SUBSET S)
  OBVIOUS
<1> HIDE DEF C
<1>3. PICK U \in C : \A V \in SUBSET U : V # U => V \notin C
  BY <1>1, <1>2, Smallest
<1>4. U \in SUBSET S /\ Off(U) /\ \A V \in SUBSET U : V # U => ~Off(V)
  BY <1>3 DEF C
<1>5. PICK x \in S \ U : g[U \cup {x}] # f[x] + g[U]
  BY <1>4
<1> DEFINE W == U \cup {x}
           y == Pick(W)
<1>6. W \in SUBSET S /\ W # {}
  BY <1>4
<1> HIDE DEF W
<1>7. y \in W /\ g[W] = f[y] + g[W \ {y}]
  BY <1>6, SumNext
<1> HIDE DEF y
<1>8. y # x
  <2>1. W \ {x} = U
    BY <1>5 DEF W
  <2>2. QED
    BY <1>5, <1>7, <2>1 DEF W
<1> DEFINE V == U \ {y}
<1>9. y \in U /\ V \in SUBSET U /\ V # U
  BY <1>7, <1>8 DEF W
<1>10. W \ {y} = V \cup {x} /\ V \cup {y} = U /\ x \in S \ V /\ y \in S \ V
  BY <1>4, <1>8, <1>9 DEF W
<1>11. ~Off(V)
  BY <1>4, <1>9
<1>12. g[V \cup {x}] = f[x] + g[V] /\ g[V \cup {y}] = f[y] + g[V]
  BY <1>10, <1>11
<1>13. g[V] \in Nat /\ f[x] \in Nat /\ f[y] \in Nat
  BY <1>4, <1>9, <1>10, SumNat
<1>14. g[W] = f[y] + (f[x] + g[V]) /\ g[U] = f[y] + g[V] /\ g[W] # f[x] + g[U]
  BY <1>5, <1>7, <1>10, <1>12 DEF W
<1> HIDE DEF V
<1>15. QED
  BY <1>13, <1>14

\* Fewer elements that each weigh no more make no greater sum.
LEMMA SumNoGreater ==
    ASSUME NEW S, IsFiniteSet(S), NEW f \in [S -> Nat], NEW k \in [S -> Nat],
           NEW g, IsSum(g, f, S), NEW h, IsSum(h, k, S),
           NEW T \in SUBSET S, NEW U \in SUBSET S, T \subseteq U, \A x \in T : f[x] <= k[x]
    PROVE  g[T] <= h[U]
<1> DEFINE Lighter(P) == \A x \in P : f[x] <= k[x]
           Over(V) == \E P \in SUBSET V : Lighter(P) /\ ~(g[P] <= h[V])
           C == {V \in SUBSET S : Over(V)}
<1>1. SUFFICES ASSUME C # {} PROVE FALSE
  OBVIOUS
<1>2. C \in SUBSET (SUBSET S)
  OBVIOUS
<1> HIDE DEF C
<1>3. PICK V \in C : \A Q \in SUBSET V : Q # V => Q \notin C
  BY <1>1, <1>2, Smallest
<1>4. V \in SUBSET S /\ Over(V) /\ \A Q \in SUBSET V : Q # V => ~Over(Q)
  BY <1>3 DEF C
<1>5. PICK P \in SUBSET V : Lighter(P) /\ ~(g[P] <= h[V])
  BY <1>4
<1>6. \A Q \in SUBSET S : g[Q] \in Nat
  BY SumNat
<1>7. \A Q \in SUBSET S : h[Q] \in Nat
  BY SumNat
<1>8. V # {}
  <2>1. g[{}] = 0 /\ h[{}] = 0
    BY SumEmpty
  <2>2. V = {} => P = {}
    OBVIOUS
  <2>3. QED
    BY <1>5, <2>1, <2>2
<1>9. /\ h[V] = k[Pick(V)] + h[V \ {Pick(V)}]
       /\ Pick(V) \in V
  <2>1. V \in SUBSET S
    BY <1>4
  <2> HIDE DEF Over, Lighter
  <2>2. QED
    BY <1>8, <2>1, SumNext
<1> DEFINE x == Pick(V)
           Q == V \ {x}
<1>10. x \in V /\ h[V] = k[x] + h[Q]
  BY <1>9
<1> HIDE DEF x
<1>11. ~Over(Q)
  <2>1. Q \in SUBSET V /\ Q # V
    BY <1>10
  <2>2. QED
    BY <1>4, <2>1
<1>12. /\ f[x] \in Nat /\ k[x] \in Nat
       /\ g[P] \in Nat /\ h[Q] \in Nat
  BY <1>4, <1>5, <1>6, <1>7, <1>10
<1>13. CASE x \in P
  <2> DEFINE R == P \ {x}
  <2>1. R \in SUBSET Q /\ R \in SUBSET S /\ R \cup {x} = P /\ x \in S \ R
    BY <1>4, <1>10, <1>13
  <2>2. g[R] <= h[Q]
    BY <1>5, <1>11, <2>1
  <2>3. g[P] = f[x] + g[R]
    <3>1. g[R \cup {x}] = f[x] + g[R]
      BY <2>1, SumAdd
    <3>2. QED
      BY <2>1, <3>1
  <2>4. g[R] \in Nat
    BY <1>6, <2>1
  <2>5. f[x] <= k[x]
    BY <1>5, <1>13
  <2> HIDE DEF Q, R
  <2>6. QED
    BY <1>5, <1>10, <1>12, <2>2, <2>3, <2>4, <2>5
<1>14. CASE x \notin P
  <2>1. P \in SUBSET Q
    BY <1>14
  <2>2. g[P] <= h[Q]
    BY <1>5, <1>11, <2>1
  <2> HIDE DEF Q
  <2>3. QED
    BY <1>5, <1>10, <1>12, <2>2
<1>15. QED
  BY <1>13, <1>14

-----------------------------------------------------------------------------
(***************************************************************************)
(* Total, for weights over a finite set D and the parts of D.              *)
(***************************************************************************)
LEMMA TotalIsSum ==
    ASSUME NEW D, IsFiniteSet(D), NEW f, NEW g, IsSum(g, f, D), NEW T \in SUBSET D
    PROVE  Total(f, T) = g[T]
<1> DEFINE h == CHOOSE k : IsSum(k, f, T)
<1>1. Total(f, T) = h[T]
  BY Zenon DEF Total, MapThenSumSet, MapThenFoldSet, IsSum, Pick
<1>2. IsFiniteSet(T)
  BY FS_Subset
<1>3. IsSum(h, f, T)
  BY <1>2, SumExists
<1> HIDE DEF h
<1>4. g[T] = h[T]
  BY <1>3, SumUnique
<1>5. QED
  BY <1>1, <1>4

LEMMA TotalNat ==
    ASSUME NEW D, IsFiniteSet(D), NEW f \in [D -> Nat], NEW T \in SUBSET D
    PROVE  Total(f, T) \in Nat
<1>1. PICK g : IsSum(g, f, D)
  BY SumExists
<1>2. QED
  BY <1>1, SumNat, TotalIsSum

LEMMA TotalEmpty ==
    ASSUME NEW D, IsFiniteSet(D), NEW f
    PROVE  Total(f, {}) = 0
<1>1. PICK g : IsSum(g, f, D)
  BY SumExists
<1>2. QED
  BY <1>1, TotalIsSum, SumEmpty

LEMMA TotalNoGreater ==
    ASSUME NEW D, IsFiniteSet(D), NEW f \in [D -> Nat], NEW k \in [D -> Nat],
           NEW T \in SUBSET D, NEW U \in SUBSET D, T \subseteq U, \A x \in T : f[x] <= k[x]
    PROVE  Total(f, T) <= Total(k, U)
<1>1. PICK g : IsSum(g, f, D)
  BY SumExists
<1>2. PICK h : IsSum(h, k, D)
  BY SumExists
<1>3. g[T] <= h[U]
  BY <1>1, <1>2, SumNoGreater
<1>4. Total(f, T) = g[T]
  BY <1>1, TotalIsSum
<1>5. Total(k, U) = h[U]
  BY <1>2, TotalIsSum
<1>6. QED
  BY <1>3, <1>4, <1>5

\* One element more adds no more than its weight.
LEMMA TotalOneMore ==
    ASSUME NEW D, IsFiniteSet(D), NEW f \in [D -> Nat], NEW k \in [D -> Nat],
           NEW T \in SUBSET D, NEW U \in SUBSET D, NEW x \in D, NEW n \in Nat,
           \A y \in T : y # x => y \in U /\ f[y] <= k[y],
           x \in T => f[x] <= n
    PROVE  Total(f, T) <= Total(k, U) + n
<1> DEFINE R == T \ {x}
<1>1. Total(f, R) <= Total(k, U)
  <2>1. R \in SUBSET D /\ R \subseteq U /\ \A y \in R : f[y] <= k[y]
    OBVIOUS
  <2> HIDE DEF R
  <2>2. QED
    BY <2>1, TotalNoGreater
<1>2. Total(f, R) \in Nat /\ Total(k, U) \in Nat
  BY TotalNat
<1>3. CASE x \notin T
  <2>1. R = T
    BY <1>3
  <2> HIDE DEF R
  <2>2. QED
    BY <1>1, <1>2, <2>1
<1>4. CASE x \in T
  <2>1. PICK g : IsSum(g, f, D)
    BY SumExists
  <2>2. R \cup {x} = T /\ x \in D \ R /\ R \in SUBSET D
    BY <1>4
  <2> HIDE DEF R
  <2>3. g[R \cup {x}] = f[x] + g[R]
    BY <2>1, <2>2, SumAdd
  <2>4. g[R] = Total(f, R)
    BY <2>1, <2>2, TotalIsSum
  <2>5. g[T] = Total(f, T)
    BY <2>1, TotalIsSum
  <2>6. Total(f, T) = f[x] + Total(f, R)
    BY <2>2, <2>3, <2>4, <2>5
  <2>7. f[x] \in Nat
    BY <1>4
  <2>8. QED
    BY <1>1, <1>2, <1>4, <2>6, <2>7
<1>5. QED
  BY <1>3, <1>4

LEMMA OneElementMore ==
    ASSUME NEW S, IsFiniteSet(S), NEW x, NEW T \in SUBSET (S \cup {x})
    PROVE  /\ Cardinality(T) <= Cardinality(S) + 1
           /\ Cardinality(S) \in Nat
<1>1. Cardinality(S) \in Nat
  BY FS_CardinalityType
<1>2. IsFiniteSet(S \cup {x})
  BY FS_AddElement
<1>3. Cardinality(S \cup {x}) = IF x \in S THEN Cardinality(S) ELSE Cardinality(S) + 1
  BY FS_AddElement
<1>4. Cardinality(T) <= Cardinality(S \cup {x})
  BY <1>2, FS_Subset
<1>5. Cardinality(T) \in Nat
  BY <1>2, FS_Subset, FS_CardinalityType
<1>6. QED
  BY <1>1, <1>3, <1>4, <1>5

-----------------------------------------------------------------------------
(***************************************************************************)
(* The limits.  A sum is over the works that count; a step that does not   *)
(* insert rows takes works from it or makes them cheaper, and one that     *)
(* inserts adds the work for which the request was admitted, while nobody  *)
(* else is admitted on its day.                                            *)
(***************************************************************************)

\* What a work weighs in the sums of seconds and of costs.
Asked == [w \in Work |-> IF workKey[w] \in Key THEN Seconds[workKey[w]] ELSE 0]
Price == [w \in Work |-> IF workState[w] = "committed" THEN actual[w] ELSE Asked[w]]

CountedOn(d) == {w \in WorksOf(d) : ~Free(w)}
CountedFor(u, d) ==
    {w \in Work : subState[w][u] \in Active /\ subDay[w][u] = d /\ ~Free(w)}
ActiveNow == {w \in Work : workState[w] \in Active}

Keyed == \A w \in Work : workState[w] # "absent" => workKey[w] \in Key

\* The fold of seconds over works that have a key.
LEMMA SecondsTotal ==
    ASSUME NEW T \in SUBSET Work, NEW f, \A w \in T : f[w] = Seconds[workKey[w]]
    PROVE  MapThenSumSet(LAMBDA w : Seconds[workKey[w]], T) = Total(f, T)
<1> DEFINE Fold(g) == g = [s \in SUBSET T |->
                             IF s = {} THEN 0 ELSE Seconds[workKey[Pick(s)]] + g[s \ {Pick(s)}]]
           h == CHOOSE g : Fold(g)
<1>1. MapThenSumSet(LAMBDA w : Seconds[workKey[w]], T) = h[T]
  BY Zenon DEF MapThenSumSet, MapThenFoldSet, Pick
<1>2. ASSUME NEW g PROVE Fold(g) <=> IsSum(g, f, T)
  <2>1. \A s \in SUBSET T : s # {} => f[Pick(s)] = Seconds[workKey[Pick(s)]]
    BY PickIn
  <2>2. [s \in SUBSET T |-> IF s = {} THEN 0 ELSE Seconds[workKey[Pick(s)]] + g[s \ {Pick(s)}]]
         = [s \in SUBSET T |-> IF s = {} THEN 0 ELSE f[Pick(s)] + g[s \ {Pick(s)}]]
    BY <2>1
  <2>3. QED
    BY <2>2 DEF IsSum
<1> HIDE DEF Fold
<1>3. IsFiniteSet(T)
  BY BudgetConstants, FS_Subset
<1>4. PICK g : IsSum(g, f, T)
  BY <1>3, SumExists
<1>5. IsSum(h, f, T)
  BY <1>2, <1>4
<1> HIDE DEF h
<1>6. QED
  BY <1>1, <1>3, <1>5, TotalIsSum

LEMMA CostTotal ==
    ASSUME NEW T \in SUBSET Work, NEW f, \A w \in T : f[w] = Cost(w)
    PROVE  MapThenSumSet(Cost, T) = Total(f, T)
<1> DEFINE Fold(g) == g = [s \in SUBSET T |->
                             IF s = {} THEN 0 ELSE Cost(Pick(s)) + g[s \ {Pick(s)}]]
           h == CHOOSE g : Fold(g)
<1>1. MapThenSumSet(Cost, T) = h[T]
  BY Zenon DEF MapThenSumSet, MapThenFoldSet, Pick
<1>2. ASSUME NEW g PROVE Fold(g) <=> IsSum(g, f, T)
  <2>1. \A s \in SUBSET T : s # {} => f[Pick(s)] = Cost(Pick(s))
    BY PickIn
  <2>2. [s \in SUBSET T |-> IF s = {} THEN 0 ELSE Cost(Pick(s)) + g[s \ {Pick(s)}]]
         = [s \in SUBSET T |-> IF s = {} THEN 0 ELSE f[Pick(s)] + g[s \ {Pick(s)}]]
    BY <2>1
  <2>3. QED
    BY <2>2 DEF IsSum
<1> HIDE DEF Fold
<1>3. IsFiniteSet(T)
  BY BudgetConstants, FS_Subset
<1>4. PICK g : IsSum(g, f, T)
  BY <1>3, SumExists
<1>5. IsSum(h, f, T)
  BY <1>2, <1>4
<1> HIDE DEF h
<1>6. QED
  BY <1>1, <1>3, <1>5, TotalIsSum

SumsAre ==
    /\ Asked \in [Work -> Nat] /\ Price \in [Work -> Nat]
    /\ \A d \in Day : /\ DailySeconds(d) = Total(Asked, CountedOn(d))
                      /\ DailyCost(d) = Total(Price, WorksOf(d))
                      /\ DailySeconds(d) \in Nat /\ DailyCost(d) \in Nat
    /\ \A u \in User, d \in Day : /\ UserSeconds(u, d) = Total(Asked, CountedFor(u, d))
                                  /\ UserSeconds(u, d) \in Nat
    /\ MonthlyCost = Total(Price, ActiveNow) /\ MonthlyCost \in Nat
    /\ Cardinality(ReservedWorks) \in Nat
    /\ \A u \in User : Cardinality(ReservedBy(u)) \in Nat

LEMMA SumsAreTotals ==
    TypeOK /\ AbsentIsBlank /\ Keyed => SumsAre
<1> SUFFICES ASSUME TypeOK, AbsentIsBlank, Keyed PROVE SumsAre
  OBVIOUS
<1> USE DEF TypeOK, RowTypes
<1>1. Asked \in [Work -> Nat]
  BY BudgetConstants DEF Asked
<1>2. Price \in [Work -> Nat]
  BY <1>1 DEF Price
<1>3. ASSUME NEW w \in Work, workState[w] # "absent"
      PROVE Asked[w] = Seconds[workKey[w]] /\ Price[w] = Cost(w)
  BY <1>3 DEF Asked, Price, Cost, Keyed
<1>4. ASSUME NEW d \in Day
      PROVE DailySeconds(d) = Total(Asked, CountedOn(d)) /\ DailySeconds(d) \in Nat
  <2>1. CountedOn(d) \in SUBSET Work /\ \A w \in CountedOn(d) : Asked[w] = Seconds[workKey[w]]
    BY <1>3 DEF CountedOn, WorksOf, Active
  <2>2. DailySeconds(d) = Total(Asked, CountedOn(d))
    BY <2>1, SecondsTotal DEF DailySeconds, CountedOn
  <2>3. Total(Asked, CountedOn(d)) \in Nat
    BY <1>1, <2>1, TotalNat, BudgetConstants
  <2>4. QED
    BY <2>2, <2>3
<1>5. ASSUME NEW d \in Day
      PROVE DailyCost(d) = Total(Price, WorksOf(d)) /\ DailyCost(d) \in Nat
  <2>1. WorksOf(d) \in SUBSET Work /\ \A w \in WorksOf(d) : Price[w] = Cost(w)
    BY <1>3 DEF WorksOf, Active
  <2>2. DailyCost(d) = Total(Price, WorksOf(d))
    BY <2>1, CostTotal DEF DailyCost
  <2>3. Total(Price, WorksOf(d)) \in Nat
    BY <1>2, <2>1, TotalNat, BudgetConstants
  <2>4. QED
    BY <2>2, <2>3
<1>6. MonthlyCost = Total(Price, ActiveNow) /\ MonthlyCost \in Nat
  <2>1. ActiveNow \in SUBSET Work /\ \A w \in ActiveNow : Price[w] = Cost(w)
    BY <1>3 DEF ActiveNow, Active
  <2>2. MonthlyCost = Total(Price, ActiveNow)
    BY <2>1, CostTotal DEF MonthlyCost, ActiveNow
  <2>3. Total(Price, ActiveNow) \in Nat
    BY <1>2, <2>1, TotalNat, BudgetConstants
  <2>4. QED
    BY <2>2, <2>3
<1>7. ASSUME NEW u \in User, NEW d \in Day
      PROVE UserSeconds(u, d) = Total(Asked, CountedFor(u, d)) /\ UserSeconds(u, d) \in Nat
  <2>1. /\ CountedFor(u, d) \in SUBSET Work
        /\ \A w \in CountedFor(u, d) : Asked[w] = Seconds[workKey[w]]
    BY <1>3 DEF CountedFor, Active, AbsentIsBlank
  <2>2. UserSeconds(u, d) = Total(Asked, CountedFor(u, d))
    BY <2>1, SecondsTotal DEF UserSeconds, CountedFor
  <2>3. Total(Asked, CountedFor(u, d)) \in Nat
    BY <1>1, <2>1, TotalNat, BudgetConstants
  <2>4. QED
    BY <2>2, <2>3
<1>8. ASSUME NEW S \in SUBSET Work PROVE Cardinality(S) \in Nat
  BY BudgetConstants, FS_Subset, FS_CardinalityType
<1>9. ReservedWorks \in SUBSET Work /\ \A u \in User : ReservedBy(u) \in SUBSET Work
  BY DEF ReservedWorks, ReservedBy
<1>10. QED
  BY <1>1, <1>2, <1>4, <1>5, <1>6, <1>7, <1>8, <1>9 DEF SumsAre

-----------------------------------------------------------------------------
\* The rows of w as a request inserts them.
InsertOf(q, w) ==
    /\ pc[q] = "admitted"
    /\ \/ work[q] = None /\ CreateWork(w, call[q])
       \/ work[q] = w /\ subState[w][call[q].user] = "absent" /\ UNCHANGED workVars
    /\ Subscribe(w, call[q])

NewWork(w) == workState'[w] \in Active /\ workState[w] \notin Active
NewSub(w, u) ==
    subState'[w][u] \in Active /\ ~(subState[w][u] \in Active /\ subDay'[w][u] = subDay[w][u])

\* The works and subscriptions that begin to count are those of one request.
LEMMA Additions ==
    ASSUME TypeOK, RowInv, [Next]_budgetVars
    PROVE  \/ \A w \in Work : ~NewWork(w) /\ \A u \in User : ~NewSub(w, u)
           \/ \E q \in Request, v \in Work :
                /\ InsertOf(q, v) /\ pc'[q] # "admitted"
                /\ \A w \in Work : NewWork(w) => w = v /\ work[q] = None
                /\ \A w \in Work, u \in User : NewSub(w, u) => w = v /\ u = call[q].user
<1> USE DEF TypeOK, RowTypes
<1>1. ASSUME NEW q \in Request, Insert(q)
      PROVE \E v \in Work :
                /\ InsertOf(q, v) /\ pc'[q] # "admitted"
                /\ \A w \in Work : NewWork(w) => w = v /\ work[q] = None
                /\ \A w \in Work, u \in User : NewSub(w, u) => w = v /\ u = call[q].user
  <2>1. PICK v \in Work :
          /\ \/ work[q] = None /\ CreateWork(v, call[q])
             \/ work[q] = v /\ subState[v][call[q].user] = "absent" /\ UNCHANGED workVars
          /\ Subscribe(v, call[q])
    BY <1>1 DEF Insert
  <2>2. pc[q] = "admitted"
    BY <1>1 DEF Insert
  <2>3. pc'[q] # "admitted"
    BY <1>1 DEF Insert, Return, RequestTypes
  <2>4. ASSUME NEW w \in Work, NewWork(w) PROVE w = v /\ work[q] = None
    <3>1. CASE work[q] = None /\ CreateWork(v, call[q])
      BY <2>4, <3>1 DEF NewWork, CreateWork
    <3>2. CASE UNCHANGED workVars
      BY <2>4, <3>2 DEF NewWork, workVars
    <3>3. QED
      BY <2>1, <3>1, <3>2
  <2>5. ASSUME NEW w \in Work, NEW u \in User, NewSub(w, u) PROVE w = v /\ u = call[q].user
    <3>1. CASE w # v
      BY <2>1, <2>5, <3>1 DEF NewSub, Subscribe
    <3>2. CASE w = v /\ u # call[q].user
      BY <2>1, <2>5, <3>2 DEF NewSub, Subscribe
    <3>3. QED
      BY <3>1, <3>2
  <2>6. QED
    BY <2>1, <2>2, <2>3, <2>4, <2>5 DEF InsertOf
<1>2. ASSUME \A q \in Request : ~Insert(q), NEW w \in Work PROVE ~NewWork(w)
  <2>1. ASSUME NEW q \in Request, Released(q)
        PROVE workState'[w] = workState[w] \/ workState'[w] = "released"
    BY <2>1 DEF Released, Release
  <2>2. ASSUME NEW k \in Worker, Commit(k) \/ Fail(k), workState[w] = "absent"
        PROVE workState'[w] = workState[w]
    <3>1. CASE StillReserved(op[k].work)
      <4>1. \/ workState' = [workState EXCEPT ![op[k].work] = "committed"]
            \/ workState' = [workState EXCEPT ![op[k].work] = "released"]
        BY <2>2, <3>1 DEF Commit, Fail
      <4>2. op[k].work # w
        BY <2>2, <3>1 DEF StillReserved
      <4>3. QED
        BY <4>1, <4>2
    <3>2. CASE ~StillReserved(op[k].work)
      BY <2>2, <3>2 DEF Commit, Fail
    <3>3. QED
      BY <3>1, <3>2
  <2>3. workState[w] = "absent" => workState'[w] \notin Active
    BY RowSteps, <1>2, <2>1, <2>2 DEF RowsKept, AttachWrite, workVars, TakeEvent, Active
  <2>4. QED
    BY WorkMoves, <2>3 DEF NewWork, Active
<1>3. ASSUME \A q \in Request : ~Insert(q) PROVE subDay' = subDay
  BY <1>3
  DEF Next, RequestStep, WorkerStep, budgetVars, Begin, Rejoin, Admit, InsertRefused,
      ContextFails, AttachRead, AttachWrite, Compensate, Release, Die, Start, Abort,
      Commit, Fail, TakeEvent, NextDay, subVars
<1>4. ASSUME \A q \in Request : ~Insert(q), NEW w \in Work, NEW u \in User
      PROVE subState[w][u] = "absent" => subState'[w][u] # "reserved"
  <2> SUFFICES ASSUME subState[w][u] = "absent" PROVE subState'[w][u] # "reserved"
    OBVIOUS
  <2>1. ASSUME NEW q \in Request, AttachWrite(q) PROVE subState'[w][u] # "reserved"
    <3>1. \/ UNCHANGED subState
          \/ subState' = [subState EXCEPT ![work[q]][call[q].user] = "committed"]
      BY <2>1 DEF AttachWrite
    <3>2. QED
      BY <3>1
  <2>2. ASSUME NEW q \in Request, Released(q) PROVE subState'[w][u] # "reserved"
    BY <2>2 DEF Released, Release
  <2>3. ASSUME NEW k \in Worker, Commit(k) PROVE subState'[w][u] # "reserved"
    <3>1. CASE StillReserved(op[k].work)
      <4>1. Settle(op[k].work, op[k].subs, "committed")
        BY <2>3, <3>1 DEF Commit
      <4>2. QED
        BY <4>1 DEF Settle
    <3>2. CASE ~StillReserved(op[k].work)
      BY <2>3, <3>2 DEF Commit
    <3>3. QED
      BY <3>1, <3>2
  <2>4. ASSUME NEW k \in Worker, Fail(k) PROVE subState'[w][u] # "reserved"
    BY <2>4 DEF Fail, Settle
  <2>5. QED
    BY RowSteps, <1>4, <2>1, <2>2, <2>3, <2>4 DEF RowsKept, TakeEvent, subVars
<1>5. ASSUME \A q \in Request : ~Insert(q), NEW w \in Work, NEW u \in User
      PROVE ~NewSub(w, u)
  BY <1>3, <1>4, <1>5, SubMoves DEF SubMove, NewSub, Active, RowInv
<1>6. QED
  BY <1>1, <1>2, <1>5

\* What never changes of a work once it is there, and what it may come to cost.
WorkStays(w) ==
    /\ workState[w] # "absent" => workKey'[w] = workKey[w] /\ workDay'[w] = workDay[w]
    /\ workState[w] = "committed" => workState'[w] = "committed" /\ actual'[w] = actual[w]
    /\ workState[w] = "reserved" /\ workState'[w] = "committed" => actual'[w] <= Asked[w]

LEMMA WorksStay ==
    ASSUME TypeOK, RowInv, Keyed, [Next]_budgetVars, NEW w \in Work
    PROVE  WorkStays(w)
<1> USE DEF TypeOK, RowTypes
<1>1. ASSUME UNCHANGED <<workKey, workDay, actual>>,
             \/ workState' = workState
             \/ \E v \in Work : workState[v] = "reserved"
                                /\ workState' = [workState EXCEPT ![v] = "released"]
      PROVE WorkStays(w)
  BY <1>1 DEF WorkStays
<1>2. ASSUME NEW q \in Request, Insert(q) PROVE WorkStays(w)
  <2>1. PICK v \in Work : CreateWork(v, call[q]) \/ UNCHANGED workVars
    BY <1>2 DEF Insert
  <2>2. CASE CreateWork(v, call[q])
    BY <2>2 DEF CreateWork, WorkStays
  <2>3. CASE UNCHANGED workVars
    BY <1>1, <2>3 DEF workVars
  <2>4. QED
    BY <2>1, <2>2, <2>3
<1>3. ASSUME NEW q \in Request, Released(q) PROVE WorkStays(w)
  BY <1>1, <1>3, WorkKnown DEF Released, Releasable, Release
<1>4. ASSUME NEW k \in Worker, Commit(k) PROVE WorkStays(w)
  <2>1. CASE StillReserved(op[k].work)
    <3> DEFINE v == op[k].work
    <3>1. v \in Work /\ workState[v] = "reserved"
      BY <1>4, <2>1, OpKnown DEF Commit, StillReserved
    <3>2. PICK n \in 0..Seconds[workKey[v]] : actual' = [actual EXCEPT ![v] = n]
      BY <1>4, <2>1 DEF Commit
    <3>3. workState' = [workState EXCEPT ![v] = "committed"] /\ UNCHANGED <<workKey, workDay>>
      BY <1>4, <2>1 DEF Commit
    <3>4. Asked[v] = Seconds[workKey[v]] /\ Asked[v] \in Nat
      BY <3>1, BudgetConstants DEF Asked, Keyed
    <3> HIDE DEF v
    <3>5. CASE w = v
      BY <3>1, <3>2, <3>3, <3>4, <3>5 DEF WorkStays
    <3>6. CASE w # v
      BY <3>1, <3>2, <3>3, <3>6 DEF WorkStays
    <3>7. QED
      BY <3>5, <3>6
  <2>2. CASE ~StillReserved(op[k].work)
    BY <1>1, <1>4, <2>2 DEF Commit
  <2>3. QED
    BY <2>1, <2>2
<1>5. ASSUME NEW k \in Worker, Fail(k) PROVE WorkStays(w)
  <2>1. UNCHANGED <<workKey, workDay, actual>> /\ op[k].work \in Work
    BY <1>5, OpKnown DEF Fail
  <2>2. CASE StillReserved(op[k].work)
    <3>1. workState' = [workState EXCEPT ![op[k].work] = "released"]
      BY <1>5, <2>2 DEF Fail
    <3>2. QED
      BY <1>1, <2>1, <2>2, <3>1 DEF StillReserved
  <2>3. CASE ~StillReserved(op[k].work)
    BY <1>1, <1>5, <2>1, <2>3 DEF Fail
  <2>4. QED
    BY <2>2, <2>3
<1>6. UNCHANGED workVars \/ (\E q \in Request : Insert(q) \/ Released(q))
        \/ (\E k \in Worker : Commit(k) \/ Fail(k))
        \/ (\E v \in Work : TakeEvent(v))
  BY DEF Next, RequestStep, WorkerStep, budgetVars, Begin, Rejoin, Admit, InsertRefused,
      ContextFails, AttachRead, AttachWrite, Compensate, Released, Die, Start, Abort, NextDay
<1>7. QED
  BY <1>1, <1>2, <1>3, <1>4, <1>5, <1>6 DEF workVars, TakeEvent

LEMMA KeyedStep ==
    ASSUME TypeOK, TypeOK', RowInv, Keyed, [Next]_budgetVars
    PROVE  Keyed'
<1> SUFFICES ASSUME NEW w \in Work, workState'[w] # "absent" PROVE workKey'[w] \in Key
  BY DEF Keyed
<1> USE DEF TypeOK, RowTypes
<1>1. CASE workState[w] # "absent"
  BY <1>1, WorksStay DEF WorkStays, Keyed
<1>2. CASE workState[w] = "absent"
  <2>1. NewWork(w)
    BY <1>2, WorkMoves DEF NewWork, Active
  <2>2. PICK q \in Request : InsertOf(q, w) /\ work[q] = None
    BY <2>1, Additions
  <2>3. workKey'[w] = call[q].key /\ call[q] \in Call
    BY <2>1, <2>2 DEF InsertOf, CreateWork, RequestTypes, NewWork, workVars
  <2>4. QED
    BY <2>3 DEF Call
<1>3. QED
  BY <1>1, <1>2

-----------------------------------------------------------------------------
\* A work that counts weighs no more than it did.
LEMMA Weights ==
    ASSUME TypeOK, TypeOK', SumsAre, SumsAre', Keyed, [Next]_budgetVars,
           NEW w \in Work, WorkStays(w)
    PROVE  /\ Free(w) => Free(w)'
           /\ workState[w] # "absent" => (Asked')[w] = Asked[w]
           /\ workState[w] \in Active /\ workState'[w] \in Active => (Price')[w] <= Price[w]
<1> USE DEF TypeOK, RowTypes
<1>1. Free(w) => Free(w)'
  BY DEF Free, WorkStays
<1>2. workState[w] # "absent" => (Asked')[w] = Asked[w]
  BY DEF Asked, WorkStays
<1>3. Asked[w] \in Nat /\ Price[w] \in Nat
  BY DEF SumsAre
<1>4. workState[w] = "committed" => (Price')[w] = Price[w]
  BY DEF Price, WorkStays
<1>5. workState[w] = "reserved" => Price[w] = Asked[w]
  BY DEF Price
<1>6. (Price')[w] = IF workState'[w] = "committed" THEN actual'[w] ELSE (Asked')[w]
  BY DEF Price
<1>7. workState[w] = "reserved" /\ workState'[w] = "committed" => (Price')[w] <= Price[w]
  BY <1>5, <1>6 DEF WorkStays
<1>8. workState[w] = "reserved" /\ workState'[w] = "reserved" => (Price')[w] = Price[w]
  BY <1>2, <1>5, <1>6
<1>9. QED
  BY <1>1, <1>2, <1>3, <1>4, <1>7, <1>8 DEF Active

\* What holds before and after every step.
Sums == TypeOK /\ RowInv /\ Keyed /\ SumsAre

\* The sums of a day that gets no work.
LEMMA DayNoMore ==
    ASSUME Sums, Sums', [Next]_budgetVars, NEW d \in Day,
           \A w \in Work : NewWork(w) => workDay'[w] # d
    PROVE  DailySeconds(d)' <= DailySeconds(d) /\ DailyCost(d)' <= DailyCost(d)
<1> USE DEF Sums
<1>1. ASSUME NEW w \in Work, w \in WorksOf(d)'
      PROVE /\ w \in WorksOf(d) /\ (Asked')[w] <= Asked[w] /\ (Price')[w] <= Price[w]
            /\ Free(w) => Free(w)'
  <2>1. workState'[w] \in Active /\ workDay'[w] = d
    BY <1>1 DEF WorksOf
  <2>2. workState[w] \in Active
    BY <1>1, <2>1 DEF NewWork
  <2>3. w \in WorksOf(d)
    BY <2>1, <2>2, WorksStay DEF WorkStays, WorksOf, Active
  <2>4. Asked[w] \in Nat
    BY DEF SumsAre
  <2>5. QED
    BY <2>1, <2>2, <2>3, <2>4, WorksStay, Weights DEF Active
<1>2. WorksOf(d)' \in SUBSET Work /\ WorksOf(d) \in SUBSET Work
  BY DEF WorksOf
<1>3. WorksOf(d)' \subseteq WorksOf(d)
  BY <1>1, <1>2
<1>4. CountedOn(d)' \in SUBSET Work /\ CountedOn(d) \in SUBSET Work
  BY <1>2 DEF CountedOn
<1>5. CountedOn(d)' \subseteq CountedOn(d) /\ \A w \in CountedOn(d)' : (Asked')[w] <= Asked[w]
  BY <1>1, <1>2 DEF CountedOn
<1>6. Asked \in [Work -> Nat] /\ Asked' \in [Work -> Nat]
      /\ Price \in [Work -> Nat] /\ Price' \in [Work -> Nat]
  BY DEF SumsAre
<1>7. Total(Asked', CountedOn(d)') <= Total(Asked, CountedOn(d))
  BY <1>4, <1>5, <1>6, BudgetConstants, TotalNoGreater
<1>8. Total(Price', WorksOf(d)') <= Total(Price, WorksOf(d))
  BY <1>1, <1>2, <1>3, <1>6, BudgetConstants, TotalNoGreater
<1>9. QED
  BY <1>7, <1>8 DEF SumsAre

\* What one request adds to the works.
LEMMA OneMore ==
    ASSUME Sums, Sums', [Next]_budgetVars, NEW q \in Request, NEW v \in Work,
           InsertOf(q, v), work[q] = None
    PROVE  /\ workDay'[v] = call[q].day
           /\ (Asked')[v] = Seconds[call[q].key] /\ (Price')[v] = Seconds[call[q].key]
           /\ Seconds[call[q].key] \in Nat
<1> USE DEF Sums, TypeOK, RowTypes
<1>1. call[q] \in Call
  BY DEF InsertOf, RequestTypes
<1>2. CreateWork(v, call[q])
  BY BudgetConstants DEF InsertOf
<1>3. workState'[v] = "reserved" /\ workKey'[v] = call[q].key /\ workDay'[v] = call[q].day
  BY <1>2 DEF CreateWork
<1>4. call[q].key \in Key
  BY <1>1 DEF Call
<1>5. QED
  BY <1>3, <1>4, BudgetConstants DEF Asked, Price

LEMMA DayOneMore ==
    ASSUME Sums, Sums', [Next]_budgetVars, NEW d \in Day, NEW q \in Request, NEW v \in Work,
           InsertOf(q, v), work[q] = None, \A w \in Work : NewWork(w) => w = v
    PROVE  /\ DailySeconds(d)' <= DailySeconds(d) + Seconds[call[q].key]
           /\ DailyCost(d)' <= DailyCost(d) + Seconds[call[q].key]
<1> USE DEF Sums
<1> DEFINE n == Seconds[call[q].key]
<1>1. ASSUME NEW w \in Work, w \in WorksOf(d)', w # v
      PROVE /\ w \in WorksOf(d) /\ (Asked')[w] <= Asked[w] /\ (Price')[w] <= Price[w]
            /\ Free(w) => Free(w)'
  <2>1. workState'[w] \in Active /\ workDay'[w] = d
    BY <1>1 DEF WorksOf
  <2>2. workState[w] \in Active
    BY <1>1, <2>1 DEF NewWork
  <2>3. w \in WorksOf(d)
    BY <2>1, <2>2, WorksStay DEF WorkStays, WorksOf, Active
  <2>4. Asked[w] \in Nat
    BY DEF SumsAre
  <2>5. QED
    BY <2>1, <2>2, <2>3, <2>4, WorksStay, Weights DEF Active
<1>2. WorksOf(d)' \in SUBSET Work /\ WorksOf(d) \in SUBSET Work
  BY DEF WorksOf
<1>3. CountedOn(d)' \in SUBSET Work /\ CountedOn(d) \in SUBSET Work
  BY <1>2 DEF CountedOn
<1>4. \A w \in CountedOn(d)' : w # v => w \in CountedOn(d) /\ (Asked')[w] <= Asked[w]
  BY <1>1, <1>2 DEF CountedOn
<1>5. \A w \in WorksOf(d)' : w # v => w \in WorksOf(d) /\ (Price')[w] <= Price[w]
  BY <1>1, <1>2
<1>6. Asked \in [Work -> Nat] /\ Asked' \in [Work -> Nat]
      /\ Price \in [Work -> Nat] /\ Price' \in [Work -> Nat]
  BY DEF SumsAre
<1>7. n \in Nat /\ (Asked')[v] <= n /\ (Price')[v] <= n
  BY OneMore
<1> HIDE DEF n
<1>8. Total(Asked', CountedOn(d)') <= Total(Asked, CountedOn(d)) + n
  BY <1>3, <1>4, <1>6, <1>7, BudgetConstants, TotalOneMore
<1>9. Total(Price', WorksOf(d)') <= Total(Price, WorksOf(d)) + n
  BY <1>2, <1>5, <1>6, <1>7, BudgetConstants, TotalOneMore
<1>10. QED
  BY <1>8, <1>9 DEF SumsAre, n

\* The works that are active.
LEMMA ActiveBefore ==
    ASSUME Sums, Sums', [Next]_budgetVars, NEW w \in Work, w \in ActiveNow', ~NewWork(w)
    PROVE  w \in ActiveNow /\ (Price')[w] <= Price[w]
<1> USE DEF Sums
<1>1. workState'[w] \in Active /\ workState[w] \in Active
  BY DEF ActiveNow, NewWork
<1>2. QED
  BY <1>1, WorksStay, Weights DEF ActiveNow

LEMMA MonthNoMore ==
    ASSUME Sums, Sums', [Next]_budgetVars, \A w \in Work : ~NewWork(w)
    PROVE  /\ MonthlyCost' <= MonthlyCost
           /\ Cardinality(ReservedWorks)' <= Cardinality(ReservedWorks)
           /\ Cardinality(ReservedWorks) \in Nat
<1> USE DEF Sums
<1>1. ActiveNow' \in SUBSET Work /\ ActiveNow \in SUBSET Work
  BY DEF ActiveNow
<1>2. ActiveNow' \subseteq ActiveNow /\ \A w \in ActiveNow' : (Price')[w] <= Price[w]
  BY <1>1, ActiveBefore
<1>3. Price \in [Work -> Nat] /\ Price' \in [Work -> Nat]
  BY DEF SumsAre
<1>4. Total(Price', ActiveNow') <= Total(Price, ActiveNow)
  BY <1>1, <1>2, <1>3, BudgetConstants, TotalNoGreater
<1>5. ReservedWorks' \subseteq ReservedWorks /\ IsFiniteSet(ReservedWorks)
  <2>1. ReservedWorks' \subseteq ReservedWorks
    BY WorkMoves DEF ReservedWorks, NewWork, Active
  <2>2. ReservedWorks \in SUBSET Work
    BY DEF ReservedWorks
  <2>3. QED
    BY <2>1, <2>2, BudgetConstants, FS_Subset
<1>6. Cardinality(ReservedWorks') <= Cardinality(ReservedWorks)
  BY <1>5, FS_Subset
<1>7. QED
  BY <1>4, <1>5, <1>6, FS_CardinalityType DEF SumsAre

LEMMA MonthOneMore ==
    ASSUME Sums, Sums', [Next]_budgetVars, NEW q \in Request, NEW v \in Work,
           InsertOf(q, v), work[q] = None, \A w \in Work : NewWork(w) => w = v
    PROVE  /\ MonthlyCost' <= MonthlyCost + Seconds[call[q].key]
           /\ Cardinality(ReservedWorks)' <= Cardinality(ReservedWorks) + 1
           /\ Cardinality(ReservedWorks) \in Nat
<1> USE DEF Sums
<1> DEFINE n == Seconds[call[q].key]
<1>1. ActiveNow' \in SUBSET Work /\ ActiveNow \in SUBSET Work
  BY DEF ActiveNow
<1>2. \A w \in ActiveNow' : w # v => w \in ActiveNow /\ (Price')[w] <= Price[w]
  BY <1>1, ActiveBefore
<1>3. Price \in [Work -> Nat] /\ Price' \in [Work -> Nat]
  BY DEF SumsAre
<1>4. n \in Nat /\ (Price')[v] <= n
  BY OneMore
<1> HIDE DEF n
<1>5. Total(Price', ActiveNow') <= Total(Price, ActiveNow) + n
  BY <1>1, <1>2, <1>3, <1>4, BudgetConstants, TotalOneMore
<1>6. ReservedWorks' \subseteq ReservedWorks \cup {v} /\ IsFiniteSet(ReservedWorks)
  <2>1. ReservedWorks' \subseteq ReservedWorks \cup {v}
    BY WorkMoves DEF ReservedWorks, NewWork, Active
  <2>2. ReservedWorks \in SUBSET Work
    BY DEF ReservedWorks
  <2>3. QED
    BY <2>1, <2>2, BudgetConstants, FS_Subset
<1>7. /\ Cardinality(ReservedWorks') <= Cardinality(ReservedWorks) + 1
      /\ Cardinality(ReservedWorks) \in Nat
  BY <1>6, OneElementMore
<1>8. QED
  BY <1>5, <1>7 DEF SumsAre, n

-----------------------------------------------------------------------------
\* The works that count for a user who gets none of that day.
LEMMA CountedBefore ==
    ASSUME Sums, Sums', [Next]_budgetVars, NEW u \in User, NEW d \in Day, NEW w \in Work,
           w \in CountedFor(u, d)', ~NewSub(w, u)
    PROVE  w \in CountedFor(u, d) /\ (Asked')[w] <= Asked[w]
<1> USE DEF Sums
<1>1. /\ subState[w][u] \in Active /\ subDay[w][u] = d /\ ~Free(w)'
  BY DEF CountedFor, NewSub
<1>2. workState[w] # "absent"
  BY <1>1 DEF RowInv, AbsentIsBlank, Active
<1>3. Asked[w] \in Nat
  BY DEF SumsAre
<1>4. QED
  BY <1>1, <1>2, <1>3, WorksStay, Weights DEF CountedFor

LEMMA UserNoMore ==
    ASSUME Sums, Sums', [Next]_budgetVars, NEW u \in User, NEW d \in Day,
           \A w \in Work : NewSub(w, u) => subDay'[w][u] # d
    PROVE  UserSeconds(u, d)' <= UserSeconds(u, d)
<1> USE DEF Sums
<1>1. CountedFor(u, d)' \in SUBSET Work /\ CountedFor(u, d) \in SUBSET Work
  BY DEF CountedFor
<1>2. ASSUME NEW w \in CountedFor(u, d)' PROVE w \in Work /\ ~NewSub(w, u)
  BY <1>2 DEF CountedFor
<1>3. CountedFor(u, d)' \subseteq CountedFor(u, d)
      /\ \A w \in CountedFor(u, d)' : (Asked')[w] <= Asked[w]
  BY <1>2, CountedBefore
<1>4. Asked \in [Work -> Nat] /\ Asked' \in [Work -> Nat]
  BY DEF SumsAre
<1>5. Total(Asked', CountedFor(u, d)') <= Total(Asked, CountedFor(u, d))
  BY <1>1, <1>3, <1>4, BudgetConstants, TotalNoGreater
<1>6. QED
  BY <1>5 DEF SumsAre

LEMMA UserOneMore ==
    ASSUME Sums, Sums', [Next]_budgetVars, NEW u \in User, NEW d \in Day,
           NEW v \in Work, NEW n \in Nat,
           \A w \in Work : NewSub(w, u) => w = v, (Asked')[v] = n
    PROVE  UserSeconds(u, d)' <= UserSeconds(u, d) + n
<1> USE DEF Sums
<1>1. CountedFor(u, d)' \in SUBSET Work /\ CountedFor(u, d) \in SUBSET Work
  BY DEF CountedFor
<1>2. \A w \in CountedFor(u, d)' : w # v => w \in CountedFor(u, d) /\ (Asked')[w] <= Asked[w]
  BY <1>1, CountedBefore
<1>3. Asked \in [Work -> Nat] /\ Asked' \in [Work -> Nat]
  BY DEF SumsAre
<1>4. (Asked')[v] <= n
  OBVIOUS
<1>5. Total(Asked', CountedFor(u, d)') <= Total(Asked, CountedFor(u, d)) + n
  BY <1>1, <1>2, <1>3, <1>4, BudgetConstants, TotalOneMore
<1>6. QED
  BY <1>5 DEF SumsAre

LEMMA SlotsNoMore ==
    ASSUME Sums, Sums', [Next]_budgetVars, NEW u \in User, \A w \in Work : ~NewSub(w, u)
    PROVE  /\ Cardinality(ReservedBy(u))' <= Cardinality(ReservedBy(u))
           /\ Cardinality(ReservedBy(u)) \in Nat
<1> USE DEF Sums
<1>1. ReservedBy(u)' \subseteq ReservedBy(u)
  BY SubMoves DEF ReservedBy, NewSub, SubMove, RowInv, Active
<1>2. ReservedBy(u) \in SUBSET Work
  BY DEF ReservedBy
<1>3. IsFiniteSet(ReservedBy(u))
  BY <1>2, BudgetConstants, FS_Subset
<1>4. Cardinality(ReservedBy(u)') <= Cardinality(ReservedBy(u))
  BY <1>1, <1>3, FS_Subset
<1>5. QED
  BY <1>3, <1>4, FS_CardinalityType

LEMMA SlotsOneMore ==
    ASSUME Sums, Sums', [Next]_budgetVars, NEW u \in User, NEW v \in Work,
           \A w \in Work : NewSub(w, u) => w = v
    PROVE  /\ Cardinality(ReservedBy(u))' <= Cardinality(ReservedBy(u)) + 1
           /\ Cardinality(ReservedBy(u)) \in Nat
<1> USE DEF Sums
<1>1. ReservedBy(u)' \subseteq ReservedBy(u) \cup {v}
  BY SubMoves DEF ReservedBy, NewSub, SubMove, RowInv, Active
<1>2. ReservedBy(u) \in SUBSET Work
  BY DEF ReservedBy
<1>3. IsFiniteSet(ReservedBy(u))
  BY <1>2, BudgetConstants, FS_Subset
<1>4. QED
  BY <1>1, <1>3, OneElementMore

-----------------------------------------------------------------------------
\* Requests are of days that have come, and admitted one at a time on each.
Dated == \A q \in Request : call[q] # None => call[q].day <= today
OnePerDay ==
    \A q, r \in Request :
        pc[q] = "admitted" /\ pc[r] = "admitted" /\ call[q].day = call[r].day => q = r

\* The work that is joined is of the key that is asked for.
JoinedKey ==
    \A q \in Request : pc[q] = "admitted" /\ work[q] # None => workKey[work[q]] = call[q].key

\* There is room for what c asks for, m being the work that it joins.
Room(c, m) ==
    /\ UserSeconds(c.user, c.day) + Seconds[c.key] <= MaxUserSeconds
    /\ m = None => DayFits(c.day, Seconds[c.key])
    /\ today = 1 =>
         /\ m = None => MonthFits(Seconds[c.key]) /\ Cardinality(ReservedWorks) < MaxWorks
         /\ Cardinality(ReservedBy(c.user)) < MaxWorksPerUser

AdmittedFits == \A q \in Request : pc[q] = "admitted" => Room(call[q], work[q])

BudgetInv ==
    /\ Dated /\ OnePerDay /\ JoinedKey /\ AdmittedFits
    /\ UserWithinDay /\ WorksWithinDay /\ ServiceWithinLimits

\* The clock does not go back.
LEMMA DayPasses ==
    ASSUME TypeOK, [Next]_budgetVars
    PROVE  today \in Nat /\ today' \in Nat /\ today <= today' /\ today >= 1
<1>1. today' = today \/ NextDay
  BY DEF Next, RequestStep, WorkerStep, budgetVars, Begin, Rejoin, Admit, Insert,
         InsertRefused, ContextFails, AttachRead, AttachWrite, Compensate, Die,
         TakeEvent, Start, Commit, Fail, Abort
<1>2. today \in Nat /\ today >= 1
  BY BudgetConstants DEF TypeOK, Day
<1>3. QED
  BY <1>1, <1>2 DEF NextDay

\* How a request comes to be admitted, or stays so.
LEMMA AdmittedBefore ==
    ASSUME TypeOK, [Next]_budgetVars, NEW q \in Request, pc'[q] = "admitted"
    PROVE  \/ pc[q] = "admitted" /\ work'[q] = work[q] /\ call'[q] = call[q]
           \/ Admit(q)
<1> DEFINE Same == pc[q] = "admitted" /\ work'[q] = work[q] /\ call'[q] = call[q]
<1> USE DEF TypeOK, RequestTypes
<1>1. ASSUME NEW r \in Request, Return(r) PROVE Same
  BY <1>1 DEF Return
<1>2. ASSUME NEW r \in Request, GiveUp(r) PROVE Same
  BY <1>1, <1>2 DEF GiveUp, Goto
<1>3. ASSUME NEW r \in Request, AttachRead(r) PROVE Same
  BY <1>2, <1>3 DEF AttachRead, Goto
<1>4. ASSUME NEW r \in Request, Begin(r) \/ Rejoin(r) PROVE Same
  BY <1>4 DEF Begin, Rejoin
<1>5. ASSUME NEW r \in Request, Insert(r) PROVE Same
  <2>1. CASE Return(r)
    BY <1>1, <2>1
  <2>2. CASE ~Return(r)
    BY <1>5, <2>2 DEF Insert
  <2>3. QED
    BY <2>1, <2>2
<1>6. ASSUME NEW r \in Request, r # q, Admit(r) PROVE Same
  <2>1. CASE Return(r)
    BY <1>1, <2>1
  <2>2. CASE ~Return(r)
    <3>1. PICK m : work' = [work EXCEPT ![r] = m]
      BY <1>6, <2>2 DEF Admit
    <3>2. pc' = [pc EXCEPT ![r] = "admitted"] /\ UNCHANGED call
      BY <1>6, <2>2 DEF Admit
    <3>3. QED
      BY <1>6, <3>1, <3>2
  <2>3. QED
    BY <2>1, <2>2
<1>7. ASSUME UNCHANGED requestVars PROVE Same
  BY <1>7 DEF requestVars
<1>8. ASSUME NEW r \in Request, RequestStep(r) PROVE Same \/ Admit(q)
  <2> HIDE DEF Same, TypeOK, RequestTypes
  <2>1. QED
    BY <1>1, <1>2, <1>3, <1>4, <1>5, <1>6, <1>8
    DEF RequestStep, InsertRefused, ContextFails, AttachWrite, Compensate, Die
<1> HIDE DEF Same, TypeOK, RequestTypes
<1>9. Same \/ Admit(q)
  BY <1>7, <1>8 DEF Next, WorkerStep, budgetVars, TakeEvent, Start, Commit, Fail, Abort, NextDay
<1>10. QED
  BY <1>9 DEF Same

\* What is known of a request that is being admitted.
LEMMA Admitting ==
    ASSUME TypeOK, NEW q \in Request, Admit(q), pc'[q] = "admitted"
    PROVE  /\ DayLockFree(call[q].day) /\ call'[q] = call[q] /\ call[q] \in Call
           /\ Room(call[q], work'[q])
           /\ work'[q] # None => workKey[work'[q]] = call[q].key
           /\ UNCHANGED <<today, workVars, subVars>>
           /\ \A r \in Request : r # q => pc'[r] = pc[r]
<1> USE DEF TypeOK, RequestTypes
<1>1. ~Return(q)
  BY DEF Return
<1> DEFINE works == ActiveWorks(call[q].key)
<1>2. /\ Available(call[q], works # {})
      /\ pc' = [pc EXCEPT ![q] = "admitted"] /\ UNCHANGED call
  BY <1>1 DEF Admit
<1>3. PICK m \in works \cup {None} : (m = None => works = {}) /\ work' = [work EXCEPT ![q] = m]
  BY <1>1 DEF Admit
<1>4. DayLockFree(call[q].day) /\ pc[q] = "waiting" /\ UNCHANGED <<today, workVars, subVars>>
  BY DEF Admit
<1>5. call[q] \in Call /\ work'[q] = m
  BY <1>3, <1>4
<1>6. m # None => workKey[m] = call[q].key
  BY <1>3 DEF ActiveWorks
<1> HIDE DEF works
<1>7. Room(call[q], m)
  BY <1>2, <1>3 DEF Room, Available, UserFits, SlotsFree
<1>8. \A r \in Request : r # q => pc'[r] = pc[r]
  BY <1>2
<1>9. QED
  BY <1>2, <1>4, <1>5, <1>6, <1>7, <1>8

\* Room stays as long as nothing is added on the day of c.
LEMMA RoomStays ==
    ASSUME Sums, Sums', [Next]_budgetVars, NEW c \in Call, NEW m, Room(c, m),
           \A w \in Work : NewWork(w) => workDay'[w] # c.day,
           \A w \in Work : NewSub(w, c.user) => subDay'[w][c.user] # c.day,
           today' = 1 =>
             /\ today = 1
             /\ \A w \in Work : ~NewWork(w)
             /\ \A w \in Work : ~NewSub(w, c.user)
    PROVE  Room(c, m)'
<1> DEFINE u == c.user
           d == c.day
           n == Seconds[c.key]
<1>1. u \in User /\ d \in Day /\ n \in Nat
  BY BudgetConstants DEF Call
<1>2. UserSeconds(u, d)' <= UserSeconds(u, d)
  BY <1>1, UserNoMore
<1>3. DailySeconds(d)' <= DailySeconds(d) /\ DailyCost(d)' <= DailyCost(d)
  BY <1>1, DayNoMore
<1>4. ASSUME today' = 1
      PROVE /\ MonthlyCost' <= MonthlyCost
            /\ Cardinality(ReservedWorks)' <= Cardinality(ReservedWorks)
            /\ Cardinality(ReservedBy(u))' <= Cardinality(ReservedBy(u))
  BY <1>1, <1>4, MonthNoMore, SlotsNoMore
<1>5. /\ UserSeconds(u, d) \in Nat /\ UserSeconds(u, d)' \in Nat
      /\ DailySeconds(d) \in Nat /\ DailySeconds(d)' \in Nat
      /\ DailyCost(d) \in Nat /\ DailyCost(d)' \in Nat
      /\ MonthlyCost \in Nat /\ MonthlyCost' \in Nat
      /\ Cardinality(ReservedWorks) \in Nat /\ Cardinality(ReservedWorks)' \in Nat
      /\ Cardinality(ReservedBy(u)) \in Nat /\ Cardinality(ReservedBy(u))' \in Nat
  BY <1>1 DEF Sums, SumsAre
<1> HIDE DEF u, d, n
<1>6. UserSeconds(u, d)' + n <= MaxUserSeconds
  BY <1>1, <1>2, <1>5, BudgetConstants DEF Room, u, d, n
<1>7. m = None => DayFits(d, n)'
  BY <1>1, <1>3, <1>5, BudgetConstants DEF Room, DayFits, u, d, n
<1>8. ASSUME today' = 1, m = None
      PROVE MonthFits(n)' /\ Cardinality(ReservedWorks)' < MaxWorks
  BY <1>1, <1>4, <1>5, <1>8, BudgetConstants DEF Room, MonthFits, n
<1>9. ASSUME today' = 1 PROVE Cardinality(ReservedBy(u))' < MaxWorksPerUser
  BY <1>1, <1>4, <1>5, <1>9, BudgetConstants DEF Room, u
<1>10. QED
  BY <1>6, <1>7, <1>8, <1>9 DEF Room, u, d, n

\* The day on which a request adds, and the room it was given there.
LEMMA Adding ==
    ASSUME Sums, Sums', [Next]_budgetVars, BudgetInv, NEW q \in Request, NEW v \in Work,
           InsertOf(q, v)
    PROVE  /\ call[q] \in Call /\ Room(call[q], work[q])
           /\ call[q].user \in User /\ call[q].day \in Day /\ Seconds[call[q].key] \in Nat
           /\ subDay'[v][call[q].user] = call[q].day
           /\ (Asked')[v] = Seconds[call[q].key]
<1> USE DEF Sums, TypeOK, RowTypes
<1>1. call[q] \in Call /\ pc[q] = "admitted"
  BY DEF InsertOf, RequestTypes
<1>2. Room(call[q], work[q])
  BY <1>1 DEF BudgetInv, AdmittedFits
<1>3. call[q].user \in User /\ call[q].day \in Day /\ call[q].key \in Key
  BY <1>1 DEF Call
<1>4. Seconds[call[q].key] \in Nat
  BY <1>3, BudgetConstants
<1>5. subDay'[v][call[q].user] = call[q].day
  BY <1>3 DEF InsertOf, Subscribe
<1>6. (Asked')[v] = Seconds[call[q].key]
  <2>1. CASE work[q] = None
    BY <2>1, OneMore
  <2>2. CASE work[q] # None
    <3>1. work[q] = v /\ UNCHANGED workVars
      BY <2>2 DEF InsertOf
    <3>2. workKey'[v] = call[q].key
      BY <1>1, <2>2, <3>1 DEF BudgetInv, JoinedKey, workVars
    <3>3. QED
      BY <1>3, <3>2 DEF Asked
  <2>3. QED
    BY <2>1, <2>2
<1>7. QED
  BY <1>1, <1>2, <1>3, <1>4, <1>5, <1>6

\* On the first day of the month requests are admitted one at a time.
LEMMA FirstDay ==
    ASSUME TypeOK, BudgetInv, NEW q \in Request, NEW r \in Request,
           pc[q] = "admitted", pc[r] = "admitted", today = 1
    PROVE  q = r
<1>1. call[q] \in Call /\ call[r] \in Call /\ call[q] # None /\ call[r] # None
  BY DEF TypeOK, RequestTypes
<1>2. call[q].day \in Day /\ call[r].day \in Day
  BY <1>1 DEF Call
<1>3. call[q].day = 1 /\ call[r].day = 1
  BY <1>1, <1>2, BudgetConstants DEF BudgetInv, Dated, Day
<1>4. QED
  BY <1>3 DEF BudgetInv, OnePerDay

LEMMA DatedStep ==
    ASSUME Sums, Sums', BudgetInv, [Next]_budgetVars
    PROVE  Dated'
<1> SUFFICES ASSUME NEW q \in Request, call'[q] # None PROVE call'[q].day <= today'
  BY DEF Dated
<1> USE DEF Sums, TypeOK
<1>1. call'[q] = call[q] \/ call'[q].day = today
  <2> USE DEF RequestTypes
  <2>1. ASSUME NEW r \in Request, Begin(r) PROVE call'[q] = call[q] \/ call'[q].day = today
    BY <2>1 DEF Begin
  <2>2. ASSUME NEW r \in Request, Return(r) PROVE call'[q] = call[q]
    BY <2>2 DEF Return
  <2>3. ASSUME NEW r \in Request, GiveUp(r) PROVE call'[q] = call[q]
    BY <2>2, <2>3 DEF GiveUp, Goto
  <2>4. ASSUME NEW r \in Request, AttachRead(r) PROVE call'[q] = call[q]
    BY <2>3, <2>4 DEF AttachRead, Goto
  <2>5. ASSUME NEW r \in Request, RequestStep(r)
        PROVE call'[q] = call[q] \/ call'[q].day = today
    <3> HIDE DEF Sums, TypeOK, RequestTypes
    <3>1. QED
      BY <2>1, <2>2, <2>3, <2>4, <2>5
      DEF RequestStep, Rejoin, Admit, Insert, InsertRefused, ContextFails, AttachWrite,
          Compensate, Die
  <2>6. CASE UNCHANGED requestVars
    BY <2>6 DEF requestVars
  <2>7. QED
    BY <2>5, <2>6 DEF Next, WorkerStep, budgetVars, TakeEvent, Start, Commit, Fail, Abort, NextDay
<1>2. today \in Nat /\ today' \in Nat /\ today <= today'
  BY DayPasses
<1>3. CASE call'[q] = call[q]
  <2>1. call[q] \in Call /\ call[q].day <= today
    BY <1>3 DEF BudgetInv, Dated, RequestTypes
  <2>2. call[q].day \in Nat
    BY <2>1, BudgetConstants DEF Call, Day
  <2>3. QED
    BY <1>2, <1>3, <2>1, <2>2
<1>4. QED
  BY <1>1, <1>2, <1>3

LEMMA OnePerDayStep ==
    ASSUME Sums, Sums', BudgetInv, [Next]_budgetVars
    PROVE  OnePerDay'
<1> SUFFICES ASSUME NEW q \in Request, NEW r \in Request, q # r,
                    pc'[q] = "admitted", pc'[r] = "admitted", call'[q].day = call'[r].day
             PROVE  FALSE
  BY DEF OnePerDay
<1> USE DEF Sums
<1>1. ASSUME NEW a \in Request, NEW b \in Request, a # b, Admit(a), pc'[a] = "admitted",
             pc'[b] = "admitted", call'[a].day = call'[b].day
      PROVE  FALSE
  <2>1. DayLockFree(call[a].day) /\ call'[a] = call[a] /\ pc'[b] = pc[b]
    BY <1>1, Admitting
  <2>2. ~Admit(b)
    BY <1>1, <2>1 DEF Admit
  <2>3. call'[b] = call[b]
    BY <1>1, <2>2, AdmittedBefore
  <2>4. QED
    BY <1>1, <2>1, <2>3 DEF DayLockFree
<1>2. CASE Admit(q) \/ Admit(r)
  BY <1>1, <1>2
<1>3. CASE ~Admit(q) /\ ~Admit(r)
  <2>1. pc[q] = "admitted" /\ call'[q] = call[q] /\ pc[r] = "admitted" /\ call'[r] = call[r]
    BY <1>3, AdmittedBefore
  <2>2. QED
    BY <2>1 DEF BudgetInv, OnePerDay
<1>4. QED
  BY <1>2, <1>3

LEMMA JoinedKeyStep ==
    ASSUME Sums, Sums', BudgetInv, [Next]_budgetVars
    PROVE  JoinedKey'
<1> SUFFICES ASSUME NEW q \in Request, pc'[q] = "admitted", work'[q] # None
             PROVE  workKey'[work'[q]] = call'[q].key
  BY DEF JoinedKey
<1> USE DEF Sums
<1>1. CASE Admit(q)
  BY <1>1, Admitting DEF workVars
<1>2. CASE ~Admit(q)
  <2>1. pc[q] = "admitted" /\ work'[q] = work[q] /\ call'[q] = call[q]
    BY <1>2, AdmittedBefore
  <2>2. work[q] \in Work /\ workState[work[q]] \in Active
    BY <2>1 DEF TypeOK, RequestTypes, RowInv, ChargedForWorkDone
  <2>3. workKey'[work[q]] = workKey[work[q]]
    BY <2>2, WorksStay DEF WorkStays, Active
  <2>4. QED
    BY <2>1, <2>3 DEF BudgetInv, JoinedKey
<1>3. QED
  BY <1>1, <1>2

\* An admitted request keeps its room until it inserts.
LEMMA AdmittedFitsStep ==
    ASSUME Sums, Sums', BudgetInv, [Next]_budgetVars
    PROVE  AdmittedFits'
<1> SUFFICES ASSUME NEW q \in Request, pc'[q] = "admitted" PROVE Room(call[q], work[q])'
  BY DEF AdmittedFits
<1> USE DEF Sums
<1>1. PICK c, m : c = call'[q] /\ m = work'[q]
  OBVIOUS
<1>2. c = call[q] /\ c \in Call /\ Room(c, m)
  <2>1. CASE Admit(q)
    BY <1>1, <2>1, Admitting
  <2>2. CASE ~Admit(q)
    <3>1. pc[q] = "admitted" /\ work'[q] = work[q] /\ call'[q] = call[q]
      BY <2>2, AdmittedBefore
    <3>2. call[q] \in Call
      BY <3>1 DEF TypeOK, RequestTypes
    <3>3. QED
      BY <1>1, <3>1, <3>2 DEF BudgetInv, AdmittedFits
  <2>3. QED
    BY <2>1, <2>2
<1>3. today' = 1 => today = 1
  BY DayPasses
<1>4. ASSUME NEW r \in Request, NEW v \in Work, InsertOf(r, v), pc'[r] # "admitted"
      PROVE  call[r].day # c.day /\ today # 1
  <2>1. pc[r] = "admitted" /\ r # q
    BY <1>4 DEF InsertOf
  <2>2. ~Admit(q)
    <3>1. UNCHANGED subVars \/ ~Admit(q)
      BY DEF Admit
    <3>2. ASSUME Admit(q) PROVE FALSE
      <4>1. pc'[r] = pc[r]
        BY <2>1, <3>2, Admitting
      <4>2. QED
        BY <1>4, <2>1, <4>1
    <3>3. QED
      BY <3>2
  <2>3. pc[q] = "admitted"
    BY <2>2, AdmittedBefore
  <2>4. call[r].day # call[q].day
    BY <2>1, <2>3 DEF BudgetInv, OnePerDay
  <2>5. QED
    BY <1>2, <2>1, <2>3, <2>4, FirstDay
<1>5. /\ \A w \in Work : NewWork(w) => workDay'[w] # c.day
      /\ \A w \in Work : NewSub(w, c.user) => subDay'[w][c.user] # c.day
      /\ today' = 1 => \A w \in Work : ~NewWork(w) /\ ~NewSub(w, c.user)
  <2>1. c.user \in User
    BY <1>2 DEF Call
  <2>2. CASE \A w \in Work : ~NewWork(w) /\ \A u \in User : ~NewSub(w, u)
    BY <2>1, <2>2
  <2>3. ASSUME NEW r \in Request, NEW v \in Work,
               InsertOf(r, v), pc'[r] # "admitted",
               \A w \in Work : NewWork(w) => w = v /\ work[r] = None,
               \A w \in Work, u \in User : NewSub(w, u) => w = v /\ u = call[r].user
        PROVE  /\ \A w \in Work : NewWork(w) => workDay'[w] # c.day
               /\ \A w \in Work : NewSub(w, c.user) => subDay'[w][c.user] # c.day
               /\ today' = 1 => \A w \in Work : ~NewWork(w) /\ ~NewSub(w, c.user)
    <3>1. call[r].day # c.day /\ today' # 1
      BY <1>3, <1>4, <2>3
    <3>2. work[r] = None => workDay'[v] = call[r].day
      BY <2>3, OneMore
    <3>3. subDay'[v][call[r].user] = call[r].day
      BY <2>3, Adding
    <3>4. QED
      BY <2>1, <2>3, <3>1, <3>2, <3>3
  <2>4. QED
    BY <2>2, <2>3, Additions
<1>6. Room(c, m)'
  BY <1>2, <1>3, <1>5, RoomStays
<1>7. QED
  BY <1>1, <1>6 DEF Room, DayFits, MonthFits

LEMMA UserWithinDayStep ==
    ASSUME Sums, Sums', BudgetInv, [Next]_budgetVars
    PROVE  UserWithinDay'
<1> SUFFICES ASSUME NEW u \in User, NEW d \in Day PROVE UserSeconds(u, d)' <= MaxUserSeconds
  BY DEF UserWithinDay
<1>1. /\ UserSeconds(u, d) \in Nat /\ UserSeconds(u, d)' \in Nat
      /\ UserSeconds(u, d) <= MaxUserSeconds /\ MaxUserSeconds \in Nat
  BY BudgetConstants DEF Sums, SumsAre, BudgetInv, UserWithinDay
<1>2. ASSUME \A w \in Work : NewSub(w, u) => subDay'[w][u] # d
      PROVE  UserSeconds(u, d)' <= MaxUserSeconds
  BY <1>1, <1>2, UserNoMore
<1>3. ASSUME NEW r \in Request, NEW v \in Work, InsertOf(r, v),
             \A w \in Work, x \in User : NewSub(w, x) => w = v /\ x = call[r].user
      PROVE  UserSeconds(u, d)' <= MaxUserSeconds
  <2>1. CASE u = call[r].user /\ d = call[r].day
    <3>1. PICK n \in Nat : n = Seconds[call[r].key] /\ (Asked')[v] = n
      BY <1>3, Adding
    <3>2. UserSeconds(u, d)' <= UserSeconds(u, d) + n
      BY <1>3, <3>1, UserOneMore
    <3>3. UserSeconds(u, d) + n <= MaxUserSeconds
      BY <1>3, <2>1, <3>1, Adding DEF Room
    <3>4. QED
      BY <1>1, <3>1, <3>2, <3>3
  <2>2. CASE ~(u = call[r].user /\ d = call[r].day)
    <3>1. subDay'[v][call[r].user] = call[r].day
      BY <1>3, Adding
    <3>2. QED
      BY <1>2, <1>3, <2>2, <3>1
  <2>3. QED
    BY <2>1, <2>2
<1>4. RowInv /\ TypeOK
  BY DEF Sums
<1>5. QED
  BY <1>2, <1>3, <1>4, Additions

LEMMA WorksWithinDayStep ==
    ASSUME Sums, Sums', BudgetInv, [Next]_budgetVars
    PROVE  WorksWithinDay'
<1> SUFFICES ASSUME NEW d \in Day
             PROVE DailySeconds(d)' <= MaxDailySeconds /\ DailyCost(d)' <= MaxDailyCost
  BY DEF WorksWithinDay
<1>1. /\ DailySeconds(d) \in Nat /\ DailySeconds(d)' \in Nat
      /\ DailyCost(d) \in Nat /\ DailyCost(d)' \in Nat
      /\ DailySeconds(d) <= MaxDailySeconds /\ DailyCost(d) <= MaxDailyCost
      /\ MaxDailySeconds \in Nat /\ MaxDailyCost \in Nat
  BY BudgetConstants DEF Sums, SumsAre, BudgetInv, WorksWithinDay
<1>2. ASSUME \A w \in Work : NewWork(w) => workDay'[w] # d
      PROVE  DailySeconds(d)' <= MaxDailySeconds /\ DailyCost(d)' <= MaxDailyCost
  BY <1>1, <1>2, DayNoMore
<1>3. ASSUME NEW r \in Request, NEW v \in Work, InsertOf(r, v),
             \A w \in Work : NewWork(w) => w = v /\ work[r] = None
      PROVE  DailySeconds(d)' <= MaxDailySeconds /\ DailyCost(d)' <= MaxDailyCost
  <2>1. CASE work[r] = None /\ d = call[r].day
    <3>1. PICK n \in Nat : n = Seconds[call[r].key]
      BY <1>3, Adding
    <3>2. DailySeconds(d)' <= DailySeconds(d) + n /\ DailyCost(d)' <= DailyCost(d) + n
      BY <1>3, <2>1, <3>1, DayOneMore
    <3>3. DailySeconds(d) + n <= MaxDailySeconds /\ DailyCost(d) + n <= MaxDailyCost
      BY <1>3, <2>1, <3>1, Adding DEF Room, DayFits
    <3>4. QED
      BY <1>1, <3>1, <3>2, <3>3
  <2>2. CASE ~(work[r] = None /\ d = call[r].day)
    <3>1. work[r] = None => workDay'[v] = call[r].day
      BY <1>3, OneMore
    <3>2. QED
      BY <1>2, <1>3, <2>2, <3>1
  <2>3. QED
    BY <2>1, <2>2
<1>4. RowInv /\ TypeOK
  BY DEF Sums
<1>5. QED
  BY <1>2, <1>3, <1>4, Additions

LEMMA ServiceStep ==
    ASSUME Sums, Sums', BudgetInv, [Next]_budgetVars
    PROVE  ServiceWithinLimits'
<1> SUFFICES ASSUME today' = 1
             PROVE  /\ MonthlyCost' <= MaxMonthlyCost
                    /\ Cardinality(ReservedWorks)' <= MaxWorks
                    /\ \A u \in User : Cardinality(ReservedBy(u))' <= MaxWorksPerUser
  BY DEF ServiceWithinLimits, WorksWithinMonth, SlotsWithinLimits
<1>1. today = 1
  BY DayPasses DEF Sums
<1>2. /\ MonthlyCost <= MaxMonthlyCost /\ Cardinality(ReservedWorks) <= MaxWorks
      /\ \A u \in User : Cardinality(ReservedBy(u)) <= MaxWorksPerUser
  BY <1>1 DEF BudgetInv, ServiceWithinLimits, WorksWithinMonth, SlotsWithinLimits
<1>3. /\ MonthlyCost \in Nat /\ MonthlyCost' \in Nat
      /\ Cardinality(ReservedWorks) \in Nat /\ Cardinality(ReservedWorks)' \in Nat
      /\ \A u \in User : /\ Cardinality(ReservedBy(u)) \in Nat
                         /\ Cardinality(ReservedBy(u))' \in Nat
      /\ MaxMonthlyCost \in Nat /\ MaxWorks \in Nat /\ MaxWorksPerUser \in Nat
  BY BudgetConstants DEF Sums, SumsAre
<1>4. ASSUME \A w \in Work : ~NewWork(w)
      PROVE  MonthlyCost' <= MaxMonthlyCost /\ Cardinality(ReservedWorks)' <= MaxWorks
  BY <1>2, <1>3, <1>4, MonthNoMore
<1>5. ASSUME NEW u \in User, \A w \in Work : ~NewSub(w, u)
      PROVE  Cardinality(ReservedBy(u))' <= MaxWorksPerUser
  BY <1>2, <1>3, <1>5, SlotsNoMore
<1>6. ASSUME NEW r \in Request, NEW v \in Work, InsertOf(r, v),
             \A w \in Work : NewWork(w) => w = v /\ work[r] = None,
             \A w \in Work, x \in User : NewSub(w, x) => w = v /\ x = call[r].user
      PROVE  /\ MonthlyCost' <= MaxMonthlyCost
             /\ Cardinality(ReservedWorks)' <= MaxWorks
             /\ \A u \in User : Cardinality(ReservedBy(u))' <= MaxWorksPerUser
  <2>1. MonthlyCost' <= MaxMonthlyCost /\ Cardinality(ReservedWorks)' <= MaxWorks
    <3>1. CASE work[r] = None
      <4>1. PICK n \in Nat : n = Seconds[call[r].key]
        BY <1>6, Adding
      <4>2. /\ MonthlyCost' <= MonthlyCost + n
            /\ Cardinality(ReservedWorks)' <= Cardinality(ReservedWorks) + 1
        BY <1>6, <3>1, <4>1, MonthOneMore
      <4>3. MonthlyCost + n <= MaxMonthlyCost /\ Cardinality(ReservedWorks) < MaxWorks
        BY <1>1, <1>6, <3>1, <4>1, Adding DEF Room, MonthFits
      <4>4. QED
        BY <1>3, <4>1, <4>2, <4>3
    <3>2. CASE work[r] # None
      BY <1>4, <1>6, <3>2
    <3>3. QED
      BY <3>1, <3>2
  <2>2. ASSUME NEW u \in User PROVE Cardinality(ReservedBy(u))' <= MaxWorksPerUser
    <3>1. CASE u = call[r].user
      <4>1. Cardinality(ReservedBy(u))' <= Cardinality(ReservedBy(u)) + 1
        BY <1>6, SlotsOneMore
      <4>2. Cardinality(ReservedBy(u)) < MaxWorksPerUser
        BY <1>1, <1>6, <3>1, Adding DEF Room
      <4>3. QED
        BY <1>3, <4>1, <4>2
    <3>2. CASE u # call[r].user
      BY <1>5, <1>6, <3>2
    <3>3. QED
      BY <3>1, <3>2
  <2>3. QED
    BY <2>1, <2>2
<1>7. RowInv /\ TypeOK
  BY DEF Sums
<1>8. QED
  BY <1>4, <1>5, <1>6, <1>7, Additions

LEMMA BudgetInvInit ==
    ASSUME Init
    PROVE  Keyed /\ (SumsAre => BudgetInv)
<1>1. Keyed
  BY DEF Init, Keyed
<1>2. /\ \A u \in User, d \in Day : CountedFor(u, d) = {}
      /\ \A d \in Day : WorksOf(d) = {} /\ CountedOn(d) = {}
      /\ ActiveNow = {} /\ ReservedWorks = {} /\ \A u \in User : ReservedBy(u) = {}
  BY DEF Init, CountedFor, WorksOf, CountedOn, ActiveNow, ReservedWorks, ReservedBy, Active
<1>3. Total(Asked, {}) = 0 /\ Total(Price, {}) = 0
  BY BudgetConstants, TotalEmpty
<1>4. Cardinality({}) = 0
  BY FS_EmptySet
<1>5. ASSUME SumsAre PROVE UserWithinDay /\ WorksWithinDay
  <2>1. \A u \in User, d \in Day : UserSeconds(u, d) = 0
    BY <1>2, <1>3, <1>5 DEF SumsAre
  <2>2. \A d \in Day : DailySeconds(d) = 0 /\ DailyCost(d) = 0
    BY <1>2, <1>3, <1>5 DEF SumsAre
  <2>3. QED
    BY <2>1, <2>2, BudgetConstants DEF UserWithinDay, WorksWithinDay
<1>6. ASSUME SumsAre PROVE ServiceWithinLimits
  BY <1>2, <1>3, <1>4, <1>6, BudgetConstants
  DEF SumsAre, ServiceWithinLimits, WorksWithinMonth, SlotsWithinLimits
<1>7. Dated /\ OnePerDay /\ JoinedKey /\ AdmittedFits
  BY DEF Init, Dated, OnePerDay, JoinedKey, AdmittedFits
<1>8. QED
  BY <1>1, <1>5, <1>6, <1>7 DEF BudgetInv

\* The limits hold, together with what makes them inductive: every admitted
\* request has room for what it asks for, and is alone on its day.
THEOREM LimitsCorrect == Spec => []BudgetInv
<1>1. Spec => []Keyed
  <2>1. Init => Keyed
    BY BudgetInvInit
  <2>2. TypeOK /\ TypeOK' /\ RowInv /\ Keyed /\ [Next]_budgetVars => Keyed'
    BY KeyedStep
  <2>3. QED
    BY <2>1, <2>2, TypeCorrect, RowsCorrect, PTL DEF Spec
<1>2. TypeOK /\ RowInv /\ Keyed => Sums
  BY SumsAreTotals DEF Sums, RowInv
<1>3. Spec => []Sums
  BY <1>1, <1>2, TypeCorrect, RowsCorrect, PTL
<1>4. Init /\ Sums => BudgetInv
  BY BudgetInvInit DEF Sums
<1>5. Sums /\ Sums' /\ BudgetInv /\ [Next]_budgetVars => BudgetInv'
  BY DatedStep, OnePerDayStep, JoinedKeyStep, AdmittedFitsStep, UserWithinDayStep,
     WorksWithinDayStep, ServiceStep DEF BudgetInv
<1>6. QED
  BY <1>3, <1>4, <1>5, PTL DEF Spec

\* No user exceeds his allowance of a day, whatever works he joins and whatever
\* becomes of them.
THEOREM UsersStayWithinTheDay == Spec => []UserWithinDay
<1>1. BudgetInv => UserWithinDay
  BY DEF BudgetInv
<1>2. QED
  BY <1>1, LimitsCorrect, PTL

\* The works of no day exceed its limits.
THEOREM WorksStayWithinTheDay == Spec => []WorksWithinDay
<1>1. BudgetInv => WorksWithinDay
  BY DEF BudgetInv
<1>2. QED
  BY <1>1, LimitsCorrect, PTL

\* The limits of the month and of concurrent works hold until the first
\* midnight.
THEOREM ServiceStaysWithinLimits == Spec => []ServiceWithinLimits
<1>1. BudgetInv => ServiceWithinLimits
  BY DEF BudgetInv
<1>2. QED
  BY <1>1, LimitsCorrect, PTL
=============================================================================
