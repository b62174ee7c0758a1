------------------------- MODULE DurableJob_proofs -------------------------
(***************************************************************************)
(* Proofs about the execution of jobs, for every set of jobs and slots and *)
(* every value of the limits.                                              *)
(***************************************************************************)
EXTENDS DurableJob, TLAPS

\* A step of Next is one of its actions, with the slot and the job it is about.
LEMMA NextCases ==
    ASSUME [Next]_jobVars
    PROVE  \/ \E k \in Job : Enqueue(k) \/ ForeignLetter(k) \/ Stalled(k) \/ Expire(k)
           \/ \E s \in Slot, k \in Job : Start(s, k)
           \/ \E s \in Slot :
                \/ Acquire(s) \/ AcquireFails(s) \/ LoseLease(s) \/ TaskEnds(s)
                \/ Complete(s) \/ CompleteFails(s) \/ Release(s) \/ ReleaseFails(s)
                \/ Settle(s) \/ SettleFails(s) \/ Report(s) \/ Crash(s)
           \/ UNCHANGED jobVars
BY DEF Next, SlotStep, SlotFault

-----------------------------------------------------------------------------
(***************************************************************************)
(* What a step can do to the claims and the records, whoever takes it: a   *)
(* claim comes by an acquisition, goes by a completion or a release of its *)
(* owner, and results come only with a completion.                         *)
(***************************************************************************)
Completion(s) ==
    /\ pc[s] = "completing" /\ Owns(s)
    /\ LetterAgrees(job[s], verdict[s])
    /\ RecordResult(job[s], verdict[s])

RecordEffect ==
    \/ \E k \in Job : CanAcquire(k) /\ InsertClaim(k) /\ UNCHANGED recordVars
    \/ \E s \in Slot : Completion(s)
    \/ \E s \in Slot : HasToken(s) /\ DeleteClaim(job[s]) /\ UNCHANGED recordVars
    \/ \E k \in Job : Expire(k) \/ ForeignLetter(k)
    \/ UNCHANGED <<claimVars, recordVars>>

\* A slot that is at work has a job.
LEMMA BusySlot ==
    ASSUME TypeOK, SlotsInOrder, NEW s \in Slot, pc[s] # "idle"
    PROVE  job[s] \in Job
BY DEF TypeOK, SlotsInOrder

LEMMA RecordEffects ==
    ASSUME TypeOK, SlotsInOrder, [Next]_jobVars
    PROVE  RecordEffect
<1> USE DEF RecordEffect
<1>1. ASSUME NEW k \in Job, Enqueue(k) \/ Stalled(k) PROVE RecordEffect
  BY <1>1 DEF Enqueue, Stalled
<1>2. ASSUME NEW k \in Job, Expire(k) \/ ForeignLetter(k) PROVE RecordEffect
  BY <1>2
<1>3. ASSUME NEW s \in Slot, NEW k \in Job, Start(s, k) PROVE RecordEffect
  BY <1>3 DEF Start
<1>4. ASSUME NEW s \in Slot, Acquire(s) \/ AcquireFails(s) PROVE RecordEffect
  <2>1. job[s] \in Job
    BY <1>4, BusySlot DEF Acquire, AcquireFails
  <2>2. QED
    BY <1>4, <2>1 DEF Acquire, AcquireFails
<1>5. ASSUME NEW s \in Slot, Complete(s) \/ CompleteFails(s) PROVE RecordEffect
  BY <1>5 DEF Complete, CompleteFails, Completion
<1>6. ASSUME NEW s \in Slot, Release(s) PROVE RecordEffect
  BY <1>6 DEF Release
<1>7. ASSUME NEW s \in Slot,
             \/ LoseLease(s) \/ TaskEnds(s) \/ ReleaseFails(s) \/ Settle(s)
             \/ SettleFails(s) \/ Report(s) \/ Crash(s)
      PROVE RecordEffect
  BY <1>7 DEF LoseLease, TaskEnds, ReleaseFails, Settle, SettleFails, Report, Crash
<1>8. CASE UNCHANGED jobVars
  BY <1>8 DEF jobVars
<1>9. QED
  BY NextCases, <1>1, <1>2, <1>3, <1>4, <1>5, <1>6, <1>7, <1>8

-----------------------------------------------------------------------------
(***************************************************************************)
(* Types, in the groups the actions change together.                       *)
(***************************************************************************)
BullTypes ==
    /\ jobState \in [Job -> {"absent", "waiting", "active", "completed", "failed"}]
    /\ lockOwner \in [Job -> Slot \cup {None}]
    /\ attemptsMade \in [Job -> 0..MaxAttempts]
    /\ stalls \in [Job -> 0..MaxStalls]

ClaimTypes ==
    /\ issued \in [Job -> Nat]
    /\ claimToken \in [Job -> Nat]
    /\ claimLive \in [Job -> BOOLEAN]

RecordTypes ==
    /\ result \in [Job -> {"succeeded", None} \cup TerminalCode]
    /\ deadLetter \in [Job -> FailureCode \cup {None}]

SlotTypes ==
    /\ pc \in [Slot -> SlotPc]
    /\ job \in [Slot -> Job \cup {None}]
    /\ token \in [Slot -> Nat]
    /\ final \in [Slot -> BOOLEAN]
    /\ leaseLost \in [Slot -> BOOLEAN]
    /\ verdict \in [Slot -> Verdict \cup {None}]

LEMMA TypeGroups ==
    TypeOK <=> /\ BullTypes /\ ClaimTypes /\ RecordTypes /\ SlotTypes
               /\ settled \in [Job -> {"completed", "failed", None}]
               /\ faults \in 0..MaxFaults
BY DEF TypeOK, BullTypes, ClaimTypes, RecordTypes, SlotTypes

LEMMA FaultTypes ==
    ASSUME faults \in 0..MaxFaults, Fault \/ UNCHANGED faults
    PROVE  faults' \in 0..MaxFaults
BY JobConstants DEF Fault

\* Claims and records, from what can happen to them.
LEMMA RecordTypesStep ==
    ASSUME ClaimTypes, RecordTypes, SlotsInOrder, RecordEffect
    PROVE  ClaimTypes' /\ RecordTypes'
<1>1. ASSUME NEW k \in Job, InsertClaim(k), UNCHANGED recordVars
      PROVE ClaimTypes' /\ RecordTypes'
  BY <1>1 DEF InsertClaim, NewToken, ClaimTypes, RecordTypes, recordVars
<1>2. ASSUME NEW s \in Slot, Completion(s) PROVE ClaimTypes' /\ RecordTypes'
  <2>1. ClaimTypes'
    BY <1>2 DEF Completion, RecordResult, DeleteClaim, ClaimTypes
  <2>2. verdict[s] \in {"succeeded"} \cup TerminalCode
    BY <1>2 DEF Completion, SlotsInOrder
  <2>3. QED
    BY <1>2, <2>1, <2>2 DEF Completion, RecordResult, RecordTypes, FailureCode
<1>3. ASSUME NEW s \in Slot, DeleteClaim(job[s]), UNCHANGED recordVars
      PROVE ClaimTypes' /\ RecordTypes'
  BY <1>3 DEF DeleteClaim, ClaimTypes, RecordTypes, recordVars
<1>4. ASSUME NEW k \in Job, Expire(k) \/ ForeignLetter(k)
      PROVE ClaimTypes' /\ RecordTypes'
  BY <1>4 DEF Expire, ForeignLetter, ClaimTypes, RecordTypes, claimVars, recordVars,
              FailureCode
<1>5. CASE UNCHANGED <<claimVars, recordVars>>
  BY <1>5 DEF claimVars, recordVars, ClaimTypes, RecordTypes
<1>6. QED
  BY <1>1, <1>2, <1>3, <1>4, <1>5 DEF RecordEffect

\* A slot moves on within its job, or rests.
LEMMA SlotPartTypes ==
    ASSUME SlotTypes, NEW s \in Slot, NEW l \in SlotPc, NEW v \in Verdict,
           \/ Goto(s, l) /\ (UNCHANGED verdict \/ verdict' = [verdict EXCEPT ![s] = v])
           \/ Rest(s)
           \/ UNCHANGED slotVars
    PROVE  SlotTypes'
<1>1. CASE Goto(s, l) /\ (UNCHANGED verdict \/ verdict' = [verdict EXCEPT ![s] = v])
  BY <1>1 DEF Goto, SlotTypes
<1>2. CASE Rest(s)
  BY <1>2 DEF Rest, SlotTypes, SlotPc
<1>3. CASE UNCHANGED slotVars
  BY <1>3 DEF slotVars, SlotTypes
<1>4. QED
  BY <1>1, <1>2, <1>3

LEMMA SlotTypesStep ==
    ASSUME TypeOK, SlotsInOrder, [Next]_jobVars
    PROVE  SlotTypes'
<1>0. SlotTypes /\ RecordTypes
  BY TypeGroups
<1>1. ASSUME NEW k \in Job, Enqueue(k) \/ ForeignLetter(k) \/ Stalled(k) \/ Expire(k)
      PROVE SlotTypes'
  BY <1>0, <1>1 DEF Enqueue, ForeignLetter, Stalled, Expire, slotVars, SlotTypes
<1>2. ASSUME NEW s \in Slot, NEW k \in Job, Start(s, k) PROVE SlotTypes'
  BY <1>0, <1>2 DEF Start, SlotTypes, SlotPc
<1>3. ASSUME NEW s \in Slot, Acquire(s) PROVE SlotTypes'
  <2>1. job[s] \in Job
    BY <1>3, BusySlot DEF Acquire
  <2>2. CASE result[job[s]] # None /\ Goto(s, "settling")
    <3>1. result[job[s]] \in Verdict
      BY <1>0, <2>1, <2>2 DEF RecordTypes, Verdict
    <3>2. verdict' = [verdict EXCEPT ![s] = result[job[s]]]
      BY <1>3, <2>2 DEF Acquire, CanAcquire, Goto, SlotTypes
    <3>3. QED
      BY <1>0, <2>2, <3>1, <3>2, SlotPartTypes DEF SlotPc
  <2>3. CASE CanAcquire(job[s]) /\ pc' = [pc EXCEPT ![s] = "running"]
                /\ token' = [token EXCEPT ![s] = NewToken(job[s])]
                /\ UNCHANGED <<job, final, leaseLost, verdict>>
    BY <1>0, <2>1, <2>3 DEF SlotTypes, SlotPc, TypeOK, NewToken
  <2>4. CASE Goto(s, "reporting") /\ verdict' = [verdict EXCEPT ![s] = "error"]
    BY <1>0, <2>4, SlotPartTypes DEF SlotPc, Verdict
  <2>5. QED
    BY <1>3, <2>2, <2>3, <2>4 DEF Acquire
<1>4. ASSUME NEW s \in Slot, LoseLease(s) PROVE SlotTypes'
  BY <1>0, <1>4 DEF LoseLease, SlotTypes
<1>5. ASSUME NEW s \in Slot, TaskEnds(s) PROVE SlotTypes'
  <2>1. PICK v \in {"succeeded", "error"} \cup TaskFailure :
          /\ verdict' = [verdict EXCEPT ![s] = Thrown(s, v)]
          /\ Goto(s, IF Thrown(s, v) = "error" THEN "releasing" ELSE "completing")
    BY <1>5 DEF TaskEnds
  <2>2. Thrown(s, v) \in Verdict
    BY DEF Thrown, Exhausted, Verdict, TerminalCode
  <2>3. QED
    BY <1>0, <2>1, <2>2, SlotPartTypes DEF SlotPc
<1>6. ASSUME NEW s \in Slot,
             \/ AcquireFails(s) \/ Complete(s) \/ CompleteFails(s)
             \/ Release(s) \/ ReleaseFails(s) \/ Settle(s) \/ SettleFails(s)
             \/ Report(s) \/ Crash(s)
      PROVE SlotTypes'
  <2>1. \/ \E l \in {"settling", "releasing", "reporting"} :
               /\ Goto(s, l)
               /\ UNCHANGED verdict \/ verdict' = [verdict EXCEPT ![s] = "error"]
        \/ Rest(s)
    BY <1>6 DEF AcquireFails, Complete, CompleteFails, Release, ReleaseFails,
                Settle, SettleFails, Report, Crash
  <2>2. "error" \in Verdict /\ {"settling", "releasing", "reporting"} \subseteq SlotPc
    BY DEF Verdict, SlotPc
  <2>3. QED
    BY <1>0, <2>1, <2>2, SlotPartTypes
<1>7. CASE UNCHANGED jobVars
  BY <1>0, <1>7 DEF jobVars, slotVars, SlotTypes
<1>8. QED
  BY NextCases, <1>1, <1>2, <1>3, <1>4, <1>5, <1>6, <1>7

\* What a step can do to the queue.
BullEffect ==
    \/ \E k \in Job : Enqueue(k) \/ Stalled(k)
    \/ \E s \in Slot, k \in Job : Start(s, k)
    \/ \E s \in Slot : Report(s)
    \/ UNCHANGED bullVars

LEMMA BullEffects == ASSUME [Next]_jobVars PROVE BullEffect
<1>1. ASSUME NEW s \in Slot,
             \/ Acquire(s) \/ AcquireFails(s) \/ LoseLease(s) \/ TaskEnds(s)
             \/ Complete(s) \/ CompleteFails(s) \/ Release(s) \/ ReleaseFails(s)
             \/ Settle(s) \/ SettleFails(s) \/ Crash(s)
      PROVE UNCHANGED bullVars
  BY <1>1 DEF Acquire, AcquireFails, LoseLease, TaskEnds, Complete, CompleteFails,
              Release, ReleaseFails, Settle, SettleFails, Crash
<1>2. ASSUME NEW k \in Job, ForeignLetter(k) \/ Expire(k) PROVE UNCHANGED bullVars
  BY <1>2 DEF ForeignLetter, Expire
<1>3. UNCHANGED jobVars => UNCHANGED bullVars
  BY DEF jobVars
<1>4. QED
  BY NextCases, <1>1, <1>2, <1>3 DEF BullEffect

\* How a reported outcome moves the job.
LEMMA ReportCases ==
    ASSUME NEW s \in Slot, Report(s)
    PROVE  \/ /\ jobState[job[s]] = "active"
              /\ lockOwner' = [lockOwner EXCEPT ![job[s]] = None]
              /\ \/ /\ verdict[s] = "succeeded"
                    /\ jobState' = [jobState EXCEPT ![job[s]] = "completed"]
                    /\ UNCHANGED attemptsMade
                 \/ /\ verdict[s] \in TerminalCode
                    /\ jobState' = [jobState EXCEPT ![job[s]] = "failed"]
                    /\ attemptsMade' = [attemptsMade EXCEPT ![job[s]] = @ + 1]
                 \/ /\ verdict[s] = "error"
                    /\ jobState' = [jobState EXCEPT ![job[s]] =
                          IF attemptsMade[job[s]] + 1 < MaxAttempts
                          THEN "waiting" ELSE "failed"]
                    /\ attemptsMade' = [attemptsMade EXCEPT ![job[s]] = @ + 1]
           \/ UNCHANGED <<jobState, lockOwner, attemptsMade>>
BY DEF Report, AttemptsLeft

LEMMA BullTypesStep ==
    ASSUME TypeOK, SlotsInOrder, AttemptLeft, [Next]_jobVars
    PROVE  BullTypes' /\ AttemptLeft'
<1> USE DEF BullTypes, AttemptLeft
<1>0. BullTypes
  BY TypeGroups
<1>1. ASSUME NEW k \in Job, Enqueue(k) PROVE BullTypes' /\ AttemptLeft'
  BY <1>0, <1>1 DEF Enqueue
<1>2. ASSUME NEW k \in Job, Stalled(k) PROVE BullTypes' /\ AttemptLeft'
  <2>1. CASE stalls[k] < MaxStalls
    <3>1. /\ jobState' = [jobState EXCEPT ![k] = "waiting"]
          /\ stalls' = [stalls EXCEPT ![k] = @ + 1]
          /\ jobState[k] = "active" /\ UNCHANGED attemptsMade
          /\ lockOwner' = [lockOwner EXCEPT ![k] = None]
      BY <1>2, <2>1 DEF Stalled
    <3>2. stalls[k] + 1 \in 0..MaxStalls
      BY <1>0, <2>1, JobConstants
    <3>3. QED
      BY <1>0, <3>1, <3>2
  <2>2. CASE ~(stalls[k] < MaxStalls)
    BY <1>0, <1>2, <2>2 DEF Stalled
  <2>3. QED
    BY <2>1, <2>2
<1>3. ASSUME NEW s \in Slot, NEW k \in Job, Start(s, k) PROVE BullTypes' /\ AttemptLeft'
  BY <1>0, <1>3 DEF Start
<1>4. ASSUME NEW s \in Slot, Report(s) PROVE BullTypes' /\ AttemptLeft'
  <2>1. job[s] \in Job /\ UNCHANGED stalls
    BY <1>4, BusySlot DEF Report
  <2>2. CASE UNCHANGED <<jobState, lockOwner, attemptsMade>>
    BY <1>0, <2>1, <2>2
  <2>3. CASE /\ jobState[job[s]] = "active"
             /\ lockOwner' = [lockOwner EXCEPT ![job[s]] = None]
             /\ jobState' = [jobState EXCEPT ![job[s]] = "completed"]
             /\ UNCHANGED attemptsMade
    BY <1>0, <2>1, <2>3
  <2>4. CASE /\ jobState[job[s]] = "active"
             /\ lockOwner' = [lockOwner EXCEPT ![job[s]] = None]
             /\ \/ jobState' = [jobState EXCEPT ![job[s]] = "failed"]
                \/ jobState' = [jobState EXCEPT ![job[s]] =
                       IF attemptsMade[job[s]] + 1 < MaxAttempts
                       THEN "waiting" ELSE "failed"]
             /\ attemptsMade' = [attemptsMade EXCEPT ![job[s]] = @ + 1]
    <3>1. attemptsMade[job[s]] \in 0..MaxAttempts /\ attemptsMade[job[s]] < MaxAttempts
      BY <1>0, <2>1, <2>4
    <3>2. attemptsMade[job[s]] + 1 \in 0..MaxAttempts
      BY <3>1, JobConstants
    <3>3. BullTypes'
      BY <1>0, <2>1, <2>4, <3>2
    <3>4. \A k \in Job \ {job[s]} : jobState'[k] = jobState[k] /\ attemptsMade'[k] = attemptsMade[k]
      BY <1>0, <2>4
    <3>5. jobState'[job[s]] \in {"waiting", "failed"}
          /\ (jobState'[job[s]] = "waiting" => attemptsMade'[job[s]] < MaxAttempts)
      BY <1>0, <2>1, <2>4
    <3>6. QED
      BY <3>3, <3>4, <3>5
  <2>5. QED
    BY <1>4, <2>2, <2>3, <2>4, ReportCases
<1>5. CASE UNCHANGED bullVars
  BY <1>0, <1>5 DEF bullVars
<1>6. QED
  BY BullEffects, <1>1, <1>2, <1>3, <1>4, <1>5 DEF BullEffect

\* What the learning run is told.
LEMMA SettledTypeStep ==
    ASSUME TypeOK, [Next]_jobVars
    PROVE  settled' \in [Job -> {"completed", "failed", None}]
<1>1. ASSUME NEW s \in Slot, Settle(s) \/ SettleFails(s)
      PROVE settled' \in [Job -> {"completed", "failed", None}]
  BY <1>1 DEF Settle, SettleFails, SettledAs, TypeOK
<1>2. ASSUME NEW s \in Slot,
             \/ Acquire(s) \/ AcquireFails(s) \/ LoseLease(s) \/ TaskEnds(s)
             \/ Complete(s) \/ CompleteFails(s) \/ Release(s) \/ ReleaseFails(s)
             \/ Report(s) \/ Crash(s) \/ \E k \in Job : Start(s, k)
      PROVE UNCHANGED settled
  BY <1>2 DEF Acquire, AcquireFails, LoseLease, TaskEnds, Complete, CompleteFails,
              Release, ReleaseFails, Report, Crash, Start
<1>3. ASSUME NEW k \in Job, Enqueue(k) \/ ForeignLetter(k) \/ Stalled(k) \/ Expire(k)
      PROVE UNCHANGED settled
  BY <1>3 DEF Enqueue, ForeignLetter, Stalled, Expire
<1>4. UNCHANGED jobVars => UNCHANGED settled
  BY DEF jobVars
<1>5. QED
  BY NextCases, <1>1, <1>2, <1>3, <1>4 DEF TypeOK

LEMMA FaultsStep ==
    ASSUME TypeOK, [Next]_jobVars
    PROVE  faults' \in 0..MaxFaults
<1>1. Fault \/ UNCHANGED faults
  <2>1. ASSUME NEW s \in Slot,
               \/ Acquire(s) \/ AcquireFails(s) \/ LoseLease(s) \/ TaskEnds(s)
               \/ Complete(s) \/ CompleteFails(s) \/ Release(s) \/ ReleaseFails(s)
               \/ Settle(s) \/ SettleFails(s) \/ Report(s) \/ Crash(s)
               \/ \E k \in Job : Start(s, k)
        PROVE Fault \/ UNCHANGED faults
    BY <2>1 DEF Acquire, AcquireFails, LoseLease, TaskEnds, Complete, CompleteFails,
                Release, ReleaseFails, Settle, SettleFails, Report, Crash, Start
  <2>2. ASSUME NEW k \in Job, Enqueue(k) \/ ForeignLetter(k) \/ Stalled(k) \/ Expire(k)
        PROVE Fault \/ UNCHANGED faults
    BY <2>2 DEF Enqueue, ForeignLetter, Stalled, Expire
  <2>3. QED
    BY NextCases, <2>1, <2>2 DEF jobVars
<1>2. QED
  BY <1>1, FaultTypes DEF TypeOK

LEMMA TypeStep ==
    ASSUME TypeOK, SlotsInOrder, AttemptLeft, [Next]_jobVars
    PROVE  TypeOK'
<1>1. ClaimTypes' /\ RecordTypes'
  BY RecordEffects, RecordTypesStep, TypeGroups
<1>2. QED
  BY <1>1, BullTypesStep, SlotTypesStep, SettledTypeStep, FaultsStep
  DEF TypeOK, BullTypes, ClaimTypes, RecordTypes, SlotTypes

-----------------------------------------------------------------------------
\* The queue never forgets a job it was given.
LEMMA JobsStay ==
    ASSUME TypeOK, SlotsInOrder, [Next]_jobVars, NEW k \in Job, jobState[k] # "absent"
    PROVE  jobState'[k] # "absent"
<1> USE DEF TypeOK
<1>1. ASSUME NEW l \in Job, Enqueue(l) \/ Stalled(l) PROVE jobState'[k] # "absent"
  BY <1>1 DEF Enqueue, Stalled
<1>2. ASSUME NEW s \in Slot, NEW l \in Job, Start(s, l) PROVE jobState'[k] # "absent"
  BY <1>2 DEF Start
<1>3. ASSUME NEW s \in Slot, Report(s) PROVE jobState'[k] # "absent"
  <2>1. \/ \E q \in {"completed", "waiting", "failed"} :
               jobState' = [jobState EXCEPT ![job[s]] = q]
        \/ UNCHANGED jobState
    BY <1>3, ReportCases
  <2>2. QED
    BY <2>1
<1>4. QED
  BY BullEffects, <1>1, <1>2, <1>3 DEF BullEffect, bullVars

\* A slot that works on a job did so before, or starts it now.
LEMMA JobsExistStep ==
    ASSUME TypeOK, SlotsInOrder, JobsExist, [Next]_jobVars
    PROVE  JobsExist'
<1>1. ASSUME NEW s \in Slot, NEW k \in Job, Start(s, k), NEW t \in Slot, pc'[t] # "idle"
      PROVE jobState'[job'[t]] # "absent"
  <2>1. CASE t = s
    BY <1>1, <2>1 DEF Start, TypeOK
  <2>2. CASE t # s
    <3>1. pc[t] # "idle" /\ job'[t] = job[t]
      BY <1>1, <2>2 DEF Start, TypeOK
    <3>2. QED
      BY <3>1, BusySlot, JobsStay DEF JobsExist
  <2>3. QED
    BY <2>1, <2>2
<1>2. ASSUME NEW t \in Slot, pc'[t] # "idle", pc[t] # "idle", job'[t] = job[t]
      PROVE jobState'[job'[t]] # "absent"
  BY <1>2, BusySlot, JobsStay DEF JobsExist
<1>3. ASSUME NEW s \in Slot, Rest(s), NEW t \in Slot, pc'[t] # "idle"
      PROVE pc[t] # "idle" /\ job'[t] = job[t]
  BY <1>3 DEF Rest, TypeOK
<1>4. ASSUME NEW s \in Slot, pc[s] # "idle", UNCHANGED job,
             UNCHANGED pc \/ \E l \in SlotPc : pc' = [pc EXCEPT ![s] = l],
             NEW t \in Slot, pc'[t] # "idle"
      PROVE pc[t] # "idle" /\ job'[t] = job[t]
  BY <1>4 DEF TypeOK
<1>5. ASSUME NEW s \in Slot, Report(s) \/ Crash(s) PROVE Rest(s)
  BY <1>5 DEF Report, Crash
<1>6. ASSUME NEW s \in Slot,
             \/ Acquire(s) \/ AcquireFails(s) \/ LoseLease(s) \/ TaskEnds(s)
             \/ Complete(s) \/ CompleteFails(s) \/ Release(s) \/ ReleaseFails(s)
             \/ Settle(s) \/ SettleFails(s)
      PROVE /\ pc[s] # "idle" /\ UNCHANGED job
            /\ UNCHANGED pc \/ \E l \in SlotPc : pc' = [pc EXCEPT ![s] = l]
  BY <1>6 DEF Acquire, AcquireFails, LoseLease, TaskEnds, Complete, CompleteFails,
              Release, ReleaseFails, Settle, SettleFails, Goto, SlotPc
<1>7. ASSUME NEW k \in Job, Enqueue(k) \/ ForeignLetter(k) \/ Stalled(k) \/ Expire(k)
      PROVE UNCHANGED <<pc, job>>
  BY <1>7 DEF Enqueue, ForeignLetter, Stalled, Expire, slotVars
<1>8. UNCHANGED jobVars => UNCHANGED <<pc, job>>
  BY DEF jobVars, slotVars
<1>9. ASSUME UNCHANGED <<pc, job>> PROVE JobsExist'
  BY <1>2, <1>9 DEF JobsExist
<1>10. QED
  BY NextCases, <1>1, <1>2, <1>3, <1>4, <1>5, <1>6, <1>7, <1>8, <1>9 DEF JobsExist

-----------------------------------------------------------------------------
\* Tokens come into being in an acquisition only; otherwise a slot keeps its job
\* and token or has none afterwards.
TokenEffect ==
    \/ \E s \in Slot :
          /\ job[s] \in Job /\ UNCHANGED job
          /\ issued' = [issued EXCEPT ![job[s]] = @ + 1]
          /\ token' = [token EXCEPT ![s] = issued[job[s]] + 1]
    \/ /\ \A k \in Job : issued'[k] >= issued[k]
       /\ \A s \in Slot : token'[s] = 0 \/ (token'[s] = token[s] /\ job'[s] = job[s])

LEMMA TokenEffects ==
    ASSUME TypeOK, SlotsInOrder, [Next]_jobVars
    PROVE  TokenEffect
<1> USE DEF TypeOK, TokenEffect
<1>1. ASSUME NEW s \in Slot, Acquire(s) PROVE TokenEffect
  <2>1. job[s] \in Job
    BY <1>1, BusySlot DEF Acquire
  <2>2. CASE UNCHANGED claimVars /\ UNCHANGED <<job, token>>
    BY <2>2 DEF claimVars
  <2>3. CASE InsertClaim(job[s]) /\ token' = [token EXCEPT ![s] = NewToken(job[s])]
                  /\ UNCHANGED job
    BY <2>1, <2>3 DEF InsertClaim, NewToken
  <2>4. QED
    BY <1>1, <2>2, <2>3 DEF Acquire, Goto
<1>2. ASSUME NEW s \in Slot, AcquireFails(s) PROVE TokenEffect
  <2>1. \A k \in Job : issued'[k] >= issued[k]
    BY <1>2 DEF AcquireFails, InsertClaim, claimVars
  <2>2. UNCHANGED <<job, token>>
    BY <1>2 DEF AcquireFails, Goto
  <2>3. QED
    BY <2>1, <2>2
<1>3. ASSUME NEW s \in Slot, NEW k \in Job, Start(s, k) PROVE TokenEffect
  <2>1. /\ UNCHANGED <<issued, token>> /\ token[s] = 0
        /\ job' = [job EXCEPT ![s] = k]
    BY <1>3 DEF Start, claimVars, SlotsInOrder
  <2>2. QED
    BY <2>1
<1>4. ASSUME NEW s \in Slot, Report(s) \/ Crash(s) PROVE TokenEffect
  <2>1. /\ UNCHANGED issued
        /\ job' = [job EXCEPT ![s] = None] /\ token' = [token EXCEPT ![s] = 0]
    BY <1>4 DEF Report, Crash, Rest, claimVars
  <2>2. QED
    BY <2>1
<1>5. ASSUME UNCHANGED <<issued, job, token>> PROVE TokenEffect
  BY <1>5
<1>6. ASSUME NEW s \in Slot,
             \/ LoseLease(s) \/ TaskEnds(s) \/ Complete(s) \/ CompleteFails(s)
             \/ Release(s) \/ ReleaseFails(s) \/ Settle(s) \/ SettleFails(s)
      PROVE UNCHANGED <<issued, job, token>>
  BY <1>6 DEF LoseLease, TaskEnds, Complete, CompleteFails, Release, ReleaseFails,
              Settle, SettleFails, Goto, RecordResult, DeleteClaim, claimVars
<1>7. ASSUME NEW k \in Job, Enqueue(k) \/ ForeignLetter(k) \/ Stalled(k) \/ Expire(k)
      PROVE UNCHANGED <<issued, job, token>>
  BY <1>7 DEF Enqueue, ForeignLetter, Stalled, Expire, claimVars, slotVars
<1>8. UNCHANGED jobVars => UNCHANGED <<issued, job, token>>
  BY DEF jobVars, claimVars, slotVars
<1>9. QED
  BY NextCases, <1>1, <1>2, <1>3, <1>4, <1>5, <1>6, <1>7, <1>8

LEMMA TokensStep ==
    ASSUME TypeOK, SlotsInOrder, TokensFresh, [Next]_jobVars
    PROVE  TokensFresh'
<1> USE DEF TypeOK
<1>1. \A k \in Job : claimToken'[k] <= issued'[k] /\ (claimLive'[k] => claimToken'[k] # 0)
  <2> USE DEF TokensFresh
  <2>1. ASSUME NEW k \in Job, InsertClaim(k)
        PROVE \A l \in Job : claimToken'[l] <= issued'[l]
                              /\ (claimLive'[l] => claimToken'[l] # 0)
    BY <2>1 DEF InsertClaim, NewToken
  <2>2. ASSUME NEW k, DeleteClaim(k)
        PROVE \A l \in Job : claimToken'[l] <= issued'[l]
                              /\ (claimLive'[l] => claimToken'[l] # 0)
    BY <2>2 DEF DeleteClaim
  <2>3. ASSUME NEW k \in Job, Expire(k) \/ ForeignLetter(k)
        PROVE \A l \in Job : claimToken'[l] <= issued'[l]
                              /\ (claimLive'[l] => claimToken'[l] # 0)
    BY <2>3 DEF Expire, ForeignLetter, claimVars
  <2>4. QED
    BY RecordEffects, <2>1, <2>2, <2>3
    DEF RecordEffect, Completion, RecordResult, claimVars
<1>2. ASSUME NEW s \in Slot, job[s] \in Job, UNCHANGED job,
             issued' = [issued EXCEPT ![job[s]] = @ + 1],
             token' = [token EXCEPT ![s] = issued[job[s]] + 1]
      PROVE TokensFresh'
  <2>1. ASSUME NEW t \in Slot, token'[t] # 0 PROVE token'[t] <= issued'[job'[t]]
    <3>1. CASE t = s
      BY <1>2, <3>1
    <3>2. CASE t # s
      <4>1. token'[t] = token[t] /\ job'[t] = job[t] /\ token[t] <= issued[job[t]]
        BY <1>2, <2>1, <3>2 DEF TokensFresh
      <4>2. CASE job[t] \in Job
        BY <1>2, <4>1, <4>2
      <4>3. CASE job[t] = None
        BY <1>2, <4>1, <4>3, JobConstants
      <4>4. QED
        BY <4>2, <4>3
    <3>3. QED
      BY <3>1, <3>2
  <2>2. ASSUME NEW t \in Slot, t # s, job[t] = job[s], token[t] # 0
        PROVE token[t] # issued[job[s]] + 1
    <3>1. token[t] <= issued[job[s]]
      BY <2>2 DEF TokensFresh
    <3>2. QED
      BY <1>2, <3>1
  <2>3. ASSUME NEW t \in Slot, NEW u \in Slot,
               job'[t] = job'[u], token'[t] = token'[u], token'[t] # 0
        PROVE t = u
    <3>1. CASE t # s /\ u # s
      BY <1>2, <2>3, <3>1 DEF TokensFresh
    <3>2. CASE t = s \/ u = s
      <4>1. job[t] = job[u] /\ token'[s] = issued[job[s]] + 1
            /\ \A v \in Slot \ {s} : token'[v] = token[v]
        BY <1>2, <2>3
      <4>2. QED
        BY <2>2, <2>3, <3>2, <4>1
    <3>3. QED
      BY <3>1, <3>2
  <2>4. QED
    BY <1>1, <2>1, <2>3 DEF TokensFresh
<1>3. ASSUME \A k \in Job : issued'[k] >= issued[k],
             \A s \in Slot : token'[s] = 0 \/ (token'[s] = token[s] /\ job'[s] = job[s])
      PROVE TokensFresh'
  <2>1. ASSUME NEW s \in Slot, token'[s] # 0 PROVE token'[s] <= issued'[job'[s]]
    <3>1. /\ token'[s] = token[s] /\ job'[s] = job[s]
          /\ token[s] <= issued[job[s]] /\ token[s] \in Nat
      BY <1>3, <2>1 DEF TokensFresh
    <3>2. job[s] \in Job
      <4>1. pc[s] # "idle"
        BY <2>1, <3>1 DEF SlotsInOrder
      <4>2. QED
        BY <4>1, BusySlot
    <3>3. /\ issued'[job[s]] >= issued[job[s]]
          /\ issued[job[s]] \in Nat /\ issued'[job[s]] \in Nat
      BY <1>3, <3>2, RecordEffects, RecordTypesStep, TypeGroups DEF ClaimTypes
    <3>4. QED
      BY <3>1, <3>3
  <2>2. ASSUME NEW s \in Slot, NEW t \in Slot,
               job'[s] = job'[t], token'[s] = token'[t], token'[s] # 0
        PROVE s = t
    BY <1>3, <2>2 DEF TokensFresh
  <2>3. QED
    BY <1>1, <2>1, <2>2 DEF TokensFresh
<1>4. QED
  BY TokenEffects, <1>2, <1>3 DEF TokenEffect

-----------------------------------------------------------------------------
(***************************************************************************)
(* The records: results and letters stay once they are written, and what   *)
(* is told of them follows from them.                                      *)
(***************************************************************************)
LEMMA RecordsStay ==
    ASSUME TypeOK, RecordedIsUnclaimed, RecordEffect
    PROVE  \A k \in Job :
             /\ Recorded(k) => result'[k] = result[k]
             /\ deadLetter[k] # None => deadLetter'[k] = deadLetter[k]
<1> USE DEF TypeOK
<1>1. ASSUME NEW s \in Slot, Completion(s), NEW k \in Job
      PROVE /\ Recorded(k) => result'[k] = result[k]
            /\ deadLetter[k] # None => deadLetter'[k] = deadLetter[k]
  <2>1. CASE k # job[s]
    BY <1>1, <2>1 DEF Completion, RecordResult
  <2>2. CASE k = job[s]
    <3>1. ~Recorded(k)
      BY <1>1, <2>2 DEF Completion, Owns, HasToken, RecordedIsUnclaimed
    <3>2. deadLetter[k] # None => deadLetter'[k] = deadLetter[k]
      BY <1>1, <2>2 DEF Completion, RecordResult, LetterAgrees
    <3>3. QED
      BY <3>1, <3>2
  <2>3. QED
    BY <2>1, <2>2
<1>2. ASSUME NEW k \in Job, ForeignLetter(k)
      PROVE /\ UNCHANGED result
            /\ \A l \in Job : deadLetter[l] # None => deadLetter'[l] = deadLetter[l]
  BY <1>2 DEF ForeignLetter
<1>3. QED
  BY <1>1, <1>2 DEF RecordEffect, recordVars, Expire

\* A result takes the claim with it, and no claim is given for a recorded job.
LEMMA UnclaimedStep ==
    ASSUME TypeOK, SlotsInOrder, RecordedIsUnclaimed, RecordEffect
    PROVE  RecordedIsUnclaimed'
<1> USE DEF TypeOK, RecordedIsUnclaimed, Recorded
<1>1. ASSUME NEW k \in Job, CanAcquire(k), InsertClaim(k), UNCHANGED recordVars
      PROVE RecordedIsUnclaimed'
  BY <1>1 DEF CanAcquire, InsertClaim, NewToken, recordVars
<1>2. ASSUME NEW k, DeleteClaim(k), \A l \in Job \ {k} : result'[l] = result[l]
      PROVE RecordedIsUnclaimed'
  BY <1>2 DEF DeleteClaim
<1>3. ASSUME NEW k \in Job, Expire(k) \/ ForeignLetter(k) PROVE RecordedIsUnclaimed'
  BY <1>3 DEF Expire, ForeignLetter, claimVars, recordVars
<1>4. CASE UNCHANGED <<claimVars, recordVars>>
  BY <1>4 DEF claimVars, recordVars
<1>5. ASSUME NEW s \in Slot, Completion(s) PROVE RecordedIsUnclaimed'
  BY <1>2, <1>5 DEF Completion, RecordResult
<1>6. ASSUME NEW s \in Slot, DeleteClaim(job[s]), UNCHANGED recordVars
      PROVE RecordedIsUnclaimed'
  BY <1>2, <1>6 DEF recordVars
<1>7. QED
  BY <1>1, <1>3, <1>4, <1>5, <1>6 DEF RecordEffect

\* A terminal result is written together with its letter, which stays.
LEMMA LetterStep ==
    ASSUME TypeOK, RecordedIsUnclaimed, TerminalHasLetter, RecordEffect
    PROVE  TerminalHasLetter'
<1> USE DEF TypeOK, TerminalHasLetter
<1>1. ASSUME NEW s \in Slot, Completion(s) PROVE TerminalHasLetter'
  BY <1>1 DEF Completion, RecordResult
<1>2. ASSUME UNCHANGED result PROVE TerminalHasLetter'
  <2>1. \A k \in Job : deadLetter[k] # None => deadLetter'[k] = deadLetter[k]
    BY RecordsStay
  <2>2. None \notin TerminalCode
    BY JobConstants DEF FailureCode
  <2>3. QED
    BY <1>2, <2>1, <2>2
<1>3. QED
  BY <1>1, <1>2 DEF RecordEffect, recordVars, Expire, ForeignLetter

\* The learning run is only told what the recorded result says, so it is never
\* told two different things.
LEMMA SettledStep ==
    ASSUME TypeOK, SlotsInOrder, VerdictsAgree, [Next]_jobVars, NEW k \in Job
    PROVE  /\ settled[k] # None => settled'[k] = settled[k]
           /\ settled'[k] # settled[k] =>
                 Recorded(k) /\ settled'[k] = SettledAs(result[k])
<1> USE DEF TypeOK
<1>1. ASSUME NEW s \in Slot, Settle(s) \/ SettleFails(s)
      PROVE /\ settled[k] # None => settled'[k] = settled[k]
            /\ settled'[k] # settled[k] =>
                  Recorded(k) /\ settled'[k] = SettledAs(result[k])
  <2>1. /\ Recorded(job[s]) /\ verdict[s] = result[job[s]]
        /\ \/ settled' = [settled EXCEPT ![job[s]] = SettledAs(verdict[s])]
           \/ settled' = settled
    BY <1>1 DEF Settle, SettleFails, SlotsInOrder
  <2>2. CASE job[s] = k /\ settled' # settled
    <3>1. settled'[k] = SettledAs(result[k])
      BY <2>1, <2>2
    <3>2. settled[k] # None => settled[k] = SettledAs(result[k])
      <4>1. "succeeded" \notin TerminalCode
        BY JobConstants DEF FailureCode
      <4>2. QED
        BY <4>1 DEF VerdictsAgree, SettledAs
    <3>3. QED
      BY <2>1, <2>2, <3>1, <3>2
  <2>3. CASE job[s] # k \/ settled' = settled
    BY <2>1, <2>3
  <2>4. QED
    BY <2>2, <2>3
<1>2. ASSUME NEW s \in Slot,
             \/ Acquire(s) \/ AcquireFails(s) \/ LoseLease(s) \/ TaskEnds(s)
             \/ Complete(s) \/ CompleteFails(s) \/ Release(s) \/ ReleaseFails(s)
             \/ Report(s) \/ Crash(s) \/ \E l \in Job : Start(s, l)
      PROVE UNCHANGED settled
  BY <1>2 DEF Acquire, AcquireFails, LoseLease, TaskEnds, Complete, CompleteFails,
              Release, ReleaseFails, Report, Crash, Start
<1>3. ASSUME NEW l \in Job, Enqueue(l) \/ ForeignLetter(l) \/ Stalled(l) \/ Expire(l)
      PROVE UNCHANGED settled
  BY <1>3 DEF Enqueue, ForeignLetter, Stalled, Expire
<1>4. UNCHANGED jobVars => UNCHANGED settled
  BY DEF jobVars
<1>5. QED
  BY NextCases, <1>1, <1>2, <1>3, <1>4

-----------------------------------------------------------------------------
\* SlotsInOrder, one slot at a time.
SlotInOrder(s) ==
    /\ pc[s] = "idle" <=> job[s] = None
    /\ pc[s] \in {"idle", "acquiring"} => token[s] = 0
    /\ pc[s] = "completing" =>
          verdict[s] \in {"succeeded"} \cup TerminalCode /\ ~leaseLost[s]
    /\ pc[s] = "releasing" => verdict[s] = "error"
    /\ pc[s] = "settling" => Recorded(job[s]) /\ verdict[s] = result[job[s]]
    /\ pc[s] = "reporting" =>
          \/ verdict[s] = "error"
          \/ /\ verdict[s] \in {"succeeded"} \cup TerminalCode
             /\ settled[job[s]] = SettledAs(verdict[s])

LEMMA SlotByJob ==
    ASSUME TypeOK, SlotsInOrder, VerdictsAgree, RecordedIsUnclaimed,
           [Next]_jobVars, NEW t \in Slot,
           pc'[t] = pc[t], job'[t] = job[t], token'[t] = token[t],
           leaseLost'[t] = leaseLost[t], verdict'[t] = verdict[t]
    PROVE  SlotInOrder(t)'
<1>1. SlotInOrder(t)
  BY DEF SlotsInOrder, SlotInOrder
<1>2. CASE pc[t] = "settling"
  <2>1. job[t] \in Job
    BY <1>2, BusySlot
  <2>2. result'[job[t]] = result[job[t]]
    BY <1>1, <1>2, <2>1, RecordEffects, RecordsStay DEF SlotInOrder
  <2>3. QED
    BY <1>1, <1>2, <2>2 DEF SlotInOrder, Recorded
<1>3. CASE pc[t] = "reporting"
  <2>1. job[t] \in Job
    BY <1>3, BusySlot
  <2>2. CASE verdict[t] = "error"
    BY <1>1, <1>3, <2>2 DEF SlotInOrder
  <2>3. CASE settled[job[t]] = SettledAs(verdict[t])
    <3>1. settled[job[t]] # None
      BY <2>3, JobConstants DEF SettledAs
    <3>2. settled'[job[t]] = settled[job[t]]
      BY <2>1, <3>1, SettledStep
    <3>3. QED
      BY <1>1, <1>3, <2>3, <3>2 DEF SlotInOrder, SettledAs
  <2>4. QED
    BY <1>1, <1>3, <2>2, <2>3 DEF SlotInOrder
<1>4. CASE pc[t] \notin {"settling", "reporting"}
  BY <1>1, <1>4 DEF SlotInOrder
<1>5. QED
  BY <1>2, <1>3, <1>4

\* Only the slot that acts changes.
Alone(s) ==
    \A t \in Slot \ {s} :
        /\ pc'[t] = pc[t] /\ job'[t] = job[t] /\ token'[t] = token[t]
        /\ leaseLost'[t] = leaseLost[t] /\ verdict'[t] = verdict[t]

LEMMA SlotsStep ==
    ASSUME TypeOK, SlotsInOrder, VerdictsAgree, RecordedIsUnclaimed, [Next]_jobVars
    PROVE  SlotsInOrder'
<1> USE DEF TypeOK
<1>1. ASSUME NEW s \in Slot, Alone(s), SlotInOrder(s)' PROVE SlotsInOrder'
  <2>1. \A t \in Slot : SlotInOrder(t)'
    BY <1>1, SlotByJob DEF Alone
  <2>2. QED
    BY <2>1 DEF SlotsInOrder, SlotInOrder
<1>2. CASE UNCHANGED slotVars
  <2>1. \A t \in Slot : SlotInOrder(t)'
    BY <1>2, SlotByJob DEF slotVars
  <2>2. QED
    BY <2>1 DEF SlotsInOrder, SlotInOrder
<1>3. ASSUME NEW s \in Slot, NEW k \in Job, Start(s, k) PROVE SlotsInOrder'
  <2>1. token[s] = 0 /\ k # None
    BY <1>3, JobConstants DEF Start, SlotsInOrder
  <2>2. SlotInOrder(s)' /\ Alone(s)
    BY <1>3, <2>1 DEF Start, SlotInOrder, Alone
  <2>3. QED
    BY <1>1, <2>2
<1>4. ASSUME NEW s \in Slot, pc[s] # "idle", NEW l \in SlotPc \ {"idle", "acquiring"},
             Goto(s, l), \A t \in Slot \ {s} : verdict'[t] = verdict[t]
      PROVE /\ Alone(s)
            /\ pc'[s] = l /\ job'[s] = job[s] /\ job[s] # None
            /\ token'[s] = token[s] /\ leaseLost'[s] = leaseLost[s]
  BY <1>4 DEF Goto, Alone, SlotsInOrder
<1>5. ASSUME NEW s \in Slot, pc[s] # "idle", NEW l \in {"releasing", "reporting"},
             Goto(s, l), verdict' = [verdict EXCEPT ![s] = "error"]
      PROVE SlotsInOrder'
  <2>1. Alone(s) /\ pc'[s] = l /\ job'[s] = job[s] /\ job[s] # None
    BY <1>4, <1>5 DEF SlotPc
  <2>2. SlotInOrder(s)'
    BY <1>5, <2>1 DEF SlotInOrder
  <2>3. QED
    BY <1>1, <2>1, <2>2
<1>6. ASSUME NEW s \in Slot, Acquire(s) PROVE SlotsInOrder'
  <2>1. CASE /\ result[job[s]] # None /\ Goto(s, "settling")
             /\ verdict' = [verdict EXCEPT ![s] = result[job[s]]]
    <3>1. Alone(s) /\ pc'[s] = "settling" /\ job'[s] = job[s] /\ job[s] # None
      BY <1>4, <1>6, <2>1 DEF Acquire, SlotPc
    <3>2. UNCHANGED result
      BY <1>6 DEF Acquire, recordVars
    <3>3. SlotInOrder(s)'
      BY <2>1, <3>1, <3>2 DEF SlotInOrder, Recorded
    <3>4. QED
      BY <1>1, <3>1, <3>3
  <2>2. CASE /\ pc' = [pc EXCEPT ![s] = "running"]
             /\ token' = [token EXCEPT ![s] = NewToken(job[s])]
             /\ UNCHANGED <<job, final, leaseLost, verdict>>
    <3>1. job[s] # None
      BY <1>6 DEF Acquire, SlotsInOrder
    <3>2. SlotInOrder(s)' /\ Alone(s)
      BY <2>2, <3>1 DEF SlotInOrder, Alone
    <3>3. QED
      BY <1>1, <3>2
  <2>3. CASE Goto(s, "reporting") /\ verdict' = [verdict EXCEPT ![s] = "error"]
    BY <1>5, <1>6, <2>3 DEF Acquire
  <2>4. QED
    BY <1>6, <2>1, <2>2, <2>3 DEF Acquire
<1>7. ASSUME NEW s \in Slot, AcquireFails(s) \/ CompleteFails(s) \/ SettleFails(s)
      PROVE SlotsInOrder'
  BY <1>5, <1>7 DEF AcquireFails, CompleteFails, SettleFails
<1>8. ASSUME NEW s \in Slot, LoseLease(s) PROVE SlotsInOrder'
  <2>1. SlotInOrder(s)' /\ Alone(s)
    BY <1>8 DEF LoseLease, SlotInOrder, SlotsInOrder, Alone
  <2>2. QED
    BY <1>1, <2>1
<1>9. ASSUME NEW s \in Slot, TaskEnds(s) PROVE SlotsInOrder'
  <2>1. PICK v \in {"succeeded", "error"} \cup TaskFailure :
          /\ verdict' = [verdict EXCEPT ![s] = Thrown(s, v)]
          /\ Goto(s, IF Thrown(s, v) = "error" THEN "releasing" ELSE "completing")
    BY <1>9 DEF TaskEnds
  <2>2. PICK w : w = Thrown(s, v)
    OBVIOUS
  <2>3. w # "error" => w \in {"succeeded"} \cup TerminalCode /\ ~leaseLost[s]
    BY <2>2 DEF Thrown, Exhausted, TerminalCode
  <2>4. CASE w = "error"
    BY <1>5, <1>9, <2>1, <2>2, <2>4 DEF TaskEnds
  <2>5. CASE w # "error"
    <3>1. Goto(s, "completing") /\ verdict' = [verdict EXCEPT ![s] = w]
      BY <2>1, <2>2, <2>5
    <3>2. Alone(s) /\ pc'[s] = "completing" /\ job'[s] = job[s] /\ job[s] # None
          /\ leaseLost'[s] = leaseLost[s]
      BY <1>4, <1>9, <3>1 DEF TaskEnds, SlotPc
    <3>3. verdict'[s] = w
      BY <3>1
    <3>4. SlotInOrder(s)'
      BY <2>3, <2>5, <3>2, <3>3 DEF SlotInOrder
    <3>5. QED
      BY <1>1, <3>2, <3>4
  <2>6. QED
    BY <2>4, <2>5
<1>10. ASSUME NEW s \in Slot, Complete(s) PROVE SlotsInOrder'
  <2>1. CASE RecordResult(job[s], verdict[s]) /\ Goto(s, "settling") /\ UNCHANGED verdict
    <3>1. job[s] \in Job /\ pc[s] = "completing"
      BY <1>10, BusySlot DEF Complete
    <3>2. verdict[s] # None
      BY <3>1, JobConstants DEF SlotsInOrder, FailureCode
    <3>3. result'[job[s]] = verdict[s]
      BY <2>1, <3>1 DEF RecordResult
    <3>4. Alone(s) /\ pc'[s] = "settling" /\ job'[s] = job[s] /\ job[s] # None
      BY <1>4, <2>1, <3>1 DEF SlotPc
    <3>5. SlotInOrder(s)'
      BY <2>1, <3>2, <3>3, <3>4 DEF SlotInOrder, Recorded
    <3>6. QED
      BY <1>1, <3>4, <3>5
  <2>2. CASE Goto(s, "releasing") /\ verdict' = [verdict EXCEPT ![s] = "error"]
    BY <1>5, <1>10, <2>2 DEF Complete
  <2>3. QED
    BY <1>10, <2>1, <2>2 DEF Complete
<1>11. ASSUME NEW s \in Slot, Release(s) \/ ReleaseFails(s) PROVE SlotsInOrder'
  <2>1. verdict[s] = "error" /\ UNCHANGED verdict
    BY <1>11 DEF Release, ReleaseFails, SlotsInOrder
  <2>2. Alone(s) /\ pc'[s] = "reporting" /\ job'[s] = job[s] /\ job[s] # None
    BY <1>4, <1>11, <2>1 DEF Release, ReleaseFails, SlotPc
  <2>3. SlotInOrder(s)'
    BY <2>1, <2>2 DEF SlotInOrder
  <2>4. QED
    BY <1>1, <2>2, <2>3
<1>12. ASSUME NEW s \in Slot, Settle(s) PROVE SlotsInOrder'
  <2>1. /\ Recorded(job[s]) /\ verdict[s] = result[job[s]] /\ UNCHANGED verdict
        /\ job[s] \in Job
    BY <1>12, BusySlot DEF Settle, SlotsInOrder
  <2>2. verdict[s] \in {"succeeded"} \cup TerminalCode
    BY <2>1 DEF Recorded
  <2>3. settled'[job[s]] = SettledAs(verdict[s])
    BY <1>12, <2>1 DEF Settle
  <2>4. Alone(s) /\ pc'[s] = "reporting" /\ job'[s] = job[s] /\ job[s] # None
    BY <1>4, <1>12, <2>1 DEF Settle, SlotPc
  <2>5. SlotInOrder(s)'
    BY <2>1, <2>2, <2>3, <2>4 DEF SlotInOrder, SettledAs
  <2>6. QED
    BY <1>1, <2>4, <2>5
<1>13. ASSUME NEW s \in Slot, Report(s) \/ Crash(s) PROVE SlotsInOrder'
  <2>1. Rest(s)
    BY <1>13 DEF Report, Crash
  <2>2. SlotInOrder(s)' /\ Alone(s)
    BY <2>1 DEF Rest, SlotInOrder, Alone
  <2>3. QED
    BY <1>1, <2>2
<1>14. ASSUME NEW k \in Job, Enqueue(k) \/ ForeignLetter(k) \/ Stalled(k) \/ Expire(k)
       PROVE SlotsInOrder'
  BY <1>2, <1>14 DEF Enqueue, ForeignLetter, Stalled, Expire
<1>15. UNCHANGED jobVars => SlotsInOrder'
  BY <1>2 DEF jobVars
<1>16. QED
  BY NextCases, <1>3, <1>6, <1>7, <1>8, <1>9, <1>10, <1>11, <1>12, <1>13, <1>14, <1>15

\* The queue and the learning run agree with the result.
LEMMA VerdictsStep ==
    ASSUME TypeOK, SlotsInOrder, RecordedIsUnclaimed, VerdictsAgree, [Next]_jobVars
    PROVE  VerdictsAgree'
<1> USE DEF TypeOK
<1> SUFFICES ASSUME NEW k \in Job
             PROVE /\ settled'[k] = "completed" => result'[k] = "succeeded"
                   /\ settled'[k] = "failed" => result'[k] \in TerminalCode
                   /\ jobState'[k] = "completed" => settled'[k] = "completed"
  BY DEF VerdictsAgree
<1>1. /\ Recorded(k) => result'[k] = result[k]
      /\ settled[k] # None => settled'[k] = settled[k]
      /\ settled'[k] # settled[k] => Recorded(k) /\ settled'[k] = SettledAs(result[k])
  BY RecordEffects, RecordsStay, SettledStep
<1>2. None \notin {"completed", "failed", "succeeded"} /\ None \notin TerminalCode
  BY JobConstants DEF FailureCode
<1>3. settled[k] # None => Recorded(k)
  BY <1>2 DEF VerdictsAgree, Recorded
<1>4. /\ settled'[k] = "completed" => result'[k] = "succeeded"
      /\ settled'[k] = "failed" => result'[k] \in TerminalCode
  <2>1. CASE settled'[k] = settled[k]
    BY <1>1, <1>2, <1>3, <2>1 DEF VerdictsAgree
  <2>2. CASE settled'[k] # settled[k]
    <3>1. result'[k] = result[k] /\ result[k] \in {"succeeded"} \cup TerminalCode
      BY <1>1, <2>2 DEF Recorded
    <3>2. QED
      BY <1>1, <2>2, <3>1 DEF SettledAs
  <2>3. QED
    BY <2>1, <2>2
<1>5. jobState'[k] = "completed" => jobState[k] = "completed" \/ settled[k] = "completed"
  <2>1. ASSUME NEW l \in Job,
               \/ Enqueue(l) \/ Stalled(l) \/ \E s \in Slot : Start(s, l)
        PROVE jobState'[k] = "completed" => jobState[k] = "completed"
    BY <2>1 DEF Enqueue, Stalled, Start
  <2>2. ASSUME NEW s \in Slot, Report(s)
        PROVE jobState'[k] = "completed" =>
                  jobState[k] = "completed" \/ settled[k] = "completed"
    <3>1. pc[s] = "reporting" /\ job[s] \in Job
      BY <2>2, BusySlot DEF Report
    <3>2. verdict[s] = "succeeded" => settled[job[s]] = "completed"
      BY <3>1 DEF SlotsInOrder, SettledAs
    <3>3. QED
      BY <2>2, <3>1, <3>2, ReportCases
  <2>3. QED
    BY BullEffects, <2>1, <2>2 DEF BullEffect, bullVars
<1>6. QED
  BY <1>1, <1>2, <1>4, <1>5 DEF VerdictsAgree

\* A job is failed by a terminal outcome the learning run has heard of, by its
\* last attempt, or by one stall too many.
LEMMA SpentStep ==
    ASSUME TypeOK, SlotsInOrder, VerdictsAgree, AttemptLeft, GivenUpOnlyWhenSpent,
           [Next]_jobVars
    PROVE  GivenUpOnlyWhenSpent'
<1> USE DEF TypeOK
<1> SUFFICES ASSUME NEW k \in Job, jobState'[k] = "failed", settled'[k] = None
             PROVE attemptsMade'[k] = MaxAttempts \/ stalls'[k] = MaxStalls
  BY DEF GivenUpOnlyWhenSpent
<1>1. settled[k] = None
  BY SettledStep
<1>2. CASE jobState[k] = "failed" /\ UNCHANGED <<attemptsMade, stalls>>
  BY <1>1, <1>2 DEF GivenUpOnlyWhenSpent
<1>3. ASSUME NEW l \in Job, Enqueue(l) \/ \E s \in Slot : Start(s, l)
      PROVE jobState[k] = "failed" /\ UNCHANGED <<attemptsMade, stalls>>
  BY <1>3 DEF Enqueue, Start
<1>4. ASSUME NEW l \in Job, Stalled(l)
      PROVE attemptsMade'[k] = MaxAttempts \/ stalls'[k] = MaxStalls
  <2>1. CASE l # k
    <3>1. jobState[k] = "failed" /\ UNCHANGED attemptsMade /\ stalls'[k] = stalls[k]
      BY <1>4, <2>1 DEF Stalled
    <3>2. QED
      BY <1>1, <3>1 DEF GivenUpOnlyWhenSpent
  <2>2. CASE l = k
    <3>1. ~(stalls[k] < MaxStalls) /\ UNCHANGED stalls
      BY <1>4, <2>2 DEF Stalled
    <3>2. stalls[k] \in 0..MaxStalls
      OBVIOUS
    <3>3. QED
      BY <3>1, <3>2, JobConstants
  <2>3. QED
    BY <2>1, <2>2
<1>5. ASSUME NEW s \in Slot, Report(s)
      PROVE attemptsMade'[k] = MaxAttempts \/ stalls'[k] = MaxStalls
  <2>1. pc[s] = "reporting" /\ job[s] \in Job /\ UNCHANGED stalls
    BY <1>5, BusySlot DEF Report
  <2>2. verdict[s] \in TerminalCode => settled[job[s]] # None
    BY <2>1, JobConstants DEF SlotsInOrder, SettledAs, FailureCode
  <2>3. CASE job[s] # k
    <3>1. jobState[k] = "failed" /\ attemptsMade'[k] = attemptsMade[k]
      BY <1>5, <2>1, <2>3, ReportCases
    <3>2. QED
      BY <1>1, <2>1, <3>1 DEF GivenUpOnlyWhenSpent
  <2>4. CASE job[s] = k /\ UNCHANGED <<jobState, lockOwner, attemptsMade>>
    BY <1>1, <2>1, <2>4 DEF GivenUpOnlyWhenSpent
  <2>5. CASE job[s] = k /\ ~UNCHANGED <<jobState, lockOwner, attemptsMade>>
    <3>1. /\ jobState[k] = "active" /\ verdict[s] = "error"
          /\ ~(attemptsMade[k] + 1 < MaxAttempts)
          /\ attemptsMade'[k] = attemptsMade[k] + 1
      BY <1>1, <1>5, <2>1, <2>2, <2>5, ReportCases
    <3>2. attemptsMade[k] < MaxAttempts /\ attemptsMade[k] \in 0..MaxAttempts
      BY <3>1 DEF AttemptLeft
    <3>3. QED
      BY <3>1, <3>2, JobConstants
  <2>6. QED
    BY <2>3, <2>4, <2>5
<1>6. QED
  BY BullEffects, <1>2, <1>3, <1>4, <1>5 DEF BullEffect, bullVars

-----------------------------------------------------------------------------
(***************************************************************************)
(* The theorems.                                                           *)
(***************************************************************************)

\* The invariant of the job execution holds in every reachable state.
THEOREM JobCorrect == Spec => []JobInv
<1>1. Init => JobInv
  BY JobConstants
  DEF Init, JobInv, TypeOK, SlotPc, TokensFresh, SlotsInOrder, JobsExist, AttemptLeft,
      RecordedIsUnclaimed, TerminalHasLetter, VerdictsAgree, GivenUpOnlyWhenSpent,
      Recorded, FailureCode
<1>2. JobInv /\ [Next]_jobVars => JobInv'
  BY RecordEffects, TypeStep, TokensStep, SlotsStep, JobsExistStep,
     BullTypesStep, UnclaimedStep,
     LetterStep, VerdictsStep, SpentStep
  DEF JobInv
<1>3. QED
  BY <1>1, <1>2, PTL DEF Spec

\* Every variable keeps its type; in particular no job is attempted more often
\* than it may be.
THEOREM TypeCorrect == Spec => []TypeOK
<1>1. JobInv => TypeOK
  BY DEF JobInv
<1>2. QED
  BY <1>1, JobCorrect, PTL

\* At most one slot can renew the claim of a job or record its result.
THEOREM OwnersAreAlone == Spec => []SingleOwner
<1>1. JobInv => SingleOwner
  <2> SUFFICES ASSUME TokensFresh, NEW s \in Slot, NEW t \in Slot,
                      job[s] = job[t], Owns(s), Owns(t)
               PROVE s = t
    BY DEF JobInv, SingleOwner
  <2>1. token[s] = token[t] /\ token[s] # 0
    BY DEF Owns, HasToken
  <2>2. QED
    BY <2>1 DEF TokensFresh
<1>2. QED
  BY <1>1, JobCorrect, PTL

\* A job with a recorded result is claimed by nobody.
THEOREM RecordedJobsAreUnclaimed == Spec => []RecordedIsUnclaimed
<1>1. JobInv => RecordedIsUnclaimed
  BY DEF JobInv
<1>2. QED
  BY <1>1, JobCorrect, PTL

\* A terminal result comes with its dead letter.
THEOREM TerminalResultsHaveLetters == Spec => []TerminalHasLetter
<1>1. JobInv => TerminalHasLetter
  BY DEF JobInv
<1>2. QED
  BY <1>1, JobCorrect, PTL

\* The learning run and the queue are told what the result says.
THEOREM VerdictsAlwaysAgree == Spec => []VerdictsAgree
<1>1. JobInv => VerdictsAgree
  BY DEF JobInv
<1>2. QED
  BY <1>1, JobCorrect, PTL

\* A job is given up without a verdict only when its attempts or stalls are spent.
THEOREM GivenUpJobsAreSpent == Spec => []GivenUpOnlyWhenSpent
<1>1. JobInv => GivenUpOnlyWhenSpent
  BY DEF JobInv
<1>2. QED
  BY <1>1, JobCorrect, PTL

\* Results and dead letters are never overwritten.
THEOREM RecordsStayFinal == Spec => RecordsAreFinal
<1>1. JobInv /\ [Next]_jobVars =>
        [\A k \in Job :
          /\ Recorded(k) => result'[k] = result[k]
          /\ deadLetter[k] # None => deadLetter'[k] = deadLetter[k]]_jobVars
  BY RecordEffects, RecordsStay DEF JobInv
<1>2. QED
  BY <1>1, JobCorrect, PTL DEF Spec, RecordsAreFinal

\* Only the owner of a live claim that was not aborted records a result.
THEOREM OwnersRecord == Spec => OnlyOwnerRecords
<1>1. JobInv /\ [Next]_jobVars =>
        [\A k \in Job : result'[k] # result[k] =>
          \E s \in Working(k) : Owns(s) /\ ~leaseLost[s] /\ verdict[s] = result'[k]]_jobVars
  <2> SUFFICES ASSUME JobInv, [Next]_jobVars, NEW k \in Job, result'[k] # result[k]
               PROVE \E s \in Working(k) :
                        Owns(s) /\ ~leaseLost[s] /\ verdict[s] = result'[k]
    OBVIOUS
  <2>1. TypeOK /\ SlotsInOrder
    BY DEF JobInv
  <2>2. PICK s \in Slot : Completion(s)
    BY <2>1, RecordEffects DEF RecordEffect, recordVars, Expire, ForeignLetter
  <2>3. job[s] = k /\ result'[k] = verdict[s]
    BY <2>1, <2>2 DEF Completion, RecordResult, TypeOK
  <2>4. Owns(s) /\ ~leaseLost[s]
    BY <2>1, <2>2 DEF Completion, SlotsInOrder
  <2>5. QED
    BY <2>3, <2>4 DEF Working
<1>2. QED
  BY <1>1, JobCorrect, PTL DEF Spec, OnlyOwnerRecords

-----------------------------------------------------------------------------
(***************************************************************************)
(* The refinement: the claims are leased work.                             *)
(***************************************************************************)
LEMMA LeasedInit == Init => Leased!Init
BY DEF Init, Leased!Init

\* An acquisition takes one item.
LEMMA LeasedTake ==
    ASSUME TypeOK, NEW k \in Job, CanAcquire(k), InsertClaim(k), UNCHANGED result
    PROVE  Leased!Take({k})
<1> USE DEF TypeOK
<1>1. \A i \in {k} : result[i] = None /\ (claimToken[i] = 0 \/ ~claimLive[i])
  BY DEF CanAcquire
<1>2. issued' = [i \in Job |-> IF i \in {k} THEN issued[i] + 1 ELSE issued[i]]
  BY DEF InsertClaim
<1>3. claimToken' = [i \in Job |-> IF i \in {k} THEN issued[i] + 1 ELSE claimToken[i]]
  BY DEF InsertClaim, NewToken
<1>4. claimLive' = [i \in Job |-> i \in {k} \/ claimLive[i]]
  BY DEF InsertClaim
<1>5. QED
  BY <1>1, <1>2, <1>3, <1>4 DEF Leased!Take

LEMMA LeasedLapse ==
    ASSUME TypeOK, NEW k \in Job, Expire(k)
    PROVE  Leased!Lapse({k})
<1>1. claimLive' = [i \in Job |-> claimLive[i] /\ i \notin {k}]
  BY DEF TypeOK, Expire
<1>2. QED
  BY <1>1 DEF Leased!Lapse, Expire, recordVars

\* The execution implements leased work: a job is claimed by one slot at a time
\* under a token nobody was given before, and its owner settles it at most once.
THEOREM JobIsLeasedWork == Spec => ImplementsLeasedWork
<1>1. JobInv /\ [Next]_jobVars => [Leased!Next]_(Leased!lwVars)
  <2> SUFFICES ASSUME JobInv, [Next]_jobVars
               PROVE  Leased!Next \/ UNCHANGED Leased!lwVars
    OBVIOUS
  <2> USE DEF Leased!Next
  <2>1. TypeOK /\ SlotsInOrder /\ RecordedIsUnclaimed
    BY DEF JobInv
  <2>2. ASSUME NEW k \in Job, CanAcquire(k), InsertClaim(k), UNCHANGED recordVars
        PROVE Leased!Next
    <3>1. Leased!Take({k}) /\ {k} \in SUBSET Job
      BY <2>1, <2>2, LeasedTake DEF recordVars
    <3>2. QED
      BY <3>1
  <2>3. ASSUME NEW s \in Slot, Completion(s) PROVE Leased!Next
    <3>1. PICK k \in Job : k = job[s]
      BY <2>1, <2>3, BusySlot DEF Completion
    <3>2. PICK v \in {"succeeded"} \cup TerminalCode : v = verdict[s]
      BY <2>1, <2>3 DEF Completion, SlotsInOrder
    <3>3. claimToken[k] # 0
      BY <2>3, <3>1 DEF Completion, Owns, HasToken
    <3>4. result[k] = None
      BY <2>1, <3>3 DEF RecordedIsUnclaimed, Recorded
    <3>5. Leased!Settle(k, v)
      BY <2>3, <3>1, <3>2, <3>3, <3>4
      DEF Completion, RecordResult, DeleteClaim, Leased!Settle, Leased!Free
    <3>6. QED
      BY <3>5
  <2>4. ASSUME NEW s \in Slot, HasToken(s), DeleteClaim(job[s]), UNCHANGED recordVars
        PROVE Leased!Next \/ UNCHANGED Leased!lwVars
    <3>1. CASE job[s] \in Job
      <4>1. PICK k \in Job : k = job[s]
        BY <3>1
      <4>2. Leased!Drop(k)
        BY <2>4, <4>1 DEF HasToken, DeleteClaim, recordVars, Leased!Drop, Leased!Free
      <4>3. QED
        BY <4>2
    <3>2. CASE job[s] \notin Job
      BY <2>1, <2>4, <3>2 DEF DeleteClaim, recordVars, TypeOK, Leased!lwVars
    <3>3. QED
      BY <3>1, <3>2
  <2>5. ASSUME NEW k \in Job, Expire(k) PROVE Leased!Next
    <3>1. Leased!Lapse({k}) /\ {k} \in SUBSET Job
      BY <2>1, <2>5, LeasedLapse
    <3>2. QED
      BY <3>1
  <2>6. ASSUME NEW k \in Job, ForeignLetter(k) PROVE UNCHANGED Leased!lwVars
    BY <2>6 DEF ForeignLetter, claimVars, Leased!lwVars
  <2>7. CASE UNCHANGED <<claimVars, recordVars>>
    BY <2>7 DEF claimVars, recordVars, Leased!lwVars
  <2>8. QED
    BY <2>1, RecordEffects, <2>2, <2>3, <2>4, <2>5, <2>6, <2>7 DEF RecordEffect
<1>2. QED
  BY <1>1, LeasedInit, JobCorrect, PTL DEF Spec, ImplementsLeasedWork, Leased!Spec
=============================================================================
