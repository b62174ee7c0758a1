------------------------- MODULE WorkOutbox_proofs -------------------------
(***************************************************************************)
(* Proofs about the outbox, for every set of events and relays and every   *)
(* value of the limits.                                                    *)
(***************************************************************************)
EXTENDS WorkOutbox, TLAPS

\* A step of Next is one of its actions, with the relay and the event it is
\* about.
LEMMA NextCases ==
    ASSUME [Next]_outboxVars
    PROVE  \/ \E e \in Event : Append(e) \/ Withdraw(e) \/ WorkerLetter(e)
           \/ \E e, f \in Event : Replay(e, f)
           \/ \E r \in Relay :
                \/ Claim(r) \/ ClaimLost(r) \/ StartPublish(r) \/ EndBatch(r)
                \/ PublishOk(r) \/ PublishError(r) \/ PublishTimedOut(r)
                \/ Ack(r) \/ AckFails(r) \/ Retry(r) \/ RetryFails(r) \/ Crash(r)
           \/ \E r \in Relay, e \in Event : Land(r, e)
           \/ Tick
           \/ UNCHANGED outboxVars
BY DEF Next, RelayStep, RelayFault

-----------------------------------------------------------------------------
(***************************************************************************)
(* The parts the actions are built from keep the types of what they touch. *)
(***************************************************************************)
LEMMA RelayPartTypes ==
    ASSUME RelayTypes, NEW r \in Relay, NEW l \in RelayPc,
           Goto(r, l) \/ Abandon(r) \/ NextEvent(r) \/ UNCHANGED relayVars
    PROVE  RelayTypes'
<1>1. CASE Goto(r, l)
  BY <1>1 DEF Goto, RelayTypes
<1>2. CASE Abandon(r)
  <2>1. [e \in Event |-> 0] \in [Event -> Nat]
    OBVIOUS
  <2>2. held' \in [Relay -> [Event -> Nat]]
    BY <1>2, <2>1 DEF Abandon, RelayTypes
  <2>3. QED
    BY <1>2, <2>2, OutboxConstants DEF Abandon, RelayTypes, RelayPc
<1>3. CASE NextEvent(r)
  <2>1. held' \in [Relay -> [Event -> Nat]]
    BY <1>3 DEF NextEvent, RelayTypes
  <2>2. QED
    BY <1>3, <2>1, OutboxConstants DEF NextEvent, RelayTypes, RelayPc
<1>4. CASE UNCHANGED relayVars
  BY <1>4 DEF relayVars, RelayTypes
<1>5. QED
  BY <1>1, <1>2, <1>3, <1>4

LEMMA ClearLeaseTypes ==
    ASSUME RowTypes, NEW e, ClearLease(e)
    PROVE  leaseToken' \in [Event -> Nat] /\ leaseLeft' \in [Event -> 0..Lease]
<1>1. leaseToken' \in [Event -> Nat]
  BY DEF RowTypes, ClearLease
<1>2. leaseLeft' \in [Event -> 0..Lease]
  <2>1. 0 \in 0..Lease
    BY OutboxConstants
  <2>2. leaseLeft \in [Event -> 0..Lease] /\ leaseLeft' = [leaseLeft EXCEPT ![e] = 0]
    BY DEF RowTypes, ClearLease
  <2>3. QED
    BY <2>1, <2>2
<1>3. QED
  BY <1>1, <1>2

LEMMA RowPartTypes ==
    ASSUME RowTypes, LetterTypes, NEW e,
           AckRow(e) \/ RetryRow(e) \/ UNCHANGED <<rowVars, letterVars>>
    PROVE  RowTypes' /\ LetterTypes'
<1>1. CASE AckRow(e)
  <2>1. phase' \in [Event -> {"absent", "pending", "published", "terminal"}]
    BY <1>1 DEF AckRow, RowTypes
  <2>2. QED
    BY <1>1, <2>1, ClearLeaseTypes DEF AckRow, RowTypes, LetterTypes, letterVars
<1>2. CASE RetryRow(e) /\ Exhausted(e)
  <2>1. phase' \in [Event -> {"absent", "pending", "published", "terminal"}]
    BY <1>2 DEF RetryRow, RowTypes
  <2>2. deadLetter' \in [Event -> FailureCode \cup {None}]
    BY <1>2, OutboxConstants DEF RetryRow, FirstLetter, LetterTypes
  <2>3. QED
    BY <1>2, <2>1, <2>2, ClearLeaseTypes DEF RetryRow, RowTypes, LetterTypes
<1>3. CASE RetryRow(e) /\ ~Exhausted(e)
  <2>1. availableIn' \in [Event -> 0..RetryDelay]
    BY <1>3, OutboxConstants DEF RetryRow, RowTypes
  <2>2. QED
    BY <1>3, <2>1, ClearLeaseTypes DEF RetryRow, RowTypes, LetterTypes
<1>4. CASE UNCHANGED <<rowVars, letterVars>>
  BY <1>4 DEF rowVars, letterVars, RowTypes, LetterTypes
<1>5. QED
  BY <1>1, <1>2, <1>3, <1>4

LEMMA ClaimRowsTypes ==
    ASSUME RowTypes, NEW S \in SUBSET Event, ClaimRows(S)
    PROVE  RowTypes'
BY OutboxConstants DEF RowTypes, ClaimRows, NewToken

LEMMA FaultTypes ==
    ASSUME faults \in 0..MaxFaults, Fault
    PROVE  faults' \in 0..MaxFaults
BY OutboxConstants DEF Fault

\* Every variable keeps its type; in particular no lease outlasts Lease and no
\* publish its timeout.
THEOREM TypeCorrect == Spec => []TypeOK
<1>1. Init => TypeOK
  BY OutboxConstants DEF Init, TypeOK, RowTypes, LetterTypes, RelayTypes, RelayPc
<1>2. TypeOK /\ [Next]_outboxVars => TypeOK'
  <2> SUFFICES ASSUME TypeOK, [Next]_outboxVars PROVE TypeOK'
    OBVIOUS
  <2> USE DEF TypeOK
  <2>1. ASSUME NEW e \in Event, Append(e) PROVE TypeOK'
    BY <2>1 DEF Append, RowTypes, LetterTypes, RelayTypes, letterVars, relayVars
  <2>2. ASSUME NEW e \in Event, Withdraw(e) PROVE TypeOK'
    BY <2>2 DEF Withdraw, RowTypes, LetterTypes, RelayTypes, letterVars, relayVars
  <2>0. ASSUME NEW e \in Event, WorkerLetter(e) PROVE TypeOK'
    BY <2>0 DEF WorkerLetter, RowTypes, LetterTypes, RelayTypes, rowVars, relayVars
  <2>3. ASSUME NEW e \in Event, NEW f \in Event, Replay(e, f) PROVE TypeOK'
    BY <2>3 DEF Replay, MarkReplayed, RowTypes, LetterTypes, RelayTypes, relayVars
  <2>4. ASSUME NEW r \in Relay, Claim(r) PROVE TypeOK'
    <3>1. RowTypes'
      BY <2>4, ClaimRowsTypes DEF Claim
    <3>2. RelayTypes'
      BY <2>4 DEF Claim, RelayTypes, RelayPc, RowTypes, NewToken
    <3>3. QED
      BY <2>4, <3>1, <3>2 DEF Claim, LetterTypes, letterVars
  <2>5. ASSUME NEW r \in Relay, ClaimLost(r) PROVE TypeOK'
    <3>1. RowTypes'
      BY <2>5, ClaimRowsTypes DEF ClaimLost
    <3>2. QED
      BY <2>5, <3>1, FaultTypes
      DEF ClaimLost, LetterTypes, RelayTypes, letterVars, relayVars
  <2>6. ASSUME NEW r \in Relay, StartPublish(r) PROVE TypeOK'
    <3>1. RelayTypes'
      BY <2>6, OutboxConstants DEF StartPublish, RelayTypes, RelayPc, Batch
    <3>2. QED
      BY <2>6, <3>1
      DEF StartPublish, Batch, RowTypes, LetterTypes, rowVars, letterVars
  <2>7. ASSUME NEW r \in Relay, EndBatch(r) PROVE TypeOK'
    <3>1. RelayTypes'
      BY <2>7, RelayPartTypes DEF EndBatch, RelayPc
    <3>2. QED
      BY <2>7, <3>1 DEF EndBatch, RowTypes, LetterTypes, rowVars, letterVars
  <2>8. ASSUME NEW r \in Relay, PublishOk(r) PROVE TypeOK'
    <3>1. RelayTypes'
      BY <2>8, RelayPartTypes DEF PublishOk, RelayPc
    <3>2. QED
      BY <2>8, <3>1 DEF PublishOk, RowTypes, LetterTypes, rowVars, letterVars
  <2>9. ASSUME NEW r \in Relay, PublishError(r) \/ PublishTimedOut(r) PROVE TypeOK'
    <3>1. RelayTypes'
      BY <2>9, RelayPartTypes DEF PublishError, PublishTimedOut, RelayPc
    <3>2. QED
      BY <2>9, <3>1, FaultTypes
      DEF PublishError, PublishTimedOut, RowTypes, LetterTypes, rowVars, letterVars
  <2>10. ASSUME NEW r \in Relay, Ack(r) \/ Retry(r) PROVE TypeOK'
    <3>1. RelayTypes'
      BY <2>10, RelayPartTypes DEF Ack, Retry, RelayPc
    <3>2. \/ AckRow(current[r]) \/ RetryRow(current[r])
          \/ UNCHANGED <<rowVars, letterVars>>
      BY <2>10 DEF Ack, Retry
    <3>3. RowTypes' /\ LetterTypes'
      BY <3>2, RowPartTypes
    <3>4. QED
      BY <2>10, <3>1, <3>3 DEF Ack, Retry
  <2>11. ASSUME NEW r \in Relay, AckFails(r) \/ RetryFails(r) PROVE TypeOK'
    <3>1. RelayTypes'
      BY <2>11, RelayPartTypes DEF AckFails, RetryFails, RelayPc
    <3>2. \/ AckRow(current[r]) \/ RetryRow(current[r])
          \/ UNCHANGED <<rowVars, letterVars>>
      BY <2>11 DEF AckFails, RetryFails
    <3>3. RowTypes' /\ LetterTypes'
      BY <3>2, RowPartTypes
    <3>4. QED
      BY <2>11, <3>1, <3>3, FaultTypes DEF AckFails, RetryFails
  <2>12. ASSUME NEW r \in Relay, Crash(r) PROVE TypeOK'
    <3>1. RelayTypes'
      BY <2>12, RelayPartTypes DEF Crash, RelayPc
    <3>2. QED
      BY <2>12, <3>1, FaultTypes
      DEF Crash, RowTypes, LetterTypes, rowVars, letterVars
  <2>13. ASSUME NEW r \in Relay, NEW e \in Event, Land(r, e) PROVE TypeOK'
    BY <2>13 DEF Land, RowTypes, LetterTypes, RelayTypes, rowVars, letterVars, relayVars
  <2>14. CASE Tick
    <3>1. /\ leaseLeft' \in [Event -> 0..Lease]
          /\ availableIn' \in [Event -> 0..RetryDelay]
      BY <2>14, OutboxConstants DEF Tick, RowTypes
    <3>2. timer' \in [Relay -> 0..PublishTimeout]
      BY <2>14, OutboxConstants DEF Tick, WithinDeadline, RelayTypes
    <3>3. QED
      BY <2>14, <3>1, <3>2 DEF Tick, RowTypes, LetterTypes, RelayTypes, letterVars
  <2>15. CASE UNCHANGED outboxVars
    BY <2>15 DEF outboxVars, RowTypes, LetterTypes, RelayTypes, rowVars, letterVars, relayVars
  <2>16. QED
    BY NextCases, <2>0, <2>1, <2>2, <2>3, <2>4, <2>5, <2>6, <2>7, <2>8, <2>9, <2>10,
       <2>11, <2>12, <2>13, <2>14, <2>15
<1>3. QED
  BY <1>1, <1>2, PTL DEF Spec

-----------------------------------------------------------------------------
(***************************************************************************)
(* What a step can do to the rows and the dead letters, whoever takes it:  *)
(* rows only change by an append, a replay, a withdrawal, a claim, or an   *)
(* acknowledgement or retry by the holder; letters by a retry or a worker. *)
(***************************************************************************)
rowCore == <<phase, attemptCount, leaseToken, withdrawn>>

RowEffect ==
    \/ \E e \in Event : Append(e) \/ Withdraw(e) \/ WorkerLetter(e)
    \/ \E e, f \in Event : Replay(e, f)
    \/ \E S \in SUBSET Event : ClaimRows(S) /\ UNCHANGED letterVars
    \/ \E r \in Relay : Holds(r, current[r]) /\ AckRow(current[r]) /\ pc[r] = "acking"
    \/ \E r \in Relay : Holds(r, current[r]) /\ RetryRow(current[r])
    \/ UNCHANGED <<rowCore, letterVars>> /\ (UNCHANGED leaseLeft \/ Tick)

LEMMA RowEffects == ASSUME [Next]_outboxVars PROVE RowEffect
<1> USE DEF RowEffect
<1>1. ASSUME NEW e \in Event, Append(e) \/ Withdraw(e) \/ WorkerLetter(e)
      PROVE RowEffect
  BY <1>1
<1>2. ASSUME NEW e \in Event, NEW f \in Event, Replay(e, f) PROVE RowEffect
  BY <1>2
<1>3. ASSUME NEW r \in Relay, Claim(r) \/ ClaimLost(r) PROVE RowEffect
  BY <1>3 DEF Claim, ClaimLost
<1>4. ASSUME NEW r \in Relay,
             \/ StartPublish(r) \/ EndBatch(r) \/ PublishOk(r)
             \/ PublishError(r) \/ PublishTimedOut(r) \/ Crash(r)
      PROVE RowEffect
  BY <1>4 DEF StartPublish, EndBatch, PublishOk, PublishError, PublishTimedOut,
              Crash, rowVars, rowCore
<1>5. ASSUME NEW r \in Relay, Ack(r) \/ AckFails(r) PROVE RowEffect
  BY <1>5 DEF Ack, AckFails, rowVars, rowCore
<1>6. ASSUME NEW r \in Relay, Retry(r) \/ RetryFails(r) PROVE RowEffect
  BY <1>6 DEF Retry, RetryFails, rowVars, rowCore
<1>7. ASSUME NEW r \in Relay, NEW e \in Event, Land(r, e) PROVE RowEffect
  BY <1>7 DEF Land, rowVars, rowCore
<1>8. CASE Tick
  BY <1>8 DEF Tick, rowCore
<1>9. CASE UNCHANGED outboxVars
  BY <1>9 DEF outboxVars, rowVars, rowCore
<1>10. QED
  BY NextCases, <1>1, <1>2, <1>3, <1>4, <1>5, <1>6, <1>7, <1>8, <1>9

\* Rows that were never appended stay blank.
LEMMA AbsentStep ==
    ASSUME TypeOK, AbsentIsBlank, RowEffect
    PROVE  AbsentIsBlank'
<1> USE DEF TypeOK, RowTypes, LetterTypes, AbsentIsBlank
<1>1. ASSUME NEW e \in Event, Append(e) \/ Withdraw(e) \/ WorkerLetter(e)
      PROVE AbsentIsBlank'
  BY <1>1 DEF Append, Withdraw, WorkerLetter, letterVars, rowVars
<1>2. ASSUME NEW e \in Event, NEW f \in Event, Replay(e, f) PROVE AbsentIsBlank'
  BY <1>2 DEF Replay, MarkReplayed
<1>3. ASSUME NEW S \in SUBSET Event, ClaimRows(S), UNCHANGED letterVars
      PROVE AbsentIsBlank'
  BY <1>3 DEF ClaimRows, Claimable, letterVars
<1>4. ASSUME NEW e, AckRow(e) \/ RetryRow(e) PROVE AbsentIsBlank'
  BY <1>4 DEF AckRow, RetryRow, ClearLease, letterVars
<1>5. CASE UNCHANGED <<rowCore, letterVars>> /\ (UNCHANGED leaseLeft \/ Tick)
  BY <1>5 DEF rowCore, letterVars, Tick
<1>6. QED
  BY <1>1, <1>2, <1>3, <1>4, <1>5 DEF RowEffect

\* A row is closed for a reason, and only an exhausted one has a dead letter.
LEMMA ClosedStep ==
    ASSUME TypeOK, AbsentIsBlank, ClosedWithReason, RowEffect
    PROVE  ClosedWithReason'
<1> USE OutboxConstants
    DEF TypeOK, RowTypes, LetterTypes, ClosedWithReason, Exhausted
<1>1. ASSUME NEW e \in Event, Append(e) PROVE ClosedWithReason'
  BY <1>1 DEF Append, letterVars
<1>2. ASSUME NEW e \in Event, Withdraw(e) PROVE ClosedWithReason'
  BY <1>2 DEF Withdraw, letterVars
<1>0. ASSUME NEW e \in Event, WorkerLetter(e) PROVE ClosedWithReason'
  <2>1. \A d \in Event : \/ deadLetter'[d] = deadLetter[d]
                         \/ /\ deadLetter[d] = None
                            /\ deadLetter'[d] \in FailureCode \ {QueueUnavailable}
    BY <1>0 DEF WorkerLetter
  <2>2. UNCHANGED <<phase, attemptCount, withdrawn>>
    BY <1>0 DEF WorkerLetter, rowVars
  <2>3. QED
    BY <2>1, <2>2
<1>3. ASSUME NEW e \in Event, NEW f \in Event, Replay(e, f) PROVE ClosedWithReason'
  BY <1>3 DEF Replay, MarkReplayed
<1>4. ASSUME NEW S \in SUBSET Event, ClaimRows(S), UNCHANGED letterVars
      PROVE ClosedWithReason'
  BY <1>4 DEF ClaimRows, Claimable, letterVars
<1>5. ASSUME NEW r \in Relay, Holds(r, current[r]), AckRow(current[r])
      PROVE ClosedWithReason'
  BY <1>5 DEF Holds, AckRow, letterVars
<1>6. ASSUME NEW r \in Relay, Holds(r, current[r]), RetryRow(current[r])
      PROVE ClosedWithReason'
  BY <1>6 DEF Holds, RetryRow, FirstLetter
<1>7. CASE UNCHANGED <<rowCore, letterVars>>
  BY <1>7 DEF rowCore, letterVars
<1>8. QED
  BY <1>0, <1>1, <1>2, <1>3, <1>4, <1>5, <1>6, <1>7 DEF RowEffect

\* A row given back has an attempt left.
LEMMA BudgetStep ==
    ASSUME TypeOK, AbsentIsBlank, FreeRowHasBudget, RowEffect
    PROVE  FreeRowHasBudget'
<1> USE OutboxConstants
    DEF TypeOK, RowTypes, FreeRowHasBudget, Exhausted
<1>1. ASSUME NEW e \in Event, Append(e) PROVE FreeRowHasBudget'
  BY <1>1 DEF Append, AbsentIsBlank
<1>2. ASSUME NEW e \in Event, Withdraw(e) \/ WorkerLetter(e) PROVE FreeRowHasBudget'
  BY <1>2 DEF Withdraw, WorkerLetter, rowVars
<1>3. ASSUME NEW e \in Event, NEW f \in Event, Replay(e, f) PROVE FreeRowHasBudget'
  BY <1>3 DEF Replay, MarkReplayed, AbsentIsBlank
<1>4. ASSUME NEW S \in SUBSET Event, ClaimRows(S) PROVE FreeRowHasBudget'
  BY <1>4 DEF ClaimRows, NewToken
<1>5. ASSUME NEW e, AckRow(e) PROVE FreeRowHasBudget'
  BY <1>5 DEF AckRow, ClearLease
<1>6. ASSUME NEW e, RetryRow(e) PROVE FreeRowHasBudget'
  BY <1>6 DEF RetryRow, ClearLease
<1>7. CASE UNCHANGED rowCore
  BY <1>7 DEF rowCore
<1>8. QED
  BY <1>1, <1>2, <1>3, <1>4, <1>5, <1>6, <1>7 DEF RowEffect

\* A replay takes an unused id for a dead letter that has no replay yet.
LEMMA ReplayStep ==
    ASSUME TypeOK, AbsentIsBlank, ReplayedOnce, RowEffect
    PROVE  ReplayedOnce'
<1> USE DEF TypeOK, LetterTypes, ReplayedOnce
<1>1. ASSUME NEW e \in Event, NEW f \in Event, Replay(e, f) PROVE ReplayedOnce'
  <2>1. replayOf[f] = None
    BY <1>1 DEF Replay, MarkReplayed, AbsentIsBlank
  <2>2. /\ replayed' = replayed \cup {e} /\ e \notin replayed
        /\ replayOf' = [replayOf EXCEPT ![f] = e]
    BY <1>1 DEF Replay, MarkReplayed, Replayable
  <2>3. \A g \in Event : replayOf[g] # e
    BY <2>2
  <2>4. e # None
    BY OutboxConstants
  <2>5. \A d \in Event : d \in replayed' <=> \E g \in Event : replayOf'[g] = d
    <3> SUFFICES ASSUME NEW d \in Event
                 PROVE d \in replayed' <=> \E g \in Event : replayOf'[g] = d
      OBVIOUS
    <3>1. CASE d = e
      BY <2>2, <3>1
    <3>2. CASE d # e
      BY <2>1, <2>2, <3>2, OutboxConstants
    <3>3. QED
      BY <3>1, <3>2
  <2>6. \A g, h \in Event : replayOf'[g] = replayOf'[h] /\ replayOf'[g] # None => g = h
    BY <2>2, <2>3, <2>4
  <2>7. QED
    BY <2>5, <2>6
<1>2. CASE UNCHANGED <<replayed, replayOf>>
  BY <1>2
<1>3. RowEffect => \/ \E e, f \in Event : Replay(e, f)
                   \/ UNCHANGED <<replayed, replayOf>>
  BY DEF RowEffect, Append, Withdraw, WorkerLetter, AckRow, RetryRow, letterVars
<1>4. QED
  BY <1>1, <1>2, <1>3

-----------------------------------------------------------------------------
\* A claim draws tokens above all that exist; nothing else makes new ones.
LEMMA TokensStep ==
    ASSUME TypeOK, TokensFresh, [Next]_outboxVars
    PROVE  TokensFresh'
<1> USE DEF TypeOK, RowTypes, RelayTypes, TokensFresh
<1>1. ASSUME NEW S \in SUBSET Event, ClaimRows(S),
             held' = held \/ \E r \in Relay : held' = [held EXCEPT ![r] =
                [e \in Event |-> IF e \in S THEN attemptCount[e] + 1 ELSE 0]]
      PROVE TokensFresh'
  <2>1. \A e \in Event :
          /\ attemptCount'[e] = IF e \in S THEN attemptCount[e] + 1 ELSE attemptCount[e]
          /\ leaseToken'[e] = IF e \in S THEN attemptCount[e] + 1 ELSE leaseToken[e]
    <3> SUFFICES ASSUME NEW e \in Event
                 PROVE  /\ attemptCount'[e] = IF e \in S THEN attemptCount[e] + 1
                                                         ELSE attemptCount[e]
                        /\ leaseToken'[e] = IF e \in S THEN attemptCount[e] + 1
                                                       ELSE leaseToken[e]
      OBVIOUS
    <3>1. /\ attemptCount' = [d \in Event |-> IF d \in S THEN attemptCount[d] + 1
                                                        ELSE attemptCount[d]]
          /\ leaseToken' = [d \in Event |-> IF d \in S THEN NewToken(d) ELSE leaseToken[d]]
      BY <1>1 DEF ClaimRows
    <3>2. attemptCount'[e] = IF e \in S THEN attemptCount[e] + 1 ELSE attemptCount[e]
      BY ONLY <3>1, e \in Event
    <3>3. leaseToken'[e] = IF e \in S THEN attemptCount[e] + 1 ELSE leaseToken[e]
      BY ONLY <3>1, e \in Event DEF NewToken
    <3>4. QED
      BY <3>2, <3>3
  <2>2. \A e \in Event : leaseToken'[e] <= attemptCount'[e]
    <3> SUFFICES ASSUME NEW e \in Event PROVE leaseToken'[e] <= attemptCount'[e]
      OBVIOUS
    <3>1. attemptCount[e] \in Nat /\ leaseToken[e] \in Nat /\ leaseToken[e] <= attemptCount[e]
      OBVIOUS
    <3>2. QED
      BY ONLY <2>1, <3>1, e \in Event
  <2>3. CASE held' = held
    <3>1. \A r \in Relay, e \in Event : held[r][e] <= attemptCount'[e]
      BY <2>1
    <3>2. QED
      BY <2>2, <2>3, <3>1
  <2>4. ASSUME NEW r \in Relay, held' = [held EXCEPT ![r] =
                  [e \in Event |-> IF e \in S THEN attemptCount[e] + 1 ELSE 0]]
        PROVE TokensFresh'
    <3>1. \A q \in Relay, e \in Event :
            held'[q][e] = IF q # r THEN held[q][e]
                          ELSE IF e \in S THEN attemptCount[e] + 1 ELSE 0
      BY <2>4
    <3>2. \A q \in Relay, e \in Event : held'[q][e] <= attemptCount'[e]
      BY <2>1, <3>1
    <3>3. \A q1, q2 \in Relay, e \in Event :
            held'[q1][e] = held'[q2][e] /\ held'[q1][e] # 0 => q1 = q2
      <4> SUFFICES ASSUME NEW q1 \in Relay, NEW q2 \in Relay, NEW e \in Event,
                          held'[q1][e] = held'[q2][e], held'[q1][e] # 0, q1 # q2
                   PROVE FALSE
        OBVIOUS
      <4>1. held[q1][e] <= attemptCount[e] /\ held[q2][e] <= attemptCount[e]
        OBVIOUS
      <4>2. CASE q1 # r /\ q2 # r
        BY <3>1, <4>2
      <4>3. CASE q1 = r \/ q2 = r
        BY <3>1, <4>1, <4>3
      <4>4. QED
        BY <4>2, <4>3
    <3>4. QED
      BY <2>2, <3>2, <3>3
  <2>5. QED
    BY <1>1, <2>3, <2>4
<1>2. ASSUME \A e \in Event : leaseToken'[e] \in {0, leaseToken[e]},
             \A r \in Relay, e \in Event : held'[r][e] \in {0, held[r][e]},
             UNCHANGED attemptCount
      PROVE TokensFresh'
  <2>1. \A e \in Event : leaseToken'[e] <= attemptCount'[e]
    <3> SUFFICES ASSUME NEW e \in Event PROVE leaseToken'[e] <= attemptCount'[e]
      OBVIOUS
    <3>1. leaseToken'[e] = 0 \/ leaseToken'[e] = leaseToken[e]
      BY <1>2
    <3>2. QED
      BY <1>2, <3>1
  <2>2. \A r \in Relay, e \in Event : held'[r][e] <= attemptCount'[e]
    <3> SUFFICES ASSUME NEW r \in Relay, NEW e \in Event
                 PROVE held'[r][e] <= attemptCount'[e]
      OBVIOUS
    <3>1. held'[r][e] = 0 \/ held'[r][e] = held[r][e]
      BY <1>2
    <3>2. QED
      BY <1>2, <3>1
  <2>3. \A r1, r2 \in Relay, e \in Event :
          held'[r1][e] = held'[r2][e] /\ held'[r1][e] # 0 => r1 = r2
    BY <1>2
  <2>4. QED
    BY <2>1, <2>2, <2>3
<1>3. ASSUME NEW r \in Relay, Abandon(r) \/ NextEvent(r)
      PROVE \A q \in Relay, e \in Event : held'[q][e] \in {0, held[q][e]}
  <2> SUFFICES ASSUME NEW q \in Relay, NEW e \in Event
               PROVE held'[q][e] \in {0, held[q][e]}
    OBVIOUS
  <2>1. CASE Abandon(r)
    BY <2>1 DEF Abandon
  <2>2. CASE NextEvent(r)
    BY <2>2 DEF NextEvent
  <2>3. QED
    BY <1>3, <2>1, <2>2
<1>4. ASSUME NEW e, ClearLease(e)
      PROVE \A f \in Event : leaseToken'[f] \in {0, leaseToken[f]}
  BY <1>4 DEF ClearLease
<1>5. ASSUME NEW r \in Relay, Claim(r) \/ ClaimLost(r) PROVE TokensFresh'
  BY <1>1, <1>5 DEF Claim, ClaimLost, NewToken, relayVars
<1>6. ASSUME NEW r \in Relay,
             \/ StartPublish(r) \/ EndBatch(r) \/ PublishOk(r)
             \/ PublishError(r) \/ PublishTimedOut(r) \/ Crash(r)
      PROVE TokensFresh'
  BY <1>2, <1>3, <1>6
  DEF StartPublish, EndBatch, PublishOk, PublishError, PublishTimedOut, Crash,
      Goto, rowVars
<1>7. ASSUME NEW r \in Relay, Ack(r) \/ AckFails(r) \/ Retry(r) \/ RetryFails(r)
      PROVE TokensFresh'
  <2>1. \A q \in Relay, e \in Event : held'[q][e] \in {0, held[q][e]}
    BY <1>3, <1>7 DEF Ack, AckFails, Retry, RetryFails, Goto
  <2>2. /\ \A f \in Event : leaseToken'[f] \in {0, leaseToken[f]}
        /\ UNCHANGED attemptCount
    BY <1>4, <1>7 DEF Ack, AckFails, Retry, RetryFails, AckRow, RetryRow, rowVars
  <2>3. QED
    BY <1>2, <2>1, <2>2
<1>8. CASE \/ \E e \in Event : Append(e) \/ Withdraw(e) \/ WorkerLetter(e)
           \/ \E e, f \in Event : Replay(e, f)
           \/ \E r \in Relay, e \in Event : Land(r, e)
           \/ Tick
           \/ UNCHANGED outboxVars
  BY <1>2, <1>8
  DEF Append, Withdraw, WorkerLetter, Replay, MarkReplayed, Land, Tick, outboxVars, rowVars, relayVars
<1>9. QED
  BY NextCases, <1>5, <1>6, <1>7, <1>8

-----------------------------------------------------------------------------
\* A relay that goes on to acknowledge has seen its own add answered, and the
\* queue never loses a job.
LEMMA AddsStep ==
    ASSUME TypeOK, AddsTracked, [Next]_outboxVars
    PROVE  AddsTracked'
<1> USE DEF TypeOK, RelayTypes, AddsTracked
<1>1. ASSUME NEW r \in Relay, StartPublish(r) PROVE AddsTracked'
  <2>1. PICK e \in Event : /\ current' = [current EXCEPT ![r] = e]
                           /\ outstanding' = [outstanding EXCEPT ![r] = @ \cup {e}]
    BY <1>1 DEF StartPublish, Batch
  <2>2. pc' = [pc EXCEPT ![r] = "publishing"] /\ queue' = queue
    BY <1>1 DEF StartPublish
  <2>3. QED
    BY <2>1, <2>2
<1>2. ASSUME NEW r \in Relay, Claim(r) \/ EndBatch(r) \/ Crash(r) PROVE AddsTracked'
  <2>1. /\ pc' = [pc EXCEPT ![r] = IF Claim(r) THEN "batch" ELSE "idle"]
        /\ queue' = queue
        /\ \A q \in Relay \ {r} : current'[q] = current[q] /\ outstanding'[q] = outstanding[q]
    BY <1>2 DEF Claim, EndBatch, Crash, Abandon
  <2>2. QED
    BY <2>1
<1>3. ASSUME NEW r \in Relay, PublishOk(r) PROVE AddsTracked'
  BY <1>3 DEF PublishOk, Answered, Goto
<1>4. ASSUME NEW r \in Relay, PublishError(r) \/ PublishTimedOut(r) PROVE AddsTracked'
  <2>1. /\ pc' = [pc EXCEPT ![r] = "retrying"] /\ queue' = queue /\ current' = current
        /\ \A q \in Relay \ {r} : outstanding'[q] = outstanding[q]
    BY <1>4 DEF PublishError, PublishTimedOut, Goto
  <2>2. QED
    BY <2>1
<1>5. ASSUME NEW r \in Relay, Ack(r) \/ AckFails(r) \/ Retry(r) \/ RetryFails(r)
      PROVE AddsTracked'
  <2>1. /\ queue' = queue /\ outstanding' = outstanding
        /\ pc'[r] \in {"batch", "idle", "retrying"}
        /\ \A q \in Relay \ {r} : pc'[q] = pc[q] /\ current'[q] = current[q]
    BY <1>5 DEF Ack, AckFails, Retry, RetryFails, Goto, Abandon, NextEvent
  <2>2. QED
    BY <2>1
<1>6. ASSUME NEW r \in Relay, NEW e \in Event, Land(r, e) PROVE AddsTracked'
  BY <1>6 DEF Land, relayVars
<1>7. CASE Tick
  BY <1>7 DEF Tick
<1>8. ASSUME UNCHANGED <<relayVars, queue, outstanding>> PROVE AddsTracked'
  BY <1>8 DEF relayVars
<1>9. ASSUME NEW r \in Relay, ClaimLost(r) PROVE AddsTracked'
  BY <1>8, <1>9 DEF ClaimLost
<1>10. CASE \/ \E e \in Event : Append(e) \/ Withdraw(e) \/ WorkerLetter(e)
            \/ \E e, f \in Event : Replay(e, f)
            \/ UNCHANGED outboxVars
  BY <1>8, <1>10 DEF Append, Withdraw, WorkerLetter, Replay, MarkReplayed, outboxVars
<1>11. QED
  BY NextCases, <1>1, <1>2, <1>3, <1>4, <1>5, <1>6, <1>7, <1>9, <1>10

LEMMA QueueGrows == ASSUME [Next]_outboxVars PROVE queue \subseteq queue'
<1>1. ASSUME NEW r \in Relay,
             \/ Claim(r) \/ ClaimLost(r) \/ StartPublish(r) \/ EndBatch(r)
             \/ PublishOk(r) \/ PublishError(r) \/ PublishTimedOut(r)
             \/ Ack(r) \/ AckFails(r) \/ Retry(r) \/ RetryFails(r) \/ Crash(r)
      PROVE queue' = queue
  BY <1>1 DEF Claim, ClaimLost, StartPublish, EndBatch, PublishOk, PublishError,
              PublishTimedOut, Ack, AckFails, Retry, RetryFails, Crash
<1>2. CASE \/ \E e \in Event : Append(e) \/ Withdraw(e) \/ WorkerLetter(e)
           \/ \E e, f \in Event : Replay(e, f)
           \/ \E r \in Relay, e \in Event : Land(r, e)
           \/ Tick
           \/ UNCHANGED outboxVars
  BY <1>2 DEF Append, Withdraw, WorkerLetter, Replay, MarkReplayed, Land, Tick, outboxVars
<1>3. QED
  BY NextCases, <1>1, <1>2

\* A row is marked published only by an acknowledgement.
LEMMA PublishedStep ==
    ASSUME TypeOK, AddsTracked, PublishedIsQueued, [Next]_outboxVars
    PROVE  PublishedIsQueued'
<1> USE DEF TypeOK, RowTypes
<1>1. \A e \in Event : phase'[e] = "published" =>
          phase[e] = "published" \/ e \in queue
  <2> SUFFICES ASSUME NEW e \in Event, phase'[e] = "published", phase[e] # "published"
               PROVE e \in queue
    OBVIOUS
  <2>1. ASSUME NEW f \in Event, Append(f) \/ Withdraw(f) \/ WorkerLetter(f) PROVE FALSE
    BY <2>1 DEF Append, Withdraw, WorkerLetter, rowVars
  <2>2. ASSUME NEW f \in Event, NEW g \in Event, Replay(f, g) PROVE FALSE
    BY <2>2 DEF Replay, MarkReplayed
  <2>3. ASSUME NEW S \in SUBSET Event, ClaimRows(S) PROVE FALSE
    BY <2>3 DEF ClaimRows
  <2>4. ASSUME NEW r \in Relay, AckRow(current[r]), pc[r] = "acking" PROVE e \in queue
    BY <2>4 DEF AckRow, AddsTracked
  <2>5. ASSUME NEW r \in Relay, RetryRow(current[r]) PROVE FALSE
    BY <2>5 DEF RetryRow
  <2>6. CASE UNCHANGED rowCore
    BY <2>6 DEF rowCore
  <2>7. QED
    BY RowEffects, <2>1, <2>2, <2>3, <2>4, <2>5, <2>6 DEF RowEffect
<1>2. QED
  BY <1>1, QueueGrows DEF PublishedIsQueued

\* The invariant of the outbox holds in every reachable state.
THEOREM OutboxCorrect == Spec => []OutboxInv
<1>1. Init => OutboxInv
  BY OutboxConstants
  DEF Init, OutboxInv, TokensFresh, AddsTracked, AbsentIsBlank, PublishedIsQueued,
      ClosedWithReason, FreeRowHasBudget, ReplayedOnce, Exhausted
<1>2. TypeOK /\ OutboxInv /\ [Next]_outboxVars => OutboxInv'
  BY RowEffects, TokensStep, AddsStep, AbsentStep, PublishedStep, ClosedStep,
     BudgetStep, ReplayStep
  DEF OutboxInv
<1>3. QED
  BY <1>1, <1>2, TypeCorrect, PTL DEF Spec

\* A row marked published has its job in the queue.
THEOREM PublishedRowsAreQueued == Spec => []PublishedIsQueued
<1>1. OutboxInv => PublishedIsQueued
  BY DEF OutboxInv
<1>2. QED
  BY <1>1, OutboxCorrect, PTL

\* A row is closed unpublished only when withdrawn or out of attempts, and in
\* the latter case it has a dead letter; no other row has one.
THEOREM ClosedRowsHaveAReason == Spec => []ClosedWithReason
<1>1. OutboxInv => ClosedWithReason
  BY DEF OutboxInv
<1>2. QED
  BY <1>1, OutboxCorrect, PTL

\* A row nobody holds has an attempt left.
THEOREM FreeRowsHaveBudget == Spec => []FreeRowHasBudget
<1>1. OutboxInv => FreeRowHasBudget
  BY DEF OutboxInv
<1>2. QED
  BY <1>1, OutboxCorrect, PTL

\* A dead letter is replayed at most once.
THEOREM LettersReplayedOnce == Spec => []ReplayedOnce
<1>1. OutboxInv => ReplayedOnce
  BY DEF OutboxInv
<1>2. QED
  BY <1>1, OutboxCorrect, PTL

\* Two relays never both pass the token test on one row.
THEOREM HoldersAreAlone == Spec => []SingleHolder
<1>1. OutboxInv => SingleHolder
  <2> SUFFICES ASSUME TokensFresh, NEW r1 \in Relay, NEW r2 \in Relay, NEW e \in Event,
                      Holds(r1, e), Holds(r2, e)
               PROVE r1 = r2
    BY DEF OutboxInv, SingleHolder
  <2>1. held[r1][e] = held[r2][e] /\ held[r1][e] # 0
    BY DEF Holds
  <2>2. QED
    BY <2>1 DEF TokensFresh
<1>2. QED
  BY <1>1, OutboxCorrect, PTL

\* An open row is closed by the relay that holds it or by a withdrawal.
THEOREM HoldersSettle == Spec => OnlyHolderSettles
<1>1. TypeOK /\ ClosedWithReason /\ [Next]_outboxVars =>
        [\A e \in Event : phase[e] = "pending" /\ phase'[e] # "pending" =>
          \/ \E r \in Relay : current[r] = e /\ held[r][e] = leaseToken[e]
          \/ e \in withdrawn' \ withdrawn]_outboxVars
  <2> SUFFICES ASSUME TypeOK, ClosedWithReason, [Next]_outboxVars, NEW e \in Event,
                      phase[e] = "pending", phase'[e] # "pending"
               PROVE \/ \E r \in Relay : current[r] = e /\ held[r][e] = leaseToken[e]
                     \/ e \in withdrawn' \ withdrawn
    OBVIOUS
  <2> USE DEF TypeOK, RowTypes
  <2>1. ASSUME NEW f \in Event, Append(f) \/ WorkerLetter(f) PROVE FALSE
    BY <2>1 DEF Append, WorkerLetter, rowVars
  <2>2. ASSUME NEW f \in Event, Withdraw(f) PROVE e \in withdrawn' \ withdrawn
    BY <2>2 DEF Withdraw, ClosedWithReason
  <2>3. ASSUME NEW f \in Event, NEW g \in Event, Replay(f, g) PROVE FALSE
    BY <2>3 DEF Replay
  <2>4. ASSUME NEW S \in SUBSET Event, ClaimRows(S) PROVE FALSE
    BY <2>4 DEF ClaimRows
  <2>5. ASSUME NEW f, AckRow(f) \/ RetryRow(f) PROVE f = e
    BY <2>5 DEF AckRow, RetryRow
  <2>6. CASE UNCHANGED rowCore
    BY <2>6 DEF rowCore
  <2>7. QED
    BY RowEffects, <2>1, <2>2, <2>3, <2>4, <2>5, <2>6 DEF RowEffect, Holds
<1>2. QED
  BY <1>1, TypeCorrect, ClosedRowsHaveAReason, PTL DEF Spec, OnlyHolderSettles

\* A settled row keeps its verdict and is never claimed again.
THEOREM SettledRowsStay == Spec => SettledForGood
<1>1. TypeOK /\ [Next]_outboxVars =>
        [\A e \in Event : Settled(e) =>
          phase'[e] = phase[e] /\ attemptCount'[e] = attemptCount[e]]_outboxVars
  <2> SUFFICES ASSUME TypeOK, [Next]_outboxVars, NEW e \in Event, Settled(e)
               PROVE phase'[e] = phase[e] /\ attemptCount'[e] = attemptCount[e]
    OBVIOUS
  <2> USE DEF TypeOK, RowTypes, Settled
  <2>1. ASSUME NEW f \in Event, Append(f) \/ Withdraw(f) \/ WorkerLetter(f)
        PROVE phase'[e] = phase[e] /\ attemptCount' = attemptCount
    BY <2>1 DEF Append, Withdraw, WorkerLetter, rowVars
  <2>2. ASSUME NEW f \in Event, NEW g \in Event, Replay(f, g)
        PROVE phase'[e] = phase[e] /\ attemptCount' = attemptCount
    BY <2>2 DEF Replay
  <2>3. ASSUME NEW S \in SUBSET Event, ClaimRows(S)
        PROVE phase' = phase /\ attemptCount'[e] = attemptCount[e]
    BY <2>3 DEF ClaimRows, Claimable
  <2>4. ASSUME NEW r \in Relay, Holds(r, current[r]),
               AckRow(current[r]) \/ RetryRow(current[r])
        PROVE phase'[e] = phase[e] /\ attemptCount' = attemptCount
    BY <2>4 DEF AckRow, RetryRow, Holds
  <2>5. CASE UNCHANGED rowCore
    BY <2>5 DEF rowCore
  <2>6. QED
    BY RowEffects, <2>1, <2>2, <2>3, <2>4, <2>5 DEF RowEffect
<1>2. QED
  BY <1>1, TypeCorrect, PTL DEF Spec, SettledForGood

-----------------------------------------------------------------------------
(***************************************************************************)
(* The refinement: the rows are leased work.  What the abstract variables  *)
(* are in terms of the rows gets names of its own.                         *)
(***************************************************************************)
absHolder == [e \in Event |-> IF phase[e] = "pending" THEN leaseToken[e] ELSE 0]
absLive == [e \in Event |-> phase[e] = "pending" /\ leaseLeft[e] > 0]
absVerdict == [e \in Event |-> RowVerdict(e)]

LEMMA LeasedInit == Init => Leased!Init
BY DEF Init, Leased!Init, RowVerdict

\* Steps that change no phase, token or lease stutter.
LEMMA LeasedStutter ==
    ASSUME UNCHANGED <<phase, attemptCount, leaseToken, leaseLeft>>
    PROVE  UNCHANGED Leased!lwVars
BY DEF Leased!lwVars, RowVerdict

\* So does appending a row, by its requester or by a replay.
LEMMA LeasedOpen ==
    ASSUME TypeOK, AbsentIsBlank, TokensFresh, NEW e \in Event,
           phase[e] = "absent", phase' = [phase EXCEPT ![e] = "pending"],
           UNCHANGED <<attemptCount, leaseToken, leaseLeft>>
    PROVE  UNCHANGED Leased!lwVars
<1> USE DEF TypeOK, RowTypes
<1>1. leaseToken[e] = 0 /\ leaseLeft[e] = 0
  BY DEF AbsentIsBlank, TokensFresh
<1>2. absHolder' = absHolder
  BY <1>1 DEF absHolder
<1>3. absLive' = absLive
  BY <1>1 DEF absLive
<1>4. absVerdict' = absVerdict
  BY DEF absVerdict, RowVerdict
<1>5. QED
  BY <1>2, <1>3, <1>4 DEF Leased!lwVars, absHolder, absLive, absVerdict

\* A claim takes the rows.
LEMMA LeasedTake ==
    ASSUME TypeOK, NEW S \in SUBSET Event, ClaimRows(S)
    PROVE  Leased!Take(S)
<1> USE DEF TypeOK, RowTypes
<1>1. /\ \A e \in S : phase[e] = "pending" /\ (leaseToken[e] = 0 \/ leaseLeft[e] = 0)
      /\ UNCHANGED phase
      /\ \A e \in Event : /\ leaseToken'[e] = IF e \in S THEN attemptCount[e] + 1
                                                       ELSE leaseToken[e]
                          /\ leaseLeft'[e] = IF e \in S THEN Lease ELSE leaseLeft[e]
      /\ attemptCount' = [e \in Event |-> IF e \in S THEN attemptCount[e] + 1
                                                     ELSE attemptCount[e]]
  BY DEF ClaimRows, Claimable, NewToken
<1>2. \A e \in S : absVerdict[e] = None /\ (absHolder[e] = 0 \/ ~absLive[e])
  <2> SUFFICES ASSUME NEW e \in S
               PROVE absVerdict[e] = None /\ (absHolder[e] = 0 \/ ~absLive[e])
    OBVIOUS
  <2>1. absVerdict[e] = None
    BY <1>1 DEF absVerdict, RowVerdict
  <2>2. CASE leaseToken[e] = 0
    BY <2>1, <2>2 DEF absHolder
  <2>3. CASE leaseLeft[e] = 0
    <3>1. ~(leaseLeft[e] > 0)
      BY <2>3
    <3>2. QED
      BY <2>1, <3>1 DEF absLive
  <2>4. QED
    BY <1>1, <2>2, <2>3
<1>3. absHolder' = [e \in Event |-> IF e \in S THEN attemptCount[e] + 1 ELSE absHolder[e]]
  BY <1>1 DEF absHolder
<1>4. absLive' = [e \in Event |-> e \in S \/ absLive[e]]
  <2>1. Lease > 0
    BY OutboxConstants
  <2>2. ASSUME NEW e \in Event PROVE absLive'[e] = (e \in S \/ absLive[e])
    BY <1>1, <2>1 DEF absLive
  <2>3. QED
    BY <2>2 DEF absLive
<1>5. absVerdict' = absVerdict
  BY <1>1 DEF absVerdict, RowVerdict
<1>6. QED
  BY <1>1, <1>2, <1>3, <1>4, <1>5
  DEF Leased!Take, absHolder, absLive, absVerdict

\* A tick lets the leases lapse that have no time left.
LEMMA LeasedLapse ==
    ASSUME TypeOK, Tick
    PROVE  \E S \in SUBSET Event : Leased!Lapse(S)
<1> USE DEF TypeOK, RowTypes
<1>0. PICK S \in SUBSET Event : S = {e \in Event : leaseLeft'[e] = 0}
  OBVIOUS
<1>1. /\ UNCHANGED <<phase, attemptCount, leaseToken>>
      /\ \A e \in Event : leaseLeft'[e] = IF leaseLeft[e] = 0 THEN 0 ELSE leaseLeft[e] - 1
  BY DEF Tick, letterVars
<1>2. absHolder' = absHolder /\ absVerdict' = absVerdict
  BY <1>1 DEF absHolder, absVerdict, RowVerdict
<1>3. absLive' = [e \in Event |-> absLive[e] /\ e \notin S]
  <2>1. ASSUME NEW e \in Event PROVE absLive'[e] = (absLive[e] /\ e \notin S)
    <3>1. leaseLeft[e] \in Nat /\ leaseLeft'[e] \in Nat
      BY <1>1, OutboxConstants
    <3>2. leaseLeft'[e] > 0 <=> leaseLeft[e] > 0 /\ e \notin S
      BY <1>0, <1>1, <3>1
    <3>3. QED
      BY <1>1, <3>2 DEF absLive
  <2>2. QED
    BY <2>1 DEF absLive
<1>4. Leased!Lapse(S)
  BY <1>1, <1>2, <1>3 DEF Leased!Lapse, absHolder, absLive, absVerdict
<1>5. QED
  BY <1>4

\* What gives a row up frees it in the abstraction.
LEMMA LeasedFree ==
    ASSUME TypeOK, NEW e \in Event, UNCHANGED attemptCount,
           \A f \in Event \ {e} : /\ phase'[f] = phase[f]
                                  /\ leaseToken'[f] = leaseToken[f]
                                  /\ leaseLeft'[f] = leaseLeft[f],
           phase'[e] # "pending" \/ (leaseToken'[e] = 0 /\ leaseLeft'[e] = 0)
    PROVE  Leased!Free(e)
<1> USE DEF TypeOK, RowTypes
<1>1. absHolder' = [absHolder EXCEPT ![e] = 0]
  BY DEF absHolder
<1>2. absLive' = [absLive EXCEPT ![e] = FALSE]
  <2>1. ASSUME NEW f \in Event
        PROVE absLive'[f] = IF f = e THEN FALSE ELSE absLive[f]
    <3>1. CASE f = e
      <4>1. ~(phase'[e] = "pending" /\ leaseLeft'[e] > 0)
        OBVIOUS
      <4>2. QED
        BY <3>1, <4>1 DEF absLive
    <3>2. CASE f # e
      BY <3>2 DEF absLive
    <3>3. QED
      BY <3>1, <3>2
  <2>2. QED
    BY <2>1 DEF absLive
<1>3. QED
  BY <1>1, <1>2 DEF Leased!Free, absHolder, absLive

\* An acknowledgement settles the row as published.
LEMMA LeasedAck ==
    ASSUME TypeOK, NEW r \in Relay, NEW e \in Event, Holds(r, e), AckRow(e)
    PROVE  Leased!Settle(e, "published")
<1> USE DEF TypeOK, RowTypes
<1>1. /\ phase' = [phase EXCEPT ![e] = "published"]
      /\ leaseToken' = [leaseToken EXCEPT ![e] = 0]
      /\ leaseLeft' = [leaseLeft EXCEPT ![e] = 0]
      /\ UNCHANGED attemptCount
  BY DEF AckRow, ClearLease
<1>2. Leased!Free(e)
  BY <1>1, LeasedFree
<1>3. absVerdict[e] = None /\ absHolder[e] # 0
  BY DEF absVerdict, absHolder, RowVerdict, Holds
<1>4. absVerdict' = [absVerdict EXCEPT ![e] = "published"]
  BY <1>1 DEF absVerdict, RowVerdict
<1>5. QED
  BY <1>2, <1>3, <1>4 DEF Leased!Settle, absHolder, absVerdict

\* A retry settles an exhausted row as closed and drops any other.
LEMMA LeasedRetry ==
    ASSUME TypeOK, NEW r \in Relay, NEW e \in Event, Holds(r, e), RetryRow(e)
    PROVE  Leased!Settle(e, "closed") \/ Leased!Drop(e)
<1> USE DEF TypeOK, RowTypes
<1>1. /\ leaseToken' = [leaseToken EXCEPT ![e] = 0]
      /\ leaseLeft' = [leaseLeft EXCEPT ![e] = 0]
      /\ UNCHANGED attemptCount
  BY DEF RetryRow, ClearLease
<1>2. absVerdict[e] = None /\ absHolder[e] # 0
  BY DEF absVerdict, absHolder, RowVerdict, Holds
<1>3. CASE ~Exhausted(e)
  <2>1. UNCHANGED phase
    BY <1>3 DEF RetryRow
  <2>2. Leased!Free(e)
    BY <1>1, <2>1, LeasedFree
  <2>3. absVerdict' = absVerdict
    BY <2>1 DEF absVerdict, RowVerdict
  <2>4. QED
    BY <1>2, <2>2, <2>3 DEF Leased!Drop, absHolder, absVerdict
<1>4. CASE Exhausted(e)
  <2>1. phase' = [phase EXCEPT ![e] = "terminal"]
    BY <1>4 DEF RetryRow
  <2>2. Leased!Free(e)
    BY <1>1, <2>1, LeasedFree
  <2>3. absVerdict' = [absVerdict EXCEPT ![e] = "closed"]
    BY <2>1 DEF absVerdict, RowVerdict
  <2>4. QED
    BY <1>2, <2>2, <2>3 DEF Leased!Settle, absHolder, absVerdict
<1>5. QED
  BY <1>3, <1>4

\* A withdrawal calls an open row off and leaves any other as it is.
LEMMA LeasedWithdraw ==
    ASSUME TypeOK, NEW e \in Event, Withdraw(e)
    PROVE  Leased!Withdraw(e) \/ UNCHANGED Leased!lwVars
<1> USE DEF TypeOK, RowTypes
<1>1. UNCHANGED <<attemptCount, leaseToken, leaseLeft>>
  BY DEF Withdraw
<1>2. CASE phase[e] = "pending"
  <2>1. phase' = [phase EXCEPT ![e] = "terminal"]
    BY <1>2 DEF Withdraw
  <2>2. Leased!Free(e)
    BY <1>1, <2>1, LeasedFree
  <2>3. absVerdict[e] = None
    BY <1>2 DEF absVerdict, RowVerdict
  <2>4. absVerdict' = [absVerdict EXCEPT ![e] = "closed"]
    BY <2>1 DEF absVerdict, RowVerdict
  <2>5. QED
    BY <2>2, <2>3, <2>4 DEF Leased!Withdraw, absVerdict
<1>3. CASE phase[e] # "pending"
  BY <1>1, <1>3, LeasedStutter DEF Withdraw
<1>4. QED
  BY <1>2, <1>3

\* The outbox implements leased work: a row is taken by one relay at a time
\* under a token nobody has seen before, and is settled at most once, by the
\* holder of the latest token or by a withdrawal.
THEOREM OutboxIsLeasedWork == Spec => ImplementsLeasedWork
<1>1. TypeOK /\ OutboxInv /\ [Next]_outboxVars => [Leased!Next]_(Leased!lwVars)
  <2> SUFFICES ASSUME TypeOK, OutboxInv, [Next]_outboxVars
               PROVE  Leased!Next \/ UNCHANGED Leased!lwVars
    OBVIOUS
  <2> USE DEF Leased!Next
  <2>1. AbsentIsBlank /\ TokensFresh
    BY DEF OutboxInv
  <2>0. ASSUME NEW e \in Event, WorkerLetter(e) PROVE UNCHANGED Leased!lwVars
    BY <2>0, LeasedStutter DEF WorkerLetter, rowVars
  <2>2. ASSUME NEW e \in Event, Append(e) PROVE UNCHANGED Leased!lwVars
    BY <2>1, <2>2, LeasedOpen DEF Append
  <2>3. ASSUME NEW e \in Event, NEW f \in Event, Replay(e, f)
        PROVE UNCHANGED Leased!lwVars
    BY <2>1, <2>3, LeasedOpen DEF Replay
  <2>4. ASSUME NEW e \in Event, Withdraw(e)
        PROVE Leased!Next \/ UNCHANGED Leased!lwVars
    BY <2>4, LeasedWithdraw
  <2>5. ASSUME NEW S \in SUBSET Event, ClaimRows(S), UNCHANGED letterVars
        PROVE Leased!Next
    <3>1. Leased!Take(S)
      BY <2>5, LeasedTake
    <3>2. QED
      BY <3>1
  <2>6. ASSUME NEW r \in Relay, NEW e \in Event, Holds(r, e), AckRow(e) \/ RetryRow(e)
        PROVE Leased!Next
    <3>1. CASE AckRow(e)
      <4>1. Leased!Settle(e, "published")
        BY <2>6, <3>1, LeasedAck
      <4>2. QED
        BY <4>1
    <3>2. CASE RetryRow(e)
      <4>1. Leased!Settle(e, "closed") \/ Leased!Drop(e)
        BY <2>6, <3>2, LeasedRetry
      <4>2. QED
        BY <4>1
    <3>3. QED
      BY <2>6, <3>1, <3>2
  <2>7. CASE Tick
    BY <2>7, LeasedLapse
  <2>8. ASSUME NEW r \in Relay, NEW e, e \notin Event, AckRow(e) \/ RetryRow(e)
        PROVE UNCHANGED Leased!lwVars
    <3>1. UNCHANGED <<phase, leaseToken, leaseLeft, attemptCount>>
      BY <2>8 DEF AckRow, RetryRow, ClearLease, TypeOK, RowTypes
    <3>2. QED
      BY <3>1, LeasedStutter
  <2>9. CASE UNCHANGED <<rowCore, letterVars>> /\ UNCHANGED leaseLeft
    BY <2>9, LeasedStutter DEF rowCore
  <2>10. \/ \E e \in Event : Append(e) \/ Withdraw(e) \/ WorkerLetter(e)
         \/ \E e, f \in Event : Replay(e, f)
         \/ \E S \in SUBSET Event : ClaimRows(S) /\ UNCHANGED letterVars
         \/ \E r \in Relay, e \in Event : Holds(r, e) /\ (AckRow(e) \/ RetryRow(e))
         \/ \E r \in Relay : /\ current[r] \notin Event
                             /\ AckRow(current[r]) \/ RetryRow(current[r])
         \/ Tick
         \/ UNCHANGED <<rowCore, letterVars>> /\ UNCHANGED leaseLeft
    BY RowEffects DEF RowEffect
  <2>11. QED
    BY <2>0, <2>2, <2>3, <2>4, <2>5, <2>6, <2>7, <2>8, <2>9, <2>10
<1>2. QED
  BY <1>1, LeasedInit, TypeCorrect, OutboxCorrect, PTL
  DEF Spec, ImplementsLeasedWork, Leased!Spec
=============================================================================
