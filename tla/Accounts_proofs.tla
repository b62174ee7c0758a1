--------------------------- MODULE Accounts_proofs ---------------------------
(***************************************************************************)
(* Proofs about Accounts, for any learners, sessions, verifications,       *)
(* videos, requests and times.                                             *)
(***************************************************************************)
EXTENDS Accounts, TLAPS

(* The actions by what they may change. *)

SignInStep ==
    \/ \E p \in Person, s \in Session : SignIn(p, s) \/ InsertSession(p, s)
    \/ \E s \in Session : Logout(s)
    \/ \E t \in Attempt, s \in Session : StartAccountDeletion(t, s)
    \/ \E t \in Attempt : Consume(t) \/ ExchangeFails(t)
    \/ \E t \in Attempt, p \in Person : MarkReauthenticated(t, p)

LearnerStep ==
    \/ \E p \in Person, claim \in Claims : Begin(p, claim)
    \/ \E p \in Person, v \in Video : CommitItem(p, v) \/ CommitSubscription(p, v)
    \/ \E p \in Person : Rollback(p)
    \/ \E v \in Video : CommitWork(v)
    \/ \E q, p \in Person : TakeQuiz(q, p)

RequestStep ==
    \/ \E r \in Request, s \in Session : Ask(r, s)
    \/ \E r \in Request : Refuse(r) \/ Lock(r) \/ DeleteUser(r) \/ ClearWorks(r) \/ Fault(r)

FinishStep == \E r \in Request : Finish(r)

LEMMA StepsByKind ==
    ASSUME Next PROVE SignInStep \/ LearnerStep \/ RequestStep \/ FinishStep \/ Tick
BY DEF Next, SignInStep, LearnerStep, RequestStep, FinishStep

-----------------------------------------------------------------------------
(* Types. *)

LEMMA InitTyped == Init => TypeOK
BY AccountsConstants DEF Init, TypeOK, Time, SessionRow, AttemptRow, Erasure, NoErasure, Stage, Claims

LEMMA SignInTyped == ASSUME TypeOK, SignInStep PROVE TypeOK'
<1> USE DEF studyVars
<1>1. ASSUME NEW p \in Person, NEW s \in Session, SignIn(p, s) PROVE TypeOK'
  <2>1. PICK ttl \in 1..SessionTtl :
          session' = [session EXCEPT ![s] = [state |-> "live", owner |-> p,
                                             end |-> now + ttl, verified |-> None]]
    BY <1>1 DEF SignIn
  <2>2. [state |-> "live", owner |-> p, end |-> now + ttl, verified |-> None] \in SessionRow
    BY <2>1, AccountsConstants DEF TypeOK, Time, SessionRow
  <2>3. session' \in [Session -> SessionRow]
    BY <2>1, <2>2 DEF TypeOK
  <2>4. account' \subseteq Person
    BY <1>1 DEF SignIn, TypeOK
  <2> QED BY <1>1, <2>3, <2>4 DEF SignIn, TypeOK
<1>8. ASSUME NEW p \in Person, NEW s \in Session, InsertSession(p, s) PROVE TypeOK'
  <2>1. PICK ttl \in 1..SessionTtl, time \in 0..now :
          session' = [session EXCEPT ![s] = [state |-> "live", owner |-> p,
                                             end |-> now + ttl, verified |-> time]]
    BY <1>8 DEF InsertSession
  <2>2. [state |-> "live", owner |-> p, end |-> now + ttl, verified |-> time] \in SessionRow
    <3>1. now \in 0..LastTime
      BY DEF TypeOK, Time
    <3>2. now + ttl \in Nat /\ time \in 0..LastTime
      BY <2>1, <3>1, AccountsConstants
    <3> QED BY <3>2 DEF SessionRow, Time
  <2>3. session' \in [Session -> SessionRow]
    BY <2>1, <2>2 DEF TypeOK
  <2>4. account' \subseteq Person
    BY <1>8 DEF InsertSession, TypeOK
  <2> QED BY <1>8, <2>3, <2>4 DEF InsertSession, TypeOK
<1>2. ASSUME NEW s \in Session, Logout(s) PROVE TypeOK'
  <2>1. [session[s] EXCEPT !.state = "revoked"] \in SessionRow
    BY DEF TypeOK, SessionRow
  <2>2. session' = [session EXCEPT ![s] = [session[s] EXCEPT !.state = "revoked"]]
    BY <1>2 DEF Logout
  <2>3. session' \in [Session -> SessionRow]
    BY <2>1, <2>2 DEF TypeOK
  <2> QED BY <1>2, <2>3 DEF Logout, TypeOK
<1>3. ASSUME NEW t \in Attempt, attempt' \in [Attempt -> AttemptRow],
             UNCHANGED <<now, account, session, studyVars, taken, tx, erasure, faults>>
      PROVE TypeOK'
  BY <1>3 DEF TypeOK
<1>4. ASSUME NEW t \in Attempt, NEW s \in Session, StartAccountDeletion(t, s) PROVE TypeOK'
  <2> DEFINE end == now + AttemptTtl
             row == [attempt[t] EXCEPT !.state = "open", !.session = s, !.end = end]
  <2>0. end \in Nat
    <3>1. now \in Nat
      BY AccountsConstants DEF TypeOK, Time
    <3> QED BY <3>1, AccountsConstants
  <2>1. row \in AttemptRow
    <3>1. attempt[t] \in AttemptRow
      BY DEF TypeOK
    <3> HIDE DEF end
    <3> QED BY <2>0, <3>1 DEF AttemptRow
  <2>2. attempt' = [attempt EXCEPT ![t] = row]
    BY <1>4 DEF StartAccountDeletion
  <2> HIDE DEF row
  <2>3. attempt' \in [Attempt -> AttemptRow]
    BY <2>1, <2>2 DEF TypeOK
  <2> QED BY <1>3, <1>4, <2>3 DEF StartAccountDeletion
<1>5. ASSUME NEW t \in Attempt, Consume(t) PROVE TypeOK'
  <2> DEFINE row == [attempt[t] EXCEPT !.state = "used", !.at = now]
  <2>1. row \in AttemptRow
    <3>1. attempt[t] \in AttemptRow /\ now \in Time
      BY DEF TypeOK
    <3> QED BY <3>1 DEF AttemptRow
  <2>2. attempt' = [attempt EXCEPT ![t] = row]
    BY <1>5 DEF Consume
  <2> HIDE DEF row
  <2>3. attempt' \in [Attempt -> AttemptRow]
    BY <2>1, <2>2 DEF TypeOK
  <2> QED BY <1>3, <1>5, <2>3 DEF Consume
<1>6. ASSUME NEW t \in Attempt, ExchangeFails(t) PROVE TypeOK'
  <2> DEFINE row == [attempt[t] EXCEPT !.state = "closed"]
  <2>1. row \in AttemptRow
    <3>1. attempt[t] \in AttemptRow /\ now \in Time
      BY DEF TypeOK
    <3> QED BY <3>1 DEF AttemptRow
  <2>2. attempt' = [attempt EXCEPT ![t] = row]
    BY <1>6 DEF ExchangeFails
  <2> HIDE DEF row
  <2>3. attempt' \in [Attempt -> AttemptRow]
    BY <2>1, <2>2 DEF TypeOK
  <2> QED BY <1>3, <1>6, <2>3 DEF ExchangeFails
<1>7. ASSUME NEW t \in Attempt, NEW p \in Person, MarkReauthenticated(t, p) PROVE TypeOK'
  <2> DEFINE row == [attempt[t] EXCEPT !.state = "closed", !.subject = p]
  <2>1. row \in AttemptRow
    <3>1. attempt[t] \in AttemptRow /\ now \in Time
      BY DEF TypeOK
    <3> QED BY <3>1 DEF AttemptRow
  <2>2. attempt' = [attempt EXCEPT ![t] = row]
    BY <1>7 DEF MarkReauthenticated
  <2> HIDE DEF row
  <2>3. attempt' \in [Attempt -> AttemptRow]
    BY <2>1, <2>2 DEF TypeOK
  <2> QED BY <1>3, <1>7, <2>3 DEF MarkReauthenticated
<1> QED BY <1>1, <1>2, <1>4, <1>5, <1>6, <1>7, <1>8 DEF SignInStep

LEMMA LearnerTyped == ASSUME TypeOK, LearnerStep PROVE TypeOK'
<1>1. ASSUME NEW p \in Person, NEW claim \in Claims, Begin(p, claim) PROVE TypeOK'
  BY <1>1 DEF Begin, TypeOK, signInVars, studyVars
<1>2. ASSUME NEW p \in Person, NEW v \in Video, CommitItem(p, v) PROVE TypeOK'
  BY <1>2 DEF CommitItem, TypeOK, signInVars
<1>3. ASSUME NEW p \in Person, NEW v \in Video, CommitSubscription(p, v) PROVE TypeOK'
  BY <1>3 DEF CommitSubscription, TypeOK, signInVars
<1>4. ASSUME NEW p \in Person, Rollback(p) PROVE TypeOK'
  BY <1>4 DEF Rollback, TypeOK, signInVars, studyVars
<1>5. ASSUME NEW v \in Video, CommitWork(v) PROVE TypeOK'
  BY <1>5 DEF CommitWork, TypeOK, signInVars
<1>6. ASSUME NEW q \in Person, NEW p \in Person, TakeQuiz(q, p) PROVE TypeOK'
  BY <1>6 DEF TakeQuiz, TypeOK, signInVars, studyVars
<1> QED BY <1>1, <1>2, <1>3, <1>4, <1>5, <1>6 DEF LearnerStep

LEMMA RequestTyped == ASSUME TypeOK, RequestStep PROVE TypeOK'
<1> USE DEF signInVars, studyVars
<1>1. ASSUME NEW r \in Request, NEW row \in Erasure, faults' \in 0..MaxFaults,
             erasure' = [erasure EXCEPT ![r] = row],
             UNCHANGED <<now, account, signInVars, studyVars, taken, tx>>
      PROVE  TypeOK'
  BY <1>1 DEF TypeOK
<1>2. NoErasure \in Erasure
  BY AccountsConstants DEF NoErasure, Erasure, Stage, Time
<1>3. ASSUME NEW r \in Request, RolledBack(r), faults' \in 0..MaxFaults,
             UNCHANGED <<now, account, signInVars, studyVars, taken, tx>>
      PROVE  TypeOK'
  BY <1>1, <1>2, <1>3 DEF RolledBack
<1>4. faults \in 0..MaxFaults /\ (faults < MaxFaults => faults + 1 \in 0..MaxFaults)
  BY AccountsConstants DEF TypeOK
<1>5. ASSUME NEW r \in Request, NEW s \in Session, Ask(r, s) PROVE TypeOK'
  <2> DEFINE row == [NoErasure EXCEPT !.stage = "asked", !.session = s, !.at = now]
  <2>1. row \in Erasure
    BY DEF TypeOK, NoErasure, Erasure, Stage
  <2>2. erasure' = [erasure EXCEPT ![r] = row] /\ faults' = faults
    BY <1>5 DEF Ask
  <2> HIDE DEF row
  <2> QED BY <1>1, <1>4, <1>5, <2>1, <2>2 DEF Ask
<1>6. ASSUME NEW r \in Request, Refuse(r) PROVE TypeOK'
  BY <1>3, <1>4, <1>6 DEF Refuse
<1>7. ASSUME NEW r \in Request, Lock(r) PROVE TypeOK'
  <2> DEFINE row == [erasure[r] EXCEPT !.stage = "locked",
                                       !.videos = {v \in Video : <<Subject(r), v>> \in item}]
  <2>1. row \in Erasure
    BY DEF TypeOK, Erasure, Stage
  <2>2. erasure' = [erasure EXCEPT ![r] = row] /\ faults' = faults
    BY <1>7 DEF Lock, TypeOK
  <2> HIDE DEF row
  <2> QED BY <1>1, <1>4, <1>7, <2>1, <2>2 DEF Lock
<1>8. ASSUME NEW r \in Request, DeleteUser(r) PROVE TypeOK'
  <2> DEFINE row == [erasure[r] EXCEPT !.stage = "deleted",
                       !.works = {v \in Video : work[v] # "none" /\ subscriber[v] \subseteq {Subject(r)}}]
  <2>1. row \in Erasure
    BY DEF TypeOK, Erasure, Stage
  <2>2. faults' = faults /\ (RolledBack(r) \/ erasure' = [erasure EXCEPT ![r] = row])
    BY <1>8 DEF DeleteUser, TypeOK
  <2> HIDE DEF row
  <2> QED BY <1>1, <1>3, <1>4, <1>8, <2>1, <2>2 DEF DeleteUser
<1>9. ASSUME NEW r \in Request, ClearWorks(r) PROVE TypeOK'
  <2> DEFINE row == [erasure[r] EXCEPT !.stage = "cleared",
                       !.orphans = {v \in erasure[r].videos :
                                      \A p \in Person \ {Subject(r)} : <<p, v>> \notin item}]
  <2>1. row \in Erasure
    BY DEF TypeOK, Erasure, Stage
  <2>2. faults' = faults /\ (RolledBack(r) \/ erasure' = [erasure EXCEPT ![r] = row])
    BY <1>9 DEF ClearWorks, TypeOK
  <2> HIDE DEF row
  <2> QED BY <1>1, <1>3, <1>4, <1>9, <2>1, <2>2 DEF ClearWorks
<1>10. ASSUME NEW r \in Request, Fault(r) PROVE TypeOK'
  BY <1>3, <1>4, <1>10 DEF Fault
<1> QED BY <1>5, <1>6, <1>7, <1>8, <1>9, <1>10 DEF RequestStep

LEMMA FinishTyped == ASSUME TypeOK, FinishStep PROVE TypeOK'
<1>1. PICK r \in Request : Finish(r)
  BY DEF FinishStep
<1>2. CASE RolledBack(r) /\ UNCHANGED <<account, signInVars, studyVars, taken>>
  <2>1. NoErasure \in Erasure
    BY AccountsConstants DEF NoErasure, Erasure, Stage, Time
  <2>2. erasure' \in [Request -> Erasure]
    BY <1>2, <2>1 DEF TypeOK, RolledBack
  <2> QED BY <1>1, <1>2, <2>2 DEF Finish, TypeOK, signInVars, studyVars
<1>3. CASE ~Watched(r)
  <2>1. erasure' \in [Request -> Erasure]
    <3> DEFINE rest(x) == IF x = r THEN NoErasure
                          ELSE [erasure[x] EXCEPT !.works = @ \ erasure[r].works]
    <3>1. NoErasure \in Erasure
      BY AccountsConstants DEF NoErasure, Erasure, Stage, Time
    <3>2. ASSUME NEW x \in Request PROVE rest(x) \in Erasure
      <4>1. erasure[x] \in Erasure
        BY DEF TypeOK
      <4>2. [erasure[x] EXCEPT !.works = @ \ erasure[r].works] \in Erasure
        BY <4>1 DEF Erasure
      <4> QED BY <3>1, <4>2
    <3>3. erasure' = [x \in Request |-> rest(x)]
      BY <1>1, <1>3 DEF Finish
    <3> HIDE DEF rest
    <3> QED BY <3>2, <3>3
  <2>2. session' \in [Session -> SessionRow]
    <3>1. ASSUME NEW s \in Session
          PROVE  session[s] \in SessionRow /\ [session[s] EXCEPT !.state = "erased"] \in SessionRow
      BY DEF TypeOK, SessionRow
    <3> QED BY <1>1, <1>3, <3>1 DEF Finish
  <2>3. attempt' \in [Attempt -> AttemptRow]
    <3>1. ASSUME NEW t \in Attempt
          PROVE  attempt[t] \in AttemptRow /\ [attempt[t] EXCEPT !.state = "closed"] \in AttemptRow
      BY DEF TypeOK, AttemptRow
    <3> QED BY <1>1, <1>3, <3>1 DEF Finish
  <2>4. account' \subseteq Person /\ item' \subseteq Person \X Video /\ source' \subseteq Video
        /\ taken' \subseteq Person \X Person
    BY <1>1, <1>3 DEF Finish, TypeOK
  <2>5. work' \in [Video -> {"none", "reserved", "committed"}]
    BY <1>1, <1>3 DEF Finish, TypeOK
  <2>6. subscriber' \in [Video -> SUBSET Person] /\ creator' \in [Video -> Person \cup {None}]
    BY <1>1, <1>3 DEF Finish, TypeOK
  <2> QED BY <1>1, <2>1, <2>2, <2>3, <2>4, <2>5, <2>6 DEF Finish, TypeOK
<1> QED BY <1>1, <1>2, <1>3 DEF Finish

LEMMA TickTyped == ASSUME TypeOK, Tick PROVE TypeOK'
BY AccountsConstants DEF Tick, TypeOK, Time, signInVars, studyVars

LEMMA NextTyped == ASSUME TypeOK, [Next]_vars PROVE TypeOK'
<1>1. CASE UNCHANGED vars
  BY <1>1 DEF vars, signInVars, studyVars, TypeOK
<1> QED BY <1>1, StepsByKind, SignInTyped, LearnerTyped, RequestTyped, FinishTyped, TickTyped

\* Every reachable state is well typed.
THEOREM TypeCorrect == Spec => []TypeOK
<1>1. Init => TypeOK
  BY InitTyped
<1>2. TypeOK /\ [Next]_vars => TypeOK'
  BY NextTyped
<1> QED BY <1>1, <1>2, PTL DEF Spec

-----------------------------------------------------------------------------
(* The inductive invariant.                                                 *)

Known(s) == s \in Session /\ session[s].state # "unused"

\* What refers to a session refers to one that has an owner.
Owned ==
    /\ \A s \in Session : session[s].state # "unused" => session[s].owner \in Person
    /\ \A t \in Attempt : attempt[t].state # "unused" => Known(attempt[t].session)
    /\ \A r \in Request : erasure[r].stage # "idle" => Known(erasure[r].session)

\* An erasure that has locked the user is the only one of that user, and
\* shares the rows with nobody who is about to insert one that refers to it.
Locked ==
    /\ \A r, x \in Request : Erasing(r) /\ Erasing(x) /\ Subject(r) = Subject(x) => r = x
    /\ \A r \in Request : Erasing(r) => tx[Subject(r)] = None
    /\ \A r \in Request, q \in Person : Deleting(r) => <<q, Subject(r)>> \notin taken

\* What an open transaction will refer to exists, and what an erasure has
\* locked to delete is used by its subject only.
Promised ==
    /\ \A p \in Person, v \in Video : tx[p] = <<"watch", v>> => v \in source
    /\ \A p \in Person, v \in Video : tx[p] = <<"join", v>> => work[v] # "none"
    /\ \A r \in Request, v \in Video :
         erasure[r].stage = "cleared" /\ v \in erasure[r].works =>
            /\ subscriber[v] \subseteq {Subject(r)}
            /\ \A p \in Person : tx[p] \notin {<<"join", v>>, <<"create", v>>}

\* What an erasure found of its session is still so.
Granted == \A r \in Request : Erasing(r) => Verified(r)

-----------------------------------------------------------------------------
(* What a step may change of sessions, verifications and requests.         *)

LEMMA SessionsKept ==
    ASSUME TypeOK, [Next]_vars, NEW s \in Session, session[s].state # "unused"
    PROVE  session'[s].state # "unused" /\ session'[s].owner = session[s].owner
<1>0. session \in [Session -> SessionRow] /\ session[s] \in SessionRow
  BY DEF TypeOK
<1>1. CASE SignInStep
  <2> USE DEF studyVars
  <2>1. ASSUME NEW p \in Person, NEW x \in Session, SignIn(p, x) \/ InsertSession(p, x)
        PROVE  session'[s] = session[s]
    BY <1>0, <2>1 DEF SignIn, InsertSession
  <2>2. ASSUME NEW x \in Session, Logout(x)
        PROVE  session'[s].state # "unused" /\ session'[s].owner = session[s].owner
    BY <1>0, <2>2 DEF Logout, SessionRow
  <2>3. ASSUME NEW t \in Attempt,
               \/ Consume(t) \/ ExchangeFails(t)
               \/ \E p \in Person : MarkReauthenticated(t, p)
               \/ \E x \in Session : StartAccountDeletion(t, x)
        PROVE  session'[s] = session[s]
    BY <2>3 DEF StartAccountDeletion, Consume, ExchangeFails, MarkReauthenticated
  <2> QED
    BY <1>1, <2>1, <2>2, <2>3 DEF SignInStep
<1>2. CASE LearnerStep \/ RequestStep \/ Tick \/ UNCHANGED vars
  BY <1>2 DEF LearnerStep, RequestStep, Tick, vars, signInVars, Begin, CommitItem,
       CommitSubscription, Rollback, CommitWork, TakeQuiz, Ask, Refuse, Lock, DeleteUser,
       ClearWorks, Fault
<1>3. CASE FinishStep
  <2>1. PICK r \in Request : Finish(r)
    BY <1>3 DEF FinishStep
  <2>2. CASE UNCHANGED session
    BY <2>2
  <2>3. CASE session' = [x \in Session |-> IF session[x].owner = Subject(r)
                                           THEN [session[x] EXCEPT !.state = "erased"]
                                           ELSE session[x]]
    BY <1>0, <2>3 DEF SessionRow
  <2> QED BY <2>1, <2>2, <2>3 DEF Finish, signInVars
<1> QED BY <1>1, <1>2, <1>3, StepsByKind

\* A verification keeps its session.
LEMMA AttemptsKept ==
    ASSUME TypeOK, [Next]_vars, NEW t \in Attempt, attempt'[t].state # "unused"
    PROVE  \/ attempt[t].state # "unused" /\ attempt'[t].session = attempt[t].session
           \/ Known(attempt'[t].session)
<1>0. attempt \in [Attempt -> AttemptRow] /\ attempt[t] \in AttemptRow
  BY DEF TypeOK
<1>1. CASE SignInStep
  <2>1. ASSUME NEW x \in Attempt, NEW s \in Session, StartAccountDeletion(x, s)
        PROVE  \/ attempt'[t] = attempt[t]
               \/ attempt[t].state = "unused" /\ attempt'[t].state = "open"
                  /\ Known(attempt'[t].session)
    BY <1>0, <2>1 DEF StartAccountDeletion, AttemptRow, LiveAt, Known
  <2>2. ASSUME NEW x \in Attempt, Consume(x)
        PROVE  \/ attempt'[t] = attempt[t]
               \/ attempt[t].state = "open" /\ attempt'[t].session = attempt[t].session
    BY <1>0, <2>2 DEF Consume, AttemptRow
  <2>3. ASSUME NEW x \in Attempt, ExchangeFails(x)
        PROVE  \/ attempt'[t] = attempt[t]
               \/ attempt[t].state = "used" /\ attempt'[t].state = "closed"
                  /\ attempt'[t].session = attempt[t].session
    BY <1>0, <2>3 DEF ExchangeFails, AttemptRow
  <2>4. ASSUME NEW x \in Attempt, NEW p \in Person, MarkReauthenticated(x, p)
        PROVE  \/ attempt'[t] = attempt[t]
               \/ attempt[t].state = "used" /\ attempt'[t].state = "closed"
                  /\ attempt'[t].session = attempt[t].session
    BY <1>0, <2>4 DEF MarkReauthenticated, AttemptRow
  <2>5. CASE attempt' = attempt
    BY <2>5
  <2> QED
    BY <1>1, <2>1, <2>2, <2>3, <2>4, <2>5 DEF SignInStep, SignIn, InsertSession, Logout
<1>2. CASE LearnerStep \/ RequestStep \/ Tick \/ UNCHANGED vars
  BY <1>2 DEF LearnerStep, RequestStep, Tick, vars, signInVars, Begin, CommitItem,
       CommitSubscription, Rollback, CommitWork, TakeQuiz, Ask, Refuse, Lock, DeleteUser,
       ClearWorks, Fault
<1>3. CASE FinishStep
  <2>1. PICK r \in Request : Finish(r)
    BY <1>3 DEF FinishStep
  <2>2. \/ attempt'[t] = attempt[t]
        \/ attempt[t].state = "open" /\ attempt'[t] = [attempt[t] EXCEPT !.state = "closed"]
    BY <2>1 DEF Finish, signInVars
  <2> QED BY <1>0, <2>2 DEF AttemptRow
<1> QED BY <1>1, <1>2, <1>3, StepsByKind

\* How far a request gets in one step, and under which conditions.
LEMMA RequestsKept ==
    ASSUME TypeOK, [Next]_vars, NEW r \in Request, erasure'[r].stage # "idle"
    PROVE  \/ erasure[r].stage = "idle" /\ erasure'[r].stage = "asked"
              /\ Known(erasure'[r].session)
           \/ /\ erasure[r].stage # "idle"
              /\ erasure'[r].session = erasure[r].session
              /\ erasure'[r].at = erasure[r].at
              /\ \/ erasure'[r].stage = erasure[r].stage
                    /\ erasure'[r].works \subseteq erasure[r].works
                 \/ Lock(r) /\ erasure'[r].stage = "locked"
                 \/ DeleteUser(r) /\ erasure'[r].stage = "deleted"
                    /\ \A q \in Person : <<q, Subject(r)>> \notin taken
                 \/ ClearWorks(r) /\ erasure'[r].stage = "cleared" /\ ~Joined(r)
                    /\ erasure'[r].works = erasure[r].works
<1> DEFINE Goal ==
           \/ erasure[r].stage = "idle" /\ erasure'[r].stage = "asked"
              /\ Known(erasure'[r].session)
           \/ /\ erasure[r].stage # "idle"
              /\ erasure'[r].session = erasure[r].session
              /\ erasure'[r].at = erasure[r].at
              /\ \/ erasure'[r].stage = erasure[r].stage
                    /\ erasure'[r].works \subseteq erasure[r].works
                 \/ Lock(r) /\ erasure'[r].stage = "locked"
                 \/ DeleteUser(r) /\ erasure'[r].stage = "deleted"
                    /\ \A q \in Person : <<q, Subject(r)>> \notin taken
                 \/ ClearWorks(r) /\ erasure'[r].stage = "cleared" /\ ~Joined(r)
                    /\ erasure'[r].works = erasure[r].works
<1>0. erasure \in [Request -> Erasure] /\ erasure[r] \in Erasure
  BY DEF TypeOK
<1>1. ASSUME erasure'[r] = erasure[r] PROVE Goal
  BY <1>1
<1>2. CASE SignInStep \/ LearnerStep \/ Tick \/ UNCHANGED vars
  <2>1. erasure' = erasure
    BY <1>2 DEF SignInStep, LearnerStep, Tick, vars, SignIn, InsertSession, Logout,
         StartAccountDeletion, Consume, ExchangeFails, MarkReauthenticated, Begin, CommitItem,
         CommitSubscription,
         Rollback, CommitWork, TakeQuiz
  <2> QED BY <1>1, <2>1
<1>3. ASSUME NEW x \in Request, x # r, NEW row, erasure' = [erasure EXCEPT ![x] = row]
      PROVE  Goal
  BY <1>0, <1>1, <1>3
<1>4. NoErasure.stage = "idle"
  BY DEF NoErasure
<1>5. ASSUME NEW x \in Request, RolledBack(x) PROVE Goal
  <2>1. x # r
    BY <1>0, <1>4, <1>5 DEF RolledBack
  <2> QED BY <1>3, <1>5, <2>1 DEF RolledBack
<1>6. CASE RequestStep
  <2>1. ASSUME NEW x \in Request, NEW s \in Session, Ask(x, s) PROVE Goal
    <3> DEFINE row == [NoErasure EXCEPT !.stage = "asked", !.session = s, !.at = now]
    <3>1. row.stage = "asked" /\ row.session = s
      BY DEF NoErasure
    <3>2. erasure' = [erasure EXCEPT ![x] = row] /\ Known(s) /\ erasure[x].stage = "idle"
      BY <2>1 DEF Ask, LiveAt, Known
    <3> HIDE DEF row
    <3>3. CASE x # r
      BY <1>3, <3>2, <3>3
    <3>4. CASE x = r
      <4>1. erasure'[r] = row
        BY <1>0, <3>2, <3>4
      <4> QED BY <3>1, <3>2, <3>4, <4>1
    <3> QED BY <3>3, <3>4
  <2>2. ASSUME NEW x \in Request, Refuse(x) \/ Fault(x) PROVE Goal
    BY <1>5, <2>2 DEF Refuse, Fault
  <2>3. ASSUME NEW x \in Request, Lock(x) PROVE Goal
    <3> DEFINE row == [erasure[x] EXCEPT !.stage = "locked",
                                         !.videos = {v \in Video : <<Subject(x), v>> \in item}]
    <3>1. erasure' = [erasure EXCEPT ![x] = row] /\ erasure[x].stage = "asked"
      BY <2>3, <1>0 DEF Lock
    <3>2. CASE x # r
      <4> HIDE DEF row
      <4> QED BY <1>3, <3>1, <3>2
    <3>3. CASE x = r
      <4>1. row.stage = "locked" /\ row.session = erasure[r].session /\ row.at = erasure[r].at
        BY <1>0, <3>3 DEF Erasure
      <4> HIDE DEF row
      <4>2. erasure'[r] = row
        BY <1>0, <3>1, <3>3
      <4> QED BY <2>3, <3>1, <3>3, <4>1, <4>2
    <3> QED BY <3>2, <3>3
  <2>4. ASSUME NEW x \in Request, DeleteUser(x), ~RolledBack(x) PROVE Goal
    <3> DEFINE row == [erasure[x] EXCEPT !.stage = "deleted",
                         !.works = {v \in Video : work[v] # "none" /\ subscriber[v] \subseteq {Subject(x)}}]
    <3>1. erasure' = [erasure EXCEPT ![x] = row] /\ erasure[x].stage = "locked"
          /\ \A q \in Person : <<q, Subject(x)>> \notin taken
      BY <2>4, <1>0 DEF DeleteUser
    <3>2. CASE x # r
      <4> HIDE DEF row
      <4> QED BY <1>3, <3>1, <3>2
    <3>3. CASE x = r
      <4>1. row.stage = "deleted" /\ row.session = erasure[r].session /\ row.at = erasure[r].at
        BY <1>0, <3>3 DEF Erasure
      <4> HIDE DEF row
      <4>2. erasure'[r] = row
        BY <1>0, <3>1, <3>3
      <4> QED BY <2>4, <3>1, <3>3, <4>1, <4>2
    <3> QED BY <3>2, <3>3
  <2>5. ASSUME NEW x \in Request, ClearWorks(x), ~RolledBack(x) PROVE Goal
    <3> DEFINE row == [erasure[x] EXCEPT !.stage = "cleared",
                         !.orphans = {v \in erasure[x].videos :
                                        \A p \in Person \ {Subject(x)} : <<p, v>> \notin item}]
    <3>1. erasure' = [erasure EXCEPT ![x] = row] /\ erasure[x].stage = "deleted" /\ ~Joined(x)
      BY <2>5, <1>0 DEF ClearWorks
    <3>2. CASE x # r
      <4> HIDE DEF row
      <4> QED BY <1>3, <3>1, <3>2
    <3>3. CASE x = r
      <4>1. row.stage = "cleared" /\ row.session = erasure[r].session /\ row.at = erasure[r].at
            /\ row.works = erasure[r].works
        BY <1>0, <3>3 DEF Erasure
      <4> HIDE DEF row
      <4>2. erasure'[r] = row
        BY <1>0, <3>1, <3>3
      <4> QED BY <2>5, <3>1, <3>3, <4>1, <4>2
    <3> QED BY <3>2, <3>3
  <2> QED BY <1>5, <1>6, <2>1, <2>2, <2>3, <2>4, <2>5 DEF RequestStep
<1>7. CASE FinishStep
  <2>1. PICK x \in Request : Finish(x)
    BY <1>7 DEF FinishStep
  <2>2. CASE ~RolledBack(x)
    <3>1. erasure'[r] = IF r = x THEN NoErasure
                        ELSE [erasure[r] EXCEPT !.works = @ \ erasure[x].works]
      BY <2>1, <2>2 DEF Finish
    <3>2. erasure'[r] = [erasure[r] EXCEPT !.works = @ \ erasure[x].works]
      BY <1>4, <3>1
    <3> QED BY <1>0, <3>2 DEF Erasure
  <2> QED BY <1>5, <2>1, <2>2
<1> QED BY <1>2, <1>6, <1>7, StepsByKind

LEMMA SubjectKept ==
    ASSUME TypeOK, Owned, [Next]_vars, NEW r \in Request, erasure[r].stage # "idle",
           erasure'[r].stage # "idle"
    PROVE  Subject(r)' = Subject(r)
<1>1. erasure'[r].session = erasure[r].session
  BY RequestsKept
<1>2. Known(erasure[r].session)
  BY DEF Owned
<1> QED BY <1>1, <1>2, SessionsKept DEF Known, Subject

-----------------------------------------------------------------------------
(* The invariant is kept.                                                   *)

LEMMA OwnedKept == ASSUME TypeOK, Owned, [Next]_vars PROVE Owned'
<1>1. ASSUME NEW s \in Session, session'[s].state # "unused" PROVE session'[s].owner \in Person
  <2>1. CASE session[s].state # "unused"
    BY <2>1, SessionsKept DEF Owned
  <2>2. CASE session[s].state = "unused"
    <3>0. session \in [Session -> SessionRow] /\ session[s] \in SessionRow
      BY DEF TypeOK
    <3>1. CASE SignInStep
      <4> USE DEF studyVars
      <4>1. ASSUME NEW p \in Person, NEW x \in Session, SignIn(p, x) \/ InsertSession(p, x)
            PROVE  session'[s] = session[s] \/ session'[s].owner = p
        BY <3>0, <4>1 DEF SignIn, InsertSession
      <4>2. ASSUME NEW x \in Session, Logout(x) PROVE session'[s] = session[s]
        BY <2>2, <3>0, <4>2 DEF Logout, LiveAt
      <4>3. ASSUME NEW t \in Attempt,
                   \/ Consume(t) \/ ExchangeFails(t)
                   \/ \E p \in Person : MarkReauthenticated(t, p)
                   \/ \E x \in Session : StartAccountDeletion(t, x)
            PROVE  session'[s] = session[s]
        BY <4>3 DEF StartAccountDeletion, Consume, ExchangeFails, MarkReauthenticated
      <4> QED BY <1>1, <2>2, <3>1, <4>1, <4>2, <4>3 DEF SignInStep
    <3>2. CASE LearnerStep \/ RequestStep \/ Tick \/ UNCHANGED vars
      <4>1. session' = session
        BY <3>2 DEF LearnerStep, RequestStep, Tick, vars, signInVars, Begin, CommitItem,
             CommitSubscription, Rollback, CommitWork, TakeQuiz, Ask, Refuse, Lock, DeleteUser,
             ClearWorks, Fault
      <4> QED BY <1>1, <2>2, <4>1
    <3>3. CASE FinishStep
      <4>1. PICK r \in Request : Finish(r)
        BY <3>3 DEF FinishStep
      <4>2. \/ session'[s] = session[s]
            \/ session[s].owner = Subject(r) /\ session'[s].owner = session[s].owner
        BY <3>0, <4>1 DEF Finish, signInVars, SessionRow
      <4>3. Known(erasure[r].session)
        BY <4>1 DEF Owned, Finish
      <4>4. Subject(r) \in Person
        BY <4>3 DEF Owned, Known, Subject
      <4> QED BY <1>1, <2>2, <4>2, <4>4
    <3> QED BY <3>1, <3>2, <3>3, StepsByKind
  <2> QED BY <2>1, <2>2
<1>2. ASSUME NEW t \in Attempt, attempt'[t].state # "unused"
      PROVE  attempt'[t].session \in Session /\ session'[attempt'[t].session].state # "unused"
  <2>1. Known(attempt'[t].session)
    BY <1>2, AttemptsKept DEF Owned
  <2> QED BY <2>1, SessionsKept DEF Known
<1>3. ASSUME NEW r \in Request, erasure'[r].stage # "idle"
      PROVE  erasure'[r].session \in Session /\ session'[erasure'[r].session].state # "unused"
  <2>1. Known(erasure'[r].session)
    BY <1>3, RequestsKept DEF Owned
  <2> QED BY <2>1, SessionsKept DEF Known
<1> QED BY <1>1, <1>2, <1>3 DEF Owned, Known

LEMMA SubjectIsPerson ==
    ASSUME Owned, NEW r \in Request, erasure[r].stage # "idle" PROVE Subject(r) \in Person
BY DEF Owned, Known, Subject

\* The first of the stages that lock.
LEMMA LockErases ==
    ASSUME TypeOK, [Next]_vars, NEW r \in Request, Erasing(r)'
    PROVE  Erasing(r) \/ Lock(r)
<1>1. erasure'[r].stage # "idle"
  BY DEF Erasing
<1>2. DeleteUser(r) => Erasing(r)
  BY DEF DeleteUser, Erasing
<1>3. ClearWorks(r) => Erasing(r)
  BY DEF ClearWorks, Erasing
<1> QED BY <1>1, <1>2, <1>3, RequestsKept DEF Erasing

LEMMA ErasingKept ==
    ASSUME TypeOK, [Next]_vars, NEW r \in Request, Erasing(r)'
    PROVE  erasure[r].stage # "idle" /\ (Erasing(r) \/ (tx[Subject(r)] = None /\ UNCHANGED tx))
<1>1. ASSUME Lock(r) PROVE tx[Subject(r)] = None /\ UNCHANGED tx
  BY <1>1 DEF Lock, CanLock
<1>2. erasure[r].stage # "idle"
  BY RequestsKept DEF Erasing
<1> QED BY <1>1, <1>2, LockErases

LEMMA DeletingKept ==
    ASSUME TypeOK, [Next]_vars, NEW r \in Request, Deleting(r)'
    PROVE  \/ Deleting(r)
           \/ (\A q \in Person : <<q, Subject(r)>> \notin taken) /\ UNCHANGED taken
<1>1. erasure'[r].stage # "idle"
  BY DEF Deleting
<1> QED BY <1>1, RequestsKept DEF Deleting, DeleteUser, ClearWorks

LEMMA LockedKept == ASSUME TypeOK, Owned, Locked, [Next]_vars PROVE Locked'
<1>3. ASSUME NEW r \in Request, NEW x \in Request, Erasing(r)', Erasing(x)',
             Subject(r)' = Subject(x)'
      PROVE  r = x
  <2>1. \A y \in {r, x} : erasure[y].stage # "idle" /\ Subject(y)' = Subject(y)
    <3>1. \A y \in {r, x} : erasure'[y].stage # "idle" /\ erasure[y].stage # "idle"
      BY <1>3, ErasingKept DEF Erasing
    <3> QED BY <3>1, SubjectKept
  <2>2. CASE Erasing(r) /\ Erasing(x)
    BY <1>3, <2>1, <2>2 DEF Locked
  <2>3. ASSUME NEW y \in Request, NEW z \in Request, Lock(y), Erasing(z)', y # z,
               Subject(y) = Subject(z)
        PROVE  FALSE
    <3>1. erasure'[z] = erasure[z]
      BY <2>3 DEF Lock, TypeOK
    <3>2. Erasing(z)
      BY <2>3, <3>1 DEF Erasing
    <3> QED BY <2>3, <3>2 DEF Lock, CanLock, UserFree
  <2>4. \A y \in {r, x} : Erasing(y) \/ Lock(y)
    BY <1>3, LockErases
  <2> QED BY <1>3, <2>1, <2>2, <2>3, <2>4
<1>1. ASSUME NEW r \in Request, Erasing(r)' PROVE (tx[Subject(r)] = None)'
  <2> DEFINE p == Subject(r)
  <2>1. erasure[r].stage # "idle" /\ (Erasing(r) \/ (tx[p] = None /\ UNCHANGED tx))
    BY <1>1, ErasingKept
  <2>2. Subject(r)' = p /\ p \in Person
    BY <1>1, <2>1, SubjectKept, SubjectIsPerson DEF Erasing
  <2>3. CASE UNCHANGED tx
    BY <2>1, <2>2, <2>3 DEF Locked
  <2>4. CASE Erasing(r) /\ LearnerStep
    <3>0. tx \in [Person -> Claims \cup {None}] /\ tx[p] = None
      BY <2>4 DEF TypeOK, Locked
    <3>1. ASSUME NEW q \in Person, NEW claim \in Claims, Begin(q, claim) PROVE tx'[p] = None
      <4>1. q # p
        BY <2>4, <3>1 DEF Begin, UserFree
      <4> HIDE DEF p
      <4> QED BY <2>2, <3>0, <3>1, <4>1 DEF Begin
    <3>2. ASSUME NEW q \in Person, tx' = [tx EXCEPT ![q] = None] PROVE tx'[p] = None
      <4> HIDE DEF p
      <4> QED BY <2>2, <3>0, <3>2
    <3> HIDE DEF p
    <3> QED
      BY <2>2, <2>4, <3>0, <3>1, <3>2 DEF LearnerStep, CommitItem, CommitSubscription, Rollback,
           CommitWork, TakeQuiz
  <2>5. CASE SignInStep \/ RequestStep \/ FinishStep \/ Tick \/ UNCHANGED vars
    <3>1. UNCHANGED tx
      BY <2>5 DEF SignInStep, RequestStep, FinishStep, Tick, vars, SignIn, InsertSession, Logout,
           StartAccountDeletion, Consume, ExchangeFails, MarkReauthenticated, Ask, Refuse, Lock,
           DeleteUser, ClearWorks, Fault, Finish
    <3> QED BY <2>3, <3>1
  <2> QED BY <2>1, <2>3, <2>4, <2>5, StepsByKind
<1>2. ASSUME NEW r \in Request, NEW q \in Person, Deleting(r)'
      PROVE  (<<q, Subject(r)>> \notin taken)'
  <2> DEFINE p == Subject(r)
  <2>0. erasure[r].stage # "idle" /\ p \in Person
    BY <1>2, ErasingKept, SubjectIsPerson DEF Deleting, Erasing
  <2>1. Subject(r)' = p
    BY <1>2, <2>0, SubjectKept DEF Deleting
  <2>2. <<q, p>> \notin taken /\ (Deleting(r) \/ UNCHANGED taken)
    BY <1>2, DeletingKept DEF Locked
  <2>3. CASE \E x, y \in Person : TakeQuiz(x, y)
    <3>1. PICK x, y \in Person : TakeQuiz(x, y)
      BY <2>3
    <3>2. Deleting(r) => y # p
      BY <3>1 DEF TakeQuiz, GraphFree
    <3> HIDE DEF p
    <3> QED BY <2>1, <2>2, <3>1, <3>2 DEF TakeQuiz
  <2>4. CASE taken' \subseteq taken
    <3> HIDE DEF p
    <3> QED BY <2>1, <2>2, <2>4
  <2>5. taken' \subseteq taken \/ \E x, y \in Person : TakeQuiz(x, y)
    <3>1. CASE SignInStep \/ RequestStep \/ Tick \/ UNCHANGED vars
      BY <3>1 DEF SignInStep, RequestStep, Tick, vars, SignIn, InsertSession, Logout,
           StartAccountDeletion, Consume, ExchangeFails, MarkReauthenticated, Ask, Refuse, Lock,
           DeleteUser, ClearWorks, Fault
    <3>2. CASE LearnerStep
      BY <3>2 DEF LearnerStep, Begin, CommitItem, CommitSubscription, Rollback, CommitWork
    <3>3. CASE FinishStep
      BY <3>3 DEF FinishStep, Finish
    <3> QED BY <3>1, <3>2, <3>3, StepsByKind
  <2> QED BY <2>3, <2>4, <2>5
<1> QED BY <1>1, <1>2, <1>3 DEF Locked

\* An open transaction that still wants something wants what it did before.
LEMMA ClaimsAreSomething ==
    ASSUME NEW v \in Video PROVE None \notin {<<"watch", v>>, <<"join", v>>, <<"create", v>>}
BY AccountsConstants DEF Claims

LEMMA PromisedKept == ASSUME TypeOK, Owned, Promised, [Next]_vars PROVE Promised'
<1>0. /\ tx \in [Person -> Claims \cup {None}]
      /\ work \in [Video -> {"none", "reserved", "committed"}]
      /\ subscriber \in [Video -> SUBSET Person]
  BY DEF TypeOK
<1>a. ASSUME NEW r \in Request, erasure'[r].stage = "cleared"
      PROVE  erasure[r].stage # "idle" /\ Subject(r)' = Subject(r)
  <2>1. erasure[r].stage # "idle"
    BY <1>a, RequestsKept
  <2> QED BY <1>a, <2>1, SubjectKept
\* Steps that take no claim, give up nothing, and lock no work.
<1>b. ASSUME \A p \in Person : tx'[p] = tx[p] \/ tx'[p] = None,
             source \subseteq source',
             \A v \in Video : work[v] # "none" => work'[v] # "none",
             \A r \in Request : erasure'[r].stage = "cleared" =>
               erasure[r].stage = "cleared" /\ erasure'[r].works \subseteq erasure[r].works,
             \A r \in Request, v \in Video : erasure[r].stage = "cleared" /\ v \in erasure[r].works
               => subscriber'[v] \subseteq subscriber[v]
      PROVE  Promised'
  <2>1. ASSUME NEW p \in Person, NEW v \in Video, tx'[p] = <<"watch", v>> PROVE v \in source'
    BY <1>b, <2>1, ClaimsAreSomething DEF Promised
  <2>2. ASSUME NEW p \in Person, NEW v \in Video, tx'[p] = <<"join", v>> PROVE work'[v] # "none"
    BY <1>b, <2>2, ClaimsAreSomething DEF Promised
  <2>3. ASSUME NEW r \in Request, NEW v \in Video, erasure'[r].stage = "cleared",
               v \in erasure'[r].works
        PROVE  /\ subscriber'[v] \subseteq {Subject(r)'}
               /\ \A p \in Person : tx'[p] \notin {<<"join", v>>, <<"create", v>>}
    <3>1. subscriber[v] \subseteq {Subject(r)} /\ subscriber'[v] \subseteq subscriber[v]
          /\ \A p \in Person : tx[p] \notin {<<"join", v>>, <<"create", v>>}
      BY <1>b, <2>3 DEF Promised
    <3>2. Subject(r)' = Subject(r)
      BY <1>a, <2>3
    <3> QED BY <1>b, <3>1, <3>2, ClaimsAreSomething
  <2> QED BY <2>1, <2>2, <2>3 DEF Promised
<1>1. CASE \E q \in Person, claim \in Claims : Begin(q, claim)
  <2>1. PICK q \in Person, claim \in Claims : Begin(q, claim)
    BY <1>1
  <2>2. tx' = [tx EXCEPT ![q] = claim] /\ CanClaim(claim[1], claim[2])
        /\ UNCHANGED <<source, work, subscriber, erasure, session>>
    BY <2>1 DEF Begin, signInVars, studyVars
  <2>3. ASSUME NEW p \in Person PROVE tx'[p] = tx[p] \/ (p = q /\ tx'[p] = claim)
    BY <1>0, <2>2
  <2>4. ASSUME NEW p \in Person, NEW v \in Video, tx'[p] = <<"watch", v>> PROVE v \in source'
    BY <2>2, <2>3, <2>4 DEF Promised, CanClaim
  <2>5. ASSUME NEW p \in Person, NEW v \in Video, tx'[p] = <<"join", v>> PROVE work'[v] # "none"
    BY <2>2, <2>3, <2>5 DEF Promised, CanClaim
  <2>6. ASSUME NEW r \in Request, NEW v \in Video, erasure'[r].stage = "cleared",
               v \in erasure'[r].works
        PROVE  /\ subscriber'[v] \subseteq {Subject(r)'}
               /\ \A p \in Person : tx'[p] \notin {<<"join", v>>, <<"create", v>>}
    <3>1. ~WorkFree(v)
      BY <2>2, <2>6 DEF WorkFree
    <3>2. claim \notin {<<"join", v>>, <<"create", v>>}
      BY <2>2, <3>1 DEF CanClaim
    <3> QED BY <1>a, <2>2, <2>3, <2>6, <3>2 DEF Promised
  <2> QED BY <2>4, <2>5, <2>6 DEF Promised
<1>2. CASE \E q \in Person, x \in Video : CommitSubscription(q, x)
  <2>1. PICK q \in Person, x \in Video : CommitSubscription(q, x)
    BY <1>2
  <2>2. tx' = [tx EXCEPT ![q] = None] /\ subscriber' = [subscriber EXCEPT ![x] = @ \cup {q}]
        /\ work' \in {work, [work EXCEPT ![x] = "reserved"]} /\ UNCHANGED <<source, erasure>>
        /\ tx[q] \in {<<"join", x>>, <<"create", x>>}
    BY <2>1 DEF CommitSubscription
  <2>3. ASSUME NEW p \in Person PROVE tx'[p] = tx[p] \/ tx'[p] = None
    BY <1>0, <2>2
  <2>4. ASSUME NEW v \in Video, work[v] # "none" PROVE work'[v] # "none"
    BY <1>0, <2>2, <2>4
  <2>5. ASSUME NEW r \in Request, NEW v \in Video, erasure[r].stage = "cleared",
               v \in erasure[r].works
        PROVE  subscriber'[v] \subseteq subscriber[v]
    <3>1. v # x
      BY <2>2, <2>5 DEF Promised
    <3> QED BY <1>0, <2>2, <3>1
  <2> QED BY <1>b, <2>2, <2>3, <2>4, <2>5
<1>3. CASE \/ \E q \in Person, x \in Video : CommitItem(q, x)
           \/ \E q \in Person : Rollback(q)
           \/ \E x \in Video : CommitWork(x)
           \/ \E q, p \in Person : TakeQuiz(q, p)
           \/ SignInStep \/ Tick \/ UNCHANGED vars
  <2>1. UNCHANGED <<subscriber, erasure>> /\ source \subseteq source'
        /\ (UNCHANGED tx \/ \E q \in Person : tx' = [tx EXCEPT ![q] = None])
        /\ (UNCHANGED work \/ \E x \in Video : work' = [work EXCEPT ![x] = "committed"])
    BY <1>3 DEF CommitItem, Rollback, CommitWork, TakeQuiz, SignInStep, SignIn, InsertSession, Logout,
         StartAccountDeletion, Consume, ExchangeFails, MarkReauthenticated, Tick, vars, studyVars
  <2>2. ASSUME NEW p \in Person PROVE tx'[p] = tx[p] \/ tx'[p] = None
    BY <1>0, <2>1
  <2>3. ASSUME NEW v \in Video, work[v] # "none" PROVE work'[v] # "none"
    BY <1>0, <2>1, <2>3
  <2> QED BY <1>b, <2>1, <2>2, <2>3
<1>4. CASE RequestStep
  <2>1. UNCHANGED <<tx, source, work, subscriber>>
    BY <1>4 DEF RequestStep, Ask, Refuse, Lock, DeleteUser, ClearWorks, Fault, studyVars
  <2>2. ASSUME NEW r \in Request, NEW v \in Video, erasure'[r].stage = "cleared",
               v \in erasure'[r].works
        PROVE  /\ subscriber[v] \subseteq {Subject(r)}
               /\ \A p \in Person : tx[p] \notin {<<"join", v>>, <<"create", v>>}
    <3>1. CASE erasure[r].stage = "cleared" /\ erasure'[r].works \subseteq erasure[r].works
      BY <2>2, <3>1 DEF Promised
    <3>2. CASE ClearWorks(r) /\ ~Joined(r) /\ erasure'[r].works = erasure[r].works
      BY <2>2, <3>2 DEF ClearWorks, Joined, WorkFree
    <3> QED BY <2>2, <3>1, <3>2, RequestsKept
  <2> QED BY <1>a, <2>1, <2>2 DEF Promised
<1>5. CASE FinishStep
  <2>1. PICK x \in Request : Finish(x)
    BY <1>5 DEF FinishStep
  <2>2. ASSUME NEW r \in Request, erasure'[r].stage = "cleared"
        PROVE  erasure[r].stage = "cleared" /\ erasure'[r].works \subseteq erasure[r].works
    <3>0. erasure \in [Request -> Erasure] /\ erasure[r] \in Erasure /\ NoErasure.stage = "idle"
      BY DEF TypeOK, NoErasure
    <3>1. \/ erasure'[r] = erasure[r]
          \/ erasure'[r] = NoErasure
          \/ erasure'[r] = [erasure[r] EXCEPT !.works = @ \ erasure[x].works]
      BY <2>1, <3>0 DEF Finish, RolledBack
    <3> QED BY <2>2, <3>0, <3>1 DEF Erasure
  <2>3. CASE UNCHANGED studyVars
    <3>1. UNCHANGED <<tx, source, work, subscriber>>
      BY <2>1, <2>3 DEF Finish, studyVars
    <3> QED BY <1>b, <2>2, <3>1
  <2>4. CASE ~UNCHANGED studyVars
    <3> DEFINE gone == erasure[x].works
               p0 == Subject(x)
    <3>1. /\ tx' = tx /\ source' = source \ erasure[x].orphans
          /\ work' = [v \in Video |-> IF v \in gone THEN "none" ELSE work[v]]
          /\ subscriber' = [v \in Video |-> subscriber[v] \ {p0}]
          /\ erasure[x].stage = "cleared"
          /\ \A v \in erasure[x].orphans : SourceFree(v)
      BY <2>1, <2>4 DEF Finish
    <3>2. ASSUME NEW p \in Person, NEW v \in Video, tx'[p] = <<"watch", v>> PROVE v \in source'
      BY <3>1, <3>2 DEF Promised, SourceFree
    <3>3. ASSUME NEW p \in Person, NEW v \in Video, tx'[p] = <<"join", v>> PROVE work'[v] # "none"
      <4>1. v \notin gone /\ work[v] # "none"
        BY <3>1, <3>3 DEF Promised
      <4> HIDE DEF gone, p0
      <4> QED BY <3>1, <4>1
    <3>4. ASSUME NEW r \in Request, NEW v \in Video, erasure'[r].stage = "cleared",
                 v \in erasure'[r].works
          PROVE  /\ subscriber'[v] \subseteq {Subject(r)'}
                 /\ \A p \in Person : tx'[p] \notin {<<"join", v>>, <<"create", v>>}
      <4>1. /\ subscriber[v] \subseteq {Subject(r)}
            /\ \A p \in Person : tx[p] \notin {<<"join", v>>, <<"create", v>>}
        BY <2>2, <3>4 DEF Promised
      <4> HIDE DEF p0
      <4> QED BY <1>a, <3>1, <3>4, <4>1
    <3> QED BY <3>2, <3>3, <3>4 DEF Promised
  <2> QED BY <2>3, <2>4
<1> QED BY <1>1, <1>2, <1>3, <1>4, <1>5, StepsByKind DEF LearnerStep

LEMMA ReferencesKept ==
    ASSUME TypeOK, Promised, ReferencesHold, [Next]_vars PROVE ReferencesHold'
<1>0. /\ work \in [Video -> {"none", "reserved", "committed"}]
      /\ subscriber \in [Video -> SUBSET Person]
      /\ item \subseteq Person \X Video
  BY DEF TypeOK
<1>1. ASSUME NEW q \in Person, NEW x \in Video, CommitItem(q, x) PROVE ReferencesHold'
  <2>1. x \in source'
    BY <1>1 DEF CommitItem, Promised
  <2>2. item' = item \cup {<<q, x>>} /\ source \subseteq source' /\ UNCHANGED <<work, subscriber>>
    BY <1>1 DEF CommitItem
  <2> QED BY <2>1, <2>2 DEF ReferencesHold
<1>2. ASSUME NEW q \in Person, NEW x \in Video, CommitSubscription(q, x) PROVE ReferencesHold'
  <2>1. work'[x] # "none"
    BY <1>0, <1>2 DEF CommitSubscription, Promised
  <2>2. /\ UNCHANGED <<item, source>>
        /\ subscriber' = [subscriber EXCEPT ![x] = @ \cup {q}]
        /\ work' \in {work, [work EXCEPT ![x] = "reserved"]}
    BY <1>2 DEF CommitSubscription
  <2>3. ASSUME NEW v \in Video, subscriber'[v] # {} PROVE work'[v] # "none"
    <3>1. CASE v = x
      BY <2>1, <3>1
    <3>2. CASE v # x
      BY <1>0, <2>2, <2>3, <3>2 DEF ReferencesHold
    <3> QED BY <3>1, <3>2
  <2> QED BY <2>2, <2>3 DEF ReferencesHold
<1>3. ASSUME NEW x \in Video, CommitWork(x) PROVE ReferencesHold'
  BY <1>0, <1>3 DEF CommitWork, ReferencesHold
<1>4. ASSUME UNCHANGED studyVars PROVE ReferencesHold'
  BY <1>4 DEF studyVars, ReferencesHold
<1>5. ASSUME NEW r \in Request, Finish(r), ~UNCHANGED studyVars PROVE ReferencesHold'
  <2> DEFINE p == Subject(r)
  <2>1. /\ erasure[r].stage = "cleared" /\ ~Watched(r)
        /\ item' = {i \in item : i[1] # p}
        /\ source' = source \ erasure[r].orphans
        /\ work' = [v \in Video |-> IF v \in erasure[r].works THEN "none" ELSE work[v]]
        /\ subscriber' = [v \in Video |-> subscriber[v] \ {p}]
    BY <1>5 DEF Finish
  <2>2. ASSUME NEW i \in item' PROVE i[2] \in source'
    <3>1. i \in item /\ i[1] \in Person /\ i[1] # p /\ i = <<i[1], i[2]>> /\ i[2] \in source
      BY <1>0, <2>1 DEF ReferencesHold
    <3>2. i[2] \notin erasure[r].orphans
      BY <2>1, <3>1 DEF Watched
    <3> QED BY <2>1, <3>1, <3>2
  <2>3. ASSUME NEW v \in Video, subscriber'[v] # {} PROVE work'[v] # "none"
    <3>1. v \in erasure[r].works => subscriber[v] \subseteq {p}
      BY <2>1 DEF Promised
    <3> HIDE DEF p
    <3> QED BY <2>1, <2>3, <3>1 DEF ReferencesHold
  <2> QED BY <2>2, <2>3 DEF ReferencesHold
<1>6. CASE SignInStep \/ RequestStep \/ Tick \/ UNCHANGED vars
  <2>1. UNCHANGED studyVars
    BY <1>6 DEF SignInStep, RequestStep, Tick, vars, SignIn, InsertSession, Logout,
         StartAccountDeletion, Consume, ExchangeFails, MarkReauthenticated, Ask, Refuse, Lock,
         DeleteUser, ClearWorks,
         Fault
  <2> QED BY <1>4, <2>1
<1>7. CASE LearnerStep
  <2>1. ASSUME NEW q \in Person,
               Rollback(q) \/ (\E claim \in Claims : Begin(q, claim))
                 \/ \E p \in Person : TakeQuiz(q, p)
        PROVE  UNCHANGED studyVars
    BY <2>1 DEF Rollback, Begin, TakeQuiz
  <2> QED BY <1>1, <1>2, <1>3, <1>4, <1>7, <2>1 DEF LearnerStep
<1> QED BY <1>4, <1>5, <1>6, <1>7, StepsByKind DEF FinishStep

LEMMA RemainsKept ==
    ASSUME TypeOK, Owned, Locked, NothingRemains, [Next]_vars PROVE NothingRemains'
<1>0. /\ account \subseteq Person
      /\ session \in [Session -> SessionRow]
      /\ attempt \in [Attempt -> AttemptRow]
      /\ tx \in [Person -> Claims \cup {None}]
      /\ subscriber \in [Video -> SUBSET Person]
      /\ creator \in [Video -> Person \cup {None}]
      /\ item \subseteq Person \X Video
      /\ taken \subseteq Person \X Person
  BY DEF TypeOK
<1>1. CASE SignInStep
  <2>1. account \subseteq account' /\ UNCHANGED <<studyVars, taken, tx>>
    BY <1>1 DEF SignInStep, SignIn, InsertSession, Logout, StartAccountDeletion, Consume,
         ExchangeFails, MarkReauthenticated
  <2>2. ASSUME NEW s \in Session, session'[s].state \in {"live", "revoked"}
        PROVE  session'[s].owner \in account'
    <3>0. session[s] \in SessionRow
      BY <1>0
    <3>1. CASE \E p \in Person, x \in Session : SignIn(p, x) \/ InsertSession(p, x)
      BY <1>0, <2>2, <3>1 DEF SignIn, InsertSession, NothingRemains
    <3>2. CASE \E x \in Session : Logout(x)
      BY <1>0, <2>2, <3>0, <3>2 DEF Logout, NothingRemains, LiveAt, SessionRow
    <3>3. CASE session' = session
      BY <2>1, <2>2, <3>3 DEF NothingRemains
    <3> QED
      BY <1>1, <3>1, <3>2, <3>3
         DEF SignInStep, StartAccountDeletion, Consume, ExchangeFails, MarkReauthenticated
  <2>3. ASSUME NEW t \in Attempt, attempt'[t].state = "open"
        PROVE  session'[attempt'[t].session].owner \in account'
    <3>0. attempt[t] \in AttemptRow
      BY <1>0
    <3>1. CASE \E x \in Attempt, s \in Session : StartAccountDeletion(x, s)
      <4>1. PICK x \in Attempt, s \in Session : StartAccountDeletion(x, s)
        BY <3>1
      <4>2. \/ attempt'[t] = attempt[t]
            \/ attempt'[t].session = s /\ session[s].owner \in account
        BY <1>0, <3>0, <4>1 DEF StartAccountDeletion, AttemptRow, LiveAt, NothingRemains
      <4>3. session' = session
        BY <4>1 DEF StartAccountDeletion
      <4> QED BY <2>1, <2>3, <4>2, <4>3 DEF NothingRemains
    <3>2. CASE ~ \E x \in Attempt, s \in Session : StartAccountDeletion(x, s)
      <4>1. attempt'[t] = attempt[t]
        <5>1. ASSUME NEW x \in Attempt, Consume(x) PROVE attempt'[t] = attempt[t]
          BY <1>0, <2>3, <3>0, <5>1 DEF Consume, AttemptRow
        <5>2. ASSUME NEW x \in Attempt, ExchangeFails(x) PROVE attempt'[t] = attempt[t]
          BY <1>0, <2>3, <3>0, <5>2 DEF ExchangeFails, AttemptRow
        <5>3. ASSUME NEW x \in Attempt, NEW p \in Person, MarkReauthenticated(x, p)
              PROVE  attempt'[t] = attempt[t]
          BY <1>0, <2>3, <3>0, <5>3 DEF MarkReauthenticated, AttemptRow
        <5>4. CASE attempt' = attempt
          BY <5>4
        <5> QED BY <1>1, <3>2, <5>1, <5>2, <5>3, <5>4 DEF SignInStep, SignIn, InsertSession, Logout
      <4>2. attempt[t].session \in Session /\ session[attempt[t].session].state # "unused"
        BY <2>3, <4>1 DEF Owned, Known
      <4>3. session'[attempt[t].session].owner = session[attempt[t].session].owner
        BY <4>2, SessionsKept
      <4> QED BY <2>1, <2>3, <4>1, <4>3 DEF NothingRemains
    <3> QED BY <3>1, <3>2
  <2>4. /\ \A i \in item' : i[1] \in account'
        /\ \A v \in Video : subscriber'[v] \cup ({creator'[v]} \ {None}) \subseteq account'
        /\ taken' \subseteq account' \X account'
        /\ \A p \in Person : tx'[p] # None => p \in account'
    BY <2>1 DEF NothingRemains, studyVars
  <2> QED BY <2>2, <2>3, <2>4 DEF NothingRemains
<1>2. ASSUME NEW p \in Person, NEW claim \in Claims, Begin(p, claim) PROVE NothingRemains'
  BY <1>0, <1>2 DEF Begin, NothingRemains, signInVars, studyVars
<1>3. ASSUME NEW p \in Person, NEW v \in Video, CommitItem(p, v) PROVE NothingRemains'
  <2>1. p \in account
    BY <1>3, ClaimsAreSomething, AccountsConstants DEF CommitItem, NothingRemains, Claims
  <2> QED BY <1>0, <1>3, <2>1 DEF CommitItem, NothingRemains, signInVars
<1>4. ASSUME NEW p \in Person, NEW v \in Video, CommitSubscription(p, v) PROVE NothingRemains'
  <2>1. p \in account
    BY <1>4, ClaimsAreSomething DEF CommitSubscription, NothingRemains
  <2> QED BY <1>0, <1>4, <2>1 DEF CommitSubscription, NothingRemains, signInVars
<1>5. ASSUME NEW p \in Person, Rollback(p) PROVE NothingRemains'
  BY <1>0, <1>5 DEF Rollback, NothingRemains, signInVars, studyVars
<1>6. ASSUME NEW v \in Video, CommitWork(v) PROVE NothingRemains'
  BY <1>6 DEF CommitWork, NothingRemains, signInVars
<1>7. ASSUME NEW q \in Person, NEW p \in Person, TakeQuiz(q, p) PROVE NothingRemains'
  BY <1>7 DEF TakeQuiz, NothingRemains, signInVars, studyVars
<1>8. CASE RequestStep \/ Tick \/ UNCHANGED vars
  <2>1. UNCHANGED <<account, session, attempt, item, subscriber, creator, taken, tx>>
    BY <1>8 DEF RequestStep, Tick, vars, Ask, Refuse, Lock, DeleteUser, ClearWorks, Fault,
         signInVars, studyVars
  <2> QED BY <2>1 DEF NothingRemains
<1>9. ASSUME NEW r \in Request, Finish(r) PROVE NothingRemains'
  <2>1. CASE UNCHANGED <<account, signInVars, studyVars, taken, tx>>
    BY <2>1 DEF NothingRemains, signInVars, studyVars
  <2>2. CASE ~UNCHANGED <<account, signInVars, studyVars, taken, tx>>
    <3> DEFINE p == Subject(r)
    <3>1. /\ account' = account \ {p}
          /\ session' = [s \in Session |-> IF session[s].owner = p
                                           THEN [session[s] EXCEPT !.state = "erased"]
                                           ELSE session[s]]
          /\ attempt' = [t \in Attempt |->
               IF attempt[t].state = "open" /\ session[attempt[t].session].owner = p
               THEN [attempt[t] EXCEPT !.state = "closed"]
               ELSE attempt[t]]
          /\ item' = {i \in item : i[1] # p}
          /\ subscriber' = [v \in Video |-> subscriber[v] \ {p}]
          /\ creator' = [v \in Video |-> IF creator[v] = p THEN None ELSE creator[v]]
          /\ taken' = {a \in taken : a[1] # p}
          /\ UNCHANGED tx
      BY <1>9, <2>2 DEF Finish
    <3>2. tx[p] = None /\ \A q \in Person : <<q, p>> \notin taken
      BY <1>9 DEF Locked, Finish, Erasing, Deleting
    <3>p. p \in Person
      BY <1>9, SubjectIsPerson DEF Finish
    <3> HIDE DEF p
    <3>3. ASSUME NEW s \in Session, session'[s].state \in {"live", "revoked"}
          PROVE  session'[s].owner \in account'
      <4>0. session[s] \in SessionRow
        BY <1>0
      <4>1. session[s].owner # p
        BY <3>1, <3>3, <4>0 DEF SessionRow
      <4> QED BY <3>1, <3>3, <4>1 DEF NothingRemains
    <3>4. ASSUME NEW t \in Attempt, attempt'[t].state = "open"
          PROVE  session'[attempt'[t].session].owner \in account'
      <4>0. attempt[t] \in AttemptRow
        BY <1>0
      <4>1. attempt'[t] = attempt[t] /\ session[attempt[t].session].owner # p
        BY <3>1, <3>4, <4>0 DEF AttemptRow
      <4>2. attempt[t].session \in Session
        BY <3>4, <4>1 DEF Owned, Known
      <4> QED BY <3>1, <3>4, <4>1, <4>2 DEF NothingRemains
    <3>5. \A i \in item' : i[1] \in account'
      BY <3>1 DEF NothingRemains
    <3>6. ASSUME NEW v \in Video
          PROVE  subscriber'[v] \cup ({creator'[v]} \ {None}) \subseteq account'
      BY <3>1 DEF NothingRemains
    <3>7. taken' \subseteq account' \X account'
      <4>1. ASSUME NEW a \in taken' PROVE a \in account' \X account'
        <5>1. a \in taken /\ a[1] # p /\ a = <<a[1], a[2]>> /\ a[1] \in account /\ a[2] \in account
          BY <3>1 DEF NothingRemains
        <5>2. a[2] # p
          BY <1>0, <3>2, <5>1
        <5> QED BY <3>1, <5>1, <5>2
      <4> QED BY <4>1
    <3>8. \A q \in Person : tx'[q] # None => q \in account'
      BY <3>1, <3>2 DEF NothingRemains
    <3> QED BY <3>3, <3>4, <3>5, <3>6, <3>7, <3>8 DEF NothingRemains
  <2> QED BY <2>1, <2>2
<1> QED
  BY <1>1, <1>2, <1>3, <1>4, <1>5, <1>6, <1>7, <1>8, <1>9, StepsByKind DEF LearnerStep, FinishStep

\* The session of an erasure that has locked it stays as it is: it is logged
\* out by nobody, and erased with no other account.
LEMMA SessionHeld ==
    ASSUME TypeOK, Owned, Locked, [Next]_vars, NEW r \in Request, Erasing(r), Erasing(r)'
    PROVE  session'[erasure[r].session] = session[erasure[r].session]
<1> DEFINE s == erasure[r].session
<1>0. /\ session \in [Session -> SessionRow]
      /\ s \in Session /\ session[s].state # "unused"
  BY DEF TypeOK, Owned, Known, Erasing
<1>1. CASE SignInStep
  <2>1. ASSUME NEW p \in Person, NEW x \in Session, SignIn(p, x) \/ InsertSession(p, x)
        PROVE  session'[s] = session[s]
    BY <1>0, <2>1 DEF SignIn, InsertSession
  <2>2. ASSUME NEW x \in Session, Logout(x) PROVE session'[s] = session[s]
    <3>1. x # s
      BY <2>2 DEF Logout, SessionFree
    <3> HIDE DEF s
    <3> QED BY <1>0, <2>2, <3>1 DEF Logout
  <2>3. ASSUME NEW t \in Attempt,
               \/ Consume(t) \/ ExchangeFails(t)
               \/ \E p \in Person : MarkReauthenticated(t, p)
               \/ \E x \in Session : StartAccountDeletion(t, x)
        PROVE  session'[s] = session[s]
    BY <2>3 DEF StartAccountDeletion, Consume, ExchangeFails, MarkReauthenticated
  <2> QED BY <1>1, <2>1, <2>2, <2>3 DEF SignInStep
<1>2. CASE LearnerStep \/ RequestStep \/ Tick \/ UNCHANGED vars
  BY <1>2 DEF LearnerStep, RequestStep, Tick, vars, signInVars, Begin, CommitItem,
       CommitSubscription, Rollback, CommitWork, TakeQuiz, Ask, Refuse, Lock, DeleteUser,
       ClearWorks, Fault
<1>3. CASE FinishStep
  <2>1. PICK x \in Request : Finish(x)
    BY <1>3 DEF FinishStep
  <2>2. CASE UNCHANGED session
    BY <2>2
  <2>3. CASE ~UNCHANGED session
    <3>1. session' = [y \in Session |-> IF session[y].owner = Subject(x)
                                        THEN [session[y] EXCEPT !.state = "erased"]
                                        ELSE session[y]]
      BY <2>1, <2>3 DEF Finish, signInVars
    <3>2. x # r
      <4>1. erasure'[x].stage = "idle"
        BY <2>1, <2>3 DEF Finish, NoErasure, RolledBack, signInVars
      <4> QED BY <4>1 DEF Erasing
    <3>3. Erasing(x)
      BY <2>1 DEF Finish, Erasing
    <3>4. session[s].owner # Subject(x)
      BY <3>2, <3>3 DEF Locked, Subject
    <3>5. \A y \in Session : session[y].owner # Subject(x) => session'[y] = session[y]
      BY <3>1
    <3> QED BY <1>0, <3>4, <3>5
  <2> QED BY <2>2, <2>3
<1> QED BY <1>1, <1>2, <1>3, StepsByKind

LEMMA GrantedKept == ASSUME TypeOK, Owned, Locked, Granted, [Next]_vars PROVE Granted'
<1> SUFFICES ASSUME NEW r \in Request, Erasing(r)' PROVE Verified(r)'
  BY DEF Granted
<1>1. erasure'[r].session = erasure[r].session /\ erasure'[r].at = erasure[r].at
  BY RequestsKept DEF Erasing
<1>2. session'[erasure[r].session] = session[erasure[r].session]
  BY LockErases, SessionHeld DEF Lock, signInVars
<1>3. Verified(r)
  BY LockErases DEF Granted, Lock
<1> QED BY <1>1, <1>2, <1>3 DEF Verified, LiveAt

-----------------------------------------------------------------------------
(* Theorems.                                                                *)

IInv == TypeOK /\ Owned /\ Locked /\ Promised /\ Granted /\ ReferencesHold /\ NothingRemains

LEMMA InitHolds == Init => IInv
<1> SUFFICES ASSUME Init PROVE IInv
  OBVIOUS
<1>1. TypeOK
  BY InitTyped
<1>2. Owned /\ Locked
  BY DEF Init, Owned, Locked, Erasing, Deleting, NoErasure
<1>3. Promised
  BY ClaimsAreSomething DEF Init, Promised, NoErasure
<1>4. Granted
  BY DEF Init, Granted, Erasing, NoErasure
<1>5. ReferencesHold /\ NothingRemains
  BY DEF Init, ReferencesHold, NothingRemains
<1> QED BY <1>1, <1>2, <1>3, <1>4, <1>5 DEF IInv

LEMMA NextHolds == IInv /\ [Next]_vars => IInv'
BY NextTyped, OwnedKept, LockedKept, PromisedKept, GrantedKept, ReferencesKept, RemainsKept
   DEF IInv

LEMMA AlwaysHolds == Spec => []IInv
BY InitHolds, NextHolds, PTL DEF Spec

\* What the others study keeps its source and its work, whenever an erasure
\* read what it deletes.
THEOREM ReferencesAlwaysHold == Spec => []ReferencesHold
<1>1. IInv => ReferencesHold
  BY DEF IInv
<1> QED BY <1>1, AlwaysHolds, PTL

\* Nothing of an erased account is left or is committed afterwards.
THEOREM NothingOfErasedRemains == Spec => []NothingRemains
<1>1. IInv => NothingRemains
  BY DEF IInv
<1> QED BY <1>1, AlwaysHolds, PTL

\* An account is deleted only through a session of its own that was verified
\* shortly before and is still signed in.
THEOREM OwnersErase == Spec => ErasedByOwner
<1> DEFINE Erased == \A p \in account \ account' :
                       \E r \in Request : Erasing(r) /\ Subject(r) = p /\ Verified(r)
<1>1. IInv /\ [Next]_vars => [Erased]_vars
  <2> SUFFICES ASSUME IInv, Next, NEW p \in account \ account'
               PROVE  \E r \in Request : Erasing(r) /\ Subject(r) = p /\ Verified(r)
    OBVIOUS
  <2>1. FinishStep
    <3>1. CASE SignInStep
      BY <3>1 DEF SignInStep, SignIn, InsertSession, Logout, StartAccountDeletion, Consume, ExchangeFails,
           MarkReauthenticated
    <3>2. CASE LearnerStep \/ RequestStep \/ Tick
      BY <3>2 DEF LearnerStep, RequestStep, Tick, Begin, CommitItem, CommitSubscription, Rollback,
           CommitWork, TakeQuiz, Ask, Refuse, Lock, DeleteUser, ClearWorks, Fault
    <3> QED BY <3>1, <3>2, StepsByKind
  <2>2. PICK r \in Request : Finish(r)
    BY <2>1 DEF FinishStep
  <2>3. Erasing(r) /\ Subject(r) = p
    BY <2>2 DEF Finish, Erasing
  <2>4. Verified(r)
    BY <2>3 DEF IInv, Granted
  <2> QED BY <2>3, <2>4
<1> QED BY <1>1, AlwaysHolds, PTL DEF Spec, ErasedByOwner
=============================================================================
