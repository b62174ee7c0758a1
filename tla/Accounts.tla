------------------------------ MODULE Accounts ------------------------------
(***************************************************************************)
(* Sign-in with Google, the second proof of identity that opens the        *)
(* deletion of an account for a while, and the deletion itself:            *)
(* google-auth.service.ts with postgres-google-auth.repository.ts, and     *)
(* postgres-account-erasure.repository.ts against the foreign keys of the  *)
(* rows it reaches.  The erasure is one transaction, but what it means to  *)
(* delete is read before it is locked, and the transactions of other       *)
(* learners commit in between.                                             *)
(*                                                                         *)
(* The statement that records the proof on a session is refused by the     *)
(* database (MarkReauthenticated), so a session that may delete its        *)
(* account is one whose row was written with the mark, as the end-to-end   *)
(* test of the erasure writes it (InsertSession).                          *)
(*                                                                         *)
(* A transaction changes rows in its last step; until then `erasure` and   *)
(* `tx` say what it has read and which rows it has locked.  Waiting for a  *)
(* lock is a guard.  A deadlock that PostgreSQL breaks fails a transaction *)
(* as a fault does.  Works and subscriptions are those of ProviderBudget;  *)
(* only the foreign key matters here, so a subscription is one in any of   *)
(* its states.                                                             *)
(***************************************************************************)
EXTENDS Naturals, FiniteSets

CONSTANTS
    Person,         \* Google identities; an account is known by its identity
    Session,
    Attempt,        \* verifications at Google for a deletion
    Video,
    Request,        \* DELETE /me
    None,
    AttemptTtl,     \* time a verification may take (attemptTtlMs)
    ReauthTtl,      \* time it is good for (GOOGLE_REAUTH_TTL_MS)
    SessionTtl,     \* bound: longest time a session lives
    LastTime,       \* bound on the clock
    MaxFaults       \* bound: failed calls and crashes of erasures

\* An item of a source that exists or is inserted with it, a subscription
\* to a work that exists or is inserted with it.
Claims == {"watch", "add", "join", "create"} \X Video

ASSUME AccountsConstants ==
    /\ None \notin Person \cup Session \cup Nat \cup Claims
    /\ AttemptTtl \in Nat \ {0}
    /\ ReauthTtl \in Nat
    /\ SessionTtl \in Nat \ {0}
    /\ LastTime \in Nat
    /\ MaxFaults \in Nat

Time == 0..LastTime

VARIABLES
    now,
    account,    \* identities that have an account
    session,    \* rows of sessions
    attempt,    \* rows of google_auth_attempts and the callbacks that used them
    item,       \* who studies which video
    source,     \* rows of video_sources
    work,       \* state of the caption work of each video
    subscriber, \* who has a subscription to it
    creator,    \* owner of the event that runs it
    taken,      \* <<q, p>>: q has taken a quiz of a public course of p
    tx,         \* open transaction of each person: what it will commit
    erasure,    \* DELETE /me in progress
    faults

signInVars == <<session, attempt>>
studyVars == <<item, source, work, subscriber, creator>>
vars == <<now, account, signInVars, studyVars, taken, tx, erasure, faults>>

Stage == {"idle", "asked", "locked", "deleted", "cleared"}
NoErasure == [stage |-> "idle", session |-> None, at |-> 0,
              videos |-> {}, works |-> {}, orphans |-> {}]

SessionRow ==
    [state : {"unused", "live", "revoked", "erased"}, owner : Person \cup {None},
     end : Nat, verified : Time \cup {None}]

AttemptRow ==
    [state : {"unused", "open", "used", "closed"}, session : Session \cup {None},
     end : Nat, at : Time, subject : Person \cup {None}]

Erasure ==
    [stage : Stage, session : Session \cup {None}, at : Time,
     videos : SUBSET Video, works : SUBSET Video, orphans : SUBSET Video]

TypeOK ==
    /\ now \in Time
    /\ account \subseteq Person
    /\ session \in [Session -> SessionRow]
    /\ attempt \in [Attempt -> AttemptRow]
    /\ item \subseteq Person \X Video
    /\ source \subseteq Video
    /\ work \in [Video -> {"none", "reserved", "committed"}]
    /\ subscriber \in [Video -> SUBSET Person]
    /\ creator \in [Video -> Person \cup {None}]
    /\ taken \subseteq Person \X Person
    /\ tx \in [Person -> Claims \cup {None}]
    /\ erasure \in [Request -> Erasure]
    /\ faults \in 0..MaxFaults

Init ==
    /\ now = 0
    /\ account = {}
    /\ session = [s \in Session |->
                    [state |-> "unused", owner |-> None, end |-> 0, verified |-> None]]
    /\ attempt = [t \in Attempt |->
                    [state |-> "unused", session |-> None, end |-> 0, at |-> 0, subject |-> None]]
    /\ item = {}
    /\ source = {}
    /\ work = [v \in Video |-> "none"]
    /\ subscriber = [v \in Video |-> {}]
    /\ creator = [v \in Video |-> None]
    /\ taken = {}
    /\ tx = [p \in Person |-> None]
    /\ erasure = [r \in Request |-> NoErasure]
    /\ faults = 0

-----------------------------------------------------------------------------
(* Locks.                                                                   *)

\* Whose account a request deletes: the owner of its session.
Subject(r) == session[erasure[r].session].owner

Erasing(r) == erasure[r].stage \in {"locked", "deleted", "cleared"}

\* From its second statement on an erasure has locked or deleted what the
\* deletion of the user cascades to.
Deleting(r) == erasure[r].stage \in {"deleted", "cleared"}

\* Mutant: the erasure does not lock the user.
UserShared(p) == TRUE

\* The row of the user: taken FOR UPDATE by an erasure, FOR KEY SHARE by
\* every transaction that inserts a row referring to it.
UserFree(p) == \A r \in Request : ~(Erasing(r) /\ Subject(r) = p)

GraphFree(p) == \A r \in Request : ~(Deleting(r) /\ Subject(r) = p)

\* Mutant: an erasure reads its session without a lock.
SessionShared(s) == GraphFree(session[s].owner)

SessionFree(s) ==
    /\ GraphFree(session[s].owner)
    /\ \A r \in Request : ~(Erasing(r) /\ erasure[r].session = s)

\* The row of a work: locked by the transaction that joins it, and by the
\* erasure that has deleted it.
WorkFree(v) ==
    /\ \A r \in Request : ~(erasure[r].stage = "cleared" /\ v \in erasure[r].works)
    /\ \A p \in Person : tx[p] \notin {<<"join", v>>, <<"create", v>>}

\* The row of a source: shared by the transactions that insert items of it,
\* and its own by the transaction that inserts it.
SourceFree(v) == \A p \in Person : tx[p] \notin {<<"watch", v>>, <<"add", v>>}

-----------------------------------------------------------------------------
(* Sessions and verification.                                               *)

\* A session ends at a fixed time, or before when it was idle.
LiveAt(s, time) == session[s].state = "live" /\ time < session[s].end

\* The login of a new or known identity; the one that finds the row of the
\* user locked waits, and fails or creates a new account.
SignIn(p, s) ==
    /\ session[s].state = "unused"
    /\ UserFree(p)
    /\ account' = account \cup {p}
    /\ \E ttl \in 1..SessionTtl :
         session' = [session EXCEPT ![s] = [state |-> "live", owner |-> p,
                                            end |-> now + ttl, verified |-> None]]
    /\ UNCHANGED <<now, attempt, studyVars, taken, tx, erasure, faults>>

\* The rows the end-to-end test of the erasure inserts: an account, if there
\* is none, and a session of it that was verified at some time.
InsertSession(p, s) ==
    /\ session[s].state = "unused"
    /\ UserFree(p)
    /\ account' = account \cup {p}
    /\ \E ttl \in 1..SessionTtl, time \in 0..now :
         session' = [session EXCEPT ![s] = [state |-> "live", owner |-> p,
                                            end |-> now + ttl, verified |-> time]]
    /\ UNCHANGED <<now, attempt, studyVars, taken, tx, erasure, faults>>

Logout(s) ==
    /\ LiveAt(s, now)
    /\ SessionFree(s)
    /\ session' = [session EXCEPT ![s].state = "revoked"]
    /\ UNCHANGED <<now, account, attempt, studyVars, taken, tx, erasure, faults>>

StartAccountDeletion(t, s) ==
    /\ attempt[t].state = "unused"
    /\ LiveAt(s, now)
    /\ UserFree(session[s].owner)
    /\ attempt' = [attempt EXCEPT ![t] = [@ EXCEPT !.state = "open", !.session = s,
                                                   !.end = now + AttemptTtl]]
    /\ UNCHANGED <<now, account, session, studyVars, taken, tx, erasure, faults>>

\* The callback uses up the attempt and takes the time; the identity is
\* fetched from Google afterwards, which may take long or fail.
Consume(t) ==
    /\ attempt[t].state = "open"
    /\ now < attempt[t].end
    /\ GraphFree(session[attempt[t].session].owner)
    /\ attempt' = [attempt EXCEPT ![t] = [@ EXCEPT !.state = "used", !.at = now]]
    /\ UNCHANGED <<now, account, session, studyVars, taken, tx, erasure, faults>>

\* The identity has been fetched, and is to be recorded on the session.  The
\* statement names a table `user`, a reserved word of PostgreSQL: it is
\* refused whatever it is about, the catch throws, and the attempt is spent.
MarkReauthenticated(t, p) ==
    /\ attempt[t].state = "used"
    /\ attempt' = [attempt EXCEPT ![t] = [@ EXCEPT !.state = "closed", !.subject = p]]
    /\ UNCHANGED <<now, account, session, studyVars, taken, tx, erasure, faults>>

ExchangeFails(t) ==
    /\ attempt[t].state = "used"
    /\ attempt' = [attempt EXCEPT ![t].state = "closed"]
    /\ UNCHANGED <<now, account, session, studyVars, taken, tx, erasure, faults>>

-----------------------------------------------------------------------------
(* What an account takes part in.                                           *)

\* ensureContext and reserve of a person: rows read or inserted are locked
\* until the commit, the row of the user by the foreign keys among them.
CanClaim(kind, v) ==
    \/ kind = "watch" /\ v \in source
    \/ kind = "add" /\ v \notin source /\ SourceFree(v)
    \/ kind = "join" /\ work[v] # "none" /\ WorkFree(v)
    \/ kind = "create" /\ work[v] = "none" /\ WorkFree(v)

Begin(p, claim) ==
    /\ p \in account
    /\ tx[p] = None
    /\ UserFree(p)
    /\ CanClaim(claim[1], claim[2])
    /\ tx' = [tx EXCEPT ![p] = claim]
    /\ UNCHANGED <<now, account, signInVars, studyVars, taken, erasure, faults>>

CommitItem(p, v) ==
    /\ tx[p] \in {<<"watch", v>>, <<"add", v>>}
    /\ source' = IF tx[p][1] = "add" THEN source \cup {v} ELSE source
    /\ item' = item \cup {<<p, v>>}
    /\ tx' = [tx EXCEPT ![p] = None]
    /\ UNCHANGED <<now, account, signInVars, work, subscriber, creator, taken, erasure, faults>>

CommitSubscription(p, v) ==
    /\ tx[p] \in {<<"join", v>>, <<"create", v>>}
    /\ IF tx[p][1] = "create"
       THEN /\ work' = [work EXCEPT ![v] = "reserved"]
            /\ creator' = [creator EXCEPT ![v] = p]
       ELSE UNCHANGED <<work, creator>>
    /\ subscriber' = [subscriber EXCEPT ![v] = @ \cup {p}]
    /\ tx' = [tx EXCEPT ![p] = None]
    /\ UNCHANGED <<now, account, signInVars, item, source, taken, erasure, faults>>

Rollback(p) ==
    /\ tx[p] # None
    /\ tx' = [tx EXCEPT ![p] = None]
    /\ UNCHANGED <<now, account, signInVars, studyVars, taken, erasure, faults>>

\* commitWork: the job still holds its claim, which goes with its event.
CommitWork(v) ==
    /\ work[v] = "reserved"
    /\ creator[v] # None
    /\ GraphFree(creator[v])
    /\ WorkFree(v)
    /\ work' = [work EXCEPT ![v] = "committed"]
    /\ UNCHANGED <<now, account, signInVars, item, source, subscriber, creator, taken, tx,
                   erasure, faults>>

\* submitQuiz of another learner of a published, public course.
TakeQuiz(q, p) ==
    /\ q # p
    /\ {q, p} \subseteq account
    /\ UserFree(q)
    /\ GraphFree(p)
    /\ taken' = taken \cup {<<q, p>>}
    /\ UNCHANGED <<now, account, signInVars, studyVars, tx, erasure, faults>>

-----------------------------------------------------------------------------
(* The erasure.                                                             *)

RolledBack(r) == erasure' = [erasure EXCEPT ![r] = NoErasure]

\* The guard has authenticated the session; the service takes the time.
Ask(r, s) ==
    /\ erasure[r].stage = "idle"
    /\ LiveAt(s, now)
    /\ SessionFree(s)
    /\ erasure' = [erasure EXCEPT ![r] = [NoErasure EXCEPT !.stage = "asked",
                                                           !.session = s, !.at = now]]
    /\ UNCHANGED <<now, account, signInVars, studyVars, taken, tx, faults>>

\* Verified at Google not longer ago than reauthCutoff.
Verified(r) ==
    /\ LiveAt(erasure[r].session, erasure[r].at)
    /\ \E time \in Time : /\ session[erasure[r].session].verified = time
                          /\ time <= erasure[r].at
                          /\ erasure[r].at <= time + ReauthTtl

\* FOR UPDATE of the user waits for whoever refers to it.
CanLock(r) == UserFree(Subject(r)) /\ tx[Subject(r)] = None

\* not_found or reauth_required
Refuse(r) ==
    /\ erasure[r].stage = "asked"
    /\ CanLock(r)
    /\ ~Verified(r)
    /\ RolledBack(r)
    /\ UNCHANGED <<now, account, signInVars, studyVars, taken, tx, faults>>

Lock(r) ==
    /\ erasure[r].stage = "asked"
    /\ CanLock(r)
    /\ Verified(r)
    /\ erasure' = [erasure EXCEPT ![r].stage = "locked",
                                  ![r].videos = {v \in Video : <<Subject(r), v>> \in item}]
    /\ UNCHANGED <<now, account, signInVars, studyVars, taken, tx, faults>>

\* quiz_attempts.quiz_id is ON DELETE RESTRICT: attempts of others keep the
\* quizzes, and with them the account.  Those of an account that is being
\* deleted itself are waited for.
DeleteUser(r) ==
    LET takers == {q \in Person : <<q, Subject(r)>> \in taken}
    IN  /\ erasure[r].stage = "locked"
        /\ \A q \in takers : GraphFree(q)
        /\ IF takers # {}
           THEN RolledBack(r)
           ELSE erasure' = [erasure EXCEPT
                  ![r].stage = "deleted",
                  ![r].works = {v \in Video : work[v] # "none" /\ subscriber[v] \subseteq {Subject(r)}}]
        /\ UNCHANGED <<now, account, signInVars, studyVars, taken, tx, faults>>

\* The works read before are deleted as soon as they are free; the foreign
\* key of a subscription that was added meanwhile refuses.
Joined(r) == \E v \in erasure[r].works : ~(subscriber[v] \subseteq {Subject(r)})

ClearWorks(r) ==
    /\ erasure[r].stage = "deleted"
    /\ \A v \in erasure[r].works : WorkFree(v)
    /\ IF Joined(r)
       THEN RolledBack(r)
       ELSE erasure' = [erasure EXCEPT
              ![r].stage = "cleared",
              ![r].orphans = {v \in erasure[r].videos :
                                \A p \in Person \ {Subject(r)} : <<p, v>> \notin item}]
    /\ UNCHANGED <<now, account, signInVars, studyVars, taken, tx, faults>>

\* Mutant: the foreign key does not restrict.
Unwatched(r) == FALSE

\* The sources read before are locked when no item of them is being
\* inserted, without being read again; learning_items.video_source_id is
\* ON DELETE RESTRICT.
Watched(r) == \E v \in erasure[r].orphans, p \in Person \ {Subject(r)} : <<p, v>> \in item

Finish(r) ==
    LET p == Subject(r)
        works == erasure[r].works
    IN  /\ erasure[r].stage = "cleared"
        /\ \A v \in erasure[r].orphans : SourceFree(v)
        /\ IF Watched(r)
           THEN /\ RolledBack(r)
                /\ UNCHANGED <<account, signInVars, studyVars, taken>>
           ELSE /\ erasure' = [x \in Request |->
                     IF x = r THEN NoErasure
                     ELSE [erasure[x] EXCEPT !.works = @ \ works]]
                /\ account' = account \ {p}
                /\ session' = [s \in Session |-> IF session[s].owner = p
                                                 THEN [session[s] EXCEPT !.state = "erased"]
                                                 ELSE session[s]]
                /\ attempt' = [t \in Attempt |->
                     IF attempt[t].state = "open" /\ session[attempt[t].session].owner = p
                     THEN [attempt[t] EXCEPT !.state = "closed"]
                     ELSE attempt[t]]
                /\ item' = {i \in item : i[1] # p}
                /\ source' = source \ erasure[r].orphans
                /\ work' = [v \in Video |-> IF v \in works THEN "none" ELSE work[v]]
                /\ subscriber' = [v \in Video |-> subscriber[v] \ {p}]
                /\ creator' = [v \in Video |-> IF creator[v] = p THEN None ELSE creator[v]]
                /\ taken' = {a \in taken : a[1] # p}
        /\ UNCHANGED <<now, tx, faults>>

\* A statement fails, the connection is lost or the process dies.
Fault(r) ==
    /\ Erasing(r)
    /\ faults < MaxFaults
    /\ faults' = faults + 1
    /\ RolledBack(r)
    /\ UNCHANGED <<now, account, signInVars, studyVars, taken, tx>>

Tick ==
    /\ now < LastTime
    /\ now' = now + 1
    /\ UNCHANGED <<account, signInVars, studyVars, taken, tx, erasure, faults>>

Next ==
    \/ \E p \in Person, s \in Session : SignIn(p, s) \/ InsertSession(p, s)
    \/ \E s \in Session : Logout(s)
    \/ \E t \in Attempt, s \in Session : StartAccountDeletion(t, s)
    \/ \E t \in Attempt : Consume(t) \/ ExchangeFails(t)
    \/ \E t \in Attempt, p \in Person : MarkReauthenticated(t, p)
    \/ \E p \in Person, claim \in Claims : Begin(p, claim)
    \/ \E p \in Person, v \in Video : CommitItem(p, v) \/ CommitSubscription(p, v)
    \/ \E p \in Person : Rollback(p)
    \/ \E v \in Video : CommitWork(v)
    \/ \E q, p \in Person : TakeQuiz(q, p)
    \/ \E r \in Request, s \in Session : Ask(r, s)
    \/ \E r \in Request :
         Refuse(r) \/ Lock(r) \/ DeleteUser(r) \/ ClearWorks(r) \/ Finish(r) \/ Fault(r)
    \/ Tick

Spec == Init /\ [][Next]_vars

-----------------------------------------------------------------------------
(* Properties.                                                              *)

\* An account is deleted only through a session of its own that was verified
\* within ReauthTtl before the request, and that is still signed in when the
\* deletion commits, whatever logged out or was erased between the check of
\* the session and the last statement.  A mark exactly ReauthTtl old counts,
\* as the repository compares it (>=).
ErasedByOwner ==
    [][\A p \in account \ account' :
         \E r \in Request : Erasing(r) /\ Subject(r) = p /\ Verified(r)]_vars

\* What the others study stays: their items keep the source, and their
\* subscriptions the work, whatever was read as unused and joined before it
\* was deleted.
ReferencesHold ==
    /\ \A i \in item : i[2] \in source
    /\ \A v \in Video : subscriber[v] # {} => work[v] # "none"

\* Nothing of an erased account is left or can still be committed: no
\* session, item, subscription, event, quiz or open transaction.
NothingRemains ==
    /\ \A s \in Session : session[s].state \in {"live", "revoked"} => session[s].owner \in account
    /\ \A t \in Attempt : attempt[t].state = "open" => session[attempt[t].session].owner \in account
    /\ \A i \in item : i[1] \in account
    /\ \A v \in Video : subscriber[v] \cup ({creator[v]} \ {None}) \subseteq account
    /\ taken \subseteq account \X account
    /\ \A p \in Person : tx[p] # None => p \in account

\* The owner of the session proved at Google who they are, in time for the
\* callback and within ReauthTtl before the request.
Proof(r, t) ==
    /\ attempt[t].state = "closed"
    /\ attempt[t].session = erasure[r].session
    /\ attempt[t].subject = Subject(r)
    /\ attempt[t].at <= erasure[r].at
    /\ erasure[r].at <= attempt[t].at + ReauthTtl

\* The second proof of identity opens the deletion: DELETE /me through a
\* session that is signed in, whose owner has just verified, is not answered
\* reauth_required.
ProvenIsNotRefused ==
    [][\A r \in Request :
         /\ erasure[r].stage = "asked"
         /\ erasure'[r].stage = "idle"
         /\ LiveAt(erasure[r].session, erasure[r].at)
         => ~\E t \in Attempt : Proof(r, t)]_vars

\* Does not hold: an erasure that has locked its account deletes it, unless
\* a call fails.  Quizzes that others have taken restrict the deletion.
DeletionGoesThrough ==
    [][\A r \in Request :
         erasure[r].stage = "locked" /\ erasure'[r].stage = "idle" => faults' > faults]_vars

\* Does not hold: a verification exactly ReauthTtl old is too old.
ExpiredIsRefused ==
    [][\A r \in Request :
         Erasing(r)' /\ ~Erasing(r) =>
           session[erasure[r].session].verified + ReauthTtl # erasure[r].at]_vars
=============================================================================
