----------------------------- MODULE MCAccounts -----------------------------
(* Small instances of Accounts for TLC. *)
EXTENDS Accounts, TLC

Symmetry == Permutations(Person) \cup Permutations(Session) \cup Permutations(Attempt)
            \cup Permutations(Video) \cup Permutations(Request)

\* TLC leaves a function unevaluated until something looks at all of it, and its
\* workers would then share it: the view looks at every variable.
Evaluated == vars = vars

\* Of a session that is over only its owner is read again, of a verification
\* that is closed nothing is.
\* A failed erasure leaves a state that is reached without it as well.
View ==
    <<now, account,
      [s \in Session |->
         IF session[s].state = "live" THEN session[s]
         ELSE [state |-> session[s].state, owner |-> session[s].owner]],
      [t \in Attempt |->
         IF attempt[t].state # "closed" THEN attempt[t] ELSE [state |-> "closed"]],
      studyVars, taken, tx, erasure, Evaluated>>

\* Items, works and quizzes are not read together: one of them at a time.
Studies == item # {} \/ \E p \in Person : tx[p] # None /\ tx[p][1] \in {"watch", "add"}
Subscribes == \E v \in Video : work[v] # "none"
              \/ \E p \in Person : tx[p] # None /\ tx[p][1] \in {"join", "create"}
OneKind ==
    /\ ~(Studies /\ Subscribes)
    /\ taken # {} => ~Studies /\ ~Subscribes
=============================================================================
