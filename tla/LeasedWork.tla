---------------------------- MODULE LeasedWork ----------------------------
(***************************************************************************)
(* What a leased work item promises, whatever component keeps it: an item  *)
(* is held under fencing tokens that are never reused, and it is settled   *)
(* at most once, either by the holder of its latest token or by being      *)
(* withdrawn.  Both the outbox rows (WorkOutbox) and the job claims        *)
(* (DurableJob) implement this module.                                     *)
(***************************************************************************)
EXTENDS Naturals

CONSTANTS
    Item,       \* the leased items
    Outcome,    \* the verdicts a holder may settle an item with
    Withdrawn,  \* the verdict of an item its requester called off
    None        \* no verdict yet

VARIABLES
    issued,     \* issued[i]: the last fencing token handed out for i
    holder,     \* holder[i]: the token i is held under, 0 when it is free
    live,       \* live[i]: i is held and the lease has not run out
    verdict     \* verdict[i]: how i was settled, None while it is open

lwVars == <<issued, holder, live, verdict>>

TypeOK ==
    /\ issued \in [Item -> Nat]
    /\ holder \in [Item -> Nat]
    /\ live \in [Item -> BOOLEAN]
    /\ verdict \in [Item -> Outcome \cup {Withdrawn, None}]

Init ==
    /\ issued = [i \in Item |-> 0]
    /\ holder = [i \in Item |-> 0]
    /\ live = [i \in Item |-> FALSE]
    /\ verdict = [i \in Item |-> None]

\* The items of S are taken, free or from a holder whose lease ran out; each
\* gets a token of its own that nobody has seen before.
Take(S) ==
    /\ \A i \in S : verdict[i] = None /\ (holder[i] = 0 \/ ~live[i])
    /\ issued' = [i \in Item |-> IF i \in S THEN issued[i] + 1 ELSE issued[i]]
    /\ holder' = [i \in Item |-> IF i \in S THEN issued[i] + 1 ELSE holder[i]]
    /\ live' = [i \in Item |-> i \in S \/ live[i]]
    /\ UNCHANGED verdict

\* The leases of S run out; the holders keep their tokens until somebody else
\* takes the items.
Lapse(S) ==
    /\ live' = [i \in Item |-> live[i] /\ i \notin S]
    /\ UNCHANGED <<issued, holder, verdict>>

Free(i) ==
    /\ holder' = [holder EXCEPT ![i] = 0]
    /\ live' = [live EXCEPT ![i] = FALSE]
    /\ UNCHANGED issued

\* The holder gives i back unsettled.
Drop(i) ==
    /\ holder[i] # 0
    /\ Free(i)
    /\ UNCHANGED verdict

\* The holder of i settles it; the item is free for good.
Settle(i, o) ==
    /\ verdict[i] = None
    /\ holder[i] # 0
    /\ Free(i)
    /\ verdict' = [verdict EXCEPT ![i] = o]

\* The item is called off by its requester, whoever holds it.
Withdraw(i) ==
    /\ verdict[i] = None
    /\ Free(i)
    /\ verdict' = [verdict EXCEPT ![i] = Withdrawn]

Next ==
    \/ \E S \in SUBSET Item : Take(S) \/ Lapse(S)
    \/ \E i \in Item : Drop(i) \/ Withdraw(i)
    \/ \E i \in Item, o \in Outcome : Settle(i, o)

Spec == Init /\ [][Next]_lwVars
=============================================================================
