-------------------------- MODULE AgentRun_proofs --------------------------
(***************************************************************************)
(* Proofs about AgentRun, for any workers, steps, budgets and bounds.      *)
(***************************************************************************)
EXTENDS AgentRun, FiniteSetTheorems, WellFoundedInduction, TLAPS

(* The inductive invariant: what the runs check, and what it rests on.     *)

\* A worker that is not idle has an attempt.
Busy == \A w \in Worker : work[w].at # "idle" => Mine(w) \in Attempt

Begun == state = None <=> tries = 0

\* Every new plan comes with a new version.
SeenBefore ==
    /\ seen.version <= version
    /\ seen.version = version => seen.plan = plan

BeforeCourse ==
    course = 0 => steps = {} /\ \A i \in Item : item[i] = None /\ events[i] = 0

\* Only the retrieval of a step from a post is not sent at once.
AfterCourse ==
    course # 0 => \A i \in Item : item[i] # None /\ (events[i] = 0 => ~SentAtOnce(i))

Appended == \A i \in Item, e \in 1..MaxEvents : <<i, e>> \in told => e <= events[i]

\* A video is not done before the retrieval of its step was sent.
Handed ==
    \A p \in Posted, e \in 1..MaxEvents :
        /\ verdict[<<<<p, "video">>, e>>] = "completed" => <<<<p, "video">>, e>> \in handed
        /\ <<<<p, "video">>, e>> \in handed => events[<<p, "retrieval">>] > 0

Awaited ==
    \A i \in Item : item[i] = "queued" /\ Settleable(i) /\ events[i] > 0
                       => \E e \in 1..events[i] : <<i, e>> \notin told

IInv == /\ TypeOK /\ Busy /\ BudgetKept /\ RunFollowsAttempts /\ Begun /\ SeenBefore
        /\ BeforeCourse /\ AfterCourse /\ RunFollowsItems
        /\ Appended /\ Handed /\ Awaited

-----------------------------------------------------------------------------
(***************************************************************************)
(* Sums over finite sets, as the community modules define them.  A sum is  *)
(* a function defined by recursion on sets; what is said of it follows     *)
(* from a smallest counterexample.                                         *)
(***************************************************************************)

\* The element that the fold takes next.
Pick(s) == CHOOSE x \in s : TRUE

\* g[s] is the sum of f over s, for every s that is a part of S.
IsSum(g, f, S) ==
    g = [s \in SUBSET S |-> IF s = {} THEN 0 ELSE f[Pick(s)] + g[s \ {Pick(s)}]]

Total(f, S) == MapThenSumSet(LAMBDA x : f[x], S)

\* A set of numbers that is not empty has a least one.
LEMMA Least ==
    ASSUME NEW T \in SUBSET Nat, T # {}
    PROVE  \E x \in T : \A y \in T : x <= y
<1> DEFINE R == OpToRel(<, Nat)
<1>1. IsWellFoundedOn(R, Nat)
  BY NatLessThanWellFounded
<1>2. \A a, b \in Nat : a < b => <<a, b>> \in R
  <2> TAKE a, b \in Nat
  <2>1. HAVE a < b
  <2>2. <<a, b>> \in Nat \X Nat
    OBVIOUS
  <2>3. <<a, b>>[1] < <<a, b>>[2]
    BY <2>1
  <2>4. QED
    BY <2>2, <2>3, Zenon DEF OpToRel
<1> HIDE DEF R
<1>3. \E x \in T : \A y \in T : ~(<<y, x>> \in R)
  BY <1>1, WFMin
<1>4. PICK x \in T : \A y \in T : ~(<<y, x>> \in R)
  BY <1>3
<1>5. ASSUME NEW y \in T PROVE x <= y
  <2>1. x \in Nat /\ y \in Nat
    OBVIOUS
  <2>2. ~(y < x)
    BY <1>2, <1>4, <2>1
  <2>3. QED
    BY <2>1, <2>2
<1>6. QED
  BY <1>5

\* Of the parts of S in a set of them one has the fewest elements.
LEMMA Smallest ==
    ASSUME NEW S, IsFiniteSet(S), NEW C \in SUBSET (SUBSET S), C # {}
    PROVE  \E T \in C : \A U \in SUBSET T : U # T => U \notin C
<1> DEFINE sizes == {Cardinality(T) : T \in C}
<1>1. \A T \in C : IsFiniteSet(T) /\ Cardinality(T) \in Nat
  BY FS_Subset, FS_CardinalityType
<1>2. sizes \in SUBSET Nat /\ sizes # {}
  BY <1>1
<1> HIDE DEF sizes
<1>3. PICK n \in sizes : \A m \in sizes : n <= m
  BY <1>2, Least
<1>4. PICK T \in C : Cardinality(T) = n
  BY <1>3 DEF sizes
<1>5. ASSUME NEW U \in SUBSET T, U # T, U \in C PROVE FALSE
  <2>1. Cardinality(U) <= Cardinality(T) /\ Cardinality(U) # Cardinality(T)
    BY <1>1, <1>5, FS_Subset
  <2>2. Cardinality(U) \in sizes
    BY <1>5 DEF sizes
  <2>3. QED
    BY <1>1, <1>2, <1>3, <1>4, <1>5, <2>1, <2>2
<1>6. QED
  BY <1>5

LEMMA PickIn ==
    ASSUME NEW s, s # {}
    PROVE  Pick(s) \in s
BY DEF Pick

LEMMA SumValue ==
    ASSUME NEW S, NEW f, NEW g, IsSum(g, f, S), NEW s \in SUBSET S
    PROVE  g[s] = IF s = {} THEN 0 ELSE f[Pick(s)] + g[s \ {Pick(s)}]
<1> DEFINE value(t) == IF t = {} THEN 0 ELSE f[Pick(t)] + g[t \ {Pick(t)}]
<1>1. g = [t \in SUBSET S |-> value(t)]
  BY DEF IsSum
<1> HIDE DEF value
<1>2. g[s] = value(s)
  BY <1>1
<1>3. QED
  BY <1>2 DEF value

LEMMA SumEmpty ==
    ASSUME NEW S, NEW f, NEW g, IsSum(g, f, S)
    PROVE  g[{}] = 0
BY SumValue

LEMMA SumNext ==
    ASSUME NEW S, NEW f, NEW g, IsSum(g, f, S), NEW s \in SUBSET S, s # {}
    PROVE  /\ g[s] = f[Pick(s)] + g[s \ {Pick(s)}]
           /\ Pick(s) \in s
BY SumValue, PickIn

\* The sums over a part of S are the same whether S is summed or the part.
LEMMA SumUnique ==
    ASSUME NEW S, IsFiniteSet(S), NEW T \in SUBSET S, NEW f, NEW g, NEW h,
           IsSum(g, f, S), IsSum(h, f, T)
    PROVE  \A U \in SUBSET T : g[U] = h[U]
<1> DEFINE C == {U \in SUBSET T : g[U] # h[U]}
<1>1. SUFFICES ASSUME C # {} PROVE FALSE
  OBVIOUS
<1>2. C \in SUBSET (SUBSET S)
  OBVIOUS
<1> HIDE DEF C
<1>3. PICK U \in C : \A V \in SUBSET U : V # U => V \notin C
  BY <1>1, <1>2, Smallest
<1>4. U \in SUBSET S /\ U \in SUBSET T /\ g[U] # h[U]
  BY DEF C
<1>5. U # {}
  <2>1. g[{}] = 0 /\ h[{}] = 0
    BY SumEmpty
  <2>2. QED
    BY <1>4, <2>1
<1> DEFINE V == U \ {Pick(U)}
<1>6. g[U] = f[Pick(U)] + g[V] /\ Pick(U) \in U
  BY <1>4, <1>5, SumNext
<1>7. V \in SUBSET U /\ V # U
  BY <1>6
<1>8. h[U] = f[Pick(U)] + h[V]
  BY <1>4, <1>5, SumNext
<1> HIDE DEF V
<1>9. g[V] = h[V]
  BY <1>3, <1>4, <1>7 DEF C
<1>10. QED
  BY <1>4, <1>6, <1>8, <1>9

\* Every finite set can be summed.
LEMMA SumExists ==
    ASSUME NEW S, IsFiniteSet(S), NEW f
    PROVE  \E g : IsSum(g, f, S)
<1> DEFINE C == {U \in SUBSET S : ~\E g : IsSum(g, f, U)}
<1>1. SUFFICES ASSUME C # {} PROVE FALSE
  OBVIOUS
<1>2. C \in SUBSET (SUBSET S)
  OBVIOUS
<1> HIDE DEF C
<1>3. PICK T \in C : \A V \in SUBSET T : V # T => V \notin C
  BY <1>2, <1>1, Smallest
<1> DEFINE of(V) == CHOOSE g : IsSum(g, f, V)
<1>4. ASSUME NEW V \in SUBSET T, V # T PROVE IsSum(of(V), f, V)
  BY <1>2, <1>3, <1>4 DEF C
<1> HIDE DEF of
<1> DEFINE rest(V) == V \ {Pick(V)}
           h == [V \in SUBSET T |-> IF V = {} THEN 0 ELSE f[Pick(V)] + of(rest(V))[rest(V)]]
<1>5. ASSUME NEW V \in SUBSET T, V # {}, V # T PROVE h[V] = of(V)[V]
  <2>1. rest(V) \in SUBSET V /\ rest(V) # T
    BY <1>5, PickIn
  <2>2. of(V)[V] = f[Pick(V)] + of(V)[rest(V)]
    BY <1>4, <1>5, SumNext
  <2>3. IsFiniteSet(V)
    BY <1>2, <1>5, FS_Subset
  <2>4. of(V)[rest(V)] = of(rest(V))[rest(V)]
    BY <1>4, <1>5, <2>1, <2>3, SumUnique
  <2>5. QED
    BY <1>5, <2>2, <2>4
<1>6. ASSUME NEW V \in SUBSET T, V # {} PROVE of(rest(V))[rest(V)] = h[rest(V)]
  <2>1. rest(V) \in SUBSET T /\ rest(V) # T
    BY <1>6, PickIn
  <2>2. CASE rest(V) # {}
    BY <1>5, <2>1, <2>2
  <2>3. CASE rest(V) = {}
    <3>1. IsSum(of({}), f, {})
      BY <1>4, <2>1, <2>3
    <3>2. of({})[{}] = 0
      BY <3>1, SumEmpty
    <3>3. QED
      BY <2>3, <3>2
  <2>4. QED
    BY <2>2, <2>3
<1>7. h = [V \in SUBSET T |-> IF V = {} THEN 0 ELSE f[Pick(V)] + h[rest(V)]]
  <2> DEFINE k == [V \in SUBSET T |-> IF V = {} THEN 0 ELSE f[Pick(V)] + h[rest(V)]]
  <2>1. ASSUME NEW V \in SUBSET T PROVE h[V] = k[V]
    BY <1>6, <2>1
  <2>2. QED
    BY <2>1
<1>8. IsSum(h, f, T)
  BY <1>7 DEF IsSum
<1>9. QED
  BY <1>2, <1>3, <1>8 DEF C

LEMMA TotalIsSum ==
    ASSUME NEW D, IsFiniteSet(D), NEW f, NEW g, IsSum(g, f, D), NEW T \in SUBSET D
    PROVE  Total(f, T) = g[T]
<1> DEFINE h == CHOOSE k : IsSum(k, f, T)
<1>1. Total(f, T) = h[T]
  BY Zenon DEF Total, MapThenSumSet, MapThenFoldSet, IsSum, Pick
<1>2. IsFiniteSet(T)
  BY FS_Subset
<1>3. IsSum(h, f, T)
  BY <1>2, SumExists
<1> HIDE DEF h
<1>4. g[T] = h[T]
  BY <1>3, SumUnique
<1>5. QED
  BY <1>1, <1>4

\* Weights of nothing but zero come to zero.
LEMMA TotalZero ==
    ASSUME NEW D, IsFiniteSet(D), NEW f \in [D -> Nat], \A x \in D : f[x] = 0
    PROVE  Total(f, D) = 0
<1>1. PICK g : IsSum(g, f, D)
  BY SumExists
<1> DEFINE C == {T \in SUBSET D : g[T] # 0}
<1>2. ASSUME C # {} PROVE FALSE
  <2>1. C \in SUBSET (SUBSET D)
    OBVIOUS
  <2>2. PICK T \in C : \A U \in SUBSET T : U # T => U \notin C
    <3> HIDE DEF C
    <3> QED BY <1>2, <2>1, Smallest
  <2>3. T # {}
    BY <1>1, SumEmpty
  <2>4. g[T] = f[Pick(T)] + g[T \ {Pick(T)}] /\ Pick(T) \in T
    BY <1>1, <2>3, SumNext
  <2>5. g[T \ {Pick(T)}] = 0
    BY <2>2, <2>4
  <2>6. f[Pick(T)] = 0
    BY <2>4
  <2> QED BY <2>4, <2>5, <2>6
<1>3. g[D] = 0
  BY <1>2
<1> QED BY <1>1, <1>3, TotalIsSum

\* The total follows the change of one weight.
LEMMA TotalChanged ==
    ASSUME NEW D, IsFiniteSet(D), NEW f \in [D -> Nat], NEW k \in [D -> Nat],
           NEW x \in D, \A y \in D : y # x => k[y] = f[y]
    PROVE  /\ Total(f, D) \in Nat /\ f[x] <= Total(f, D)
           /\ Total(k, D) = Total(f, D) - f[x] + k[x]
<1>1. PICK g : IsSum(g, f, D)
  BY SumExists
<1>2. PICK h : IsSum(h, k, D)
  BY SumExists
<1> DEFINE Follows(T) == /\ g[T] \in Nat
                         /\ x \notin T => h[T] = g[T]
                         /\ x \in T => f[x] <= g[T] /\ h[T] = g[T] - f[x] + k[x]
           C == {T \in SUBSET D : ~Follows(T)}
<1>3. ASSUME C # {} PROVE FALSE
  <2>1. C \in SUBSET (SUBSET D)
    OBVIOUS
  <2>2. PICK T \in C : \A U \in SUBSET T : U # T => U \notin C
    <3> HIDE DEF C
    <3> QED BY <1>3, <2>1, Smallest
  <2>3. T \in SUBSET D /\ ~Follows(T)
    BY <2>2
  <2>4. T # {}
    <3>1. g[{}] = 0 /\ h[{}] = 0
      BY <1>1, <1>2, SumEmpty
    <3> QED BY <2>3, <3>1
  <2> DEFINE y == Pick(T)
             R == T \ {y}
  <2>5. /\ y \in T /\ g[T] = f[y] + g[R] /\ h[T] = k[y] + h[R]
    <3>1. T \in SUBSET D /\ T # {}
      BY <2>3, <2>4
    <3>2. g[T] = f[Pick(T)] + g[T \ {Pick(T)}] /\ Pick(T) \in T
      BY ONLY <1>1, <3>1, SumNext
    <3>3. h[T] = k[Pick(T)] + h[T \ {Pick(T)}]
      BY ONLY <1>2, <3>1, SumNext
    <3> QED BY <3>2, <3>3
  <2> HIDE DEF y
  <2>6. Follows(R)
    BY <2>2, <2>3, <2>5
  <2>7. f[y] \in Nat /\ k[y] \in Nat /\ f[x] \in Nat /\ k[x] \in Nat
    BY <2>3, <2>5
  <2>8. CASE x \notin T
    BY <2>3, <2>5, <2>6, <2>7, <2>8
  <2>9. CASE x \in T /\ y = x
    <3>1. x \notin R /\ g[R] \in Nat /\ h[R] = g[R]
      BY <2>6, <2>9
    <3> HIDE DEF R
    <3> QED BY <2>3, <2>5, <2>7, <2>9, <3>1
  <2>10. CASE x \in T /\ y # x
    <3>1. x \in R /\ g[R] \in Nat /\ f[x] <= g[R] /\ h[R] = g[R] - f[x] + k[x]
      BY <2>6, <2>10
    <3>2. k[y] = f[y]
      BY <2>3, <2>5, <2>10
    <3> HIDE DEF R
    <3> QED BY <2>3, <2>5, <2>7, <2>10, <3>1, <3>2
  <2> QED BY <2>8, <2>9, <2>10
<1>4. Follows(D)
  BY <1>3
<1> HIDE DEF Follows
<1>5. Total(f, D) = g[D] /\ Total(k, D) = h[D]
  BY <1>1, <1>2, TotalIsSum
<1> QED BY <1>4, <1>5 DEF Follows

-----------------------------------------------------------------------------
(* Usage. *)

LEMMA Bounds ==
    /\ MaxAttempts \in Nat /\ MaxEvents \in Nat /\ MaxFaults \in Nat
    /\ MaxAttempts >= 1 /\ MaxEvents >= 1
    /\ CallBudget \in Nat /\ TokenBudget \in Nat
    /\ Attempt \subseteq Nat \ {0} /\ 1 \in Attempt /\ IsFiniteSet(Attempt)
    /\ Nothing \in Usage /\ OneCall \in Usage /\ Budget \in Usage
<1>1. IsFiniteSet(Attempt)
  BY AgentRunConstants, FS_Interval DEF Attempt
<1> QED BY <1>1, AgentRunConstants DEF Attempt, Nothing, OneCall, Budget, Usage

LEMMA UsageAdds ==
    ASSUME NEW u \in Usage, NEW v \in Usage
    PROVE  /\ Plus(u, v) \in Usage
           /\ Within(v, u) => Minus(u, v) \in Usage
BY DEF Usage, Plus, Minus, Within

SumOf(u) == [calls |-> Total([a \in Attempt |-> u[a].calls], Attempt),
             tokens |-> Total([a \in Attempt |-> u[a].tokens], Attempt)]

\* The fold of calls is the total of calls.
LEMMA CallsTotal ==
    ASSUME NEW u
    PROVE  MapThenSumSet(LAMBDA a : u[a].calls, Attempt)
               = Total([a \in Attempt |-> u[a].calls], Attempt)
<1> DEFINE f == [a \in Attempt |-> u[a].calls]
           Fold(g) == g = [s \in SUBSET Attempt |->
                             IF s = {} THEN 0 ELSE u[Pick(s)].calls + g[s \ {Pick(s)}]]
           h == CHOOSE g : Fold(g)
<1>1. MapThenSumSet(LAMBDA a : u[a].calls, Attempt) = h[Attempt]
  BY Zenon DEF MapThenSumSet, MapThenFoldSet, Pick
<1>2. ASSUME NEW g PROVE Fold(g) <=> IsSum(g, f, Attempt)
  <2>1. \A s \in SUBSET Attempt : s # {} => f[Pick(s)] = u[Pick(s)].calls
    BY PickIn
  <2> HIDE DEF f
  <2>2. [s \in SUBSET Attempt |-> IF s = {} THEN 0 ELSE u[Pick(s)].calls + g[s \ {Pick(s)}]]
         = [s \in SUBSET Attempt |-> IF s = {} THEN 0 ELSE f[Pick(s)] + g[s \ {Pick(s)}]]
    BY <2>1
  <2> QED BY <2>2 DEF IsSum
<1> HIDE DEF Fold, f
<1>3. PICK g : IsSum(g, f, Attempt)
  BY Bounds, SumExists
<1>4. IsSum(h, f, Attempt)
  BY <1>2, <1>3
<1> HIDE DEF h
<1>5. Total(f, Attempt) = h[Attempt]
  BY <1>4, Bounds, TotalIsSum
<1> QED BY <1>1, <1>5 DEF f

LEMMA TokensTotal ==
    ASSUME NEW u
    PROVE  MapThenSumSet(LAMBDA a : u[a].tokens, Attempt)
               = Total([a \in Attempt |-> u[a].tokens], Attempt)
<1> DEFINE f == [a \in Attempt |-> u[a].tokens]
           Fold(g) == g = [s \in SUBSET Attempt |->
                             IF s = {} THEN 0 ELSE u[Pick(s)].tokens + g[s \ {Pick(s)}]]
           h == CHOOSE g : Fold(g)
<1>1. MapThenSumSet(LAMBDA a : u[a].tokens, Attempt) = h[Attempt]
  BY Zenon DEF MapThenSumSet, MapThenFoldSet, Pick
<1>2. ASSUME NEW g PROVE Fold(g) <=> IsSum(g, f, Attempt)
  <2>1. \A s \in SUBSET Attempt : s # {} => f[Pick(s)] = u[Pick(s)].tokens
    BY PickIn
  <2> HIDE DEF f
  <2>2. [s \in SUBSET Attempt |-> IF s = {} THEN 0 ELSE u[Pick(s)].tokens + g[s \ {Pick(s)}]]
         = [s \in SUBSET Attempt |-> IF s = {} THEN 0 ELSE f[Pick(s)] + g[s \ {Pick(s)}]]
    BY <2>1
  <2> QED BY <2>2 DEF IsSum
<1> HIDE DEF Fold, f
<1>3. PICK g : IsSum(g, f, Attempt)
  BY Bounds, SumExists
<1>4. IsSum(h, f, Attempt)
  BY <1>2, <1>3
<1> HIDE DEF h
<1>5. Total(f, Attempt) = h[Attempt]
  BY <1>4, Bounds, TotalIsSum
<1> QED BY <1>1, <1>5 DEF f

LEMMA UsageIsSum == \A u : UsageOf(u) = SumOf(u)
BY CallsTotal, TokensTotal DEF UsageOf, SumOf

LEMMA SumOfNothing ==
    ASSUME NEW u, u = [a \in Attempt |-> Nothing]
    PROVE  SumOf(u) = Nothing
<1> DEFINE f == [a \in Attempt |-> u[a].calls]
           g == [a \in Attempt |-> u[a].tokens]
<1>1. f \in [Attempt -> Nat] /\ g \in [Attempt -> Nat] /\ \A a \in Attempt : f[a] = 0 /\ g[a] = 0
  BY DEF Nothing
<1>2. SumOf(u) = [calls |-> Total(f, Attempt), tokens |-> Total(g, Attempt)]
  BY DEF SumOf
<1> HIDE DEF f, g
<1>3. Total(f, Attempt) = 0 /\ Total(g, Attempt) = 0
  BY <1>1, Bounds, TotalZero
<1> QED BY <1>2, <1>3 DEF Nothing

\* The sum follows the usage of one attempt.
LEMMA SumOfChanged ==
    ASSUME NEW u \in [Attempt -> Usage], NEW x \in Attempt, NEW r \in Usage,
           NEW v, v = [u EXCEPT ![x] = r]
    PROVE  /\ SumOf(u) \in Usage
           /\ Within(u[x], SumOf(u))
           /\ SumOf(v) = Plus(Minus(SumOf(u), u[x]), r)
<1> DEFINE f == [a \in Attempt |-> u[a].calls]
           g == [a \in Attempt |-> u[a].tokens]
           h == [a \in Attempt |-> v[a].calls]
           k == [a \in Attempt |-> v[a].tokens]
<1>1. /\ f \in [Attempt -> Nat] /\ g \in [Attempt -> Nat]
      /\ f[x] = u[x].calls /\ g[x] = u[x].tokens
  BY DEF Usage
<1>2. v \in [Attempt -> Usage] /\ v[x] = r /\ \A y \in Attempt : y # x => v[y] = u[y]
  OBVIOUS
<1>3. /\ h \in [Attempt -> Nat] /\ k \in [Attempt -> Nat]
      /\ h[x] = r.calls /\ k[x] = r.tokens
      /\ \A y \in Attempt : y # x => h[y] = f[y] /\ k[y] = g[y]
  BY <1>2 DEF Usage
<1>4. /\ SumOf(u) = [calls |-> Total(f, Attempt), tokens |-> Total(g, Attempt)]
      /\ SumOf(v) = [calls |-> Total(h, Attempt), tokens |-> Total(k, Attempt)]
  BY DEF SumOf
<1> HIDE DEF f, g, h, k
<1>5. /\ Total(f, Attempt) \in Nat /\ f[x] <= Total(f, Attempt)
      /\ Total(h, Attempt) = Total(f, Attempt) - f[x] + h[x]
  <2>1. IsFiniteSet(Attempt) /\ x \in Attempt /\ \A y \in Attempt : y # x => h[y] = f[y]
    BY <1>3, Bounds
  <2>2. f \in [Attempt -> Nat] /\ h \in [Attempt -> Nat]
    BY <1>1, <1>3
  <2> QED BY ONLY <2>1, <2>2, TotalChanged
<1>6. /\ Total(g, Attempt) \in Nat /\ g[x] <= Total(g, Attempt)
      /\ Total(k, Attempt) = Total(g, Attempt) - g[x] + k[x]
  <2>1. IsFiniteSet(Attempt) /\ x \in Attempt /\ \A y \in Attempt : y # x => k[y] = g[y]
    BY <1>3, Bounds
  <2>2. g \in [Attempt -> Nat] /\ k \in [Attempt -> Nat]
    BY <1>1, <1>3
  <2> QED BY ONLY <2>1, <2>2, TotalChanged
<1> QED BY <1>1, <1>3, <1>4, <1>5, <1>6 DEF Usage, Plus, Minus, Within
-----------------------------------------------------------------------------
(* What steps do, as far as the parts of the invariant tell them apart. *)

Attempting(w) ==
    \/ Reserve(w) \/ ReserveFails(w) \/ Call(w) \/ Complete(w) \/ CompleteFails(w)
    \/ Audit(w) \/ Fail(w) \/ Crash(w)

Takes(w) ==
    /\ Holds(w) /\ Fits(work[w].reservation) /\ TakeRoom(w)
    /\ UNCHANGED <<tries, attempt, lease, live, issued, state, version, cancelling, plan, course>>

Plans(w) == Holds(w) /\ Reconciles(w) /\ TakePlan(w)

Loses(w) == Holds(w) /\ Reconciles(w) /\ FailRun(w)

\* A worker on its attempt takes room, brings a plan or a failure, or leaves the
\* run as it is.
LEMMA WorkerEffects ==
    ASSUME NEW w \in Worker, Attempting(w)
    PROVE  /\ UNCHANGED <<itemVars, offerVars, seen, overtime>>
           /\ work[w].at # "idle"
           /\ \/ UNCHANGED <<attemptVars, runVars>>
              \/ Takes(w) \/ Plans(w) \/ Loses(w)
<1>1. CASE Reserve(w)
  BY <1>1 DEF Reserve, otherThanUsage, Takes, attemptVars, runVars
<1>2. CASE ReserveFails(w)
  BY <1>2 DEF ReserveFails, otherThanUsage, Takes, attemptVars, runVars
<1>3. CASE Call(w)
  BY <1>3 DEF Call
<1>4. CASE Complete(w)
  BY <1>4 DEF Complete, Plans
<1>5. CASE CompleteFails(w)
  BY <1>5 DEF CompleteFails, Plans
<1>6. CASE Audit(w)
  BY <1>6 DEF Audit
<1>7. CASE Fail(w)
  BY <1>7 DEF Fail, Loses
<1>8. CASE Crash(w)
  BY <1>8 DEF Crash
<1> QED BY <1>1, <1>2, <1>3, <1>4, <1>5, <1>6, <1>7, <1>8 DEF Attempting

\* Steps of the jobs, but for the settlement of their items.
OfJobs ==
    \/ \E p \in Step, e \in 1..MaxEvents : HandOver(p, e)
    \/ \E i \in Item, e \in 1..MaxEvents : JobEnds(i, e) \/ JobIsLost(i, e) \/ Replay(i, e)

LEMMA JobEffects ==
    ASSUME OfJobs
    PROVE  UNCHANGED <<attemptVars, runVars, steps, item, told, offerVars, seen, overtime, work>>
<1>1. ASSUME NEW p \in Step, NEW e \in 1..MaxEvents, HandOver(p, e)
      PROVE  UNCHANGED <<attemptVars, runVars, steps, item, told, offerVars, seen, overtime, work>>
  BY <1>1 DEF HandOver
<1>2. ASSUME NEW i \in Item, NEW e \in 1..MaxEvents, JobEnds(i, e) \/ JobIsLost(i, e) \/ Replay(i, e)
      PROVE  UNCHANGED <<attemptVars, runVars, steps, item, told, offerVars, seen, overtime, work>>
  BY <1>2 DEF JobEnds, JobIsLost, Replay
<1> QED BY <1>1, <1>2 DEF OfJobs

\* Steps of the owner that change neither the attempts nor the state of the run.
Aside == Look \/ (\E kept \in SUBSET Step : EditCourse(kept)) \/ Offer \/ RunOutOfTime

LEMMA AsideEffects ==
    ASSUME Aside
    PROVE  UNCHANGED <<attemptVars, runVars, item, handed, verdict, told, work, faults>>
BY DEF Aside, Look, EditCourse, Offer, RunOutOfTime, itemVars

\* Every step is one of these.
LEMMA Steps ==
    ASSUME Next
    PROVE  \/ Create \/ Cancel \/ RetryPlan \/ RetryWork \/ Approve \/ Aside
           \/ \E d \in {"approved", "dismissed", "expired"} : Decide(d)
           \/ \E w \in Worker : Attempting(w) \/ \E a \in Attempt : Claim(w, a)
           \/ \E a \in Attempt : Expire(a)
           \/ OfJobs
           \/ \E i \in Item, e \in 1..MaxEvents : Settle(i, e)
BY Zenon DEF Next, WorkerStep, JobStep, Attempting, Aside, OfJobs

-----------------------------------------------------------------------------
(* Types. *)

RunTyped ==
    /\ state \in {None, "queued", "running", "awaiting_approval", "approved",
                  "completed", "failed", "cancelled"}
    /\ version \in Nat
    /\ cancelling \in BOOLEAN
    /\ spent \in Usage
    /\ plan \in 0..MaxAttempts
    /\ course \in 0..MaxAttempts

AttemptsTyped ==
    /\ tries \in 0..MaxAttempts
    /\ attempt \in [Attempt -> {None, "queued", "running", "completed", "failed", "cancelled"}]
    /\ lease \in [Attempt -> Nat]
    /\ live \in [Attempt -> BOOLEAN]
    /\ used \in [Attempt -> Usage]
    /\ issued \in Nat

ItemsTyped ==
    /\ steps \subseteq Step
    /\ item \in [Item -> {None, "queued", "completed", "failed"}]
    /\ events \in [Item -> 0..MaxEvents]
    /\ handed \subseteq Event
    /\ verdict \in [Event -> {None, "completed", "failed", "lost"}]
    /\ told \subseteq Event

OwnerTyped ==
    /\ proposal \in {None, "pending", "approved", "dismissed", "expired"}
    /\ offered \in 0..MaxAttempts
    /\ seen \in [version : Nat, plan : 0..MaxAttempts]
    /\ overtime \in BOOLEAN
    /\ faults \in 0..MaxFaults

Doing == [at : WorkStep, attempt : 0..MaxAttempts, token : Nat,
          version : Nat, reservation : Usage, usage : Usage]

WorkersTyped == work \in [Worker -> Doing]

LEMMA TypeParts ==
    TypeOK <=> RunTyped /\ AttemptsTyped /\ ItemsTyped /\ OwnerTyped /\ WorkersTyped
BY DEF TypeOK, RunTyped, AttemptsTyped, ItemsTyped, OwnerTyped, WorkersTyped, Doing

LEMMA TypePartsNext ==
    TypeOK' <=> RunTyped' /\ AttemptsTyped' /\ ItemsTyped' /\ OwnerTyped' /\ WorkersTyped'
BY DEF TypeOK, RunTyped, AttemptsTyped, ItemsTyped, OwnerTyped, WorkersTyped, Doing

LEMMA InitTyped == Init => TypeOK
<1> SUFFICES ASSUME Init PROVE TypeOK
  OBVIOUS
<1> 0 \in 0..MaxAttempts /\ 0 \in 0..MaxEvents /\ 0 \in 0..MaxFaults
  BY Bounds
<1>1. RunTyped /\ AttemptsTyped
  <2>1. RunTyped
    BY Bounds DEF Init, RunTyped
  <2>2. AttemptsTyped
    BY Bounds DEF Init, AttemptsTyped
  <2> QED BY <2>1, <2>2
<1>2. ItemsTyped
  BY DEF Init, ItemsTyped
<1>3. OwnerTyped
  <2>1. seen \in [version : Nat, plan : 0..MaxAttempts]
    BY DEF Init
  <2> QED BY <2>1 DEF Init, OwnerTyped
<1>4. Idle \in Doing
  BY Bounds DEF Idle, Doing, WorkStep
<1>5. WorkersTyped
  BY <1>4 DEF Init, WorkersTyped
<1> QED BY <1>1, <1>2, <1>3, <1>5, TypeParts

\* What w is doing.
LEMMA DoingOf ==
    ASSUME IInv, NEW w \in Worker
    PROVE  /\ work[w] \in Doing
           /\ work[w].reservation \in Usage /\ work[w].usage \in Usage
           /\ work[w].token \in Nat /\ work[w].version \in Nat
           /\ Mine(w) \in 0..MaxAttempts
           /\ work[w].at # "idle" => Mine(w) \in Attempt
<1>1. work[w] \in Doing
  BY TypeParts DEF IInv, WorkersTyped
<1> QED BY <1>1 DEF IInv, Busy, Doing, Mine

\* The usage of an attempt is part of what is spent.
LEMMA SpentHolds ==
    ASSUME IInv, NEW a \in Attempt
    PROVE  /\ used[a] \in Usage /\ spent \in Usage
           /\ Within(used[a], spent)
<1>1. used \in [Attempt -> Usage] /\ used[a] \in Usage /\ spent \in Usage
  BY TypeParts DEF IInv, RunTyped, AttemptsTyped
<1>2. spent = SumOf(used)
  BY UsageIsSum DEF IInv, BudgetKept
<1>3. [used EXCEPT ![a] = used[a]] = used
  BY <1>1
<1>4. Within(used[a], SumOf(used))
  BY <1>1, SumOfChanged
<1> QED BY <1>1, <1>2, <1>4

\* What remains when the usage of w takes the place of what is reserved.
LEMMA ReconcileTyped ==
    ASSUME IInv, NEW w \in Worker, Mine(w) \in Attempt, Reconcile(w)
    PROVE  spent' \in Usage /\ used' \in [Attempt -> Usage]
<1>1. used[Mine(w)] \in Usage /\ spent \in Usage /\ Within(used[Mine(w)], spent)
  BY SpentHolds
<1>2. work[w].usage \in Usage
  BY DoingOf
<1>3. spent' = Plus(Minus(spent, used[Mine(w)]), work[w].usage)
  BY DEF Reconcile
<1>4. spent' \in Usage
  BY <1>1, <1>2, <1>3, UsageAdds
<1>5. used \in [Attempt -> Usage] /\ used' = [used EXCEPT ![Mine(w)] = work[w].usage]
  BY TypeParts DEF IInv, AttemptsTyped, Reconcile
<1>6. used' \in [Attempt -> Usage]
  BY <1>2, <1>5
<1> QED BY <1>4, <1>6

LEMMA TakeRoomTyped ==
    ASSUME IInv, NEW w \in Worker, Mine(w) \in Attempt, TakeRoom(w)
    PROVE  spent' \in Usage /\ used' \in [Attempt -> Usage]
<1> DEFINE r == work[w].reservation
<1>1. used[Mine(w)] \in Usage /\ spent \in Usage /\ r \in Usage
  BY SpentHolds, DoingOf
<1>2. /\ used \in [Attempt -> Usage] /\ spent' = Plus(spent, r)
      /\ used' = [used EXCEPT ![Mine(w)] = Plus(used[Mine(w)], r)]
  BY TypeParts DEF IInv, AttemptsTyped, TakeRoom
<1> HIDE DEF r
<1>3. Plus(spent, r) \in Usage /\ Plus(used[Mine(w)], r) \in Usage
  BY <1>1, UsageAdds
<1> QED BY <1>2, <1>3

LEMMA RunTypedKept ==
    ASSUME IInv, Next
    PROVE  RunTyped'
<1>1. RunTyped
  BY TypeParts DEF IInv
<1>2. CASE Create \/ Cancel \/ RetryPlan \/ RetryWork
  <2>1. CASE Create
    BY <1>1, <2>1 DEF RunTyped, Create, Become
  <2>2. CASE Cancel
    BY <1>1, <2>2 DEF RunTyped, Cancel, Become
  <2>3. CASE RetryPlan
    <3>1. Become("queued") /\ cancelling' \in BOOLEAN /\ UNCHANGED <<spent, plan, course>>
      BY <2>3 DEF RetryPlan
    <3> QED BY <1>1, <3>1 DEF RunTyped, Become
  <2>4. CASE RetryWork
    BY <1>1, <2>4 DEF RunTyped, RetryWork, Become
  <2> QED BY <1>2, <2>1, <2>2, <2>3, <2>4
<1>3. CASE Approve
  BY <1>1, <1>3 DEF RunTyped, Approve, Become
<1>4. CASE Aside
  BY <1>1, <1>4, AsideEffects DEF RunTyped, runVars
<1>5. ASSUME NEW d \in {"approved", "dismissed", "expired"}, Decide(d) PROVE RunTyped'
  BY <1>1, <1>5 DEF RunTyped, Decide, FinishRun, Become
<1>6. ASSUME NEW w \in Worker, NEW a \in Attempt, Claim(w, a) PROVE RunTyped'
  BY <1>1, <1>6 DEF RunTyped, Claim, Become
<1>7. ASSUME NEW w \in Worker, Attempting(w) PROVE RunTyped'
  <2>1. Mine(w) \in Attempt /\ Mine(w) \in 0..MaxAttempts
    BY <1>7, WorkerEffects, DoingOf
  <2>2. CASE UNCHANGED <<attemptVars, runVars>>
    BY <1>1, <2>2 DEF RunTyped, runVars
  <2>3. CASE Takes(w)
    BY <1>1, <2>1, <2>3, TakeRoomTyped DEF RunTyped, Takes
  <2>4. CASE Plans(w)
    <3>1. spent' \in Usage
      BY <2>1, <2>4, ReconcileTyped DEF Plans, TakePlan, EndAttempt
    <3> QED BY <1>1, <2>1, <2>4, <3>1 DEF RunTyped, Plans, TakePlan, Become
  <2>5. CASE Loses(w)
    <3>1. spent' \in Usage
      BY <2>1, <2>5, ReconcileTyped DEF Loses, FailRun, EndAttempt
    <3> QED BY <1>1, <2>1, <2>5, <3>1 DEF RunTyped, Loses, FailRun, Become
  <2> QED BY <1>7, <2>2, <2>3, <2>4, <2>5, WorkerEffects
<1>8. ASSUME NEW a \in Attempt, Expire(a) PROVE RunTyped'
  BY <1>1, <1>8 DEF RunTyped, Expire, runVars
<1>9. CASE OfJobs
  BY <1>1, <1>9, JobEffects DEF RunTyped, runVars
<1>10. ASSUME NEW i \in Item, NEW e \in 1..MaxEvents, Settle(i, e) PROVE RunTyped'
  BY <1>1, <1>10 DEF RunTyped, Settle, Become, runButState
<1> QED BY <1>2, <1>3, <1>4, <1>5, <1>6, <1>7, <1>8, <1>9, <1>10, Steps

LEMMA AttemptsTypedKept ==
    ASSUME IInv, Next
    PROVE  AttemptsTyped'
<1>1. AttemptsTyped
  BY TypeParts DEF IInv
<1>2. ASSUME AddAttempt PROVE AttemptsTyped'
  BY <1>1, <1>2, Bounds DEF AttemptsTyped, AddAttempt, Attempt
<1>3. CASE Create \/ RetryPlan
  BY <1>2, <1>3 DEF Create, RetryPlan
<1>4. CASE Cancel
  BY <1>1, <1>4 DEF AttemptsTyped, Cancel, CloseAttempts
<1>5. CASE RetryWork \/ Approve
  BY <1>1, <1>5 DEF AttemptsTyped, RetryWork, Approve, attemptVars
<1>6. CASE Aside
  BY <1>1, <1>6, AsideEffects DEF AttemptsTyped, attemptVars
<1>7. ASSUME NEW d \in {"approved", "dismissed", "expired"}, Decide(d) PROVE AttemptsTyped'
  BY <1>1, <1>7 DEF AttemptsTyped, Decide, attemptVars
<1>8. ASSUME NEW w \in Worker, NEW a \in Attempt, Claim(w, a) PROVE AttemptsTyped'
  BY <1>1, <1>8 DEF AttemptsTyped, Claim
<1>9. ASSUME NEW w \in Worker, Attempting(w) PROVE AttemptsTyped'
  <2>1. Mine(w) \in Attempt
    BY <1>9, WorkerEffects, DoingOf
  <2>2. CASE UNCHANGED <<attemptVars, runVars>>
    BY <1>1, <2>2 DEF AttemptsTyped, attemptVars
  <2>3. CASE Takes(w)
    BY <1>1, <2>1, <2>3, TakeRoomTyped DEF AttemptsTyped, Takes
  <2>4. ASSUME NEW s \in {"completed", "failed"}, EndAttempt(w, s), UNCHANGED <<tries, issued>>
        PROVE  AttemptsTyped'
    <3>1. used' \in [Attempt -> Usage]
      BY <2>1, <2>4, ReconcileTyped DEF EndAttempt
    <3> QED BY <1>1, <2>1, <2>4, <3>1 DEF AttemptsTyped, EndAttempt
  <2>5. CASE Plans(w) \/ Loses(w)
    BY <2>4, <2>5 DEF Plans, Loses, TakePlan, FailRun
  <2> QED BY <1>9, <2>2, <2>3, <2>5, WorkerEffects
<1>10. ASSUME NEW a \in Attempt, Expire(a) PROVE AttemptsTyped'
  BY <1>1, <1>10 DEF AttemptsTyped, Expire
<1>11. CASE OfJobs
  BY <1>1, <1>11, JobEffects DEF AttemptsTyped, attemptVars
<1>12. ASSUME NEW i \in Item, NEW e \in 1..MaxEvents, Settle(i, e) PROVE AttemptsTyped'
  BY <1>1, <1>12 DEF AttemptsTyped, Settle, attemptVars
<1> QED BY <1>3, <1>4, <1>5, <1>6, <1>7, <1>8, <1>9, <1>10, <1>11, <1>12, Steps
LEMMA ItemsTypedKept ==
    ASSUME IInv, Next
    PROVE  ItemsTyped'
<1>1. ItemsTyped
  BY TypeParts DEF IInv
<1> USE Bounds
<1>2. CASE Create \/ Cancel \/ RetryPlan
  BY <1>1, <1>2 DEF ItemsTyped, Create, Cancel, RetryPlan, itemVars
<1>3. CASE RetryWork
  <2>1. \A i \in FailedItems : events[i] + 1 \in 0..MaxEvents
    BY <1>1, <1>3 DEF RetryWork, ItemsTyped, FailedItems
  <2>2. events' \in [Item -> 0..MaxEvents]
    BY <1>1, <1>3, <2>1 DEF RetryWork, ItemsTyped
  <2>3. item' \in [Item -> {None, "queued", "completed", "failed"}]
    BY <1>1, <1>3 DEF RetryWork, Requeue, ItemsTyped
  <2> QED BY <1>1, <1>3, <2>2, <2>3 DEF RetryWork, ItemsTyped
<1>4. CASE Approve
  <2>1. events' \in [Item -> 0..MaxEvents] /\ item' \in [Item -> {None, "queued", "completed", "failed"}]
    BY <1>4 DEF Approve
  <2> QED BY <1>1, <1>4, <2>1 DEF Approve, ItemsTyped
<1>5. CASE Aside
  <2>1. ASSUME NEW kept \in SUBSET Step, EditCourse(kept) PROVE ItemsTyped'
    <3>1. \A i \in Item : Reindexed(kept, i) => events[i] + 1 \in 0..MaxEvents
      BY <1>1, <2>1 DEF EditCourse, ItemsTyped
    <3>2. events' \in [Item -> 0..MaxEvents]
      BY <1>1, <2>1, <3>1 DEF EditCourse, ItemsTyped
    <3> QED BY <1>1, <2>1, <3>2 DEF EditCourse, ItemsTyped
  <2>2. CASE Look \/ Offer \/ RunOutOfTime
    BY <1>1, <2>2 DEF ItemsTyped, Look, Offer, RunOutOfTime, itemVars
  <2> QED BY <1>5, <2>1, <2>2 DEF Aside
<1>6. ASSUME NEW d \in {"approved", "dismissed", "expired"}, Decide(d) PROVE ItemsTyped'
  BY <1>1, <1>6 DEF ItemsTyped, Decide, itemVars
<1>7. ASSUME NEW w \in Worker, NEW a \in Attempt, Claim(w, a) PROVE ItemsTyped'
  BY <1>1, <1>7 DEF ItemsTyped, Claim, itemVars
<1>8. ASSUME NEW w \in Worker, Attempting(w) PROVE ItemsTyped'
  BY <1>1, <1>8, WorkerEffects DEF ItemsTyped, itemVars
<1>9. ASSUME NEW a \in Attempt, Expire(a) PROVE ItemsTyped'
  BY <1>1, <1>9 DEF ItemsTyped, Expire, itemVars
<1>10. ASSUME NEW p \in Step, NEW e \in 1..MaxEvents, HandOver(p, e) PROVE ItemsTyped'
  <2> DEFINE i == <<p, "video">>
             r == <<p, "retrieval">>
  <2>1. i \in Item /\ r \in Item /\ <<i, e>> \in Event
    BY <1>10 DEF HandOver, Item, Event, Kind
  <2>2. /\ events[r] < MaxEvents /\ handed' = handed \cup {<<i, e>>}
        /\ events' = [events EXCEPT ![r] = events[r] + 1]
        /\ UNCHANGED <<steps, item, verdict, told>>
    BY <1>10 DEF HandOver
  <2> HIDE DEF i, r
  <2>3. events[r] + 1 \in 0..MaxEvents
    BY <1>1, <2>1, <2>2 DEF ItemsTyped
  <2> QED BY <1>1, <2>1, <2>2, <2>3 DEF ItemsTyped
<1>11. ASSUME NEW i \in Item, NEW e \in 1..MaxEvents, JobEnds(i, e) \/ JobIsLost(i, e) PROVE ItemsTyped'
  <2>1. PICK o \in {"completed", "failed", "lost"} : verdict' = [verdict EXCEPT ![<<i, e>>] = o]
    <3>1. Outcomes[i[2]] \subseteq {"completed", "failed"}
      BY AgentRunConstants DEF Item
    <3> QED BY <1>11, <3>1 DEF JobEnds, JobIsLost
  <2>2. UNCHANGED <<steps, item, events, handed, told>>
    BY <1>11 DEF JobEnds, JobIsLost
  <2> QED BY <1>1, <2>1, <2>2 DEF ItemsTyped
<1>12. ASSUME NEW i \in Item, NEW e \in 1..MaxEvents, Replay(i, e) PROVE ItemsTyped'
  <2>1. events[i] + 1 \in 0..MaxEvents
    BY <1>1, <1>12 DEF Replay, ItemsTyped
  <2> QED BY <1>1, <1>12, <2>1 DEF Replay, ItemsTyped
<1>13. ASSUME NEW i \in Item, NEW e \in 1..MaxEvents, Settle(i, e) PROVE ItemsTyped'
  <2> DEFINE o == verdict[<<i, e>>]
             n == IF item[i] = "queued" /\ Settleable(i) THEN o ELSE item[i]
  <2>1. <<i, e>> \in Event
    BY DEF Event
  <2>2. /\ o \in {"completed", "failed"} /\ told' = told \cup {<<i, e>>}
        /\ item' = [item EXCEPT ![i] = n]
        /\ UNCHANGED <<steps, events, handed, verdict>>
    BY <1>13 DEF Settle
  <2>3. n \in {None, "queued", "completed", "failed"}
    BY <1>1, <2>2 DEF ItemsTyped
  <2> HIDE DEF n, o
  <2> QED BY <1>1, <2>1, <2>2, <2>3 DEF ItemsTyped
<1> QED BY <1>2, <1>3, <1>4, <1>5, <1>6, <1>7, <1>8, <1>9, <1>10, <1>11, <1>12, <1>13, Steps DEF OfJobs

LEMMA FaultsCounted ==
    ASSUME Next
    PROVE  UNCHANGED faults \/ Fault
<1>1. CASE Create \/ Cancel \/ RetryPlan \/ RetryWork \/ Approve
  BY <1>1 DEF Create, Cancel, RetryPlan, RetryWork, Approve
<1>2. CASE Aside
  BY <1>2, AsideEffects
<1>3. ASSUME NEW d \in {"approved", "dismissed", "expired"}, Decide(d) PROVE UNCHANGED faults
  BY <1>3 DEF Decide
<1>4. ASSUME NEW w \in Worker, NEW a \in Attempt, Claim(w, a) PROVE UNCHANGED faults
  BY <1>4 DEF Claim
<1>5. ASSUME NEW w \in Worker, Attempting(w) PROVE UNCHANGED faults \/ Fault
  <2>1. CASE Reserve(w) \/ Call(w) \/ Complete(w)
    BY <2>1 DEF Reserve, Call, Complete
  <2>2. CASE ReserveFails(w) \/ CompleteFails(w) \/ Crash(w)
    BY <2>2 DEF ReserveFails, CompleteFails, Crash
  <2>3. CASE Audit(w)
    BY <2>3 DEF Audit
  <2>4. CASE Fail(w)
    BY <2>4 DEF Fail
  <2> QED BY <1>5, <2>1, <2>2, <2>3, <2>4 DEF Attempting
<1>6. ASSUME NEW a \in Attempt, Expire(a) PROVE UNCHANGED faults \/ Fault
  BY <1>6 DEF Expire
<1>7. CASE OfJobs
  BY <1>7 DEF OfJobs, HandOver, JobEnds, JobIsLost, Replay
<1>8. ASSUME NEW i \in Item, NEW e \in 1..MaxEvents, Settle(i, e) PROVE UNCHANGED faults \/ Fault
  BY <1>8 DEF Settle
<1> QED BY <1>1, <1>2, <1>3, <1>4, <1>5, <1>6, <1>7, <1>8, Steps

LEMMA OwnerTypedKept ==
    ASSUME IInv, Next
    PROVE  OwnerTyped'
<1>1. OwnerTyped /\ RunTyped
  BY TypeParts DEF IInv
<1>2. faults' \in 0..MaxFaults
  <2>1. faults \in 0..MaxFaults
    BY <1>1 DEF OwnerTyped
  <2> QED BY <2>1, Bounds, FaultsCounted DEF Fault
<1>3. CASE UNCHANGED <<offerVars, seen, overtime>>
  BY <1>1, <1>2, <1>3 DEF OwnerTyped, offerVars
<1>4. CASE Create \/ Cancel \/ RetryPlan \/ RetryWork \/ Approve
  BY <1>3, <1>4 DEF Create, Cancel, RetryPlan, RetryWork, Approve
<1>5. CASE Aside
  <2>1. CASE Look
    BY <1>1, <1>2, <2>1 DEF OwnerTyped, RunTyped, Look, offerVars
  <2>2. CASE Offer
    BY <1>1, <1>2, <2>2 DEF OwnerTyped, RunTyped, Offer
  <2>3. CASE RunOutOfTime
    BY <1>1, <1>2, <2>3 DEF OwnerTyped, RunOutOfTime, offerVars
  <2>4. CASE \E kept \in SUBSET Step : EditCourse(kept)
    BY <1>3, <2>4 DEF EditCourse
  <2> QED BY <1>5, <2>1, <2>2, <2>3, <2>4 DEF Aside
<1>6. ASSUME NEW d \in {"approved", "dismissed", "expired"}, Decide(d) PROVE OwnerTyped'
  BY <1>1, <1>2, <1>6 DEF OwnerTyped, Decide
<1>7. ASSUME NEW w \in Worker, NEW a \in Attempt, Claim(w, a) PROVE OwnerTyped'
  BY <1>3, <1>7 DEF Claim
<1>8. ASSUME NEW w \in Worker, Attempting(w) PROVE OwnerTyped'
  BY <1>3, <1>8, WorkerEffects
<1>9. ASSUME NEW a \in Attempt, Expire(a) PROVE OwnerTyped'
  BY <1>3, <1>9 DEF Expire
<1>10. CASE OfJobs
  BY <1>3, <1>10, JobEffects
<1>11. ASSUME NEW i \in Item, NEW e \in 1..MaxEvents, Settle(i, e) PROVE OwnerTyped'
  BY <1>3, <1>11 DEF Settle
<1> QED BY <1>4, <1>5, <1>6, <1>7, <1>8, <1>9, <1>10, <1>11, Steps

\* A step of w gives it something else to do, and is typed if that is.
LEMMA OneWorker ==
    ASSUME IInv, NEW w \in Worker, NEW d \in Doing, work' = [work EXCEPT ![w] = d],
           d.at # "idle" => d.attempt \in Attempt
    PROVE  WorkersTyped' /\ Busy'
<1>1. work \in [Worker -> Doing] /\ Busy
  BY TypeParts DEF IInv, WorkersTyped
<1>2. work' \in [Worker -> Doing]
  BY <1>1
<1>3. \A v \in Worker : work'[v] = IF v = w THEN d ELSE work[v]
  BY <1>1
<1> QED BY <1>1, <1>2, <1>3 DEF WorkersTyped, Busy, Mine

LEMMA Reporting ==
    ASSUME IInv, NEW w \in Worker, work[w].at # "idle",
           \/ \E s \in WorkStep : At(w, s)
           \/ \E s \in WorkStep, u \in Usage : Report(w, s, u)
    PROVE  WorkersTyped' /\ Busy'
<1>1. work \in [Worker -> Doing] /\ work[w] \in Doing /\ work[w].attempt \in Attempt
  BY DoingOf, TypeParts DEF IInv, WorkersTyped, Mine
<1>2. ASSUME NEW s \in WorkStep, At(w, s) PROVE WorkersTyped' /\ Busy'
  <2> DEFINE d == [work[w] EXCEPT !.at = s]
  <2>1. d \in Doing /\ d.attempt \in Attempt
    BY <1>1 DEF Doing
  <2>2. work' = [work EXCEPT ![w] = d]
    BY <1>2 DEF At
  <2> HIDE DEF d
  <2> QED BY <2>1, <2>2, OneWorker
<1>3. ASSUME NEW s \in WorkStep, NEW u \in Usage, Report(w, s, u) PROVE WorkersTyped' /\ Busy'
  <2> DEFINE d == [work[w] EXCEPT !.at = s, !.usage = u]
  <2>1. d \in Doing /\ d.attempt \in Attempt
    BY <1>1 DEF Doing
  <2>2. work' = [work EXCEPT ![w] = d]
    BY <1>1, <1>3 DEF Report
  <2> HIDE DEF d
  <2> QED BY <2>1, <2>2, OneWorker
<1> QED BY <1>2, <1>3

LEMMA ClaimTyped ==
    ASSUME IInv, NEW w \in Worker, NEW a \in Attempt, Claim(w, a)
    PROVE  WorkersTyped' /\ Busy'
<1> DEFINE next(s, u) == [at |-> s, attempt |-> a, token |-> issued + 1, version |-> version + 1,
                          reservation |-> u, usage |-> u]
<1>1. issued + 1 \in Nat /\ version + 1 \in Nat /\ used[a] \in Usage /\ spent \in Usage
  BY TypeParts, SpentHolds DEF IInv, RunTyped, AttemptsTyped
<1>2. a \in 0..MaxAttempts
  BY Bounds DEF Attempt
<1>3. Room(spent).tokens >= 1 => Room(spent) \in Usage
  BY <1>1, Bounds DEF Room, Usage
<1>4. PICK s \in WorkStep, u \in Usage : work' = [work EXCEPT ![w] = next(s, u)]
  <2>1. CASE used[a] # Nothing
    <3>1. work' = [work EXCEPT ![w] = next("audit", used[a])]
      BY <2>1 DEF Claim, Begin
    <3> QED BY <1>1, <3>1 DEF WorkStep
  <2>2. CASE used[a] = Nothing /\ (Room(spent).tokens < 1 \/ ~Within(Plus(spent, Room(spent)), Budget))
    <3>1. work' = [work EXCEPT ![w] = next("audit", Nothing)]
      BY <2>2 DEF Claim, Begin
    <3> QED BY <3>1, Bounds DEF WorkStep
  <2>3. CASE used[a] = Nothing /\ ~(Room(spent).tokens < 1 \/ ~Within(Plus(spent, Room(spent)), Budget))
    <3>1. work' = [work EXCEPT ![w] = next("reserve", Room(spent))]
      BY <2>3 DEF Claim, Begin
    <3>2. Room(spent).tokens \in Int
      BY <1>1, Bounds DEF Room, Usage
    <3>3. Room(spent) \in Usage
      BY <1>3, <2>3, <3>2
    <3> QED BY <3>1, <3>3 DEF WorkStep
  <2> QED BY <2>1, <2>2, <2>3
<1>5. next(s, u) \in Doing /\ next(s, u).attempt \in Attempt
  BY <1>1, <1>2 DEF Doing
<1> HIDE DEF next
<1> QED BY <1>4, <1>5, OneWorker

LEMMA WorkersTypedKept ==
    ASSUME IInv, Next
    PROVE  WorkersTyped' /\ Busy'
<1>1. CASE UNCHANGED work
  BY <1>1, TypeParts DEF IInv, WorkersTyped, Busy, Mine
<1>2. CASE Create \/ Cancel \/ RetryPlan \/ RetryWork \/ Approve
  BY <1>1, <1>2 DEF Create, Cancel, RetryPlan, RetryWork, Approve
<1>3. CASE Aside
  BY <1>1, <1>3, AsideEffects
<1>4. ASSUME NEW d \in {"approved", "dismissed", "expired"}, Decide(d) PROVE UNCHANGED work
  BY <1>4 DEF Decide
<1>5. ASSUME NEW w \in Worker, Attempting(w) PROVE WorkersTyped' /\ Busy'
  <2>1. work[w].at # "idle" /\ work[w].reservation \in Usage /\ Nothing \in Usage /\ OneCall \in Usage
    BY <1>5, WorkerEffects, DoingOf, Bounds
  <2>2. {"idle", "call", "complete", "concede", "audit", "fail"} \subseteq WorkStep
    BY DEF WorkStep
  <2>3. \/ \E s \in WorkStep : At(w, s)
        \/ \E s \in WorkStep, u \in Usage : Report(w, s, u)
    <3>1. CASE Reserve(w)
      BY <2>1, <2>2, <3>1 DEF Reserve
    <3>2. CASE ReserveFails(w)
      BY <2>1, <2>2, <3>2 DEF ReserveFails
    <3>3. CASE Call(w)
      <4>1. Reported \subseteq Usage
        BY Bounds DEF Reported, Usage
      <4> QED BY <2>1, <2>2, <3>3, <4>1 DEF Call
    <3>4. CASE Complete(w) \/ CompleteFails(w)
      BY <2>1, <2>2, <3>4 DEF Complete, CompleteFails
    <3>5. CASE Audit(w) \/ Crash(w)
      BY <2>1, <2>2, <3>5 DEF Audit, Crash
    <3>6. CASE Fail(w)
      BY <2>1, <2>2, <3>6 DEF Fail
    <3> QED BY <1>5, <3>1, <3>2, <3>3, <3>4, <3>5, <3>6 DEF Attempting
  <2> QED BY <2>1, <2>3, Reporting
<1>6. ASSUME NEW a \in Attempt, Expire(a) PROVE UNCHANGED work
  BY <1>6 DEF Expire
<1>7. CASE OfJobs
  BY <1>1, <1>7, JobEffects
<1>8. ASSUME NEW i \in Item, NEW e \in 1..MaxEvents, Settle(i, e) PROVE UNCHANGED work
  BY <1>8 DEF Settle
<1> QED BY <1>1, <1>2, <1>3, <1>4, <1>5, <1>6, <1>7, <1>8, ClaimTyped, Steps
-----------------------------------------------------------------------------
(* The budget. *)

LEMMA InitBudget == Init => BudgetKept
<1> SUFFICES ASSUME Init PROVE BudgetKept
  OBVIOUS
<1>1. UsageOf(used) = Nothing /\ spent = Nothing
  BY SumOfNothing, UsageIsSum DEF Init
<1>2. Within(Nothing, Budget)
  BY Bounds DEF Within, Nothing, Budget
<1> QED BY <1>1, <1>2 DEF BudgetKept

\* What an attempt has used is replaced by u, and the rest stays.
LEMMA BudgetMoves ==
    ASSUME IInv, NEW a \in Attempt, NEW u \in Usage,
           used' = [used EXCEPT ![a] = u],
           spent' = Plus(Minus(spent, used[a]), u)
    PROVE  spent' = UsageOf(used')
<1>1. used \in [Attempt -> Usage]
  BY TypeParts DEF IInv, AttemptsTyped
<1>2. spent = SumOf(used)
  BY UsageIsSum DEF IInv, BudgetKept
<1>3. SumOf(used') = Plus(Minus(SumOf(used), used[a]), u)
  BY <1>1, SumOfChanged
<1> QED BY <1>2, <1>3, UsageIsSum

LEMMA ReconcileKeeps ==
    ASSUME IInv, NEW w \in Worker, Mine(w) \in Attempt, Reconciles(w), Reconcile(w)
    PROVE  BudgetKept'
<1> DEFINE u == work[w].usage
           a == Mine(w)
<1>1. u \in Usage /\ used[a] \in Usage /\ spent \in Usage /\ Within(used[a], spent)
  BY DoingOf, SpentHolds
<1>2. spent' = Plus(Minus(spent, used[a]), u) /\ used' = [used EXCEPT ![a] = u]
  BY DEF Reconcile
<1>3. Within(u, used[a]) /\ Within(spent, Budget)
  BY DEF IInv, BudgetKept, Reconciles
<1> HIDE DEF u, a
<1>4. spent' = UsageOf(used')
  <2>1. a \in Attempt
    BY DEF a
  <2> QED BY <1>1, <1>2, <2>1, BudgetMoves
<1>5. Within(spent', Budget)
  BY <1>1, <1>2, <1>3, Bounds DEF Within, Plus, Minus, Usage, Budget
<1> QED BY <1>4, <1>5 DEF BudgetKept

LEMMA TakeRoomKeeps ==
    ASSUME IInv, NEW w \in Worker, Mine(w) \in Attempt,
           Fits(work[w].reservation), TakeRoom(w)
    PROVE  BudgetKept'
<1> DEFINE r == work[w].reservation
           a == Mine(w)
<1>1. r \in Usage /\ used[a] \in Usage /\ spent \in Usage /\ Within(used[a], spent)
  BY DoingOf, SpentHolds
<1>2. /\ spent' = Plus(spent, r) /\ Within(Plus(spent, r), Budget)
      /\ used' = [used EXCEPT ![a] = Plus(used[a], r)]
  BY DEF TakeRoom, Fits
<1> HIDE DEF r
<1>3. spent' = Plus(Minus(spent, used[a]), Plus(used[a], r)) /\ Plus(used[a], r) \in Usage
  BY <1>1, <1>2 DEF Within, Plus, Minus, Usage
<1>4. spent' = UsageOf(used')
  BY <1>2, <1>3, BudgetMoves
<1> QED BY <1>2, <1>4 DEF BudgetKept

LEMMA BudgetKeptKept ==
    ASSUME IInv, Next
    PROVE  BudgetKept'
<1>1. CASE UNCHANGED <<spent, used>>
  BY <1>1 DEF IInv, BudgetKept
<1>2. CASE Create \/ Cancel \/ RetryPlan \/ RetryWork \/ Approve
  BY <1>1, <1>2 DEF Create, Cancel, RetryPlan, RetryWork, Approve, AddAttempt, attemptVars
<1>3. CASE Aside
  BY <1>1, <1>3, AsideEffects DEF attemptVars, runVars
<1>4. ASSUME NEW d \in {"approved", "dismissed", "expired"}, Decide(d) PROVE UNCHANGED <<spent, used>>
  BY <1>4 DEF Decide, attemptVars
<1>5. ASSUME NEW w \in Worker, NEW a \in Attempt, Claim(w, a) PROVE UNCHANGED <<spent, used>>
  BY <1>5 DEF Claim
<1>6. ASSUME NEW w \in Worker, Attempting(w) PROVE BudgetKept'
  <2>1. Mine(w) \in Attempt
    BY <1>6, WorkerEffects, DoingOf
  <2>2. CASE UNCHANGED <<attemptVars, runVars>>
    BY <1>1, <2>2 DEF attemptVars, runVars
  <2>3. CASE Takes(w)
    BY <2>1, <2>3, TakeRoomKeeps DEF Takes
  <2>4. CASE Plans(w) \/ Loses(w)
    BY <2>1, <2>4, ReconcileKeeps DEF Plans, Loses, TakePlan, FailRun, EndAttempt
  <2> QED BY <1>6, <2>2, <2>3, <2>4, WorkerEffects
<1>7. ASSUME NEW a \in Attempt, Expire(a) PROVE UNCHANGED <<spent, used>>
  BY <1>7 DEF Expire, runVars
<1>8. CASE OfJobs
  BY <1>1, <1>8, JobEffects DEF attemptVars, runVars
<1>9. ASSUME NEW i \in Item, NEW e \in 1..MaxEvents, Settle(i, e) PROVE UNCHANGED <<spent, used>>
  BY <1>9 DEF Settle, attemptVars, runButState
<1> QED BY <1>1, <1>2, <1>3, <1>4, <1>5, <1>6, <1>7, <1>8, <1>9, Steps

-----------------------------------------------------------------------------
(* The run and its attempts. *)

\* An attempt that is worked on is the last one, and the run is where it is.
LEMMA HeldIsLast ==
    ASSUME IInv, NEW w \in Worker, Holds(w), Mine(w) \in Attempt
    PROVE  state = "running" /\ Mine(w) = tries /\ course = 0
BY DEF IInv, Holds, RunFollowsAttempts, RunFollowsItems
\* The attempts and the plan stay while nobody works on them.
LEMMA AttemptsRest ==
    ASSUME IInv, UNCHANGED <<attempt, lease, tries, plan>>, state \notin {"queued", "running"},
           state' \notin {"queued", "running"}, state' = "awaiting_approval" => state = state'
    PROVE  RunFollowsAttempts'
BY DEF IInv, RunFollowsAttempts

LEMMA AddAttemptFollows ==
    ASSUME IInv, AddAttempt, state \notin {"queued", "running"}, state' = "queued"
    PROVE  RunFollowsAttempts' /\ tries' # 0
<1>1. AttemptsTyped /\ RunFollowsAttempts
  BY TypeParts DEF IInv
<1>2. tries \in Nat /\ tries + 1 \in Attempt /\ tries' = tries + 1
  BY <1>1, Bounds DEF AttemptsTyped, AddAttempt, Attempt
<1>3. \A a \in Attempt : attempt'[a] = IF a = tries + 1 THEN "queued" ELSE attempt[a]
  BY <1>1, <1>2 DEF AttemptsTyped, AddAttempt
<1>4. \A a \in Attempt : attempt[a] \notin {"queued", "running"} /\ lease[a] = 0
  BY <1>1 DEF RunFollowsAttempts
<1>5. lease' = lease
  BY DEF AddAttempt
<1> QED BY <1>2, <1>3, <1>4, <1>5 DEF RunFollowsAttempts

LEMMA RunFollowsAttemptsKept ==
    ASSUME IInv, Next
    PROVE  RunFollowsAttempts'
<1>1. AttemptsTyped /\ RunTyped /\ RunFollowsAttempts /\ Begun
  BY TypeParts DEF IInv
<1>2. CASE UNCHANGED <<state, attempt, lease, tries, plan>>
  BY <1>1, <1>2 DEF RunFollowsAttempts
<1>3. CASE Create \/ RetryPlan
  <2>1. state \notin {"queued", "running"} /\ AddAttempt /\ state' = "queued"
    BY <1>3, AgentRunConstants DEF Create, RetryPlan, Become
  <2> QED BY <2>1, AddAttemptFollows
<1>4. CASE Cancel
  <2>1. state' = "cancelled" /\ UNCHANGED <<tries, plan>>
    BY <1>4 DEF Cancel, Become
  <2>2. \A a \in Attempt : /\ attempt'[a] = IF attempt[a] \in {"queued", "running"}
                                            THEN "cancelled" ELSE attempt[a]
                           /\ lease'[a] = IF attempt[a] \in {"queued", "running"}
                                          THEN 0 ELSE lease[a]
    BY <1>4 DEF Cancel, CloseAttempts
  <2>3. \A a \in Attempt : lease[a] # 0 => attempt[a] = "running"
    BY <1>1 DEF RunFollowsAttempts
  <2> QED BY <2>1, <2>2, <2>3 DEF RunFollowsAttempts
<1>5. CASE RetryWork \/ Approve
  <2>1. state \notin {"queued", "running"} /\ state' = "approved" /\ UNCHANGED <<attempt, lease, tries, plan>>
    BY <1>5 DEF RetryWork, Approve, Become, attemptVars
  <2> QED BY <2>1, AttemptsRest
<1>6. CASE Aside
  BY <1>2, <1>6, AsideEffects DEF attemptVars, runVars
<1>7. ASSUME NEW d \in {"approved", "dismissed", "expired"}, Decide(d) PROVE RunFollowsAttempts'
  <2>1. UNCHANGED <<attempt, lease, tries, plan>>
    BY <1>7 DEF Decide, attemptVars
  <2>2. state' = state \/ (state = "awaiting_approval" /\ state' \in {"completed", "cancelled"})
    BY <1>7 DEF Decide, FinishRun, Become
  <2> QED BY <1>2, <2>1, <2>2, AttemptsRest
<1>8. ASSUME NEW w \in Worker, NEW a \in Attempt, Claim(w, a) PROVE RunFollowsAttempts'
  <2>1. a = tries /\ attempt[a] = state
    BY <1>1, <1>8 DEF Claim, Claimable, RunFollowsAttempts
  <2>2. state' = "running" /\ UNCHANGED <<tries, plan>> /\ issued + 1 # 0
    BY <1>1, <1>8 DEF Claim, Become, AttemptsTyped
  <2>3. \A b \in Attempt : /\ attempt'[b] = IF b = a THEN "running" ELSE attempt[b]
                           /\ lease'[b] = IF b = a THEN issued + 1 ELSE lease[b]
    BY <1>1, <1>8 DEF Claim, AttemptsTyped
  <2> QED BY <1>1, <2>1, <2>2, <2>3 DEF RunFollowsAttempts
<1>9. ASSUME NEW w \in Worker, Attempting(w) PROVE RunFollowsAttempts'
  <2>1. Mine(w) \in Attempt
    BY <1>9, WorkerEffects, DoingOf
  <2>2. CASE UNCHANGED <<attemptVars, runVars>> \/ Takes(w)
    BY <1>2, <2>2 DEF attemptVars, runVars, Takes
  <2>3. CASE Plans(w) \/ Loses(w)
    <3>1. PICK s \in {"completed", "failed"} :
          /\ EndAttempt(w, s) /\ UNCHANGED tries
          /\ \/ s = "completed" /\ state' = "awaiting_approval" /\ plan' = Mine(w)
             \/ s = "failed" /\ state' = "failed"
      <4>1. CASE Plans(w)
        BY <4>1 DEF Plans, TakePlan, Become
      <4>2. CASE Loses(w)
        BY <4>2 DEF Loses, FailRun, Become
      <4> QED BY <2>3, <4>1, <4>2
    <3>2. Mine(w) = tries
      BY <2>1, <2>3, HeldIsLast DEF Plans, Loses
    <3>3. \A b \in Attempt : /\ attempt'[b] = IF b = tries THEN s ELSE attempt[b]
                             /\ lease'[b] = IF b = tries THEN 0 ELSE lease[b]
      BY <1>1, <3>1, <3>2 DEF EndAttempt, AttemptsTyped
    <3> QED BY <1>1, <2>1, <3>1, <3>2, <3>3 DEF RunFollowsAttempts
  <2> QED BY <1>9, <2>2, <2>3, WorkerEffects
<1>10. ASSUME NEW a \in Attempt, Expire(a) PROVE RunFollowsAttempts'
  BY <1>2, <1>10 DEF Expire, runVars
<1>11. CASE OfJobs
  BY <1>2, <1>11, JobEffects DEF attemptVars, runVars
<1>12. ASSUME NEW i \in Item, NEW e \in 1..MaxEvents, Settle(i, e) PROVE RunFollowsAttempts'
  <2>1. UNCHANGED <<attempt, lease, tries, plan>>
    BY <1>12 DEF Settle, attemptVars, runButState
  <2>2. state' = state \/ (item[i] = "queued" /\ state' \in {"completed", "failed"})
    BY <1>12 DEF Settle, Become
  <2>3. item[i] = "queued" => course # 0
    BY AgentRunConstants DEF IInv, BeforeCourse
  <2>4. course # 0 => state \notin {"queued", "running"}
    BY DEF IInv, RunFollowsItems
  <2> QED BY <1>2, <2>1, <2>2, <2>3, <2>4, AttemptsRest
<1> QED BY <1>3, <1>4, <1>5, <1>6, <1>7, <1>8, <1>9, <1>10, <1>11, <1>12, Steps

\* Every step of the run: tries are counted from the request on, and a plan that
\* is new has a version nobody has seen.
LEMMA VersionsKept ==
    ASSUME IInv, Next
    PROVE  Begun' /\ SeenBefore'
<1>1. /\ version \in Nat /\ tries \in Nat /\ seen.version \in Nat
      /\ Begun /\ SeenBefore
  BY TypeParts DEF IInv, RunTyped, AttemptsTyped, OwnerTyped
<1>2. CASE UNCHANGED <<state, tries, version, plan, seen>>
  BY <1>1, <1>2 DEF Begun, SeenBefore
<1>3. CASE /\ UNCHANGED <<seen, tries>> /\ version' = version + 1
           /\ state # None /\ state' # None
  BY <1>1, <1>3 DEF Begun, SeenBefore
<1>4. CASE /\ UNCHANGED seen /\ tries' = tries + 1 /\ version' = version + 1 /\ state' # None
  BY <1>1, <1>4 DEF Begun, SeenBefore
<1> USE AgentRunConstants
<1>5. CASE Create \/ RetryPlan
  BY <1>4, <1>5 DEF Create, RetryPlan, AddAttempt, Become
<1>6. CASE Cancel
  BY <1>3, <1>6 DEF Cancel, Become
<1>7. CASE RetryWork \/ Approve
  <2>1. "approved" # None /\ "awaiting_approval" # None /\ "failed" # None
    OBVIOUS
  <2> QED BY <1>3, <1>7, <2>1 DEF RetryWork, Approve, Become, attemptVars
<1>8. CASE Look
  <2>1. seen' = [version |-> version, plan |-> plan] /\ UNCHANGED <<state, tries, version, plan>>
    BY <1>8 DEF Look, attemptVars, runVars
  <2> QED BY <1>1, <2>1 DEF Begun, SeenBefore
<1>9. CASE Offer \/ RunOutOfTime \/ \E kept \in SUBSET Step : EditCourse(kept)
  BY <1>2, <1>9 DEF Offer, RunOutOfTime, EditCourse, attemptVars, runVars
<1>10. ASSUME NEW d \in {"approved", "dismissed", "expired"}, Decide(d) PROVE Begun' /\ SeenBefore'
  <2>1. \/ UNCHANGED <<state, version>>
        \/ state = "awaiting_approval" /\ state' \in {"completed", "cancelled"} /\ version' = version + 1
    BY <1>10 DEF Decide, FinishRun, Become
  <2>2. UNCHANGED <<tries, plan, seen>>
    BY <1>10 DEF Decide, attemptVars
  <2> QED BY <1>2, <1>3, <2>1, <2>2
<1>11. ASSUME NEW w \in Worker, NEW a \in Attempt, Claim(w, a) PROVE Begun' /\ SeenBefore'
  BY <1>3, <1>11 DEF Claim, Claimable, Become
<1>12. ASSUME NEW w \in Worker, Attempting(w) PROVE Begun' /\ SeenBefore'
  <2>1. CASE UNCHANGED <<attemptVars, runVars>> \/ Takes(w)
    BY <1>2, <1>12, <2>1, WorkerEffects DEF attemptVars, runVars, Takes
  <2>2. CASE Plans(w) \/ Loses(w)
    BY <1>3, <1>12, <2>2, WorkerEffects DEF Plans, Loses, TakePlan, FailRun, Become, Holds
  <2> QED BY <1>12, <2>1, <2>2, WorkerEffects
<1>13. ASSUME NEW a \in Attempt, Expire(a) PROVE Begun' /\ SeenBefore'
  BY <1>2, <1>13 DEF Expire, runVars
<1>14. CASE OfJobs
  BY <1>2, <1>14, JobEffects DEF attemptVars, runVars
<1>15. ASSUME NEW i \in Item, NEW e \in 1..MaxEvents, Settle(i, e) PROVE Begun' /\ SeenBefore'
  <2>1. \/ UNCHANGED <<state, version>>
        \/ item[i] = "queued" /\ state' \in {"completed", "failed"} /\ version' = version + 1
    BY <1>15 DEF Settle, Become
  <2>2. item[i] = "queued" => state # None
    BY DEF IInv, BeforeCourse, RunFollowsItems
  <2>3. UNCHANGED <<tries, plan, seen>>
    BY <1>15 DEF Settle, attemptVars, runButState
  <2> QED BY <1>2, <1>3, <2>1, <2>2, <2>3
<1> QED BY <1>5, <1>6, <1>7, <1>8, <1>9, <1>10, <1>11, <1>12, <1>13, <1>14, <1>15, Steps DEF Aside
-----------------------------------------------------------------------------
(* The work of the course. *)

ItemsInv ==
    BeforeCourse /\ AfterCourse /\ RunFollowsItems /\ Appended /\ Handed /\ Awaited

LEMMA ItemValues ==
    ASSUME IInv
    PROVE  /\ ItemsTyped /\ ItemsInv
           /\ \A i \in Item : /\ item[i] \in {None, "queued", "completed", "failed"}
                              /\ events[i] \in 0..MaxEvents
           /\ \A i \in Item, e \in 1..MaxEvents :
                  verdict[<<i, e>>] \in {None, "completed", "failed", "lost"}
           /\ None \notin {"queued", "completed", "failed", "lost"}
           /\ MaxEvents \in Nat
<1>1. ItemsTyped /\ ItemsInv
  BY TypeParts DEF IInv, ItemsInv
<1>2. \A i \in Item, e \in 1..MaxEvents : <<i, e>> \in Event
  BY DEF Event
<1> QED BY <1>1, <1>2, AgentRunConstants DEF ItemsTyped

LEMMA ItemsOfStep ==
    /\ \A p \in Step : <<p, "retrieval">> \in Item /\ <<p, "quiz">> \in Item
    /\ \A p \in Posted : <<p, "video">> \in Item
    /\ Item # {}
<1>1. \A p \in Step : <<p, "retrieval">> \in Item /\ <<p, "quiz">> \in Item
  BY DEF Item, Kind
<1>2. \A p \in Posted : <<p, "video">> \in Item
  <2> SUFFICES ASSUME NEW p \in Posted PROVE <<p, "video">> \in Item
    OBVIOUS
  <2>1. p \in Step
    BY AgentRunConstants
  <2> QED BY <2>1 DEF Item, Kind
<1>3. Item # {}
  <2>1. PICK p \in Step : TRUE
    BY AgentRunConstants
  <2> QED BY <1>1, <2>1
<1> QED BY <1>1, <1>2, <1>3

\* An event of an item that can be worked on belongs to a course.
LEMMA WorkHasCourse ==
    ASSUME IInv, NEW i \in Item, NEW e \in 1..MaxEvents, e <= events[i]
    PROVE  course # 0
BY ItemValues DEF ItemsInv, BeforeCourse

LEMMA ItemsRest ==
    ASSUME IInv, UNCHANGED <<itemVars, course>>, state' = state \/ course = 0
    PROVE  ItemsInv'
<1>1. ItemsInv /\ UNCHANGED <<steps, item, events, handed, verdict, told, course>>
  BY ItemValues DEF itemVars
<1>2. BeforeCourse'
  BY <1>1 DEF ItemsInv, BeforeCourse
<1>3. AfterCourse'
  BY <1>1 DEF ItemsInv, AfterCourse, SentAtOnce
<1>4. RunFollowsItems'
  BY <1>1 DEF ItemsInv, RunFollowsItems, FailedItems
<1>5. Appended' /\ Handed'
  BY <1>1 DEF ItemsInv, Appended, Handed
<1>6. Awaited'
  BY <1>1 DEF ItemsInv, Awaited, Settleable
<1> QED BY <1>2, <1>3, <1>4, <1>5, <1>6 DEF ItemsInv

\* New events for items of the course.
LEMMA ItemsGrow ==
    ASSUME IInv, ItemsTyped', course # 0,
           UNCHANGED <<state, course, item, verdict, told>>, steps' \subseteq steps,
           \A i \in Item : events'[i] = events[i] \/ events'[i] = events[i] + 1,
           handed \subseteq handed',
           \A p \in Posted, e \in 1..MaxEvents :
               <<<<p, "video">>, e>> \in handed' =>
                   <<<<p, "video">>, e>> \in handed \/ events'[<<p, "retrieval">>] > 0
    PROVE  ItemsInv'
<1>1. /\ \A i \in Item : events[i] \in 0..MaxEvents /\ events'[i] \in 0..MaxEvents
      /\ MaxEvents \in Nat /\ ItemsInv
  BY ItemValues DEF ItemsTyped
<1>2. \A i \in Item : events[i] <= events'[i]
  BY <1>1
<1>3. BeforeCourse'
  BY DEF BeforeCourse
<1>4. AfterCourse'
  BY <1>1, <1>2 DEF ItemsInv, AfterCourse, SentAtOnce
<1>5. RunFollowsItems'
  <2>1. FailedItems' = FailedItems
    BY DEF FailedItems
  <2>2. ASSUME NEW i \in Item, item[i] = "completed"
        PROVE  \E e \in 1..events'[i] : verdict'[<<i, e>>] = "completed"
    <3>1. PICK e \in 1..events[i] : verdict[<<i, e>>] = "completed"
      BY <1>1, <2>2 DEF ItemsInv, RunFollowsItems
    <3>2. e \in 1..events'[i]
      BY <1>1, <1>2
    <3> QED BY <3>1, <3>2
  <2> QED BY <1>1, <2>1, <2>2 DEF ItemsInv, RunFollowsItems
<1>6. Appended'
  BY <1>1, <1>2 DEF ItemsInv, Appended
<1>7. Handed'
  <2>1. \A p \in Posted : <<p, "retrieval">> \in Item
    BY ItemsOfStep, AgentRunConstants
  <2>2. ASSUME NEW p \in Posted, NEW e \in 1..MaxEvents
        PROVE  /\ verdict[<<<<p, "video">>, e>>] = "completed" => <<<<p, "video">>, e>> \in handed
               /\ <<<<p, "video">>, e>> \in handed => events[<<p, "retrieval">>] > 0
    BY <1>1 DEF ItemsInv, Handed
  <2>3. ASSUME NEW p \in Posted, events[<<p, "retrieval">>] > 0
        PROVE  events'[<<p, "retrieval">>] > 0
    BY <1>1, <1>2, <2>1, <2>3
  <2> QED BY <2>2, <2>3 DEF Handed
<1>8. Awaited'
  <2> SUFFICES ASSUME NEW i \in Item, item[i] = "queued", Settleable(i)', events'[i] > 0
               PROVE  \E e \in 1..events'[i] : <<i, e>> \notin told
    BY DEF Awaited
  <2>1. CASE events'[i] = events[i]
    BY <1>1, <2>1 DEF ItemsInv, Awaited, Settleable
  <2>2. CASE events'[i] = events[i] + 1
    <3>1. events'[i] \in 1..events'[i] /\ events'[i] \in 1..MaxEvents /\ ~(events'[i] <= events[i])
      BY <1>1, <2>2
    <3> QED BY <1>1, <3>1 DEF ItemsInv, Appended
  <2> QED BY <2>1, <2>2
<1> QED BY <1>3, <1>4, <1>5, <1>6, <1>7, <1>8 DEF ItemsInv

LEMMA ApproveKeeps ==
    ASSUME IInv, Approve
    PROVE  ItemsInv'
<1>1. course = 0 /\ plan # 0 /\ ItemsInv
  BY ItemValues, AgentRunConstants DEF Approve, IInv, RunFollowsItems, RunFollowsAttempts, Begun
<1>2. /\ course' # 0 /\ state' = "approved" /\ UNCHANGED <<handed, verdict, told>>
      /\ \A i \in Item : item'[i] = "queued" /\ events'[i] = IF SentAtOnce(i) THEN 1 ELSE 0
  BY <1>1 DEF Approve, Become
<1>3. ASSUME NEW i \in Item, NEW e \in 1..MaxEvents PROVE <<i, e>> \notin told
  <2>1. events[i] = 0 /\ ~(e <= 0)
    BY <1>1 DEF ItemsInv, BeforeCourse
  <2> QED BY <1>1, <2>1 DEF ItemsInv, Appended
<1>4. BeforeCourse'
  BY <1>2 DEF BeforeCourse
<1>5. AfterCourse'
  BY <1>2, AgentRunConstants DEF AfterCourse, SentAtOnce
<1>6. RunFollowsItems'
  BY <1>2, ItemsOfStep DEF RunFollowsItems, FailedItems
<1>7. Appended'
  BY <1>2, <1>3 DEF Appended
<1>8. Handed'
  <2>1. ASSUME NEW p \in Posted, NEW e \in 1..MaxEvents
        PROVE  <<<<p, "video">>, e>> \notin handed /\ verdict[<<<<p, "video">>, e>>] # "completed"
    <3>1. events[<<p, "retrieval">>] = 0
      BY <1>1, ItemsOfStep, AgentRunConstants DEF ItemsInv, BeforeCourse
    <3> QED BY <1>1, <3>1 DEF ItemsInv, Handed
  <2> QED BY <1>2, <2>1 DEF Handed
<1>9. Awaited'
  BY <1>2, <1>3, Bounds DEF Awaited
<1> QED BY <1>4, <1>5, <1>6, <1>7, <1>8, <1>9 DEF ItemsInv

LEMMA RetryWorkKeeps ==
    ASSUME IInv, RetryWork
    PROVE  ItemsInv'
<1>1. /\ ItemsInv /\ course # 0 /\ state = "failed" /\ FailedItems # {}
      /\ \A i \in FailedItems : events[i] < MaxEvents
  BY ItemValues DEF RetryWork
<1>2. /\ course' = course /\ state' = "approved" /\ UNCHANGED <<steps, handed, verdict, told>>
      /\ \A i \in Item : /\ item'[i] = IF item[i] = "failed" THEN "queued" ELSE item[i]
                         /\ events'[i] = IF item[i] = "failed" THEN events[i] + 1 ELSE events[i]
  BY DEF RetryWork, Requeue, Become, FailedItems
<1>3. /\ MaxEvents \in Nat
      /\ \A i \in Item : /\ events[i] \in 0..MaxEvents /\ events[i] <= events'[i]
                         /\ item[i] = "failed" => events'[i] \in 1..MaxEvents
  BY <1>1, <1>2, ItemValues DEF FailedItems
<1>4. BeforeCourse'
  BY <1>1, <1>2 DEF BeforeCourse
<1>5. AfterCourse'
  BY <1>1, <1>2, <1>3, ItemValues DEF ItemsInv, AfterCourse, SentAtOnce
<1>6. RunFollowsItems'
  <2>1. FailedItems' = {} /\ \E i \in Item : item'[i] = "queued"
    BY <1>1, <1>2 DEF FailedItems
  <2>2. ASSUME NEW i \in Item, item'[i] = "completed"
        PROVE  \E e \in 1..events'[i] : verdict'[<<i, e>>] = "completed"
    BY <1>1, <1>2, <2>2 DEF ItemsInv, RunFollowsItems
  <2> QED BY <1>2, <2>1, <2>2 DEF RunFollowsItems
<1>7. Appended'
  BY <1>1, <1>2, <1>3 DEF ItemsInv, Appended
<1>8. Handed'
  <2>1. \A p \in Posted : <<p, "retrieval">> \in Item
    BY ItemsOfStep, AgentRunConstants
  <2>2. ASSUME NEW p \in Posted, events[<<p, "retrieval">>] > 0
        PROVE  events'[<<p, "retrieval">>] > 0
    BY <1>2, <1>3, <2>1, <2>2
  <2> QED BY <1>1, <1>2, <2>2 DEF ItemsInv, Handed
<1>9. Awaited'
  <2> SUFFICES ASSUME NEW i \in Item, item'[i] = "queued", Settleable(i)', events'[i] > 0
               PROVE  \E e \in 1..events'[i] : <<i, e>> \notin told'
    BY DEF Awaited
  <2>1. CASE item[i] = "failed"
    <3>1. events'[i] \in 1..events'[i] /\ events'[i] \in 1..MaxEvents /\ ~(events'[i] <= events[i])
      BY <1>2, <1>3, <2>1
    <3> QED BY <1>1, <1>2, <3>1 DEF ItemsInv, Appended
  <2>2. CASE item[i] # "failed"
    BY <1>1, <1>2, <2>2 DEF ItemsInv, Awaited, Settleable
  <2> QED BY <2>1, <2>2
<1> QED BY <1>4, <1>5, <1>6, <1>7, <1>8, <1>9 DEF ItemsInv

\* A job ends or is lost.
LEMMA VerdictKeeps ==
    ASSUME IInv, NEW i \in Item, NEW e \in 1..MaxEvents, JobEnds(i, e) \/ JobIsLost(i, e)
    PROVE  ItemsInv'
<1>1. PICK o \in {"completed", "failed", "lost"} :
          verdict' = [verdict EXCEPT ![<<i, e>>] = o] /\ (o = "completed" => CanEnd(i, e, o))
  <2>1. Outcomes[i[2]] \subseteq {"completed", "failed"}
    BY AgentRunConstants DEF Item
  <2> QED BY <2>1 DEF JobEnds, JobIsLost
<1>2. /\ UNCHANGED <<state, course, steps, item, events, handed, told>>
      /\ e <= events[i] /\ verdict[<<i, e>>] = None
  BY DEF JobEnds, JobIsLost, Open, runVars
<1>3. \A j \in Item, f \in 1..MaxEvents :
          verdict'[<<j, f>>] = IF j = i /\ f = e THEN o ELSE verdict[<<j, f>>]
  BY <1>1, ItemValues DEF ItemsTyped, Event
<1>4. ItemsInv /\ BeforeCourse' /\ AfterCourse'
  BY <1>2, ItemValues DEF ItemsInv, BeforeCourse, AfterCourse, SentAtOnce
<1>5. RunFollowsItems'
  <2>1. ASSUME NEW j \in Item, item[j] = "completed", course # 0
        PROVE  \E f \in 1..events[j] : verdict'[<<j, f>>] = "completed"
    <3>1. PICK f \in 1..events[j] : verdict[<<j, f>>] = "completed"
      BY <1>4, <2>1 DEF ItemsInv, RunFollowsItems
    <3>2. f \in 1..MaxEvents
      BY ItemValues
    <3> QED BY <1>2, <1>3, <3>1, <3>2, ItemValues
  <2>2. FailedItems' = FailedItems
    BY <1>2 DEF FailedItems
  <2> QED BY <1>2, <1>4, <2>1, <2>2 DEF ItemsInv, RunFollowsItems
<1>6. Appended' /\ Awaited'
  BY <1>2, <1>4 DEF ItemsInv, Appended, Awaited, Settleable
<1>7. Handed'
  <2> SUFFICES ASSUME NEW p \in Posted, NEW f \in 1..MaxEvents
               PROVE  /\ verdict'[<<<<p, "video">>, f>>] = "completed" => <<<<p, "video">>, f>> \in handed
                      /\ <<<<p, "video">>, f>> \in handed => events[<<p, "retrieval">>] > 0
    BY <1>2 DEF Handed
  <2> DEFINE v == <<p, "video">>
  <2>1. v \in Item /\ v[2] = "video"
    BY ItemsOfStep
  <2>2. /\ verdict[<<v, f>>] = "completed" => <<v, f>> \in handed
        /\ <<v, f>> \in handed => events[<<p, "retrieval">>] > 0
    BY <1>4 DEF ItemsInv, Handed
  <2> HIDE DEF v
  <2>3. verdict'[<<v, f>>] = "completed" => <<v, f>> \in handed
    BY <1>1, <1>3, <2>1, <2>2 DEF CanEnd
  <2> QED BY <2>2, <2>3 DEF v
<1> QED BY <1>4, <1>5, <1>6, <1>7 DEF ItemsInv
LEMMA SettleKeeps ==
    ASSUME IInv, NEW i \in Item, NEW e \in 1..MaxEvents, Settle(i, e)
    PROVE  ItemsInv'
<1> DEFINE o == verdict[<<i, e>>]
           waits == item[i] = "queued" /\ Settleable(i)
<1>1. /\ UNCHANGED <<course, steps, events, handed, verdict>>
      /\ e <= events[i] /\ o \in {"completed", "failed"} /\ told' = told \cup {<<i, e>>}
  BY DEF Settle, runButState
<1>2. \A j \in Item : item'[j] = IF j = i /\ waits THEN o ELSE item[j]
  BY ItemValues DEF Settle, ItemsTyped
<1>3. ItemsInv /\ course # 0 /\ course' # 0
  BY <1>1, ItemValues, WorkHasCourse
<1>4. e \in 1..events[i]
  BY <1>1, ItemValues
<1>5. /\ waits /\ o = "failed" /\ state = "approved" => state' = "failed"
      /\ waits /\ o = "completed" /\ (\A j \in Item : item'[j] = "completed") /\ state = "approved"
             => state' = "completed"
      /\ ~(\/ waits /\ o = "failed" /\ state = "approved"
           \/ waits /\ o = "completed" /\ (\A j \in Item : item'[j] = "completed") /\ state = "approved")
             => state' = state
  <2>1. state \in {"approved", "failed", "completed"}
    BY <1>3 DEF ItemsInv, RunFollowsItems
  <2> DEFINE done == \A j \in Item : item'[j] = "completed"
  <2>2. state' = IF /\ waits
                    /\ \/ o = "failed" /\ state \notin {"completed", "failed", "cancelled"}
                       \/ o = "completed" /\ done /\ state = "approved"
                 THEN o ELSE state
    BY DEF Settle, Become, AllDone
  <2> HIDE DEF o, waits, done
  <2>3. /\ waits /\ o = "failed" /\ state = "approved" => state' = "failed"
        /\ waits /\ o = "completed" /\ done /\ state = "approved" => state' = "completed"
        /\ ~(\/ waits /\ o = "failed" /\ state = "approved"
             \/ waits /\ o = "completed" /\ done /\ state = "approved")
               => state' = state
    BY <1>1, <2>1, <2>2
  <2> QED BY <2>3 DEF done
<1>6. BeforeCourse'
  BY <1>3 DEF BeforeCourse
<1>9. AfterCourse'
  BY <1>1, <1>2, <1>3, ItemValues DEF ItemsInv, AfterCourse, SentAtOnce
<1>10. RunFollowsItems'
  <2>1. \A j \in Item : item'[j] = "completed" => \E f \in 1..events'[j] : verdict'[<<j, f>>] = "completed"
    BY <1>1, <1>2, <1>3, <1>4 DEF ItemsInv, RunFollowsItems
  <2>2. CASE state = "completed"
    <3>1. ~waits
      BY <1>3, <2>2 DEF ItemsInv, RunFollowsItems
    <3>2. state' = "completed" /\ \A j \in Item : item'[j] = "completed"
      BY <1>2, <1>3, <1>5, <2>2, <3>1 DEF ItemsInv, RunFollowsItems
    <3> QED BY <1>3, <2>1, <3>2 DEF RunFollowsItems
  <2>3. CASE state = "failed"
    <3>1. PICK j \in Item : item[j] = "failed"
      BY <1>3, <2>3 DEF ItemsInv, RunFollowsItems, FailedItems
    <3>2. item'[j] = "failed" /\ state' = "failed"
      BY <1>2, <1>5, <2>3, <3>1
    <3>3. FailedItems' # {}
      BY <3>1, <3>2 DEF FailedItems
    <3> QED BY <2>1, <3>2, <3>3 DEF RunFollowsItems
  <2>4. CASE state = "approved"
    <3>1. /\ \A j \in Item : item[j] \in {"queued", "completed"}
          /\ \E j \in Item : item[j] = "queued"
      BY <1>3, <2>4, ItemValues DEF ItemsInv, RunFollowsItems, AfterCourse, FailedItems
    <3>2. CASE waits /\ o = "failed"
      <4>1. state' = "failed" /\ FailedItems' # {}
        BY <1>2, <1>5, <2>4, <3>2 DEF FailedItems
      <4> QED BY <2>1, <4>1 DEF RunFollowsItems
    <3>3. CASE waits /\ o = "completed" /\ \A j \in Item : item'[j] = "completed"
      <4>1. state' = "completed"
        BY <1>5, <2>4, <3>3
      <4> QED BY <2>1, <3>3, <4>1 DEF RunFollowsItems
    <3>4. CASE waits /\ o = "completed" /\ ~ \A j \in Item : item'[j] = "completed"
      <4>1. state' = "approved"
        BY <1>5, <2>4, <3>4
      <4>2. \A j \in Item : item'[j] \in {"queued", "completed"}
        BY <1>2, <3>1, <3>4
      <4>3. FailedItems' = {} /\ \E j \in Item : item'[j] = "queued"
        BY <3>4, <4>2 DEF FailedItems
      <4> QED BY <2>1, <4>1, <4>3 DEF RunFollowsItems
    <3>5. CASE ~waits
      <4>1. state' = "approved" /\ \A j \in Item : item'[j] = item[j]
        BY <1>2, <1>5, <2>4, <3>5
      <4>2. FailedItems' = {} /\ \E j \in Item : item'[j] = "queued"
        BY <3>1, <4>1 DEF FailedItems
      <4> QED BY <2>1, <4>1, <4>2 DEF RunFollowsItems
    <3> QED BY <1>1, <3>2, <3>3, <3>4, <3>5
  <2> QED BY <1>3, <2>2, <2>3, <2>4 DEF ItemsInv, RunFollowsItems
<1>11. Appended'
  BY <1>1, <1>3 DEF ItemsInv, Appended
<1>12. Handed'
  BY <1>1, <1>3 DEF ItemsInv, Handed
<1>13. Awaited'
  <2> SUFFICES ASSUME NEW j \in Item, item'[j] = "queued", Settleable(j)', events'[j] > 0
               PROVE  \E f \in 1..events'[j] : <<j, f>> \notin told'
    BY DEF Awaited
  <2>1. item[j] = "queued" /\ Settleable(j) /\ j # i
    BY <1>1, <1>2 DEF Settleable
  <2>2. PICK f \in 1..events[j] : <<j, f>> \notin told
    BY <1>1, <1>3, <2>1 DEF ItemsInv, Awaited
  <2> QED BY <1>1, <2>1, <2>2
<1> QED BY <1>6, <1>9, <1>10, <1>11, <1>12, <1>13 DEF ItemsInv

LEMMA ItemsKept ==
    ASSUME IInv, Next, ItemsTyped'
    PROVE  ItemsInv'
<1>1. state \in {"queued", "running", "awaiting_approval", "cancelled"} \/ state = None => course = 0
  BY AgentRunConstants DEF IInv, RunFollowsItems
<1>2. CASE Create \/ Cancel \/ RetryPlan
  BY <1>1, <1>2, ItemsRest DEF Create, Cancel, RetryPlan
<1>3. CASE RetryWork
  BY <1>3, RetryWorkKeeps
<1>4. CASE Approve
  BY <1>4, ApproveKeeps
<1>5. CASE Aside
  <2>1. CASE Look \/ Offer \/ RunOutOfTime
    BY <2>1, ItemsRest DEF Look, Offer, RunOutOfTime, runVars
  <2>2. ASSUME NEW kept \in SUBSET Step, EditCourse(kept) PROVE ItemsInv'
    <3>1. course # 0
      BY <2>2 DEF EditCourse, IInv, BeforeCourse
    <3>2. /\ UNCHANGED <<state, course, item, verdict, told, handed>> /\ steps' \subseteq steps
          /\ \A i \in Item : events'[i] = events[i] \/ events'[i] = events[i] + 1
      BY <2>2 DEF EditCourse, runVars
    <3> QED BY <3>1, <3>2, ItemsGrow
  <2> QED BY <1>5, <2>1, <2>2 DEF Aside
<1>6. ASSUME NEW d \in {"approved", "dismissed", "expired"}, Decide(d) PROVE ItemsInv'
  <2>1. UNCHANGED <<itemVars, course>> /\ (state' = state \/ state = "awaiting_approval")
    BY <1>6 DEF Decide, FinishRun
  <2> QED BY <1>1, <2>1, ItemsRest
<1>7. ASSUME NEW w \in Worker, NEW a \in Attempt, Claim(w, a) PROVE ItemsInv'
  BY <1>1, <1>7, ItemsRest DEF Claim, Claimable
<1>8. ASSUME NEW w \in Worker, Attempting(w) PROVE ItemsInv'
  <2>1. UNCHANGED <<itemVars, course>> /\ (state' = state \/ state = "running")
    BY <1>8, WorkerEffects DEF runVars, Takes, Plans, Loses, TakePlan, FailRun, Holds
  <2> QED BY <1>1, <2>1, ItemsRest
<1>9. ASSUME NEW a \in Attempt, Expire(a) PROVE ItemsInv'
  BY <1>9, ItemsRest DEF Expire, runVars
<1>10. ASSUME NEW p \in Step, NEW e \in 1..MaxEvents, HandOver(p, e) PROVE ItemsInv'
  <2> DEFINE i == <<p, "video">>
             r == <<p, "retrieval">>
  <2>1. i \in Item /\ r \in Item /\ e <= events[i]
    BY <1>10, ItemsOfStep DEF HandOver, Open
  <2>2. /\ handed' = handed \cup {<<i, e>>} /\ events' = [events EXCEPT ![r] = events[r] + 1]
        /\ UNCHANGED <<state, course, steps, item, verdict, told>>
    BY <1>10 DEF HandOver, runVars
  <2>3. course # 0
    <3> HIDE DEF i, r
    <3> QED BY <2>1, WorkHasCourse
  <2>4. \A j \in Item : events'[j] = IF j = r THEN events[r] + 1 ELSE events[j]
    <3> HIDE DEF i, r
    <3> QED BY <2>2, ItemValues DEF ItemsTyped
  <2>5. events[r] \in Nat
    <3> HIDE DEF i, r
    <3> QED BY <2>1, ItemValues
  <2>6. ASSUME NEW q \in Posted, NEW f \in 1..MaxEvents, <<<<q, "video">>, f>> \in handed'
        PROVE  <<<<q, "video">>, f>> \in handed \/ events'[<<q, "retrieval">>] > 0
    <3>1. CASE q = p
      BY <2>1, <2>4, <2>5, <3>1
    <3>2. CASE q # p
      BY <2>2, <2>6, <3>2
    <3> QED BY <3>1, <3>2
  <2> HIDE DEF i, r
  <2> QED BY <2>2, <2>3, <2>4, <2>6, ItemsGrow
<1>11. ASSUME NEW i \in Item, NEW e \in 1..MaxEvents, JobEnds(i, e) \/ JobIsLost(i, e) PROVE ItemsInv'
  BY <1>11, VerdictKeeps
<1>12. ASSUME NEW i \in Item, NEW e \in 1..MaxEvents, Replay(i, e) PROVE ItemsInv'
  <2>1. course # 0
    BY <1>12, WorkHasCourse DEF Replay
  <2>2. /\ UNCHANGED <<state, course, steps, item, verdict, told, handed>>
        /\ events' = [events EXCEPT ![i] = events[i] + 1]
    BY <1>12 DEF Replay, runVars
  <2>3. \A j \in Item : events'[j] = events[j] \/ events'[j] = events[j] + 1
    BY <2>2, ItemValues DEF ItemsTyped
  <2> QED BY <2>1, <2>2, <2>3, ItemsGrow
<1>13. ASSUME NEW i \in Item, NEW e \in 1..MaxEvents, Settle(i, e) PROVE ItemsInv'
  BY <1>13, SettleKeeps
<1> QED BY <1>2, <1>3, <1>4, <1>5, <1>6, <1>7, <1>8, <1>9, <1>10, <1>11, <1>12, <1>13, Steps DEF OfJobs
-----------------------------------------------------------------------------
(* The theorems. *)

LEMMA InitIInv == Init => IInv
<1> SUFFICES ASSUME Init PROVE IInv
  OBVIOUS
<1>1. TypeOK /\ BudgetKept
  BY InitTyped, InitBudget
<1>2. Busy
  BY DEF Init, Busy, Idle
<1>3. RunFollowsAttempts
  BY AgentRunConstants DEF Init, RunFollowsAttempts
<1>4. Begun /\ SeenBefore
  BY DEF Init, Begun, SeenBefore
<1>5. BeforeCourse /\ AfterCourse /\ RunFollowsItems
  BY DEF Init, BeforeCourse, AfterCourse, RunFollowsItems
<1>6. Appended /\ Handed /\ Awaited
  BY AgentRunConstants, ItemsOfStep DEF Init, Appended, Handed, Awaited, Event
<1> QED BY <1>1, <1>2, <1>3, <1>4, <1>5, <1>6 DEF IInv

LEMMA NextIInv ==
    ASSUME IInv, [Next]_vars
    PROVE  IInv'
<1>1. CASE Next
  <2>1. TypeOK'
    BY <1>1, RunTypedKept, AttemptsTypedKept, ItemsTypedKept, OwnerTypedKept, WorkersTypedKept,
       TypePartsNext
  <2>2. Busy' /\ BudgetKept' /\ RunFollowsAttempts' /\ Begun' /\ SeenBefore'
    BY <1>1, WorkersTypedKept, BudgetKeptKept, RunFollowsAttemptsKept, VersionsKept
  <2>3. ItemsInv'
    BY <1>1, ItemsTypedKept, ItemsKept
  <2> QED BY <2>1, <2>2, <2>3 DEF IInv, ItemsInv
<1>2. CASE UNCHANGED vars
  <2>1. ItemsInv'
    BY <1>2, ItemsRest DEF vars, runVars
  <2>2. TypeOK' /\ Busy' /\ BudgetKept'
    BY <1>2 DEF IInv, TypeOK, Busy, Mine, BudgetKept, vars, attemptVars, runVars, itemVars, offerVars
  <2>3. RunFollowsAttempts' /\ Begun' /\ SeenBefore'
    BY <1>2 DEF IInv, RunFollowsAttempts, Begun, SeenBefore, vars, attemptVars, runVars
  <2> QED BY <2>1, <2>2, <2>3 DEF IInv, ItemsInv
<1> QED BY <1>1, <1>2

LEMMA Invariant == Spec => []IInv
BY InitIInv, NextIInv, PTL DEF Spec

\* Every variable keeps its type; what is spent is never taken below zero by a
\* reconciliation (reconcileReservedUsage).
THEOREM TypesCorrect == Spec => []TypeOK
<1>1. IInv => TypeOK
  BY DEF IInv
<1> QED BY <1>1, Invariant, PTL

\* The usage of a run is that of its attempts and within its budget, for any
\* number of workers and attempts (reserveRunUsage, completeRunAttempt,
\* failRunAttempt).
THEOREM BudgetHolds == Spec => []BudgetKept
<1>1. IInv => BudgetKept
  BY DEF IInv
<1> QED BY <1>1, Invariant, PTL

\* The run is where its last attempt is and those before are over
\* (claimRunAttempt, cancelRun, retryRun).
THEOREM AttemptsFollowed == Spec => []RunFollowsAttempts
<1>1. IInv => RunFollowsAttempts
  BY DEF IInv
<1> QED BY <1>1, Invariant, PTL

\* A run with a course is completed when all of its work is, failed when there
\* is something to retry, and approved while it waits for work alone
\* (settleAgentWorkItem, requeueApprovedWork).
THEOREM ItemsFollowed == Spec => []RunFollowsItems
<1>1. IInv => RunFollowsItems
  BY DEF IInv
<1> QED BY <1>1, Invariant, PTL

LEMMA WaitingFromIInv ==
    ASSUME IInv
    PROVE  WaitingHasJob
<1> SUFFICES ASSUME NEW i \in Item, item[i] = "queued", Settleable(i),
                    \A e \in 1..events[i] : <<i, e>> \in told
             PROVE  i[2] = "retrieval" /\ item[<<i[1], "video">>] # "completed"
  BY DEF WaitingHasJob
<1>1. ItemsInv /\ events[i] \in 0..MaxEvents /\ MaxEvents \in Nat
  BY ItemValues
<1>2. events[i] = 0
  <2>1. ~(events[i] > 0)
    BY <1>1 DEF ItemsInv, Awaited
  <2> QED BY <1>1, <2>1
<1>3. course # 0
  BY ItemValues DEF ItemsInv, BeforeCourse
<1>4. i[2] = "retrieval" /\ i[1] \in Posted
  BY <1>1, <1>2, <1>3 DEF ItemsInv, AfterCourse, SentAtOnce
<1>5. i = <<i[1], "retrieval">>
  BY <1>4 DEF Item
<1> DEFINE p == i[1]
           v == <<p, "video">>
<1>6. ASSUME item[v] = "completed" PROVE FALSE
  <2>1. p \in Posted /\ v \in Item
    BY <1>4, ItemsOfStep
  <2>2. events[v] \in 0..MaxEvents
    BY <2>1, ItemValues
  <2>3. PICK e \in 1..events[v] : verdict[<<v, e>>] = "completed"
    BY <1>1, <1>3, <1>6, <2>1 DEF ItemsInv, RunFollowsItems
  <2>4. e \in 1..MaxEvents
    BY <1>1, <2>2
  <2>5. events[<<p, "retrieval">>] > 0
    BY <1>1, <2>1, <2>3, <2>4 DEF ItemsInv, Handed
  <2> QED BY <1>2, <1>5, <2>5
<1> QED BY <1>4, <1>6

\* An item that waits has a job to settle it, or waits for its video
\* (approveRun, requeueApprovedWork, processVideoAsset).
THEOREM WaitingServed == Spec => []WaitingHasJob
BY Invariant, WaitingFromIInv, PTL

\* A course is made once, of the plan the owner has looked at (approveRun).
THEOREM ApprovalSafe == Spec => ApprovedWhatWasSeen
<1>1. ASSUME IInv, Next, course' # course
      PROVE  course = 0 /\ course' = seen.plan /\ course' # 0
  <2>1. CASE Approve
    <3>1. seen.plan = plan /\ course' = plan /\ state = "awaiting_approval"
      BY <1>1, <2>1 DEF Approve, AsSeen, IInv, SeenBefore
    <3>2. course = 0 /\ plan = tries /\ tries # 0
      BY <1>1, <3>1, AgentRunConstants DEF IInv, RunFollowsItems, RunFollowsAttempts, Begun
    <3> QED BY <3>1, <3>2
  <2>2. CASE Create \/ Cancel \/ RetryPlan \/ RetryWork
    BY <1>1, <2>2 DEF Create, Cancel, RetryPlan, RetryWork
  <2>3. CASE Aside
    BY <1>1, <2>3, AsideEffects DEF runVars
  <2>4. ASSUME NEW d \in {"approved", "dismissed", "expired"}, Decide(d) PROVE FALSE
    BY <1>1, <2>4 DEF Decide
  <2>5. ASSUME NEW w \in Worker, NEW a \in Attempt, Claim(w, a) PROVE FALSE
    BY <1>1, <2>5 DEF Claim
  <2>6. ASSUME NEW w \in Worker, Attempting(w) PROVE FALSE
    BY <1>1, <2>6, WorkerEffects DEF runVars, Takes, Plans, Loses, TakePlan, FailRun
  <2>7. ASSUME NEW a \in Attempt, Expire(a) PROVE FALSE
    BY <1>1, <2>7 DEF Expire, runVars
  <2>8. CASE OfJobs
    BY <1>1, <2>8, JobEffects DEF runVars
  <2>9. ASSUME NEW i \in Item, NEW e \in 1..MaxEvents, Settle(i, e) PROVE FALSE
    BY <1>1, <2>9 DEF Settle, runButState
  <2> QED BY <1>1, <2>1, <2>2, <2>3, <2>4, <2>5, <2>6, <2>7, <2>8, <2>9, Steps
<1>2. IInv /\ [Next]_vars => [course' # course => course = 0 /\ course' = seen.plan /\ course' # 0]_vars
  BY <1>1
<1> QED BY <1>2, Invariant, PTL DEF Spec, ApprovedWhatWasSeen
=============================================================================
