------------------------- MODULE CourseIndex_proofs -------------------------
(***************************************************************************)
(* Proofs about CourseIndex, for any posts, steps, executions and bounds.  *)
(***************************************************************************)
EXTENDS CourseIndex, FiniteSetTheorems, TLAPS

(* Executions that hold the claim of event e; those of them that are done;  *)
(* and those that cannot bring the index up to date any more.               *)

Holders(e) == {x \in Slot : exec[x] # None /\ exec[x].mine /\ exec[x].event = e}

Done(e) == {x \in Holders(e) : exec[x].phase = "done"}

Late(e) == {x \in Holders(e) :
                \/ exec[x].phase = "done"
                \/ /\ exec[x].phase \in {"missing", "embedding"}
                   /\ exec[x].snapshot.version # Now}

AssetAwaited ==
    \E p \in Post, st \in Step \cup {None} : asset[<<p, st>>] > 0 /\ source \in {p, st}

(* The inductive invariant. *)

\* Every claim is of an open event of its own.
ClaimsBacked == \A e \in Version : Claims(e) <= index[e]

\* Whatever can be read has a version, and a course that is not there no step.
Ages ==
    /\ \A p \in Post : post[p].exists => post[p].version >= 1
    /\ course.status # "none" => course.version >= 1
    /\ course.status = "none" => course.version = 0 /\ Steps = {}
    /\ skipped => source \in Step

\* What was read of the source is not newer than the source, and has its
\* audience if it is as new.
AsOf(c) ==
    /\ c.version >= 1 /\ c.version <= Now
    /\ Readable /\ c.version = Now => c.public = Public

Reads ==
    /\ chunk # None => AsOf(chunk)
    /\ \A x \in Slot : exec[x] # None /\ exec[x].phase = "embedding" => AsOf(exec[x].snapshot)
    /\ \A x \in Slot : exec[x] # None /\ exec[x].phase = "missing" => exec[x].snapshot.version = 0

\* Some event that asks for the present version has an execution to come.
Refreshed == \E e \in {0, Now} : Cardinality(Late(e)) < index[e]

UpToDate ==
    Readable => Indexed \/ Refreshed \/ AssetAwaited \/ abandoned \/ skipped \/ rewritten

Cleared ==
    ~Readable /\ chunk # None => abandoned \/ \E e \in Version : Cardinality(Done(e)) < index[e]

IInv == TypeOK /\ ClaimsBacked /\ Ages /\ Reads /\ UpToDate /\ Cleared

-----------------------------------------------------------------------------
(* Counting executions. *)

LEMMA Counted ==
    ASSUME NEW S \in SUBSET Slot, NEW T \in SUBSET S
    PROVE  /\ IsFiniteSet(S)
           /\ Cardinality(S) \in Nat
           /\ Cardinality(T) \in Nat
           /\ Cardinality(T) <= Cardinality(S)
<1>1. IsFiniteSet(S) /\ IsFiniteSet(T)
  BY CourseIndexConstants, FS_Subset
<1> QED BY <1>1, FS_CardinalityType, FS_Subset

LEMMA OneMore ==
    ASSUME NEW S \in SUBSET Slot, NEW x \in Slot \ S
    PROVE  Cardinality(S \cup {x}) = Cardinality(S) + 1
BY Counted, FS_AddElement

LEMMA OneLess ==
    ASSUME NEW S \in SUBSET Slot, NEW x \in S
    PROVE  Cardinality(S \ {x}) = Cardinality(S) - 1
BY Counted, FS_RemoveElement

LEMMA Constants ==
    /\ 0 \in Version /\ 1 \in Version
    /\ Version \subseteq Nat
    /\ MaxVersion \in Nat /\ MaxEdits \in Nat /\ MaxEdits <= MaxVersion
    /\ MaxFaults \in Nat
BY CourseIndexConstants DEF Version

\* What TypeOK says of the values that are read.
LEMMA Values ==
    ASSUME TypeOK
    PROVE  /\ Now \in Version /\ Public \in BOOLEAN /\ Readable \in BOOLEAN
           /\ Content \in Contents /\ NoContent \in Contents
           /\ Content # None
<1>1. Now \in Version
  BY DEF Now, TypeOK
<1>2. Public \in BOOLEAN
  BY DEF Public
<1>3. Text \in Version
  <2> DEFINE p == IF source \in Post THEN source ELSE step[source].post
  <2>1. p # None => p \in Post
    BY DEF TypeOK
  <2>2. Text = IF p # None /\ post[p].exists THEN post[p].version ELSE 0
    BY DEF Text
  <2> HIDE DEF p
  <2> QED BY <2>1, <2>2, Constants DEF TypeOK
<1>4. Content \in Contents /\ NoContent \in Contents
  BY <1>1, <1>2, <1>3, Constants DEF Content, NoContent, Contents
<1>5. Readable \in BOOLEAN
  BY DEF Readable, TypeOK
<1> QED BY <1>1, <1>2, <1>4, <1>5, CourseIndexConstants

LEMMA SnapshotTyped ==
    ASSUME TypeOK, NEW e \in Version
    PROVE  Snapshot(e) \in Execution
<1> DEFINE read == IF Readable THEN Content ELSE NoContent
           at == IF ~Readable THEN "missing"
                 ELSE IF e \in {0, Now} THEN "embedding"
                 ELSE IF e < Now THEN "done"
                 ELSE "refused"
<1>1. read \in Contents
  BY Values
<1>2. at \in Phase
  BY DEF Phase
<1>3. Snapshot(e) = [event |-> e, mine |-> TRUE, snapshot |-> read, phase |-> at]
  BY DEF Snapshot
<1> HIDE DEF read, at
<1> QED BY <1>1, <1>2, <1>3 DEF Execution

-----------------------------------------------------------------------------
(* Types. *)

LEMMA InitTyped == Init => TypeOK
<1> SUFFICES ASSUME Init PROVE TypeOK
  OBVIOUS
<1>1. /\ post \in [Post -> [exists : BOOLEAN, version : Version]]
      /\ step \in [Step -> [place : {"unused", "in", "out"}, post : Post \cup {None}]]
  BY Constants DEF Init
<1>2. /\ course \in [status : {"none", "draft", "published", "archived"}, version : Version]
      /\ listed \subseteq Version /\ given \in Version
  BY Constants DEF Init
<1>3. /\ index \in [Version -> Nat] /\ asset \in [Assets -> Nat] /\ told \in [Assets -> Nat]
      /\ stray \subseteq Assets /\ late \subseteq stray
  BY DEF Init
<1>4. exec \in [Slot -> Execution \cup {None}]
  BY DEF Init
<1>5. /\ source \in Post \cup Step /\ chunk \in Contents \cup {None}
      /\ abandoned \in BOOLEAN /\ skipped \in BOOLEAN /\ rewritten \in BOOLEAN
  BY DEF Init
<1>6. faults \in 0..MaxFaults
  BY Constants DEF Init
<1> QED BY <1>1, <1>2, <1>3, <1>4, <1>5, <1>6 DEF TypeOK

LEMMA EditTyped ==
    ASSUME TypeOK, NEW p \in Post, Edit(p)
    PROVE  /\ post' \in [Post -> [exists : BOOLEAN, version : Version]]
           /\ \A q \in Post \ {p} : post'[q] = post[q]
           /\ post[p].exists /\ post'[p].exists
           /\ post'[p].version = post[p].version + 1
<1> DEFINE row == [post[p] EXCEPT !.version = @ + 1]
<1>1. post[p] \in [exists : BOOLEAN, version : Version]
  BY DEF TypeOK
<1>2. post[p].version + 1 \in Version
  BY <1>1, Constants DEF Edit, Version
<1>3. /\ row \in [exists : BOOLEAN, version : Version]
      /\ row.exists = post[p].exists /\ row.version = post[p].version + 1
  BY <1>1, <1>2
<1>4. post' = [post EXCEPT ![p] = row]
  BY DEF Edit
<1> HIDE DEF row
<1> QED BY <1>3, <1>4 DEF Edit, TypeOK

LEMMA PostTyped == ASSUME TypeOK, PostStep PROVE TypeOK'
<1> USE Constants DEF courseVars, assetVars, eventVars, historyVars
<1>1. ASSUME NEW s, NEW v \in Version, Request(s, v) PROVE index' \in [Version -> Nat]
  BY <1>1 DEF Request, TypeOK
<1>2. ASSUME NEW p \in Post, NEW st \in Step \cup {None}, RequestAsset(p, st)
      PROVE asset' \in [Assets -> Nat] /\ UNCHANGED <<told, stray, late>>
  BY <1>2 DEF RequestAsset, Assets, TypeOK
<1>3. ASSUME NEW p \in Post, Edit(p)
      PROVE post' \in [Post -> [exists : BOOLEAN, version : Version]]
  BY <1>3, EditTyped
<1>4. ASSUME NEW p \in Post, CreatePost(p) PROVE TypeOK'
  BY <1>1, <1>2, <1>4 DEF CreatePost, TypeOK
<1>5. ASSUME NEW p \in Post, UpdatePost(p) PROVE TypeOK'
  BY <1>1, <1>3, <1>5 DEF UpdatePost, ReadAgain, TypeOK
<1>6. ASSUME NEW p \in Post, ReplaceVideo(p) PROVE TypeOK'
  BY <1>1, <1>2, <1>3, <1>6 DEF ReplaceVideo, ReadAgain, TypeOK
<1>7. ASSUME NEW p \in Post, DeletePost(p) PROVE TypeOK'
  BY <1>7 DEF DeletePost, TypeOK
<1>8. ASSUME NEW p \in Post, RequestPreparation(p) PROVE TypeOK'
  BY <1>2, <1>3, <1>8 DEF RequestPreparation, ReadAgain, TypeOK
<1> QED BY <1>4, <1>5, <1>6, <1>7, <1>8 DEF PostStep

LEMMA AssetTyped == ASSUME TypeOK, AssetStep PROVE TypeOK'
<1> USE Constants DEF courseVars, assetVars, eventVars, historyVars
<1> SUFFICES ASSUME NEW p \in Post, NEW st \in Step \cup {None},
                    \/ WriteAsset(p, st) \/ AppendRequest(p, st) \/ FinishAsset(p, st)
                    \/ LoseAsset(p, st) \/ GiveUpAsset(p, st) \/ AppendLate(p, st)
             PROVE  TypeOK'
  BY DEF AssetStep
<1>1. <<p, st>> \in Assets
  BY DEF Assets
<1>2. ASSUME AskIndex(p, st) PROVE index' \in [Version -> Nat] /\ rewritten' \in BOOLEAN
  BY <1>2 DEF AskIndex, Request, ReadAgain, TypeOK
<1>3. ASSUME asset[<<p, st>>] > 0, asset' = [asset EXCEPT ![<<p, st>>] = @ - 1]
      PROVE  asset' \in [Assets -> Nat]
  BY <1>1, <1>3 DEF TypeOK
<1>4. CASE WriteAsset(p, st)
  <2>1. post' \in [Post -> [exists : BOOLEAN, version : Version]]
    BY <1>4, EditTyped DEF WriteAsset
  <2>2. rewritten' \in BOOLEAN
    BY <1>4 DEF WriteAsset
  <2> QED BY <1>4, <2>1, <2>2 DEF WriteAsset, TypeOK
<1>5. CASE AppendRequest(p, st)
  <2>1. told' \in [Assets -> Nat]
    BY <1>1, <1>5 DEF AppendRequest, TypeOK
  <2> QED BY <1>2, <1>3, <1>5, <2>1 DEF AppendRequest, TypeOK
<1>6. CASE FinishAsset(p, st)
  <2>1. told' \in [Assets -> Nat]
    BY <1>1, <1>6 DEF FinishAsset, TypeOK
  <2> QED BY <1>6, <2>1 DEF FinishAsset, TypeOK
<1>7. CASE LoseAsset(p, st)
  BY <1>1, <1>7 DEF LoseAsset, Fault, TypeOK
<1>8. CASE GiveUpAsset(p, st)
  <2>1. late' \subseteq stray' /\ abandoned' \in BOOLEAN
    BY <1>8 DEF GiveUpAsset, TypeOK
  <2>2. faults' \in 0..MaxFaults
    BY <1>8 DEF GiveUpAsset, Fault, TypeOK
  <2> QED BY <1>3, <1>8, <2>1, <2>2 DEF GiveUpAsset, TypeOK
<1>9. CASE AppendLate(p, st)
  BY <1>2, <1>9 DEF AppendLate, TypeOK
<1> QED BY <1>4, <1>5, <1>6, <1>7, <1>8, <1>9

LEMMA CreateTyped == ASSUME TypeOK, CreateStep PROVE TypeOK'
<1> USE Constants DEF courseVars, assetVars, eventVars, historyVars
<1>1. ASSUME NEW s, NEW v \in Version, Request(s, v) PROVE index' \in [Version -> Nat]
  BY <1>1 DEF Request, TypeOK
<1>2. ASSUME NEW status \in {"draft", "published"}, NEW v \in Version, NEW sts \in SUBSET Step,
             NEW p \in Post \cup {None}, New(status, v, sts, p)
      PROVE  /\ course' \in [status : {"none", "draft", "published", "archived"}, version : Version]
             /\ step' \in [Step -> [place : {"unused", "in", "out"}, post : Post \cup {None}]]
             /\ listed' \subseteq Version /\ given' \in Version
  BY <1>2 DEF New, Placed, TypeOK
<1>3. ASSUME NEW sts \in SUBSET Step, NEW p \in Post \cup {None}, Create(sts, p) PROVE TypeOK'
  BY <1>1, <1>2, <1>3 DEF Create, TypeOK
<1>4. ASSUME NEW sts \in SUBSET Step, NEW p \in Post \cup {None}, CreateFromPlan(sts, p)
      PROVE  TypeOK'
  <2>1. 2 \in Version
    BY <1>4 DEF CreateFromPlan, Version
  <2>2. index' \in [Version -> Nat]
    BY <1>1, <1>4 DEF CreateFromPlan, TypeOK
  <2>3. asset' \in [Assets -> Nat]
    BY <1>4 DEF CreateFromPlan, TypeOK
  <2> QED BY <1>2, <1>4, <2>1, <2>2, <2>3 DEF CreateFromPlan, TypeOK
<1>5. ASSUME NEW st \in Step, NEW p \in Post \cup {None}, ApproveIntoNew(st, p) PROVE TypeOK'
  BY <1>1, <1>2, <1>5 DEF ApproveIntoNew, TypeOK
<1> QED BY <1>3, <1>4, <1>5 DEF CreateStep

LEMMA LockedTyped ==
    ASSUME TypeOK, NEW v \in Version, Locked(v)
    PROVE  course.version + 1 \in Version /\ given' \in Version
<1>1. course.version \in Version /\ course.version < MaxVersion /\ given' = v
  BY DEF Locked, TypeOK
<1> QED BY <1>1, Constants DEF Version

LEMMA CourseTyped == ASSUME TypeOK, CourseStep PROVE TypeOK'
<1> USE Constants DEF courseVars, assetVars, eventVars, historyVars
<1> SUFFICES ASSUME NEW v \in Version,
                    \/ UpdateMetadata(v) \/ Publish(v) \/ Archive(v)
                    \/ \E p \in Post \cup {None} :
                         \/ \E st \in Step : ApproveIntoCourse(v, st, p)
                         \/ \E kept, added \in SUBSET Step : ReplaceSteps(v, kept, added, p)
             PROVE  TypeOK'
  BY DEF CourseStep
<1>1. ASSUME NEW s, NEW w \in Version, Request(s, w) PROVE index' \in [Version -> Nat]
  BY <1>1 DEF Request, TypeOK
<1>2. ASSUME Locked(v) PROVE course.version + 1 \in Version /\ given' \in Version
  BY <1>2, LockedTyped
<1>3. ASSUME Locked(v), NEW status \in {"draft", "published", "archived"}, NEW sts, Move(status, sts)
      PROVE  /\ course' \in [status : {"none", "draft", "published", "archived"}, version : Version]
             /\ listed' \subseteq Version
  BY <1>2, <1>3 DEF Move, TypeOK
<1>4. ASSUME Locked(v), NEW kept, NEW added, NEW removed, Reindex(kept, added, removed)
      PROVE  index' \in [Version -> Nat]
  BY <1>1, <1>2, <1>4 DEF Reindex
<1>5. Locked(v) => course.status \in {"draft", "published"}
  BY DEF Locked
<1>6. CASE UpdateMetadata(v)
  <2>1. /\ course' \in [status : {"none", "draft", "published", "archived"}, version : Version]
        /\ listed' \subseteq Version /\ given' \in Version
    BY <1>2, <1>3, <1>5, <1>6 DEF UpdateMetadata
  <2>2. index' \in [Version -> Nat]
    BY <1>4, <1>6 DEF UpdateMetadata
  <2>3. UNCHANGED <<post, step, source, chunk, assetVars, exec, abandoned, rewritten, faults>>
    BY <1>6 DEF UpdateMetadata
  <2>4. skipped' \in BOOLEAN
    BY <1>6 DEF UpdateMetadata
  <2> QED BY <2>1, <2>2, <2>3, <2>4 DEF TypeOK
<1>7. CASE Publish(v)
  <2>1. /\ course' \in [status : {"none", "draft", "published", "archived"}, version : Version]
        /\ listed' \subseteq Version /\ given' \in Version
    BY <1>2, <1>3, <1>5, <1>7 DEF Publish, Published
  <2>2. index' \in [Version -> Nat]
    BY <1>4, <1>7 DEF Publish
  <2>3. UNCHANGED <<post, step, source, chunk, assetVars, exec, abandoned, rewritten, faults>>
    BY <1>7 DEF Publish
  <2>4. skipped' \in BOOLEAN
    BY <1>7 DEF Publish
  <2> QED BY <2>1, <2>2, <2>3, <2>4 DEF TypeOK
<1>8. CASE Archive(v)
  <2>1. /\ course' \in [status : {"none", "draft", "published", "archived"}, version : Version]
        /\ listed' \subseteq Version /\ given' \in Version
    BY <1>2, <1>3, <1>5, <1>8 DEF Archive
  <2>2. index' \in [Version -> Nat]
    BY <1>4, <1>8 DEF Archive
  <2>3. UNCHANGED <<post, step, source, chunk, assetVars, exec, abandoned, rewritten, faults>>
    BY <1>8 DEF Archive
  <2>4. skipped' \in BOOLEAN
    BY <1>8 DEF Archive
  <2> QED BY <2>1, <2>2, <2>3, <2>4 DEF TypeOK
<1>9. ASSUME NEW p \in Post \cup {None}, NEW st \in Step, ApproveIntoCourse(v, st, p) PROVE TypeOK'
  <2>1. step' \in [Step -> [place : {"unused", "in", "out"}, post : Post \cup {None}]]
    BY <1>9 DEF ApproveIntoCourse, Placed, TypeOK
  <2>2. skipped' \in BOOLEAN
    BY <1>9 DEF ApproveIntoCourse
  <2>3. index' \in [Version -> Nat]
    BY <1>1, <1>2, <1>9 DEF ApproveIntoCourse
  <2>4. /\ course' \in [status : {"none", "draft", "published", "archived"}, version : Version]
        /\ listed' \subseteq Version /\ given' \in Version
    BY <1>2, <1>3, <1>5, <1>9 DEF ApproveIntoCourse
  <2>5. UNCHANGED <<post, source, chunk, assetVars, exec, abandoned, rewritten, faults>>
    BY <1>9 DEF ApproveIntoCourse
  <2> QED BY <2>1, <2>2, <2>3, <2>4, <2>5 DEF TypeOK
<1>10. ASSUME NEW p \in Post \cup {None}, NEW kept \in SUBSET Step, NEW added \in SUBSET Step,
              ReplaceSteps(v, kept, added, p)
       PROVE  TypeOK'
  <2>1. step' \in [Step -> [place : {"unused", "in", "out"}, post : Post \cup {None}]]
    BY <1>10 DEF ReplaceSteps, Placed, TypeOK
  <2>2. chunk' \in Contents \cup {None}
    BY <1>10 DEF ReplaceSteps, TypeOK
  <2>3. /\ course' \in [status : {"none", "draft", "published", "archived"}, version : Version]
        /\ listed' \subseteq Version
    BY <1>3, <1>5, <1>10 DEF ReplaceSteps
  <2>4. index' \in [Version -> Nat] /\ given' \in Version /\ skipped' \in BOOLEAN
    BY <1>2, <1>4, <1>10 DEF ReplaceSteps
  <2>5. UNCHANGED <<post, source, assetVars, exec, abandoned, rewritten, faults>>
    BY <1>10 DEF ReplaceSteps
  <2> QED BY <2>1, <2>2, <2>3, <2>4, <2>5 DEF TypeOK
<1> QED BY <1>6, <1>7, <1>8, <1>9, <1>10

\* An execution whose claim is its own holds an open event.
LEMMA OwnIsOpen ==
    ASSUME TypeOK, ClaimsBacked, NEW x \in Slot, exec[x] # None, exec[x].mine
    PROVE  index[exec[x].event] >= 1
<1> DEFINE e == exec[x].event
<1>1. e \in Version
  BY DEF TypeOK, Execution
<1>2. x \in Holders(e) /\ Holders(e) \in SUBSET Slot
  BY DEF Holders
<1>3. Cardinality(Holders(e)) \in Nat /\ Cardinality(Holders(e) \ {x}) \in Nat
  BY <1>2, Counted
<1>4. Cardinality(Holders(e) \ {x}) = Cardinality(Holders(e)) - 1
  BY <1>2, OneLess
<1>5. Cardinality(Holders(e)) <= index[e]
  BY <1>1 DEF ClaimsBacked, Claims, Holders
<1>6. index[e] \in Nat
  BY <1>1 DEF TypeOK
<1> QED BY <1>3, <1>4, <1>5, <1>6

LEMMA SlotTyped == ASSUME TypeOK, ClaimsBacked, SlotStep PROVE TypeOK'
<1> USE Constants DEF courseVars, assetVars, eventVars, historyVars, indexVars
<1>1. ASSUME NEW x \in Slot, Close(x), exec[x] # None PROVE index' \in [Version -> Nat]
  <2>1. exec[x].event \in Version /\ exec[x].mine \in BOOLEAN
    BY <1>1 DEF TypeOK, Execution
  <2>2. exec[x].mine => index[exec[x].event] - 1 \in Nat
    <3>1. exec[x].mine => index[exec[x].event] >= 1
      BY <1>1, OwnIsOpen
    <3>2. index[exec[x].event] \in Nat
      BY <2>1 DEF TypeOK
    <3> QED BY <3>1, <3>2
  <2> QED BY <1>1, <2>1, <2>2 DEF Close, TypeOK
<1>2. ASSUME NEW x \in Slot, NEW at \in Phase, exec[x] # None,
             exec' = [exec EXCEPT ![x].phase = at]
      PROVE  exec' \in [Slot -> Execution \cup {None}]
  <2> DEFINE row == [exec[x] EXCEPT !.phase = at]
  <2>1. row \in Execution
    BY <1>2 DEF TypeOK, Execution
  <2>2. exec' = [exec EXCEPT ![x] = row]
    BY <1>2
  <2> HIDE DEF row
  <2> QED BY <2>1, <2>2 DEF TypeOK
<1>3. ASSUME NEW x \in Slot, NEW e \in Version, Start(x, e) PROVE TypeOK'
  BY <1>3, SnapshotTyped DEF Start, TypeOK
<1>4. ASSUME NEW x \in Slot, NEW y \in Slot, TakeOver(x, y) PROVE TypeOK'
  <2> DEFINE row == [exec[y] EXCEPT !.mine = FALSE]
             new == Snapshot(exec[y].event)
  <2>1. row \in Execution /\ exec[y].event \in Version
    BY <1>4 DEF TakeOver, TypeOK, Execution
  <2>2. new \in Execution
    BY <2>1, SnapshotTyped
  <2>3. exec' = [exec EXCEPT ![y] = row, ![x] = new]
    BY <1>4 DEF TakeOver
  <2> HIDE DEF row, new
  <2>4. exec' \in [Slot -> Execution \cup {None}]
    BY <2>1, <2>2, <2>3 DEF TypeOK
  <2>5. faults' \in 0..MaxFaults
    BY <1>4 DEF TakeOver, Fault, TypeOK
  <2>6. UNCHANGED <<post, courseVars, source, assetVars, chunk, index, historyVars>>
    BY <1>4 DEF TakeOver
  <2> QED BY <2>4, <2>5, <2>6 DEF TypeOK
<1>5. ASSUME NEW x \in Slot, Store(x) PROVE TypeOK'
  <2>1. exec[x].snapshot \in Contents
    BY <1>5 DEF Store, TypeOK, Execution
  <2>2. chunk' \in Contents \cup {None}
    BY <1>5, <2>1 DEF Store, Stored, TypeOK
  <2>3. exec' \in [Slot -> Execution \cup {None}]
    BY <1>2, <1>5 DEF Store, Phase
  <2> QED BY <1>5, <2>2, <2>3 DEF Store, TypeOK
<1>6. ASSUME NEW x \in Slot, Clean(x) PROVE TypeOK'
  <2>1. exec' \in [Slot -> Execution \cup {None}]
    BY <1>2, <1>6 DEF Clean, Phase
  <2> QED BY <1>6, <2>1 DEF Clean, Cleaned, TypeOK
<1>7. ASSUME NEW x \in Slot, Break(x) PROVE TypeOK'
  <2>1. exec' \in [Slot -> Execution \cup {None}]
    BY <1>2, <1>7 DEF Break, Phase
  <2> QED BY <1>7, <2>1 DEF Break, Fault, TypeOK
<1>8. ASSUME NEW x \in Slot, Record(x) PROVE TypeOK'
  BY <1>1, <1>8 DEF Record, TypeOK
<1>9. ASSUME NEW x \in Slot, Retry(x) PROVE TypeOK'
  BY <1>9 DEF Retry, TypeOK
<1>10. ASSUME NEW x \in Slot, GiveUp(x) PROVE TypeOK'
  BY <1>1, <1>10 DEF GiveUp, TypeOK
<1>11. ASSUME NEW x \in Slot, Crash(x) PROVE TypeOK'
  BY <1>11 DEF Crash, Fault, TypeOK
<1> QED BY <1>3, <1>4, <1>5, <1>6, <1>7, <1>8, <1>9, <1>10, <1>11 DEF SlotStep

-----------------------------------------------------------------------------
(* Steps outside of the executions: what they may do to the source.         *)

OutsideStep == PostStep \/ AssetStep \/ CreateStep \/ CourseStep

Forward ==
    /\ Now' >= Now
    /\ Now' = Now => (Readable' => Readable /\ Public' = Public)
    /\ chunk' \in {chunk, None}

\* The source cannot be read, or an event asks for what it is now.
Asked ==
    \/ ~Readable'
    \/ \E e \in {0, Now'} : index'[e] = index[e] + 1
    \/ AssetAwaited' \/ abandoned' \/ skipped' \/ rewritten'

\* Nothing happened to it.
Quiet ==
    /\ Now' = Now /\ chunk' = chunk
    /\ Readable' => Readable
    /\ AssetAwaited => AssetAwaited'
    /\ abandoned => abandoned'
    /\ skipped => skipped'
    /\ rewritten => rewritten'

Growing == \A e \in Version : index'[e] >= index[e]

\* What is left in the index of a source that is gone will be cleared.
Leaving ==
    \/ Readable' \/ chunk' = None
    \/ \E e \in Version : index'[e] = index[e] + 1
    \/ ~Readable /\ chunk' = chunk /\ (abandoned => abandoned')

Outside ==
    /\ exec' = exec /\ source' = source
    /\ Forward /\ Growing /\ Leaving
    /\ Asked \/ Quiet

LEMMA OfPost ==
    ASSUME TypeOK, TypeOK', source' = source, source \in Post
    PROVE  /\ Now = post[source].version /\ Now' = post'[source].version
           /\ Readable = post[source].exists /\ Readable' = post'[source].exists
           /\ Public = TRUE /\ Public' = TRUE
BY DEF Now, Readable, Public

LEMMA OfStep ==
    ASSUME TypeOK, TypeOK', source' = source, source \notin Post
    PROVE  /\ source \in Step
           /\ Now = course.version /\ Now' = course'.version
           /\ Readable = (step[source].place = "in" /\ course.status \in {"draft", "published"})
           /\ Readable' = (step'[source].place = "in" /\ course'.status \in {"draft", "published"})
           /\ Public = (course.status = "published")
           /\ Public' = (course'.status = "published")
BY DEF Now, Readable, Public, Steps, TypeOK

LEMMA NowIsNat == ASSUME TypeOK, TypeOK' PROVE Now \in Nat /\ Now' \in Nat /\ Now' \in Version
BY Constants DEF Now, TypeOK

LEMMA RequestGrows ==
    ASSUME TypeOK, NEW s, NEW v \in Version, Request(s, v)
    PROVE  /\ Growing
           /\ s = source => index'[v] = index[v] + 1
<1>1. index \in [Version -> Nat]
  BY DEF TypeOK
<1> QED BY <1>1 DEF Request, Growing

LEMMA SameIndexGrows == ASSUME TypeOK, UNCHANGED index PROVE Growing
BY DEF Growing, TypeOK

LEMMA AssetStays ==
    ASSUME TypeOK, TypeOK', source' = source,
           \A a \in Assets : asset'[a] >= asset[a]
    PROVE  AssetAwaited => AssetAwaited'
<1> SUFFICES ASSUME AssetAwaited PROVE AssetAwaited'
  OBVIOUS
<1>1. PICK p \in Post, st \in Step \cup {None} : asset[<<p, st>>] > 0 /\ source \in {p, st}
  BY DEF AssetAwaited
<1>2. asset[<<p, st>>] \in Nat /\ asset'[<<p, st>>] >= asset[<<p, st>>] /\ asset'[<<p, st>>] > 0
  <2>1. asset[<<p, st>>] \in Nat /\ asset'[<<p, st>>] \in Nat
    BY DEF TypeOK, Assets
  <2>2. asset'[<<p, st>>] >= asset[<<p, st>>]
    BY DEF Assets
  <2> QED BY <1>1, <2>1, <2>2
<1> QED BY <1>1, <1>2 DEF AssetAwaited

LEMMA PostMoves == ASSUME TypeOK, TypeOK', Ages, PostStep PROVE Outside
<1> USE DEF courseVars, assetVars, eventVars, historyVars
<1> SUFFICES ASSUME NEW p \in Post,
                    CreatePost(p) \/ UpdatePost(p) \/ ReplaceVideo(p) \/ DeletePost(p)
                        \/ RequestPreparation(p)
             PROVE  Outside
  BY DEF PostStep
<1>1. /\ UNCHANGED <<exec, source, course, abandoned, skipped>>
      /\ chunk' \in {chunk, None}
      /\ \A st \in Step : step'[st].place = step[st].place
      /\ \A q \in Post \ {p} : post'[q] = post[q]
  <2>1. /\ UNCHANGED <<exec, source, course, abandoned, skipped>>
        /\ chunk' \in {chunk, None}
    BY DEF CreatePost, UpdatePost, ReplaceVideo, DeletePost, RequestPreparation
  <2>2. \A st \in Step : step'[st].place = step[st].place
    BY DEF CreatePost, UpdatePost, ReplaceVideo, DeletePost, RequestPreparation, TypeOK
  <2>3. \A q \in Post \ {p} : post'[q] = post[q]
    BY DEF CreatePost, UpdatePost, ReplaceVideo, DeletePost, RequestPreparation, Edit, TypeOK
  <2> QED BY <2>1, <2>2, <2>3
<1>2. Growing
  BY RequestGrows, SameIndexGrows, Constants
     DEF CreatePost, UpdatePost, ReplaceVideo, DeletePost, RequestPreparation
<1>3. \A a \in Assets : asset'[a] >= asset[a]
  <2>1. asset' = asset \/ RequestAsset(p, None)
    BY DEF CreatePost, UpdatePost, ReplaceVideo, DeletePost, RequestPreparation
  <2>2. asset \in [Assets -> Nat]
    BY DEF TypeOK
  <2> QED BY <2>1, <2>2 DEF RequestAsset
<1>4. AssetAwaited => AssetAwaited'
  BY <1>1, <1>3, AssetStays
<1>5. Now \in Nat /\ Now' \in Nat
  BY NowIsNat, Constants
<1>6. CASE source # p
  <2>1. Now' = Now /\ Readable' = Readable /\ (Public' <=> Public)
    <3>1. CASE source \in Post
      BY <1>1, <1>6, <3>1, OfPost
    <3>2. CASE source \notin Post
      BY <1>1, <3>2, OfStep
    <3> QED BY <3>1, <3>2
  <2>2. chunk' = chunk /\ (rewritten => rewritten')
    <3>1. chunk' = chunk
      BY <1>6 DEF CreatePost, UpdatePost, ReplaceVideo, DeletePost, RequestPreparation
    <3>2. rewritten' = rewritten \/ ReadAgain(p)
      BY DEF CreatePost, UpdatePost, ReplaceVideo, DeletePost, RequestPreparation
    <3>3. ReadAgain(p) => (rewritten => rewritten')
      BY <1>6 DEF ReadAgain
    <3> QED BY <3>1, <3>2, <3>3
  <2>3. Public' = Public
    BY <2>1, Values DEF Public
  <2> QED BY <1>1, <1>2, <1>4, <1>5, <2>1, <2>2, <2>3 DEF Outside, Forward, Quiet, Leaving
<1>7. CASE source = p
  <2>1. /\ Now = post[p].version /\ Now' = post'[p].version
        /\ Readable = post[p].exists /\ Readable' = post'[p].exists
        /\ Public = Public'
    BY <1>1, <1>7, OfPost DEF Public
  <2>2. CASE CreatePost(p)
    <3>1. post'[p] = [exists |-> TRUE, version |-> 1] /\ post[p].version = 0 /\ ~post[p].exists
      BY <2>2 DEF CreatePost, TypeOK, Ages
    <3>2. index'[0] = index[0] + 1
      BY <1>7, <2>2, RequestGrows, Constants DEF CreatePost
    <3> QED BY <1>1, <1>2, <2>1, <3>1, <3>2, Constants DEF Outside, Forward, Asked, Leaving
  <2>3. CASE UpdatePost(p) \/ ReplaceVideo(p)
    <3>1. post'[p].version = post[p].version + 1 /\ post'[p].exists /\ post[p].exists
      BY <2>3 DEF UpdatePost, ReplaceVideo, Edit, TypeOK
    <3>2. index'[0] = index[0] + 1
      BY <1>7, <2>3, RequestGrows, Constants DEF UpdatePost, ReplaceVideo
    <3> QED BY <1>1, <1>2, <1>5, <2>1, <3>1, <3>2, Constants DEF Outside, Forward, Asked, Leaving
  <2>4. CASE DeletePost(p)
    <3>1. post'[p].version = post[p].version /\ ~post'[p].exists /\ post[p].exists /\ chunk' = None
      BY <1>7, <2>4 DEF DeletePost, TypeOK
    <3> QED BY <1>1, <1>2, <1>5, <2>1, <3>1 DEF Outside, Forward, Asked, Leaving
  <2>5. CASE RequestPreparation(p)
    <3>1. /\ post'[p].version = post[p].version + 1 /\ post'[p].exists /\ post[p].exists
          /\ chunk' = chunk
      BY <2>5 DEF RequestPreparation, Edit, TypeOK
    <3>2. asset'[<<p, None>>] > 0
      BY <2>5 DEF RequestPreparation, RequestAsset, TypeOK, Assets
    <3>3. AssetAwaited'
      BY <1>1, <1>7, <3>2 DEF AssetAwaited
    <3> QED BY <1>1, <1>2, <1>5, <2>1, <3>1, <3>3 DEF Outside, Forward, Asked, Leaving
  <2> QED BY <2>2, <2>3, <2>4, <2>5
<1> QED BY <1>6, <1>7

LEMMA AssetMoves == ASSUME TypeOK, TypeOK', Ages, AssetStep PROVE Outside
<1> USE DEF courseVars, assetVars, eventVars, historyVars
<1> SUFFICES ASSUME NEW p \in Post, NEW st \in Step \cup {None},
                    \/ WriteAsset(p, st) \/ AppendRequest(p, st) \/ FinishAsset(p, st)
                    \/ LoseAsset(p, st) \/ GiveUpAsset(p, st) \/ AppendLate(p, st)
             PROVE  Outside
  BY DEF AssetStep
<1>1. /\ UNCHANGED <<exec, source, course, step, skipped, chunk>>
      /\ \A q \in Post \ {p} : post'[q] = post[q]
      /\ abandoned => abandoned'
  BY DEF WriteAsset, AppendRequest, FinishAsset, LoseAsset, GiveUpAsset, AppendLate, Edit, TypeOK
<1>2. AppendRequest(p, st) \/ AppendLate(p, st) =>
          /\ Growing
          /\ source \in {p, st} => index'[0] = index[0] + 1
          /\ source \notin {p, st} => rewritten' = rewritten
  <2> SUFFICES ASSUME AskIndex(p, st)
               PROVE  /\ Growing
                      /\ source \in {p, st} => index'[0] = index[0] + 1
                      /\ source \notin {p, st} => rewritten' = (rewritten /\ TRUE)
    BY DEF AppendRequest, AppendLate, TypeOK
  <2> DEFINE s == IF source = p THEN p ELSE st
  <2>1. Request(s, 0)
    BY DEF AskIndex
  <2> HIDE DEF s
  <2>2. Growing /\ (s = source => index'[0] = index[0] + 1)
    BY <2>1, RequestGrows, Constants
  <2>3. source \in {p, st} => s = source
    BY DEF s
  <2>4. source \notin {p, st} => rewritten' = (rewritten /\ TRUE)
    BY DEF AskIndex, ReadAgain
  <2> QED BY <2>2, <2>3, <2>4
<1>3. Growing
  BY <1>2, SameIndexGrows DEF WriteAsset, AppendRequest, FinishAsset, LoseAsset, GiveUpAsset, AppendLate
<1>4. Now \in Nat /\ Now' \in Nat
  BY NowIsNat, Constants
<1>5. source # p \/ ~WriteAsset(p, st) => Now' = Now /\ Readable' = Readable /\ Public' = Public
  <2>1. CASE source \in Post /\ (source # p \/ ~WriteAsset(p, st))
    <3>1. post'[source] = post[source]
      BY <1>1, <2>1 DEF AppendRequest, FinishAsset, LoseAsset, GiveUpAsset, AppendLate
    <3> QED BY <1>1, <2>1, <3>1, OfPost DEF Public
  <2>2. CASE source \notin Post
    BY <1>1, <2>2, OfStep
  <2> QED BY <2>1, <2>2
<1>6. ASSUME UNCHANGED asset \/ source \notin {p, st}, ~WriteAsset(p, st) \/ UNCHANGED asset
      PROVE  AssetAwaited => AssetAwaited'
  <2> SUFFICES ASSUME AssetAwaited PROVE AssetAwaited'
    OBVIOUS
  <2>1. PICK q \in Post, x \in Step \cup {None} : asset[<<q, x>>] > 0 /\ source \in {q, x}
    BY DEF AssetAwaited
  <2>2. asset'[<<q, x>>] = asset[<<q, x>>]
    <3>1. CASE UNCHANGED asset
      BY <3>1
    <3>2. CASE source \notin {p, st}
      <4>1. <<q, x>> # <<p, st>> /\ <<q, x>> \in Assets
        BY <2>1, <3>2 DEF Assets
      <4> QED BY <1>6, <4>1
            DEF WriteAsset, AppendRequest, FinishAsset, LoseAsset, GiveUpAsset, AppendLate, TypeOK
    <3> QED BY <1>6, <3>1, <3>2
  <2> QED BY <1>1, <2>1, <2>2 DEF AssetAwaited
<1>7. CASE WriteAsset(p, st) /\ source = p
  <2>1. /\ Now = post[p].version /\ Now' = post'[p].version
        /\ Readable = post[p].exists /\ Readable' = post'[p].exists
        /\ Public = Public'
    BY <1>1, <1>7, OfPost DEF Public
  <2>2. post'[p].version = post[p].version + 1 /\ post'[p].exists /\ post[p].exists
    BY <1>7 DEF WriteAsset, Edit, TypeOK
  <2>3. AssetAwaited' \/ rewritten'
    <3>1. CASE Untold(p)
      <4>1. PICK x \in Step \cup {None} : asset[<<p, x>>] > 0
        BY <3>1 DEF Untold
      <4>2. asset' = asset
        BY <1>7 DEF WriteAsset
      <4> QED BY <1>1, <1>7, <4>1, <4>2 DEF AssetAwaited
    <3>2. CASE ~Untold(p)
      BY <1>7, <3>2 DEF WriteAsset
    <3> QED BY <3>1, <3>2
  <2> QED BY <1>1, <1>3, <1>4, <2>1, <2>2, <2>3 DEF Outside, Forward, Asked, Leaving
<1>8. CASE WriteAsset(p, st) /\ source # p
  <2>1. (AssetAwaited => AssetAwaited') /\ (rewritten => rewritten')
    BY <1>6, <1>8 DEF WriteAsset
  <2> QED BY <1>1, <1>3, <1>4, <1>5, <1>8, <2>1 DEF Outside, Forward, Quiet, Leaving
<1>9. CASE FinishAsset(p, st) \/ LoseAsset(p, st)
  <2>1. UNCHANGED <<asset, post, rewritten>>
    BY <1>9 DEF FinishAsset, LoseAsset
  <2>2. (AssetAwaited => AssetAwaited') /\ (rewritten => rewritten')
    BY <1>6, <2>1
  <2>3. Now' = Now /\ Readable' = Readable /\ Public' = Public
    BY <1>1, <2>1 DEF Now, Readable, Public, Steps
  <2> QED BY <1>1, <1>3, <1>4, <2>2, <2>3 DEF Outside, Forward, Quiet, Leaving
<1>10. CASE AppendRequest(p, st) \/ AppendLate(p, st) \/ GiveUpAsset(p, st)
  <2>1. UNCHANGED post
    BY <1>10 DEF AppendRequest, AppendLate, GiveUpAsset
  <2>2. Now' = Now /\ Readable' = Readable /\ Public' = Public
    BY <1>1, <2>1 DEF Now, Readable, Public, Steps
  <2>3. ~WriteAsset(p, st) \/ UNCHANGED asset
    BY DEF WriteAsset
  <2>4. CASE source \in {p, st}
    <3>1. Asked
      <4>1. CASE AppendRequest(p, st) \/ AppendLate(p, st)
        BY <1>2, <2>4, <4>1 DEF Asked
      <4>2. CASE GiveUpAsset(p, st)
        BY <2>4, <4>2 DEF GiveUpAsset, Asked
      <4> QED BY <1>10, <4>1, <4>2
    <3> QED BY <1>1, <1>3, <1>4, <2>2, <3>1 DEF Outside, Forward, Leaving
  <2>5. CASE source \notin {p, st}
    <3>1. AssetAwaited => AssetAwaited'
      BY <1>6, <2>3, <2>5
    <3>2. rewritten => rewritten'
      BY <1>2, <1>10, <2>5 DEF GiveUpAsset
    <3> QED BY <1>1, <1>3, <1>4, <2>2, <3>1, <3>2 DEF Outside, Forward, Quiet, Leaving
  <2> QED BY <2>4, <2>5
<1> QED BY <1>7, <1>8, <1>9, <1>10

\* A course that is created: what becomes of the source.
LEMMA NewMoves ==
    ASSUME TypeOK, TypeOK', Ages, NEW status \in {"draft", "published"},
           NEW v \in Version \ {0}, NEW sts \in SUBSET Step, NEW p \in Post \cup {None},
           New(status, v, sts, p), UNCHANGED <<post, source, chunk, exec, historyVars>>,
           Growing, AssetAwaited => AssetAwaited',
           source \in sts => Asked
    PROVE  Outside
<1>1. Now \in Nat /\ Now' \in Nat /\ v \in Nat /\ v >= 1
  BY NowIsNat, Constants
<1>2. CASE source \in Post
  <2>1. Now' = Now /\ Readable' = Readable /\ Public' = Public
    BY <1>2, OfPost DEF Public
  <2> QED BY <1>1, <2>1 DEF Outside, Forward, Quiet, Leaving, historyVars
<1>3. CASE source \notin Post
  <2>1. source \in Step /\ Now = 0 /\ Now' = v /\ ~Readable
    BY <1>3, OfStep DEF New, Ages
  <2>2. source \in sts \/ ~Readable'
    <3>1. step[source].place # "in"
      BY <2>1 DEF New, Ages, Steps
    <3> QED BY <1>3, <2>1, <3>1, OfStep DEF New, Placed
  <2>3. Asked
    BY <2>2 DEF Asked
  <2>4. Leaving
    BY <2>1 DEF Leaving, historyVars
  <2> QED BY <1>1, <2>1, <2>3, <2>4 DEF Outside, Forward, historyVars
<1> QED BY <1>2, <1>3

LEMMA CreateMoves == ASSUME TypeOK, TypeOK', Ages, CreateStep PROVE Outside
<1> USE DEF courseVars, assetVars, eventVars, historyVars
<1>1. ASSUME source' = source, asset' = asset PROVE AssetAwaited => AssetAwaited'
  BY <1>1 DEF AssetAwaited
<1>2. None \notin Step
  BY CourseIndexConstants
<1>3. ASSUME NEW sts \in SUBSET Step, NEW p \in Post \cup {None}, Create(sts, p) PROVE Outside
  <2>1. Request(IF source \in sts THEN source ELSE None, 1)
    BY <1>3 DEF Create
  <2>2. Growing /\ (source \in sts => index'[1] = index[1] + 1)
    BY <2>1, RequestGrows, Constants
  <2>3. source \in sts => Asked
    <3> SUFFICES ASSUME source \in sts PROVE \E e \in {0, Now'} : index'[e] = index[e] + 1
      BY DEF Asked
    <3>1. source \notin Post
      BY CourseIndexConstants
    <3>2. Now' = 1
      BY <1>3, <3>1, OfStep DEF Create, New
    <3> QED BY <2>2, <3>2
  <2>4. New("draft", 1, sts, p) /\ UNCHANGED <<post, source, chunk, exec, asset, historyVars>>
    BY <1>3 DEF Create
  <2>5. 1 \in Version \ {0} /\ "draft" \in {"draft", "published"}
    BY Constants
  <2> QED BY <1>1, <2>2, <2>3, <2>4, <2>5, NewMoves
<1>4. ASSUME NEW sts \in SUBSET Step, NEW p \in Post \cup {None}, CreateFromPlan(sts, p)
      PROVE  Outside
  <2>1. New("published", 2, sts, p) /\ UNCHANGED <<post, source, chunk, exec, historyVars>>
    BY <1>4 DEF CreateFromPlan
  <2>2. 2 \in Version \ {0} /\ "published" \in {"draft", "published"}
    BY <1>4, Constants DEF CreateFromPlan, Version
  <2>3. CASE p = None
    <3>1. Request(IF source \in sts THEN source ELSE None, 0) /\ asset' = asset
      BY <1>4, <2>3 DEF CreateFromPlan
    <3>2. Growing /\ (source \in sts => index'[0] = index[0] + 1)
      BY <3>1, RequestGrows, Constants
    <3>3. source \in sts => Asked
      BY <3>2 DEF Asked
    <3> QED BY <1>1, <2>1, <2>2, <3>1, <3>2, <3>3, NewMoves
  <2>4. CASE p # None
    <3>1. /\ index' = index
          /\ asset' = [a \in DOMAIN asset |->
                          IF a[1] = p /\ a[2] \in sts THEN asset[a] + 1 ELSE asset[a]]
      BY <1>4, <2>4 DEF CreateFromPlan
    <3>2. \A a \in Assets : asset'[a] >= asset[a]
      BY <3>1 DEF TypeOK
    <3>3. source \in sts => Asked
      <4> SUFFICES ASSUME source \in sts PROVE AssetAwaited'
        BY DEF Asked
      <4>1. asset[<<p, source>>] \in Nat /\ <<p, source>> \in DOMAIN asset
        BY <2>4 DEF TypeOK, Assets
      <4>2. asset'[<<p, source>>] = asset[<<p, source>>] + 1
        BY <3>1, <4>1
      <4> QED BY <2>1, <2>4, <4>1, <4>2 DEF AssetAwaited
    <3> QED BY <2>1, <2>2, <3>1, <3>2, <3>3, AssetStays, SameIndexGrows, NewMoves
  <2> QED BY <2>3, <2>4
<1>5. ASSUME NEW st \in Step, NEW p \in Post \cup {None}, ApproveIntoNew(st, p) PROVE Outside
  <2>1. Request(st, 1)
    BY <1>5 DEF ApproveIntoNew
  <2>2. Growing /\ (st = source => index'[1] = index[1] + 1)
    BY <2>1, RequestGrows, Constants
  <2>3. source \in {st} => Asked
    <3> SUFFICES ASSUME source = st PROVE \E e \in {0, Now'} : index'[e] = index[e] + 1
      BY DEF Asked
    <3>1. source \notin Post
      BY CourseIndexConstants
    <3>2. Now' = 1
      BY <1>5, <3>1, OfStep DEF ApproveIntoNew, New
    <3> QED BY <2>2, <3>2
  <2>4. New("draft", 1, {st}, p) /\ UNCHANGED <<post, source, chunk, exec, asset, historyVars>>
    BY <1>5 DEF ApproveIntoNew
  <2>5. 1 \in Version \ {0} /\ "draft" \in {"draft", "published"} /\ {st} \in SUBSET Step
    BY Constants
  <2> QED BY <1>1, <2>2, <2>3, <2>4, <2>5, NewMoves
<1> QED BY <1>3, <1>4, <1>5 DEF CreateStep

\* A command on the course moves it on; the steps it asks for are those that are in it.
LEMMA CommandMoves ==
    ASSUME TypeOK, TypeOK', Ages, NEW v \in Version, Locked(v),
           course'.version = course.version + 1,
           UNCHANGED <<post, source, asset, exec, abandoned, rewritten>>, chunk' \in {chunk, None},
           source \in Post => chunk' = chunk,
           Growing,
           source \notin Post => Asked /\ Leaving
    PROVE  Outside
<1>1. Now \in Nat /\ Now' \in Nat
  BY NowIsNat, Constants
<1>2. CASE source \in Post
  <2>1. Now' = Now /\ Readable' = Readable /\ Public' = Public
    BY <1>2, OfPost DEF Public
  <2>2. AssetAwaited => AssetAwaited'
    BY DEF AssetAwaited
  <2>3. ~skipped
    BY <1>2, CourseIndexConstants DEF Ages
  <2> QED BY <1>1, <1>2, <2>1, <2>2, <2>3 DEF Outside, Forward, Quiet, Leaving
<1>3. CASE source \notin Post
  <2>1. Now' = Now + 1
    BY <1>3, OfStep
  <2> QED BY <1>1, <1>3, <2>1 DEF Outside, Forward
<1> QED BY <1>2, <1>3

LEMMA CourseMoves == ASSUME TypeOK, TypeOK', Ages, CourseStep PROVE Outside
<1> USE DEF courseVars, assetVars, eventVars, historyVars
<1> SUFFICES ASSUME NEW v \in Version,
                    \/ UpdateMetadata(v) \/ Publish(v) \/ Archive(v)
                    \/ \E p \in Post \cup {None} :
                         \/ \E st \in Step : ApproveIntoCourse(v, st, p)
                         \/ \E kept, added \in SUBSET Step : ReplaceSteps(v, kept, added, p)
             PROVE  Outside
  BY DEF CourseStep
<1>1. Locked(v) => course.version + 1 \in Version
  BY LockedTyped
<1>2. ASSUME Locked(v), NEW kept, NEW added, NEW removed, Reindex(kept, added, removed)
      PROVE  /\ Growing
             /\ source \in removed => index'[0] = index[0] + 1
             /\ source \in kept \cup added /\ source \notin removed =>
                    index'[course.version + 1] = index[course.version + 1] + 1
  BY <1>1, <1>2, RequestGrows, Constants, CourseIndexConstants DEF Reindex
<1>3. CASE UpdateMetadata(v) \/ Publish(v) \/ Archive(v)
  <2>1. /\ Locked(v) /\ Reindex(Steps, {}, {})
        /\ UNCHANGED <<post, step, source, asset, exec, abandoned, rewritten, chunk>>
        /\ course'.version = course.version + 1
    BY <1>3 DEF UpdateMetadata, Publish, Published, Archive, Move
  <2>2. Growing /\ (source \in Steps => index'[course.version + 1] = index[course.version + 1] + 1)
    BY <1>2, <2>1
  <2>3. ASSUME source \notin Post PROVE Asked /\ Leaving
    <3>1. CASE source \in Steps
      <4>1. Now' = course.version + 1
        BY <2>1, <2>3, OfStep
      <4> QED BY <1>1, <2>1, <2>2, <3>1, <4>1 DEF Asked, Leaving
    <3>2. CASE source \notin Steps
      <4>1. ~Readable /\ ~Readable'
        BY <2>1, <2>3, <3>2, OfStep DEF Steps
      <4> QED BY <2>1, <4>1 DEF Asked, Leaving
    <3> QED BY <3>1, <3>2
  <2> QED BY <2>1, <2>2, <2>3, CommandMoves
<1>4. ASSUME NEW p \in Post \cup {None}, NEW st \in Step, ApproveIntoCourse(v, st, p) PROVE Outside
  <2>1. /\ Locked(v) /\ Request(st, course.version + 1)
        /\ UNCHANGED <<post, source, asset, exec, abandoned, rewritten, chunk>>
        /\ course'.version = course.version + 1
        /\ skipped' = (source \in Steps)
        /\ step' = Placed({st}, p)
    BY <1>4 DEF ApproveIntoCourse, Move
  <2>2. Growing /\ (st = source => index'[course.version + 1] = index[course.version + 1] + 1)
    BY <1>1, <2>1, RequestGrows
  <2>3. ASSUME source \notin Post PROVE Asked /\ Leaving
    <3>1. CASE source = st
      <4>1. Now' = course.version + 1
        BY <2>1, <2>3, OfStep
      <4> QED BY <1>1, <2>1, <2>2, <3>1, <4>1 DEF Asked, Leaving
    <3>2. CASE source # st
      <4>1. source \in Step /\ step'[source] = step[source]
        BY <2>1, <2>3, <3>2, OfStep DEF Placed
      <4>2. course.status \in {"draft", "published"} /\ course'.status = course.status
        BY <1>4 DEF ApproveIntoCourse, Locked, Move
      <4>3. Readable' <=> Readable
        BY <2>1, <2>3, <4>1, <4>2, OfStep
      <4>4. Readable <=> source \in Steps
        BY <2>1, <2>3, <4>1, <4>2, OfStep DEF Steps
      <4> QED BY <2>1, <4>3, <4>4 DEF Asked, Leaving
    <3> QED BY <3>1, <3>2
  <2> QED BY <2>1, <2>2, <2>3, CommandMoves
<1>5. ASSUME NEW p \in Post \cup {None}, NEW kept \in SUBSET Step, NEW added \in SUBSET Step,
             ReplaceSteps(v, kept, added, p)
      PROVE  Outside
  <2>1. /\ Locked(v) /\ kept \subseteq Steps /\ added \subseteq Unused
        /\ Reindex(kept, added, Steps \ kept)
        /\ UNCHANGED <<post, source, asset, exec, abandoned, rewritten>>
        /\ course'.version = course.version + 1
        /\ chunk' = IF source \in Steps \ kept THEN None ELSE chunk
        /\ step' = [x \in Step |-> IF x \in Steps \ kept THEN [place |-> "out", post |-> None]
                                   ELSE Placed(added, p)[x]]
    BY <1>5 DEF ReplaceSteps, Move
  <2>2. /\ Growing
        /\ source \in Steps \ kept => index'[0] = index[0] + 1
        /\ source \in kept \cup added /\ source \notin Steps \ kept =>
               index'[course.version + 1] = index[course.version + 1] + 1
    BY <1>2, <2>1
  <2>3. source \in Post => chunk' = chunk
    BY <2>1, CourseIndexConstants DEF Steps
  <2>4. ASSUME source \notin Post PROVE Asked /\ Leaving
    <3>1. source \in Step /\ Now' = course.version + 1
      BY <2>1, <2>4, OfStep
    <3>2. CASE source \in Steps \ kept
      <4>1. ~Readable' /\ chunk' = None
        BY <2>1, <2>4, <3>1, <3>2, OfStep
      <4> QED BY <4>1 DEF Asked, Leaving
    <3>3. CASE source \in kept \cup added /\ source \notin Steps \ kept
      BY <1>1, <2>1, <2>2, <3>1, <3>3 DEF Asked, Leaving
    <3>4. CASE source \notin kept \cup added /\ source \notin Steps \ kept
      <4>1. source \notin Steps /\ step'[source] = step[source]
        BY <2>1, <3>1, <3>4 DEF Placed
      <4>2. ~Readable /\ ~Readable'
        BY <2>1, <2>4, <3>1, <4>1, OfStep DEF Steps
      <4>3. chunk' = chunk
        BY <2>1, <3>4
      <4> QED BY <2>1, <4>2, <4>3 DEF Asked, Leaving
    <3> QED BY <3>2, <3>3, <3>4
  <2> QED BY <2>1, <2>2, <2>3, <2>4, CommandMoves
<1> QED BY <1>3, <1>4, <1>5

-----------------------------------------------------------------------------
(* The invariant. *)

LEMMA AgesStay == ASSUME TypeOK, TypeOK', Ages, Next PROVE Ages'
<1> USE DEF courseVars, assetVars, eventVars, historyVars, indexVars
<1>1. ASSUME \A p \in Post : post'[p].exists => post'[p].version >= 1,
             UNCHANGED <<source, skipped>>, course' = course,
             \A st \in Step : step'[st].place = step[st].place
      PROVE  Ages'
  BY <1>1 DEF Ages, Steps
<1>2. ASSUME NEW p \in Post, Edit(p)
      PROVE  \A q \in Post : post'[q].exists => post'[q].version >= 1
  BY <1>2, Constants DEF Edit, Ages, TypeOK
<1>3. CASE PostStep
  <2>1. PICK p \in Post : CreatePost(p) \/ UpdatePost(p) \/ ReplaceVideo(p) \/ DeletePost(p)
                             \/ RequestPreparation(p)
    BY <1>3 DEF PostStep
  <2>2. \A q \in Post : post'[q].exists => post'[q].version >= 1
    BY <1>2, <2>1 DEF CreatePost, UpdatePost, ReplaceVideo, DeletePost, RequestPreparation, Ages, TypeOK
  <2>3. /\ UNCHANGED <<source, skipped>> /\ course' = course
        /\ \A st \in Step : step'[st].place = step[st].place
    BY <2>1 DEF CreatePost, UpdatePost, ReplaceVideo, DeletePost, RequestPreparation, TypeOK
  <2> QED BY <1>1, <2>2, <2>3
<1>4. CASE AssetStep
  <2>1. PICK p \in Post, st \in Step \cup {None} :
          \/ WriteAsset(p, st) \/ AppendRequest(p, st) \/ FinishAsset(p, st)
          \/ LoseAsset(p, st) \/ GiveUpAsset(p, st) \/ AppendLate(p, st)
    BY <1>4 DEF AssetStep
  <2>2. \A q \in Post : post'[q].exists => post'[q].version >= 1
    BY <1>2, <2>1
       DEF WriteAsset, AppendRequest, FinishAsset, LoseAsset, GiveUpAsset, AppendLate, Ages
  <2>3. UNCHANGED <<source, skipped, step>> /\ course' = course
    BY <2>1 DEF WriteAsset, AppendRequest, FinishAsset, LoseAsset, GiveUpAsset, AppendLate
  <2> QED BY <1>1, <2>2, <2>3
<1>5. CASE CreateStep
  <2>1. PICK status \in {"draft", "published"}, w \in {1, 2}, sts \in SUBSET Step, p \in Post \cup {None} :
          New(status, w, sts, p)
    BY <1>5 DEF CreateStep, Create, CreateFromPlan, ApproveIntoNew
  <2>2. UNCHANGED <<post, source, skipped>>
    BY <1>5 DEF CreateStep, Create, CreateFromPlan, ApproveIntoNew
  <2> QED BY <2>1, <2>2 DEF New, Ages
<1>6. CASE CourseStep
  <2>1. PICK v \in Version :
          \/ UpdateMetadata(v) \/ Publish(v) \/ Archive(v)
          \/ \E p \in Post \cup {None} :
               \/ \E st \in Step : ApproveIntoCourse(v, st, p)
               \/ \E kept, added \in SUBSET Step : ReplaceSteps(v, kept, added, p)
    BY <1>6 DEF CourseStep
  <2>2. \E status \in {"draft", "published", "archived"} :
           course' = [status |-> status, version |-> course.version + 1]
    BY <2>1 DEF UpdateMetadata, Publish, Archive, ApproveIntoCourse, ReplaceSteps, Published, Move, Locked
  <2>3. UNCHANGED <<post, source>> /\ (skipped' => source' \in Step)
    <3>1. UNCHANGED <<post, source>> /\ (skipped' = FALSE \/ skipped' = (source \in Steps))
      BY <2>1 DEF UpdateMetadata, Publish, Archive, ApproveIntoCourse, ReplaceSteps
    <3>2. Steps \subseteq Step
      BY DEF Steps
    <3>3. CASE skipped' = FALSE
      BY <3>1, <3>3
    <3>4. CASE skipped' = (source \in Steps)
      <4> HIDE DEF Steps
      <4>1. skipped' <=> source \in Steps
        BY <3>4
      <4> QED BY <3>1, <3>2, <4>1
    <3> QED BY <3>1, <3>3, <3>4
  <2>4. course'.version >= 1 /\ course'.status # "none"
    <3>1. course.version \in Nat
      BY Constants DEF TypeOK
    <3> QED BY <2>2, <3>1
  <2> QED BY <2>3, <2>4 DEF Ages
<1>7. CASE SlotStep
  <2>1. UNCHANGED <<post, source, course, step, skipped>>
    BY <1>7 DEF SlotStep, Start, TakeOver, Store, Clean, Break, Record, Retry, GiveUp, Crash
  <2> QED BY <2>1 DEF Ages, Steps
<1> QED BY <1>3, <1>4, <1>5, <1>6, <1>7 DEF Next

\* Executions as sets: what TypeOK and ClaimsBacked say of their numbers.
LEMMA Numbers ==
    ASSUME TypeOK, NEW e \in Version
    PROVE  /\ Holders(e) \in SUBSET Slot /\ Late(e) \in SUBSET Holders(e) /\ Done(e) \in SUBSET Holders(e)
           /\ Claims(e) = Cardinality(Holders(e))
           /\ Claims(e) \in Nat /\ index[e] \in Nat
           /\ Cardinality(Late(e)) \in Nat /\ Cardinality(Late(e)) <= Claims(e)
           /\ Cardinality(Done(e)) \in Nat /\ Cardinality(Done(e)) <= Claims(e)
<1>1. Holders(e) \in SUBSET Slot /\ Late(e) \in SUBSET Holders(e) /\ Done(e) \in SUBSET Holders(e)
  BY DEF Holders, Late, Done
<1>2. Claims(e) = Cardinality(Holders(e))
  BY DEF Claims, Holders
<1> QED BY <1>1, <1>2, Counted DEF TypeOK

LEMMA OutsideKeeps ==
    ASSUME IInv, TypeOK', Outside
    PROVE  ClaimsBacked' /\ Reads' /\ UpToDate' /\ Cleared'
<1>1. \A e \in Version : Holders(e)' = Holders(e) /\ Done(e)' = Done(e) /\ Claims(e)' = Claims(e)
  BY DEF Outside, Holders, Done, Claims
<1>2. \A e \in Version : /\ Claims(e) \in Nat /\ Claims(e) <= index[e]
                         /\ index[e] \in Nat /\ index'[e] \in Nat /\ index'[e] >= index[e]
  BY Numbers DEF IInv, ClaimsBacked, Outside, Growing, TypeOK
<1>3. ClaimsBacked'
  BY <1>1, <1>2 DEF ClaimsBacked
<1>4. Now \in Nat /\ Now' \in Version /\ Now' \in Nat /\ Now' >= Now
  BY NowIsNat DEF IInv, Outside, Forward
<1>5. ASSUME NEW c \in Contents, AsOf(c) PROVE AsOf(c)'
  <2>1. c.version \in Nat
    BY Constants DEF Contents
  <2> QED BY <1>4, <1>5, <2>1 DEF AsOf, Outside, Forward
<1>6. Reads'
  <2>1. chunk' # None => AsOf(chunk)'
    <3>1. chunk \in Contents \cup {None}
      BY DEF IInv, TypeOK
    <3>2. ASSUME chunk' # None PROVE chunk' = chunk /\ chunk \in Contents /\ AsOf(chunk)
      BY <3>1, <3>2 DEF IInv, Reads, Outside, Forward
    <3> QED BY <1>5, <3>2 DEF AsOf
  <2>2. ASSUME NEW x \in Slot, exec[x] # None, exec[x].phase = "embedding"
        PROVE  AsOf(exec[x].snapshot)'
    <3>1. exec[x].snapshot \in Contents /\ AsOf(exec[x].snapshot)
      BY <2>2 DEF IInv, Reads, TypeOK, Execution
    <3>2. exec' = exec
      BY DEF Outside
    <3> QED BY <1>5, <3>1, <3>2 DEF AsOf
  <2>3. exec' = exec
    BY DEF Outside
  <2> QED BY <2>1, <2>2, <2>3 DEF Reads, IInv
<1>7. ASSUME NEW e \in Version PROVE Cardinality(Late(e)') \in Nat /\ Cardinality(Late(e)') <= Claims(e)
  <2>1. Late(e)' \in SUBSET Holders(e)
    BY DEF Outside, Late, Holders
  <2> QED BY <2>1, Numbers, Counted DEF IInv
<1>8. UpToDate'
  <2>1. ASSUME Asked, Readable' PROVE UpToDate'
    <3>1. ASSUME NEW e \in {0, Now'}, index'[e] = index[e] + 1 PROVE Refreshed'
      <4>1. e \in Version
        BY <1>4, Constants
      <4>2. Cardinality(Late(e)') < index'[e]
        BY <1>2, <1>7, <3>1, <4>1
      <4> QED BY <4>2 DEF Refreshed
    <3> QED BY <2>1, <3>1 DEF Asked, UpToDate
  <2>2. ASSUME Quiet, Readable' PROVE UpToDate'
    <3>1. Readable /\ Now' = Now
      BY <2>2 DEF Quiet
    <3>2. Indexed => Indexed'
      BY <2>2 DEF Quiet, Indexed
    <3>3. Refreshed => Refreshed'
      <4> SUFFICES ASSUME NEW e \in {0, Now}, Cardinality(Late(e)) < index[e] PROVE Refreshed'
        BY DEF Refreshed
      <4>1. Late(e)' = Late(e)
        BY <3>1 DEF Outside, Late, Holders
      <4>2. e \in Version
        BY Constants, Values DEF IInv
      <4>3. Cardinality(Late(e)') < index'[e]
        BY <1>2, <1>7, <4>1, <4>2
      <4> QED BY <3>1, <4>3 DEF Refreshed
    <3> QED BY <2>2, <3>1, <3>2, <3>3 DEF Quiet, UpToDate, IInv
  <2>3. Asked \/ Quiet
    BY DEF Outside
  <2> QED BY <2>1, <2>2, <2>3 DEF UpToDate
<1>9. Cleared'
  <2> SUFFICES ASSUME ~Readable', chunk' # None
               PROVE  abandoned' \/ \E e \in Version : Cardinality(Done(e)') < index'[e]
    BY DEF Cleared
  <2>1. CASE \E e \in Version : index'[e] = index[e] + 1
    <3>1. PICK e \in Version : index'[e] = index[e] + 1
      BY <2>1
    <3>2. Cardinality(Done(e)) \in Nat /\ Cardinality(Done(e)) <= Claims(e)
      BY Numbers DEF IInv
    <3> QED BY <1>1, <1>2, <3>1, <3>2
  <2>2. CASE ~Readable /\ chunk' = chunk /\ (abandoned => abandoned')
    <3>1. CASE abandoned
      BY <2>2, <3>1
    <3>2. CASE ~abandoned
      <4>1. PICK e \in Version : Cardinality(Done(e)) < index[e]
        BY <2>2, <3>2 DEF IInv, Cleared
      <4>2. Cardinality(Done(e)) \in Nat
        BY Numbers DEF IInv
      <4> QED BY <1>1, <1>2, <4>1, <4>2
    <3> QED BY <3>1, <3>2
  <2> QED BY <2>1, <2>2 DEF Outside, Leaving
<1> QED BY <1>3, <1>6, <1>8, <1>9

LEMMA SameSource ==
    ASSUME UNCHANGED indexVars
    PROVE  /\ Readable' = Readable /\ Now' = Now /\ Public' = Public /\ Content' = Content
           /\ AssetAwaited' = AssetAwaited
BY DEF indexVars, courseVars, assetVars, Readable, Now, Public, Content, Text, Steps, AssetAwaited

LEMMA ReadableHasVersion == ASSUME TypeOK, Ages, Readable PROVE Now >= 1
BY DEF Readable, Now, Ages, Steps

\* An execution keeps what the invariant says of events by taking no place
\* among those that hold one, ...
LEMMA FewerHolders ==
    ASSUME IInv, TypeOK', index' = index,
           \A e \in Version : Holders(e)' \subseteq Holders(e)
    PROVE  ClaimsBacked'
<1> SUFFICES ASSUME NEW e \in Version PROVE Claims(e)' <= index'[e]
  BY DEF ClaimsBacked
<1>1. Claims(e)' = Cardinality(Holders(e)')
  BY DEF Claims, Holders
<1>2. Holders(e) \in SUBSET Slot /\ Holders(e)' \in SUBSET Holders(e)
  BY DEF Holders
<1>3. Cardinality(Holders(e)') \in Nat /\ Cardinality(Holders(e)') <= Cardinality(Holders(e))
  BY <1>2, Counted
<1> QED BY <1>1, <1>3, Numbers DEF IInv, ClaimsBacked

\* ... among those that are late, ...
LEMMA FewerLate ==
    ASSUME IInv, TypeOK', UNCHANGED indexVars, index' = index, skipped' = skipped,
           Readable => \A e \in {0, Now} : Late(e)' \subseteq Late(e),
           Indexed => Indexed',
           abandoned => abandoned' \/ Indexed', rewritten => rewritten' \/ Indexed'
    PROVE  UpToDate'
<1> SUFFICES ASSUME Readable'
             PROVE  Indexed' \/ Refreshed' \/ AssetAwaited' \/ abandoned' \/ skipped' \/ rewritten'
  BY DEF UpToDate
<1>1. Readable /\ Now' = Now /\ AssetAwaited' = AssetAwaited
  BY SameSource
<1>2. ASSUME NEW e \in {0, Now}, Cardinality(Late(e)) < index[e] PROVE Refreshed'
  <2>1. e \in Version
    BY Constants, Values DEF IInv
  <2>2. Late(e) \in SUBSET Slot /\ Late(e)' \in SUBSET Late(e)
    BY <1>1 DEF Late, Holders
  <2>3. Cardinality(Late(e)') \in Nat /\ Cardinality(Late(e)') <= Cardinality(Late(e))
        /\ Cardinality(Late(e)) \in Nat
    BY <2>2, Counted
  <2>4. Cardinality(Late(e)') < index'[e]
    BY <1>2, <2>1, <2>3 DEF IInv, TypeOK
  <2> QED BY <1>1, <2>4 DEF Refreshed
<1> QED BY <1>1, <1>2 DEF IInv, UpToDate, Refreshed

\* ... or among those that are done.
LEMMA FewerDone ==
    ASSUME IInv, TypeOK', UNCHANGED indexVars, index' = index,
           ~Readable => \/ chunk' = None
                        \/ /\ chunk' = chunk /\ (abandoned => abandoned')
                           /\ \A e \in Version : Done(e)' \subseteq Done(e)
    PROVE  Cleared'
<1> SUFFICES ASSUME ~Readable', chunk' # None
             PROVE  abandoned' \/ \E e \in Version : Cardinality(Done(e)') < index'[e]
  BY DEF Cleared
<1>1. ~Readable
  BY SameSource
<1>2. chunk' = chunk /\ (abandoned => abandoned') /\ \A e \in Version : Done(e)' \subseteq Done(e)
  BY <1>1
<1>3. ASSUME NEW e \in Version, Cardinality(Done(e)) < index[e]
      PROVE  Cardinality(Done(e)') < index'[e]
  <2>1. Done(e) \in SUBSET Slot /\ Done(e)' \in SUBSET Done(e)
    BY <1>2 DEF Done, Holders
  <2>2. Cardinality(Done(e)') \in Nat /\ Cardinality(Done(e)') <= Cardinality(Done(e))
        /\ Cardinality(Done(e)) \in Nat
    BY <2>1, Counted
  <2> QED BY <1>3, <2>2 DEF IInv, TypeOK
<1> QED BY <1>1, <1>2, <1>3 DEF IInv, Cleared

\* An execution that starts reads the source as it is.
LEMMA SnapshotReads ==
    ASSUME IInv, NEW e \in Version
    PROVE  /\ Snapshot(e).event = e
           /\ Snapshot(e).phase # "failed"
           /\ Snapshot(e).phase = "embedding" =>
                  AsOf(Snapshot(e).snapshot) /\ Snapshot(e).snapshot.version = Now
           /\ Snapshot(e).phase = "missing" => Snapshot(e).snapshot.version = 0 /\ ~Readable
           /\ Snapshot(e).phase = "done" => Readable /\ e \notin {0, Now}
<1>1. Now \in Nat
  BY Values, Constants DEF IInv
<1>2. Readable => Now >= 1
  BY ReadableHasVersion DEF IInv
<1> QED BY <1>1, <1>2 DEF Snapshot, AsOf, Content, NoContent

LEMMA StartKeeps ==
    ASSUME IInv, TypeOK', NEW x \in Slot, NEW e \in Version, Start(x, e)
    PROVE  ClaimsBacked' /\ Reads' /\ UpToDate' /\ Cleared'
<1> USE DEF historyVars
<1>1. /\ exec[x] = None /\ exec' = [exec EXCEPT ![x] = Snapshot(e)] /\ Claims(e) < index[e]
      /\ UNCHANGED indexVars /\ UNCHANGED <<index, chunk, abandoned, skipped, rewritten>>
  BY DEF Start
<1>2. Now' = Now /\ Readable' = Readable
  BY <1>1, SameSource
<1>3. \A f \in Version : Holders(f)' \subseteq IF f = e THEN Holders(f) \cup {x} ELSE Holders(f)
  BY <1>1, SnapshotReads DEF Holders, IInv, TypeOK
<1>4. ClaimsBacked'
  <2> SUFFICES ASSUME NEW f \in Version PROVE Claims(f)' <= index'[f]
    BY DEF ClaimsBacked
  <2> DEFINE S == IF f = e THEN Holders(f) \cup {x} ELSE Holders(f)
  <2>1. S \in SUBSET Slot /\ Holders(f)' \in SUBSET S /\ Holders(f) \in SUBSET Slot /\ x \notin Holders(f)
    BY <1>1, <1>3 DEF Holders
  <2>2. Claims(f)' = Cardinality(Holders(f)')
    BY DEF Claims, Holders
  <2>3. Cardinality(S) <= index[f] /\ Cardinality(S) \in Nat
    <3>1. CASE f = e
      <4>1. Cardinality(S) = Cardinality(Holders(f)) + 1
        BY <2>1, <3>1, OneMore
      <4> QED BY <1>1, <3>1, <4>1, Numbers DEF IInv
    <3>2. CASE f # e
      BY <3>2, Numbers DEF IInv, ClaimsBacked
    <3> QED BY <3>1, <3>2
  <2>4. Cardinality(Holders(f)') \in Nat /\ Cardinality(Holders(f)') <= Cardinality(S)
    <3> HIDE DEF S
    <3> QED BY <2>1, Counted
  <2> HIDE DEF S
  <2> QED BY <1>1, <2>2, <2>3, <2>4 DEF IInv, TypeOK
<1>5. Reads'
  <2>1. \A y \in Slot : exec'[y] = IF y = x THEN Snapshot(e) ELSE exec[y]
    BY <1>1 DEF IInv, TypeOK
  <2>2. \A c : AsOf(c)' <=> AsOf(c)
    BY <1>1, SameSource DEF AsOf
  <2> QED BY <1>1, <2>1, <2>2, SnapshotReads DEF Reads, IInv
<1>6. \A y \in Slot \ {x} : exec'[y] = exec[y]
  BY <1>1 DEF IInv, TypeOK
<1>7. exec'[x] = Snapshot(e)
  BY <1>1 DEF IInv, TypeOK
<1>8. ASSUME Readable, NEW f \in {0, Now} PROVE Late(f)' \subseteq Late(f)
  <2>1. x \notin Late(f)'
    BY <1>2, <1>7, <1>8, SnapshotReads DEF Late, Holders
  <2> QED BY <1>2, <1>6, <2>1 DEF Late, Holders
<1>9. ASSUME ~Readable, NEW f \in Version PROVE Done(f)' \subseteq Done(f)
  <2>1. x \notin Done(f)'
    BY <1>7, <1>9, SnapshotReads DEF Done, Holders
  <2> QED BY <1>6, <2>1 DEF Done, Holders
<1>10. Indexed => Indexed'
  BY <1>1, <1>2 DEF Indexed
<1> QED BY <1>1, <1>4, <1>5, <1>8, <1>9, <1>10, FewerLate, FewerDone

LEMMA TakeOverKeeps ==
    ASSUME IInv, TypeOK', NEW x \in Slot, NEW y \in Slot, TakeOver(x, y)
    PROVE  ClaimsBacked' /\ Reads' /\ UpToDate' /\ Cleared'
<1> USE DEF historyVars
<1> DEFINE e == exec[y].event
           row == [exec[y] EXCEPT !.mine = FALSE]
<1>1. /\ exec[x] = None /\ exec[y] # None /\ exec[y].mine /\ x # y
      /\ exec' = [exec EXCEPT ![y].mine = FALSE, ![x] = Snapshot(e)]
      /\ UNCHANGED indexVars /\ UNCHANGED <<index, chunk, abandoned, skipped, rewritten>>
  BY DEF TakeOver
<1>2. Now' = Now /\ Readable' = Readable
  BY <1>1, SameSource
<1>3. exec[y] \in Execution /\ e \in Version
  BY <1>1 DEF IInv, TypeOK, Execution
<1>4. /\ \A z \in Slot \ {x, y} : exec'[z] = exec[z]
      /\ exec'[x] = Snapshot(e)
      /\ exec'[y] = row
  BY <1>1 DEF IInv, TypeOK
<1>5. /\ row.mine = FALSE /\ row.phase = exec[y].phase /\ row.snapshot = exec[y].snapshot
  BY <1>3 DEF Execution
<1> HIDE DEF row
<1>6. \A f \in Version :
        /\ f = e => y \in Holders(f) /\ x \notin Holders(f)
        /\ Holders(f)' \subseteq IF f = e THEN (Holders(f) \ {y}) \cup {x} ELSE Holders(f)
  <2> TAKE f \in Version
  <2>1. f = e => y \in Holders(f) /\ x \notin Holders(f)
    BY <1>1 DEF Holders
  <2>2. y \notin Holders(f)'
    BY <1>4, <1>5 DEF Holders
  <2>3. x \in Holders(f)' => f = e
    BY <1>3, <1>4, SnapshotReads DEF Holders
  <2>4. \A z \in Slot \ {x, y} : z \in Holders(f)' => z \in Holders(f)
    BY <1>4 DEF Holders
  <2>5. Holders(f)' \subseteq Slot
    BY DEF Holders
  <2> HIDE DEF e
  <2> QED BY <2>1, <2>2, <2>3, <2>4, <2>5
<1>7. ClaimsBacked'
  <2> SUFFICES ASSUME NEW f \in Version PROVE Claims(f)' <= index'[f]
    BY DEF ClaimsBacked
  <2> DEFINE R == Holders(f) \ {y}
             S == IF f = e THEN R \cup {x} ELSE Holders(f)
  <2>1. /\ S \in SUBSET Slot /\ R \in SUBSET Slot /\ Holders(f)' \in SUBSET S
        /\ Holders(f) \in SUBSET Slot
    BY <1>6 DEF Holders
  <2>2. Claims(f)' = Cardinality(Holders(f)')
    BY DEF Claims, Holders
  <2>3. Cardinality(S) <= index[f] /\ Cardinality(S) \in Nat
    <3>1. CASE f = e
      <4>1. Cardinality(R) = Cardinality(Holders(f)) - 1
        BY <1>6, <2>1, <3>1, OneLess
      <4>2. Cardinality(R \cup {x}) = Cardinality(R) + 1
        BY <1>6, <2>1, <3>1, OneMore
      <4> QED BY <3>1, <4>1, <4>2, Numbers DEF IInv, ClaimsBacked
    <3>2. CASE f # e
      BY <3>2, Numbers DEF IInv, ClaimsBacked
    <3> QED BY <3>1, <3>2
  <2>4. Cardinality(Holders(f)') \in Nat /\ Cardinality(Holders(f)') <= Cardinality(S)
    <3> HIDE DEF S
    <3> QED BY <2>1, Counted
  <2> HIDE DEF S
  <2> QED BY <1>1, <2>2, <2>3, <2>4 DEF IInv, TypeOK
<1>8. Reads'
  <2>1. \A c : AsOf(c)' <=> AsOf(c)
    BY <1>1, SameSource DEF AsOf
  <2>2. ASSUME NEW z \in Slot, exec'[z] # None
        PROVE  /\ exec'[z].phase = "embedding" => AsOf(exec'[z].snapshot)
               /\ exec'[z].phase = "missing" => exec'[z].snapshot.version = 0
    <3>1. CASE z = x
      BY <1>3, <1>4, <3>1, SnapshotReads
    <3>2. CASE z = y
      BY <1>1, <1>4, <1>5, <3>2 DEF IInv, Reads
    <3>3. CASE z \notin {x, y}
      BY <1>4, <2>2, <3>3 DEF IInv, Reads
    <3> QED BY <3>1, <3>2, <3>3
  <2> QED BY <1>1, <2>1, <2>2 DEF Reads, IInv
<1>9. ASSUME Readable, NEW f \in {0, Now} PROVE Late(f)' \subseteq Late(f)
  <2>1. x \notin Late(f)'
    BY <1>2, <1>3, <1>4, <1>9, SnapshotReads DEF Late, Holders
  <2>2. y \notin Late(f)'
    BY <1>4, <1>5 DEF Late, Holders
  <2> QED BY <1>2, <1>4, <2>1, <2>2 DEF Late, Holders
<1>10. ASSUME ~Readable, NEW f \in Version PROVE Done(f)' \subseteq Done(f)
  <2>1. x \notin Done(f)'
    BY <1>3, <1>4, <1>10, SnapshotReads DEF Done, Holders
  <2>2. y \notin Done(f)'
    BY <1>4, <1>5 DEF Done, Holders
  <2> QED BY <1>4, <2>1, <2>2 DEF Done, Holders
<1>11. Indexed => Indexed'
  BY <1>1, <1>2 DEF Indexed
<1> QED BY <1>1, <1>7, <1>8, <1>9, <1>10, <1>11, FewerLate, FewerDone

\* What an execution has read is as old or older while the source stays as it is.
LEMMA ReadsKept ==
    ASSUME IInv, UNCHANGED indexVars,
           chunk' # None => AsOf(chunk'),
           \A z \in Slot : exec'[z] # None =>
               exec[z] # None /\ exec'[z].snapshot = exec[z].snapshot
                   /\ exec'[z].phase \in {exec[z].phase, "done", "failed"}
    PROVE  Reads'
<1>1. \A c : AsOf(c)' <=> AsOf(c)
  BY SameSource DEF AsOf
<1>2. chunk' # None => AsOf(chunk)'
  BY SameSource DEF AsOf
<1>3. ASSUME NEW z \in Slot, exec'[z] # None
      PROVE  /\ exec'[z].phase = "embedding" => AsOf(exec[z].snapshot)'
             /\ exec'[z].phase = "missing" => exec'[z].snapshot.version = 0
  <2>1. exec[z] # None /\ exec'[z].snapshot = exec[z].snapshot
        /\ exec'[z].phase \in {exec[z].phase, "done", "failed"}
    BY <1>3
  <2>2. exec'[z].phase = "embedding" => AsOf(exec[z].snapshot)
    BY <2>1 DEF IInv, Reads
  <2>3. exec'[z].phase = "missing" => exec'[z].snapshot.version = 0
    BY <2>1 DEF IInv, Reads
  <2>4. exec'[z].phase = "embedding" => AsOf(exec[z].snapshot)'
    BY <2>1, <2>2, SameSource DEF AsOf
  <2> QED BY <2>3, <2>4
<1> QED BY <1>2, <1>3 DEF Reads

LEMMA PhaseMoves ==
    ASSUME IInv, NEW x \in Slot, NEW at \in Phase, exec[x] # None,
           exec' = [exec EXCEPT ![x].phase = at]
    PROVE  /\ \A z \in Slot \ {x} : exec'[z] = exec[z]
           /\ exec'[x].event = exec[x].event /\ exec'[x].mine = exec[x].mine
           /\ exec'[x].snapshot = exec[x].snapshot /\ exec'[x].phase = at
           /\ \A z \in Slot : exec'[z] # None => exec[z] # None
           /\ \A e \in Version : Holders(e)' \subseteq Holders(e)
<1> DEFINE row == [exec[x] EXCEPT !.phase = at]
<1>1. exec[x] \in Execution
  BY DEF IInv, TypeOK
<1>2. /\ row.event = exec[x].event /\ row.mine = exec[x].mine
      /\ row.snapshot = exec[x].snapshot /\ row.phase = at
  BY <1>1 DEF Execution
<1>3. exec' = [exec EXCEPT ![x] = row]
  OBVIOUS
<1> HIDE DEF row
<1>4. exec'[x] = row /\ \A z \in Slot \ {x} : exec'[z] = exec[z]
  BY <1>3 DEF IInv, TypeOK
<1> QED BY <1>2, <1>4 DEF Holders

LEMMA StoreKeeps ==
    ASSUME IInv, TypeOK', NEW x \in Slot, Store(x)
    PROVE  ClaimsBacked' /\ Reads' /\ UpToDate' /\ Cleared'
<1> DEFINE new == exec[x].snapshot
           at == IF Contradicts(new) THEN "failed" ELSE "done"
<1>1. /\ exec[x] # None /\ exec[x].phase = "embedding" /\ exec' = [exec EXCEPT ![x].phase = at]
      /\ UNCHANGED indexVars /\ UNCHANGED <<index, skipped>>
      /\ chunk' = IF Contradicts(new) THEN chunk ELSE Stored(new)
      /\ abandoned' = (abandoned /\ chunk' # Content)
      /\ rewritten' = (rewritten /\ chunk' # Content)
  BY DEF Store
<1>2. at \in Phase /\ at \in {"failed", "done"}
  BY DEF Phase
<1>3. new \in Contents /\ AsOf(new)
  BY <1>1 DEF IInv, TypeOK, Execution, Reads
<1>4. new # None /\ new.version \in Nat
  BY <1>3, CourseIndexConstants, Constants DEF Contents
<1>5. chunk # None => AsOf(chunk) /\ chunk.version \in Nat
  BY Constants DEF IInv, Reads, TypeOK, Contents
<1>6. Now' = Now /\ Readable' = Readable /\ Now \in Nat
  BY <1>1, SameSource, NowIsNat DEF IInv
<1>7. at = "failed" => Contradicts(new)
  OBVIOUS
<1>8. \A z \in Slot \ {x} : exec'[z] = exec[z]
  BY <1>1, <1>2, PhaseMoves
<1>9. /\ exec'[x].event = exec[x].event /\ exec'[x].mine = exec[x].mine
      /\ exec'[x].snapshot = new /\ exec'[x].phase = at
  BY <1>1, <1>2, PhaseMoves
<1>10. \A e \in Version : Holders(e)' \subseteq Holders(e)
  BY <1>1, <1>2, PhaseMoves
<1>11. \A z \in Slot : exec'[z] # None => exec[z] # None
  BY <1>1, <1>2, PhaseMoves
<1> HIDE DEF at, new
<1>12. ClaimsBacked'
  BY <1>1, <1>10, FewerHolders
<1>13. Reads'
  <2>1. chunk' # None => AsOf(chunk')
    BY <1>1, <1>3, <1>5 DEF Stored
  <2>2. \A z \in Slot : exec'[z] # None =>
          exec[z] # None /\ exec'[z].snapshot = exec[z].snapshot
              /\ exec'[z].phase \in {exec[z].phase, "done", "failed"}
    BY <1>2, <1>8, <1>9, <1>11 DEF new
  <2> QED BY <1>1, <2>1, <2>2, ReadsKept
<1>14. (abandoned => abandoned' \/ Indexed') /\ (rewritten => rewritten' \/ Indexed')
  <2>1. Content # None /\ Content.version = Now
    BY Values DEF IInv, Content
  <2> QED BY <1>1, <1>6, <2>1 DEF Indexed
<1>15. UpToDate'
  <2>1. CASE ~Readable
    BY <1>6, <2>1 DEF UpToDate
  <2>2. CASE Readable /\ Contradicts(new)
    <3>1. chunk' = chunk /\ (Indexed => Indexed')
      BY <1>1, <1>6, <2>2 DEF Indexed
    <3>2. at = "failed"
      BY <2>2 DEF at
    <3>3. \A e \in {0, Now} : Late(e)' \subseteq Late(e)
      BY <1>6, <1>8, <1>9, <1>11, <3>2 DEF Late, Holders
    <3> QED BY <1>1, <1>14, <3>1, <3>3, FewerLate
  <2>3. CASE Readable /\ ~Contradicts(new) /\ new.version = Now
    <3>1. Indexed'
      <4>1. CASE chunk = None \/ chunk.version < new.version
        BY <1>1, <1>4, <1>6, <2>3, <4>1 DEF Stored, Indexed
      <4>2. CASE chunk # None /\ ~(chunk.version < new.version)
        <5>1. chunk' = chunk
          BY <1>1, <2>3, <4>2 DEF Stored
        <5>2. chunk.version = Now
          BY <1>4, <1>5, <1>6, <2>3, <4>2 DEF AsOf
        <5> QED BY <1>6, <4>2, <5>1, <5>2 DEF Indexed
      <4> QED BY <4>1, <4>2
    <3> QED BY <3>1 DEF UpToDate
  <2>4. CASE Readable /\ ~Contradicts(new) /\ new.version # Now
    <3>1. chunk' = chunk /\ (Indexed => Indexed')
      <4>1. chunk' = chunk
        BY <1>1, <2>4 DEF Stored
      <4> QED BY <1>6, <4>1 DEF Indexed
    <3>2. \A e \in {0, Now} : Late(e)' \subseteq Late(e)
      <4> SUFFICES ASSUME NEW e \in {0, Now}, NEW z \in Late(e)' PROVE z \in Late(e)
        OBVIOUS
      <4>1. CASE z = x
        BY <1>1, <1>9, <2>4, <4>1 DEF Late, Holders, new
      <4>2. CASE z # x
        BY <1>6, <1>8, <4>2 DEF Late, Holders
      <4> QED BY <4>1, <4>2
    <3> QED BY <1>1, <1>14, <3>1, <3>2, FewerLate
  <2> QED BY <2>1, <2>2, <2>3, <2>4
<1>16. Cleared'
  <2>1. ~Readable => chunk' = None
    BY <1>1 DEF Contradicts, Stored
  <2> QED BY <1>1, <2>1, FewerDone
<1> QED BY <1>12, <1>13, <1>15, <1>16

LEMMA CleanKeeps ==
    ASSUME IInv, TypeOK', NEW x \in Slot, Clean(x)
    PROVE  ClaimsBacked' /\ Reads' /\ UpToDate' /\ Cleared'
<1>1. /\ exec[x] # None /\ exec[x].phase = "missing" /\ exec' = [exec EXCEPT ![x].phase = "done"]
      /\ UNCHANGED indexVars /\ UNCHANGED <<index, skipped, abandoned, rewritten>>
      /\ chunk' = IF Readable THEN chunk ELSE None
  BY DEF Clean, Cleaned, historyVars
<1>2. "done" \in Phase
  BY DEF Phase
<1>3. Now' = Now /\ Readable' = Readable /\ Now \in Nat
  BY <1>1, SameSource, NowIsNat DEF IInv
<1>4. \A z \in Slot \ {x} : exec'[z] = exec[z]
  BY <1>1, <1>2, PhaseMoves
<1>5. /\ exec'[x].event = exec[x].event /\ exec'[x].mine = exec[x].mine
      /\ exec'[x].snapshot = exec[x].snapshot /\ exec'[x].phase = "done"
  BY <1>1, <1>2, PhaseMoves
<1>6. /\ \A e \in Version : Holders(e)' \subseteq Holders(e)
      /\ \A z \in Slot : exec'[z] # None => exec[z] # None
  BY <1>1, <1>2, PhaseMoves
<1>7. ClaimsBacked'
  BY <1>1, <1>6, FewerHolders
<1>8. Reads'
  <2>1. chunk' # None => AsOf(chunk')
    BY <1>1 DEF IInv, Reads
  <2>2. \A z \in Slot : exec'[z] # None =>
          exec[z] # None /\ exec'[z].snapshot = exec[z].snapshot
              /\ exec'[z].phase \in {exec[z].phase, "done", "failed"}
    BY <1>4, <1>5, <1>6
  <2> QED BY <1>1, <2>1, <2>2, ReadsKept
<1>9. UpToDate'
  <2>1. CASE ~Readable
    BY <1>3, <2>1 DEF UpToDate
  <2>2. CASE Readable
    <3>1. exec[x].snapshot.version # Now
      BY <1>1, <1>3, <2>2, ReadableHasVersion DEF IInv, Reads
    <3>2. \A e \in {0, Now} : Late(e)' \subseteq Late(e)
      <4> SUFFICES ASSUME NEW e \in {0, Now}, NEW z \in Late(e)' PROVE z \in Late(e)
        OBVIOUS
      <4>1. CASE z = x
        BY <1>1, <1>5, <3>1, <4>1 DEF Late, Holders
      <4>2. CASE z # x
        BY <1>3, <1>4, <4>2 DEF Late, Holders
      <4> QED BY <4>1, <4>2
    <3>3. Indexed => Indexed'
      BY <1>1, <1>3, <2>2 DEF Indexed
    <3> QED BY <1>1, <3>2, <3>3, FewerLate
  <2> QED BY <2>1, <2>2
<1>10. Cleared'
  BY <1>1, FewerDone
<1> QED BY <1>7, <1>8, <1>9, <1>10

LEMMA BreakKeeps ==
    ASSUME IInv, TypeOK', NEW x \in Slot, Break(x)
    PROVE  ClaimsBacked' /\ Reads' /\ UpToDate' /\ Cleared'
<1>1. /\ exec[x] # None /\ exec' = [exec EXCEPT ![x].phase = "failed"]
      /\ UNCHANGED indexVars /\ UNCHANGED <<index, skipped, abandoned, rewritten, chunk>>
  BY DEF Break, historyVars
<1>2. "failed" \in Phase
  BY DEF Phase
<1>3. Now' = Now /\ Readable' = Readable
  BY <1>1, SameSource
<1>4. \A z \in Slot \ {x} : exec'[z] = exec[z]
  BY <1>1, <1>2, PhaseMoves
<1>5. exec'[x].phase = "failed" /\ exec'[x].snapshot = exec[x].snapshot
  BY <1>1, <1>2, PhaseMoves
<1>6. /\ \A e \in Version : Holders(e)' \subseteq Holders(e)
      /\ \A z \in Slot : exec'[z] # None => exec[z] # None
  BY <1>1, <1>2, PhaseMoves
<1>7. ClaimsBacked'
  BY <1>1, <1>6, FewerHolders
<1>8. Reads'
  <2>1. chunk' # None => AsOf(chunk')
    BY <1>1 DEF IInv, Reads
  <2>2. \A z \in Slot : exec'[z] # None =>
          exec[z] # None /\ exec'[z].snapshot = exec[z].snapshot
              /\ exec'[z].phase \in {exec[z].phase, "done", "failed"}
    BY <1>4, <1>5, <1>6
  <2> QED BY <1>1, <2>1, <2>2, ReadsKept
<1>9. \A e : Late(e)' \subseteq Late(e) /\ Done(e)' \subseteq Done(e)
  BY <1>3, <1>4, <1>5, <1>6 DEF Late, Done, Holders
<1>10. Indexed => Indexed'
  BY <1>1, <1>3 DEF Indexed
<1>11. UpToDate'
  BY <1>1, <1>9, <1>10, FewerLate
<1>12. Cleared'
  BY <1>1, <1>9, FewerDone
<1> QED BY <1>7, <1>8, <1>11, <1>12

\* An execution that ends, whatever becomes of its event.
LEMMA EndMoves ==
    ASSUME IInv, NEW x \in Slot, exec[x] # None, exec' = [exec EXCEPT ![x] = None],
           UNCHANGED indexVars, chunk' = chunk
    PROVE  /\ Reads'
           /\ \A e : /\ Holders(e)' = Holders(e) \ {x}
                     /\ Late(e)' = Late(e) \ {x}
                     /\ Done(e)' = Done(e) \ {x}
<1>1. exec'[x] = None /\ \A z \in Slot \ {x} : exec'[z] = exec[z]
  BY DEF IInv, TypeOK
<1>2. Reads'
  <2>1. chunk' # None => AsOf(chunk')
    BY DEF IInv, Reads
  <2>2. \A z \in Slot : exec'[z] # None =>
          exec[z] # None /\ exec'[z].snapshot = exec[z].snapshot
              /\ exec'[z].phase \in {exec[z].phase, "done", "failed"}
    BY <1>1
  <2> QED BY <2>1, <2>2, ReadsKept
<1>3. Now' = Now
  BY SameSource
<1>4. \A e : Holders(e)' = Holders(e) \ {x}
  BY <1>1 DEF Holders
<1>5. \A e : Late(e)' = Late(e) \ {x} /\ Done(e)' = Done(e) \ {x}
  BY <1>1, <1>3 DEF Holders, Late, Done
<1> QED BY <1>2, <1>4, <1>5

LEMMA RetryKeeps ==
    ASSUME IInv, TypeOK', NEW x \in Slot, Retry(x) \/ Crash(x)
    PROVE  ClaimsBacked' /\ Reads' /\ UpToDate' /\ Cleared'
<1>1. /\ exec[x] # None /\ exec' = [exec EXCEPT ![x] = None]
      /\ UNCHANGED indexVars /\ UNCHANGED <<index, skipped, abandoned, rewritten, chunk>>
  BY DEF Retry, Crash, historyVars
<1>2. /\ Reads'
      /\ \A e : /\ Holders(e)' \subseteq Holders(e)
                /\ Late(e)' \subseteq Late(e)
                /\ Done(e)' \subseteq Done(e)
  BY <1>1, EndMoves
<1>3. Indexed => Indexed'
  BY <1>1, SameSource DEF Indexed
<1>4. ClaimsBacked'
  BY <1>1, <1>2, FewerHolders
<1>5. UpToDate'
  BY <1>1, <1>2, <1>3, FewerLate
<1>6. Cleared'
  BY <1>1, <1>2, FewerDone
<1> QED BY <1>2, <1>4, <1>5, <1>6

\* An event is closed with the one claim it has: a set of the executions that
\* hold it gets smaller with the number of open events if it had x.
LEMMA CloseMoves ==
    ASSUME IInv, TypeOK', NEW x \in Slot, exec[x] # None, Close(x),
           NEW f \in Version, NEW S \in SUBSET Holders(f), x \in Holders(f) => x \in S
    PROVE  /\ Cardinality(S \ {x}) < index'[f] <=> Cardinality(S) < index[f]
           /\ Cardinality(S \ {x}) <= index'[f] <=> Cardinality(S) <= index[f]
<1>1. exec[x].event \in Version /\ index[f] \in Nat /\ index'[f] \in Nat
  BY DEF IInv, TypeOK, Execution
<1>2. S \in SUBSET Slot /\ Cardinality(S) \in Nat /\ Cardinality(S \ {x}) \in Nat
  <2>1. S \in SUBSET Slot /\ S \ {x} \in SUBSET S
    BY DEF Holders
  <2> QED BY <2>1, Counted
<1>3. CASE exec[x].mine /\ exec[x].event = f
  <2>1. x \in S
    BY <1>3 DEF Holders
  <2>2. Cardinality(S \ {x}) = Cardinality(S) - 1
    BY <1>2, <2>1, OneLess
  <2>3. index'[f] = index[f] - 1
    BY <1>1, <1>3 DEF Close, IInv, TypeOK
  <2> QED BY <1>1, <1>2, <2>2, <2>3
<1>4. CASE ~(exec[x].mine /\ exec[x].event = f)
  <2>1. x \notin S
    BY <1>4 DEF Holders
  <2>2. S \ {x} = S
    BY <2>1
  <2>3. index'[f] = index[f]
    BY <1>1, <1>4 DEF Close, IInv, TypeOK
  <2> QED BY <2>2, <2>3
<1> QED BY <1>3, <1>4

LEMMA ClosedKeepsClaims ==
    ASSUME IInv, TypeOK', NEW x \in Slot, exec[x] # None, exec' = [exec EXCEPT ![x] = None],
           UNCHANGED indexVars, chunk' = chunk, Close(x)
    PROVE  ClaimsBacked'
<1> SUFFICES ASSUME NEW f \in Version PROVE Claims(f)' <= index'[f]
  BY DEF ClaimsBacked
<1>1. Holders(f)' = Holders(f) \ {x}
  BY EndMoves
<1>2. Claims(f)' = Cardinality(Holders(f)')
  BY DEF Claims, Holders
<1>3. Cardinality(Holders(f)) <= index[f]
  BY Numbers DEF IInv, ClaimsBacked
<1>4. Cardinality(Holders(f) \ {x}) <= index'[f]
  BY <1>3, CloseMoves
<1> QED BY <1>1, <1>2, <1>4

LEMMA RecordKeeps ==
    ASSUME IInv, TypeOK', NEW x \in Slot, Record(x)
    PROVE  ClaimsBacked' /\ Reads' /\ UpToDate' /\ Cleared'
<1>1. /\ exec[x] # None /\ exec[x].phase = "done" /\ exec' = [exec EXCEPT ![x] = None]
      /\ UNCHANGED indexVars /\ UNCHANGED <<skipped, abandoned, rewritten, chunk>> /\ Close(x)
  BY DEF Record, historyVars
<1>2. /\ Reads'
      /\ \A e : Late(e)' = Late(e) \ {x} /\ Done(e)' = Done(e) \ {x}
  BY <1>1, EndMoves
<1>3. ClaimsBacked'
  BY <1>1, ClosedKeepsClaims
<1>4. /\ Now' = Now /\ Readable' = Readable /\ AssetAwaited' = AssetAwaited
      /\ Indexed' = Indexed
  BY <1>1, SameSource DEF Indexed
<1>5. \A f \in Version : /\ x \in Holders(f) => x \in Late(f) /\ x \in Done(f)
                         /\ Late(f) \in SUBSET Holders(f) /\ Done(f) \in SUBSET Holders(f)
  BY <1>1 DEF Holders, Late, Done
<1>6. \A f \in Version : /\ Cardinality(Late(f)') < index'[f] <=> Cardinality(Late(f)) < index[f]
                         /\ Cardinality(Done(f)') < index'[f] <=> Cardinality(Done(f)) < index[f]
  BY <1>1, <1>2, <1>5, CloseMoves
<1>7. Refreshed => Refreshed'
  <2>1. {0, Now} \subseteq Version
    BY Constants, Values DEF IInv
  <2> QED BY <1>4, <1>6, <2>1 DEF Refreshed
<1>8. UpToDate'
  BY <1>1, <1>4, <1>7 DEF UpToDate, IInv
<1>9. Cleared'
  BY <1>1, <1>4, <1>6 DEF Cleared, IInv
<1> QED BY <1>2, <1>3, <1>8, <1>9

LEMMA GiveUpKeeps ==
    ASSUME IInv, TypeOK', NEW x \in Slot, GiveUp(x)
    PROVE  ClaimsBacked' /\ Reads' /\ UpToDate' /\ Cleared'
<1>1. /\ exec[x] # None /\ exec' = [exec EXCEPT ![x] = None]
      /\ UNCHANGED indexVars /\ UNCHANGED <<skipped, chunk>> /\ Close(x) /\ abandoned'
  BY DEF GiveUp
<1>2. Reads'
  BY <1>1, EndMoves
<1>3. ClaimsBacked'
  BY <1>1, ClosedKeepsClaims
<1> QED BY <1>1, <1>2, <1>3 DEF UpToDate, Cleared

LEMMA InitInv == Init => IInv
<1> SUFFICES ASSUME Init PROVE IInv
  OBVIOUS
<1>1. TypeOK
  BY InitTyped
<1>2. ClaimsBacked
  <2> SUFFICES ASSUME NEW e \in Version PROVE Claims(e) <= index[e]
    BY DEF ClaimsBacked
  <2>1. {x \in Slot : exec[x] # None /\ exec[x].mine /\ exec[x].event = e} = {}
    BY DEF Init
  <2>2. Claims(e) = 0
    BY <2>1, FS_EmptySet DEF Claims
  <2> QED BY <2>2 DEF Init
<1>3. ~Readable /\ Steps = {}
  BY DEF Init, Readable, Steps
<1>4. Ages
  BY <1>3 DEF Init, Ages
<1>5. Reads
  BY DEF Init, Reads
<1>6. UpToDate /\ Cleared
  BY <1>3 DEF Init, UpToDate, Cleared
<1> QED BY <1>1, <1>2, <1>4, <1>5, <1>6 DEF IInv

LEMMA NextInv == IInv /\ [Next]_vars => IInv'
<1> SUFFICES ASSUME IInv, [Next]_vars PROVE IInv'
  OBVIOUS
<1> USE DEF IInv
<1>1. CASE PostStep
  <2>1. TypeOK'
    BY <1>1, PostTyped
  <2> QED BY <1>1, <2>1, PostMoves, OutsideKeeps, AgesStay DEF Next
<1>2. CASE AssetStep
  <2>1. TypeOK'
    BY <1>2, AssetTyped
  <2> QED BY <1>2, <2>1, AssetMoves, OutsideKeeps, AgesStay DEF Next
<1>3. CASE CreateStep
  <2>1. TypeOK'
    BY <1>3, CreateTyped
  <2> QED BY <1>3, <2>1, CreateMoves, OutsideKeeps, AgesStay DEF Next
<1>4. CASE CourseStep
  <2>1. TypeOK'
    BY <1>4, CourseTyped
  <2> QED BY <1>4, <2>1, CourseMoves, OutsideKeeps, AgesStay DEF Next
<1>5. CASE SlotStep
  <2>1. TypeOK'
    BY <1>5, SlotTyped
  <2>2. Ages'
    BY <1>5, <2>1, AgesStay DEF Next
  <2>3. ClaimsBacked' /\ Reads' /\ UpToDate' /\ Cleared'
    BY <1>5, <2>1, StartKeeps, TakeOverKeeps, StoreKeeps, CleanKeeps, BreakKeeps, RecordKeeps,
       RetryKeeps, GiveUpKeeps DEF SlotStep
  <2> QED BY <2>1, <2>2, <2>3
<1>6. CASE UNCHANGED vars
  <2>1. UNCHANGED indexVars /\ UNCHANGED <<chunk, index, exec, abandoned, skipped, rewritten, faults>>
    BY <1>6 DEF vars, indexVars, courseVars, assetVars, eventVars, historyVars
  <2>2. TypeOK'
    BY <2>1 DEF TypeOK, indexVars, courseVars, assetVars
  <2>3. ClaimsBacked' /\ Ages'
    BY <2>1 DEF ClaimsBacked, Claims, Ages, Steps, indexVars, courseVars
  <2>4. Reads'
    BY <2>1, ReadsKept DEF Reads
  <2>5. \A e : Late(e)' = Late(e) /\ Done(e)' = Done(e)
    BY <2>1, SameSource DEF Late, Done, Holders
  <2>6. UpToDate' /\ Cleared'
    BY <2>1, <2>5, SameSource DEF UpToDate, Indexed, Refreshed, Cleared
  <2> QED BY <2>2, <2>3, <2>4, <2>6
<1> QED BY <1>1, <1>2, <1>3, <1>4, <1>5, <1>6 DEF Next

-----------------------------------------------------------------------------
(* The theorems. *)

LEMMA Inductive == Spec => []IInv
BY InitInv, NextInv, PTL DEF Spec

\* The history has the present version of a course with the source among its steps.
Seen == source \in Steps => course.version \in listed

LEMMA CommandSeen ==
    ASSUME TypeOK, Ages, Seen, CourseStep
    PROVE  /\ source' = source
           /\ source \in Steps => given' \in listed
           /\ Seen'
<1>1. PICK v \in Version :
        \/ UpdateMetadata(v) \/ Publish(v) \/ Archive(v)
        \/ \E p \in Post \cup {None} :
             \/ \E st \in Step : ApproveIntoCourse(v, st, p)
             \/ \E kept, added \in SUBSET Step : ReplaceSteps(v, kept, added, p)
  BY DEF CourseStep
<1>2. source' = source /\ given' = course.version
  BY <1>1 DEF UpdateMetadata, Publish, Archive, ApproveIntoCourse, ReplaceSteps, Locked
<1>3. ASSUME NEW status, NEW steps, Move(status, steps), source \in Steps' => source \in steps
      PROVE  Seen'
  BY <1>2, <1>3 DEF Move, Seen
<1>4. CASE UpdateMetadata(v) \/ Publish(v) \/ Archive(v)
  <2>1. step' = step /\ \E status : Move(status, Steps)
    BY <1>4 DEF UpdateMetadata, Publish, Published, Archive
  <2>2. Steps' = Steps
    BY <2>1 DEF Steps
  <2> QED BY <1>2, <1>3, <2>1, <2>2 DEF Seen
<1>5. ASSUME NEW p \in Post \cup {None}, NEW st \in Step, ApproveIntoCourse(v, st, p)
      PROVE  Seen'
  <2>1. step' = Placed({st}, p) /\ Move(course.status, Steps \cup {st})
    BY <1>5 DEF ApproveIntoCourse
  <2>2. Steps' \subseteq Steps \cup {st}
    BY <2>1 DEF Steps, Placed
  <2> QED BY <1>3, <2>1, <2>2
<1>6. ASSUME NEW p \in Post \cup {None}, NEW kept \in SUBSET Step, NEW added \in SUBSET Step,
             ReplaceSteps(v, kept, added, p)
      PROVE  Seen'
  <2>1. /\ step' = [x \in Step |-> IF x \in Steps \ kept THEN [place |-> "out", post |-> None]
                                   ELSE Placed(added, p)[x]]
        /\ Move(course.status, kept \cup added)
    BY <1>6 DEF ReplaceSteps
  <2>2. Steps' \subseteq kept \cup added
    BY <2>1 DEF Steps, Placed
  <2> QED BY <1>3, <2>1, <2>2
<1> QED BY <1>1, <1>2, <1>4, <1>5, <1>6 DEF Seen

LEMMA SeenStays == IInv /\ Seen /\ [Next]_vars => Seen'
<1> SUFFICES ASSUME IInv, Seen, [Next]_vars PROVE Seen'
  OBVIOUS
<1> USE DEF courseVars, assetVars, eventVars, historyVars, indexVars
<1>1. ASSUME UNCHANGED <<course, listed, source>>, \A st \in Step : step'[st].place = step[st].place
      PROVE  Seen'
  BY <1>1 DEF Seen, Steps
<1>2. CASE PostStep
  <2>1. UNCHANGED <<course, listed, source>>
    BY <1>2 DEF PostStep, CreatePost, UpdatePost, ReplaceVideo, DeletePost, RequestPreparation
  <2>2. PICK p \in Post : \/ CreatePost(p) \/ UpdatePost(p) \/ ReplaceVideo(p)
                         \/ DeletePost(p) \/ RequestPreparation(p)
    BY <1>2 DEF PostStep
  <2>3. CASE DeletePost(p)
    <3>1. step \in [Step -> [place : {"unused", "in", "out"}, post : Post \cup {None}]]
      BY DEF IInv, TypeOK
    <3>2. \A st \in Step : step'[st].place = step[st].place
      BY <2>3, <3>1 DEF DeletePost
    <3> QED BY <1>1, <2>1, <3>2
  <2>4. CASE ~DeletePost(p)
    <3>1. step' = step
      BY <2>2, <2>4 DEF CreatePost, UpdatePost, ReplaceVideo, RequestPreparation
    <3> QED BY <1>1, <2>1, <3>1
  <2> QED BY <2>3, <2>4
<1>3. CASE AssetStep \/ SlotStep \/ UNCHANGED vars
  <2>1. UNCHANGED <<course, listed, source, step>>
    BY <1>3 DEF AssetStep, WriteAsset, AppendRequest, FinishAsset, LoseAsset, GiveUpAsset,
                AppendLate, SlotStep, Start, TakeOver, Store, Clean, Break, Record, Retry, GiveUp,
                Crash, vars
  <2> QED BY <1>1, <2>1
<1>4. CASE CreateStep
  <2>1. PICK status \in {"draft", "published"}, w \in {1, 2}, sts \in SUBSET Step, p \in Post \cup {None} :
          New(status, w, sts, p)
    BY <1>4 DEF CreateStep, Create, CreateFromPlan, ApproveIntoNew
  <2>2. source' = source
    BY <1>4 DEF CreateStep, Create, CreateFromPlan, ApproveIntoNew
  <2>3. Steps = {}
    BY <2>1 DEF New, IInv, Ages
  <2>4. Steps' \subseteq sts
    BY <2>1, <2>3 DEF New, Placed, Steps
  <2> QED BY <2>1, <2>2, <2>4 DEF New, Seen
<1>5. CASE CourseStep
  BY <1>5, CommandSeen DEF IInv
<1> QED BY <1>2, <1>3, <1>4, <1>5 DEF Next

\* Only a command on the course takes a step out of it.
LEMMA OnlyCommandsRemove ==
    ASSUME IInv, [Next]_vars, Leaves(source)
    PROVE  CourseStep
<1> USE DEF courseVars, assetVars, eventVars, historyVars, indexVars
<1>1. source \in Step /\ step[source].place = "in" /\ step'[source].place = "out" /\ source \in Steps
  BY DEF Leaves, Steps
<1>2. ~PostStep
  BY <1>1 DEF PostStep, CreatePost, UpdatePost, ReplaceVideo, DeletePost, RequestPreparation,
              IInv, TypeOK
<1>3. ~(AssetStep \/ SlotStep \/ UNCHANGED vars)
  BY <1>1 DEF AssetStep, WriteAsset, AppendRequest, FinishAsset, LoseAsset, GiveUpAsset,
              AppendLate, SlotStep, Start, TakeOver, Store, Clean, Break, Record, Retry, GiveUp,
              Crash, vars
<1>4. ~CreateStep
  BY <1>1 DEF CreateStep, Create, CreateFromPlan, ApproveIntoNew, New, IInv, Ages
<1> QED BY <1>2, <1>3, <1>4 DEF Next

\* Every variable keeps its type: no event is closed that was not open.
THEOREM TypeCorrect == Spec => []TypeOK
<1>1. IInv => TypeOK
  BY DEF IInv
<1> QED BY <1>1, Inductive, PTL

\* A source that search cannot find because its version has moved on has an
\* open event that will index it, in any interleaving of edits, commands, caption
\* jobs and index jobs, and whichever of them are repeated, late or lost; the only
\* exceptions are those StaleIsQueued names: its job was given up, a proposal
\* skipped it, or its captions were written again after they had asked for the
\* index (the callers of enqueueRetrieval, video-asset.worker.ts, replaceChunks).
THEOREM StaleIsAlwaysQueued == Spec => []StaleIsQueued
<1>1. IInv => StaleIsQueued
  <2> SUFFICES ASSUME IInv PROVE StaleIsQueued
    OBVIOUS
  <2>1. Refreshed => \E e \in {0, Now} : index[e] > 0
    <3> SUFFICES ASSUME NEW e \in {0, Now}, Cardinality(Late(e)) < index[e] PROVE index[e] > 0
      BY DEF Refreshed
    <3>1. e \in Version
      BY Constants, Values DEF IInv
    <3> QED BY <3>1, Numbers DEF IInv
  <2> QED BY <2>1 DEF IInv, UpToDate, StaleIsQueued, Awaited, AssetAwaited
<1> QED BY <1>1, Inductive, PTL

\* What the index holds of a source that is gone has an open event that will
\* remove it (removeMissingChunks).
THEOREM GoneIsAlwaysForgotten == Spec => []GoneIsForgotten
<1>1. IInv => GoneIsForgotten
  <2> SUFFICES ASSUME IInv, ~Readable, chunk # None, ~abandoned
               PROVE  \E e \in Version : index[e] > 0
    BY DEF GoneIsForgotten
  <2>1. PICK e \in Version : Cardinality(Done(e)) < index[e]
    BY DEF IInv, Cleared
  <2>2. index[e] > 0
    BY <2>1, Numbers DEF IInv
  <2> QED BY <2>2
<1> QED BY <1>1, Inductive, PTL

\* Chunks that search serves are for the audience the source has now.
THEOREM AlwaysServedAsShown == Spec => []ServedAsShown
<1>1. IInv => ServedAsShown
  BY DEF IInv, Reads, AsOf, ServedAsShown, Indexed
<1> QED BY <1>1, Inductive, PTL

\* The index of a source never goes back to an older version (replaceChunks).
THEOREM IndexOnlyRises == Spec => IndexNeverGoesBack
<1>1. ASSUME IInv, [Next]_vars, chunk # None, chunk' # None
      PROVE  chunk'.version >= chunk.version
  <2>1. chunk.version \in Nat
    BY <1>1, Constants DEF IInv, TypeOK, Contents
  <2>2. CASE chunk' = chunk
    BY <2>1, <2>2
  <2>3. CASE chunk' # chunk
    <3>1. PICK x \in Slot : Store(x)
      <4>1. SlotStep
        <5>1. ASSUME OutsideStep PROVE Outside
          BY <1>1, <5>1, PostTyped, AssetTyped, CreateTyped, CourseTyped,
             PostMoves, AssetMoves, CreateMoves, CourseMoves DEF OutsideStep, IInv
        <5>2. ~OutsideStep
          BY <1>1, <2>3, <5>1 DEF Outside, Forward
        <5> QED BY <1>1, <2>3, <5>2 DEF Next, OutsideStep, vars
      <4> QED BY <1>1, <2>3, <4>1 DEF SlotStep, Start, TakeOver, Clean, Cleaned, Break, Record,
                 Retry, GiveUp, Crash
    <3>2. chunk' = exec[x].snapshot /\ chunk.version < exec[x].snapshot.version
      BY <1>1, <2>3, <3>1 DEF Store, Stored
    <3>3. exec[x].snapshot.version \in Nat
      BY <1>1, <3>1, Constants DEF Store, IInv, TypeOK, Execution, Contents
    <3> QED BY <2>1, <3>2, <3>3
  <2> QED BY <2>2, <2>3
<1>2. IInv /\ [Next]_vars => [chunk # None /\ chunk' # None => chunk'.version >= chunk.version]_vars
  BY <1>1
<1> QED BY <1>2, Inductive, PTL DEF Spec, IndexNeverGoesBack

\* A step leaves the course only by the command of a client that has read a
\* version with the step in it (lockOwnedCourse).
THEOREM NothingUnseenIsEverRemoved == Spec => NothingUnseenIsRemoved
<1>1. Init => Seen
  BY DEF Init, Seen, Steps
<1>2. Spec => []Seen
  BY <1>1, SeenStays, Inductive, PTL DEF Spec
<1>3. IInv /\ Seen /\ [Next]_vars => [Leaves(source) => given' \in listed]_vars
  <2> SUFFICES ASSUME IInv, Seen, [Next]_vars, Leaves(source) PROVE given' \in listed
    OBVIOUS
  <2>1. CourseStep /\ source \in Steps
    BY OnlyCommandsRemove DEF Leaves
  <2> QED BY <2>1, CommandSeen DEF IInv
<1> QED BY <1>2, <1>3, Inductive, PTL DEF Spec, NothingUnseenIsRemoved
=============================================================================
