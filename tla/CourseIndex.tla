----------------------------- MODULE CourseIndex ----------------------------
(***************************************************************************)
(* The search index over posts and the steps of a course, and the commands *)
(* that keep it up: postgres-course.repository.ts, database.service.ts and *)
(* the triggers of migration 1753660807000,                                *)
(* postgres-learning-proposal.repository.ts, retrieval-embedding.worker.ts *)
(* and postgres-retrieval-source.persistence.ts.  A source is indexed at a *)
(* version: a post has its own, a step has that of its course.  Search     *)
(* serves a chunk only if it has the version of its source, so every new   *)
(* version must be followed by an event whose job reads the source, has    *)
(* its text embedded and replaces the chunks.                              *)
(*                                                                         *)
(* Sources are indexed apart from each other: the events, executions and   *)
(* chunks here are those of one of them, whichever it is.  The content of  *)
(* a post is known by its version, that of a step by the version of the    *)
(* post it shows; all chunks of the source are replaced together and are   *)
(* one here.  Outbox and queue are those of WorkPipeline: an event is open *)
(* until an execution that still holds its claim has recorded a result.    *)
(***************************************************************************)
EXTENDS Naturals, FiniteSets

CONSTANTS
    Post, Step,     \* a step is a row of the one course
    Slot,           \* executions of index jobs
    None,
    MaxVersion,     \* bound: versions of the course
    MaxEdits,       \* bound: versions of a post
    MaxFaults       \* bound: crashes, failed calls, lost claims, lost jobs

\* What an event to prepare captions is about: a post, and a step it is for.
Assets == Post \X (Step \cup {None})

Version == 0..MaxVersion
Contents == [version : Version, text : Version, public : BOOLEAN]

ASSUME CourseIndexConstants ==
    /\ Post \cap Step = {}
    /\ None \notin Post \cup Step \cup Contents
    /\ IsFiniteSet(Slot)
    /\ MaxVersion \in Nat \ {0}
    /\ MaxEdits \in 1..MaxVersion
    /\ MaxFaults \in Nat

VARIABLES
    post,       \* version of each post, and whether it exists
    course,     \* status and version of the course
    step,       \* whether each step is in the course, and the post it shows
    source,     \* the source whose index is followed
    chunk,      \* what the index holds of it
    index,      \* open events to index it at a version or, at 0, as it is
    asset,      \* open events to prepare captions that have not asked for the index
    told,       \* and those that have, but whose result is not recorded
    stray,      \* whose job was lost: an execution of it may be late or repeated
    late,       \* of those, whose event was given up before it asked
    exec,       \* what each slot executes
    listed,     \* history: versions of the course with the source among its steps
    given,      \* history: the version given with the last command
    abandoned,  \* history: the last job of the source was given up
    skipped,    \* history: a proposal moved it on without an event
    rewritten,  \* history: captions were written after the index was asked for
    faults

courseVars == <<course, step, listed, given>>
assetVars == <<asset, told, stray, late>>
eventVars == <<index, assetVars>>
historyVars == <<abandoned, skipped, rewritten>>
vars == <<post, courseVars, source, chunk, eventVars, exec, historyVars, faults>>

-----------------------------------------------------------------------------
Steps == {st \in Step : step[st].place = "in"}
Unused == {st \in Step : step[st].place = "unused"}

\* A private draft and a public course can be read, an archived one cannot.
Readable ==
    IF source \in Post THEN post[source].exists
    ELSE source \in Steps /\ course.status \in {"draft", "published"}

Now == IF source \in Post THEN post[source].version ELSE course.version

Public == source \in Post \/ course.status = "published"

\* The version of the post whose summary, notes and captions are the text.
Text ==
    LET p == IF source \in Post THEN source ELSE step[source].post
    IN  IF p # None /\ post[p].exists THEN post[p].version ELSE 0

Content == [version |-> Now, text |-> Text, public |-> Public]
NoContent == [version |-> 0, text |-> 0, public |-> FALSE]

Phase == {"missing", "embedding", "done", "failed", "refused"}

Execution == [event : Version, mine : BOOLEAN, phase : Phase, snapshot : Contents]

TypeOK ==
    /\ post \in [Post -> [exists : BOOLEAN, version : Version]]
    /\ course \in [status : {"none", "draft", "published", "archived"}, version : Version]
    /\ step \in [Step -> [place : {"unused", "in", "out"}, post : Post \cup {None}]]
    /\ source \in Post \cup Step
    /\ chunk \in Contents \cup {None}
    /\ index \in [Version -> Nat]
    /\ asset \in [Assets -> Nat]
    /\ told \in [Assets -> Nat]
    /\ stray \subseteq Assets
    /\ late \subseteq stray
    /\ exec \in [Slot -> Execution \cup {None}]
    /\ listed \subseteq Version
    /\ given \in Version
    /\ abandoned \in BOOLEAN
    /\ skipped \in BOOLEAN
    /\ rewritten \in BOOLEAN
    /\ faults \in 0..MaxFaults

Init ==
    /\ post = [p \in Post |-> [exists |-> FALSE, version |-> 0]]
    /\ course = [status |-> "none", version |-> 0]
    /\ step = [st \in Step |-> [place |-> "unused", post |-> None]]
    /\ source \in Post \cup Step
    /\ chunk = None
    /\ index = [v \in Version |-> 0]
    /\ asset = [a \in Assets |-> 0]
    /\ told = [a \in Assets |-> 0]
    /\ stray = {}
    /\ late = {}
    /\ exec = [x \in Slot |-> None]
    /\ listed = {}
    /\ given = 0
    /\ abandoned = FALSE
    /\ skipped = FALSE
    /\ rewritten = FALSE
    /\ faults = 0

\* Events appended in the transaction of the change they report.
Request(s, v) == index' = IF s = source THEN [index EXCEPT ![v] = @ + 1] ELSE index

RequestAsset(p, st) ==
    /\ asset' = [asset EXCEPT ![<<p, st>>] = @ + 1]
    /\ UNCHANGED <<told, stray, late>>

\* What was written to post p is read by the job that is asked for now.
ReadAgain(p) == rewritten' = (rewritten /\ source # p)

Fault ==
    /\ faults < MaxFaults
    /\ faults' = faults + 1

-----------------------------------------------------------------------------
(* Posts.  Triggers raise the version of a post with everything that is     *)
(* indexed of it, and delete its chunks with the row.                       *)

CreatePost(p) ==
    /\ post[p].version = 0
    /\ post' = [post EXCEPT ![p] = [exists |-> TRUE, version |-> 1]]
    /\ RequestAsset(p, None)
    /\ Request(p, 0)
    /\ UNCHANGED <<courseVars, source, chunk, exec, historyVars, faults>>

Edit(p) ==
    /\ post[p].exists
    /\ post[p].version < MaxEdits
    /\ post' = [post EXCEPT ![p].version = @ + 1]

UpdatePost(p) ==
    /\ Edit(p)
    /\ Request(p, 0)
    /\ ReadAgain(p)
    /\ UNCHANGED <<courseVars, source, chunk, assetVars, exec, abandoned, skipped, faults>>

\* With another video: its captions have to be prepared.
ReplaceVideo(p) ==
    /\ Edit(p)
    /\ Request(p, 0)
    /\ RequestAsset(p, None)
    /\ ReadAgain(p)
    /\ UNCHANGED <<courseVars, source, chunk, exec, abandoned, skipped, faults>>

\* The steps that showed the post keep their own title and video.
DeletePost(p) ==
    /\ post[p].exists
    /\ post' = [post EXCEPT ![p].exists = FALSE]
    /\ step' = [st \in Step |-> IF step[st].post = p THEN [step[st] EXCEPT !.post = None] ELSE step[st]]
    /\ chunk' = IF source = p THEN None ELSE chunk
    /\ UNCHANGED <<course, listed, given, source, eventVars, exec, historyVars, faults>>

\* Captions are asked for again: what there was is cleared.
RequestPreparation(p) ==
    /\ Edit(p)
    /\ RequestAsset(p, None)
    /\ ReadAgain(p)
    /\ UNCHANGED <<courseVars, source, chunk, index, exec, abandoned, skipped, faults>>

-----------------------------------------------------------------------------
(* The job of video-asset.worker.ts: it writes the captions of a post in    *)
(* several statements, none of which tests its claim, asks for the index,   *)
(* and has its result recorded.  An execution that is repeated writes       *)
(* again, unless the captions are complete.  Its request has an identifier  *)
(* derived from that of its event, so that only the first one is appended.  *)

Untold(p) == \E st \in Step \cup {None} : asset[<<p, st>>] > 0

WriteAsset(p, st) ==
    /\ asset[<<p, st>>] > 0 \/ <<p, st>> \in stray
    /\ Edit(p)
    /\ rewritten' = (rewritten \/ (source = p /\ ~Untold(p)))
    /\ UNCHANGED <<courseVars, source, chunk, eventVars, exec, abandoned, skipped, faults>>

\* An event for a step asks for the post and then for the step; of the
\* source that is followed there is one request, and the read of the post
\* that came before is not repeated.
AskIndex(p, st) ==
    /\ Request(IF source = p THEN p ELSE st, 0)
    /\ ReadAgain(p)

AppendRequest(p, st) ==
    /\ asset[<<p, st>>] > 0
    /\ asset' = [asset EXCEPT ![<<p, st>>] = @ - 1]
    /\ told' = [told EXCEPT ![<<p, st>>] = @ + 1]
    /\ AskIndex(p, st)
    /\ UNCHANGED <<post, courseVars, source, chunk, stray, late, exec, abandoned, skipped, faults>>

\* The result is recorded, or a later attempt fails for good.
FinishAsset(p, st) ==
    /\ told[<<p, st>>] > 0
    /\ told' = [told EXCEPT ![<<p, st>>] = @ - 1]
    /\ UNCHANGED <<post, courseVars, source, chunk, index, asset, stray, late, exec, historyVars,
                   faults>>

\* The process dies or its claim expires: the job is executed again, and the
\* execution that lost it may go on.
LoseAsset(p, st) ==
    /\ asset[<<p, st>>] + told[<<p, st>>] > 0
    /\ Fault
    /\ stray' = stray \cup {<<p, st>>}
    /\ UNCHANGED <<post, courseVars, source, chunk, index, asset, told, late, exec, historyVars>>

\* The post is gone, or all attempts failed.
GiveUpAsset(p, st) ==
    /\ asset[<<p, st>>] > 0
    /\ asset' = [asset EXCEPT ![<<p, st>>] = @ - 1]
    /\ IF post[p].exists THEN Fault ELSE UNCHANGED faults
    /\ late' = late \cup ({<<p, st>>} \cap stray)
    /\ abandoned' = (abandoned \/ source \in {p, st})
    /\ UNCHANGED <<post, courseVars, source, chunk, index, told, stray, exec, skipped, rewritten>>

\* The request of an execution that its event did not wait for.
AppendLate(p, st) ==
    /\ <<p, st>> \in late
    /\ late' = late \ {<<p, st>>}
    /\ AskIndex(p, st)
    /\ UNCHANGED <<post, courseVars, source, chunk, asset, told, stray, exec, abandoned, skipped,
                   faults>>

-----------------------------------------------------------------------------
(* Commands on the course, in one transaction each.  A client sends the     *)
(* version v it has read, which may be any the course has had.              *)

\* The course moves to its next version.
Move(status, steps) ==
    /\ course' = [status |-> status, version |-> course.version + 1]
    /\ listed' = IF source \in steps THEN listed \cup {course.version + 1} ELSE listed

Placed(sts, p) ==
    [st \in Step |-> IF st \in sts THEN [place |-> "in", post |-> p] ELSE step[st]]

\* A step shows a video of its own or that of a post.
Shown == {None} \cup {p \in Post : post[p].exists}

New(status, version, sts, p) ==
    /\ course.status = "none"
    /\ p \in Shown
    /\ course' = [status |-> status, version |-> version]
    /\ listed' = IF source \in sts THEN {version} ELSE {}
    /\ step' = Placed(sts, p)
    /\ UNCHANGED given

\* create.  A repeated request with the same key finds the course and
\* changes nothing.
Create(sts, p) ==
    /\ New("draft", 1, sts, p)
    /\ Request(IF source \in sts THEN source ELSE None, 1)
    /\ UNCHANGED <<post, source, chunk, assetVars, exec, historyVars, faults>>

\* approveRun of the agent publishes the course with its steps, at its second
\* version.  Steps that show a post wait for its captions.
CreateFromPlan(sts, p) ==
    /\ sts # {} /\ MaxVersion > 1
    /\ New("published", 2, sts, p)
    /\ IF p = None
       THEN Request(IF source \in sts THEN source ELSE None, 0) /\ UNCHANGED asset
       ELSE /\ asset' = [a \in DOMAIN asset |->
                            IF a[1] = p /\ a[2] \in sts THEN asset[a] + 1 ELSE asset[a]]
            /\ UNCHANGED index
    /\ UNCHANGED <<post, source, chunk, told, stray, late, exec, historyVars, faults>>

\* approve of a proposal into a new private course.
ApproveIntoNew(st, p) ==
    /\ New("draft", 1, {st}, p)
    /\ Request(st, 1)
    /\ UNCHANGED <<post, source, chunk, assetVars, exec, historyVars, faults>>

\* Mutant: the version is not compared.
LockedUnchecked(v) ==
    /\ course.status \in {"draft", "published"}
    /\ v \in 1..course.version
    /\ course.version < MaxVersion
    /\ given' = v

\* lockOwnedCourse.
Locked(v) ==
    /\ course.status \in {"draft", "published"}
    /\ v \in 1..course.version
    /\ v = course.version
    /\ course.version < MaxVersion
    /\ given' = v

\* Mutant: the steps a command leaves as they are get no event.
ReindexOnlyAdded(kept, added, removed) ==
    Request(IF source \in added \cup removed THEN source ELSE None,
            IF source \in removed THEN 0 ELSE course.version + 1)

\* enqueueCourseStepRetrieval: every step at the new version, and those
\* removed to be cleaned up.
Reindex(kept, added, removed) ==
    Request(IF source \in kept \cup added \cup removed THEN source ELSE None,
            IF source \in removed THEN 0 ELSE course.version + 1)

UpdateMetadata(v) ==
    /\ Locked(v)
    /\ Move(course.status, Steps)
    /\ Reindex(Steps, {}, {})
    /\ skipped' = FALSE
    /\ UNCHANGED <<post, step, source, chunk, assetVars, exec, abandoned, rewritten, faults>>

\* The client sends the list of all steps: those it keeps and new ones.
ReplaceSteps(v, kept, added, p) ==
    /\ Locked(v)
    /\ kept \subseteq Steps /\ added \subseteq Unused
    /\ p \in Shown
    /\ course.status = "published" => kept \cup added # {}
    /\ step' = [st \in Step |-> IF st \in Steps \ kept THEN [place |-> "out", post |-> None]
                                ELSE Placed(added, p)[st]]
    /\ chunk' = IF source \in Steps \ kept THEN None ELSE chunk
    /\ Reindex(kept, added, Steps \ kept)
    /\ Move(course.status, kept \cup added)
    /\ skipped' = FALSE
    /\ UNCHANGED <<post, source, assetVars, exec, abandoned, rewritten, faults>>

\* Mutant: the version stays.
PublishedInPlace ==
    /\ course' = [course EXCEPT !.status = "published"]
    /\ UNCHANGED listed

Published == Move("published", Steps)

Publish(v) ==
    /\ Locked(v)
    /\ course.status = "draft" /\ Steps # {}
    /\ Published
    /\ Reindex(Steps, {}, {})
    /\ skipped' = FALSE
    /\ UNCHANGED <<post, step, source, chunk, assetVars, exec, abandoned, rewritten, faults>>

Archive(v) ==
    /\ Locked(v)
    /\ Move("archived", Steps)
    /\ Reindex(Steps, {}, {})
    /\ skipped' = FALSE
    /\ UNCHANGED <<post, step, source, chunk, assetVars, exec, abandoned, rewritten, faults>>

\* approve of a proposal into the course: only the new step gets an event.
ApproveIntoCourse(v, st, p) ==
    /\ Locked(v)
    /\ st \in Unused
    /\ p \in Shown
    /\ Move(course.status, Steps \cup {st})
    /\ step' = Placed({st}, p)
    /\ Request(st, course.version + 1)
    /\ skipped' = (source \in Steps)
    /\ UNCHANGED <<post, source, chunk, assetVars, exec, abandoned, rewritten, faults>>

-----------------------------------------------------------------------------
(* The job of retrieval-embedding.worker.ts.                                *)

Claims(e) == Cardinality({x \in Slot : exec[x] # None /\ exec[x].mine /\ exec[x].event = e})

\* readSnapshot, one statement, and what it tells the job to do.
Snapshot(e) ==
    [event |-> e, mine |-> TRUE,
     snapshot |-> IF Readable THEN Content ELSE NoContent,
     phase |-> IF ~Readable THEN "missing"
               ELSE IF e \in {0, Now} THEN "embedding"
               ELSE IF e < Now THEN "done"
               ELSE "refused"]

indexVars == <<post, courseVars, source, assetVars>>

Start(x, e) ==
    /\ exec[x] = None
    /\ index[e] > Claims(e)
    /\ exec' = [exec EXCEPT ![x] = Snapshot(e)]
    /\ UNCHANGED <<indexVars, chunk, index, historyVars, faults>>

\* The claim of a slow execution expires and another takes the job over.
TakeOver(x, y) ==
    /\ exec[x] = None
    /\ exec[y] # None /\ exec[y].mine
    /\ Fault
    /\ exec' = [exec EXCEPT ![y].mine = FALSE, ![x] = Snapshot(exec[y].event)]
    /\ UNCHANGED <<indexVars, chunk, index, historyVars>>

\* Mutant: the source is not read again under the lock.
StoredBlindly(new) == new

\* What replaceChunks leaves in the index: it locks and reads the source
\* again, and does nothing for a snapshot that is no longer current.
Stored(new) ==
    IF ~Readable THEN None
    ELSE IF Now = new.version /\ (chunk = None \/ chunk.version < new.version) THEN new
    ELSE chunk

\* The source cannot have an older version or another audience, and chunks
\* of the same version must be the same.
Contradicts(new) ==
    /\ Readable
    /\ \/ Now < new.version
       \/ /\ Now = new.version
          /\ \/ Public # new.public
             \/ chunk # None /\ chunk.version = new.version /\ chunk # new

Store(x) ==
    /\ exec[x] # None /\ exec[x].phase = "embedding"
    /\ LET new == exec[x].snapshot
       IN  /\ chunk' = IF Contradicts(new) THEN chunk ELSE Stored(new)
           /\ exec' = [exec EXCEPT ![x].phase = IF Contradicts(new) THEN "failed" ELSE "done"]
    /\ abandoned' = (abandoned /\ chunk' # Content)
    /\ rewritten' = (rewritten /\ chunk' # Content)
    /\ UNCHANGED <<indexVars, index, skipped, faults>>

\* Mutant: only a row that is gone counts as missing.
CleanedIfDeleted == IF source \in Steps \/ Readable THEN chunk ELSE None

\* removeMissingChunks.
Cleaned == IF Readable THEN chunk ELSE None

Clean(x) ==
    /\ exec[x] # None /\ exec[x].phase = "missing"
    /\ chunk' = Cleaned
    /\ exec' = [exec EXCEPT ![x].phase = "done"]
    /\ UNCHANGED <<indexVars, index, historyVars, faults>>

\* The provider fails, or a statement of the repository.
Break(x) ==
    /\ exec[x] # None /\ exec[x].phase \in {"missing", "embedding"}
    /\ Fault
    /\ exec' = [exec EXCEPT ![x].phase = "failed"]
    /\ UNCHANGED <<indexVars, chunk, index, historyVars>>

Close(x) == index' = IF exec[x].mine THEN [index EXCEPT ![exec[x].event] = @ - 1] ELSE index

\* The result is recorded if the claim is still the execution's own.
Record(x) ==
    /\ exec[x] # None /\ exec[x].phase = "done"
    /\ Close(x)
    /\ exec' = [exec EXCEPT ![x] = None]
    /\ UNCHANGED <<indexVars, chunk, historyVars, faults>>

\* A failed attempt is repeated, or was the last.
Retry(x) ==
    /\ exec[x] # None /\ exec[x].phase = "failed"
    /\ exec' = [exec EXCEPT ![x] = None]
    /\ UNCHANGED <<indexVars, chunk, index, historyVars, faults>>

GiveUp(x) ==
    /\ exec[x] # None /\ exec[x].phase \in {"failed", "refused"} /\ exec[x].mine
    /\ Close(x)
    /\ exec' = [exec EXCEPT ![x] = None]
    /\ abandoned' = TRUE
    /\ UNCHANGED <<indexVars, chunk, skipped, rewritten, faults>>

Crash(x) ==
    /\ exec[x] # None
    /\ Fault
    /\ exec' = [exec EXCEPT ![x] = None]
    /\ UNCHANGED <<indexVars, chunk, index, historyVars>>

-----------------------------------------------------------------------------
PostStep ==
    \E p \in Post :
        CreatePost(p) \/ UpdatePost(p) \/ ReplaceVideo(p) \/ DeletePost(p) \/ RequestPreparation(p)

AssetStep ==
    \E p \in Post, st \in Step \cup {None} :
        \/ WriteAsset(p, st) \/ AppendRequest(p, st) \/ FinishAsset(p, st)
        \/ LoseAsset(p, st) \/ GiveUpAsset(p, st) \/ AppendLate(p, st)

CreateStep ==
    \E p \in Post \cup {None} :
        \/ \E sts \in SUBSET Step : Create(sts, p) \/ CreateFromPlan(sts, p)
        \/ \E st \in Step : ApproveIntoNew(st, p)

CourseStep ==
    \E v \in Version :
        \/ UpdateMetadata(v) \/ Publish(v) \/ Archive(v)
        \/ \E p \in Post \cup {None} :
               \/ \E st \in Step : ApproveIntoCourse(v, st, p)
               \/ \E kept, added \in SUBSET Step : ReplaceSteps(v, kept, added, p)

SlotStep ==
    \E x \in Slot :
        \/ \E e \in Version : Start(x, e)
        \/ \E y \in Slot : TakeOver(x, y)
        \/ Store(x) \/ Clean(x) \/ Break(x)
        \/ Record(x) \/ Retry(x) \/ GiveUp(x) \/ Crash(x)

Next == PostStep \/ AssetStep \/ CreateStep \/ CourseStep \/ SlotStep

Spec == Init /\ [][Next]_vars

-----------------------------------------------------------------------------
(* Properties *)

\* An open event whose job will bring the index up to date, or will ask for
\* one that does.
Awaited ==
    \/ \E e \in {0, Now} : index[e] > 0
    \/ \E p \in Post, st \in Step \cup {None} : asset[<<p, st>>] > 0 /\ source \in {p, st}

Indexed == chunk # None /\ chunk.version = Now

\* The index of a source never goes back to an older version, whatever
\* executions overlap (replaceChunks).
IndexNeverGoesBack ==
    [][chunk # None /\ chunk' # None => chunk'.version >= chunk.version]_vars

\* A source that search cannot find because its version has moved on has an
\* open event that will index it, unless its job was given up, a proposal
\* moved the course on without an event for it, or its captions were written
\* again by an execution whose event had asked for the index before.
StaleIsQueued == Readable => Indexed \/ Awaited \/ abandoned \/ skipped \/ rewritten

\* The same without the exception for proposals: whatever changes the course
\* reindexes its steps (course-retrieval-outbox.e2e-spec.ts).  It does not hold:
\* see ApproveIntoCourse.
EveryStepIsQueued == Readable => Indexed \/ Awaited \/ abandoned \/ rewritten

\* The same without the exception for captions: the job asks for the index of
\* what it has written (video-asset.worker.ts).  It does not hold: see
\* WriteAsset.
EveryWriteIsQueued == Readable => Indexed \/ Awaited \/ abandoned \/ skipped

\* What the index still holds of a source that cannot be read any more has
\* an open event that will remove it, unless its job was given up.
GoneIsForgotten ==
    ~Readable /\ chunk # None => abandoned \/ \E e \in Version : index[e] > 0

\* The audience search serves a chunk to is the one its source has now.
ServedAsShown == Readable /\ Indexed => chunk.public = Public

Leaves(st) == st \in Steps /\ step'[st].place = "out"

\* A step leaves the course only by a client that has seen it there.
NothingUnseenIsRemoved ==
    [][Leaves(source) => given' \in listed]_vars
=============================================================================
