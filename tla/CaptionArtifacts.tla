-------------------------- MODULE CaptionArtifacts --------------------------
(***************************************************************************)
(* The captions of one video: the jobs that fetch or transcribe them, the  *)
(* live sessions in which a browser sends audio while the video plays, and *)
(* the pointers by which the video and the study contexts of its learners  *)
(* choose what is shown.                                                   *)
(*                                                                         *)
(* A caption artifact is identified by its event and kind: a work's event  *)
(* or a live session, and "caption" (found), "speech" (transcribed) or     *)
(* "translation".  Captions are written in batches that can be seen before *)
(* the artifact is published.  A word stands for the text of a batch.      *)
(*                                                                         *)
(* A job holds the claim of its work while it is at anything but "waiting" *)
(* or "over": every statement below tests the token, so an execution that  *)
(* has lost its claim changes nothing, and Fails stands for its end.       *)
(***************************************************************************)
EXTENDS Naturals, Sequences, FiniteSets, FiniteSetsExt

CONSTANTS
    Work,       \* works reserved for the video (ids of their events)
    Session,    \* live caption sessions
    Context,    \* study contexts of the video, one per learner
    Word,       \* texts of a batch
    Answer,     \* what a provider may answer: sequences of words
    MaxRuns,    \* attempts of a job
    MaxIntakes, \* bound: requests in the middle of attachContext at a time
    Null

SourceKind == {"caption", "speech"}
Artifact == (Work \X (SourceKind \cup {"translation"}))
                \cup (Session \X {"speech", "translation"})

ASSUME CaptionConstants ==
    /\ IsFiniteSet(Work) /\ IsFiniteSet(Session)
    /\ Work \cap Session = {}
    /\ Null \notin Artifact \cup Context \cup Word
    /\ Answer \subseteq Seq(Word) \ {<<>>}
    /\ IsFiniteSet(Answer)
    /\ MaxRuns \in Nat \ {0} /\ MaxIntakes \in Nat \ {0}

(* Batches are numbered as far as any answer reaches.                      *)
Ordinal == UNION {DOMAIN a : a \in Answer}

VARIABLES
    captions,   \* caption_artifacts, generation_states and segments
    video,      \* video_sources.current_source_caption_artifact_id
    shown,      \* the two pointers of every study context
    indexed,    \* pointers for which a context's indexing was last requested
    work,       \* state of provider_work_reservations
    subscribed, \* state of the subscription of each context to each work
    attached,   \* works to which a context's subscription is attached
    attaching,  \* contexts in the middle of attachContext
    owner,      \* context of a live session
    run         \* execution of the job of each work

artifactVars == <<captions, video, shown, indexed, work, subscribed, attached,
                  attaching, owner, run>>

Pointer == Artifact \cup {Null}
Shown == [source : Pointer, translation : Pointer]
Nothing == [source |-> Null, translation |-> Null]

Place == {"waiting", "creating", "appending", "publishing", "pending",
          "failing", "committing", "announcing", "over"}
Part == {"source", "translation"}

(* What an execution remembers: its attempt, the kind of its source, the answer, whether *)
(* a translation came with it ("alone": none is needed, "missing": one      *)
(* would be), which of the two it is writing and the batches written.       *)
Idle == [attempt |-> 0, at |-> "waiting", kind |-> "caption", words |-> <<>>,
         needs |-> "alone", part |-> "source", written |-> 0]
CaptionJob == [attempt : 0 .. MaxRuns, at : Place, kind : SourceKind, words : Answer \cup {<<>>},
        needs : {"alone", "missing", "translated"}, part : Part, written : Nat]

Absent == [generation |-> 0, status |-> "absent", parent |-> Null,
           segment |-> [o \in Ordinal |-> Null]]

Row == [generation : 0 .. Cardinality(Artifact),
        status : {"absent", "pending", "partial", "ready"},
        parent : Pointer, segment : [Ordinal -> Word \cup {Null}]]

(* Those that were created; their generations are counted without a gap.   *)
Rows(table) == {a \in Artifact : table[a].status # "absent"}
Counted(table) == {table[a].generation : a \in Rows(table)} = 1 .. Cardinality(Rows(table))

CaptionsTypeOK ==
    /\ captions \in [Artifact -> Row]
    /\ Counted(captions)
    /\ video \in Pointer
    /\ shown \in [Context -> Shown]
    /\ indexed \in [Context -> Shown \cup {Null}]
    /\ work \in [Work -> {"reserved", "committed", "released"}]
    /\ subscribed \in [Work -> [Context ->
          {"none", "reserved", "committed", "released"}]]
    /\ attached \in [Context -> SUBSET Work]
    /\ attaching \in [Context ->
          [work : Work, seen : Pointer] \cup {Null}]
    /\ owner \in [Session -> Context \cup {Null}]
    /\ run \in [Work -> CaptionJob]

CaptionsInit ==
    /\ captions = [a \in Artifact |-> Absent]
    /\ video = Null
    /\ shown = [c \in Context |-> Nothing]
    /\ indexed = [c \in Context |-> Null]
    /\ work = [w \in Work |-> "reserved"]
    /\ \E first \in [Work -> Context] :
          subscribed = [w \in Work |-> [c \in Context |->
              IF c = first[w] THEN "reserved" ELSE "none"]]
    /\ attached = [c \in Context |-> {}]
    /\ attaching = [c \in Context |-> Null]
    /\ owner = [s \in Session |-> Null]
    /\ run = [w \in Work |-> Idle]

-----------------------------------------------------------------------------
(* Artifacts.                                                              *)

(* Generations are counted from 1; 0 stands for no artifact at all.        *)
GenerationIn(table, p) == IF p = Null THEN 0 ELSE table[p].generation
Generation(p) == GenerationIn(captions, p)
(* Mutant: whatever is published last is shown.                            *)
IsNewerAlways(a, p) == TRUE
IsNewer(a, p) == Generation(p) < captions[a].generation
IsAsNew(a, p) == Generation(p) <= captions[a].generation

(* Mutant: every kind counts its own generations.                          *)
CreatedPerKind(table, a, p) ==
    IF table[a].status # "absent" THEN table
    ELSE [table EXCEPT ![a] =
            [Absent EXCEPT !.generation = 1 + Cardinality({b \in Artifact :
                                b[2] = a[2] /\ table[b].status # "absent"}),
                           !.status = "pending", !.parent = p]]

(* The row of its event and kind, or a new generation of the video, under  *)
(* the advisory lock of the video.                                         *)
Created(table, a, p) ==
    IF table[a].status # "absent" THEN table
    ELSE [table EXCEPT ![a] =
            [Absent EXCEPT !.generation = 1 + Max({table[b].generation : b \in Artifact}),
                           !.status = "pending", !.parent = p]]
Started(r) == IF r.status = "pending" THEN [r EXCEPT !.status = "partial"] ELSE r

(* Mutant: the conflict is not noticed.                                    *)
FitsAnyway(a, o, t) == TRUE
(* A batch is inserted unless there is another text in its place.          *)
Fits(a, o, t) == captions[a].segment[o] \in {Null, t}
Appended(a, o, t) ==
    Started([captions[a] EXCEPT !.segment[o] =
                IF captions[a].segment[o] = Null THEN t ELSE @])

-----------------------------------------------------------------------------
(* Jobs.                                                                   *)

Active(w) ==
    /\ work[w] \in {"reserved", "committed"}
    /\ \E c \in Context : subscribed[w][c] \in {"reserved", "committed"}

(* The contexts whose learners wait for the work.                          *)
Audience(w) == {c \in Context : /\ subscribed[w][c] \in {"reserved", "committed"}
                                /\ w \in attached[c]}

Source(w) == <<w, run[w].kind>>
Current(w) == IF run[w].part = "source" THEN Source(w) ELSE <<w, "translation">>

JobAt(w, place) == run[w].at = place
Go(w, place) == run' = [run EXCEPT ![w].at = place]

(* An execution that has ended is recorded and the job over, or it is not  *)
(* and another attempt follows, unless it was the last.                    *)
Rests(w, place) ==
    run' = [run EXCEPT ![w] = [Idle EXCEPT !.attempt = run[w].attempt, !.at = place]]
Again(w) == Rests(w, IF run[w].attempt < MaxRuns THEN "waiting" ELSE "over")
Ends(w) == Rests(w, "over") \/ Again(w)

Stable == UNCHANGED <<work, subscribed, attached, attaching, owner>>
NoCaption == UNCHANGED <<captions, video, shown, indexed>>

(* An execution takes the claim and asks for captions, then, if there are  *)
(* none and transcription is approved, for a transcription; without either *)
(* the work fails.                                                         *)
Fetch(w) ==
    /\ JobAt(w, "waiting")
    /\ run[w].attempt < MaxRuns
    /\ \/ \E k \in SourceKind, a \in Answer, n \in {"alone", "missing", "translated"} :
             run' = [run EXCEPT ![w] =
                [Idle EXCEPT !.attempt = run[w].attempt + 1, !.at = "creating",
                             !.kind = k, !.words = a, !.needs = n]]
       \/ run' = [run EXCEPT ![w] =
                [Idle EXCEPT !.attempt = run[w].attempt + 1, !.at = "failing"]]
    /\ NoCaption /\ Stable

CreateGeneration(w) ==
    /\ JobAt(w, "creating")
    /\ Active(w)
    /\ LET p == IF run[w].part = "source" THEN Null ELSE Source(w)
       IN  captions' = Created(captions, Current(w), p)
    /\ run' = [run EXCEPT ![w].at = "appending", ![w].written = 0]
    /\ UNCHANGED <<video, shown, indexed>> /\ Stable

AppendSegments(w) ==
    /\ JobAt(w, "appending")
    /\ Active(w)
    /\ LET o == run[w].written + 1
           t == run[w].words[o]
       IN  /\ Fits(Current(w), o, t)
           /\ captions' = [captions EXCEPT ![Current(w)] = Appended(Current(w), o, t)]
           /\ run' = [run EXCEPT ![w].written = o,
                         ![w].at = IF o = Len(run[w].words) THEN "publishing" ELSE @]
    /\ UNCHANGED <<video, shown, indexed>> /\ Stable

(* updateCurrentPointer, for a source and for a translation.               *)
ShowSource(w, a) ==
    /\ IsNewer(a, video)
    /\ video' = a
    /\ shown' = [c \in Context |-> IF c \in Audience(w)
                    THEN [source |-> a, translation |-> Null] ELSE shown[c]]

Translatable(w, a) ==
    {c \in Audience(w) : /\ shown[c].source = captions[a].parent
                         /\ IsNewer(a, shown[c].translation)}
ShowTranslation(w, a) ==
    /\ Translatable(w, a) # {}
    /\ shown' = [c \in Context |-> IF c \in Translatable(w, a)
                    THEN [shown[c] EXCEPT !.translation = a] ELSE shown[c]]
    /\ UNCHANGED video

(* isCurrentPointer, for an artifact that was published before.            *)
IsShown(w, a) ==
    IF run[w].part = "source"
    THEN video = a /\ \E c \in Audience(w) : shown[c].source = a
    ELSE \E c \in Audience(w) : shown[c].translation = a

(* Mutant: a source is published by its pointer alone.                     *)
PublishedByPointer(a) ==
    captions' = [captions EXCEPT ![a].status =
                    IF a[2] = "translation" THEN "ready" ELSE @]

Published(a) == captions' = [captions EXCEPT ![a].status = "ready"]
(* Where a job goes after a part: on to the translation, or to the end.    *)
AfterPart(w) ==
    LET on == run[w].part = "source" /\ run[w].needs = "translated"
        end == IF run[w].needs = "missing" THEN "pending" ELSE "committing"
    IN  run' = [run EXCEPT ![w].at = IF on THEN "creating" ELSE end,
                           ![w].part = IF on THEN "translation" ELSE @,
                           ![w].written = 0]

PublishGeneration(w) ==
    /\ JobAt(w, "publishing")
    /\ Active(w)
    /\ LET a == Current(w)
       IN  \/ /\ captions[a].status = "ready"
              /\ IsShown(w, a)
              /\ UNCHANGED <<captions, video, shown>>
           \/ /\ captions[a].status = "partial"
              /\ IF run[w].part = "source" THEN ShowSource(w, a) ELSE ShowTranslation(w, a)
              /\ Published(a)
    /\ AfterPart(w)
    /\ UNCHANGED indexed /\ Stable

(* A statement that changes a subscription waits for the request that is   *)
(* attaching it.                                                           *)
Unlocked(w) == \A c \in {d \in Context : attaching[d] # Null} : attaching[c].work # w

SettledAs(w, s) ==
    /\ work' = [work EXCEPT ![w] = s]
    /\ subscribed' = [subscribed EXCEPT ![w] = [c \in Context |->
           IF @[c] = "reserved" THEN s ELSE @[c]]]

(* commitWork; work that is settled already is left alone.                 *)
CommitWork(w) ==
    /\ JobAt(w, "committing")
    /\ Unlocked(w)
    /\ IF work[w] = "reserved" THEN SettledAs(w, "committed")
                               ELSE UNCHANGED <<work, subscribed>>
    /\ Go(w, "announcing")
    /\ UNCHANGED <<captions, video, shown, indexed, attached, attaching, owner>>

(* failGeneration, without captions or on the last attempt without a       *)
(* translation.                                                            *)
FailGeneration(w) ==
    /\ \/ JobAt(w, "failing")
       \/ JobAt(w, "pending") /\ run[w].attempt = MaxRuns
    /\ Unlocked(w)
    /\ IF work[w] = "reserved" THEN SettledAs(w, "released")
                               ELSE UNCHANGED <<work, subscribed>>
    /\ Ends(w)
    /\ UNCHANGED <<captions, video, shown, indexed, attached, attaching, owner>>

(* The retrieval events of the contexts that show what the job has made.   *)
Result(w) == IF run[w].needs = "translated" THEN <<w, "translation">> ELSE Source(w)
Announced(w) ==
    {c \in Context : /\ subscribed[w][c] = "committed" /\ w \in attached[c]
                     /\ work[w] = "committed"
                     /\ Result(w) = IF shown[c].translation = Null
                                    THEN shown[c].source ELSE shown[c].translation}
Announce(w) ==
    /\ JobAt(w, "announcing")
    /\ indexed' = [c \in Context |-> IF c \in Announced(w) THEN shown[c] ELSE indexed[c]]
    /\ Ends(w)
    /\ UNCHANGED <<captions, video, shown>> /\ Stable

(* An error, a lost lease or a crash at any place, whether or not the last *)
(* statement took effect: another attempt, or none is left.                *)
Fails(w) ==
    /\ run[w].at \notin {"waiting", "over"}
    /\ Again(w)
    /\ NoCaption /\ Stable

-----------------------------------------------------------------------------
(* Requests: reserve and attachContext, as far as they matter to the       *)
(* captions; ProviderBudget has the rest, and what takes it all back.      *)

Join(w, c) ==
    /\ work[w] \in {"reserved", "committed"}
    /\ subscribed[w][c] = "none"
    /\ subscribed' = [subscribed EXCEPT ![w][c] = "reserved"]
    /\ NoCaption /\ UNCHANGED <<work, attached, attaching, owner, run>>

(* The first two statements of attachContext: the subscription is locked,  *)
(* and the pointer of the video is read before the row of the context is   *)
(* waited for.  A context is attached to one reserved subscription.        *)
AttachRead(w, c) ==
    /\ attaching[c] = Null
    /\ Cardinality({d \in Context : attaching[d] # Null}) < MaxIntakes
    /\ work[w] \in {"reserved", "committed"}
    /\ subscribed[w][c] \in {"reserved", "committed"}
    /\ \/ work[w] = "committed"
       \/ {v \in attached[c] \ {w} : subscribed[v][c] = "reserved"} = {}
    /\ attaching' = [attaching EXCEPT ![c] = [work |-> w, seen |-> video]]
    /\ NoCaption /\ UNCHANGED <<work, subscribed, attached, owner, run>>

(* The newest published translation of what the video shows now.           *)
Translations == {a \in Artifact : /\ a[2] = "translation"
                                  /\ captions[a].status = "ready"
                                  /\ captions[a].parent = video}
Best == IF video = Null \/ Translations = {} THEN Null
        ELSE CHOOSE a \in Translations : \A b \in Translations :
                 captions[b].generation <= captions[a].generation

AttachWrite(c) ==
    /\ attaching[c] # Null
    /\ LET w == attaching[c].work
       IN  /\ subscribed' = [subscribed EXCEPT ![w][c] =
                                IF work[w] = "committed" THEN "committed" ELSE @]
           /\ attached' = [attached EXCEPT ![c] = @ \cup {w}]
    /\ shown' = [shown EXCEPT ![c] = [source |-> attaching[c].seen, translation |-> Best]]
    /\ attaching' = [attaching EXCEPT ![c] = Null]
    /\ UNCHANGED <<captions, video, indexed, work, owner, run>>

-----------------------------------------------------------------------------
(* Live captions.                                                          *)

(* appendChunk: a chunk that the browser sends again after its text was    *)
(* stored is answered without this call, but two of the same number that   *)
(* overlap are both transcribed, and the later text stays.                 *)
AppendChunk(s, c, o, t, korean) ==
    /\ owner[s] \in {Null, c}
    /\ owner' = [owner EXCEPT ![s] = c]
    /\ LET src == <<s, "speech">>
           trn == <<s, "translation">>
           Stored(table, x) ==
               [table EXCEPT ![x] = Started([@ EXCEPT !.segment[o] = t])]
           made == Created(captions, src, Null)
           heard == Stored(made, src)
       IN  captions' = IF korean THEN Stored(Created(heard, trn, src), trn) ELSE heard
    /\ UNCHANGED <<video, shown, indexed, work, subscribed, attached, attaching, run>>

(* Mutant: only a video without captions shows those of a session.         *)
VideoShowsFirst(src) == IF video = Null THEN src ELSE video
VideoShows(src) == IF IsAsNew(src, video) THEN src ELSE video

(* finalize: both artifacts become ready; the video and the context of the *)
(* session show them unless they show something newer.                     *)
Finalize(s) ==
    LET src == <<s, "speech">>
        trn == <<s, "translation">>
        has == captions[trn].status # "absent"
        c == owner[s]
        now == [source |-> src, translation |-> IF has THEN trn ELSE Null]
        taken == IsAsNew(src, shown[c].source)
    IN  /\ c # Null
        /\ captions' = [a \in Artifact |->
               IF a = src \/ (a = trn /\ has) THEN [captions[a] EXCEPT !.status = "ready"]
               ELSE captions[a]]
        /\ video' = VideoShows(src)
        /\ shown' = IF taken THEN [shown EXCEPT ![c] = now] ELSE shown
        /\ indexed' = IF taken THEN [indexed EXCEPT ![c] = now] ELSE indexed
        /\ UNCHANGED <<work, subscribed, attached, attaching, owner, run>>

-----------------------------------------------------------------------------
JobStep(w) == \/ Fetch(w) \/ CreateGeneration(w) \/ AppendSegments(w)
              \/ PublishGeneration(w) \/ CommitWork(w) \/ FailGeneration(w)
              \/ Announce(w) \/ Fails(w)

Intake == \E c \in Context : \/ AttachWrite(c)
                             \/ \E w \in Work : Join(w, c) \/ AttachRead(w, c)

Live == \E s \in Session :
           \/ Finalize(s)
           \/ \E c \in Context, o \in Ordinal, t \in Word, korean \in BOOLEAN :
                 AppendChunk(s, c, o, t, korean)

CaptionsNext == (\E w \in Work : JobStep(w)) \/ Intake \/ Live

CaptionsSpec == CaptionsInit /\ [][CaptionsNext]_artifactVars

-----------------------------------------------------------------------------
(* Properties.                                                             *)

(* The captions a video shows are never replaced by older ones, although   *)
(* jobs and live sessions write at their own pace and end in any order     *)
(* (updateCurrentPointer, finalize).                                       *)
VideoNeverGoesBack ==
    [][Generation(video) <= Generation(video)']_artifactVars

(* No learner is shown captions newer than those of the video: the update  *)
(* of the contexts by a job, which compares no generation, would otherwise *)
(* take them back (postgres-caption-artifact.repository.ts:421).           *)
ContextNeverAhead ==
    \A c \in Context : Generation(shown[c].source) <= Generation(video)

(* What the video or a learner is shown has been published, and is         *)
(* captions where captions are expected and a translation where one is.    *)
ShownIsReady ==
    /\ video # Null => captions[video].status = "ready" /\ video[2] \in SourceKind
    /\ \A c \in Context :
          /\ shown[c].source # Null => captions[shown[c].source].status = "ready"
          /\ shown[c].translation # Null =>
                /\ captions[shown[c].translation].status = "ready"
                /\ shown[c].translation[2] = "translation"

(* An execution that goes on from the publication of an artifact has       *)
(* published the words it was answered, batch for batch, whatever earlier  *)
(* executions of the job had been answered and written.                    *)
PublishedAsAnswered ==
    \A w \in Work : \A part \in Part :
        LET a == IF part = "source" THEN Source(w) ELSE <<w, "translation">>
            done == \/ run[w].at \in {"committing", "announcing", "pending"}
                          /\ (part = "source" \/ run[w].part = "translation")
                    \/ part = "source" /\ run[w].part = "translation"
        IN  done => \A o \in DOMAIN run[w].words :
                       captions[a].segment[o] = run[w].words[o]

(* Published captions are never changed any more.  It does not hold: see   *)
(* PublishGeneration, after which a retry may append, and AppendChunk.     *)
ReadyIsFinal ==
    [][\A a \in Artifact : captions[a].status = "ready"
                              => captions'[a].segment = captions[a].segment]_artifactVars

-----------------------------------------------------------------------------
(***************************************************************************)
(* Why it does: the inductive invariant the proofs rest on.                *)
(***************************************************************************)

(* What the rows of a table say of their artifacts: a translation was      *)
(* created after the captions of its job or session that it translates.    *)
LineageIn(table) ==
    \A a \in Artifact :
        /\ a \notin Rows(table) => table[a].generation = 0
        /\ a \in Rows(table) /\ a[2] = "translation" =>
              LET p == table[a].parent
              IN  /\ p \in Rows(table) /\ p[1] = a[1] /\ p[2] \in SourceKind
                  /\ table[p].generation < table[a].generation

(* What is shown as captions, or as a translation, has been published.     *)
IsSource(table, p) == p # Null => table[p].status = "ready" /\ p[2] \in SourceKind
IsTranslation(table, p) == p # Null => table[p].status = "ready" /\ p[2] = "translation"

(* Captions that the video v shows or has shown before.                    *)
SeenOf(table, v, p) ==
    IsSource(table, p) /\ GenerationIn(table, p) <= GenerationIn(table, v)

(* What a request has read of the video may have been replaced since.      *)
ContextInOrder(table, v, s, request) ==
    /\ SeenOf(table, v, s.source)
    /\ IsTranslation(table, s.translation)
    /\ s.translation # Null =>
          GenerationIn(table, s.source) < GenerationIn(table, s.translation)
    /\ request # Null => SeenOf(table, v, request.seen)

PointersInOrder ==
    /\ IsSource(captions, video)
    /\ \A c \in Context : ContextInOrder(captions, video, shown[c], attaching[c])

(* A session belongs to a learner once it has a chunk.                     *)
SessionsHaveCaptions ==
    \A s \in Session : owner[s] # Null => <<s, "speech">> \in Rows(captions)

(* The first n batches of an artifact are those of an answer.              *)
Holds(table, a, words, n) ==
    a \in Rows(table) /\ \A o \in 1 .. n : table[a].segment[o] = words[o]

(* An execution r of w that writes has an answer, has written what it says *)
(* and has finished the source before it goes on to the translation.       *)
RunInOrder(table, w, r) ==
    LET source == <<w, r.kind>>
        current == IF r.part = "source" THEN source ELSE <<w, "translation">>
        ended == r.at \in {"pending", "committing", "announcing"}
    IN  /\ ended \/ r.at \in {"creating", "appending", "publishing"} => r.words \in Answer
        /\ r.at = "appending" => r.written < Len(r.words)
        /\ r.at = "publishing" => r.written = Len(r.words)
        /\ r.at \in {"appending", "publishing"} => Holds(table, current, r.words, r.written)
        /\ r.part = "translation" => Holds(table, source, r.words, Len(r.words))
        /\ ended => Holds(table, current, r.words, Len(r.words))

CaptionsInv ==
    /\ CaptionsTypeOK /\ LineageIn(captions) /\ PointersInOrder
    /\ SessionsHaveCaptions
    /\ \A w \in Work : RunInOrder(captions, w, run[w])
=============================================================================
