------------------------- MODULE StudyContext_proofs -------------------------
(***************************************************************************)
(* Proofs about what a learner's study context shows and is given: the     *)
(* captions of its video, for any works, sessions, learners and answers,   *)
(* the material generated for them, for any set of materials and slots and *)
(* every value of the limits, and how the two fit together.                *)
(***************************************************************************)
EXTENDS StudyContext, FiniteSetTheorems, WellFoundedInduction, TLAPS

-----------------------------------------------------------------------------
(***************************************************************************)
(* The table of captions, for any works and sessions.                      *)
(***************************************************************************)
TableOK(table) ==
    /\ table \in [Artifact -> Row]
    /\ Counted(table)
    /\ LineageIn(table)

\* Rows stay, with their generation and parent, and what is published is so
\* for good.
Onwards(t, u) ==
    \A a \in Rows(t) :
        /\ a \in Rows(u)
        /\ u[a].generation = t[a].generation
        /\ u[a].parent = t[a].parent
        /\ t[a].status = "ready" => u[a].status = "ready"

LEMMA ArtifactKinds ==
    /\ \A w \in Work : \A k \in SourceKind \cup {"translation"} : <<w, k>> \in Artifact
    /\ \A s \in Session : \A k \in {"speech", "translation"} : <<s, k>> \in Artifact
    /\ \A w \in Work, s \in Session : \A k, l : <<w, k>> # <<s, l>>
    /\ "translation" \notin SourceKind /\ "speech" \in SourceKind
    /\ Null \notin Artifact
<1>1. \A w \in Work, s \in Session : \A k, l : <<w, k>> # <<s, l>>
  BY CaptionConstants
<1>2. Null \notin Artifact
  BY CaptionConstants
<1> QED BY <1>1, <1>2 DEF Artifact, SourceKind

LEMMA ArtifactsAreFinite ==
    IsFiniteSet(Artifact) /\ Cardinality(Artifact) \in Nat
<1>1. IsFiniteSet({"speech", "translation"})
  <2>1. IsFiniteSet({} \cup {"speech"})
    BY FS_EmptySet, FS_AddElement
  <2>2. IsFiniteSet(({} \cup {"speech"}) \cup {"translation"})
    BY ONLY <2>1, FS_AddElement
  <2>3. ({} \cup {"speech"}) \cup {"translation"} = {"speech", "translation"}
    OBVIOUS
  <2> QED BY <2>2, <2>3
<1>2. IsFiniteSet(SourceKind \cup {"translation"})
  <2>1. IsFiniteSet({"speech", "translation"} \cup {"caption"})
    BY <1>1, FS_AddElement
  <2>2. {"speech", "translation"} \cup {"caption"} = SourceKind \cup {"translation"}
    BY DEF SourceKind
  <2> QED BY <2>1, <2>2
<1>3. IsFiniteSet(Work \X (SourceKind \cup {"translation"}))
  BY <1>2, CaptionConstants, FS_Product
<1>4. IsFiniteSet(Session \X {"speech", "translation"})
  BY <1>1, CaptionConstants, FS_Product
<1>5. IsFiniteSet(Artifact)
  BY <1>3, <1>4, FS_Union DEF Artifact
<1> QED BY <1>5, FS_CardinalityType

LEMMA RowsAreFinite ==
    ASSUME NEW table
    PROVE  /\ IsFiniteSet(Rows(table)) /\ Rows(table) \subseteq Artifact
           /\ Cardinality(Rows(table)) \in Nat
           /\ Cardinality(Rows(table)) <= Cardinality(Artifact)
<1>1. Rows(table) \in SUBSET Artifact
  BY DEF Rows
<1>2. IsFiniteSet(Rows(table)) /\ Cardinality(Rows(table)) <= Cardinality(Artifact)
  BY <1>1, ArtifactsAreFinite, FS_Subset
<1> QED BY <1>1, <1>2, FS_CardinalityType

\* The greatest generation is the number of rows.
LEMMA LastGeneration ==
    ASSUME NEW table, TableOK(table), NEW a \in Artifact
    PROVE  Max({table[b].generation : b \in Artifact}) = Cardinality(Rows(table))
<1> DEFINE n == Cardinality(Rows(table))
           all == {table[b].generation : b \in Artifact}
<1>1. n \in Nat /\ Rows(table) \subseteq Artifact
  BY RowsAreFinite
<1>2. {table[b].generation : b \in Rows(table)} = 1 .. n
  BY DEF TableOK, Counted
<1>3. \A b \in Artifact : b \notin Rows(table) => table[b].generation = 0
  BY DEF TableOK, LineageIn
<1> HIDE DEF n
<1>4. \A y \in all : y \in Nat /\ y <= n
  <2> SUFFICES ASSUME NEW b \in Artifact
               PROVE  table[b].generation \in Nat /\ table[b].generation <= n
    OBVIOUS
  <2>1. CASE b \in Rows(table)
    <3>1. table[b].generation \in 1 .. n
      BY <1>2, <2>1
    <3> QED BY <1>1, <3>1
  <2>2. CASE b \notin Rows(table)
    BY <1>1, <1>3, <2>2
  <2> QED BY <2>1, <2>2
<1>5. n \in all
  <2>1. CASE n = 0
    <3>1. a \notin Rows(table)
      <4>1. SUFFICES ASSUME a \in Rows(table) PROVE FALSE
        OBVIOUS
      <4>2. table[a].generation \in 1 .. n
        BY <1>2, <4>1
      <4> QED BY <2>1, <4>2
    <3>2. table[a].generation = 0
      BY <1>3, <3>1
    <3> QED BY <2>1, <3>2
  <2>2. CASE n # 0
    <3>1. n \in 1 .. n
      BY <1>1, <2>2
    <3>2. n \in {table[b].generation : b \in Rows(table)}
      BY <1>2, <3>1
    <3> QED BY <1>1, <3>2
  <2> QED BY <2>1, <2>2
<1> HIDE DEF all
<1>6. \A y \in all : n >= y
  BY <1>1, <1>4
<1>7. \A x \in all : (\A y \in all : x >= y) => x = n
  BY <1>1, <1>4, <1>5
<1>8. Max(all) = n
  BY <1>5, <1>6, <1>7 DEF Max
<1> QED BY <1>8 DEF all, n

LEMMA WrittenTable ==
    ASSUME NEW table, TableOK(table), NEW u \in [Artifact -> Row], Rows(u) = Rows(table),
           \A a \in Artifact : /\ u[a].generation = table[a].generation
                               /\ u[a].parent = table[a].parent
    PROVE  TableOK(u)
<1>1. Counted(u)
  <2>1. {u[a].generation : a \in Rows(u)} = {table[a].generation : a \in Rows(table)}
    BY RowsAreFinite
  <2> QED BY <2>1 DEF TableOK, Counted
<1>2. LineageIn(u)
  <2> SUFFICES ASSUME NEW a \in Artifact
               PROVE  /\ a \notin Rows(u) => u[a].generation = 0
                      /\ a \in Rows(u) /\ a[2] = "translation" =>
                            /\ u[a].parent \in Rows(u) /\ u[a].parent[1] = a[1]
                            /\ u[a].parent[2] \in SourceKind
                            /\ u[u[a].parent].generation < u[a].generation
    BY DEF LineageIn
  <2>1. /\ a \notin Rows(table) => table[a].generation = 0
        /\ a \in Rows(table) /\ a[2] = "translation" =>
              /\ table[a].parent \in Rows(table) /\ table[a].parent[1] = a[1]
              /\ table[a].parent[2] \in SourceKind
              /\ table[table[a].parent].generation < table[a].generation
    BY DEF TableOK, LineageIn
  <2>2. \A b \in Rows(table) : b \in Artifact
    BY RowsAreFinite
  <2> QED BY <2>1, <2>2
<1> QED BY <1>1, <1>2 DEF TableOK

\* What an artifact can be made from.
CanMake(table, a, p) ==
    /\ a \in Artifact /\ p \in Pointer
    /\ a[2] = "translation" => p \in Rows(table) /\ p[1] = a[1] /\ p[2] \in SourceKind

\* A new row comes after all others.
LEMMA CreatedTable ==
    ASSUME NEW table, TableOK(table), NEW a, NEW p, CanMake(table, a, p)
    PROVE  /\ TableOK(Created(table, a, p))
           /\ Rows(Created(table, a, p)) = Rows(table) \cup {a}
           /\ \A b \in Rows(table) : Created(table, a, p)[b] = table[b]
<1> DEFINE n == Cardinality(Rows(table))
           u == Created(table, a, p)
<1>1. CASE a \in Rows(table)
  <2>1. u = table
    BY <1>1 DEF Created, Rows
  <2> QED BY <1>1, <2>1
<1>2. CASE a \notin Rows(table)
  <2> DEFINE made == [Absent EXCEPT !.generation = 1 + n, !.status = "pending", !.parent = p]
  <2>0. a \in Artifact /\ p \in Pointer
    BY DEF CanMake
  <2>1. u = [table EXCEPT ![a] = made]
    BY <1>2, <2>0, LastGeneration DEF Created, Rows
  <2>2. n \in Nat /\ IsFiniteSet(Rows(table)) /\ Rows(table) \subseteq Artifact
    BY RowsAreFinite
  <2>3. /\ made.generation = 1 + n /\ made.status = "pending" /\ made.parent = p
        /\ made.segment = [o \in Ordinal |-> Null]
    BY DEF Absent
  <2>4. Cardinality(Rows(table) \cup {a}) = n + 1
    BY <1>2, <2>2, FS_AddElement
  <2>5. n + 1 <= Cardinality(Artifact)
    <3>1. Rows(table) \cup {a} \in SUBSET Artifact
      BY <2>0, <2>2
    <3> QED BY <2>4, <3>1, ArtifactsAreFinite, FS_Subset
  <2>6. made \in Row
    <3>1. 1 + n \in 0 .. Cardinality(Artifact)
      BY <2>2, <2>5, ArtifactsAreFinite
    <3> QED BY <2>0, <3>1 DEF Row, Absent
  <2> HIDE DEF made, u, n
  <2>7. table \in [Artifact -> Row]
    BY DEF TableOK
  <2>8. u \in [Artifact -> Row]
    BY <2>0, <2>1, <2>6, <2>7
  <2>9. u[a] = made /\ \A b \in Artifact : b # a => u[b] = table[b]
    BY <2>0, <2>1, <2>7
  <2>10. Rows(u) = Rows(table) \cup {a}
    BY <2>0, <2>3, <2>9 DEF Rows
  <2>11. \A b \in Rows(table) : u[b] = table[b]
    BY <1>2, <2>2, <2>9
  <2>12. {table[b].generation : b \in Rows(table)} = 1 .. n
    BY DEF TableOK, Counted, n
  <2>13. Counted(u)
    <3>1. {u[b].generation : b \in Rows(u)} = (1 .. n) \cup {1 + n}
      BY <2>3, <2>9, <2>10, <2>11, <2>12
    <3>2. (1 .. n) \cup {1 + n} = 1 .. (n + 1)
      BY <2>2
    <3> QED BY <2>4, <2>10, <3>1, <3>2 DEF Counted
  <2>14. LineageIn(u)
    <3>1. \A b \in Rows(table) : table[b].generation \in Nat /\ table[b].generation < 1 + n
      <4>1. \A b \in Rows(table) : table[b].generation \in 1 .. n
        BY <2>12
      <4> QED BY <2>2, <4>1
    <3> SUFFICES ASSUME NEW b \in Artifact
                 PROVE  /\ b \notin Rows(u) => u[b].generation = 0
                        /\ b \in Rows(u) /\ b[2] = "translation" =>
                              /\ u[b].parent \in Rows(u) /\ u[b].parent[1] = b[1]
                              /\ u[b].parent[2] \in SourceKind
                              /\ u[u[b].parent].generation < u[b].generation
      BY DEF LineageIn
    <3>2. CASE b = a
      <4>1. a[2] = "translation" => p \in Rows(table) /\ p[1] = a[1] /\ p[2] \in SourceKind
        BY DEF CanMake
      <4>2. a[2] = "translation" => u[p].generation < 1 + n
        BY <2>11, <3>1, <4>1
      <4> QED BY <2>3, <2>9, <2>10, <3>2, <4>1, <4>2
    <3>3. CASE b # a
      <4>1. /\ b \notin Rows(table) => table[b].generation = 0
            /\ b \in Rows(table) /\ b[2] = "translation" =>
                  /\ table[b].parent \in Rows(table) /\ table[b].parent[1] = b[1]
                  /\ table[b].parent[2] \in SourceKind
                  /\ table[table[b].parent].generation < table[b].generation
        BY DEF TableOK, LineageIn
      <4>2. u[b] = table[b] /\ (b \in Rows(u) <=> b \in Rows(table))
        BY <2>9, <2>10, <3>3
      <4> QED BY <2>10, <2>11, <4>1, <4>2
    <3> QED BY <3>2, <3>3
  <2> QED BY <2>8, <2>10, <2>11, <2>13, <2>14 DEF TableOK, u
<1> QED BY <1>1, <1>2

\* Words that a work has written are not written over.
KeptWords(t, u) ==
    \A w \in Work : \A k \in SourceKind \cup {"translation"} :
        <<w, k>> \in Rows(t) =>
            \A o \in Ordinal : t[<<w, k>>].segment[o] # Null =>
                u[<<w, k>>].segment[o] = t[<<w, k>>].segment[o]

\* What a step does to the table.
Moves == TableOK(captions') /\ Onwards(captions, captions') /\ KeptWords(captions, captions')

LEMMA CreatedMoves ==
    ASSUME TableOK(captions), NEW a, NEW p, CanMake(captions, a, p),
           captions' = Created(captions, a, p)
    PROVE  Moves /\ Rows(captions') = Rows(captions) \cup {a}
<1> DEFINE u == Created(captions, a, p)
<1>1. TableOK(u) /\ Rows(u) = Rows(captions) \cup {a} /\ \A b \in Rows(captions) : u[b] = captions[b]
  BY CreatedTable
<1> HIDE DEF u
<1>2. captions' = u
  BY DEF u
<1> QED BY <1>1, <1>2 DEF Moves, Onwards, KeptWords

\* A batch stored in a row.
Stored(table, a, o, t) == [table EXCEPT ![a] = Started([@ EXCEPT !.segment[o] = t])]

LEMMA StoredTable ==
    ASSUME NEW table, TableOK(table), NEW a \in Rows(table), NEW o \in Ordinal,
           NEW t \in Word \cup {Null}
    PROVE  /\ TableOK(Stored(table, a, o, t))
           /\ Rows(Stored(table, a, o, t)) = Rows(table)
           /\ Onwards(table, Stored(table, a, o, t))
           /\ \A b \in Artifact : b # a => Stored(table, a, o, t)[b] = table[b]
           /\ Stored(table, a, o, t)[a].segment[o] = t
           /\ \A i \in Ordinal : i # o =>
                 Stored(table, a, o, t)[a].segment[i] = table[a].segment[i]
<1> DEFINE u == Stored(table, a, o, t)
           new == [table[a] EXCEPT !.segment[o] = t]
           r == Started(new)
<1>1. a \in Artifact /\ table \in [Artifact -> Row] /\ table[a].status # "absent"
  BY DEF Rows, TableOK
<1>2. table[a] \in Row
  BY <1>1
<1>3. /\ new \in Row
      /\ new.generation = table[a].generation /\ new.parent = table[a].parent
      /\ new.status = table[a].status
      /\ new.segment = [table[a].segment EXCEPT ![o] = t]
  BY <1>2 DEF Row
<1>4. table[a].segment \in [Ordinal -> Word \cup {Null}]
  BY <1>2 DEF Row
<1> HIDE DEF new
<1>5. /\ r \in Row
      /\ r.generation = table[a].generation /\ r.parent = table[a].parent
      /\ r.segment = [table[a].segment EXCEPT ![o] = t]
      /\ r.status # "absent" /\ (table[a].status = "ready" => r.status = "ready")
  <2>1. CASE new.status = "pending"
    <3>1. r = [new EXCEPT !.status = "partial"]
      BY <2>1 DEF Started
    <3> QED BY <1>3, <2>1, <3>1 DEF Row
  <2>2. CASE new.status # "pending"
    <3>1. r = new
      BY <2>2 DEF Started
    <3> QED BY <1>1, <1>3, <3>1
  <2> QED BY <2>1, <2>2
<1>6. u = [table EXCEPT ![a] = r]
  BY DEF Stored, new
<1> HIDE DEF r, u
<1>7. u \in [Artifact -> Row] /\ u[a] = r /\ \A b \in Artifact : b # a => u[b] = table[b]
  BY <1>1, <1>5, <1>6
<1>8. Rows(u) = Rows(table)
  BY <1>1, <1>5, <1>7 DEF Rows
<1>9. \A b \in Artifact : u[b].generation = table[b].generation /\ u[b].parent = table[b].parent
  BY <1>5, <1>7
<1>10. TableOK(u)
  BY <1>7, <1>8, <1>9, WrittenTable
<1>11. Onwards(table, u)
  <2>1. \A b \in Rows(table) : b \in Artifact
    BY DEF Rows
  <2> QED BY <1>5, <1>7, <1>8, <1>9, <2>1 DEF Onwards
<1>12. u[a].segment[o] = t /\ \A i \in Ordinal : i # o => u[a].segment[i] = table[a].segment[i]
  BY <1>4, <1>5, <1>7
<1> QED BY <1>7, <1>8, <1>10, <1>11, <1>12 DEF u

LEMMA AppendedMoves ==
    ASSUME TableOK(captions), NEW a \in Rows(captions), NEW o \in Ordinal, NEW t \in Word,
           captions' = [captions EXCEPT ![a] = Appended(a, o, t)]
    PROVE  /\ Moves /\ Rows(captions') = Rows(captions)
           /\ Fits(a, o, t) => captions'[a].segment[o] = t
<1>1. PICK x \in Word \cup {Null} :
         x = IF captions[a].segment[o] = Null THEN t ELSE captions[a].segment[o]
  <2>1. captions[a] \in Row
    BY DEF Rows, TableOK
  <2> QED BY <2>1 DEF Row
<1>2. captions' = Stored(captions, a, o, x)
  <2>1. a \in DOMAIN captions
    BY DEF Rows, TableOK
  <2> QED BY <1>1, <2>1 DEF Appended, Stored
<1> DEFINE u == Stored(captions, a, o, x)
<1>3. /\ TableOK(u) /\ Rows(u) = Rows(captions) /\ Onwards(captions, u)
      /\ \A b \in Artifact : b # a => u[b] = captions[b]
      /\ u[a].segment[o] = x
      /\ \A i \in Ordinal : i # o => u[a].segment[i] = captions[a].segment[i]
  BY StoredTable
<1> HIDE DEF u
<1>4. captions' = u
  BY <1>2 DEF u
<1>5. KeptWords(captions, u)
  <2> SUFFICES ASSUME NEW b \in Rows(captions), NEW i \in Ordinal, captions[b].segment[i] # Null
               PROVE  u[b].segment[i] = captions[b].segment[i]
    BY DEF KeptWords
  <2>1. b \in Artifact
    BY DEF Rows
  <2>2. CASE b = a /\ i = o
    BY <1>1, <1>3, <2>2
  <2>3. CASE b # a \/ i # o
    BY <1>3, <2>1, <2>3
  <2> QED BY <2>2, <2>3
<1>6. Fits(a, o, t) => x = t
  BY <1>1 DEF Fits
<1> QED BY <1>3, <1>4, <1>5, <1>6 DEF Moves

\* Rows that are published.
LEMMA PublishedMoves ==
    ASSUME TableOK(captions), NEW S \in SUBSET Rows(captions),
           captions' = [a \in Artifact |-> IF a \in S THEN [captions[a] EXCEPT !.status = "ready"]
                                                      ELSE captions[a]]
    PROVE  /\ Moves /\ Rows(captions') = Rows(captions)
           /\ \A a \in S : captions'[a].status = "ready"
<1>1. captions \in [Artifact -> Row] /\ \A a \in S : a \in Artifact
  BY DEF Rows, TableOK
<1>2. \A a \in Artifact :
         /\ captions'[a] \in Row
         /\ captions'[a].generation = captions[a].generation
         /\ captions'[a].parent = captions[a].parent
         /\ captions'[a].segment = captions[a].segment
         /\ a \in S => captions'[a].status = "ready"
         /\ a \notin S => captions'[a].status = captions[a].status
  <2> SUFFICES ASSUME NEW a \in Artifact
               PROVE  /\ captions'[a] \in Row
                      /\ captions'[a].generation = captions[a].generation
                      /\ captions'[a].parent = captions[a].parent
                      /\ captions'[a].segment = captions[a].segment
                      /\ a \in S => captions'[a].status = "ready"
                      /\ a \notin S => captions'[a].status = captions[a].status
    OBVIOUS
  <2>1. captions[a] \in Row
    BY <1>1
  <2>2. captions'[a] = IF a \in S THEN [captions[a] EXCEPT !.status = "ready"] ELSE captions[a]
    OBVIOUS
  <2> QED BY <2>1, <2>2 DEF Row
<1>3. Rows(captions') = Rows(captions)
  BY <1>1, <1>2 DEF Rows
<1>4. captions' \in [Artifact -> Row]
  BY <1>2
<1>5. PICK u : u = captions'
  OBVIOUS
<1>6. TableOK(u)
  <2>1. u \in [Artifact -> Row] /\ Rows(u) = Rows(captions)
    BY <1>3, <1>4, <1>5
  <2>2. \A a \in Artifact : u[a].generation = captions[a].generation /\ u[a].parent = captions[a].parent
    BY <1>2, <1>5
  <2> QED BY <2>1, <2>2, WrittenTable
<1>7. Onwards(captions, u)
  <2>1. \A a \in Rows(captions) : a \in Artifact
    BY DEF Rows
  <2> QED BY <1>2, <1>3, <1>5, <2>1 DEF Onwards
<1>8. KeptWords(captions, u)
  BY <1>2, <1>5, ArtifactKinds DEF KeptWords
<1>9. Moves
  BY <1>5, <1>6, <1>7, <1>8 DEF Moves
<1> QED BY <1>1, <1>2, <1>3, <1>9

\* A chunk of a session is stored in a row of the session.
LEMMA ChunkTable ==
    ASSUME NEW table, TableOK(table), NEW a, NEW p, CanMake(table, a, p),
           NEW o \in Ordinal, NEW t \in Word
    PROVE  LET u == Stored(Created(table, a, p), a, o, t)
           IN  /\ TableOK(u) /\ Onwards(table, u) /\ a \in Rows(u)
               /\ \A b \in Rows(table) : b # a => u[b] = table[b]
<1> DEFINE m == Created(table, a, p)
           u == Stored(m, a, o, t)
<1>1. /\ TableOK(m) /\ Rows(m) = Rows(table) \cup {a}
      /\ \A b \in Rows(table) : m[b] = table[b]
  BY CreatedTable
<1> HIDE DEF m
<1>2. a \in Rows(m)
  BY <1>1
<1>3. /\ TableOK(u) /\ Rows(u) = Rows(m) /\ Onwards(m, u)
      /\ \A b \in Artifact : b # a => u[b] = m[b]
  BY <1>1, <1>2, StoredTable
<1> HIDE DEF u
<1>4. Onwards(table, u)
  BY <1>1, <1>3 DEF Onwards
<1>5. \A b \in Rows(table) : b # a => u[b] = table[b]
  BY <1>1, <1>3 DEF Rows
<1> QED BY <1>1, <1>3, <1>4, <1>5 DEF u, m

LEMMA AppendChunkMoves ==
    ASSUME TableOK(captions), NEW s \in Session, NEW c, NEW o \in Ordinal,
           NEW t \in Word, NEW korean, AppendChunk(s, c, o, t, korean)
    PROVE  Moves /\ <<s, "speech">> \in Rows(captions')
<1> DEFINE src == <<s, "speech">>
           trn == <<s, "translation">>
           heard == Stored(Created(captions, src, Null), src, o, t)
           both == Stored(Created(heard, trn, src), trn, o, t)
<1>1. captions' = IF korean THEN both ELSE heard
  BY DEF AppendChunk, Stored
<1>2. src \in Artifact /\ trn \in Artifact
  BY ArtifactKinds
<1>3. CanMake(captions, src, Null)
  BY <1>2 DEF CanMake, Pointer
<1>4. /\ TableOK(heard) /\ Onwards(captions, heard) /\ src \in Rows(heard)
      /\ \A b \in Rows(captions) : b # src => heard[b] = captions[b]
  BY <1>3, ChunkTable
<1> HIDE DEF heard
<1>5. CanMake(heard, trn, src)
  BY <1>2, <1>4, ArtifactKinds DEF CanMake, Pointer
<1>6. /\ TableOK(both) /\ Onwards(heard, both)
      /\ \A b \in Rows(heard) : b # trn => both[b] = heard[b]
  BY <1>4, <1>5, ChunkTable
<1> HIDE DEF both
<1>7. Onwards(captions, both) /\ src \in Rows(both)
  BY <1>4, <1>6 DEF Onwards
<1>8. \A b \in Rows(captions) : b # src /\ b # trn => both[b] = captions[b]
  <2>1. \A b \in Rows(captions) : b \in Rows(heard)
    BY <1>4 DEF Onwards
  <2> QED BY <1>4, <1>6, <2>1
<1> HIDE DEF src, trn
<1>9. \A w \in Work : \A k : <<w, k>> # src /\ <<w, k>> # trn
  BY ArtifactKinds DEF src, trn
<1>10. KeptWords(captions, heard) /\ KeptWords(captions, both)
  BY <1>4, <1>8, <1>9 DEF KeptWords
<1>11. PICK u : u = captions'
  OBVIOUS
<1>12. TableOK(u) /\ Onwards(captions, u) /\ KeptWords(captions, u) /\ src \in Rows(u)
  <2>1. CASE korean
    <3>1. u = both
      BY <1>1, <1>11, <2>1
    <3> QED BY <1>6, <1>7, <1>10, <3>1
  <2>2. CASE ~korean
    <3>1. u = heard
      BY <1>1, <1>11, <2>2
    <3> QED BY <1>4, <1>10, <3>1
  <2> QED BY <2>1, <2>2
<1> QED BY <1>11, <1>12 DEF Moves, src

\* Both artifacts of a session are published together.
LEMMA FinalizeMoves ==
    ASSUME TableOK(captions), SessionsHaveCaptions, NEW s \in Session, Finalize(s)
    PROVE  LET src == <<s, "speech">>
               trn == <<s, "translation">>
           IN  /\ Moves /\ Rows(captions') = Rows(captions)
               /\ src \in Rows(captions) /\ captions'[src].status = "ready"
               /\ captions[trn].status # "absent" =>
                     trn \in Rows(captions) /\ captions'[trn].status = "ready"
<1> DEFINE src == <<s, "speech">>
           trn == <<s, "translation">>
           both == {a \in Rows(captions) : a \in {src, trn}}
<1>1. src \in Rows(captions) /\ trn \in Artifact
  BY ArtifactKinds DEF Finalize, SessionsHaveCaptions
<1>2. captions[trn].status # "absent" <=> trn \in Rows(captions)
  BY <1>1 DEF Rows
<1>3. captions' = [a \in Artifact |-> IF a = src \/ (a = trn /\ captions[trn].status # "absent")
                                      THEN [captions[a] EXCEPT !.status = "ready"]
                                      ELSE captions[a]]
  BY DEF Finalize
<1> HIDE DEF src, trn
<1>4. captions' = [a \in Artifact |-> IF a \in both THEN [captions[a] EXCEPT !.status = "ready"]
                                                  ELSE captions[a]]
  BY <1>1, <1>2, <1>3
<1>5. both \in SUBSET Rows(captions)
  OBVIOUS
<1>6. src \in both /\ (trn \in Rows(captions) => trn \in both)
  BY <1>1
<1> HIDE DEF both
<1>7. /\ Moves /\ Rows(captions') = Rows(captions)
      /\ \A a \in both : captions'[a].status = "ready"
  BY <1>4, <1>5, PublishedMoves
<1> QED BY <1>1, <1>2, <1>6, <1>7 DEF src, trn

LEMMA PublishMoves ==
    ASSUME TableOK(captions), NEW a \in Rows(captions), Published(a)
    PROVE  Moves /\ Rows(captions') = Rows(captions) /\ captions'[a].status = "ready"
<1>1. captions \in [Artifact -> Row]
  BY DEF TableOK
<1>2. captions' = [b \in Artifact |-> IF b \in {a} THEN [captions[b] EXCEPT !.status = "ready"]
                                                 ELSE captions[b]]
  <2>1. captions' = [captions EXCEPT ![a].status = "ready"]
    BY DEF Published
  <2> QED BY <1>1, <2>1
<1>3. {a} \in SUBSET Rows(captions)
  OBVIOUS
<1> QED BY <1>2, <1>3, PublishedMoves

LEMMA SameTableMoves ==
    ASSUME TableOK(captions), UNCHANGED captions
    PROVE  Moves
<1>1. PICK u : u = captions
  OBVIOUS
<1>2. captions' = u
  BY <1>1
<1> QED BY <1>1, <1>2 DEF Moves, Onwards, KeptWords

-----------------------------------------------------------------------------
(***************************************************************************)
(* What is shown.                                                          *)
(***************************************************************************)
LEMMA GenerationsAreCounted ==
    ASSUME NEW t, TableOK(t), NEW p \in Pointer
    PROVE  GenerationIn(t, p) \in 0 .. Cardinality(Artifact) /\ GenerationIn(t, p) \in Nat
<1>1. 0 \in 0 .. Cardinality(Artifact)
  BY ArtifactsAreFinite
<1>2. p # Null => t[p].generation \in 0 .. Cardinality(Artifact)
  BY DEF TableOK, Row, Pointer
<1> QED BY <1>1, <1>2 DEF GenerationIn

LEMMA StillShown ==
    ASSUME NEW t, NEW u, Onwards(t, u), NEW p \in Pointer,
           IsSource(t, p) \/ IsTranslation(t, p)
    PROVE  /\ GenerationIn(u, p) = GenerationIn(t, p)
           /\ IsSource(t, p) => IsSource(u, p)
           /\ IsTranslation(t, p) => IsTranslation(u, p)
<1>1. CASE p = Null
  BY <1>1 DEF IsSource, IsTranslation, GenerationIn
<1>2. CASE p # Null
  <2>1. p \in Artifact /\ t[p].status = "ready"
    BY <1>2 DEF Pointer, IsSource, IsTranslation
  <2>2. p \in Rows(t)
    BY <2>1 DEF Rows
  <2>3. u[p].generation = t[p].generation /\ u[p].status = "ready"
    BY <2>1, <2>2 DEF Onwards
  <2> QED BY <1>2, <2>3 DEF IsSource, IsTranslation, GenerationIn
<1> QED BY <1>1, <1>2

\* A video that shows newer captions leaves a context in order.
LEMMA StillInOrder ==
    ASSUME NEW t, TableOK(t), NEW u, TableOK(u), Onwards(t, u),
           NEW v \in Pointer, NEW n \in Pointer,
           IsSource(t, v), GenerationIn(t, v) <= GenerationIn(u, n),
           NEW s \in Shown, NEW x, x # Null => x.seen \in Pointer,
           ContextInOrder(t, v, s, x)
    PROVE  ContextInOrder(u, n, s, x)
<1>1. s.source \in Pointer /\ s.translation \in Pointer
  BY DEF Shown
<1>2. \A p \in Pointer : SeenOf(t, v, p) => SeenOf(u, n, p)
  <2> SUFFICES ASSUME NEW p \in Pointer, SeenOf(t, v, p) PROVE SeenOf(u, n, p)
    OBVIOUS
  <2>1. IsSource(t, p) /\ GenerationIn(t, p) <= GenerationIn(t, v)
    BY DEF SeenOf
  <2>2. GenerationIn(u, p) = GenerationIn(t, p) /\ IsSource(u, p)
    BY <2>1, StillShown
  <2>3. GenerationIn(t, p) \in Nat /\ GenerationIn(t, v) \in Nat /\ GenerationIn(u, n) \in Nat
    BY GenerationsAreCounted
  <2> QED BY <2>1, <2>2, <2>3 DEF SeenOf
<1>3. SeenOf(t, v, s.source) /\ IsTranslation(t, s.translation)
  BY DEF ContextInOrder
<1>4. GenerationIn(u, s.source) = GenerationIn(t, s.source)
  BY <1>1, <1>3, StillShown DEF SeenOf
<1>5. /\ GenerationIn(u, s.translation) = GenerationIn(t, s.translation)
      /\ IsTranslation(u, s.translation)
  BY <1>1, <1>3, StillShown
<1>6. x # Null => SeenOf(u, n, x.seen)
  BY <1>2 DEF ContextInOrder
<1>7. SeenOf(u, n, s.source)
  BY <1>1, <1>2, <1>3
<1> QED BY <1>4, <1>5, <1>6, <1>7 DEF ContextInOrder

LEMMA Least ==
    ASSUME NEW T \in SUBSET Nat, T # {}
    PROVE  \E x \in T : \A y \in T : x <= y
<1> DEFINE R == OpToRel(<, Nat)
<1>1. IsWellFoundedOn(R, Nat)
  BY NatLessThanWellFounded
<1>2. \A a, b \in Nat : a < b => <<a, b>> \in R
  <2> SUFFICES ASSUME NEW a \in Nat, NEW b \in Nat, a < b PROVE <<a, b>> \in R
    OBVIOUS
  <2>1. <<a, b>> \in Nat \X Nat /\ <<a, b>>[1] < <<a, b>>[2]
    OBVIOUS
  <2> QED BY <2>1, Zenon DEF OpToRel
<1> HIDE DEF R
<1>3. PICK x \in T : \A y \in T : ~(<<y, x>> \in R)
  BY <1>1, WFMin
<1>4. \A y \in T : ~(y < x)
  BY <1>2, <1>3
<1> QED BY <1>3, <1>4

\* Among translations there is a newest one: the one that is chosen.
LEMMA BestTranslation ==
    ASSUME TableOK(captions), Best # Null
    PROVE  Best \in Translations
<1> DEFINE N == Cardinality(Artifact)
           age(a) == N - captions[a].generation
           ages == {age(a) : a \in Translations}
<1>1. Translations \subseteq Artifact /\ Translations # {}
  BY DEF Translations, Best
<1>2. N \in Nat /\ \A a \in Translations : captions[a].generation \in 0 .. N
  <2>1. \A a \in Translations : captions[a] \in Row
    BY <1>1 DEF TableOK
  <2> QED BY <2>1, ArtifactsAreFinite DEF Row
<1> HIDE DEF N
<1>3. ages \in SUBSET Nat /\ ages # {}
  BY <1>1, <1>2
<1>4. PICK x \in ages : \A y \in ages : x <= y
  BY <1>3, Least
<1>5. PICK a \in Translations : x = age(a)
  BY <1>4
<1>6. \A b \in Translations : captions[b].generation <= captions[a].generation
  <2> SUFFICES ASSUME NEW b \in Translations
               PROVE  captions[b].generation <= captions[a].generation
    OBVIOUS
  <2>1. age(a) <= age(b)
    BY <1>4, <1>5
  <2> QED BY <1>2, <2>1
<1>7. Best = CHOOSE b \in Translations : \A d \in Translations :
                captions[d].generation <= captions[b].generation
  BY DEF Best
<1> QED BY <1>6, <1>7

-----------------------------------------------------------------------------
(***************************************************************************)
(* Steps that change what is shown.                                        *)
(***************************************************************************)
VideoRises ==
    /\ video' \in Pointer /\ IsSource(captions', video')
    /\ Generation(video) <= GenerationIn(captions', video')

Pointers ==
    /\ TableOK(captions) /\ video \in Pointer
    /\ shown \in [Context -> Shown]
    /\ attaching \in [Context -> [work : Work, seen : Pointer] \cup {Null}]
    /\ PointersInOrder

LEMMA InvHasPointers == CaptionsInv => Pointers
BY DEF CaptionsInv, CaptionsTypeOK, TableOK, Pointers

LEMMA OthersStayInOrder ==
    ASSUME Pointers, Moves, VideoRises, NEW c \in Context
    PROVE  ContextInOrder(captions', video', shown[c], attaching[c])
<1>1. PICK u, n : u = captions' /\ n = video'
  OBVIOUS
<1>2. TableOK(u) /\ Onwards(captions, u)
  BY <1>1 DEF Moves
<1>3. n \in Pointer /\ GenerationIn(captions, video) <= GenerationIn(u, n)
  BY <1>1 DEF VideoRises, Generation
<1>4. shown[c] \in Shown /\ (attaching[c] # Null => attaching[c].seen \in Pointer)
  BY DEF Pointers
<1>5. IsSource(captions, video) /\ ContextInOrder(captions, video, shown[c], attaching[c])
  BY DEF Pointers, PointersInOrder
<1>6. ContextInOrder(u, n, shown[c], attaching[c])
  <2>1. TableOK(captions) /\ video \in Pointer
    BY DEF Pointers
  <2> QED BY <1>2, <1>3, <1>4, <1>5, <2>1, StillInOrder
<1> QED BY <1>1, <1>6

LEMMA VideoStays ==
    ASSUME Pointers, Moves, UNCHANGED video
    PROVE  VideoRises
<1>1. PICK u : u = captions'
  OBVIOUS
<1>2. PICK p : p = video
  OBVIOUS
<1>3. p \in Pointer /\ IsSource(captions, p) /\ video' = p
  BY <1>2 DEF Pointers, PointersInOrder
<1>4. GenerationIn(u, p) = GenerationIn(captions, p) /\ IsSource(u, p)
  BY <1>1, <1>3, StillShown DEF Moves
<1>5. GenerationIn(captions, p) \in Nat
  BY <1>3, GenerationsAreCounted DEF Pointers
<1>6. GenerationIn(captions, p) <= GenerationIn(u, p)
  BY <1>4, <1>5
<1> QED BY <1>1, <1>2, <1>3, <1>4, <1>6 DEF VideoRises, Generation

LEMMA PointersStay ==
    ASSUME Pointers, Moves, UNCHANGED <<video, shown, attaching>>
    PROVE  PointersInOrder' /\ VideoRises
<1>1. VideoRises
  BY VideoStays
<1>2. \A c \in Context : ContextInOrder(captions', video', shown[c], attaching[c])
  BY <1>1, OthersStayInOrder
<1>3. \A c \in Context : ContextInOrder(captions', video', shown'[c], attaching'[c])
  BY <1>2
<1> QED BY <1>1, <1>3 DEF PointersInOrder, VideoRises

\* Captions that are published and newer than those of the video.
LEMMA ShowSourceStep ==
    ASSUME Pointers, NEW w \in Work, NEW a \in Rows(captions), a[2] \in SourceKind,
           Published(a), ShowSource(w, a), UNCHANGED attaching
    PROVE  Moves /\ VideoRises /\ PointersInOrder'
<1>1. Moves /\ captions'[a].status = "ready"
  BY PublishMoves DEF Pointers
<1>2. PICK u : u = captions'
  OBVIOUS
<1>3. a \in Artifact /\ a # Null
  BY ArtifactKinds DEF Rows
<1>4. u[a].generation = captions[a].generation
  BY <1>1, <1>2 DEF Moves, Onwards
<1>5. video' = a /\ Generation(video) < captions[a].generation
  BY DEF ShowSource, IsNewer
<1>6. captions[a].generation \in Nat /\ Generation(video) \in Nat
  <2>1. captions[a] \in Row
    BY <1>3 DEF Pointers, TableOK
  <2> QED BY <2>1, ArtifactsAreFinite, GenerationsAreCounted DEF Row, Pointers, Generation
<1>7. GenerationIn(u, a) = captions[a].generation /\ IsSource(u, a)
  BY <1>1, <1>2, <1>3, <1>4 DEF GenerationIn, IsSource
<1>8. VideoRises
  <2>1. Generation(video) <= GenerationIn(u, a)
    BY <1>5, <1>6, <1>7
  <2> QED BY <1>2, <1>3, <1>5, <1>7, <2>1 DEF VideoRises, Pointer
<1>9. ASSUME NEW c \in Context
      PROVE  ContextInOrder(captions', video', shown'[c], attaching'[c])
  <2>1. ContextInOrder(captions', video', shown[c], attaching[c])
    BY <1>1, <1>8, OthersStayInOrder
  <2>2. CASE c \in Audience(w)
    <3> DEFINE s == [source |-> a, translation |-> Null]
    <3>1. shown'[c] = s
      BY <2>2 DEF ShowSource
    <3>2. SeenOf(u, a, a)
      BY <1>6, <1>7 DEF SeenOf
    <3>3. s.source = a /\ s.translation = Null
      OBVIOUS
    <3> HIDE DEF s
    <3>4. ContextInOrder(u, a, shown[c], attaching[c])
      BY <1>2, <1>5, <2>1
    <3>5. ContextInOrder(u, a, s, attaching[c])
      BY <3>2, <3>3, <3>4 DEF ContextInOrder, IsTranslation
    <3> QED BY <1>2, <1>5, <3>1, <3>5
  <2>3. CASE c \notin Audience(w)
    <3>1. shown'[c] = shown[c]
      BY <2>3 DEF ShowSource
    <3> QED BY <2>1, <3>1
  <2> QED BY <2>2, <2>3
<1> QED BY <1>1, <1>8, <1>9 DEF PointersInOrder, VideoRises

LEMMA ShowTranslationStep ==
    ASSUME Pointers, NEW w \in Work, NEW a \in Rows(captions), a[2] = "translation",
           Published(a), ShowTranslation(w, a), UNCHANGED attaching
    PROVE  Moves /\ VideoRises /\ PointersInOrder'
<1>1. Moves /\ captions'[a].status = "ready"
  BY PublishMoves DEF Pointers
<1>2. VideoRises
  BY <1>1, VideoStays DEF ShowTranslation
<1>3. PICK u, n : u = captions' /\ n = video'
  OBVIOUS
<1>4. a \in Artifact /\ a # Null
  BY ArtifactKinds DEF Rows
<1> DEFINE p == captions[a].parent
<1>5. /\ p \in Rows(captions) /\ p # Null
      /\ captions[p].generation < captions[a].generation
  <2>1. p \in Rows(captions) /\ captions[p].generation < captions[a].generation
    BY <1>4 DEF Pointers, TableOK, LineageIn
  <2> QED BY <2>1, ArtifactKinds DEF Rows
<1> HIDE DEF p
<1>6. u[a].generation = captions[a].generation /\ u[p].generation = captions[p].generation
  BY <1>1, <1>3, <1>5 DEF Moves, Onwards
<1>7. GenerationIn(u, p) < GenerationIn(u, a) /\ IsTranslation(u, a)
  BY <1>1, <1>3, <1>4, <1>5, <1>6 DEF GenerationIn, IsTranslation
<1>8. ASSUME NEW c \in Context
      PROVE  ContextInOrder(captions', video', shown'[c], attaching'[c])
  <2>1. ContextInOrder(u, n, shown[c], attaching[c])
    BY <1>1, <1>2, <1>3, OthersStayInOrder
  <2>2. CASE c \in Translatable(w, a)
    <3>1. shown'[c] = [shown[c] EXCEPT !.translation = a]
      BY <2>2 DEF ShowTranslation
    <3>2. shown[c] \in Shown /\ shown[c].source = p
      BY <2>2 DEF Translatable, Pointers, p
    <3>3. PICK s : s = shown'[c]
      OBVIOUS
    <3>4. s.source = p /\ s.translation = a
      BY <3>1, <3>2, <3>3 DEF Shown
    <3>5. ContextInOrder(u, n, s, attaching[c])
      BY <1>7, <2>1, <3>2, <3>4 DEF ContextInOrder
    <3> QED BY <1>3, <3>3, <3>5
  <2>3. CASE c \notin Translatable(w, a)
    <3>1. shown'[c] = shown[c]
      BY <2>3 DEF ShowTranslation
    <3> QED BY <1>3, <2>1, <3>1
  <2> QED BY <2>2, <2>3
<1> QED BY <1>1, <1>2, <1>8 DEF PointersInOrder, VideoRises

\* A request remembers what the video shows.
LEMMA AttachReadStep ==
    ASSUME Pointers, NEW w \in Work, NEW c \in Context, AttachRead(w, c)
    PROVE  Moves /\ VideoRises /\ PointersInOrder'
<1>1. UNCHANGED <<captions, video, shown>>
  BY DEF AttachRead, NoCaption
<1>2. Moves
  BY <1>1, SameTableMoves DEF Pointers
<1>3. VideoRises
  BY <1>1, <1>2, VideoStays
<1>4. attaching' = [attaching EXCEPT ![c] = [work |-> w, seen |-> video]]
  BY DEF AttachRead
<1>5. ASSUME NEW d \in Context
      PROVE  ContextInOrder(captions', video', shown'[d], attaching'[d])
  <2>1. ContextInOrder(captions', video', shown'[d], attaching[d])
    BY <1>1, <1>2, <1>3, OthersStayInOrder
  <2>2. CASE d = c
    <3>1. PICK x : x = attaching'[c]
      OBVIOUS
    <3>2. x = [work |-> w, seen |-> video]
      BY <1>4, <3>1 DEF Pointers
    <3>3. x.seen = video'
      BY <1>1, <3>2
    <3>4. SeenOf(captions', video', video')
      <4>1. PICK u, n : u = captions' /\ n = video'
        OBVIOUS
      <4>2. n \in Pointer /\ IsSource(u, n) /\ TableOK(u)
        BY <1>2, <1>3, <4>1 DEF VideoRises, Moves
      <4>3. GenerationIn(u, n) \in Nat
        BY <4>2, GenerationsAreCounted
      <4>4. SeenOf(u, n, n)
        BY <4>2, <4>3 DEF SeenOf
      <4> QED BY <4>1, <4>4
    <3>5. ContextInOrder(captions', video', shown'[d], x)
      BY <2>1, <3>3, <3>4 DEF ContextInOrder
    <3> QED BY <2>2, <3>1, <3>5
  <2>3. CASE d # c
    <3>1. attaching'[d] = attaching[d]
      BY <1>4, <2>3 DEF Pointers
    <3> QED BY <2>1, <3>1
  <2> QED BY <2>2, <2>3
<1> QED BY <1>2, <1>3, <1>5 DEF PointersInOrder, VideoRises

\* The captions a request has read may be old by now; the translation it adds
\* is one of those the video shows.
LEMMA AttachWriteStep ==
    ASSUME Pointers, NEW c \in Context, AttachWrite(c)
    PROVE  Moves /\ VideoRises /\ PointersInOrder'
<1>1. UNCHANGED <<captions, video>>
  BY DEF AttachWrite
<1>2. Moves
  BY <1>1, SameTableMoves DEF Pointers
<1>3. VideoRises
  BY <1>1, <1>2, VideoStays
<1> DEFINE x == attaching[c]
           s == [source |-> x.seen, translation |-> Best]
<1>4. /\ x # Null /\ shown' = [shown EXCEPT ![c] = s]
      /\ attaching' = [attaching EXCEPT ![c] = Null]
  BY DEF AttachWrite
<1>5. ContextInOrder(captions, video, shown[c], x) /\ x.seen \in Pointer
  BY <1>4 DEF Pointers, PointersInOrder
<1>6. SeenOf(captions, video, x.seen)
  BY <1>4, <1>5 DEF ContextInOrder
<1>7. /\ IsTranslation(captions, Best)
      /\ Best # Null => GenerationIn(captions, x.seen) < GenerationIn(captions, Best)
  <2> SUFFICES ASSUME Best # Null
               PROVE  /\ IsTranslation(captions, Best)
                      /\ GenerationIn(captions, x.seen) < GenerationIn(captions, Best)
    BY DEF IsTranslation
  <2>1. /\ Best \in Artifact /\ Best[2] = "translation"
        /\ captions[Best].status = "ready" /\ captions[Best].parent = video
    BY BestTranslation DEF Pointers, Translations
  <2>2. video # Null
    BY DEF Best
  <2>3. PICK b : b = Best
    OBVIOUS
  <2>4. b \in Rows(captions) /\ b \in Pointer
    BY <2>1, <2>3 DEF Rows, Pointer
  <2>5. captions[video].generation < captions[b].generation
    BY <2>1, <2>3, <2>4 DEF Pointers, TableOK, LineageIn
  <2>6. GenerationIn(captions, x.seen) <= GenerationIn(captions, video)
    BY <1>6 DEF SeenOf
  <2>7. GenerationIn(captions, video) = captions[video].generation
    BY <2>2 DEF GenerationIn
  <2>8. GenerationIn(captions, b) = captions[b].generation
    BY <2>3 DEF GenerationIn
  <2>9. GenerationIn(captions, x.seen) \in Nat /\ GenerationIn(captions, video) \in Nat
        /\ GenerationIn(captions, b) \in Nat
    BY <1>5, <2>4, GenerationsAreCounted DEF Pointers
  <2>10. GenerationIn(captions, x.seen) < GenerationIn(captions, b)
    BY <2>5, <2>6, <2>7, <2>8, <2>9
  <2> QED BY <2>1, <2>3, <2>10 DEF IsTranslation
<1> HIDE DEF x
<1>8. PICK q : q = s
  OBVIOUS
<1>9. ContextInOrder(captions, video, q, Null)
  BY <1>6, <1>7, <1>8 DEF ContextInOrder
<1>10. PICK u, n : u = captions /\ n = video
  OBVIOUS
<1>11. u = captions' /\ n = video'
  BY <1>1, <1>10
<1>12. ASSUME NEW d \in Context
       PROVE  ContextInOrder(captions', video', shown'[d], attaching'[d])
  <2>1. ContextInOrder(captions', video', shown[d], attaching[d])
    BY <1>2, <1>3, OthersStayInOrder
  <2>2. CASE d = c
    <3>1. shown'[c] = q /\ attaching'[c] = Null
      BY <1>4, <1>8 DEF Pointers
    <3>2. ContextInOrder(u, n, q, Null)
      BY <1>9, <1>10
    <3> QED BY <1>11, <2>2, <3>1, <3>2
  <2>3. CASE d # c
    <3>1. shown'[d] = shown[d] /\ attaching'[d] = attaching[d]
      BY <1>4, <2>3 DEF Pointers
    <3> QED BY <2>1, <3>1
  <2> QED BY <2>2, <2>3
<1> QED BY <1>2, <1>3, <1>12 DEF PointersInOrder, VideoRises

LEMMA FinalizeStep ==
    ASSUME Pointers, SessionsHaveCaptions, NEW s \in Session, Finalize(s)
    PROVE  Moves /\ VideoRises /\ PointersInOrder'
<1> DEFINE src == <<s, "speech">>
           trn == <<s, "translation">>
           has == captions[trn].status # "absent"
           c == owner[s]
           now == [source |-> src, translation |-> IF has THEN trn ELSE Null]
           taken == IsAsNew(src, shown[c].source)
<1>1. /\ video' = VideoShows(src)
      /\ shown' = IF taken THEN [shown EXCEPT ![c] = now] ELSE shown
      /\ UNCHANGED attaching
  BY DEF Finalize
<1>2. /\ Moves
      /\ src \in Rows(captions) /\ captions'[src].status = "ready"
      /\ has => trn \in Rows(captions) /\ captions'[trn].status = "ready"
  BY FinalizeMoves DEF Pointers
<1>3. PICK u, n : u = captions' /\ n = video'
  OBVIOUS
<1>4. src \in Artifact /\ src # Null /\ src[2] = "speech" /\ "speech" \in SourceKind
  BY ArtifactKinds
<1>5. trn \in Artifact /\ trn # Null /\ trn[2] = "translation"
  BY ArtifactKinds
<1>6. has => captions[trn].parent = src /\ captions[src].generation < captions[trn].generation
  <2> SUFFICES ASSUME has
               PROVE  captions[trn].parent = src /\ captions[src].generation < captions[trn].generation
    OBVIOUS
  <2> DEFINE p == captions[trn].parent
  <2>1. /\ p \in Rows(captions) /\ p[1] = trn[1] /\ p[2] \in SourceKind
        /\ captions[p].generation < captions[trn].generation
    BY <1>2, <1>5 DEF Pointers, TableOK, LineageIn
  <2> HIDE DEF p
  <2>2. p[1] = s
    BY <2>1
  <2>3. p \in Artifact
    BY <2>1 DEF Rows
  <2>4. p \notin Work \X (SourceKind \cup {"translation"})
    BY <2>2, CaptionConstants
  <2>5. p \in Session \X {"speech", "translation"}
    BY <2>3, <2>4 DEF Artifact
  <2>6. p[2] = "speech"
    BY <2>1, <2>5, ArtifactKinds
  <2>7. p = src
    BY <2>2, <2>5, <2>6
  <2> QED BY <2>1, <2>7 DEF p
<1>7. /\ u[src].generation = captions[src].generation
      /\ has => u[trn].generation = captions[trn].generation
  BY <1>2, <1>3 DEF Moves, Onwards
<1> HIDE DEF src, trn, has, c, now, taken
<1>8. /\ GenerationIn(u, src) = captions[src].generation /\ IsSource(u, src)
      /\ has => IsTranslation(u, trn) /\ GenerationIn(u, src) < GenerationIn(u, trn)
  BY <1>2, <1>3, <1>4, <1>5, <1>6, <1>7 DEF GenerationIn, IsSource, IsTranslation
<1>9. captions[src].generation \in Nat /\ Generation(video) \in Nat
  <2>1. captions[src] \in Row
    BY <1>4 DEF Pointers, TableOK
  <2> QED BY <2>1, ArtifactsAreFinite, GenerationsAreCounted DEF Row, Pointers, Generation
<1>10. VideoRises /\ captions[src].generation <= GenerationIn(u, n)
  <2>1. CASE IsAsNew(src, video)
    <3>1. n = src
      BY <1>1, <1>3, <2>1 DEF VideoShows
    <3>2. Generation(video) <= captions[src].generation
      BY <2>1 DEF IsAsNew
    <3>3. Generation(video) <= GenerationIn(u, n)
      BY <1>8, <3>1, <3>2
    <3>4. captions[src].generation <= GenerationIn(u, n)
      BY <1>8, <1>9, <3>1
    <3> QED BY <1>3, <1>4, <1>8, <3>1, <3>3, <3>4 DEF VideoRises, Pointer
  <2>2. CASE ~IsAsNew(src, video)
    <3>1. UNCHANGED video
      BY <1>1, <2>2 DEF VideoShows
    <3>2. captions[src].generation < Generation(video)
      BY <1>9, <2>2 DEF IsAsNew
    <3>3. VideoRises
      BY <1>2, <3>1, VideoStays
    <3>4. Generation(video) <= GenerationIn(u, n) /\ n \in Pointer
      BY <1>3, <3>3 DEF VideoRises
    <3>5. GenerationIn(u, n) \in Nat
      BY <1>2, <1>3, <3>4, GenerationsAreCounted DEF Moves
    <3>6. captions[src].generation <= GenerationIn(u, n)
      BY <1>9, <3>2, <3>4, <3>5
    <3> QED BY <3>3, <3>6
  <2> QED BY <2>1, <2>2
<1>11. ASSUME NEW d \in Context
       PROVE  ContextInOrder(captions', video', shown'[d], attaching'[d])
  <2>1. ContextInOrder(u, n, shown[d], attaching[d])
    BY <1>2, <1>3, <1>10, OthersStayInOrder
  <2>2. CASE taken /\ d = c
    <3>1. shown'[d] = now
      BY <1>1, <2>2 DEF Pointers
    <3>2. SeenOf(u, n, src)
      BY <1>8, <1>10 DEF SeenOf
    <3>3. now.source = src /\ now.translation = IF has THEN trn ELSE Null
      BY DEF now
    <3>4. IsTranslation(u, now.translation)
      BY <1>8, <3>3 DEF IsTranslation
    <3>5. now.translation # Null => GenerationIn(u, now.source) < GenerationIn(u, now.translation)
      BY <1>8, <3>3
    <3>6. PICK q : q = now
      OBVIOUS
    <3>7. ContextInOrder(u, n, q, attaching[d])
      BY <2>1, <3>2, <3>3, <3>4, <3>5, <3>6 DEF ContextInOrder
    <3> QED BY <1>1, <1>3, <3>1, <3>6, <3>7
  <2>3. CASE ~(taken /\ d = c)
    <3>1. shown'[d] = shown[d]
      BY <1>1, <2>3 DEF Pointers
    <3> QED BY <1>1, <1>3, <2>1, <3>1
  <2> QED BY <2>2, <2>3
<1> QED BY <1>2, <1>10, <1>11 DEF PointersInOrder, VideoRises

-----------------------------------------------------------------------------
(***************************************************************************)
(* What executions have written.                                           *)
(***************************************************************************)
LEMMA Answers ==
    ASSUME NEW x \in Answer
    PROVE  /\ x \in Seq(Word) /\ Len(x) \in Nat \ {0}
           /\ \A o \in 1 .. Len(x) : o \in Ordinal /\ x[o] \in Word /\ x[o] # Null
<1>1. x \in Seq(Word) /\ x # <<>>
  BY CaptionConstants
<1>2. DOMAIN x = 1 .. Len(x) /\ Len(x) \in Nat \ {0}
  BY <1>1
<1>3. \A o \in 1 .. Len(x) : o \in Ordinal
  BY <1>2 DEF Ordinal
<1>4. \A o \in 1 .. Len(x) : x[o] \in Word
  BY <1>1
<1> QED BY <1>1, <1>2, <1>3, <1>4, CaptionConstants

LEMMA HoldsOn ==
    ASSUME NEW t, NEW u, Onwards(t, u), KeptWords(t, u),
           NEW w \in Work, NEW k \in SourceKind \cup {"translation"},
           NEW x \in Answer, NEW n \in Nat, n <= Len(x),
           Holds(t, <<w, k>>, x, n)
    PROVE  Holds(u, <<w, k>>, x, n)
<1> DEFINE a == <<w, k>>
<1>1. a \in Rows(t) /\ \A o \in 1 .. n : t[a].segment[o] = x[o]
  BY DEF Holds
<1>2. \A o \in 1 .. n : o \in Ordinal /\ x[o] # Null
  BY Answers
<1>3. a \in Rows(u)
  BY <1>1 DEF Onwards
<1>4. \A o \in Ordinal : t[a].segment[o] # Null => u[a].segment[o] = t[a].segment[o]
  BY <1>1 DEF KeptWords
<1> HIDE DEF a
<1>5. \A o \in 1 .. n : u[a].segment[o] = x[o]
  BY <1>1, <1>2, <1>4
<1> QED BY <1>3, <1>5 DEF Holds, a

LEMMA RunStaysInOrder ==
    ASSUME NEW t, NEW u, Onwards(t, u), KeptWords(t, u),
           NEW w \in Work, NEW r \in CaptionJob, RunInOrder(t, w, r)
    PROVE  RunInOrder(u, w, r)
<1> DEFINE first == <<w, r.kind>>
           current == IF r.part = "source" THEN first ELSE <<w, "translation">>
           ended == r.at \in {"pending", "committing", "announcing"}
<1>1. r.kind \in SourceKind /\ r.written \in Nat /\ r.words \in Answer \cup {<<>>}
  BY DEF CaptionJob
<1>2. PICK k \in SourceKind \cup {"translation"} : current = <<w, k>>
  BY <1>1
<1>3. r.words \in Answer => Len(r.words) \in Nat
  BY Answers
<1>4. r.at \in {"appending", "publishing"} => r.words \in Answer /\ r.written <= Len(r.words)
  BY <1>1, <1>3 DEF RunInOrder
<1>5. r.at \in {"appending", "publishing"} => Holds(u, current, r.words, r.written)
  <2>1. r.at \in {"appending", "publishing"} => Holds(t, current, r.words, r.written)
    BY DEF RunInOrder
  <2> QED BY <1>1, <1>2, <1>4, <2>1, HoldsOn
<1>6. ended => Holds(u, current, r.words, Len(r.words))
  <2>1. ended => Holds(t, current, r.words, Len(r.words)) /\ r.words \in Answer
    BY DEF RunInOrder
  <2>2. ended => Len(r.words) \in Nat /\ Len(r.words) <= Len(r.words)
    BY <1>3, <2>1
  <2> QED BY <1>2, <2>1, <2>2, HoldsOn
<1>7. r.part = "translation" => Holds(u, first, r.words, Len(r.words))
  <2>1. r.part = "translation" => Holds(t, first, r.words, Len(r.words))
    BY DEF RunInOrder
  <2>2. CASE r.words \in Answer
    <3>1. Len(r.words) \in Nat /\ Len(r.words) <= Len(r.words)
      BY <1>3, <2>2
    <3> QED BY <1>1, <2>1, <2>2, <3>1, HoldsOn
  <2>3. CASE r.words = <<>>
    <3>1. \A o \in 1 .. Len(r.words) : FALSE
      BY <2>3
    <3>2. first \in Rows(t) => first \in Rows(u)
      BY DEF Onwards
    <3> QED BY <2>1, <3>1, <3>2 DEF Holds
  <2> QED BY <1>1, <2>2, <2>3
<1> QED BY <1>5, <1>6, <1>7 DEF RunInOrder

-----------------------------------------------------------------------------
(***************************************************************************)
(* Every step keeps the invariant and shows no older captions of the       *)
(* video.                                                                  *)
(***************************************************************************)
RequestTypes ==
    /\ video \in Pointer
    /\ shown \in [Context -> Shown]
    /\ indexed \in [Context -> Shown \cup {Null}]
    /\ work \in [Work -> {"reserved", "committed", "released"}]
    /\ subscribed \in [Work -> [Context -> {"none", "reserved", "committed", "released"}]]
    /\ attached \in [Context -> SUBSET Work]
    /\ attaching \in [Context -> [work : Work, seen : Pointer] \cup {Null}]
    /\ owner \in [Session -> Context \cup {Null}]

Runs ==
    /\ run \in [Work -> CaptionJob]
    /\ \A w \in Work : RunInOrder(captions, w, run[w])

LEMMA Parts ==
    CaptionsInv <=> TableOK(captions) /\ PointersInOrder /\ RequestTypes
                       /\ SessionsHaveCaptions /\ Runs
BY DEF CaptionsInv, CaptionsTypeOK, TableOK, RequestTypes, Runs

LEMMA PartsNext ==
    ASSUME Moves, PointersInOrder', RequestTypes', SessionsHaveCaptions', Runs'
    PROVE  CaptionsInv'
BY DEF CaptionsInv, CaptionsTypeOK, TableOK, RequestTypes, Runs, Moves

LEMMA SessionsStay ==
    ASSUME SessionsHaveCaptions, Moves, UNCHANGED owner
    PROVE  SessionsHaveCaptions'
BY DEF SessionsHaveCaptions, Moves, Onwards

LEMMA RunsStay ==
    ASSUME Runs, Moves, UNCHANGED run
    PROVE  Runs'
<1>1. PICK u : u = captions'
  OBVIOUS
<1>2. ASSUME NEW w \in Work PROVE RunInOrder(captions', w, run'[w])
  <2>1. PICK r \in CaptionJob : r = run[w]
    BY DEF Runs
  <2>2. RunInOrder(captions, w, r)
    BY <2>1 DEF Runs
  <2>3. RunInOrder(u, w, r)
    BY <1>1, <2>2, RunStaysInOrder DEF Moves
  <2> QED BY <1>1, <2>1, <2>3
<1> QED BY <1>2 DEF Runs

LEMMA RunGoesOn ==
    ASSUME Runs, Moves, NEW w \in Work, NEW r \in CaptionJob,
           run' = [run EXCEPT ![w] = r], RunInOrder(captions', w, r)
    PROVE  Runs'
<1>1. PICK u : u = captions'
  OBVIOUS
<1>2. run' \in [Work -> CaptionJob] /\ run'[w] = r /\ \A v \in Work : v # w => run'[v] = run[v]
  BY DEF Runs
<1>3. ASSUME NEW v \in Work PROVE RunInOrder(captions', v, run'[v])
  <2>1. CASE v = w
    BY <1>2, <2>1
  <2>2. CASE v # w
    <3>1. PICK q \in CaptionJob : q = run[v]
      BY DEF Runs
    <3>2. RunInOrder(captions, v, q)
      BY <3>1 DEF Runs
    <3>3. RunInOrder(u, v, q)
      BY <1>1, <3>2, RunStaysInOrder DEF Moves
    <3> QED BY <1>1, <1>2, <2>2, <3>1, <3>3
  <2> QED BY <2>1, <2>2
<1> QED BY <1>2, <1>3 DEF Runs

LEMMA IdleRun ==
    Idle \in CaptionJob /\ Idle.part = "source"
<1>1. 0 \in 0 .. MaxRuns
  BY CaptionConstants
<1> QED BY <1>1 DEF Idle, CaptionJob, Place, SourceKind, Part

\* An execution that has ended has nothing to show for it.
LEMMA RunRests ==
    ASSUME Runs, Moves, NEW w \in Work, Again(w) \/ Ends(w)
    PROVE  Runs'
<1>1. Rests(w, "waiting") \/ Rests(w, "over")
  BY DEF Again, Ends
<1>2. PICK place \in {"waiting", "over"} : Rests(w, place)
  BY <1>1
<1>3. run[w] \in CaptionJob
  BY DEF Runs
<1>4. PICK n \in 0 .. MaxRuns : n = run[w].attempt
  BY <1>3 DEF CaptionJob
<1> DEFINE r == [Idle EXCEPT !.attempt = n, !.at = place]
<1>5. run' = [run EXCEPT ![w] = r]
  BY <1>2, <1>4 DEF Rests
<1>6. r \in CaptionJob
  BY IdleRun DEF CaptionJob, Place
<1>7. r.at \in {"waiting", "over"} /\ r.part = "source"
  BY IdleRun DEF CaptionJob
<1> HIDE DEF r
<1>8. RunInOrder(captions', w, r)
  BY <1>7 DEF RunInOrder
<1> QED BY <1>5, <1>6, <1>8, RunGoesOn

LEMMA FetchStep ==
    ASSUME CaptionsInv, NEW w \in Work, Fetch(w)
    PROVE  CaptionsInv' /\ VideoRises /\ Moves
<1>1. UNCHANGED <<captions, video, shown, indexed, work, subscribed, attached, attaching, owner>>
  BY DEF Fetch, NoCaption, Stable
<1>2. Moves /\ Pointers /\ Runs /\ RequestTypes /\ SessionsHaveCaptions
  BY <1>1, SameTableMoves, Parts, InvHasPointers
<1>3. PointersInOrder' /\ VideoRises
  BY <1>1, <1>2, PointersStay
<1>4. RequestTypes' /\ SessionsHaveCaptions'
  BY <1>1, <1>2, SessionsStay DEF RequestTypes
<1>5. run[w] \in CaptionJob /\ run[w].attempt < MaxRuns
  BY <1>2 DEF Runs, Fetch
<1>6. PICK n \in 0 .. MaxRuns : n = run[w].attempt + 1
  BY <1>5, CaptionConstants DEF CaptionJob
<1>7. Runs'
  <2>1. CASE \E k \in SourceKind, a \in Answer, d \in {"alone", "missing", "translated"} :
             run' = [run EXCEPT ![w] =
                [Idle EXCEPT !.attempt = run[w].attempt + 1, !.at = "creating",
                             !.kind = k, !.words = a, !.needs = d]]
    <3>1. PICK k \in SourceKind, a \in Answer, d \in {"alone", "missing", "translated"} :
             run' = [run EXCEPT ![w] =
                [Idle EXCEPT !.attempt = run[w].attempt + 1, !.at = "creating",
                             !.kind = k, !.words = a, !.needs = d]]
      BY <2>1
    <3> DEFINE r == [Idle EXCEPT !.attempt = n, !.at = "creating",
                                 !.kind = k, !.words = a, !.needs = d]
    <3>2. run' = [run EXCEPT ![w] = r]
      BY <1>6, <3>1
    <3>3. r \in CaptionJob
      BY IdleRun DEF CaptionJob, Place
    <3>4. r.at = "creating" /\ r.part = "source" /\ r.words \in Answer
      BY IdleRun DEF CaptionJob
    <3> HIDE DEF r
    <3>5. RunInOrder(captions', w, r)
      BY <3>4 DEF RunInOrder
    <3> QED BY <1>2, <3>2, <3>3, <3>5, RunGoesOn
  <2>2. CASE run' = [run EXCEPT ![w] =
                [Idle EXCEPT !.attempt = run[w].attempt + 1, !.at = "failing"]]
    <3> DEFINE r == [Idle EXCEPT !.attempt = n, !.at = "failing"]
    <3>2. run' = [run EXCEPT ![w] = r]
      BY <1>6, <2>2
    <3>3. r \in CaptionJob
      BY IdleRun DEF CaptionJob, Place
    <3>4. r.at = "failing" /\ r.part = "source"
      BY IdleRun DEF CaptionJob
    <3> HIDE DEF r
    <3>5. RunInOrder(captions', w, r)
      BY <3>4 DEF RunInOrder
    <3> QED BY <1>2, <3>2, <3>3, <3>5, RunGoesOn
  <2> QED BY <2>1, <2>2 DEF Fetch
<1> QED BY <1>2, <1>3, <1>4, <1>7, PartsNext

\* The artifact an execution writes now, and what it was answered.
LEMMA Writes ==
    ASSUME CaptionsInv, NEW w \in Work
    PROVE  /\ run[w] \in CaptionJob /\ RunInOrder(captions, w, run[w])
           /\ Source(w) = <<w, run[w].kind>> /\ run[w].kind \in SourceKind
           /\ Source(w) \in Artifact /\ Source(w)[1] = w /\ Source(w)[2] = run[w].kind
           /\ Current(w) = IF run[w].part = "source" THEN <<w, run[w].kind>>
                                                    ELSE <<w, "translation">>
           /\ Current(w) \in Artifact
<1>1. run[w] \in CaptionJob /\ RunInOrder(captions, w, run[w])
  BY Parts DEF Runs
<1>2. run[w].kind \in SourceKind
  BY <1>1 DEF CaptionJob
<1> QED BY <1>1, <1>2, ArtifactKinds DEF Source, Current

LEMMA CreateStep ==
    ASSUME CaptionsInv, NEW w \in Work, CreateGeneration(w)
    PROVE  CaptionsInv' /\ VideoRises /\ Moves
<1>1. UNCHANGED <<video, shown, indexed, work, subscribed, attached, attaching, owner>>
  BY DEF CreateGeneration, Stable
<1>2. TableOK(captions) /\ Pointers /\ Runs /\ RequestTypes /\ SessionsHaveCaptions
  BY Parts, InvHasPointers
<1>3. PICK a, q : a = Current(w) /\ q = IF run[w].part = "source" THEN Null ELSE Source(w)
  OBVIOUS
<1>4. PICK r \in CaptionJob : r = run[w]
  BY Writes
<1>5. /\ a = IF r.part = "source" THEN <<w, r.kind>> ELSE <<w, "translation">>
      /\ q = IF r.part = "source" THEN Null ELSE <<w, r.kind>>
      /\ a \in Artifact /\ r.kind \in SourceKind /\ <<w, r.kind>> \in Artifact
      /\ RunInOrder(captions, w, r) /\ r.at = "creating" /\ r.part \in Part
  BY <1>3, <1>4, Writes DEF CreateGeneration, JobAt, CaptionJob
<1>6. r.part = "translation" => <<w, r.kind>> \in Rows(captions)
  BY <1>5 DEF RunInOrder, Holds
<1>7. CanMake(captions, a, q)
  BY <1>5, <1>6, ArtifactKinds DEF CanMake, Pointer, Part
<1>8. captions' = Created(captions, a, q)
  BY <1>3 DEF CreateGeneration
<1>9. Moves /\ a \in Rows(captions')
  BY <1>2, <1>7, <1>8, CreatedMoves
<1>10. PointersInOrder' /\ VideoRises
  BY <1>1, <1>2, <1>9, PointersStay
<1>11. RequestTypes' /\ SessionsHaveCaptions'
  BY <1>1, <1>2, <1>9, SessionsStay DEF RequestTypes
<1>12. PICK u : u = captions'
  OBVIOUS
<1>13. RunInOrder(u, w, r)
  BY <1>5, <1>9, <1>12, RunStaysInOrder DEF Moves
<1>14. Runs'
  <2> DEFINE n == [r EXCEPT !.at = "appending", !.written = 0]
  <2>1. run' = [run EXCEPT ![w] = n]
    BY <1>4 DEF CreateGeneration
  <2>2. /\ n \in CaptionJob /\ n.at = "appending" /\ n.written = 0 /\ n.part = r.part
        /\ n.kind = r.kind /\ n.words = r.words
    BY DEF CaptionJob, Place
  <2> HIDE DEF n
  <2>3. n.words \in Answer /\ 0 < Len(n.words)
    BY <1>5, <2>2, Answers DEF RunInOrder
  <2>4. Holds(u, a, n.words, 0)
    BY <1>9, <1>12 DEF Holds
  <2>5. RunInOrder(u, w, n)
    BY <1>5, <1>13, <2>2, <2>3, <2>4 DEF RunInOrder
  <2> QED BY <1>2, <1>9, <1>12, <2>1, <2>2, <2>5, RunGoesOn
<1> QED BY <1>9, <1>10, <1>11, <1>14, PartsNext

LEMMA AppendStep ==
    ASSUME CaptionsInv, NEW w \in Work, AppendSegments(w)
    PROVE  CaptionsInv' /\ VideoRises /\ Moves
<1>1. UNCHANGED <<video, shown, indexed, work, subscribed, attached, attaching, owner>>
  BY DEF AppendSegments, Stable
<1>2. TableOK(captions) /\ Pointers /\ Runs /\ RequestTypes /\ SessionsHaveCaptions
  BY Parts, InvHasPointers
<1>3. PICK a : a = Current(w)
  OBVIOUS
<1>4. PICK r \in CaptionJob : r = run[w]
  BY Writes
<1>5. /\ a = IF r.part = "source" THEN <<w, r.kind>> ELSE <<w, "translation">>
      /\ RunInOrder(captions, w, r) /\ r.at = "appending"
  BY <1>3, <1>4, Writes DEF AppendSegments, JobAt
<1>6. /\ r.words \in Answer /\ r.written < Len(r.words)
      /\ Holds(captions, a, r.words, r.written)
  BY <1>5 DEF RunInOrder
<1>7. Len(r.words) \in Nat /\ r.written \in Nat
  BY <1>6, Answers DEF CaptionJob
<1>8. PICK o : o = r.written + 1
  OBVIOUS
<1>9. o \in 1 .. Len(r.words) /\ o \in Nat
  BY <1>6, <1>7, <1>8
<1>10. PICK t : t = r.words[o]
  OBVIOUS
<1>11. o \in Ordinal /\ t \in Word
  BY <1>6, <1>9, <1>10, Answers
<1>12. a \in Rows(captions)
  BY <1>6 DEF Holds
<1>13. /\ Fits(a, o, t) /\ captions' = [captions EXCEPT ![a] = Appended(a, o, t)]
       /\ run' = [run EXCEPT ![w].written = o,
                             ![w].at = IF o = Len(r.words) THEN "publishing" ELSE @]
  BY <1>3, <1>4, <1>8, <1>10 DEF AppendSegments
<1>14. Moves /\ captions'[a].segment[o] = t
  BY <1>2, <1>11, <1>12, <1>13, AppendedMoves
<1>15. PointersInOrder' /\ VideoRises
  BY <1>1, <1>2, <1>14, PointersStay
<1>16. RequestTypes' /\ SessionsHaveCaptions'
  BY <1>1, <1>2, <1>14, SessionsStay DEF RequestTypes
<1>17. PICK u : u = captions'
  OBVIOUS
<1>18. RunInOrder(u, w, r)
  BY <1>5, <1>14, <1>17, RunStaysInOrder DEF Moves
<1>19. Runs'
  <2> DEFINE n == [r EXCEPT !.written = o,
                            !.at = IF o = Len(r.words) THEN "publishing" ELSE "appending"]
  <2>1. run' = [run EXCEPT ![w] = n]
    BY <1>4, <1>5, <1>13
  <2>2. /\ n \in CaptionJob /\ n.written = o /\ n.part = r.part
        /\ n.at = IF o = Len(r.words) THEN "publishing" ELSE "appending"
        /\ n.kind = r.kind /\ n.words = r.words
    BY <1>9 DEF CaptionJob, Place
  <2> HIDE DEF n
  <2>3. Holds(u, a, r.words, r.written)
    BY <1>5, <1>18 DEF RunInOrder
  <2>4. Holds(u, a, n.words, o)
    <3>1. \A i \in 1 .. o : i \in 1 .. r.written \/ i = o
      BY <1>7, <1>8
    <3> QED BY <1>10, <1>14, <1>17, <2>2, <2>3, <3>1 DEF Holds
  <2>5. o # Len(r.words) => o < Len(r.words)
    BY <1>7, <1>9
  <2>6. RunInOrder(u, w, n)
    BY <1>5, <1>6, <1>18, <2>2, <2>4, <2>5 DEF RunInOrder
  <2> QED BY <1>2, <1>14, <1>17, <2>1, <2>2, <2>6, RunGoesOn
<1> QED BY <1>14, <1>15, <1>16, <1>19, PartsNext

\* After a part an execution goes on to the translation or to its end.
LEMMA AfterPartRuns ==
    ASSUME CaptionsInv, Moves, NEW w \in Work, JobAt(w, "publishing"), AfterPart(w)
    PROVE  Runs'
<1>1. Runs
  BY Parts
<1>2. PICK r \in CaptionJob : r = run[w]
  BY Writes
<1>3. RunInOrder(captions, w, r) /\ r.at = "publishing"
  BY <1>2, Writes DEF JobAt
<1>4. PICK u : u = captions'
  OBVIOUS
<1>5. RunInOrder(u, w, r)
  BY <1>3, <1>4, RunStaysInOrder DEF Moves
<1> DEFINE a == IF r.part = "source" THEN <<w, r.kind>> ELSE <<w, "translation">>
<1>6. r.words \in Answer /\ Holds(u, a, r.words, Len(r.words))
  BY <1>3, <1>5 DEF RunInOrder
<1>7. Len(r.words) \in Nat
  BY <1>6, Answers
<1> DEFINE on == r.part = "source" /\ r.needs = "translated"
           place == IF on THEN "creating"
                    ELSE IF r.needs = "missing" THEN "pending" ELSE "committing"
           part == IF on THEN "translation" ELSE r.part
           n == [r EXCEPT !.at = place, !.part = part, !.written = 0]
<1>8. run' = [run EXCEPT ![w] = n]
  BY <1>2 DEF AfterPart
<1>9. /\ n \in CaptionJob /\ n.at = place /\ n.part = part /\ n.written = 0
      /\ n.kind = r.kind /\ n.words = r.words
  BY DEF CaptionJob, Place, Part
<1> HIDE DEF n
<1>10. RunInOrder(u, w, n)
  <2>1. CASE on
    <3>1. n.at = "creating" /\ n.part = "translation" /\ a = <<w, n.kind>>
      BY <1>9, <2>1
    <3> QED BY <1>6, <1>9, <3>1 DEF RunInOrder
  <2>2. CASE ~on
    <3>1. n.at \in {"pending", "committing"} /\ n.part = r.part
      BY <1>9, <2>2
    <3>2. r.part = "translation" => Holds(u, <<w, r.kind>>, r.words, Len(r.words))
      BY <1>5 DEF RunInOrder
    <3> QED BY <1>6, <1>9, <3>1, <3>2 DEF RunInOrder
  <2> QED BY <2>1, <2>2
<1> QED BY <1>1, <1>4, <1>8, <1>9, <1>10, RunGoesOn

LEMMA PublishStep ==
    ASSUME CaptionsInv, NEW w \in Work, PublishGeneration(w)
    PROVE  CaptionsInv' /\ VideoRises /\ Moves
<1>1. UNCHANGED <<indexed, work, subscribed, attached, attaching, owner>>
      /\ JobAt(w, "publishing") /\ AfterPart(w)
  BY DEF PublishGeneration, Stable
<1>2. TableOK(captions) /\ Pointers /\ Runs /\ RequestTypes /\ SessionsHaveCaptions
  BY Parts, InvHasPointers
<1>3. PICK a : a = Current(w)
  OBVIOUS
<1>4. /\ a = IF run[w].part = "source" THEN <<w, run[w].kind>> ELSE <<w, "translation">>
      /\ RunInOrder(captions, w, run[w]) /\ run[w] \in CaptionJob
      /\ run[w].kind \in SourceKind
  BY <1>3, Writes
<1>5. a \in Rows(captions)
  BY <1>1, <1>4 DEF RunInOrder, Holds, JobAt
<1>6. a \in Artifact
  BY <1>5 DEF Rows
<1>7. /\ Moves /\ VideoRises /\ PointersInOrder'
      /\ video' \in Pointer /\ shown' \in [Context -> Shown]
  <2>1. CASE UNCHANGED <<captions, video, shown>>
    <3>1. Moves
      BY <1>2, <2>1, SameTableMoves
    <3>2. PointersInOrder' /\ VideoRises
      BY <1>1, <1>2, <2>1, <3>1, PointersStay
    <3> QED BY <1>2, <2>1, <3>1, <3>2 DEF RequestTypes
  <2>2. CASE run[w].part = "source" /\ ShowSource(w, a) /\ Published(a)
    <3>1. a[2] \in SourceKind
      BY <1>4, <2>2
    <3>2. Moves /\ VideoRises /\ PointersInOrder'
      BY <1>1, <1>2, <1>5, <2>2, <3>1, ShowSourceStep
    <3>3. [source |-> a, translation |-> Null] \in Shown /\ a \in Pointer
      BY <1>6 DEF Shown, Pointer
    <3> QED BY <1>2, <2>2, <3>2, <3>3 DEF ShowSource, RequestTypes
  <2>3. CASE run[w].part # "source" /\ ShowTranslation(w, a) /\ Published(a)
    <3>1. a[2] = "translation"
      BY <1>4, <2>3
    <3>2. Moves /\ VideoRises /\ PointersInOrder'
      BY <1>1, <1>2, <1>5, <2>3, <3>1, ShowTranslationStep
    <3>3. a \in Pointer
      BY <1>6 DEF Pointer
    <3>4. ASSUME NEW c \in Context PROVE [shown[c] EXCEPT !.translation = a] \in Shown
      <4>1. shown[c] \in Shown
        BY <1>2 DEF RequestTypes
      <4> QED BY <3>3, <4>1 DEF Shown
    <3>5. shown' = [c \in Context |-> IF c \in Translatable(w, a)
                       THEN [shown[c] EXCEPT !.translation = a] ELSE shown[c]]
          /\ UNCHANGED video
      BY <2>3 DEF ShowTranslation
    <3>6. shown' \in [Context -> Shown]
      BY <1>2, <3>4, <3>5 DEF RequestTypes
    <3> QED BY <1>2, <3>2, <3>5, <3>6 DEF RequestTypes
  <2> QED BY <1>3, <2>1, <2>2, <2>3 DEF PublishGeneration
<1>8. RequestTypes' /\ SessionsHaveCaptions'
  BY <1>1, <1>2, <1>7, SessionsStay DEF RequestTypes
<1>9. Runs'
  BY <1>1, <1>7, AfterPartRuns
<1> QED BY <1>7, <1>8, <1>9, PartsNext

\* Steps that write and show no captions.
LEMMA ShowsTheSame ==
    ASSUME CaptionsInv, UNCHANGED <<captions, video, shown, attaching, owner>>,
           RequestTypes', Moves => Runs'
    PROVE  CaptionsInv' /\ VideoRises /\ Moves
<1>1. Moves /\ Pointers /\ SessionsHaveCaptions
  BY SameTableMoves, Parts, InvHasPointers
<1>2. PointersInOrder' /\ VideoRises
  BY <1>1, PointersStay
<1>3. SessionsHaveCaptions'
  BY <1>1, SessionsStay
<1> QED BY <1>1, <1>2, <1>3, PartsNext

LEMMA SettledTypes ==
    ASSUME RequestTypes, NEW w \in Work, NEW s \in {"committed", "released"},
           SettledAs(w, s) \/ UNCHANGED <<work, subscribed>>,
           UNCHANGED <<video, shown, indexed, attached, attaching, owner>>
    PROVE  RequestTypes'
<1>1. CASE SettledAs(w, s)
  <2>1. subscribed[w] \in [Context -> {"none", "reserved", "committed", "released"}]
    BY DEF RequestTypes
  <2> DEFINE after == [c \in Context |-> IF subscribed[w][c] = "reserved" THEN s ELSE subscribed[w][c]]
  <2>2. after \in [Context -> {"none", "reserved", "committed", "released"}]
    BY <2>1
  <2>3. subscribed' = [subscribed EXCEPT ![w] = after]
    BY <1>1 DEF SettledAs
  <2> HIDE DEF after
  <2>4. /\ work' \in [Work -> {"reserved", "committed", "released"}]
        /\ subscribed' \in [Work -> [Context -> {"none", "reserved", "committed", "released"}]]
    BY <1>1, <2>2, <2>3 DEF SettledAs, RequestTypes
  <2> QED BY <2>4 DEF RequestTypes
<1>2. CASE UNCHANGED <<work, subscribed>>
  BY <1>2 DEF RequestTypes
<1> QED BY <1>1, <1>2

LEMMA CommitStep ==
    ASSUME CaptionsInv, NEW w \in Work, CommitWork(w)
    PROVE  CaptionsInv' /\ VideoRises /\ Moves
<1>1. UNCHANGED <<captions, video, shown, indexed, attached, attaching, owner>>
      /\ JobAt(w, "committing") /\ Go(w, "announcing")
  BY DEF CommitWork
<1>2. Runs /\ RequestTypes
  BY Parts
<1>3. RequestTypes'
  <2>1. SettledAs(w, "committed") \/ UNCHANGED <<work, subscribed>>
    BY DEF CommitWork
  <2> QED BY <1>1, <1>2, <2>1, SettledTypes
<1>4. ASSUME Moves PROVE Runs'
  <2>1. PICK r \in CaptionJob : r = run[w]
    BY Writes
  <2>2. PICK u : u = captions'
    OBVIOUS
  <2>3. r.at = "committing" /\ RunInOrder(u, w, r)
    BY <1>1, <1>4, <2>1, <2>2, Writes, RunStaysInOrder DEF JobAt, Moves
  <2> DEFINE n == [r EXCEPT !.at = "announcing"]
  <2>4. run' = [run EXCEPT ![w] = n]
    BY <1>1, <2>1 DEF Go
  <2>5. /\ n \in CaptionJob /\ n.at = "announcing" /\ n.part = r.part
        /\ n.kind = r.kind /\ n.words = r.words
    BY DEF CaptionJob, Place
  <2> HIDE DEF n
  <2>6. RunInOrder(u, w, n)
    BY <2>3, <2>5 DEF RunInOrder
  <2> QED BY <1>2, <1>4, <2>2, <2>4, <2>5, <2>6, RunGoesOn
<1> QED BY <1>1, <1>3, <1>4, ShowsTheSame

LEMMA FailStep ==
    ASSUME CaptionsInv, NEW w \in Work, FailGeneration(w)
    PROVE  CaptionsInv' /\ VideoRises /\ Moves
<1>1. UNCHANGED <<captions, video, shown, indexed, attached, attaching, owner>> /\ Ends(w)
  BY DEF FailGeneration
<1>2. Runs /\ RequestTypes
  BY Parts
<1>3. RequestTypes'
  <2>1. SettledAs(w, "released") \/ UNCHANGED <<work, subscribed>>
    BY DEF FailGeneration
  <2> QED BY <1>1, <1>2, <2>1, SettledTypes
<1>4. Moves => Runs'
  BY <1>1, <1>2, RunRests
<1> QED BY <1>1, <1>3, <1>4, ShowsTheSame

LEMMA AnnounceStep ==
    ASSUME CaptionsInv, NEW w \in Work, Announce(w)
    PROVE  CaptionsInv' /\ VideoRises /\ Moves
<1>1. UNCHANGED <<captions, video, shown, work, subscribed, attached, attaching, owner>> /\ Ends(w)
  BY DEF Announce, Stable
<1>2. Runs /\ RequestTypes
  BY Parts
<1>3. indexed' \in [Context -> Shown \cup {Null}]
  BY <1>2 DEF Announce, RequestTypes
<1>4. RequestTypes'
  BY <1>1, <1>2, <1>3 DEF RequestTypes
<1>5. Moves => Runs'
  BY <1>1, <1>2, RunRests
<1> QED BY <1>1, <1>4, <1>5, ShowsTheSame

LEMMA FailsStep ==
    ASSUME CaptionsInv, NEW w \in Work, Fails(w)
    PROVE  CaptionsInv' /\ VideoRises /\ Moves
<1>1. UNCHANGED <<captions, video, shown, indexed, work, subscribed, attached, attaching, owner>>
      /\ Again(w)
  BY DEF Fails, NoCaption, Stable
<1>2. Runs /\ RequestTypes
  BY Parts
<1>3. RequestTypes'
  BY <1>1, <1>2 DEF RequestTypes
<1>4. Moves => Runs'
  BY <1>1, <1>2, RunRests
<1> QED BY <1>1, <1>3, <1>4, ShowsTheSame

LEMMA JoinStep ==
    ASSUME CaptionsInv, NEW w \in Work, NEW c \in Context, Join(w, c)
    PROVE  CaptionsInv' /\ VideoRises /\ Moves
<1>1. UNCHANGED <<captions, video, shown, indexed, work, attached, attaching, owner, run>>
      /\ subscribed' = [subscribed EXCEPT ![w][c] = "reserved"]
  BY DEF Join, NoCaption
<1>2. Runs /\ RequestTypes
  BY Parts
<1>3. RequestTypes'
  BY <1>1, <1>2 DEF RequestTypes
<1>4. Moves => Runs'
  BY <1>1, <1>2, RunsStay
<1> QED BY <1>1, <1>3, <1>4, ShowsTheSame

LEMMA AttachStep ==
    ASSUME CaptionsInv, NEW c \in Context,
           AttachWrite(c) \/ \E w \in Work : AttachRead(w, c)
    PROVE  CaptionsInv' /\ VideoRises /\ Moves
<1>1. Pointers /\ Runs /\ RequestTypes /\ SessionsHaveCaptions
  BY Parts, InvHasPointers
<1>2. Moves /\ VideoRises /\ PointersInOrder'
  BY <1>1, AttachReadStep, AttachWriteStep
<1>3. UNCHANGED <<owner, run>>
  BY DEF AttachRead, AttachWrite
<1>4. Runs' /\ SessionsHaveCaptions'
  BY <1>1, <1>2, <1>3, RunsStay, SessionsStay
<1>5. RequestTypes'
  <2>1. ASSUME NEW w \in Work, AttachRead(w, c) PROVE RequestTypes'
    <3>1. UNCHANGED <<video, shown, indexed, work, subscribed, attached, owner>>
          /\ attaching' = [attaching EXCEPT ![c] = [work |-> w, seen |-> video]]
      BY <2>1 DEF AttachRead, NoCaption
    <3>2. [work |-> w, seen |-> video] \in [work : Work, seen : Pointer]
      BY <1>1 DEF RequestTypes
    <3> QED BY <1>1, <3>1, <3>2 DEF RequestTypes
  <2>2. ASSUME AttachWrite(c) PROVE RequestTypes'
    <3> DEFINE w == attaching[c].work
               s == [source |-> attaching[c].seen, translation |-> Best]
    <3>1. UNCHANGED <<video, indexed, work, owner>>
          /\ attaching[c] # Null
          /\ subscribed' = [subscribed EXCEPT ![w][c] = IF work[w] = "committed" THEN "committed" ELSE @]
          /\ attached' = [attached EXCEPT ![c] = @ \cup {w}]
          /\ shown' = [shown EXCEPT ![c] = s]
          /\ attaching' = [attaching EXCEPT ![c] = Null]
      BY <2>2 DEF AttachWrite
    <3>2. w \in Work /\ attaching[c].seen \in Pointer
      BY <1>1, <3>1 DEF RequestTypes
    <3>3. Best \in Pointer
      BY <1>1, BestTranslation DEF Pointers, Translations, Pointer
    <3>4. s \in Shown
      BY <3>2, <3>3 DEF Shown
    <3> HIDE DEF w, s
    <3>5. attached' \in [Context -> SUBSET Work] /\ shown' \in [Context -> Shown]
          /\ attaching' \in [Context -> [work : Work, seen : Pointer] \cup {Null}]
      BY <1>1, <3>1, <3>2, <3>4 DEF RequestTypes
    <3>6. subscribed' \in [Work -> [Context -> {"none", "reserved", "committed", "released"}]]
      BY <1>1, <3>1, <3>2 DEF RequestTypes
    <3> QED BY <1>1, <3>1, <3>5, <3>6 DEF RequestTypes
  <2> QED BY <2>1, <2>2
<1> QED BY <1>2, <1>4, <1>5, PartsNext

LEMMA ChunkStep ==
    ASSUME CaptionsInv, NEW s \in Session, NEW c \in Context, NEW o \in Ordinal,
           NEW t \in Word, NEW korean \in BOOLEAN, AppendChunk(s, c, o, t, korean)
    PROVE  CaptionsInv' /\ VideoRises /\ Moves
<1>1. UNCHANGED <<video, shown, indexed, work, subscribed, attached, attaching, run>>
      /\ owner' = [owner EXCEPT ![s] = c]
  BY DEF AppendChunk
<1>2. TableOK(captions) /\ Pointers /\ Runs /\ RequestTypes /\ SessionsHaveCaptions
  BY Parts, InvHasPointers
<1>3. Moves /\ <<s, "speech">> \in Rows(captions')
  BY <1>2, AppendChunkMoves
<1>4. PointersInOrder' /\ VideoRises
  BY <1>1, <1>2, <1>3, PointersStay
<1>5. RequestTypes'
  BY <1>1, <1>2 DEF RequestTypes
<1>6. SessionsHaveCaptions'
  <2>1. ASSUME NEW z \in Session, owner'[z] # Null PROVE <<z, "speech">> \in Rows(captions')
    <3>1. CASE z = s
      BY <1>3, <3>1
    <3>2. CASE z # s
      <4>1. owner[z] # Null
        BY <1>1, <1>2, <2>1, <3>2 DEF RequestTypes
      <4> QED BY <1>2, <1>3, <4>1 DEF SessionsHaveCaptions, Moves, Onwards
    <3> QED BY <3>1, <3>2
  <2> QED BY <2>1 DEF SessionsHaveCaptions
<1>7. Runs'
  BY <1>1, <1>2, <1>3, RunsStay
<1> QED BY <1>3, <1>4, <1>5, <1>6, <1>7, PartsNext

LEMMA FinalizeKeeps ==
    ASSUME CaptionsInv, NEW s \in Session, Finalize(s)
    PROVE  CaptionsInv' /\ VideoRises /\ Moves
<1>1. UNCHANGED <<work, subscribed, attached, attaching, owner, run>>
  BY DEF Finalize
<1>2. TableOK(captions) /\ Pointers /\ Runs /\ RequestTypes /\ SessionsHaveCaptions
  BY Parts, InvHasPointers
<1>3. Moves /\ VideoRises /\ PointersInOrder'
  BY <1>2, FinalizeStep
<1>4. SessionsHaveCaptions' /\ Runs'
  BY <1>1, <1>2, <1>3, SessionsStay, RunsStay
<1>5. RequestTypes'
  <2> DEFINE now == [source |-> <<s, "speech">>,
                     translation |-> IF captions[<<s, "translation">>].status # "absent"
                                     THEN <<s, "translation">> ELSE Null]
  <2>1. /\ owner[s] # Null
        /\ shown' = shown \/ shown' = [shown EXCEPT ![owner[s]] = now]
        /\ indexed' = indexed \/ indexed' = [indexed EXCEPT ![owner[s]] = now]
    BY DEF Finalize
  <2>2. now \in Shown
    BY ArtifactKinds DEF Shown, Pointer
  <2> HIDE DEF now
  <2>3. shown' \in [Context -> Shown]
    BY <1>2, <2>1, <2>2 DEF RequestTypes
  <2>5. indexed' \in [Context -> Shown \cup {Null}]
    <3>1. indexed \in [Context -> Shown \cup {Null}] /\ now \in Shown \cup {Null}
      BY <1>2, <2>2 DEF RequestTypes
    <3>2. CASE indexed' = [indexed EXCEPT ![owner[s]] = now]
      BY ONLY <3>1, <3>2
    <3>3. CASE indexed' = indexed
      BY ONLY <3>1, <3>3
    <3> QED BY <2>1, <3>2, <3>3
  <2>4. video' \in Pointer
    BY <1>3 DEF VideoRises
  <2> QED BY <1>1, <1>2, <2>3, <2>4, <2>5 DEF RequestTypes
<1> QED BY <1>3, <1>4, <1>5, PartsNext

LEMMA CaptionsStep ==
    ASSUME CaptionsInv, CaptionsNext
    PROVE  CaptionsInv' /\ VideoRises /\ Moves
<1>1. ASSUME NEW w \in Work, JobStep(w) PROVE CaptionsInv' /\ VideoRises /\ Moves
  BY <1>1, FetchStep, CreateStep, AppendStep, PublishStep, CommitStep, FailStep,
     AnnounceStep, FailsStep DEF JobStep
<1>2. ASSUME Intake PROVE CaptionsInv' /\ VideoRises /\ Moves
  BY <1>2, JoinStep, AttachStep DEF Intake
<1>3. ASSUME Live PROVE CaptionsInv' /\ VideoRises /\ Moves
  BY <1>3, ChunkStep, FinalizeKeeps DEF Live
<1> QED BY <1>1, <1>2, <1>3 DEF CaptionsNext

LEMMA CaptionsStart == CaptionsInit => CaptionsInv
<1> SUFFICES ASSUME CaptionsInit PROVE CaptionsInv
  OBVIOUS
<1>1. captions = [a \in Artifact |-> Absent]
  BY DEF CaptionsInit
<1>2. Absent \in Row /\ Absent.status = "absent" /\ Absent.generation = 0
  <2>1. 0 \in 0 .. Cardinality(Artifact)
    BY ArtifactsAreFinite
  <2> QED BY <2>1 DEF Absent, Row, Pointer
<1>3. captions \in [Artifact -> Row] /\ Rows(captions) = {}
  BY <1>1, <1>2 DEF Rows
<1>4. Counted(captions)
  <2>1. {captions[a].generation : a \in Rows(captions)} = {} /\ Cardinality(Rows(captions)) = 0
    BY <1>3, FS_EmptySet
  <2> QED BY <2>1 DEF Counted
<1>5. LineageIn(captions)
  BY <1>1, <1>2, <1>3 DEF LineageIn
<1>6. PointersInOrder
  BY DEF CaptionsInit, Nothing, PointersInOrder, ContextInOrder, SeenOf, IsSource, IsTranslation,
         GenerationIn
<1>7. RequestTypes
  <2>1. Nothing \in Shown
    BY DEF Nothing, Shown, Pointer
  <2>2. subscribed \in [Work -> [Context -> {"none", "reserved", "committed", "released"}]]
    BY DEF CaptionsInit
  <2>3. Null \in Pointer
    BY DEF Pointer
  <2>4. work \in [Work -> {"reserved", "committed", "released"}]
    BY DEF CaptionsInit
  <2> QED BY <2>1, <2>2, <2>3, <2>4 DEF CaptionsInit, RequestTypes
<1>8. SessionsHaveCaptions
  BY DEF CaptionsInit, SessionsHaveCaptions
<1>9. Runs
  <2>1. Idle.at = "waiting" /\ Idle.part = "source"
    BY DEF Idle
  <2>2. \A w \in Work : RunInOrder(captions, w, Idle)
    BY <2>1 DEF RunInOrder
  <2> QED BY <2>2, IdleRun DEF CaptionsInit, Runs
<1> QED BY <1>3, <1>4, <1>5, <1>6, <1>7, <1>8, <1>9, Parts DEF TableOK

LEMMA CaptionsStutter ==
    ASSUME CaptionsInv, UNCHANGED artifactVars
    PROVE  CaptionsInv' /\ VideoRises /\ Moves
<1>1. UNCHANGED <<captions, video, shown, indexed, work, subscribed, attached, attaching, owner, run>>
  BY DEF artifactVars
<1>2. RequestTypes'
  BY <1>1, Parts DEF RequestTypes
<1>3. Moves => Runs'
  BY <1>1, Parts, RunsStay
<1> QED BY <1>1, <1>2, <1>3, ShowsTheSame

-----------------------------------------------------------------------------
(***************************************************************************)
(* Theorems about the captions of a video.                                 *)
(***************************************************************************)

\* Whatever jobs, requests and live sessions do to the captions of a video,
\* and in whatever order, the table, the pointers and what executions have
\* written agree (postgres-caption-artifact.repository.ts).
THEOREM CaptionsCorrect == CaptionsSpec => []CaptionsInv
<1>1. CaptionsInv /\ [CaptionsNext]_artifactVars => CaptionsInv'
  BY CaptionsStep, CaptionsStutter
<1> QED BY CaptionsStart, <1>1, PTL DEF CaptionsSpec

\* The tables and the pointers keep to their types, and the generations of the
\* captions of a video are numbered without a gap.
THEOREM CaptionsTyped == CaptionsSpec => []CaptionsTypeOK
<1>1. CaptionsInv => CaptionsTypeOK
  BY DEF CaptionsInv
<1> QED BY CaptionsCorrect, <1>1, PTL

\* No learner is shown captions newer than those of the video, so the update of
\* the contexts by a job, which compares no generation, takes nothing back.
THEOREM LearnersAreNeverAhead == CaptionsSpec => []ContextNeverAhead
<1>1. CaptionsInv => ContextNeverAhead
  BY DEF CaptionsInv, PointersInOrder, ContextInOrder, SeenOf, ContextNeverAhead, Generation
<1> QED BY CaptionsCorrect, <1>1, PTL

\* What the video or a learner is shown has been published, and is of its kind.
THEOREM OnlyPublishedIsShown == CaptionsSpec => []ShownIsReady
<1>1. CaptionsInv => ShownIsReady
  BY DEF CaptionsInv, PointersInOrder, ContextInOrder, SeenOf, ShownIsReady, IsSource,
         IsTranslation
<1> QED BY CaptionsCorrect, <1>1, PTL

\* An execution that goes on from a publication has published its answer, batch
\* for batch, whatever earlier executions were answered and wrote.
THEOREM AnswersArePublished == CaptionsSpec => []PublishedAsAnswered
<1>1. CaptionsInv => PublishedAsAnswered
  <2> SUFFICES ASSUME CaptionsInv, NEW w \in Work, NEW part \in Part,
                      \/ /\ run[w].at \in {"committing", "announcing", "pending"}
                         /\ part = "source" \/ run[w].part = "translation"
                      \/ part = "source" /\ run[w].part = "translation",
                      NEW o \in DOMAIN run[w].words
               PROVE  captions[IF part = "source" THEN Source(w) ELSE <<w, "translation">>]
                          .segment[o] = run[w].words[o]
    BY DEF PublishedAsAnswered
  <2>1. /\ run[w] \in CaptionJob /\ RunInOrder(captions, w, run[w])
        /\ Source(w) = <<w, run[w].kind>>
    BY Writes
  <2>2. o \in 1 .. Len(run[w].words)
    <3>1. run[w].words \in Seq(Word)
      <4>1. run[w].words \in Answer \cup {<<>>} /\ <<>> \in Seq(Word)
        BY <2>1 DEF CaptionJob
      <4> QED BY <4>1, Answers
    <3> QED BY <3>1
  <2>3. run[w].part \in {"source", "translation"} /\ part \in {"source", "translation"}
    BY <2>1 DEF CaptionJob, Part
  <2> QED BY <2>1, <2>2, <2>3 DEF RunInOrder, Holds
<1> QED BY CaptionsCorrect, <1>1, PTL

\* The captions a video shows are never replaced by older ones, although jobs
\* and sessions write at their own pace and end in any order.
THEOREM VideoGoesOn == CaptionsSpec => VideoNeverGoesBack
<1>1. CaptionsInv /\ [CaptionsNext]_artifactVars => Generation(video) <= Generation(video)'
  BY CaptionsStep, CaptionsStutter DEF VideoRises, Generation
<1>2. CaptionsInv /\ [CaptionsNext]_artifactVars
         => [Generation(video) <= Generation(video)']_artifactVars
  BY <1>1
<1> QED BY CaptionsCorrect, <1>2, PTL DEF CaptionsSpec, VideoNeverGoesBack

-----------------------------------------------------------------------------
USE DEF Jobs!TerminalCode, Jobs!FailureCode, Jobs!Verdict, Jobs!SlotPc

-----------------------------------------------------------------------------
(***************************************************************************)
(* What the rows and the captions can go through.                          *)
(***************************************************************************)
RowShapes ==
    /\ kind \in [Material -> {"quiz", "overview"}]
    /\ row \in [Material -> {None, "generating", "ready", "failed", "evaluated", "stale"}]
    /\ artifact \in [Material -> Nat]
    /\ content \in [Material -> (Job \X Nat) \cup {None}]
    /\ graded \in [Material -> (Job \X Nat) \cup {None}]
    /\ source \in Nat /\ translation \in Nat
    /\ moved \subseteq Material

\* A row that is written, and what becomes of its state, content and grades.
Written(m, r, c, g) ==
    /\ row' = [row EXCEPT ![m] = r]
    /\ content' = [content EXCEPT ![m] = c]
    /\ graded' = [graded EXCEPT ![m] = g]
    /\ UNCHANGED <<kind, captionVars>>

RowEffect(m) ==
    \/ /\ row[m] = None /\ source # 0
       /\ Written(m, "generating", content[m], graded[m])
       /\ artifact' = [artifact EXCEPT ![m] = Effective]
    \/ /\ kind[m] = "quiz" /\ row[m] # None
       /\ Written(m, "stale", content[m], graded[m])
       /\ UNCHANGED artifact
    \/ /\ kind[m] = "quiz" /\ row[m] = "ready"
       /\ Written(m, "evaluated", content[m], content[m])
       /\ UNCHANGED artifact
    \/ /\ row[m] = "generating"
       /\ Written(m, "failed", content[m], graded[m])
       /\ UNCHANGED artifact
    \/ /\ CanFill(m)
       /\ \E x \in Job \X Nat : Written(m, "ready", x, graded[m])
       /\ UNCHANGED artifact

CaptionEffect ==
    /\ UNCHANGED rowVars
    /\ source' \in Nat /\ translation' \in Nat
    /\ moved' = moved \cup {m \in Material : row[m] # None /\ artifact[m] # Effective'}

MaterialEffect ==
    \/ \E m \in Material : RowEffect(m)
    \/ CaptionEffect
    \/ UNCHANGED <<rowVars, captionVars>>

\* A row is not forgotten, taken back or emptied once it is answered.
Onward(m) ==
    /\ kind'[m] = kind[m]
    /\ row[m] # None => row'[m] # None
    /\ row[m] \notin {None, "generating"} => row'[m] \notin {None, "generating"}
    /\ row[m] \in {"failed", "stale"} => row'[m] \in {"failed", "stale"}
    /\ kind[m] = "overview" /\ row[m] = "ready" => row'[m] = "ready"
    /\ content[m] # None => content'[m] = content[m]
    /\ graded[m] # None => graded'[m] = graded[m]
    /\ m \in moved => m \in moved'

LEMMA RowStep ==
    ASSUME RowShapes, \A m \in Material : RowInOrder(m), MaterialEffect
    PROVE  /\ RowShapes'
           /\ \A m \in Material : RowInOrder(m)' /\ Onward(m)
<1> USE MaterialConstants
<1>1. ASSUME NEW x \in Material, RowEffect(x)
      PROVE  RowShapes' /\ \A m \in Material : RowInOrder(m)' /\ Onward(m)
  <2>0. Effective \in Nat /\ content[x] \in (Job \X Nat) \cup {None}
        /\ graded[x] \in (Job \X Nat) \cup {None} /\ Effective' = Effective /\ moved' = moved
        /\ kind' = kind /\ RowInOrder(x)
    BY <1>1 DEF RowShapes, Effective, RowEffect, Written, captionVars
  <2>1. RowShapes'
    BY <1>1, <2>0 DEF RowShapes, RowEffect, Written, captionVars
  <2>2. ASSUME NEW m \in Material, m # x PROVE RowInOrder(m)' /\ Onward(m)
    <3>1. /\ row'[m] = row[m] /\ content'[m] = content[m] /\ graded'[m] = graded[m]
          /\ artifact'[m] = artifact[m]
      BY <1>1, <2>2 DEF RowShapes, RowEffect, Written
    <3> QED BY <2>0, <3>1 DEF RowInOrder, Onward, IsCurrent
  <2>3. RowInOrder(x)' /\ Onward(x)
    <3>1. CASE row[x] = None /\ Written(x, "generating", content[x], graded[x])
                 /\ artifact' = [artifact EXCEPT ![x] = Effective]
      <4>1. row'[x] = "generating" /\ content'[x] = content[x] /\ graded'[x] = graded[x]
            /\ artifact'[x] = Effective
        BY <3>1 DEF RowShapes, Written
      <4> QED BY <2>0, <3>1, <4>1 DEF RowInOrder, Onward, IsCurrent
    <3>2. CASE kind[x] = "quiz" /\ row[x] # None /\ Written(x, "stale", content[x], graded[x])
                 /\ UNCHANGED artifact
      <4>1. row'[x] = "stale" /\ content'[x] = content[x] /\ graded'[x] = graded[x]
        BY <3>2 DEF RowShapes, Written
      <4> QED BY <2>0, <3>2, <4>1 DEF RowInOrder, Onward, IsCurrent
    <3>3. CASE kind[x] = "quiz" /\ row[x] = "ready"
                 /\ Written(x, "evaluated", content[x], content[x]) /\ UNCHANGED artifact
      <4>1. row'[x] = "evaluated" /\ content'[x] = content[x] /\ graded'[x] = content[x]
        BY <3>3 DEF RowShapes, Written
      <4> QED BY <2>0, <3>3, <4>1 DEF RowInOrder, Onward, IsCurrent
    <3>4. CASE row[x] = "generating" /\ Written(x, "failed", content[x], graded[x])
                 /\ UNCHANGED artifact
      <4>1. row'[x] = "failed" /\ content'[x] = content[x] /\ graded'[x] = graded[x]
        BY <3>4 DEF RowShapes, Written
      <4> QED BY <2>0, <3>4, <4>1 DEF RowInOrder, Onward, IsCurrent
    <3>5. CASE CanFill(x) /\ (\E c \in Job \X Nat : Written(x, "ready", c, graded[x]))
                 /\ UNCHANGED artifact
      <4>1. PICK c \in Job \X Nat : Written(x, "ready", c, graded[x])
        BY <3>5
      <4>2. row'[x] = "ready" /\ content'[x] = c /\ graded'[x] = graded[x] /\ c # None
        BY <4>1 DEF RowShapes, Written
      <4>3. row[x] = "generating"
        BY <3>5 DEF CanFill
      <4> QED BY <2>0, <3>5, <4>2, <4>3 DEF RowInOrder, Onward, IsCurrent
    <3> QED BY <1>1, <3>1, <3>2, <3>3, <3>4, <3>5 DEF RowEffect
  <2> QED BY <2>1, <2>2, <2>3
<1>2. CASE CaptionEffect
  <2>1. RowShapes'
    BY <1>2 DEF RowShapes, CaptionEffect, rowVars
  <2>2. ASSUME NEW m \in Material PROVE RowInOrder(m)' /\ Onward(m)
    <3>1. RowInOrder(m)
      OBVIOUS
    <3>2. /\ row'[m] = row[m] /\ content'[m] = content[m] /\ graded'[m] = graded[m]
          /\ artifact'[m] = artifact[m] /\ kind'[m] = kind[m]
          /\ m \in moved => m \in moved'
          /\ m \notin moved' => row[m] = None \/ artifact[m] = Effective'
      BY <1>2 DEF CaptionEffect, rowVars
    <3> QED BY <3>1, <3>2 DEF RowInOrder, Onward, IsCurrent
  <2> QED BY <2>1, <2>2
<1>3. CASE UNCHANGED <<rowVars, captionVars>>
  BY <1>3 DEF RowShapes, RowInOrder, Onward, IsCurrent, Effective, rowVars, captionVars
<1> QED BY <1>1, <1>2, <1>3 DEF MaterialEffect

-----------------------------------------------------------------------------
(***************************************************************************)
(* Every step does one of these things to the rows.                        *)
(***************************************************************************)
JobShapes ==
    /\ jobState \in [Job -> {"absent", "waiting", "active", "completed", "failed"}]
    /\ lockOwner \in [Job -> Slot \cup {None}]
    /\ attemptsMade \in [Job -> Nat]
    /\ issued \in [Job -> Nat]
    /\ result \in [Job -> {"succeeded", None} \cup Jobs!TerminalCode]
    /\ deadLetter \in [Job -> Jobs!FailureCode \cup {None}]
    /\ untold \subseteq Job

SlotShapes ==
    /\ pc \in [Slot -> Jobs!SlotPc]
    /\ job \in [Slot -> Job \cup {None}]
    /\ token \in [Slot -> Nat]
    /\ final \in [Slot -> BOOLEAN]
    /\ verdict \in [Slot -> Jobs!Verdict \cup {None}]
    /\ step \in [Slot -> HandlerStep]

Shapes == RowShapes /\ JobShapes /\ SlotShapes

\* A slot that is at work works on the job of a material.
LEMMA BusySlot ==
    ASSUME Shapes, NEW s \in Slot, StepInPlace(s), pc[s] # "idle"
    PROVE  job[s] \in Job /\ Of(s) \in Material /\ job[s][1] = Of(s)
BY DEF Shapes, SlotShapes, StepInPlace, Of, Job

\* What the steps of a slot do to the row of its job.
SlotAction(s) ==
    \/ Acquire(s) \/ Load(s) \/ GenerateFails(s) \/ Refuse(s) \/ Save(s) \/ SaveFails(s)
    \/ TaskEnds(s) \/ Execute(s) \/ ExecuteFails(s) \/ CatchFinal(s) \/ CatchFails(s)
    \/ Settle(s) \/ Report(s) \/ Crash(s)

QueueAction(k) == Enqueue(k) \/ RelayGivesUp(k) \/ Stalled(k) \/ Expire(k)

LEMMA NextCases ==
    ASSUME [Next]_vars
    PROVE  \/ NewCaptions
           \/ \E m \in Material : Request(m) \/ Look(m) \/ Submit(m)
           \/ \E k \in Job : QueueAction(k)
           \/ \E s \in Slot, k \in Job : Start(s, k)
           \/ \E s \in Slot : SlotAction(s)
           \/ UNCHANGED vars
BY DEF Next, MaterialNext, SlotStep, SlotAction, QueueAction

LEMMA CaptionsMove ==
    ASSUME Shapes, NewCaptions
    PROVE  CaptionEffect /\ UNCHANGED <<jobVars, step, untold>>
<1>1. \A g, t : Shows(g, t) /\ g \in Nat /\ t \in Nat =>
          CaptionEffect /\ UNCHANGED <<jobVars, step, untold>>
  BY DEF Shows, CaptionEffect
<1>2. source \in Nat /\ translation \in Nat /\ Effective \in Nat /\ MaxGeneration \in Nat
  BY MaterialConstants DEF Shapes, RowShapes, Effective
<1>3. ASSUME NEW g \in Nat, NEW t \in TranslationsOf(g) PROVE t \in Nat
  BY <1>2 DEF TranslationsOf
<1>4. \E g \in Nat : \E t \in Nat : Shows(g, t)
  BY <1>2, <1>3 DEF NewCaptions, PublishSource, PublishTranslation, FinalizeLive, AttachContext
<1> QED BY <1>1, <1>4

LEMMA LearnerWrites ==
    ASSUME Shapes, NEW m \in Material, Request(m) \/ Look(m) \/ Submit(m)
    PROVE  RowEffect(m) /\ UNCHANGED <<jobVars, step, untold>>
<1>1. content = [content EXCEPT ![m] = content[m]] /\ graded = [graded EXCEPT ![m] = graded[m]]
  BY DEF Shapes, RowShapes
<1>2. CASE Request(m)
  BY <1>1, <1>2 DEF Request, RowEffect, Written
<1>3. CASE Look(m)
  BY <1>1, <1>3, MaterialConstants DEF Look, RowEffect, Written
<1>4. CASE Submit(m)
  BY <1>1, <1>4 DEF Submit, Answerable, RowEffect, Written
<1> QED BY <1>2, <1>3, <1>4

\* A failing row is written or left alone; a filled one is written.
LEMMA RowFails ==
    ASSUME Shapes, NEW m \in Material, FailRow(m),
           UNCHANGED <<kind, artifact, content, graded, captionVars>>
    PROVE  RowEffect(m) \/ UNCHANGED <<rowVars, captionVars>>
<1>1. content = [content EXCEPT ![m] = content[m]] /\ graded = [graded EXCEPT ![m] = graded[m]]
  BY DEF Shapes, RowShapes
<1> QED BY <1>1 DEF FailRow, RowEffect, Written, rowVars

LEMMA RowFills ==
    ASSUME Shapes, NEW s \in Slot, job[s] \in Job, Of(s) \in Material, CanFill(Of(s)), Fill(s),
           UNCHANGED <<kind, artifact, graded, captionVars>>
    PROVE  RowEffect(Of(s))
<1>1. graded = [graded EXCEPT ![Of(s)] = graded[Of(s)]]
  BY DEF Shapes, RowShapes
<1>2. Execution(s) \in Job \X Nat
  BY DEF Execution, Shapes, SlotShapes
<1> QED BY <1>1, <1>2 DEF Fill, RowEffect, Written

LEMMA SlotWrites ==
    ASSUME Shapes, NEW s \in Slot, StepInPlace(s), SlotAction(s)
    PROVE  MaterialEffect
<1> USE DEF MaterialEffect
<1>1. CASE Refuse(s) \/ Save(s) \/ SaveFails(s)
  <2>1. job[s] \in Job /\ Of(s) \in Material
    BY <1>1, BusySlot DEF Refuse, Save, SaveFails, Answered
  <2>2. CASE Refuse(s)
    BY <2>1, <2>2, RowFails DEF Refuse
  <2>3. CASE Save(s)
    BY <2>1, <2>3, RowFills DEF Save, rowVars
  <2>4. CASE SaveFails(s)
    BY <2>1, <2>4, RowFills DEF SaveFails, rowVars
  <2> QED BY <1>1, <2>2, <2>3, <2>4
<1>2. CASE CatchFinal(s) \/ CatchFails(s)
  <2>1. Of(s) \in Material
    BY <1>2, BusySlot DEF CatchFinal, CatchFails, MustFailRow
  <2>2. CASE CatchFinal(s)
    BY <2>1, <2>2, RowFails DEF CatchFinal
  <2>3. CASE CatchFails(s)
    BY <2>1, <2>3, RowFails DEF CatchFails, rowVars
  <2> QED BY <1>2, <2>2, <2>3
<1>3. CASE Acquire(s) \/ Load(s) \/ GenerateFails(s) \/ TaskEnds(s) \/ Execute(s) \/ ExecuteFails(s)
  BY <1>3 DEF Acquire, Load, GenerateFails, TaskEnds, Execute, ExecuteFails
<1>4. CASE Settle(s) \/ Report(s) \/ Crash(s)
  BY <1>4 DEF Settle, Report, Crash
<1> QED BY <1>1, <1>2, <1>3, <1>4 DEF SlotAction

LEMMA MaterialEffects ==
    ASSUME Shapes, \A s \in Slot : StepInPlace(s), [Next]_vars
    PROVE  MaterialEffect
<1>1. ASSUME NEW k \in Job, QueueAction(k) PROVE MaterialEffect
  BY <1>1 DEF QueueAction, Enqueue, RelayGivesUp, Stalled, Expire, MaterialEffect
<1>2. ASSUME NEW s \in Slot, NEW k \in Job, Start(s, k) PROVE MaterialEffect
  BY <1>2 DEF Start, MaterialEffect
<1>3. CASE UNCHANGED vars
  BY <1>3 DEF vars, MaterialEffect
<1> QED BY NextCases, CaptionsMove, LearnerWrites, SlotWrites, <1>1, <1>2, <1>3 DEF MaterialEffect

-----------------------------------------------------------------------------
(***************************************************************************)
(* What the steps do to the slots: the one that acts stays at work or      *)
(* rests, and the others do not notice.                                    *)
(***************************************************************************)
Stays(s, p, v, l) ==
    /\ pc' = [pc EXCEPT ![s] = p]
    /\ verdict' = [verdict EXCEPT ![s] = v]
    /\ step' = [step EXCEPT ![s] = l]
    /\ UNCHANGED <<job, final>>

RestsNow(s) ==
    /\ pc' = [pc EXCEPT ![s] = "idle"]
    /\ verdict' = [verdict EXCEPT ![s] = None]
    /\ step' = [step EXCEPT ![s] = "idle"]
    /\ job' = [job EXCEPT ![s] = None]
    /\ final' = [final EXCEPT ![s] = FALSE]

Starts(s, k) ==
    /\ pc[s] = "idle"
    /\ pc' = [pc EXCEPT ![s] = "acquiring"]
    /\ job' = [job EXCEPT ![s] = k]
    /\ final' = [final EXCEPT ![s] = attemptsMade[k] + 1 >= MaxAttempts]
    /\ UNCHANGED <<verdict, step>>

\* The queue is not touched.
QueueSame == UNCHANGED <<jobState, lockOwner, attemptsMade>>

\* Nothing but the slots, the row and the claim is.
Private == QueueSame /\ UNCHANGED <<result, deadLetter>>

\* Where an executor's step leaves the slot.
ExecutorMove(s) ==
    \/ /\ pc[s] = "acquiring" /\ Private /\ UNCHANGED untold
       /\ \/ result[job[s]] # None /\ Stays(s, "settling", result[job[s]], "idle")
          \/ Stays(s, "running", verdict[s], "load")
          \/ Stays(s, "reporting", "error", "idle")
          \/ Stays(s, "reporting", "error", step[s])
    \/ /\ pc[s] = "running" /\ step[s] \in Outcome /\ Private /\ UNCHANGED untold
       /\ \/ Stays(s, "releasing", "error", "idle")
          \/ final[s] /\ Stays(s, "completing", ExhaustedCode, "idle")
          \/ step[s] # "error" /\ Stays(s, "completing", step[s], "idle")
    \/ /\ pc[s] = "running" /\ Private /\ UNCHANGED untold
       /\ Stays(s, "running", verdict[s], step[s])
    \/ /\ pc[s] = "completing" /\ QueueSame /\ UNCHANGED untold
       /\ \/ Jobs!RecordResult(job[s], verdict[s]) \/ UNCHANGED <<result, deadLetter>>
       /\ \/ Stays(s, "settling", verdict[s], step[s])
          \/ Stays(s, "releasing", "error", step[s])
    \/ /\ pc[s] = "releasing" /\ Private /\ UNCHANGED untold
       /\ Stays(s, "reporting", verdict[s], step[s])

LEMMA ExecutorMoves ==
    ASSUME Shapes, NEW s \in Slot,
           Acquire(s) \/ TaskEnds(s) \/ Execute(s) \/ ExecuteFails(s)
    PROVE  ExecutorMove(s) /\ UNCHANGED <<rowVars, captionVars>>
<1>0. /\ pc = [pc EXCEPT ![s] = pc[s]]
      /\ verdict = [verdict EXCEPT ![s] = verdict[s]]
      /\ step = [step EXCEPT ![s] = step[s]]
      /\ pc[s] \in Jobs!SlotPc
  BY DEF Shapes, SlotShapes
<1>1. CASE Acquire(s)
  <2>1. UNCHANGED <<jobState, lockOwner, attemptsMade, result, deadLetter, untold, job, final,
                    rowVars, captionVars>> /\ pc[s] = "acquiring"
    BY <1>1 DEF Acquire, Jobs!Acquire, Jobs!Goto, Jobs!bullVars, Jobs!recordVars
  <2>2. CASE /\ result[job[s]] # None /\ Jobs!Goto(s, "settling")
             /\ verdict' = [verdict EXCEPT ![s] = result[job[s]]]
    <3>1. pc'[s] # "running" /\ step' = [step EXCEPT ![s] = "idle"]
      BY <1>0, <1>1, <2>2 DEF Acquire, At, Jobs!Goto, Shapes, SlotShapes
    <3> QED BY <2>1, <2>2, <3>1 DEF ExecutorMove, Private, QueueSame, Stays, Jobs!Goto
  <2>3. CASE pc' = [pc EXCEPT ![s] = "running"] /\ UNCHANGED <<job, final, leaseLost, verdict>>
    <3>1. pc'[s] = "running" /\ step' = [step EXCEPT ![s] = "load"]
      BY <1>0, <1>1, <2>3 DEF Acquire, At, Shapes, SlotShapes
    <3> QED BY <1>0, <2>1, <2>3, <3>1 DEF ExecutorMove, Private, QueueSame, Stays
  <2>4. CASE /\ Jobs!Goto(s, "reporting") /\ verdict' = [verdict EXCEPT ![s] = "error"]
    <3>1. pc'[s] # "running" /\ step' = [step EXCEPT ![s] = "idle"]
      BY <1>0, <1>1, <2>4 DEF Acquire, At, Jobs!Goto, Shapes, SlotShapes
    <3> QED BY <2>1, <2>4, <3>1 DEF ExecutorMove, Private, QueueSame, Stays, Jobs!Goto
  <2> QED BY <1>1, <2>2, <2>3, <2>4 DEF Acquire, Jobs!Acquire
<1>2. CASE TaskEnds(s)
  <2>1. /\ pc[s] = "running" /\ step[s] \in Outcome
        /\ UNCHANGED <<jobState, lockOwner, attemptsMade, result, deadLetter, untold, job, final,
                       rowVars, captionVars>>
        /\ step' = [step EXCEPT ![s] = "idle"]
    BY <1>2 DEF TaskEnds, At, Jobs!TaskEnds, Jobs!Goto, Jobs!bullVars, Jobs!recordVars
  <2>2. PICK v \in {"succeeded", "error"} \cup TaskFailure :
           /\ verdict' = [verdict EXCEPT ![s] = Jobs!Thrown(s, v)]
           /\ pc' = [pc EXCEPT ![s] =
                IF Jobs!Thrown(s, v) = "error" THEN "releasing" ELSE "completing"]
    BY <1>2 DEF TaskEnds, Jobs!TaskEnds, Jobs!Goto
  <2>3. verdict' = [verdict EXCEPT ![s] = Jobs!Thrown(s, step[s])]
        /\ Jobs!Thrown(s, v) = Jobs!Thrown(s, step[s])
    BY <1>2, <2>2 DEF TaskEnds, Shapes, SlotShapes
  <2>4. /\ Jobs!Thrown(s, step[s]) = "error"
        \/ /\ Jobs!Thrown(s, step[s]) = ExhaustedCode /\ final[s] /\ ExhaustedCode # "error"
        \/ /\ Jobs!Thrown(s, step[s]) = step[s] /\ step[s] # "error"
    BY MaterialConstants DEF Jobs!Thrown, Jobs!Exhausted
  <2> HIDE DEF Jobs!Thrown
  <2> QED BY <2>1, <2>2, <2>3, <2>4 DEF ExecutorMove, Private, QueueSame, Stays
<1>3. CASE Execute(s)
  BY <1>0, <1>3 DEF Execute, Jobs!Complete, Jobs!Release, Jobs!Goto, ExecutorMove, Private,
        QueueSame, Stays, Jobs!bullVars, Jobs!recordVars
<1>4. CASE ExecuteFails(s)
  BY <1>0, <1>4 DEF ExecuteFails, Jobs!AcquireFails, Jobs!CompleteFails, Jobs!ReleaseFails,
        Jobs!LoseLease, Jobs!Goto, ExecutorMove, Private, QueueSame, Stays, Jobs!bullVars,
        Jobs!recordVars
<1> QED BY <1>1, <1>2, <1>3, <1>4

\* Where a step of the handler leaves it: what it says then is true of the row,
\* and on a final attempt the row is not left waiting.
HandlerMove(s) ==
    \/ /\ pc[s] = "running" /\ Private /\ UNCHANGED untold
       /\ \E l \in HandlerStep \ {"idle", "handled"} :
             /\ Stays(s, "running", verdict[s], l)
             /\ l \in Outcome => Earned(l, job[s])'
    \/ /\ pc[s] \in {"settling", "reporting"} /\ Private /\ untold \subseteq untold'
       /\ untold' \subseteq Job
       /\ \E p \in {"settling", "reporting"}, v \in {verdict[s], "error"} :
             Stays(s, p, v, "handled")
       /\ final[s] => NotWaiting(Of(s))'

\* A row that an execution has tried to fail is not generating.
LEMMA FailedRow ==
    ASSUME Shapes, NEW m \in Material, FailRow(m)
    PROVE  row'[m] # "generating" /\ (row[m] # None => row'[m] # None)
BY MaterialConstants DEF Shapes, RowShapes, FailRow

LEMMA TaskMoves ==
    ASSUME Shapes, NEW s \in Slot, StepInPlace(s), SlotEarned(s),
           \A m \in Material : RowInOrder(m) /\ Onward(m) /\ RowInOrder(m)',
           Load(s) \/ GenerateFails(s) \/ Refuse(s) \/ Save(s) \/ SaveFails(s)
    PROVE  HandlerMove(s)
<1>a. pc[s] = "running"
  BY DEF Load, GenerateFails, Refuse, Save, SaveFails, Answered
<1>b. PICK m \in Material : m = Of(s) /\ m = job[s][1] /\ job[s] \in Job
  BY <1>a, BusySlot
<1>0. /\ pc[s] = "running" /\ Of(s) = m /\ job[s] \in Job /\ job[s][1] = m
      /\ RowInOrder(m) /\ Onward(m) /\ RowInOrder(m)' /\ row[m] # None
      /\ row[m] \in {None, "generating", "ready", "failed", "evaluated", "stale"}
      /\ kind[m] \in {"quiz", "overview"} /\ kind'[m] = kind[m]
  BY <1>a, <1>b DEF SlotEarned, Onward, Shapes, RowShapes
<1>1. Private /\ UNCHANGED <<untold, job, final>>
  BY DEF Load, GenerateFails, Refuse, Save, SaveFails, Private, QueueSame, jobVars
<1>2. pc' = [pc EXCEPT ![s] = "running"] /\ verdict' = [verdict EXCEPT ![s] = verdict[s]]
  BY <1>0 DEF Load, GenerateFails, Refuse, Save, SaveFails, jobVars, Shapes, SlotShapes
<1> DEFINE Right(l) == At(s, l) /\ (l \in Outcome => Earned(l, job[s])')
<1>3. ASSUME NEW l \in HandlerStep \ {"idle", "handled"}, Right(l) PROVE HandlerMove(s)
  BY <1>0, <1>1, <1>2, <1>3 DEF HandlerMove, Stays, At
<1>4. Right("error") => HandlerMove(s)
  BY <1>3 DEF HandlerStep, Outcome
<1>5. At(s, "error") => Right("error")
  BY MaterialConstants DEF Earned
<1>6. CASE GenerateFails(s) \/ SaveFails(s)
  BY <1>4, <1>5, <1>6 DEF GenerateFails, SaveFails
<1>7. CASE Load(s)
  <2>1. row' = row /\ content' = content /\ job' = job
    BY <1>7 DEF Load, rowVars, jobVars
  <2>2. CASE row[m] \in Generated(m) /\ At(s, "succeeded")
    <3>1. content[m] # None
      BY <1>0, <2>2 DEF Generated, RowInOrder
    <3>2. Right("succeeded")
      BY <1>0, <2>1, <2>2, <3>1, MaterialConstants DEF Earned, TaskFailure
    <3> QED BY <1>3, <3>2 DEF HandlerStep, Outcome
  <2>3. CASE At(s, "generate")
    BY <1>3, <2>3 DEF HandlerStep, Outcome, TaskFailure
  <2>4. CASE row[m] \notin Generated(m) \cup {"generating"} /\ At(s, "NOT_GENERATABLE")
    <3>1. row[m] \in {"failed", "stale"}
      BY <1>0, <2>4 DEF Generated, RowInOrder
    <3>2. Right("NOT_GENERATABLE")
      BY <1>0, <2>1, <2>4, <3>1, MaterialConstants DEF Earned, TaskFailure
    <3> QED BY <1>3, <3>2 DEF HandlerStep, Outcome, TaskFailure
  <2> QED BY <1>0, <1>7, <2>2, <2>3, <2>4 DEF Load
<1>8. CASE Refuse(s)
  <2>1. row'[m] # "generating" /\ row'[m] # None /\ At(s, "INVALID_RESPONSE")
    BY <1>0, <1>8, FailedRow DEF Refuse
  <2>2. Right("INVALID_RESPONSE")
    BY <1>0, <1>1, <2>1, MaterialConstants DEF Earned, TaskFailure
  <2> QED BY <1>3, <2>2 DEF HandlerStep, Outcome, TaskFailure
<1>9. CASE Save(s)
  <2>1. CASE CanFill(m) /\ Fill(s) /\ At(s, "succeeded")
    <3>1. row'[m] = "ready"
      BY <1>0, <2>1 DEF Fill, Shapes, RowShapes
    <3>2. content'[m] # None
      BY <1>0, <3>1 DEF RowInOrder
    <3>3. Right("succeeded")
      BY <1>0, <1>1, <2>1, <3>2, MaterialConstants DEF Earned, TaskFailure
    <3> QED BY <1>3, <3>3 DEF HandlerStep, Outcome
  <2>2. CASE FilledBefore(m) /\ At(s, "succeeded") /\ UNCHANGED <<row, content>>
    <3>1. content'[m] # None
      BY <1>0, <2>2 DEF FilledBefore, RowInOrder
    <3>2. Right("succeeded")
      BY <1>0, <1>1, <2>2, <3>1, MaterialConstants DEF Earned, TaskFailure
    <3> QED BY <1>3, <3>2 DEF HandlerStep, Outcome
  <2>3. CASE /\ ~CanFill(m) /\ ~FilledBefore(m) /\ At(s, "CHECKPOINT_CONFLICT")
             /\ UNCHANGED <<row, content>>
    <3>1. \/ row'[m] \in {"failed", "stale"}
          \/ kind'[m] = "overview" /\ (row'[m] = "ready" \/ m \in moved')
      BY <1>0, <2>3 DEF CanFill, FilledBefore, RowInOrder, Onward
    <3>2. Right("CHECKPOINT_CONFLICT")
      BY <1>0, <1>1, <2>3, <3>1, MaterialConstants DEF Earned, TaskFailure
    <3> QED BY <1>3, <3>2 DEF HandlerStep, Outcome, TaskFailure
  <2> QED BY <1>0, <1>9, <2>1, <2>2, <2>3 DEF Save
<1> QED BY <1>6, <1>7, <1>8, <1>9

LEMMA EndMoves ==
    ASSUME Shapes, NEW s \in Slot, StepInPlace(s), SlotEarned(s),
           \A m \in Material : RowInOrder(m) /\ Onward(m),
           CatchFinal(s) \/ CatchFails(s) \/ Settle(s)
    PROVE  HandlerMove(s)
<1>a. pc[s] \in {"settling", "reporting"}
  BY DEF CatchFinal, CatchFails, Settle, MustFailRow, Jobs!Settle, Jobs!SettleFails
<1>b. PICK m \in Material : m = Of(s) /\ m = job[s][1] /\ job[s] \in Job
  BY <1>a, BusySlot
<1>0. /\ pc[s] \in {"settling", "reporting"} /\ Of(s) = m /\ job[s] \in Job /\ job[s][1] = m
      /\ RowInOrder(m) /\ Onward(m)
  BY <1>a, <1>b
<1>1. Private /\ untold \subseteq untold' /\ untold' \subseteq Job /\ UNCHANGED <<job, final>>
  BY <1>0 DEF CatchFinal, CatchFails, Settle, Jobs!Settle, Jobs!SettleFails, Jobs!Goto, Private,
        QueueSame, jobVars, Jobs!bullVars, Jobs!recordVars, Shapes, JobShapes
<1>2. \E p \in {"settling", "reporting"}, v \in {verdict[s], "error"} : Stays(s, p, v, "handled")
  <2>1. pc = [pc EXCEPT ![s] = pc[s]] /\ verdict = [verdict EXCEPT ![s] = verdict[s]]
    BY DEF Shapes, SlotShapes
  <2> QED BY <1>0, <2>1 DEF CatchFinal, CatchFails, Settle, Jobs!Settle, Jobs!SettleFails,
        Jobs!Goto, jobVars, Stays, At
<1>3. ASSUME final[s] PROVE NotWaiting(m)'
  <2>1. CASE CatchFinal(s)
    BY <1>0, <2>1, FailedRow DEF CatchFinal, NotWaiting
  <2>2. CASE CatchFails(s)
    BY <1>0, <2>2 DEF CatchFails, NotWaiting
  <2>3. CASE Settle(s)
    <3>1. row' = row /\ untold' = untold
      BY <2>3 DEF Settle, rowVars
    <3>2. verdict[s] = "succeeded" \/ step[s] = "handled"
      BY <1>0, <1>3, <2>3 DEF Settle, MustFailRow, LastAttempt
    <3>3. CASE verdict[s] = "succeeded"
      BY <1>0, <3>1, <3>3, MaterialConstants DEF SlotEarned, Earned, RowInOrder, NotWaiting
    <3>4. CASE step[s] = "handled"
      BY <1>0, <1>3, <3>1, <3>4 DEF SlotEarned, NotWaiting
    <3> QED BY <3>2, <3>3, <3>4
  <2> QED BY <2>1, <2>2, <2>3
<1>4. final[s] => NotWaiting(Of(s))'
  BY <1>0, <1>1, <1>3 DEF Of, NotWaiting
<1> QED BY <1>0, <1>1, <1>2, <1>4 DEF HandlerMove

-----------------------------------------------------------------------------
(***************************************************************************)
(* What has been earned stays so, and the slots keep to it.                *)
(***************************************************************************)
LEMMA EarnedStays ==
    ASSUME Shapes, NEW k \in Job, NEW v, Earned(v, k), Onward(k[1]),
           attemptsMade'[k] \in Nat, attemptsMade'[k] >= attemptsMade[k]
    PROVE  Earned(v, k)'
<1>1. attemptsMade[k] \in Nat /\ MaxAttempts \in Nat
  BY MaterialConstants DEF Shapes, JobShapes
<1> QED BY <1>1 DEF Earned, Onward

LEMMA NoWaitComesBack ==
    ASSUME NEW m \in Material, NotWaiting(m), row[m] # None, Onward(m), untold \subseteq untold'
    PROVE  NotWaiting(m)'
BY MaterialConstants DEF NotWaiting, Onward

\* Attempts are only counted up, and not under a slot that keeps its lock.
QueueOnward ==
    \A k \in Job :
        /\ attemptsMade'[k] \in Nat /\ attemptsMade'[k] >= attemptsMade[k]
        /\ \A t \in Slot : lockOwner'[k] = t =>
              \/ lockOwner[k] = t /\ attemptsMade'[k] = attemptsMade[k]
              \/ Starts(t, k)

LEMMA SameQueue ==
    ASSUME Shapes, QueueSame
    PROVE  QueueOnward
BY DEF Shapes, JobShapes, QueueSame, QueueOnward

\* A slot that does not act.
Keeps(t) ==
    /\ pc'[t] = pc[t] /\ job'[t] = job[t] /\ final'[t] = final[t]
    /\ verdict'[t] = verdict[t] /\ step'[t] = step[t]

LEMMA KeptSlot ==
    ASSUME Shapes, NEW t \in Slot, StepInPlace(t), SlotEarned(t), Keeps(t),
           \A m \in Material : Onward(m), QueueOnward, untold \subseteq untold'
    PROVE  StepInPlace(t)' /\ SlotEarned(t)'
<1>1. StepInPlace(t)'
  BY DEF StepInPlace, Keeps
<1>2. ASSUME pc[t] # "idle" PROVE SlotEarned(t)'
  <2>1. PICK k \in Job, m \in Material : k = job[t] /\ m = Of(t) /\ k[1] = m
    BY <1>2, BusySlot
  <2>2. PICK v : v = verdict[t]
    OBVIOUS
  <2>3. PICK l : l = step[t]
    OBVIOUS
  <2>4. Earned(v, k)' /\ (l \in Outcome => Earned(l, k)')
    BY <1>2, <2>1, <2>2, <2>3, EarnedStays DEF SlotEarned, QueueOnward
  <2>5. row'[m] # None /\ (NotWaiting(m) => NotWaiting(m)')
    BY <1>2, <2>1, NoWaitComesBack DEF SlotEarned, Onward
  <2>6. /\ attemptsMade'[k] >= attemptsMade[k] /\ attemptsMade'[k] \in Nat
        /\ attemptsMade[k] \in Nat /\ MaxAttempts \in Nat
        /\ lockOwner'[k] = t => lockOwner[k] = t /\ attemptsMade'[k] = attemptsMade[k]
    BY <1>2, <2>1, MaterialConstants DEF QueueOnward, Starts, Shapes, JobShapes
  <2>7. /\ final[t] => attemptsMade'[k] + 1 >= MaxAttempts
        /\ lockOwner'[k] = t /\ ~final[t] => attemptsMade'[k] + 1 < MaxAttempts
        /\ l = "handled" /\ final[t] => NotWaiting(m)
    BY <1>2, <2>1, <2>3, <2>6 DEF SlotEarned
  <2> QED BY <2>1, <2>2, <2>3, <2>4, <2>5, <2>7 DEF SlotEarned, Keeps, Of, Earned, NotWaiting
<1>3. ASSUME pc[t] = "idle" PROVE SlotEarned(t)'
  BY <1>3 DEF SlotEarned, Keeps
<1> QED BY <1>1, <1>2, <1>3

\* The slot that acts keeps to it if what it newly says is earned.
LEMMA StayingSlot ==
    ASSUME Shapes, NEW s \in Slot, StepInPlace(s), SlotEarned(s), pc[s] # "idle",
           \A m \in Material : Onward(m), QueueSame, untold \subseteq untold',
           NEW p \in Jobs!SlotPc \ {"idle"}, NEW v, NEW l \in HandlerStep, Stays(s, p, v, l),
           NEW k \in Job, k = job[s],
           l \in {"load", "generate"} \cup Outcome => p = "running",
           l = "handled" => p \in {"settling", "reporting"},
           p = "completing" => v \in {"succeeded"} \cup Jobs!TerminalCode,
           Earned(v, k)', l \in Outcome => Earned(l, k)',
           l = "handled" /\ final[s] => NotWaiting(k[1])'
    PROVE  StepInPlace(s)' /\ SlotEarned(s)'
<1>1. /\ pc'[s] = p /\ verdict'[s] = v /\ step'[s] = l /\ job'[s] = k /\ final'[s] = final[s]
  BY DEF Stays, Shapes, SlotShapes
<1>2. Of(s) = k[1] /\ k[1] \in Material /\ k # None
  BY BusySlot, MaterialConstants DEF Of
<1>3. StepInPlace(s)'
  BY <1>1, <1>2 DEF StepInPlace
<1>4. row'[k[1]] # None
  BY <1>2 DEF SlotEarned, Onward
<1>5. /\ final[s] => attemptsMade'[k] + 1 >= MaxAttempts
      /\ lockOwner'[k] = s /\ ~final[s] => attemptsMade'[k] + 1 < MaxAttempts
  BY DEF SlotEarned, QueueSame
<1>6. SlotEarned(s)'
  BY <1>1, <1>2, <1>4, <1>5 DEF SlotEarned, Of, Earned, NotWaiting
<1> QED BY <1>3, <1>6

LEMMA HandlerSlot ==
    ASSUME Shapes, NEW s \in Slot, StepInPlace(s), SlotEarned(s),
           \A m \in Material : Onward(m), HandlerMove(s)
    PROVE  StepInPlace(s)' /\ SlotEarned(s)'
<1>0. pc[s] # "idle" /\ QueueSame /\ untold \subseteq untold'
  BY DEF HandlerMove, Private
<1>1. PICK k \in Job, m \in Material : k = job[s] /\ m = Of(s) /\ k[1] = m
  BY <1>0, BusySlot
<1>2. QueueOnward
  BY <1>0, SameQueue
<1>3. PICK u : u = verdict[s]
  OBVIOUS
<1>4. Earned(u, k)'
  BY <1>0, <1>1, <1>2, <1>3, EarnedStays DEF SlotEarned, QueueOnward
<1>5. Earned("error", k)'
  BY MaterialConstants DEF Earned, TaskFailure
<1>6. ASSUME NEW l \in HandlerStep \ {"idle", "handled"}, Stays(s, "running", verdict[s], l),
             l \in Outcome => Earned(l, job[s])'
      PROVE  StepInPlace(s)' /\ SlotEarned(s)'
  <2>1. l \in Outcome => Earned(l, k)'
    BY <1>1, <1>6 DEF Earned, Stays
  <2>2. Stays(s, "running", u, l)
    BY <1>3, <1>6
  <2> QED BY <1>0, <1>1, <1>4, <2>1, <2>2, StayingSlot
<1>7. ASSUME NEW p \in {"settling", "reporting"}, NEW v \in {verdict[s], "error"},
             Stays(s, p, v, "handled"), final[s] => NotWaiting(Of(s))'
      PROVE  StepInPlace(s)' /\ SlotEarned(s)'
  <2>1. Earned(v, k)'
    BY <1>3, <1>4, <1>5, <1>7
  <2>2. final[s] => NotWaiting(k[1])'
    BY <1>1, <1>7 DEF Of, NotWaiting, Stays
  <2>3. "handled" \in HandlerStep /\ "handled" \notin {"load", "generate"} \cup Outcome
    BY DEF HandlerStep, Outcome, TaskFailure
  <2> QED BY <1>0, <1>1, <1>7, <2>1, <2>2, <2>3, StayingSlot
<1> QED BY <1>6, <1>7 DEF HandlerMove

\* An ordinary error says nothing of the row.
LEMMA ErrorIsEarned == \A k \in Job : Earned("error", k) /\ Earned("error", k)' /\ Earned(None, k)'
BY MaterialConstants DEF Earned, TaskFailure

LEMMA ExecutorSlot ==
    ASSUME Shapes, NEW s \in Slot, StepInPlace(s), SlotEarned(s),
           \A m \in Material : Onward(m), \A k \in Job : JobInOrder(k), ExecutorMove(s)
    PROVE  StepInPlace(s)' /\ SlotEarned(s)'
<1>0. pc[s] # "idle" /\ QueueSame /\ untold \subseteq untold' /\ QueueOnward
  BY SameQueue DEF ExecutorMove, Private
<1>1. PICK k \in Job, m \in Material : k = job[s] /\ m = Of(s) /\ k[1] = m
  BY <1>0, BusySlot
<1>2. PICK u, l, r : u = verdict[s] /\ l = step[s] /\ r = result[k]
  OBVIOUS
<1>3. l \in HandlerStep
  BY <1>2 DEF Shapes, SlotShapes
<1>4. Earned(u, k)' /\ (l \in Outcome => Earned(l, k)') /\ Earned(r, k)' /\ Earned("error", k)'
  <2>1. Earned(u, k) /\ (l \in Outcome => Earned(l, k)) /\ Earned(r, k)
    BY <1>0, <1>1, <1>2 DEF SlotEarned, JobInOrder
  <2> QED BY <1>0, <1>1, <2>1, EarnedStays, ErrorIsEarned DEF QueueOnward
<1>5. final[s] => Earned(ExhaustedCode, k)'
  <2>1. final[s] => attemptsMade'[k] + 1 >= MaxAttempts
    BY <1>0, <1>1 DEF SlotEarned, QueueSame
  <2> QED BY <2>1, MaterialConstants DEF Earned, TaskFailure
<1>6. {"idle", "load"} \subseteq HandlerStep /\ "idle" \notin {"load", "generate", "handled"} \cup Outcome
      /\ "load" \notin {"handled"} \cup Outcome
  BY DEF HandlerStep, Outcome, TaskFailure
<1>7. ASSUME NEW p \in Jobs!SlotPc \ {"idle"}, NEW v, Earned(v, k)', Stays(s, p, v, "idle"),
             p = "completing" => v \in {"succeeded"} \cup Jobs!TerminalCode
      PROVE  StepInPlace(s)' /\ SlotEarned(s)'
  BY <1>0, <1>1, <1>6, <1>7, StayingSlot
<1>8. ASSUME NEW p \in Jobs!SlotPc \ {"idle"}, NEW v, Earned(v, k)', Stays(s, p, v, l),
             pc[s] # "running" \/ p = "running", p # "completing", pc[s] \notin {"settling", "reporting"}
      PROVE  StepInPlace(s)' /\ SlotEarned(s)'
  <2>1. l \in {"load", "generate"} \cup Outcome => p = "running"
    BY <1>2, <1>8 DEF StepInPlace
  <2>2. l # "handled"
    BY <1>2, <1>8 DEF StepInPlace
  <2> QED BY <1>0, <1>1, <1>3, <1>4, <1>8, <2>1, <2>2, StayingSlot
<1>9. CASE pc[s] = "acquiring"
  <2>1. \/ Stays(s, "settling", r, "idle") \/ Stays(s, "running", u, "load")
        \/ Stays(s, "reporting", "error", "idle") \/ Stays(s, "reporting", "error", l)
    BY <1>1, <1>2, <1>9 DEF ExecutorMove
  <2>2. CASE Stays(s, "running", u, "load")
    BY <1>0, <1>1, <1>4, <1>6, <2>2, StayingSlot
  <2> QED BY <1>4, <1>7, <1>8, <1>9, <2>1, <2>2
<1>10. CASE pc[s] = "running"
  <2>1. \/ l \in Outcome /\ Stays(s, "releasing", "error", "idle")
        \/ l \in Outcome /\ final[s] /\ Stays(s, "completing", ExhaustedCode, "idle")
        \/ l \in Outcome \ {"error"} /\ Stays(s, "completing", l, "idle")
        \/ Stays(s, "running", u, l)
    BY <1>2, <1>10 DEF ExecutorMove
  <2>2. Outcome \ {"error"} \subseteq {"succeeded"} \cup Jobs!TerminalCode
    BY DEF Outcome
  <2> QED BY <1>4, <1>5, <1>7, <1>8, <1>10, <2>1, <2>2
<1>11. CASE pc[s] = "completing"
  <2>1. Stays(s, "settling", u, l) \/ Stays(s, "releasing", "error", l)
    BY <1>2, <1>11 DEF ExecutorMove
  <2> QED BY <1>4, <1>8, <1>11, <2>1
<1>12. CASE pc[s] = "releasing"
  <2>1. Stays(s, "reporting", u, l)
    BY <1>2, <1>12 DEF ExecutorMove
  <2> QED BY <1>4, <1>8, <1>12, <2>1
<1> QED BY <1>9, <1>10, <1>11, <1>12 DEF ExecutorMove

LEMMA RestingSlot ==
    ASSUME Shapes, NEW s \in Slot, RestsNow(s)
    PROVE  StepInPlace(s)' /\ SlotEarned(s)'
<1>1. pc'[s] = "idle" /\ job'[s] = None /\ verdict'[s] = None /\ final'[s] = FALSE /\ step'[s] = "idle"
  BY DEF Shapes, SlotShapes, RestsNow
<1> QED BY <1>1 DEF StepInPlace, SlotEarned, Outcome, TaskFailure

LEMMA StartingSlot ==
    ASSUME Shapes, NEW s \in Slot, StepInPlace(s), NEW k \in Job, JobInOrder(k), Start(s, k),
           \A m \in Material : Onward(m)
    PROVE  Starts(s, k) /\ StepInPlace(s)' /\ SlotEarned(s)'
<1>1. Starts(s, k) /\ jobState[k] # "absent" /\ attemptsMade' = attemptsMade
  BY DEF Start, Jobs!Start, Starts
<1>2. /\ pc'[s] = "acquiring" /\ job'[s] = k /\ verdict'[s] = None /\ step'[s] = "idle"
      /\ final'[s] = (attemptsMade[k] + 1 >= MaxAttempts)
  BY <1>1 DEF Shapes, SlotShapes, Starts, StepInPlace
<1>3. k # None /\ k[1] \in Material
  BY MaterialConstants DEF Job
<1>4. row'[k[1]] # None
  BY <1>1, <1>3 DEF JobInOrder, Onward
<1>5. StepInPlace(s)'
  BY <1>2, <1>3 DEF StepInPlace, Outcome, TaskFailure
<1>6. attemptsMade[k] \in Nat /\ MaxAttempts \in Nat /\ attemptsMade'[k] = attemptsMade[k]
  BY <1>1, MaterialConstants DEF Shapes, JobShapes
<1>7. /\ final'[s] => attemptsMade'[k] + 1 >= MaxAttempts
      /\ ~final'[s] => attemptsMade'[k] + 1 < MaxAttempts
  <2> DEFINE last == attemptsMade[k] + 1 >= MaxAttempts
  <2>1. final'[s] = last
    BY <1>2
  <2>2. ~last => attemptsMade[k] + 1 < MaxAttempts
    BY <1>6
  <2>3. /\ last => attemptsMade'[k] + 1 >= MaxAttempts
        /\ ~last => attemptsMade'[k] + 1 < MaxAttempts
    BY <1>6, <2>2
  <2> HIDE DEF last
  <2> QED BY Zenon, <2>1, <2>3
<1>8. Earned(None, k)'
  BY ErrorIsEarned
<1>9. SlotEarned(s)'
  BY <1>2, <1>4, <1>7, <1>8 DEF SlotEarned, Of, Earned, Outcome, TaskFailure
<1> QED BY <1>1, <1>5, <1>9

-----------------------------------------------------------------------------
(***************************************************************************)
(* The jobs: what their records say, and that one that is over has an      *)
(* answer.                                                                 *)
(***************************************************************************)
Excused(m) == NotWaiting(m) \/ (kind[m] = "overview" /\ m \in moved)

LEMMA KeptJob ==
    ASSUME Shapes, NEW k \in Job, JobInOrder(k), \A m \in Material : Onward(m),
           QueueOnward, untold \subseteq untold',
           jobState'[k] # "absent" \/ deadLetter'[k] # None =>
               jobState[k] # "absent" \/ row[k[1]] # None \/ deadLetter[k] # None,
           NEW r, r = result'[k], r = result[k] \/ Earned(r, k)',
           jobState'[k] \in {"completed", "failed"} =>
               jobState[k] \in {"completed", "failed"} \/ Excused(k[1])'
    PROVE  JobInOrder(k)'
<1>1. k[1] \in Material
  BY DEF Job
<1>2. jobState'[k] # "absent" \/ deadLetter'[k] # None => row[k[1]] # None
  BY DEF JobInOrder
<1>3. row[k[1]] # None => row'[k[1]] # None
  BY <1>1 DEF Onward
<1>4. Earned(r, k)'
  <2>1. CASE r = result[k]
    <3>1. Earned(r, k)
      BY <2>1 DEF JobInOrder
    <3> QED BY <1>1, <3>1, EarnedStays DEF QueueOnward
  <2> QED BY <2>1
<1>5. ASSUME jobState'[k] \in {"completed", "failed"} PROVE Excused(k[1])'
  <2>1. CASE jobState[k] \in {"completed", "failed"}
    <3>1. Excused(k[1]) /\ row[k[1]] # None
      BY <2>1 DEF JobInOrder, Excused
    <3>2. NotWaiting(k[1]) => NotWaiting(k[1])'
      BY <1>1, <3>1, NoWaitComesBack
    <3> QED BY <1>1, <3>1, <3>2 DEF Excused, Onward
  <2> QED BY <1>5, <2>1
<1> QED BY <1>2, <1>3, <1>4, <1>5 DEF JobInOrder, Earned, Excused

\* What the queue makes of a report.
ReportMove(s) ==
    \/ QueueSame
    \/ LET k == job[s] IN
       /\ jobState[k] = "active" /\ lockOwner[k] = s
       /\ lockOwner' = [lockOwner EXCEPT ![k] = None]
       /\ \/ /\ verdict[s] = "succeeded"
             /\ jobState' = [jobState EXCEPT ![k] = "completed"]
             /\ UNCHANGED attemptsMade
          \/ /\ verdict[s] \in Jobs!TerminalCode
             /\ jobState' = [jobState EXCEPT ![k] = "failed"]
             /\ attemptsMade' = [attemptsMade EXCEPT ![k] = @ + 1]
          \/ /\ verdict[s] = "error" /\ attemptsMade[k] + 1 < MaxAttempts
             /\ jobState' = [jobState EXCEPT ![k] = "waiting"]
             /\ attemptsMade' = [attemptsMade EXCEPT ![k] = @ + 1]
          \/ /\ verdict[s] = "error" /\ ~(attemptsMade[k] + 1 < MaxAttempts)
             /\ jobState' = [jobState EXCEPT ![k] = "failed"]
             /\ attemptsMade' = [attemptsMade EXCEPT ![k] = @ + 1]

LEMMA LeavingMoves ==
    ASSUME Shapes, NEW s \in Slot, Report(s) \/ Crash(s)
    PROVE  /\ RestsNow(s) /\ ReportMove(s)
           /\ UNCHANGED <<rowVars, captionVars, untold, result, deadLetter>>
<1>1. CASE Report(s)
  <2>1. RestsNow(s) /\ UNCHANGED <<rowVars, captionVars, untold, result, deadLetter>>
    BY <1>1 DEF Report, Jobs!Report, Jobs!Rest, At, RestsNow, Jobs!recordVars
  <2>2. ReportMove(s)
    BY <1>1 DEF Report, Jobs!Report, Jobs!AttemptsLeft, ReportMove, QueueSame
  <2> QED BY <2>1, <2>2
<1>2. CASE Crash(s)
  BY <1>2 DEF Crash, Jobs!Crash, Jobs!Rest, At, RestsNow, ReportMove, QueueSame, Jobs!bullVars,
        Jobs!recordVars
<1> QED BY <1>1, <1>2

LEMMA ReportedQueue ==
    ASSUME Shapes, NEW s \in Slot, job[s] \in Job, ReportMove(s)
    PROVE  /\ QueueOnward
           /\ jobState' \in [Job -> {"absent", "waiting", "active", "completed", "failed"}]
           /\ lockOwner' \in [Job -> Slot \cup {None}]
           /\ attemptsMade' \in [Job -> Nat]
           /\ \A k \in Job : k # job[s] => jobState'[k] = jobState[k]
           /\ jobState'[job[s]] # "absent" => jobState[job[s]] # "absent"
<1>1. CASE QueueSame
  BY <1>1, SameQueue DEF QueueSame, Shapes, JobShapes
<1>2. CASE ~QueueSame
  <2>1. PICK k \in Job : k = job[s]
    OBVIOUS
  <2>2. /\ lockOwner' = [lockOwner EXCEPT ![k] = None]
        /\ jobState[k] = "active"
        /\ \E z \in {"completed", "failed", "waiting"} : jobState' = [jobState EXCEPT ![k] = z]
        /\ attemptsMade' = attemptsMade \/ attemptsMade' = [attemptsMade EXCEPT ![k] = @ + 1]
    BY <1>2, <2>1 DEF ReportMove
  <2>3. /\ jobState' \in [Job -> {"absent", "waiting", "active", "completed", "failed"}]
        /\ lockOwner' \in [Job -> Slot \cup {None}]
        /\ \A j \in Job : j # k => jobState'[j] = jobState[j] /\ lockOwner'[j] = lockOwner[j]
        /\ lockOwner'[k] = None
    BY <2>2 DEF Shapes, JobShapes
  <2>4. /\ attemptsMade' \in [Job -> Nat]
        /\ \A j \in Job : /\ attemptsMade'[j] \in Nat /\ attemptsMade'[j] >= attemptsMade[j]
                          /\ j # k => attemptsMade'[j] = attemptsMade[j]
    BY <2>2 DEF Shapes, JobShapes
  <2>5. QueueOnward
    BY <2>3, <2>4, MaterialConstants DEF QueueOnward
  <2> QED BY <2>1, <2>2, <2>3, <2>4, <2>5
<1> QED BY <1>1, <1>2

\* A slot that ends its job leaves no learner waiting: it has earned its verdict,
\* or it was on a final attempt and is done with the row.
LEMMA ReportedJob ==
    ASSUME Shapes, NEW s \in Slot, StepInPlace(s), SlotEarned(s),
           \A m \in Material : RowInOrder(m), Report(s), NEW k \in Job, k = job[s],
           jobState[k] \notin {"completed", "failed"}, jobState'[k] \in {"completed", "failed"}
    PROVE  Excused(k[1])
<1>1. pc[s] = "reporting" /\ ~MustFailRow(s) /\ ReportMove(s)
  BY LeavingMoves DEF Report, Jobs!Report
<1>2. k[1] \in Material /\ Of(s) = k[1] /\ RowInOrder(k[1]) /\ row[k[1]] # None
  BY <1>1 DEF Job, Of, SlotEarned
<1>3. /\ lockOwner[k] = s
      /\ \/ verdict[s] = "succeeded"
         \/ verdict[s] \in Jobs!TerminalCode
         \/ verdict[s] = "error" /\ ~(attemptsMade[k] + 1 < MaxAttempts)
  <2>1. ~QueueSame
    BY DEF QueueSame
  <2>2. "waiting" \notin {"completed", "failed"}
    OBVIOUS
  <2> QED BY <1>1, <2>1, <2>2 DEF ReportMove, Shapes, JobShapes
<1>4. Earned(verdict[s], k)
  BY <1>1 DEF SlotEarned
<1>5. ASSUME verdict[s] = ExhaustedCode \/ verdict[s] = "error",
             ~(attemptsMade[k] + 1 < MaxAttempts)
      PROVE  NotWaiting(k[1])
  <2>1. final[s]
    BY <1>1, <1>3, <1>5 DEF SlotEarned
  <2>2. step[s] = "handled"
    BY <1>1, <1>5, <2>1, MaterialConstants DEF MustFailRow, LastAttempt
  <2> QED BY <1>1, <1>2, <2>1, <2>2 DEF SlotEarned
<1>6. CASE verdict[s] = "succeeded"
  BY <1>2, <1>4, <1>6 DEF Earned, RowInOrder, Excused, NotWaiting
<1>7. CASE verdict[s] = ExhaustedCode
  <2>1. attemptsMade[k] + 1 >= MaxAttempts
    BY <1>4, <1>7 DEF Earned
  <2>2. ~(attemptsMade[k] + 1 < MaxAttempts)
    BY <2>1, MaterialConstants DEF Shapes, JobShapes
  <2> QED BY <1>5, <1>7, <2>2 DEF Excused
<1>8. CASE verdict[s] = "error" /\ ~(attemptsMade[k] + 1 < MaxAttempts)
  BY <1>5, <1>8 DEF Excused
<1>9. CASE verdict[s] \in TaskFailure
  BY <1>4, <1>9 DEF Earned, Excused, NotWaiting, TaskFailure
<1> QED BY <1>3, <1>6, <1>7, <1>8, <1>9

-----------------------------------------------------------------------------
(***************************************************************************)
(* A step keeps the shape of the records and the invariant.                *)
(***************************************************************************)
ClaimSame == UNCHANGED <<token, issued>>

LEMMA ClaimShapes ==
    ASSUME Shapes, NEW s \in Slot, StepInPlace(s), SlotAction(s)
    PROVE  token' \in [Slot -> Nat] /\ issued' \in [Job -> Nat]
<1>0. token \in [Slot -> Nat] /\ issued \in [Job -> Nat]
  BY DEF Shapes, SlotShapes, JobShapes
<1>1. CASE Acquire(s)
  <2>1. job[s] \in Job
    BY <1>1, BusySlot DEF Acquire, Jobs!Acquire
  <2>2. \/ ClaimSame
        \/ /\ token' = [token EXCEPT ![s] = issued[job[s]] + 1]
           /\ issued' = [issued EXCEPT ![job[s]] = @ + 1]
    BY <1>1 DEF Acquire, Jobs!Acquire, Jobs!Goto, Jobs!InsertClaim, Jobs!NewToken, Jobs!claimVars,
          ClaimSame
  <2>3. issued[job[s]] + 1 \in Nat
    BY <1>0, <2>1
  <2> QED BY <1>0, <2>1, <2>2, <2>3 DEF ClaimSame
<1>2. CASE Execute(s)
  BY <1>0, <1>2 DEF Execute, Jobs!Complete, Jobs!Release, Jobs!Goto, Jobs!RecordResult,
        Jobs!DeleteClaim, Jobs!claimVars
<1>3. CASE ExecuteFails(s)
  <2>1. CASE Jobs!AcquireFails(s)
    <3>1. job[s] \in Job
      BY <2>1, BusySlot DEF Jobs!AcquireFails
    <3>2. token' = token /\ (issued' = issued \/ issued' = [issued EXCEPT ![job[s]] = @ + 1])
      BY <2>1 DEF Jobs!AcquireFails, Jobs!Goto, Jobs!InsertClaim, Jobs!claimVars
    <3>3. issued[job[s]] + 1 \in Nat
      BY <1>0, <3>1
    <3> QED BY <1>0, <3>1, <3>2, <3>3
  <2>2. CASE Jobs!CompleteFails(s) \/ Jobs!ReleaseFails(s) \/ Jobs!LoseLease(s)
    BY <1>0, <2>2 DEF Jobs!CompleteFails, Jobs!ReleaseFails, Jobs!LoseLease, Jobs!Goto,
          Jobs!RecordResult, Jobs!DeleteClaim, Jobs!claimVars
  <2> QED BY <1>3, <2>1, <2>2 DEF ExecuteFails
<1>4. CASE Report(s) \/ Crash(s)
  BY <1>0, <1>4 DEF Report, Crash, Jobs!Report, Jobs!Crash, Jobs!Rest, Jobs!claimVars
<1>5. CASE Settle(s) \/ TaskEnds(s)
  BY <1>0, <1>5 DEF Settle, TaskEnds, Jobs!Settle, Jobs!SettleFails, Jobs!TaskEnds, Jobs!Goto,
        Jobs!claimVars
<1>6. CASE \/ Load(s) \/ GenerateFails(s) \/ Refuse(s) \/ Save(s) \/ SaveFails(s)
           \/ CatchFinal(s) \/ CatchFails(s)
  BY <1>0, <1>6 DEF Load, GenerateFails, Refuse, Save, SaveFails, CatchFinal, CatchFails,
        Jobs!Goto, jobVars
<1> QED BY <1>1, <1>2, <1>3, <1>4, <1>5, <1>6 DEF SlotAction

LEMMA StayingShapes ==
    ASSUME SlotShapes, NEW s \in Slot, NEW p \in Jobs!SlotPc, NEW v \in Jobs!Verdict \cup {None},
           NEW l \in HandlerStep, Stays(s, p, v, l), token' \in [Slot -> Nat]
    PROVE  SlotShapes' /\ \A t \in Slot \ {s} : Keeps(t)
<1>1. SlotShapes'
  BY DEF SlotShapes, Stays
<1>2. \A t \in Slot \ {s} : Keeps(t)
  BY DEF SlotShapes, Stays, Keeps
<1> QED BY <1>1, <1>2

\* The steps of a slot, by what is left of it.
LEMMA SlotMoves ==
    ASSUME Shapes, MaterialInv, NEW s \in Slot, SlotAction(s),
           \A m \in Material : Onward(m) /\ RowInOrder(m)'
    PROVE  ExecutorMove(s) \/ HandlerMove(s) \/ Report(s) \/ Crash(s)
<1>1. StepInPlace(s) /\ SlotEarned(s) /\ \A m \in Material : RowInOrder(m)
  BY DEF MaterialInv
<1> QED BY <1>1, ExecutorMoves, TaskMoves, EndMoves DEF SlotAction

LEMMA MovingShapes ==
    ASSUME Shapes, NEW s \in Slot, StepInPlace(s), ExecutorMove(s) \/ HandlerMove(s),
           token' \in [Slot -> Nat], issued' \in [Job -> Nat]
    PROVE  SlotShapes' /\ JobShapes' /\ \A t \in Slot \ {s} : Keeps(t)
<1>1. pc[s] \in Jobs!SlotPc /\ verdict[s] \in Jobs!Verdict \cup {None} /\ step[s] \in HandlerStep
      /\ job[s] \in Job
  BY BusySlot DEF Shapes, SlotShapes, ExecutorMove, HandlerMove
<1>2. result[job[s]] \in Jobs!Verdict \cup {None}
  BY <1>1 DEF Shapes, JobShapes
<1>3. {"idle", "load", "handled"} \subseteq HandlerStep
      /\ (step[s] \in Outcome /\ step[s] # "error" => step[s] \in Jobs!Verdict)
  BY DEF HandlerStep, Outcome
<1>4. \E p \in Jobs!SlotPc, v \in Jobs!Verdict \cup {None}, l \in HandlerStep : Stays(s, p, v, l)
  <2>1. CASE ExecutorMove(s)
    BY <1>1, <1>2, <1>3, <2>1 DEF ExecutorMove
  <2>2. CASE HandlerMove(s)
    BY <1>1, <1>3, <2>2 DEF HandlerMove
  <2> QED BY <2>1, <2>2
<1>5. SlotShapes' /\ \A t \in Slot \ {s} : Keeps(t)
  BY <1>4, StayingShapes DEF Shapes
<1>6. QueueSame /\ untold' \subseteq Job
  BY DEF ExecutorMove, HandlerMove, Private, Shapes, JobShapes
<1>7. result' \in [Job -> {"succeeded", None} \cup Jobs!TerminalCode]
      /\ deadLetter' \in [Job -> Jobs!FailureCode \cup {None}]
  <2>1. CASE UNCHANGED <<result, deadLetter>>
    BY <2>1 DEF Shapes, JobShapes
  <2>2. CASE pc[s] = "completing" /\ Jobs!RecordResult(job[s], verdict[s])
    <3>1. verdict[s] \in {"succeeded"} \cup Jobs!TerminalCode
      BY <2>2 DEF StepInPlace
    <3> QED BY <1>1, <2>2, <3>1 DEF Shapes, JobShapes, Jobs!RecordResult
  <2> QED BY <2>1, <2>2 DEF ExecutorMove, HandlerMove, Private
<1> QED BY <1>5, <1>6, <1>7 DEF Shapes, JobShapes, QueueSame

\* An event is only asked for by a row.
LEMMA RequestedRow ==
    ASSUME NEW k \in Job, \A j \in Job : JobInOrder(j), Requested(k)
    PROVE  row[k[1]] # None
<1>1. <<k[1], "request">> \in Job /\ <<k[1], "request">>[1] = k[1]
  BY DEF Job
<1> QED BY <1>1 DEF Requested, JobInOrder

LEMMA QueueStep ==
    ASSUME Shapes, MaterialInv, NEW k \in Job, QueueAction(k), \A m \in Material : Onward(m)
    PROVE  /\ SlotShapes' /\ JobShapes'
           /\ \A s \in Slot : StepInPlace(s)' /\ SlotEarned(s)'
           /\ \A j \in Job : JobInOrder(j)'
<1>1. /\ UNCHANGED <<attemptsMade, issued, result, pc, job, token, final, verdict, step>>
      /\ lockOwner' = lockOwner \/ lockOwner' = [lockOwner EXCEPT ![k] = None]
      /\ untold' = untold \/ untold' = untold \cup {k}
      /\ \/ deadLetter' = deadLetter
         \/ /\ Requested(k)
            /\ \E c \in ForeignCode : deadLetter' = [deadLetter EXCEPT ![k] = c]
      /\ \/ jobState' = jobState
         \/ Requested(k) /\ jobState' = [jobState EXCEPT ![k] = "waiting"]
         \/ jobState[k] = "active" /\ jobState' = [jobState EXCEPT ![k] = "waiting"]
         \/ /\ jobState[k] = "active" /\ jobState' = [jobState EXCEPT ![k] = "failed"]
            /\ untold' = untold \cup {k}
  <2>1. CASE Enqueue(k)
    BY <2>1 DEF Enqueue, Jobs!Enqueue, Jobs!claimVars, Jobs!recordVars, Jobs!slotVars
  <2>2. CASE RelayGivesUp(k)
    BY <2>2 DEF RelayGivesUp, Jobs!ForeignLetter, Jobs!bullVars, Jobs!claimVars, Jobs!slotVars
  <2>3. CASE Stalled(k)
    BY <2>3 DEF Stalled, Jobs!Stalled, Jobs!claimVars, Jobs!recordVars, Jobs!slotVars, Shapes,
          JobShapes
  <2>4. CASE Expire(k)
    BY <2>4 DEF Expire, Jobs!Expire, Jobs!bullVars, Jobs!recordVars, Jobs!slotVars
  <2> QED BY <2>1, <2>2, <2>3, <2>4 DEF QueueAction
<1>2. SlotShapes' /\ JobShapes'
  BY <1>1 DEF Shapes, SlotShapes, JobShapes
<1>3. untold \subseteq untold' /\ \A t \in Slot : Keeps(t)
  BY <1>1 DEF Keeps
<1>4. QueueOnward
  BY <1>1, MaterialConstants DEF QueueOnward, Shapes, JobShapes
<1>5. \A s \in Slot : StepInPlace(s)' /\ SlotEarned(s)'
  BY <1>3, <1>4, KeptSlot DEF MaterialInv
<1>6. ASSUME NEW j \in Job PROVE JobInOrder(j)'
  <2>1. JobInOrder(j) /\ (Requested(k) => row[k[1]] # None)
    BY RequestedRow DEF MaterialInv
  <2>2. PICK r : r = result'[j]
    OBVIOUS
  <2>3. jobState'[j] # "absent" \/ deadLetter'[j] # None =>
            jobState[j] # "absent" \/ row[j[1]] # None \/ deadLetter[j] # None
    BY <1>1, <2>1 DEF Shapes, JobShapes
  <2>4. ASSUME jobState'[j] \in {"completed", "failed"}, jobState[j] \notin {"completed", "failed"}
        PROVE  Excused(j[1])'
    <3>1. j = k /\ k \in untold'
      BY <1>1, <2>4 DEF Shapes, JobShapes
    <3> QED BY <3>1 DEF Excused, NotWaiting
  <2> QED BY <1>1, <1>3, <1>4, <2>1, <2>2, <2>3, <2>4, KeptJob
<1> QED BY <1>2, <1>5, <1>6

LEMMA StartStep ==
    ASSUME Shapes, MaterialInv, NEW s \in Slot, NEW k \in Job, Start(s, k),
           \A m \in Material : Onward(m)
    PROVE  /\ SlotShapes' /\ JobShapes'
           /\ \A t \in Slot : StepInPlace(t)' /\ SlotEarned(t)'
           /\ \A j \in Job : JobInOrder(j)'
<1>1. /\ UNCHANGED <<attemptsMade, issued, result, deadLetter, token, untold>>
      /\ lockOwner' = [lockOwner EXCEPT ![k] = s]
      /\ jobState[k] = "waiting" /\ jobState' = [jobState EXCEPT ![k] = "active"]
  BY DEF Start, Jobs!Start, Jobs!claimVars, Jobs!recordVars
<1>2. Starts(s, k) /\ StepInPlace(s)' /\ SlotEarned(s)'
  BY StartingSlot DEF MaterialInv
<1>3. JobShapes'
  BY <1>1 DEF Shapes, JobShapes
<1>4. SlotShapes' /\ \A t \in Slot \ {s} : Keeps(t)
  <2>1. (attemptsMade[k] + 1 >= MaxAttempts) \in BOOLEAN
    OBVIOUS
  <2>2. final' \in [Slot -> BOOLEAN]
    <3> DEFINE last == attemptsMade[k] + 1 >= MaxAttempts
    <3>1. final' = [final EXCEPT ![s] = last] /\ last \in BOOLEAN /\ final \in [Slot -> BOOLEAN]
      BY <1>2, <2>1 DEF Starts, Shapes, SlotShapes
    <3> HIDE DEF last
    <3> QED BY <3>1
  <2>3. /\ pc' \in [Slot -> Jobs!SlotPc] /\ job' \in [Slot -> Job \cup {None}]
        /\ token' \in [Slot -> Nat] /\ verdict' = verdict /\ step' = step
    BY <1>1, <1>2 DEF Starts, Shapes, SlotShapes
  <2>4. ASSUME NEW t \in Slot \ {s} PROVE Keeps(t)
    BY <1>2 DEF Starts, Shapes, SlotShapes, Keeps
  <2> QED BY <2>2, <2>3, <2>4 DEF Shapes, SlotShapes
<1>5. QueueOnward
  <2>1. ASSUME NEW j \in Job PROVE attemptsMade'[j] \in Nat /\ attemptsMade'[j] = attemptsMade[j]
    BY <1>1 DEF Shapes, JobShapes
  <2>2. ASSUME NEW j \in Job, NEW t \in Slot, lockOwner'[j] = t
        PROVE  lockOwner[j] = t \/ Starts(t, j)
    BY <1>1, <1>2, <2>2 DEF Shapes, JobShapes
  <2> QED BY <2>1, <2>2 DEF QueueOnward
<1>6. \A t \in Slot \ {s} : StepInPlace(t)' /\ SlotEarned(t)'
  BY <1>1, <1>4, <1>5, KeptSlot DEF MaterialInv
<1>7. ASSUME NEW j \in Job PROVE JobInOrder(j)'
  <2>1. PICK r : r = result'[j]
    OBVIOUS
  <2>2. /\ JobInOrder(j) /\ untold \subseteq untold'
        /\ jobState'[j] # "absent" => jobState[j] # "absent"
        /\ jobState'[j] \in {"completed", "failed"} => jobState[j] \in {"completed", "failed"}
    BY <1>1 DEF MaterialInv, Shapes, JobShapes
  <2> QED BY <1>1, <1>5, <2>1, <2>2, KeptJob
<1> QED BY <1>2, <1>3, <1>4, <1>6, <1>7

LEMMA MoveStep ==
    ASSUME Shapes, MaterialInv, NEW s \in Slot, ExecutorMove(s) \/ HandlerMove(s),
           token' \in [Slot -> Nat], issued' \in [Job -> Nat], \A m \in Material : Onward(m)
    PROVE  /\ SlotShapes' /\ JobShapes'
           /\ \A t \in Slot : StepInPlace(t)' /\ SlotEarned(t)'
           /\ \A j \in Job : JobInOrder(j)'
<1>0. StepInPlace(s) /\ SlotEarned(s) /\ \A j \in Job : JobInOrder(j)
  BY DEF MaterialInv
<1>1. SlotShapes' /\ JobShapes' /\ \A t \in Slot \ {s} : Keeps(t)
  BY <1>0, MovingShapes
<1>2. QueueOnward /\ untold \subseteq untold' /\ UNCHANGED jobState
  BY SameQueue DEF ExecutorMove, HandlerMove, Private, QueueSame
<1>3. StepInPlace(s)' /\ SlotEarned(s)'
  BY <1>0, ExecutorSlot, HandlerSlot
<1>4. \A t \in Slot \ {s} : StepInPlace(t)' /\ SlotEarned(t)'
  BY <1>1, <1>2, KeptSlot DEF MaterialInv
<1>5. PICK k \in Job : k = job[s]
  BY <1>0, BusySlot DEF ExecutorMove, HandlerMove
<1>6. ASSUME NEW j \in Job PROVE JobInOrder(j)'
  <2>1. PICK r, v : r = result'[j] /\ v = verdict[s]
    OBVIOUS
  <2>2. CASE UNCHANGED <<result, deadLetter>>
    BY <1>0, <1>2, <2>1, <2>2, KeptJob
  <2>3. CASE pc[s] = "completing" /\ Jobs!RecordResult(k, verdict[s])
    <3>1. Earned(v, k) /\ row[k[1]] # None
      BY <1>0, <1>5, <2>1, <2>3 DEF SlotEarned, Of
    <3>2. Earned(v, k)'
      BY <1>2, <1>5, <3>1, EarnedStays DEF QueueOnward, Job
    <3>3. r = result[j] \/ (j = k /\ r = v)
      BY <2>1, <2>3 DEF Jobs!RecordResult, Shapes, JobShapes
    <3>4. deadLetter'[j] # None => deadLetter[j] # None \/ row[j[1]] # None
      BY <2>3, <3>1 DEF Jobs!RecordResult, Shapes, JobShapes
    <3> QED BY <1>0, <1>2, <2>1, <3>2, <3>3, <3>4, KeptJob
  <2> QED BY <1>5, <2>2, <2>3 DEF ExecutorMove, HandlerMove, Private
<1> QED BY <1>1, <1>3, <1>4, <1>6

LEMMA LeaveStep ==
    ASSUME Shapes, MaterialInv, NEW s \in Slot, Report(s) \/ Crash(s),
           token' \in [Slot -> Nat], issued' \in [Job -> Nat], \A m \in Material : Onward(m)
    PROVE  /\ SlotShapes' /\ JobShapes'
           /\ \A t \in Slot : StepInPlace(t)' /\ SlotEarned(t)'
           /\ \A j \in Job : JobInOrder(j)'
<1>0. StepInPlace(s) /\ SlotEarned(s) /\ \A m \in Material : RowInOrder(m)
  BY DEF MaterialInv
<1>1. PICK k \in Job : k = job[s]
  BY <1>0, BusySlot DEF Report, Crash, Jobs!Report, Jobs!Crash
<1>2. /\ RestsNow(s) /\ ReportMove(s)
      /\ UNCHANGED <<rowVars, captionVars, untold, result, deadLetter>>
  BY LeavingMoves
<1>3. /\ QueueOnward
      /\ jobState' \in [Job -> {"absent", "waiting", "active", "completed", "failed"}]
      /\ lockOwner' \in [Job -> Slot \cup {None}]
      /\ attemptsMade' \in [Job -> Nat]
      /\ \A j \in Job : /\ j # k => jobState'[j] = jobState[j]
                        /\ jobState'[j] # "absent" => jobState[j] # "absent"
  BY <1>1, <1>2, ReportedQueue
<1>4. JobShapes'
  BY <1>2, <1>3 DEF Shapes, JobShapes
<1>5. SlotShapes' /\ \A t \in Slot \ {s} : Keeps(t)
  BY <1>2 DEF Shapes, SlotShapes, RestsNow, Keeps, HandlerStep
<1>6. StepInPlace(s)' /\ SlotEarned(s)'
  BY <1>2, RestingSlot
<1>7. \A t \in Slot \ {s} : StepInPlace(t)' /\ SlotEarned(t)'
  BY <1>2, <1>3, <1>5, KeptSlot DEF MaterialInv
<1>8. ASSUME NEW j \in Job PROVE JobInOrder(j)'
  <2>1. PICK r : r = result'[j]
    OBVIOUS
  <2>2. ASSUME jobState'[j] \in {"completed", "failed"}, jobState[j] \notin {"completed", "failed"}
        PROVE  Excused(j[1])'
    <3>1. j = k
      BY <1>3, <2>2
    <3>2. Report(s)
      BY <2>2 DEF Crash, Jobs!Crash, Jobs!bullVars
    <3>3. Excused(j[1])
      BY <1>0, <1>1, <2>2, <3>1, <3>2, ReportedJob
    <3> QED BY <1>2, <3>3 DEF Excused, NotWaiting, rowVars, captionVars
  <2> QED BY <1>2, <1>3, <2>1, <2>2, KeptJob DEF MaterialInv
<1> QED BY <1>4, <1>5, <1>6, <1>7, <1>8

LEMMA QuietStep ==
    ASSUME Shapes, MaterialInv, UNCHANGED <<jobVars, step, untold>>, \A m \in Material : Onward(m)
    PROVE  /\ SlotShapes' /\ JobShapes'
           /\ \A t \in Slot : StepInPlace(t)' /\ SlotEarned(t)'
           /\ \A j \in Job : JobInOrder(j)'
<1>1. SlotShapes' /\ JobShapes'
  BY DEF Shapes, SlotShapes, JobShapes, jobVars
<1>2. QueueOnward
  BY SameQueue DEF QueueSame, jobVars
<1>3. \A t \in Slot : Keeps(t)
  BY DEF Keeps, jobVars
<1>4. \A t \in Slot : StepInPlace(t)' /\ SlotEarned(t)'
  BY <1>2, <1>3, KeptSlot DEF MaterialInv
<1>5. ASSUME NEW j \in Job PROVE JobInOrder(j)'
  <2>1. PICK r : r = result'[j]
    OBVIOUS
  <2>2. r = result[j] /\ jobState' = jobState /\ deadLetter' = deadLetter
    BY <2>1 DEF jobVars
  <2> QED BY <1>2, <2>1, <2>2, KeptJob DEF MaterialInv
<1> QED BY <1>1, <1>4, <1>5

LEMMA InvStep ==
    ASSUME Shapes, MaterialInv, [Next]_vars
    PROVE  /\ Shapes' /\ MaterialInv'
           /\ \A m \in Material : Onward(m)
<1>1. MaterialEffect
  BY MaterialEffects DEF MaterialInv
<1>2. RowShapes' /\ \A m \in Material : RowInOrder(m)' /\ Onward(m)
  BY <1>1, RowStep DEF Shapes, MaterialInv
<1> DEFINE Goal == /\ SlotShapes' /\ JobShapes'
                   /\ \A t \in Slot : StepInPlace(t)' /\ SlotEarned(t)'
                   /\ \A j \in Job : JobInOrder(j)'
<1>4. ASSUME NEW k \in Job, QueueAction(k) PROVE Goal
  BY <1>2, <1>4, QueueStep
<1>5. ASSUME NEW s \in Slot, NEW k \in Job, Start(s, k) PROVE Goal
  BY <1>2, <1>5, StartStep
<1>6. ASSUME NEW s \in Slot, SlotAction(s) PROVE Goal
  <2>1. token' \in [Slot -> Nat] /\ issued' \in [Job -> Nat]
    BY <1>6, ClaimShapes DEF MaterialInv
  <2>2. ExecutorMove(s) \/ HandlerMove(s) \/ Report(s) \/ Crash(s)
    BY <1>2, <1>6, SlotMoves
  <2> QED BY <1>2, <2>1, <2>2, MoveStep, LeaveStep
<1>7. Goal
  <2>1. CASE NewCaptions \/ (\E m \in Material : Request(m) \/ Look(m) \/ Submit(m))
             \/ UNCHANGED vars
    <3>1. UNCHANGED <<jobVars, step, untold>>
      BY <2>1, CaptionsMove, LearnerWrites DEF vars
    <3> QED BY <1>2, <3>1, QuietStep
  <2> HIDE DEF Goal
  <2> QED BY <1>4, <1>5, <1>6, <2>1, NextCases
<1> QED BY <1>2, <1>7 DEF Shapes, MaterialInv

LEMMA InvInit == Init => Shapes /\ MaterialInv
<1> SUFFICES ASSUME Init PROVE Shapes /\ MaterialInv
  OBVIOUS
<1>1. Shapes
  <2>1. RowShapes
    BY MaterialConstants DEF Init, RowShapes
  <2>2. JobShapes
    BY DEF Init, Jobs!Init, JobShapes
  <2>3. SlotShapes
    BY DEF Init, Jobs!Init, SlotShapes, HandlerStep
  <2> QED BY <2>1, <2>2, <2>3 DEF Shapes
<1>2. \A m \in Material : RowInOrder(m)
  BY MaterialConstants DEF Init, RowInOrder
<1>3. \A s \in Slot : StepInPlace(s) /\ SlotEarned(s)
  BY DEF Init, Jobs!Init, StepInPlace, SlotEarned, Outcome, TaskFailure
<1>4. \A k \in Job : JobInOrder(k)
  BY MaterialConstants DEF Init, Jobs!Init, JobInOrder, Earned, TaskFailure
<1> QED BY <1>1, <1>2, <1>3, <1>4 DEF MaterialInv

-----------------------------------------------------------------------------
(***************************************************************************)
(* Theorems about the material of a context.                               *)
(***************************************************************************)

\* Rows, slots and jobs keep to the invariant in every behaviour.
THEOREM MaterialCorrect == Spec => [](Shapes /\ MaterialInv)
<1>1. Shapes /\ MaterialInv /\ [Next]_vars => (Shapes /\ MaterialInv)'
  BY InvStep
<1> QED BY <1>1, InvInit, PTL DEF Spec

\* SuccessHasContent: what is recorded as done has its questions or its summary
\* (completeAdaptiveQuizGeneration, completeGeneration), and a row that failed
\* or is being generated has none, for any number of executions side by side.
THEOREM RecordedSuccessHasContent == Spec => []SuccessHasContent
<1>1. Shapes /\ MaterialInv => SuccessHasContent
  <2> SUFFICES ASSUME Shapes, MaterialInv, NEW m \in Material
               PROVE  /\ (\E k \in Job : k[1] = m /\ result[k] = "succeeded") => content[m] # None
                      /\ row[m] \in {"generating", "failed"} => content[m] = None
    BY DEF SuccessHasContent
  <2>1. RowInOrder(m) /\ \A k \in Job : Earned(result[k], k)
    BY DEF MaterialInv, JobInOrder
  <2> QED BY <2>1 DEF RowInOrder, Earned
<1> QED BY <1>1, MaterialCorrect, PTL

\* ConflictIsReal: a recorded NOT_GENERATABLE or CHECKPOINT_CONFLICT is never
\* the fault of an execution that came second (quiz-generation.worker.ts,
\* learning-summary.worker.ts).
THEOREM RecordedConflictIsReal == Spec => []ConflictIsReal
<1>1. Shapes /\ MaterialInv => ConflictIsReal
  BY DEF MaterialInv, JobInOrder, Earned, ConflictIsReal
<1> QED BY <1>1, MaterialCorrect, PTL

\* WaitIsAnswered: the catch of the final attempt fails the row before the queue
\* hears of it, whichever error it was, so that a job that is over has left the
\* learner an answer.
THEOREM WaitingIsAnswered == Spec => []WaitIsAnswered
<1>1. Shapes /\ MaterialInv => WaitIsAnswered
  <2> SUFFICES ASSUME Shapes, MaterialInv, NEW m \in Material, row[m] = "generating",
                      jobState[<<m, "request">>] \in {"completed", "failed"}
               PROVE  \/ \E k \in untold : k[1] = m
                      \/ kind[m] = "overview" /\ m \in moved
    BY DEF WaitIsAnswered
  <2>1. PICK k \in Job : k = <<m, "request">> /\ k[1] = m
    BY DEF Job
  <2>2. JobInOrder(k)
    BY DEF MaterialInv
  <2> QED BY <2>1, <2>2 DEF JobInOrder, NotWaiting
<1> QED BY <1>1, MaterialCorrect, PTL

\* ContentOnce: content is written once, for the captions the row is for, and
\* graded once (the conditions of completeGeneration and submitAdaptiveQuiz).
THEOREM ContentComesOnce == Spec => ContentOnce
<1> DEFINE Once == \A m \in Material :
         /\ content[m] # None => content'[m] = content[m]
         /\ graded[m] # None => graded'[m] = graded[m]
         /\ content'[m] # content[m] /\ kind[m] = "overview" => IsCurrent(m)
<1>1. Shapes /\ MaterialInv /\ [Next]_vars => [Once]_vars
  <2> SUFFICES ASSUME Shapes, MaterialInv, [Next]_vars PROVE Once
    OBVIOUS
  <2>1. \A m \in Material : Onward(m)
    BY InvStep
  <2>2. MaterialEffect
    BY MaterialEffects DEF MaterialInv
  <2>3. ASSUME NEW m \in Material, content'[m] # content[m], kind[m] = "overview"
        PROVE  IsCurrent(m)
    <3>1. PICK x \in Material : RowEffect(x)
      BY <2>2, <2>3 DEF MaterialEffect, CaptionEffect, rowVars
    <3>2. x = m /\ CanFill(m)
      BY <2>3, <3>1 DEF RowEffect, Written, Shapes, RowShapes
    <3> QED BY <2>3, <3>2 DEF CanFill
  <2> QED BY <2>1, <2>3 DEF Onward
<1> QED BY <1>1, MaterialCorrect, PTL DEF Spec, ContentOnce

-----------------------------------------------------------------------------
(***************************************************************************)
(* The captions of a context and its material, together.                   *)
(***************************************************************************)

\* Generations of what a context shows: a translation comes after its captions.
LEMMA ShownGenerations ==
    ASSUME Cardinality(Artifact) <= MaxGeneration, NEW t, TableOK(t), NEW v, NEW x,
           NEW s \in Shown, ContextInOrder(t, v, s, x)
    PROVE  /\ GenerationIn(t, s.source) \in 0 .. MaxGeneration
           /\ GenerationIn(t, s.translation) \in TranslationsOf(GenerationIn(t, s.source))
<1>1. s.source \in Pointer /\ s.translation \in Pointer
  BY DEF Shown
<1>2. /\ GenerationIn(t, s.source) \in 0 .. Cardinality(Artifact)
      /\ GenerationIn(t, s.translation) \in 0 .. Cardinality(Artifact)
  BY <1>1, GenerationsAreCounted
<1>3. MaxGeneration \in Nat /\ Cardinality(Artifact) \in Nat
  BY MaterialConstants, ArtifactsAreFinite
<1>4. GenerationIn(t, s.translation) = 0
         \/ GenerationIn(t, s.source) < GenerationIn(t, s.translation)
  BY DEF ContextInOrder, GenerationIn
<1> QED BY <1>2, <1>3, <1>4 DEF TranslationsOf

LEMMA LinkedStart ==
    ASSUME CaptionsInit, Init, Learner \in Context
    PROVE  Linked
BY DEF CaptionsInit, Init, Linked, LearnerSource, LearnerTranslation, Nothing, Generation,
       GenerationIn

LEMMA MaterialShowsNothing ==
    ASSUME MaterialNext
    PROVE  UNCHANGED <<source, translation>>
<1>1. ASSUME NEW m \in Material, Request(m) \/ Look(m) \/ Submit(m)
      PROVE  UNCHANGED captionVars
  BY <1>1 DEF Request, Look, Submit
<1>2. ASSUME NEW k \in Job, Enqueue(k) \/ RelayGivesUp(k) \/ Stalled(k) \/ Expire(k)
      PROVE  UNCHANGED captionVars
  BY <1>2 DEF Enqueue, RelayGivesUp, Stalled, Expire
<1>3. ASSUME NEW s \in Slot, NEW k \in Job, Start(s, k) PROVE UNCHANGED captionVars
  BY <1>3 DEF Start
<1>4. ASSUME NEW s \in Slot, SlotAction(s) PROVE UNCHANGED captionVars
  BY <1>4 DEF SlotAction, Acquire, Load, GenerateFails, Refuse, Save, SaveFails, TaskEnds,
              Execute, ExecuteFails, CatchFinal, CatchFails, Settle, Report, Crash
<1>5. UNCHANGED captionVars
  BY <1>1, <1>2, <1>3, <1>4 DEF MaterialNext, SlotStep, SlotAction
<1> QED BY <1>5 DEF captionVars

\* Both components take part in every step, or one waits.
LEMMA StudyStep ==
    ASSUME Cardinality(Artifact) <= MaxGeneration, Learner \in Context,
           CaptionsInv, Linked, [StudyNext]_<<artifactVars, vars>>
    PROVE  /\ [CaptionsNext]_artifactVars
           /\ [Next]_vars
           /\ Linked'
<1>1. ASSUME CaptionsGoOn
      PROVE  [CaptionsNext]_artifactVars /\ [Next]_vars /\ Linked'
  <2>1. CaptionsInv'
    BY <1>1, CaptionsStep DEF CaptionsGoOn
  <2>2. PICK u, v, z, x : u = captions' /\ v = video' /\ z = shown'[Learner]
                             /\ x = attaching'[Learner]
    OBVIOUS
  <2>3. TableOK(u) /\ z \in Shown /\ ContextInOrder(u, v, z, x)
    BY <2>1, <2>2 DEF CaptionsInv, CaptionsTypeOK, TableOK, PointersInOrder
  <2> DEFINE g == GenerationIn(u, z.source)
             t == GenerationIn(u, z.translation)
  <2>4. /\ g \in 0 .. MaxGeneration /\ t \in TranslationsOf(g)
        /\ g = LearnerSource' /\ t = LearnerTranslation'
    BY <2>2, <2>3, ShownGenerations DEF LearnerSource, LearnerTranslation, Generation
  <2> HIDE DEF g, t
  <2>7. Shows(g, t)
    BY <1>1, <2>4 DEF CaptionsGoOn
  <2>5. AttachContext
    BY <2>4, <2>7 DEF AttachContext
  <2>6. Linked'
    BY <2>4, <2>7 DEF Linked, Shows
  <2> QED BY <1>1, <2>5, <2>6 DEF CaptionsGoOn, Next, NewCaptions
<1>2. ASSUME MaterialGoesOn
      PROVE  [CaptionsNext]_artifactVars /\ [Next]_vars /\ Linked'
  <2>1. UNCHANGED <<source, translation>>
    BY <1>2, MaterialShowsNothing DEF MaterialGoesOn
  <2>2. UNCHANGED <<captions, shown>>
    BY <1>2 DEF MaterialGoesOn, artifactVars
  <2> QED BY <1>2, <2>1, <2>2 DEF MaterialGoesOn, Next, Linked, LearnerSource, LearnerTranslation,
                                  Generation, GenerationIn
<1>3. ASSUME UNCHANGED <<artifactVars, vars>>
      PROVE  [CaptionsNext]_artifactVars /\ [Next]_vars /\ Linked'
  <2>1. UNCHANGED <<captions, shown, source, translation>>
    BY <1>3 DEF artifactVars, vars, captionVars
  <2> QED BY <1>3, <2>1 DEF Linked, LearnerSource, LearnerTranslation, Generation, GenerationIn
<1> QED BY <1>1, <1>2, <1>3 DEF StudyNext

\* A request is for captions that are shown now, and what is published stays so.
LEMMA PublishedStep ==
    ASSUME Learner \in Context,
           CaptionsInv, Linked, Shapes, MaterialInv, MaterialIsOfPublished,
           [Next]_vars, [CaptionsNext]_artifactVars
    PROVE  MaterialIsOfPublished'
<1> SUFFICES ASSUME NEW m \in Material, row'[m] # None
             PROVE  \E a \in Artifact : /\ captions'[a].status = "ready"
                                        /\ captions'[a].generation = artifact'[m]
  BY DEF MaterialIsOfPublished
<1>1. \A a \in Artifact : captions[a].status = "ready" =>
         captions'[a].status = "ready" /\ captions'[a].generation = captions[a].generation
  <2>1. Moves
    BY CaptionsStep, CaptionsStutter
  <2> QED BY <2>1 DEF Moves, Onwards, Rows
<1>2. CASE UNCHANGED <<row, artifact>>
  BY <1>1, <1>2 DEF MaterialIsOfPublished
<1>3. ASSUME NEW d \in Material, RowEffect(d)
      PROVE  \E a \in Artifact : /\ captions'[a].status = "ready"
                                 /\ captions'[a].generation = artifact'[m]
  <2>1. CASE row[m] # None
    <3>1. artifact'[m] = artifact[m]
      BY <1>3, <2>1 DEF RowEffect, Shapes, RowShapes
    <3> QED BY <1>1, <2>1, <3>1 DEF MaterialIsOfPublished
  <2>2. CASE row[m] = None
    <3>1. d = m /\ source # 0 /\ artifact'[m] = Effective
      <4>1. d # m => row'[m] = row[m]
        BY <1>3 DEF RowEffect, Written, Shapes, RowShapes
      <4>2. d = m
        BY <2>2, <4>1
      <4>3. row[d] = None
        BY <2>2, <4>2
      <4>4. CASE source # 0 /\ artifact' = [artifact EXCEPT ![d] = Effective]
        BY <4>2, <4>4 DEF Shapes, RowShapes
      <4> QED BY <1>3, <4>3, <4>4, MaterialConstants DEF RowEffect, CanFill
    <3>2. PICK p : p = IF translation # 0 THEN shown[Learner].translation ELSE shown[Learner].source
      OBVIOUS
    <3>3. GenerationIn(captions, p) = Effective /\ Effective # 0
      BY <3>1, <3>2 DEF Linked, LearnerSource, LearnerTranslation, Effective, Generation
    <3>4. p # Null /\ captions[p].generation = Effective
      BY <3>3 DEF GenerationIn
    <3>5. p \in Artifact /\ captions[p].status = "ready"
      <4>1. shown[Learner] \in Shown
               /\ ContextInOrder(captions, video, shown[Learner], attaching[Learner])
        BY DEF CaptionsInv, CaptionsTypeOK, PointersInOrder
      <4> QED BY <3>2, <3>4, <4>1
                 DEF ContextInOrder, SeenOf, IsSource, IsTranslation, Shown, Pointer
    <3> QED BY <1>1, <3>1, <3>4, <3>5
  <2> QED BY <2>1, <2>2
<1>4. MaterialEffect
  BY MaterialEffects DEF MaterialInv
<1> QED BY <1>2, <1>3, <1>4 DEF MaterialEffect, CaptionEffect, rowVars

-----------------------------------------------------------------------------
(***************************************************************************)
(* Theorems about the two together.                                        *)
(***************************************************************************)

\* The captions of one context among many are what GeneratedMaterial takes them
\* for, so that all it promises holds of the material of a real context.
THEOREM MaterialOfAContext ==
    ASSUME Learner \in Context, Cardinality(Artifact) <= MaxGeneration
    PROVE  StudySpec => Spec /\ CaptionsSpec /\ []Linked
<1>1. CaptionsInit /\ Init => CaptionsInv /\ Linked
  BY CaptionsStart, LinkedStart
<1>2. CaptionsInv /\ Linked /\ [StudyNext]_<<artifactVars, vars>>
         => [CaptionsNext]_artifactVars /\ [Next]_vars /\ CaptionsInv' /\ Linked'
  BY StudyStep, CaptionsStep, CaptionsStutter
<1> QED BY <1>1, <1>2, PTL DEF StudySpec, Spec, CaptionsSpec

\* Material is only ever made of captions that were published: the captions an
\* overview or a quiz was asked for are ready and stay so.
THEOREM OnlyPublishedIsStudied ==
    ASSUME Learner \in Context, Cardinality(Artifact) <= MaxGeneration
    PROVE  StudySpec => []MaterialIsOfPublished
<1>1. Init => MaterialIsOfPublished
  BY DEF Init, MaterialIsOfPublished
<1>2. CaptionsInv /\ Linked /\ Shapes /\ MaterialInv /\ MaterialIsOfPublished
         /\ [Next]_vars /\ [CaptionsNext]_artifactVars
         => MaterialIsOfPublished'
  BY PublishedStep
<1> QED BY <1>1, <1>2, MaterialOfAContext, MaterialCorrect, CaptionsCorrect, PTL
       DEF StudySpec, Spec, CaptionsSpec
=============================================================================
