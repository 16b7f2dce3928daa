--------------------------- MODULE RetrievalProofs ---------------------------
(***************************************************************************)
(* Recall, for any claims, ontology, models and number of processes: the    *)
(* index stays what the chunks say, a rebuild loses nothing, the filter a   *)
(* recall expands agrees with what predicates imply, and no recall gives    *)
(* less than there is.                                                      *)
(***************************************************************************)
EXTENDS Retrieval, SequenceTheorems, FiniteSetTheorems, TLAPS

Rebuilds == INSTANCE DataLemmas WITH Op <- Apply
Ancestry == INSTANCE DataLemmas WITH Op <- ClimbBy
Sums == INSTANCE DataLemmas WITH Op <- Plus

-----------------------------------------------------------------------------
(* The inductive invariant. *)

ClaimRows == [fact : Facts, status : {"ACTIVE", "INVALIDATED"}]

\* A database, and the part of it that chunks are.
TablesShape(d) ==
  d = [claims |-> d.claims, hyperedges |-> d.hyperedges, parent |-> d.parent,
       closure |-> d.closure, chunks |-> d.chunks, index |-> d.index]
RowsShape(d) == d = [chunks |-> d.chunks, index |-> d.index]

\* The tables, and the bound.
TablesOK ==
  /\ TablesShape(db)
  /\ db.claims \in Seq(ClaimRows) /\ db.hyperedges \in Seq(Relations) /\ log \in Seq(Lines)
  /\ Len(db.claims) + Len(db.hyperedges) + Len(log) <= MaxRows

\* Chunks of at most so many lines about so many claims, and their index.
ChunksOK(chunks, index, claims, lines) ==
  /\ chunks = [i \in DOMAIN chunks |-> chunks[i]]
  /\ DOMAIN chunks \subseteq 1..lines
  /\ \A i \in DOMAIN chunks : chunks[i] \in Chunks /\ chunks[i].claim <= claims
  /\ index = [i \in {j \in DOMAIN chunks : chunks[j].vector \in Canonical} |-> chunks[i].vector]

\* What the index becomes with a new chunk.
IndexAfter(index, id, chunk) ==
  IF chunk.vector = NoVector THEN index ELSE Indexed(index, id, chunk.vector)

FilledBy(id, chunk) == IF chunk.vector = NoVector THEN {} ELSE {id}

Filled(chunks) == {i \in DOMAIN chunks : chunks[i].vector # NoVector}

\* What is in the database, a rebuild brings back.
Covered(rows) ==
  /\ DOMAIN db.chunks \subseteq DOMAIN rows.chunks
  /\ Filled(db.chunks) \subseteq Filled(rows.chunks)

RowsOK(rows) ==
  /\ RowsShape(rows)
  /\ ChunksOK(rows.chunks, rows.index, Len(db.claims), Len(log))
  /\ Covered(rows)

VectorInv ==
  /\ TablesOK
  /\ ChunksOK(db.chunks, db.index, Len(db.claims), Len(log))
  /\ RowsOK(Rows(log))
  /\ todo \in [Procs -> Seq(DOMAIN db.chunks)]

-----------------------------------------------------------------------------
(* Writing chunks. *)

\* A chunk with a new id.
LEMMA NewChunkKeeps ==
  ASSUME NEW chunks, NEW index, NEW claims \in Nat, NEW lines \in Nat,
         ChunksOK(chunks, index, claims, lines),
         NEW chunk \in Chunks, chunk.claim <= claims
  PROVE  /\ ChunksOK(With(chunks, lines + 1, chunk), IndexAfter(index, lines + 1, chunk),
                     claims, lines + 1)
         /\ DOMAIN With(chunks, lines + 1, chunk) = DOMAIN chunks \cup {lines + 1}
         /\ Filled(With(chunks, lines + 1, chunk)) =
              Filled(chunks) \cup FilledBy(lines + 1, chunk)
<1> DEFINE id == lines + 1
           new == With(chunks, id, chunk)
           newIndex == IndexAfter(index, id, chunk)
           there == {j \in DOMAIN chunks : chunks[j].vector \in Canonical}
           then == {j \in DOMAIN new : new[j].vector \in Canonical}
<1>1. id \notin DOMAIN chunks /\ id \in 1..id /\ 1..lines \subseteq 1..id
  BY DEF ChunksOK
<1>2. /\ DOMAIN new = DOMAIN chunks \cup {id} /\ new[id] = chunk
      /\ \A i \in DOMAIN chunks : new[i] = chunks[i]
      /\ new = [i \in DOMAIN new |-> new[i]]
  BY <1>1 DEF With
<1> HIDE DEF new, id
<1>3. /\ \A i \in DOMAIN new : new[i] \in Chunks /\ new[i].claim <= claims
      /\ DOMAIN new \subseteq 1..id
  BY <1>1, <1>2 DEF ChunksOK
<1> SUFFICES ChunksOK(new, newIndex, claims, id)
  <2>1. Filled(new) = Filled(chunks) \cup FilledBy(id, chunk)
    BY <1>1, <1>2 DEF Filled, FilledBy
  <2> QED BY <1>2, <2>1 DEF new, id
<1>4. CASE chunk.vector \in Canonical
  <2>1. chunk.vector # NoVector
    BY <1>4, RetrievalAssumption
  <2>2. id \notin DOMAIN index
    BY <1>1 DEF ChunksOK
  <2>3. newIndex = With(index, id, chunk.vector)
    BY <1>4, <2>1, <2>2 DEF Indexed, IndexAfter
  <2>4. then = there \cup {id} /\ DOMAIN index = there
    BY <1>1, <1>2, <1>4 DEF ChunksOK
  <2>5. newIndex = [i \in then |-> IF i = id THEN chunk.vector ELSE index[i]]
    BY <2>3, <2>4 DEF With
  <2>6. \A i \in then : (IF i = id THEN chunk.vector ELSE index[i]) = new[i].vector
    BY <1>1, <1>2, <2>4 DEF ChunksOK
  <2>7. newIndex = [i \in then |-> new[i].vector]
    BY <2>5, <2>6
  <2> HIDE DEF newIndex
  <2> QED BY <1>2, <1>3, <2>7 DEF ChunksOK
<1>5. CASE chunk.vector \notin Canonical
  <2>1. newIndex = index
    BY <1>5 DEF Indexed, IndexAfter
  <2>2. then = there
    BY <1>1, <1>2, <1>5
  <2>3. \A i \in there : new[i].vector = chunks[i].vector
    BY <1>2
  <2>4. newIndex = [i \in then |-> new[i].vector]
    BY <2>1, <2>2, <2>3 DEF ChunksOK
  <2> HIDE DEF newIndex
  <2> QED BY <1>2, <1>3, <2>4 DEF ChunksOK
<1> QED BY <1>4, <1>5

\* An embedding of a chunk that has none.
LEMMA EmbeddingKeeps ==
  ASSUME NEW chunks, NEW index, NEW claims \in Nat, NEW lines \in Nat,
         ChunksOK(chunks, index, claims, lines),
         NEW id \in DOMAIN chunks, chunks[id].vector = NoVector, NEW vector \in Vectors
  PROVE  LET new == [chunks EXCEPT ![id].vector = vector]
         IN  /\ ChunksOK(new, Indexed(index, id, vector), claims, lines)
             /\ DOMAIN new = DOMAIN chunks
             /\ Filled(new) = Filled(chunks) \cup {id}
             /\ \A i \in DOMAIN chunks : new[i].text = chunks[i].text
<1> DEFINE new == [chunks EXCEPT ![id].vector = vector]
           newIndex == Indexed(index, id, vector)
           there == {j \in DOMAIN chunks : chunks[j].vector \in Canonical}
           then == {j \in DOMAIN new : new[j].vector \in Canonical}
<1>1. \A i \in DOMAIN chunks : chunks[i] \in Chunks
  BY DEF ChunksOK
<1>2. /\ DOMAIN new = DOMAIN chunks /\ new = [i \in DOMAIN new |-> new[i]]
      /\ \A i \in DOMAIN chunks \ {id} : new[i] = chunks[i]
      /\ new[id] = [chunks[id] EXCEPT !.vector = vector]
  BY DEF ChunksOK
<1>3. new[id] \in Chunks /\ new[id].vector = vector /\ new[id].claim = chunks[id].claim
      /\ new[id].text = chunks[id].text
  BY <1>1, <1>2 DEF Chunks
<1> HIDE DEF new
<1>4. vector # NoVector /\ NoVector \notin Canonical
  BY RetrievalAssumption
<1>5. /\ \A i \in DOMAIN new : new[i] \in Chunks /\ new[i].claim <= claims
      /\ DOMAIN new \subseteq 1..lines
  BY <1>2, <1>3 DEF ChunksOK
<1>6. DOMAIN index = there /\ id \notin there
  BY <1>4 DEF ChunksOK
<1>7. newIndex = [i \in then |-> new[i].vector]
  <2>1. CASE vector \in Canonical
    <3>1. newIndex = With(index, id, vector)
      BY <1>6, <2>1 DEF Indexed
    <3>2. then = there \cup {id}
      BY <1>2, <1>3, <2>1
    <3>3. newIndex = [i \in then |-> IF i = id THEN vector ELSE index[i]]
      BY <1>6, <3>1, <3>2 DEF With
    <3>4. \A i \in then : (IF i = id THEN vector ELSE index[i]) = new[i].vector
      BY <1>2, <1>3, <1>6, <3>2 DEF ChunksOK
    <3> QED BY <3>3, <3>4
  <2>2. CASE vector \notin Canonical
    <3>1. newIndex = index
      BY <2>2 DEF Indexed
    <3>2. then = there
      BY <1>2, <1>3, <1>6, <2>2
    <3>3. \A i \in there : new[i].vector = chunks[i].vector
      BY <1>2, <1>6
    <3> QED BY <3>1, <3>2, <3>3 DEF ChunksOK
  <2> QED BY <2>1, <2>2
<1>8. ChunksOK(new, newIndex, claims, lines)
  BY <1>2, <1>5, <1>7 DEF ChunksOK
<1>9. Filled(new) = Filled(chunks) \cup {id}
  BY <1>2, <1>3, <1>4 DEF Filled
<1> QED BY <1>2, <1>3, <1>8, <1>9 DEF new

\* What the writes make of a database, and of the part of it that chunks are.
Written(d, chunks, index) == [d EXCEPT !.chunks = chunks, !.index = index]

LEMMA TablesWritten ==
  ASSUME NEW d, TablesShape(d), NEW chunks, NEW index, NEW e, e = Written(d, chunks, index)
  PROVE  /\ TablesShape(e) /\ e.chunks = chunks /\ e.index = index
             /\ e.claims = d.claims /\ e.hyperedges = d.hyperedges
             /\ e.parent = d.parent /\ e.closure = d.closure
<1>1. PICK a, b, p, q, x, y :
        d = [claims |-> a, hyperedges |-> b, parent |-> p, closure |-> q, chunks |-> x, index |-> y]
  BY DEF TablesShape
<1>2. /\ d \in [claims : {a}, hyperedges : {b}, parent : {p}, closure : {q}, chunks : {x}, index : {y}]
      /\ d.claims = a /\ d.hyperedges = b /\ d.parent = p /\ d.closure = q
  BY ONLY <1>1
<1>3. e \in
        [claims : {a}, hyperedges : {b}, parent : {p}, closure : {q}, chunks : {chunks},
         index : {index}]
  BY ONLY <1>2, e = Written(d, chunks, index) DEF Written
<1>4. /\ e = [claims |-> e.claims, hyperedges |-> e.hyperedges, parent |-> e.parent,
              closure |-> e.closure, chunks |-> e.chunks, index |-> e.index]
      /\ e.claims = a /\ e.hyperedges = b /\ e.parent = p /\ e.closure = q
      /\ e.chunks = chunks /\ e.index = index
  BY ONLY <1>3
<1> QED BY ONLY <1>2, <1>4 DEF TablesShape

LEMMA RowsWritten ==
  ASSUME NEW d, RowsShape(d), NEW chunks, NEW index, NEW e, e = Written(d, chunks, index)
  PROVE  RowsShape(e) /\ e.chunks = chunks /\ e.index = index
<1>1. PICK x, y : d = [chunks |-> x, index |-> y]
  BY DEF RowsShape
<1>2. d \in [chunks : {x}, index : {y}]
  BY ONLY <1>1
<1>3. e \in [chunks : {chunks}, index : {index}]
  BY ONLY <1>2, e = Written(d, chunks, index) DEF Written
<1>4. e = [chunks |-> e.chunks, index |-> e.index] /\ e.chunks = chunks /\ e.index = index
  BY ONLY <1>3
<1> QED BY ONLY <1>4 DEF RowsShape

LEMMA AddChunkWrites ==
  ASSUME NEW d, TablesShape(d) \/ RowsShape(d), NEW id, NEW chunk
  PROVE  AddChunk(d, id, chunk) =
           Written(d, With(d.chunks, id, chunk), IndexAfter(d.index, id, chunk))
<1>1. CASE TablesShape(d)
  BY <1>1 DEF AddChunk, Written, IndexAfter, TablesShape
<1>2. CASE RowsShape(d)
  BY <1>2 DEF AddChunk, Written, IndexAfter, RowsShape
<1> QED BY <1>1, <1>2

LEMMA EmbedWrites ==
  ASSUME NEW d, TablesShape(d) \/ RowsShape(d), NEW id, NEW vector,
         EmbedAccepted(d, id, vector), d.chunks[id].vector # vector
  PROVE  Embed(d, id, vector) =
           Written(d, [d.chunks EXCEPT ![id].vector = vector], Indexed(d.index, id, vector))
<1>1. CASE TablesShape(d)
  BY <1>1 DEF Embed, Written, TablesShape
<1>2. CASE RowsShape(d)
  BY <1>2 DEF Embed, Written, RowsShape
<1> QED BY <1>1, <1>2

\* A chunk, and so a line, that a rebuild applies last.
LEMMA RowsOfNothing == ASSUME log = <<>> PROVE Rows(log) = NoRows
<1>1. Numbered(log) = <<>>
  BY DEF Numbered
<1>2. Rows(log) = Rebuilds!Fold(NoRows, Numbered(log))
  BY DEF Rows, Rebuilds!Fold, Rebuilds!FoldLeft, FoldLeft, Rebuilds!MapThenFoldSet,
         MapThenFoldSet, Rebuilds!Max, Max
<1> QED BY <1>1, <1>2, Rebuilds!FoldEmpty

LEMMA RowsOfAppend ==
  ASSUME NEW lines \in Seq(Lines), NEW line \in Lines
  PROVE  Rows(Append(lines, line)) = Effect(Rows(lines), Len(lines) + 1, line)
<1> DEFINE Entries == [id : Nat, line : Lines]
           n == Len(lines)
           long == Append(lines, line)
           entry == [id |-> n + 1, line |-> line]
<1>1. /\ n \in Nat /\ DOMAIN lines = 1..n /\ DOMAIN long = 1..(n + 1)
      /\ \A i \in 1..n : long[i] = lines[i] /\ lines[i] \in Lines
      /\ long[n + 1] = line
  BY AppendProperties, LenProperties, ElementOfSeq
<1> HIDE DEF n, long
<1>2. Numbered(lines) \in Seq(Entries) /\ Len(Numbered(lines)) = n
  <2>1. \A i \in 1..n : [id |-> i, line |-> lines[i]] \in Entries
    BY <1>1
  <2> HIDE DEF Entries
  <2>2. Numbered(lines) \in [1..n -> Entries]
    BY <1>1, <2>1 DEF Numbered
  <2> QED BY <1>1, <2>2, IsASeq, LenProperties
<1>3. entry \in Entries
  BY <1>1
<1> HIDE DEF Entries, entry
<1>4. Numbered(long) = Append(Numbered(lines), entry)
  <2>1. /\ DOMAIN Append(Numbered(lines), entry) = 1..(n + 1)
        /\ \A i \in 1..n : Append(Numbered(lines), entry)[i] = Numbered(lines)[i]
        /\ Append(Numbered(lines), entry)[n + 1] = entry
        /\ Append(Numbered(lines), entry) =
             [i \in 1..(n + 1) |-> Append(Numbered(lines), entry)[i]]
    <3> DEFINE old == Numbered(lines)
    <3>1. old \in Seq(Entries) /\ Len(old) = n
      BY <1>2
    <3> HIDE DEF old
    <3>2. /\ Append(old, entry) \in Seq(Entries) /\ Len(Append(old, entry)) = n + 1
          /\ Append(old, entry)[n + 1] = entry
          /\ \A i \in 1..n : Append(old, entry)[i] = old[i]
      BY <1>1, <1>3, <3>1, AppendProperties
    <3>3. Append(old, entry) \in [1..(n + 1) -> Entries]
      BY <3>2, LenProperties
    <3> QED BY <3>2, <3>3 DEF old
  <2>2. \A i \in 1..(n + 1) : Numbered(long)[i] = [id |-> i, line |-> long[i]]
    BY <1>1 DEF Numbered
  <2>3. \A i \in 1..n : Numbered(lines)[i] = [id |-> i, line |-> lines[i]]
    BY <1>1 DEF Numbered
  <2>4. ASSUME NEW i \in 1..(n + 1)
        PROVE  Numbered(long)[i] = Append(Numbered(lines), entry)[i]
    <3>1. CASE i \in 1..n
      BY <1>1, <2>1, <2>2, <2>3, <3>1
    <3>2. CASE i = n + 1
      BY <1>1, <2>1, <2>2, <3>2 DEF entry
    <3>3. n \in Nat
      BY <1>1
    <3>4. i \in 1..n \/ i = n + 1
      BY ONLY <3>3, i \in 1..(n + 1)
    <3> QED BY <3>1, <3>2, <3>4
  <2>5. Numbered(long) = [i \in 1..(n + 1) |-> Numbered(long)[i]]
    BY <1>1 DEF Numbered
  <2> QED BY <2>1, <2>4, <2>5
<1>5. /\ Rows(long) = Rebuilds!Fold(NoRows, Numbered(long))
      /\ Rows(lines) = Rebuilds!Fold(NoRows, Numbered(lines))
  BY DEF Rows, Rebuilds!Fold, Rebuilds!FoldLeft, FoldLeft, Rebuilds!MapThenFoldSet,
         MapThenFoldSet, Rebuilds!Max, Max
<1>6. Rebuilds!Fold(NoRows, Append(Numbered(lines), entry))
        = Apply(Rebuilds!Fold(NoRows, Numbered(lines)), entry)
  BY <1>2, <1>3, Rebuilds!FoldAppend
<1>7. Rows(long) = Apply(Rows(lines), entry)
  BY <1>4, <1>5, <1>6
<1> QED BY <1>7 DEF Apply, entry, long, n

\* The same of a whole database, or of what a rebuild has of it.
EmbedKept(d, e, id) ==
  /\ DOMAIN e.chunks = DOMAIN d.chunks
  /\ Filled(e.chunks) = Filled(d.chunks) \cup {id}

LEMMA EmbedKeeps ==
  ASSUME NEW d, NEW claims \in Nat, NEW lines \in Nat,
         ChunksOK(d.chunks, d.index, claims, lines),
         NEW id \in DOMAIN d.chunks, NEW vector \in Vectors
  PROVE  LET e == Embed(d, id, vector)
         IN  /\ TablesShape(d) =>
                  /\ TablesShape(e) /\ ChunksOK(e.chunks, e.index, claims, lines)
                  /\ EmbedKept(d, e, id)
                  /\ e.claims = d.claims /\ e.hyperedges = d.hyperedges
                  /\ e.parent = d.parent /\ e.closure = d.closure
             /\ RowsShape(d) =>
                  /\ RowsShape(e) /\ ChunksOK(e.chunks, e.index, claims, lines)
                  /\ EmbedKept(d, e, id)
<1>1. vector # NoVector
  BY RetrievalAssumption
<1>2. CASE ~EmbedAccepted(d, id, vector) \/ d.chunks[id].vector = vector
  <2>1. Embed(d, id, vector) = d
    BY <1>2 DEF Embed
  <2>2. id \in Filled(d.chunks)
    BY <1>1, <1>2 DEF EmbedAccepted, Filled
  <2> QED BY <2>1, <2>2 DEF EmbedKept
<1>3. CASE EmbedAccepted(d, id, vector) /\ d.chunks[id].vector # vector
  <2> DEFINE chunks == [d.chunks EXCEPT ![id].vector = vector]
             index == Indexed(d.index, id, vector)
             e == Written(d, chunks, index)
  <2>1. d.chunks[id].vector = NoVector
    BY <1>3 DEF EmbedAccepted
  <2>2. /\ ChunksOK(chunks, index, claims, lines)
        /\ DOMAIN chunks = DOMAIN d.chunks /\ Filled(chunks) = Filled(d.chunks) \cup {id}
    BY <2>1, EmbeddingKeeps
  <2>3. TablesShape(d) \/ RowsShape(d) => Embed(d, id, vector) = e
    BY <1>3, EmbedWrites
  <2> HIDE DEF chunks, index
  <2>4. TablesShape(d) => /\ TablesShape(e) /\ e.chunks = chunks /\ e.index = index
                          /\ e.claims = d.claims /\ e.hyperedges = d.hyperedges
                          /\ e.parent = d.parent /\ e.closure = d.closure
    BY TablesWritten
  <2>5. RowsShape(d) => RowsShape(e) /\ e.chunks = chunks /\ e.index = index
    BY RowsWritten
  <2> HIDE DEF e
  <2> QED BY <2>2, <2>3, <2>4, <2>5 DEF EmbedKept
<1> QED BY <1>2, <1>3

AddKept(d, e, id, chunk) ==
  /\ DOMAIN e.chunks = DOMAIN d.chunks \cup {id}
  /\ Filled(e.chunks) = Filled(d.chunks) \cup FilledBy(id, chunk)

LEMMA AddKeeps ==
  ASSUME NEW d, NEW claims \in Nat, NEW lines \in Nat,
         ChunksOK(d.chunks, d.index, claims, lines),
         NEW chunk \in Chunks, chunk.claim <= claims
  PROVE  LET e == AddChunk(d, lines + 1, chunk)
         IN  /\ TablesShape(d) =>
                  /\ TablesShape(e) /\ ChunksOK(e.chunks, e.index, claims, lines + 1)
                  /\ AddKept(d, e, lines + 1, chunk)
                  /\ e.claims = d.claims /\ e.hyperedges = d.hyperedges
                  /\ e.parent = d.parent /\ e.closure = d.closure
             /\ RowsShape(d) =>
                  /\ RowsShape(e) /\ ChunksOK(e.chunks, e.index, claims, lines + 1)
                  /\ AddKept(d, e, lines + 1, chunk)
<1> DEFINE id == lines + 1
           chunks == With(d.chunks, id, chunk)
           index == IndexAfter(d.index, id, chunk)
           e == Written(d, chunks, index)
<1>1. /\ ChunksOK(chunks, index, claims, id)
      /\ DOMAIN chunks = DOMAIN d.chunks \cup {id}
      /\ Filled(chunks) = Filled(d.chunks) \cup FilledBy(id, chunk)
  BY NewChunkKeeps
<1>2. TablesShape(d) \/ RowsShape(d) => AddChunk(d, id, chunk) = e
  <2> HIDE DEF id
  <2> QED BY AddChunkWrites
<1> HIDE DEF chunks, index
<1>3. TablesShape(d) => /\ TablesShape(e) /\ e.chunks = chunks /\ e.index = index
                        /\ e.claims = d.claims /\ e.hyperedges = d.hyperedges
                        /\ e.parent = d.parent /\ e.closure = d.closure
  BY TablesWritten
<1>4. RowsShape(d) => RowsShape(e) /\ e.chunks = chunks /\ e.index = index
  BY RowsWritten
<1> HIDE DEF e
<1> QED BY <1>1, <1>2, <1>3, <1>4 DEF AddKept

LEMMA ChunksStay ==
  ASSUME NEW chunks, NEW index, NEW claims \in Nat, NEW more \in Nat, NEW lines \in Nat,
         NEW longer \in Nat, ChunksOK(chunks, index, claims, lines), claims <= more, lines <= longer
  PROVE  ChunksOK(chunks, index, more, longer)
<1>1. 1..lines \subseteq 1..longer
  OBVIOUS
<1>2. \A i \in DOMAIN chunks : chunks[i].claim \in Nat
  BY DEF ChunksOK, Chunks
<1> QED BY <1>1, <1>2 DEF ChunksOK

LEMMA TodoStays ==
  ASSUME NEW S, NEW T, S \subseteq T, NEW f \in [Procs -> Seq(S)]
  PROVE  f \in [Procs -> Seq(T)]
BY SeqMonotonic

-----------------------------------------------------------------------------
(* The invariant, action by action. *)

LEMMA Lengths ==
  ASSUME VectorInv
  PROVE  /\ Len(db.claims) \in Nat /\ DOMAIN db.claims = 1..Len(db.claims)
         /\ Len(db.hyperedges) \in Nat
         /\ Len(log) \in Nat /\ DOMAIN log = 1..Len(log)
         /\ Len(db.claims) <= MaxRows /\ Len(log) <= MaxRows /\ MaxRows \in Nat
<1>1. /\ Len(db.claims) \in Nat /\ DOMAIN db.claims = 1..Len(db.claims)
      /\ Len(db.hyperedges) \in Nat
      /\ Len(log) \in Nat /\ DOMAIN log = 1..Len(log)
  BY LenProperties DEF VectorInv, TablesOK
<1>2. Len(db.claims) + Len(db.hyperedges) + Len(log) <= MaxRows /\ MaxRows \in Nat
  BY RetrievalAssumption DEF VectorInv, TablesOK
<1>3. \A a, b, c \in Nat : a + b + c <= MaxRows => a <= MaxRows /\ c <= MaxRows
  BY <1>2
<1> QED BY <1>1, <1>2, <1>3

LEMMA Sizes ==
  ASSUME VectorInv
  PROVE  \E a, b, n \in Nat : /\ a = Len(db.claims) /\ b = Len(db.hyperedges) /\ n = Len(log)
                             /\ a + b + n <= MaxRows
BY Lengths DEF VectorInv, TablesOK

LEMMA VectorInit == Init => VectorInv
<1> SUFFICES ASSUME Init PROVE VectorInv
  OBVIOUS
<1>1. /\ db.claims = <<>> /\ db.hyperedges = <<>> /\ log = <<>>
      /\ db.chunks = None /\ db.index = None /\ TablesShape(db)
  BY DEF Init, TablesShape
<1>2. None = [i \in {} |-> None[i]] /\ DOMAIN None = {}
  BY DEF None
<1>3. ChunksOK(None, None, 0, 0)
  <2>1. {j \in DOMAIN None : None[j].vector \in Canonical} = {}
    BY <1>2
  <2>2. None = [i \in {} |-> None[i].vector]
    BY DEF None
  <2> QED BY <1>2, <2>1, <2>2 DEF ChunksOK
<1>4. Len(<<>>) = 0 /\ \A S : <<>> \in Seq(S)
  BY EmptySeq
<1>5. TablesOK
  BY <1>1, <1>4, RetrievalAssumption DEF TablesOK
<1>6. RowsShape(NoRows) /\ NoRows.chunks = None /\ NoRows.index = None
  BY DEF RowsShape, NoRows
<1>7. Rows(log) = NoRows
  BY <1>1, RowsOfNothing
<1>8. RowsOK(NoRows)
  BY <1>1, <1>3, <1>4, <1>6 DEF RowsOK, Covered
<1>9. todo \in [Procs -> Seq(DOMAIN db.chunks)]
  BY <1>4 DEF Init
<1> QED BY <1>1, <1>3, <1>4, <1>5, <1>7, <1>8, <1>9 DEF VectorInv

\* Writes that leave the chunks and their lines.
LEMMA GraphWritesKeep ==
  ASSUME VectorInv, TablesShape(db'), db'.claims \in Seq(ClaimRows),
         db'.hyperedges \in Seq(Relations), UNCHANGED <<log, todo>>,
         Len(db.claims) <= Len(db'.claims),
         Len(db'.claims) + Len(db'.hyperedges) + Len(log) <= MaxRows,
         db'.chunks = db.chunks, db'.index = db.index
  PROVE  VectorInv'
<1>1. PICK m \in Nat, more \in Nat, n \in Nat :
        m = Len(db.claims) /\ more = Len(db'.claims) /\ n = Len(log) /\ m <= more
  BY Lengths, LenProperties
<1>2. PICK lines : lines = log
  OBVIOUS
<1>3. PICK rows : rows = Rows(lines)
  OBVIOUS
<1>4. /\ Rows(log) = rows /\ Rows(log') = rows /\ Len(log') = n /\ Len(log) = n
  BY <1>1, <1>2, <1>3
<1>5. /\ ChunksOK(db.chunks, db.index, m, n) /\ RowsShape(rows)
      /\ ChunksOK(rows.chunks, rows.index, m, n) /\ Covered(rows)
  BY <1>1, <1>4 DEF VectorInv, RowsOK
<1>6. ChunksOK(db.chunks, db.index, more, n) /\ ChunksOK(rows.chunks, rows.index, more, n)
  BY <1>1, <1>5, ChunksStay
<1>7. TablesOK'
  BY DEF VectorInv, TablesOK
<1>8. /\ DOMAIN db'.chunks \subseteq DOMAIN rows.chunks
      /\ Filled(db'.chunks) \subseteq Filled(rows.chunks)
  BY <1>5 DEF Covered
<1>9. RowsOK(Rows(log))'
  BY <1>1, <1>4, <1>5, <1>6, <1>8 DEF RowsOK, Covered
<1>10. ChunksOK(db.chunks, db.index, Len(db.claims), Len(log))'
  BY <1>1, <1>4, <1>6
<1>11. (todo \in [Procs -> Seq(DOMAIN db.chunks)])'
  BY DEF VectorInv
<1> QED BY <1>7, <1>9, <1>10, <1>11 DEF VectorInv

\* What Learn does to a vocabulary.
ParentsWith(parent, name) ==
  [p \in DOMAIN parent \cup {name} |-> IF p = name THEN "relates_to" ELSE parent[p]]

LEMMA LearnWrites ==
  ASSUME NEW d, TablesShape(d), NEW name, NEW e, e = Learn(d, name)
  PROVE  /\ TablesShape(e)
         /\ e.claims = d.claims /\ e.hyperedges = d.hyperedges
         /\ e.chunks = d.chunks /\ e.index = d.index
         /\ IF Known(d, name) THEN e = d
            ELSE e.parent = ParentsWith(d.parent, name) /\ e.closure = Closure(e.parent)
<1>1. CASE Known(d, name)
  BY <1>1 DEF Learn
<1>2. CASE ~Known(d, name)
  <2> DEFINE parent == ParentsWith(d.parent, name)
             closure == Closure(parent)
  <2>1. e = [d EXCEPT !.parent = parent, !.closure = closure]
    BY <1>2 DEF Learn, ParentsWith
  <2> HIDE DEF parent, closure
  <2>2. PICK a, b, p, q, x, y :
          d = [claims |-> a, hyperedges |-> b, parent |-> p, closure |-> q, chunks |-> x,
               index |-> y]
    BY DEF TablesShape
  <2>3. /\ d \in [claims : {a}, hyperedges : {b}, parent : {p}, closure : {q}, chunks : {x},
                  index : {y}]
        /\ d.claims = a /\ d.hyperedges = b /\ d.chunks = x /\ d.index = y
    BY ONLY <2>2
  <2>4. e \in [claims : {a}, hyperedges : {b}, parent : {parent}, closure : {closure},
               chunks : {x}, index : {y}]
    BY ONLY <2>1, <2>3
  <2>5. /\ e = [claims |-> e.claims, hyperedges |-> e.hyperedges, parent |-> e.parent,
                closure |-> e.closure, chunks |-> e.chunks, index |-> e.index]
        /\ e.claims = a /\ e.hyperedges = b /\ e.chunks = x /\ e.index = y
        /\ e.parent = parent /\ e.closure = closure
    BY ONLY <2>4
  <2> QED BY <1>2, <2>3, <2>5 DEF TablesShape, parent, closure
<1> QED BY <1>1, <1>2

\* A table of its own.
LEMMA ClaimsWritten ==
  ASSUME NEW d, TablesShape(d), NEW claims, NEW e, e = [d EXCEPT !.claims = claims]
  PROVE  /\ TablesShape(e) /\ e.claims = claims
         /\ e.hyperedges = d.hyperedges /\ e.chunks = d.chunks /\ e.index = d.index
         /\ e.parent = d.parent /\ e.closure = d.closure
<1>1. PICK a, b, p, q, x, y :
        d = [claims |-> a, hyperedges |-> b, parent |-> p, closure |-> q, chunks |-> x, index |-> y]
  BY DEF TablesShape
<1>2. /\ d \in [claims : {a}, hyperedges : {b}, parent : {p}, closure : {q}, chunks : {x}, index : {y}]
      /\ d.hyperedges = b /\ d.parent = p /\ d.closure = q /\ d.chunks = x /\ d.index = y
  BY ONLY <1>1
<1>3. e \in [claims : {claims}, hyperedges : {b}, parent : {p}, closure : {q}, chunks : {x},
             index : {y}]
  BY ONLY <1>2, e = [d EXCEPT !.claims = claims]
<1>4. /\ e = [claims |-> e.claims, hyperedges |-> e.hyperedges, parent |-> e.parent,
              closure |-> e.closure, chunks |-> e.chunks, index |-> e.index]
      /\ e.claims = claims /\ e.hyperedges = b /\ e.parent = p /\ e.closure = q
      /\ e.chunks = x /\ e.index = y
  BY ONLY <1>3
<1> QED BY ONLY <1>2, <1>4 DEF TablesShape

LEMMA HyperedgesWritten ==
  ASSUME NEW d, TablesShape(d), NEW hyperedges, NEW e, e = [d EXCEPT !.hyperedges = hyperedges]
  PROVE  /\ TablesShape(e) /\ e.hyperedges = hyperedges
         /\ e.claims = d.claims /\ e.chunks = d.chunks /\ e.index = d.index
         /\ e.parent = d.parent /\ e.closure = d.closure
<1>1. PICK a, b, p, q, x, y :
        d = [claims |-> a, hyperedges |-> b, parent |-> p, closure |-> q, chunks |-> x, index |-> y]
  BY DEF TablesShape
<1>2. /\ d \in [claims : {a}, hyperedges : {b}, parent : {p}, closure : {q}, chunks : {x}, index : {y}]
      /\ d.claims = a /\ d.parent = p /\ d.closure = q /\ d.chunks = x /\ d.index = y
  BY ONLY <1>1
<1>3. e \in [claims : {a}, hyperedges : {hyperedges}, parent : {p}, closure : {q}, chunks : {x},
             index : {y}]
  BY ONLY <1>2, e = [d EXCEPT !.hyperedges = hyperedges]
<1>4. /\ e = [claims |-> e.claims, hyperedges |-> e.hyperedges, parent |-> e.parent,
              closure |-> e.closure, chunks |-> e.chunks, index |-> e.index]
      /\ e.claims = a /\ e.hyperedges = hyperedges /\ e.parent = p /\ e.closure = q
      /\ e.chunks = x /\ e.index = y
  BY ONLY <1>3
<1> QED BY ONLY <1>2, <1>4 DEF TablesShape

\* The claims and hyperedges that the steps write.
LEMMA AddClaimWrites ==
  ASSUME TablesShape(db), NEW fact, AddClaim(fact), NEW e, e = Learn(db, fact.predicate)
  PROVE  /\ TablesShape(db') /\ db'.hyperedges = db.hyperedges
         /\ db'.claims = Append(db.claims, [fact |-> fact, status |-> "ACTIVE"])
         /\ db'.chunks = db.chunks /\ db'.index = db.index
         /\ db'.parent = e.parent /\ db'.closure = e.closure
<1>1. /\ TablesShape(e) /\ e.claims = db.claims /\ e.hyperedges = db.hyperedges
      /\ e.chunks = db.chunks /\ e.index = db.index
  BY LearnWrites
<1> DEFINE claims == Append(e.claims, [fact |-> fact, status |-> "ACTIVE"])
<1>2. db' = [e EXCEPT !.claims = claims]
  BY DEF AddClaim
<1> HIDE DEF claims
<1>3. /\ TablesShape(db') /\ db'.claims = claims
      /\ db'.hyperedges = e.hyperedges /\ db'.chunks = e.chunks /\ db'.index = e.index
      /\ db'.parent = e.parent /\ db'.closure = e.closure
  BY <1>1, <1>2, ClaimsWritten
<1> QED BY <1>1, <1>3 DEF claims

LEMMA AddHyperedgeWrites ==
  ASSUME TablesShape(db), NEW relation, AddHyperedge(relation),
         NEW e, e = Learn(db, relation.predicate)
  PROVE  /\ TablesShape(db') /\ db'.hyperedges = Append(db.hyperedges, relation)
         /\ db'.claims = db.claims /\ db'.chunks = db.chunks /\ db'.index = db.index
         /\ db'.parent = e.parent /\ db'.closure = e.closure
<1>1. /\ TablesShape(e) /\ e.claims = db.claims /\ e.hyperedges = db.hyperedges
      /\ e.chunks = db.chunks /\ e.index = db.index
  BY LearnWrites
<1> DEFINE hyperedges == Append(e.hyperedges, relation)
<1>2. db' = [e EXCEPT !.hyperedges = hyperedges]
  BY DEF AddHyperedge
<1> HIDE DEF hyperedges
<1>3. /\ TablesShape(db') /\ db'.hyperedges = hyperedges
      /\ db'.claims = e.claims /\ db'.chunks = e.chunks /\ db'.index = e.index
      /\ db'.parent = e.parent /\ db'.closure = e.closure
  BY <1>1, <1>2, HyperedgesWritten
<1> QED BY <1>1, <1>3 DEF hyperedges

LEMMA RetireWrites ==
  ASSUME TablesShape(db), NEW c, Retire(c)
  PROVE  /\ TablesShape(db')
         /\ db'.claims = [db.claims EXCEPT ![c].status = "INVALIDATED"]
         /\ db'.hyperedges = db.hyperedges /\ db'.chunks = db.chunks /\ db'.index = db.index
         /\ db'.parent = db.parent /\ db'.closure = db.closure
<1> DEFINE claims == [db.claims EXCEPT ![c].status = "INVALIDATED"]
<1>1. db' = [db EXCEPT !.claims = claims]
  BY DEF Retire, TablesShape
<1> HIDE DEF claims
<1> QED BY <1>1, ClaimsWritten DEF claims

LEMMA AddClaimKeeps ==
  ASSUME VectorInv, NEW fact \in Facts, AddClaim(fact)
  PROVE  VectorInv'
<1> DEFINE row == [fact |-> fact, status |-> "ACTIVE"]
<1>1. TablesShape(db) /\ db.claims \in Seq(ClaimRows) /\ db.hyperedges \in Seq(Relations)
  BY DEF VectorInv, TablesOK
<1>2. PICK e : e = Learn(db, fact.predicate)
  OBVIOUS
<1>3. /\ TablesShape(db') /\ db'.hyperedges = db.hyperedges
      /\ db'.claims = Append(db.claims, row)
      /\ db'.chunks = db.chunks /\ db'.index = db.index
  BY <1>1, <1>2, AddClaimWrites
<1>4. row \in ClaimRows
  BY DEF ClaimRows
<1> HIDE DEF row
<1>5. db'.claims \in Seq(ClaimRows) /\ Len(db'.claims) = Len(db.claims) + 1
  BY <1>1, <1>3, <1>4, AppendProperties
<1>6. Len(db.claims) + Len(db.hyperedges) + Len(log) < MaxRows /\ UNCHANGED <<log, todo>>
  BY DEF AddClaim, Room
<1>7. /\ Len(db.claims) <= Len(db'.claims)
      /\ Len(db'.claims) + Len(db'.hyperedges) + Len(log) <= MaxRows
  <2>1. PICK a, b, n \in Nat : a = Len(db.claims) /\ b = Len(db.hyperedges) /\ n = Len(log)
    BY Sizes
  <2>2. MaxRows \in Nat
    BY RetrievalAssumption
  <2>3. /\ Len(db'.claims) = a + 1 /\ Len(db'.hyperedges) = b /\ Len(log) = n
        /\ Len(db.claims) = a /\ a + b + n < MaxRows
    BY <1>3, <1>5, <1>6, <2>1
  <2> QED BY ONLY <2>2, <2>3, a \in Nat, b \in Nat, n \in Nat
<1> QED BY <1>1, <1>3, <1>5, <1>6, <1>7, GraphWritesKeep

LEMMA RetireKeeps ==
  ASSUME VectorInv, NEW c, Retire(c)
  PROVE  VectorInv'
<1>1. TablesShape(db) /\ db.claims \in Seq(ClaimRows) /\ db.hyperedges \in Seq(Relations)
  BY DEF VectorInv, TablesOK
<1>2. /\ TablesShape(db') /\ db'.claims = [db.claims EXCEPT ![c].status = "INVALIDATED"]
      /\ db'.hyperedges = db.hyperedges /\ db'.chunks = db.chunks /\ db'.index = db.index
  BY <1>1, RetireWrites
<1>3. c \in 1..Len(db.claims) /\ UNCHANGED <<log, todo>>
  BY Lengths DEF Retire
<1>4. db'.claims \in Seq(ClaimRows) /\ Len(db'.claims) = Len(db.claims)
  <2> DEFINE row == [db.claims[c] EXCEPT !.status = "INVALIDATED"]
  <2>1. db.claims[c] \in ClaimRows
    BY <1>1, <1>3, ElementOfSeq
  <2>2. row \in ClaimRows
    BY <2>1 DEF ClaimRows
  <2>3. db'.claims = [db.claims EXCEPT ![c] = row]
    BY <1>2
  <2> HIDE DEF row
  <2> QED BY <1>1, <1>3, <2>2, <2>3, ExceptSeq
<1>5. /\ Len(db.claims) <= Len(db'.claims)
      /\ Len(db'.claims) + Len(db'.hyperedges) + Len(log) <= MaxRows
  <2>1. PICK a, b, n \in Nat : /\ a = Len(db.claims) /\ b = Len(db.hyperedges) /\ n = Len(log)
                              /\ a + b + n <= MaxRows
    BY Sizes
  <2>2. /\ Len(db'.claims) = a /\ Len(db'.hyperedges) = b /\ Len(log) = n /\ Len(db.claims) = a
        /\ a + b + n <= MaxRows
    BY <1>2, <1>4, <2>1
  <2>3. MaxRows \in Nat
    BY RetrievalAssumption
  <2> QED BY ONLY <2>2, <2>3, a \in Nat, b \in Nat, n \in Nat
<1> QED BY <1>1, <1>2, <1>3, <1>4, <1>5, GraphWritesKeep

LEMMA AddHyperedgeKeeps ==
  ASSUME VectorInv, NEW relation \in Relations, AddHyperedge(relation)
  PROVE  VectorInv'
<1>1. TablesShape(db) /\ db.claims \in Seq(ClaimRows) /\ db.hyperedges \in Seq(Relations)
  BY DEF VectorInv, TablesOK
<1>2. PICK e : e = Learn(db, relation.predicate)
  OBVIOUS
<1>3. /\ TablesShape(db') /\ db'.hyperedges = Append(db.hyperedges, relation)
      /\ db'.claims = db.claims /\ db'.chunks = db.chunks /\ db'.index = db.index
  BY <1>1, <1>2, AddHyperedgeWrites
<1>4. db'.hyperedges \in Seq(Relations) /\ Len(db'.hyperedges) = Len(db.hyperedges) + 1
  BY <1>1, <1>3, AppendProperties
<1>5. Len(db.claims) + Len(db.hyperedges) + Len(log) < MaxRows /\ UNCHANGED <<log, todo>>
  BY DEF AddHyperedge, Room
<1>6. /\ Len(db.claims) <= Len(db'.claims)
      /\ Len(db'.claims) + Len(db'.hyperedges) + Len(log) <= MaxRows
  <2>1. PICK a, b, n \in Nat : a = Len(db.claims) /\ b = Len(db.hyperedges) /\ n = Len(log)
    BY Sizes
  <2>2. MaxRows \in Nat
    BY RetrievalAssumption
  <2>3. /\ Len(db'.claims) = a /\ Len(db'.hyperedges) = b + 1 /\ Len(log) = n
        /\ Len(db.claims) = a /\ a + b + n < MaxRows
    BY <1>3, <1>4, <1>5, <2>1
  <2> QED BY ONLY <2>2, <2>3, a \in Nat, b \in Nat, n \in Nat
<1> QED BY <1>1, <1>3, <1>4, <1>5, <1>6, GraphWritesKeep

\* Writes of chunks: a line is appended, and what the database has then, a rebuild has.
LEMMA ChunkWritesKeep ==
  ASSUME VectorInv, Room, NEW line \in Lines, log' = Append(log, line),
         TablesShape(db'), db'.claims = db.claims, db'.hyperedges = db.hyperedges,
         ChunksOK(db'.chunks, db'.index, Len(db.claims), Len(log) + 1),
         NEW rows, rows = Effect(Rows(log), Len(log) + 1, line),
         RowsShape(rows), ChunksOK(rows.chunks, rows.index, Len(db.claims), Len(log) + 1),
         DOMAIN db'.chunks \subseteq DOMAIN rows.chunks,
         Filled(db'.chunks) \subseteq Filled(rows.chunks),
         todo' \in [Procs -> Seq(DOMAIN db'.chunks)]
  PROVE  VectorInv'
<1>1. log \in Seq(Lines)
  BY DEF VectorInv, TablesOK
<1>2. log' \in Seq(Lines) /\ Len(log') = Len(log) + 1
  BY <1>1, AppendProperties
<1>3. Rows(log') = rows
  <2>1. PICK lines : lines = log
    OBVIOUS
  <2> QED BY <1>1, <2>1, RowsOfAppend
<1>4. Len(db.claims) + Len(db.hyperedges) + (Len(log) + 1) <= MaxRows
  <2>1. PICK a, b, n \in Nat : a = Len(db.claims) /\ b = Len(db.hyperedges) /\ n = Len(log)
    BY Sizes
  <2>2. a + b + n < MaxRows /\ MaxRows \in Nat
    BY <2>1, RetrievalAssumption DEF Room
  <2>3. a + b + (n + 1) <= MaxRows
    BY ONLY <2>2, a \in Nat, b \in Nat, n \in Nat
  <2> QED BY ONLY <2>1, <2>3
<1>5. TablesOK'
  BY <1>2, <1>4 DEF VectorInv, TablesOK
<1>6. RowsOK(Rows(log))'
  BY <1>2, <1>3 DEF RowsOK, Covered
<1>7. ChunksOK(db.chunks, db.index, Len(db.claims), Len(log))'
  BY <1>2
<1> QED BY <1>5, <1>6, <1>7 DEF VectorInv

LEMMA InsertKeeps ==
  ASSUME VectorInv, NEW p \in Procs, NEW c \in DOMAIN db.claims, NEW text \in Texts,
         NEW vector, NEW commits \in BOOLEAN, InsertChunk(p, c, text, vector, commits)
  PROVE  VectorInv'
<1> DEFINE chunk == [claim |-> c, text |-> text, vector |-> vector]
           line == [kind |-> "add_vector_chunk", chunk |-> chunk]
           added == AddChunk(db, Len(log) + 1, chunk)
           rows == Rows(log)
           after == AddChunk(rows, Len(log) + 1, chunk)
<1>1. /\ Room /\ log' = Append(log, line) /\ db' = IF commits THEN added ELSE db
      /\ todo' = todo /\ vector \in {NoVector, Embedding[p][text]}
  BY DEF InsertChunk
<1>2. PICK m \in Nat, n \in Nat : m = Len(db.claims) /\ n = Len(log) /\ c \in 1..m /\ m <= MaxRows
  BY Lengths
<1>3. chunk \in Chunks /\ chunk.claim <= m
  <2>1. Embedding[p][text] \in Vectors
    BY RetrievalAssumption
  <2>2. c \in 1..MaxRows
    BY <1>2, RetrievalAssumption
  <2> QED BY <1>1, <1>2, <2>1, <2>2 DEF Chunks
<1>4. line \in Lines /\ line.kind = "add_vector_chunk" /\ line.chunk = chunk
  BY <1>3 DEF Lines
<1> HIDE DEF chunk, line
<1>5. after = Effect(rows, Len(log) + 1, line)
  BY <1>4 DEF Effect
<1>6. /\ TablesShape(db) /\ ChunksOK(db.chunks, db.index, m, n)
      /\ RowsShape(rows) /\ ChunksOK(rows.chunks, rows.index, m, n) /\ Covered(rows)
      /\ todo \in [Procs -> Seq(DOMAIN db.chunks)]
  BY <1>2 DEF VectorInv, TablesOK, RowsOK
<1> HIDE DEF rows
<1>7. /\ TablesShape(added) /\ ChunksOK(added.chunks, added.index, m, n + 1)
      /\ AddKept(db, added, n + 1, chunk)
      /\ added.claims = db.claims /\ added.hyperedges = db.hyperedges
  BY <1>2, <1>3, <1>6, AddKeeps
<1>8. /\ RowsShape(after) /\ ChunksOK(after.chunks, after.index, m, n + 1)
      /\ AddKept(rows, after, n + 1, chunk)
  BY <1>2, <1>3, <1>6, AddKeeps
<1> HIDE DEF added, after
<1>9. /\ DOMAIN db'.chunks \subseteq DOMAIN after.chunks
      /\ Filled(db'.chunks) \subseteq Filled(after.chunks)
      /\ DOMAIN db.chunks \subseteq DOMAIN db'.chunks
  BY <1>1, <1>6, <1>7, <1>8 DEF Covered, AddKept
<1>10. ChunksOK(db.chunks, db.index, m, n + 1)
  BY <1>2, <1>6, ChunksStay
<1>11. /\ TablesShape(db') /\ db'.claims = db.claims /\ db'.hyperedges = db.hyperedges
       /\ ChunksOK(db'.chunks, db'.index, m, n + 1)
  BY <1>1, <1>6, <1>7, <1>10
<1>12. todo' \in [Procs -> Seq(DOMAIN db'.chunks)]
  BY <1>1, <1>6, <1>9, TodoStays
<1> QED BY <1>1, <1>2, <1>4, <1>5, <1>8, <1>9, <1>11, <1>12, ChunkWritesKeep DEF rows

\* What a backfill lists, of whatever chunks.
LEMMA SameFiniteness ==
  ASSUME NEW T
  PROVE  Rebuilds!IsFiniteSet(T) = IsFiniteSet(T)
BY DEF Rebuilds!IsFiniteSet, IsFiniteSet

LEMMA SameCounting ==
  ASSUME NEW T
  PROVE  Rebuilds!Cardinality(T) = Cardinality(T)
BY SameFiniteness DEF Rebuilds!Cardinality, Cardinality

LEMMA InOrderLists ==
  ASSUME NEW n \in Nat, NEW ids \in SUBSET (1..n)
  PROVE  InOrder(ids) \in Seq(ids)
<1> DEFINE m == Cardinality(ids)
           R == {x \in ids \X ids : x[1] < x[2]}
           Nth(k) == CHOOSE i \in ids : Cardinality({j \in ids : j < i}) = k - 1
<1>1. IsFiniteSet(ids)
  <2>1. 1 \in Int /\ n \in Int
    OBVIOUS
  <2>2. IsFiniteSet(1..n)
    BY <2>1, FS_Interval
  <2> QED BY <2>2, FS_Subset
<1>2. m \in Nat
  BY <1>1, FS_CardinalityType
<1>3. \A i, j \in ids : <<i, j>> \in R <=> i < j
  OBVIOUS
<1>4. \A i, j \in ids : i \in Int /\ j \in Int
  OBVIOUS
<1> HIDE DEF R
<1>5. Rebuilds!LinearOrder(ids, R)
  BY <1>3, <1>4 DEF Rebuilds!LinearOrder
<1>6. ASSUME NEW i \in ids
      PROVE  Rebuilds!Rank(ids, R, i) = Cardinality({j \in ids : j < i})
  <2>1. Rebuilds!Below(ids, R, i) = {j \in ids : j < i}
    BY <1>3 DEF Rebuilds!Below
  <2> QED BY <2>1, SameCounting DEF Rebuilds!Rank
<1>7. ASSUME NEW k \in 1..m PROVE Nth(k) \in ids
  <2>1. k - 1 \in 0..(m - 1)
    BY <1>2
  <2>2. \E i \in ids : Rebuilds!Rank(ids, R, i) = k - 1
    BY <1>1, <1>5, <2>1, SameFiniteness, SameCounting, Rebuilds!RankOnto
  <2>3. \E i \in ids : Cardinality({j \in ids : j < i}) = k - 1
    BY <1>6, <2>2
  <2> QED BY <2>3
<1>8. InOrder(ids) = [k \in 1..m |-> Nth(k)]
  BY DEF InOrder
<1> HIDE DEF m, Nth
<1>9. [k \in 1..m |-> Nth(k)] \in [1..m -> ids]
  BY <1>7
<1> QED BY <1>2, <1>8, <1>9, SeqDef

LEMMA BackfillListKeeps ==
  ASSUME VectorInv, NEW p \in Procs, BackfillList(p)
  PROVE  VectorInv'
<1> DEFINE ids == DOMAIN db.chunks \ Embedded(db)
<1>1. UNCHANGED <<db, log>> /\ todo' = [todo EXCEPT ![p] = InOrder(ids)]
  BY DEF BackfillList
<1>2. Len(log) \in Nat /\ DOMAIN db.chunks \subseteq 1..Len(log)
  BY Lengths DEF VectorInv, ChunksOK
<1>3. ids \in SUBSET (1..Len(log)) /\ ids \subseteq DOMAIN db.chunks
  BY <1>2
<1> HIDE DEF ids
<1>4. InOrder(ids) \in Seq(ids)
  BY <1>2, <1>3, InOrderLists
<1>5. InOrder(ids) \in Seq(DOMAIN db.chunks)
  BY <1>3, <1>4, SeqMonotonic
<1>6. todo' \in [Procs -> Seq(DOMAIN db.chunks)]
  BY <1>1, <1>5 DEF VectorInv
<1>7. VectorInv /\ todo' \in [Procs -> Seq(DOMAIN db'.chunks)]
  BY <1>1, <1>6
<1> QED BY <1>1, <1>7 DEF VectorInv, TablesOK, RowsOK, Covered

\* The line of a backfill, of a chunk that a rebuild has as well.
LEMMA EmbedLineIs ==
  ASSUME VectorInv, NEW p \in Procs, todo[p] # <<>>
  PROVE  LET line == EmbedLine(p)
         IN  /\ line \in Lines /\ line.kind = "embed_vector_chunk"
             /\ line.id \in DOMAIN db.chunks /\ line.vector \in Vectors
             /\ Tail(todo[p]) \in Seq(DOMAIN db.chunks)
<1> DEFINE id == Head(todo[p])
           vector == Embedding[p][db.chunks[id].text]
           line == [kind |-> "embed_vector_chunk", id |-> id, vector |-> vector]
<1>1. todo[p] \in Seq(DOMAIN db.chunks)
  BY DEF VectorInv
<1>2. id \in DOMAIN db.chunks /\ Tail(todo[p]) \in Seq(DOMAIN db.chunks)
  BY <1>1, HeadTailProperties
<1>3. id \in 1..MaxRows
  BY <1>2, Lengths DEF VectorInv, ChunksOK
<1>4. db.chunks[id].text \in Texts
  BY <1>2 DEF VectorInv, ChunksOK, Chunks
<1>5. vector \in Vectors
  BY <1>4, RetrievalAssumption
<1>6. EmbedLine(p) = line
  BY DEF EmbedLine
<1> HIDE DEF id, vector
<1>7. line \in Lines
  BY <1>3, <1>5 DEF Lines
<1> QED BY <1>2, <1>5, <1>6, <1>7

LEMMA BackfillOneKeeps ==
  ASSUME VectorInv, NEW p \in Procs, BackfillOne(p) \/ BackfillCut(p)
  PROVE  VectorInv'
<1>1. PICK line : line = EmbedLine(p)
  OBVIOUS
<1>2. todo[p] # <<>> /\ Room /\ log' = Append(log, line)
  BY <1>1 DEF BackfillOne, BackfillCut
<1>3. /\ line \in Lines /\ line.kind = "embed_vector_chunk"
      /\ line.id \in DOMAIN db.chunks /\ line.vector \in Vectors
      /\ Tail(todo[p]) \in Seq(DOMAIN db.chunks)
  BY <1>1, <1>2, EmbedLineIs
<1> DEFINE made == Embed(db, line.id, line.vector)
           rows == Rows(log)
           after == Embed(rows, line.id, line.vector)
<1>4. db' = made \/ db' = db
  BY <1>1 DEF BackfillOne, BackfillCut
<1>5. after = Effect(rows, Len(log) + 1, line)
  BY <1>3 DEF Effect
<1>6. PICK m \in Nat, n \in Nat : m = Len(db.claims) /\ n = Len(log)
  BY Lengths
<1>7. /\ TablesShape(db) /\ ChunksOK(db.chunks, db.index, m, n)
      /\ RowsShape(rows) /\ ChunksOK(rows.chunks, rows.index, m, n) /\ Covered(rows)
      /\ todo \in [Procs -> Seq(DOMAIN db.chunks)]
  BY <1>6 DEF VectorInv, TablesOK, RowsOK
<1> HIDE DEF rows
<1>8. /\ TablesShape(made) /\ ChunksOK(made.chunks, made.index, m, n)
      /\ EmbedKept(db, made, line.id)
      /\ made.claims = db.claims /\ made.hyperedges = db.hyperedges
  BY <1>3, <1>6, <1>7, EmbedKeeps
<1>9. line.id \in DOMAIN rows.chunks
  BY <1>3, <1>7 DEF Covered
<1>10. /\ RowsShape(after) /\ ChunksOK(after.chunks, after.index, m, n)
       /\ EmbedKept(rows, after, line.id)
  BY <1>3, <1>6, <1>7, <1>9, EmbedKeeps
<1> HIDE DEF made, after
<1>11. /\ DOMAIN db'.chunks = DOMAIN db.chunks
       /\ DOMAIN db'.chunks \subseteq DOMAIN after.chunks
       /\ Filled(db'.chunks) \subseteq Filled(after.chunks)
  BY <1>4, <1>7, <1>8, <1>10 DEF Covered, EmbedKept
<1>12. /\ TablesShape(db') /\ db'.claims = db.claims /\ db'.hyperedges = db.hyperedges
       /\ ChunksOK(db'.chunks, db'.index, m, n)
  BY <1>4, <1>7, <1>8
<1>13. /\ ChunksOK(db'.chunks, db'.index, m, n + 1)
       /\ ChunksOK(after.chunks, after.index, m, n + 1)
  BY <1>6, <1>10, <1>12, ChunksStay
<1>14. todo' \in [Procs -> Seq(DOMAIN db'.chunks)]
  <2>1. <<>> \in Seq(DOMAIN db.chunks)
    BY EmptySeq
  <2>2. \E rest \in Seq(DOMAIN db.chunks) : todo' = [todo EXCEPT ![p] = rest]
    <3>1. CASE BackfillOne(p)
      BY <1>1, <1>3, <2>1, <3>1 DEF BackfillOne
    <3>2. CASE BackfillCut(p)
      BY <2>1, <3>2 DEF BackfillCut
    <3> QED BY <3>1, <3>2
  <2> QED BY <1>7, <1>11, <2>2
<1> QED BY <1>2, <1>3, <1>5, <1>6, <1>10, <1>11, <1>12, <1>13, <1>14, ChunkWritesKeep DEF rows

LEMMA BackfillStopsKeeps ==
  ASSUME VectorInv, NEW p \in Procs, BackfillStops(p)
  PROVE  VectorInv'
<1>1. UNCHANGED <<db, log>> /\ todo' = [todo EXCEPT ![p] = <<>>]
  BY DEF BackfillStops
<1>2. <<>> \in Seq(DOMAIN db.chunks)
  BY EmptySeq
<1>3. todo' \in [Procs -> Seq(DOMAIN db.chunks)]
  BY <1>1, <1>2 DEF VectorInv
<1> QED BY <1>1, <1>3 DEF VectorInv, TablesOK, RowsOK, Covered

\* A rebuild puts back what it has.
LEMMA ReplayedIs ==
  ASSUME TablesShape(db), NEW rows, rows = Rows(log)
  PROVE  /\ TablesShape(Replayed) /\ Replayed.chunks = rows.chunks
         /\ Replayed.index = rows.index
         /\ Replayed.claims = db.claims /\ Replayed.hyperedges = db.hyperedges
         /\ Replayed.parent = db.parent /\ Replayed.closure = db.closure
<1>1. Replayed = Written(db, rows.chunks, rows.index)
  BY DEF Replayed, Written
<1>2. PICK e : e = Replayed
  OBVIOUS
<1>3. e = Written(db, rows.chunks, rows.index)
  BY <1>1, <1>2
<1> QED BY ONLY <1>2, <1>3, TablesShape(db), TablesWritten

LEMMA RebuildKeeps ==
  ASSUME VectorInv, Rebuild
  PROVE  VectorInv'
<1>1. PICK rows : rows = Rows(log)
  OBVIOUS
<1>2. db' = Replayed /\ UNCHANGED <<log, todo>>
  BY DEF Rebuild
<1>3. PICK d : d = Replayed
  OBVIOUS
<1>4. /\ TablesShape(d) /\ d.chunks = rows.chunks /\ d.index = rows.index
      /\ d.claims = db.claims /\ d.hyperedges = db.hyperedges
  BY <1>1, <1>3, ReplayedIs DEF VectorInv, TablesOK
<1>5. db' = d
  BY <1>2, <1>3
<1>6. /\ RowsShape(rows) /\ ChunksOK(rows.chunks, rows.index, Len(db.claims), Len(log))
      /\ DOMAIN db.chunks \subseteq DOMAIN rows.chunks
  BY <1>1 DEF VectorInv, RowsOK, Covered
<1>7. TablesOK'
  BY <1>2, <1>4, <1>5 DEF VectorInv, TablesOK
<1>8. ChunksOK(db.chunks, db.index, Len(db.claims), Len(log))'
  BY <1>2, <1>4, <1>5, <1>6
<1>9. Rows(log') = rows
  BY <1>1, <1>2
<1>10. RowsOK(Rows(log))'
  BY <1>2, <1>4, <1>5, <1>6, <1>9 DEF RowsOK, Covered
<1>11. (todo \in [Procs -> Seq(DOMAIN db.chunks)])'
  BY <1>2, <1>4, <1>5, <1>6, TodoStays DEF VectorInv
<1> QED BY <1>7, <1>8, <1>10, <1>11 DEF VectorInv

LEMMA VectorStep == VectorInv /\ [Next]_vars => VectorInv'
<1> SUFFICES ASSUME VectorInv, [Next]_vars PROVE VectorInv'
  OBVIOUS
<1>1. CASE UNCHANGED vars
  BY <1>1 DEF vars, VectorInv, TablesOK, RowsOK, Covered
<1>2. CASE Next
  <2>1. ASSUME NEW fact \in Facts, AddClaim(fact) PROVE VectorInv'
    BY <2>1, AddClaimKeeps
  <2>2. ASSUME NEW c \in DOMAIN db.claims, Retire(c) PROVE VectorInv'
    BY <2>2, RetireKeeps
  <2>3. ASSUME NEW relation \in Relations, AddHyperedge(relation) PROVE VectorInv'
    BY <2>3, AddHyperedgeKeeps
  <2>4. ASSUME NEW p \in Procs, NEW c \in DOMAIN db.claims, NEW text \in Texts,
               NEW vector \in Vectors \cup {NoVector}, NEW commits \in BOOLEAN,
               InsertChunk(p, c, text, vector, commits)
        PROVE  VectorInv'
    BY <2>4, InsertKeeps
  <2>5. ASSUME NEW p \in Procs, BackfillList(p) PROVE VectorInv'
    BY <2>5, BackfillListKeeps
  <2>6. ASSUME NEW p \in Procs, BackfillOne(p) \/ BackfillCut(p) PROVE VectorInv'
    BY <2>6, BackfillOneKeeps
  <2>7. ASSUME NEW p \in Procs, BackfillStops(p) PROVE VectorInv'
    BY <2>7, BackfillStopsKeeps
  <2>8. ASSUME Rebuild PROVE VectorInv'
    BY <2>8, RebuildKeeps
  <2> HIDE DEF VectorInv
  <2> QED BY <1>2, <2>1, <2>2, <2>3, <2>4, <2>5, <2>6, <2>7, <2>8 DEF Next
<1> QED BY <1>1, <1>2

LEMMA VectorsFollow == VectorInv => VectorsKept
<1> SUFFICES ASSUME VectorInv PROVE VectorsKept
  OBVIOUS
<1>1. PICK rows : rows = Rows(log)
  OBVIOUS
<1>2. PICK d : d = Replayed
  OBVIOUS
<1>3. d.chunks = rows.chunks /\ d.index = rows.index
  BY <1>1, <1>2, ReplayedIs DEF VectorInv, TablesOK
<1>4. /\ ChunksOK(db.chunks, db.index, Len(db.claims), Len(log))
      /\ ChunksOK(rows.chunks, rows.index, Len(db.claims), Len(log)) /\ Covered(rows)
  BY <1>1 DEF VectorInv, RowsOK
<1>5. Embedded(db) = Filled(db.chunks) /\ Embedded(d) = Filled(rows.chunks)
  BY <1>3 DEF Embedded, Filled
<1>6. NoVector \notin Canonical
  BY RetrievalAssumption
<1>7. Mirrors(db)
  <2>1. {j \in Embedded(db) : db.chunks[j].vector \in Canonical}
          = {j \in DOMAIN db.chunks : db.chunks[j].vector \in Canonical}
    BY <1>6 DEF Embedded
  <2> QED BY <1>4, <2>1 DEF Mirrors, ChunksOK
<1>8. Mirrors(d)
  <2>1. {j \in Embedded(d) : d.chunks[j].vector \in Canonical}
          = {j \in DOMAIN rows.chunks : rows.chunks[j].vector \in Canonical}
    BY <1>3, <1>6 DEF Embedded
  <2> QED BY <1>3, <1>4, <2>1 DEF Mirrors, ChunksOK
<1>9. \A i \in DOMAIN db.chunks : db.chunks[i] \in Chunks /\ db.chunks[i].claim \in DOMAIN db.claims
  <2>1. Len(db.claims) \in Nat /\ DOMAIN db.claims = 1..Len(db.claims)
    BY Lengths
  <2> QED BY <1>4, <2>1 DEF ChunksOK, Chunks
<1>10. DOMAIN db.chunks \subseteq DOMAIN d.chunks /\ Embedded(db) \subseteq Embedded(d)
  BY <1>3, <1>4, <1>5 DEF Covered
<1> QED BY <1>2, <1>7, <1>8, <1>9, <1>10 DEF VectorsKept

\* However backfills of different models, stops and refused lines interleave, the
\* index holds exactly the embeddings of its dimension, and a rebuild brings back
\* every chunk, with its embedding if it had one.
THEOREM NoEmbeddingLost == Spec => []VectorsKept
<1>1. Spec => []VectorInv
  BY VectorInit, VectorStep, PTL DEF Spec
<1> QED BY <1>1, VectorsFollow, PTL

-----------------------------------------------------------------------------
(* The ontology. *)

Reflexive(parent) == {<<p, p>> : p \in DOMAIN parent}

\* A vocabulary: every parent is in it, and no alias is.
Vocabulary(parent) ==
  /\ parent \in [DOMAIN parent -> DOMAIN parent \cup {NoParent}]
  /\ IsFiniteSet(DOMAIN parent)
  /\ DOMAIN SeedParent \subseteq DOMAIN parent
  /\ DOMAIN parent \subseteq Names \ DOMAIN Aliases

OntologyInv == Vocabulary(db.parent) /\ db.closure = Closure(db.parent)

\* The closure has every predicate with itself, and with its parent.
LEMMA ClosureReaches ==
  ASSUME NEW parent, Vocabulary(parent)
  PROVE  /\ Reflexive(parent) \subseteq Closure(parent)
         /\ \A p \in DOMAIN parent : parent[p] # NoParent => <<p, parent[p]>> \in Closure(parent)
<1> DEFINE n == Cardinality(DOMAIN parent)
           T == {pairs \in SUBSET ((DOMAIN parent) \X (DOMAIN parent)) :
                   Reflexive(parent) \subseteq pairs}
           Times(k) == [i \in 1..k |-> parent]
<1>1. n \in Nat /\ n # 0
  <2>1. DOMAIN parent # {}
    BY GraphAssumption DEF Vocabulary
  <2> QED BY <2>1, FS_CardinalityType, FS_EmptySet DEF Vocabulary
<1>2. ASSUME NEW pairs \in T
      PROVE  /\ ClimbBy(pairs, parent) \in T
             /\ \A p \in DOMAIN parent :
                  parent[p] # NoParent => <<p, parent[p]>> \in ClimbBy(pairs, parent)
  <2>1. ASSUME NEW x \in pairs, parent[x[2]] # NoParent
        PROVE  <<x[1], parent[x[2]]>> \in (DOMAIN parent) \X (DOMAIN parent)
    BY <2>1 DEF Vocabulary
  <2>2. ClimbBy(pairs, parent) \in T
    BY <2>1 DEF ClimbBy
  <2>3. ASSUME NEW p \in DOMAIN parent, parent[p] # NoParent
        PROVE  <<p, parent[p]>> \in ClimbBy(pairs, parent)
    <3>1. <<p, p>> \in pairs
      BY DEF Reflexive
    <3> QED BY <2>3, <3>1 DEF ClimbBy
  <2> QED BY <2>2, <2>3
<1>3. Reflexive(parent) \in T
  BY DEF Reflexive
<1> HIDE DEF T
<1>4. \A k \in Nat : Times(k) \in Seq({parent})
  BY SeqDef
<1>5. \A k \in Nat : Ancestry!Fold(Reflexive(parent), Times(k)) \in T
  <2>1. \A a \in T, x \in {parent} : ClimbBy(a, x) \in T
    BY <1>2
  <2> HIDE DEF Times
  <2> QED BY <1>3, <1>4, <2>1, Ancestry!FoldStays
<1>6. PICK k \in Nat : n = k + 1
  <2>1. n - 1 \in Nat /\ n = (n - 1) + 1
    BY <1>1
  <2> QED BY <2>1
<1>7. Times(n) = Append(Times(k), parent)
  <2>1. Len(Times(k)) = k
    BY <1>4, <1>6
  <2>2. Append(Times(k), parent) \in Seq({parent}) /\ Len(Append(Times(k), parent)) = k + 1
    BY <1>4, <2>1, AppendProperties
  <2>3. Times(n) \in Seq({parent}) /\ Len(Times(n)) = k + 1
    BY <1>1, <1>4, <1>6
  <2>4. \A i \in 1..(k + 1) : Times(n)[i] = parent /\ Append(Times(k), parent)[i] = parent
    <3> HIDE DEF Times
    <3>1. \A i \in 1..(k + 1) : Times(n)[i] \in {parent} /\ Append(Times(k), parent)[i] \in {parent}
      BY <2>2, <2>3, ElementOfSeq
    <3> QED BY <3>1
  <2> HIDE DEF Times, n
  <2> QED BY <2>2, <2>3, <2>4, SeqEqual
<1>8. Closure(parent) = Ancestry!Fold(Reflexive(parent), Times(n))
  BY DEF Closure, Reflexive, Ancestry!Fold, Ancestry!FoldLeft, FoldLeft, Ancestry!MapThenFoldSet,
         MapThenFoldSet, Ancestry!Max, Max
<1> HIDE DEF Times, n
<1>9. Ancestry!Fold(Reflexive(parent), Append(Times(k), parent))
        = ClimbBy(Ancestry!Fold(Reflexive(parent), Times(k)), parent)
  BY <1>4, Ancestry!FoldAppend
<1>10. PICK pairs \in T : Closure(parent) = ClimbBy(pairs, parent)
  BY <1>5, <1>7, <1>8, <1>9
<1> QED BY <1>2, <1>10 DEF T

\* What users coin keeps the vocabulary one.
LEMMA CoinedKeeps ==
  ASSUME NEW d, Vocabulary(d.parent), NEW name \in Names, ~Known(d, name)
  PROVE  Vocabulary(ParentsWith(d.parent, name))
<1> DEFINE parent == ParentsWith(d.parent, name)
<1>1. DOMAIN parent = DOMAIN d.parent \cup {name}
  BY DEF ParentsWith
<1>2. IsFiniteSet(DOMAIN parent)
  BY <1>1, FS_AddElement DEF Vocabulary
<1>3. "relates_to" \in DOMAIN d.parent
  BY GraphAssumption DEF Vocabulary
<1>4. parent \in [DOMAIN parent -> DOMAIN parent \cup {NoParent}]
  BY <1>3 DEF ParentsWith, Vocabulary
<1>5. name \notin DOMAIN Aliases
  BY DEF Known
<1> QED BY <1>1, <1>2, <1>4, <1>5 DEF Vocabulary

LEMMA LearnKeeps ==
  ASSUME TablesShape(db), OntologyInv, NEW name \in Names, NEW e, e = Learn(db, name),
         db'.parent = e.parent, db'.closure = e.closure
  PROVE  OntologyInv'
<1>1. IF Known(db, name) THEN e = db
      ELSE e.parent = ParentsWith(db.parent, name) /\ e.closure = Closure(e.parent)
  BY LearnWrites
<1>2. CASE Known(db, name)
  BY <1>1, <1>2 DEF OntologyInv
<1>3. CASE ~Known(db, name)
  BY <1>1, <1>3, CoinedKeeps DEF OntologyInv
<1> QED BY <1>2, <1>3

\* Whatever else is written leaves it.
LEMMA ChunkWritesLeaveOntology ==
  ASSUME TablesShape(db), NEW id, NEW chunk, NEW vector
  PROVE  /\ LET e == AddChunk(db, id, chunk) IN e.parent = db.parent /\ e.closure = db.closure
         /\ LET e == Embed(db, id, vector) IN e.parent = db.parent /\ e.closure = db.closure
<1>1. PICK e : e = AddChunk(db, id, chunk)
  OBVIOUS
<1>2. e = Written(db, With(db.chunks, id, chunk), IndexAfter(db.index, id, chunk))
  BY <1>1, AddChunkWrites
<1>3. e.parent = db.parent /\ e.closure = db.closure
  BY <1>2, TablesWritten
<1>4. PICK m : m = Embed(db, id, vector)
  OBVIOUS
<1>5. CASE ~EmbedAccepted(db, id, vector) \/ db.chunks[id].vector = vector
  BY <1>1, <1>3, <1>5 DEF Embed
<1>6. CASE EmbedAccepted(db, id, vector) /\ db.chunks[id].vector # vector
  <2>1. m = Written(db, [db.chunks EXCEPT ![id].vector = vector], Indexed(db.index, id, vector))
    BY <1>4, <1>6, EmbedWrites
  <2>2. m.parent = db.parent /\ m.closure = db.closure
    BY <2>1, TablesWritten
  <2> QED BY <1>1, <1>3, <1>4, <2>2
<1> QED BY <1>5, <1>6

LEMMA OntologyInit == Init => OntologyInv
<1> SUFFICES ASSUME Init PROVE OntologyInv
  OBVIOUS
<1>1. db.parent = SeedParent /\ db.closure = Closure(SeedParent)
  BY DEF Init
<1> QED BY <1>1, GraphAssumption DEF OntologyInv, Vocabulary

LEMMA OntologyStep == VectorInv /\ OntologyInv /\ [Next]_vars => OntologyInv'
<1> SUFFICES ASSUME VectorInv, OntologyInv, [Next]_vars PROVE OntologyInv'
  OBVIOUS
<1>1. TablesShape(db)
  BY DEF VectorInv, TablesOK
<1>2. CASE UNCHANGED vars
  BY <1>2 DEF vars, OntologyInv
<1>3. ASSUME NEW fact \in Facts, AddClaim(fact) PROVE OntologyInv'
  <2>1. fact.predicate \in Names
    BY GraphAssumption DEF FactRows
  <2>2. PICK e : e = Learn(db, fact.predicate)
    OBVIOUS
  <2>3. db'.parent = e.parent /\ db'.closure = e.closure
    BY <1>1, <1>3, <2>2, AddClaimWrites
  <2> QED BY <1>1, <2>1, <2>2, <2>3, LearnKeeps
<1>4. ASSUME NEW relation \in Relations, AddHyperedge(relation) PROVE OntologyInv'
  <2>1. relation.predicate \in Names
    BY GraphAssumption
  <2>2. PICK e : e = Learn(db, relation.predicate)
    OBVIOUS
  <2>3. db'.parent = e.parent /\ db'.closure = e.closure
    BY <1>1, <1>4, <2>2, AddHyperedgeWrites
  <2> QED BY <1>1, <2>1, <2>2, <2>3, LearnKeeps
<1>5. ASSUME db'.parent = db.parent, db'.closure = db.closure PROVE OntologyInv'
  BY <1>5 DEF OntologyInv
<1>6. ASSUME NEW c, Retire(c) PROVE OntologyInv'
  BY <1>1, <1>5, <1>6, RetireWrites
<1>7. ASSUME NEW p, NEW c, NEW text, NEW vector, NEW commits, InsertChunk(p, c, text, vector, commits)
      PROVE  OntologyInv'
  <2>1. \/ db' = AddChunk(db, Len(log) + 1, [claim |-> c, text |-> text, vector |-> vector])
        \/ db' = db
    BY <1>7 DEF InsertChunk
  <2> QED BY <1>1, <1>5, <2>1, ChunkWritesLeaveOntology
<1>8. ASSUME NEW p, BackfillOne(p) PROVE OntologyInv'
  <2>1. db' = Embed(db, EmbedLine(p).id, EmbedLine(p).vector)
    BY <1>8 DEF BackfillOne
  <2> QED BY <1>1, <1>5, <2>1, ChunkWritesLeaveOntology
<1>9. ASSUME NEW p, BackfillList(p) \/ BackfillCut(p) \/ BackfillStops(p) PROVE OntologyInv'
  <2>1. db' = db
    BY <1>9 DEF BackfillList, BackfillCut, BackfillStops
  <2> QED BY <1>5, <2>1
<1>10. ASSUME Rebuild PROVE OntologyInv'
  <2>1. db' = Replayed
    BY <1>10 DEF Rebuild
  <2>2. PICK rows : rows = Rows(log)
    OBVIOUS
  <2> QED BY <1>1, <1>5, <2>1, <2>2, ReplayedIs
<1> HIDE DEF VectorInv, OntologyInv
<1> QED BY <1>2, <1>3, <1>4, <1>6, <1>7, <1>8, <1>9, <1>10 DEF Next

\* What a filter expands to, against what a predicate implies.
LEMMA FiltersFollow == OntologyInv => FilterMatchesImplication
<1> SUFFICES ASSUME OntologyInv,
                    NEW name \in {n \in Names : Known(db, n)},
                    NEW ancestor \in {n \in Names : Known(db, n)}
             PROVE  /\ name \in Filter(db, ancestor) <=> Implies(db, name, ancestor)
                    /\ ancestor = db.parent[CanonicalName(db, name)]
                         => Implies(db, name, ancestor)
  BY DEF FilterMatchesImplication
<1> DEFINE low == CanonicalName(db, name)
           high == CanonicalName(db, ancestor)
           below == {p \in DOMAIN db.parent : <<p, high>> \in db.closure}
<1>1. DOMAIN db.parent \cap DOMAIN Aliases = {} /\ NoParent \notin Names
  BY GraphAssumption DEF OntologyInv, Vocabulary
<1>2. \A a \in DOMAIN Aliases : Aliases[a] \in DOMAIN db.parent
  BY GraphAssumption DEF OntologyInv, Vocabulary
<1>3. low \in DOMAIN db.parent /\ high \in DOMAIN db.parent
  BY <1>2 DEF CanonicalName, Known
<1>4. /\ \A p \in DOMAIN db.parent : <<p, p>> \in db.closure
      /\ \A p \in DOMAIN db.parent : db.parent[p] # NoParent => <<p, db.parent[p]>> \in db.closure
  BY ClosureReaches DEF OntologyInv, Reflexive
<1>5. IF name \in DOMAIN db.parent THEN low = name ELSE name \in DOMAIN Aliases /\ low = Aliases[name]
  BY DEF CanonicalName, Known
<1>6. IF ancestor \in DOMAIN db.parent THEN high = ancestor
      ELSE ancestor \in DOMAIN Aliases /\ high = Aliases[ancestor]
  BY DEF CanonicalName, Known
<1>7. Implies(db, name, ancestor) <=> low = high \/ <<low, high>> \in db.closure
  BY DEF Implies
<1>8. Filter(db, ancestor) = {ancestor, high} \cup below \cup {a \in DOMAIN Aliases : Aliases[a] \in below}
  BY DEF Filter
<1> HIDE DEF low, high
<1>9. name \in Filter(db, ancestor) <=> low \in below
  <2>1. ASSUME low \in below PROVE name \in Filter(db, ancestor)
    BY <1>5, <1>8, <2>1
  <2>2. ASSUME name \in Filter(db, ancestor) PROVE low \in below
    <3>1. high \in below
      BY <1>3, <1>4
    <3>2. CASE name = ancestor
      BY <3>1, <3>2 DEF low, high
    <3>3. CASE name = high
      BY <1>3, <1>5, <3>1, <3>3
    <3>4. CASE name \in below
      BY <1>5, <3>4
    <3>5. CASE name \in DOMAIN Aliases /\ Aliases[name] \in below
      BY <1>1, <1>5, <3>5
    <3> QED BY <1>8, <2>2, <3>2, <3>3, <3>4, <3>5
  <2> QED BY <2>1, <2>2
<1>10. low \in below <=> low = high \/ <<low, high>> \in db.closure
  BY <1>3, <1>4
<1>11. ASSUME ancestor = db.parent[low] PROVE Implies(db, name, ancestor)
  <2>1. ancestor # NoParent
    BY <1>1
  <2>2. ancestor \in DOMAIN db.parent
    BY <1>3, <1>11, <2>1 DEF OntologyInv, Vocabulary
  <2>3. high = ancestor /\ <<low, ancestor>> \in db.closure
    BY <1>3, <1>4, <1>6, <1>11, <2>1, <2>2
  <2> QED BY <1>7, <2>3
<1> QED BY <1>7, <1>9, <1>10, <1>11 DEF low

\* The filter a recall expands and the question predicate_implies answers agree for
\* every known name, aliases included, and what users coin is within its parent's.
THEOREM FiltersAgree == Spec => []FilterMatchesImplication
<1>1. VectorInv /\ OntologyInv /\ [Next]_vars => (VectorInv /\ OntologyInv)'
  BY VectorStep, OntologyStep
<1>2. Init => VectorInv /\ OntologyInv
  BY VectorInit, OntologyInit
<1>3. Spec => [](VectorInv /\ OntologyInv)
  BY <1>1, <1>2, PTL DEF Spec
<1> QED BY <1>3, FiltersFollow, PTL

-----------------------------------------------------------------------------
(* How much a recall answers. *)

\* Better scores first, ties going to the older id.
Better(score, o, c) == score[o] > score[c] \/ (score[o] = score[c] /\ o < c)
ByScore(score, S) == {x \in S \X S : Better(score, x[1], x[2])}

LEMMA ScoresOrder ==
  ASSUME NEW S \in SUBSET Int, NEW score, \A c \in S : score[c] \in Int
  PROVE  /\ Rebuilds!LinearOrder(S, ByScore(score, S))
         /\ \A o, c \in S : <<o, c>> \in ByScore(score, S) <=> Better(score, o, c)
<1>1. \A o, c \in S : <<o, c>> \in ByScore(score, S) <=> Better(score, o, c)
  BY DEF ByScore
<1>2. \A v, w \in S : Better(score, v, w) => ~Better(score, w, v)
  BY DEF Better
<1>3. \A u, v, w \in S : Better(score, u, v) /\ Better(score, v, w) => Better(score, u, w)
  BY DEF Better
<1>4. \A v, w \in S : v = w \/ Better(score, v, w) \/ Better(score, w, v)
  BY DEF Better
<1> HIDE DEF ByScore, Better
<1> QED BY <1>1, <1>2, <1>3, <1>4 DEF Rebuilds!LinearOrder

\* Something has the best score.
LEMMA SomeBest ==
  ASSUME NEW S \in SUBSET Int, IsFiniteSet(S), S # {}, NEW score, \A c \in S : score[c] \in Int
  PROVE  \E c \in S : \A o \in S : o = c \/ Better(score, c, o)
<1>1. PICK R : R = ByScore(score, S)
  OBVIOUS
<1>2. Rebuilds!LinearOrder(S, R) /\ \A o, c \in S : <<o, c>> \in R <=> Better(score, o, c)
  BY <1>1, ScoresOrder
<1>3. \E c \in S : \A o \in S : c = o \/ <<c, o>> \in R
  BY <1>2, SameFiniteness, Rebuilds!RankZero
<1> QED BY <1>2, <1>3

LEMMA BestScore ==
  ASSUME NEW S \in SUBSET Int, IsFiniteSet(S), S # {}, NEW score, \A c \in S : score[c] \in Int
  PROVE  \E c \in S : \A o \in S : score[c] >= score[o]
BY SomeBest DEF Better

\* TopK takes k, or all there are.
Smaller(k, n) == IF k <= n THEN k ELSE n

LEMMA TopKSize ==
  ASSUME NEW score, DOMAIN score \in SUBSET Int, IsFiniteSet(DOMAIN score),
         \A c \in DOMAIN score : score[c] \in Int, NEW k \in Nat
  PROVE  /\ Cardinality(DOMAIN score) \in Nat
         /\ Cardinality(TopK(score, k)) = Smaller(k, Cardinality(DOMAIN score))
<1> DEFINE S == DOMAIN score
           R == ByScore(score, S)
<1>1. Rebuilds!LinearOrder(S, R) /\ \A o, c \in S : <<o, c>> \in R <=> Better(score, o, c)
  BY ScoresOrder
<1> HIDE DEF R
<1>2. ASSUME NEW c \in S
      PROVE  Rebuilds!Rank(S, R, c) = Cardinality({o \in S : Better(score, o, c)})
  <2>1. Rebuilds!Below(S, R, c) = {o \in S : Better(score, o, c)}
    BY <1>1 DEF Rebuilds!Below
  <2> QED BY <2>1, SameCounting DEF Rebuilds!Rank
<1>3. TopK(score, k) = {c \in S : Cardinality({o \in S : Better(score, o, c)}) < k}
  BY DEF TopK, Better
<1>4. TopK(score, k) = {c \in S : Rebuilds!Rank(S, R, c) < k}
  BY <1>2, <1>3
<1>5. /\ Cardinality(S) \in Nat
      /\ Cardinality({c \in S : Rebuilds!Rank(S, R, c) < k}) =
           IF k <= Cardinality(S) THEN k ELSE Cardinality(S)
  BY <1>1, SameFiniteness, SameCounting, Rebuilds!CountBelow
<1> QED BY <1>4, <1>5 DEF Smaller

LEMMA TopKWithin == ASSUME NEW score, NEW k PROVE TopK(score, k) \subseteq DOMAIN score
BY DEF TopK

\* Scores of words.
LEMMA TokenScoreType ==
  ASSUME NEW tokens \in Seq(Nat), NEW fact
  PROVE  TokenScore(tokens, fact) \in Nat
<1> DEFINE points == [i \in DOMAIN tokens |-> Points(fact, tokens[i])]
<1>1. points \in Seq(Nat)
  <2>1. Len(tokens) \in Nat /\ DOMAIN tokens = 1..Len(tokens)
    BY LenProperties
  <2>2. points \in [1..Len(tokens) -> Nat]
    BY <2>1 DEF Points
  <2> HIDE DEF points
  <2> QED BY <2>1, <2>2, SeqDef
<1> HIDE DEF points
<1>2. Sums!Fold(0, points) \in Nat
  <2>1. \A a \in Nat, x \in Nat : Plus(a, x) \in Nat
    BY DEF Plus
  <2> QED BY <1>1, <2>1, Sums!FoldStays
<1>3. TokenScore(tokens, fact) = Sums!Fold(0, points)
  BY DEF TokenScore, points, Sums!Fold, Sums!FoldLeft, FoldLeft, Sums!MapThenFoldSet,
         MapThenFoldSet, Sums!Max, Max
<1> QED BY <1>2, <1>3

LEMMA NoWordsNoScore == \A fact : TokenScore(<<>>, fact) = 0
<1> SUFFICES ASSUME NEW fact PROVE TokenScore(<<>>, fact) = 0
  OBVIOUS
<1> DEFINE points == [i \in DOMAIN <<>> |-> Points(fact, <<>>[i])]
<1>1. points = <<>>
  OBVIOUS
<1>2. TokenScore(<<>>, fact) = Sums!Fold(0, points)
  BY DEF TokenScore, points, Sums!Fold, Sums!FoldLeft, FoldLeft, Sums!MapThenFoldSet,
         MapThenFoldSet, Sums!Max, Max
<1> QED BY ONLY <1>1, <1>2, Sums!FoldEmpty

LEMMA RowsOfTables ==
  ASSUME VectorInv
  PROVE  /\ DOMAIN db.claims \in SUBSET Int /\ IsFiniteSet(DOMAIN db.claims)
         /\ \A c \in DOMAIN db.claims : db.claims[c] \in ClaimRows
         /\ DOMAIN db.chunks \in SUBSET Int /\ IsFiniteSet(DOMAIN db.chunks)
         /\ \A i \in DOMAIN db.chunks : /\ db.chunks[i] \in Chunks
                                        /\ db.chunks[i].claim \in DOMAIN db.claims
         /\ DOMAIN db.index \subseteq DOMAIN db.chunks
         /\ \A i \in DOMAIN db.index : db.index[i] \in Vectors
<1>1. PICK m \in Nat, n \in Nat : /\ m = Len(db.claims) /\ n = Len(log)
                                 /\ DOMAIN db.claims = 1..m
  BY Lengths
<1>2. IsFiniteSet(1..m) /\ IsFiniteSet(1..n)
  <2>1. 1 \in Int /\ m \in Int /\ n \in Int
    OBVIOUS
  <2> QED BY <2>1, FS_Interval
<1>3. ChunksOK(db.chunks, db.index, m, n) /\ db.claims \in Seq(ClaimRows)
  BY <1>1 DEF VectorInv, TablesOK
<1>4. IsFiniteSet(DOMAIN db.chunks) /\ DOMAIN db.chunks \in SUBSET Int
  <2>1. DOMAIN db.chunks \subseteq 1..n
    BY <1>3 DEF ChunksOK
  <2> QED BY <1>2, <2>1, FS_Subset
<1>5. \A i \in DOMAIN db.chunks : db.chunks[i] \in Chunks /\ db.chunks[i].claim \in 1..m
  BY <1>3 DEF ChunksOK, Chunks
<1>6. \A c \in 1..m : db.claims[c] \in ClaimRows
  BY <1>1, <1>3, ElementOfSeq
<1>7. /\ DOMAIN db.index \subseteq DOMAIN db.chunks
      /\ \A i \in DOMAIN db.index : db.index[i] \in Vectors
  BY <1>3, RetrievalAssumption DEF ChunksOK
<1> QED BY <1>1, <1>2, <1>4, <1>5, <1>6, <1>7

\* Keyword recall finds something if anything that is admitted shares a word.
LEMMA MinimumWithin ==
  ASSUME NEW anchored \in BOOLEAN, NEW max \in Nat, max > 0, anchored => max >= 4
  PROVE  max >= MinimumScore(anchored, max)
BY DEF MinimumScore

LEMMA KeywordWithin ==
  ASSUME NEW tokens, NEW filters
  PROVE  Keyword(db, tokens, filters) \subseteq Matching(db, filters)
BY DEF Keyword

LEMMA KeywordFinds ==
  ASSUME VectorInv, NEW tokens \in Seq(Nat), NEW filters, NEW c \in Matching(db, filters),
         TokenScore(tokens, db.claims[c].fact) > 0
  PROVE  Keyword(db, tokens, filters) # {}
<1> DEFINE Score(x) == TokenScore(tokens, db.claims[x].fact)
           scored == {x \in Matching(db, filters) : Score(x) > 0}
           values == {0} \cup {Score(x) : x \in scored}
           max == Max(values)
           named == {x \in scored : Score(x) = max /\ db.claims[x].fact.predicate = "name"}
           anchored == Len(tokens) = 2 /\ max >= 4 /\ named # {}
           OfAnchor(x) == db.claims[x].fact.subject = db.claims[Min(named)].fact.subject
<1>1. Keyword(db, tokens, filters) =
        {x \in scored : /\ Score(x) >= MinimumScore(anchored, max)
                        /\ anchored => Score(x) = max \/ OfAnchor(x)}
  BY DEF Keyword
<1>2. c \in scored
  OBVIOUS
<1>3. \A x \in scored : Score(x) \in Nat /\ Score(x) > 0
  BY TokenScoreType
<1>4. scored \in SUBSET Int /\ IsFiniteSet(scored)
  <2>1. scored \subseteq DOMAIN db.claims
    BY DEF Matching
  <2> QED BY <2>1, RowsOfTables, FS_Subset
<1> HIDE DEF Score, scored
<1>5. PICK best \in scored : \A x \in scored : Score(best) >= Score(x)
  <2> DEFINE score == [x \in scored |-> Score(x)]
  <2>1. \A x \in scored : score[x] = Score(x)
    OBVIOUS
  <2>2. \A x \in scored : score[x] \in Int
    BY <1>3, <2>1
  <2> HIDE DEF score
  <2>3. \E b \in scored : \A x \in scored : score[b] >= score[x]
    BY <1>2, <1>4, <2>2, BestScore
  <2> QED BY <2>1, <2>3
<1>6. max = Score(best)
  <2>1. Score(best) \in values /\ \A y \in values : Score(best) >= y
    BY <1>3, <1>5
  <2>2. max \in values /\ \A y \in values : max >= y
    BY <2>1 DEF Max
  <2>3. max >= Score(best) /\ Score(best) >= max /\ max \in Int
    BY <1>3, <2>1, <2>2
  <2> QED BY <1>3, <2>3
<1> HIDE DEF max
<1>7. max \in Nat /\ max > 0
  BY <1>3, <1>6
<1>8. Score(best) >= MinimumScore(anchored, max)
  <2>1. anchored \in BOOLEAN /\ (anchored => max >= 4)
    OBVIOUS
  <2> HIDE DEF anchored
  <2> QED BY <1>6, <1>7, <2>1, MinimumWithin
<1> QED BY <1>1, <1>6, <1>8

\* What vectors score, and the blend, are numbers.
LEMMA VectorScoresType ==
  ASSUME VectorInv, NEW v \in Vectors, NEW k
  PROVE  \A c \in DOMAIN VectorScores(db, v, k) : VectorScores(db, v, k)[c] \in Int
<1> DEFINE pool == TopK([i \in DOMAIN db.index |-> Near(v, db.index[i])], Max({4 * k, 64}))
           Score(i) == IF v \in Canonical THEN Near(v, db.index[i]) ELSE Cosine(v, db.chunks[i].vector)
           found == IF v \in Canonical THEN pool ELSE Comparable(db, v)
           Of(c) == {j \in found : db.chunks[j].claim = c}
<1>1. VectorScores(db, v, k) = [c \in {db.chunks[i].claim : i \in found} |->
                                  Max({Score(i) : i \in Of(c)})]
  BY DEF VectorScores
<1>2. pool \subseteq DOMAIN db.index
  BY TopKWithin
<1>3. found \subseteq DOMAIN db.chunks /\ \A i \in found : Score(i) \in Int
  <2>1. CASE v \in Canonical
    BY <1>2, <2>1, RowsOfTables, RetrievalAssumption
  <2>2. CASE v \notin Canonical
    <3>1. \A i \in Comparable(db, v) : i \in DOMAIN db.chunks /\ db.chunks[i].vector \in Vectors
      BY RowsOfTables DEF Comparable, Embedded, Chunks
    <3> QED BY <2>2, <3>1, RetrievalAssumption
  <2> QED BY <2>1, <2>2
<1> HIDE DEF Score, found
<1>4. ASSUME NEW c, NEW j \in found, c = db.chunks[j].claim
      PROVE  Max({Score(i) : i \in Of(c)}) \in Int
  <2>1. Of(c) \in SUBSET Int /\ IsFiniteSet(Of(c)) /\ j \in Of(c)
    <3>1. Of(c) \subseteq DOMAIN db.chunks /\ j \in Of(c)
      BY <1>3, <1>4
    <3> QED BY <3>1, RowsOfTables, FS_Subset
  <2>2. \A i \in Of(c) : Score(i) \in Int
    BY <1>3
  <2> DEFINE S == Of(c)
             score == [i \in S |-> Score(i)]
  <2> HIDE DEF S
  <2>3. \A i \in S : score[i] = Score(i) /\ score[i] \in Int
    BY <2>2 DEF S
  <2> HIDE DEF score
  <2>4. PICK b \in S : \A i \in S : score[b] >= score[i]
    BY <2>1, <2>3, BestScore DEF S
  <2> DEFINE values == {Score(i) : i \in S}
  <2>5. Score(b) \in values /\ \A y \in values : Score(b) >= y
    BY <2>3, <2>4
  <2>6. Max(values) \in values
    BY <2>5 DEF Max
  <2>7. Max(values) \in Int
    BY <2>3, <2>6
  <2> QED BY <2>7 DEF S
<1> QED BY <1>1, <1>4

LEMMA Percent == \A x \in 0..100 : x \in Int /\ x >= 0
OBVIOUS

LEMMA BlendType ==
  ASSUME VectorInv, NEW q \in Queries, NEW scores, \A c \in DOMAIN scores : scores[c] \in Int,
         NEW c \in DOMAIN db.claims
  PROVE  Blend(db, q, scores, c) \in Int
<1> DEFINE tokens == ToSet(q.tokens)
           vector == IF c \in DOMAIN scores THEN scores[c] ELSE 0
           all == Cardinality(tokens)
           some == Cardinality(tokens \cap Ends[db.claims[c].fact])
<1>1. q.tokens \in Seq(Nat) /\ q.alpha \in Int
  <2>1. q \in [tokens : Seq(Nat), entity : Entities, vector : Vectors, alpha : 0..100]
    BY RetrievalAssumption
  <2>2. q.tokens \in Seq(Nat)
    BY <2>1
  <2>3. q.alpha \in 0..100
    BY <2>1
  <2>4. q.alpha \in Int
    BY ONLY <2>3, Percent
  <2> QED BY ONLY <2>2, <2>4
<1>2. IsFiniteSet(tokens)
  <2>1. PICK n \in Nat : n = Len(q.tokens) /\ q.tokens \in [1..n -> Nat]
    BY <1>1, LenProperties
  <2>2. q.tokens \in Surjection(1..n, tokens)
    BY <2>1 DEF Surjection, ToSet
  <2>3. IsFiniteSet(1..n)
    <3>1. 1 \in Int /\ n \in Int
      OBVIOUS
    <3> QED BY <3>1, FS_Interval
  <2> HIDE DEF tokens
  <2> QED BY <2>2, <2>3, FS_Surjection
<1> HIDE DEF tokens
<1>3. all \in Int /\ some \in Int
  <2>1. IsFiniteSet(tokens \cap Ends[db.claims[c].fact])
    BY <1>2, FS_Subset
  <2>2. all \in Nat /\ some \in Nat
    BY <1>2, <2>1, FS_CardinalityType
  <2> QED BY <2>2
<1>4. vector \in Int
  OBVIOUS
<1>5. Blend(db, q, scores, c) = q.alpha * vector * all + (100 - q.alpha) * 100 * some
  BY DEF Blend, tokens
<1> HIDE DEF vector, all, some
<1>6. \A a, x, y, z \in Int : a * x * y + (100 - a) * 100 * z \in Int
  OBVIOUS
<1> QED BY <1>1, <1>3, <1>4, <1>5, <1>6

\* The vector recall of claims: one chunk of each claim counts, the best.
LEMMA VectorClaimsSize ==
  ASSUME VectorInv, NEW v \in Vectors, NEW k \in Nat
  PROVE  LET active == {c \in {db.chunks[i].claim : i \in Comparable(db, v)} :
                          db.claims[c].status = "ACTIVE"}
         IN  /\ Cardinality(active) \in Nat
             /\ Cardinality(VectorClaims(db, v, k)) = Smaller(k, Cardinality(active))
<1> DEFINE chunks == Comparable(db, v)
           Score(i) == Cosine(v, db.chunks[i].vector)
           Before(i, j) == Score(i) > Score(j) \/ (Score(i) = Score(j) /\ i < j)
           active == {c \in {db.chunks[i].claim : i \in chunks} : db.claims[c].status = "ACTIVE"}
           Best(c) == CHOOSE i \in chunks :
             db.chunks[i].claim = c /\ \A j \in chunks : db.chunks[j].claim = c => ~Before(j, i)
           R == {x \in active \X active : Before(Best(x[1]), Best(x[2]))}
<1>1. VectorClaims(db, v, k) =
        {c \in active : Cardinality({o \in active : Before(Best(o), Best(c))}) < k}
  BY DEF VectorClaims
<1>2. chunks \subseteq DOMAIN db.chunks /\ chunks \in SUBSET Int /\ IsFiniteSet(chunks)
  <2>1. chunks \subseteq DOMAIN db.chunks
    BY DEF Comparable, Embedded
  <2> QED BY <2>1, RowsOfTables, FS_Subset
<1>3. \A i \in chunks : Score(i) \in Int
  <2>1. \A i \in chunks : db.chunks[i].vector \in Vectors
    BY RowsOfTables DEF Comparable, Embedded, Chunks
  <2> QED BY <2>1, RetrievalAssumption
<1>4. active \subseteq DOMAIN db.claims /\ IsFiniteSet(active)
  <2>1. active \subseteq DOMAIN db.claims
    BY <1>2, RowsOfTables
  <2> QED BY <2>1, RowsOfTables, FS_Subset
<1> HIDE DEF chunks, Score
<1>5. /\ \A i, j \in chunks : Before(i, j) => ~Before(j, i)
      /\ \A h, i, j \in chunks : Before(h, i) /\ Before(i, j) => Before(h, j)
      /\ \A i, j \in chunks : i = j \/ Before(i, j) \/ Before(j, i)
  BY <1>2, <1>3
<1>6. ASSUME NEW c \in active PROVE Best(c) \in chunks /\ db.chunks[Best(c)].claim = c
  <2> DEFINE S == {i \in chunks : db.chunks[i].claim = c}
             score == [i \in S |-> Score(i)]
  <2>1. S # {} /\ S \in SUBSET Int /\ IsFiniteSet(S)
    BY <1>2, FS_Subset
  <2>2. \A i \in S : score[i] = Score(i) /\ score[i] \in Int
    BY <1>3
  <2> HIDE DEF score
  <2>3. PICK b \in S : \A o \in S : o = b \/ Better(score, b, o)
    <3> HIDE DEF S
    <3> QED BY <2>1, <2>2, SomeBest
  <2>4. \A o \in S : o = b \/ Before(b, o)
    BY <2>2, <2>3 DEF Better
  <2>5. \A o \in S : ~Before(o, b)
    BY <1>2, <1>3, <1>5, <2>4
  <2>6. b \in chunks /\ db.chunks[b].claim = c
        /\ \A j \in chunks : db.chunks[j].claim = c => ~Before(j, b)
    BY <2>5
  <2> HIDE DEF Before
  <2> QED BY <2>6
<1> HIDE DEF active, Best, Before
<1>7. \A c, o \in active : <<o, c>> \in R <=> Before(Best(o), Best(c))
  OBVIOUS
<1> HIDE DEF R
<1>8. Rebuilds!LinearOrder(active, R)
  <2>1. \A c, o \in active : <<o, c>> \in R => <<c, o>> \notin R
    BY <1>5, <1>6, <1>7
  <2>2. \A c, o, a \in active : <<c, o>> \in R /\ <<o, a>> \in R => <<c, a>> \in R
    BY <1>5, <1>6, <1>7
  <2>3. \A c, o \in active : c = o \/ <<c, o>> \in R \/ <<o, c>> \in R
    BY <1>5, <1>6, <1>7
  <2> QED BY <2>1, <2>2, <2>3 DEF Rebuilds!LinearOrder
<1>9. ASSUME NEW c \in active
      PROVE  Rebuilds!Rank(active, R, c) = Cardinality({o \in active : Before(Best(o), Best(c))})
  <2>1. Rebuilds!Below(active, R, c) = {o \in active : Before(Best(o), Best(c))}
    BY <1>7 DEF Rebuilds!Below
  <2> QED BY <2>1, SameCounting DEF Rebuilds!Rank
<1>10. VectorClaims(db, v, k) = {c \in active : Rebuilds!Rank(active, R, c) < k}
  BY <1>1, <1>9
<1>11. /\ Cardinality(active) \in Nat
       /\ Cardinality({c \in active : Rebuilds!Rank(active, R, c) < k}) =
            IF k <= Cardinality(active) THEN k ELSE Cardinality(active)
  BY <1>4, <1>8, SameFiniteness, SameCounting, Rebuilds!CountBelow
<1> QED BY <1>10, <1>11 DEF Smaller, active, chunks

\* Embeddings never make the answer of a recall smaller.
LEMMA KeywordRecallSize ==
  ASSUME VectorInv, NEW q \in Queries, NEW filters, NEW k \in Nat
  PROVE  /\ Cardinality(Keyword(db, q.tokens, filters)) \in Nat
         /\ Cardinality(KeywordRecall(db, q, filters, k)) =
              Smaller(k, Cardinality(Keyword(db, q.tokens, filters)))
<1> DEFINE found == Keyword(db, q.tokens, filters)
           score == [c \in found |-> TokenScore(q.tokens, db.claims[c].fact)]
<1>1. found \in SUBSET Int /\ IsFiniteSet(found)
  <2>1. found \subseteq DOMAIN db.claims
    BY KeywordWithin DEF Matching
  <2> HIDE DEF found
  <2> QED BY <2>1, RowsOfTables, FS_Subset
<1>2. q.tokens \in Seq(Nat)
  <2>1. q \in [tokens : Seq(Nat), entity : Entities, vector : Vectors, alpha : 0..100]
    BY RetrievalAssumption
  <2> QED BY <2>1
<1>3. KeywordRecall(db, q, filters, k) = TopK(score, k)
  BY DEF KeywordRecall
<1> HIDE DEF found
<1>4. DOMAIN score = found /\ \A c \in found : score[c] \in Int
  BY <1>2, TokenScoreType
<1> HIDE DEF score
<1> QED BY <1>1, <1>3, <1>4, TopKSize DEF found

LEMMA HybridSize ==
  ASSUME VectorInv, NEW q \in Queries, NEW filters, NEW k \in Nat
  PROVE  \E found : /\ Keyword(db, q.tokens, filters) \subseteq found /\ IsFiniteSet(found)
                    /\ Cardinality(found) \in Nat
                    /\ Cardinality(Hybrid(db, q, filters, k)) = Smaller(k, Cardinality(found))
<1> DEFINE scores == VectorScores(db, q.vector, k)
           found == Keyword(db, q.tokens, filters) \cup (Matching(db, filters) \cap DOMAIN scores)
           blend == [c \in found |-> Blend(db, q, scores, c)]
<1>1. q.vector \in Vectors
  <2>1. q \in [tokens : Seq(Nat), entity : Entities, vector : Vectors, alpha : 0..100]
    BY RetrievalAssumption
  <2> QED BY <2>1
<1>2. \A c \in DOMAIN scores : scores[c] \in Int
  BY <1>1, VectorScoresType
<1>3. Hybrid(db, q, filters, k) = TopK(blend, k)
  BY DEF Hybrid
<1> HIDE DEF scores
<1>4. found \subseteq DOMAIN db.claims
  BY KeywordWithin DEF Matching
<1>5. Keyword(db, q.tokens, filters) \subseteq found
  OBVIOUS
<1> HIDE DEF found
<1>6. found \in SUBSET Int /\ IsFiniteSet(found)
  BY <1>4, RowsOfTables, FS_Subset
<1>7. DOMAIN blend = found /\ \A c \in found : blend[c] \in Int
  BY <1>2, <1>4, BlendType
<1> HIDE DEF blend
<1> QED BY <1>3, <1>5, <1>6, <1>7, TopKSize

LEMMA SmallerGrows ==
  ASSUME NEW k \in Nat, NEW m \in Nat, NEW n \in Nat, m <= n
  PROVE  Smaller(k, m) <= Smaller(k, n)
BY DEF Smaller

LEMMA SmallerIsMin ==
  ASSUME NEW k \in Nat, NEW n \in Nat
  PROVE  Smaller(k, n) = Min({k, n})
<1>1. \A x \in {k, n} : x \in Int
  OBVIOUS
<1>2. Smaller(k, n) \in {k, n} /\ \A y \in {k, n} : Smaller(k, n) <= y
  BY DEF Smaller
<1>3. Min({k, n}) \in {k, n} /\ \A y \in {k, n} : Min({k, n}) <= y
  BY <1>2 DEF Min
<1> QED BY <1>1, <1>2, <1>3

LEMMA RecallIs ==
  ASSUME NEW q, NEW filters, NEW k, NEW embeds \in BOOLEAN
  PROVE  Recall(db, q, filters, k, embeds).triples =
           IF InvalidRecallQuery(q) THEN {}
           ELSE IF embeds /\ Embedded(db) # {} THEN Hybrid(db, q, filters, k)
           ELSE KeywordRecall(db, q, filters, k)
BY DEF Recall, Refused, Found

LEMMA RecallEmbedded ==
  ASSUME NEW q, NEW filters, NEW k, ~InvalidRecallQuery(q)
  PROVE  \/ Recall(db, q, filters, k, TRUE).triples = KeywordRecall(db, q, filters, k)
         \/ Recall(db, q, filters, k, TRUE).triples = Hybrid(db, q, filters, k)
<1>1. CASE Embedded(db) = {}
  <2>1. Recall(db, q, filters, k, TRUE).triples = KeywordRecall(db, q, filters, k)
    BY <1>1 DEF Recall, Found
  <2> QED BY <2>1
<1>2. CASE Embedded(db) # {}
  <2>1. Recall(db, q, filters, k, TRUE).triples = Hybrid(db, q, filters, k)
    BY <1>2 DEF Recall, Found
  <2> QED BY <2>1
<1> QED BY <1>1, <1>2

\* A refused recall returns nothing.
LEMMA RecallRefused ==
  ASSUME NEW q, NEW filters, NEW k, InvalidRecallQuery(q), NEW embeds \in BOOLEAN
  PROVE  Cardinality(Recall(db, q, filters, k, embeds).triples) = 0
<1>1. Recall(db, q, filters, k, embeds).triples = {}
  BY RecallIs
<1> QED BY <1>1, FS_EmptySet

LEMMA RecallFollows == VectorInv => RecallFillsItsAnswer
<1> SUFFICES ASSUME VectorInv, NEW q \in Queries, NEW k \in {1, 2}, NEW walk \in {"any", "exact"}
             PROVE  LET view == [scope |-> Global, walk |-> walk]
                        filters == [view |-> view, names |-> Names, least |-> 0,
                                    status |-> "ACTIVE"]
                        Size(embeds) == Cardinality(Recall(db, q, filters, k, embeds).triples)
                        wanted == {c \in Seen(db, view) :
                                     TokenScore(q.tokens, db.claims[c].fact) > 0}
                        vectored == {c \in Seen(db, ViewOf(<<>>, "default", Global)) :
                                       \E i \in Comparable(db, q.vector) : db.chunks[i].claim = c}
                    IN /\ wanted # {} => Size(FALSE) > 0
                       /\ Size(TRUE) >= Size(FALSE)
                       /\ Cardinality(VectorClaims(db, q.vector, k)) =
                            Min({k, Cardinality(vectored)})
  BY DEF RecallFillsItsAnswer
<1> DEFINE view == [scope |-> Global, walk |-> walk]
           filters == [view |-> view, names |-> Names, least |-> 0, status |-> "ACTIVE"]
           keyword == Keyword(db, q.tokens, filters)
           wanted == {c \in Seen(db, view) : TokenScore(q.tokens, db.claims[c].fact) > 0}
           vectored == {c \in Seen(db, ViewOf(<<>>, "default", Global)) :
                          \E i \in Comparable(db, q.vector) : db.chunks[i].claim = c}
           few == Cardinality(KeywordRecall(db, q, filters, k))
           many == Cardinality(Hybrid(db, q, filters, k))
<1>1. k \in Nat /\ k > 0
  OBVIOUS
<1>2. q.tokens \in Seq(Nat) /\ q.vector \in Vectors
  <2>1. q \in [tokens : Seq(Nat), entity : Entities, vector : Vectors, alpha : 0..100]
    BY RetrievalAssumption
  <2> QED BY <2>1
<1>3. \A c \in DOMAIN db.claims : db.claims[c].fact.predicate \in Names /\ db.claims[c].fact.conf >= 0
  <2>1. \A c \in DOMAIN db.claims : db.claims[c].fact \in FactRows
    BY RowsOfTables, GraphAssumption DEF ClaimRows
  <2> TAKE c \in DOMAIN db.claims
  <2>2. PICK fact : fact = db.claims[c].fact
    OBVIOUS
  <2>3. fact.predicate \in Names
    BY <2>1, <2>2 DEF FactRows
  <2>4. fact.conf \in 0..100
    BY <2>1, <2>2 DEF FactRows
  <2>5. fact.conf >= 0
    BY ONLY <2>4, Percent
  <2> QED BY ONLY <2>2, <2>3, <2>5
<1>4. Seen(db, view) \subseteq Matching(db, filters)
  BY <1>3 DEF Seen, Matching
<1>5. wanted # {} => keyword # {}
  <2> HIDE DEF filters
  <2> QED BY <1>2, <1>4, KeywordFinds
<1>6. Cardinality(keyword) \in Nat /\ few = Smaller(k, Cardinality(keyword))
  <2> HIDE DEF filters
  <2> QED BY <1>1, KeywordRecallSize
<1>7. IsFiniteSet(keyword)
  <2>1. keyword \subseteq DOMAIN db.claims
    BY KeywordWithin DEF Matching
  <2> HIDE DEF keyword
  <2> QED BY <2>1, RowsOfTables, FS_Subset
<1>8. wanted # {} => few > 0
  <2>1. keyword # {} => Cardinality(keyword) # 0
    <3> HIDE DEF keyword
    <3> QED BY <1>7, FS_EmptySet
  <2> HIDE DEF keyword, few, wanted
  <2> QED BY <1>1, <1>5, <1>6, <2>1 DEF Smaller
<1>9. many >= few
  <2> HIDE DEF filters
  <2>1. PICK found : /\ keyword \subseteq found /\ IsFiniteSet(found) /\ Cardinality(found) \in Nat
                     /\ many = Smaller(k, Cardinality(found))
    BY <1>1, HybridSize
  <2> HIDE DEF keyword, many, few
  <2>2. Cardinality(keyword) <= Cardinality(found)
    BY <2>1, FS_Subset
  <2>3. Smaller(k, Cardinality(keyword)) <= Smaller(k, Cardinality(found))
    BY <1>1, <1>6, <2>1, <2>2, SmallerGrows
  <2>4. few \in Int /\ many \in Int
    BY <1>1, <1>6, <2>1 DEF Smaller
  <2> QED BY <1>6, <2>1, <2>3, <2>4
<1>10. ASSUME ~InvalidRecallQuery(q)
       PROVE  /\ Cardinality(Recall(db, q, filters, k, FALSE).triples) = few
              /\ Cardinality(Recall(db, q, filters, k, TRUE).triples) \in {few, many}
  <2> HIDE DEF filters
  <2>1. Recall(db, q, filters, k, FALSE).triples = KeywordRecall(db, q, filters, k)
    BY <1>10, RecallIs
  <2>2. \/ Recall(db, q, filters, k, TRUE).triples = KeywordRecall(db, q, filters, k)
        \/ Recall(db, q, filters, k, TRUE).triples = Hybrid(db, q, filters, k)
    BY <1>10, RecallEmbedded
  <2> QED BY ONLY <2>1, <2>2
<1>11. few \in Int
  <2> HIDE DEF keyword, few
  <2> QED BY <1>1, <1>6 DEF Smaller
<1>12. Cardinality(Recall(db, q, filters, k, TRUE).triples)
         >= Cardinality(Recall(db, q, filters, k, FALSE).triples)
  <2> HIDE DEF filters, few, many
  <2>1. PICK low, high : /\ low = Cardinality(Recall(db, q, filters, k, FALSE).triples)
                         /\ high = Cardinality(Recall(db, q, filters, k, TRUE).triples)
    OBVIOUS
  <2>2. CASE InvalidRecallQuery(q)
    <3>1. low = 0 /\ high = 0
      BY <2>1, <2>2, RecallRefused
    <3>2. high >= low
      BY ONLY <3>1
    <3> QED BY ONLY <2>1, <3>2
  <2>3. CASE ~InvalidRecallQuery(q)
    <3>1. low = few /\ high \in {few, many}
      BY <1>10, <2>1, <2>3
    <3>2. few >= few
      BY ONLY <1>11
    <3>3. high >= low
      BY ONLY <1>9, <3>1, <3>2
    <3> QED BY ONLY <2>1, <3>3
  <2> QED BY ONLY <2>2, <2>3
<1>13. vectored = {c \in {db.chunks[i].claim : i \in Comparable(db, q.vector)} :
                    db.claims[c].status = "ACTIVE"}
  <2>1. ViewOf(<<>>, "default", Global).walk = "any"
    BY DEF ViewOf
  <2>2. \A scope : Admits(ViewOf(<<>>, "default", Global), scope)
    BY <2>1 DEF Admits
  <2>3. \A i \in Comparable(db, q.vector) : db.chunks[i].claim \in DOMAIN db.claims
    BY RowsOfTables DEF Comparable, Embedded
  <2> QED BY <2>2, <2>3 DEF Seen
<1>14. Cardinality(VectorClaims(db, q.vector, k)) = Min({k, Cardinality(vectored)})
  <2>1. /\ Cardinality(vectored) \in Nat
        /\ Cardinality(VectorClaims(db, q.vector, k)) = Smaller(k, Cardinality(vectored))
    BY <1>1, <1>2, <1>13, VectorClaimsSize
  <2> HIDE DEF vectored
  <2> QED BY <1>1, <2>1, SmallerIsMin
<1>15. wanted # {} => ~InvalidRecallQuery(q)
  <2>1. ~(0 > 0)
    OBVIOUS
  <2> QED BY <2>1, NoWordsNoScore DEF InvalidRecallQuery
<1> QED BY <1>8, <1>10, <1>12, <1>14, <1>15

\* Recall gives what there is: a keyword recall finds nothing only if nothing shares a
\* word, embeddings never make the answer smaller, a vector recall is as long as it can.
THEOREM RecallGivesWhatThereIs == Spec => []RecallFillsItsAnswer
<1>1. Spec => []VectorInv
  BY VectorInit, VectorStep, PTL DEF Spec
<1> QED BY <1>1, RecallFollows, PTL
=============================================================================
