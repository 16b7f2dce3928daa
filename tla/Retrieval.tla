------------------------------- MODULE Retrieval -------------------------------
(***************************************************************************)
(* Recall over a memory that is being written (vectors.rs, the recall of    *)
(* claims.rs and recall.rs, apply.rs, the read tools of tools.rs).  Claims, *)
(* hyperedges and chunks arrive, each in one transaction; a backfill lists  *)
(* the chunks without an embedding, asks a slow model for each, and writes  *)
(* it in a transaction of its own, while others do the same.                *)
(*                                                                         *)
(* Log lines of claims are left to MemoryStore: only those of chunks are    *)
(* kept here, and only they can be stranded by a stop before the commit.    *)
(***************************************************************************)
EXTENDS ClaimGraph

CONSTANTS
  Procs,
  Texts,              \* chunk texts
  Vectors, Canonical, \* embeddings, and those of the dimension the index takes
  Embedding,          \* [Procs -> [Texts -> Vectors]]: what each process's model computes
  Near(_, _),         \* similarity by the index's distance, in percent
  Cosine(_, _),       \* normalized_cosine_score, in percent
  Exact, Parts, Ends, \* of each fact: the words of its text, the parts of the words,
                      \* and those of its subject and object
  Queries,            \* [tokens, entity, vector, alpha]
  MaxRows             \* bound on claims, hyperedges and chunk lines together

NoVector == 0

ASSUME RetrievalAssumption ==
  /\ Canonical \subseteq Vectors /\ NoVector \notin Vectors
  /\ \A v, w \in Vectors : Near(v, w) \in Int /\ Cosine(v, w) \in Int
  /\ Embedding \in [Procs -> [Texts -> Vectors]]
  /\ \A t \in {Exact, Parts, Ends} : t \in [Facts -> SUBSET Nat]
  /\ Queries \subseteq [tokens : Seq(Nat), entity : Entities, vector : Vectors, alpha : 0..100]
  /\ MaxRows \in Nat

VARIABLES
  db,    \* claims, hyperedges, parent, closure, chunks, index
  log,   \* the chunk and embedding lines of log.jsonl; a chunk's id is its line's number
  todo   \* what each process's backfill has listed and not yet written

vars == <<db, log, todo>>

Chunks == [claim : 1..MaxRows, text : Texts, vector : Vectors \cup {NoVector}]
Lines == [kind : {"add_vector_chunk"}, chunk : Chunks]
         \cup [kind : {"embed_vector_chunk"}, id : 1..MaxRows, vector : Vectors]

-----------------------------------------------------------------------------
(* apply, for the lines of chunks. *)

With(f, x, y) == [z \in DOMAIN f \cup {x} |-> IF z = x THEN y ELSE f[z]]

\* index_embedding: INSERT OR IGNORE, of vectors of the canonical dimension.
Indexed(index, id, vector) ==
  IF vector \in Canonical /\ id \notin DOMAIN index THEN With(index, id, vector) ELSE index

EmbedAccepted(d, id, vector) ==
  id \in DOMAIN d.chunks /\ d.chunks[id].vector \in {NoVector, vector}

\* Mutant: a later embedding replaces the one that is there.
EmbedReplaces(d, id, vector) ==
  IF id \notin DOMAIN d.chunks THEN d
  ELSE [d EXCEPT !.chunks[id].vector = vector, !.index = Indexed(@, id, vector)]

\* A line that is refused, or is there already, changes nothing.
Embed(d, id, vector) ==
  IF ~EmbedAccepted(d, id, vector) \/ d.chunks[id].vector = vector THEN d
  ELSE [d EXCEPT !.chunks[id].vector = vector, !.index = Indexed(@, id, vector)]

AddChunk(d, id, chunk) ==
  [d EXCEPT !.chunks = With(@, id, chunk),
            !.index = IF chunk.vector = NoVector THEN @ ELSE Indexed(@, id, chunk.vector)]

Effect(d, i, line) ==
  IF line.kind = "add_vector_chunk" THEN AddChunk(d, i, line.chunk)
  ELSE Embed(d, line.id, line.vector)

None == [i \in {} |-> 0]

NoRows == [chunks |-> None, index |-> None]

Numbered(lines) == [i \in DOMAIN lines |-> [id |-> i, line |-> lines[i]]]
Apply(rows, entry) == Effect(rows, entry.id, entry.line)

Rows(lines) == FoldLeft(Apply, NoRows, Numbered(lines))

Replayed ==
  LET rows == Rows(log) IN [db EXCEPT !.chunks = rows.chunks, !.index = rows.index]

-----------------------------------------------------------------------------
(* Keyword recall. *)

\* What the recall filters ask for: [view, names, least, status].
Matching(d, filters) ==
  {c \in DOMAIN d.claims :
     /\ filters.status \in {"any", d.claims[c].status}
     /\ Admits(filters.view, d.claims[c].fact.scope)
     /\ d.claims[c].fact.predicate \in filters.names
     /\ d.claims[c].fact.conf >= filters.least}

\* recall_token_score.
Points(fact, t) == IF t \in Exact[fact] THEN 2 ELSE IF t \in Parts[fact] THEN 1 ELSE 0
Plus(m, n) == m + n
TokenScore(tokens, fact) ==
  FoldLeft(Plus, 0, [i \in DOMAIN tokens |-> Points(fact, tokens[i])])

MinimumScore(anchored, max) ==
  IF anchored THEN 2
  ELSE IF max >= 5 THEN max - 1 ELSE IF max >= 3 THEN 3 ELSE IF max >= 2 THEN 2 ELSE 1

\* validate_recall_query: one without a word is an error of either kind of recall.
InvalidRecallQuery(q) == q.tokens = <<>>

\* recall_text_with_filters, of a query that is not invalid.
Keyword(d, tokens, filters) ==
  LET Score(c) == TokenScore(tokens, d.claims[c].fact)
      scored == {c \in Matching(d, filters) : Score(c) > 0}
      max == Max({0} \cup {Score(c) : c \in scored})
      named == {c \in scored : Score(c) = max /\ d.claims[c].fact.predicate = "name"}
      anchored == Len(tokens) = 2 /\ max >= 4 /\ named # {}
      OfAnchor(c) == d.claims[c].fact.subject = d.claims[Min(named)].fact.subject
  IN {c \in scored : /\ Score(c) >= MinimumScore(anchored, max)
                     /\ anchored => Score(c) = max \/ OfAnchor(c)}

\* The k best by their scores, ties going to the older id.
TopK(score, k) ==
  LET Better(o, c) == score[o] > score[c] \/ (score[o] = score[c] /\ o < c)
  IN {c \in DOMAIN score : Cardinality({o \in DOMAIN score : Better(o, c)}) < k}

\* recall_text.
KeywordRecall(d, q, filters, k) ==
  TopK([c \in Keyword(d, q.tokens, filters) |-> TokenScore(q.tokens, d.claims[c].fact)], k)

-----------------------------------------------------------------------------
(* Vector recall. *)

Embedded(d) == {i \in DOMAIN d.chunks : d.chunks[i].vector # NoVector}
SameDimension(v, w) == (v \in Canonical) = (w \in Canonical)
Comparable(d, v) == {i \in Embedded(d) : SameDimension(v, d.chunks[i].vector)}

\* recall_vector_claims: the claims of the ranked chunks, once each, active ones only.
VectorClaims(d, v, k) ==
  LET Score(i) == Cosine(v, d.chunks[i].vector)
      Before(i, j) == Score(i) > Score(j) \/ (Score(i) = Score(j) /\ i < j)
      active == {c \in {d.chunks[i].claim : i \in Comparable(d, v)} : d.claims[c].status = "ACTIVE"}
      BestOfClaim(c) == CHOOSE i \in Comparable(d, v) :
        d.chunks[i].claim = c /\ \A j \in Comparable(d, v) : d.chunks[j].claim = c => ~Before(j, i)
  IN {c \in active : Cardinality({o \in active : Before(BestOfClaim(o), BestOfClaim(c))}) < k}

\* vector_scores: the nearest of the index within the fanout, or a scan.
VectorScores(d, v, k) ==
  LET pool == TopK([i \in DOMAIN d.index |-> Near(v, d.index[i])], Max({4 * k, 64}))
      Score(i) == IF v \in Canonical THEN Near(v, d.index[i]) ELSE Cosine(v, d.chunks[i].vector)
      found == IF v \in Canonical THEN pool ELSE Comparable(d, v)
  IN [c \in {d.chunks[i].claim : i \in found} |->
        Max({Score(i) : i \in {j \in found : d.chunks[j].claim = c}})]

\* The blend of both scores, times the number of distinct tokens.
Blend(d, q, scores, c) ==
  LET tokens == ToSet(q.tokens)
      vector == IF c \in DOMAIN scores THEN scores[c] ELSE 0
  IN q.alpha * vector * Cardinality(tokens)
     + (100 - q.alpha) * 100 * Cardinality(tokens \cap Ends[d.claims[c].fact])

\* Mutant: only what the vectors find is a candidate.
HybridOfVectors(d, q, filters, k) ==
  LET scores == VectorScores(d, q.vector, k)
  IN TopK([c \in Matching(d, filters) \cap DOMAIN scores |-> Blend(d, q, scores, c)], k)

\* recall_hybrid_claims_with_filters, of a query that is not invalid.
Hybrid(d, q, filters, k) ==
  LET scores == VectorScores(d, q.vector, k)
      found == Keyword(d, q.tokens, filters) \cup (Matching(d, filters) \cap DOMAIN scores)
  IN TopK([c \in found |-> Blend(d, q, scores, c)], k)

-----------------------------------------------------------------------------
(* The recall tool. *)

\* resolve_scope (ADR-0022): of a connection's header, default header and
\* environment the first that is set decides; malformed, it refuses the request.
ResolveScope(levels) ==
  LET set == SelectSeq(levels, LAMBDA level : level # <<>>)
  IN CASE set = <<>> -> {Global}
       [] set # <<>> /\ "" \notin ToSet(Head(set)) -> {Head(set)}
       [] set # <<>> /\ "" \in ToSet(Head(set)) -> {}

\* The read tools: a scope of the call goes before that of its connection, and is
\* read with what is above it, as is a connection's unless that is global.
ViewOf(scope, walk, resolved) ==
  [scope |-> IF scope = <<>> THEN resolved ELSE scope,
   walk |-> IF walk # "default" THEN walk
            ELSE IF scope = <<>> /\ resolved = Global THEN "any" ELSE "ancestors"]

\* recall of a query that may fail to be embedded.
Found(d, q, filters, k, embeds) ==
  LET hybrid == embeds /\ Embedded(d) # {}
      triples == IF hybrid THEN Hybrid(d, q, filters, k) ELSE KeywordRecall(d, q, filters, k)
      EdgesAround(entity) == Expand(d, entity, 2, Names, filters.view).edges
      score == [c \in triples |-> IF hybrid THEN Blend(d, q, VectorScores(d, q.vector, k), c)
                                  ELSE TokenScore(q.tokens, d.claims[c].fact)]
      first == CHOOSE c \in triples : TopK(score, 1) = {c}
  IN [triples |-> triples, mode |-> IF hybrid THEN "hybrid" ELSE "keyword",
      edges |-> IF EdgesAround(q.entity) # {} \/ triples = {} THEN EdgesAround(q.entity)
                ELSE EdgesAround(d.claims[first].fact.subject)]

Refused == [triples |-> {}, mode |-> "invalid_query", edges |-> {}]

Recall(d, q, filters, k, embeds) ==
  IF InvalidRecallQuery(q) THEN Refused ELSE Found(d, q, filters, k, embeds)

-----------------------------------------------------------------------------

Init ==
  /\ db = [claims |-> <<>>, hyperedges |-> <<>>, parent |-> SeedParent,
           closure |-> Closure(SeedParent), chunks |-> None, index |-> None]
  /\ log = <<>>
  /\ todo = [p \in Procs |-> <<>>]

Room == Len(db.claims) + Len(db.hyperedges) + Len(log) < MaxRows

\* add_claim: the vocabulary is checked before the line is written, and extended
\* when it is applied.
AddClaim(fact) ==
  /\ Room /\ Speakable(db, fact.predicate, fact.prov)
  /\ db' = [Learn(db, fact.predicate) EXCEPT
               !.claims = Append(@, [fact |-> fact, status |-> "ACTIVE"])]
  /\ UNCHANGED <<log, todo>>

\* retire_claim.
Retire(c) ==
  /\ c \in DOMAIN db.claims /\ db.claims[c].status # "INVALIDATED"
  /\ db' = [db EXCEPT !.claims[c].status = "INVALIDATED"]
  /\ UNCHANGED <<log, todo>>

\* add_hyperedge.
AddHyperedge(relation) ==
  /\ Room /\ Speakable(db, relation.predicate, relation.prov)
  /\ db' = [Learn(db, relation.predicate) EXCEPT !.hyperedges = Append(@, relation)]
  /\ UNCHANGED <<log, todo>>

\* add_vector_chunk, by a process whose model may be out of reach; the process
\* may stop between the append and the commit.
InsertChunk(p, c, text, vector, commits) ==
  /\ Room /\ c \in DOMAIN db.claims
  /\ vector \in {NoVector, Embedding[p][text]}
  /\ LET chunk == [claim |-> c, text |-> text, vector |-> vector]
     IN /\ log' = Append(log, [kind |-> "add_vector_chunk", chunk |-> chunk])
        /\ db' = IF commits THEN AddChunk(db, Len(log) + 1, chunk) ELSE db
  /\ UNCHANGED todo

\* ORDER BY id: the n-th has n - 1 before it.
InOrder(ids) ==
  [n \in 1..Cardinality(ids) |-> CHOOSE i \in ids : Cardinality({j \in ids : j < i}) = n - 1]

\* backfill_vector_embeddings lists what has no embedding,
BackfillList(p) ==
  /\ todo[p] = <<>> /\ Embedded(db) # DOMAIN db.chunks
  /\ todo' = [todo EXCEPT ![p] = InOrder(DOMAIN db.chunks \ Embedded(db))]
  /\ UNCHANGED <<db, log>>

EmbedLine(p) ==
  LET id == Head(todo[p])
  IN [kind |-> "embed_vector_chunk", id |-> id, vector |-> Embedding[p][db.chunks[id].text]]

\* and writes each; what is there already counts, something else ends the call
\* and leaves its line in the log.
BackfillOne(p) ==
  /\ Room /\ todo[p] # <<>>
  /\ LET line == EmbedLine(p)
     IN /\ log' = Append(log, line)
        /\ db' = Embed(db, line.id, line.vector)
        /\ todo' = [todo EXCEPT ![p] =
                      IF EmbedAccepted(db, line.id, line.vector) THEN Tail(@) ELSE <<>>]

\* A stop between the append and the commit.
BackfillCut(p) ==
  /\ Room /\ todo[p] # <<>>
  /\ log' = Append(log, EmbedLine(p))
  /\ todo' = [todo EXCEPT ![p] = <<>>]
  /\ UNCHANGED db

\* The model does not answer.
BackfillStops(p) ==
  /\ todo[p] # <<>>
  /\ todo' = [todo EXCEPT ![p] = <<>>]
  /\ UNCHANGED <<db, log>>

\* `aver replay`, with no call under way.
Rebuild ==
  /\ \A p \in Procs : todo[p] = <<>>
  /\ db' = Replayed
  /\ UNCHANGED <<log, todo>>

Next ==
  \/ \E fact \in Facts : AddClaim(fact)
  \/ \E c \in DOMAIN db.claims : Retire(c)
  \/ \E relation \in Relations : AddHyperedge(relation)
  \/ \E p \in Procs, c \in DOMAIN db.claims, text \in Texts, vector \in Vectors \cup {NoVector},
       commits \in BOOLEAN : InsertChunk(p, c, text, vector, commits)
  \/ \E p \in Procs : BackfillList(p) \/ BackfillOne(p) \/ BackfillCut(p) \/ BackfillStops(p)
  \/ Rebuild

Spec == Init /\ [][Next]_vars

-----------------------------------------------------------------------------
(* What is promised. *)

Mirrors(d) ==
  d.index = [i \in {j \in Embedded(d) : d.chunks[j].vector \in Canonical} |-> d.chunks[i].vector]

\* However backfills of different models, stops and refused lines interleave
\* (ADR-0017, ADR-0026): every row is well formed, the index holds exactly the
\* embeddings of its dimension and none that differs from its chunk's, and a
\* rebuild brings back every chunk, its embedding too if it had one.  The code
\* follows ADR-0026 here: doc/how-it-works.md:111-118 has chunks stay out of the log
\* and a replay leave them out, and ADR-0017:73 has an insert of another dimension
\* refused, which the code stores and keeps off the index.
VectorsKept ==
  /\ \A i \in DOMAIN db.chunks : /\ db.chunks[i] \in Chunks
                                 /\ db.chunks[i].claim \in DOMAIN db.claims
  /\ Mirrors(db) /\ Mirrors(Replayed)
  /\ DOMAIN db.chunks \subseteq DOMAIN Replayed.chunks
  /\ Embedded(db) \subseteq Embedded(Replayed)

\* The filter a recall expands and the question predicate_implies answers agree
\* for every name, aliases included, and both lead from what users coined on the
\* way up to its parent, so that no claim is out of reach of the filters above it.
FilterMatchesImplication ==
  \A name, ancestor \in {n \in Names : Known(db, n)} :
    /\ name \in Filter(db, ancestor) <=> Implies(db, name, ancestor)
    /\ ancestor = db.parent[CanonicalName(db, name)] => Implies(db, name, ancestor)

SomeViews(scopes) == {v \in [scope : scopes, walk : Walks] : v.walk = "any" => v.scope = Global}
Scopes == {Global} \cup {f.scope : f \in Facts}
PathQueries ==
  {q \in [source : Entities, target : Entities, hops : {3}, mode : {"directed", "bidirectional"},
          names : {Names}, least : {0, 50}, view : SomeViews({Global})] :
     /\ q.source # q.target /\ q.view.walk \in {"any", "exact"}
     /\ q.mode = "bidirectional" <=> q.least = 50
     /\ q.mode = "bidirectional" => q.source < q.target}

\* Among shortest paths graph_path returns one of the highest product of
\* confidences, and none only if there is none: compared with the best product
\* of walks of each length, computed from edge to edge.
PathIsBest ==
  \A q \in PathQueries :
    LET arcs == Arcs(db, q)
        \* the best product to each entity, 0 where no walk of that length leads
        Further(best) ==
          [e \in Entities |-> Max({0} \cup {best[a.from] * a.conf : a \in {b \in arcs : b.to = e}})]
        After(n) == Repeat(Further, n, [e \in Entities |-> IF e = q.source THEN 1 ELSE 0])
        path == GraphPath(db, q)
        reach == {n \in 1..q.hops : After(n)[q.target] > 0}
    IN IF reach = {} THEN path = NoPath
       ELSE /\ Len(path.ents) = Min(reach) + 1
            /\ path.ents[1] = q.source /\ Last(path.ents) = q.target
            /\ path.conf = After(Min(reach))[q.target]
            /\ \A i \in 1..(Len(path.ents) - 1) :
                 \E a \in arcs : a.from = path.ents[i] /\ a.to = path.ents[i + 1]

GraphPart == <<db.claims, db.hyperedges>>

MembersOfCommunities(d, view) == {m.members : m \in Communities(d, view)}

\* Communities partition the entities; saying more never takes one apart, and
\* saying less never joins two, whatever scope is asked.
CommunitiesFollowFacts ==
  [][\A view \in {v \in SomeViews(Scopes) : v.walk \in {"any", "ancestors"}} :
       LET before == MembersOfCommunities(db, view)
           after == MembersOfCommunities(db', view)
           Finer(P, Q) == \A m \in P : \E n \in Q : m \subseteq n
       IN /\ \A m, n \in after : m = n \/ m \cap n = {}
          /\ UNION after = Nodes(db', view)
          /\ Seen(db, view) \subseteq Seen(db', view) => Finer(before, after)
          /\ Seen(db', view) \subseteq Seen(db, view) /\ UNCHANGED db.hyperedges
               => Finer(after, before)]_GraphPart

Siblings(s, t) == s # t /\ ~Above(s, t) /\ ~Above(t, s) /\ Global \notin {s, t}

\* What calls that name a scope, or leave it to their connection, get to see: the
\* scope they mean with the view it becomes.  A scope is unset, or has an empty
\* segment, as the malformed do.
Named == {<<>>} \cup (Scopes \ {Global})
Given == Named \cup {Append(f.scope, "") : f \in Facts}

Meant ==
  LET Mentions(scope, levels) == SelectSeq(<<scope>> \o levels, LAMBDA s : s # <<>>)
      calls == {x \in Named \X (Given \X Given \X Given) : Mentions(x[1], x[2]) # <<>>}
      walks == {"default", "exact", "descendants", "ancestors"}
  IN UNION {{[scope |-> Head(Mentions(x[1], x[2])), view |-> ViewOf(x[1], walk, resolved)] :
               walk \in walks, resolved \in ResolveScope(x[2])} : x \in calls}

Answers(d, view, k) ==
  LET filters == [view |-> view, names |-> Filter(d, "relates_to"), least |-> 0,
                  status |-> "ACTIVE"]
      facts == [c \in Seen(d, view) |-> d.claims[c].fact]
      OfIds(ids) == {facts[c] : c \in ids}
  IN [recall |-> [q \in Queries |-> OfIds(KeywordRecall(d, q, filters, k))],
      edges |-> [q \in Queries |-> OfIds(Expand(d, q.entity, 2, filters.names, view).edges)],
      communities |-> Communities(d, view)]

\* Projects side by side, however written, do not see each other's facts (ADR-0021,
\* ADR-0022): what is added or retired in the one changes no answer given in the
\* other, be it the call, the header, the default header or the environment that
\* names the other.
SiblingScopesApart ==
  [][\A m \in Meant :
       (/\ UNCHANGED db.hyperedges
        /\ \A c \in DOMAIN db'.claims :
             (c \in DOMAIN db.claims => db'.claims[c] # db.claims[c])
               => Siblings(db'.claims[c].fact.scope, m.scope))
       => Answers(db', m.view, 2) = Answers(db, m.view, 2)]_GraphPart

\* Recall gives what there is: a keyword recall finds nothing only if nothing
\* that is admitted shares a word, embeddings never make the answer smaller, and
\* a vector recall is as long as there are active claims to fill it.
RecallFillsItsAnswer ==
  \A q \in Queries, k \in {1, 2}, walk \in {"any", "exact"} :
    LET view == [scope |-> Global, walk |-> walk]
        filters == [view |-> view, names |-> Names, least |-> 0, status |-> "ACTIVE"]
        Size(embeds) == Cardinality(Recall(db, q, filters, k, embeds).triples)
        wanted == {c \in Seen(db, view) : TokenScore(q.tokens, db.claims[c].fact) > 0}
        vectored == {c \in Seen(db, ViewOf(<<>>, "default", Global)) :
                       \E i \in Comparable(db, q.vector) : db.chunks[i].claim = c}
    IN /\ wanted # {} => Size(FALSE) > 0
       /\ Size(TRUE) >= Size(FALSE)
       /\ Cardinality(VectorClaims(db, q.vector, k)) = Min({k, Cardinality(vectored)})
=============================================================================
