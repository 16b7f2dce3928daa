------------------------------ MODULE ClaimGraph ------------------------------
(***************************************************************************)
(* The graph of claims and hyperedges and the predicates it is built from   *)
(* (graph.rs, hyperedges.rs, ontology.rs, the scope filter of store.rs).  A *)
(* database is a value: the writes below are the effects of its log lines,  *)
(* the readers the traversals an agent asks for.                            *)
(*                                                                         *)
(* Entities are numbers, whose order stands for that of names; confidences *)
(* are percentages; a scope is the sequence of its segments.  Agents, times *)
(* and source references are left out, and of the ways a claim stops being  *)
(* active one is kept.                                                      *)
(***************************************************************************)
EXTENDS Integers, Sequences, FiniteSets, SequencesExt, FiniteSetsExt

CONSTANTS
  Entities,
  Names,       \* predicate names and aliases that occur
  SeedParent,  \* the seeded predicates, each with its parent or NoParent
  Aliases,     \* alias -> the seeded predicate it stands for
  LowerCase,   \* segments of scopes that have upper case -> the same without
  Facts,       \* what clients assert
  Relations    \* the hyperedges clients add

Global == <<"global">>
NoParent == "none"

Provenances == {"USER_ASSERTED", "EXTRACTED", "INFERRED", "AMBIGUOUS"}

FactRows == [subject : Entities, predicate : Names, object : Entities, scope : Seq(STRING),
             conf : 0..100, prov : Provenances]

ASSUME GraphAssumption ==
  /\ Entities \subseteq Nat
  /\ Facts \subseteq FactRows
  /\ Relations \subseteq [predicate : Names, members : Seq(Entities), conf : 0..100,
                          prov : Provenances]
  /\ "relates_to" \in DOMAIN SeedParent
  /\ IsFiniteSet(DOMAIN SeedParent)
  /\ SeedParent \in [DOMAIN SeedParent -> DOMAIN SeedParent \cup {NoParent}]
  /\ DOMAIN SeedParent \subseteq Names /\ DOMAIN Aliases \subseteq Names \ DOMAIN SeedParent
  /\ NoParent \notin Names
  /\ \A a \in DOMAIN Aliases : Aliases[a] \in DOMAIN SeedParent

-----------------------------------------------------------------------------
(* The ontology of predicates. *)

\* One generation further up.
ClimbBy(pairs, parent) ==
  pairs \cup {<<pair[1], parent[pair[2]]>> : pair \in {x \in pairs : parent[x[2]] # NoParent}}

\* rebuild_closure: every predicate with itself and what its parents lead to.
Closure(parent) ==
  FoldLeft(ClimbBy, {<<p, p>> : p \in DOMAIN parent},
           [i \in 1..Cardinality(DOMAIN parent) |-> parent])

Known(d, name) == name \in DOMAIN d.parent \cup DOMAIN Aliases

\* validate_ontology: only users extend the vocabulary.
Speakable(d, name, prov) == Known(d, name) \/ prov = "USER_ASSERTED"

\* Mutant: the new predicate misses the closure.
LearnWithoutClosure(d, name) ==
  IF Known(d, name) THEN d
  ELSE [d EXCEPT !.parent = [p \in DOMAIN @ \cup {name} |->
                               IF p = name THEN "relates_to" ELSE @[p]]]

\* ensure_predicate_known.
Learn(d, name) ==
  IF Known(d, name) THEN d
  ELSE LET parent == [p \in DOMAIN d.parent \cup {name} |->
                        IF p = name THEN "relates_to" ELSE d.parent[p]]
       IN [d EXCEPT !.parent = parent, !.closure = Closure(parent)]

\* canonical_predicate_name, of a known name.
CanonicalName(d, name) == IF name \in DOMAIN d.parent THEN name ELSE Aliases[name]

\* predicate_implies.
Implies(d, name, ancestor) ==
  /\ Known(d, name) /\ Known(d, ancestor)
  /\ \/ CanonicalName(d, name) = CanonicalName(d, ancestor)
     \/ <<CanonicalName(d, name), CanonicalName(d, ancestor)>> \in d.closure

\* expand_predicate_filter, of one name.
Filter(d, name) ==
  IF ~Known(d, name) THEN {name}
  ELSE LET below == {p \in DOMAIN d.parent : <<p, CanonicalName(d, name)>> \in d.closure}
       IN {name, CanonicalName(d, name)} \cup below
          \cup {a \in DOMAIN Aliases : Aliases[a] \in below}

-----------------------------------------------------------------------------
(* Scopes (ADR-0021). *)

Walks == {"any", "exact", "descendants", "ancestors"}
Views == [scope : Seq(STRING), walk : Walks]

\* `t LIKE s || '/%'`, with s escaped: LIKE does not tell upper from lower case.
Folded(scope) ==
  [i \in DOMAIN scope |-> IF scope[i] \in DOMAIN LowerCase THEN LowerCase[scope[i]] ELSE scope[i]]
Above(s, t) == Len(s) < Len(t) /\ IsPrefix(Folded(s), Folded(t))

\* Mutant: an ancestor is whatever shares the first segment.
AdmitsByProject(view, scope) ==
  CASE view.walk = "any" -> TRUE
    [] view.walk = "exact" -> scope = view.scope
    [] view.walk = "descendants" -> scope = view.scope \/ Above(view.scope, scope)
    [] view.walk = "ancestors" -> scope = Global \/ Head(scope) = Head(view.scope)

\* scope_filter_sql: does a reader with this view see a row of this scope?
Admits(view, scope) ==
  CASE view.walk = "any" -> TRUE
    [] view.walk = "exact" -> scope = view.scope
    [] view.walk = "descendants" -> scope = view.scope \/ Above(view.scope, scope)
    [] view.walk = "ancestors" -> scope \in {Global, view.scope} \/ Above(scope, view.scope)

\* hyperedges_in_scope: hyperedges count as rows of the global scope.
HyperedgesInScope(view) == view.walk \in {"any", "ancestors"} \/ view.scope = Global

Seen(d, view) ==
  {c \in DOMAIN d.claims : d.claims[c].status = "ACTIVE" /\ Admits(view, d.claims[c].fact.scope)}
SeenHyperedges(d, view) == IF HyperedgesInScope(view) THEN DOMAIN d.hyperedges ELSE {}

-----------------------------------------------------------------------------
(* expand: breadth first over claims, in either direction. *)

Repeat(Step(_), n, x) == FoldLeft(LAMBDA y, i : Step(y), x, [i \in 1..n |-> i])

Touching(d, view, names, nodes) ==
  {c \in Seen(d, view) : /\ d.claims[c].fact.predicate \in names
                         /\ {d.claims[c].fact.subject, d.claims[c].fact.object} \cap nodes # {}}

Endpoints(d, ids) == UNION {{d.claims[c].fact.subject, d.claims[c].fact.object} : c \in ids}

Expand(d, entity, hops, names, view) ==
  LET Grow(nodes) == nodes \cup Endpoints(d, Touching(d, view, names, nodes))
  IN [nodes |-> Repeat(Grow, hops, {entity}),
      edges |-> Touching(d, view, names, Repeat(Grow, hops - 1, {entity}))]

-----------------------------------------------------------------------------
(* graph_path.  A query is [source, target, hops, mode, names, least, view]; *)
(* which of several edges between two entities a step names is left out.     *)

Arc(from, to, conf) == [from |-> from, to |-> to, conf |-> conf]

\* graph_path_candidates.
Arcs(d, q) ==
  LET facts == {d.claims[c].fact : c \in Seen(d, q.view)}
      used == {f \in facts : f.conf >= q.least /\ f.predicate \in q.names}
      edges == {h \in {d.hyperedges[i] : i \in SeenHyperedges(d, q.view)} :
                  h.conf >= q.least /\ h.predicate \in q.names}
  IN {Arc(f.subject, f.object, f.conf) : f \in used}
     \cup (IF q.mode = "bidirectional" THEN {Arc(f.object, f.subject, f.conf) : f \in used} ELSE {})
     \cup UNION {{Arc(h.members[i], h.members[j], h.conf) :
                    i, j \in DOMAIN h.members} : h \in edges}

\* The entities of a path, and the product of its confidences.
Start(entity) == [ents |-> <<entity>>, conf |-> 1]
Extend(path, arc) == [ents |-> Append(path.ents, arc.to), conf |-> path.conf * arc.conf]

Steps(paths, arcs) ==
  {Extend(pa[1], pa[2]) :
     pa \in {x \in paths \X arcs : /\ Last(x[1].ents) = x[2].from
                                   /\ x[2].to \notin ToSet(x[1].ents)}}

LexLess(s, t) ==
  \E i \in DOMAIN s : s[i] < t[i] /\ \A j \in 1..(i - 1) : s[j] = t[j]

\* Mutant: the first path found is kept.
BestOfFirst(paths) == CHOOSE p \in paths : \A r \in paths : r = p \/ ~LexLess(r.ents, p.ents)

BestOf(paths) ==
  CHOOSE p \in paths : \A r \in paths :
    r = p \/ r.conf < p.conf \/ (r.conf = p.conf /\ ~LexLess(r.ents, p.ents))

NoPath == [ents |-> <<>>, conf |-> 0]

GraphPath(d, q) ==
  LET arcs == Arcs(d, q)
      \* one hop further, until some path has reached the target
      Hop(search) ==
        IF search.hits # {} THEN search
        ELSE LET next == Steps(search.front, arcs)
                 hits == {p \in next : Last(p.ents) = q.target}
             IN [hits |-> hits, front |-> next \ hits]
      hits == Repeat(Hop, q.hops, [hits |-> {}, front |-> {Start(q.source)}]).hits
  IN CASE q.source = q.target -> Start(q.source)
       [] q.source # q.target /\ hits # {} -> BestOf(hits)
       [] OTHER -> NoPath

-----------------------------------------------------------------------------
(* detect_communities. *)

ProvenanceWeight ==
  [prov \in Provenances |->
     CASE prov = "USER_ASSERTED" -> 100 [] prov = "EXTRACTED" -> 95
       [] prov = "INFERRED" -> 65 [] prov = "AMBIGUOUS" -> 35]

Strong == 5000  \* 0.5, as percent of a percentage

Strength(row) == row.conf * ProvenanceWeight[row.prov]

\* What claims and hyperedges say of two entities together, each with its weight.
Said(d, view) ==
  LET Of(id, a, b, row) == [pair |-> {a, b}, by |-> id, weight |-> Strength(row)]
      facts == {LET f == d.claims[c].fact IN Of(<<c, 0, 0>>, f.subject, f.object, f) :
                  c \in Seen(d, view)}
      joint == UNION {LET h == d.hyperedges[n] IN
                        {Of(<<n, ij[1], ij[2]>>, h.members[ij[1]], h.members[ij[2]], h) :
                           ij \in {x \in (DOMAIN h.members) \X (DOMAIN h.members) : x[1] < x[2]}} :
                      n \in SeenHyperedges(d, view)}
  IN {s \in facts \cup joint : Cardinality(s.pair) = 2}

Total(said) == MapThenSumSet(LAMBDA s : s.weight, said)

\* Mutant: what is said of a pair is averaged.
WeightAverage(said, pair) ==
  LET of == {s \in said : s.pair = pair} IN Total(of) \div Cardinality(of)

Weight(said, pair) == Min({10000, Total({s \in said : s.pair = pair})})

Nodes(d, view) ==
  Endpoints(d, Seen(d, view))
  \cup UNION {ToSet(d.hyperedges[i].members) : i \in SeenHyperedges(d, view)}

Communities(d, view) ==
  LET said == Said(d, view)
      nodes == Nodes(d, view)
      weight == [pair \in {s.pair : s \in said} |-> Weight(said, pair)]
      strong == {pair \in DOMAIN weight : weight[pair] >= Strong}
      Reach(members) == members \cup UNION {pair \in strong : pair \cap members # {}}
      Inner(members) == {pair \in DOMAIN weight : pair \subseteq members}
      Crossing(members) == {pair \in DOMAIN weight : pair \cap members # {} /\ pair \ members # {}}
  IN {[members |-> ms,
       bridges |-> ms \cap UNION Crossing(ms),
       score |-> MapThenSumSet(LAMBDA pair : weight[pair], Inner(ms)),   \* a sum, and
       edges |-> Cardinality(Inner(ms))] :                               \* what divides it
      ms \in {Repeat(Reach, Cardinality(nodes), {a}) : a \in nodes}}
=============================================================================
