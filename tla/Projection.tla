----------------------------- MODULE Projection -----------------------------
(***************************************************************************)
(* The SQLite projection of aver-core and the one function that writes it, *)
(* apply::apply (apply.rs): live writes and replay both feed it log        *)
(* records.  A database is a value; Accepts says whether the statements of *)
(* a record succeed on it, the schema's foreign keys and triggers          *)
(* included, and Effect is the database they leave.                        *)
(*                                                                         *)
(* Data that no property tells apart is left out: session, agent and scope *)
(* columns, reasons of contradictions, vector and observation records.     *)
(* Confidences are integers in twentieths: 9 is 0.45, 15 is 0.75.          *)
(***************************************************************************)
EXTENDS Integers, Sequences, FiniteSets, SequencesExt

CONSTANTS
  Ids,           \* writer-minted row ids (ids.rs)
  Entities,      \* names of subjects and objects
  Predicates,
  Triples,       \* the facts the clients assert
  SingleValued,  \* predicates of cardinality 'single' (migration 0010)
  Sources,       \* source strings supplied by clients
  Reasons        \* retirement and rejection reasons

ASSUME IdsAssumption == Ids \subseteq Nat \ {0}

ASSUME TriplesAssumption ==
  /\ Triples \subseteq [subject : Entities, predicate : Predicates, object : Entities]
  /\ SingleValued \subseteq Predicates

NoId == 0

-----------------------------------------------------------------------------
(* Rows. *)

ClaimStatus == {"ACTIVE", "SUPERSEDED", "INVALIDATED"}
Provenances == {"USER_ASSERTED", "INFERRED", "EXTRACTED"}
Confidences == 0..20

\* One element of a claim's source_refs: a client's source string, the event
\* a promoted candidate came from, or the retired:<reason> marker.
Refs == ({"source"} \X Sources) \cup ({"event"} \X Ids) \cup ({"retired"} \X Reasons)

RetiredMarker(reason) == <<"retired", reason>>
EventRef(event) == <<"event", event>>

NoRow == [status |-> "ABSENT"]

ClaimRows ==
  [status : ClaimStatus, triple : Triples, prov : Provenances,
   conf : Confidences, refs : SUBSET Refs, ts : Nat]

CandidateRows ==
  [status : {"PENDING", "PROMOTED", "REJECTED"}, event : Ids, triple : Triples,
   claim : Ids \cup {NoId}, reasons : SUBSET Reasons]

ContradictionRows == [status : {"RECORDED"}, claim : Ids, new : Ids \cup {NoId}]

Databases ==
  [claims : [Ids -> ClaimRows \cup {NoRow}],
   cands  : [Ids -> CandidateRows \cup {NoRow}],
   contras : [Ids -> ContradictionRows \cup {NoRow}],
   events : SUBSET Ids,
   ents   : [Entities -> Nat]]         \* created_at, 0 when there is no row

EmptyDb ==
  [claims |-> [id \in Ids |-> NoRow], cands |-> [id \in Ids |-> NoRow],
   contras |-> [id \in Ids |-> NoRow], events |-> {},
   ents |-> [e \in Entities |-> 0]]

-----------------------------------------------------------------------------
(* Log records and the series each kind is appended to. *)

ClaimLogRecords ==
  [kind : {"add_claim"}, ts : Nat, claim : Ids, triple : Triples,
   source : Refs, prov : Provenances, conf : Confidences]
  \cup [kind : {"retire_claim"}, ts : Nat, claim : Ids, reason : Reasons]
  \cup [kind : {"add_contradiction"}, id : Ids, claim : Ids, new : Ids \cup {NoId}]
  \cup [kind : {"supersede_claims"}, claims : SUBSET Ids]
  \cup [kind : {"decay_confidence"}, conf : UNION {[S -> Confidences] : S \in SUBSET Ids}]
  \cup [kind : {"merge_source_refs"}, claim : Ids, refs : SUBSET Refs, promote : BOOLEAN]

EventLogRecords ==
  [kind : {"record_event"}, id : Ids]
  \cup [kind : {"propose_candidate_claim"}, id : Ids, event : Ids, triple : Triples]
  \cup [kind : {"promote_candidate_claim"}, cand : Ids, claim : Ids]
  \cup [kind : {"reject_candidate_claim"}, cand : Ids, reason : Reasons]

Records == ClaimLogRecords \cup EventLogRecords

Series == {"log", "events"}

\* Mutant: promotions join the claims they create.
SeriesOfPromotionInLog(r) ==
  IF r.kind \in {"record_event", "propose_candidate_claim", "reject_candidate_claim"}
  THEN "events" ELSE "log"

\* Candidate and event records go to events.jsonl, which replays after log.jsonl.
SeriesOf(r) ==
  IF r.kind \in {"record_event", "propose_candidate_claim",
                 "promote_candidate_claim", "reject_candidate_claim"}
  THEN "events" ELSE "log"

\* The newest id a record carries, 0 for records that only reference ids.
NewestMintedId(r) ==
  CASE r.kind = "add_claim" -> r.claim
    [] r.kind \in {"record_event", "propose_candidate_claim", "add_contradiction"} -> r.id
    [] r.kind = "promote_candidate_claim" -> IF r.cand > r.claim THEN r.cand ELSE r.claim
    [] OTHER -> NoId

-----------------------------------------------------------------------------
(* apply, one pair of operators per record kind with a non-trivial outcome. *)

EntitiesOf(t) == {t.subject, t.object}

\* ensure_entity_on inserts a missing entity at ts and otherwise sets
\* last_seen_at = ts, which the schema refuses before the entity's created_at.
EntitiesAccept(d, t, ts) == \A e \in EntitiesOf(t) : d.ents[e] # 0 => d.ents[e] <= ts

AddClaimAccepted(d, r) ==
  IF d.claims[r.claim] # NoRow
  THEN d.claims[r.claim].triple = r.triple
  ELSE EntitiesAccept(d, r.triple, r.ts)

AddClaimEffect(d, r) ==
  IF d.claims[r.claim] # NoRow
  THEN d
  ELSE [d EXCEPT
         !.claims[r.claim] = [status |-> "ACTIVE", triple |-> r.triple, prov |-> r.prov,
                              conf |-> r.conf, refs |-> {r.source}, ts |-> r.ts],
         !.ents = [e \in Entities |->
                     IF e \in EntitiesOf(r.triple) /\ d.ents[e] = 0 THEN r.ts ELSE d.ents[e]]]

\* An INVALIDATED claim takes the same retirement again as a duplicate and
\* refuses another.  Otherwise the marker is pushed, which the schema refuses
\* when source_refs already holds it, and last_seen_at = ts must not precede
\* the claim's created_at.
RetireAccepted(d, r) ==
  /\ d.claims[r.claim] # NoRow
  /\ IF d.claims[r.claim].status = "INVALIDATED"
     THEN RetiredMarker(r.reason) \in d.claims[r.claim].refs
     ELSE /\ RetiredMarker(r.reason) \notin d.claims[r.claim].refs
          /\ r.ts >= d.claims[r.claim].ts

RetireEffect(d, r) ==
  [d EXCEPT !.claims[r.claim].status = "INVALIDATED",
            !.claims[r.claim].refs = d.claims[r.claim].refs \cup {RetiredMarker(r.reason)}]

ContradictionRow(r) == [status |-> "RECORDED", claim |-> r.claim, new |-> r.new]

\* Foreign keys on both claims; contradictions_new_claim_distinct.
ContradictionAccepted(d, r) ==
  IF d.contras[r.id] # NoRow
  THEN d.contras[r.id] = ContradictionRow(r)
  ELSE /\ d.claims[r.claim] # NoRow
       /\ r.new # NoId => d.claims[r.new] # NoRow /\ r.new # r.claim

SupersedeEffect(d, r) ==
  [d EXCEPT !.claims = [id \in Ids |->
     IF id \in r.claims THEN [d.claims[id] EXCEPT !.status = "SUPERSEDED"] ELSE d.claims[id]]]

DecayEffect(d, r) ==
  [d EXCEPT !.claims = [id \in Ids |->
     IF id \in DOMAIN r.conf THEN [d.claims[id] EXCEPT !.conf = r.conf[id]] ELSE d.claims[id]]]

MergeEffect(d, r) ==
  [d EXCEPT !.claims[r.claim] =
     [d.claims[r.claim] EXCEPT
        !.refs = r.refs,
        !.prov = IF r.promote THEN "EXTRACTED" ELSE d.claims[r.claim].prov,
        !.conf = IF r.promote /\ d.claims[r.claim].conf < 15
                 THEN 15 ELSE d.claims[r.claim].conf]]

ProposeAccepted(d, r) ==
  IF d.cands[r.id] # NoRow
  THEN d.cands[r.id].event = r.event /\ d.cands[r.id].triple = r.triple
  ELSE r.event \in d.events

ProposeEffect(d, r) ==
  IF d.cands[r.id] # NoRow
  THEN d
  ELSE [d EXCEPT !.cands[r.id] = [status |-> "PENDING", event |-> r.event,
                                  triple |-> r.triple, claim |-> NoId, reasons |-> {}]]

\* Mutant: any candidate can be promoted again.
PromoteAcceptedAlways(d, r) == d.cands[r.cand] # NoRow /\ d.claims[r.claim] # NoRow

PromoteAccepted(d, r) ==
  \/ d.cands[r.cand].status = "PROMOTED" /\ d.cands[r.cand].claim = r.claim
  \/ d.cands[r.cand].status = "PENDING" /\ d.claims[r.claim] # NoRow

\* Mutant: the two ids are swapped.
PromoteEffectSwapped(d, r) ==
  [d EXCEPT !.cands[r.cand].status = "PROMOTED", !.cands[r.cand].claim = r.cand]

PromoteEffect(d, r) ==
  [d EXCEPT !.cands[r.cand].status = "PROMOTED", !.cands[r.cand].claim = r.claim]

\* Mutant: the status is not compared.
RejectAcceptedAlways(d, r) == d.cands[r.cand] # NoRow

RejectAccepted(d, r) ==
  \/ d.cands[r.cand].status = "REJECTED" /\ d.cands[r.cand].reasons = {r.reason}
  \/ d.cands[r.cand].status = "PENDING"

\* Mutant: a status the schema does not know.
RejectEffectMisspelt(d, r) ==
  [d EXCEPT !.cands[r.cand].status = "REJECT", !.cands[r.cand].reasons = {r.reason}]

RejectEffect(d, r) ==
  [d EXCEPT !.cands[r.cand].status = "REJECTED", !.cands[r.cand].reasons = {r.reason}]

Accepts(d, r) ==
  CASE r.kind = "add_claim" -> AddClaimAccepted(d, r)
    [] r.kind = "retire_claim" -> RetireAccepted(d, r)
    [] r.kind = "add_contradiction" -> ContradictionAccepted(d, r)
    [] r.kind = "supersede_claims" -> \A id \in r.claims : d.claims[id] # NoRow
    [] r.kind = "decay_confidence" -> \A id \in DOMAIN r.conf : d.claims[id] # NoRow
    [] r.kind = "merge_source_refs" -> d.claims[r.claim] # NoRow
    [] r.kind = "record_event" -> TRUE
    [] r.kind = "propose_candidate_claim" -> ProposeAccepted(d, r)
    [] r.kind = "promote_candidate_claim" -> PromoteAccepted(d, r)
    [] r.kind = "reject_candidate_claim" -> RejectAccepted(d, r)

Effect(d, r) ==
  CASE r.kind = "add_claim" -> AddClaimEffect(d, r)
    [] r.kind = "retire_claim" -> RetireEffect(d, r)
    [] r.kind = "add_contradiction" -> [d EXCEPT !.contras[r.id] = ContradictionRow(r)]
    [] r.kind = "supersede_claims" -> SupersedeEffect(d, r)
    [] r.kind = "decay_confidence" -> DecayEffect(d, r)
    [] r.kind = "merge_source_refs" -> MergeEffect(d, r)
    [] r.kind = "record_event" -> [d EXCEPT !.events = d.events \cup {r.id}]
    [] r.kind = "propose_candidate_claim" -> ProposeEffect(d, r)
    [] r.kind = "promote_candidate_claim" -> PromoteEffect(d, r)
    [] r.kind = "reject_candidate_claim" -> RejectEffect(d, r)

-----------------------------------------------------------------------------
(* Replaying a sequence of records into a fresh database: the accepted ones *)
(* take effect, the others are collected (lenient mode quarantines them,    *)
(* strict mode fails on the first).                                         *)

ReplayLine(acc, r) ==
  IF Accepts(acc.db, r)
  THEN [acc EXCEPT !.db = Effect(acc.db, r)]
  ELSE [acc EXCEPT !.refused = acc.refused \cup {r}]

Replay(lines) == FoldLeft(ReplayLine, [db |-> EmptyDb, refused |-> {}], lines)
=============================================================================
