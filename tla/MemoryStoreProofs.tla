------------------------- MODULE MemoryStoreProofs -------------------------
(***************************************************************************)
(* Proofs about the write path, for every set of processes, ids, facts,    *)
(* reasons, operations and faults: its type invariant; that no projection  *)
(* runs ahead of the log; that a promotion pairs a candidate with one      *)
(* claim of its own and consolidation leaves one answer; and that every    *)
(* step of the detailed model but the swap of a rebuild is a step of the   *)
(* abstract lifecycle.  The last part shows that the log is the memory:    *)
(* replaying the lines whose transactions committed, log.jsonl first and   *)
(* events.jsonl after it, gives the committed projection.                  *)
(***************************************************************************)
EXTENDS MemoryStore, SequenceTheorems, TLAPS

-----------------------------------------------------------------------------
(* The projection stays a projection. *)

LEMMA EmptyDbType == EmptyDb \in Databases
BY DEF EmptyDb, Databases

LEMMA NoRowFacts ==
  /\ NoRow \notin ClaimRows
  /\ NoRow \notin CandidateRows
  /\ NoRow.status = "ABSENT"
BY DEF NoRow, ClaimRows, CandidateRows, ClaimStatus

\* A row that is not NoRow, or whose status is one of a row's, is a row.
LEMMA RowFacts ==
  ASSUME NEW d \in Databases, NEW id \in Ids
  PROVE  /\ d.claims[id] # NoRow => d.claims[id] \in ClaimRows
         /\ d.claims[id].status \in ClaimStatus => d.claims[id] \in ClaimRows
         /\ d.cands[id] # NoRow => d.cands[id] \in CandidateRows
         /\ d.cands[id].status \in {"PENDING", "PROMOTED", "REJECTED"}
              => d.cands[id] \in CandidateRows
BY NoRowFacts DEF Databases, ClaimStatus

LEMMA UpdateTypes ==
  ASSUME NEW d \in Databases
  PROVE  /\ \A f \in [Ids -> ClaimRows \cup {NoRow}] : [d EXCEPT !.claims = f] \in Databases
         /\ \A f \in [Ids -> CandidateRows \cup {NoRow}] : [d EXCEPT !.cands = f] \in Databases
         /\ \A f \in [Ids -> ContradictionRows \cup {NoRow}] :
              [d EXCEPT !.contras = f] \in Databases
         /\ \A S \in SUBSET Ids : [d EXCEPT !.events = S] \in Databases
BY DEF Databases

LEMMA AddClaimType ==
  ASSUME NEW d \in Databases, NEW r \in Records, r.kind = "add_claim"
  PROVE  AddClaimEffect(d, r) \in Databases
<1>1. /\ r.claim \in Ids /\ r.triple \in Triples /\ r.source \in Refs
      /\ r.prov \in Provenances /\ r.conf \in Confidences /\ r.ts \in Nat
  BY DEF Records, ClaimLogRecords, EventLogRecords
<1>2. CASE d.claims[r.claim] # NoRow
  BY <1>2 DEF AddClaimEffect
<1>3. CASE d.claims[r.claim] = NoRow
  <2> DEFINE row == [status |-> "ACTIVE", triple |-> r.triple, prov |-> r.prov,
                     conf |-> r.conf, refs |-> {r.source}, ts |-> r.ts]
             seen == [e \in Entities |->
                        IF e \in EntitiesOf(r.triple) /\ d.ents[e] = 0 THEN r.ts ELSE d.ents[e]]
  <2>1. row \in ClaimRows
    BY <1>1 DEF ClaimRows, ClaimStatus
  <2>2. seen \in [Entities -> Nat]
    BY <1>1 DEF Databases
  <2>3. AddClaimEffect(d, r) = [d EXCEPT !.claims = [d.claims EXCEPT ![r.claim] = row],
                                         !.ents = seen]
    BY <1>3 DEF AddClaimEffect, Databases
  <2>4. [d.claims EXCEPT ![r.claim] = row] \in [Ids -> ClaimRows \cup {NoRow}]
    BY <1>1, <2>1 DEF Databases
  <2> DEFINE f == [d.claims EXCEPT ![r.claim] = row]
  <2>5. AddClaimEffect(d, r) = [d EXCEPT !.claims = f, !.ents = seen]
    BY <2>3
  <2>6. f \in [Ids -> ClaimRows \cup {NoRow}]
    BY <2>4
  <2> HIDE DEF row, seen, f
  <2>7. [d EXCEPT !.claims = f, !.ents = seen] \in Databases
    BY <2>2, <2>6 DEF Databases
  <2> QED BY <2>5, <2>7
<1> QED BY <1>2, <1>3

\* A claim's new row, whichever record writes it.
LEMMA ClaimRowType ==
  ASSUME NEW d \in Databases, NEW id \in Ids, NEW row \in ClaimRows
  PROVE  [d EXCEPT !.claims[id] = row] \in Databases
<1>1. [d.claims EXCEPT ![id] = row] \in [Ids -> ClaimRows \cup {NoRow}]
  BY DEF Databases
<1> QED BY <1>1, UpdateTypes

LEMMA CandidateRowType ==
  ASSUME NEW d \in Databases, NEW id \in Ids, NEW row \in CandidateRows
  PROVE  [d EXCEPT !.cands[id] = row] \in Databases
<1>1. [d.cands EXCEPT ![id] = row] \in [Ids -> CandidateRows \cup {NoRow}]
  BY DEF Databases
<1> QED BY <1>1, UpdateTypes

LEMMA RetireType ==
  ASSUME NEW d \in Databases, NEW r \in Records, r.kind = "retire_claim",
         RetireAccepted(d, r)
  PROVE  RetireEffect(d, r) \in Databases
<1>1. r.claim \in Ids /\ RetiredMarker(r.reason) \in Refs
  BY DEF Records, ClaimLogRecords, EventLogRecords, RetiredMarker, Refs
<1>2. d.claims[r.claim] \in ClaimRows
  BY <1>1, RowFacts DEF RetireAccepted
<1> DEFINE row == [d.claims[r.claim] EXCEPT
                     !.status = "INVALIDATED",
                     !.refs = d.claims[r.claim].refs \cup {RetiredMarker(r.reason)}]
<1>3. row \in ClaimRows
  BY <1>1, <1>2 DEF ClaimRows, ClaimStatus
<1>4. RetireEffect(d, r) = [d EXCEPT !.claims[r.claim] = row]
  BY <1>1 DEF RetireEffect, Databases
<1> HIDE DEF row
<1> QED BY <1>1, <1>3, <1>4, ClaimRowType

LEMMA SupersedeType ==
  ASSUME NEW d \in Databases, NEW r \in Records, r.kind = "supersede_claims",
         \A id \in r.claims : d.claims[id] # NoRow
  PROVE  SupersedeEffect(d, r) \in Databases
<1>1. r.claims \subseteq Ids
  BY DEF Records, ClaimLogRecords, EventLogRecords
<1> DEFINE f == [id \in Ids |-> IF id \in r.claims
                                THEN [d.claims[id] EXCEPT !.status = "SUPERSEDED"]
                                ELSE d.claims[id]]
<1>2. ASSUME NEW id \in Ids PROVE f[id] \in ClaimRows \cup {NoRow}
  <2>1. CASE id \in r.claims
    BY <2>1, RowFacts DEF ClaimRows, ClaimStatus
  <2>2. CASE id \notin r.claims
    BY <2>2 DEF Databases
  <2> QED BY <2>1, <2>2
<1>3. f \in [Ids -> ClaimRows \cup {NoRow}]
  BY <1>2
<1>4. SupersedeEffect(d, r) = [d EXCEPT !.claims = f]
  BY DEF SupersedeEffect
<1> HIDE DEF f
<1> QED BY <1>3, <1>4, UpdateTypes

LEMMA DecayType ==
  ASSUME NEW d \in Databases, NEW r \in Records, r.kind = "decay_confidence",
         \A id \in DOMAIN r.conf : d.claims[id] # NoRow
  PROVE  DecayEffect(d, r) \in Databases
<1>1. PICK S \in SUBSET Ids : r.conf \in [S -> Confidences]
  BY DEF Records, ClaimLogRecords, EventLogRecords
<1> DEFINE f == [id \in Ids |-> IF id \in DOMAIN r.conf
                                THEN [d.claims[id] EXCEPT !.conf = r.conf[id]]
                                ELSE d.claims[id]]
<1>2. ASSUME NEW id \in Ids PROVE f[id] \in ClaimRows \cup {NoRow}
  <2>1. CASE id \in DOMAIN r.conf
    <3>1. d.claims[id] \in ClaimRows /\ r.conf[id] \in Confidences
      BY <1>1, <2>1, RowFacts
    <3> QED BY <2>1, <3>1 DEF ClaimRows
  <2>2. CASE id \notin DOMAIN r.conf
    BY <2>2 DEF Databases
  <2> QED BY <2>1, <2>2
<1>3. f \in [Ids -> ClaimRows \cup {NoRow}]
  BY <1>2
<1>4. DecayEffect(d, r) = [d EXCEPT !.claims = f]
  BY DEF DecayEffect
<1> HIDE DEF f
<1> QED BY <1>3, <1>4, UpdateTypes

LEMMA MergeType ==
  ASSUME NEW d \in Databases, NEW r \in Records, r.kind = "merge_source_refs",
         d.claims[r.claim] # NoRow
  PROVE  MergeEffect(d, r) \in Databases
<1>1. r.claim \in Ids /\ r.refs \in SUBSET Refs
  BY DEF Records, ClaimLogRecords, EventLogRecords
<1>2. d.claims[r.claim] \in ClaimRows
  BY <1>1, RowFacts
<1> DEFINE prov == IF r.promote THEN "EXTRACTED" ELSE d.claims[r.claim].prov
           conf == IF r.promote /\ d.claims[r.claim].conf < 15
                   THEN 15 ELSE d.claims[r.claim].conf
           row == [d.claims[r.claim] EXCEPT !.refs = r.refs, !.prov = prov, !.conf = conf]
<1>a. prov \in Provenances
  BY <1>2 DEF ClaimRows, Provenances
<1>b. conf \in Confidences
  BY <1>2 DEF ClaimRows, Confidences
<1>4. MergeEffect(d, r) = [d EXCEPT !.claims[r.claim] = row]
  BY DEF MergeEffect
<1> HIDE DEF prov, conf
<1>3. row \in ClaimRows
  BY <1>1, <1>2, <1>a, <1>b DEF ClaimRows
<1> HIDE DEF row
<1> QED BY <1>1, <1>3, <1>4, ClaimRowType

LEMMA ProposeType ==
  ASSUME NEW d \in Databases, NEW r \in Records, r.kind = "propose_candidate_claim"
  PROVE  ProposeEffect(d, r) \in Databases
<1>1. r.id \in Ids /\ r.event \in Ids /\ r.triple \in Triples
  BY DEF Records, ClaimLogRecords, EventLogRecords
<1>2. [status |-> "PENDING", event |-> r.event, triple |-> r.triple,
       claim |-> NoId, reasons |-> {}] \in CandidateRows
  BY <1>1 DEF CandidateRows
<1> QED BY <1>1, <1>2, CandidateRowType DEF ProposeEffect

LEMMA PromoteType ==
  ASSUME NEW d \in Databases, NEW r \in Records, r.kind = "promote_candidate_claim",
         PromoteAccepted(d, r)
  PROVE  PromoteEffect(d, r) \in Databases
<1>1. r.cand \in Ids /\ r.claim \in Ids
  BY DEF Records, ClaimLogRecords, EventLogRecords
<1>2. d.cands[r.cand] \in CandidateRows
  BY <1>1, RowFacts DEF PromoteAccepted
<1> DEFINE row == [d.cands[r.cand] EXCEPT !.status = "PROMOTED", !.claim = r.claim]
<1>3. row \in CandidateRows
  BY <1>1, <1>2 DEF CandidateRows
<1>4. PromoteEffect(d, r) = [d EXCEPT !.cands[r.cand] = row]
  BY <1>1 DEF PromoteEffect, Databases
<1> HIDE DEF row
<1> QED BY <1>1, <1>3, <1>4, CandidateRowType

LEMMA RejectType ==
  ASSUME NEW d \in Databases, NEW r \in Records, r.kind = "reject_candidate_claim",
         RejectAccepted(d, r)
  PROVE  RejectEffect(d, r) \in Databases
<1>1. r.cand \in Ids /\ {r.reason} \in SUBSET Reasons
  BY DEF Records, ClaimLogRecords, EventLogRecords
<1>2. d.cands[r.cand] \in CandidateRows
  BY <1>1, RowFacts DEF RejectAccepted
<1> DEFINE row == [d.cands[r.cand] EXCEPT !.status = "REJECTED", !.reasons = {r.reason}]
<1>3. row \in CandidateRows
  BY <1>1, <1>2 DEF CandidateRows
<1>4. RejectEffect(d, r) = [d EXCEPT !.cands[r.cand] = row]
  BY <1>1 DEF RejectEffect, Databases
<1> HIDE DEF row
<1> QED BY <1>1, <1>3, <1>4, CandidateRowType

Kinds == {"add_claim", "retire_claim", "add_contradiction", "supersede_claims",
          "decay_confidence", "merge_source_refs", "record_event",
          "propose_candidate_claim", "promote_candidate_claim", "reject_candidate_claim"}

LEMMA RecordKinds ==
  ASSUME NEW r \in Records PROVE r.kind \in Kinds
BY DEF Records, ClaimLogRecords, EventLogRecords, Kinds

\* apply turns a database into a database, for every record it accepts.
LEMMA EffectType ==
  ASSUME NEW d \in Databases, NEW r \in Records, Accepts(d, r)
  PROVE  Effect(d, r) \in Databases
<1>1. CASE r.kind = "add_claim"
  BY <1>1, AddClaimType DEF Effect
<1>2. CASE r.kind = "retire_claim"
  BY <1>2, RetireType DEF Effect, Accepts
<1>3. CASE r.kind = "add_contradiction"
  <2>1. r.id \in Ids /\ ContradictionRow(r) \in ContradictionRows
    BY <1>3 DEF Records, ClaimLogRecords, EventLogRecords, ContradictionRow, ContradictionRows
  <2>2. [d.contras EXCEPT ![r.id] = ContradictionRow(r)] \in [Ids -> ContradictionRows \cup {NoRow}]
    BY <2>1 DEF Databases
  <2> QED BY <1>3, <2>2, UpdateTypes DEF Effect
<1>4. CASE r.kind = "supersede_claims"
  BY <1>4, SupersedeType DEF Effect, Accepts
<1>5. CASE r.kind = "decay_confidence"
  BY <1>5, DecayType DEF Effect, Accepts
<1>6. CASE r.kind = "merge_source_refs"
  BY <1>6, MergeType DEF Effect, Accepts
<1>7. CASE r.kind = "record_event"
  <2>1. r.id \in Ids
    BY <1>7 DEF Records, ClaimLogRecords, EventLogRecords
  <2>2. d.events \cup {r.id} \in SUBSET Ids
    BY <2>1 DEF Databases
  <2> QED BY <1>7, <2>2, UpdateTypes DEF Effect
<1>8. CASE r.kind = "propose_candidate_claim"
  BY <1>8, ProposeType DEF Effect
<1>9. CASE r.kind = "promote_candidate_claim"
  BY <1>9, PromoteType DEF Effect, Accepts
<1>10. CASE r.kind = "reject_candidate_claim"
  BY <1>10, RejectType DEF Effect, Accepts
<1> QED
  BY <1>1, <1>2, <1>3, <1>4, <1>5, <1>6, <1>7, <1>8, <1>9, <1>10, RecordKinds DEF Kinds

-----------------------------------------------------------------------------
(* The type invariant. *)

Transactions == [todo : Seq(Steps), work : Databases, mark : [Series -> Nat]]

LEMMA RestingTypes == NoTx \in Transactions /\ NoRebuild \in Rebuilds
BY EmptyDbType DEF NoTx, NoRebuild, Transactions, Rebuilds

LEMMA WriteType ==
  ASSUME NEW r \in Records
  PROVE  /\ Write(r) \in Seq(Steps)
         /\ ToLog(r) \in Steps
         /\ ToDb(r) \in Steps
BY DEF Write, ToLog, ToDb, Steps

LEMMA LinesType ==
  ASSUME TypeOK
  PROVE  /\ Lines \in Nat
         /\ \A s \in Series : Len(logs[s]) \in Nat
         /\ AllLines \subseteq Series \X Nat
BY DEF TypeOK, Lines, AllLines, Series

LEMMA PositionFacts ==
  ASSUME NEW n, NEW a, a = Len(logs["log"])
  PROVE  /\ n <= a => Position(n) = <<"log", n>>
         /\ ~(n <= a) => Position(n) = <<"events", n - a>>
BY Zenon DEF Position

LEMMA LineAtType ==
  ASSUME TypeOK, NEW n \in Nat, n < Lines
  PROVE  /\ Position(n + 1) \in Series \X Nat
         /\ LineAt(n + 1) \in Records
         /\ LineAt(n + 1) \in Logged
<1>1. logs["log"] \in Seq(Records) /\ logs["events"] \in Seq(Records)
  BY DEF TypeOK, Series
<1>2. CASE n + 1 <= Len(logs["log"])
  <2>1. Position(n + 1) = <<"log", n + 1>> /\ LineAt(n + 1) = logs["log"][n + 1]
    BY <1>2 DEF Position, LineAt
  <2>2. n + 1 \in DOMAIN logs["log"]
    BY <1>1, <1>2
  <2> QED BY <1>1, <2>1, <2>2 DEF Series, Logged
<1>3. CASE ~(n + 1 <= Len(logs["log"]))
  <2> DEFINE a == Len(logs["log"])
             b == Len(logs["events"])
             k == n + 1 - a
  <2>1. a \in Nat /\ b \in Nat
    BY <1>1
  <2>2. Position(n + 1) = <<"events", k>>
    <3>1. ~(n + 1 <= a) /\ a = Len(logs["log"])
      BY <1>3 DEF a
    <3> HIDE DEF a
    <3> DEFINE m == n + 1
    <3>2. ~(m <= a) /\ k = m - a
      BY <3>1
    <3> HIDE DEF m, k
    <3>3. Position(m) = <<"events", k>>
      BY <3>1, <3>2, PositionFacts, Zenon
    <3> QED BY <3>3 DEF m
  <2>3. LineAt(n + 1) = logs["events"][k]
    <3> HIDE DEF k
    <3>1. Position(n + 1)[1] = "events" /\ Position(n + 1)[2] = k
      BY <2>2
    <3> QED BY <3>1, Zenon DEF LineAt
  <2>4. n < a + b
    BY DEF Lines
  <2>5. DOMAIN logs["events"] = 1..b
    BY <1>1
  <2>6. ~(n + 1 <= a)
    BY <1>3
  <2>7. k \in 1..b
    <3> HIDE DEF a, b
    <3> QED BY <2>1, <2>4, <2>6
  <2>8. k \in Nat /\ k \in DOMAIN logs["events"]
    <3> HIDE DEF k, b
    <3> QED BY <2>1, <2>5, <2>7
  <2>9. logs["events"][k] \in Records /\ logs["events"][k] \in Logged
    <3> HIDE DEF k
    <3> QED BY <1>1, <2>8 DEF Series, Logged
  <2>10. Position(n + 1) \in Series \X Nat
    <3> HIDE DEF k
    <3> QED BY <2>2, <2>8 DEF Series
  <2> QED BY <2>3, <2>9, <2>10
<1> QED BY <1>2, <1>3

LEMMA MintedIdType ==
  ASSUME NEW r \in Records PROVE NewestMintedId(r) \in Nat
<1>1. r.kind = "add_claim" => r.claim \in Ids
  BY DEF Records, ClaimLogRecords, EventLogRecords
<1>2. r.kind \in {"record_event", "propose_candidate_claim", "add_contradiction"} => r.id \in Ids
  BY DEF Records, ClaimLogRecords, EventLogRecords
<1>3. r.kind = "promote_candidate_claim" => r.cand \in Ids /\ r.claim \in Ids
  BY DEF Records, ClaimLogRecords, EventLogRecords
<1> QED BY <1>1, <1>2, <1>3, IdsAssumption DEF NewestMintedId, NoId

LEMMA TailIdType ==
  ASSUME TypeOK, NEW s \in Series PROVE TailId(s) \in Nat
<1>1. logs[s] \in Seq(Records)
  BY DEF TypeOK
<1>2. CASE logs[s] # <<>>
  <2>1. Len(logs[s]) \in DOMAIN logs[s]
    BY <1>1, <1>2
  <2>2. Last(logs[s]) \in Records
    BY <1>1, <2>1 DEF Last
  <2> QED BY <1>2, <2>2, MintedIdType DEF TailId
<1> QED BY <1>2 DEF TailId

\* The arguments of a call have the types of its operation.
LEMMA JobTypes ==
  ASSUME NEW j \in Jobs
  PROVE  /\ j.op = "add_claim" => /\ j.triple \in Triples /\ j.source \in Sources
                                  /\ j.ts \in Nat /\ j.contradicts \in Ids \cup {NoId}
         /\ j.op = "contradict" => j.claim \in Ids /\ j.new \in Ids \cup {NoId}
         /\ j.op = "retire" => j.claim \in Ids /\ j.reason \in Reasons /\ j.ts \in Nat
         /\ j.op = "merge" => j.groups \subseteq Triples \X Ids
         /\ j.op = "propose" => j.event \in Ids /\ j.triple \in Triples
         /\ j.op = "promote" => /\ j.cand \in Ids /\ j.event \in Ids
                                /\ j.triple \in Triples /\ j.ts \in Nat
         /\ j.op = "reject" => j.cand \in Ids /\ j.reason \in Reasons
BY DEF Jobs, NoJob

\* The records the operations build are records of the log.
LEMMA BuiltRecords ==
  /\ \A id \in Ids, ts \in Nat, t \in Triples, x \in Sources :
       [kind |-> "add_claim", ts |-> ts, claim |-> id, triple |-> t, source |-> <<"source", x>>,
        prov |-> "USER_ASSERTED", conf |-> 19] \in Records
  /\ \A id, e \in Ids, ts \in Nat, t \in Triples :
       [kind |-> "add_claim", ts |-> ts, claim |-> id, triple |-> t, source |-> EventRef(e),
        prov |-> "INFERRED", conf |-> 9] \in Records
  /\ \A id, claim \in Ids, new \in Ids \cup {NoId} :
       [kind |-> "add_contradiction", id |-> id, claim |-> claim, new |-> new] \in Records
  /\ \A id \in Ids, ts \in Nat, why \in Reasons :
       [kind |-> "retire_claim", ts |-> ts, claim |-> id, reason |-> why] \in Records
  /\ \A S \in SUBSET Ids : [kind |-> "supersede_claims", claims |-> S] \in Records
  /\ \A id \in Ids, refs \in SUBSET Refs, b \in BOOLEAN :
       [kind |-> "merge_source_refs", claim |-> id, refs |-> refs, promote |-> b] \in Records
  /\ \A id \in Ids : [kind |-> "record_event", id |-> id] \in Records
  /\ \A id, e \in Ids, t \in Triples :
       [kind |-> "propose_candidate_claim", id |-> id, event |-> e, triple |-> t] \in Records
  /\ \A c, id \in Ids :
       [kind |-> "promote_candidate_claim", cand |-> c, claim |-> id] \in Records
  /\ \A c \in Ids, why \in Reasons :
       [kind |-> "reject_candidate_claim", cand |-> c, reason |-> why] \in Records
<1>1. \A x \in Sources : <<"source", x>> \in Refs
  BY DEF Refs
<1>2. \A e \in Ids : EventRef(e) \in Refs
  BY DEF Refs, EventRef
<1>3. "USER_ASSERTED" \in Provenances /\ "INFERRED" \in Provenances
      /\ 19 \in Confidences /\ 9 \in Confidences
  BY DEF Provenances, Confidences
<1> QED
  BY <1>1, <1>2, <1>3 DEF Records, ClaimLogRecords, EventLogRecords

LEMMA MergeRecordType ==
  ASSUME NEW d \in Databases, NEW t \in Triples, NEW id \in Ids
  PROVE  MergeRecord(d, t, id) \in Records
<1>1. MergedRefs(d, t) \in SUBSET Refs
  <2>1. \A other \in OfTriple(d, t) : d.claims[other] \in ClaimRows
    BY RowFacts DEF OfTriple, Present
  <2>2. \A other \in OfTriple(d, t) : d.claims[other].refs \subseteq Refs
    BY <2>1 DEF ClaimRows
  <2> QED BY <2>2 DEF MergedRefs
<1> DEFINE b == d.claims[id].prov = "INFERRED" /\ Cardinality(MergedRefs(d, t)) >= 2
<1>2. b \in BOOLEAN
  OBVIOUS
<1>3. MergeRecord(d, t, id) = [kind |-> "merge_source_refs", claim |-> id,
                               refs |-> MergedRefs(d, t), promote |-> b]
  BY DEF MergeRecord
<1> HIDE DEF b
<1> QED BY <1>1, <1>2, <1>3, BuiltRecords

LEMMA DecayRecordType ==
  ASSUME NEW d \in Databases
  PROVE  DecayRecord(d) \in Records
<1> DEFINE S == Decaying(d)
           f == [id \in S |-> IF d.claims[id].conf < 2 THEN 0 ELSE d.claims[id].conf - 2]
<1>1. S \in SUBSET Ids
  BY DEF Decaying, Active
<1>2. \A id \in S : d.claims[id].conf \in Confidences
  <2>1. \A id \in S : d.claims[id].status = "ACTIVE"
    BY DEF Decaying, Active
  <2>2. \A id \in S : d.claims[id] \in ClaimRows
    BY <1>1, <2>1, RowFacts DEF ClaimStatus
  <2> QED BY <2>2 DEF ClaimRows
<1>3. f \in [S -> Confidences]
  BY <1>2 DEF Confidences
<1>4. DecayRecord(d) = [kind |-> "decay_confidence", conf |-> f]
  BY DEF DecayRecord
<1> HIDE DEF S, f
<1> QED BY <1>1, <1>3, <1>4 DEF Records, ClaimLogRecords

LEMMA SupersedeIdsType ==
  ASSUME NEW S \in SUBSET Ids
  PROVE  Supersede(S) \in Seq(Steps)
<1>1. [kind |-> "supersede_claims", claims |-> S] \in Records
  BY BuiltRecords
<1> QED BY <1>1, WriteType DEF Supersede

LEMMA CallType ==
  ASSUME TypeOK, NEW p \in Procs, NEW j \in Jobs, Call(p, j)
  PROVE  TypeOK'
BY DEF TypeOK, Call

LEMMA TakeLockType ==
  ASSUME TypeOK, NEW p \in Procs, NEW op, NEW todo \in Seq(Steps), TakeLock(p, op, todo),
         lastId' \in [Procs -> Nat], job' \in [Procs -> Jobs]
  PROVE  TypeOK'
<1>1. tx' \in Transactions
  BY LinesType DEF TypeOK, TakeLock, Transactions
<1>2. pc' \in [Procs -> {"closed", "idle", "ready", "tx"}]
  BY DEF TypeOK, TakeLock
<1> QED BY <1>1, <1>2 DEF TypeOK, TakeLock, Transactions

LEMMA MintTypes ==
  ASSUME TypeOK, NEW p \in Procs
  PROVE  /\ \A id \in Ids : Minted(p, id) => lastId' \in [Procs -> Nat] /\ job' \in [Procs -> Jobs]
         /\ NoMint => lastId' \in [Procs -> Nat] /\ job' \in [Procs -> Jobs]
BY IdsAssumption DEF TypeOK, Minted, NoMint

LEMMA RollbackType ==
  ASSUME TypeOK, Rollback
  PROVE  writer' = NoProc /\ tx' \in Transactions /\ dead' \subseteq Series \X Nat
BY RestingTypes, LinesType DEF TypeOK, Rollback, Uncommitted

LEMMA CallsType ==
  ASSUME TypeOK, NEW p \in Procs, Calls(p)
  PROVE  \E j \in Jobs : Call(p, j)
<1>1. clock \in Nat /\ db \in Databases
  BY DEF TypeOK
<1>2. CASE CallAddClaim(p)
  BY <1>1, <1>2 DEF CallAddClaim, Jobs
<1>3. CASE CallContradict(p)
  BY <1>1, <1>3 DEF CallContradict, Present, Jobs
<1>4. CASE CallRetire(p)
  BY <1>1, <1>4 DEF CallRetire, Jobs
<1>5. CASE CallConsolidate(p)
  <2>1. DuplicateGroups(db) \in SUBSET (Triples \X Ids)
    BY DEF DuplicateGroups
  <2> QED BY <1>5, <2>1 DEF CallConsolidate, Jobs
<1>6. CASE CallDecay(p)
  BY <1>6 DEF CallDecay, Jobs
<1>7. CASE CallRecordEvent(p)
  BY <1>7 DEF CallRecordEvent, Jobs
<1>8. CASE CallPropose(p)
  <2>1. db.events \subseteq Ids
    BY <1>1 DEF Databases
  <2> QED BY <1>8, <2>1 DEF CallPropose, Jobs
<1>9. CASE CallPromote(p)
  <2>1. PICK c \in Ids : /\ db.cands[c].status = "PENDING"
                         /\ Call(p, [op |-> "promote", cand |-> c, event |-> db.cands[c].event,
                                     triple |-> db.cands[c].triple, ts |-> clock])
    BY <1>9 DEF CallPromote
  <2>2. db.cands[c].event \in Ids /\ db.cands[c].triple \in Triples
    BY <1>1, <2>1, RowFacts DEF CandidateRows
  <2> QED BY <1>1, <2>1, <2>2 DEF Jobs
<1>10. CASE CallReject(p)
  BY <1>10 DEF CallReject, Jobs
<1> QED
  BY <1>2, <1>3, <1>4, <1>5, <1>6, <1>7, <1>8, <1>9, <1>10 DEF Calls

\* Every transaction begins with well-typed steps, and one that adds a claim
\* has minted its id.
LEMMA BeginsType ==
  ASSUME TypeOK, NEW p \in Procs, Begins(p)
  PROVE  \E op, todo : /\ todo \in Seq(Steps) /\ TakeLock(p, op, todo)
                       /\ lastId' \in [Procs -> Nat] /\ job' = job
                       /\ op = "add_claim" => lastId'[p] \in Ids
<1>1. db \in Databases /\ job[p] \in Jobs /\ lastId \in [Procs -> Nat]
  BY DEF TypeOK
<1>2. \A id : Minted(p, id) => id \in Ids /\ lastId' \in [Procs -> Nat] /\ job' = job
                               /\ lastId'[p] = id
  BY <1>1, IdsAssumption DEF Minted, Mintable
<1>3. NoMint => lastId' \in [Procs -> Nat] /\ job' = job
  BY <1>1 DEF NoMint
<1>4. \A op, todo : TakeLock(p, op, todo) => job[p].op = op
  BY DEF TakeLock
<1>5. <<>> \in Seq(Steps)
  OBVIOUS
<1>6. CASE BeginAddClaim(p)
  <2> DEFINE rec(id) == [kind |-> "add_claim", ts |-> job[p].ts, claim |-> id,
                         triple |-> job[p].triple, source |-> <<"source", job[p].source>>,
                         prov |-> "USER_ASSERTED", conf |-> 19]
  <2>1. PICK id \in Ids : TakeLock(p, "add_claim", Write(rec(id))) /\ Minted(p, id)
    BY <1>6 DEF BeginAddClaim
  <2>2. rec(id) \in Records
    BY <1>1, <1>4, <2>1, JobTypes, BuiltRecords
  <2> HIDE DEF rec
  <2>3. Write(rec(id)) \in Seq(Steps)
    BY <2>2, WriteType
  <2> QED BY <1>2, <2>1, <2>3
<1>7. CASE BeginContradict(p)
  <2> DEFINE rec(id) == [kind |-> "add_contradiction", id |-> id, claim |-> job[p].claim,
                         new |-> job[p].new]
  <2>1. PICK id \in Ids : TakeLock(p, "contradict", Write(rec(id))) /\ Minted(p, id)
    BY <1>7 DEF BeginContradict
  <2>2. rec(id) \in Records
    BY <1>1, <1>4, <2>1, JobTypes, BuiltRecords
  <2> HIDE DEF rec
  <2>3. Write(rec(id)) \in Seq(Steps)
    BY <2>2, WriteType
  <2> QED BY <1>2, <2>1, <2>3
<1>8. CASE BeginRetire(p)
  <2> DEFINE rec == [kind |-> "retire_claim", ts |-> job[p].ts, claim |-> job[p].claim,
                     reason |-> job[p].reason]
             todo == IF db.claims[job[p].claim].status \in {"ABSENT", "INVALIDATED"}
                     THEN <<>> ELSE Write(rec)
  <2>1. TakeLock(p, "retire", todo) /\ NoMint
    BY <1>8 DEF BeginRetire
  <2>2. rec \in Records
    BY <1>1, <1>4, <2>1, JobTypes, BuiltRecords
  <2> HIDE DEF rec
  <2>3. todo \in Seq(Steps)
    BY <1>5, <2>2, WriteType
  <2> HIDE DEF todo
  <2> QED BY <1>3, <2>1, <2>3
<1>9. CASE BeginMerge(p)
  <2> DEFINE todo == <<>>
  <2>1. TakeLock(p, "merge", todo) /\ NoMint /\ todo \in Seq(Steps)
    BY <1>9 DEF BeginMerge
  <2> HIDE DEF todo
  <2> QED BY <1>3, <2>1
<1>10. CASE BeginDecay(p)
  <2> DEFINE todo == IF Decaying(db) = {} THEN <<>> ELSE Write(DecayRecord(db))
  <2>1. TakeLock(p, "decay", todo) /\ NoMint
    BY <1>10 DEF BeginDecay
  <2>2. todo \in Seq(Steps)
    BY <1>1, <1>5, DecayRecordType, WriteType
  <2> HIDE DEF todo
  <2> QED BY <1>3, <2>1, <2>2
<1>11. CASE BeginSupersede(p)
  <2>1. DuplicateIds(db) \in SUBSET Ids
    BY DEF DuplicateIds, Active
  <2>2. Supersede(DuplicateIds(db)) \in Seq(Steps)
    BY <2>1, SupersedeIdsType
  <2> QED BY <1>3, <1>11, <2>2 DEF BeginSupersede
<1>12. CASE BeginRecordEvent(p)
  <2>1. PICK id \in Ids : /\ TakeLock(p, "record_event", Write([kind |-> "record_event", id |-> id]))
                          /\ Minted(p, id)
    BY <1>12 DEF BeginRecordEvent
  <2>2. Write([kind |-> "record_event", id |-> id]) \in Seq(Steps)
    BY BuiltRecords, WriteType
  <2> QED BY <1>2, <2>1, <2>2
<1>13. CASE BeginPropose(p)
  <2> DEFINE rec(id) == [kind |-> "propose_candidate_claim", id |-> id, event |-> job[p].event,
                         triple |-> job[p].triple]
  <2>1. PICK id \in Ids : TakeLock(p, "propose", Write(rec(id))) /\ Minted(p, id)
    BY <1>13 DEF BeginPropose
  <2>2. rec(id) \in Records
    BY <1>1, <1>4, <2>1, JobTypes, BuiltRecords
  <2> HIDE DEF rec
  <2>3. Write(rec(id)) \in Seq(Steps)
    BY <2>2, WriteType
  <2> QED BY <1>2, <2>1, <2>3
<1>14. CASE BeginPromote(p)
  <2> DEFINE claim(id) == [kind |-> "add_claim", ts |-> job[p].ts, claim |-> id,
                           triple |-> job[p].triple, source |-> EventRef(job[p].event),
                           prov |-> "INFERRED", conf |-> 9]
             promotion(id) == [kind |-> "promote_candidate_claim", cand |-> job[p].cand,
                               claim |-> id]
             todo(id) == <<ToLog(claim(id)), ToLog(promotion(id)),
                           ToDb(claim(id)), ToDb(promotion(id))>>
  <2>1. PICK id \in Ids : TakeLock(p, "promote", todo(id)) /\ Minted(p, id)
    BY <1>14 DEF BeginPromote
  <2>2. claim(id) \in Records /\ promotion(id) \in Records
    BY <1>1, <1>4, <2>1, JobTypes, BuiltRecords
  <2> HIDE DEF claim, promotion
  <2>3. todo(id) \in Seq(Steps)
    BY <2>2, WriteType
  <2> HIDE DEF todo
  <2> QED BY <1>2, <2>1, <2>3
<1>15. CASE BeginReject(p)
  <2> DEFINE rec == [kind |-> "reject_candidate_claim", cand |-> job[p].cand,
                     reason |-> job[p].reason]
             todo == IF db.cands[job[p].cand].status = "PENDING" THEN Write(rec) ELSE <<>>
  <2>1. TakeLock(p, "reject", todo) /\ NoMint
    BY <1>15 DEF BeginReject
  <2>2. rec \in Records
    BY <1>1, <1>4, <2>1, JobTypes, BuiltRecords
  <2> HIDE DEF rec
  <2>3. todo \in Seq(Steps)
    BY <1>5, <2>2, WriteType
  <2> HIDE DEF todo
  <2> QED BY <1>3, <2>1, <2>3
<1> QED
  BY <1>6, <1>7, <1>8, <1>9, <1>10, <1>11, <1>12, <1>13, <1>14, <1>15 DEF Begins

-----------------------------------------------------------------------------
(* TypeOK is not inductive: when the transaction of an add_claim commits, the *)
(* call may go on to contradict with the id the store minted last, and that   *)
(* is an id only because the transaction began by minting one and no other    *)
(* step of the process can come in between.                                   *)

WriterInside ==
  \A p \in Procs : writer = p => /\ pc[p] = "tx"
                                 /\ job[p].op = "add_claim" => lastId[p] \in Ids

TypeInv == TypeOK /\ WriterInside

LEMMA TypeInit == Init => TypeInv
<1> SUFFICES ASSUME Init PROVE TypeInv
  OBVIOUS
<1>1. TypeOK
  <2>1. tx \in Transactions /\ rebuild \in Rebuilds /\ db \in Databases
    BY RestingTypes, EmptyDbType DEF Init
  <2> QED BY <2>1 DEF Init, TypeOK, Transactions, Jobs, NoProc
<1>2. WriterInside
  BY StoreAssumption DEF Init, WriterInside, NoProc
<1> QED BY <1>1, <1>2 DEF TypeInv

LEMMA NextJobType ==
  ASSUME TypeInv, NEW p \in Procs, writer = p
  PROVE  NextJob(p) \in Jobs
<1>1. job[p] \in Jobs
  BY DEF TypeInv, TypeOK
<1>2. CASE job[p].op = "add_claim" /\ job[p].contradicts # NoId
  <2>1. job[p].contradicts \in Ids /\ lastId[p] \in Ids
    BY <1>1, <1>2, JobTypes DEF TypeInv, WriterInside
  <2> QED BY <1>2, <2>1 DEF NextJob, Jobs
<1>3. CASE job[p].op = "merge"
  BY <1>3 DEF NextJob, Jobs
<1>4. CASE job[p].op = "decay" /\ ~job[p].alone
  BY <1>4 DEF NextJob, Jobs
<1>5. CASE ~(job[p].op = "add_claim" /\ job[p].contradicts # NoId) /\ job[p].op # "merge"
           /\ ~(job[p].op = "decay" /\ ~job[p].alone)
  BY <1>5 DEF NextJob, Jobs
<1> QED BY <1>2, <1>3, <1>4, <1>5

LEMMA WorksType ==
  ASSUME TypeInv, NEW p \in Procs, Works(p)
  PROVE  TypeInv'
<1>1. /\ writer = p /\ writer \in Procs /\ pc[p] = "tx" /\ tx \in Transactions
      /\ db \in Databases /\ tx.work \in Databases /\ tx.todo \in Seq(Steps)
      /\ job[p] \in Jobs
  BY DEF TypeInv, TypeOK, WriterInside, Transactions, Works, MergeGroup, SupersedeConflicts,
         AppendLine, ApplyRecord, Commit, StepFails
<1>2. \A todo \in Seq(Steps) : [tx EXCEPT !.todo = todo] \in Transactions
  BY <1>1 DEF Transactions
<1>3. tx.todo # <<>> => /\ Head(tx.todo) \in Steps /\ Head(tx.todo).rec \in Records
                        /\ Tail(tx.todo) \in Seq(Steps)
  <2>1. tx.todo # <<>> => Head(tx.todo) \in Steps /\ Tail(tx.todo) \in Seq(Steps)
    BY <1>1
  <2> QED BY <2>1 DEF Steps
<1>4. CASE MergeGroup(p)
  <2>1. job[p].groups \subseteq Triples \X Ids
    BY <1>1, <1>4, JobTypes DEF MergeGroup
  <2>2. PICK g \in job[p].groups :
          /\ tx' = [tx EXCEPT !.todo = Write(MergeRecord(tx.work, g[1], g[2]))]
          /\ job' = [job EXCEPT ![p] = [op |-> "merge", groups |-> job[p].groups \ {g}]]
    BY <1>4 DEF MergeGroup
  <2>3. MergeRecord(tx.work, g[1], g[2]) \in Records
    BY <1>1, <2>1, MergeRecordType
  <2>4. tx' \in Transactions
    BY <1>2, <2>2, <2>3, WriteType
  <2>5. [op |-> "merge", groups |-> job[p].groups \ {g}] \in Jobs
    BY <2>1 DEF Jobs
  <2>6. job' \in [Procs -> Jobs] /\ job'[p].op = "merge"
    BY <2>2, <2>5 DEF TypeInv, TypeOK
  <2> QED BY <1>1, <1>4, <2>4, <2>6 DEF MergeGroup, TypeInv, TypeOK, WriterInside, Transactions
<1>5. CASE SupersedeConflicts(p)
  <2>1. ConflictIds(tx.work) \in SUBSET Ids
    BY DEF ConflictIds, Active
  <2>2. tx' \in Transactions
    BY <1>2, <1>5, <2>1, SupersedeIdsType DEF SupersedeConflicts
  <2>3. job' \in [Procs -> Jobs] /\ job'[p].op = "conflicts"
    BY <1>5 DEF SupersedeConflicts, TypeInv, TypeOK, Jobs
  <2> QED BY <1>1, <1>5, <2>2, <2>3
          DEF SupersedeConflicts, TypeInv, TypeOK, WriterInside, Transactions
<1>6. CASE AppendLine(p)
  <2>1. tx' \in Transactions
    BY <1>2, <1>3, <1>6 DEF AppendLine
  <2>2. logs' \in [Series -> Seq(Records)]
    <3> DEFINE r == Head(tx.todo).rec
               x == SeriesOf(r)
    <3>1. r \in Records /\ x \in Series /\ logs \in [Series -> Seq(Records)]
      BY <1>3, <1>6 DEF AppendLine, TypeInv, TypeOK, SeriesOf, Series
    <3>2. logs' = [logs EXCEPT ![x] = Append(logs[x], r)]
      BY <1>6 DEF AppendLine
    <3> HIDE DEF r, x
    <3>3. Append(logs[x], r) \in Seq(Records)
      BY <3>1
    <3> QED BY <3>1, <3>2, <3>3
  <2> QED BY <1>6, <2>1, <2>2 DEF AppendLine, TypeInv, TypeOK, WriterInside, Transactions
<1>7. CASE ApplyRecord(p)
  <2>1. Effect(tx.work, Head(tx.todo).rec) \in Databases
    BY <1>1, <1>3, <1>7, EffectType DEF ApplyRecord
  <2>2. tx' \in Transactions
    BY <1>1, <1>3, <1>7, <2>1 DEF ApplyRecord, Transactions
  <2> QED BY <1>7, <2>2 DEF ApplyRecord, TypeInv, TypeOK, WriterInside, Transactions
<1>8. CASE Commit(p)
  <2>1. tx' \in Transactions /\ db' \in Databases /\ writer' = NoProc
    BY <1>1, <1>8, RestingTypes DEF Commit
  <2>2. job' \in [Procs -> Jobs]
    BY <1>1, <1>8, NextJobType DEF Commit, TypeInv, TypeOK
  <2>3. pc' \in [Procs -> {"closed", "idle", "ready", "tx"}]
    BY <1>8 DEF Commit, TypeInv, TypeOK
  <2> QED BY <1>8, <2>1, <2>2, <2>3, StoreAssumption
          DEF Commit, TypeInv, TypeOK, WriterInside, Transactions, NoProc
<1>9. CASE StepFails(p)
  <2>1. Rollback /\ TypeOK
    BY <1>9 DEF StepFails, TypeInv
  <2>2. writer' = NoProc /\ tx' \in Transactions /\ dead' \subseteq Series \X Nat
    BY <2>1, RollbackType
  <2>3. job' \in [Procs -> Jobs]
    BY <1>9 DEF StepFails, TypeInv, TypeOK, Jobs
  <2>4. pc' \in [Procs -> {"closed", "idle", "ready", "tx"}]
    BY <1>9 DEF StepFails, TypeInv, TypeOK
  <2> QED BY <1>9, <2>2, <2>3, <2>4, StoreAssumption
          DEF StepFails, TypeInv, TypeOK, WriterInside, Transactions, NoProc
<1> QED
  BY <1>4, <1>5, <1>6, <1>7, <1>8, <1>9 DEF Works

LEMMA RebuildsType ==
  ASSUME NEW r \in Rebuilds, NEW m \in Nat
  PROVE  /\ \A d \in Databases : [r EXCEPT !.pos = m, !.db = d] \in Rebuilds
         /\ \A S \in SUBSET (Series \X Nat) : [r EXCEPT !.pos = m, !.refused = S] \in Rebuilds
BY DEF Rebuilds

LEMMA RebuildingType ==
  ASSUME TypeInv, Rebuilding
  PROVE  TypeInv'
<1>1. rebuild \in Rebuilds /\ rebuild.db \in Databases /\ TypeOK
  BY DEF TypeInv, TypeOK, Rebuilds
<1>2. CASE RebuildStart
  <2>1. rebuild' \in Rebuilds
    BY <1>2, RestingTypes, StoreAssumption DEF RebuildStart, Rebuilds
  <2> QED BY <1>2, <2>1 DEF RebuildStart, TypeInv, TypeOK, WriterInside
<1>3. CASE rebuild.pos < Lines /\ (RebuildApply \/ RebuildRefuse)
  <2> DEFINE n == rebuild.pos
  <2>1. n \in Nat /\ n + 1 \in Nat /\ n < Lines
    BY <1>1, <1>3 DEF Rebuilds
  <2>2. LineAt(n + 1) \in Records /\ Position(n + 1) \in Series \X Nat
    BY <1>1, <2>1, LineAtType
  <2>3. RebuildApply => rebuild' \in Rebuilds
    <3> SUFFICES ASSUME RebuildApply PROVE rebuild' \in Rebuilds
      OBVIOUS
    <3> DEFINE d == Effect(rebuild.db, LineAt(n + 1))
    <3>1. d \in Databases
      BY <1>1, <2>2, EffectType DEF RebuildApply
    <3>2. rebuild' = [rebuild EXCEPT !.pos = n + 1, !.db = d]
      BY DEF RebuildApply
    <3> HIDE DEF d
    <3> QED BY <1>1, <2>1, <3>1, <3>2, RebuildsType
  <2>4. RebuildRefuse => rebuild' \in Rebuilds
    <3> SUFFICES ASSUME RebuildRefuse PROVE rebuild' \in Rebuilds
      OBVIOUS
    <3> DEFINE refused == rebuild.refused \cup {Position(n + 1)}
               q == [rebuild EXCEPT !.pos = n + 1, !.refused = refused]
    <3>1. refused \in SUBSET (Series \X Nat)
      BY <1>1, <2>2 DEF Rebuilds
    <3>2. rebuild' = NoRebuild \/ rebuild' = q
      BY DEF RebuildRefuse
    <3>3. q \in Rebuilds
      <4> HIDE DEF refused
      <4> QED BY <1>1, <2>1, <3>1, RebuildsType
    <3> HIDE DEF q
    <3> QED BY <3>2, <3>3, RestingTypes
  <2> QED BY <1>3, <2>3, <2>4 DEF RebuildApply, RebuildRefuse, TypeInv, TypeOK, WriterInside
<1>4. CASE RebuildRemove
  <2>1. rebuild' \in Rebuilds
    BY <1>1, <1>4 DEF RebuildRemove, Rebuilds
  <2>2. db' \in Databases /\ dead' \subseteq Series \X Nat
    BY <1>1, <1>4, EmptyDbType, LinesType DEF RebuildRemove
  <2> QED BY <1>4, <2>1, <2>2 DEF RebuildRemove, TypeInv, TypeOK, WriterInside
<1>5. CASE RebuildRename
  <2>1. rebuild' \in Rebuilds /\ db' \in Databases /\ dead' \subseteq Series \X Nat
    BY <1>1, <1>5, RestingTypes DEF RebuildRename, Rebuilds
  <2> QED BY <1>5, <2>1 DEF RebuildRename, TypeInv, TypeOK, WriterInside
<1>6. CASE RebuildCrash
  BY <1>6, RestingTypes DEF RebuildCrash, TypeInv, TypeOK, WriterInside
<1> QED
  BY <1>2, <1>3, <1>4, <1>5, <1>6 DEF Rebuilding, RebuildApply, RebuildRefuse

LEMMA TypeNext == TypeInv /\ [Next]_vars => TypeInv'
<1> SUFFICES ASSUME TypeInv, [Next]_vars PROVE TypeInv'
  OBVIOUS
<1>1. TypeOK
  BY DEF TypeInv
<1>2. ASSUME NEW p \in Procs, Calls(p) PROVE TypeInv'
  <2>1. PICK j \in Jobs : Call(p, j)
    BY <1>1, <1>2, CallsType
  <2>2. TypeOK'
    BY <1>1, <2>1, CallType
  <2>3. WriterInside'
    BY <2>1 DEF Call, TypeInv, TypeOK, WriterInside
  <2> QED BY <2>2, <2>3 DEF TypeInv
<1>3. ASSUME NEW p \in Procs, Begins(p) PROVE TypeInv'
  <2>1. PICK op, todo : /\ todo \in Seq(Steps) /\ TakeLock(p, op, todo)
                        /\ lastId' \in [Procs -> Nat] /\ job' = job
                        /\ op = "add_claim" => lastId'[p] \in Ids
    BY <1>1, <1>3, BeginsType
  <2>2. TypeOK'
    BY <1>1, <2>1, TakeLockType DEF TypeOK
  <2>3. WriterInside'
    BY <2>1 DEF TakeLock, TypeInv, TypeOK, WriterInside
  <2> QED BY <2>2, <2>3 DEF TypeInv
<1>4. ASSUME NEW p \in Procs, Works(p) PROVE TypeInv'
  BY <1>4, WorksType
<1>5. ASSUME NEW p \in Procs, BusyTimeout(p) PROVE TypeInv'
  BY <1>5 DEF BusyTimeout, TypeInv, TypeOK, WriterInside, Jobs
<1>6. ASSUME NEW p \in Procs, Open(p) PROVE TypeInv'
  <2>1. TailId("log") \in Nat /\ TailId("events") \in Nat
    BY <1>1, TailIdType DEF Series
  <2> QED BY <1>6, <2>1 DEF Open, TypeInv, TypeOK, WriterInside
<1>7. ASSUME NEW p \in Procs, Close(p) PROVE TypeInv'
  BY <1>7 DEF Close, Stop, TypeInv, TypeOK, WriterInside, Jobs
<1>8. ASSUME NEW p \in Procs, Crash(p) PROVE TypeInv'
  <2>1. /\ job' \in [Procs -> Jobs] /\ lastId' \in [Procs -> Nat]
        /\ pc' \in [Procs -> {"closed", "idle", "ready", "tx"}]
    BY <1>8 DEF Crash, Stop, TypeInv, TypeOK, Jobs
  <2>2. CASE writer = p
    <3>1. Rollback
      BY <1>8, <2>2 DEF Crash
    <3>2. writer' = NoProc /\ tx' \in Transactions /\ dead' \subseteq Series \X Nat
      BY <1>1, <3>1, RollbackType
    <3> QED BY <1>8, <2>1, <3>2, StoreAssumption
            DEF Crash, TypeInv, TypeOK, WriterInside, Transactions, NoProc
  <2>3. CASE writer # p
    BY <1>8, <2>1, <2>3 DEF Crash, Stop, TypeInv, TypeOK, WriterInside
  <2> QED BY <2>2, <2>3
<1>9. CASE Tick
  BY <1>9 DEF Tick, TypeInv, TypeOK, WriterInside
<1>10. CASE Rebuilding
  BY <1>10, RebuildingType
<1>11. CASE UNCHANGED vars
  BY <1>11 DEF vars, TypeInv, TypeOK, WriterInside
<1> QED
  BY <1>2, <1>3, <1>4, <1>5, <1>6, <1>7, <1>8, <1>9, <1>10, <1>11 DEF Next

\* Every state the write path, its failures and rebuilds can reach is well
\* typed: the projection holds only rows the schema allows, and the logs only
\* records.
THEOREM TypeCorrect == Spec => []TypeOK
<1>1. TypeInv => TypeOK
  BY DEF TypeInv
<1> QED
  BY TypeInit, TypeNext, <1>1, PTL DEF Spec

-----------------------------------------------------------------------------
(* What one record does to a projection it justifies. *)

\* More lines justify no less.
LEMMA MoreLines ==
  ASSUME NEW d, NEW lines, NEW more, lines \subseteq more, TransitionsLogged(d, lines)
  PROVE  TransitionsLogged(d, more)
BY DEF TransitionsLogged, ClaimLogged, DecisionLogged

LEMMA EmptyDbLogged == \A lines : TransitionsLogged(EmptyDb, lines)
BY NoRowFacts DEF TransitionsLogged, ClaimLogged, DecisionLogged, EmptyDb

\* A projection with the same claims, or whose claims only changed in their
\* confidence, provenance or sources, is justified by the same lines.
LEMMA SameClaims ==
  ASSUME NEW d, NEW e, NEW lines, NEW id \in Ids, ClaimLogged(d, lines, id),
         \/ e.claims[id] = d.claims[id]
         \/ /\ d.claims[id] # NoRow
            /\ e.claims[id].triple = d.claims[id].triple
            /\ e.claims[id].status = d.claims[id].status
  PROVE  ClaimLogged(e, lines, id)
BY DEF ClaimLogged

LEMMA SameDecision ==
  ASSUME NEW d, NEW e, NEW lines, NEW c \in Ids, DecisionLogged(d, lines, c),
         e.cands[c] = d.cands[c]
  PROVE  DecisionLogged(e, lines, c)
BY DEF DecisionLogged

LEMMA AddClaimLogged ==
  ASSUME NEW d \in Databases, NEW lines, NEW r \in lines, r \in Records,
         r.kind = "add_claim", TransitionsLogged(d, lines)
  PROVE  TransitionsLogged(AddClaimEffect(d, r), lines)
<1> DEFINE e == AddClaimEffect(d, r)
<1>1. CASE d.claims[r.claim] # NoRow
  BY <1>1 DEF AddClaimEffect
<1>2. CASE d.claims[r.claim] = NoRow
  <2>1. r.claim \in Ids
    BY DEF Records, ClaimLogRecords, EventLogRecords
  <2>2. /\ e.cands = d.cands
        /\ e.claims[r.claim].status = "ACTIVE" /\ e.claims[r.claim].triple = r.triple
        /\ \A id \in Ids \ {r.claim} : e.claims[id] = d.claims[id]
    BY <1>2, <2>1 DEF AddClaimEffect, Databases
  <2> HIDE DEF e
  <2>3. \A id \in Ids : ClaimLogged(d, lines, id) /\ DecisionLogged(d, lines, id)
    BY DEF TransitionsLogged
  <2>4. \A id \in Ids \ {r.claim} : ClaimLogged(e, lines, id)
    BY <2>2, <2>3, SameClaims
  <2>5. ClaimLogged(e, lines, r.claim)
    BY <2>2 DEF ClaimLogged
  <2>6. \A c \in Ids : DecisionLogged(e, lines, c)
    BY <2>2, <2>3, SameDecision
  <2> QED BY <2>4, <2>5, <2>6 DEF e, TransitionsLogged
<1> QED BY <1>1, <1>2

LEMMA RetireLogged ==
  ASSUME NEW d \in Databases, NEW lines, NEW r \in lines, r \in Records,
         r.kind = "retire_claim", RetireAccepted(d, r), TransitionsLogged(d, lines)
  PROVE  TransitionsLogged(RetireEffect(d, r), lines)
<1> DEFINE e == RetireEffect(d, r)
<1>1. r.claim \in Ids /\ d.claims[r.claim] # NoRow
  BY DEF Records, ClaimLogRecords, EventLogRecords, RetireAccepted
<1>2. d.claims[r.claim] \in ClaimRows
  BY <1>1, RowFacts
<1>3. /\ e.cands = d.cands
      /\ e.claims[r.claim].status = "INVALIDATED"
      /\ e.claims[r.claim].triple = d.claims[r.claim].triple
      /\ \A id \in Ids \ {r.claim} : e.claims[id] = d.claims[id]
  BY <1>1, <1>2 DEF RetireEffect, Databases, ClaimRows
<1> HIDE DEF e
<1>4. \A id \in Ids : ClaimLogged(d, lines, id) /\ DecisionLogged(d, lines, id)
  BY DEF TransitionsLogged
<1>5. \A id \in Ids \ {r.claim} : ClaimLogged(e, lines, id)
  BY <1>3, <1>4, SameClaims
<1>6. ClaimLogged(e, lines, r.claim)
  BY <1>1, <1>3, <1>4 DEF ClaimLogged
<1>7. \A c \in Ids : DecisionLogged(e, lines, c)
  BY <1>3, <1>4, SameDecision
<1> QED BY <1>5, <1>6, <1>7 DEF e, TransitionsLogged

LEMMA SupersedeLogged ==
  ASSUME NEW d \in Databases, NEW lines, NEW r \in lines, r \in Records,
         r.kind = "supersede_claims", \A id \in r.claims : d.claims[id] # NoRow,
         TransitionsLogged(d, lines)
  PROVE  TransitionsLogged(SupersedeEffect(d, r), lines)
<1> DEFINE e == SupersedeEffect(d, r)
<1>1. \A id \in Ids \cap r.claims : d.claims[id] \in ClaimRows
  BY RowFacts
<1>2. /\ e.cands = d.cands
      /\ \A id \in Ids \ r.claims : e.claims[id] = d.claims[id]
      /\ \A id \in Ids \cap r.claims : /\ e.claims[id].status = "SUPERSEDED"
                                       /\ e.claims[id].triple = d.claims[id].triple
  BY <1>1 DEF SupersedeEffect, Databases, ClaimRows
<1> HIDE DEF e
<1>3. \A id \in Ids : ClaimLogged(d, lines, id) /\ DecisionLogged(d, lines, id)
  BY DEF TransitionsLogged
<1>4. \A id \in Ids \ r.claims : ClaimLogged(e, lines, id)
  BY <1>2, <1>3, SameClaims
<1>5. \A id \in Ids \cap r.claims : ClaimLogged(e, lines, id)
  BY <1>2, <1>3 DEF ClaimLogged
<1>6. \A c \in Ids : DecisionLogged(e, lines, c)
  BY <1>2, <1>3, SameDecision
<1> QED BY <1>4, <1>5, <1>6 DEF e, TransitionsLogged

LEMMA DecayLogged ==
  ASSUME NEW d \in Databases, NEW lines, NEW r,
         \A id \in DOMAIN r.conf : d.claims[id] # NoRow, TransitionsLogged(d, lines)
  PROVE  TransitionsLogged(DecayEffect(d, r), lines)
<1> DEFINE e == DecayEffect(d, r)
<1>1. \A id \in Ids \cap DOMAIN r.conf : d.claims[id] \in ClaimRows
  BY RowFacts
<1>2. /\ e.cands = d.cands
      /\ \A id \in Ids \ DOMAIN r.conf : e.claims[id] = d.claims[id]
      /\ \A id \in Ids \cap DOMAIN r.conf : /\ e.claims[id].status = d.claims[id].status
                                            /\ e.claims[id].triple = d.claims[id].triple
  BY <1>1 DEF DecayEffect, Databases, ClaimRows
<1> HIDE DEF e
<1>3. \A id \in Ids : ClaimLogged(d, lines, id) /\ DecisionLogged(d, lines, id)
  BY DEF TransitionsLogged
<1>4. \A id \in Ids : ClaimLogged(e, lines, id)
  BY <1>2, <1>3, SameClaims
<1>5. \A c \in Ids : DecisionLogged(e, lines, c)
  BY <1>2, <1>3, SameDecision
<1> QED BY <1>4, <1>5 DEF e, TransitionsLogged

LEMMA MergeLogged ==
  ASSUME NEW d \in Databases, NEW lines, NEW r, r.claim \in Ids,
         d.claims[r.claim] # NoRow, TransitionsLogged(d, lines)
  PROVE  TransitionsLogged(MergeEffect(d, r), lines)
<1> DEFINE e == MergeEffect(d, r)
<1>1. d.claims[r.claim] \in ClaimRows
  BY RowFacts
<1>2. /\ e.cands = d.cands
      /\ \A id \in Ids \ {r.claim} : e.claims[id] = d.claims[id]
      /\ e.claims[r.claim].status = d.claims[r.claim].status
      /\ e.claims[r.claim].triple = d.claims[r.claim].triple
  BY <1>1 DEF MergeEffect, Databases, ClaimRows
<1> HIDE DEF e
<1>3. \A id \in Ids : ClaimLogged(d, lines, id) /\ DecisionLogged(d, lines, id)
  BY DEF TransitionsLogged
<1>4. \A id \in Ids : ClaimLogged(e, lines, id)
  BY <1>2, <1>3, SameClaims
<1>5. \A c \in Ids : DecisionLogged(e, lines, c)
  BY <1>2, <1>3, SameDecision
<1> QED BY <1>4, <1>5 DEF e, TransitionsLogged

LEMMA ProposeLogged ==
  ASSUME NEW d \in Databases, NEW lines, NEW r, r.id \in Ids, TransitionsLogged(d, lines)
  PROVE  TransitionsLogged(ProposeEffect(d, r), lines)
<1> DEFINE e == ProposeEffect(d, r)
<1>1. CASE d.cands[r.id] # NoRow
  BY <1>1 DEF ProposeEffect
<1>2. CASE d.cands[r.id] = NoRow
  <2>1. /\ e.claims = d.claims
        /\ e.cands[r.id].status = "PENDING"
        /\ \A c \in Ids \ {r.id} : e.cands[c] = d.cands[c]
    BY <1>2 DEF ProposeEffect, Databases
  <2> HIDE DEF e
  <2>2. \A id \in Ids : ClaimLogged(d, lines, id) /\ DecisionLogged(d, lines, id)
    BY DEF TransitionsLogged
  <2>3. \A id \in Ids : ClaimLogged(e, lines, id)
    BY <2>1, <2>2, SameClaims
  <2>4. \A c \in Ids : DecisionLogged(e, lines, c)
    BY <2>1, <2>2, SameDecision DEF DecisionLogged
  <2> QED BY <2>3, <2>4 DEF e, TransitionsLogged
<1> QED BY <1>1, <1>2

LEMMA PromoteLogged ==
  ASSUME NEW d \in Databases, NEW lines, NEW r \in lines, r.cand \in Ids,
         r.kind = "promote_candidate_claim", PromoteAccepted(d, r), TransitionsLogged(d, lines)
  PROVE  TransitionsLogged(PromoteEffect(d, r), lines)
<1> DEFINE e == PromoteEffect(d, r)
<1>1. d.cands[r.cand] \in CandidateRows
  BY RowFacts DEF PromoteAccepted
<1>2. /\ e.claims = d.claims
      /\ e.cands[r.cand].status = "PROMOTED" /\ e.cands[r.cand].claim = r.claim
      /\ \A c \in Ids \ {r.cand} : e.cands[c] = d.cands[c]
  BY <1>1 DEF PromoteEffect, Databases, CandidateRows
<1> HIDE DEF e
<1>3. \A id \in Ids : ClaimLogged(d, lines, id) /\ DecisionLogged(d, lines, id)
  BY DEF TransitionsLogged
<1>4. \A id \in Ids : ClaimLogged(e, lines, id)
  BY <1>2, <1>3, SameClaims
<1>5. \A c \in Ids \ {r.cand} : DecisionLogged(e, lines, c)
  BY <1>2, <1>3, SameDecision
<1>6. DecisionLogged(e, lines, r.cand)
  BY <1>2 DEF DecisionLogged
<1> QED BY <1>4, <1>5, <1>6 DEF e, TransitionsLogged

LEMMA RejectLogged ==
  ASSUME NEW d \in Databases, NEW lines, NEW r \in lines, r.cand \in Ids,
         r.kind = "reject_candidate_claim", RejectAccepted(d, r), TransitionsLogged(d, lines)
  PROVE  TransitionsLogged(RejectEffect(d, r), lines)
<1> DEFINE e == RejectEffect(d, r)
<1>1. d.cands[r.cand] \in CandidateRows
  BY RowFacts DEF RejectAccepted
<1>2. /\ e.claims = d.claims
      /\ e.cands[r.cand].status = "REJECTED" /\ e.cands[r.cand].reasons = {r.reason}
      /\ \A c \in Ids \ {r.cand} : e.cands[c] = d.cands[c]
  BY <1>1 DEF RejectEffect, Databases, CandidateRows
<1> HIDE DEF e
<1>3. \A id \in Ids : ClaimLogged(d, lines, id) /\ DecisionLogged(d, lines, id)
  BY DEF TransitionsLogged
<1>4. \A id \in Ids : ClaimLogged(e, lines, id)
  BY <1>2, <1>3, SameClaims
<1>5. \A c \in Ids \ {r.cand} : DecisionLogged(e, lines, c)
  BY <1>2, <1>3, SameDecision
<1>6. DecisionLogged(e, lines, r.cand)
  BY <1>2 DEF DecisionLogged
<1> QED BY <1>4, <1>5, <1>6 DEF e, TransitionsLogged

\* Applying a record that is a line of the log keeps a justified projection
\* justified.
LEMMA EffectLogged ==
  ASSUME NEW d \in Databases, NEW lines, NEW r \in lines, r \in Records,
         Accepts(d, r), TransitionsLogged(d, lines)
  PROVE  TransitionsLogged(Effect(d, r), lines)
<1>1. CASE r.kind = "add_claim"
  BY <1>1, AddClaimLogged DEF Effect
<1>2. CASE r.kind = "retire_claim"
  BY <1>2, RetireLogged DEF Effect, Accepts
<1>3. CASE r.kind = "add_contradiction"
  <2>1. Effect(d, r).claims = d.claims /\ Effect(d, r).cands = d.cands
    BY <1>3 DEF Effect, Databases
  <2> QED BY <2>1 DEF TransitionsLogged, ClaimLogged, DecisionLogged
<1>4. CASE r.kind = "supersede_claims"
  BY <1>4, SupersedeLogged DEF Effect, Accepts
<1>5. CASE r.kind = "decay_confidence"
  BY <1>5, DecayLogged DEF Effect, Accepts
<1>6. CASE r.kind = "merge_source_refs"
  <2>1. r.claim \in Ids /\ d.claims[r.claim] # NoRow
    BY <1>6 DEF Records, ClaimLogRecords, EventLogRecords, Accepts
  <2> QED BY <1>6, <2>1, MergeLogged DEF Effect
<1>7. CASE r.kind = "record_event"
  <2>1. Effect(d, r).claims = d.claims /\ Effect(d, r).cands = d.cands
    BY <1>7 DEF Effect, Databases
  <2> QED BY <2>1 DEF TransitionsLogged, ClaimLogged, DecisionLogged
<1>8. CASE r.kind = "propose_candidate_claim"
  <2>1. r.id \in Ids
    BY <1>8 DEF Records, ClaimLogRecords, EventLogRecords
  <2> QED BY <1>8, <2>1, ProposeLogged DEF Effect
<1>9. CASE r.kind = "promote_candidate_claim"
  <2>1. r.cand \in Ids
    BY <1>9 DEF Records, ClaimLogRecords, EventLogRecords
  <2> QED BY <1>9, <2>1, PromoteLogged DEF Effect, Accepts
<1>10. CASE r.kind = "reject_candidate_claim"
  <2>1. r.cand \in Ids
    BY <1>10 DEF Records, ClaimLogRecords, EventLogRecords
  <2> QED BY <1>10, <2>1, RejectLogged DEF Effect, Accepts
<1> QED
  BY <1>1, <1>2, <1>3, <1>4, <1>5, <1>6, <1>7, <1>8, <1>9, <1>10, RecordKinds DEF Kinds

-----------------------------------------------------------------------------
(* LogFirst is not inductive: a transaction must not reach an "apply" step   *)
(* whose record it never appended.  Every apply left to do is of a line that *)
(* is logged already, or comes after the append of the same record.          *)

AppliesLogged(todo, lines) ==
  \A i \in DOMAIN todo :
    todo[i].do = "apply" => \/ todo[i].rec \in lines
                            \/ \E j \in 1..(i - 1) : todo[j] = ToLog(todo[i].rec)

LogInv == TypeInv /\ LogFirst /\ AppliesLogged(tx.todo, Logged)

LEMMA EmptyTodo == \A lines : AppliesLogged(<<>>, lines)
BY DEF AppliesLogged

LEMMA WriteTodo == \A r, lines : AppliesLogged(Write(r), lines)
BY DEF AppliesLogged, Write, ToLog, ToDb

LEMMA SupersedeTodo == \A S, lines : AppliesLogged(Supersede(S), lines)
BY EmptyTodo, WriteTodo DEF Supersede

LEMMA PromoteTodo ==
  ASSUME NEW r, NEW q, NEW lines
  PROVE  AppliesLogged(<<ToLog(r), ToLog(q), ToDb(r), ToDb(q)>>, lines)
BY DEF AppliesLogged, ToLog, ToDb

LEMMA BeginsLogged ==
  ASSUME NEW p \in Procs, Begins(p)
  PROVE  \E op, todo : TakeLock(p, op, todo) /\ \A lines : AppliesLogged(todo, lines)
<1>1. CASE BeginAddClaim(p)
  BY <1>1, WriteTodo DEF BeginAddClaim
<1>2. CASE BeginContradict(p)
  BY <1>2, WriteTodo DEF BeginContradict
<1>3. CASE BeginRetire(p)
  <2> DEFINE rec == [kind |-> "retire_claim", ts |-> job[p].ts, claim |-> job[p].claim,
                     reason |-> job[p].reason]
             todo == IF db.claims[job[p].claim].status \in {"ABSENT", "INVALIDATED"}
                     THEN <<>> ELSE Write(rec)
  <2>1. TakeLock(p, "retire", todo)
    BY <1>3 DEF BeginRetire
  <2>2. \A lines : AppliesLogged(todo, lines)
    BY EmptyTodo, WriteTodo
  <2> HIDE DEF todo
  <2> QED BY <2>1, <2>2
<1>4. CASE BeginMerge(p)
  <2> DEFINE todo == <<>>
  <2>1. TakeLock(p, "merge", todo) /\ \A lines : AppliesLogged(todo, lines)
    BY <1>4, EmptyTodo DEF BeginMerge
  <2> HIDE DEF todo
  <2> QED BY <2>1
<1>5. CASE BeginDecay(p)
  <2> DEFINE todo == IF Decaying(db) = {} THEN <<>> ELSE Write(DecayRecord(db))
  <2>1. TakeLock(p, "decay", todo)
    BY <1>5 DEF BeginDecay
  <2>2. \A lines : AppliesLogged(todo, lines)
    BY EmptyTodo, WriteTodo
  <2> HIDE DEF todo
  <2> QED BY <2>1, <2>2
<1>6. CASE BeginSupersede(p)
  BY <1>6, SupersedeTodo DEF BeginSupersede
<1>7. CASE BeginRecordEvent(p)
  BY <1>7, WriteTodo DEF BeginRecordEvent
<1>8. CASE BeginPropose(p)
  BY <1>8, WriteTodo DEF BeginPropose
<1>9. CASE BeginPromote(p)
  <2> DEFINE claim(id) == [kind |-> "add_claim", ts |-> job[p].ts, claim |-> id,
                           triple |-> job[p].triple, source |-> EventRef(job[p].event),
                           prov |-> "INFERRED", conf |-> 9]
             promotion(id) == [kind |-> "promote_candidate_claim", cand |-> job[p].cand,
                               claim |-> id]
             todo(id) == <<ToLog(claim(id)), ToLog(promotion(id)),
                           ToDb(claim(id)), ToDb(promotion(id))>>
  <2>1. PICK id \in Ids : TakeLock(p, "promote", todo(id))
    BY <1>9 DEF BeginPromote
  <2>2. \A lines : AppliesLogged(todo(id), lines)
    BY PromoteTodo
  <2> HIDE DEF todo
  <2> QED BY <2>1, <2>2
<1>10. CASE BeginReject(p)
  <2> DEFINE rec == [kind |-> "reject_candidate_claim", cand |-> job[p].cand,
                     reason |-> job[p].reason]
             todo == IF db.cands[job[p].cand].status = "PENDING" THEN Write(rec) ELSE <<>>
  <2>1. TakeLock(p, "reject", todo)
    BY <1>10 DEF BeginReject
  <2>2. \A lines : AppliesLogged(todo, lines)
    BY EmptyTodo, WriteTodo
  <2> HIDE DEF todo
  <2> QED BY <2>1, <2>2
<1> QED
  BY <1>1, <1>2, <1>3, <1>4, <1>5, <1>6, <1>7, <1>8, <1>9, <1>10 DEF Begins

\* Appending a line only adds to what is logged, and adds that line.
LEMMA LoggedGrows ==
  ASSUME TypeInv, NEW p \in Procs, AppendLine(p)
  PROVE  Logged \subseteq Logged' /\ Head(tx.todo).rec \in Logged'
<1> DEFINE r == Head(tx.todo).rec
           x == SeriesOf(r)
<1>1. x \in Series
  BY DEF SeriesOf, Series
<1>2. logs' = [logs EXCEPT ![x] = Append(logs[x], r)] /\ logs \in [Series -> Seq(Records)]
  BY DEF AppendLine, TypeInv, TypeOK
<1>3. r \in Records
  <2>1. tx.todo \in Seq(Steps) /\ tx.todo # <<>>
    BY DEF AppendLine, TypeInv, TypeOK
  <2>2. Head(tx.todo) \in Steps
    BY <2>1
  <2> QED BY <2>2 DEF Steps
<1> HIDE DEF r, x
<1>4. \A s \in Series : \A i \in DOMAIN logs[s] : i \in DOMAIN logs'[s] /\ logs'[s][i] = logs[s][i]
  BY <1>1, <1>2, <1>3
<1>5. \E i \in DOMAIN logs'[x] : logs'[x][i] = r
  <2>1. logs[x] \in Seq(Records) /\ logs'[x] = Append(logs[x], r)
    BY <1>1, <1>2
  <2>2. Len(logs[x]) + 1 \in DOMAIN Append(logs[x], r)
        /\ Append(logs[x], r)[Len(logs[x]) + 1] = r
    BY <1>3, <2>1
  <2> QED BY <2>1, <2>2
<1> QED BY <1>1, <1>4, <1>5 DEF Logged, r

\* The first step of a transaction can be taken.
LEMMA FirstStep ==
  ASSUME NEW todo \in Seq(Steps), todo # <<>>, NEW lines, AppliesLogged(todo, lines)
  PROVE  /\ Head(todo).do = "apply" =>
              Head(todo).rec \in lines /\ AppliesLogged(Tail(todo), lines)
         /\ Head(todo).do = "append" =>
              \A more : lines \subseteq more /\ Head(todo).rec \in more
                        => AppliesLogged(Tail(todo), more)
<1> DEFINE rest == Tail(todo)
<1>1. /\ 1 \in DOMAIN todo /\ Head(todo) = todo[1] /\ rest \in Seq(Steps)
      /\ DOMAIN todo = 1..Len(todo) /\ DOMAIN rest = 1..Len(rest)
      /\ Len(todo) \in Nat /\ Len(rest) = Len(todo) - 1
      /\ \A i \in DOMAIN rest : rest[i] = todo[i + 1]
  OBVIOUS
<1> HIDE DEF rest
<1>2. \A i \in DOMAIN rest : rest[i].do = "apply" =>
        \/ rest[i].rec \in lines
        \/ \E j \in 1..i : todo[j] = ToLog(rest[i].rec)
  <2> SUFFICES ASSUME NEW i \in DOMAIN rest, rest[i].do = "apply"
               PROVE  \/ rest[i].rec \in lines
                      \/ \E j \in 1..i : todo[j] = ToLog(rest[i].rec)
    OBVIOUS
  <2>1. i \in Nat /\ i + 1 \in DOMAIN todo /\ rest[i] = todo[i + 1] /\ (i + 1) - 1 = i
    BY <1>1
  <2> QED BY <2>1 DEF AppliesLogged
<1>3. ASSUME NEW i \in DOMAIN rest, NEW j \in 1..i, todo[j] = ToLog(rest[i].rec)
      PROVE  \/ j = 1 /\ Head(todo) = ToLog(rest[i].rec)
             \/ \E m \in 1..(i - 1) : rest[m] = ToLog(rest[i].rec)
  <2>1. CASE j = 1
    BY <1>1, <1>3, <2>1
  <2>2. CASE j # 1
    <3>1. i \in Nat /\ j - 1 \in 1..(i - 1) /\ j - 1 \in DOMAIN rest /\ (j - 1) + 1 = j
      BY <1>1, <2>2
    <3>2. rest[j - 1] = todo[j]
      BY <1>1, <3>1
    <3> QED BY <1>3, <3>1, <3>2
  <2> QED BY <2>1, <2>2
<1>4. CASE Head(todo).do = "apply"
  <2>1. Head(todo).rec \in lines
    BY <1>1, <1>4 DEF AppliesLogged
  <2>2. \A r : Head(todo) # ToLog(r)
    BY <1>4 DEF ToLog
  <2>3. AppliesLogged(rest, lines)
    BY <1>2, <1>3, <2>2 DEF AppliesLogged
  <2> QED BY <1>4, <2>1, <2>3 DEF rest
<1>5. CASE Head(todo).do = "append"
  <2> SUFFICES ASSUME NEW more, lines \subseteq more, Head(todo).rec \in more
               PROVE  AppliesLogged(rest, more)
    BY <1>5 DEF rest
  <2>1. \A r : Head(todo) = ToLog(r) => r \in more
    BY DEF ToLog
  <2> QED BY <1>2, <1>3, <2>1 DEF AppliesLogged
<1> QED BY <1>4, <1>5

LEMMA LogInit == Init => LogInv
<1> SUFFICES ASSUME Init PROVE LogInv
  OBVIOUS
<1>1. db = EmptyDb /\ tx.work = EmptyDb /\ rebuild.db = EmptyDb /\ tx.todo = <<>>
  BY DEF Init, NoTx, NoRebuild
<1>2. LogFirst
  BY <1>1, EmptyDbLogged DEF LogFirst
<1>3. AppliesLogged(tx.todo, Logged)
  BY <1>1, EmptyTodo
<1> QED BY <1>2, <1>3, TypeInit DEF LogInv

\* Steps that change neither the logs nor the projections keep the invariant.
LEMMA SameProjections ==
  ASSUME LogInv, TypeInv', logs' = logs, db' = db, tx' = tx, rebuild'.db = rebuild.db
  PROVE  LogInv'
<1>1. Logged' = Logged
  BY DEF Logged
<1> QED BY <1>1 DEF LogInv, LogFirst

LEMMA WorksLogged ==
  ASSUME LogInv, TypeInv', NEW p \in Procs, Works(p)
  PROVE  LogInv'
<1>1. /\ tx.todo \in Seq(Steps) /\ tx.work \in Databases /\ TypeInv
      /\ TransitionsLogged(db, Logged) /\ TransitionsLogged(tx.work, Logged)
      /\ TransitionsLogged(rebuild.db, Logged) /\ AppliesLogged(tx.todo, Logged)
  BY DEF LogInv, LogFirst, TypeInv, TypeOK
<1>2. logs' = logs => Logged' = Logged
  BY DEF Logged
<1>3. CASE MergeGroup(p)
  <2>1. PICK r : tx' = [tx EXCEPT !.todo = Write(r)]
    BY <1>3 DEF MergeGroup
  <2>2. tx'.work = tx.work /\ tx'.todo = Write(r)
    BY <2>1 DEF LogInv, TypeInv, TypeOK
  <2>3. logs' = logs /\ db' = db /\ rebuild' = rebuild
    BY <1>3 DEF MergeGroup
  <2> QED BY <1>1, <1>2, <2>2, <2>3, WriteTodo DEF LogInv, LogFirst
<1>4. CASE SupersedeConflicts(p)
  <2>1. tx'.work = tx.work /\ tx'.todo = Supersede(ConflictIds(tx.work))
    BY <1>4 DEF SupersedeConflicts, LogInv, TypeInv, TypeOK
  <2>2. logs' = logs /\ db' = db /\ rebuild' = rebuild
    BY <1>4 DEF SupersedeConflicts
  <2> QED BY <1>1, <1>2, <2>1, <2>2, SupersedeTodo DEF LogInv, LogFirst
<1>5. CASE AppendLine(p)
  <2>1. Logged \subseteq Logged' /\ Head(tx.todo).rec \in Logged'
    BY <1>1, <1>5, LoggedGrows
  <2>2. tx'.work = tx.work /\ tx'.todo = Tail(tx.todo) /\ db' = db /\ rebuild' = rebuild
    BY <1>5 DEF AppendLine, LogInv, TypeInv, TypeOK
  <2>3. AppliesLogged(Tail(tx.todo), Logged')
    BY <1>1, <1>5, <2>1, FirstStep DEF AppendLine
  <2>4. /\ TransitionsLogged(db, Logged') /\ TransitionsLogged(tx.work, Logged')
        /\ TransitionsLogged(rebuild.db, Logged')
    BY <1>1, <2>1, MoreLines
  <2> QED BY <2>2, <2>3, <2>4 DEF LogInv, LogFirst
<1>6. CASE ApplyRecord(p)
  <2> DEFINE r == Head(tx.todo).rec
  <2>1. /\ tx.todo # <<>> /\ Head(tx.todo).do = "apply" /\ Accepts(tx.work, r)
        /\ tx'.todo = Tail(tx.todo) /\ tx'.work = Effect(tx.work, r)
        /\ logs' = logs /\ db' = db /\ rebuild' = rebuild
    BY <1>6 DEF ApplyRecord, LogInv, TypeInv, TypeOK
  <2>2. r \in Logged /\ AppliesLogged(Tail(tx.todo), Logged)
    BY <1>1, <2>1, FirstStep
  <2>3. r \in Records
    <3>1. Head(tx.todo) \in Steps
      BY <1>1, <2>1
    <3> QED BY <3>1 DEF Steps
  <2>4. TransitionsLogged(Effect(tx.work, r), Logged)
    BY <1>1, <2>1, <2>2, <2>3, EffectLogged
  <2> HIDE DEF r
  <2> QED BY <1>1, <1>2, <2>1, <2>2, <2>4 DEF LogInv, LogFirst
<1>7. CASE Commit(p)
  <2>1. /\ logs' = logs /\ db' = tx.work /\ rebuild' = rebuild
        /\ tx'.work = EmptyDb /\ tx'.todo = <<>>
    BY <1>7 DEF Commit, NoTx
  <2> QED BY <1>1, <1>2, <2>1, EmptyTodo, EmptyDbLogged DEF LogInv, LogFirst
<1>8. CASE StepFails(p)
  <2>1. /\ logs' = logs /\ db' = db /\ rebuild' = rebuild
        /\ tx'.work = EmptyDb /\ tx'.todo = <<>>
    BY <1>8 DEF StepFails, Rollback, NoTx
  <2> QED BY <1>1, <1>2, <2>1, EmptyTodo, EmptyDbLogged DEF LogInv, LogFirst
<1> QED
  BY <1>3, <1>4, <1>5, <1>6, <1>7, <1>8 DEF Works

LEMMA RebuildingLogged ==
  ASSUME LogInv, TypeInv', Rebuilding
  PROVE  LogInv'
<1>1. /\ TypeOK /\ rebuild \in Rebuilds /\ rebuild.db \in Databases
      /\ TransitionsLogged(db, Logged) /\ TransitionsLogged(tx.work, Logged)
      /\ TransitionsLogged(rebuild.db, Logged) /\ AppliesLogged(tx.todo, Logged)
  BY DEF LogInv, LogFirst, TypeInv, TypeOK, Rebuilds
<1>2. logs' = logs /\ tx' = tx /\ Logged' = Logged
  <2>1. logs' = logs /\ tx' = tx
    BY DEF Rebuilding, RebuildStart, RebuildApply, RebuildRefuse, RebuildRemove, RebuildRename,
           RebuildCrash
  <2> QED BY <2>1 DEF Logged
<1>3. NoRebuild.db = EmptyDb
  BY DEF NoRebuild
<1>4. TransitionsLogged(db', Logged)
  BY <1>1, EmptyDbLogged
     DEF Rebuilding, RebuildStart, RebuildApply, RebuildRefuse, RebuildRemove, RebuildRename,
         RebuildCrash
<1>5. CASE RebuildApply
  <2> DEFINE r == LineAt(rebuild.pos + 1)
  <2>1. rebuild.pos \in Nat /\ rebuild.pos < Lines
    BY <1>1, <1>5 DEF RebuildApply, Rebuilds
  <2>2. r \in Records /\ r \in Logged
    BY <1>1, <2>1, LineAtType
  <2>3. TransitionsLogged(Effect(rebuild.db, r), Logged)
    BY <1>1, <1>5, <2>2, EffectLogged DEF RebuildApply
  <2>4. rebuild'.db = Effect(rebuild.db, r)
    BY <1>1, <1>5 DEF RebuildApply, Rebuilds
  <2> HIDE DEF r
  <2> QED BY <1>1, <1>2, <1>4, <2>3, <2>4 DEF LogInv, LogFirst
<1>6. CASE ~RebuildApply
  <2>1. rebuild'.db = rebuild.db \/ rebuild'.db = EmptyDb
    BY <1>1, <1>3, <1>6
       DEF Rebuilding, RebuildStart, RebuildRefuse, RebuildRemove, RebuildRename, RebuildCrash,
           Rebuilds, NoRebuild
  <2> QED BY <1>1, <1>2, <1>4, <2>1, EmptyDbLogged DEF LogInv, LogFirst
<1> QED BY <1>5, <1>6

LEMMA LogNext == LogInv /\ [Next]_vars => LogInv'
<1> SUFFICES ASSUME LogInv, [Next]_vars PROVE LogInv'
  OBVIOUS
<1>1. TypeInv'
  BY TypeNext DEF LogInv
<1>2. ASSUME NEW p \in Procs, Calls(p) PROVE LogInv'
  <2>1. \E j : Call(p, j)
    BY <1>2, CallsType DEF LogInv, TypeInv
  <2> QED BY <1>1, <2>1, SameProjections DEF Call
<1>3. ASSUME NEW p \in Procs, Begins(p) PROVE LogInv'
  <2>1. PICK op, todo : TakeLock(p, op, todo) /\ \A lines : AppliesLogged(todo, lines)
    BY <1>3, BeginsLogged
  <2>2. logs' = logs /\ db' = db /\ rebuild' = rebuild /\ tx'.work = db /\ tx'.todo = todo
    BY <2>1 DEF TakeLock
  <2>3. Logged' = Logged
    BY <2>2 DEF Logged
  <2> QED BY <1>1, <2>1, <2>2, <2>3 DEF LogInv, LogFirst
<1>4. ASSUME NEW p \in Procs, Works(p) PROVE LogInv'
  BY <1>1, <1>4, WorksLogged
<1>5. ASSUME NEW p \in Procs, BusyTimeout(p) \/ Open(p) \/ Close(p) PROVE LogInv'
  BY <1>1, <1>5, SameProjections DEF BusyTimeout, Open, Close
<1>6. ASSUME NEW p \in Procs, Crash(p) PROVE LogInv'
  <2>1. CASE writer = p
    <3>1. logs' = logs /\ db' = db /\ rebuild' = rebuild /\ tx'.work = EmptyDb /\ tx'.todo = <<>>
      BY <1>6, <2>1 DEF Crash, Rollback, NoTx
    <3>2. Logged' = Logged
      BY <3>1 DEF Logged
    <3> QED BY <1>1, <3>1, <3>2, EmptyTodo, EmptyDbLogged DEF LogInv, LogFirst
  <2>2. CASE writer # p
    BY <1>1, <1>6, <2>2, SameProjections DEF Crash
  <2> QED BY <2>1, <2>2
<1>7. CASE Tick
  BY <1>1, <1>7, SameProjections DEF Tick
<1>8. CASE Rebuilding
  BY <1>1, <1>8, RebuildingLogged
<1>9. CASE UNCHANGED vars
  BY <1>1, <1>9, SameProjections DEF vars
<1> QED
  BY <1>2, <1>3, <1>4, <1>5, <1>6, <1>7, <1>8, <1>9 DEF Next

\* The log comes first (ADR-0005): for any number of processes, any operations
\* and any crashes, failed appends and rebuilds, every claim, retirement,
\* supersession and decision a projection shows is already a line of the log.
THEOREM LogComesFirst == Spec => []LogFirst
<1>1. LogInv => LogFirst
  BY DEF LogInv
<1> QED
  BY LogInit, LogNext, <1>1, PTL DEF Spec

-----------------------------------------------------------------------------
(* What one record does to the claims and candidates of a projection that   *)
(* accepts it, kind by kind.                                                 *)

LEMMA AddFacts ==
  ASSUME NEW d \in Databases, NEW r \in Records, r.kind = "add_claim"
  PROVE  /\ r.claim \in Ids /\ r.triple \in Triples
         /\ Effect(d, r).cands = d.cands
         /\ \A id \in Ids \ {r.claim} : Effect(d, r).claims[id] = d.claims[id]
         /\ d.claims[r.claim] # NoRow => Effect(d, r).claims[r.claim] = d.claims[r.claim]
         /\ d.claims[r.claim] = NoRow => /\ Effect(d, r).claims[r.claim] # NoRow
                                         /\ Effect(d, r).claims[r.claim].status = "ACTIVE"
                                         /\ Effect(d, r).claims[r.claim].triple = r.triple
<1>1. r.claim \in Ids /\ r.triple \in Triples /\ Effect(d, r) = AddClaimEffect(d, r)
  BY DEF Records, ClaimLogRecords, EventLogRecords, Effect
<1>2. CASE d.claims[r.claim] # NoRow
  BY <1>1, <1>2 DEF AddClaimEffect
<1>3. CASE d.claims[r.claim] = NoRow
  <2>1. /\ Effect(d, r).cands = d.cands
        /\ Effect(d, r).claims[r.claim].status = "ACTIVE"
        /\ Effect(d, r).claims[r.claim].triple = r.triple
        /\ \A id \in Ids \ {r.claim} : Effect(d, r).claims[id] = d.claims[id]
    BY <1>1, <1>3 DEF AddClaimEffect, Databases
  <2> QED BY <1>1, <1>3, <2>1, NoRowFacts
<1> QED BY <1>2, <1>3

LEMMA RetireFacts ==
  ASSUME NEW d \in Databases, NEW r \in Records, r.kind = "retire_claim", Accepts(d, r)
  PROVE  /\ r.claim \in Ids /\ d.claims[r.claim] # NoRow
         /\ Effect(d, r).cands = d.cands
         /\ \A id \in Ids \ {r.claim} : Effect(d, r).claims[id] = d.claims[id]
         /\ Effect(d, r).claims[r.claim] # NoRow
         /\ Effect(d, r).claims[r.claim].status = "INVALIDATED"
         /\ Effect(d, r).claims[r.claim].triple = d.claims[r.claim].triple
<1>1. /\ r.claim \in Ids /\ d.claims[r.claim] # NoRow /\ Effect(d, r) = RetireEffect(d, r)
  BY DEF Records, ClaimLogRecords, EventLogRecords, Accepts, RetireAccepted, Effect
<1>2. d.claims[r.claim] \in ClaimRows
  BY <1>1, RowFacts
<1>3. /\ Effect(d, r).cands = d.cands
      /\ Effect(d, r).claims[r.claim].status = "INVALIDATED"
      /\ Effect(d, r).claims[r.claim].triple = d.claims[r.claim].triple
      /\ \A id \in Ids \ {r.claim} : Effect(d, r).claims[id] = d.claims[id]
  BY <1>1, <1>2 DEF RetireEffect, Databases, ClaimRows
<1> QED BY <1>1, <1>3, NoRowFacts

LEMMA SupersedeFacts ==
  ASSUME NEW d \in Databases, NEW r \in Records, r.kind = "supersede_claims", Accepts(d, r)
  PROVE  /\ r.claims \subseteq Ids
         /\ Effect(d, r).cands = d.cands
         /\ \A id \in Ids \ r.claims : Effect(d, r).claims[id] = d.claims[id]
         /\ \A id \in r.claims : /\ d.claims[id] # NoRow
                                 /\ Effect(d, r).claims[id] # NoRow
                                 /\ Effect(d, r).claims[id].status = "SUPERSEDED"
                                 /\ Effect(d, r).claims[id].triple = d.claims[id].triple
<1>1. /\ r.claims \subseteq Ids /\ Effect(d, r) = SupersedeEffect(d, r)
      /\ \A id \in r.claims : d.claims[id] # NoRow
  BY DEF Records, ClaimLogRecords, EventLogRecords, Accepts, Effect
<1>2. \A id \in r.claims : d.claims[id] \in ClaimRows
  BY <1>1, RowFacts
<1>3. /\ Effect(d, r).cands = d.cands
      /\ \A id \in Ids \ r.claims : Effect(d, r).claims[id] = d.claims[id]
      /\ \A id \in r.claims : /\ Effect(d, r).claims[id].status = "SUPERSEDED"
                              /\ Effect(d, r).claims[id].triple = d.claims[id].triple
  BY <1>1, <1>2 DEF SupersedeEffect, Databases, ClaimRows
<1> QED BY <1>1, <1>3, NoRowFacts

\* Decay, merged sources, contradictions and events move no claim along.
QuietKinds == {"decay_confidence", "merge_source_refs", "add_contradiction", "record_event"}

LEMMA QuietFacts ==
  ASSUME NEW d \in Databases, NEW r \in Records, r.kind \in QuietKinds, Accepts(d, r)
  PROVE  /\ Effect(d, r).cands = d.cands
         /\ \A id \in Ids :
              /\ Effect(d, r).claims[id] = NoRow <=> d.claims[id] = NoRow
              /\ Effect(d, r).claims[id].status = d.claims[id].status
              /\ d.claims[id] # NoRow => Effect(d, r).claims[id].triple = d.claims[id].triple
<1>1. CASE r.kind = "decay_confidence"
  <2>1. Effect(d, r) = DecayEffect(d, r) /\ \A id \in DOMAIN r.conf : d.claims[id] # NoRow
    BY <1>1 DEF Accepts, Effect
  <2>2. \A id \in Ids \cap DOMAIN r.conf : d.claims[id] \in ClaimRows
    BY <2>1, RowFacts
  <2>3. /\ Effect(d, r).cands = d.cands
        /\ \A id \in Ids \ DOMAIN r.conf : Effect(d, r).claims[id] = d.claims[id]
        /\ \A id \in Ids \cap DOMAIN r.conf :
             /\ Effect(d, r).claims[id].status = d.claims[id].status
             /\ Effect(d, r).claims[id].triple = d.claims[id].triple
    BY <2>1, <2>2 DEF DecayEffect, Databases, ClaimRows
  <2>4. \A id \in Ids \cap DOMAIN r.conf : d.claims[id].status # "ABSENT"
    BY <2>2 DEF ClaimRows, ClaimStatus
  <2> QED BY <2>1, <2>3, <2>4, NoRowFacts
<1>2. CASE r.kind = "merge_source_refs"
  <2>1. Effect(d, r) = MergeEffect(d, r) /\ d.claims[r.claim] # NoRow /\ r.claim \in Ids
    BY <1>2 DEF Accepts, Effect, Records, ClaimLogRecords, EventLogRecords
  <2>2. d.claims[r.claim] \in ClaimRows
    BY <2>1, RowFacts
  <2>3. /\ Effect(d, r).cands = d.cands
        /\ \A id \in Ids \ {r.claim} : Effect(d, r).claims[id] = d.claims[id]
        /\ Effect(d, r).claims[r.claim].status = d.claims[r.claim].status
        /\ Effect(d, r).claims[r.claim].triple = d.claims[r.claim].triple
    BY <2>1, <2>2 DEF MergeEffect, Databases, ClaimRows
  <2>4. d.claims[r.claim].status # "ABSENT"
    BY <2>2 DEF ClaimRows, ClaimStatus
  <2> QED BY <2>1, <2>3, <2>4, NoRowFacts
<1>3. CASE r.kind \in {"add_contradiction", "record_event"}
  <2>1. Effect(d, r).claims = d.claims /\ Effect(d, r).cands = d.cands
    BY <1>3 DEF Effect, Databases
  <2> QED BY <2>1
<1> QED BY <1>1, <1>2, <1>3 DEF QuietKinds

LEMMA ProposeFacts ==
  ASSUME NEW d \in Databases, NEW r \in Records, r.kind = "propose_candidate_claim"
  PROVE  /\ r.id \in Ids /\ r.triple \in Triples
         /\ Effect(d, r).claims = d.claims
         /\ \A c \in Ids \ {r.id} : Effect(d, r).cands[c] = d.cands[c]
         /\ d.cands[r.id] # NoRow => Effect(d, r).cands[r.id] = d.cands[r.id]
         /\ d.cands[r.id] = NoRow => /\ Effect(d, r).cands[r.id].status = "PENDING"
                                     /\ Effect(d, r).cands[r.id].triple = r.triple
                                     /\ Effect(d, r).cands[r.id].claim = NoId
                                     /\ Effect(d, r).cands[r.id].reasons = {}
<1>1. r.id \in Ids /\ r.triple \in Triples /\ Effect(d, r) = ProposeEffect(d, r)
  BY DEF Records, ClaimLogRecords, EventLogRecords, Effect
<1>2. CASE d.cands[r.id] # NoRow
  BY <1>1, <1>2 DEF ProposeEffect
<1>3. CASE d.cands[r.id] = NoRow
  BY <1>1, <1>3 DEF ProposeEffect, Databases
<1> QED BY <1>1, <1>2, <1>3

LEMMA PromoteFacts ==
  ASSUME NEW d \in Databases, NEW r \in Records, r.kind = "promote_candidate_claim",
         Accepts(d, r)
  PROVE  /\ r.cand \in Ids /\ r.claim \in Ids
         /\ \/ d.cands[r.cand].status = "PROMOTED" /\ d.cands[r.cand].claim = r.claim
            \/ d.cands[r.cand].status = "PENDING" /\ d.claims[r.claim] # NoRow
         /\ d.cands[r.cand] # NoRow
         /\ Effect(d, r).claims = d.claims
         /\ \A c \in Ids \ {r.cand} : Effect(d, r).cands[c] = d.cands[c]
         /\ Effect(d, r).cands[r.cand].status = "PROMOTED"
         /\ Effect(d, r).cands[r.cand].claim = r.claim
         /\ Effect(d, r).cands[r.cand].triple = d.cands[r.cand].triple
         /\ Effect(d, r).cands[r.cand].reasons = d.cands[r.cand].reasons
<1>1. /\ r.cand \in Ids /\ r.claim \in Ids /\ Effect(d, r) = PromoteEffect(d, r)
      /\ PromoteAccepted(d, r)
  BY DEF Records, ClaimLogRecords, EventLogRecords, Accepts, Effect
<1>2. d.cands[r.cand] \in CandidateRows
  BY <1>1, RowFacts DEF PromoteAccepted
<1>3. /\ Effect(d, r).claims = d.claims
      /\ \A c \in Ids \ {r.cand} : Effect(d, r).cands[c] = d.cands[c]
      /\ Effect(d, r).cands[r.cand].status = "PROMOTED"
      /\ Effect(d, r).cands[r.cand].claim = r.claim
      /\ Effect(d, r).cands[r.cand].triple = d.cands[r.cand].triple
      /\ Effect(d, r).cands[r.cand].reasons = d.cands[r.cand].reasons
  BY <1>1, <1>2 DEF PromoteEffect, Databases, CandidateRows
<1> QED BY <1>1, <1>2, <1>3, NoRowFacts DEF PromoteAccepted

LEMMA RejectFacts ==
  ASSUME NEW d \in Databases, NEW r \in Records, r.kind = "reject_candidate_claim",
         Accepts(d, r)
  PROVE  /\ r.cand \in Ids
         /\ \/ d.cands[r.cand].status = "PENDING"
            \/ d.cands[r.cand].status = "REJECTED" /\ d.cands[r.cand].reasons = {r.reason}
         /\ d.cands[r.cand] # NoRow
         /\ Effect(d, r).claims = d.claims
         /\ \A c \in Ids \ {r.cand} : Effect(d, r).cands[c] = d.cands[c]
         /\ Effect(d, r).cands[r.cand].status = "REJECTED"
         /\ Effect(d, r).cands[r.cand].triple = d.cands[r.cand].triple
         /\ Effect(d, r).cands[r.cand].claim = d.cands[r.cand].claim
         /\ Effect(d, r).cands[r.cand].reasons = {r.reason}
<1>1. /\ r.cand \in Ids /\ Effect(d, r) = RejectEffect(d, r) /\ RejectAccepted(d, r)
  BY DEF Records, ClaimLogRecords, EventLogRecords, Accepts, Effect
<1>2. d.cands[r.cand] \in CandidateRows
  BY <1>1, RowFacts DEF RejectAccepted
<1>3. /\ Effect(d, r).claims = d.claims
      /\ \A c \in Ids \ {r.cand} : Effect(d, r).cands[c] = d.cands[c]
      /\ Effect(d, r).cands[r.cand].status = "REJECTED"
      /\ Effect(d, r).cands[r.cand].triple = d.cands[r.cand].triple
      /\ Effect(d, r).cands[r.cand].claim = d.cands[r.cand].claim
      /\ Effect(d, r).cands[r.cand].reasons = {r.reason}
  BY <1>1, <1>2 DEF RejectEffect, Databases, CandidateRows
<1> QED BY <1>1, <1>2, <1>3, NoRowFacts DEF RejectAccepted

-----------------------------------------------------------------------------
(* PromotionPaired is not inductive: whether two candidates share a claim,   *)
(* or a claim has its candidate's fact, is decided when the lines are        *)
(* written.  The invariant that is inductive speaks of the lines: an id is   *)
(* minted for one claim or one proposal, and a promotion joins a claim and a *)
(* proposal of one fact, its claim made for it alone.                        *)

LinesPair(lines) ==
  /\ \A q, r \in lines : /\ q.kind = "add_claim" /\ r.kind = "add_claim"
                         /\ q.claim = r.claim
                         => q.triple = r.triple
  /\ \A q, r \in lines : /\ q.kind = "propose_candidate_claim"
                         /\ r.kind = "propose_candidate_claim" /\ q.id = r.id
                         => q.triple = r.triple
  /\ \A q, r \in lines : /\ q.kind = "promote_candidate_claim"
                         /\ r.kind = "promote_candidate_claim" /\ q.claim = r.claim
                         => q.cand = r.cand
  /\ \A r \in lines : r.kind = "promote_candidate_claim" =>
       \E a, o \in lines : /\ a.kind = "add_claim" /\ a.claim = r.claim
                           /\ o.kind = "propose_candidate_claim" /\ o.id = r.cand
                           /\ a.triple = o.triple

\* What makes a line safe to append after these lines.
Fits(r, lines) ==
  /\ r.kind = "add_claim" =>
       \A q \in lines : q.kind = "add_claim" => q.claim # r.claim
  /\ r.kind = "propose_candidate_claim" =>
       \A q \in lines : q.kind = "propose_candidate_claim" => q.id # r.id
  /\ r.kind = "promote_candidate_claim" =>
       /\ \A q \in lines : q.kind = "promote_candidate_claim" => q.claim # r.claim
       /\ \E a, o \in lines : /\ a.kind = "add_claim" /\ a.claim = r.claim
                              /\ o.kind = "propose_candidate_claim" /\ o.id = r.cand
                              /\ a.triple = o.triple

\* Every append left to do fits the lines there will be when its turn comes.
AppendsFit(todo, lines) ==
  \A i \in DOMAIN todo :
    todo[i].do = "append" => Fits(todo[i].rec, lines \cup {todo[j].rec : j \in 1..(i - 1)})

\* A candidate a projection shows was proposed with that fact, and a promoted
\* one has a claim.
CandidatesBacked(d, lines) ==
  \A c \in Ids :
    /\ d.cands[c] # NoRow =>
         \E o \in lines : /\ o.kind = "propose_candidate_claim" /\ o.id = c
                          /\ o.triple = d.cands[c].triple
    /\ d.cands[c].status = "PROMOTED" => /\ d.cands[c].claim \in Ids
                                         /\ d.claims[d.cands[c].claim] # NoRow

\* A promotion works with the fact of a candidate it read earlier.
JobsProposed ==
  \A p \in Procs : job[p].op = "promote" =>
    \E o \in Logged : /\ o.kind = "propose_candidate_claim" /\ o.id = job[p].cand
                      /\ o.triple = job[p].triple

PairInv ==
  /\ LogInv
  /\ LinesPair(Logged)
  /\ AppendsFit(tx.todo, Logged)
  /\ CandidatesBacked(db, Logged)
  /\ CandidatesBacked(tx.work, Logged)
  /\ CandidatesBacked(rebuild.db, Logged)
  /\ JobsProposed

\* The invariant of the lines carries over to every projection they justify.
LEMMA PairedByLines ==
  ASSUME NEW d \in Databases, NEW lines, TransitionsLogged(d, lines), LinesPair(lines),
         CandidatesBacked(d, lines), NEW c \in Ids, d.cands[c].status = "PROMOTED"
  PROVE  /\ d.claims[d.cands[c].claim] # NoRow
         /\ d.claims[d.cands[c].claim].triple = d.cands[c].triple
         /\ \A other \in Ids \ {c} : d.cands[other].status = "PROMOTED"
                                     => d.cands[other].claim # d.cands[c].claim
<1> DEFINE id == d.cands[c].claim
<1>1. id \in Ids /\ d.claims[id] # NoRow
  BY DEF CandidatesBacked
<1>2. \A x \in Ids : d.cands[x].status = "PROMOTED" =>
        \E r \in lines : /\ r.kind = "promote_candidate_claim"
                         /\ r.cand = x /\ r.claim = d.cands[x].claim
  BY DEF TransitionsLogged, DecisionLogged
<1>3. PICK r \in lines : r.kind = "promote_candidate_claim" /\ r.cand = c /\ r.claim = id
  BY <1>2
<1>4. PICK a, o \in lines : /\ a.kind = "add_claim" /\ a.claim = id
                            /\ o.kind = "propose_candidate_claim" /\ o.id = c
                            /\ a.triple = o.triple
  BY <1>3 DEF LinesPair
<1>5. d.claims[id].triple = a.triple
  <2>1. PICK q \in lines : q.kind = "add_claim" /\ q.claim = id /\ q.triple = d.claims[id].triple
    BY <1>1 DEF TransitionsLogged, ClaimLogged
  <2> QED BY <1>4, <2>1 DEF LinesPair
<1>6. d.cands[c].triple = o.triple
  <2>1. d.cands[c] # NoRow
    BY NoRowFacts
  <2>2. PICK q \in lines : /\ q.kind = "propose_candidate_claim" /\ q.id = c
                           /\ q.triple = d.cands[c].triple
    BY <2>1 DEF CandidatesBacked
  <2> QED BY <1>4, <2>2 DEF LinesPair
<1>7. ASSUME NEW other \in Ids \ {c}, d.cands[other].status = "PROMOTED"
      PROVE  d.cands[other].claim # id
  BY <1>2, <1>3, <1>7 DEF LinesPair
<1> QED BY <1>1, <1>4, <1>5, <1>6, <1>7

LEMMA BackedByMore ==
  ASSUME NEW d, NEW lines, NEW more, lines \subseteq more, CandidatesBacked(d, lines)
  PROVE  CandidatesBacked(d, more)
BY DEF CandidatesBacked

LEMMA EmptyDbBacked == \A lines : CandidatesBacked(EmptyDb, lines)
BY NoRowFacts DEF CandidatesBacked, EmptyDb

\* Applying a line of the log keeps every candidate backed.
LEMMA EffectBacked ==
  ASSUME NEW d \in Databases, NEW lines, NEW r \in lines, r \in Records, Accepts(d, r),
         CandidatesBacked(d, lines)
  PROVE  CandidatesBacked(Effect(d, r), lines)
<1> DEFINE e == Effect(d, r)
<1>1. CASE /\ e.cands = d.cands
           /\ \A id \in Ids : d.claims[id] # NoRow => e.claims[id] # NoRow
  BY <1>1 DEF CandidatesBacked
<1>2. CASE r.kind = "add_claim"
  BY <1>1, <1>2, AddFacts
<1>3. CASE r.kind = "retire_claim"
  BY <1>1, <1>3, RetireFacts
<1>4. CASE r.kind = "supersede_claims"
  BY <1>1, <1>4, SupersedeFacts
<1>5. CASE r.kind \in QuietKinds
  BY <1>1, <1>5, QuietFacts
<1>6. CASE r.kind = "propose_candidate_claim"
  <2>1. /\ e.claims = d.claims
        /\ \A c \in Ids \ {r.id} : e.cands[c] = d.cands[c]
        /\ d.cands[r.id] # NoRow => e.cands[r.id] = d.cands[r.id]
        /\ d.cands[r.id] = NoRow => e.cands[r.id].status = "PENDING"
                                    /\ e.cands[r.id].triple = r.triple
    BY <1>6, ProposeFacts
  <2> HIDE DEF e
  <2>2. CandidatesBacked(e, lines)
    BY <1>6, <2>1 DEF CandidatesBacked
  <2> QED BY <2>2 DEF e
<1>7. CASE r.kind = "promote_candidate_claim"
  <2>1. /\ r.cand \in Ids /\ r.claim \in Ids /\ e.claims = d.claims
        /\ \A c \in Ids \ {r.cand} : e.cands[c] = d.cands[c]
        /\ \/ d.cands[r.cand].status = "PROMOTED" /\ d.cands[r.cand].claim = r.claim
           \/ d.cands[r.cand].status = "PENDING" /\ d.claims[r.claim] # NoRow
        /\ d.cands[r.cand] # NoRow
        /\ e.cands[r.cand].claim = r.claim
        /\ e.cands[r.cand].triple = d.cands[r.cand].triple
    BY <1>7, PromoteFacts
  <2> HIDE DEF e
  <2>2. CandidatesBacked(e, lines)
    BY <2>1 DEF CandidatesBacked
  <2> QED BY <2>2 DEF e
<1>8. CASE r.kind = "reject_candidate_claim"
  <2>1. /\ r.cand \in Ids /\ e.claims = d.claims
        /\ \A c \in Ids \ {r.cand} : e.cands[c] = d.cands[c]
        /\ d.cands[r.cand] # NoRow
        /\ e.cands[r.cand].status = "REJECTED"
        /\ e.cands[r.cand].triple = d.cands[r.cand].triple
    BY <1>8, RejectFacts
  <2> HIDE DEF e
  <2>2. CandidatesBacked(e, lines)
    BY <2>1 DEF CandidatesBacked
  <2> QED BY <2>2 DEF e
<1> QED
  BY <1>2, <1>3, <1>4, <1>5, <1>6, <1>7, <1>8, RecordKinds DEF Kinds, QuietKinds

\* A line that fits keeps the invariant of the lines.
LEMMA FittingLine ==
  ASSUME NEW lines, NEW r, LinesPair(lines), Fits(r, lines)
  PROVE  LinesPair(lines \cup {r})
<1>1. ASSUME NEW q \in lines \cup {r}, NEW s \in lines \cup {r},
             q.kind = "add_claim", s.kind = "add_claim", q.claim = s.claim
      PROVE  q.triple = s.triple
  BY <1>1 DEF LinesPair, Fits
<1>2. ASSUME NEW q \in lines \cup {r}, NEW s \in lines \cup {r},
             q.kind = "propose_candidate_claim", s.kind = "propose_candidate_claim", q.id = s.id
      PROVE  q.triple = s.triple
  BY <1>2 DEF LinesPair, Fits
<1>3. ASSUME NEW q \in lines \cup {r}, NEW s \in lines \cup {r},
             q.kind = "promote_candidate_claim", s.kind = "promote_candidate_claim",
             q.claim = s.claim
      PROVE  q.cand = s.cand
  BY <1>3 DEF LinesPair, Fits
<1>4. ASSUME NEW q \in lines \cup {r}, q.kind = "promote_candidate_claim"
      PROVE  \E a, o \in lines : /\ a.kind = "add_claim" /\ a.claim = q.claim
                                 /\ o.kind = "propose_candidate_claim" /\ o.id = q.cand
                                 /\ a.triple = o.triple
  BY <1>4 DEF LinesPair, Fits
<1> QED BY <1>1, <1>2, <1>3, <1>4 DEF LinesPair

LEMMA EmptyFits == \A lines : AppendsFit(<<>>, lines)
BY DEF AppendsFit

LEMMA WriteFits ==
  ASSUME NEW r, NEW lines, Fits(r, lines)
  PROVE  AppendsFit(Write(r), lines)
<1> DEFINE todo == Write(r)
<1>1. DOMAIN todo = {1, 2} /\ todo[1] = ToLog(r) /\ todo[2].do = "apply"
  BY DEF Write, ToDb
<1>2. lines \cup {todo[j].rec : j \in 1..(1 - 1)} = lines
  OBVIOUS
<1> HIDE DEF todo
<1>3. ASSUME NEW i \in DOMAIN todo, todo[i].do = "append"
      PROVE  Fits(todo[i].rec, lines \cup {todo[j].rec : j \in 1..(i - 1)})
  <2>1. i = 1 /\ todo[i].rec = r
    BY <1>1, <1>3 DEF ToLog
  <2> QED BY <1>2, <2>1
<1> QED BY <1>3 DEF AppendsFit, todo

\* Records that name no new claim or candidate always fit.
LEMMA OtherFits ==
  ASSUME NEW r, NEW lines,
         r.kind \notin {"add_claim", "propose_candidate_claim", "promote_candidate_claim"}
  PROVE  Fits(r, lines) /\ AppendsFit(Write(r), lines)
BY WriteFits DEF Fits

LEMMA SupersedeFits == \A S, lines : AppendsFit(Supersede(S), lines)
BY EmptyFits, OtherFits DEF Supersede

\* The first step of a transaction, taken.
LEMMA FirstFit ==
  ASSUME NEW todo \in Seq(Steps), todo # <<>>, NEW lines, AppendsFit(todo, lines)
  PROVE  /\ Head(todo).do = "append" => Fits(Head(todo).rec, lines)
         /\ AppendsFit(Tail(todo), lines \cup {Head(todo).rec})
<1> DEFINE rest == Tail(todo)
           first == Head(todo)
<1>1. /\ 1 \in DOMAIN todo /\ first = todo[1] /\ rest \in Seq(Steps)
      /\ DOMAIN todo = 1..Len(todo) /\ DOMAIN rest = 1..Len(rest)
      /\ Len(todo) \in Nat /\ Len(rest) = Len(todo) - 1
      /\ \A i \in DOMAIN rest : rest[i] = todo[i + 1]
  OBVIOUS
<1> HIDE DEF rest, first
<1>2. lines \cup {todo[j].rec : j \in 1..(1 - 1)} = lines
  OBVIOUS
<1>3. first.do = "append" => Fits(first.rec, lines)
  BY <1>1, <1>2 DEF AppendsFit
<1>4. ASSUME NEW i \in DOMAIN rest, rest[i].do = "append"
      PROVE  Fits(rest[i].rec, (lines \cup {first.rec}) \cup {rest[j].rec : j \in 1..(i - 1)})
  <2>1. i \in Nat /\ i + 1 \in DOMAIN todo /\ rest[i] = todo[i + 1] /\ (i + 1) - 1 = i /\ i >= 1
    BY <1>1
  <2>2. Fits(rest[i].rec, lines \cup {todo[j].rec : j \in 1..i})
    BY <1>4, <2>1 DEF AppendsFit
  <2>3. ASSUME NEW j \in 1..i
        PROVE  todo[j].rec \in {first.rec} \cup {rest[m].rec : m \in 1..(i - 1)}
    <3>1. CASE j = 1
      BY <1>1, <3>1
    <3>2. CASE j # 1
      <4>1. j - 1 \in 1..(i - 1) /\ j - 1 \in DOMAIN rest /\ (j - 1) + 1 = j
        BY <1>1, <2>1, <3>2
      <4>2. rest[j - 1] = todo[j]
        BY <1>1, <4>1
      <4> QED BY <4>1, <4>2
    <3> QED BY <3>1, <3>2
  <2>4. ASSUME NEW m \in 1..(i - 1)
        PROVE  rest[m].rec \in {todo[j].rec : j \in 1..i}
    <3>1. m + 1 \in 1..i /\ m \in DOMAIN rest
      BY <1>1, <2>1
    <3>2. rest[m] = todo[m + 1]
      BY <1>1, <3>1
    <3> QED BY <3>1, <3>2
  <2>5. first.rec \in {todo[j].rec : j \in 1..i}
    BY <1>1, <2>1
  <2>6. lines \cup {todo[j].rec : j \in 1..i}
          = (lines \cup {first.rec}) \cup {rest[j].rec : j \in 1..(i - 1)}
    BY <2>3, <2>4, <2>5
  <2> QED BY <2>2, <2>6
<1> QED BY <1>3, <1>4 DEF AppendsFit, rest, first

\* A freshly minted id is in no line that makes a claim or a candidate.
LEMMA FreshId ==
  ASSUME NEW p \in Procs, NEW id, Minted(p, id), NEW q \in Logged
  PROVE  /\ id \in Ids
         /\ q.kind = "add_claim" => q.claim # id
         /\ q.kind = "propose_candidate_claim" => q.id # id
<1>1. id \in Ids /\ id \notin LoggedIds
  BY DEF Minted, Mintable
<1>2. NewestMintedId(q) \in LoggedIds
  BY DEF Logged, LoggedIds
<1> QED BY <1>1, <1>2 DEF NewestMintedId

LEMMA BeginsFit ==
  ASSUME PairInv, NEW p \in Procs, Begins(p)
  PROVE  \E op, todo : TakeLock(p, op, todo) /\ AppendsFit(todo, Logged)
<1>1. CASE BeginAddClaim(p)
  <2> DEFINE rec(id) == [kind |-> "add_claim", ts |-> job[p].ts, claim |-> id,
                         triple |-> job[p].triple, source |-> <<"source", job[p].source>>,
                         prov |-> "USER_ASSERTED", conf |-> 19]
  <2>1. PICK id \in Ids : TakeLock(p, "add_claim", Write(rec(id))) /\ Minted(p, id)
    BY <1>1 DEF BeginAddClaim
  <2>2. Fits(rec(id), Logged)
    BY <2>1, FreshId DEF Fits
  <2> HIDE DEF rec
  <2> QED BY <2>1, <2>2, WriteFits
<1>2. CASE BeginContradict(p)
  <2> DEFINE rec(id) == [kind |-> "add_contradiction", id |-> id, claim |-> job[p].claim,
                         new |-> job[p].new]
  <2>1. PICK id \in Ids : TakeLock(p, "contradict", Write(rec(id)))
    BY <1>2 DEF BeginContradict
  <2>2. rec(id).kind = "add_contradiction"
    OBVIOUS
  <2> HIDE DEF rec
  <2> QED BY <2>1, <2>2, OtherFits
<1>3. CASE BeginRetire(p)
  <2> DEFINE rec == [kind |-> "retire_claim", ts |-> job[p].ts, claim |-> job[p].claim,
                     reason |-> job[p].reason]
             todo == IF db.claims[job[p].claim].status \in {"ABSENT", "INVALIDATED"}
                     THEN <<>> ELSE Write(rec)
  <2>1. TakeLock(p, "retire", todo)
    BY <1>3 DEF BeginRetire
  <2>2. rec.kind = "retire_claim"
    OBVIOUS
  <2> HIDE DEF rec
  <2>3. AppendsFit(todo, Logged)
    BY <2>2, EmptyFits, OtherFits
  <2> HIDE DEF todo
  <2> QED BY <2>1, <2>3
<1>4. CASE BeginMerge(p)
  <2> DEFINE todo == <<>>
  <2>1. TakeLock(p, "merge", todo) /\ AppendsFit(todo, Logged)
    BY <1>4, EmptyFits DEF BeginMerge
  <2> HIDE DEF todo
  <2> QED BY <2>1
<1>5. CASE BeginDecay(p)
  <2> DEFINE todo == IF Decaying(db) = {} THEN <<>> ELSE Write(DecayRecord(db))
  <2>1. TakeLock(p, "decay", todo)
    BY <1>5 DEF BeginDecay
  <2>2. DecayRecord(db).kind = "decay_confidence"
    BY DEF DecayRecord
  <2>3. AppendsFit(todo, Logged)
    BY <2>2, EmptyFits, OtherFits
  <2> HIDE DEF todo
  <2> QED BY <2>1, <2>3
<1>6. CASE BeginSupersede(p)
  BY <1>6, SupersedeFits DEF BeginSupersede
<1>7. CASE BeginRecordEvent(p)
  <2> DEFINE rec(id) == [kind |-> "record_event", id |-> id]
  <2>1. PICK id \in Ids : TakeLock(p, "record_event", Write(rec(id)))
    BY <1>7 DEF BeginRecordEvent
  <2>2. rec(id).kind = "record_event"
    OBVIOUS
  <2> HIDE DEF rec
  <2> QED BY <2>1, <2>2, OtherFits
<1>8. CASE BeginPropose(p)
  <2> DEFINE rec(id) == [kind |-> "propose_candidate_claim", id |-> id, event |-> job[p].event,
                         triple |-> job[p].triple]
  <2>1. PICK id \in Ids : TakeLock(p, "propose", Write(rec(id))) /\ Minted(p, id)
    BY <1>8 DEF BeginPropose
  <2>2. Fits(rec(id), Logged)
    BY <2>1, FreshId DEF Fits
  <2> HIDE DEF rec
  <2> QED BY <2>1, <2>2, WriteFits
<1>9. CASE BeginPromote(p)
  <2> DEFINE claim(id) == [kind |-> "add_claim", ts |-> job[p].ts, claim |-> id,
                           triple |-> job[p].triple, source |-> EventRef(job[p].event),
                           prov |-> "INFERRED", conf |-> 9]
             promotion(id) == [kind |-> "promote_candidate_claim", cand |-> job[p].cand,
                               claim |-> id]
             todo(id) == <<ToLog(claim(id)), ToLog(promotion(id)),
                           ToDb(claim(id)), ToDb(promotion(id))>>
  <2>1. PICK id \in Ids : TakeLock(p, "promote", todo(id)) /\ Minted(p, id)
    BY <1>9 DEF BeginPromote
  <2>2. Fits(claim(id), Logged)
    BY <2>1, FreshId DEF Fits
  <2>3. PICK o \in Logged : /\ o.kind = "propose_candidate_claim" /\ o.id = job[p].cand
                            /\ o.triple = job[p].triple
    BY <2>1 DEF TakeLock, PairInv, JobsProposed
  <2>4. \A q \in Logged : q.kind = "promote_candidate_claim" => q.claim # id
    BY <2>1, FreshId DEF PairInv, LinesPair
  <2>5. Fits(promotion(id), Logged \cup {claim(id)})
    <3>1. /\ claim(id).kind = "add_claim" /\ claim(id).claim = id
          /\ claim(id).triple = job[p].triple
          /\ promotion(id).kind = "promote_candidate_claim"
          /\ promotion(id).cand = job[p].cand /\ promotion(id).claim = id
      OBVIOUS
    <3> HIDE DEF claim, promotion
    <3> QED BY <2>3, <2>4, <3>1 DEF Fits
  <2> HIDE DEF claim, promotion
  <2>6. /\ DOMAIN todo(id) = 1..4
        /\ todo(id)[1] = ToLog(claim(id)) /\ todo(id)[2] = ToLog(promotion(id))
        /\ todo(id)[3].do = "apply" /\ todo(id)[4].do = "apply"
    BY DEF ToDb
  <2> HIDE DEF todo
  <2>7. ASSUME NEW i \in DOMAIN todo(id), todo(id)[i].do = "append"
        PROVE  Fits(todo(id)[i].rec, Logged \cup {todo(id)[j].rec : j \in 1..(i - 1)})
    <3>1. CASE i = 1
      <4>1. Logged \cup {todo(id)[j].rec : j \in 1..(1 - 1)} = Logged
        OBVIOUS
      <4> QED BY <2>2, <2>6, <3>1, <4>1 DEF ToLog
    <3>2. CASE i = 2
      <4>1. {todo(id)[j].rec : j \in 1..(2 - 1)} = {todo(id)[1].rec}
        OBVIOUS
      <4>2. todo(id)[1].rec = claim(id) /\ todo(id)[2].rec = promotion(id)
        BY <2>6 DEF ToLog
      <4> QED BY <2>5, <3>2, <4>1, <4>2
    <3> QED BY <2>6, <2>7, <3>1, <3>2
  <2>8. AppendsFit(todo(id), Logged)
    BY <2>7 DEF AppendsFit
  <2> QED BY <2>1, <2>8
<1>10. CASE BeginReject(p)
  <2> DEFINE rec == [kind |-> "reject_candidate_claim", cand |-> job[p].cand,
                     reason |-> job[p].reason]
             todo == IF db.cands[job[p].cand].status = "PENDING" THEN Write(rec) ELSE <<>>
  <2>1. TakeLock(p, "reject", todo)
    BY <1>10 DEF BeginReject
  <2>2. rec.kind = "reject_candidate_claim"
    OBVIOUS
  <2> HIDE DEF rec
  <2>3. AppendsFit(todo, Logged)
    BY <2>2, EmptyFits, OtherFits
  <2> HIDE DEF todo
  <2> QED BY <2>1, <2>3
<1> QED
  BY <1>1, <1>2, <1>3, <1>4, <1>5, <1>6, <1>7, <1>8, <1>9, <1>10 DEF Begins

\* Appending a line adds that line and no other.
LEMMA LoggedAppend ==
  ASSUME TypeInv, NEW p \in Procs, AppendLine(p)
  PROVE  Logged' = Logged \cup {Head(tx.todo).rec}
<1> DEFINE r == Head(tx.todo).rec
           x == SeriesOf(r)
<1>1. x \in Series
  BY DEF SeriesOf, Series
<1>2. logs' = [logs EXCEPT ![x] = Append(logs[x], r)] /\ logs \in [Series -> Seq(Records)]
  BY DEF AppendLine, TypeInv, TypeOK
<1>3. Logged \subseteq Logged' /\ r \in Logged' /\ r \in Records
  <2>1. tx.todo \in Seq(Steps) /\ tx.todo # <<>>
    BY DEF AppendLine, TypeInv, TypeOK
  <2>2. Head(tx.todo) \in Steps
    BY <2>1
  <2> QED BY <2>2, LoggedGrows DEF Steps
<1> HIDE DEF r, x
<1>4. ASSUME NEW s \in Series, NEW i \in DOMAIN logs'[s]
      PROVE  logs'[s][i] \in Logged \cup {r}
  <2>1. CASE s # x
    BY <1>1, <1>2, <2>1 DEF Logged
  <2>2. CASE s = x
    <3>1. logs[x] \in Seq(Records) /\ logs'[x] = Append(logs[x], r)
      BY <1>1, <1>2
    <3>2. i = Len(logs[x]) + 1 \/ i \in DOMAIN logs[x]
      BY <1>3, <2>2, <3>1
    <3>3. i \in DOMAIN logs[x] => logs'[x][i] = logs[x][i]
      BY <1>3, <3>1
    <3>4. logs'[x][Len(logs[x]) + 1] = r
      BY <1>3, <3>1
    <3> QED BY <1>1, <2>2, <3>2, <3>3, <3>4 DEF Logged
  <2> QED BY <2>1, <2>2
<1>5. Logged' \subseteq Logged \cup {r}
  BY <1>4 DEF Logged
<1> QED BY <1>3, <1>5 DEF r

LEMMA JobsStay ==
  ASSUME JobsProposed, Logged \subseteq Logged',
         \A p \in Procs : job'[p] = job[p] \/ job'[p].op # "promote"
  PROVE  JobsProposed'
BY DEF JobsProposed

\* Steps that leave the logs and the projections alone.
LEMMA SamePairs ==
  ASSUME PairInv, LogInv', logs' = logs, db' = db, tx' = tx, rebuild'.db = rebuild.db,
         \A p \in Procs : job'[p] = job[p] \/ job'[p].op # "promote"
  PROVE  PairInv'
<1>1. Logged' = Logged
  BY DEF Logged
<1>2. JobsProposed'
  BY <1>1, JobsStay DEF PairInv
<1> QED BY <1>1, <1>2 DEF PairInv

LEMMA PairInit == Init => PairInv
<1> SUFFICES ASSUME Init PROVE PairInv
  OBVIOUS
<1>1. db = EmptyDb /\ tx.work = EmptyDb /\ rebuild.db = EmptyDb /\ tx.todo = <<>>
  BY DEF Init, NoTx, NoRebuild
<1>2. Logged = {}
  BY DEF Init, Logged
<1>3. LinesPair(Logged)
  BY <1>2 DEF LinesPair
<1>4. JobsProposed
  BY DEF Init, JobsProposed, NoJob
<1> QED BY <1>1, <1>3, <1>4, EmptyFits, EmptyDbBacked, LogInit DEF PairInv

LEMMA CallsPair ==
  ASSUME PairInv, LogInv', NEW p \in Procs, Calls(p)
  PROVE  PairInv'
<1>1. PICK j \in Jobs : Call(p, j)
  BY CallsType DEF PairInv, LogInv, TypeInv
<1>2. /\ logs' = logs /\ db' = db /\ tx' = tx /\ rebuild' = rebuild
      /\ job' = [job EXCEPT ![p] = j] /\ job \in [Procs -> Jobs]
  BY <1>1 DEF Call, PairInv, LogInv, TypeInv, TypeOK
<1>3. job'[p] = j /\ \A q \in Procs \ {p} : job'[q] = job[q]
  BY <1>2
<1>4. Logged' = Logged
  BY <1>2 DEF Logged
<1>5. CASE CallPromote(p)
  <2>1. PICK c \in Ids :
          /\ db.cands[c].status = "PENDING"
          /\ Call(p, [op |-> "promote", cand |-> c, event |-> db.cands[c].event,
                      triple |-> db.cands[c].triple, ts |-> clock])
    BY <1>5 DEF CallPromote
  <2>2. job'[p].cand = c /\ job'[p].triple = db.cands[c].triple
    BY <1>2, <2>1 DEF Call
  <2>3. \E o \in Logged : /\ o.kind = "propose_candidate_claim" /\ o.id = c
                          /\ o.triple = db.cands[c].triple
    BY <2>1, NoRowFacts DEF PairInv, CandidatesBacked
  <2>4. JobsProposed'
    BY <1>3, <1>4, <2>2, <2>3 DEF PairInv, JobsProposed
  <2> QED BY <1>2, <1>4, <2>4 DEF PairInv
<1>6. CASE ~CallPromote(p)
  <2>1. job \in [Procs -> Jobs]
    BY <1>2
  <2>2. job'[p].op # "promote"
    <3>1. CASE CallAddClaim(p)
      BY <2>1, <3>1 DEF CallAddClaim, Call
    <3>2. CASE CallContradict(p)
      BY <2>1, <3>2 DEF CallContradict, Call
    <3>3. CASE CallRetire(p)
      BY <2>1, <3>3 DEF CallRetire, Call
    <3>4. CASE CallConsolidate(p)
      BY <2>1, <3>4 DEF CallConsolidate, Call
    <3>5. CASE CallDecay(p)
      BY <2>1, <3>5 DEF CallDecay, Call
    <3>6. CASE CallRecordEvent(p)
      BY <2>1, <3>6 DEF CallRecordEvent, Call
    <3>7. CASE CallPropose(p)
      BY <2>1, <3>7 DEF CallPropose, Call
    <3>8. CASE CallReject(p)
      BY <2>1, <3>8 DEF CallReject, Call
    <3> QED BY <1>6, <3>1, <3>2, <3>3, <3>4, <3>5, <3>6, <3>7, <3>8 DEF Calls
  <2> QED BY <1>2, <1>3, <2>2, SamePairs
<1> QED BY <1>5, <1>6

LEMMA WorksPair ==
  ASSUME PairInv, LogInv', NEW p \in Procs, Works(p)
  PROVE  PairInv'
<1>1. /\ tx.todo \in Seq(Steps) /\ tx.work \in Databases /\ TypeInv
      /\ job \in [Procs -> Jobs]
      /\ AppliesLogged(tx.todo, Logged) /\ JobsProposed /\ LinesPair(Logged)
      /\ AppendsFit(tx.todo, Logged) /\ CandidatesBacked(db, Logged)
      /\ CandidatesBacked(tx.work, Logged) /\ CandidatesBacked(rebuild.db, Logged)
  BY DEF PairInv, LogInv, TypeInv, TypeOK
<1>2. logs' = logs => Logged' = Logged
  BY DEF Logged
<1>3. tx.todo # <<>> => Head(tx.todo) \in Steps /\ Head(tx.todo).rec \in Records
  <2>1. tx.todo # <<>> => Head(tx.todo) \in Steps
    BY <1>1
  <2> QED BY <2>1 DEF Steps
<1>4. CASE MergeGroup(p)
  <2>1. PICK g \in job[p].groups :
          /\ tx' = [tx EXCEPT !.todo = Write(MergeRecord(tx.work, g[1], g[2]))]
          /\ job' = [job EXCEPT ![p] = [op |-> "merge", groups |-> job[p].groups \ {g}]]
    BY <1>4 DEF MergeGroup
  <2>2. tx'.work = tx.work /\ tx'.todo = Write(MergeRecord(tx.work, g[1], g[2]))
    BY <2>1 DEF PairInv, LogInv, TypeInv, TypeOK
  <2>3. logs' = logs /\ db' = db /\ rebuild' = rebuild
    BY <1>4 DEF MergeGroup
  <2>4. \A q \in Procs : job'[q] = job[q] \/ job'[q].op # "promote"
    BY <1>1, <2>1
  <2>5. AppendsFit(tx'.todo, Logged)
    <3>1. MergeRecord(tx.work, g[1], g[2]).kind = "merge_source_refs"
      BY DEF MergeRecord
    <3> QED BY <2>2, <3>1, OtherFits
  <2>6. Logged' = Logged
    BY <1>2, <2>3
  <2>7. JobsProposed'
    BY <1>1, <2>4, <2>6, JobsStay
  <2> QED BY <1>1, <2>2, <2>3, <2>5, <2>6, <2>7 DEF PairInv
<1>5. CASE SupersedeConflicts(p)
  <2>1. tx'.work = tx.work /\ tx'.todo = Supersede(ConflictIds(tx.work))
    BY <1>5 DEF SupersedeConflicts, PairInv, LogInv, TypeInv, TypeOK
  <2>2. logs' = logs /\ db' = db /\ rebuild' = rebuild
    BY <1>5 DEF SupersedeConflicts
  <2>3. \A q \in Procs : job'[q] = job[q] \/ job'[q].op # "promote"
    BY <1>1, <1>5 DEF SupersedeConflicts
  <2>4. Logged' = Logged
    BY <1>2, <2>2
  <2>5. JobsProposed'
    BY <1>1, <2>3, <2>4, JobsStay
  <2> QED BY <1>1, <2>1, <2>2, <2>4, <2>5, SupersedeFits DEF PairInv
<1>6. CASE AppendLine(p)
  <2>1. Logged' = Logged \cup {Head(tx.todo).rec}
    BY <1>1, <1>6, LoggedAppend
  <2>2. /\ tx'.work = tx.work /\ tx'.todo = Tail(tx.todo) /\ db' = db /\ rebuild' = rebuild
        /\ job' = job /\ tx.todo # <<>> /\ Head(tx.todo).do = "append"
    BY <1>6 DEF AppendLine, PairInv, LogInv, TypeInv, TypeOK
  <2>3. Fits(Head(tx.todo).rec, Logged) /\ AppendsFit(Tail(tx.todo), Logged')
    BY <1>1, <2>1, <2>2, FirstFit
  <2>4. LinesPair(Logged')
    BY <1>1, <2>1, <2>3, FittingLine
  <2>5. /\ CandidatesBacked(db, Logged') /\ CandidatesBacked(tx.work, Logged')
        /\ CandidatesBacked(rebuild.db, Logged')
    BY <1>1, <2>1, BackedByMore
  <2>6. JobsProposed'
    BY <1>1, <2>1, <2>2, JobsStay
  <2> QED BY <2>2, <2>3, <2>4, <2>5, <2>6 DEF PairInv
<1>7. CASE ApplyRecord(p)
  <2> DEFINE r == Head(tx.todo).rec
  <2>1. /\ tx.todo # <<>> /\ Head(tx.todo).do = "apply" /\ Accepts(tx.work, r)
        /\ tx'.todo = Tail(tx.todo) /\ tx'.work = Effect(tx.work, r)
        /\ logs' = logs /\ db' = db /\ rebuild' = rebuild /\ job' = job
    BY <1>7 DEF ApplyRecord, PairInv, LogInv, TypeInv, TypeOK
  <2>2. r \in Logged /\ r \in Records
    BY <1>1, <1>3, <2>1, FirstStep
  <2>3. Logged' = Logged
    BY <1>2, <2>1
  <2>4. AppendsFit(Tail(tx.todo), Logged)
    <3>1. Logged \cup {Head(tx.todo).rec} = Logged
      BY <2>2
    <3> QED BY <1>1, <2>1, <3>1, FirstFit
  <2>5. CandidatesBacked(Effect(tx.work, r), Logged)
    BY <1>1, <2>1, <2>2, EffectBacked
  <2>6. JobsProposed'
    BY <1>1, <2>1, <2>3, JobsStay
  <2> HIDE DEF r
  <2> QED BY <1>1, <2>1, <2>3, <2>4, <2>5, <2>6 DEF PairInv
<1>8. CASE Commit(p)
  <2>1. /\ logs' = logs /\ db' = tx.work /\ rebuild' = rebuild
        /\ tx'.work = EmptyDb /\ tx'.todo = <<>>
    BY <1>8 DEF Commit, NoTx
  <2>2. NextJob(p).op # "promote"
    BY DEF NextJob, NoJob
  <2>3. \A q \in Procs : job'[q] = job[q] \/ job'[q].op # "promote"
    BY <1>1, <1>8, <2>2 DEF Commit
  <2>4. Logged' = Logged
    BY <1>2, <2>1
  <2>5. JobsProposed'
    BY <1>1, <2>3, <2>4, JobsStay
  <2> QED BY <1>1, <2>1, <2>4, <2>5, EmptyFits, EmptyDbBacked DEF PairInv
<1>9. CASE StepFails(p)
  <2>1. /\ logs' = logs /\ db' = db /\ rebuild' = rebuild
        /\ tx'.work = EmptyDb /\ tx'.todo = <<>>
    BY <1>9 DEF StepFails, Rollback, NoTx
  <2>2. \A q \in Procs : job'[q] = job[q] \/ job'[q].op # "promote"
    BY <1>1, <1>9 DEF StepFails, NoJob
  <2>3. Logged' = Logged
    BY <1>2, <2>1
  <2>4. JobsProposed'
    BY <1>1, <2>2, <2>3, JobsStay
  <2> QED BY <1>1, <2>1, <2>3, <2>4, EmptyFits, EmptyDbBacked DEF PairInv
<1> QED
  BY <1>4, <1>5, <1>6, <1>7, <1>8, <1>9 DEF Works

LEMMA RebuildingPair ==
  ASSUME PairInv, LogInv', Rebuilding
  PROVE  PairInv'
<1>1. /\ TypeOK /\ rebuild \in Rebuilds /\ rebuild.db \in Databases
      /\ CandidatesBacked(db, Logged) /\ CandidatesBacked(rebuild.db, Logged)
  BY DEF PairInv, LogInv, TypeInv, TypeOK, Rebuilds
<1>2. logs' = logs /\ tx' = tx /\ job' = job
  BY DEF Rebuilding, RebuildStart, RebuildApply, RebuildRefuse, RebuildRemove, RebuildRename,
         RebuildCrash
<1>3. Logged' = Logged
  BY <1>2 DEF Logged
<1>4. CandidatesBacked(db', Logged)
  BY <1>1, EmptyDbBacked
     DEF Rebuilding, RebuildStart, RebuildApply, RebuildRefuse, RebuildRemove, RebuildRename,
         RebuildCrash
<1>5. CandidatesBacked(rebuild'.db, Logged)
  <2>1. CASE RebuildApply
    <3> DEFINE r == LineAt(rebuild.pos + 1)
    <3>1. rebuild.pos \in Nat /\ rebuild.pos < Lines
      BY <1>1, <2>1 DEF RebuildApply, Rebuilds
    <3>2. r \in Records /\ r \in Logged
      BY <1>1, <3>1, LineAtType
    <3>3. CandidatesBacked(Effect(rebuild.db, r), Logged)
      BY <1>1, <2>1, <3>2, EffectBacked DEF RebuildApply
    <3>4. rebuild'.db = Effect(rebuild.db, r)
      BY <1>1, <2>1 DEF RebuildApply, Rebuilds
    <3> QED BY <3>3, <3>4
  <2>2. CASE ~RebuildApply
    <3>1. NoRebuild.db = EmptyDb
      BY DEF NoRebuild
    <3>2. rebuild'.db = rebuild.db \/ rebuild'.db = EmptyDb
      BY <1>1, <2>2, <3>1
         DEF Rebuilding, RebuildStart, RebuildRefuse, RebuildRemove, RebuildRename, RebuildCrash,
             Rebuilds, NoRebuild
    <3> QED BY <1>1, <3>2, EmptyDbBacked
  <2> QED BY <2>1, <2>2
<1>6. JobsProposed'
  BY <1>2, <1>3, JobsStay DEF PairInv
<1> QED BY <1>2, <1>3, <1>4, <1>5, <1>6 DEF PairInv

LEMMA PairNext == PairInv /\ [Next]_vars => PairInv'
<1> SUFFICES ASSUME PairInv, [Next]_vars PROVE PairInv'
  OBVIOUS
<1>1. LogInv' /\ job \in [Procs -> Jobs]
  BY LogNext DEF PairInv, LogInv, TypeInv, TypeOK
<1>2. ASSUME NEW p \in Procs, Calls(p) PROVE PairInv'
  BY <1>1, <1>2, CallsPair
<1>3. ASSUME NEW p \in Procs, Begins(p) PROVE PairInv'
  <2>1. PICK op, todo : TakeLock(p, op, todo) /\ AppendsFit(todo, Logged)
    BY <1>3, BeginsFit
  <2>2. logs' = logs /\ db' = db /\ rebuild' = rebuild /\ tx'.work = db /\ tx'.todo = todo
    BY <2>1 DEF TakeLock
  <2>3. job' = job
    BY <1>3, BeginsType DEF PairInv, LogInv, TypeInv
  <2>4. Logged' = Logged
    BY <2>2 DEF Logged
  <2>5. JobsProposed'
    BY <2>3, <2>4, JobsStay DEF PairInv
  <2> QED BY <1>1, <2>1, <2>2, <2>4, <2>5 DEF PairInv
<1>4. ASSUME NEW p \in Procs, Works(p) PROVE PairInv'
  BY <1>1, <1>4, WorksPair
<1>5. ASSUME NEW p \in Procs, BusyTimeout(p) \/ Open(p) \/ Close(p) PROVE PairInv'
  <2>1. \A q \in Procs : job'[q] = job[q] \/ job'[q].op # "promote"
    BY <1>1, <1>5 DEF BusyTimeout, Open, Close, Stop, NoJob
  <2> QED BY <1>1, <1>5, <2>1, SamePairs DEF BusyTimeout, Open, Close
<1>6. ASSUME NEW p \in Procs, Crash(p) PROVE PairInv'
  <2>1. \A q \in Procs : job'[q] = job[q] \/ job'[q].op # "promote"
    BY <1>1, <1>6 DEF Crash, Stop, NoJob
  <2>2. CASE writer = p
    <3>1. logs' = logs /\ db' = db /\ rebuild' = rebuild /\ tx'.work = EmptyDb /\ tx'.todo = <<>>
      BY <1>6, <2>2 DEF Crash, Rollback, NoTx
    <3>2. Logged' = Logged
      BY <3>1 DEF Logged
    <3>3. JobsProposed'
      BY <2>1, <3>2, JobsStay DEF PairInv
    <3> QED BY <1>1, <3>1, <3>2, <3>3, EmptyFits, EmptyDbBacked DEF PairInv
  <2>3. CASE writer # p
    BY <1>1, <1>6, <2>1, <2>3, SamePairs DEF Crash
  <2> QED BY <2>2, <2>3
<1>7. CASE Tick
  BY <1>1, <1>7, SamePairs DEF Tick
<1>8. CASE Rebuilding
  BY <1>1, <1>8, RebuildingPair
<1>9. CASE UNCHANGED vars
  BY <1>1, <1>9, SamePairs DEF vars
<1> QED
  BY <1>2, <1>3, <1>4, <1>5, <1>6, <1>7, <1>8, <1>9 DEF Next

\* Whatever races, crashes and rebuilds happen, a promoted candidate owns a
\* claim of its own fact that no other candidate has, in the committed
\* projection and in one being rebuilt (promote_candidate_claim).
THEOREM PromotionsPair == Spec => []PromotionPaired
<1>1. PairInv => PromotionPaired
  <2> SUFFICES ASSUME PairInv PROVE PromotionPaired
    OBVIOUS
  <2>1. \A d \in {db, rebuild.db} :
          d \in Databases /\ TransitionsLogged(d, Logged) /\ CandidatesBacked(d, Logged)
    BY DEF PairInv, LogInv, LogFirst, TypeInv, TypeOK, Rebuilds
  <2>2. LinesPair(Logged)
    BY DEF PairInv
  <2> QED BY <2>1, <2>2, PairedByLines DEF PromotionPaired
<1> QED
  BY PairInit, PairNext, <1>1, PTL DEF Spec

-----------------------------------------------------------------------------
(* A transaction that commits takes one step of the lifecycle, because the   *)
(* projection it works on is, until the last of its records is applied, the  *)
(* committed one.  Nothing else changes the committed projection meanwhile:  *)
(* the writer is alone, and a rebuild runs only while every store is closed. *)

\* A record that is news to the projection d.
Starts(d, r) ==
  \/ r.kind = "add_claim" /\ d.claims[r.claim] = NoRow
  \/ r.kind = "retire_claim" /\ d.claims[r.claim].status \in {"ACTIVE", "SUPERSEDED"}
  \/ r.kind = "propose_candidate_claim" /\ d.cands[r.id] = NoRow
  \/ r.kind = "reject_candidate_claim" /\ d.cands[r.cand].status = "PENDING"
  \/ r.kind \in QuietKinds

Left(todo, r) == todo = Write(r) \/ todo = <<ToDb(r)>>

\* The transaction of most operations writes one record, or none.
OneRecord(d, e, todo) ==
  \/ todo = <<>> /\ e = d
  \/ \E r \in Records : /\ Starts(d, r)
                        /\ \/ Left(todo, r) /\ e = d
                           \/ todo = <<>> /\ Accepts(d, r) /\ e = Effect(d, r)

SameLife(d, e) ==
  /\ e.cands = d.cands
  /\ \A id \in Ids : e.claims[id].status = d.claims[id].status

Merging(d, e, todo) ==
  /\ SameLife(d, e)
  /\ todo = <<>> \/ \E r \in Records : r.kind \in QuietKinds /\ Left(todo, r)

\* Claims were superseded, and those of S still have to be.
Superseding(S) == [kind |-> "supersede_claims", claims |-> S]

Sweeping(d, e, todo, S) ==
  /\ e.cands = d.cands
  /\ \A id \in Ids : \/ e.claims[id].status = d.claims[id].status
                     \/ d.claims[id].status = "ACTIVE" /\ e.claims[id].status = "SUPERSEDED"
  /\ todo = Supersede(S) \/ todo = <<ToDb(Superseding(S))>>

Promoting(d, e, todo) ==
  \E a, q \in Records :
    /\ a.kind = "add_claim" /\ d.claims[a.claim] = NoRow
    /\ q.kind = "promote_candidate_claim" /\ q.claim = a.claim
    /\ \/ /\ e = d
          /\ \/ todo = <<ToLog(a), ToLog(q), ToDb(a), ToDb(q)>>
             \/ todo = <<ToLog(q), ToDb(a), ToDb(q)>>
             \/ todo = <<ToDb(a), ToDb(q)>>
       \/ todo = <<ToDb(q)>> /\ Accepts(d, a) /\ e = Effect(d, a)
       \/ /\ todo = <<>> /\ Accepts(d, a) /\ Accepts(Effect(d, a), q)
          /\ e = Effect(Effect(d, a), q)

SingleOps == {"add_claim", "contradict", "retire", "decay", "record_event", "propose", "reject"}

\* Where the transaction of an operation is: d is the committed projection, e
\* the one it works on.
Stage(op, d, e, todo) ==
  \/ op \in SingleOps /\ OneRecord(d, e, todo)
  \/ op = "merge" /\ Merging(d, e, todo)
  \/ op = "duplicates" /\ Sweeping(d, e, todo, DuplicateIds(e))
  \/ op = "conflicts" /\ DuplicateIds(e) = {} /\ Sweeping(d, e, todo, ConflictIds(e))
  \/ op = "promote" /\ Promoting(d, e, todo)

RebuildAlone ==
  /\ rebuild.phase # "none" => \A p \in Procs : pc[p] = "closed"
  /\ rebuild.phase = "swap" => db = EmptyDb

StageInv ==
  /\ PairInv
  /\ RebuildAlone
  /\ \A p \in Procs : writer = p => Stage(job[p].op, db, tx.work, tx.todo)

LEMMA WriteSteps ==
  ASSUME NEW r
  PROVE  /\ Write(r) # <<>> /\ Head(Write(r)) = ToLog(r) /\ Tail(Write(r)) = <<ToDb(r)>>
         /\ <<ToDb(r)>> # <<>> /\ Head(<<ToDb(r)>>) = ToDb(r) /\ Tail(<<ToDb(r)>>) = <<>>
         /\ ToLog(r).do = "append" /\ ToLog(r).rec = r
         /\ ToDb(r).do = "apply" /\ ToDb(r).rec = r
BY DEF Write, ToLog, ToDb

\* What a transaction that has one record left to write can do next.
LEMMA LeftSteps ==
  ASSUME NEW todo, NEW r, Left(todo, r)
  PROVE  /\ todo # <<>> /\ Head(todo).rec = r
         /\ Head(todo).do = "append" => Left(Tail(todo), r)
         /\ Head(todo).do = "apply" => Tail(todo) = <<>>
BY WriteSteps DEF Left

LEMMA PromotionSteps ==
  ASSUME NEW a, NEW q
  PROVE  LET todo == <<ToLog(a), ToLog(q), ToDb(a), ToDb(q)>>
             next == <<ToLog(q), ToDb(a), ToDb(q)>>
             last == <<ToDb(a), ToDb(q)>>
         IN  /\ todo # <<>> /\ Head(todo) = ToLog(a) /\ Tail(todo) = next
             /\ next # <<>> /\ Head(next) = ToLog(q) /\ Tail(next) = last
             /\ last # <<>> /\ Head(last) = ToDb(a) /\ Tail(last) = <<ToDb(q)>>
OBVIOUS

\* Sweeping(_, _, todo, S) with something left: the record that supersedes S.
LEMMA SweepSteps ==
  ASSUME NEW S, NEW todo, todo = Supersede(S) \/ todo = <<ToDb(Superseding(S))>>
  PROVE  /\ todo = <<>> <=> (todo = Supersede(S) /\ S = {})
         /\ todo # <<>> => Left(todo, Superseding(S))
<1>1. \A r : Write(r) # <<>> /\ <<ToDb(r)>> # <<>>
  BY WriteSteps
<1> QED BY <1>1 DEF Supersede, Superseding, Left

LEMMA StageAppend ==
  ASSUME NEW op, NEW d, NEW e, NEW todo, Stage(op, d, e, todo), todo # <<>>,
         Head(todo).do = "append"
  PROVE  Stage(op, d, e, Tail(todo))
<1>1. CASE op \in SingleOps /\ OneRecord(d, e, todo)
  <2>1. PICK r \in Records : Starts(d, r) /\ Left(todo, r) /\ e = d
    BY <1>1 DEF OneRecord
  <2>2. Left(Tail(todo), r)
    BY <2>1, LeftSteps
  <2> QED BY <1>1, <2>1, <2>2 DEF OneRecord, Stage
<1>2. CASE op = "merge" /\ Merging(d, e, todo)
  <2>1. PICK r \in Records : r.kind \in QuietKinds /\ Left(todo, r)
    BY <1>2 DEF Merging
  <2>2. Left(Tail(todo), r)
    BY <2>1, LeftSteps
  <2> QED BY <1>2, <2>1, <2>2 DEF Merging, Stage
<1>3. ASSUME NEW S, Sweeping(d, e, todo, S)
      PROVE  Sweeping(d, e, Tail(todo), S)
  <2>1. Left(todo, Superseding(S))
    BY <1>3, SweepSteps DEF Sweeping
  <2>2. Tail(todo) = <<ToDb(Superseding(S))>>
    BY <2>1, WriteSteps DEF Left
  <2> QED BY <1>3, <2>2 DEF Sweeping
<1>4. CASE op = "promote" /\ Promoting(d, e, todo)
  <2>1. PICK a, q \in Records :
          /\ a.kind = "add_claim" /\ d.claims[a.claim] = NoRow
          /\ q.kind = "promote_candidate_claim" /\ q.claim = a.claim
          /\ e = d
          /\ \/ todo = <<ToLog(a), ToLog(q), ToDb(a), ToDb(q)>>
             \/ todo = <<ToLog(q), ToDb(a), ToDb(q)>>
    <3>1. \A a, q : Head(<<ToDb(a), ToDb(q)>>).do = "apply" /\ Head(<<ToDb(q)>>).do = "apply"
      BY WriteSteps, PromotionSteps
    <3> QED BY <1>4, <3>1 DEF Promoting
  <2>2. Tail(todo) = <<ToLog(q), ToDb(a), ToDb(q)>> \/ Tail(todo) = <<ToDb(a), ToDb(q)>>
    BY <2>1, PromotionSteps
  <2> QED BY <1>4, <2>1, <2>2 DEF Promoting, Stage
<1> QED BY <1>1, <1>2, <1>3, <1>4 DEF Stage

\* Superseding leaves the remaining claims and their facts alone.
LEMMA SweepShrinks ==
  ASSUME NEW e \in Databases, NEW r \in Records, r.kind = "supersede_claims", Accepts(e, r)
  PROVE  /\ DuplicateIds(Effect(e, r)) \subseteq DuplicateIds(e) \ r.claims
         /\ ConflictIds(Effect(e, r)) \subseteq ConflictIds(e) \ r.claims
<1> DEFINE f == Effect(e, r)
<1>1. /\ \A id \in Ids \ r.claims : f.claims[id] = e.claims[id]
      /\ \A id \in r.claims : /\ e.claims[id] # NoRow /\ f.claims[id] # NoRow
                              /\ f.claims[id].status = "SUPERSEDED"
                              /\ f.claims[id].triple = e.claims[id].triple
      /\ r.claims \subseteq Ids
  BY SupersedeFacts
<1> HIDE DEF f
<1>2. Active(f) \subseteq Active(e) \ r.claims
  BY <1>1 DEF Active
<1>3. Present(f) = Present(e)
  BY <1>1 DEF Present
<1>4. \A id \in Present(e) : f.claims[id].triple = e.claims[id].triple
  BY <1>1 DEF Present
<1>5. Active(f) \subseteq Present(e)
  BY <1>2, NoRowFacts DEF Active, Present
<1>6. \A t : OfTriple(f, t) = OfTriple(e, t)
  BY <1>3, <1>4 DEF OfTriple
<1>7. \A id, newer \in Present(e) : Replaces(f, newer, id) => Replaces(e, newer, id)
  BY <1>4 DEF Replaces
<1>8. DuplicateIds(f) \subseteq DuplicateIds(e) \ r.claims
  BY <1>2, <1>4, <1>5, <1>6 DEF DuplicateIds
<1>9. ConflictIds(f) \subseteq ConflictIds(e) \ r.claims
  BY <1>2, <1>3, <1>4, <1>5, <1>7 DEF ConflictIds
<1> QED BY <1>8, <1>9 DEF f

LEMMA SweepIds ==
  ASSUME NEW d
  PROVE  /\ DuplicateIds(d) \subseteq {id \in Ids : d.claims[id].status = "ACTIVE"}
         /\ ConflictIds(d) \subseteq {id \in Ids : d.claims[id].status = "ACTIVE"}
BY DEF DuplicateIds, ConflictIds, Active

LEMMA StageApply ==
  ASSUME NEW op, NEW d \in Databases, NEW e \in Databases, NEW todo, Stage(op, d, e, todo),
         todo # <<>>, Head(todo).do = "apply", Accepts(e, Head(todo).rec)
  PROVE  Stage(op, d, Effect(e, Head(todo).rec), Tail(todo))
<1>1. CASE op \in SingleOps /\ OneRecord(d, e, todo)
  <2>1. PICK r \in Records : Starts(d, r) /\ Left(todo, r) /\ e = d
    BY <1>1 DEF OneRecord
  <2>2. Tail(todo) = <<>> /\ Head(todo).rec = r
    BY <2>1, LeftSteps
  <2> QED BY <1>1, <2>1, <2>2 DEF OneRecord, Stage
<1>2. CASE op = "merge" /\ Merging(d, e, todo)
  <2>1. PICK r \in Records : r.kind \in QuietKinds /\ Left(todo, r)
    BY <1>2 DEF Merging
  <2>2. Tail(todo) = <<>> /\ Head(todo).rec = r
    BY <2>1, LeftSteps
  <2>3. SameLife(d, Effect(e, r))
    BY <1>2, <2>1, <2>2, QuietFacts DEF Merging, SameLife
  <2> QED BY <1>2, <2>2, <2>3 DEF Merging, Stage
<1>3. ASSUME NEW S, Sweeping(d, e, todo, S),
             S \subseteq {id \in Ids : e.claims[id].status = "ACTIVE"}
      PROVE  /\ Superseding(S) \in Records /\ Superseding(S).kind = "supersede_claims"
             /\ Superseding(S).claims = S
             /\ Head(todo).rec = Superseding(S) /\ Tail(todo) = <<>>
             /\ \A T : T = {} => Sweeping(d, Effect(e, Superseding(S)), <<>>, T)
  <2>1. Left(todo, Superseding(S))
    BY <1>3, SweepSteps DEF Sweeping
  <2>2. Tail(todo) = <<>> /\ Head(todo).rec = Superseding(S)
    BY <2>1, LeftSteps
  <2>3. Superseding(S) \in Records /\ Superseding(S).kind = "supersede_claims"
        /\ Superseding(S).claims = S
    BY <1>3, BuiltRecords DEF Superseding
  <2> DEFINE f == Effect(e, Superseding(S))
  <2>4. /\ f.cands = e.cands
        /\ \A id \in Ids \ S : f.claims[id] = e.claims[id]
        /\ \A id \in S : f.claims[id].status = "SUPERSEDED"
    BY <2>2, <2>3, SupersedeFacts
  <2> HIDE DEF f
  <2>5. /\ f.cands = d.cands
        /\ \A id \in Ids : \/ f.claims[id].status = d.claims[id].status
                           \/ d.claims[id].status = "ACTIVE" /\ f.claims[id].status = "SUPERSEDED"
    BY <1>3, <2>4 DEF Sweeping
  <2>6. \A T : T = {} => Supersede(T) = <<>>
    BY DEF Supersede
  <2>7. \A T : T = {} => Sweeping(d, f, <<>>, T)
    BY <2>5, <2>6 DEF Sweeping
  <2> QED BY <2>2, <2>3, <2>7 DEF f
<1>4. CASE op = "duplicates" /\ Sweeping(d, e, todo, DuplicateIds(e))
  <2> DEFINE r == Superseding(DuplicateIds(e))
  <2>1. /\ r \in Records /\ r.kind = "supersede_claims" /\ r.claims = DuplicateIds(e)
        /\ Head(todo).rec = r /\ Tail(todo) = <<>>
        /\ \A T : T = {} => Sweeping(d, Effect(e, r), <<>>, T)
    BY <1>3, <1>4, SweepIds
  <2> HIDE DEF r
  <2>2. DuplicateIds(Effect(e, r)) = {}
    BY <2>1, SweepShrinks
  <2> QED BY <1>4, <2>1, <2>2 DEF Stage
<1>5. CASE op = "conflicts" /\ DuplicateIds(e) = {} /\ Sweeping(d, e, todo, ConflictIds(e))
  <2> DEFINE r == Superseding(ConflictIds(e))
  <2>1. /\ r \in Records /\ r.kind = "supersede_claims" /\ r.claims = ConflictIds(e)
        /\ Head(todo).rec = r /\ Tail(todo) = <<>>
        /\ \A T : T = {} => Sweeping(d, Effect(e, r), <<>>, T)
    BY <1>3, <1>5, SweepIds
  <2> HIDE DEF r
  <2>2. ConflictIds(Effect(e, r)) = {} /\ DuplicateIds(Effect(e, r)) = {}
    BY <1>5, <2>1, SweepShrinks
  <2> QED BY <1>5, <2>1, <2>2 DEF Stage
<1>6. CASE op = "promote" /\ Promoting(d, e, todo)
  <2>1. PICK a, q \in Records :
          /\ a.kind = "add_claim" /\ d.claims[a.claim] = NoRow
          /\ q.kind = "promote_candidate_claim" /\ q.claim = a.claim
          /\ \/ todo = <<ToDb(a), ToDb(q)>> /\ e = d
             \/ todo = <<ToDb(q)>> /\ Accepts(d, a) /\ e = Effect(d, a)
    <3>1. \A a, q : /\ Head(<<ToLog(a), ToLog(q), ToDb(a), ToDb(q)>>).do = "append"
                    /\ Head(<<ToLog(q), ToDb(a), ToDb(q)>>).do = "append"
      BY WriteSteps, PromotionSteps
    <3> QED BY <1>6, <3>1 DEF Promoting
  <2>2. CASE todo = <<ToDb(a), ToDb(q)>> /\ e = d
    <3>1. Head(todo).rec = a /\ Tail(todo) = <<ToDb(q)>>
      BY <2>2, WriteSteps, PromotionSteps
    <3> QED BY <1>6, <2>1, <2>2, <3>1 DEF Promoting, Stage
  <2>3. CASE todo = <<ToDb(q)>> /\ Accepts(d, a) /\ e = Effect(d, a)
    <3>1. Head(todo).rec = q /\ Tail(todo) = <<>>
      BY <2>3, WriteSteps
    <3> QED BY <1>6, <2>1, <2>3, <3>1 DEF Promoting, Stage
  <2> QED BY <2>1, <2>2, <2>3
<1> QED BY <1>1, <1>2, <1>4, <1>5, <1>6 DEF Stage

LEMMA OneWrite ==
  ASSUME NEW op \in SingleOps, NEW d, NEW r \in Records, Starts(d, r)
  PROVE  Stage(op, d, d, Write(r))
BY DEF Stage, OneRecord, Left

LEMMA NoWrite ==
  ASSUME NEW op \in SingleOps, NEW d
  PROVE  Stage(op, d, d, <<>>)
BY DEF Stage, OneRecord

\* An id minted now is no claim and no candidate of any projection.
LEMMA FreshRow ==
  ASSUME PairInv, NEW p \in Procs, NEW id, Minted(p, id)
  PROVE  db.claims[id] = NoRow /\ db.cands[id] = NoRow
<1>1. id \in Ids
  BY DEF Minted, Mintable
<1>2. \A q \in Logged : /\ q.kind = "add_claim" => q.claim # id
                        /\ q.kind = "propose_candidate_claim" => q.id # id
  BY FreshId
<1>3. TransitionsLogged(db, Logged) /\ CandidatesBacked(db, Logged)
  BY DEF PairInv, LogInv, LogFirst
<1>4. db.claims[id] = NoRow
  BY <1>1, <1>2, <1>3 DEF TransitionsLogged, ClaimLogged
<1>5. db.cands[id] = NoRow
  BY <1>1, <1>2, <1>3 DEF CandidatesBacked
<1> QED BY <1>4, <1>5

LEMMA BeginsStage ==
  ASSUME PairInv, NEW p \in Procs, Begins(p)
  PROVE  \E op, todo : TakeLock(p, op, todo) /\ Stage(op, db, db, todo)
<1>1. db \in Databases /\ job[p] \in Jobs
  BY DEF PairInv, LogInv, TypeInv, TypeOK
<1>2. \A op, todo : TakeLock(p, op, todo) => job[p].op = op
  BY DEF TakeLock
<1>3. CASE BeginAddClaim(p)
  <2> DEFINE rec(id) == [kind |-> "add_claim", ts |-> job[p].ts, claim |-> id,
                         triple |-> job[p].triple, source |-> <<"source", job[p].source>>,
                         prov |-> "USER_ASSERTED", conf |-> 19]
  <2>1. PICK id \in Ids : TakeLock(p, "add_claim", Write(rec(id))) /\ Minted(p, id)
    BY <1>3 DEF BeginAddClaim
  <2>2. rec(id) \in Records
    BY <1>1, <1>2, <2>1, JobTypes, BuiltRecords
  <2>3. Starts(db, rec(id))
    BY <2>1, FreshRow DEF Starts
  <2> HIDE DEF rec
  <2>4. Stage("add_claim", db, db, Write(rec(id)))
    BY <2>2, <2>3, OneWrite DEF SingleOps
  <2> QED BY <2>1, <2>4
<1>4. CASE BeginContradict(p)
  <2> DEFINE rec(id) == [kind |-> "add_contradiction", id |-> id, claim |-> job[p].claim,
                         new |-> job[p].new]
  <2>1. PICK id \in Ids : TakeLock(p, "contradict", Write(rec(id)))
    BY <1>4 DEF BeginContradict
  <2>2. rec(id) \in Records
    BY <1>1, <1>2, <2>1, JobTypes, BuiltRecords
  <2>3. Starts(db, rec(id))
    BY DEF Starts, QuietKinds
  <2> HIDE DEF rec
  <2>4. Stage("contradict", db, db, Write(rec(id)))
    BY <2>2, <2>3, OneWrite DEF SingleOps
  <2> QED BY <2>1, <2>4
<1>5. CASE BeginRetire(p)
  <2> DEFINE rec == [kind |-> "retire_claim", ts |-> job[p].ts, claim |-> job[p].claim,
                     reason |-> job[p].reason]
             todo == IF db.claims[job[p].claim].status \in {"ABSENT", "INVALIDATED"}
                     THEN <<>> ELSE Write(rec)
  <2>1. TakeLock(p, "retire", todo)
    BY <1>5 DEF BeginRetire
  <2>2. rec \in Records /\ job[p].claim \in Ids
    BY <1>1, <1>2, <2>1, JobTypes, BuiltRecords
  <2>3. db.claims[job[p].claim].status \in {"ABSENT", "INVALIDATED"} \/ Starts(db, rec)
    <3>1. db.claims[job[p].claim].status \in ClaimStatus \cup {"ABSENT"}
      BY <1>1, <2>2, NoRowFacts, RowFacts DEF ClaimRows
    <3> QED BY <3>1 DEF Starts, ClaimStatus
  <2> HIDE DEF rec
  <2>4. Stage("retire", db, db, todo)
    BY <2>2, <2>3, OneWrite, NoWrite DEF SingleOps
  <2> HIDE DEF todo
  <2> QED BY <2>1, <2>4
<1>6. CASE BeginMerge(p)
  <2> DEFINE todo == <<>>
  <2>1. TakeLock(p, "merge", todo) /\ Stage("merge", db, db, todo)
    BY <1>6 DEF BeginMerge, Stage, Merging, SameLife
  <2> HIDE DEF todo
  <2> QED BY <2>1
<1>7. CASE BeginDecay(p)
  <2> DEFINE todo == IF Decaying(db) = {} THEN <<>> ELSE Write(DecayRecord(db))
  <2>1. TakeLock(p, "decay", todo)
    BY <1>7 DEF BeginDecay
  <2>2. DecayRecord(db) \in Records
    BY <1>1, DecayRecordType
  <2>3. Starts(db, DecayRecord(db))
    BY DEF Starts, DecayRecord, QuietKinds
  <2>4. Stage("decay", db, db, todo)
    BY <2>2, <2>3, OneWrite, NoWrite DEF SingleOps
  <2> HIDE DEF todo
  <2> QED BY <2>1, <2>4
<1>8. CASE BeginSupersede(p)
  <2>1. Stage("duplicates", db, db, Supersede(DuplicateIds(db)))
    BY DEF Stage, Sweeping
  <2> QED BY <1>8, <2>1 DEF BeginSupersede
<1>9. CASE BeginRecordEvent(p)
  <2> DEFINE rec(id) == [kind |-> "record_event", id |-> id]
  <2>1. PICK id \in Ids : TakeLock(p, "record_event", Write(rec(id)))
    BY <1>9 DEF BeginRecordEvent
  <2>2. rec(id) \in Records
    BY <2>1, BuiltRecords
  <2>3. Starts(db, rec(id))
    BY DEF Starts, QuietKinds
  <2> HIDE DEF rec
  <2>4. Stage("record_event", db, db, Write(rec(id)))
    BY <2>2, <2>3, OneWrite DEF SingleOps
  <2> QED BY <2>1, <2>4
<1>10. CASE BeginPropose(p)
  <2> DEFINE rec(id) == [kind |-> "propose_candidate_claim", id |-> id, event |-> job[p].event,
                         triple |-> job[p].triple]
  <2>1. PICK id \in Ids : TakeLock(p, "propose", Write(rec(id))) /\ Minted(p, id)
    BY <1>10 DEF BeginPropose
  <2>2. rec(id) \in Records
    BY <1>1, <1>2, <2>1, JobTypes, BuiltRecords
  <2>3. Starts(db, rec(id))
    BY <2>1, FreshRow DEF Starts
  <2> HIDE DEF rec
  <2>4. Stage("propose", db, db, Write(rec(id)))
    BY <2>2, <2>3, OneWrite DEF SingleOps
  <2> QED BY <2>1, <2>4
<1>11. CASE BeginPromote(p)
  <2> DEFINE claim(id) == [kind |-> "add_claim", ts |-> job[p].ts, claim |-> id,
                           triple |-> job[p].triple, source |-> EventRef(job[p].event),
                           prov |-> "INFERRED", conf |-> 9]
             promotion(id) == [kind |-> "promote_candidate_claim", cand |-> job[p].cand,
                               claim |-> id]
             todo(id) == <<ToLog(claim(id)), ToLog(promotion(id)),
                           ToDb(claim(id)), ToDb(promotion(id))>>
  <2>1. PICK id \in Ids : TakeLock(p, "promote", todo(id)) /\ Minted(p, id)
    BY <1>11 DEF BeginPromote
  <2>2. claim(id) \in Records /\ promotion(id) \in Records
    BY <1>1, <1>2, <2>1, JobTypes, BuiltRecords
  <2>3. /\ claim(id).kind = "add_claim" /\ db.claims[claim(id).claim] = NoRow
        /\ promotion(id).kind = "promote_candidate_claim" /\ promotion(id).claim = claim(id).claim
    BY <2>1, FreshRow
  <2> HIDE DEF claim, promotion
  <2>4. Stage("promote", db, db, todo(id))
    BY <2>2, <2>3 DEF Stage, Promoting
  <2> HIDE DEF todo
  <2> QED BY <2>1, <2>4
<1>12. CASE BeginReject(p)
  <2> DEFINE rec == [kind |-> "reject_candidate_claim", cand |-> job[p].cand,
                     reason |-> job[p].reason]
             todo == IF db.cands[job[p].cand].status = "PENDING" THEN Write(rec) ELSE <<>>
  <2>1. TakeLock(p, "reject", todo)
    BY <1>12 DEF BeginReject
  <2>2. rec \in Records
    BY <1>1, <1>2, <2>1, JobTypes, BuiltRecords
  <2>3. db.cands[job[p].cand].status # "PENDING" \/ Starts(db, rec)
    BY DEF Starts
  <2> HIDE DEF rec
  <2>4. Stage("reject", db, db, todo)
    BY <2>2, <2>3, OneWrite, NoWrite DEF SingleOps
  <2> HIDE DEF todo
  <2> QED BY <2>1, <2>4
<1> QED
  BY <1>3, <1>4, <1>5, <1>6, <1>7, <1>8, <1>9, <1>10, <1>11, <1>12 DEF Begins

LEMMA StageInit == Init => StageInv
<1> SUFFICES ASSUME Init PROVE StageInv
  OBVIOUS
<1>1. \A p \in Procs : writer # p
  BY StoreAssumption DEF Init, NoProc
<1>2. RebuildAlone
  BY DEF Init, RebuildAlone, NoRebuild
<1> QED BY <1>1, <1>2, PairInit DEF StageInv

\* Steps of the processes outside the transaction, and of the clock.
LEMMA Bystanders ==
  ASSUME StageInv, PairInv', rebuild' = rebuild, db' = db, tx' = tx, writer' = writer,
         rebuild.phase # "none" => \A p \in Procs : pc'[p] = "closed",
         \A p \in Procs : writer = p => job'[p] = job[p]
  PROVE  StageInv'
<1>1. RebuildAlone'
  BY DEF StageInv, RebuildAlone
<1>2. \A p \in Procs : writer' = p => Stage(job'[p].op, db', tx'.work, tx'.todo)
  BY DEF StageInv
<1> QED BY <1>1, <1>2 DEF StageInv

\* Steps that end the transaction.
LEMMA Ended ==
  ASSUME StageInv, PairInv', NEW p \in Procs, writer' = NoProc, pc[p] # "closed",
         rebuild' = rebuild
  PROVE  StageInv'
<1>1. rebuild'.phase = "none"
  BY DEF StageInv, RebuildAlone
<1>2. RebuildAlone'
  BY <1>1 DEF RebuildAlone
<1>3. \A q \in Procs : writer' # q
  BY StoreAssumption DEF NoProc
<1> QED BY <1>2, <1>3 DEF StageInv

LEMMA WorksStage ==
  ASSUME StageInv, PairInv', NEW p \in Procs, Works(p)
  PROVE  StageInv'
<1>1. /\ tx.todo \in Seq(Steps) /\ tx.work \in Databases /\ db \in Databases
      /\ job \in [Procs -> Jobs] /\ job[p] \in Jobs
      /\ writer = p /\ pc[p] = "tx" /\ rebuild.phase = "none"
      /\ Stage(job[p].op, db, tx.work, tx.todo)
  BY DEF StageInv, RebuildAlone, PairInv, LogInv, TypeInv, TypeOK, WriterInside, Works,
         MergeGroup, SupersedeConflicts, AppendLine, ApplyRecord, Commit, StepFails
<1>2. SUFFICES ASSUME ~(Commit(p) \/ StepFails(p))
               PROVE  StageInv'
  BY <1>1, Ended DEF Commit, StepFails, Rollback
<1>3. /\ db' = db /\ rebuild' = rebuild /\ writer' = writer /\ pc' = pc
  BY <1>2 DEF Works, MergeGroup, SupersedeConflicts, AppendLine, ApplyRecord
<1>4. SUFFICES Stage(job'[p].op, db, tx'.work, tx'.todo)
  <2>1. RebuildAlone'
    BY <1>1, <1>3 DEF RebuildAlone
  <2>2. \A q \in Procs : writer' = q => Stage(job'[q].op, db', tx'.work, tx'.todo)
    BY <1>1, <1>3, <1>4
  <2> QED BY <2>1, <2>2 DEF StageInv
<1>5. CASE MergeGroup(p)
  <2>1. job[p].groups \subseteq Triples \X Ids /\ job[p].op = "merge" /\ tx.todo = <<>>
    BY <1>1, <1>5, JobTypes DEF MergeGroup
  <2>2. PICK g \in job[p].groups :
          /\ tx' = [tx EXCEPT !.todo = Write(MergeRecord(tx.work, g[1], g[2]))]
          /\ job' = [job EXCEPT ![p] = [op |-> "merge", groups |-> job[p].groups \ {g}]]
    BY <1>5 DEF MergeGroup
  <2>3. job'[p].op = "merge"
    BY <1>1, <2>2
  <2>4. tx'.work = tx.work /\ tx'.todo = Write(MergeRecord(tx.work, g[1], g[2]))
    BY <2>2 DEF StageInv, PairInv, LogInv, TypeInv, TypeOK
  <2>5. MergeRecord(tx.work, g[1], g[2]) \in Records
    BY <1>1, <2>1, <2>2, MergeRecordType
  <2>6. MergeRecord(tx.work, g[1], g[2]).kind \in QuietKinds
    BY DEF MergeRecord, QuietKinds
  <2>7. SameLife(db, tx.work)
    BY <1>1, <2>1 DEF Stage, Merging, SingleOps
  <2> QED BY <2>3, <2>4, <2>5, <2>6, <2>7 DEF Stage, Merging, Left
<1>6. CASE SupersedeConflicts(p)
  <2>1. /\ job'[p].op = "conflicts" /\ job[p].op = "duplicates" /\ tx.todo = <<>>
        /\ tx'.work = tx.work /\ tx'.todo = Supersede(ConflictIds(tx.work))
    BY <1>1, <1>6 DEF SupersedeConflicts, StageInv, PairInv, LogInv, TypeInv, TypeOK
  <2>2. Sweeping(db, tx.work, <<>>, DuplicateIds(tx.work))
    BY <1>1, <2>1 DEF Stage, SingleOps
  <2>3. DuplicateIds(tx.work) = {}
    BY <2>2, SweepSteps DEF Sweeping
  <2> QED BY <2>1, <2>2, <2>3 DEF Stage, Sweeping
<1>7. CASE AppendLine(p)
  <2>1. /\ job' = job /\ tx'.work = tx.work /\ tx'.todo = Tail(tx.todo)
        /\ tx.todo # <<>> /\ Head(tx.todo).do = "append"
    BY <1>7 DEF AppendLine, StageInv, PairInv, LogInv, TypeInv, TypeOK
  <2> QED BY <1>1, <2>1, StageAppend
<1>8. CASE ApplyRecord(p)
  <2>1. /\ job' = job /\ tx'.todo = Tail(tx.todo)
        /\ tx'.work = Effect(tx.work, Head(tx.todo).rec)
        /\ Accepts(tx.work, Head(tx.todo).rec)
        /\ tx.todo # <<>> /\ Head(tx.todo).do = "apply"
    BY <1>8 DEF ApplyRecord, StageInv, PairInv, LogInv, TypeInv, TypeOK
  <2> QED BY <1>1, <2>1, StageApply
<1> QED BY <1>2, <1>5, <1>6, <1>7, <1>8 DEF Works

LEMMA StageNext == StageInv /\ [Next]_vars => StageInv'
<1> SUFFICES ASSUME StageInv, [Next]_vars PROVE StageInv'
  OBVIOUS
<1>1. PairInv' /\ job \in [Procs -> Jobs] /\ pc \in [Procs -> {"closed", "idle", "ready", "tx"}]
  BY PairNext DEF StageInv, PairInv, LogInv, TypeInv, TypeOK
<1>2. \A p \in Procs : writer = p => pc[p] = "tx"
  BY DEF StageInv, PairInv, LogInv, TypeInv, WriterInside
<1>3. \A p \in Procs : pc[p] # "closed" => rebuild.phase = "none"
  BY DEF StageInv, RebuildAlone
<1>4. ASSUME NEW p \in Procs, Calls(p) PROVE StageInv'
  <2>1. PICK j \in Jobs : Call(p, j)
    BY <1>4, CallsType DEF StageInv, PairInv, LogInv, TypeInv
  <2>2. pc[p] = "idle" /\ \A q \in Procs : q # p => job'[q] = job[q]
    BY <1>1, <2>1 DEF Call
  <2>3. \A q \in Procs : writer = q => job'[q] = job[q]
    BY <1>2, <2>2
  <2> QED BY <1>1, <1>3, <2>1, <2>2, <2>3, Bystanders DEF Call
<1>5. ASSUME NEW p \in Procs, Begins(p) PROVE StageInv'
  <2>1. PICK op, todo : TakeLock(p, op, todo) /\ Stage(op, db, db, todo)
    BY <1>5, BeginsStage DEF StageInv
  <2>2. job' = job
    BY <1>5, BeginsType DEF StageInv, PairInv, LogInv, TypeInv
  <2>3. /\ db' = db /\ rebuild' = rebuild /\ tx'.work = db /\ tx'.todo = todo
        /\ job[p].op = op /\ writer' = p /\ pc[p] = "ready"
    BY <2>1 DEF TakeLock
  <2>4. RebuildAlone'
    BY <1>3, <2>3 DEF RebuildAlone
  <2>5. \A q \in Procs : writer' = q => Stage(job'[q].op, db', tx'.work, tx'.todo)
    BY <2>1, <2>2, <2>3
  <2> QED BY <1>1, <2>4, <2>5 DEF StageInv
<1>6. ASSUME NEW p \in Procs, Works(p) PROVE StageInv'
  BY <1>1, <1>6, WorksStage
<1>7. ASSUME NEW p \in Procs, BusyTimeout(p) \/ Close(p) PROVE StageInv'
  <2>1. pc[p] \in {"ready", "idle"} /\ \A q \in Procs : q # p => job'[q] = job[q]
    BY <1>1, <1>7 DEF BusyTimeout, Close, Stop
  <2>2. \A q \in Procs : writer = q => job'[q] = job[q]
    BY <1>2, <2>1
  <2> QED BY <1>1, <1>3, <1>7, <2>1, <2>2, Bystanders DEF BusyTimeout, Close, Stop
<1>8. ASSUME NEW p \in Procs, Open(p) PROVE StageInv'
  BY <1>1, <1>8, Bystanders DEF Open
<1>9. ASSUME NEW p \in Procs, Crash(p) PROVE StageInv'
  <2>1. pc[p] \in {"ready", "tx"} /\ rebuild' = rebuild /\ db' = db
        /\ \A q \in Procs : q # p => job'[q] = job[q]
    BY <1>1, <1>9 DEF Crash, Stop
  <2>2. CASE writer = p
    BY <1>1, <1>9, <2>1, <2>2, Ended DEF Crash, Rollback
  <2>3. CASE writer # p
    <3>1. \A q \in Procs : writer = q => job'[q] = job[q]
      BY <2>1, <2>3
    <3>2. tx' = tx /\ writer' = writer
      BY <1>9, <2>3 DEF Crash
    <3> QED BY <1>1, <1>3, <2>1, <3>1, <3>2, Bystanders
  <2> QED BY <2>2, <2>3
<1>10. CASE Tick
  BY <1>1, <1>10, Bystanders DEF Tick, StageInv, RebuildAlone
<1>11. CASE Rebuilding
  <2>1. \A p \in Procs : pc[p] = "closed"
    BY <1>11 DEF Rebuilding, RebuildStart, RebuildApply, RebuildRefuse, RebuildRemove,
                 RebuildRename, RebuildCrash, StageInv, RebuildAlone
  <2>2. \A p \in Procs : writer # p
    BY <1>2, <2>1
  <2>3. writer' = writer /\ pc' = pc
    BY <1>11 DEF Rebuilding, RebuildStart, RebuildApply, RebuildRefuse, RebuildRemove,
                 RebuildRename, RebuildCrash
  <2>4. rebuild'.phase = "swap" => db' = EmptyDb
    <3>1. rebuild \in Rebuilds /\ (rebuild.phase = "swap" => db = EmptyDb)
      BY DEF StageInv, RebuildAlone, PairInv, LogInv, TypeInv, TypeOK
    <3>2. NoRebuild.phase = "none"
      BY DEF NoRebuild
    <3> QED
      BY <1>11, <3>1, <3>2
         DEF Rebuilding, RebuildStart, RebuildApply, RebuildRefuse, RebuildRemove,
             RebuildRename, RebuildCrash, Rebuilds, NoRebuild
  <2>5. RebuildAlone'
    BY <2>1, <2>3, <2>4 DEF RebuildAlone
  <2> QED BY <1>1, <2>2, <2>3, <2>5 DEF StageInv
<1>12. CASE UNCHANGED vars
  BY <1>1, <1>12, Bystanders DEF vars, StageInv, RebuildAlone
<1> QED
  BY <1>4, <1>5, <1>6, <1>7, <1>8, <1>9, <1>10, <1>11, <1>12 DEF Next

-----------------------------------------------------------------------------
(* Consolidation. *)

LEMMA NothingLeftToSupersede ==
  ASSUME NEW d \in Databases, DuplicateIds(d) = {}, ConflictIds(d) = {}
  PROVE  OneAnswer(d)
<1> SUFFICES ASSUME NEW id \in Active(d), NEW other \in Active(d), id # other
             PROVE  LET t == d.claims[id].triple
                        u == d.claims[other].triple
                    IN  /\ t # u
                        /\ t.predicate \in SingleValued
                             => t.subject # u.subject \/ t.predicate # u.predicate
  BY DEF OneAnswer
<1>1. /\ id \in Ids /\ other \in Ids /\ id \in Nat /\ other \in Nat
      /\ id \in Present(d) /\ other \in Present(d)
  BY IdsAssumption, NoRowFacts DEF Active, Present
<1>2. d.claims[id].triple # d.claims[other].triple
  <2>1. \A x, y \in {id, other} : x < y => d.claims[x].triple # d.claims[y].triple
    BY <1>1 DEF DuplicateIds, OfTriple
  <2> QED BY <1>1, <2>1
<1>3. /\ d.claims[id].triple \in Triples /\ d.claims[other].triple \in Triples
  BY <1>1, RowFacts DEF Present, ClaimRows
<1>4. ASSUME d.claims[id].triple.predicate \in SingleValued,
             d.claims[id].triple.subject = d.claims[other].triple.subject,
             d.claims[id].triple.predicate = d.claims[other].triple.predicate
      PROVE  FALSE
  <2>1. d.claims[id].triple.object # d.claims[other].triple.object
    <3> DEFINE t == d.claims[id].triple
               u == d.claims[other].triple
    <3>1. /\ t \in [subject : Entities, predicate : Predicates, object : Entities]
          /\ u \in [subject : Entities, predicate : Predicates, object : Entities]
          /\ t.subject = u.subject /\ t.predicate = u.predicate /\ t # u
      BY <1>2, <1>3, <1>4, TriplesAssumption
    <3> HIDE DEF t, u
    <3>2. t.object # u.object
      BY <3>1
    <3> QED BY <3>2 DEF t, u
  <2>2. other > id => Replaces(d, other, id)
    BY <1>4, <2>1 DEF Replaces
  <2>3. id > other => Replaces(d, id, other)
    BY <1>4, <2>1 DEF Replaces
  <2>4. ~(other > id) /\ ~(id > other)
    BY <1>1, <1>4, <2>2, <2>3 DEF ConflictIds
  <2> QED BY <1>1, <2>4
<1> QED BY <1>2, <1>4

\* When consolidate_report commits, no fact has two ACTIVE claims and no
\* single-valued predicate of a subject two ACTIVE objects, whatever other
\* processes asserted since consolidation began.
THEOREM ConsolidationAnswersOnce == Spec => ConsolidationLeavesOneAnswer
<1>1. ASSUME StageInv, NEW p \in Procs, Commit(p), job[p].op = "conflicts"
      PROVE  OneAnswer(db')
  <2>1. /\ Stage("conflicts", db, tx.work, <<>>) /\ tx.work \in Databases /\ db' = tx.work
    BY <1>1 DEF Commit, StageInv, PairInv, LogInv, TypeInv, TypeOK
  <2>2. DuplicateIds(tx.work) = {} /\ Sweeping(db, tx.work, <<>>, ConflictIds(tx.work))
    BY <2>1 DEF Stage, SingleOps
  <2>3. ConflictIds(tx.work) = {}
    BY <2>2, SweepSteps DEF Sweeping
  <2>4. OneAnswer(tx.work)
    BY <2>1, <2>2, <2>3, NothingLeftToSupersede
  <2>5. OneAnswer(db')
    BY <2>1, <2>4
  <2> QED BY <2>5
<1>2. StageInv => (\A p \in Procs : Commit(p) /\ job[p].op = "conflicts" => OneAnswer(db'))
  BY <1>1
<1>3. StageInv =>
        [\A p \in Procs : Commit(p) /\ job[p].op = "conflicts" => OneAnswer(db')]_vars
  BY <1>2
<1> QED
  BY StageInit, StageNext, <1>3, PTL DEF Spec, ConsolidationLeavesOneAnswer

-----------------------------------------------------------------------------
(* Refinement of the abstract lifecycle. *)

StatusOf(d) == [id \in Ids |-> d.claims[id].status]

DecisionOf(d) ==
  [c \in Ids |-> [status |-> d.cands[c].status,
                  claim |-> IF d.cands[c].status = "PROMOTED" THEN d.cands[c].claim ELSE NoId]]

\* The abstract steps, as relations between two projections.
Stutters(d, e) == StatusOf(e) = StatusOf(d) /\ DecisionOf(e) = DecisionOf(d)

Asserts(d, e) ==
  /\ \E id \in Ids : /\ StatusOf(d)[id] = "ABSENT"
                     /\ StatusOf(e) = [StatusOf(d) EXCEPT ![id] = "ACTIVE"]
  /\ DecisionOf(e) = DecisionOf(d)

Retires(d, e) ==
  /\ \E id \in Ids : /\ StatusOf(d)[id] \in {"ACTIVE", "SUPERSEDED"}
                     /\ StatusOf(e) = [StatusOf(d) EXCEPT ![id] = "INVALIDATED"]
  /\ DecisionOf(e) = DecisionOf(d)

Supersedes(d, e) ==
  /\ \E S \in SUBSET {id \in Ids : StatusOf(d)[id] = "ACTIVE"} :
       StatusOf(e) = [id \in Ids |-> IF id \in S THEN "SUPERSEDED" ELSE StatusOf(d)[id]]
  /\ DecisionOf(e) = DecisionOf(d)

Proposes(d, e) ==
  /\ \E c \in Ids :
       /\ DecisionOf(d)[c] = [status |-> "ABSENT", claim |-> NoId]
       /\ DecisionOf(e) = [DecisionOf(d) EXCEPT ![c] = [status |-> "PENDING", claim |-> NoId]]
  /\ StatusOf(e) = StatusOf(d)

Promotes(d, e) ==
  \E c, id \in Ids :
    /\ DecisionOf(d)[c] = [status |-> "PENDING", claim |-> NoId]
    /\ StatusOf(d)[id] = "ABSENT"
    /\ DecisionOf(e) = [DecisionOf(d) EXCEPT ![c] = [status |-> "PROMOTED", claim |-> id]]
    /\ StatusOf(e) = [StatusOf(d) EXCEPT ![id] = "ACTIVE"]

Rejects(d, e) ==
  /\ \E c \in Ids :
       /\ DecisionOf(d)[c] = [status |-> "PENDING", claim |-> NoId]
       /\ DecisionOf(e) = [DecisionOf(d) EXCEPT ![c] = [status |-> "REJECTED", claim |-> NoId]]
  /\ StatusOf(e) = StatusOf(d)

Moves(d, e) ==
  \/ Stutters(d, e) \/ Asserts(d, e) \/ Retires(d, e) \/ Supersedes(d, e)
  \/ Proposes(d, e) \/ Promotes(d, e) \/ Rejects(d, e)

LEMMA SameDecisions ==
  ASSUME NEW d, NEW e, e.cands = d.cands
  PROVE  DecisionOf(e) = DecisionOf(d)
BY DEF DecisionOf

\* A record that is news is one abstract step, or none.
LEMMA StartMoves ==
  ASSUME NEW d \in Databases, NEW r \in Records, Starts(d, r), Accepts(d, r)
  PROVE  Moves(d, Effect(d, r))
<1> DEFINE e == Effect(d, r)
<1>1. CASE r.kind = "add_claim"
  <2>1. /\ r.claim \in Ids /\ d.claims[r.claim] = NoRow /\ e.cands = d.cands
        /\ e.claims[r.claim].status = "ACTIVE"
        /\ \A id \in Ids \ {r.claim} : e.claims[id] = d.claims[id]
    BY <1>1, AddFacts DEF Starts, QuietKinds
  <2> HIDE DEF e
  <2>2. StatusOf(d)[r.claim] = "ABSENT"
    BY <2>1, NoRowFacts DEF StatusOf
  <2>3. StatusOf(e) = [StatusOf(d) EXCEPT ![r.claim] = "ACTIVE"]
    BY <2>1 DEF StatusOf
  <2> QED BY <2>1, <2>2, <2>3, SameDecisions DEF e, Moves, Asserts
<1>2. CASE r.kind = "retire_claim"
  <2>1. /\ r.claim \in Ids /\ d.claims[r.claim].status \in {"ACTIVE", "SUPERSEDED"}
        /\ e.cands = d.cands /\ e.claims[r.claim].status = "INVALIDATED"
        /\ \A id \in Ids \ {r.claim} : e.claims[id] = d.claims[id]
    BY <1>2, RetireFacts DEF Starts, QuietKinds
  <2> HIDE DEF e
  <2>2. StatusOf(d)[r.claim] \in {"ACTIVE", "SUPERSEDED"}
    BY <2>1 DEF StatusOf
  <2>3. StatusOf(e) = [StatusOf(d) EXCEPT ![r.claim] = "INVALIDATED"]
    BY <2>1 DEF StatusOf
  <2> QED BY <2>1, <2>2, <2>3, SameDecisions DEF e, Moves, Retires
<1>3. CASE r.kind = "propose_candidate_claim"
  <2>1. /\ r.id \in Ids /\ d.cands[r.id] = NoRow /\ e.claims = d.claims
        /\ e.cands[r.id].status = "PENDING"
        /\ \A c \in Ids \ {r.id} : e.cands[c] = d.cands[c]
    BY <1>3, ProposeFacts DEF Starts, QuietKinds
  <2> HIDE DEF e
  <2>2. DecisionOf(d)[r.id] = [status |-> "ABSENT", claim |-> NoId]
    BY <2>1, NoRowFacts DEF DecisionOf
  <2>3. DecisionOf(e) = [DecisionOf(d) EXCEPT ![r.id] = [status |-> "PENDING", claim |-> NoId]]
    BY <2>1 DEF DecisionOf
  <2>4. StatusOf(e) = StatusOf(d)
    BY <2>1 DEF StatusOf
  <2> QED BY <2>1, <2>2, <2>3, <2>4 DEF e, Moves, Proposes
<1>4. CASE r.kind = "reject_candidate_claim"
  <2>1. /\ r.cand \in Ids /\ d.cands[r.cand].status = "PENDING" /\ e.claims = d.claims
        /\ e.cands[r.cand].status = "REJECTED"
        /\ \A c \in Ids \ {r.cand} : e.cands[c] = d.cands[c]
    BY <1>4, RejectFacts DEF Starts, QuietKinds
  <2> HIDE DEF e
  <2>2. DecisionOf(d)[r.cand] = [status |-> "PENDING", claim |-> NoId]
    BY <2>1 DEF DecisionOf
  <2>3. DecisionOf(e) = [DecisionOf(d) EXCEPT ![r.cand] = [status |-> "REJECTED", claim |-> NoId]]
    BY <2>1 DEF DecisionOf
  <2>4. StatusOf(e) = StatusOf(d)
    BY <2>1 DEF StatusOf
  <2> QED BY <2>1, <2>2, <2>3, <2>4 DEF e, Moves, Rejects
<1>5. CASE r.kind \in QuietKinds
  <2>1. e.cands = d.cands /\ \A id \in Ids : e.claims[id].status = d.claims[id].status
    BY <1>5, QuietFacts
  <2> HIDE DEF e
  <2>2. StatusOf(e) = StatusOf(d)
    BY <2>1 DEF StatusOf
  <2> QED BY <2>1, <2>2, SameDecisions DEF e, Moves, Stutters
<1> QED BY <1>1, <1>2, <1>3, <1>4, <1>5 DEF Starts

\* The records of a promotion make one abstract step together.
LEMMA PromotionMoves ==
  ASSUME NEW d \in Databases, NEW a \in Records, NEW q \in Records, NEW lines,
         CandidatesBacked(d, lines),
         a.kind = "add_claim", d.claims[a.claim] = NoRow, Accepts(d, a),
         q.kind = "promote_candidate_claim", q.claim = a.claim, Accepts(Effect(d, a), q)
  PROVE  Moves(d, Effect(Effect(d, a), q))
<1> DEFINE b == Effect(d, a)
           e == Effect(b, q)
<1>1. /\ a.claim \in Ids /\ b.cands = d.cands /\ b.claims[a.claim].status = "ACTIVE"
      /\ \A id \in Ids \ {a.claim} : b.claims[id] = d.claims[id]
  BY AddFacts
<1>2. b \in Databases
  BY EffectType
<1> HIDE DEF b
<1>3. /\ q.cand \in Ids /\ e.claims = b.claims
      /\ \/ b.cands[q.cand].status = "PROMOTED" /\ b.cands[q.cand].claim = q.claim
         \/ b.cands[q.cand].status = "PENDING"
      /\ \A c \in Ids \ {q.cand} : e.cands[c] = b.cands[c]
      /\ e.cands[q.cand].status = "PROMOTED" /\ e.cands[q.cand].claim = q.claim
  <2>1. Accepts(b, q)
    BY DEF b
  <2> QED BY <1>2, <2>1, PromoteFacts
<1> HIDE DEF e
<1>4. d.cands[q.cand].status = "PENDING"
  BY <1>1, <1>3 DEF CandidatesBacked
<1>5. DecisionOf(d)[q.cand] = [status |-> "PENDING", claim |-> NoId]
  BY <1>3, <1>4 DEF DecisionOf
<1>6. StatusOf(d)[a.claim] = "ABSENT"
  BY <1>1, NoRowFacts DEF StatusOf
<1>7. DecisionOf(e) = [DecisionOf(d) EXCEPT ![q.cand] = [status |-> "PROMOTED", claim |-> a.claim]]
  <2>1. /\ q.cand \in Ids
        /\ e.cands[q.cand].status = "PROMOTED" /\ e.cands[q.cand].claim = a.claim
        /\ \A c \in Ids \ {q.cand} : e.cands[c] = d.cands[c]
    BY <1>1, <1>3
  <2> QED BY <2>1 DEF DecisionOf
<1>8. StatusOf(e) = [StatusOf(d) EXCEPT ![a.claim] = "ACTIVE"]
  BY <1>1, <1>3 DEF StatusOf
<1> QED BY <1>1, <1>3, <1>5, <1>6, <1>7, <1>8 DEF b, e, Moves, Promotes

\* A transaction with nothing left to do has made one abstract step, or none.
LEMMA StageMoves ==
  ASSUME NEW op, NEW d \in Databases, NEW e, NEW lines, CandidatesBacked(d, lines),
         Stage(op, d, e, <<>>)
  PROVE  Moves(d, e)
<1>1. \A r : ~Left(<<>>, r)
  BY WriteSteps DEF Left
<1>2. CASE OneRecord(d, e, <<>>)
  <2>1. CASE e = d
    BY <2>1 DEF Moves, Stutters
  <2>2. CASE e # d
    <3>1. PICK r \in Records : Starts(d, r) /\ Accepts(d, r) /\ e = Effect(d, r)
      BY <1>1, <1>2, <2>2 DEF OneRecord
    <3> QED BY <3>1, StartMoves
  <2> QED BY <2>1, <2>2
<1>3. CASE Merging(d, e, <<>>)
  <2>1. StatusOf(e) = StatusOf(d)
    BY <1>3 DEF Merging, SameLife, StatusOf
  <2> QED BY <1>3, <2>1, SameDecisions DEF Merging, SameLife, Moves, Stutters
<1>4. ASSUME NEW S, Sweeping(d, e, <<>>, S)
      PROVE  Moves(d, e)
  <2> DEFINE T == {id \in Ids : /\ d.claims[id].status = "ACTIVE"
                                /\ e.claims[id].status = "SUPERSEDED"}
  <2>1. T \in SUBSET {id \in Ids : StatusOf(d)[id] = "ACTIVE"}
    BY DEF StatusOf
  <2>2. \A id \in Ids : e.claims[id].status = IF id \in T THEN "SUPERSEDED"
                                              ELSE d.claims[id].status
    BY <1>4 DEF Sweeping
  <2> HIDE DEF T
  <2>3. StatusOf(e) = [id \in Ids |-> IF id \in T THEN "SUPERSEDED" ELSE StatusOf(d)[id]]
    BY <2>2 DEF StatusOf
  <2> QED BY <1>4, <2>1, <2>3, SameDecisions DEF Sweeping, Moves, Supersedes
<1>5. CASE Promoting(d, e, <<>>)
  <2>1. PICK a, q \in Records :
          /\ a.kind = "add_claim" /\ d.claims[a.claim] = NoRow
          /\ q.kind = "promote_candidate_claim" /\ q.claim = a.claim
          /\ Accepts(d, a) /\ Accepts(Effect(d, a), q) /\ e = Effect(Effect(d, a), q)
    <3>1. \A a, q : /\ <<>> # <<ToLog(a), ToLog(q), ToDb(a), ToDb(q)>>
                    /\ <<>> # <<ToLog(q), ToDb(a), ToDb(q)>>
                    /\ <<>> # <<ToDb(a), ToDb(q)>> /\ <<>> # <<ToDb(q)>>
      BY WriteSteps, PromotionSteps
    <3> QED BY <1>5, <3>1 DEF Promoting
  <2> QED BY <2>1, PromotionMoves
<1> QED BY <1>2, <1>3, <1>4, <1>5 DEF Stage

\* The history variable of the lifecycle: the decisions the log holds.
TriedMap == [c \in Ids |-> Tried(c)]

LEMMA SameTried == Logged' = Logged => TriedMap' = TriedMap
BY DEF TriedMap, Tried, DecisionIn

\* The log comes first: what a projection shows decided, a line has tried.
LEMMA DecisionsTried ==
  ASSUME NEW d, TransitionsLogged(d, Logged), NEW c \in Ids,
         d.cands[c].status \in {"PROMOTED", "REJECTED"}
  PROVE  DecisionOf(d)[c] \in Tried(c)
<1>1. CASE d.cands[c].status = "PROMOTED"
  <2>1. PICK r \in Logged : /\ r.kind = "promote_candidate_claim"
                            /\ r.cand = c /\ r.claim = d.cands[c].claim
    BY <1>1 DEF TransitionsLogged, DecisionLogged
  <2>2. DecisionOf(d)[c] = DecisionIn(r)
    BY <1>1, <2>1 DEF DecisionOf, DecisionIn
  <2> QED BY <2>1, <2>2 DEF Tried
<1>2. CASE d.cands[c].status = "REJECTED"
  <2>1. PICK r \in Logged : r.kind = "reject_candidate_claim" /\ r.cand = c
    BY <1>2 DEF TransitionsLogged, DecisionLogged
  <2>2. DecisionOf(d)[c] = DecisionIn(r)
    BY <1>2, <2>1 DEF DecisionOf, DecisionIn
  <2> QED BY <2>1, <2>2 DEF Tried
<1> QED BY <1>1, <1>2

\* The abstract actions under the refinement mapping.
LEMMA MappedSteps ==
  ASSUME TriedMap' = TriedMap, TransitionsLogged(Memory', Logged)
  PROVE  /\ Asserts(Memory, Memory') => AbstractMemory!Assert
         /\ Retires(Memory, Memory') => AbstractMemory!Retire
         /\ Supersedes(Memory, Memory') => AbstractMemory!Supersede
         /\ Proposes(Memory, Memory') => AbstractMemory!Propose
         /\ Promotes(Memory, Memory') => AbstractMemory!Promote
         /\ Rejects(Memory, Memory') => AbstractMemory!Reject
<1> DEFINE after == Memory'
<1>1. Asserts(Memory, Memory') => AbstractMemory!Assert
  BY DEF Asserts, StatusOf, DecisionOf, TriedMap, AbstractMemory!Assert
<1>2. Retires(Memory, Memory') => AbstractMemory!Retire
  BY DEF Retires, StatusOf, DecisionOf, TriedMap, AbstractMemory!Retire
<1>3. Supersedes(Memory, Memory') => AbstractMemory!Supersede
  BY DEF Supersedes, StatusOf, DecisionOf, TriedMap, AbstractMemory!Supersede
<1>4. Proposes(Memory, Memory') => AbstractMemory!Propose
  BY DEF Proposes, StatusOf, DecisionOf, TriedMap, AbstractMemory!Propose,
         AbstractMemory!NoCandidate, AbstractMemory!Undecided
<1>5. ASSUME Promotes(Memory, Memory') PROVE AbstractMemory!Promote
  <2>1. PICK c, id \in Ids :
          /\ DecisionOf(Memory)[c] = [status |-> "PENDING", claim |-> NoId]
          /\ StatusOf(Memory)[id] = "ABSENT"
          /\ DecisionOf(after) =
               [DecisionOf(Memory) EXCEPT ![c] = [status |-> "PROMOTED", claim |-> id]]
          /\ StatusOf(after) = [StatusOf(Memory) EXCEPT ![id] = "ACTIVE"]
    BY <1>5 DEF Promotes
  <2>2. DecisionOf(after)[c] = [status |-> "PROMOTED", claim |-> id]
    BY <2>1 DEF DecisionOf
  <2>3. after.cands[c].status = "PROMOTED"
    BY <2>2 DEF DecisionOf
  <2>4. DecisionOf(after)[c] \in Tried(c)
    BY <2>3, DecisionsTried
  <2> QED
    BY <2>1, <2>2, <2>4 DEF StatusOf, DecisionOf, TriedMap, AbstractMemory!Promote,
       AbstractMemory!Undecided, AbstractMemory!Promoted
<1>6. ASSUME Rejects(Memory, Memory') PROVE AbstractMemory!Reject
  <2>1. StatusOf(after) = StatusOf(Memory)
    BY <1>6 DEF Rejects
  <2>2. PICK c \in Ids :
          /\ DecisionOf(Memory)[c] = [status |-> "PENDING", claim |-> NoId]
          /\ DecisionOf(after) =
               [DecisionOf(Memory) EXCEPT ![c] = [status |-> "REJECTED", claim |-> NoId]]
    BY <1>6 DEF Rejects
  <2>3. DecisionOf(after)[c] = [status |-> "REJECTED", claim |-> NoId]
    BY <2>2 DEF DecisionOf
  <2>4. after.cands[c].status = "REJECTED"
    BY <2>3 DEF DecisionOf
  <2>5. DecisionOf(after)[c] \in Tried(c)
    BY <2>4, DecisionsTried
  <2> QED
    BY <2>1, <2>2, <2>3, <2>5 DEF StatusOf, DecisionOf, TriedMap, AbstractMemory!Reject,
       AbstractMemory!Undecided, AbstractMemory!Rejected
<1> QED BY <1>1, <1>2, <1>3, <1>4, <1>5, <1>6

AbstractStep == [AbstractMemory!AbstractNext]_(AbstractMemory!abstractVars)

\* A rebuild that starts, ends or goes on with the memory unchanged.
LEMMA MappedRebuild ==
  ASSUME StatusOf(Memory') = StatusOf(Memory), DecisionOf(Memory') = DecisionOf(Memory),
         TriedMap' = TriedMap, rebuild \in Rebuilds, rebuild' \in Rebuilds,
         rebuild.phase # "none" /\ rebuild'.phase # "none" => rebuild'.mode = rebuild.mode
  PROVE  AbstractStep
<1>1. /\ UNCHANGED [id \in Ids |-> Memory.claims[id].status]
      /\ UNCHANGED [c \in Ids |->
           [status |-> Memory.cands[c].status,
            claim |-> IF Memory.cands[c].status = "PROMOTED" THEN Memory.cands[c].claim ELSE NoId]]
      /\ UNCHANGED [c \in Ids |-> Tried(c)]
  BY DEF StatusOf, DecisionOf, TriedMap
<1>2. rebuild.mode \in {"strict", "lenient"} /\ rebuild'.mode \in {"strict", "lenient"}
  BY DEF Rebuilds
<1>3. CASE (rebuild.phase # "none") = (rebuild'.phase # "none")
  BY <1>1, <1>3 DEF AbstractStep, AbstractMemory!abstractVars
<1>4. CASE rebuild.phase = "none" /\ rebuild'.phase # "none"
  BY <1>1, <1>2, <1>4 DEF AbstractStep, AbstractMemory!AbstractNext, AbstractMemory!StartRebuild
<1>5. CASE rebuild.phase # "none" /\ rebuild'.phase = "none"
  BY <1>1, <1>2, <1>5 DEF AbstractStep, AbstractMemory!AbstractNext, AbstractMemory!EndRebuild
<1> QED BY <1>3, <1>4, <1>5

LEMMA MappedMoves ==
  ASSUME rebuild \in Rebuilds, rebuild.phase = "none", rebuild' = rebuild, Moves(db, db'),
         TriedMap' = TriedMap, TransitionsLogged(db', Logged)
  PROVE  AbstractStep
<1>1. Memory = db /\ Memory' = db'
  BY DEF Memory
<1>2. CASE Stutters(db, db')
  BY <1>1, <1>2, MappedRebuild DEF Stutters
<1>3. CASE ~Stutters(db, db')
  <2>1. \/ AbstractMemory!Assert \/ AbstractMemory!Retire \/ AbstractMemory!Supersede
        \/ AbstractMemory!Propose \/ AbstractMemory!Promote \/ AbstractMemory!Reject
    BY <1>1, <1>3, MappedSteps DEF Moves
  <2> QED BY <2>1 DEF AbstractStep, AbstractMemory!AbstractNext
<1> QED BY <1>2, <1>3

\* A line that decides a candidate is tried; any other changes nothing.
LEMMA MappedAppend ==
  ASSUME StageInv, NEW p \in Procs, AppendLine(p)
  PROVE  AbstractStep
<1> DEFINE r == Head(tx.todo).rec
<1>1. rebuild.phase = "none" /\ rebuild' = rebuild /\ db' = db
  BY DEF AppendLine, StageInv, RebuildAlone, PairInv, LogInv, TypeInv, WriterInside
<1>2. /\ UNCHANGED [id \in Ids |-> Memory.claims[id].status]
      /\ UNCHANGED [c \in Ids |->
           [status |-> Memory.cands[c].status,
            claim |-> IF Memory.cands[c].status = "PROMOTED" THEN Memory.cands[c].claim ELSE NoId]]
  BY <1>1 DEF Memory
<1>3. Logged' = Logged \cup {r} /\ r \in Records
  <2>1. tx.todo \in Seq(Steps) /\ tx.todo # <<>>
    BY DEF AppendLine, StageInv, PairInv, LogInv, TypeInv, TypeOK
  <2>2. Head(tx.todo) \in Steps
    BY <2>1
  <2> QED BY <2>2, LoggedAppend DEF Steps, StageInv, PairInv, LogInv
<1> HIDE DEF r
<1>4. CASE r.kind \in {"promote_candidate_claim", "reject_candidate_claim"}
  <2> DEFINE x == DecisionIn(r)
  <2>1. r.cand \in Ids /\ x \in AbstractMemory!Final
    <3>1. CASE r.kind = "promote_candidate_claim"
      <4>1. r.cand \in Ids /\ r.claim \in Ids
        BY <1>3, <3>1 DEF Records, ClaimLogRecords, EventLogRecords
      <4> QED BY <3>1, <4>1 DEF DecisionIn, AbstractMemory!Final, AbstractMemory!Promoted
    <3>2. CASE r.kind = "reject_candidate_claim"
      <4>1. r.cand \in Ids
        BY <1>3, <3>2 DEF Records, ClaimLogRecords, EventLogRecords
      <4> QED BY <3>2, <4>1 DEF DecisionIn, AbstractMemory!Final, AbstractMemory!Rejected
    <3> QED BY <1>4, <3>1, <3>2
  <2>2. \A c \in Ids : Tried(c)' = IF c = r.cand THEN Tried(c) \cup {x} ELSE Tried(c)
    <3>1. ASSUME NEW q PROVE DecisionIn(q)' = DecisionIn(q)
      BY DEF DecisionIn
    <3> QED BY <1>3, <1>4, <3>1 DEF Tried
  <2> HIDE DEF x
  <2>3. TriedMap' = [TriedMap EXCEPT ![r.cand] = TriedMap[r.cand] \cup {x}]
    BY <2>1, <2>2 DEF TriedMap
  <2>4. AbstractMemory!Try
    BY <1>2, <2>1, <2>3 DEF AbstractMemory!Try, TriedMap
  <2> QED BY <1>1, <2>4 DEF AbstractStep, AbstractMemory!AbstractNext
<1>5. CASE r.kind \notin {"promote_candidate_claim", "reject_candidate_claim"}
  <2>1. \A c \in Ids : Tried(c)' = Tried(c)
    <3>1. ASSUME NEW q PROVE DecisionIn(q)' = DecisionIn(q)
      BY DEF DecisionIn
    <3> QED BY <1>3, <1>5, <3>1 DEF Tried
  <2> QED BY <1>1, <1>2, <2>1 DEF AbstractStep, AbstractMemory!abstractVars
<1> QED BY <1>4, <1>5

LEMMA MappedInit == Init => AbstractMemory!Empty
<1> SUFFICES ASSUME Init PROVE AbstractMemory!Empty
  OBVIOUS
<1>1. Memory = EmptyDb /\ rebuild.phase = "none" /\ Logged = {}
  BY DEF Init, Memory, NoRebuild, Logged
<1>2. \A id \in Ids : Memory.claims[id].status = "ABSENT" /\ Memory.cands[id].status = "ABSENT"
  BY <1>1 DEF EmptyDb, NoRow
<1> QED
  BY <1>1, <1>2 DEF AbstractMemory!Empty, AbstractMemory!AllAbsent, AbstractMemory!NoCandidates,
                    AbstractMemory!NoCandidate, Tried

\* Every step but the swap of a rebuild maps to a step of the lifecycle, or to
\* none.
LEMMA MappedNext ==
  ASSUME StageInv, [Next]_vars, ~RebuildRemove
  PROVE  AbstractStep
<1>1. /\ db \in Databases /\ tx.work \in Databases /\ CandidatesBacked(db, Logged)
      /\ rebuild \in Rebuilds /\ rebuild' \in Rebuilds
      /\ TransitionsLogged(tx.work, Logged) /\ TypeInv
  <2>1. TypeInv /\ TypeInv'
    BY TypeNext DEF StageInv, PairInv, LogInv
  <2> QED BY <2>1 DEF StageInv, PairInv, LogInv, LogFirst, TypeInv, TypeOK
<1>2. ASSUME logs' = logs PROVE TriedMap' = TriedMap
  BY <1>2, SameTried DEF Logged
<1>3. ASSUME db' = db, rebuild' = rebuild, logs' = logs PROVE AbstractStep
  <2>1. Memory' = Memory
    BY <1>3 DEF Memory
  <2> QED BY <1>1, <1>2, <1>3, <2>1, MappedRebuild
<1>4. ASSUME NEW p \in Procs, Commit(p) PROVE AbstractStep
  <2>1. /\ Stage(job[p].op, db, tx.work, <<>>) /\ db' = tx.work /\ rebuild' = rebuild
        /\ writer = p /\ logs' = logs
    BY <1>4 DEF Commit, StageInv
  <2>2. Moves(db, tx.work)
    BY <1>1, <2>1, StageMoves
  <2>3. Moves(db, db') /\ TransitionsLogged(db', Logged)
    BY <1>1, <2>1, <2>2
  <2>4. rebuild.phase = "none"
    BY <2>1 DEF StageInv, RebuildAlone, PairInv, LogInv, TypeInv, WriterInside
  <2> QED BY <1>1, <1>2, <2>1, <2>3, <2>4, MappedMoves
<1>5. ASSUME NEW p \in Procs,
             \/ Calls(p) \/ Begins(p) \/ Works(p) \/ BusyTimeout(p) \/ Open(p) \/ Close(p)
             \/ Crash(p)
      PROVE  AbstractStep
  <2>1. CASE Commit(p)
    BY <1>4, <2>1
  <2>2. CASE Calls(p)
    <3>1. \E j : Call(p, j)
      BY <2>2, CallsType DEF StageInv, PairInv, LogInv, TypeInv
    <3> QED BY <1>3, <3>1 DEF Call
  <2>3. CASE Begins(p)
    <3>1. \E op, todo : TakeLock(p, op, todo)
      BY <2>3, BeginsStage DEF StageInv
    <3> QED BY <1>3, <3>1 DEF TakeLock
  <2>4. CASE Works(p) /\ ~Commit(p) /\ ~AppendLine(p)
    BY <1>3, <2>4 DEF Works, MergeGroup, SupersedeConflicts, ApplyRecord, StepFails
  <2>5. CASE BusyTimeout(p) \/ Open(p) \/ Close(p) \/ Crash(p)
    BY <1>3, <2>5 DEF BusyTimeout, Open, Close, Crash
  <2>6. CASE AppendLine(p)
    BY <2>6, MappedAppend
  <2> QED BY <1>5, <2>1, <2>2, <2>3, <2>4, <2>5, <2>6
<1>6. CASE Tick \/ UNCHANGED vars
  BY <1>3, <1>6 DEF Tick, vars
<1>7. CASE RebuildStart \/ RebuildApply \/ RebuildRefuse
  <2>1. db' = db /\ Memory = db
    BY <1>7 DEF RebuildStart, RebuildApply, RebuildRefuse, Memory
  <2>2. NoRebuild.phase = "none" /\ \A m : [NoRebuild EXCEPT !.phase = "lines", !.mode = m].phase = "lines"
    BY DEF NoRebuild
  <2>3. rebuild'.phase # "swap"
    <3>1. CASE RebuildStart
      BY <2>2, <3>1 DEF RebuildStart
    <3>2. CASE RebuildApply
      BY <1>1, <3>2 DEF RebuildApply, Rebuilds
    <3>3. CASE RebuildRefuse
      BY <1>1, <2>2, <3>3 DEF RebuildRefuse, Rebuilds
    <3> QED BY <1>7, <3>1, <3>2, <3>3
  <2>4. Memory' = Memory
    BY <2>1, <2>3 DEF Memory
  <2>5. logs' = logs /\ (rebuild.phase # "none" /\ rebuild'.phase # "none" =>
                          rebuild'.mode = rebuild.mode)
    <3>1. CASE RebuildStart
      BY <3>1 DEF RebuildStart
    <3>2. CASE RebuildApply
      BY <1>1, <3>2 DEF RebuildApply, Rebuilds
    <3>3. CASE RebuildRefuse
      BY <1>1, <3>3 DEF RebuildRefuse, Rebuilds, NoRebuild
    <3> QED BY <1>7, <3>1, <3>2, <3>3
  <2> QED BY <1>1, <1>2, <2>4, <2>5, MappedRebuild
<1>8. CASE RebuildRename
  <2>1. Memory' = Memory /\ logs' = logs /\ rebuild'.phase = "none"
    BY <1>8 DEF RebuildRename, Memory, NoRebuild
  <2> QED BY <1>1, <1>2, <2>1, MappedRebuild
<1>9. CASE RebuildCrash
  <2>1. /\ rebuild.phase # "none" /\ rebuild'.phase = "none" /\ db' = db /\ Memory' = db
        /\ logs' = logs
    BY <1>9 DEF RebuildCrash, NoRebuild, Memory
  <2>2. CASE rebuild.phase # "swap"
    <3>1. Memory' = Memory
      BY <2>1, <2>2 DEF Memory
    <3> QED BY <1>1, <1>2, <2>1, <3>1, MappedRebuild
  <2>3. CASE rebuild.phase = "swap"
    <3>1. Memory' = EmptyDb
      BY <2>1, <2>3 DEF StageInv, RebuildAlone
    <3>2. \A id \in Ids : /\ Memory'.claims[id].status = "ABSENT"
                          /\ Memory'.cands[id].status = "ABSENT"
      BY <3>1 DEF EmptyDb, NoRow
    <3>3. TriedMap' = TriedMap
      BY <1>2, <2>1
    <3>4. rebuild.mode # "no"
      BY <1>1 DEF Rebuilds
    <3> QED
      BY <2>1, <3>2, <3>3, <3>4 DEF AbstractStep, AbstractMemory!AbstractNext,
         AbstractMemory!EndRebuild, AbstractMemory!AllAbsent, AbstractMemory!NoCandidates,
         AbstractMemory!NoCandidate, TriedMap
  <2> QED BY <2>2, <2>3
<1> QED
  BY <1>5, <1>6, <1>7, <1>8, <1>9 DEF Next, Rebuilding

\* Calls take effect one at a time and whole, and crashes undo nothing: for any
\* processes, operations, faults and replay modes, every step of the write path
\* but the swap of a rebuild is a step of the lifecycle the memory promises.
THEOREM CallsImplementLifecycle ==
  Spec => /\ AbstractMemory!Empty
          /\ [][~RebuildRemove => AbstractStep]_vars
<1>1. StageInv /\ [Next]_vars => [~RebuildRemove => AbstractStep]_vars
  BY MappedNext
<1> QED
  BY StageInit, StageNext, MappedInit, <1>1, PTL DEF Spec

\* No rebuild, strict or lenient, shows a decision no line has tried.
InventsNothing(c) ==
  DecisionOf(rebuild.db)[c] \in Tried(c) \cup {AbstractMemory!NoCandidate,
                                              AbstractMemory!Undecided}

LEMMA RebuiltDecisions ==
  ASSUME StageInv, NEW c \in Ids
  PROVE  InventsNothing(c)
<1>1. TransitionsLogged(rebuild.db, Logged) /\ rebuild.db \in Databases
  BY DEF StageInv, PairInv, LogInv, LogFirst, TypeInv, TypeOK, Rebuilds
<1>2. rebuild.db.cands[c].status \in {"ABSENT", "PENDING", "PROMOTED", "REJECTED"}
  BY <1>1, NoRowFacts DEF Databases, CandidateRows
<1>3. CASE rebuild.db.cands[c].status \in {"PROMOTED", "REJECTED"}
  BY <1>1, <1>3, DecisionsTried DEF InventsNothing
<1>4. CASE rebuild.db.cands[c].status = "ABSENT"
  BY <1>4 DEF InventsNothing, DecisionOf, AbstractMemory!NoCandidate
<1>5. CASE rebuild.db.cands[c].status = "PENDING"
  BY <1>5 DEF InventsNothing, DecisionOf, AbstractMemory!Undecided
<1> QED BY <1>2, <1>3, <1>4, <1>5

\* The swap of a rebuild in either mode installs only decisions that some call
\* wrote to the log (replay.rs applies lines and nothing else).
THEOREM RebuildsInventNothing ==
  Spec => [][RebuildRemove => AbstractMemory!NothingInvented]_vars
<1>1. StageInv /\ RebuildRemove => AbstractMemory!NothingInvented
  <2> SUFFICES ASSUME StageInv, RebuildRemove PROVE AbstractMemory!NothingInvented
    OBVIOUS
  <2>1. Memory' = rebuild.db
    <3>1. rebuild \in Rebuilds
      BY DEF StageInv, PairInv, LogInv, TypeInv, TypeOK
    <3>2. rebuild'.phase = "swap" /\ rebuild'.db = rebuild.db
      BY <3>1 DEF RebuildRemove, Rebuilds
    <3> QED BY <3>2 DEF Memory
  <2>2. \A c \in Ids : InventsNothing(c)
    BY RebuiltDecisions
  <2> QED
    BY <2>1, <2>2 DEF InventsNothing, DecisionOf, AbstractMemory!NothingInvented
<1>2. StageInv /\ [Next]_vars => [RebuildRemove => AbstractMemory!NothingInvented]_vars
  BY <1>1
<1> QED
  BY StageInit, StageNext, <1>2, PTL DEF Spec

-----------------------------------------------------------------------------
(* Strict replay.  What a line says, a projection that accepted the line    *)
(* goes on showing, so a strict rebuild that reaches the last line shows    *)
(* every decision of the log, in whatever order the lines came.             *)

\* One record, seen from one claim.
LEMMA ClaimMoves ==
  ASSUME NEW d \in Databases, NEW r \in Records, Accepts(d, r), NEW id \in Ids
  PROVE  /\ d.claims[id] # NoRow => Effect(d, r).claims[id] # NoRow
         /\ Effect(d, r).claims[id].status = "INVALIDATED" =>
              \/ d.claims[id].status = "INVALIDATED"
              \/ r.kind = "retire_claim" /\ r.claim = id
         /\ d.claims[id].status = "INVALIDATED" =>
              \/ Effect(d, r).claims[id].status = "INVALIDATED"
              \/ r.kind = "supersede_claims" /\ id \in r.claims
         /\ d.claims[id].status \in {"SUPERSEDED", "INVALIDATED"} =>
              Effect(d, r).claims[id].status \in {"SUPERSEDED", "INVALIDATED"}
<1>1. CASE r.kind = "add_claim"
  BY <1>1, AddFacts, NoRowFacts
<1>2. CASE r.kind = "retire_claim"
  BY <1>2, RetireFacts
<1>3. CASE r.kind = "supersede_claims"
  BY <1>3, SupersedeFacts
<1>4. CASE r.kind \in QuietKinds
  BY <1>4, QuietFacts
<1>5. CASE r.kind = "propose_candidate_claim"
  BY <1>5, ProposeFacts
<1>6. CASE r.kind = "promote_candidate_claim"
  BY <1>6, PromoteFacts
<1>7. CASE r.kind = "reject_candidate_claim"
  BY <1>7, RejectFacts
<1> QED
  BY <1>1, <1>2, <1>3, <1>4, <1>5, <1>6, <1>7, RecordKinds DEF Kinds, QuietKinds

CandidateShape(row) ==
  /\ row.status = "PENDING" => row.claim = NoId /\ row.reasons = {}
  /\ row.status = "PROMOTED" => row.reasons = {}
  /\ row.status = "REJECTED" => row.claim = NoId

Shaped(d) == \A c \in Ids : CandidateShape(d.cands[c])

\* One record, seen from one candidate.
LEMMA CandidateMoves ==
  ASSUME NEW d \in Databases, NEW r \in Records, Accepts(d, r), NEW c \in Ids
  PROVE  /\ CandidateShape(d.cands[c]) => CandidateShape(Effect(d, r).cands[c])
         /\ d.cands[c] # NoRow => Effect(d, r).cands[c] # NoRow
         /\ d.cands[c].status = "PROMOTED" =>
              /\ Effect(d, r).cands[c].status = "PROMOTED"
              /\ Effect(d, r).cands[c].claim = d.cands[c].claim
         /\ d.cands[c].status = "REJECTED" =>
              /\ Effect(d, r).cands[c].status = "REJECTED"
              /\ Effect(d, r).cands[c].reasons = d.cands[c].reasons
<1>1. CASE Effect(d, r).cands[c] = d.cands[c]
  BY <1>1
<1>2. CASE r.kind = "propose_candidate_claim"
  BY <1>1, <1>2, ProposeFacts, NoRowFacts DEF CandidateShape
<1>3. CASE r.kind = "promote_candidate_claim"
  BY <1>1, <1>3, PromoteFacts, NoRowFacts DEF CandidateShape
<1>4. CASE r.kind = "reject_candidate_claim"
  <2> DEFINE old == d.cands[c]
             new == Effect(d, r).cands[c]
  <2>1. CASE c = r.cand
    <3>1. /\ \/ old.status = "PENDING"
             \/ old.status = "REJECTED" /\ old.reasons = {r.reason}
          /\ new # NoRow /\ new.status = "REJECTED" /\ new.claim = old.claim
          /\ new.reasons = {r.reason}
      <4>1. /\ \/ d.cands[r.cand].status = "PENDING"
               \/ d.cands[r.cand].status = "REJECTED" /\ d.cands[r.cand].reasons = {r.reason}
            /\ Effect(d, r).cands[r.cand].status = "REJECTED"
            /\ Effect(d, r).cands[r.cand].claim = d.cands[r.cand].claim
            /\ Effect(d, r).cands[r.cand].reasons = {r.reason}
        BY <1>4, RejectFacts
      <4>2. NoRow.status # "REJECTED"
        BY DEF NoRow
      <4>3. new # NoRow
        BY <2>1, <4>1, <4>2
      <4> QED BY <2>1, <4>1, <4>3
    <3> HIDE DEF old, new
    <3>2. /\ CandidateShape(old) => CandidateShape(new)
          /\ old # NoRow => new # NoRow
          /\ old.status = "PROMOTED" => new.status = "PROMOTED" /\ new.claim = old.claim
          /\ old.status = "REJECTED" => new.status = "REJECTED" /\ new.reasons = old.reasons
      BY <3>1 DEF CandidateShape
    <3> QED BY <3>2 DEF old, new
  <2>2. CASE c # r.cand
    BY <1>1, <1>4, <2>2, RejectFacts
  <2> QED BY <2>1, <2>2
<1>5. CASE r.kind = "add_claim"
  BY <1>1, <1>5, AddFacts
<1>6. CASE r.kind = "retire_claim"
  BY <1>1, <1>6, RetireFacts
<1>7. CASE r.kind = "supersede_claims"
  BY <1>1, <1>7, SupersedeFacts
<1>8. CASE r.kind \in QuietKinds
  BY <1>1, <1>8, QuietFacts
<1> QED
  BY <1>2, <1>3, <1>4, <1>5, <1>6, <1>7, <1>8, RecordKinds DEF Kinds, QuietKinds

\* What a line says that no later line takes back.
Shows(d, r) ==
  /\ r.kind = "add_claim" => d.claims[r.claim] # NoRow
  /\ r.kind = "supersede_claims" =>
       \A id \in r.claims : d.claims[id].status \in {"SUPERSEDED", "INVALIDATED"}
  /\ r.kind = "propose_candidate_claim" => d.cands[r.id] # NoRow
  /\ r.kind = "promote_candidate_claim" => /\ d.cands[r.cand].status = "PROMOTED"
                                           /\ d.cands[r.cand].claim = r.claim
  /\ r.kind = "reject_candidate_claim" => /\ d.cands[r.cand].status = "REJECTED"
                                          /\ d.cands[r.cand].reasons = {r.reason}

LEMMA ShowsOwnLine ==
  ASSUME NEW d \in Databases, NEW r \in Records, Accepts(d, r)
  PROVE  Shows(Effect(d, r), r)
<1>1. CASE r.kind = "add_claim"
  BY <1>1, AddFacts DEF Shows
<1>2. CASE r.kind = "supersede_claims"
  BY <1>2, SupersedeFacts DEF Shows
<1>3. CASE r.kind = "propose_candidate_claim"
  BY <1>3, ProposeFacts, NoRowFacts DEF Shows
<1>4. CASE r.kind = "promote_candidate_claim"
  BY <1>4, PromoteFacts DEF Shows
<1>5. CASE r.kind = "reject_candidate_claim"
  BY <1>5, RejectFacts DEF Shows
<1> QED BY <1>1, <1>2, <1>3, <1>4, <1>5 DEF Shows

LEMMA ShowsStays ==
  ASSUME NEW d \in Databases, NEW r \in Records, Accepts(d, r), NEW q \in Records, Shows(d, q)
  PROVE  Shows(Effect(d, r), q)
<1>1. CASE q.kind = "add_claim"
  <2>1. q.claim \in Ids
    BY <1>1 DEF Records, ClaimLogRecords, EventLogRecords
  <2> QED BY <1>1, <2>1, ClaimMoves DEF Shows
<1>2. CASE q.kind = "supersede_claims"
  <2>1. q.claims \subseteq Ids
    BY <1>2 DEF Records, ClaimLogRecords, EventLogRecords
  <2> QED BY <1>2, <2>1, ClaimMoves DEF Shows
<1>3. CASE q.kind = "propose_candidate_claim"
  <2>1. q.id \in Ids
    BY <1>3 DEF Records, ClaimLogRecords, EventLogRecords
  <2> QED BY <1>3, <2>1, CandidateMoves DEF Shows
<1>4. CASE q.kind \in {"promote_candidate_claim", "reject_candidate_claim"}
  <2>1. q.cand \in Ids
    BY <1>4 DEF Records, ClaimLogRecords, EventLogRecords
  <2> QED BY <1>4, <2>1, CandidateMoves DEF Shows
<1> QED BY <1>1, <1>2, <1>3, <1>4 DEF Shows

StrictShows ==
  /\ rebuild.phase # "none" => rebuild.pos <= Lines
  /\ rebuild.phase # "none" /\ rebuild.mode = "strict" =>
       \A n \in 1..rebuild.pos : Shows(rebuild.db, LineAt(n))

StrictInv ==
  /\ StageInv
  /\ Shaped(db) /\ Shaped(tx.work) /\ Shaped(rebuild.db)
  /\ StrictShows

\* Every line has a position in replay order.
LEMMA LoggedAt ==
  ASSUME TypeOK, NEW r \in Logged
  PROVE  \E n \in 1..Lines : LineAt(n) = r
<1> DEFINE a == Len(logs["log"])
           b == Len(logs["events"])
<1>1. logs["log"] \in Seq(Records) /\ logs["events"] \in Seq(Records)
  BY DEF TypeOK, Series
<1>2. /\ a \in Nat /\ b \in Nat /\ Lines = a + b /\ a = Len(logs["log"])
      /\ DOMAIN logs["log"] = 1..a /\ DOMAIN logs["events"] = 1..b
  BY <1>1 DEF Lines
<1> HIDE DEF a, b
<1>3. PICK s \in Series : \E i \in DOMAIN logs[s] : r = logs[s][i]
  BY DEF Logged
<1>4. PICK i \in DOMAIN logs[s] : r = logs[s][i]
  BY <1>3
<1>5. CASE s = "log"
  <2>1. i \in 1..a
    BY <1>2, <1>4, <1>5
  <2>2. i <= a /\ i \in 1..Lines
    BY <1>2, <2>1
  <2>3. Position(i) = <<"log", i>>
    BY <1>2, <2>2, PositionFacts, Zenon
  <2>4. LineAt(i) = r
    BY <1>4, <1>5, <2>3 DEF LineAt
  <2> QED BY <2>2, <2>4
<1>6. CASE s = "events"
  <2> DEFINE n == a + i
  <2>1. i \in 1..b
    BY <1>2, <1>4, <1>6
  <2>2. ~(n <= a) /\ n \in 1..Lines /\ n - a = i
    BY <1>2, <2>1
  <2> HIDE DEF n
  <2>3. Position(n) = <<"events", i>>
    BY <1>2, <2>2, PositionFacts, Zenon
  <2>4. LineAt(n) = r
    BY <1>4, <1>6, <2>3 DEF LineAt
  <2> QED BY <2>2, <2>4
<1> QED BY <1>5, <1>6 DEF Series

\* What a step can do to the three projections.
OneRecordOn(d, e) == \E r \in Records : Accepts(d, r) /\ e = Effect(d, r)

LEMMA ProjectionSteps ==
  ASSUME TypeInv, [Next]_vars
  PROVE  /\ \/ db' \in {db, EmptyDb, tx.work}
            \/ RebuildRename /\ db' = rebuild.db
         /\ \/ tx'.work \in {tx.work, db, EmptyDb}
            \/ OneRecordOn(tx.work, tx'.work) /\ \E p \in Procs : ApplyRecord(p)
         /\ \/ rebuild'.db \in {rebuild.db, EmptyDb}
            \/ OneRecordOn(rebuild.db, rebuild'.db)
<1>1. TypeOK /\ rebuild \in Rebuilds /\ tx.todo \in Seq(Steps) /\ NoTx.work = EmptyDb
  BY DEF TypeInv, TypeOK, NoTx
<1>2. NoRebuild.db = EmptyDb
  BY DEF NoRebuild
<1>3. ASSUME NEW p \in Procs, Calls(p) PROVE db' = db /\ tx' = tx /\ rebuild' = rebuild
  <2>1. \E j : Call(p, j)
    BY <1>3, CallsType DEF TypeInv
  <2> QED BY <2>1 DEF Call
<1>4. ASSUME NEW p \in Procs, Begins(p) PROVE db' = db /\ tx'.work = db /\ rebuild' = rebuild
  <2>1. PICK op, todo : TakeLock(p, op, todo)
    BY <1>4, BeginsLogged
  <2> QED BY <2>1 DEF TakeLock
<1>5. ASSUME NEW p \in Procs, Works(p)
      PROVE  /\ rebuild' = rebuild
             /\ db' \in {db, tx.work}
             /\ \/ tx'.work \in {tx.work, EmptyDb}
                \/ OneRecordOn(tx.work, tx'.work) /\ ApplyRecord(p)
  <2>1. CASE ApplyRecord(p)
    <3> DEFINE r == Head(tx.todo).rec
    <3>1. tx.todo # <<>> /\ Accepts(tx.work, r) /\ tx'.work = Effect(tx.work, r)
          /\ db' = db /\ rebuild' = rebuild
      BY <2>1 DEF ApplyRecord, TypeInv, TypeOK
    <3>2. Head(tx.todo) \in Steps
      BY <1>1, <3>1
    <3>3. r \in Records
      BY <3>2 DEF Steps
    <3> QED BY <2>1, <3>1, <3>3 DEF OneRecordOn
  <2>2. CASE MergeGroup(p) \/ SupersedeConflicts(p) \/ AppendLine(p)
    BY <2>2 DEF MergeGroup, SupersedeConflicts, AppendLine, TypeInv, TypeOK
  <2>3. CASE Commit(p) \/ StepFails(p)
    BY <1>1, <2>3 DEF Commit, StepFails, Rollback
  <2> QED BY <1>5, <2>1, <2>2, <2>3 DEF Works
<1>6. ASSUME NEW p \in Procs, BusyTimeout(p) \/ Open(p) \/ Close(p) \/ Crash(p)
      PROVE  db' = db /\ rebuild' = rebuild /\ tx'.work \in {tx.work, EmptyDb}
  BY <1>1, <1>6 DEF BusyTimeout, Open, Close, Crash, Rollback
<1>7. CASE Rebuilding
  <2>1. tx' = tx
    BY <1>7 DEF Rebuilding, RebuildStart, RebuildApply, RebuildRefuse, RebuildRemove,
                RebuildRename, RebuildCrash
  <2>2. CASE RebuildApply
    <3> DEFINE r == LineAt(rebuild.pos + 1)
    <3>1. /\ rebuild.pos \in Nat /\ rebuild.pos < Lines /\ Accepts(rebuild.db, r)
          /\ rebuild'.db = Effect(rebuild.db, r) /\ db' = db
      BY <1>1, <2>2 DEF RebuildApply, Rebuilds
    <3>2. r \in Records
      BY <1>1, <3>1, LineAtType
    <3> QED BY <2>1, <3>1, <3>2 DEF OneRecordOn
  <2>3. CASE RebuildStart \/ RebuildRefuse
    <3>1. db' = db /\ rebuild'.db \in {rebuild.db, EmptyDb}
      BY <1>1, <1>2, <2>3 DEF RebuildStart, RebuildRefuse, Rebuilds, NoRebuild
    <3> QED BY <2>1, <3>1
  <2>4. CASE RebuildRemove \/ RebuildRename \/ RebuildCrash
    <3>1. /\ \/ db' \in {db, EmptyDb}
             \/ RebuildRename /\ db' = rebuild.db
          /\ rebuild'.db \in {rebuild.db, EmptyDb}
      BY <1>1, <1>2, <2>4 DEF RebuildRemove, RebuildRename, RebuildCrash, Rebuilds
    <3> QED BY <2>1, <3>1
  <2> QED BY <1>7, <2>2, <2>3, <2>4 DEF Rebuilding
<1>8. CASE Tick \/ UNCHANGED vars
  BY <1>8 DEF Tick, vars
<1> QED BY <1>3, <1>4, <1>5, <1>6, <1>7, <1>8 DEF Next

LEMMA EmptyShaped == Shaped(EmptyDb)
BY NoRowFacts DEF Shaped, CandidateShape, EmptyDb

LEMMA MovedShaped ==
  ASSUME NEW d \in Databases, NEW e, OneRecordOn(d, e), Shaped(d)
  PROVE  Shaped(e)
BY CandidateMoves DEF OneRecordOn, Shaped

\* A rebuild reads logs nobody writes to.
LEMMA LogsRest ==
  ASSUME StageInv, [Next]_vars
  PROVE  /\ logs' = logs \/ \E p \in Procs : AppendLine(p)
         /\ rebuild.phase # "none" => logs' = logs
<1>1. ASSUME NEW p \in Procs, AppendLine(p) PROVE rebuild.phase = "none"
  <2>1. pc[p] = "tx"
    BY <1>1 DEF AppendLine, StageInv, PairInv, LogInv, TypeInv, WriterInside
  <2> QED BY <2>1 DEF StageInv, RebuildAlone
<1>2. ASSUME NEW p \in Procs, Calls(p) PROVE logs' = logs
  BY <1>2 DEF Calls, Call, CallAddClaim, CallContradict, CallRetire, CallConsolidate, CallDecay,
              CallRecordEvent, CallPropose, CallPromote, CallReject
<1>3. ASSUME NEW p \in Procs, Begins(p) PROVE logs' = logs
  <2>1. PICK op, todo : TakeLock(p, op, todo)
    BY <1>3, BeginsLogged
  <2> QED BY <2>1 DEF TakeLock
<1>4. ASSUME NEW p \in Procs, Works(p) PROVE logs' = logs \/ AppendLine(p)
  BY <1>4 DEF Works, MergeGroup, SupersedeConflicts, ApplyRecord, Commit, StepFails
<1>5. ASSUME NEW p \in Procs, BusyTimeout(p) \/ Open(p) \/ Close(p) \/ Crash(p)
      PROVE  logs' = logs
  BY <1>5 DEF BusyTimeout, Open, Close, Crash
<1>6. CASE Rebuilding
  BY <1>6 DEF Rebuilding, RebuildStart, RebuildApply, RebuildRefuse, RebuildRemove,
              RebuildRename, RebuildCrash
<1>7. CASE Tick \/ UNCHANGED vars
  BY <1>7 DEF Tick, vars
<1> QED BY <1>1, <1>2, <1>3, <1>4, <1>5, <1>6, <1>7 DEF Next

LEMMA SameLines ==
  ASSUME logs' = logs
  PROVE  Lines' = Lines /\ \A n : LineAt(n)' = LineAt(n)
BY DEF Lines, LineAt, Position

\* What a step can do to a rebuild: leave it alone, start or end one, take one
\* line, skip one in lenient mode, begin the swap.
LEMMA RebuildSteps ==
  ASSUME TypeInv, [Next]_vars
  PROVE  \/ rebuild' = rebuild
         \/ rebuild' = NoRebuild /\ rebuild'.phase = "none"
         \/ /\ RebuildStart /\ rebuild'.phase = "lines" /\ rebuild'.pos = 0
            /\ rebuild'.db = EmptyDb
         \/ /\ RebuildApply /\ rebuild'.phase = "lines" /\ rebuild'.mode = rebuild.mode
            /\ rebuild'.pos = rebuild.pos + 1
            /\ rebuild'.db = Effect(rebuild.db, LineAt(rebuild.pos + 1))
         \/ /\ RebuildRefuse /\ rebuild'.phase = "lines" /\ rebuild'.mode = rebuild.mode
            /\ rebuild'.pos = rebuild.pos + 1 /\ rebuild'.db = rebuild.db
            /\ rebuild.mode # "strict"
         \/ /\ RebuildRemove /\ rebuild'.phase = "swap" /\ rebuild'.mode = rebuild.mode
            /\ rebuild'.pos = rebuild.pos /\ rebuild'.db = rebuild.db
<1>1. rebuild \in Rebuilds
  BY DEF TypeInv, TypeOK
<1>2. NoRebuild.phase = "none"
  BY DEF NoRebuild
<1>3. ASSUME NEW p \in Procs, Calls(p) PROVE rebuild' = rebuild
  BY <1>3 DEF Calls, Call, CallAddClaim, CallContradict, CallRetire, CallConsolidate, CallDecay,
              CallRecordEvent, CallPropose, CallPromote, CallReject
<1>4. ASSUME NEW p \in Procs, Begins(p) PROVE rebuild' = rebuild
  <2>1. PICK op, todo : TakeLock(p, op, todo)
    BY <1>4, BeginsLogged
  <2> QED BY <2>1 DEF TakeLock
<1>5. ASSUME NEW p \in Procs, Works(p) \/ BusyTimeout(p) \/ Open(p) \/ Close(p) \/ Crash(p)
      PROVE  rebuild' = rebuild
  BY <1>5 DEF Works, MergeGroup, SupersedeConflicts, AppendLine, ApplyRecord, Commit, StepFails,
              BusyTimeout, Open, Close, Crash
<1>6. CASE RebuildStart
  BY <1>6 DEF RebuildStart, NoRebuild
<1>7. CASE RebuildApply
  BY <1>1, <1>7 DEF RebuildApply, Rebuilds
<1>8. CASE RebuildRefuse
  BY <1>1, <1>2, <1>8 DEF RebuildRefuse, Rebuilds
<1>9. CASE RebuildRemove
  BY <1>1, <1>9 DEF RebuildRemove, Rebuilds
<1>10. CASE RebuildRename \/ RebuildCrash
  BY <1>2, <1>10 DEF RebuildRename, RebuildCrash
<1>11. CASE Tick \/ UNCHANGED vars
  BY <1>11 DEF Tick, vars
<1> QED BY <1>3, <1>4, <1>5, <1>6, <1>7, <1>8, <1>9, <1>10, <1>11 DEF Next, Rebuilding

LEMMA StrictInit == Init => StrictInv
<1> SUFFICES ASSUME Init PROVE StrictInv
  OBVIOUS
<1>1. /\ db = EmptyDb /\ tx.work = EmptyDb /\ rebuild.db = EmptyDb
      /\ rebuild.phase = "none"
  BY DEF Init, NoTx, NoRebuild
<1> QED BY <1>1, StageInit, EmptyShaped DEF StrictInv, StrictShows

LEMMA StrictShowsNext ==
  ASSUME StrictInv, [Next]_vars
  PROVE  StrictShows'
<1>1. TypeInv /\ TypeOK /\ StageInv /\ StrictShows
  BY DEF StrictInv, StageInv, PairInv, LogInv, TypeInv
<1>2. rebuild.pos \in Nat /\ rebuild.db \in Databases /\ Lines \in Nat
  BY <1>1, LinesType DEF TypeOK, Rebuilds
<1>3. Lines' \in Nat
  <2>1. TypeOK'
    BY <1>1, TypeNext DEF TypeInv
  <2>2. TypeOK' => Lines' \in Nat
    BY DEF TypeOK, Lines, Series
  <2> QED BY <2>1, <2>2
<1>4. CASE rebuild'.phase = "none"
  BY <1>4 DEF StrictShows
<1>5. CASE rebuild'.phase = "lines" /\ rebuild'.pos = 0
  <2>1. rebuild'.pos <= Lines' /\ 1..rebuild'.pos = {}
    BY <1>3, <1>5
  <2> QED BY <2>1 DEF StrictShows
<1>6. ASSUME rebuild.phase # "none" \/ rebuild'.phase = "none"
      PROVE  rebuild'.phase # "none" => Lines' = Lines /\ \A n : LineAt(n)' = LineAt(n)
  BY <1>1, <1>6, LogsRest, SameLines
<1>7. ASSUME \/ rebuild' = rebuild
             \/ /\ rebuild'.phase = "swap" /\ RebuildRemove
                /\ rebuild'.mode = rebuild.mode
                /\ rebuild'.pos = rebuild.pos /\ rebuild'.db = rebuild.db
      PROVE  StrictShows'
  <2>1. /\ rebuild'.pos = rebuild.pos /\ rebuild'.db = rebuild.db /\ rebuild'.mode = rebuild.mode
        /\ rebuild'.phase # "none" => rebuild.phase # "none"
    BY <1>7 DEF RebuildRemove
  <2> QED BY <1>1, <1>6, <2>1 DEF StrictShows
<1>8. ASSUME RebuildRefuse, rebuild'.phase = "lines", rebuild'.mode = rebuild.mode,
             rebuild'.pos = rebuild.pos + 1, rebuild.mode # "strict"
      PROVE  StrictShows'
  <2>1. rebuild.phase = "lines" /\ rebuild.pos < Lines
    BY <1>8 DEF RebuildRefuse
  <2>2. Lines' = Lines
    BY <1>6, <1>8, <2>1
  <2> QED BY <1>2, <1>8, <2>1, <2>2 DEF StrictShows
<1>9. ASSUME RebuildApply, rebuild'.phase = "lines", rebuild'.mode = rebuild.mode,
             rebuild'.pos = rebuild.pos + 1,
             rebuild'.db = Effect(rebuild.db, LineAt(rebuild.pos + 1))
      PROVE  StrictShows'
  <2> DEFINE r == LineAt(rebuild.pos + 1)
  <2>1. rebuild.phase = "lines" /\ rebuild.pos < Lines /\ Accepts(rebuild.db, r)
    BY <1>9 DEF RebuildApply
  <2>2. r \in Records
    BY <1>1, <1>2, <2>1, LineAtType
  <2>3. Lines' = Lines /\ \A n : LineAt(n)' = LineAt(n)
    BY <1>6, <1>9, <2>1
  <2>4. rebuild'.pos <= Lines'
    BY <1>2, <1>9, <2>1, <2>3
  <2>5. ASSUME rebuild.mode = "strict", NEW n \in 1..(rebuild.pos + 1)
        PROVE  Shows(Effect(rebuild.db, r), LineAt(n))
    <3>1. CASE n = rebuild.pos + 1
      BY <1>2, <2>1, <2>2, <3>1, ShowsOwnLine
    <3>2. CASE n # rebuild.pos + 1
      <4>1. n \in 1..rebuild.pos
        BY <1>2, <3>2
      <4>2. Shows(rebuild.db, LineAt(n))
        BY <1>1, <2>1, <2>5, <4>1 DEF StrictShows
      <4>3. LineAt(n) \in Records
        <5> DEFINE k == n - 1
        <5>1. k \in Nat /\ k < Lines /\ k + 1 = n
          BY <1>2, <2>1, <4>1
        <5> HIDE DEF k
        <5>2. LineAt(k + 1) \in Records
          BY <1>1, <5>1, LineAtType
        <5> QED BY <5>1, <5>2
      <4> QED BY <1>2, <2>1, <2>2, <4>2, <4>3, ShowsStays
    <3> QED BY <3>1, <3>2
  <2>6. rebuild'.mode = "strict" => \A n \in 1..rebuild'.pos : Shows(rebuild'.db, LineAt(n)')
    BY <1>9, <2>3, <2>5
  <2> QED BY <2>4, <2>6 DEF StrictShows
<1> QED BY <1>1, <1>4, <1>5, <1>7, <1>8, <1>9, RebuildSteps

LEMMA StrictNext == StrictInv /\ [Next]_vars => StrictInv'
<1> SUFFICES ASSUME StrictInv, [Next]_vars PROVE StrictInv'
  OBVIOUS
<1>1. TypeInv /\ StageInv /\ Shaped(db) /\ Shaped(tx.work) /\ Shaped(rebuild.db)
  BY DEF StrictInv, StageInv, PairInv, LogInv
<1>2. db \in Databases /\ tx.work \in Databases /\ rebuild.db \in Databases
  BY <1>1 DEF TypeInv, TypeOK, Rebuilds
<1>3. Shaped(db') /\ Shaped(tx'.work) /\ Shaped(rebuild'.db)
  BY <1>1, <1>2, ProjectionSteps, EmptyShaped, MovedShaped
<1>4. StageInv' /\ StrictShows'
  BY <1>1, StageNext, StrictShowsNext
<1> QED BY <1>3, <1>4 DEF StrictInv, Shaped, CandidateShape

LEMMA DecisionsShown ==
  ASSUME StrictInv, RebuildComplete, rebuild.mode = "strict"
  PROVE  DecisionsKept
<1>1. /\ TypeOK /\ TransitionsLogged(db, Logged) /\ Lines \in Nat
      /\ Shaped(db) /\ Shaped(rebuild.db)
  BY LinesType DEF StrictInv, StageInv, PairInv, LogInv, TypeInv, LogFirst
<1>2. \A r \in Logged : Shows(rebuild.db, r)
  <2>1. \A n \in 1..Lines : Shows(rebuild.db, LineAt(n))
    BY DEF StrictInv, StrictShows, RebuildComplete
  <2> QED BY <1>1, <2>1, LoggedAt
<1>3. ASSUME NEW c \in Ids, db.cands[c].status = "PROMOTED"
      PROVE  /\ rebuild.db.cands[c].status = "PROMOTED"
             /\ rebuild.db.cands[c].claim = db.cands[c].claim
             /\ rebuild.db.cands[c].reasons = db.cands[c].reasons
  <2>1. PICK r \in Logged : /\ r.kind = "promote_candidate_claim"
                            /\ r.cand = c /\ r.claim = db.cands[c].claim
    BY <1>1, <1>3 DEF TransitionsLogged, DecisionLogged
  <2>2. rebuild.db.cands[c].status = "PROMOTED" /\ rebuild.db.cands[c].claim = r.claim
    BY <1>2, <2>1 DEF Shows
  <2> QED BY <1>1, <1>3, <2>1, <2>2 DEF Shaped, CandidateShape
<1>4. ASSUME NEW c \in Ids, db.cands[c].status = "REJECTED"
      PROVE  /\ rebuild.db.cands[c].status = "REJECTED"
             /\ rebuild.db.cands[c].claim = db.cands[c].claim
             /\ rebuild.db.cands[c].reasons = db.cands[c].reasons
  <2>1. PICK r \in Logged : /\ r.kind = "reject_candidate_claim"
                            /\ r.cand = c /\ db.cands[c].reasons = {r.reason}
    BY <1>1, <1>4 DEF TransitionsLogged, DecisionLogged
  <2>2. rebuild.db.cands[c].status = "REJECTED" /\ rebuild.db.cands[c].reasons = {r.reason}
    BY <1>2, <2>1 DEF Shows
  <2> QED BY <1>1, <1>4, <2>1, <2>2 DEF Shaped, CandidateShape
<1> QED BY <1>3, <1>4 DEF DecisionsKept

\* A strict rebuild that reaches the last line shows every decision of the live
\* projection, whatever crashed and whatever lines nobody committed: it agrees
\* with all of them or it refused to finish (replay.rs, strict mode).
THEOREM StrictRebuildKeeps == Spec => []StrictRebuildKeepsDecisions
<1>1. StrictInv => StrictRebuildKeepsDecisions
  BY DecisionsShown DEF StrictRebuildKeepsDecisions
<1> QED
  BY StrictInit, StrictNext, <1>1, PTL DEF Spec

-----------------------------------------------------------------------------
(* The swap of a strict rebuild.  What is left to show of the refinement is  *)
(* that a rebuild undoes nothing.  That a superseded claim stays superseded  *)
(* or a decision decided is what lines say for good; a retirement is not: a  *)
(* line that supersedes the claim afterwards would revive it.  The invariant *)
(* says that the log never holds one, for a claim some projection shows as   *)
(* retired.                                                                  *)

RetiresClaim(r, id) == r.kind = "retire_claim" /\ r.claim = id

SupersedesClaim(r, id) == r.kind = "supersede_claims" /\ id \in r.claims

\* Of the first n lines, the last that retires or supersedes the claim retires it.
RetiredIn(lines, id, n) ==
  \E i \in 1..n : /\ RetiresClaim(lines[i], id)
                  /\ \A j \in (i + 1)..n : ~SupersedesClaim(lines[j], id)

LEMMA RetiredStep ==
  ASSUME NEW lines, NEW id, NEW n \in Nat
  PROVE  /\ RetiresClaim(lines[n + 1], id) => RetiredIn(lines, id, n + 1)
         /\ SupersedesClaim(lines[n + 1], id) => ~RetiredIn(lines, id, n + 1)
         /\ ~RetiresClaim(lines[n + 1], id) /\ ~SupersedesClaim(lines[n + 1], id)
              => (RetiredIn(lines, id, n + 1) <=> RetiredIn(lines, id, n))
<1> DEFINE m == n + 1
<1>1. /\ m \in 1..m /\ (m + 1)..m = {} /\ \A i \in 1..m : i = m \/ i \in 1..n
      /\ \A i \in 1..n : /\ i \in 1..m /\ m \in (i + 1)..m
                         /\ \A j \in (i + 1)..m : j = m \/ j \in (i + 1)..n
                         /\ \A j \in (i + 1)..n : j \in (i + 1)..m
  OBVIOUS
<1> HIDE DEF m
<1>2. RetiresClaim(lines[m], id) => RetiredIn(lines, id, m)
  BY <1>1 DEF RetiredIn
<1>3. ASSUME SupersedesClaim(lines[m], id) PROVE ~RetiredIn(lines, id, m)
  <2>1. ~RetiresClaim(lines[m], id)
    BY <1>3 DEF RetiresClaim, SupersedesClaim
  <2> QED BY <1>1, <1>3, <2>1 DEF RetiredIn
<1>4. ASSUME ~RetiresClaim(lines[m], id), ~SupersedesClaim(lines[m], id)
      PROVE  RetiredIn(lines, id, m) <=> RetiredIn(lines, id, n)
  BY <1>1, <1>4 DEF RetiredIn
<1> QED BY <1>2, <1>3, <1>4 DEF m

LEMMA RetiredPrefix ==
  ASSUME NEW lines, NEW more, NEW id, NEW n \in Nat, \A i \in 1..n : more[i] = lines[i]
  PROVE  RetiredIn(more, id, n) <=> RetiredIn(lines, id, n)
<1>1. \A i \in 1..n : \A j \in (i + 1)..n : j \in 1..n
  OBVIOUS
<1> QED BY <1>1 DEF RetiredIn

\* A projection that shows a claim as retired, a log that says so to the end.
RetiresLogged(d, lines) ==
  \A id \in Ids : d.claims[id].status = "INVALIDATED" => RetiredIn(lines, id, Len(lines))

LEMMA EmptyRetires == \A lines : RetiresLogged(EmptyDb, lines)
BY NoRowFacts DEF RetiresLogged, EmptyDb

\* One line more.
LEMMA RetiresAppend ==
  ASSUME NEW lines \in Seq(Records), NEW r \in Records
  PROVE  /\ \A d : /\ RetiresLogged(d, lines)
                   /\ \A id \in Ids : SupersedesClaim(r, id)
                                      => d.claims[id].status # "INVALIDATED"
                   => RetiresLogged(d, Append(lines, r))
         /\ \A id : RetiresClaim(r, id)
              => RetiredIn(Append(lines, r), id, Len(Append(lines, r)))
<1> DEFINE more == Append(lines, r)
           n == Len(lines)
<1>1. /\ n \in Nat /\ Len(more) = n + 1 /\ more[n + 1] = r
      /\ \A i \in 1..n : more[i] = lines[i]
  OBVIOUS
<1> HIDE DEF more, n
<1>2. \A id : RetiresClaim(r, id) => RetiredIn(more, id, Len(more))
  BY <1>1, RetiredStep
<1>3. ASSUME NEW d, RetiresLogged(d, lines),
             \A id \in Ids : SupersedesClaim(r, id) => d.claims[id].status # "INVALIDATED"
      PROVE  RetiresLogged(d, more)
  <2> SUFFICES ASSUME NEW id \in Ids, d.claims[id].status = "INVALIDATED"
               PROVE  RetiredIn(more, id, Len(more))
    BY DEF RetiresLogged
  <2>1. RetiredIn(lines, id, n) /\ ~SupersedesClaim(r, id)
    BY <1>3 DEF RetiresLogged, n
  <2>2. RetiredIn(more, id, n)
    BY <1>1, <2>1, RetiredPrefix
  <2> QED BY <1>1, <2>1, <2>2, RetiredStep
<1> QED BY <1>2, <1>3 DEF more

\* A record that is accepted retires, revives or leaves alone.
LEMMA RetirementMoves ==
  ASSUME NEW d \in Databases, NEW r \in Records, Accepts(d, r), NEW id \in Ids
  PROVE  /\ RetiresClaim(r, id) => Effect(d, r).claims[id].status = "INVALIDATED"
         /\ SupersedesClaim(r, id) => Effect(d, r).claims[id].status = "SUPERSEDED"
         /\ ~RetiresClaim(r, id) /\ ~SupersedesClaim(r, id) =>
              (Effect(d, r).claims[id].status = "INVALIDATED"
                 <=> d.claims[id].status = "INVALIDATED")
<1>1. RetiresClaim(r, id) => Effect(d, r).claims[id].status = "INVALIDATED"
  BY RetireFacts DEF RetiresClaim
<1>2. SupersedesClaim(r, id) => Effect(d, r).claims[id].status = "SUPERSEDED"
  BY SupersedeFacts DEF SupersedesClaim
<1> QED BY <1>1, <1>2, ClaimMoves DEF RetiresClaim, SupersedesClaim

\* The next step of a transaction that has one record left to write.
LEMMA LeftRetires ==
  ASSUME NEW todo, NEW q, Left(todo, q)
  PROVE  /\ todo # <<>> /\ Head(todo).rec = q
         /\ Head(todo).do = "append" =>
              \A r : Tail(todo) = <<ToDb(r)>> => r = q
         /\ Head(todo).do = "apply" =>
              todo = <<ToDb(q)>> /\ \A r : Tail(todo) # <<ToDb(r)>>
<1>1. \A r : <<ToDb(r)>> = <<ToDb(q)>> => r = q
  BY DEF ToDb
<1>2. \A r : <<>> # <<ToDb(r)>>
  BY WriteSteps
<1>3. CASE todo = Write(q)
  BY <1>1, <1>3, WriteSteps
<1>4. CASE todo = <<ToDb(q)>>
  BY <1>2, <1>4, WriteSteps
<1> QED BY <1>3, <1>4 DEF Left

LEMMA PromotingRetires ==
  ASSUME NEW d, NEW e, NEW todo, Promoting(d, e, todo), todo # <<>>
  PROVE  /\ Head(todo).rec.kind \notin {"supersede_claims", "retire_claim"}
         /\ \A r : Tail(todo) = <<ToDb(r)>> =>
              r.kind # "retire_claim" /\ Head(todo).do = "apply"
<1>1. PICK a, q \in Records :
        /\ a.kind = "add_claim" /\ q.kind = "promote_candidate_claim"
        /\ \/ todo = <<ToLog(a), ToLog(q), ToDb(a), ToDb(q)>>
           \/ todo = <<ToLog(q), ToDb(a), ToDb(q)>>
           \/ todo = <<ToDb(a), ToDb(q)>>
           \/ todo = <<ToDb(q)>>
  BY DEF Promoting
<1>2. CASE todo = <<ToLog(a), ToLog(q), ToDb(a), ToDb(q)>>
  BY <1>1, <1>2 DEF ToLog, ToDb
<1>3. CASE todo = <<ToLog(q), ToDb(a), ToDb(q)>>
  BY <1>1, <1>3 DEF ToLog, ToDb
<1>4. CASE todo = <<ToDb(a), ToDb(q)>>
  BY <1>1, <1>4 DEF ToLog, ToDb
<1>5. CASE todo = <<ToDb(q)>>
  BY <1>1, <1>5 DEF ToLog, ToDb
<1> QED BY <1>1, <1>2, <1>3, <1>4, <1>5

\* A transaction supersedes only claims it and the committed projection show as
\* active, and a retirement is the last record it applies.
LEMMA StageRetires ==
  ASSUME NEW op, NEW d, NEW e, NEW todo, Stage(op, d, e, todo), todo # <<>>
  PROVE  /\ Head(todo).do = "append" =>
              /\ \A id \in Ids : SupersedesClaim(Head(todo).rec, id) =>
                   d.claims[id].status = "ACTIVE" /\ e.claims[id].status = "ACTIVE"
              /\ \A r : Tail(todo) = <<ToDb(r)>> => r = Head(todo).rec
         /\ Head(todo).do = "apply" =>
              /\ Head(todo).rec.kind = "retire_claim" => todo = <<ToDb(Head(todo).rec)>>
              /\ \A r : Tail(todo) = <<ToDb(r)>> => r.kind # "retire_claim"
<1>1. ASSUME NEW q, Left(todo, q), q.kind # "supersede_claims"
      PROVE  /\ \A id \in Ids : ~SupersedesClaim(Head(todo).rec, id)
             /\ Head(todo).do = "append" => \A r : Tail(todo) = <<ToDb(r)>> => r = Head(todo).rec
             /\ Head(todo).do = "apply" =>
                  /\ todo = <<ToDb(Head(todo).rec)>>
                  /\ \A r : Tail(todo) # <<ToDb(r)>>
  BY <1>1, LeftRetires DEF SupersedesClaim
<1>2. CASE op \in SingleOps /\ OneRecord(d, e, todo)
  <2>1. PICK q \in Records : Starts(d, q) /\ Left(todo, q)
    BY <1>2 DEF OneRecord
  <2>2. q.kind # "supersede_claims"
    BY <2>1 DEF Starts, QuietKinds
  <2> QED BY <1>1, <2>1, <2>2
<1>3. CASE op = "merge" /\ Merging(d, e, todo)
  <2>1. PICK q \in Records : q.kind \in QuietKinds /\ Left(todo, q)
    BY <1>3 DEF Merging
  <2>2. q.kind # "supersede_claims"
    BY <2>1 DEF QuietKinds
  <2> QED BY <1>1, <2>1, <2>2
<1>4. ASSUME NEW S, S \subseteq Active(e), Sweeping(d, e, todo, S)
      PROVE  /\ \A id \in Ids : SupersedesClaim(Head(todo).rec, id) =>
                   d.claims[id].status = "ACTIVE" /\ e.claims[id].status = "ACTIVE"
             /\ Head(todo).do = "append" => \A r : Tail(todo) = <<ToDb(r)>> => r = Head(todo).rec
             /\ Head(todo).do = "apply" =>
                  /\ todo = <<ToDb(Head(todo).rec)>>
                  /\ \A r : Tail(todo) # <<ToDb(r)>>
  <2>1. Left(todo, Superseding(S))
    BY <1>4, SweepSteps DEF Sweeping
  <2>2. /\ Head(todo).rec = Superseding(S)
        /\ Head(todo).do = "append" => \A r : Tail(todo) = <<ToDb(r)>> => r = Head(todo).rec
        /\ Head(todo).do = "apply" =>
                  /\ todo = <<ToDb(Head(todo).rec)>>
                  /\ \A r : Tail(todo) # <<ToDb(r)>>
    BY <2>1, LeftRetires
  <2>3. ASSUME NEW id \in Ids, SupersedesClaim(Head(todo).rec, id)
        PROVE  d.claims[id].status = "ACTIVE" /\ e.claims[id].status = "ACTIVE"
    <3>1. id \in S
      BY <2>2, <2>3 DEF SupersedesClaim, Superseding
    <3>2. e.claims[id].status = "ACTIVE"
      BY <1>4, <3>1 DEF Active
    <3> QED BY <1>4, <3>2 DEF Sweeping
  <2> QED BY <2>2, <2>3
<1>5. DuplicateIds(e) \subseteq Active(e) /\ ConflictIds(e) \subseteq Active(e)
  BY DEF DuplicateIds, ConflictIds
<1>6. CASE op = "promote" /\ Promoting(d, e, todo)
  BY <1>6, PromotingRetires DEF SupersedesClaim
<1> QED BY <1>2, <1>3, <1>4, <1>5, <1>6 DEF Stage

\* Records never meet the lines of the other series.
SeriesKept == \A x \in Series : \A i \in DOMAIN logs[x] : SeriesOf(logs[x][i]) = x

\* How many of the first n lines are lines of log.jsonl.
LogPart(n) == IF n <= Len(logs["log"]) THEN n ELSE Len(logs["log"])

\* A retirement that was logged is about to be applied.
RetirementsLogged(todo, lines) ==
  \A r \in Records : todo = <<ToDb(r)>> =>
    \A id \in Ids : RetiresClaim(r, id) => RetiredIn(lines, id, Len(lines))

\* A rebuild shows as retired what the lines it took leave retired.
RebuildRetires ==
  rebuild.phase # "none" =>
    /\ \A id \in Ids : rebuild.db.claims[id].status = "INVALIDATED"
                         <=> RetiredIn(logs["log"], id, LogPart(rebuild.pos))
    /\ rebuild.phase = "swap" => rebuild.pos = Lines

RetireInv ==
  /\ StrictInv
  /\ rebuild.mode = "strict"
  /\ SeriesKept
  /\ RetiresLogged(db, logs["log"])
  /\ RetiresLogged(tx.work, logs["log"])
  /\ RetirementsLogged(tx.todo, logs["log"])
  /\ RebuildRetires

LEMMA RetireInit == Init => RetireInv
<1> SUFFICES ASSUME Init PROVE RetireInv
  OBVIOUS
<1>1. /\ db = EmptyDb /\ tx.work = EmptyDb /\ tx.todo = <<>>
      /\ rebuild.phase = "none" /\ rebuild.mode = "strict"
  BY DEF Init, NoTx, NoRebuild
<1>2. SeriesKept
  BY DEF Init, SeriesKept
<1>3. \A r : <<>> # <<ToDb(r)>>
  BY WriteSteps
<1> QED
  BY <1>1, <1>2, <1>3, StrictInit, EmptyRetires DEF RetireInv, RetirementsLogged, RebuildRetires

LEMMA LinePart ==
  ASSUME TypeOK, SeriesKept, NEW n \in Nat, n < Lines
  PROVE  /\ n + 1 <= Len(logs["log"]) =>
              /\ LineAt(n + 1) = logs["log"][n + 1]
              /\ LogPart(n) = n /\ LogPart(n + 1) = n + 1
         /\ ~(n + 1 <= Len(logs["log"])) =>
              /\ LogPart(n + 1) = LogPart(n)
              /\ \A id : ~RetiresClaim(LineAt(n + 1), id) /\ ~SupersedesClaim(LineAt(n + 1), id)
<1> DEFINE a == Len(logs["log"])
           b == Len(logs["events"])
           m == n + 1
<1>1. logs["log"] \in Seq(Records) /\ logs["events"] \in Seq(Records)
  BY DEF TypeOK, Series
<1>2. /\ a \in Nat /\ b \in Nat /\ Lines = a + b /\ a = Len(logs["log"]) /\ m = n + 1
      /\ DOMAIN logs["events"] = 1..b
  BY <1>1 DEF Lines
<1> HIDE DEF a, b, m
<1>3. ASSUME m <= a
      PROVE  /\ LineAt(m) = logs["log"][m]
             /\ LogPart(n) = n /\ LogPart(m) = m
  <2>1. Position(m) = <<"log", m>>
    BY <1>2, <1>3, PositionFacts, Zenon
  <2>2. n <= a
    BY <1>2, <1>3
  <2> QED BY <1>2, <1>3, <2>1, <2>2 DEF LogPart, LineAt
<1>4. ASSUME ~(m <= a)
      PROVE  /\ LogPart(m) = LogPart(n)
             /\ \A id : ~RetiresClaim(LineAt(m), id) /\ ~SupersedesClaim(LineAt(m), id)
  <2> DEFINE k == m - a
  <2>1. k \in 1..b /\ (n <= a => n = a)
    BY <1>2, <1>4
  <2>2. LogPart(m) = LogPart(n)
    BY <1>2, <1>4, <2>1 DEF LogPart
  <2>3. Position(m) = <<"events", m - a>>
    BY <1>2, <1>4, PositionFacts, Zenon
  <2>4. LineAt(m) = logs["events"][k]
    BY <2>3 DEF LineAt
  <2>5. SeriesOf(LineAt(m)) = "events"
    BY <1>2, <2>1, <2>4 DEF SeriesKept, Series
  <2> QED BY <2>2, <2>5 DEF SeriesOf, RetiresClaim, SupersedesClaim
<1> QED BY <1>2, <1>3, <1>4

LEMMA WholeLogPart ==
  ASSUME TypeOK
  PROVE  LogPart(Lines) = Len(logs["log"])
<1> DEFINE a == Len(logs["log"])
           b == Len(logs["events"])
           n == Lines
<1>1. a \in Nat /\ b \in Nat /\ n = a + b
  BY LinesType DEF Lines, Series
<1>2. LogPart(n) = IF n <= a THEN n ELSE a
  BY DEF LogPart
<1> HIDE DEF a, b, n
<1>3. LogPart(n) = a
  BY <1>1, <1>2
<1> QED BY <1>3 DEF a, n

\* An appended line is of a kind its series has.
LEMMA AppendKeepsSeries ==
  ASSUME TypeOK, SeriesKept, NEW p \in Procs, AppendLine(p)
  PROVE  SeriesKept'
<1> DEFINE r == Head(tx.todo).rec
           x == SeriesOf(r)
<1>1. /\ tx.todo \in Seq(Steps) /\ logs \in [Series -> Seq(Records)] /\ tx.todo # <<>>
      /\ logs' = [logs EXCEPT ![x] = Append(logs[x], r)]
  BY DEF AppendLine, TypeOK
<1>2. r \in Records /\ x \in Series
  <2>1. Head(tx.todo) \in Steps
    BY <1>1
  <2> QED BY <2>1 DEF Steps, SeriesOf, Series
<1> HIDE DEF r, x
<1> SUFFICES ASSUME NEW y \in Series, NEW i \in DOMAIN logs'[y]
             PROVE  SeriesOf(logs'[y][i]) = y
  BY DEF SeriesKept
<1>3. CASE y # x
  BY <1>1, <1>3 DEF SeriesKept
<1>4. CASE y = x
  <2>1. logs'[y] = Append(logs[y], r) /\ logs[y] \in Seq(Records)
    BY <1>1, <1>4
  <2>2. \/ i \in DOMAIN logs[y] /\ logs'[y][i] = logs[y][i]
        \/ logs'[y][i] = r
    BY <1>2, <2>1
  <2> QED BY <1>4, <2>2 DEF SeriesKept, x
<1> QED BY <1>3, <1>4

\* One line more in the logs.
LEMMA AppendRetires ==
  ASSUME RetireInv, StrictInv', NEW p \in Procs, AppendLine(p)
  PROVE  RetireInv'
<1> DEFINE r == Head(tx.todo).rec
           x == SeriesOf(r)
<1>1. /\ TypeOK /\ tx.todo \in Seq(Steps) /\ logs \in [Series -> Seq(Records)]
      /\ StageInv /\ tx.todo # <<>> /\ Head(tx.todo).do = "append" /\ writer = p
      /\ db' = db /\ rebuild' = rebuild /\ tx'.work = tx.work /\ tx'.todo = Tail(tx.todo)
      /\ logs' = [logs EXCEPT ![x] = Append(logs[x], r)]
  BY DEF AppendLine, RetireInv, StrictInv, StageInv, PairInv, LogInv, TypeInv, TypeOK
<1>2. r \in Records /\ x \in Series
  <2>1. Head(tx.todo) \in Steps
    BY <1>1
  <2> QED BY <2>1 DEF Steps, SeriesOf, Series
<1>3. Stage(job[p].op, db, tx.work, tx.todo)
  BY <1>1 DEF StageInv
<1>4. /\ \A id \in Ids : SupersedesClaim(r, id) =>
           /\ db.claims[id].status # "INVALIDATED" /\ tx.work.claims[id].status # "INVALIDATED"
      /\ \A q : tx'.todo = <<ToDb(q)>> => q = r
  BY <1>1, <1>3, StageRetires
<1>5. rebuild'.phase = "none"
  BY <1>1, LogsRest DEF StageInv, RebuildAlone, PairInv, LogInv, TypeInv, WriterInside
<1> HIDE DEF r, x
<1>6. SeriesKept'
  BY <1>1, AppendKeepsSeries DEF RetireInv
<1>7. CASE x = "log"
  <2>1. logs'["log"] = Append(logs["log"], r) /\ logs["log"] \in Seq(Records)
    BY <1>1, <1>7 DEF Series
  <2>2. RetiresLogged(db, logs'["log"]) /\ RetiresLogged(tx.work, logs'["log"])
    BY <1>2, <1>4, <2>1, RetiresAppend DEF RetireInv
  <2>3. RetirementsLogged(tx'.todo, logs'["log"])
    BY <1>2, <1>4, <2>1, RetiresAppend DEF RetirementsLogged
  <2> QED BY <1>1, <1>5, <1>6, <2>2, <2>3 DEF RetireInv, RebuildRetires
<1>8. CASE x # "log"
  <2>1. logs'["log"] = logs["log"]
    BY <1>1, <1>8 DEF Series
  <2>2. \A id : ~RetiresClaim(r, id)
    BY <1>8 DEF x, SeriesOf, RetiresClaim
  <2>3. RetirementsLogged(tx'.todo, logs'["log"])
    BY <1>4, <2>2 DEF RetirementsLogged
  <2> QED BY <1>1, <1>5, <1>6, <2>1, <2>3 DEF RetireInv, RebuildRetires
<1> QED BY <1>7, <1>8

\* Only an append or an apply leaves one record to apply.
LEMMA TodoSteps ==
  ASSUME TypeInv, [Next]_vars, NEW r, tx'.todo = <<ToDb(r)>>
  PROVE  tx.todo = <<ToDb(r)>> \/ \E p \in Procs : AppendLine(p) \/ ApplyRecord(p)
<1>1. <<>> # <<ToDb(r)>> /\ \A q : Write(q) # <<ToDb(r)>>
  <2>1. Head(<<ToDb(r)>>).do = "apply" /\ \A q : Head(Write(q)).do = "append"
    BY WriteSteps
  <2> QED BY <2>1, WriteSteps
<1>2. NoTx.todo = <<>>
  BY DEF NoTx
<1>3. ASSUME NEW p \in Procs, Calls(p) PROVE tx' = tx
  <2>1. \E j : Call(p, j)
    BY <1>3, CallsType DEF TypeInv
  <2> QED BY <2>1 DEF Call
<1>4. ASSUME NEW p \in Procs, Begins(p) PROVE FALSE
  <2>1. PICK op, todo : TakeLock(p, op, todo) /\ \A lines : AppliesLogged(todo, lines)
    BY <1>4, BeginsLogged
  <2>2. tx'.todo = todo
    BY <2>1 DEF TakeLock
  <2>3. AppliesLogged(<<ToDb(r)>>, {})
    BY <2>1, <2>2
  <2> QED BY <2>3 DEF AppliesLogged, ToDb
<1>5. ASSUME NEW p \in Procs, MergeGroup(p) \/ SupersedeConflicts(p) PROVE FALSE
  <2>1. PICK S, q : tx'.todo = Write(q) \/ tx'.todo = Supersede(S)
    BY <1>5 DEF MergeGroup, SupersedeConflicts, TypeInv, TypeOK
  <2> QED BY <1>1, <2>1 DEF Supersede
<1>6. ASSUME NEW p \in Procs, Works(p) PROVE AppendLine(p) \/ ApplyRecord(p)
  <2>1. CASE Commit(p) \/ StepFails(p)
    BY <1>1, <1>2, <2>1 DEF Commit, StepFails, Rollback
  <2> QED BY <1>5, <1>6, <2>1 DEF Works
<1>7. ASSUME NEW p \in Procs, BusyTimeout(p) \/ Open(p) \/ Close(p) \/ Crash(p) PROVE tx' = tx
  BY <1>1, <1>2, <1>7 DEF BusyTimeout, Open, Close, Crash, Rollback
<1>8. CASE Rebuilding
  BY <1>8 DEF Rebuilding, RebuildStart, RebuildApply, RebuildRefuse, RebuildRemove,
              RebuildRename, RebuildCrash
<1>9. CASE Tick \/ UNCHANGED vars
  BY <1>9 DEF Tick, vars
<1> QED BY <1>3, <1>4, <1>6, <1>7, <1>8, <1>9 DEF Next

\* A record applied in a transaction.
LEMMA ApplyRetires ==
  ASSUME RetireInv, NEW p \in Procs, ApplyRecord(p)
  PROVE  /\ RetiresLogged(tx'.work, logs["log"])
         /\ \A r : tx'.todo = <<ToDb(r)>> => r.kind # "retire_claim"
<1> DEFINE r == Head(tx.todo).rec
<1>1. /\ tx.todo \in Seq(Steps) /\ tx.work \in Databases
      /\ StageInv /\ tx.todo # <<>> /\ Head(tx.todo).do = "apply" /\ writer = p
      /\ Accepts(tx.work, r) /\ tx'.work = Effect(tx.work, r) /\ tx'.todo = Tail(tx.todo)
  BY DEF ApplyRecord, RetireInv, StrictInv, StageInv, PairInv, LogInv, TypeInv, TypeOK
<1>2. r \in Records
  <2>1. Head(tx.todo) \in Steps
    BY <1>1
  <2> QED BY <2>1 DEF Steps
<1>3. Stage(job[p].op, db, tx.work, tx.todo)
  BY <1>1 DEF StageInv
<1>4. /\ r.kind = "retire_claim" => tx.todo = <<ToDb(r)>>
      /\ \A q : tx'.todo = <<ToDb(q)>> => q.kind # "retire_claim"
  BY <1>1, <1>3, StageRetires
<1> HIDE DEF r
<1>5. ASSUME NEW id \in Ids, Effect(tx.work, r).claims[id].status = "INVALIDATED"
      PROVE  RetiredIn(logs["log"], id, Len(logs["log"]))
  <2>1. CASE RetiresClaim(r, id)
    BY <1>2, <1>4, <2>1 DEF RetireInv, RetirementsLogged, RetiresClaim
  <2>2. CASE ~RetiresClaim(r, id)
    <3>1. tx.work.claims[id].status = "INVALIDATED"
      BY <1>1, <1>2, <1>5, <2>2, RetirementMoves
    <3> QED BY <3>1 DEF RetireInv, RetiresLogged
  <2> QED BY <2>1, <2>2
<1> QED BY <1>1, <1>4, <1>5 DEF RetiresLogged

\* One line taken by a rebuild.
LEMMA RebuildRetiresNext ==
  ASSUME RetireInv, [Next]_vars, rebuild'.mode = "strict", logs' = logs
  PROVE  RebuildRetires'
<1>1. /\ TypeInv /\ TypeOK /\ rebuild.pos \in Nat /\ rebuild.db \in Databases
      /\ SeriesKept /\ rebuild.mode = "strict" /\ RebuildRetires
      /\ Len(logs["log"]) \in Nat
  BY LinesType
     DEF RetireInv, StrictInv, StageInv, PairInv, LogInv, TypeInv, TypeOK, Rebuilds, Series
<1>2. Lines' = Lines /\ logs'["log"] = logs["log"]
  BY SameLines
<1>3. \A n : LogPart(n)' = LogPart(n)
  BY DEF LogPart
<1>4. CASE rebuild' = rebuild
  BY <1>1, <1>2, <1>3, <1>4 DEF RebuildRetires
<1>5. CASE rebuild'.phase = "none"
  BY <1>5 DEF RebuildRetires
<1>6. CASE rebuild'.phase = "lines" /\ rebuild'.pos = 0 /\ rebuild'.db = EmptyDb
  <2>1. LogPart(0) = 0
    BY <1>1 DEF LogPart
  <2>2. \A id \in Ids : /\ EmptyDb.claims[id].status # "INVALIDATED"
                        /\ ~RetiredIn(logs["log"], id, 0)
    BY NoRowFacts DEF EmptyDb, RetiredIn
  <2> QED BY <1>2, <1>3, <1>6, <2>1, <2>2 DEF RebuildRetires
<1>7. CASE /\ RebuildApply /\ rebuild'.phase = "lines" /\ rebuild'.mode = rebuild.mode
           /\ rebuild'.pos = rebuild.pos + 1
           /\ rebuild'.db = Effect(rebuild.db, LineAt(rebuild.pos + 1))
  <2> DEFINE n == rebuild.pos
             r == LineAt(n + 1)
  <2>1. rebuild.phase = "lines" /\ n < Lines /\ Accepts(rebuild.db, r)
    BY <1>7 DEF RebuildApply
  <2>2. r \in Records
    BY <1>1, <2>1, LineAtType
  <2>3. ASSUME NEW id \in Ids
        PROVE  Effect(rebuild.db, r).claims[id].status = "INVALIDATED"
                 <=> RetiredIn(logs["log"], id, LogPart(n + 1))
    <3>1. rebuild.db.claims[id].status = "INVALIDATED" <=> RetiredIn(logs["log"], id, LogPart(n))
      BY <1>1, <2>1 DEF RebuildRetires
    <3>2. CASE n + 1 <= Len(logs["log"])
      <4>1. r = logs["log"][n + 1] /\ LogPart(n) = n /\ LogPart(n + 1) = n + 1
        BY <1>1, <2>1, <3>2, LinePart
      <4> HIDE DEF r, n
      <4>2. n \in Nat
        BY <1>1 DEF n
      <4>3. CASE RetiresClaim(r, id)
        <5>1. RetiredIn(logs["log"], id, n + 1)
          BY <4>1, <4>2, <4>3, RetiredStep
        <5> QED BY <1>1, <2>1, <2>2, <4>1, <4>3, <5>1, RetirementMoves
      <4>4. CASE SupersedesClaim(r, id)
        <5>1. ~RetiredIn(logs["log"], id, n + 1)
          BY <4>1, <4>2, <4>4, RetiredStep
        <5>2. Effect(rebuild.db, r).claims[id].status = "SUPERSEDED"
          BY <1>1, <2>1, <2>2, <4>4, RetirementMoves
        <5> QED BY <4>1, <5>1, <5>2
      <4>5. CASE ~RetiresClaim(r, id) /\ ~SupersedesClaim(r, id)
        <5>1. RetiredIn(logs["log"], id, n + 1) <=> RetiredIn(logs["log"], id, n)
          BY <4>1, <4>2, <4>5, RetiredStep
        <5>2. Effect(rebuild.db, r).claims[id].status = "INVALIDATED"
                <=> rebuild.db.claims[id].status = "INVALIDATED"
          BY <1>1, <2>1, <2>2, <4>5, RetirementMoves
        <5> QED BY <3>1, <4>1, <5>1, <5>2
      <4> QED BY <4>3, <4>4, <4>5
    <3>3. CASE ~(n + 1 <= Len(logs["log"]))
      <4>1. LogPart(n + 1) = LogPart(n) /\ ~RetiresClaim(r, id) /\ ~SupersedesClaim(r, id)
        BY <1>1, <2>1, <3>3, LinePart
      <4>2. Effect(rebuild.db, r).claims[id].status = "INVALIDATED"
              <=> rebuild.db.claims[id].status = "INVALIDATED"
        BY <1>1, <2>1, <2>2, <4>1, RetirementMoves
      <4> QED BY <3>1, <4>1, <4>2
    <3> QED BY <3>2, <3>3
  <2> QED BY <1>2, <1>3, <1>7, <2>3 DEF RebuildRetires
<1>8. CASE /\ RebuildRemove /\ rebuild'.phase = "swap" /\ rebuild'.mode = rebuild.mode
           /\ rebuild'.pos = rebuild.pos /\ rebuild'.db = rebuild.db
  <2>1. rebuild.phase = "lines" /\ rebuild.pos = Lines
    BY <1>8 DEF RebuildRemove
  <2> QED BY <1>1, <1>2, <1>3, <1>8, <2>1 DEF RebuildRetires
<1> QED BY <1>1, <1>4, <1>5, <1>6, <1>7, <1>8, RebuildSteps

LEMMA ModeStays ==
  ASSUME ReplayModes \subseteq {"strict"}, TypeInv, [Next]_vars, rebuild.mode = "strict"
  PROVE  rebuild'.mode = "strict"
<1>1. NoRebuild.mode = "strict"
  BY DEF NoRebuild
<1>2. CASE RebuildStart
  <2>1. PICK mode \in ReplayModes :
          rebuild' = [NoRebuild EXCEPT !.phase = "lines", !.mode = mode]
    BY <1>2 DEF RebuildStart
  <2>2. rebuild'.mode = mode
    BY <2>1 DEF NoRebuild
  <2> QED BY <2>2
<1> QED BY <1>1, <1>2, RebuildSteps

LEMMA RetireNext ==
  ASSUME ReplayModes \subseteq {"strict"}, RetireInv, [Next]_vars
  PROVE  RetireInv'
<1>1. /\ TypeInv /\ StageInv /\ StrictInv /\ rebuild.mode = "strict" /\ TypeOK
  BY DEF RetireInv, StrictInv, StageInv, PairInv, LogInv, TypeInv
<1>2. StrictInv' /\ rebuild'.mode = "strict"
  BY <1>1, StrictNext, ModeStays
<1>3. CASE \E p \in Procs : AppendLine(p)
  BY <1>2, <1>3, AppendRetires
<1>4. CASE ~ \E p \in Procs : AppendLine(p)
  <2>1. logs' = logs
    BY <1>1, <1>4, LogsRest
  <2>2. SeriesKept'
    BY <2>1 DEF RetireInv, SeriesKept
  <2>3. RetiresLogged(db', logs["log"])
    <3>1. CASE db' \in {db, EmptyDb, tx.work}
      BY <3>1, EmptyRetires DEF RetireInv
    <3>2. CASE RebuildRename /\ db' = rebuild.db
      <4>1. rebuild.phase = "swap" /\ rebuild.pos = Lines
        BY <3>2 DEF RebuildRename, RetireInv, RebuildRetires
      <4>2. LogPart(Lines) = Len(logs["log"])
        BY <1>1, WholeLogPart
      <4> QED BY <3>2, <4>1, <4>2 DEF RetireInv, RebuildRetires, RetiresLogged
    <3> QED BY <1>1, <3>1, <3>2, ProjectionSteps
  <2>4. RetiresLogged(tx'.work, logs["log"])
    <3>1. CASE tx'.work \in {tx.work, db, EmptyDb}
      BY <3>1, EmptyRetires DEF RetireInv
    <3>2. CASE \E p \in Procs : ApplyRecord(p)
      BY <3>2, ApplyRetires
    <3> QED BY <1>1, <3>1, <3>2, ProjectionSteps
  <2>5. RetirementsLogged(tx'.todo, logs["log"])
    <3> SUFFICES ASSUME NEW r \in Records, tx'.todo = <<ToDb(r)>>, NEW id \in Ids,
                        RetiresClaim(r, id)
                 PROVE  RetiredIn(logs["log"], id, Len(logs["log"]))
      BY DEF RetirementsLogged
    <3>1. tx.todo = <<ToDb(r)>> \/ \E p \in Procs : ApplyRecord(p)
      BY <1>1, <1>4, TodoSteps
    <3>2. ~ \E p \in Procs : ApplyRecord(p)
      BY ApplyRetires DEF RetiresClaim
    <3> QED BY <3>1, <3>2 DEF RetireInv, RetirementsLogged
  <2>6. RebuildRetires'
    BY <1>2, <2>1, RebuildRetiresNext
  <2> QED BY <1>2, <2>1, <2>2, <2>3, <2>4, <2>5, <2>6 DEF RetireInv
<1> QED BY <1>3, <1>4

\* What the swap of a strict rebuild installs is at least as far along.
LEMMA SwapRecovers ==
  ASSUME RetireInv, RebuildRemove
  PROVE  /\ \A id \in Ids : AbstractMemory!Rank(db.claims[id].status)
                              <= AbstractMemory!Rank(rebuild.db.claims[id].status)
         /\ \A c \in Ids :
              /\ db.cands[c].status # "ABSENT" => rebuild.db.cands[c].status # "ABSENT"
              /\ db.cands[c].status \in {"PROMOTED", "REJECTED"} =>
                   /\ rebuild.db.cands[c].status = db.cands[c].status
                   /\ rebuild.db.cands[c].claim = db.cands[c].claim
<1>1. /\ TypeOK /\ StrictInv /\ rebuild.mode = "strict" /\ RebuildRetires
      /\ TransitionsLogged(db, Logged) /\ CandidatesBacked(db, Logged)
      /\ db \in Databases /\ rebuild.db \in Databases /\ Lines \in Nat
      /\ rebuild.phase = "lines" /\ rebuild.pos = Lines
  BY LinesType DEF RetireInv, StrictInv, StageInv, PairInv, LogInv, LogFirst, TypeInv, TypeOK,
                   Rebuilds, RebuildRemove
<1>2. \A r \in Logged : Shows(rebuild.db, r)
  <2>1. \A n \in 1..Lines : Shows(rebuild.db, LineAt(n))
    BY <1>1 DEF StrictInv, StrictShows
  <2> QED BY <1>1, <2>1, LoggedAt
<1>3. LogPart(Lines) = Len(logs["log"])
  BY <1>1, WholeLogPart
<1>4. ASSUME NEW id \in Ids
      PROVE  AbstractMemory!Rank(db.claims[id].status)
               <= AbstractMemory!Rank(rebuild.db.claims[id].status)
  <2> DEFINE old == db.claims[id].status
             new == rebuild.db.claims[id].status
  <2>1. /\ old \in ClaimStatus \cup {"ABSENT"} /\ new \in ClaimStatus \cup {"ABSENT"}
        /\ old # "ABSENT" => db.claims[id] # NoRow
        /\ rebuild.db.claims[id] # NoRow => new # "ABSENT"
    BY <1>1, NoRowFacts DEF Databases, ClaimRows, ClaimStatus
  <2>2. old # "ABSENT" => new # "ABSENT"
    <3>1. old # "ABSENT" => \E r \in Logged : r.kind = "add_claim" /\ r.claim = id
      BY <1>1, <2>1 DEF TransitionsLogged, ClaimLogged
    <3>2. (\E r \in Logged : r.kind = "add_claim" /\ r.claim = id) =>
            rebuild.db.claims[id] # NoRow
      BY <1>2 DEF Shows
    <3> QED BY <2>1, <3>1, <3>2
  <2>3. old = "SUPERSEDED" => new \in {"SUPERSEDED", "INVALIDATED"}
    <3>1. old = "SUPERSEDED" => \E r \in Logged : r.kind = "supersede_claims" /\ id \in r.claims
      BY <1>1 DEF TransitionsLogged, ClaimLogged
    <3>2. (\E r \in Logged : r.kind = "supersede_claims" /\ id \in r.claims) =>
            new \in {"SUPERSEDED", "INVALIDATED"}
      BY <1>2 DEF Shows
    <3> QED BY <3>1, <3>2
  <2>4. old = "INVALIDATED" => new = "INVALIDATED"
    <3>1. old = "INVALIDATED" => RetiredIn(logs["log"], id, Len(logs["log"]))
      BY DEF RetireInv, RetiresLogged
    <3>2. RetiredIn(logs["log"], id, Len(logs["log"])) => new = "INVALIDATED"
      BY <1>1, <1>3 DEF RebuildRetires
    <3> QED BY <3>1, <3>2
  <2> HIDE DEF old, new
  <2>5. /\ AbstractMemory!Rank("ABSENT") = 0 /\ AbstractMemory!Rank("ACTIVE") = 1
        /\ AbstractMemory!Rank("SUPERSEDED") = 2 /\ AbstractMemory!Rank("INVALIDATED") = 3
    BY DEF AbstractMemory!Rank
  <2>6. AbstractMemory!Rank(old) <= AbstractMemory!Rank(new)
    BY <2>1, <2>2, <2>3, <2>4, <2>5 DEF ClaimStatus
  <2> QED BY <2>6 DEF old, new
<1>5. ASSUME NEW c \in Ids, db.cands[c].status # "ABSENT"
      PROVE  rebuild.db.cands[c].status # "ABSENT"
  <2>1. PICK r \in Logged : r.kind = "propose_candidate_claim" /\ r.id = c
    BY <1>1, <1>5, NoRowFacts DEF CandidatesBacked
  <2>2. rebuild.db.cands[c] # NoRow
    BY <1>2, <2>1 DEF Shows
  <2> QED BY <1>1, <2>2, RowFacts DEF CandidateRows
<1>6. DecisionsKept
  BY <1>1, DecisionsShown DEF RebuildComplete
<1> QED BY <1>4, <1>5, <1>6 DEF DecisionsKept

LEMMA MappedSwap ==
  ASSUME RetireInv, RebuildRemove
  PROVE  AbstractStep
<1>1. /\ Memory = db /\ Memory' = rebuild.db
      /\ rebuild.phase # "none" /\ rebuild'.phase # "none"
  <2>1. rebuild \in Rebuilds /\ rebuild.phase = "lines"
    BY DEF RetireInv, StrictInv, StageInv, PairInv, LogInv, TypeInv, TypeOK, RebuildRemove
  <2>2. rebuild'.phase = "swap" /\ rebuild'.db = rebuild.db
    BY <2>1 DEF RebuildRemove, Rebuilds
  <2> QED BY <2>1, <2>2 DEF Memory
<1>2. UNCHANGED TriedMap /\ rebuild'.mode = "strict" /\ rebuild.mode = "strict"
  <2>1. logs' = logs /\ rebuild \in Rebuilds /\ rebuild.mode = "strict"
    BY DEF RetireInv, StrictInv, StageInv, PairInv, LogInv, TypeInv, TypeOK, RebuildRemove
  <2>2. rebuild'.mode = rebuild.mode
    BY <2>1 DEF RebuildRemove, Rebuilds
  <2> QED BY <2>1, <2>2, SameTried DEF Logged
<1>3. ASSUME NEW c \in Ids
      PROVE  /\ DecisionOf(Memory')[c] \in Tried(c) \cup {AbstractMemory!NoCandidate,
                                                          AbstractMemory!Undecided}
             /\ DecisionOf(Memory)[c] # AbstractMemory!NoCandidate =>
                  DecisionOf(Memory')[c] # AbstractMemory!NoCandidate
             /\ DecisionOf(Memory)[c] \in AbstractMemory!Final =>
                  DecisionOf(Memory')[c] = DecisionOf(Memory)[c]
  <2>1. InventsNothing(c)
    BY RebuiltDecisions DEF RetireInv, StrictInv
  <2>2. /\ db.cands[c].status # "ABSENT" => rebuild.db.cands[c].status # "ABSENT"
        /\ db.cands[c].status \in {"PROMOTED", "REJECTED"} =>
             /\ rebuild.db.cands[c].status = db.cands[c].status
             /\ rebuild.db.cands[c].claim = db.cands[c].claim
        /\ db.cands[c].status = "ABSENT" => DecisionOf(db)[c] = AbstractMemory!NoCandidate
        /\ DecisionOf(db)[c].status = db.cands[c].status
        /\ DecisionOf(rebuild.db)[c].status = rebuild.db.cands[c].status
    BY SwapRecovers DEF DecisionOf, AbstractMemory!NoCandidate
  <2>3. DecisionOf(db)[c] \in AbstractMemory!Final =>
          db.cands[c].status \in {"PROMOTED", "REJECTED"}
    BY <2>2 DEF AbstractMemory!Final, AbstractMemory!Promoted, AbstractMemory!Rejected
  <2>4. AbstractMemory!NoCandidate.status = "ABSENT"
    BY DEF AbstractMemory!NoCandidate
  <2>5. db.cands[c].status \in {"PROMOTED", "REJECTED"} =>
          DecisionOf(rebuild.db)[c] = DecisionOf(db)[c]
    BY <2>2 DEF DecisionOf
  <2> QED BY <1>1, <2>1, <2>2, <2>3, <2>4, <2>5 DEF InventsNothing
<1>4. AbstractMemory!NothingInvented
  BY <1>3 DEF AbstractMemory!NothingInvented, DecisionOf
<1>5. AbstractMemory!DecidedStay
  BY <1>3 DEF AbstractMemory!DecidedStay, DecisionOf
<1>6. AbstractMemory!NothingUndone
  BY <1>1, <1>3, SwapRecovers DEF AbstractMemory!NothingUndone, DecisionOf
<1>7. AbstractMemory!Recover
  BY <1>1, <1>2, <1>4, <1>5, <1>6 DEF AbstractMemory!Recover, TriedMap
<1> QED BY <1>7 DEF AbstractStep, AbstractMemory!AbstractNext

\* Where replay is strict, the write path implements the lifecycle in full:
\* calls take effect one at a time and whole, and no crash, torn transaction or
\* rebuild undoes a claim's retirement, its supersession or a decision.
THEOREM StrictImplements ==
  ASSUME ReplayModes \subseteq {"strict"}
  PROVE  Spec => ImplementsLifecycle
<1>1. RetireInv /\ [Next]_vars => RetireInv'
  BY RetireNext
<1>2. RetireInv /\ [Next]_vars => [AbstractMemory!AbstractNext]_(AbstractMemory!abstractVars)
  <2> SUFFICES ASSUME RetireInv, [Next]_vars PROVE AbstractStep
    BY DEF AbstractStep
  <2>1. StageInv
    BY DEF RetireInv, StrictInv
  <2> QED BY <2>1, MappedNext, MappedSwap
<1> QED
  BY RetireInit, MappedInit, <1>1, <1>2, PTL
     DEF Spec, ImplementsLifecycle, AbstractMemory!AbstractSpec

-----------------------------------------------------------------------------
(* Replay.  Live, a line is the last of both series; in replay, a line of   *)
(* log.jsonl comes before every line of events.jsonl.  So the heart of the  *)
(* proof is that a record of one series and a record of the other may change *)
(* places wherever both are accepted.                                       *)

Replays == INSTANCE DataLemmas WITH Op <- ReplayLine
Keeps == INSTANCE DataLemmas WITH Op <- KeepLine

\* The two halves of a projection: what the lines of each series write.

LogHalf(d) == <<d.claims, d.contras, d.ents>>

EventHalf(d) == <<d.cands, d.events>>

LEMMA Halves ==
  ASSUME NEW d \in Databases, NEW e \in Databases, LogHalf(d) = LogHalf(e),
         EventHalf(d) = EventHalf(e)
  PROVE  d = e
BY DEF Databases, LogHalf, EventHalf

LEMMA LogRecordKinds ==
  ASSUME NEW r \in ClaimLogRecords
  PROVE  /\ r \in Records
         /\ r.kind \in {"add_claim", "retire_claim", "add_contradiction", "supersede_claims",
                        "decay_confidence", "merge_source_refs"}
BY DEF ClaimLogRecords, Records

LEMMA EventRecordKinds ==
  ASSUME NEW r \in EventLogRecords
  PROVE  /\ r \in Records
         /\ r.kind \in {"record_event", "propose_candidate_claim",
                        "promote_candidate_claim", "reject_candidate_claim"}
BY DEF EventLogRecords, Records

\* A record of log.jsonl reads and writes the first half only.
LEMMA LogSide ==
  ASSUME NEW d \in Databases, NEW e \in Databases, LogHalf(d) = LogHalf(e),
         NEW r \in ClaimLogRecords
  PROVE  /\ Accepts(d, r) <=> Accepts(e, r)
         /\ EventHalf(Effect(d, r)) = EventHalf(d)
         /\ LogHalf(Effect(d, r)) = LogHalf(Effect(e, r))
<1>1. d.claims = e.claims /\ d.contras = e.contras /\ d.ents = e.ents
  BY DEF LogHalf
<1>2. CASE r.kind = "add_claim"
  <2>1. Accepts(d, r) <=> Accepts(e, r)
    BY <1>1, <1>2 DEF Accepts, AddClaimAccepted, EntitiesAccept
  <2>2. Effect(d, r) = AddClaimEffect(d, r) /\ Effect(e, r) = AddClaimEffect(e, r)
    BY <1>2 DEF Effect
  <2>3. CASE d.claims[r.claim] # NoRow
    BY <1>1, <2>1, <2>2, <2>3 DEF AddClaimEffect, LogHalf
  <2>4. CASE d.claims[r.claim] = NoRow
    BY <1>1, <2>1, <2>2, <2>4 DEF AddClaimEffect, LogHalf, EventHalf, Databases
  <2> QED BY <2>3, <2>4
<1>3. CASE r.kind = "retire_claim"
  <2>1. Accepts(d, r) <=> Accepts(e, r)
    BY <1>1, <1>3 DEF Accepts, RetireAccepted
  <2>2. Effect(d, r) = RetireEffect(d, r) /\ Effect(e, r) = RetireEffect(e, r)
    BY <1>3 DEF Effect
  <2> QED BY <1>1, <2>1, <2>2 DEF RetireEffect, LogHalf, EventHalf, Databases
<1>4. CASE r.kind = "add_contradiction"
  <2>1. Accepts(d, r) <=> Accepts(e, r)
    BY <1>1, <1>4 DEF Accepts, ContradictionAccepted
  <2> QED BY <1>1, <1>4, <2>1 DEF Effect, LogHalf, EventHalf, Databases
<1>5. CASE r.kind = "supersede_claims"
  <2>1. Accepts(d, r) <=> Accepts(e, r)
    BY <1>1, <1>5 DEF Accepts
  <2>2. Effect(d, r) = SupersedeEffect(d, r) /\ Effect(e, r) = SupersedeEffect(e, r)
    BY <1>5 DEF Effect
  <2> QED BY <1>1, <2>1, <2>2 DEF SupersedeEffect, LogHalf, EventHalf, Databases
<1>6. CASE r.kind = "decay_confidence"
  <2>1. Accepts(d, r) <=> Accepts(e, r)
    BY <1>1, <1>6 DEF Accepts
  <2>2. Effect(d, r) = DecayEffect(d, r) /\ Effect(e, r) = DecayEffect(e, r)
    BY <1>6 DEF Effect
  <2> QED BY <1>1, <2>1, <2>2 DEF DecayEffect, LogHalf, EventHalf, Databases
<1>7. CASE r.kind = "merge_source_refs"
  <2>1. Accepts(d, r) <=> Accepts(e, r)
    BY <1>1, <1>7 DEF Accepts
  <2>2. Effect(d, r) = MergeEffect(d, r) /\ Effect(e, r) = MergeEffect(e, r)
    BY <1>7 DEF Effect
  <2> QED BY <1>1, <2>1, <2>2 DEF MergeEffect, LogHalf, EventHalf, Databases
<1> QED BY <1>2, <1>3, <1>4, <1>5, <1>6, <1>7, LogRecordKinds

\* A record of events.jsonl writes the second half only, and of the first it
\* asks no more than that a claim is there.
LEMMA EventSide ==
  ASSUME NEW d \in Databases, NEW e \in Databases, EventHalf(d) = EventHalf(e),
         \A id \in Ids : d.claims[id] # NoRow => e.claims[id] # NoRow,
         NEW r \in EventLogRecords, Accepts(d, r)
  PROVE  /\ Accepts(e, r)
         /\ LogHalf(Effect(d, r)) = LogHalf(d)
         /\ EventHalf(Effect(d, r)) = EventHalf(Effect(e, r))
<1>1. d.cands = e.cands /\ d.events = e.events
  BY DEF EventHalf
<1>2. CASE r.kind = "record_event"
  BY <1>1, <1>2 DEF Accepts, Effect, LogHalf, EventHalf, Databases
<1>3. CASE r.kind = "propose_candidate_claim"
  <2>1. Accepts(e, r)
    BY <1>1, <1>3 DEF Accepts, ProposeAccepted
  <2>2. Effect(d, r) = ProposeEffect(d, r) /\ Effect(e, r) = ProposeEffect(e, r)
    BY <1>3 DEF Effect
  <2>3. CASE d.cands[r.id] # NoRow
    BY <1>1, <2>1, <2>2, <2>3 DEF ProposeEffect, EventHalf
  <2>4. CASE d.cands[r.id] = NoRow
    BY <1>1, <2>1, <2>2, <2>4 DEF ProposeEffect, LogHalf, EventHalf, Databases
  <2> QED BY <2>3, <2>4
<1>4. CASE r.kind = "promote_candidate_claim"
  <2>1. r.claim \in Ids
    BY <1>4 DEF EventLogRecords
  <2>2. Accepts(e, r)
    BY <1>1, <1>4, <2>1 DEF Accepts, PromoteAccepted
  <2>3. Effect(d, r) = PromoteEffect(d, r) /\ Effect(e, r) = PromoteEffect(e, r)
    BY <1>4 DEF Effect
  <2> QED BY <1>1, <2>2, <2>3 DEF PromoteEffect, LogHalf, EventHalf, Databases
<1>5. CASE r.kind = "reject_candidate_claim"
  <2>1. Accepts(e, r)
    BY <1>1, <1>5 DEF Accepts, RejectAccepted
  <2>2. Effect(d, r) = RejectEffect(d, r) /\ Effect(e, r) = RejectEffect(e, r)
    BY <1>5 DEF Effect
  <2> QED BY <1>1, <2>1, <2>2 DEF RejectEffect, LogHalf, EventHalf, Databases
<1> QED BY <1>2, <1>3, <1>4, <1>5, EventRecordKinds

\* Two accepted records of different series may change places.
LEMMA SeriesCommute ==
  ASSUME NEW d \in Databases, NEW r \in ClaimLogRecords, NEW x \in EventLogRecords,
         Accepts(d, r), Accepts(d, x)
  PROVE  /\ Accepts(Effect(d, r), x) /\ Accepts(Effect(d, x), r)
         /\ Effect(Effect(d, r), x) = Effect(Effect(d, x), r)
<1>1. r \in Records /\ x \in Records
  BY LogRecordKinds, EventRecordKinds
<1>2. PICK f, g : f = Effect(d, r) /\ g = Effect(d, x)
  OBVIOUS
<1>3. f \in Databases /\ g \in Databases
  BY <1>1, <1>2, EffectType
<1>4. EventHalf(f) = EventHalf(d)
  BY <1>2, LogSide
<1>5. \A id \in Ids : d.claims[id] # NoRow => f.claims[id] # NoRow
  BY <1>1, <1>2, ClaimMoves
<1>6. Accepts(f, x) /\ LogHalf(g) = LogHalf(d) /\ EventHalf(g) = EventHalf(Effect(f, x))
  BY <1>2, <1>3, <1>4, <1>5, EventSide
<1>7. LogHalf(Effect(f, x)) = LogHalf(f)
  BY <1>3, <1>6, EventSide
<1>8. Accepts(g, r)
  BY <1>3, <1>6, LogSide
<1>9. LogHalf(Effect(g, r)) = LogHalf(f) /\ EventHalf(Effect(g, r)) = EventHalf(g)
  BY <1>2, <1>3, <1>6, LogSide
<1>10. Effect(f, x) \in Databases /\ Effect(g, r) \in Databases
  BY <1>1, <1>3, <1>6, <1>8, EffectType
<1>11. Effect(f, x) = Effect(g, r)
  BY <1>6, <1>7, <1>9, <1>10, Halves
<1> QED BY <1>2, <1>6, <1>8, <1>11

-----------------------------------------------------------------------------
(* Replaying two sequences of lines, one after the other. *)

Accumulators == [db : Databases, refused : SUBSET Records]

After(acc, lines) == FoldLeft(ReplayLine, acc, lines)

\* The lines L of log.jsonl and then the lines E of events.jsonl give the
\* projection d, and none of them is refused.
Built(L, E, d) == After(Replay(L), E) = [db |-> d, refused |-> {}]

LEMMA AfterIsFold == \A acc, lines : After(acc, lines) = Replays!Fold(acc, lines)
BY DEF After, Replays!Fold, Replays!FoldLeft, FoldLeft, Replays!MapThenFoldSet,
       MapThenFoldSet, Replays!Max, Max

LEMMA LineType ==
  ASSUME NEW acc \in Accumulators, NEW r \in Records
  PROVE  /\ ReplayLine(acc, r) \in Accumulators
         /\ Accepts(acc.db, r) => ReplayLine(acc, r) = [acc EXCEPT !.db = Effect(acc.db, r)]
         /\ ~Accepts(acc.db, r) => ReplayLine(acc, r).refused # {}
         /\ acc.refused \subseteq ReplayLine(acc, r).refused
<1>1. Accepts(acc.db, r) => Effect(acc.db, r) \in Databases
  BY EffectType DEF Accumulators
<1> QED BY <1>1 DEF ReplayLine, Accumulators

LEMMA AfterType ==
  ASSUME NEW acc \in Accumulators, NEW lines \in Seq(Records)
  PROVE  After(acc, lines) \in Accumulators
<1>1. \A a \in Accumulators, r \in Records : ReplayLine(a, r) \in Accumulators
  BY LineType
<1> QED BY <1>1, AfterIsFold, Replays!FoldStays

LEMMA ReplayIsAfter ==
  ASSUME NEW lines
  PROVE  Replay(lines) = After([db |-> EmptyDb, refused |-> {}], lines)
BY DEF Replay, After

LEMMA ReplayType ==
  ASSUME NEW lines \in Seq(Records)
  PROVE  Replay(lines) \in Accumulators
<1>1. [db |-> EmptyDb, refused |-> {}] \in Accumulators
  BY EmptyDbType DEF Accumulators
<1> QED BY <1>1, AfterType, ReplayIsAfter

LEMMA AfterEmpty == \A acc : After(acc, <<>>) = acc
BY AfterIsFold, Replays!FoldEmpty

LEMMA AfterAppend ==
  ASSUME NEW acc, NEW lines \in Seq(Records), NEW r \in Records
  PROVE  After(acc, Append(lines, r)) = ReplayLine(After(acc, lines), r)
BY AfterIsFold, Replays!FoldAppend

LEMMA AfterConcat ==
  ASSUME NEW acc, NEW first \in Seq(Records), NEW second \in Seq(Records)
  PROVE  After(acc, first \o second) = After(After(acc, first), second)
BY AfterIsFold, Replays!FoldConcat

\* Replay takes the two series as one sequence.
LEMMA ReplayBoth ==
  ASSUME NEW L \in Seq(Records), NEW E \in Seq(Records)
  PROVE  Replay(L \o E) = After(Replay(L), E)
BY ReplayIsAfter, AfterConcat

LEMMA NothingBuilt == Built(<<>>, <<>>, EmptyDb)
BY AfterEmpty, ReplayIsAfter DEF Built

\* A record accepted by what was built may follow at the end of events.jsonl.
LEMMA EventFollows ==
  ASSUME NEW L \in Seq(Records), NEW E \in Seq(Records), NEW d, Built(L, E, d),
         NEW x \in Records, Accepts(d, x)
  PROVE  Built(L, Append(E, x), Effect(d, x))
<1> DEFINE acc == [db |-> d, refused |-> {}]
<1>1. After(Replay(L), Append(E, x)) = ReplayLine(acc, x)
  BY AfterAppend DEF Built
<1>2. acc.db = d
  OBVIOUS
<1>3. ReplayLine(acc, x) = [acc EXCEPT !.db = Effect(d, x)]
  BY <1>2 DEF ReplayLine
<1> QED BY <1>1, <1>3 DEF Built

\* The accumulators that have the first half of another, and refused no less.
Beyond(base) == {a \in Accumulators : /\ LogHalf(a.db) = LogHalf(base.db)
                                      /\ base.refused \subseteq a.refused}

LEMMA EventsGoBeyond ==
  ASSUME NEW base \in Accumulators, NEW E \in Seq(EventLogRecords)
  PROVE  After(base, E) \in Beyond(base)
<1>1. ASSUME NEW a \in Beyond(base), NEW x \in EventLogRecords
      PROVE  ReplayLine(a, x) \in Beyond(base)
  <2>1. a \in Accumulators /\ a.db \in Databases /\ x \in Records
    BY EventRecordKinds DEF Beyond, Accumulators
  <2>2. CASE Accepts(a.db, x)
    <3>1. LogHalf(Effect(a.db, x)) = LogHalf(a.db)
      BY <2>1, <2>2, EventSide
    <3>2. ReplayLine(a, x).db = Effect(a.db, x)
      BY <2>1, <2>2, LineType DEF Accumulators
    <3> QED BY <2>1, <3>1, <3>2, LineType DEF Beyond
  <2>3. CASE ~Accepts(a.db, x)
    <3>1. ReplayLine(a, x).db = a.db
      BY <2>1, <2>3 DEF ReplayLine, Accumulators
    <3> QED BY <2>1, <3>1, LineType DEF Beyond
  <2> QED BY <2>2, <2>3
<1>2. base \in Beyond(base)
  BY DEF Beyond
<1> QED BY <1>1, <1>2, AfterIsFold, Replays!FoldStays

\* Two replays of the same lines of events.jsonl, one with the record r of
\* log.jsonl more before them: as long as nothing is refused without it, the
\* other shows what r makes of the first.
Ahead(r) ==
  {pair \in Accumulators \X Accumulators :
     pair[1].refused = {} => /\ Accepts(pair[1].db, r)
                             /\ pair[2] = [db |-> Effect(pair[1].db, r), refused |-> {}]}

LEMMA StaysAhead ==
  ASSUME NEW r \in ClaimLogRecords, NEW a, NEW b, <<a, b>> \in Ahead(r),
         NEW x \in EventLogRecords
  PROVE  <<ReplayLine(a, x), ReplayLine(b, x)>> \in Ahead(r)
<1>1. /\ a \in Accumulators /\ b \in Accumulators /\ x \in Records
      /\ a.refused = {} => /\ Accepts(a.db, r)
                           /\ b = [db |-> Effect(a.db, r), refused |-> {}]
  BY EventRecordKinds DEF Ahead
<1>2. ReplayLine(a, x) \in Accumulators /\ ReplayLine(b, x) \in Accumulators
  BY <1>1, LineType
<1>3. SUFFICES ASSUME ReplayLine(a, x).refused = {}
      PROVE  /\ Accepts(ReplayLine(a, x).db, r)
             /\ ReplayLine(b, x) = [db |-> Effect(ReplayLine(a, x).db, r), refused |-> {}]
  BY <1>2 DEF Ahead
<1>4. a.refused = {} /\ Accepts(a.db, x) /\ a.db \in Databases
  BY <1>1, <1>3, LineType DEF Accumulators
<1>5. ReplayLine(a, x).db = Effect(a.db, x)
  BY <1>1, <1>4, LineType DEF Accumulators
<1>6. /\ Accepts(Effect(a.db, r), x) /\ Accepts(Effect(a.db, x), r)
      /\ Effect(Effect(a.db, r), x) = Effect(Effect(a.db, x), r)
  BY <1>1, <1>4, SeriesCommute
<1>7. b.db = Effect(a.db, r) /\ b.refused = {} /\ b = [db |-> Effect(a.db, r), refused |-> {}]
  BY <1>1, <1>4
<1>8. ReplayLine(b, x) = [db |-> Effect(b.db, x), refused |-> {}]
  BY <1>6, <1>7 DEF ReplayLine
<1> QED BY <1>5, <1>6, <1>7, <1>8

\* A record accepted by what was built may be put at the end of log.jsonl,
\* before all lines of events.jsonl.
LEMMA LogGoesBefore ==
  ASSUME NEW L \in Seq(Records), NEW E \in Seq(EventLogRecords), NEW d, Built(L, E, d),
         NEW r \in ClaimLogRecords, Accepts(d, r)
  PROVE  Built(Append(L, r), E, Effect(d, r))
<1>1. PICK a, b : a = Replay(L) /\ b = Replay(Append(L, r))
  OBVIOUS
<1>2. r \in Records
  BY LogRecordKinds
<1>3. b = ReplayLine(a, r)
  BY <1>1, <1>2, AfterAppend, ReplayIsAfter
<1>4. a \in Accumulators /\ b \in Accumulators
  BY <1>1, <1>2, <1>3, ReplayType, LineType
<1>5. PICK c : c = After(a, E)
  OBVIOUS
<1>6. c = [db |-> d, refused |-> {}] /\ c \in Beyond(a)
  BY <1>1, <1>4, <1>5, EventsGoBeyond DEF Built
<1>7. /\ c.db = d /\ c.refused = {} /\ a.db \in Databases /\ d \in Databases
      /\ LogHalf(d) = LogHalf(a.db) /\ a.refused = {}
  BY <1>4, <1>6 DEF Beyond, Accumulators
<1>8. Accepts(a.db, r)
  BY <1>7, LogSide
<1>9. b = [db |-> Effect(a.db, r), refused |-> {}]
  BY <1>3, <1>4, <1>7, <1>8 DEF ReplayLine, Accumulators
<1>10. <<a, b>> \in Ahead(r)
  BY <1>4, <1>8, <1>9 DEF Ahead
<1>11. <<After(a, E), After(b, E)>> \in Ahead(r)
  BY <1>10, StaysAhead, AfterIsFold, Replays!FoldRelates
<1>12. After(b, E) = [db |-> Effect(d, r), refused |-> {}]
  BY <1>5, <1>7, <1>11 DEF Ahead
<1> QED BY <1>1, <1>12 DEF Built

-----------------------------------------------------------------------------
(* The lines of a series that are not dead. *)

Entries(s, lines, dd, n) == [i \in 1..n |-> [line |-> lines[i], dead |-> <<s, i>> \in dd]]

\* Of the first n lines of a series, those that dd does not name.
Live(s, lines, dd, n) == FoldLeft(KeepLine, <<>>, Entries(s, lines, dd, n))

LEMMA LiveIsFold ==
  \A s, lines, dd, n : Live(s, lines, dd, n) = Keeps!Fold(<<>>, Entries(s, lines, dd, n))
BY DEF Live, Keeps!Fold, Keeps!FoldLeft, FoldLeft, Keeps!MapThenFoldSet,
       MapThenFoldSet, Keeps!Max, Max

LEMMA LiveNone == \A s, lines, dd : Live(s, lines, dd, 0) = <<>>
<1> SUFFICES ASSUME NEW s, NEW lines, NEW dd PROVE Live(s, lines, dd, 0) = <<>>
  OBVIOUS
<1>1. Entries(s, lines, dd, 0) = <<>>
  BY DEF Entries
<1> QED BY <1>1, LiveIsFold, Keeps!FoldEmpty

LEMMA EntriesAppend ==
  ASSUME NEW s, NEW lines, NEW dd, NEW n \in Nat, NEW S, NEW x \in S,
         x = [line |-> lines[n + 1], dead |-> <<s, n + 1>> \in dd],
         Entries(s, lines, dd, n) \in Seq(S)
  PROVE  Entries(s, lines, dd, n + 1) = Append(Entries(s, lines, dd, n), x)
<1> DEFINE short == Entries(s, lines, dd, n)
           long == Entries(s, lines, dd, n + 1)
<1>1. n + 1 \in Nat
  OBVIOUS
<1>2. Len(short) = n /\ DOMAIN long = 1..(n + 1)
  BY <1>1 DEF Entries
<1>3. \A i \in 1..n : long[i] = short[i]
  BY <1>1 DEF Entries
<1>4. long[n + 1] = x
  BY <1>1 DEF Entries
<1>5. DOMAIN long = 1..(n + 1) /\ short \in Seq(S) /\ n + 1 \in Nat
  BY <1>1, <1>2
<1> HIDE DEF short, long
<1>6. /\ Append(short, x) \in Seq(S) /\ Len(Append(short, x)) = n + 1
      /\ \A i \in 1..n : Append(short, x)[i] = short[i]
      /\ Append(short, x)[n + 1] = x
  BY <1>2, <1>5, AppendProperties
<1>7. \A i \in 1..(n + 1) : long[i] = Append(short, x)[i]
  <2>1. \A i \in 1..(n + 1) : i \in 1..n \/ i = n + 1
    OBVIOUS
  <2> QED BY <1>3, <1>4, <1>6, <2>1
<1>8. long \in Seq(S) /\ Len(long) = n + 1
  <2> DEFINE m == n + 1
  <2>1. \A i \in 1..m : long[i] \in S
    BY <1>6, <1>7, ElementOfSeq
  <2>2. long = [i \in 1..m |-> long[i]] /\ m \in Nat
    BY <1>5 DEF long, Entries
  <2> HIDE DEF m
  <2>3. [i \in 1..m |-> long[i]] \in Seq(S)
    <3>1. m \in Nat
      BY <2>2
    <3> QED BY ONLY <2>1, <3>1
  <2>4. long \in Seq(S)
    BY <2>2, <2>3, Zenon
  <2>5. Len(long) = m
    BY <1>5, <2>2, <2>4, LenProperties DEF m
  <2> QED BY <2>4, <2>5 DEF m
<1>9. long = Append(short, x)
  BY <1>5, <1>6, <1>7, <1>8, SeqEqual
<1> QED BY <1>9 DEF short, long

\* The next line of a series is kept, unless it is dead.
LEMMA LiveNext ==
  ASSUME NEW s, NEW lines, NEW dd, NEW n \in Nat
  PROVE  /\ <<s, n + 1>> \in dd => Live(s, lines, dd, n + 1) = Live(s, lines, dd, n)
         /\ <<s, n + 1>> \notin dd =>
              Live(s, lines, dd, n + 1) = Append(Live(s, lines, dd, n), lines[n + 1])
<1> DEFINE S == [line : {lines[i] : i \in 1..(n + 1)}, dead : BOOLEAN]
           x == [line |-> lines[n + 1], dead |-> <<s, n + 1>> \in dd]
           short == Entries(s, lines, dd, n)
<1>1. n + 1 \in 1..(n + 1) /\ x \in S
  OBVIOUS
<1>2. short \in Seq(S)
  <2>1. \A i \in 1..n : [line |-> lines[i], dead |-> <<s, i>> \in dd] \in S
    OBVIOUS
  <2> HIDE DEF S
  <2> QED BY <2>1 DEF Entries
<1>3. /\ x = [line |-> lines[n + 1], dead |-> <<s, n + 1>> \in dd] /\ x \in S
      /\ short = Entries(s, lines, dd, n)
  BY <1>1
<1>4. x.line = lines[n + 1] /\ (x.dead <=> <<s, n + 1>> \in dd)
  OBVIOUS
<1> HIDE DEF S, x, short
<1>5. Entries(s, lines, dd, n + 1) = Append(short, x)
  BY <1>2, <1>3, EntriesAppend
<1>6. Keeps!Fold(<<>>, Append(short, x)) = KeepLine(Keeps!Fold(<<>>, short), x)
  BY <1>1, <1>2, Keeps!FoldAppend
<1>7. Live(s, lines, dd, n + 1) = KeepLine(Live(s, lines, dd, n), x)
  BY <1>3, <1>5, <1>6, LiveIsFold
<1> QED BY <1>4, <1>7 DEF KeepLine

\* What is kept depends on these lines only.
LEMMA LiveSame ==
  ASSUME NEW s, NEW lines, NEW more, NEW dd, NEW ee, NEW n \in Nat,
         \A i \in 1..n : lines[i] = more[i] /\ (<<s, i>> \in dd <=> <<s, i>> \in ee)
  PROVE  Live(s, lines, dd, n) = Live(s, more, ee, n)
<1>1. Entries(s, lines, dd, n) = Entries(s, more, ee, n)
  BY DEF Entries
<1> QED BY <1>1, LiveIsFold

\* Dead lines at the end change nothing.
LEMMA LiveDead ==
  ASSUME NEW s, NEW lines, NEW dd, NEW m \in Nat, NEW n \in Nat, m <= n,
         \A i \in (m + 1)..n : <<s, i>> \in dd
  PROVE  Live(s, lines, dd, n) = Live(s, lines, dd, m)
<1> DEFINE T == {k \in Nat : m + k <= n => Live(s, lines, dd, m + k) = Live(s, lines, dd, m)}
<1>1. 0 \in T
  <2>1. m + 0 = m
    OBVIOUS
  <2> QED BY <2>1
<1>2. ASSUME NEW k \in Nat, k \in T PROVE k + 1 \in T
  <2> SUFFICES ASSUME m + (k + 1) <= n
               PROVE  Live(s, lines, dd, m + (k + 1)) = Live(s, lines, dd, m)
    OBVIOUS
  <2> DEFINE a == m + k
  <2>1. a \in Nat /\ m + (k + 1) = a + 1 /\ a + 1 \in (m + 1)..n
    OBVIOUS
  <2>2. Live(s, lines, dd, a) = Live(s, lines, dd, m)
    BY <1>2
  <2> HIDE DEF a
  <2>3. Live(s, lines, dd, a + 1) = Live(s, lines, dd, a)
    BY <2>1, LiveNext
  <2> QED BY <2>1, <2>2, <2>3
<1>3. T = Nat
  <2> HIDE DEF T
  <2>1. T \subseteq Nat
    BY DEF T
  <2> QED BY <1>1, <1>2, <2>1, Keeps!InductionOnSets
<1>4. n - m \in Nat /\ m + (n - m) <= n
  OBVIOUS
<1>5. Live(s, lines, dd, m + (n - m)) = Live(s, lines, dd, m)
  BY <1>3, <1>4
<1>6. m + (n - m) = n
  OBVIOUS
<1> QED BY <1>5, <1>6

\* Lines that are kept are lines.
LEMMA LiveType ==
  ASSUME NEW s, NEW lines, NEW dd, NEW n \in Nat, NEW S, \A i \in 1..n : lines[i] \in S
  PROVE  Live(s, lines, dd, n) \in Seq(S)
<1> DEFINE T == [line : S, dead : BOOLEAN]
<1>1. Entries(s, lines, dd, n) \in Seq(T)
  <2>1. \A i \in 1..n : [line |-> lines[i], dead |-> <<s, i>> \in dd] \in T
    OBVIOUS
  <2> HIDE DEF T
  <2> QED BY <2>1 DEF Entries
<1>2. ASSUME NEW a \in Seq(S), NEW x \in T PROVE KeepLine(a, x) \in Seq(S)
  BY DEF KeepLine
<1>3. <<>> \in Seq(S)
  OBVIOUS
<1> HIDE DEF T
<1> QED BY <1>1, <1>2, <1>3, Keeps!FoldStays, LiveIsFold

-----------------------------------------------------------------------------
(* Both series up to a line of each. *)

LEMMA SeriesRecords ==
  ASSUME NEW r \in Records
  PROVE  /\ SeriesOf(r) \in Series
         /\ SeriesOf(r) = "log" => r \in ClaimLogRecords
         /\ SeriesOf(r) = "events" => r \in EventLogRecords
BY LogRecordKinds, EventRecordKinds DEF SeriesOf, Series, Records

\* The first a lines of log.jsonl and the first b of events.jsonl, without those
\* dd names, give the projection d.
BuiltUpTo(ll, dd, a, b, d) ==
  Built(Live("log", ll["log"], dd, a), Live("events", ll["events"], dd, b), d)

\* Each of these lines is of a kind its series has.
Kept(ll, a, b) ==
  /\ \A i \in 1..a : ll["log"][i] \in ClaimLogRecords
  /\ \A i \in 1..b : ll["events"][i] \in EventLogRecords

LEMMA NothingUpTo == \A ll, dd : BuiltUpTo(ll, dd, 0, 0, EmptyDb)
BY LiveNone, NothingBuilt DEF BuiltUpTo

LEMMA KeptTypes ==
  ASSUME NEW ll, NEW dd, NEW a \in Nat, NEW b \in Nat, Kept(ll, a, b)
  PROVE  /\ Live("log", ll["log"], dd, a) \in Seq(Records)
         /\ Live("events", ll["events"], dd, b) \in Seq(EventLogRecords)
         /\ Live("events", ll["events"], dd, b) \in Seq(Records)
<1>1. /\ \A i \in 1..a : ll["log"][i] \in Records
      /\ \A i \in 1..b : ll["events"][i] \in EventLogRecords /\ ll["events"][i] \in Records
  BY DEF Kept, Records
<1> QED BY <1>1, LiveType

LEMMA SameUpTo ==
  ASSUME NEW ll, NEW more, NEW dd, NEW ee, NEW a \in Nat, NEW b \in Nat, NEW d,
         \A i \in 1..a : /\ ll["log"][i] = more["log"][i]
                         /\ <<"log", i>> \in dd <=> <<"log", i>> \in ee,
         \A i \in 1..b : /\ ll["events"][i] = more["events"][i]
                         /\ <<"events", i>> \in dd <=> <<"events", i>> \in ee,
         BuiltUpTo(ll, dd, a, b, d)
  PROVE  BuiltUpTo(more, ee, a, b, d)
<1>1. Live("log", ll["log"], dd, a) = Live("log", more["log"], ee, a)
  BY LiveSame
<1>2. Live("events", ll["events"], dd, b) = Live("events", more["events"], ee, b)
  BY LiveSame
<1> QED BY <1>1, <1>2 DEF BuiltUpTo

\* The next line of log.jsonl, dead or accepted.
LEMMA LogLine ==
  ASSUME NEW ll, NEW dd, NEW a \in Nat, NEW b \in Nat, NEW d, Kept(ll, a, b),
         BuiltUpTo(ll, dd, a, b, d)
  PROVE  /\ <<"log", a + 1>> \in dd => BuiltUpTo(ll, dd, a + 1, b, d)
         /\ /\ <<"log", a + 1>> \notin dd
            /\ ll["log"][a + 1] \in ClaimLogRecords
            /\ Accepts(d, ll["log"][a + 1])
            => BuiltUpTo(ll, dd, a + 1, b, Effect(d, ll["log"][a + 1]))
<1> DEFINE L == Live("log", ll["log"], dd, a)
           E == Live("events", ll["events"], dd, b)
           r == ll["log"][a + 1]
<1>1. L \in Seq(Records) /\ E \in Seq(EventLogRecords)
  BY KeptTypes
<1>2. Built(L, E, d)
  BY DEF BuiltUpTo
<1>3. /\ <<"log", a + 1>> \in dd => Live("log", ll["log"], dd, a + 1) = L
      /\ <<"log", a + 1>> \notin dd => Live("log", ll["log"], dd, a + 1) = Append(L, r)
  BY LiveNext
<1> HIDE DEF L, r
<1>4. r \in ClaimLogRecords /\ Accepts(d, r) => Built(Append(L, r), E, Effect(d, r))
  <2> HIDE DEF E
  <2> QED BY <1>1, <1>2, LogGoesBefore
<1> QED BY <1>2, <1>3, <1>4 DEF BuiltUpTo, r

\* The next line of events.jsonl, dead or accepted.
LEMMA EventLine ==
  ASSUME NEW ll, NEW dd, NEW a \in Nat, NEW b \in Nat, NEW d, Kept(ll, a, b),
         BuiltUpTo(ll, dd, a, b, d)
  PROVE  /\ <<"events", b + 1>> \in dd => BuiltUpTo(ll, dd, a, b + 1, d)
         /\ /\ <<"events", b + 1>> \notin dd
            /\ ll["events"][b + 1] \in EventLogRecords
            /\ Accepts(d, ll["events"][b + 1])
            => BuiltUpTo(ll, dd, a, b + 1, Effect(d, ll["events"][b + 1]))
<1> DEFINE L == Live("log", ll["log"], dd, a)
           E == Live("events", ll["events"], dd, b)
           x == ll["events"][b + 1]
<1>1. L \in Seq(Records) /\ E \in Seq(Records)
  BY KeptTypes
<1>2. Built(L, E, d)
  BY DEF BuiltUpTo
<1>3. /\ <<"events", b + 1>> \in dd => Live("events", ll["events"], dd, b + 1) = E
      /\ <<"events", b + 1>> \notin dd => Live("events", ll["events"], dd, b + 1) = Append(E, x)
  BY LiveNext
<1> HIDE DEF E, x
<1>4. x \in EventLogRecords /\ Accepts(d, x) => Built(L, Append(E, x), Effect(d, x))
  <2> HIDE DEF L
  <2> QED BY <1>1, <1>2, EventFollows, EventRecordKinds
<1> QED BY <1>2, <1>3, <1>4 DEF BuiltUpTo, x

-----------------------------------------------------------------------------
(* A transaction appends its records before it applies them.  Those it has   *)
(* appended and not applied yet are due.                                     *)

Owes(todo, due) ==
  \/ todo = <<>> /\ due = <<>>
  \/ \E r \in Records : \/ todo = Write(r) /\ due = <<>>
                        \/ todo = <<ToDb(r)>> /\ due = <<r>>
  \/ \E a, q \in Records :
       \/ todo = <<ToLog(a), ToLog(q), ToDb(a), ToDb(q)>> /\ due = <<>>
       \/ todo = <<ToLog(q), ToDb(a), ToDb(q)>> /\ due = <<a>>
       \/ todo = <<ToDb(a), ToDb(q)>> /\ due = <<a, q>>

\* The lines give what e becomes when the due records are applied, if they can be.
Catches(e, due, L, E) ==
  LET acc == After([db |-> e, refused |-> {}], due)
  IN  acc.refused = {} => Built(L, E, acc.db)

LEMMA OwesType ==
  ASSUME NEW todo, NEW due, Owes(todo, due)
  PROVE  due \in Seq(Records) /\ (todo = <<>> => due = <<>>)
<1>1. \A r : Write(r) # <<>> /\ <<ToDb(r)>> # <<>>
  BY WriteSteps
<1>2. \A a, q : /\ <<ToLog(a), ToLog(q), ToDb(a), ToDb(q)>> # <<>>
                /\ <<ToLog(q), ToDb(a), ToDb(q)>> # <<>>
                /\ <<ToDb(a), ToDb(q)>> # <<>>
  BY PromotionSteps
<1>3. todo = <<>> => due = <<>>
  BY <1>1, <1>2 DEF Owes
<1>4. due \in Seq(Records)
  <2>1. <<>> \in Seq(Records)
    OBVIOUS
  <2>2. \A a, q \in Records : <<a>> \in Seq(Records) /\ <<a, q>> \in Seq(Records)
    OBVIOUS
  <2> QED BY <2>1, <2>2 DEF Owes
<1> QED BY <1>3, <1>4

LEMMA PairOf ==
  ASSUME NEW S, NEW a \in S, NEW q \in S
  PROVE  Append(<<a>>, q) = <<a, q>> /\ <<a>> \o <<q>> = <<a, q>>
<1> DEFINE one == <<a>>
           both == Append(one, q)
           pair == <<a, q>>
<1>1. one \in Seq(S) /\ Len(one) = 1 /\ one[1] = a
  OBVIOUS
<1>2. pair \in Seq(S) /\ Len(pair) = 2 /\ pair[1] = a /\ pair[2] = q
  OBVIOUS
<1>3. one \o <<q>> = both
  BY <1>1, AppendIsConcat
<1> HIDE DEF one, pair
<1>4. both \in Seq(S) /\ Len(both) = 2 /\ both[1] = a /\ both[2] = q
  <2>1. /\ both \in Seq(S) /\ Len(both) = Len(one) + 1 /\ both[Len(one) + 1] = q
        /\ \A i \in 1..Len(one) : both[i] = one[i]
    <3>1. one \in Seq(S)
      BY <1>1
    <3> QED BY <3>1, AppendProperties
  <2>2. 1 \in 1..Len(one) /\ Len(one) + 1 = 2
    BY <1>1
  <2> HIDE DEF both
  <2> QED BY <1>1, <2>1, <2>2
<1> HIDE DEF both
<1>5. \A i \in 1..2 : i = 1 \/ i = 2
  OBVIOUS
<1>6. both = pair
  BY <1>2, <1>4, <1>5, SeqEqual
<1> QED BY <1>3, <1>6 DEF one, both, pair

LEMMA OwesAppend ==
  ASSUME NEW todo, NEW due, Owes(todo, due), todo # <<>>, Head(todo).do = "append"
  PROVE  Owes(Tail(todo), Append(due, Head(todo).rec))
<1>1. CASE \E r \in Records : todo = Write(r) /\ due = <<>>
  <2>1. PICK r \in Records : todo = Write(r) /\ due = <<>>
    BY <1>1
  <2>2. Tail(todo) = <<ToDb(r)>> /\ Head(todo).rec = r
    BY <2>1, WriteSteps
  <2>3. Append(<<>>, r) = <<r>>
    OBVIOUS
  <2> QED BY <2>1, <2>2, <2>3 DEF Owes
<1>2. CASE \E a, q \in Records : todo = <<ToLog(a), ToLog(q), ToDb(a), ToDb(q)>> /\ due = <<>>
  <2>1. PICK a, q \in Records : todo = <<ToLog(a), ToLog(q), ToDb(a), ToDb(q)>> /\ due = <<>>
    BY <1>2
  <2>2. Tail(todo) = <<ToLog(q), ToDb(a), ToDb(q)>> /\ Head(todo).rec = a
    BY <2>1, PromotionSteps, WriteSteps
  <2>3. Append(<<>>, a) = <<a>>
    OBVIOUS
  <2> QED BY <2>1, <2>2, <2>3 DEF Owes
<1>3. CASE \E a, q \in Records : todo = <<ToLog(q), ToDb(a), ToDb(q)>> /\ due = <<a>>
  <2>1. PICK a, q \in Records : todo = <<ToLog(q), ToDb(a), ToDb(q)>> /\ due = <<a>>
    BY <1>3
  <2>2. Tail(todo) = <<ToDb(a), ToDb(q)>> /\ Head(todo).rec = q
    BY <2>1, PromotionSteps, WriteSteps
  <2>3. Append(<<a>>, q) = <<a, q>>
    BY PairOf
  <2> QED BY <2>1, <2>2, <2>3 DEF Owes
<1>4. \A a, q : Head(<<ToDb(a)>>).do = "apply" /\ Head(<<ToDb(a), ToDb(q)>>).do = "apply"
  BY WriteSteps, PromotionSteps
<1> QED BY <1>1, <1>2, <1>3, <1>4 DEF Owes

LEMMA OwesApply ==
  ASSUME NEW todo, NEW due, Owes(todo, due), todo # <<>>, Head(todo).do = "apply"
  PROVE  /\ Head(todo).rec \in Records
         /\ \E rest \in Seq(Records) : /\ due = <<Head(todo).rec>> \o rest
                                       /\ Owes(Tail(todo), rest)
<1>1. CASE \E r \in Records : todo = <<ToDb(r)>> /\ due = <<r>>
  <2>1. PICK r \in Records : todo = <<ToDb(r)>> /\ due = <<r>>
    BY <1>1
  <2>2. Tail(todo) = <<>> /\ Head(todo).rec = r
    BY <2>1, WriteSteps
  <2>3. <<r>> = <<r>> \o <<>> /\ <<>> \in Seq(Records)
    OBVIOUS
  <2> QED BY <2>1, <2>2, <2>3 DEF Owes
<1>2. CASE \E a, q \in Records : todo = <<ToDb(a), ToDb(q)>> /\ due = <<a, q>>
  <2>1. PICK a, q \in Records : todo = <<ToDb(a), ToDb(q)>> /\ due = <<a, q>>
    BY <1>2
  <2>2. Tail(todo) = <<ToDb(q)>> /\ Head(todo).rec = a
    BY <2>1, PromotionSteps, WriteSteps
  <2>3. <<q>> \in Seq(Records)
    OBVIOUS
  <2>4. <<a>> \o <<q>> = <<a, q>>
    BY PairOf
  <2> QED BY <2>1, <2>2, <2>3, <2>4 DEF Owes
<1>3. \A r, q : /\ Head(Write(r)).do = "append"
                /\ Head(<<ToLog(r), ToLog(q), ToDb(r), ToDb(q)>>).do = "append"
                /\ Head(<<ToLog(q), ToDb(r), ToDb(q)>>).do = "append"
  BY WriteSteps, PromotionSteps
<1> QED BY <1>1, <1>2, <1>3 DEF Owes

LEMMA NothingDue ==
  ASSUME NEW e, NEW L, NEW E
  PROVE  Catches(e, <<>>, L, E) <=> Built(L, E, e)
BY AfterEmpty DEF Catches

\* A line is appended, and its record is due.
LEMMA DueGrows ==
  ASSUME NEW e \in Databases, NEW due \in Seq(Records), NEW r \in Records,
         NEW L, NEW E, NEW M, NEW F, Catches(e, due, L, E),
         \A d : Built(L, E, d) /\ Accepts(d, r) => Built(M, F, Effect(d, r))
  PROVE  Catches(e, Append(due, r), M, F)
<1> DEFINE start == [db |-> e, refused |-> {}]
<1>1. PICK acc : acc = After(start, due)
  OBVIOUS
<1>2. start \in Accumulators
  BY DEF Accumulators
<1>3. acc \in Accumulators
  BY <1>1, <1>2, AfterType
<1>4. After(start, Append(due, r)) = ReplayLine(acc, r)
  BY <1>1, AfterAppend
<1>5. ASSUME ReplayLine(acc, r).refused = {}
      PROVE  Built(M, F, ReplayLine(acc, r).db)
  <2>1. acc.refused = {} /\ Accepts(acc.db, r)
    BY <1>3, <1>5, LineType
  <2>2. ReplayLine(acc, r).db = Effect(acc.db, r)
    BY <1>3, <2>1, LineType DEF Accumulators
  <2>3. Built(L, E, acc.db)
    BY <1>1, <2>1 DEF Catches
  <2> QED BY <2>1, <2>2, <2>3
<1> QED BY <1>4, <1>5 DEF Catches

\* The first due record is applied.
LEMMA DueShrinks ==
  ASSUME NEW e, NEW r \in Records, NEW rest \in Seq(Records), NEW L, NEW E,
         Catches(e, <<r>> \o rest, L, E), Accepts(e, r)
  PROVE  Catches(Effect(e, r), rest, L, E)
<1> DEFINE start == [db |-> e, refused |-> {}]
           next == [db |-> Effect(e, r), refused |-> {}]
<1>1. PICK one : one = <<r>>
  OBVIOUS
<1>2. <<>> \in Seq(Records) /\ one \in Seq(Records) /\ one = Append(<<>>, r)
  BY <1>1
<1>3. After(start, one) = next
  <2>1. ReplayLine(start, r) = next
    BY DEF ReplayLine
  <2> HIDE DEF start, next
  <2>2. After(start, Append(<<>>, r)) = ReplayLine(After(start, <<>>), r)
    BY <1>2, AfterAppend
  <2> QED BY <1>2, <2>1, <2>2, AfterEmpty
<1> HIDE DEF start, next
<1>4. After(start, one \o rest) = After(After(start, one), rest)
  BY <1>2, AfterConcat
<1>5. After(start, <<r>> \o rest) = After(next, rest)
  BY <1>1, <1>3, <1>4
<1> QED BY <1>5 DEF Catches, start, next

\* A record is appended to its series, and accepted.
LEMMA AppendBuilt ==
  ASSUME NEW ll \in [Series -> Seq(Records)], NEW dd, NEW r \in Records, NEW mm,
         mm = [ll EXCEPT ![SeriesOf(r)] = Append(ll[SeriesOf(r)], r)],
         \A s \in Series : \A i \in DOMAIN ll[s] : SeriesOf(ll[s][i]) = s,
         \A s \in Series : <<s, Len(ll[s]) + 1>> \notin dd,
         NEW d, BuiltUpTo(ll, dd, Len(ll["log"]), Len(ll["events"]), d), Accepts(d, r)
  PROVE  BuiltUpTo(mm, dd, Len(mm["log"]), Len(mm["events"]), Effect(d, r))
<1>1. /\ ll["log"] \in Seq(Records) /\ ll["events"] \in Seq(Records)
      /\ \A i \in DOMAIN ll["log"] : SeriesOf(ll["log"][i]) = "log"
      /\ \A i \in DOMAIN ll["events"] : SeriesOf(ll["events"][i]) = "events"
      /\ <<"log", Len(ll["log"]) + 1>> \notin dd
      /\ <<"events", Len(ll["events"]) + 1>> \notin dd
  BY DEF Series
<1>2. PICK a, b : a = Len(ll["log"]) /\ b = Len(ll["events"])
  OBVIOUS
<1>3. /\ a \in Nat /\ b \in Nat /\ DOMAIN ll["log"] = 1..a /\ DOMAIN ll["events"] = 1..b
      /\ \A i \in 1..a : ll["log"][i] \in Records
      /\ \A i \in 1..b : ll["events"][i] \in Records
  BY <1>1, <1>2, LenProperties, ElementOfSeq
<1>4. Kept(ll, a, b)
  BY <1>1, <1>3, SeriesRecords DEF Kept
<1>5. BuiltUpTo(ll, dd, a, b, d)
  BY <1>2
<1>6. CASE SeriesOf(r) = "log"
  <2>1. mm["log"] = Append(ll["log"], r) /\ mm["events"] = ll["events"]
    BY <1>6 DEF Series
  <2>2. /\ Len(mm["log"]) = a + 1 /\ mm["log"][a + 1] = r
        /\ \A i \in 1..a : mm["log"][i] = ll["log"][i]
    BY <1>1, <1>2, <2>1, AppendProperties
  <2>3. Kept(mm, a, b)
    BY <1>4, <2>1, <2>2 DEF Kept
  <2>4. BuiltUpTo(mm, dd, a, b, d)
    BY <1>3, <1>5, <2>1, <2>2, SameUpTo
  <2>5. r \in ClaimLogRecords /\ <<"log", a + 1>> \notin dd
    BY <1>1, <1>2, <1>6, SeriesRecords
  <2>6. BuiltUpTo(mm, dd, a + 1, b, Effect(d, r))
    BY <1>3, <2>2, <2>3, <2>4, <2>5, LogLine
  <2> QED BY <1>2, <2>1, <2>2, <2>6
<1>7. CASE SeriesOf(r) = "events"
  <2>1. mm["events"] = Append(ll["events"], r) /\ mm["log"] = ll["log"]
    BY <1>7 DEF Series
  <2>2. /\ Len(mm["events"]) = b + 1 /\ mm["events"][b + 1] = r
        /\ \A i \in 1..b : mm["events"][i] = ll["events"][i]
    BY <1>1, <1>2, <2>1, AppendProperties
  <2>3. Kept(mm, a, b)
    BY <1>4, <2>1, <2>2 DEF Kept
  <2>4. BuiltUpTo(mm, dd, a, b, d)
    BY <1>3, <1>5, <2>1, <2>2, SameUpTo
  <2>5. r \in EventLogRecords /\ <<"events", b + 1>> \notin dd
    BY <1>1, <1>2, <1>7, SeriesRecords
  <2>6. BuiltUpTo(mm, dd, a, b + 1, Effect(d, r))
    BY <1>3, <2>2, <2>3, <2>4, <2>5, EventLine
  <2> QED BY <1>2, <2>1, <2>2, <2>6
<1> QED BY <1>6, <1>7, SeriesRecords DEF Series

-----------------------------------------------------------------------------
(* CommittedLogIsDb is not inductive.  A commit makes true of the committed  *)
(* projection what the transaction has kept true of its own: its lines so    *)
(* far give the projection it works on, once the due records are applied.    *)
(* The rename that ends a rebuild makes true what the rebuild has kept true: *)
(* the lines it took and did not refuse give the projection it builds.  And  *)
(* no line is dead that the open transaction may still commit.               *)

Committed(s) == IF writer = NoProc THEN Len(logs[s]) ELSE tx.mark[s]

DeadCommitted ==
  \A s \in Series : /\ Committed(s) <= Len(logs[s])
                    /\ \A i \in Nat : <<s, i>> \in dead => i <= Committed(s)

SettledBuilt == BuiltUpTo(logs, dead, Committed("log"), Committed("events"), db)

WorkBuilt ==
  writer # NoProc =>
    \E due \in Seq(Records) :
      /\ Owes(tx.todo, due)
      /\ Catches(tx.work, due, Live("log", logs["log"], dead, Len(logs["log"])),
                 Live("events", logs["events"], dead, Len(logs["events"])))

EventPart(n) == n - LogPart(n)

RebuildBuilt ==
  rebuild.phase # "none" =>
    /\ rebuild.pos <= Lines
    /\ \A i \in Nat : /\ <<"log", i>> \in rebuild.refused => i <= LogPart(rebuild.pos)
                      /\ <<"events", i>> \in rebuild.refused => i <= EventPart(rebuild.pos)
    /\ BuiltUpTo(logs, rebuild.refused, LogPart(rebuild.pos), EventPart(rebuild.pos), rebuild.db)
    /\ rebuild.phase = "swap" => rebuild.pos = Lines

LiveInv == SeriesKept /\ DeadCommitted /\ SettledBuilt /\ WorkBuilt

ReplayInv == StageInv /\ LiveInv /\ RebuildBuilt

LEMMA ReplayInit == Init => ReplayInv
<1> SUFFICES ASSUME Init PROVE ReplayInv
  OBVIOUS
<1>1. /\ logs["log"] = <<>> /\ logs["events"] = <<>> /\ dead = {} /\ writer = NoProc
      /\ db = EmptyDb /\ rebuild.phase = "none"
      /\ \A s \in Series : logs[s] = <<>>
  BY DEF Init, NoRebuild, Series
<1>2. Len(<<>>) = 0
  OBVIOUS
<1>3. SeriesKept
  BY <1>1 DEF SeriesKept
<1>4. \A s \in Series : Committed(s) = 0
  BY <1>1, <1>2 DEF Committed
<1>5. DeadCommitted
  BY <1>1, <1>2, <1>4 DEF DeadCommitted
<1>6. SettledBuilt
  <2>1. Committed("log") = 0 /\ Committed("events") = 0
    BY <1>4 DEF Series
  <2> QED BY <1>1, <2>1, NothingUpTo DEF SettledBuilt
<1> QED BY <1>1, <1>3, <1>5, <1>6, StageInit DEF ReplayInv, LiveInv, WorkBuilt, RebuildBuilt

\* Steps outside the logs, the committed projection and the transaction.
LEMMA LiveRests ==
  ASSUME LiveInv, logs' = logs, dead' = dead, writer' = writer, db' = db, tx' = tx
  PROVE  LiveInv'
<1>1. \A s : Committed(s)' = Committed(s)
  BY DEF Committed
<1>2. SeriesKept' /\ DeadCommitted'
  BY <1>1 DEF LiveInv, SeriesKept, DeadCommitted
<1>3. SettledBuilt' /\ WorkBuilt'
  BY <1>1 DEF LiveInv, SettledBuilt, WorkBuilt
<1> QED BY <1>2, <1>3 DEF LiveInv

\* What a transaction begins with: nothing is due.
LEMMA BeginsOwe ==
  ASSUME StageInv, NEW p \in Procs, Begins(p)
  PROVE  Owes(tx'.todo, <<>>)
<1>1. PICK op, todo : TakeLock(p, op, todo) /\ Stage(op, db, db, todo)
  BY BeginsStage DEF StageInv
<1>2. tx'.todo = todo
  BY <1>1 DEF TakeLock
<1>3. AppliesLogged(todo, {})
  <2>1. PICK op2, todo2 : TakeLock(p, op2, todo2) /\ \A lines : AppliesLogged(todo2, lines)
    BY BeginsLogged
  <2>2. tx'.todo = todo2
    BY <2>1 DEF TakeLock
  <2> QED BY <1>2, <2>1, <2>2
<1>4. \A a, q : /\ todo # <<ToDb(a)>>
                /\ todo # <<ToDb(a), ToDb(q)>>
                /\ a # q => todo # <<ToLog(q), ToDb(a), ToDb(q)>>
  <2> SUFFICES ASSUME NEW a, NEW q
               PROVE  /\ todo # <<ToDb(a)>>
                      /\ todo # <<ToDb(a), ToDb(q)>>
                      /\ a # q => todo # <<ToLog(q), ToDb(a), ToDb(q)>>
    OBVIOUS
  <2>1. ~AppliesLogged(<<ToDb(a)>>, {})
    BY DEF AppliesLogged, ToDb
  <2>2. ~AppliesLogged(<<ToDb(a), ToDb(q)>>, {})
    BY DEF AppliesLogged, ToDb
  <2>3. ASSUME a # q PROVE ~AppliesLogged(<<ToLog(q), ToDb(a), ToDb(q)>>, {})
    <3> DEFINE three == <<ToLog(q), ToDb(a), ToDb(q)>>
    <3>1. 2 \in DOMAIN three /\ three[1] = ToLog(q) /\ three[2] = ToDb(a)
      OBVIOUS
    <3>2. three[2].do = "apply" /\ three[2].rec = a /\ three[1] # ToLog(a)
      BY <2>3, <3>1, WriteSteps
    <3>3. \A j \in 1..(2 - 1) : j = 1
      OBVIOUS
    <3> HIDE DEF three
    <3>4. ~AppliesLogged(three, {})
      BY <3>1, <3>2, <3>3 DEF AppliesLogged
    <3> QED BY <3>4 DEF three
  <2> QED BY <1>3, <2>1, <2>2, <2>3
<1>5. \A r \in Records : Left(todo, r) => Owes(todo, <<>>)
  BY <1>4 DEF Left, Owes
<1>6. todo = <<>> => Owes(todo, <<>>)
  BY DEF Owes
<1>7. CASE OneRecord(db, db, todo) \/ Merging(db, db, todo)
  BY <1>2, <1>5, <1>6, <1>7 DEF OneRecord, Merging
<1>8. ASSUME NEW S \in SUBSET Ids, Sweeping(db, db, todo, S) PROVE Owes(todo, <<>>)
  <2>1. Superseding(S) \in Records
    BY BuiltRecords DEF Superseding
  <2>2. todo # <<>> => Left(todo, Superseding(S))
    BY <1>8, SweepSteps DEF Sweeping
  <2> QED BY <1>5, <1>6, <2>1, <2>2
<1>9. DuplicateIds(db) \in SUBSET Ids /\ ConflictIds(db) \in SUBSET Ids
  BY SweepIds
<1>10. CASE Promoting(db, db, todo)
  <2>1. PICK a, q \in Records :
          /\ a.kind = "add_claim" /\ q.kind = "promote_candidate_claim"
          /\ \/ todo = <<ToLog(a), ToLog(q), ToDb(a), ToDb(q)>>
             \/ todo = <<ToLog(q), ToDb(a), ToDb(q)>>
             \/ todo = <<ToDb(a), ToDb(q)>>
             \/ todo = <<ToDb(q)>>
             \/ todo = <<>>
    BY <1>10 DEF Promoting
  <2>2. a # q
    BY <2>1
  <2> QED BY <1>2, <1>4, <1>6, <2>1, <2>2 DEF Owes
<1> QED BY <1>1, <1>2, <1>7, <1>8, <1>9, <1>10 DEF Stage

LEMMA BeginsLive ==
  ASSUME StageInv, LiveInv, NEW p \in Procs, Begins(p)
  PROVE  LiveInv'
<1>1. /\ writer = NoProc /\ writer' = p /\ logs' = logs /\ db' = db /\ dead' = dead
      /\ tx'.work = db /\ tx'.mark = [s \in Series |-> Len(logs[s])]
  <2>1. PICK op, todo : TakeLock(p, op, todo)
    BY BeginsLogged
  <2> QED BY <2>1 DEF TakeLock
<1>2. p # NoProc
  BY StoreAssumption DEF NoProc
<1>3. \A s \in Series : Committed(s)' = Committed(s) /\ Committed(s) = Len(logs[s])
  BY <1>1, <1>2 DEF Committed
<1>4. "log" \in Series /\ "events" \in Series
  BY DEF Series
<1>5. SeriesKept' /\ DeadCommitted'
  BY <1>1, <1>3 DEF LiveInv, SeriesKept, DeadCommitted
<1>6. SettledBuilt'
  BY <1>1, <1>3, <1>4 DEF LiveInv, SettledBuilt
<1>7. WorkBuilt'
  <2>1. Owes(tx'.todo, <<>>) /\ <<>> \in Seq(Records)
    BY BeginsOwe
  <2>2. Built(Live("log", logs["log"], dead, Len(logs["log"])),
              Live("events", logs["events"], dead, Len(logs["events"])), db)
    BY <1>3, <1>4 DEF LiveInv, SettledBuilt, BuiltUpTo
  <2>3. Catches(db, <<>>, Live("log", logs["log"], dead, Len(logs["log"])),
                Live("events", logs["events"], dead, Len(logs["events"])))
    BY <2>2, NothingDue
  <2> QED BY <1>1, <2>1, <2>3 DEF WorkBuilt
<1> QED BY <1>5, <1>6, <1>7 DEF LiveInv

\* The next part of a transaction.
LEMMA PartsLive ==
  ASSUME StageInv, LiveInv, NEW p \in Procs, MergeGroup(p) \/ SupersedeConflicts(p)
  PROVE  LiveInv'
<1>1. /\ TypeOK /\ tx \in Transactions /\ tx.work \in Databases
      /\ job[p] \in Jobs /\ writer = p /\ tx.todo = <<>>
      /\ logs' = logs /\ db' = db /\ dead' = dead /\ writer' = writer
  BY DEF StageInv, PairInv, LogInv, TypeInv, TypeOK, Transactions, MergeGroup, SupersedeConflicts
<1>2. p # NoProc
  BY StoreAssumption DEF NoProc
<1>3. tx'.work = tx.work /\ tx'.mark = tx.mark
  BY <1>1 DEF MergeGroup, SupersedeConflicts, Transactions
<1>4. Owes(tx'.todo, <<>>)
  <2>1. CASE MergeGroup(p)
    <3>1. job[p].groups \subseteq Triples \X Ids
      BY <1>1, <2>1, JobTypes DEF MergeGroup
    <3>2. PICK g \in job[p].groups :
            tx' = [tx EXCEPT !.todo = Write(MergeRecord(tx.work, g[1], g[2]))]
      BY <2>1 DEF MergeGroup
    <3>3. MergeRecord(tx.work, g[1], g[2]) \in Records
      BY <1>1, <3>1, <3>2, MergeRecordType
    <3>4. tx'.todo = Write(MergeRecord(tx.work, g[1], g[2]))
      BY <1>1, <3>2 DEF Transactions
    <3> QED BY <3>3, <3>4 DEF Owes
  <2>2. CASE SupersedeConflicts(p)
    <3> DEFINE S == ConflictIds(tx.work)
    <3>1. tx'.todo = Supersede(S)
      BY <1>1, <2>2 DEF SupersedeConflicts, Transactions
    <3>2. S \in SUBSET Ids
      BY SweepIds
    <3> HIDE DEF S
    <3>3. Superseding(S) \in Records
      BY <3>2, BuiltRecords DEF Superseding
    <3> QED BY <3>1, <3>3 DEF Supersede, Superseding, Owes
  <2> QED BY <2>1, <2>2
<1>5. \A s : Committed(s)' = Committed(s)
  BY <1>1, <1>3 DEF Committed
<1>6. SeriesKept' /\ DeadCommitted' /\ SettledBuilt'
  BY <1>1, <1>5 DEF LiveInv, SeriesKept, DeadCommitted, SettledBuilt
<1>7. WorkBuilt'
  <2> DEFINE L == Live("log", logs["log"], dead, Len(logs["log"]))
             E == Live("events", logs["events"], dead, Len(logs["events"]))
  <2>1. PICK due \in Seq(Records) : Owes(tx.todo, due) /\ Catches(tx.work, due, L, E)
    BY <1>1, <1>2 DEF LiveInv, WorkBuilt
  <2>2. due = <<>>
    BY <1>1, <2>1, OwesType
  <2>3. <<>> \in Seq(Records) /\ Catches(tx'.work, <<>>, L, E)
    BY <1>3, <2>1, <2>2
  <2> QED BY <1>1, <1>4, <2>3 DEF WorkBuilt
<1> QED BY <1>6, <1>7 DEF LiveInv

LEMMA AppendLive ==
  ASSUME StageInv, LiveInv, NEW p \in Procs, AppendLine(p)
  PROVE  LiveInv'
<1> DEFINE r == Head(tx.todo).rec
           x == SeriesOf(r)
           L == Live("log", logs["log"], dead, Len(logs["log"]))
           E == Live("events", logs["events"], dead, Len(logs["events"]))
           M == Live("log", logs'["log"], dead, Len(logs'["log"]))
           F == Live("events", logs'["events"], dead, Len(logs'["events"]))
<1>1. /\ TypeOK /\ tx \in Transactions /\ tx.todo \in Seq(Steps) /\ tx.work \in Databases
      /\ logs \in [Series -> Seq(Records)] /\ tx.mark \in [Series -> Nat]
      /\ writer = p /\ tx.todo # <<>> /\ Head(tx.todo).do = "append"
      /\ db' = db /\ dead' = dead /\ writer' = writer
      /\ logs' = [logs EXCEPT ![x] = Append(logs[x], r)]
  BY DEF StageInv, PairInv, LogInv, TypeInv, TypeOK, Transactions, AppendLine
<1>2. tx'.work = tx.work /\ tx'.mark = tx.mark /\ tx'.todo = Tail(tx.todo)
  BY <1>1 DEF AppendLine, Transactions
<1>3. r \in Records /\ x \in Series
  <2>1. Head(tx.todo) \in Steps
    BY <1>1
  <2> QED BY <2>1 DEF Steps, SeriesOf, Series
<1>4. p # NoProc
  BY StoreAssumption DEF NoProc
<1>5. SeriesKept'
  BY <1>1, AppendKeepsSeries DEF LiveInv
<1>6. \A s \in Series : Committed(s)' = Committed(s) /\ Committed(s) = tx.mark[s]
  BY <1>1, <1>2, <1>4 DEF Committed
<1>7. \A s \in Series : /\ Len(logs[s]) \in Nat /\ Len(logs'[s]) \in Nat
                        /\ Len(logs[s]) <= Len(logs'[s])
                        /\ \A i \in 1..Len(logs[s]) : logs'[s][i] = logs[s][i]
  <2> SUFFICES ASSUME NEW s \in Series
               PROVE  /\ Len(logs[s]) \in Nat /\ Len(logs'[s]) \in Nat
                      /\ Len(logs[s]) <= Len(logs'[s])
                      /\ \A i \in 1..Len(logs[s]) : logs'[s][i] = logs[s][i]
    OBVIOUS
  <2> HIDE DEF r, x
  <2>1. logs[s] \in Seq(Records) /\ logs'[s] \in {logs[s], Append(logs[s], r)}
    BY <1>1, <1>3
  <2> QED BY <1>3, <2>1, AppendProperties, LenProperties
<1>8. DeadCommitted'
  <2>1. \A s \in Series : Committed(s) <= Len(logs'[s])
    BY <1>1, <1>6, <1>7 DEF LiveInv, DeadCommitted
  <2> QED BY <1>1, <1>6, <2>1 DEF LiveInv, DeadCommitted
<1>9. SettledBuilt'
  <2>1. PICK a, b : a = Committed("log") /\ b = Committed("events")
    OBVIOUS
  <2>2. /\ a \in Nat /\ b \in Nat /\ a <= Len(logs["log"]) /\ b <= Len(logs["events"])
        /\ a = Committed("log")' /\ b = Committed("events")'
    BY <1>1, <1>6, <2>1 DEF LiveInv, DeadCommitted, Series
  <2>3. /\ \A i \in 1..a : logs'["log"][i] = logs["log"][i]
        /\ \A i \in 1..b : logs'["events"][i] = logs["events"][i]
    <3>1. "log" \in Series /\ "events" \in Series
      BY DEF Series
    <3>2. \A i \in 1..a : i \in 1..Len(logs["log"])
      BY <1>7, <2>2, <3>1
    <3>3. \A i \in 1..b : i \in 1..Len(logs["events"])
      BY <1>7, <2>2, <3>1
    <3> QED BY <1>7, <3>1, <3>2, <3>3
  <2>4. BuiltUpTo(logs, dead, a, b, db)
    BY <2>1 DEF LiveInv, SettledBuilt
  <2>5. BuiltUpTo(logs', dead, a, b, db)
    BY <2>2, <2>3, <2>4, SameUpTo
  <2> QED BY <1>1, <2>2, <2>5 DEF SettledBuilt
<1>10. WorkBuilt'
  <2>1. PICK due \in Seq(Records) : Owes(tx.todo, due) /\ Catches(tx.work, due, L, E)
    BY <1>1, <1>4 DEF LiveInv, WorkBuilt
  <2>2. Owes(tx'.todo, Append(due, r))
    BY <1>1, <1>2, <2>1, OwesAppend
  <2>3. Append(due, r) \in Seq(Records)
    BY <2>2, OwesType
  <2>4. \A s \in Series : <<s, Len(logs[s]) + 1>> \notin dead
    <3> SUFFICES ASSUME NEW s \in Series, <<s, Len(logs[s]) + 1>> \in dead PROVE FALSE
      OBVIOUS
    <3> DEFINE n == Len(logs[s])
    <3>1. n \in Nat /\ n + 1 \in Nat /\ Committed(s) \in Nat
      BY <1>1, <1>6, <1>7
    <3>2. n + 1 <= Committed(s) /\ Committed(s) <= n
      BY <3>1 DEF LiveInv, DeadCommitted
    <3> HIDE DEF n
    <3> QED BY <3>1, <3>2
  <2>5. \A d : Built(L, E, d) /\ Accepts(d, r) => Built(M, F, Effect(d, r))
    <3> SUFFICES ASSUME NEW d, Built(L, E, d), Accepts(d, r) PROVE Built(M, F, Effect(d, r))
      OBVIOUS
    <3>1. BuiltUpTo(logs, dead, Len(logs["log"]), Len(logs["events"]), d)
      BY DEF BuiltUpTo
    <3>2. \A s \in Series : \A i \in DOMAIN logs[s] : SeriesOf(logs[s][i]) = s
      BY DEF LiveInv, SeriesKept
    <3> HIDE DEF r, L, E
    <3>3. BuiltUpTo(logs', dead, Len(logs'["log"]), Len(logs'["events"]), Effect(d, r))
      BY <1>1, <1>3, <2>4, <3>1, <3>2, AppendBuilt DEF x
    <3> QED BY <3>3 DEF BuiltUpTo
  <2> HIDE DEF r, L, E, M, F
  <2>6. Catches(tx.work, Append(due, r), M, F)
    BY <1>1, <1>3, <2>1, <2>5, DueGrows
  <2> QED BY <1>1, <1>2, <2>2, <2>3, <2>6 DEF WorkBuilt, M, F
<1> QED BY <1>5, <1>8, <1>9, <1>10 DEF LiveInv

LEMMA ApplyLive ==
  ASSUME StageInv, LiveInv, NEW p \in Procs, ApplyRecord(p)
  PROVE  LiveInv'
<1> DEFINE r == Head(tx.todo).rec
           L == Live("log", logs["log"], dead, Len(logs["log"]))
           E == Live("events", logs["events"], dead, Len(logs["events"]))
<1>1. /\ TypeOK /\ tx \in Transactions
      /\ writer = p /\ tx.todo # <<>> /\ Head(tx.todo).do = "apply" /\ Accepts(tx.work, r)
      /\ logs' = logs /\ db' = db /\ dead' = dead /\ writer' = writer
  BY DEF StageInv, PairInv, LogInv, TypeInv, TypeOK, Transactions, ApplyRecord
<1>2. tx'.work = Effect(tx.work, r) /\ tx'.mark = tx.mark /\ tx'.todo = Tail(tx.todo)
  BY <1>1 DEF ApplyRecord, Transactions
<1>3. p # NoProc
  BY StoreAssumption DEF NoProc
<1>4. \A s : Committed(s)' = Committed(s)
  BY <1>1, <1>2 DEF Committed
<1>5. SeriesKept' /\ DeadCommitted' /\ SettledBuilt'
  BY <1>1, <1>4 DEF LiveInv, SeriesKept, DeadCommitted, SettledBuilt
<1>6. PICK due \in Seq(Records) : Owes(tx.todo, due) /\ Catches(tx.work, due, L, E)
  BY <1>1, <1>3 DEF LiveInv, WorkBuilt
<1>7. PICK rest \in Seq(Records) : due = <<r>> \o rest /\ Owes(Tail(tx.todo), rest)
  BY <1>1, <1>6, OwesApply
<1>8. r \in Records
  BY <1>1, <1>6, OwesApply
<1>9. Catches(Effect(tx.work, r), rest, L, E)
  <2> HIDE DEF r, L, E
  <2>1. Catches(tx.work, <<r>> \o rest, L, E)
    BY <1>6, <1>7
  <2> QED BY <1>1, <1>8, <2>1, DueShrinks
<1>10. WorkBuilt'
  BY <1>1, <1>2, <1>7, <1>9 DEF WorkBuilt
<1> QED BY <1>5, <1>10 DEF LiveInv

LEMMA CommitLive ==
  ASSUME StageInv, LiveInv, NEW p \in Procs, Commit(p)
  PROVE  LiveInv'
<1> DEFINE L == Live("log", logs["log"], dead, Len(logs["log"]))
           E == Live("events", logs["events"], dead, Len(logs["events"]))
<1>1. /\ TypeOK /\ writer = p /\ tx.todo = <<>> /\ db' = tx.work /\ writer' = NoProc
      /\ logs' = logs /\ dead' = dead /\ tx.mark \in [Series -> Nat]
  BY DEF StageInv, PairInv, LogInv, TypeInv, TypeOK, Commit
<1>2. p # NoProc
  BY StoreAssumption DEF NoProc
<1>3. \A s : Committed(s)' = Len(logs[s])
  BY <1>1 DEF Committed
<1>4. PICK due \in Seq(Records) : Owes(tx.todo, due) /\ Catches(tx.work, due, L, E)
  BY <1>1, <1>2 DEF LiveInv, WorkBuilt
<1>5. Built(L, E, tx.work)
  BY <1>1, <1>4, OwesType, NothingDue
<1>6. SettledBuilt'
  <2>1. BuiltUpTo(logs, dead, Len(logs["log"]), Len(logs["events"]), tx.work)
    BY <1>5 DEF BuiltUpTo
  <2> QED BY <1>1, <1>3, <2>1 DEF SettledBuilt
<1>7. DeadCommitted'
  <2> SUFFICES ASSUME NEW s \in Series
               PROVE  /\ Len(logs[s]) <= Len(logs[s])
                      /\ \A i \in Nat : <<s, i>> \in dead => i <= Len(logs[s])
    BY <1>1, <1>3 DEF DeadCommitted
  <2>1. Len(logs[s]) \in Nat /\ Committed(s) \in Nat /\ Committed(s) <= Len(logs[s])
    BY <1>1, <1>2, LinesType DEF LiveInv, DeadCommitted, Committed
  <2>2. \A i \in Nat : <<s, i>> \in dead => i <= Committed(s)
    BY DEF LiveInv, DeadCommitted
  <2> QED BY <2>1, <2>2
<1>8. SeriesKept' /\ WorkBuilt'
  BY <1>1 DEF LiveInv, SeriesKept, WorkBuilt
<1> QED BY <1>6, <1>7, <1>8 DEF LiveInv

\* The positions of lines.
LEMMA LineFacts ==
  ASSUME TypeOK, NEW s \in Series, NEW i \in Nat
  PROVE  <<s, i>> \in AllLines <=> i \in 1..Len(logs[s])
<1> DEFINE a == Len(logs["log"])
           b == Len(logs["events"])
           n == Len(logs[s])
<1>1. a \in Nat /\ b \in Nat /\ Lines = a + b /\ (n = a \/ n = b)
  BY LinesType DEF Lines, Series
<1>2. <<s, i>> \in AllLines <=> i \in 1..Lines /\ i <= n
  BY DEF AllLines
<1> HIDE DEF a, b, n
<1>3. <<s, i>> \in AllLines <=> i \in 1..n
  BY <1>1, <1>2
<1> QED BY <1>3 DEF n

\* A transaction that is rolled back leaves its lines behind, dead.
LEMMA RollbackLive ==
  ASSUME StageInv, LiveInv, writer # NoProc, Rollback, logs' = logs, db' = db
  PROVE  LiveInv'
<1>1. /\ TypeOK /\ writer' = NoProc /\ dead' = dead \cup Uncommitted
      /\ tx.mark \in [Series -> Nat]
  BY DEF StageInv, PairInv, LogInv, TypeInv, TypeOK, Rollback
<1>2. ASSUME NEW s \in Series
      PROVE  /\ tx.mark[s] \in Nat /\ Len(logs[s]) \in Nat /\ tx.mark[s] <= Len(logs[s])
             /\ \A i \in Nat : <<s, i>> \in Uncommitted
                                 <=> i \in 1..Len(logs[s]) /\ i > tx.mark[s]
             /\ \A i \in Nat : <<s, i>> \in dead => i <= tx.mark[s]
  <2>1. tx.mark[s] \in Nat /\ Len(logs[s]) \in Nat
    BY <1>1, LinesType
  <2>2. /\ tx.mark[s] <= Len(logs[s])
        /\ \A i \in Nat : <<s, i>> \in dead => i <= tx.mark[s]
    BY DEF LiveInv, DeadCommitted, Committed
  <2>3. \A i \in Nat : <<s, i>> \in Uncommitted <=> i \in 1..Len(logs[s]) /\ i > tx.mark[s]
    BY <1>1, LineFacts DEF Uncommitted
  <2> QED BY <2>1, <2>2, <2>3
<1>3. \A s : Committed(s)' = Len(logs[s])
  BY <1>1 DEF Committed
<1>4. DeadCommitted'
  <2> SUFFICES ASSUME NEW s \in Series
               PROVE  /\ Len(logs[s]) <= Len(logs[s])
                      /\ \A i \in Nat : <<s, i>> \in dead' => i <= Len(logs[s])
    BY <1>3 DEF DeadCommitted
  <2> DEFINE n == Len(logs[s])
             m == tx.mark[s]
  <2>1. /\ n \in Nat /\ m \in Nat /\ m <= n
        /\ \A i \in Nat : <<s, i>> \in dead' => i \in 1..n \/ i <= m
    BY <1>1, <1>2
  <2> HIDE DEF n, m
  <2>2. n <= n /\ \A i \in Nat : <<s, i>> \in dead' => i <= n
    BY <2>1
  <2> QED BY <2>2 DEF n
<1>5. ASSUME NEW s \in Series
      PROVE  Live(s, logs[s], dead', Len(logs[s])) = Live(s, logs[s], dead, tx.mark[s])
  <2> DEFINE n == Len(logs[s])
             m == tx.mark[s]
  <2>1. n \in Nat /\ m \in Nat /\ m <= n
    BY <1>2
  <2>2. \A i \in 1..m : <<s, i>> \in dead <=> <<s, i>> \in dead'
    BY <1>1, <1>2
  <2>3. \A i \in (m + 1)..n : <<s, i>> \in dead'
    <3>1. \A i \in (m + 1)..n : i \in Nat /\ i \in 1..n /\ i > m
      BY <2>1
    <3> QED BY <1>1, <1>2, <3>1
  <2> HIDE DEF n, m
  <2>4. Live(s, logs[s], dead', n) = Live(s, logs[s], dead', m)
    BY <2>1, <2>3, LiveDead
  <2>5. Live(s, logs[s], dead', m) = Live(s, logs[s], dead, m)
    BY <2>1, <2>2, LiveSame
  <2> QED BY <2>4, <2>5 DEF n, m
<1>6. SettledBuilt'
  <2>1. "log" \in Series /\ "events" \in Series
    BY DEF Series
  <2>2. BuiltUpTo(logs, dead, tx.mark["log"], tx.mark["events"], db)
    BY DEF LiveInv, SettledBuilt, Committed
  <2>3. BuiltUpTo(logs, dead', Len(logs["log"]), Len(logs["events"]), db)
    BY <1>5, <2>1, <2>2 DEF BuiltUpTo
  <2> QED BY <1>3, <2>3 DEF SettledBuilt
<1>7. SeriesKept' /\ WorkBuilt'
  BY <1>1 DEF LiveInv, SeriesKept, WorkBuilt
<1> QED BY <1>4, <1>6, <1>7 DEF LiveInv

-----------------------------------------------------------------------------
(* Rebuilds. *)

\* No transaction is open while a rebuild runs.
LEMMA NoWriter ==
  ASSUME StageInv, rebuild.phase # "none"
  PROVE  writer = NoProc
BY DEF StageInv, RebuildAlone, PairInv, LogInv, TypeInv, TypeOK, WriterInside

\* Line n + 1 is the next of one series.
LEMMA NextLine ==
  ASSUME TypeOK, NEW n \in Nat, n < Lines
  PROVE  /\ LogPart(n) \in 0..Len(logs["log"]) /\ EventPart(n) \in 0..Len(logs["events"])
         /\ \/ /\ LogPart(n) < Len(logs["log"])
               /\ LogPart(n + 1) = LogPart(n) + 1 /\ EventPart(n + 1) = EventPart(n)
               /\ Position(n + 1) = <<"log", LogPart(n) + 1>>
               /\ LineAt(n + 1) = logs["log"][LogPart(n) + 1]
            \/ /\ EventPart(n) < Len(logs["events"])
               /\ LogPart(n + 1) = LogPart(n) /\ EventPart(n + 1) = EventPart(n) + 1
               /\ Position(n + 1) = <<"events", EventPart(n) + 1>>
               /\ LineAt(n + 1) = logs["events"][EventPart(n) + 1]
<1> DEFINE a == Len(logs["log"])
           b == Len(logs["events"])
           m == n + 1
<1>1. a \in Nat /\ b \in Nat /\ Lines = a + b /\ a = Len(logs["log"]) /\ m = n + 1
  BY LinesType DEF Lines, Series
<1>2. /\ LogPart(n) = IF n <= a THEN n ELSE a
      /\ LogPart(m) = IF m <= a THEN m ELSE a
      /\ EventPart(n) = n - LogPart(n) /\ EventPart(m) = m - LogPart(m)
  BY DEF LogPart, EventPart
<1>3. \A s, i : Position(m) = <<s, i>> => LineAt(m) = logs[s][i]
  BY DEF LineAt
<1> HIDE DEF a, b, m
<1>4. LogPart(n) \in 0..a /\ EventPart(n) \in 0..b
  BY <1>1, <1>2
<1>5. CASE m <= a
  <2>1. /\ LogPart(n) = n /\ LogPart(m) = m /\ EventPart(n) = 0 /\ EventPart(m) = 0
        /\ LogPart(n) < a /\ LogPart(n) + 1 = m
    BY <1>1, <1>2, <1>5
  <2>2. Position(m) = <<"log", m>>
    BY <1>1, <1>5, PositionFacts, Zenon
  <2> QED BY <1>1, <1>3, <1>4, <2>1, <2>2 DEF a, b, m
<1>6. CASE ~(m <= a)
  <2>1. /\ LogPart(n) = a /\ LogPart(m) = a /\ EventPart(n) < b
        /\ EventPart(m) = EventPart(n) + 1 /\ EventPart(n) + 1 = m - a
    <3>1. n < a + b /\ (n <= a => n = a)
      BY <1>1, <1>6
    <3>2. LogPart(n) = a /\ LogPart(m) = a
      BY <1>2, <1>6, <3>1
    <3>3. EventPart(n) = n - a /\ EventPart(m) = m - a
      BY <1>2, <3>2
    <3>4. n - a < b /\ m - a = (n - a) + 1
      BY <1>1, <3>1
    <3> QED BY <3>2, <3>3, <3>4
  <2>2. Position(m) = <<"events", m - a>>
    BY <1>1, <1>6, PositionFacts, Zenon
  <2>3. Position(m) = <<"events", EventPart(n) + 1>>
    BY <2>1, <2>2
  <2> QED BY <1>1, <1>3, <1>4, <2>1, <2>3 DEF a, b, m
<1> QED BY <1>5, <1>6

\* A rebuild has taken lines of the kinds their series have.
LEMMA TakenKept ==
  ASSUME TypeOK, SeriesKept, NEW a \in 0..Len(logs["log"]), NEW b \in 0..Len(logs["events"])
  PROVE  Kept(logs, a, b)
<1>1. logs["log"] \in Seq(Records) /\ logs["events"] \in Seq(Records)
  BY DEF TypeOK, Series
<1>2. /\ \A i \in 1..a : i \in 1..Len(logs["log"])
      /\ \A i \in 1..b : i \in 1..Len(logs["events"])
  BY <1>1, LenProperties
<1>3. /\ \A i \in 1..Len(logs["log"]) :
           logs["log"][i] \in Records /\ SeriesOf(logs["log"][i]) = "log"
      /\ \A i \in 1..Len(logs["events"]) :
           logs["events"][i] \in Records /\ SeriesOf(logs["events"][i]) = "events"
  BY <1>1, LenProperties, ElementOfSeq DEF SeriesKept, Series
<1> QED BY <1>2, <1>3, SeriesRecords DEF Kept

\* Positions of lines are equal only for the same line of the same series.
LEMMA PositionsDiffer ==
  /\ \A i, k : <<"log", i>> = <<"log", k>> => i = k
  /\ \A i, k : <<"events", i>> = <<"events", k>> => i = k
  /\ \A i, k : <<"log", i>> # <<"events", k>>
OBVIOUS

\* One more refused line bounds the refused lines of its series only.
LEMMA RefusedBelow ==
  ASSUME NEW refused, NEW more, NEW a \in Nat, NEW b \in Nat,
         \A i \in Nat : /\ <<"log", i>> \in refused => i <= a
                        /\ <<"events", i>> \in refused => i <= b
  PROVE  /\ more = refused \/ more = refused \cup {<<"log", a + 1>>}
              => \A i \in Nat : /\ <<"log", i>> \in more => i <= a + 1
                                /\ <<"events", i>> \in more => i <= b
         /\ more = refused \/ more = refused \cup {<<"events", b + 1>>}
              => \A i \in Nat : /\ <<"log", i>> \in more => i <= a
                                /\ <<"events", i>> \in more => i <= b + 1
<1> DEFINE k == a + 1
           l == b + 1
<1>1. \A i \in Nat : (i <= a \/ i = k => i <= k) /\ (i <= b \/ i = l => i <= l)
  OBVIOUS
<1> HIDE DEF k, l
<1>2. /\ more = refused \/ more = refused \cup {<<"log", k>>}
           => \A i \in Nat : /\ <<"log", i>> \in more => i <= k
                             /\ <<"events", i>> \in more => i <= b
      /\ more = refused \/ more = refused \cup {<<"events", l>>}
           => \A i \in Nat : /\ <<"log", i>> \in more => i <= a
                             /\ <<"events", i>> \in more => i <= l
  BY <1>1, PositionsDiffer
<1> QED BY <1>2 DEF k, l

\* One line taken by a rebuild, or refused.
LEMMA RebuildLine ==
  ASSUME NEW ll, NEW refused, NEW more, NEW a \in Nat, NEW b \in Nat, NEW d,
         Kept(ll, a, b), BuiltUpTo(ll, refused, a, b, d),
         \A i \in Nat : /\ <<"log", i>> \in refused => i <= a
                        /\ <<"events", i>> \in refused => i <= b,
         more = refused \cup {<<"log", a + 1>>} \/ more = refused \cup {<<"events", b + 1>>}
  PROVE  /\ ll["log"][a + 1] \in ClaimLogRecords /\ Accepts(d, ll["log"][a + 1])
              => BuiltUpTo(ll, refused, a + 1, b, Effect(d, ll["log"][a + 1]))
         /\ ll["events"][b + 1] \in EventLogRecords /\ Accepts(d, ll["events"][b + 1])
              => BuiltUpTo(ll, refused, a, b + 1, Effect(d, ll["events"][b + 1]))
         /\ <<"log", a + 1>> \in more => BuiltUpTo(ll, more, a + 1, b, d)
         /\ <<"events", b + 1>> \in more => BuiltUpTo(ll, more, a, b + 1, d)
<1>1. a + 1 \in Nat /\ b + 1 \in Nat /\ ~(a + 1 <= a) /\ ~(b + 1 <= b)
  OBVIOUS
<1>2. <<"log", a + 1>> \notin refused /\ <<"events", b + 1>> \notin refused
  BY <1>1
<1>3. BuiltUpTo(ll, more, a, b, d)
  <2> DEFINE k == a + 1
             l == b + 1
  <2>1. \A i \in 1..a : <<"log", i>> \in refused <=> <<"log", i>> \in more
    <3>1. \A i \in 1..a : i # k
      OBVIOUS
    <3>2. more = refused \cup {<<"log", k>>} \/ more = refused \cup {<<"events", l>>}
      OBVIOUS
    <3> HIDE DEF k, l
    <3> QED BY <3>1, <3>2, PositionsDiffer
  <2>2. \A i \in 1..b : <<"events", i>> \in refused <=> <<"events", i>> \in more
    <3>1. \A i \in 1..b : i # l
      OBVIOUS
    <3>2. more = refused \cup {<<"log", k>>} \/ more = refused \cup {<<"events", l>>}
      OBVIOUS
    <3> HIDE DEF k, l
    <3> QED BY <3>1, <3>2, PositionsDiffer
  <2> QED BY <2>1, <2>2, SameUpTo
<1> QED BY <1>2, <1>3, LogLine, EventLine

LEMMA RebuildBuiltNext ==
  ASSUME StageInv, LiveInv, RebuildBuilt, [Next]_vars
  PROVE  RebuildBuilt'
<1>1. /\ TypeInv /\ TypeOK /\ SeriesKept /\ rebuild \in Rebuilds
      /\ rebuild.pos \in Nat /\ Lines \in Nat
  BY LinesType DEF StageInv, PairInv, LogInv, TypeInv, TypeOK, LiveInv, Rebuilds
<1>2. CASE rebuild'.phase = "none"
  BY <1>2 DEF RebuildBuilt
<1>3. CASE rebuild'.phase # "none"
  <2>1. logs' = logs
    <3>1. CASE rebuild.phase # "none"
      BY <3>1, LogsRest
    <3>2. CASE RebuildStart
      BY <3>2 DEF RebuildStart
    <3> QED
      BY <1>1, <1>3, <3>1, <3>2, RebuildSteps DEF RebuildApply, RebuildRefuse, RebuildRemove
  <2>2. Lines' = Lines /\ \A n : LogPart(n)' = LogPart(n) /\ EventPart(n)' = EventPart(n)
    BY <2>1 DEF Lines, LogPart, EventPart
  <2>3. CASE rebuild' = rebuild
    BY <2>1, <2>2, <2>3 DEF RebuildBuilt
  <2>4. CASE RebuildStart /\ rebuild'.pos = 0 /\ rebuild'.db = EmptyDb /\ rebuild'.phase = "lines"
    <3>1. rebuild'.refused = {}
      BY <2>4 DEF RebuildStart, NoRebuild
    <3>2. LogPart(0) = 0 /\ EventPart(0) = 0
      <4> DEFINE a == Len(logs["log"])
      <4>1. a \in Nat /\ 0 <= a
        BY <1>1, LinesType DEF Series
      <4>2. LogPart(0) = IF 0 <= a THEN 0 ELSE a
        BY DEF LogPart
      <4>3. EventPart(0) = 0 - LogPart(0)
        BY DEF EventPart
      <4> HIDE DEF a
      <4>4. LogPart(0) = 0
        BY <4>1, <4>2
      <4> QED BY <4>3, <4>4
    <3> QED BY <1>1, <2>1, <2>2, <2>4, <3>1, <3>2, NothingUpTo DEF RebuildBuilt
  <2>5. CASE \/ RebuildApply /\ rebuild'.db = Effect(rebuild.db, LineAt(rebuild.pos + 1))
             \/ RebuildRefuse /\ rebuild'.db = rebuild.db
    <3> DEFINE n == rebuild.pos
               a == LogPart(n)
               b == EventPart(n)
               r == LineAt(n + 1)
    <3>0. \/ RebuildApply /\ rebuild'.db = Effect(rebuild.db, r)
          \/ RebuildRefuse /\ rebuild'.db = rebuild.db
      BY <2>5
    <3>1. /\ rebuild.phase = "lines" /\ n < Lines
          /\ rebuild'.phase = "lines" /\ rebuild'.pos = n + 1
          /\ RebuildApply => rebuild'.refused = rebuild.refused /\ Accepts(rebuild.db, r)
          /\ RebuildRefuse => rebuild'.refused = rebuild.refused \cup {Position(n + 1)}
      <4>1. NoRebuild.phase = "none"
        BY DEF NoRebuild
      <4> QED BY <1>1, <1>3, <2>5, <4>1 DEF RebuildApply, RebuildRefuse, Rebuilds
    <3>2. /\ a \in 0..Len(logs["log"]) /\ b \in 0..Len(logs["events"])
          /\ \/ /\ a < Len(logs["log"])
                /\ LogPart(n + 1) = a + 1 /\ EventPart(n + 1) = b
                /\ Position(n + 1) = <<"log", a + 1>> /\ r = logs["log"][a + 1]
             \/ /\ b < Len(logs["events"])
                /\ LogPart(n + 1) = a /\ EventPart(n + 1) = b + 1
                /\ Position(n + 1) = <<"events", b + 1>> /\ r = logs["events"][b + 1]
      BY <1>1, <3>1, NextLine
    <3>3. /\ BuiltUpTo(logs, rebuild.refused, a, b, rebuild.db)
          /\ \A i \in Nat : /\ <<"log", i>> \in rebuild.refused => i <= a
                            /\ <<"events", i>> \in rebuild.refused => i <= b
      BY <3>1 DEF RebuildBuilt
    <3>4. Kept(logs, a, b)
      BY <1>1, <3>2, TakenKept
    <3>5. n + 1 <= Lines
      BY <1>1, <3>1
    <3>6. a \in Nat /\ b \in Nat
      BY <3>2
    <3>7. r \in Records
      BY <1>1, <3>1, LineAtType
    <3> HIDE DEF n, a, b, r
    <3>8. CASE /\ a < Len(logs["log"])
               /\ LogPart(n + 1) = a + 1 /\ EventPart(n + 1) = b
               /\ Position(n + 1) = <<"log", a + 1>> /\ r = logs["log"][a + 1]
      <4>1. r \in ClaimLogRecords
        <5>1. a + 1 \in 1..Len(logs["log"]) /\ logs["log"] \in Seq(Records)
          BY <1>1, <3>6, <3>8, LinesType DEF TypeOK, Series
        <5>2. SeriesOf(r) = "log"
          BY <1>1, <3>8, <5>1 DEF SeriesKept, Series
        <5> QED BY <3>7, <5>2, SeriesRecords
      <4>2. BuiltUpTo(logs, rebuild'.refused, a + 1, b, rebuild'.db)
        <5>1. CASE RebuildApply /\ rebuild'.db = Effect(rebuild.db, r)
          <6> DEFINE more == rebuild.refused \cup {<<"log", a + 1>>}
          <6>1. logs["log"][a + 1] \in ClaimLogRecords /\ Accepts(rebuild.db, logs["log"][a + 1])
            BY <3>1, <3>8, <4>1, <5>1
          <6>2. BuiltUpTo(logs, rebuild.refused, a + 1, b, Effect(rebuild.db, logs["log"][a + 1]))
            BY <3>3, <3>4, <3>6, <6>1, RebuildLine
          <6> QED BY <3>1, <3>8, <5>1, <6>2
        <5>2. CASE RebuildRefuse /\ rebuild'.db = rebuild.db
          <6> DEFINE more == rebuild.refused \cup {<<"log", a + 1>>}
          <6>1. rebuild'.refused = more
            BY <3>1, <3>8, <5>2
          <6>2. <<"log", a + 1>> \in more
            OBVIOUS
          <6>3. BuiltUpTo(logs, more, a + 1, b, rebuild.db)
            BY <3>3, <3>4, <3>6, <6>2, RebuildLine
          <6> QED BY <5>2, <6>1, <6>3
        <5> QED BY <3>0, <5>1, <5>2
      <4>3. \A i \in Nat : /\ <<"log", i>> \in rebuild'.refused => i <= a + 1
                           /\ <<"events", i>> \in rebuild'.refused => i <= b
        <5> DEFINE was == rebuild.refused
                   more == rebuild'.refused
        <5>1. more = was \/ more = was \cup {<<"log", a + 1>>}
          BY <3>0, <3>1, <3>8
        <5>2. \A i \in Nat : /\ <<"log", i>> \in was => i <= a
                             /\ <<"events", i>> \in was => i <= b
          BY <3>3
        <5> HIDE DEF was, more
        <5>3. \A i \in Nat : /\ <<"log", i>> \in more => i <= a + 1
                             /\ <<"events", i>> \in more => i <= b
          BY <3>6, <5>1, <5>2, RefusedBelow
        <5> QED BY <5>3 DEF more
      <4> QED BY <2>1, <2>2, <3>1, <3>5, <3>8, <4>2, <4>3 DEF RebuildBuilt
    <3>9. CASE /\ b < Len(logs["events"])
               /\ LogPart(n + 1) = a /\ EventPart(n + 1) = b + 1
               /\ Position(n + 1) = <<"events", b + 1>> /\ r = logs["events"][b + 1]
      <4>1. r \in EventLogRecords
        <5>1. b + 1 \in 1..Len(logs["events"]) /\ logs["events"] \in Seq(Records)
          BY <1>1, <3>6, <3>9, LinesType DEF TypeOK, Series
        <5>2. SeriesOf(r) = "events"
          BY <1>1, <3>9, <5>1 DEF SeriesKept, Series
        <5> QED BY <3>7, <5>2, SeriesRecords
      <4>2. BuiltUpTo(logs, rebuild'.refused, a, b + 1, rebuild'.db)
        <5>1. CASE RebuildApply /\ rebuild'.db = Effect(rebuild.db, r)
          <6> DEFINE more == rebuild.refused \cup {<<"events", b + 1>>}
          <6>1. logs["events"][b + 1] \in EventLogRecords /\ Accepts(rebuild.db, logs["events"][b + 1])
            BY <3>1, <3>9, <4>1, <5>1
          <6>2. BuiltUpTo(logs, rebuild.refused, a, b + 1, Effect(rebuild.db, logs["events"][b + 1]))
            BY <3>3, <3>4, <3>6, <6>1, RebuildLine
          <6> QED BY <3>1, <3>9, <5>1, <6>2
        <5>2. CASE RebuildRefuse /\ rebuild'.db = rebuild.db
          <6> DEFINE more == rebuild.refused \cup {<<"events", b + 1>>}
          <6>1. rebuild'.refused = more
            BY <3>1, <3>9, <5>2
          <6>2. <<"events", b + 1>> \in more
            OBVIOUS
          <6>3. BuiltUpTo(logs, more, a, b + 1, rebuild.db)
            BY <3>3, <3>4, <3>6, <6>2, RebuildLine
          <6> QED BY <5>2, <6>1, <6>3
        <5> QED BY <3>0, <5>1, <5>2
      <4>3. \A i \in Nat : /\ <<"log", i>> \in rebuild'.refused => i <= a
                           /\ <<"events", i>> \in rebuild'.refused => i <= b + 1
        <5> DEFINE was == rebuild.refused
                   more == rebuild'.refused
        <5>1. more = was \/ more = was \cup {<<"events", b + 1>>}
          BY <3>0, <3>1, <3>9
        <5>2. \A i \in Nat : /\ <<"log", i>> \in was => i <= a
                             /\ <<"events", i>> \in was => i <= b
          BY <3>3
        <5> HIDE DEF was, more
        <5>3. \A i \in Nat : /\ <<"log", i>> \in more => i <= a
                             /\ <<"events", i>> \in more => i <= b + 1
          BY <3>6, <5>1, <5>2, RefusedBelow
        <5> QED BY <5>3 DEF more
      <4> QED BY <2>1, <2>2, <3>1, <3>5, <3>9, <4>2, <4>3 DEF RebuildBuilt
    <3> QED BY <3>2, <3>8, <3>9
  <2>6. CASE /\ RebuildRemove /\ rebuild'.phase = "swap"
             /\ rebuild'.pos = rebuild.pos /\ rebuild'.db = rebuild.db
    <3>1. rebuild.phase = "lines" /\ rebuild.pos = Lines /\ rebuild'.refused = rebuild.refused
      BY <1>1, <2>6 DEF RebuildRemove, Rebuilds
    <3> QED BY <1>1, <2>1, <2>2, <2>6, <3>1 DEF RebuildBuilt
  <2> QED BY <1>1, <1>3, <2>3, <2>4, <2>5, <2>6, RebuildSteps
<1> QED BY <1>2, <1>3

\* While the database is removed and not yet replaced, every line is dead.
LEMMA RemoveLive ==
  ASSUME StageInv, LiveInv, RebuildRemove
  PROVE  LiveInv'
<1>1. /\ TypeOK /\ writer = NoProc /\ writer' = NoProc /\ logs' = logs
      /\ db' = EmptyDb /\ dead' = AllLines
  BY NoWriter DEF StageInv, PairInv, LogInv, TypeInv, RebuildRemove
<1>2. \A s : Committed(s)' = Len(logs[s])
  BY <1>1 DEF Committed
<1>3. ASSUME NEW s \in Series
      PROVE  /\ Len(logs[s]) \in Nat
             /\ \A i \in Nat : <<s, i>> \in dead' <=> i \in 1..Len(logs[s])
             /\ Live(s, logs[s], dead', Len(logs[s])) = <<>>
  <2> DEFINE n == Len(logs[s])
  <2>1. n \in Nat /\ \A i \in Nat : <<s, i>> \in dead' <=> i \in 1..n
    BY <1>1, LinesType, LineFacts
  <2>2. \A i \in (0 + 1)..n : <<s, i>> \in dead'
    <3>1. \A i \in (0 + 1)..n : i \in Nat /\ i \in 1..n
      BY <2>1
    <3> QED BY <2>1, <3>1
  <2> HIDE DEF n
  <2>3. 0 \in Nat /\ 0 <= n
    BY <2>1
  <2>4. Live(s, logs[s], dead', n) = Live(s, logs[s], dead', 0)
    BY <2>1, <2>2, <2>3, LiveDead
  <2> QED BY <2>1, <2>4, LiveNone DEF n
<1>4. DeadCommitted'
  <2> SUFFICES ASSUME NEW s \in Series
               PROVE  /\ Len(logs[s]) <= Len(logs[s])
                      /\ \A i \in Nat : <<s, i>> \in dead' => i <= Len(logs[s])
    BY <1>1, <1>2 DEF DeadCommitted
  <2> QED BY <1>3
<1>5. SettledBuilt'
  <2>1. "log" \in Series /\ "events" \in Series
    BY DEF Series
  <2>2. BuiltUpTo(logs, dead', Len(logs["log"]), Len(logs["events"]), EmptyDb)
    BY <1>3, <2>1, NothingBuilt DEF BuiltUpTo
  <2> QED BY <1>1, <1>2, <2>2 DEF SettledBuilt
<1>6. SeriesKept' /\ WorkBuilt'
  BY <1>1 DEF LiveInv, SeriesKept, WorkBuilt
<1> QED BY <1>4, <1>5, <1>6 DEF LiveInv

\* The rebuilt projection replaces the removed one, and the refused lines are
\* the dead ones.
LEMMA RenameLive ==
  ASSUME StageInv, LiveInv, RebuildBuilt, RebuildRename
  PROVE  LiveInv'
<1>1. /\ TypeOK /\ writer = NoProc /\ writer' = NoProc /\ logs' = logs
      /\ db' = rebuild.db /\ dead' = rebuild.refused
      /\ rebuild.phase = "swap" /\ rebuild.pos = Lines
  BY NoWriter DEF StageInv, PairInv, LogInv, TypeInv, RebuildRename, RebuildBuilt
<1>2. \A s : Committed(s)' = Len(logs[s])
  BY <1>1 DEF Committed
<1>3. LogPart(Lines) = Len(logs["log"]) /\ EventPart(Lines) = Len(logs["events"])
  <2> DEFINE a == Len(logs["log"])
             b == Len(logs["events"])
  <2>1. a \in Nat /\ b \in Nat /\ Lines = a + b /\ LogPart(Lines) = a
    BY <1>1, LinesType, WholeLogPart DEF Lines, Series
  <2>2. EventPart(Lines) = Lines - LogPart(Lines)
    BY DEF EventPart
  <2> HIDE DEF a, b
  <2>3. EventPart(Lines) = b
    BY <2>1, <2>2
  <2> QED BY <2>1, <2>3 DEF a, b
<1>4. /\ BuiltUpTo(logs, rebuild.refused, Len(logs["log"]), Len(logs["events"]), rebuild.db)
      /\ \A i \in Nat : /\ <<"log", i>> \in rebuild.refused => i <= Len(logs["log"])
                        /\ <<"events", i>> \in rebuild.refused => i <= Len(logs["events"])
  BY <1>1, <1>3 DEF RebuildBuilt
<1>5. SettledBuilt'
  BY <1>1, <1>2, <1>4 DEF SettledBuilt
<1>6. DeadCommitted'
  <2> SUFFICES ASSUME NEW s \in Series
               PROVE  /\ Len(logs[s]) <= Len(logs[s])
                      /\ \A i \in Nat : <<s, i>> \in dead' => i <= Len(logs[s])
    BY <1>1, <1>2 DEF DeadCommitted
  <2>1. Len(logs[s]) \in Nat /\ Len(logs[s]) <= Len(logs[s])
    BY <1>1, LinesType
  <2>2. CASE s = "log"
    BY <1>1, <1>4, <2>1, <2>2
  <2>3. CASE s = "events"
    BY <1>1, <1>4, <2>1, <2>3
  <2> QED BY <2>2, <2>3 DEF Series
<1>7. SeriesKept' /\ WorkBuilt'
  BY <1>1 DEF LiveInv, SeriesKept, WorkBuilt
<1> QED BY <1>5, <1>6, <1>7 DEF LiveInv

LEMMA ReplayNext == ReplayInv /\ [Next]_vars => ReplayInv'
<1> SUFFICES ASSUME ReplayInv, [Next]_vars PROVE ReplayInv'
  OBVIOUS
<1>1. StageInv /\ LiveInv /\ RebuildBuilt /\ TypeOK
  BY DEF ReplayInv, StageInv, PairInv, LogInv, TypeInv
<1>2. StageInv' /\ RebuildBuilt'
  BY <1>1, StageNext, RebuildBuiltNext
<1>3. SUFFICES LiveInv'
  BY <1>2, <1>3 DEF ReplayInv
<1>4. ASSUME NEW p \in Procs, Calls(p) PROVE LiveInv'
  <2>1. \E j : Call(p, j)
    BY <1>1, <1>4, CallsType
  <2> QED BY <1>1, <2>1, LiveRests DEF Call
<1>5. ASSUME NEW p \in Procs, Begins(p) PROVE LiveInv'
  BY <1>1, <1>5, BeginsLive
<1>6. ASSUME NEW p \in Procs, writer = p PROVE writer # NoProc
  BY <1>6, StoreAssumption DEF NoProc
<1>7. ASSUME NEW p \in Procs, Works(p) PROVE LiveInv'
  <2>1. CASE StepFails(p)
    BY <1>1, <1>6, <2>1, RollbackLive DEF StepFails
  <2> QED BY <1>1, <1>7, <2>1, PartsLive, AppendLive, ApplyLive, CommitLive DEF Works
<1>8. ASSUME NEW p \in Procs, BusyTimeout(p) \/ Open(p) \/ Close(p) PROVE LiveInv'
  BY <1>1, <1>8, LiveRests DEF BusyTimeout, Open, Close
<1>9. ASSUME NEW p \in Procs, Crash(p) PROVE LiveInv'
  <2>1. CASE writer = p
    BY <1>1, <1>6, <1>9, <2>1, RollbackLive DEF Crash
  <2>2. CASE writer # p
    BY <1>1, <1>9, <2>2, LiveRests DEF Crash
  <2> QED BY <2>1, <2>2
<1>10. CASE RebuildStart \/ RebuildApply \/ RebuildRefuse \/ RebuildCrash
  BY <1>1, <1>10, LiveRests DEF RebuildStart, RebuildApply, RebuildRefuse, RebuildCrash
<1>11. CASE Tick \/ UNCHANGED vars
  BY <1>1, <1>11, LiveRests DEF Tick, vars
<1> QED
  BY <1>1, <1>4, <1>5, <1>7, <1>8, <1>9, <1>10, <1>11, RemoveLive, RenameLive
     DEF Next, Rebuilding

\* Replaying the committed lines, series by series, gives the committed
\* projection and refuses none of them, whatever processes, crashes, failed
\* appends and rebuilds, strict or lenient, did before.
THEOREM ReplayGivesProjection == Spec => []CommittedLogIsDb
<1>1. ReplayInv => CommittedLogIsDb
  <2> SUFFICES ASSUME ReplayInv PROVE CommittedLogIsDb
    OBVIOUS
  <2>1. /\ TypeOK /\ SeriesKept /\ DeadCommitted /\ SettledBuilt
        /\ tx.mark \in [Series -> Nat]
    BY DEF ReplayInv, LiveInv, StageInv, PairInv, LogInv, TypeInv, TypeOK
  <2> DEFINE a == Committed("log")
             b == Committed("events")
             L == Live("log", logs["log"], dead, a)
             E == Live("events", logs["events"], dead, b)
  <2>2. Surviving("log") = L /\ Surviving("events") = E
    BY DEF Surviving, Live, Entries, Committed
  <2>3. a \in 0..Len(logs["log"]) /\ b \in 0..Len(logs["events"])
    <3>1. \A s \in Series : Committed(s) \in Nat /\ Len(logs[s]) \in Nat
      BY <2>1, LinesType DEF Committed
    <3> QED BY <2>1, <3>1 DEF DeadCommitted, Series
  <2>4. Kept(logs, a, b)
    BY <2>1, <2>3, TakenKept
  <2>5. L \in Seq(Records) /\ E \in Seq(Records)
    <3>1. a \in Nat /\ b \in Nat
      <4> DEFINE k == Len(logs["log"])
                 l == Len(logs["events"])
      <4>1. k \in Nat /\ l \in Nat /\ a \in 0..k /\ b \in 0..l
        BY <2>1, <2>3, LinesType DEF Series
      <4> HIDE DEF a, b, k, l
      <4> QED BY <4>1
    <3> HIDE DEF a, b
    <3> QED BY <2>4, <3>1, KeptTypes
  <2>6. Built(L, E, db)
    BY <2>1 DEF SettledBuilt, BuiltUpTo
  <2> HIDE DEF L, E
  <2>7. Replay(L \o E) = [db |-> db, refused |-> {}]
    BY <2>5, <2>6, ReplayBoth DEF Built
  <2> QED BY <2>2, <2>7 DEF CommittedLogIsDb
<1> QED BY <1>1, ReplayInit, ReplayNext, PTL DEF Spec
=============================================================================
