---------------------------- MODULE MemoryStore ----------------------------
(***************************************************************************)
(* The write path of aver-core: processes that share one memory directory, *)
(* each with a Store (store.rs) on the same db.sqlite and the same JSONL   *)
(* logs.  A write reads what it needs, takes SQLite's write lock with BEGIN*)
(* IMMEDIATE, appends its records to the logs, applies them to the         *)
(* projection and commits (claims.rs, candidates.rs, episodic.rs).         *)
(* Processes and disk appends fail at any step; the logs are never undone. *)
(* `aver replay` (replay.rs) rebuilds the projection from the logs.  It is *)
(* an offline command here: no Store is open while it runs.                *)
(***************************************************************************)
EXTENDS Projection

CONSTANTS
  Procs,       \* processes that open the memory directory
  Ops,         \* the operations the clients call
  Faults,      \* subset of {"crash", "append_fails"}
  ReplayModes, \* subset of {"strict", "lenient"}
  MaxClock,    \* bound on the wall clock
  MaxEvents,   \* no event is recorded when this many are stored
  MintSpread,  \* how far out of order concurrent stores mint ids
  MaxLines     \* no write transaction begins with this many lines logged

Operations == {"add_claim", "contradict", "retire", "consolidate", "decay",
               "record_event", "propose", "promote", "reject"}

ASSUME StoreAssumption ==
  /\ "none" \notin Procs
  /\ MaxClock \in Nat \ {0}
  /\ MaxLines \in Nat
  /\ MaxEvents \in Nat
  /\ MintSpread \in Nat \ {0}
  /\ Ops \subseteq Operations
  /\ ReplayModes \subseteq {"strict", "lenient"}

VARIABLES
  clock,    \* the wall clock, in the seconds records are stamped with
  logs,     \* the lines of log.jsonl and events.jsonl
  db,       \* db.sqlite, as committed
  writer,   \* the process inside BEGIN IMMEDIATE, or NoProc
  tx,       \* the steps that transaction still has to do, and its view of db
  pc,       \* where each process is in its call
  job,      \* the arguments and earlier reads of that call
  lastId,   \* IdGen::last of each open store
  rebuild,  \* the state of a running replay
  dead      \* history: lines whose transaction never committed

vars == <<clock, logs, db, writer, tx, pc, job, lastId, rebuild, dead>>

NoProc == "none"
NoJob == [op |-> "none"]
NoTx == [todo |-> <<>>, work |-> EmptyDb, mark |-> [s \in Series |-> 0]]
NoRebuild == [phase |-> "none", mode |-> "strict", pos |-> 0, db |-> EmptyDb, refused |-> {}]

\* What a transaction does, in order: append a record, apply a record.
Steps == [do : {"append", "apply"}, rec : Records]
ToLog(r) == [do |-> "append", rec |-> r]
ToDb(r) == [do |-> "apply", rec |-> r]

\* Mutant: the projection is written first.
WriteAppliesFirst(r) == <<ToDb(r), ToLog(r)>>

\* Every write logs its record strictly before applying it (ADR-0005).
Write(r) == <<ToLog(r), ToDb(r)>>

Jobs ==
  {NoJob}
  \cup [op : {"add_claim"}, triple : Triples, source : Sources, ts : Nat,
        contradicts : Ids \cup {NoId}]
  \cup [op : {"contradict"}, claim : Ids, new : Ids \cup {NoId}]
  \cup [op : {"retire"}, claim : Ids, reason : Reasons, ts : Nat]
  \cup [op : {"merge"}, groups : SUBSET (Triples \X Ids)]
  \cup [op : {"decay"}, alone : BOOLEAN]
  \cup [op : {"duplicates", "conflicts", "record_event"}]
  \cup [op : {"propose"}, event : Ids, triple : Triples]
  \cup [op : {"promote"}, cand : Ids, event : Ids, triple : Triples, ts : Nat]
  \cup [op : {"reject"}, cand : Ids, reason : Reasons]

Rebuilds ==
  [phase : {"none", "lines", "swap"}, mode : {"strict", "lenient"}, pos : Nat,
   db : Databases, refused : SUBSET (Series \X Nat)]

TypeOK ==
  /\ clock \in Nat
  /\ logs \in [Series -> Seq(Records)]
  /\ db \in Databases
  /\ writer \in Procs \cup {NoProc}
  /\ tx \in [todo : Seq(Steps), work : Databases, mark : [Series -> Nat]]
  /\ pc \in [Procs -> {"closed", "idle", "ready", "tx"}]
  /\ job \in [Procs -> Jobs]
  /\ lastId \in [Procs -> Nat]
  /\ rebuild \in Rebuilds
  /\ dead \subseteq Series \X Nat

Init ==
  /\ clock = 1
  /\ logs = [s \in Series |-> <<>>]
  /\ db = EmptyDb
  /\ writer = NoProc
  /\ tx = NoTx
  /\ pc = [p \in Procs |-> "closed"]
  /\ job = [p \in Procs |-> NoJob]
  /\ lastId = [p \in Procs |-> 0]
  /\ rebuild = NoRebuild
  /\ dead = {}

-----------------------------------------------------------------------------
(* Reads. *)

Present(d) == {id \in Ids : d.claims[id] # NoRow}
Active(d) == {id \in Ids : d.claims[id].status = "ACTIVE"}
OfTriple(d, t) == {id \in Present(d) : d.claims[id].triple = t}

Lines == Len(logs["log"]) + Len(logs["events"])

\* Positions of lines: a series and a line number.
AllLines == {line \in Series \X (1..Lines) : line[2] <= Len(logs[line[1]])}

LoggedIds ==
  UNION {{NewestMintedId(logs[s][i]) : i \in DOMAIN logs[s]} : s \in Series}

\* mint: greater than everything this store minted or was seeded with.  Ids
\* carry the clock, so stores mint nearly in order; within a millisecond random
\* bits decide, which lets a store skip fewer than MintSpread free ids.  Two
\* stores that draw the same bits are left out of the model.
Mintable(p) ==
  LET free == {id \in Ids : id > lastId[p] /\ id \notin LoggedIds}
  IN  {id \in free : Cardinality({lower \in free : lower < id}) < MintSpread}

\* Duplicate groups of merge_duplicate_source_refs, with the oldest claim as the
\* survivor: every status counts.
DuplicateGroups(d) ==
  {g \in Triples \X Ids :
     LET claims == OfTriple(d, g[1]) IN
       /\ g[2] \in claims /\ claims # {g[2]}
       /\ \A other \in claims : g[2] <= other}

MergedRefs(d, t) == UNION {d.claims[id].refs : id \in OfTriple(d, t)}

MergeRecord(d, t, survivor) ==
  [kind |-> "merge_source_refs", claim |-> survivor, refs |-> MergedRefs(d, t),
   promote |-> d.claims[survivor].prov = "INFERRED" /\ Cardinality(MergedRefs(d, t)) >= 2]

Decaying(d) == {id \in Active(d) : \E c \in Ids : d.contras[c].status = "RECORDED"
                                                  /\ d.contras[c].claim = id}

DecayRecord(d) ==
  [kind |-> "decay_confidence",
   conf |-> [id \in Decaying(d) |-> IF d.claims[id].conf < 2 THEN 0 ELSE d.claims[id].conf - 2]]

\* Mutant: claims of any status are superseded, retired ones included.
DuplicateIdsAnyStatus(d) ==
  {id \in Present(d) : \E other \in OfTriple(d, d.claims[id].triple) : other < id}

\* Both queries of consolidate_report compare with claims of any status.
DuplicateIds(d) ==
  {id \in Active(d) : \E other \in OfTriple(d, d.claims[id].triple) : other < id}

\* Mutant: the object comparison is inverted.
ReplacesSameObject(d, newer, id) ==
  /\ newer > id
  /\ d.claims[newer].triple = d.claims[id].triple

Replaces(d, newer, id) ==
  LET old == d.claims[id].triple
      new == d.claims[newer].triple
  IN  /\ newer > id
      /\ new.subject = old.subject /\ new.predicate = old.predicate
      /\ new.object # old.object

ConflictIds(d) ==
  {id \in Active(d) : /\ d.claims[id].triple.predicate \in SingleValued
                      /\ \E newer \in Present(d) : Replaces(d, newer, id)}

\* supersede_claim_ids: an empty list is neither logged nor applied.
Supersede(ids) ==
  IF ids = {} THEN <<>> ELSE Write([kind |-> "supersede_claims", claims |-> ids])

-----------------------------------------------------------------------------
(* Calls: what a process reads and checks before it takes the write lock.   *)
(* A call whose check fails returns an error and changes nothing.           *)

Call(p, j) ==
  /\ pc[p] = "idle"
  /\ pc' = [pc EXCEPT ![p] = "ready"]
  /\ job' = [job EXCEPT ![p] = j]
  /\ UNCHANGED <<clock, logs, db, writer, tx, lastId, rebuild, dead>>

CallAddClaim(p) ==
  /\ "add_claim" \in Ops
  /\ \E t \in Triples, src \in Sources :
       Call(p, [op |-> "add_claim", triple |-> t, source |-> src, ts |-> clock,
                contradicts |-> NoId])

\* contradict, with a replacement claim (added first) or without one.
CallContradict(p) ==
  /\ "contradict" \in Ops
  /\ \E old \in Present(db) :
       \/ Call(p, [op |-> "contradict", claim |-> old, new |-> NoId])
       \/ \E t \in Triples, src \in Sources :
            Call(p, [op |-> "add_claim", triple |-> t, source |-> src, ts |-> clock,
                     contradicts |-> old])

CallRetire(p) ==
  /\ "retire" \in Ops
  /\ \E id \in Ids, why \in Reasons :
       Call(p, [op |-> "retire", claim |-> id, reason |-> why, ts |-> clock])

\* merge_duplicate_source_refs returns at once when there is no group.
CallConsolidate(p) ==
  /\ "consolidate" \in Ops
  /\ Call(p, IF DuplicateGroups(db) = {}
             THEN [op |-> "decay", alone |-> FALSE]
             ELSE [op |-> "merge", groups |-> DuplicateGroups(db)])

CallDecay(p) == "decay" \in Ops /\ Call(p, [op |-> "decay", alone |-> TRUE])

CallRecordEvent(p) ==
  /\ "record_event" \in Ops
  /\ Cardinality(db.events) < MaxEvents
  /\ Call(p, [op |-> "record_event"])

CallPropose(p) ==
  /\ "propose" \in Ops
  /\ \E e \in db.events, t \in Triples : Call(p, [op |-> "propose", event |-> e, triple |-> t])

\* promote keeps the candidate it read here; a rejected candidate is an error
\* and a promoted one returns its claim.
CallPromote(p) ==
  /\ "promote" \in Ops
  /\ \E c \in Ids :
       /\ db.cands[c].status = "PENDING"
       /\ Call(p, [op |-> "promote", cand |-> c, event |-> db.cands[c].event,
                   triple |-> db.cands[c].triple, ts |-> clock])

CallReject(p) ==
  /\ "reject" \in Ops
  /\ \E c \in Ids, why \in Reasons :
       /\ db.cands[c].status \in {"PENDING", "REJECTED"}
       /\ Call(p, [op |-> "reject", cand |-> c, reason |-> why])

-----------------------------------------------------------------------------
(* Transactions. *)

\* BEGIN IMMEDIATE succeeds; the first part of the transaction is todo.
TakeLock(p, op, todo) ==
  /\ pc[p] = "ready" /\ job[p].op = op
  /\ writer = NoProc
  /\ Lines < MaxLines
  /\ writer' = p
  /\ pc' = [pc EXCEPT ![p] = "tx"]
  /\ tx' = [todo |-> todo, work |-> db, mark |-> [s \in Series |-> Len(logs[s])]]
  /\ UNCHANGED <<clock, logs, db, rebuild, dead>>

Minted(p, id) == id \in Mintable(p) /\ lastId' = [lastId EXCEPT ![p] = id] /\ UNCHANGED job

NoMint == UNCHANGED <<lastId, job>>

BeginAddClaim(p) ==
  \E id \in Ids :
    /\ TakeLock(p, "add_claim",
         Write([kind |-> "add_claim", ts |-> job[p].ts, claim |-> id,
                triple |-> job[p].triple, source |-> <<"source", job[p].source>>,
                prov |-> "USER_ASSERTED", conf |-> 19]))
    /\ Minted(p, id)

BeginContradict(p) ==
  \E id \in Ids :
    /\ TakeLock(p, "contradict",
         Write([kind |-> "add_contradiction", id |-> id, claim |-> job[p].claim,
                new |-> job[p].new]))
    /\ Minted(p, id)

\* Mutant: the retirement is an UPDATE without a record.
BeginRetireUnlogged(p) ==
  /\ TakeLock(p, "retire",
       IF db.claims[job[p].claim].status \in {"ABSENT", "INVALIDATED"}
       THEN <<>>
       ELSE <<ToDb([kind |-> "retire_claim", ts |-> job[p].ts, claim |-> job[p].claim,
                    reason |-> job[p].reason])>>)
  /\ NoMint

\* The status is read under the lock: a missing or already INVALIDATED claim
\* is an error.
BeginRetire(p) ==
  /\ TakeLock(p, "retire",
       IF db.claims[job[p].claim].status \in {"ABSENT", "INVALIDATED"}
       THEN <<>>
       ELSE Write([kind |-> "retire_claim", ts |-> job[p].ts, claim |-> job[p].claim,
                   reason |-> job[p].reason]))
  /\ NoMint

BeginMerge(p) == TakeLock(p, "merge", <<>>) /\ NoMint

\* Mutant: decay is recomputed, not logged.
BeginDecayUnlogged(p) ==
  /\ TakeLock(p, "decay", IF Decaying(db) = {} THEN <<>> ELSE <<ToDb(DecayRecord(db))>>)
  /\ NoMint

BeginDecay(p) ==
  /\ TakeLock(p, "decay", IF Decaying(db) = {} THEN <<>> ELSE Write(DecayRecord(db)))
  /\ NoMint

BeginSupersede(p) == TakeLock(p, "duplicates", Supersede(DuplicateIds(db))) /\ NoMint

BeginRecordEvent(p) ==
  \E id \in Ids :
    /\ TakeLock(p, "record_event", Write([kind |-> "record_event", id |-> id]))
    /\ Minted(p, id)

BeginPropose(p) ==
  \E id \in Ids :
    /\ TakeLock(p, "propose",
         Write([kind |-> "propose_candidate_claim", id |-> id, event |-> job[p].event,
                triple |-> job[p].triple]))
    /\ Minted(p, id)

\* promote does not read the candidate again: both appends, then both applies.
BeginPromote(p) ==
  \E id \in Ids :
    LET claim == [kind |-> "add_claim", ts |-> job[p].ts, claim |-> id,
                  triple |-> job[p].triple, source |-> EventRef(job[p].event),
                  prov |-> "INFERRED", conf |-> 9]
        promotion == [kind |-> "promote_candidate_claim", cand |-> job[p].cand, claim |-> id]
    IN  /\ TakeLock(p, "promote",
             <<ToLog(claim), ToLog(promotion), ToDb(claim), ToDb(promotion)>>)
        /\ Minted(p, id)

\* reject reads the status again under the lock; a second rejection returns
\* without a record, whatever its reason.
BeginReject(p) ==
  /\ TakeLock(p, "reject",
       IF db.cands[job[p].cand].status = "PENDING"
       THEN Write([kind |-> "reject_candidate_claim", cand |-> job[p].cand,
                   reason |-> job[p].reason])
       ELSE <<>>)
  /\ NoMint

\* The loop of merge_duplicate_source_refs: one group at a time, its refs read
\* inside the transaction, its survivor chosen before it.
MergeGroup(p) ==
  /\ writer = p /\ tx.todo = <<>> /\ job[p].op = "merge"
  /\ \E g \in job[p].groups :
       /\ tx' = [tx EXCEPT !.todo = Write(MergeRecord(tx.work, g[1], g[2]))]
       /\ job' = [job EXCEPT ![p] = [op |-> "merge", groups |-> job[p].groups \ {g}]]
  /\ UNCHANGED <<clock, logs, db, writer, pc, lastId, rebuild, dead>>

\* The second query of consolidate_report, in the transaction of the first.
SupersedeConflicts(p) ==
  /\ writer = p /\ tx.todo = <<>> /\ job[p].op = "duplicates"
  /\ tx' = [tx EXCEPT !.todo = Supersede(ConflictIds(tx.work))]
  /\ job' = [job EXCEPT ![p] = [op |-> "conflicts"]]
  /\ UNCHANGED <<clock, logs, db, writer, pc, lastId, rebuild, dead>>

\* append_jsonl: one line, synced, before anything that follows.
AppendLine(p) ==
  /\ writer = p /\ tx.todo # <<>> /\ Head(tx.todo).do = "append"
  /\ LET r == Head(tx.todo).rec IN
       logs' = [logs EXCEPT ![SeriesOf(r)] = Append(logs[SeriesOf(r)], r)]
  /\ tx' = [tx EXCEPT !.todo = Tail(tx.todo)]
  /\ UNCHANGED <<clock, db, writer, pc, job, lastId, rebuild, dead>>

ApplyRecord(p) ==
  /\ writer = p /\ tx.todo # <<>> /\ Head(tx.todo).do = "apply"
  /\ Accepts(tx.work, Head(tx.todo).rec)
  /\ tx' = [tx EXCEPT !.todo = Tail(tx.todo), !.work = Effect(tx.work, Head(tx.todo).rec)]
  /\ UNCHANGED <<clock, logs, db, writer, pc, job, lastId, rebuild, dead>>

\* What the call does after a transaction of its own committed.
NextJob(p) ==
  CASE job[p].op = "add_claim" /\ job[p].contradicts # NoId ->
         [op |-> "contradict", claim |-> job[p].contradicts, new |-> lastId[p]]
    [] job[p].op = "merge" -> [op |-> "decay", alone |-> FALSE]
    [] job[p].op = "decay" /\ ~job[p].alone -> [op |-> "duplicates"]
    [] OTHER -> NoJob

Commit(p) ==
  /\ writer = p /\ tx.todo = <<>>
  /\ job[p].op # "duplicates"
  /\ job[p].op = "merge" => job[p].groups = {}
  /\ db' = tx.work
  /\ writer' = NoProc
  /\ tx' = NoTx
  /\ job' = [job EXCEPT ![p] = NextJob(p)]
  /\ pc' = [pc EXCEPT ![p] = IF NextJob(p) = NoJob THEN "idle" ELSE "ready"]
  /\ UNCHANGED <<clock, logs, lastId, rebuild, dead>>

\* ROLLBACK undoes the projection, never the lines already appended.
Uncommitted == {line \in AllLines : line[2] > tx.mark[line[1]]}

Rollback ==
  /\ writer' = NoProc
  /\ tx' = NoTx
  /\ dead' = dead \cup Uncommitted

\* Mutant: an error of apply returns without a ROLLBACK.
StepFailsOnAppendOnly(p) ==
  /\ writer = p /\ tx.todo # <<>>
  /\ Head(tx.todo).do = "append" /\ "append_fails" \in Faults
  /\ Rollback
  /\ pc' = [pc EXCEPT ![p] = "idle"]
  /\ job' = [job EXCEPT ![p] = NoJob]
  /\ UNCHANGED <<clock, logs, db, lastId, rebuild>>

\* append_jsonl fails (the advisory lock is held for 4 s, the disk is full), or
\* apply refuses the record.
StepFails(p) ==
  /\ writer = p /\ tx.todo # <<>>
  /\ IF Head(tx.todo).do = "append"
     THEN "append_fails" \in Faults
     ELSE ~Accepts(tx.work, Head(tx.todo).rec)
  /\ Rollback
  /\ pc' = [pc EXCEPT ![p] = "idle"]
  /\ job' = [job EXCEPT ![p] = NoJob]
  /\ UNCHANGED <<clock, logs, db, lastId, rebuild>>

\* BEGIN IMMEDIATE gives up after the busy timeout.  The other two disjuncts end
\* the calls the model's bounds leave no room for.
BusyTimeout(p) ==
  /\ pc[p] = "ready"
  /\ writer # NoProc \/ Lines >= MaxLines \/ Mintable(p) = {}
  /\ pc' = [pc EXCEPT ![p] = "idle"]
  /\ job' = [job EXCEPT ![p] = NoJob]
  /\ UNCHANGED <<clock, logs, db, writer, tx, lastId, rebuild, dead>>

-----------------------------------------------------------------------------
(* Processes, the clock and replay. *)

\* Store::open seeds the generator from the last line of each active series.
TailId(s) == IF logs[s] = <<>> THEN 0 ELSE NewestMintedId(Last(logs[s]))

Open(p) ==
  /\ pc[p] = "closed"
  /\ rebuild.phase = "none"
  /\ pc' = [pc EXCEPT ![p] = "idle"]
  /\ lastId' = [lastId EXCEPT ![p] = IF TailId("log") > TailId("events")
                                     THEN TailId("log") ELSE TailId("events")]
  /\ UNCHANGED <<clock, logs, db, writer, tx, job, rebuild, dead>>

Stop(p) ==
  /\ pc' = [pc EXCEPT ![p] = "closed"]
  /\ job' = [job EXCEPT ![p] = NoJob]
  /\ lastId' = [lastId EXCEPT ![p] = 0]

Close(p) ==
  /\ pc[p] = "idle"
  /\ Stop(p)
  /\ UNCHANGED <<clock, logs, db, writer, tx, rebuild, dead>>

Crash(p) ==
  /\ "crash" \in Faults
  /\ pc[p] \in {"ready", "tx"}
  /\ Stop(p)
  /\ IF writer = p THEN Rollback ELSE UNCHANGED <<writer, tx, dead>>
  /\ UNCHANGED <<clock, logs, db, rebuild>>

Tick ==
  /\ clock < MaxClock
  /\ clock' = clock + 1
  /\ UNCHANGED <<logs, db, writer, tx, pc, job, lastId, rebuild, dead>>

\* Series order: every line of log.jsonl before the first of events.jsonl.
Position(n) ==
  IF n <= Len(logs["log"]) THEN <<"log", n>> ELSE <<"events", n - Len(logs["log"])>>

LineAt(n) == logs[Position(n)[1]][Position(n)[2]]

\* `aver replay --force`: a fresh db.sqlite.partial.
RebuildStart ==
  /\ rebuild.phase = "none"
  /\ \A p \in Procs : pc[p] = "closed"
  /\ \E m \in ReplayModes : rebuild' = [NoRebuild EXCEPT !.phase = "lines", !.mode = m]
  /\ UNCHANGED <<clock, logs, db, writer, tx, pc, job, lastId, dead>>

RebuildApply ==
  /\ rebuild.phase = "lines" /\ rebuild.pos < Lines
  /\ Accepts(rebuild.db, LineAt(rebuild.pos + 1))
  /\ rebuild' = [rebuild EXCEPT !.pos = rebuild.pos + 1,
                                !.db = Effect(rebuild.db, LineAt(rebuild.pos + 1))]
  /\ UNCHANGED <<clock, logs, db, writer, tx, pc, job, lastId, dead>>

\* Lenient mode quarantines a line that does not apply; strict mode aborts.
RebuildRefuse ==
  /\ rebuild.phase = "lines" /\ rebuild.pos < Lines
  /\ ~Accepts(rebuild.db, LineAt(rebuild.pos + 1))
  /\ rebuild' = IF rebuild.mode = "strict"
                THEN NoRebuild
                ELSE [rebuild EXCEPT !.pos = rebuild.pos + 1,
                                     !.refused = rebuild.refused \cup {Position(rebuild.pos + 1)}]
  /\ UNCHANGED <<clock, logs, db, writer, tx, pc, job, lastId, dead>>

\* The swap: db.sqlite is removed, then the partial database renamed over it.
RebuildRemove ==
  /\ rebuild.phase = "lines" /\ rebuild.pos = Lines
  /\ db' = EmptyDb
  /\ dead' = AllLines
  /\ rebuild' = [rebuild EXCEPT !.phase = "swap"]
  /\ UNCHANGED <<clock, logs, writer, tx, pc, job, lastId>>

RebuildRename ==
  /\ rebuild.phase = "swap"
  /\ db' = rebuild.db
  /\ dead' = rebuild.refused
  /\ rebuild' = NoRebuild
  /\ UNCHANGED <<clock, logs, writer, tx, pc, job, lastId>>

\* A partial database that was not renamed is deleted by the next replay.
RebuildCrash ==
  /\ "crash" \in Faults
  /\ rebuild.phase # "none"
  /\ rebuild' = NoRebuild
  /\ UNCHANGED <<clock, logs, db, writer, tx, pc, job, lastId, dead>>

-----------------------------------------------------------------------------

Calls(p) ==
  \/ CallAddClaim(p) \/ CallContradict(p) \/ CallRetire(p) \/ CallConsolidate(p)
  \/ CallDecay(p) \/ CallRecordEvent(p) \/ CallPropose(p) \/ CallPromote(p) \/ CallReject(p)

Begins(p) ==
  \/ BeginAddClaim(p) \/ BeginContradict(p) \/ BeginRetire(p) \/ BeginMerge(p)
  \/ BeginDecay(p) \/ BeginSupersede(p) \/ BeginRecordEvent(p) \/ BeginPropose(p)
  \/ BeginPromote(p) \/ BeginReject(p)

Works(p) ==
  \/ MergeGroup(p) \/ SupersedeConflicts(p) \/ AppendLine(p) \/ ApplyRecord(p)
  \/ Commit(p) \/ StepFails(p)

Rebuilding ==
  \/ RebuildStart \/ RebuildApply \/ RebuildRefuse \/ RebuildRemove \/ RebuildRename
  \/ RebuildCrash

Next ==
  \/ \E p \in Procs :
       \/ Calls(p) \/ Begins(p) \/ Works(p)
       \/ BusyTimeout(p) \/ Open(p) \/ Close(p) \/ Crash(p)
  \/ Tick
  \/ Rebuilding

Spec == Init /\ [][Next]_vars

-----------------------------------------------------------------------------
(* What is promised. *)

Logged == UNION {{logs[s][i] : i \in DOMAIN logs[s]} : s \in Series}

\* A claim d shows was added by one of these lines, with that triple, and is
\* retired or superseded because one of them says so.
ClaimLogged(d, lines, id) ==
  /\ d.claims[id] # NoRow =>
       \E r \in lines : r.kind = "add_claim" /\ r.claim = id /\ r.triple = d.claims[id].triple
  /\ d.claims[id].status = "INVALIDATED" =>
       \E r \in lines : r.kind = "retire_claim" /\ r.claim = id
  /\ d.claims[id].status = "SUPERSEDED" =>
       \E r \in lines : r.kind = "supersede_claims" /\ id \in r.claims

DecisionLogged(d, lines, c) ==
  /\ d.cands[c].status = "PROMOTED" =>
       \E r \in lines : /\ r.kind = "promote_candidate_claim"
                        /\ r.cand = c /\ r.claim = d.cands[c].claim
  /\ d.cands[c].status = "REJECTED" =>
       \E r \in lines : /\ r.kind = "reject_candidate_claim"
                        /\ r.cand = c /\ d.cands[c].reasons = {r.reason}

TransitionsLogged(d, lines) ==
  \A id \in Ids : ClaimLogged(d, lines, id) /\ DecisionLogged(d, lines, id)

\* The log comes first (ADR-0005): no projection, committed, in a transaction
\* or being rebuilt, shows a claim or a lifecycle transition that is not
\* already a line of the log, wherever a process stops.
LogFirst ==
  /\ TransitionsLogged(db, Logged)
  /\ TransitionsLogged(tx.work, Logged)
  /\ TransitionsLogged(rebuild.db, Logged)

\* The lines of a series before the open transaction, without the lines of
\* transactions that were rolled back.
KeepLine(acc, entry) == IF entry.dead THEN acc ELSE Append(acc, entry.line)

Surviving(s) ==
  LET committed == IF writer = NoProc THEN Len(logs[s]) ELSE tx.mark[s]
  IN  FoldLeft(KeepLine, <<>>,
               [i \in 1..committed |-> [line |-> logs[s][i], dead |-> <<s, i>> \in dead]])

\* The committed projection is what replay computes, series by series, from
\* the lines whose transactions committed, although live writes interleave
\* the two series (ADR-0026, "replay reproduces the rows").
CommittedLogIsDb ==
  Replay(Surviving("log") \o Surviving("events")) = [db |-> db, refused |-> {}]

\* Nothing in the log is poison: with no write in flight, every line of both
\* series replays, dead or alive (how-it-works.md, write path invariants).
EveryLineReplays ==
  writer = NoProc => Replay(logs["log"] \o logs["events"]).refused = {}

\* A promoted candidate owns a claim of its own content, shared with no other
\* candidate, in the live projection and in a rebuilt one.
PromotionPaired ==
  \A d \in {db, rebuild.db} : \A c \in Ids :
    d.cands[c].status = "PROMOTED" =>
      /\ d.claims[d.cands[c].claim] # NoRow
      /\ d.claims[d.cands[c].claim].triple = d.cands[c].triple
      /\ \A other \in Ids \ {c} : d.cands[other].status = "PROMOTED"
                                  => d.cands[other].claim # d.cands[c].claim

\* Racing callers cannot append conflicting terminal transitions of one
\* candidate (the comment in reject_candidate_claim_inner).
TerminalLines(c) ==
  {i \in DOMAIN logs["events"] :
     /\ logs["events"][i].kind \in {"promote_candidate_claim", "reject_candidate_claim"}
     /\ logs["events"][i].cand = c}

NoConflictingTransitions ==
  \A c \in Ids : \A i, j \in TerminalLines(c) : logs["events"][i] = logs["events"][j]

\* A rebuild that is about to be swapped in shows every decision the live
\* projection shows: promoted into the same claim, rejected for the same reason.
DecisionsKept ==
  \A c \in Ids : db.cands[c].status \in {"PROMOTED", "REJECTED"}
                  => /\ rebuild.db.cands[c].status = db.cands[c].status
                     /\ rebuild.db.cands[c].claim = db.cands[c].claim
                     /\ rebuild.db.cands[c].reasons = db.cands[c].reasons

RebuildComplete == rebuild.phase = "lines" /\ rebuild.pos = Lines

RebuildKeepsDecisions == RebuildComplete => DecisionsKept

\* In strict mode: a crash may leave lines nobody committed, but then either
\* they agree with what was committed later or the rebuild refuses to finish.
StrictRebuildKeepsDecisions ==
  RebuildComplete /\ rebuild.mode = "strict" => DecisionsKept

\* Consolidation supersedes a claim only in favour of another that was ACTIVE:
\* an older duplicate or a newer claim with another object (README.md, "active
\* duplicates/conflicts").
Rivals(id) ==
  {other \in Active(db) \ {id} :
     \/ db.claims[other].triple = db.claims[id].triple
     \/ Replaces(db, other, id)}

SupersededForAnActiveClaim ==
  [][\A id \in Ids : /\ db.claims[id].status = "ACTIVE"
                     /\ db'.claims[id].status = "SUPERSEDED"
                     /\ rebuild.phase = "none"
                     => Rivals(id) # {}]_vars

\* When consolidation commits, no fact has two ACTIVE claims and a single-valued
\* predicate of a subject has one ACTIVE object, whatever other processes added
\* between its transactions.
OneAnswer(d) ==
  \A id, other \in Active(d) :
    LET t == d.claims[id].triple
        u == d.claims[other].triple
    IN  id # other => /\ t # u
                      /\ t.predicate \in SingleValued
                           => t.subject # u.subject \/ t.predicate # u.predicate

ConsolidationLeavesOneAnswer ==
  [][\A p \in Procs : Commit(p) /\ job[p].op = "conflicts" => OneAnswer(db')]_vars

\* A write that waits for SQLite gives up after the busy timeout and the steps
\* of a transaction are bounded, so every call returns: no process waits on a
\* lock nobody releases.  The fairness is that of threads the system schedules.
Progress(p) == Begins(p) \/ Works(p) \/ BusyTimeout(p)

FairSpec == Spec /\ \A p \in Procs : WF_vars(Progress(p))

CallsReturn == \A p \in Procs : pc[p] = "ready" ~> pc[p] \in {"idle", "closed"}

\* The memory callers see; while a rebuild swaps files, the one it installs.
Memory == IF rebuild.phase = "swap" THEN rebuild.db ELSE db

\* What the lines of the log decide of a candidate, committed or stranded.
DecisionIn(r) ==
  IF r.kind = "promote_candidate_claim"
  THEN [status |-> "PROMOTED", claim |-> r.claim]
  ELSE [status |-> "REJECTED", claim |-> NoId]

Tried(c) ==
  {DecisionIn(r) : r \in {q \in Logged :
                            /\ q.kind \in {"promote_candidate_claim", "reject_candidate_claim"}
                            /\ q.cand = c}}

AbstractMemory ==
  INSTANCE Lifecycle WITH
    claimStatus <- [id \in Ids |-> Memory.claims[id].status],
    decision <- [c \in Ids |->
      [status |-> Memory.cands[c].status,
       claim |-> IF Memory.cands[c].status = "PROMOTED" THEN Memory.cands[c].claim ELSE NoId]],
    tried <- [c \in Ids |-> Tried(c)],
    rebuilding <- IF rebuild.phase = "none" THEN "no" ELSE rebuild.mode

\* The write path implements the lifecycle: calls take effect one at a time and
\* whole, whatever the interleaving; no crash undoes one; a strict rebuild undoes
\* nothing, and a lenient one changes a decision only into one that a call tried.
ImplementsLifecycle == AbstractMemory!AbstractSpec
=============================================================================
