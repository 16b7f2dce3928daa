---------------------------- MODULE Observations ----------------------------
(***************************************************************************)
(* Observations of a session's events and their prune markers (episodic.rs, *)
(* apply.rs).  Unlike claims, an observation is checked, appended to       *)
(* observations.jsonl and applied without a write transaction, and a prune *)
(* reads the list and then the coverage: processes that share the directory *)
(* interleave at every one of these steps, and stop at any of them.        *)
(* Events are recorded in one transaction, here one step.                  *)
(***************************************************************************)
EXTENDS Naturals, Sequences, FiniteSets, SequencesExt

\* ObservationRelevance::rank.
Ranks == [low |-> 0, medium |-> 1, high |-> 2, critical |-> 3]

CONSTANTS
  Procs,
  Sessions,
  Kinds,            \* event kinds, the triggers of extraction among them
  Drafts,           \* what clients and observers write: [content, relevance, derivation]
  Digest(_, _, _),  \* observation_id: a hash of the session, the content and the sources
  Observers,        \* what observers propose: sequences of [draft, sources]
  Keeps,            \* how many observations a prune is asked to keep
  MaxClock, MaxEvents, MaxLines  \* bounds

ASSUME ObservationsAssumption ==
  /\ Drafts \subseteq [content : Nat, relevance : DOMAIN Ranks, derivation : Nat]
  /\ \A s \in Sessions, draft \in Drafts, sources \in SUBSET (1..MaxEvents) :
       Digest(s, draft.content, sources) \in Nat
  /\ Observers \subseteq Seq([draft : Drafts, sources : SUBSET Nat])
  /\ Keeps \subseteq Nat
  /\ {MaxClock, MaxEvents, MaxLines} \subseteq Nat

VARIABLES
  clock,
  events,   \* episodic_events, by id
  log,      \* observations.jsonl
  rows,     \* observations: a row for each id
  markers,  \* observation_prune_markers
  pc, job   \* where each process is in a call, and what it has read

vars == <<clock, events, log, rows, markers, pc, job>>

Events == [session : Sessions, kind : Kinds]
Rows == [session : Sessions, content : Nat, sources : SUBSET (1..MaxEvents),
         relevance : DOMAIN Ranks, derivation : Nat, ts : Nat]
Markers == [session : Sessions, pruned : SUBSET Nat, ts : Nat]
Lines == [kind : {"record"}, id : Nat, row : Rows] \cup [kind : {"prune"}, marker : Markers]

IdOf(row) == Digest(row.session, row.content, row.sources)
NoJob == [op |-> "none"]

-----------------------------------------------------------------------------
(* Reads of the projection. *)

EventsOf(s) == {e \in DOMAIN events : events[e].session = s}
Pruned(s) == UNION {m.pruned : m \in {k \in markers : k.session = s}}

\* list_observations_for_session.
Visible(s) == {id \in DOMAIN rows : rows[id].session = s} \ Pruned(s)

\* observation_coverage.
Covered(s) == EventsOf(s) \cap UNION {rows[id].sources : id \in Visible(s)}
Uncovered(s) == EventsOf(s) \ Covered(s)

Triggers == {"explicit_remember", "session_end", "correction", "commit_completed",
             "idle_compaction"}

\* extraction_decision.
ExtractionReasons(s, threshold) ==
  {k \in Triggers : \E e \in EventsOf(s) : events[e].kind = k}
  \cup (IF Uncovered(s) # {} THEN {"uncovered_coverage_gap"} ELSE {})
  \cup (IF Cardinality(EventsOf(s)) >= threshold THEN {"event_count_threshold"} ELSE {})

\* Mutant: a coverage gap counts as a reason.
ShouldExtractOnGap(s, threshold) == ExtractionReasons(s, threshold) # {}

\* should_extract_memories.
ShouldExtract(s, threshold) == ExtractionReasons(s, threshold) \ {"uncovered_coverage_gap"} # {}

\* The order prune_observations sorts by.
RanksBelow(a, b) ==
  \/ Ranks[rows[a].relevance] < Ranks[rows[b].relevance]
  \/ /\ Ranks[rows[a].relevance] = Ranks[rows[b].relevance]
     /\ rows[a].ts < rows[b].ts \/ (rows[a].ts = rows[b].ts /\ a < b)

\* Mutant: the best are taken from the front.
DroppedFromTop(ids, keep) == {a \in ids : Cardinality({b \in ids : RanksBelow(b, a)}) >= keep}

Dropped(ids, keep) == {a \in ids : Cardinality({b \in ids : RanksBelow(a, b)}) >= keep}

\* assemble_compaction_summary: the gaps as ranges of the session's events, which
\* need not have consecutive ids.  A run is open, from its first to its last
\* event, until a covered event closes it.
NoRun == <<>>
ExtendRun(run, e) == IF run = NoRun THEN <<e, e>> ELSE <<run[1], e>>
Close(acc) == IF acc.run = NoRun THEN acc.ranges ELSE acc.ranges \cup {acc.run}
ScanEvent(acc, e, gaps) ==
  IF e \in gaps THEN [acc EXCEPT !.run = ExtendRun(@, e)]
  ELSE [ranges |-> Close(acc), run |-> NoRun]

\* Without a visible observation the summary ends before it looks at coverage.
Scanned(s) == IF Visible(s) = {} THEN {} ELSE EventsOf(s)
Scan(s) ==
  FoldLeft(LAMBDA acc, e : ScanEvent(acc, e, Uncovered(s)), [ranges |-> {}, run |-> NoRun],
           SetToSortSeq(Scanned(s), <))


GapRanges(s) == Close(Scan(s))

-----------------------------------------------------------------------------
(* apply, for the two kinds of line. *)

SameButTime(a, b) == [a EXCEPT !.ts = 0] = [b EXCEPT !.ts = 0]
Accepts(db, line) ==
  line.kind = "record" /\ line.id \in DOMAIN db => SameButTime(db[line.id], line.row)

\* What a line leaves of the rows; one that is there already, or refused, nothing.
RowsAfter(db, line) ==
  IF line.kind = "record" /\ line.id \notin DOMAIN db
  THEN [id \in DOMAIN db \cup {line.id} |-> IF id = line.id THEN line.row ELSE db[id]]
  ELSE db

MarkersAfter(ms, line) == IF line.kind = "prune" THEN ms \cup {line.marker} ELSE ms

NoRows == [id \in {} |-> NoJob]
Replayed == FoldLeft(RowsAfter, NoRows, log)
ReplayedMarkers == FoldLeft(MarkersAfter, {}, log)

Init ==
  /\ clock = 0
  /\ events = <<>> /\ log = <<>>
  /\ rows = NoRows /\ markers = {}
  /\ pc = [p \in Procs |-> "idle"]
  /\ job = [p \in Procs |-> NoJob]

-----------------------------------------------------------------------------

Goto(p, label) == pc' = [pc EXCEPT ![p] = label]
Return(p) == Goto(p, "idle") /\ job' = [job EXCEPT ![p] = NoJob]

\* Bound: the lines written and those under way.
Room == Len(log) + Cardinality({p \in Procs : pc[p] # "idle"}) < MaxLines

Tick ==
  /\ clock < MaxClock
  /\ clock' = clock + 1
  /\ UNCHANGED <<events, log, rows, markers, pc, job>>

\* record_event.
RecordEvent(s, kind) ==
  /\ Len(events) < MaxEvents
  /\ events' = Append(events, [session |-> s, kind |-> kind])
  /\ UNCHANGED <<clock, log, rows, markers, pc, job>>

\* Mutant: events of any session are taken as sources.
SourcesFoundAnywhere(s, sources) == sources # {} /\ sources \subseteq DOMAIN events

SourcesFound(s, sources) == sources # {} /\ sources \subseteq EventsOf(s)

RowOf(s, draft, sources) ==
  [session |-> s, content |-> draft.content, sources |-> sources,
   relevance |-> draft.relevance, derivation |-> draft.derivation, ts |-> clock]

\* record_observation up to the append.  An observation whose id has a row
\* already is returned as it is, or is a collision: neither changes anything.
CallRecord(p, s, draft, sources) ==
  /\ pc[p] = "idle" /\ Room
  /\ SourcesFound(s, sources)
  /\ LET row == RowOf(s, draft, sources) IN
       /\ IdOf(row) \notin DOMAIN rows
       /\ job' = [job EXCEPT ![p] = [op |-> "line", rest |-> <<>>,
                                     line |-> [kind |-> "record", id |-> IdOf(row), row |-> row]]]
  /\ Goto(p, "append")
  /\ UNCHANGED <<clock, events, log, rows, markers>>

\* The loop of propose_observations_from_observer keeps of each draft the events
\* that no observation, nor a draft before, covers.
TakeDraft(acc, item) ==
  LET left == item.sources \ acc.covered
  IN [covered |-> acc.covered \cup left,
      todo |-> IF left = {} THEN acc.todo ELSE Append(acc.todo, [item EXCEPT !.sources = left])]

\* It reads the events and their coverage first.
CallCatchUp(p, s, proposed) ==
  /\ pc[p] = "idle" /\ Room
  /\ \A i \in DOMAIN proposed : proposed[i].sources \subseteq EventsOf(s)
  /\ LET todo == FoldLeft(TakeDraft, [covered |-> Covered(s), todo |-> <<>>], proposed).todo
     IN /\ todo # <<>>
        /\ job' = [job EXCEPT ![p] = [op |-> "drafts", session |-> s, rest |-> todo]]
  /\ Goto(p, "next")
  /\ UNCHANGED <<clock, events, log, rows, markers>>

\* Its loop calls record_observation for each; a collision ends it.
NextDraft(p) ==
  /\ pc[p] = "next" /\ Len(log) < MaxLines
  /\ LET item == Head(job[p].rest)
         rest == Tail(job[p].rest)
         row == RowOf(job[p].session, item.draft, item.sources)
         id == IdOf(row)
     IN CASE id \notin DOMAIN rows ->
               /\ job' = [job EXCEPT ![p] = [op |-> "line", session |-> row.session, rest |-> rest,
                                             line |-> [kind |-> "record", id |-> id, row |-> row]]]
               /\ Goto(p, "append")
          [] id \in DOMAIN rows /\ rest # <<>> /\ rows[id].content = row.content
                                /\ rows[id].sources = row.sources ->
               /\ job' = [job EXCEPT ![p].rest = rest]
               /\ UNCHANGED pc
          [] OTHER -> Return(p)
  /\ UNCHANGED <<clock, events, log, rows, markers>>

\* prune_observations reads the list,
CallPrune(p, s, keep) ==
  /\ pc[p] = "idle" /\ Room
  /\ Cardinality(Visible(s)) > keep
  /\ job' = [job EXCEPT ![p] = [op |-> "listed", session |-> s, keep |-> keep,
                                listed |-> Visible(s)]]
  /\ Goto(p, "cover")
  /\ UNCHANGED <<clock, events, log, rows, markers>>

\* then the coverage, and gives up on a gap.
CheckCoverage(p) ==
  /\ pc[p] = "cover"
  /\ IF Uncovered(job[p].session) # {}
     THEN Return(p)
     ELSE /\ job' = [job EXCEPT ![p] =
               [op |-> "line", rest |-> <<>>,
                line |-> [kind |-> "prune",
                          marker |-> [session |-> job[p].session, ts |-> clock,
                                      pruned |-> Dropped(job[p].listed, job[p].keep)]]]]
          /\ Goto(p, "append")
  /\ UNCHANGED <<clock, events, log, rows, markers>>

\* append_jsonl.
AppendLine(p) ==
  /\ pc[p] = "append"
  /\ log' = Append(log, job[p].line)
  /\ Goto(p, "apply")
  /\ UNCHANGED <<clock, events, rows, markers, job>>

\* Mutant: a failed append is ignored.
AppendFailsUnseen(p) ==
  /\ pc[p] = "append"
  /\ Goto(p, "apply")
  /\ UNCHANGED <<clock, events, log, rows, markers, job>>

AppendFails(p) ==
  /\ pc[p] = "append"
  /\ Return(p)
  /\ UNCHANGED <<clock, events, log, rows, markers>>

\* apply, and back to the loop of a catch-up that has drafts left.
ApplyLine(p) ==
  /\ pc[p] = "apply"
  /\ rows' = RowsAfter(rows, job[p].line)
  /\ markers' = MarkersAfter(markers, job[p].line)
  /\ IF job[p].rest # <<>> /\ Accepts(rows, job[p].line)
     THEN /\ job' = [job EXCEPT ![p] = [op |-> "drafts", session |-> @.session, rest |-> @.rest]]
          /\ Goto(p, "next")
     ELSE Return(p)
  /\ UNCHANGED <<clock, events, log>>

Crash(p) ==
  /\ pc[p] # "idle"
  /\ Return(p)
  /\ UNCHANGED <<clock, events, log, rows, markers>>

\* A lenient `aver replay` while nobody writes.
Rebuild ==
  /\ \A p \in Procs : pc[p] = "idle"
  /\ rows' = Replayed /\ markers' = ReplayedMarkers
  /\ UNCHANGED <<clock, events, log, pc, job>>

Next ==
  \/ Tick
  \/ \E s \in Sessions, kind \in Kinds : RecordEvent(s, kind)
  \/ \E p \in Procs :
       \/ \E s \in Sessions, draft \in Drafts, sources \in SUBSET (DOMAIN events) :
            CallRecord(p, s, draft, sources)
       \/ \E s \in Sessions, proposed \in Observers : CallCatchUp(p, s, proposed)
       \/ \E s \in Sessions, keep \in Keeps : CallPrune(p, s, keep)
       \/ NextDraft(p) \/ CheckCoverage(p)
       \/ AppendLine(p) \/ AppendFails(p) \/ ApplyLine(p) \/ Crash(p)
  \/ Rebuild

Spec == Init /\ [][Next]_vars

-----------------------------------------------------------------------------
(* What is promised. *)

\* Rows, markers and jobs are well formed; an observation rests on events of its
\* own session (record_observation's MissingEventProvenance).
TypeOK ==
  /\ clock \in 0..MaxClock
  /\ events \in Seq(Events) /\ Len(events) <= MaxEvents
  /\ log \in Seq(Lines)
  /\ \A id \in DOMAIN rows : /\ rows[id] \in Rows /\ id = IdOf(rows[id])
                             /\ rows[id].sources # {}
                             /\ rows[id].sources \subseteq EventsOf(rows[id].session)
  /\ markers \subseteq Markers
  /\ pc \in [Procs -> {"idle", "next", "cover", "append", "apply"}]
  /\ DOMAIN job = Procs

\* What a reader sees is in the log, so that a rebuild finds it again, though no
\* transaction surrounds the append and the write (ADR-0005): every observation
\* and every prune, each marker's line after the lines of what it prunes, which
\* can therefore still be recalled for an audit (ADR-0016).
ShownIsLogged ==
  /\ DOMAIN rows \subseteq DOMAIN Replayed
  /\ markers \subseteq ReplayedMarkers
  /\ \A i \in DOMAIN log : log[i].kind = "prune" =>
       \A id \in log[i].marker.pruned :
         \E j \in 1..(i - 1) : log[j].kind = "record" /\ log[j].id = id


\* "Recall and continuity summaries must visibly report uncovered ranges"
\* (ADR-0016), also when no observation is left or none was made.
UncoveredIsReported == \A s \in Sessions : Uncovered(s) # {} => GapRanges(s) # {}

\* The observations of the session were judged once each, as far as the log says.
JudgedOnce(s) ==
  LET records == {i \in DOMAIN log : log[i].kind = "record" /\ log[i].row.session = s}
  IN \A i, j \in records : log[i].id = log[j].id => log[i].row.relevance = log[j].row.relevance

Relevances == <<"low", "medium", "high", "critical">>  \* as ADR-0016 lists them
Worth(id) == CHOOSE i \in DOMAIN Relevances : Relevances[i] = rows[id].relevance

\* However many prunes overlap, on lists of different ages, and whatever a rebuild
\* adds of lines a process left behind, a session keeps as many visible
\* observations as each prune was to keep, if it ever had as many.  Among them is
\* one of the highest relevance it has, unless the log holds two judgements of one
\* of its observations: a rebuild shows the first of the two, and what was dropped
\* under one judgement may return as the best under the other.
PruneKeepsTheBest ==
  \A s \in Sessions, least \in Keeps :
    (\A k \in Keeps : least <= k) =>
      LET all == {id \in DOMAIN rows : rows[id].session = s}
          Seen(id) == \E v \in Visible(s) : Worth(v) >= Worth(id)
      IN /\ Cardinality(Visible(s)) >= least \/ all = Visible(s)
         /\ least > 0 /\ JudgedOnce(s) => \A id \in all : Seen(id)

\* A signal to extract memories does not go away by itself: events are never
\* removed, and coverage, which comes and goes, is no part of it.
ExtractionSignalStays ==
  [][\A s \in Sessions, threshold \in 1..MaxEvents :
       ShouldExtract(s, threshold) => ShouldExtract(s, threshold)']_vars

\* Replay produces the same visible state (ADR-0016): with nobody writing, what
\* a rebuild would compute is what is there.
RebuildSeesTheSame ==
  (\A p \in Procs : pc[p] = "idle") =>
    \A id \in DOMAIN rows : SameButTime(Replayed[id], rows[id])
=============================================================================
