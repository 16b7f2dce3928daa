------------------------- MODULE ObservationsProofs -------------------------
(***************************************************************************)
(* Observations, for any number of processes and sessions and any digest:  *)
(* whatever the processes interleave and wherever they stop, what a reader *)
(* sees is in the log, each prune after what it prunes, every observation  *)
(* rests on events of its session, and a signal to extract stays.          *)
(***************************************************************************)
EXTENDS Observations, SequenceTheorems, FiniteSetTheorems, TLAPS

ReplayRows == INSTANCE DataLemmas WITH Op <- RowsAfter
ReplayMarks == INSTANCE DataLemmas WITH Op <- MarkersAfter
TakeDrafts == INSTANCE DataLemmas WITH Op <- TakeDraft

-----------------------------------------------------------------------------
(* The inductive invariant. *)

\* An observation that rests on events of its session.
GoodRow(row) ==
  /\ row \in Rows /\ IdOf(row) \in Nat
  /\ row.sources # {} /\ row.sources \subseteq EventsOf(row.session)

GoodRows(db) == \A id \in DOMAIN db : GoodRow(db[id]) /\ id = IdOf(db[id])

\* The observations that were ever appended.
Recorded == {log[i].id : i \in {j \in DOMAIN log : log[j].kind = "record"}}

\* A line a process may append or has appended: a prune names what was recorded.
GoodLine(line) ==
  \/ /\ line \in [kind : {"record"}, id : Nat, row : Rows]
     /\ GoodRow(line.row) /\ line.id = IdOf(line.row)
  \/ /\ line \in [kind : {"prune"}, marker : Markers]
     /\ line.marker.pruned \subseteq Recorded

\* A rebuild that reads the line finds what it says, or refused it for a row of
\* the same id.
Logged(line) ==
  IF line.kind = "record" THEN line.id \in DOMAIN Replayed ELSE line.marker \in ReplayedMarkers

Items(s) == [draft : Drafts, sources : {sources \in SUBSET EventsOf(s) : sources # {}}]

DraftsLeft(j) == j.session \in Sessions /\ j.rest \in Seq(Items(j.session)) /\ j.rest # <<>>

\* What a process has read, or checked, and acts on later.
JobOK(label, j) ==
  /\ label = "next" => DraftsLeft(j)
  /\ label = "cover" => j.session \in Sessions /\ j.listed \subseteq Recorded
  /\ label \in {"append", "apply"} => GoodLine(j.line) /\ (j.rest # <<>> => DraftsLeft(j))
  /\ label = "apply" => Logged(j.line)

JobsOK == \A p \in Procs : JobOK(pc[p], job[p])

ReplayOK ==
  /\ GoodRows(Replayed) /\ DOMAIN Replayed \subseteq Recorded
  /\ ReplayedMarkers \subseteq Markers

Inv == TypeOK /\ ShownIsLogged /\ GoodRows(rows) /\ ReplayOK /\ JobsOK

-----------------------------------------------------------------------------
(* The operators of the model. *)

LEMMA ReplayIsFold == Replayed = ReplayRows!Fold(NoRows, log)
BY DEF Replayed, ReplayRows!Fold, ReplayRows!FoldLeft, FoldLeft, ReplayRows!MapThenFoldSet,
       MapThenFoldSet, ReplayRows!Max, Max

LEMMA ReplayMarkersIsFold == ReplayedMarkers = ReplayMarks!Fold({}, log)
BY DEF ReplayedMarkers, ReplayMarks!Fold, ReplayMarks!FoldLeft, FoldLeft,
       ReplayMarks!MapThenFoldSet, MapThenFoldSet, ReplayMarks!Max, Max

LEMMA ReplayOfNothing ==
  ASSUME log = <<>> PROVE Replayed = NoRows /\ ReplayedMarkers = {}
BY ReplayIsFold, ReplayMarkersIsFold, ReplayRows!FoldEmpty, ReplayMarks!FoldEmpty

\* A line that is appended is replayed last.
LEMMA ReplayOfAppend ==
  ASSUME log \in Seq(Lines), NEW line \in Lines, log' = Append(log, line)
  PROVE  /\ Replayed' = RowsAfter(Replayed, line)
         /\ ReplayedMarkers' = MarkersAfter(ReplayedMarkers, line)
<1>1. Replayed' = ReplayRows!Fold(NoRows, log')
  BY DEF Replayed, ReplayRows!Fold, ReplayRows!FoldLeft, FoldLeft, ReplayRows!MapThenFoldSet,
         MapThenFoldSet, ReplayRows!Max, Max
<1>2. ReplayedMarkers' = ReplayMarks!Fold({}, log')
  BY DEF ReplayedMarkers, ReplayMarks!Fold, ReplayMarks!FoldLeft, FoldLeft,
         ReplayMarks!MapThenFoldSet, MapThenFoldSet, ReplayMarks!Max, Max
<1>3. ReplayRows!Fold(NoRows, Append(log, line)) = RowsAfter(ReplayRows!Fold(NoRows, log), line)
  BY ReplayRows!FoldAppend
<1>4. ReplayMarks!Fold({}, Append(log, line)) = MarkersAfter(ReplayMarks!Fold({}, log), line)
  BY ReplayMarks!FoldAppend
<1> QED BY <1>1, <1>2, <1>3, <1>4, ReplayIsFold, ReplayMarkersIsFold

LEMMA ReplayUnchanged ==
  UNCHANGED log => UNCHANGED Replayed /\ UNCHANGED ReplayedMarkers /\ UNCHANGED Recorded
BY DEF Replayed, ReplayedMarkers, Recorded

\* A row is added under its id, or none is.
LEMMA RowAdded ==
  ASSUME NEW db, GoodRows(db), NEW line, GoodLine(line)
  PROVE  /\ GoodRows(RowsAfter(db, line))
         /\ line.kind = "record" => DOMAIN RowsAfter(db, line) = DOMAIN db \cup {line.id}
         /\ line.kind # "record" => RowsAfter(db, line) = db
<1>1. CASE line.kind = "record" /\ line.id \notin DOMAIN db
  <2>1. GoodRow(line.row) /\ line.id = IdOf(line.row)
    BY <1>1 DEF GoodLine
  <2>2. DOMAIN RowsAfter(db, line) = DOMAIN db \cup {line.id}
    BY <1>1 DEF RowsAfter
  <2>3. \A id \in DOMAIN db \cup {line.id} :
          RowsAfter(db, line)[id] = IF id = line.id THEN line.row ELSE db[id]
    BY <1>1 DEF RowsAfter
  <2> QED BY <1>1, <2>1, <2>2, <2>3 DEF GoodRows
<1>2. CASE ~(line.kind = "record" /\ line.id \notin DOMAIN db)
  BY <1>2 DEF RowsAfter
<1> QED BY <1>1, <1>2

LEMMA GoodLineIsLine ==
  ASSUME NEW line, GoodLine(line)
  PROVE  /\ line \in Lines /\ line.kind \in {"record", "prune"}
         /\ line.kind = "prune" => line.marker \in Markers /\ line.marker.pruned \subseteq Recorded
         /\ line.kind = "record" => line.id \in Nat
BY DEF GoodLine, Lines

\* The row of an observation whose sources were found.
LEMMA RowMade ==
  ASSUME TypeOK, NEW s \in Sessions, NEW draft \in Drafts, NEW sources, SourcesFound(s, sources)
  PROVE  /\ GoodRow(RowOf(s, draft, sources))
         /\ RowOf(s, draft, sources).session = s
<1> DEFINE row == RowOf(s, draft, sources)
<1>1. EventsOf(s) \subseteq 1..MaxEvents
  <2>1. DOMAIN events = 1..Len(events) /\ Len(events) \in Nat /\ MaxEvents \in Nat
    BY LenProperties, ObservationsAssumption DEF TypeOK
  <2> QED BY <2>1 DEF EventsOf, TypeOK
<1>2. sources \in SUBSET (1..MaxEvents) /\ sources # {} /\ sources \subseteq EventsOf(s)
  BY <1>1 DEF SourcesFound
<1>3. /\ draft.content \in Nat /\ draft.relevance \in DOMAIN Ranks /\ draft.derivation \in Nat
      /\ clock \in Nat
  BY ObservationsAssumption DEF Ranks, TypeOK
<1>4. row \in Rows /\ row.session = s /\ row.content = draft.content /\ row.sources = sources
  BY <1>2, <1>3 DEF RowOf, Rows
<1>5. IdOf(row) \in Nat
  BY <1>2, <1>4, ObservationsAssumption DEF IdOf
<1> QED BY <1>2, <1>4, <1>5 DEF GoodRow

\* A function whose values are all in a smaller set.
LEMMA Narrowed ==
  ASSUME NEW A, NEW B, NEW S, NEW f \in [A -> B], \A x \in A : f[x] \in S
  PROVE  f \in [A -> S]
OBVIOUS

\* What is left of an observer's drafts has sources, in the session.
LEMMA DraftsTaken ==
  ASSUME NEW s, NEW proposed \in Observers,
         \A i \in DOMAIN proposed : proposed[i].sources \subseteq EventsOf(s)
  PROVE  FoldLeft(TakeDraft, [covered |-> Covered(s), todo |-> <<>>], proposed).todo
           \in Seq(Items(s))
<1> DEFINE S == [draft : Drafts, sources : SUBSET EventsOf(s)]
           T == [covered : SUBSET EventsOf(s), todo : Seq(Items(s))]
           start == [covered |-> Covered(s), todo |-> <<>>]
<1>1. proposed \in Seq(S)
  <2>1. proposed \in Seq([draft : Drafts, sources : SUBSET Nat])
    BY ObservationsAssumption
  <2>2. /\ Len(proposed) \in Nat /\ DOMAIN proposed = 1..Len(proposed)
        /\ proposed \in [1..Len(proposed) -> [draft : Drafts, sources : SUBSET Nat]]
    BY <2>1, LenProperties
  <2>3. \A i \in 1..Len(proposed) : proposed[i] \in S
    <3> SUFFICES ASSUME NEW i \in 1..Len(proposed) PROVE proposed[i] \in S
      OBVIOUS
    <3>1. proposed[i] \in [draft : Drafts, sources : SUBSET Nat]
      BY <2>2
    <3>2. proposed[i].sources \subseteq EventsOf(s)
      BY <2>2
    <3> QED BY <3>1, <3>2
  <2>4. proposed \in [1..Len(proposed) -> S]
    <3> DEFINE indexes == 1..Len(proposed)
               wide == [draft : Drafts, sources : SUBSET Nat]
    <3>1. proposed \in [indexes -> wide] /\ \A i \in indexes : proposed[i] \in S
      BY <2>2, <2>3
    <3> HIDE DEF S, indexes, wide
    <3>2. proposed \in [indexes -> S]
      BY ONLY <3>1, Narrowed
    <3> QED BY ONLY <3>2 DEF indexes
  <2>5. proposed \in UNION {[1..n -> S] : n \in Nat}
    BY <2>2, <2>4
  <2> HIDE DEF S
  <2> QED BY <2>5, SeqDef
<1>2. start \in T
  BY EmptySeq DEF Covered
<1>3. \A a \in T, x \in S : TakeDraft(a, x) \in T
  <2> SUFFICES ASSUME NEW a \in T, NEW x \in S PROVE TakeDraft(a, x) \in T
    OBVIOUS
  <2> DEFINE left == x.sources \ a.covered
             kept == [x EXCEPT !.sources = left]
  <2>1. a.covered \cup left \in SUBSET EventsOf(s)
    OBVIOUS
  <2>2. ASSUME left # {} PROVE Append(a.todo, kept) \in Seq(Items(s))
    <3>1. kept \in Items(s)
      BY <2>2 DEF Items
    <3> QED BY <3>1, AppendProperties
  <2> QED BY <2>1, <2>2 DEF TakeDraft
<1> HIDE DEF S, T, start
<1>4. TakeDrafts!Fold(start, proposed) \in T
  BY <1>1, <1>2, <1>3, TakeDrafts!FoldStays
<1>5. TakeDrafts!Fold(start, proposed) = FoldLeft(TakeDraft, start, proposed)
  BY DEF TakeDrafts!Fold, TakeDrafts!FoldLeft, FoldLeft, TakeDrafts!MapThenFoldSet,
         MapThenFoldSet, TakeDrafts!Max, Max
<1> QED BY <1>4, <1>5 DEF T, start

-----------------------------------------------------------------------------
(* What a step leaves as it was. *)

\* Events, lines and what a rebuild would find are only added to.
Grows ==
  /\ \A s : EventsOf(s) \subseteq EventsOf(s)'
  /\ Recorded \subseteq Recorded'
  /\ DOMAIN Replayed \subseteq (DOMAIN Replayed)'
  /\ ReplayedMarkers \subseteq ReplayedMarkers'

LEMMA NothingGrows == UNCHANGED <<events, log>> => Grows
BY ReplayUnchanged DEF Grows, EventsOf

LEMMA GoodRowStays ==
  ASSUME Grows, NEW row, GoodRow(row) PROVE GoodRow(row)'
BY DEF Grows, GoodRow, IdOf

LEMMA DraftsLeftStay ==
  ASSUME Grows, NEW j, DraftsLeft(j) PROVE DraftsLeft(j)'
<1>1. j.rest \in Seq(Items(j.session)')
  <2>1. Items(j.session) \subseteq Items(j.session)'
    BY DEF Items, Grows
  <2> QED BY <2>1, SeqDef DEF DraftsLeft
<1> QED BY <1>1 DEF DraftsLeft

LEMMA GoodLineStays ==
  ASSUME Grows, NEW line, GoodLine(line) PROVE GoodLine(line)'
<1>1. CASE /\ line \in [kind : {"record"}, id : Nat, row : Rows]
           /\ GoodRow(line.row) /\ line.id = IdOf(line.row)
  <2>1. GoodRow(line.row)'
    BY <1>1, GoodRowStays
  <2> QED BY <1>1, <2>1 DEF GoodLine
<1>2. CASE /\ line \in [kind : {"prune"}, marker : Markers]
           /\ line.marker.pruned \subseteq Recorded
  BY <1>2 DEF GoodLine, Grows
<1> QED BY <1>1, <1>2 DEF GoodLine

LEMMA JobStays ==
  ASSUME Grows, NEW label, NEW j, JobOK(label, j) PROVE JobOK(label, j)'
<1>1. label = "next" => DraftsLeft(j)'
  BY DraftsLeftStay DEF JobOK
<1>2. label = "cover" => j.session \in Sessions /\ j.listed \subseteq Recorded'
  BY DEF JobOK, Grows
<1>3. label \in {"append", "apply"} => GoodLine(j.line)' /\ (j.rest # <<>> => DraftsLeft(j)')
  BY DraftsLeftStay, GoodLineStays DEF JobOK
<1>4. label = "apply" => Logged(j.line)'
  BY DEF JobOK, Grows, Logged
<1> QED BY <1>1, <1>2, <1>3, <1>4 DEF JobOK

\* One process moves, and what it holds then is in order.
LEMMA OneMoves ==
  ASSUME Inv, Grows, NEW p \in Procs, NEW label, NEW j,
         pc' = [pc EXCEPT ![p] = label], DOMAIN job' = Procs, job'[p] = j,
         \A q \in Procs : q # p => job'[q] = job[q],
         label \in {"idle", "next", "cover", "append", "apply"}, JobOK(label, j)'
  PROVE  /\ JobsOK'
         /\ pc' \in [Procs -> {"idle", "next", "cover", "append", "apply"}]
<1>1. JobsOK /\ pc \in [Procs -> {"idle", "next", "cover", "append", "apply"}]
  BY DEF Inv, TypeOK
<1>2. pc'[p] = label /\ job'[p] = j
  BY <1>1
<1>3. \A q \in Procs : q # p => pc'[q] = pc[q] /\ job'[q] = job[q]
  BY <1>1
<1>4. ASSUME NEW q \in Procs PROVE JobOK(pc[q], job[q])'
  <2>1. CASE q = p
    BY <1>2, <2>1
  <2>2. CASE q # p
    <3>1. PICK l, k : l = pc[q] /\ k = job[q]
      OBVIOUS
    <3>2. JobOK(l, k)
      BY <1>1, <3>1 DEF JobsOK
    <3>3. JobOK(l, k)'
      BY <3>2, JobStays
    <3>4. pc[q]' = l /\ job[q]' = k
      BY <1>3, <2>2, <3>1
    <3> QED BY <3>3, <3>4
  <2> QED BY <2>1, <2>2
<1> QED BY <1>1, <1>4 DEF JobsOK

\* A step of one process that only reads.
LEMMA ReaderStep ==
  ASSUME Inv, NEW p \in Procs, NEW label, NEW j,
         UNCHANGED <<clock, events, log, rows, markers>>,
         pc' = [pc EXCEPT ![p] = label], job' = [job EXCEPT ![p] = j],
         label \in {"idle", "next", "cover", "append", "apply"}, JobOK(label, j)
  PROVE  Inv'
<1>1. Grows
  BY NothingGrows
<1>2. JobOK(label, j)'
  BY <1>1, JobStays
<1>3. /\ JobsOK' /\ DOMAIN job' = Procs
      /\ pc' \in [Procs -> {"idle", "next", "cover", "append", "apply"}]
  <2>1. DOMAIN job' = Procs /\ job'[p] = j /\ \A q \in Procs : q # p => job'[q] = job[q]
    BY DEF Inv, TypeOK
  <2> QED BY <1>1, <1>2, <2>1, OneMoves
<1>4. UNCHANGED <<Replayed, ReplayedMarkers, Recorded>> /\ \A s : EventsOf(s)' = EventsOf(s)
  BY ReplayUnchanged DEF EventsOf
<1>5. GoodRows(rows)' /\ ReplayOK'
  BY <1>4 DEF Inv, ReplayOK, GoodRows, GoodRow, IdOf
<1>6. TypeOK'
  BY <1>3, <1>4 DEF Inv, TypeOK, IdOf
<1>7. ShownIsLogged'
  BY <1>4 DEF Inv, ShownIsLogged
<1> QED BY <1>3, <1>5, <1>6, <1>7 DEF Inv

LEMMA IdleStep ==
  ASSUME Inv, NEW p \in Procs, UNCHANGED <<clock, events, log, rows, markers>>, Return(p)
  PROVE  Inv'
<1>1. JobOK("idle", NoJob)
  BY DEF JobOK
<1> QED BY <1>1, ReaderStep DEF Return, Goto

-----------------------------------------------------------------------------
(* The calls, up to their appends. *)

LEMMA CallRecordStep ==
  ASSUME Inv, NEW p \in Procs, NEW s \in Sessions, NEW draft \in Drafts, NEW sources,
         CallRecord(p, s, draft, sources)
  PROVE  Inv'
<1>1. PICK row : row = RowOf(s, draft, sources)
  OBVIOUS
<1>2. PICK j : j = [op |-> "line", rest |-> <<>>,
                    line |-> [kind |-> "record", id |-> IdOf(row), row |-> row]]
  OBVIOUS
<1>3. GoodRow(row)
  BY <1>1, RowMade DEF CallRecord, Inv
<1>4. GoodLine([kind |-> "record", id |-> IdOf(row), row |-> row])
  BY <1>3 DEF GoodLine, GoodRow
<1>5. JobOK("append", j)
  BY <1>2, <1>4 DEF JobOK
<1>6. /\ UNCHANGED <<clock, events, log, rows, markers>>
      /\ pc' = [pc EXCEPT ![p] = "append"] /\ job' = [job EXCEPT ![p] = j]
  BY <1>1, <1>2 DEF CallRecord, Goto
<1> QED BY <1>5, <1>6, ReaderStep

LEMMA CallCatchUpStep ==
  ASSUME Inv, NEW p \in Procs, NEW s \in Sessions, NEW proposed \in Observers,
         CallCatchUp(p, s, proposed)
  PROVE  Inv'
<1>1. PICK todo : todo = FoldLeft(TakeDraft, [covered |-> Covered(s), todo |-> <<>>], proposed).todo
  OBVIOUS
<1>2. PICK j : j = [op |-> "drafts", session |-> s, rest |-> todo]
  OBVIOUS
<1>3. todo \in Seq(Items(s)) /\ todo # <<>>
  BY <1>1, DraftsTaken DEF CallCatchUp
<1>4. JobOK("next", j)
  BY <1>2, <1>3 DEF JobOK, DraftsLeft
<1>5. /\ UNCHANGED <<clock, events, log, rows, markers>>
      /\ pc' = [pc EXCEPT ![p] = "next"] /\ job' = [job EXCEPT ![p] = j]
  <2>1. job' = [job EXCEPT ![p] = [op |-> "drafts", session |-> s, rest |-> todo]]
    BY <1>1, Zenon DEF CallCatchUp
  <2> QED BY <1>2, <2>1 DEF CallCatchUp, Goto
<1> QED BY <1>4, <1>5, ReaderStep

LEMMA NextDraftStep ==
  ASSUME Inv, NEW p \in Procs, NextDraft(p) PROVE Inv'
<1>1. PICK left : left = job[p]
  OBVIOUS
<1>2. PICK item, rest : item = Head(left.rest) /\ rest = Tail(left.rest)
  OBVIOUS
<1>3. PICK row : row = RowOf(left.session, item.draft, item.sources)
  OBVIOUS
<1>4. PICK id : id = IdOf(row)
  OBVIOUS
<1>5. left.session \in Sessions /\ left.rest \in Seq(Items(left.session)) /\ left.rest # <<>>
  BY <1>1 DEF NextDraft, Inv, JobsOK, JobOK, DraftsLeft
<1>6. item \in Items(left.session) /\ rest \in Seq(Items(left.session))
  BY <1>2, <1>5, HeadTailProperties
<1>7. GoodRow(row) /\ row.session = left.session
  <2>1. item.draft \in Drafts /\ SourcesFound(left.session, item.sources)
    BY <1>6 DEF Items, SourcesFound
  <2> QED BY <1>3, <1>5, <2>1, RowMade DEF Inv
<1>8. rest # <<>> => DraftsLeft([op |-> "drafts", session |-> row.session, rest |-> rest])
  <2>1. row.session \in Sessions /\ rest \in Seq(Items(row.session))
    <3>1. row.session = left.session
      BY ONLY <1>7
    <3> QED BY ONLY <1>5, <1>6, <3>1
  <2> QED BY ONLY <2>1 DEF DraftsLeft
<1>9. UNCHANGED <<clock, events, log, rows, markers>>
  BY DEF NextDraft
<1>10. CASE /\ id \notin DOMAIN rows
            /\ job' = [job EXCEPT ![p] = [op |-> "line", session |-> row.session, rest |-> rest,
                                          line |-> [kind |-> "record", id |-> id, row |-> row]]]
            /\ Goto(p, "append")
  <2>1. PICK j : j = [op |-> "line", session |-> row.session, rest |-> rest,
                      line |-> [kind |-> "record", id |-> id, row |-> row]]
    OBVIOUS
  <2>2. GoodLine(j.line)
    BY <1>4, <1>7, <2>1 DEF GoodLine, GoodRow
  <2>3. rest # <<>> => DraftsLeft(j)
    BY <1>8, <2>1 DEF DraftsLeft
  <2>4. JobOK("append", j)
    BY <2>1, <2>2, <2>3 DEF JobOK
  <2>5. pc' = [pc EXCEPT ![p] = "append"] /\ job' = [job EXCEPT ![p] = j]
    BY <1>10, <2>1 DEF Goto
  <2> QED BY <1>9, <2>4, <2>5, ReaderStep
<1>11. CASE rest # <<>> /\ job' = [job EXCEPT ![p].rest = rest] /\ UNCHANGED pc
  <2>1. PICK j : j = [left EXCEPT !.rest = rest]
    OBVIOUS
  <2>2. JobOK("next", j)
    BY <1>11, <1>5, <1>6, <2>1 DEF JobOK, DraftsLeft
  <2>3. pc' = [pc EXCEPT ![p] = "next"] /\ job' = [job EXCEPT ![p] = j]
    BY <1>1, <1>11, <2>1 DEF NextDraft, Inv, TypeOK
  <2> QED BY <1>9, <2>2, <2>3, ReaderStep
<1>12. CASE Return(p)
  BY <1>9, <1>12, IdleStep
<1> QED BY <1>1, <1>2, <1>3, <1>4, <1>10, <1>11, <1>12 DEF NextDraft

LEMMA CallPruneStep ==
  ASSUME Inv, NEW p \in Procs, NEW s \in Sessions, NEW keep, CallPrune(p, s, keep)
  PROVE  Inv'
<1>1. PICK j : j = [op |-> "listed", session |-> s, keep |-> keep, listed |-> Visible(s)]
  OBVIOUS
<1>2. Visible(s) \subseteq Recorded
  BY DEF Visible, Inv, ShownIsLogged, ReplayOK
<1>3. JobOK("cover", j)
  BY <1>1, <1>2 DEF JobOK
<1>4. /\ UNCHANGED <<clock, events, log, rows, markers>>
      /\ pc' = [pc EXCEPT ![p] = "cover"] /\ job' = [job EXCEPT ![p] = j]
  BY <1>1 DEF CallPrune, Goto
<1> QED BY <1>3, <1>4, ReaderStep

LEMMA RecordedAreIds == TypeOK => Recorded \subseteq Nat
<1> SUFFICES ASSUME TypeOK, NEW i \in DOMAIN log, log[i].kind = "record" PROVE log[i].id \in Nat
  BY DEF Recorded
<1>1. log[i] \in Lines
  BY LenProperties, ElementOfSeq DEF TypeOK
<1> QED BY <1>1 DEF Lines

LEMMA CheckCoverageStep ==
  ASSUME Inv, NEW p \in Procs, CheckCoverage(p) PROVE Inv'
<1>1. PICK read : read = job[p]
  OBVIOUS
<1>2. read.session \in Sessions /\ read.listed \subseteq Recorded
  BY <1>1 DEF CheckCoverage, Inv, JobsOK, JobOK
<1>3. PICK marker : marker = [session |-> read.session, ts |-> clock,
                              pruned |-> Dropped(read.listed, read.keep)]
  OBVIOUS
<1>4. PICK j : j = [op |-> "line", rest |-> <<>>, line |-> [kind |-> "prune", marker |-> marker]]
  OBVIOUS
<1>5. marker \in Markers /\ marker.pruned \subseteq Recorded
  <2>1. Dropped(read.listed, read.keep) \subseteq read.listed
    BY DEF Dropped
  <2>2. clock \in Nat /\ Recorded \subseteq Nat
    BY ObservationsAssumption, RecordedAreIds DEF Inv, TypeOK
  <2> QED BY <1>2, <1>3, <2>1, <2>2 DEF Markers
<1>6. GoodLine([kind |-> "prune", marker |-> marker])
  BY <1>5 DEF GoodLine
<1>7. JobOK("append", j)
  BY <1>4, <1>6 DEF JobOK
<1>8. UNCHANGED <<clock, events, log, rows, markers>>
  BY DEF CheckCoverage
<1>9. CASE Return(p)
  BY <1>8, <1>9, IdleStep
<1>10. CASE ~Return(p)
  <2>1. pc' = [pc EXCEPT ![p] = "append"] /\ job' = [job EXCEPT ![p] = j]
    BY <1>1, <1>3, <1>4, <1>10 DEF CheckCoverage, Goto
  <2> QED BY <1>7, <1>8, <2>1, ReaderStep
<1> QED BY <1>9, <1>10

-----------------------------------------------------------------------------
(* The steps that write. *)

LEMMA RecordEventStep ==
  ASSUME Inv, NEW s \in Sessions, NEW kind \in Kinds, RecordEvent(s, kind) PROVE Inv'
<1>1. PICK event : event = [session |-> s, kind |-> kind]
  OBVIOUS
<1>2. /\ event \in Events /\ events' = Append(events, event) /\ Len(events) < MaxEvents
      /\ UNCHANGED <<clock, log, rows, markers, pc, job>>
  BY <1>1 DEF RecordEvent, Events
<1>3. /\ events' \in Seq(Events) /\ Len(events') = Len(events) + 1 /\ Len(events) \in Nat
      /\ DOMAIN events = 1..Len(events) /\ DOMAIN events' = 1..(Len(events) + 1)
      /\ \A i \in DOMAIN events : events'[i] = events[i]
  BY <1>2, AppendProperties, LenProperties DEF Inv, TypeOK
<1>4. Grows
  <2>1. \A t : EventsOf(t) \subseteq EventsOf(t)'
    BY <1>3 DEF EventsOf
  <2> QED BY <1>2, <2>1, ReplayUnchanged DEF Grows
<1>5. Len(events') <= MaxEvents
  BY <1>2, <1>3, ObservationsAssumption
<1>6. \A db : GoodRows(db) => GoodRows(db)'
  BY <1>4, GoodRowStays DEF GoodRows, IdOf
<1>7. PICK shown, replayed : shown = rows /\ replayed = Replayed
  OBVIOUS
<1>8. rows' = shown /\ Replayed' = replayed
  BY <1>2, <1>7, ReplayUnchanged
<1>9. GoodRows(shown)' /\ GoodRows(replayed)'
  BY <1>6, <1>7 DEF Inv, ReplayOK
<1>10. GoodRows(rows)' /\ GoodRows(Replayed)'
  BY <1>8, <1>9 DEF GoodRows, GoodRow, IdOf
<1>11. ReplayOK'
  BY <1>2, <1>10, ReplayUnchanged DEF Inv, ReplayOK
<1>12. JobsOK'
  <2> SUFFICES ASSUME NEW q \in Procs PROVE JobOK(pc[q], job[q])'
    BY DEF JobsOK
  <2>1. PICK l, k : l = pc[q] /\ k = job[q]
    OBVIOUS
  <2>2. JobOK(l, k)'
    BY <1>4, <2>1, JobStays DEF Inv, JobsOK
  <2>3. pc[q]' = l /\ job[q]' = k
    BY <1>2, <2>1
  <2> QED BY <2>2, <2>3
<1>13. ShownIsLogged'
  BY <1>2, ReplayUnchanged DEF Inv, ShownIsLogged
<1>14. TypeOK'
  BY <1>2, <1>3, <1>5, <1>10 DEF Inv, TypeOK, GoodRows, GoodRow
<1> QED BY <1>10, <1>11, <1>12, <1>13, <1>14 DEF Inv

LEMMA AppendLineStep ==
  ASSUME Inv, NEW p \in Procs, AppendLine(p) PROVE Inv'
<1>1. PICK j, line : j = job[p] /\ line = j.line
  OBVIOUS
<1>2. /\ log' = Append(log, line) /\ pc' = [pc EXCEPT ![p] = "apply"]
      /\ UNCHANGED <<clock, events, rows, markers, job>>
  BY <1>1 DEF AppendLine, Goto
<1>3. JobOK("append", j) /\ GoodLine(line)
  BY <1>1 DEF AppendLine, Inv, JobsOK, JobOK
<1>4. /\ line \in Lines /\ line.kind \in {"record", "prune"}
      /\ line.kind = "prune" => line.marker \in Markers /\ line.marker.pruned \subseteq Recorded
  BY <1>3, GoodLineIsLine
<1>5. log \in Seq(Lines)
  BY DEF Inv, TypeOK
<1>6. PICK n : n = Len(log) + 1
  OBVIOUS
<1>7. /\ log' \in Seq(Lines) /\ DOMAIN log = 1..(n - 1) /\ n - 1 \in Nat
      /\ DOMAIN log' = DOMAIN log \cup {n}
      /\ \A i \in DOMAIN log : log'[i] = log[i]
      /\ log'[n] = line
  BY <1>2, <1>4, <1>5, <1>6, AppendProperties, LenProperties
<1>8. Recorded' = IF line.kind = "record" THEN Recorded \cup {line.id} ELSE Recorded
  BY <1>7 DEF Recorded
<1>9. Replayed' = RowsAfter(Replayed, line) /\ ReplayedMarkers' = MarkersAfter(ReplayedMarkers, line)
  BY <1>2, <1>4, <1>5, ReplayOfAppend
<1>10. PICK old : old = Replayed
  OBVIOUS
<1>11. /\ GoodRows(RowsAfter(old, line))
       /\ line.kind = "record" => DOMAIN RowsAfter(old, line) = DOMAIN old \cup {line.id}
       /\ line.kind # "record" => RowsAfter(old, line) = old
  BY <1>3, <1>10, RowAdded DEF Inv, ReplayOK
<1>12. \A s : EventsOf(s)' = EventsOf(s)
  BY <1>2 DEF EventsOf
<1>13. DOMAIN Replayed' = IF line.kind = "record" THEN DOMAIN Replayed \cup {line.id}
                                                 ELSE DOMAIN Replayed
  BY <1>9, <1>10, <1>11
<1>14. Grows
  BY <1>8, <1>9, <1>12, <1>13 DEF Grows, MarkersAfter
<1>15. ReplayOK'
  <2>1. GoodRows(Replayed)'
    BY <1>9, <1>10, <1>11, <1>12 DEF GoodRows, GoodRow, IdOf
  <2>2. DOMAIN Replayed' \subseteq Recorded'
    BY <1>8, <1>13 DEF Inv, ReplayOK
  <2>3. ReplayedMarkers' \subseteq Markers
    BY <1>4, <1>9 DEF Inv, ReplayOK, MarkersAfter
  <2> QED BY <2>1, <2>2, <2>3 DEF ReplayOK
<1>16. JobOK("apply", j)'
  <2>1. GoodLine(line)' /\ (j.rest # <<>> => DraftsLeft(j)')
    BY <1>3, <1>14, GoodLineStays, DraftsLeftStay DEF JobOK
  <2>2. Logged(line)'
    BY <1>4, <1>9, <1>13 DEF Logged, MarkersAfter
  <2> QED BY <1>1, <2>1, <2>2 DEF JobOK
<1>17. JobsOK' /\ pc' \in [Procs -> {"idle", "next", "cover", "append", "apply"}]
  <2>1. DOMAIN job' = Procs /\ job'[p] = j /\ \A q \in Procs : q # p => job'[q] = job[q]
    BY <1>1, <1>2 DEF Inv, TypeOK
  <2> QED BY <1>2, <1>14, <1>16, <2>1, OneMoves
<1>18. ShownIsLogged'
  <2>1. DOMAIN rows' \subseteq DOMAIN Replayed' /\ markers' \subseteq ReplayedMarkers'
    BY <1>2, <1>9, <1>13 DEF Inv, ShownIsLogged, MarkersAfter
  <2>2. ASSUME NEW i \in DOMAIN log', log'[i].kind = "prune", NEW id \in log'[i].marker.pruned
        PROVE  \E k \in 1..(i - 1) : log'[k].kind = "record" /\ log'[k].id = id
    <3>1. CASE i \in DOMAIN log
      <4>1. PICK k \in 1..(i - 1) : log[k].kind = "record" /\ log[k].id = id
        BY <1>7, <2>2, <3>1 DEF Inv, ShownIsLogged
      <4>2. k \in DOMAIN log
        BY <1>7, <3>1
      <4> QED BY <1>7, <4>1, <4>2
    <3>2. CASE i = n
      <4>1. id \in Recorded
        BY <1>4, <1>7, <2>2, <3>2
      <4>2. PICK k \in DOMAIN log : log[k].kind = "record" /\ log[k].id = id
        BY <4>1 DEF Recorded
      <4> QED BY <1>7, <3>2, <4>2
    <3> QED BY <1>7, <3>1, <3>2
  <2> QED BY <2>1, <2>2 DEF ShownIsLogged
<1>19. GoodRows(rows)'
  BY <1>2, <1>12 DEF Inv, GoodRows, GoodRow, IdOf
<1>20. TypeOK'
  BY <1>2, <1>7, <1>12, <1>17 DEF Inv, TypeOK, IdOf
<1> QED BY <1>15, <1>17, <1>18, <1>19, <1>20 DEF Inv

\* What is shown becomes other rows and markers that are in order and in the log.
LEMMA ShownChanges ==
  ASSUME Inv, UNCHANGED <<clock, events, log>>, GoodRows(rows)', markers' \subseteq Markers,
         DOMAIN rows' \subseteq DOMAIN Replayed, markers' \subseteq ReplayedMarkers,
         JobsOK', DOMAIN job' = Procs,
         pc' \in [Procs -> {"idle", "next", "cover", "append", "apply"}]
  PROVE  Inv'
<1>1. UNCHANGED <<Replayed, ReplayedMarkers, Recorded>> /\ \A s : EventsOf(s)' = EventsOf(s)
  BY ReplayUnchanged DEF EventsOf
<1>2. ReplayOK'
  BY <1>1 DEF Inv, ReplayOK, GoodRows, GoodRow, IdOf
<1>3. TypeOK'
  BY <1>1 DEF Inv, TypeOK, GoodRows, GoodRow
<1>4. ShownIsLogged'
  BY <1>1 DEF Inv, ShownIsLogged
<1> QED BY <1>2, <1>3, <1>4 DEF Inv

LEMMA ApplyLineStep ==
  ASSUME Inv, NEW p \in Procs, ApplyLine(p) PROVE Inv'
<1>1. PICK read, line : read = job[p] /\ line = read.line
  OBVIOUS
<1>2. /\ rows' = RowsAfter(rows, line) /\ markers' = MarkersAfter(markers, line)
      /\ UNCHANGED <<clock, events, log>>
  BY <1>1 DEF ApplyLine
<1>3. /\ GoodLine(line) /\ (read.rest # <<>> => DraftsLeft(read)) /\ Logged(line)
  BY <1>1 DEF ApplyLine, Inv, JobsOK, JobOK
<1>4. /\ line.kind \in {"record", "prune"}
      /\ line.kind = "prune" => line.marker \in Markers
  BY <1>3, GoodLineIsLine
<1>5. PICK shown : shown = rows
  OBVIOUS
<1>6. /\ GoodRows(RowsAfter(shown, line))
      /\ line.kind = "record" => DOMAIN RowsAfter(shown, line) = DOMAIN shown \cup {line.id}
      /\ line.kind # "record" => RowsAfter(shown, line) = shown
  BY <1>3, <1>5, RowAdded DEF Inv
<1>7. \A s : EventsOf(s)' = EventsOf(s)
  BY <1>2 DEF EventsOf
<1>8. GoodRows(rows)'
  BY <1>2, <1>5, <1>6, <1>7 DEF GoodRows, GoodRow, IdOf
<1>9. DOMAIN rows' \subseteq DOMAIN Replayed
  BY <1>2, <1>3, <1>4, <1>5, <1>6 DEF Logged, Inv, ShownIsLogged
<1>10. markers' \subseteq ReplayedMarkers /\ markers' \subseteq Markers
  BY <1>2, <1>3, <1>4 DEF Logged, Inv, ShownIsLogged, TypeOK, MarkersAfter
<1>11. Grows
  BY <1>2, NothingGrows
<1>12. PICK j, label :
         /\ job' = [job EXCEPT ![p] = j] /\ pc' = [pc EXCEPT ![p] = label]
         /\ label \in {"idle", "next"} /\ JobOK(label, j)
  <2> DEFINE drafts == [op |-> "drafts", session |-> read.session, rest |-> read.rest]
  <2>1. CASE read.rest # <<>> /\ Accepts(rows, line)
    <3>1. JobOK("next", drafts)
      BY <1>3, <2>1 DEF JobOK, DraftsLeft
    <3>2. job' = [job EXCEPT ![p] = drafts] /\ pc' = [pc EXCEPT ![p] = "next"]
      BY <1>1, <2>1 DEF ApplyLine, Goto
    <3> QED BY <3>1, <3>2
  <2>2. CASE ~(read.rest # <<>> /\ Accepts(rows, line))
    <3>1. JobOK("idle", NoJob)
      BY DEF JobOK
    <3>2. job' = [job EXCEPT ![p] = NoJob] /\ pc' = [pc EXCEPT ![p] = "idle"]
      BY <1>1, <2>2 DEF ApplyLine, Return, Goto
    <3> QED BY <3>1, <3>2
  <2> QED BY <2>1, <2>2
<1>13. /\ JobsOK' /\ DOMAIN job' = Procs
       /\ pc' \in [Procs -> {"idle", "next", "cover", "append", "apply"}]
  <2>1. DOMAIN job' = Procs /\ job'[p] = j /\ \A q \in Procs : q # p => job'[q] = job[q]
    BY <1>12 DEF Inv, TypeOK
  <2>2. JobOK(label, j)'
    BY <1>11, <1>12, JobStays
  <2> QED BY <1>11, <1>12, <2>1, <2>2, OneMoves
<1> QED BY <1>2, <1>8, <1>9, <1>10, <1>13, ShownChanges

LEMMA RebuildStep == ASSUME Inv, Rebuild PROVE Inv'
<1>1. /\ rows' = Replayed /\ markers' = ReplayedMarkers
      /\ UNCHANGED <<clock, events, log, pc, job>>
  BY DEF Rebuild
<1>2. UNCHANGED <<Replayed, ReplayedMarkers, Recorded>> /\ \A s : EventsOf(s)' = EventsOf(s)
  BY <1>1, ReplayUnchanged DEF EventsOf
<1>3. GoodRows(rows)'
  BY <1>1, <1>2 DEF Inv, ReplayOK, GoodRows, GoodRow, IdOf
<1>4. markers' \subseteq Markers /\ DOMAIN rows' \subseteq DOMAIN Replayed
      /\ markers' \subseteq ReplayedMarkers
  BY <1>1 DEF Inv, ReplayOK
<1>5. JobsOK'
  BY <1>1 DEF Rebuild, JobsOK, JobOK
<1>6. DOMAIN job' = Procs /\ pc' \in [Procs -> {"idle", "next", "cover", "append", "apply"}]
  BY <1>1 DEF Inv, TypeOK
<1> QED BY <1>1, <1>3, <1>4, <1>5, <1>6, ShownChanges

LEMMA ClockStep ==
  ASSUME Inv, clock' \in 0..MaxClock, UNCHANGED <<events, log, rows, markers, pc, job>>
  PROVE  Inv'
<1>1. UNCHANGED <<Replayed, ReplayedMarkers, Recorded>> /\ \A s : EventsOf(s)' = EventsOf(s)
  BY ReplayUnchanged DEF EventsOf
<1>2. GoodRows(rows)' /\ ReplayOK' /\ ShownIsLogged'
  BY <1>1 DEF Inv, ReplayOK, ShownIsLogged, GoodRows, GoodRow, IdOf
<1>3. TypeOK'
  BY <1>1 DEF Inv, TypeOK, IdOf
<1>4. JobsOK'
  <2>1. \A q \in Procs : JobOK(pc[q], job[q])'
    <3> SUFFICES ASSUME NEW q \in Procs PROVE JobOK(pc[q], job[q])'
      OBVIOUS
    <3>1. PICK l, k : l = pc[q] /\ k = job[q]
      OBVIOUS
    <3>2. JobOK(l, k)'
      BY <3>1, NothingGrows, JobStays DEF Inv, JobsOK
    <3>3. pc[q]' = l /\ job[q]' = k
      BY <3>1
    <3> QED BY <3>2, <3>3
  <2> QED BY <2>1 DEF JobsOK
<1> QED BY <1>2, <1>3, <1>4 DEF Inv

-----------------------------------------------------------------------------
(* Every step. *)

LEMMA InvInit == Init => Inv
<1> SUFFICES ASSUME Init PROVE Inv
  OBVIOUS
<1>1. Replayed = NoRows /\ ReplayedMarkers = {} /\ DOMAIN NoRows = {}
  BY ReplayOfNothing DEF Init, NoRows
<1>2. TypeOK
  BY <1>1, ObservationsAssumption, EmptySeq DEF Init, TypeOK
<1>3. ShownIsLogged
  BY <1>1 DEF Init, ShownIsLogged
<1>4. GoodRows(rows) /\ ReplayOK
  BY <1>1 DEF Init, ReplayOK, GoodRows
<1>5. JobsOK
  BY DEF Init, JobsOK, JobOK
<1> QED BY <1>2, <1>3, <1>4, <1>5 DEF Inv

LEMMA InvNext == Inv /\ [Next]_vars => Inv'
<1> SUFFICES ASSUME Inv, [Next]_vars PROVE Inv'
  OBVIOUS
<1>1. CASE Tick
  <2>1. clock' \in 0..MaxClock
    BY <1>1, ObservationsAssumption DEF Tick, Inv, TypeOK
  <2> QED BY <1>1, <2>1, ClockStep DEF Tick
<1>2. CASE UNCHANGED vars
  BY <1>2, ClockStep DEF vars, Inv, TypeOK
<1>3. CASE \E s \in Sessions, kind \in Kinds : RecordEvent(s, kind)
  BY <1>3, RecordEventStep
<1>4. CASE Rebuild
  BY <1>4, RebuildStep
<1>5. ASSUME NEW p \in Procs,
             \E s \in Sessions, draft \in Drafts, sources \in SUBSET (DOMAIN events) :
               CallRecord(p, s, draft, sources)
      PROVE  Inv'
  BY <1>5, CallRecordStep
<1>6. ASSUME NEW p \in Procs,
             \E s \in Sessions, proposed \in Observers : CallCatchUp(p, s, proposed)
      PROVE  Inv'
  BY <1>6, CallCatchUpStep
<1>7. ASSUME NEW p \in Procs, \E s \in Sessions, keep \in Keeps : CallPrune(p, s, keep)
      PROVE  Inv'
  BY <1>7, CallPruneStep
<1>8. ASSUME NEW p \in Procs,
             NextDraft(p) \/ CheckCoverage(p) \/ AppendLine(p) \/ ApplyLine(p)
      PROVE  Inv'
  BY <1>8, NextDraftStep, CheckCoverageStep, AppendLineStep, ApplyLineStep
<1>9. ASSUME NEW p \in Procs, AppendFails(p) \/ Crash(p) PROVE Inv'
  BY <1>9, IdleStep DEF AppendFails, Crash
<1> QED BY <1>1, <1>2, <1>3, <1>4, <1>5, <1>6, <1>7, <1>8, <1>9 DEF Next

\* Rows, markers and jobs stay well formed, and each observation rests on events
\* of its own session (record_observation).
THEOREM ObservationsTyped == Spec => []TypeOK
<1>1. Inv => TypeOK
  BY DEF Inv
<1> QED BY <1>1, InvInit, InvNext, PTL DEF Spec

\* What a reader sees is in observations.jsonl, whatever processes interleave and
\* wherever they stop (ADR-0005, ADR-0016).
THEOREM ShownStaysLogged == Spec => []ShownIsLogged
<1>1. Inv => ShownIsLogged
  BY DEF Inv
<1> QED BY <1>1, InvInit, InvNext, PTL DEF Spec

-----------------------------------------------------------------------------
(* The signal to extract. *)

LEMMA EventsFinite == TypeOK => \A s : IsFiniteSet(EventsOf(s))
<1> SUFFICES ASSUME TypeOK, NEW s PROVE IsFiniteSet(EventsOf(s))
  OBVIOUS
<1>1. Len(events) \in Nat /\ DOMAIN events = 1..Len(events)
  BY LenProperties DEF TypeOK
<1>2. IsFiniteSet(1..Len(events))
  BY <1>1, FS_Interval
<1>3. EventsOf(s) \subseteq 1..Len(events)
  BY <1>1 DEF EventsOf
<1> QED BY <1>2, <1>3, FS_Subset

LEMMA EventsFiniteNext == TypeOK' => (\A s : IsFiniteSet(EventsOf(s)))'
BY EventsFinite, PTL

\* Events are only added, by record_event, so a reason that is one of theirs or
\* their number remains.
LEMMA SignalStep ==
  ASSUME Inv, Inv', [Next]_vars, NEW s \in Sessions, NEW threshold \in 1..MaxEvents,
         ShouldExtract(s, threshold)
  PROVE  ShouldExtract(s, threshold)'
<1>1. /\ DOMAIN events \subseteq DOMAIN events'
      /\ \A e \in DOMAIN events : events'[e] = events[e]
  <2>1. CASE UNCHANGED events
    BY <2>1
  <2>2. ASSUME NEW t \in Sessions, NEW kind \in Kinds, RecordEvent(t, kind)
        PROVE  /\ DOMAIN events \subseteq DOMAIN events'
               /\ \A e \in DOMAIN events : events'[e] = events[e]
    <3>1. PICK event : event = [session |-> t, kind |-> kind]
      OBVIOUS
    <3>2. event \in Events /\ events' = Append(events, event) /\ events \in Seq(Events)
      BY <2>2, <3>1 DEF RecordEvent, Events, Inv, TypeOK
    <3>3. /\ DOMAIN events = 1..Len(events) /\ Len(events) \in Nat
          /\ DOMAIN Append(events, event) = 1..(Len(events) + 1)
          /\ \A e \in 1..Len(events) : Append(events, event)[e] = events[e]
      BY ONLY <3>2, AppendProperties, LenProperties
    <3> QED BY ONLY <3>2, <3>3
  <2>3. UNCHANGED events \/ \E t \in Sessions, kind \in Kinds : RecordEvent(t, kind)
    <3>1. CASE Tick \/ Rebuild \/ UNCHANGED vars
      BY <3>1 DEF vars, Tick, Rebuild
    <3>2. ASSUME NEW p \in Procs,
                 \/ \E q \in Sessions, draft \in Drafts, sources \in SUBSET (DOMAIN events) :
                      CallRecord(p, q, draft, sources)
                 \/ \E q \in Sessions, proposed \in Observers : CallCatchUp(p, q, proposed)
                 \/ \E q \in Sessions, keep \in Keeps : CallPrune(p, q, keep)
          PROVE  UNCHANGED events
      BY <3>2 DEF CallRecord, CallCatchUp, CallPrune
    <3>3. ASSUME NEW p \in Procs, NextDraft(p) \/ CheckCoverage(p) PROVE UNCHANGED events
      BY <3>3 DEF NextDraft, CheckCoverage
    <3>4. ASSUME NEW p \in Procs, AppendLine(p) \/ AppendFails(p) \/ ApplyLine(p) \/ Crash(p)
          PROVE  UNCHANGED events
      BY <3>4 DEF AppendLine, AppendFails, ApplyLine, Crash
    <3> QED BY <3>1, <3>2, <3>3, <3>4 DEF Next
  <2> QED BY <2>1, <2>2, <2>3
<1>2. EventsOf(s) \subseteq EventsOf(s)' /\ \A e \in EventsOf(s) : events'[e] = events[e]
  BY <1>1 DEF EventsOf
<1>3. CASE \E k \in Triggers : \E e \in EventsOf(s) : events[e].kind = k
  <2>1. PICK k \in Triggers : \E e \in EventsOf(s)' : events'[e].kind = k
    BY <1>2, <1>3
  <2>2. k # "uncovered_coverage_gap"
    BY DEF Triggers
  <2>3. k \in ExtractionReasons(s, threshold)'
    BY <2>1 DEF ExtractionReasons
  <2> QED BY <2>2, <2>3 DEF ShouldExtract
<1>4. CASE Cardinality(EventsOf(s)) >= threshold
  <2>1. IsFiniteSet(EventsOf(s)) /\ IsFiniteSet(EventsOf(s)')
    BY EventsFinite, EventsFiniteNext DEF Inv
  <2>2. /\ Cardinality(EventsOf(s)) <= Cardinality(EventsOf(s)')
        /\ Cardinality(EventsOf(s)) \in Nat /\ Cardinality(EventsOf(s)') \in Nat
    BY <1>2, <2>1, FS_Subset, FS_CardinalityType
  <2>3. Cardinality(EventsOf(s)') >= threshold
    BY <1>4, <2>2
  <2>4. "event_count_threshold" \in ExtractionReasons(s, threshold)'
    BY <2>3 DEF ExtractionReasons
  <2> QED BY <2>4 DEF ShouldExtract
<1> QED BY <1>3, <1>4 DEF ShouldExtract, ExtractionReasons

\* A signal to extract memories does not go away by itself (extraction_decision).
THEOREM SignalStays == Spec => ExtractionSignalStays
<1>1. Inv /\ Inv' /\ [Next]_vars =>
        [\A s \in Sessions, threshold \in 1..MaxEvents :
           ShouldExtract(s, threshold) => ShouldExtract(s, threshold)']_vars
  BY SignalStep
<1> QED BY <1>1, InvInit, InvNext, PTL DEF Spec, ExtractionSignalStays
=============================================================================
