------------------------------ MODULE LogFiles ------------------------------
(***************************************************************************)
(* The files of one log series (log.rs): the active <series>.jsonl, plain  *)
(* <series>.N.jsonl files a rotation renamed it to, their compressed       *)
(* .N.jsonl.gz and the .gz.tmp being written.  Stores append under the     *)
(* shared advisory lock; opening a store finishes interrupted rotations    *)
(* and rotates under the exclusive one; replay and vacuum hold it too.     *)
(* Writes may be cut short and processes may stop between any two steps.   *)
(*                                                                         *)
(* The series share the lock and nothing else, so one of them is modelled. *)
(* What a line says is left to MemoryStore: lines are numbered.            *)
(***************************************************************************)
EXTENDS Integers, Sequences, FiniteSets, SequencesExt

CONSTANTS
  Procs,      \* processes that open, append to, rebuild or vacuum the memory
  RotateAt,   \* LOG_ROTATE_MAX_LINES
  MaxLines,   \* bound on the lines ever written
  Faults,     \* subset of {"crash", "io_error"}
  Inherited   \* may a truncated archive of an older version be present?

ASSUME LogFilesAssumption ==
  /\ "none" \notin Procs
  /\ RotateAt \in Nat \ {0}
  /\ MaxLines \in Nat \ {0}
  /\ Inherited \in BOOLEAN

VARIABLES
  content,  \* the plain files ever created, by inode
  active,   \* the inode of <series>.jsonl, or NoFile
  plain,    \* the inode of each <series>.N.jsonl, or NoFile
  gz,       \* each <series>.N.jsonl.gz, or NoArchive
  tmp,      \* each <series>.N.jsonl.gz.tmp, or NoArchive
  excl,     \* who holds .lock exclusively, or NoProc
  shared,   \* who holds it shared
  pc,       \* where each process is
  task,     \* what it works on: a line and its file, or a rotation
  started,  \* how many lines writers have begun to append
  acked     \* history: the lines whose append returned

vars == <<content, active, plain, gz, tmp, excl, shared, pc, task, started, acked>>

NoProc == "none"
NoFile == 0
NoArchive == [pieces |-> <<>>, state |-> "absent"]

\* What one write leaves: a line, the line without its newline, or less.
Pieces == [line : 1..MaxLines, end : {"newline", "bare", "cut"}]

\* Every rotation moves at least one line.
Indexes == 1..(MaxLines + 1)

Archives == [pieces : Seq(Pieces), state : {"absent", "truncated", "intact"}]

NoTask == [line |-> 0, inode |-> NoFile, cur |-> 0, rotating |-> FALSE,
           pending |-> {}, stale |-> {}]
Tasks == [line : 0..MaxLines, inode : Nat, cur : Indexes \cup {0}, rotating : BOOLEAN,
          pending : SUBSET Indexes, stale : SUBSET Indexes]

Appending == {"lock", "open", "write", "sync"}
Compressing == {"create", "fill", "install", "drop"}
Opening == {"clean", "rotate", "relock", "rename", "touch"} \cup Compressing

TypeOK ==
  /\ content \in Seq(Seq(Pieces))
  /\ active \in 0..Len(content)
  /\ plain \in [Indexes -> 0..Len(content)]
  /\ gz \in [Indexes -> Archives]
  /\ tmp \in [Indexes -> Archives]
  /\ excl \in Procs \cup {NoProc}
  /\ shared \subseteq Procs
  /\ pc \in [Procs -> {"closed", "idle", "exclusive"} \cup Appending \cup Opening]
  /\ task \in [Procs -> Tasks]
  /\ started \in 0..MaxLines
  /\ acked \subseteq 1..MaxLines

\* A version that compressed in place could leave a truncated archive beside
\* its complete source (tests/operational_policy.rs).
InheritedLine == <<[line |-> 1, end |-> "newline"]>>

Init ==
  /\ active = NoFile
  /\ \/ /\ content = <<>> /\ started = 0 /\ acked = {}
        /\ plain = [i \in Indexes |-> NoFile]
        /\ gz = [i \in Indexes |-> NoArchive]
     \/ /\ Inherited
        /\ content = <<InheritedLine>> /\ started = 1 /\ acked = {1}
        /\ plain = [i \in Indexes |-> IF i = 1 THEN 1 ELSE NoFile]
        /\ gz = [i \in Indexes |-> IF i = 1 THEN [pieces |-> <<>>, state |-> "truncated"]
                                            ELSE NoArchive]
  /\ tmp = [i \in Indexes |-> NoArchive]
  /\ excl = NoProc /\ shared = {}
  /\ pc = [p \in Procs |-> "closed"]
  /\ task = [p \in Procs |-> NoTask]

files == <<content, active, plain, gz, tmp>>
history == <<started, acked>>

GoTo(p, place) == pc' = [pc EXCEPT ![p] = place]
Unlock(p) == excl' = (IF excl = p THEN NoProc ELSE excl) /\ shared' = shared \ {p}

\* try_lock of AverLock::acquire succeeds.
Free == excl = NoProc /\ shared = {}

-----------------------------------------------------------------------------
(* append_jsonl *)

StartAppend(p) ==
  /\ pc[p] = "idle" /\ started < MaxLines
  /\ GoTo(p, "lock")
  /\ started' = started + 1
  /\ task' = [task EXCEPT ![p] = [NoTask EXCEPT !.line = started + 1]]
  /\ UNCHANGED <<files, excl, shared, acked>>

\* Mutant: the active file is opened without waiting for the lock.
LockSharedUnchecked(p) ==
  /\ pc[p] = "lock"
  /\ GoTo(p, "open")
  /\ shared' = shared \cup {p}
  /\ UNCHANGED <<files, excl, task, history>>

LockShared(p) ==
  /\ pc[p] = "lock" /\ excl = NoProc
  /\ GoTo(p, "open")
  /\ shared' = shared \cup {p}
  /\ UNCHANGED <<files, excl, task, history>>

Done(p) ==
  /\ GoTo(p, "idle")
  /\ Unlock(p)
  /\ task' = [task EXCEPT ![p] = NoTask]

\* Mutant: lock_shared has no deadline.
LockTimeoutNever(p) == pc[p] = "lock" /\ FALSE

\* lock_shared gives up after APPEND_LOCK_TIMEOUT.
LockTimeout(p) ==
  /\ pc[p] = "lock" /\ excl # NoProc
  /\ Done(p)
  /\ UNCHANGED <<files, history>>

\* create(true).append(true): the handle stays with the inode it opened.
Create == content' = Append(content, <<>>) /\ active' = Len(content) + 1

OpenActive(p) ==
  /\ pc[p] = "open"
  /\ GoTo(p, "write")
  /\ IF active = NoFile THEN Create ELSE UNCHANGED <<content, active>>
  /\ task' = [task EXCEPT ![p].inode = active']
  /\ UNCHANGED <<plain, gz, tmp, excl, shared, history>>

Wrote(p, end) ==
  content' = [content EXCEPT ![task[p].inode] =
                Append(content[task[p].inode], [line |-> task[p].line, end |-> end])]

\* Mutant: the newline is not part of the line.
WriteLineBare(p) ==
  /\ pc[p] = "write"
  /\ Wrote(p, "bare")
  /\ GoTo(p, "sync")
  /\ UNCHANGED <<active, plain, gz, tmp, excl, shared, task, history>>

WriteLine(p) ==
  /\ pc[p] = "write"
  /\ Wrote(p, "newline")
  /\ GoTo(p, "sync")
  /\ UNCHANGED <<active, plain, gz, tmp, excl, shared, task, history>>

\* What write_all left when it did not finish: nothing, or a part of the line.
Interrupted(p) == UNCHANGED content \/ \E end \in {"bare", "cut"} : Wrote(p, end)

WriteFails(p) ==
  /\ "io_error" \in Faults
  /\ pc[p] = "write"
  /\ Interrupted(p)
  /\ Done(p)
  /\ UNCHANGED <<active, plain, gz, tmp, history>>

Sync(p) ==
  /\ pc[p] = "sync"
  /\ Done(p)
  /\ acked' = acked \cup {task[p].line}
  /\ UNCHANGED <<files, started>>

\* The line stays although its append returns an error.
SyncFails(p) ==
  /\ "io_error" \in Faults
  /\ pc[p] = "sync"
  /\ Done(p)
  /\ UNCHANGED <<files, history>>

-----------------------------------------------------------------------------
(* Store::open: finalize_pending_rotations, then maybe_rotate_log. *)

\* A held lock may mean that a rotation is under way: its files are left alone.
FinalizeSkipped(p) ==
  /\ pc[p] = "closed" /\ ~Free
  /\ GoTo(p, "rotate")
  /\ UNCHANGED <<files, excl, shared, task, history>>

\* The directory is listed once, under the lock.
FinalizeLocked(p) ==
  /\ pc[p] = "closed" /\ Free
  /\ excl' = p
  /\ GoTo(p, "clean")
  /\ task' = [task EXCEPT ![p] = [NoTask EXCEPT
                !.pending = {i \in Indexes : plain[i] # NoFile},
                !.stale = {i \in Indexes : tmp[i].state # "absent"}]]
  /\ UNCHANGED <<files, shared, history>>

RemoveTmp(p) ==
  /\ pc[p] = "clean"
  /\ \E i \in task[p].stale :
       /\ tmp' = [tmp EXCEPT ![i] = NoArchive]
       /\ task' = [task EXCEPT ![p].stale = task[p].stale \ {i}]
  /\ UNCHANGED <<content, active, plain, gz, excl, shared, pc, history>>

Finalizing(p, i) ==
  /\ pc[p] = "clean" /\ task[p].stale = {}
  /\ i \in task[p].pending
  /\ task' = [task EXCEPT ![p].pending = task[p].pending \ {i}, ![p].cur = i]
  /\ UNCHANGED <<content, active, tmp, excl, shared, history>>

\* gz_intact: compression completed before the crash.
ArchiveKept(p) ==
  \E i \in Indexes :
    /\ Finalizing(p, i) /\ gz[i].state = "intact"
    /\ plain' = [plain EXCEPT ![i] = NoFile]
    /\ UNCHANGED <<gz, pc>>

\* A truncated archive is removed and made again, a missing one is made.
ArchiveRemade(p) ==
  \E i \in Indexes :
    /\ Finalizing(p, i) /\ gz[i].state # "intact"
    /\ gz' = [gz EXCEPT ![i] = NoArchive]
    /\ GoTo(p, "create")
    /\ UNCHANGED plain

\* Mutant: the first pending file is finished, the others are forgotten.
FinalizeDoneEarly(p) ==
  /\ pc[p] = "clean" /\ task[p].stale = {}
  /\ Unlock(p)
  /\ GoTo(p, "rotate")
  /\ task' = [task EXCEPT ![p] = NoTask]
  /\ UNCHANGED <<files, history>>

FinalizeDone(p) ==
  /\ pc[p] = "clean" /\ task[p].stale = {} /\ task[p].pending = {}
  /\ Unlock(p)
  /\ GoTo(p, "rotate")
  /\ task' = [task EXCEPT ![p] = NoTask]
  /\ UNCHANGED <<files, history>>

\* gzip_file: a temporary sibling is created, filled from the plain file and
\* renamed to the archive; then the plain file is removed.
GzCreate(p) ==
  /\ pc[p] = "create"
  /\ tmp' = [tmp EXCEPT ![task[p].cur] = [pieces |-> <<>>, state |-> "truncated"]]
  /\ GoTo(p, "fill")
  /\ UNCHANGED <<content, active, plain, gz, excl, shared, task, history>>

GzFill(p) ==
  /\ pc[p] = "fill"
  /\ tmp' = [tmp EXCEPT ![task[p].cur] =
               [pieces |-> content[plain[task[p].cur]], state |-> "intact"]]
  /\ GoTo(p, "install")
  /\ UNCHANGED <<content, active, plain, gz, excl, shared, task, history>>

GzInstall(p) ==
  /\ pc[p] = "install"
  /\ gz' = [gz EXCEPT ![task[p].cur] = tmp[task[p].cur]]
  /\ tmp' = [tmp EXCEPT ![task[p].cur] = NoArchive]
  /\ GoTo(p, "drop")
  /\ UNCHANGED <<content, active, plain, excl, shared, task, history>>

DropPlain(p) ==
  /\ pc[p] = "drop"
  /\ plain' = [plain EXCEPT ![task[p].cur] = NoFile]
  /\ GoTo(p, IF task[p].rotating THEN "touch" ELSE "clean")
  /\ UNCHANGED <<content, active, gz, tmp, excl, shared, task, history>>

\* log_rotation_needed counts newlines.  The limit in bytes is the same guard
\* with another measure.
RotationNeeded ==
  /\ active # NoFile
  /\ Cardinality({i \in DOMAIN content[active] : content[active][i].end = "newline"}) >= RotateAt

RotateCheck(p) ==
  /\ pc[p] = "rotate"
  /\ GoTo(p, IF RotationNeeded THEN "relock" ELSE "idle")
  /\ UNCHANGED <<files, excl, shared, task, history>>

RotateLock(p) ==
  /\ pc[p] = "relock"
  /\ IF Free
     THEN excl' = p /\ GoTo(p, "rename")
     ELSE UNCHANGED excl /\ GoTo(p, "idle")
  /\ UNCHANGED <<files, shared, task, history>>

\* Mutant: only archives are scanned.
NextIndexOfArchives == Max({0} \cup {i \in Indexes : gz[i].state # "absent"}) + 1

\* next_rotation_index: one more than any plain file or archive.
NextIndex ==
  Max({0} \cup {i \in Indexes : plain[i] # NoFile \/ gz[i].state # "absent"}) + 1

\* Another process may have rotated since the check.
RotateRename(p) ==
  /\ pc[p] = "rename"
  /\ IF RotationNeeded
     THEN /\ plain' = [plain EXCEPT ![NextIndex] = active]
          /\ active' = NoFile
          /\ task' = [task EXCEPT ![p].cur = NextIndex, ![p].rotating = TRUE]
          /\ GoTo(p, "create")
          /\ UNCHANGED <<excl, shared>>
     ELSE Done(p) /\ UNCHANGED <<plain, active>>
  /\ UNCHANGED <<content, gz, tmp, history>>

Touch(p) ==
  /\ pc[p] = "touch"
  /\ IF active = NoFile THEN Create ELSE UNCHANGED <<content, active>>
  /\ Done(p)
  /\ UNCHANGED <<plain, gz, tmp, history>>

-----------------------------------------------------------------------------

\* aver replay and aver vacuum hold the lock for their whole run, without an
\* open store, and refuse to start while anyone else holds it.
StartExclusive(p) ==
  /\ pc[p] = "closed" /\ Free
  /\ excl' = p
  /\ GoTo(p, "exclusive")
  /\ UNCHANGED <<files, shared, task, history>>

EndExclusive(p) ==
  /\ pc[p] = "exclusive"
  /\ Unlock(p)
  /\ GoTo(p, "closed")
  /\ UNCHANGED <<files, task, history>>

Close(p) ==
  /\ pc[p] = "idle"
  /\ GoTo(p, "closed")
  /\ UNCHANGED <<files, excl, shared, task, history>>

\* The operating system releases the locks of a process that stops.
Crash(p) ==
  /\ "crash" \in Faults
  /\ pc[p] \notin {"closed", "idle"}
  /\ Unlock(p)
  /\ GoTo(p, "closed")
  /\ task' = [task EXCEPT ![p] = NoTask]
  /\ IF pc[p] = "write" THEN Interrupted(p) ELSE UNCHANGED content
  /\ UNCHANGED <<active, plain, gz, tmp, history>>

Appends(p) ==
  \/ LockShared(p) \/ LockTimeout(p) \/ OpenActive(p) \/ WriteLine(p) \/ WriteFails(p)
  \/ Sync(p) \/ SyncFails(p)

Finalizes(p) == RemoveTmp(p) \/ ArchiveKept(p) \/ ArchiveRemade(p) \/ FinalizeDone(p)

Compresses(p) == GzCreate(p) \/ GzFill(p) \/ GzInstall(p) \/ DropPlain(p)

Rotates(p) == RotateCheck(p) \/ RotateLock(p) \/ RotateRename(p) \/ Touch(p)

Progress(p) == Appends(p) \/ Finalizes(p) \/ Compresses(p) \/ Rotates(p) \/ EndExclusive(p)

Next ==
  \E p \in Procs :
    \/ StartAppend(p) \/ FinalizeSkipped(p) \/ FinalizeLocked(p) \/ StartExclusive(p)
    \/ Close(p) \/ Crash(p)
    \/ Progress(p)

Spec == Init /\ [][Next]_vars

\* Threads are scheduled; nothing makes a process call or close.
FairSpec == Spec /\ \A p \in Procs : WF_vars(Progress(p))

-----------------------------------------------------------------------------
(* What is promised. *)

PiecesOf(inode) == IF inode = NoFile THEN <<>> ELSE content[inode]

\* What the files of one rotation hold, the plain one unless its archive is intact.
Stored(i) == IF gz[i].state = "intact" THEN gz[i].pieces ELSE PiecesOf(plain[i])

Join(left, file) == left \o file
Kept == FoldLeft(Join, <<>>, [i \in Indexes |-> Stored(i)]) \o PiecesOf(active)

\* The files implement an append-only series: rotation, compression, recovery
\* and crashes in the middle of them lose, repeat and reorder nothing, and what
\* was acknowledged is in the files (ADR-0019 section 5).
Series ==
  INSTANCE LogSeries WITH
    pieces <- Kept,
    Starts <- {[pieces |-> <<>>, acked |-> {}], [pieces |-> InheritedLine, acked |-> {1}]}

ImplementsLogSeries == Series!SeriesSpec

\* No append writes through a handle whose file was renamed meanwhile: its line
\* would miss the archive (the comment in append_jsonl).
AppendsReachActive ==
  \A p \in Procs : pc[p] \in {"write", "sync"} =>
    active # NoFile /\ task[p].inode = active

\* The lines a reader of one file can parse: not glued to a torn one before
\* them, and complete, with or without a newline at the very end.
Parsed(f) ==
  {f[i].line : i \in {j \in DOMAIN f :
     /\ j = 1 \/ f[j - 1].end = "newline"
     /\ f[j].end = "newline" \/ (f[j].end = "bare" /\ j = Len(f))}}

Recoverable == (UNION {Parsed(Stored(i)) : i \in Indexes}) \cup Parsed(PiecesOf(active))

\* A write that was cut short makes at most one acknowledged line unreadable,
\* the next one, however many rotations follow.
TornLinesCostOneEach ==
  Cardinality(acked \ Recoverable)
    <= Cardinality({i \in DOMAIN Kept : /\ Kept[i].end # "newline"
                                        /\ Kept[i].line \notin acked})

\* When finalize_pending_rotations has had the lock, no half-rotated file and
\* no stale temporary archive is left.
FinalizeRepairs ==
  [][\A p \in Procs : pc[p] = "clean" /\ pc'[p] = "rotate" =>
       \A i \in Indexes : plain'[i] = NoFile /\ tmp'[i].state = "absent"]_vars

\* Appends end although the lock may be held over and over, and so do opens,
\* which never wait for it.
CallsReturn ==
  \A p \in Procs : pc[p] \in Appending \cup Opening ~> pc[p] \in {"idle", "closed"}

\* collect_replay_inputs: archives and the active file, not the plain files.
Walked == {gz[i].pieces : i \in {j \in Indexes : gz[j].state # "absent"}}
          \cup {PiecesOf(active)}

\* A replay none of whose inputs is damaged reads every acknowledged line
\* (how-it-works.md, "so no records are skipped").
NoRecordSkipped ==
  (\E p \in Procs : pc[p] = "exclusive") =>
    \/ \E f \in Walked : \E i \in DOMAIN f : f[i].end # "newline"
    \/ acked \subseteq UNION {Parsed(f) : f \in Walked}
=============================================================================
