--------------------------- MODULE LogFilesProofs ---------------------------
(***************************************************************************)
(* What the files of a log series keep, for any number of processes and    *)
(* lines and any rotation limit: the advisory lock keeps rotation away     *)
(* from appends, the files in their order are the append-only series of    *)
(* LogSeries, recovery leaves nothing half done, and a write cut short     *)
(* costs at most one other line.                                           *)
(*                                                                         *)
(* The first part is about the lock alone.  The second one looks at the    *)
(* files as a shelf: what each rotation holds, and what the active file    *)
(* holds.  A step leaves the shelf as it is, adds one piece to the active  *)
(* file, or moves the active file behind the others.                       *)
(***************************************************************************)
EXTENDS LogFiles, SequenceTheorems, FiniteSetTheorems, TLAPS

Joins == INSTANCE DataLemmas WITH Op <- Join

Places == {"closed", "idle", "exclusive"} \cup Appending \cup Opening
Exclusive == {"clean", "rename", "touch", "exclusive"} \cup Compressing

\* What a process carries from its call of append_jsonl to its end.
AppendTasks ==
  [line : 1..MaxLines, inode : Nat, cur : {0}, rotating : {FALSE},
   pending : {{}}, stale : {{}}]

FilesTyped ==
  /\ content \in Seq(Seq(Pieces))
  /\ active \in 0..Len(content)
  /\ started \in 0..MaxLines

ProcsTyped ==
  /\ pc \in [Procs -> Places]
  /\ task = [p \in Procs |-> task[p]]
  /\ excl \in Procs \cup {NoProc}
  /\ shared \subseteq Procs
  /\ \A p \in Procs : pc[p] \in Appending => task[p] \in AppendTasks

\* Who reads or writes files in this step holds the lock that step needs.
Locked ==
  /\ excl # NoProc => shared = {}
  /\ \A p \in Procs : pc[p] \in {"open", "write", "sync"} => p \in shared
  /\ \A p \in Procs : pc[p] \in Exclusive => excl = p

Inv == FilesTyped /\ ProcsTyped /\ Locked /\ AppendsReachActive

LEMMA InitInv == Init => Inv
<1> SUFFICES ASSUME Init PROVE Inv
  OBVIOUS
<1>1. FilesTyped
  <2>1. CASE content = <<>> /\ active = NoFile /\ started = 0
    BY <2>1, LogFilesAssumption DEF FilesTyped, NoFile
  <2>2. CASE content = <<InheritedLine>> /\ active = NoFile /\ started = 1
    <3>1. [line |-> 1, end |-> "newline"] \in Pieces
      BY LogFilesAssumption DEF Pieces
    <3>2. content \in Seq(Seq(Pieces)) /\ Len(content) = 1
      BY <2>2, <3>1 DEF InheritedLine
    <3> QED BY <2>2, <3>2, LogFilesAssumption DEF FilesTyped, NoFile
  <2> QED BY <2>1, <2>2 DEF Init
<1>2. ProcsTyped
  BY DEF Init, ProcsTyped, Places, Appending
<1>3. Locked
  BY DEF Init, Locked, Exclusive, Compressing
<1>4. AppendsReachActive
  BY DEF Init, AppendsReachActive
<1> QED BY <1>1, <1>2, <1>3, <1>4 DEF Inv

-----------------------------------------------------------------------------
(* Appends. *)

LEMMA CreateTyped ==
  ASSUME FilesTyped, Create
  PROVE  /\ content' \in Seq(Seq(Pieces))
         /\ active' \in 0..Len(content')
         /\ active' # NoFile
<1>1. <<>> \in Seq(Pieces) /\ Len(content) \in Nat
  BY DEF FilesTyped
<1> QED BY <1>1 DEF FilesTyped, Create, NoFile

LEMMA WroteTyped ==
  ASSUME FilesTyped, NEW p \in Procs, NEW end \in {"newline", "bare", "cut"},
         task[p] \in AppendTasks, task[p].inode = active, active # NoFile, Wrote(p, end)
  PROVE  content' \in Seq(Seq(Pieces)) /\ Len(content') = Len(content)
<1> DEFINE i == task[p].inode
           piece == [line |-> task[p].line, end |-> end]
           file == Append(content[i], piece)
<1>1. piece \in Pieces
  BY DEF AppendTasks, Pieces
<1>2. i \in 1..Len(content)
  BY DEF FilesTyped, NoFile
<1>3. file \in Seq(Pieces)
  BY <1>1, <1>2 DEF FilesTyped
<1>4. content' = [content EXCEPT ![i] = file]
  BY DEF Wrote
<1> HIDE DEF file, i
<1> QED BY <1>2, <1>3, <1>4 DEF FilesTyped

LEMMA InterruptedTyped ==
  ASSUME FilesTyped, NEW p \in Procs, task[p] \in AppendTasks,
         task[p].inode = active, active # NoFile, Interrupted(p)
  PROVE  content' \in Seq(Seq(Pieces)) /\ Len(content') = Len(content)
<1>1. CASE UNCHANGED content
  BY <1>1 DEF FilesTyped
<1>2. CASE \E end \in {"bare", "cut"} : Wrote(p, end)
  BY <1>2, WroteTyped
<1> QED BY <1>1, <1>2 DEF Interrupted

\* Going back to idle or closed releases what the process holds and nothing else.
LEMMA Leaves ==
  ASSUME ProcsTyped, Locked, NEW p \in Procs, NEW place \in {"idle", "closed", "rotate"},
         GoTo(p, place), Unlock(p),
         task' = [task EXCEPT ![p] = NoTask] \/ task' = task
  PROVE  ProcsTyped' /\ Locked'
<1>1. place \in Places \ Appending /\ place \notin Exclusive
  BY DEF Places, Opening, Appending, Exclusive, Compressing
<1>2. ProcsTyped'
  BY <1>1 DEF ProcsTyped, GoTo, Unlock
<1>3. Locked'
  BY <1>1 DEF ProcsTyped, Locked, GoTo, Unlock
<1> QED BY <1>2, <1>3

LEMMA AppendsInv ==
  ASSUME Inv, NEW p \in Procs, StartAppend(p) \/ Appends(p)
  PROVE  Inv'
<1> USE DEF Inv
<1>1. CASE StartAppend(p)
  <2>1. started' \in 0..MaxLines /\ started + 1 \in 1..MaxLines
    BY <1>1, LogFilesAssumption DEF StartAppend, FilesTyped
  <2>2. task'[p] \in AppendTasks /\ task' = [q \in Procs |-> task'[q]]
    BY <1>1, <2>1 DEF StartAppend, ProcsTyped, AppendTasks, NoTask, NoFile
  <2>3. \A q \in Procs \ {p} : task'[q] = task[q] /\ pc'[q] = pc[q]
    BY <1>1 DEF StartAppend, ProcsTyped, GoTo
  <2>4. pc' \in [Procs -> Places] /\ pc'[p] = "lock"
    BY <1>1 DEF StartAppend, ProcsTyped, GoTo, Places, Appending
  <2>5. UNCHANGED <<content, active, excl, shared>>
    BY <1>1 DEF StartAppend, files
  <2>6. FilesTyped'
    BY <2>1, <2>5 DEF FilesTyped
  <2>7. ProcsTyped'
    BY <2>2, <2>3, <2>4, <2>5 DEF ProcsTyped
  <2>8. Locked' /\ AppendsReachActive'
    BY <2>3, <2>4, <2>5 DEF Locked, AppendsReachActive, Exclusive, Compressing
  <2> QED BY <2>6, <2>7, <2>8
<1>2. CASE LockShared(p)
  <2>1. UNCHANGED <<content, active, started, excl, task>>
    BY <1>2 DEF LockShared, files, history
  <2>2. pc[p] = "lock" /\ excl = NoProc /\ shared' = shared \cup {p}
    BY <1>2 DEF LockShared
  <2>3. pc' = [pc EXCEPT ![p] = "open"]
    BY <1>2 DEF LockShared, GoTo
  <2>4. ProcsTyped'
    BY <2>1, <2>2, <2>3 DEF ProcsTyped, Places, Appending
  <2>5. Locked' /\ AppendsReachActive'
    BY <2>1, <2>2, <2>3
    DEF ProcsTyped, Locked, AppendsReachActive, Exclusive, Compressing
  <2> QED BY <2>1, <2>4, <2>5 DEF FilesTyped
<1>3. CASE LockTimeout(p) \/ Sync(p) \/ SyncFails(p)
  <2>1. UNCHANGED <<content, active, started>> /\ Done(p)
    BY <1>3 DEF LockTimeout, Sync, SyncFails, files, history
  <2>2. ProcsTyped' /\ Locked'
    BY <2>1, Leaves DEF Done
  <2>3. AppendsReachActive'
    BY <2>1 DEF Done, GoTo, ProcsTyped, AppendsReachActive
  <2> QED BY <2>1, <2>2, <2>3 DEF FilesTyped
<1>4. CASE OpenActive(p)
  <2>1. /\ pc[p] = "open" /\ pc' = [pc EXCEPT ![p] = "write"]
        /\ task' = [task EXCEPT ![p].inode = active']
        /\ UNCHANGED <<excl, shared, started>>
    BY <1>4 DEF OpenActive, GoTo, history
  <2>2. /\ content' \in Seq(Seq(Pieces)) /\ active' \in 0..Len(content')
        /\ active' # NoFile
        /\ active # NoFile => active' = active
    <3>1. CASE active = NoFile
      BY <1>4, <3>1, CreateTyped DEF OpenActive
    <3>2. CASE active # NoFile
      BY <1>4, <3>2 DEF OpenActive, FilesTyped
    <3> QED BY <3>1, <3>2
  <2>3. FilesTyped'
    BY <2>1, <2>2 DEF FilesTyped
  <2>4. task[p] \in AppendTasks /\ active' \in Nat
    BY <2>1, <2>2 DEF ProcsTyped, Appending
  <2>5. task'[p] \in AppendTasks /\ task'[p].inode = active'
    BY <2>1, <2>4 DEF ProcsTyped, AppendTasks
  <2>6. \A q \in Procs \ {p} : task'[q] = task[q] /\ pc'[q] = pc[q]
    BY <2>1 DEF ProcsTyped
  <2>7. task' = [q \in Procs |-> task'[q]]
    BY <2>1 DEF ProcsTyped
  <2>8. pc' \in [Procs -> Places] /\ pc'[p] = "write"
    BY <2>1 DEF ProcsTyped, Places, Appending
  <2>9. ProcsTyped'
    BY <2>1, <2>5, <2>6, <2>7, <2>8 DEF ProcsTyped
  <2>10. Locked'
    BY <2>1, <2>6, <2>8 DEF Locked, Exclusive, Compressing
  <2>11. AppendsReachActive'
    BY <2>2, <2>5, <2>6, <2>8 DEF AppendsReachActive
  <2> QED BY <2>3, <2>9, <2>10, <2>11
<1>5. CASE WriteLine(p)
  <2>1. /\ pc[p] = "write" /\ pc' = [pc EXCEPT ![p] = "sync"] /\ Wrote(p, "newline")
        /\ UNCHANGED <<active, started, excl, shared, task>>
    BY <1>5 DEF WriteLine, GoTo, history
  <2>2. task[p] \in AppendTasks /\ task[p].inode = active /\ active # NoFile
    BY <2>1 DEF ProcsTyped, Appending, AppendsReachActive
  <2>3. FilesTyped'
    BY <2>1, <2>2, WroteTyped DEF FilesTyped
  <2>4. ProcsTyped'
    BY <2>1 DEF ProcsTyped, Places, Appending
  <2>5. Locked' /\ AppendsReachActive'
    BY <2>1, <2>2 DEF ProcsTyped, Locked, AppendsReachActive, Exclusive, Compressing
  <2> QED BY <2>3, <2>4, <2>5
<1>6. CASE WriteFails(p)
  <2>1. /\ pc[p] = "write" /\ Interrupted(p) /\ Done(p)
        /\ UNCHANGED <<active, started>>
    BY <1>6 DEF WriteFails, history
  <2>2. task[p] \in AppendTasks /\ task[p].inode = active /\ active # NoFile
    BY <2>1 DEF ProcsTyped, Appending, AppendsReachActive
  <2>3. FilesTyped'
    BY <2>1, <2>2, InterruptedTyped DEF FilesTyped
  <2>4. ProcsTyped' /\ Locked'
    BY <2>1, Leaves DEF Done
  <2>5. AppendsReachActive'
    BY <2>1 DEF Done, GoTo, ProcsTyped, AppendsReachActive
  <2> QED BY <2>3, <2>4, <2>5
<1> QED BY <1>1, <1>2, <1>3, <1>4, <1>5, <1>6 DEF Appends

-----------------------------------------------------------------------------
(* Opens, and the other holders of the lock. *)

\* Nobody is inside an append while someone holds the lock exclusively.
LEMMA NoAppendUnder ==
  ASSUME ProcsTyped, Locked, NEW p \in Procs, excl = p \/ Free
  PROVE  \A q \in Procs : pc[q] \in {"open", "write", "sync"} => excl = NoProc /\ shared # {}
BY LogFilesAssumption DEF ProcsTyped, Locked, Free, NoProc

\* A step of an open that neither takes nor gives up the lock.
LEMMA Stays ==
  ASSUME ProcsTyped, Locked, NEW p \in Procs, NEW place \in Places \ Appending,
         GoTo(p, place), UNCHANGED <<excl, shared>>,
         place \in Exclusive => excl = p,
         task' = [q \in Procs |-> task'[q]],
         \A q \in Procs \ {p} : task'[q] = task[q]
  PROVE  ProcsTyped' /\ Locked'
<1>1. pc' \in [Procs -> Places] /\ pc'[p] = place
  BY DEF ProcsTyped, GoTo
<1>2. \A q \in Procs \ {p} : pc'[q] = pc[q]
  BY DEF ProcsTyped, GoTo
<1>3. ProcsTyped'
  BY <1>1, <1>2 DEF ProcsTyped
<1>4. place \notin {"open", "write", "sync"}
  BY DEF Appending
<1>5. Locked'
  BY <1>1, <1>2, <1>4 DEF Locked
<1> QED BY <1>3, <1>5

\* The lock is taken when it is free.
LEMMA Takes ==
  ASSUME ProcsTyped, Locked, NEW p \in Procs, NEW place \in Exclusive, Free,
         GoTo(p, place), excl' = p, UNCHANGED shared,
         task' = [q \in Procs |-> task'[q]],
         \A q \in Procs \ {p} : task'[q] = task[q]
  PROVE  ProcsTyped' /\ Locked'
<1>1. place \in Places \ Appending
  BY DEF Exclusive, Places, Appending, Opening, Compressing
<1>2. pc' \in [Procs -> Places] /\ pc'[p] = place
  BY <1>1 DEF ProcsTyped, GoTo
<1>3. \A q \in Procs \ {p} : pc'[q] = pc[q]
  BY DEF ProcsTyped, GoTo
<1>4. ProcsTyped'
  BY <1>1, <1>2, <1>3 DEF ProcsTyped
<1>5. \A q \in Procs : pc[q] \notin Exclusive
  BY LogFilesAssumption DEF Locked, Free, NoProc
<1>6. Locked'
  BY <1>1, <1>2, <1>3, <1>5 DEF Locked, Free, Appending
<1> QED BY <1>4, <1>6

\* AppendsReachActive survives a step that leaves the active file, the plain
\* files and the appending processes alone.
LEMMA AppendsUndisturbed ==
  ASSUME AppendsReachActive, ProcsTyped, NEW p \in Procs,
         NEW place \in Places \ Appending, GoTo(p, place), UNCHANGED active,
         \A q \in Procs \ {p} : task'[q] = task[q]
  PROVE  AppendsReachActive'
BY DEF AppendsReachActive, ProcsTyped, GoTo, Appending

LEMMA FinalizesInv ==
  ASSUME Inv, NEW p \in Procs, FinalizeSkipped(p) \/ FinalizeLocked(p) \/ Finalizes(p)
  PROVE  Inv'
<1> USE DEF Inv
<1>1. UNCHANGED <<content, active, started>>
  BY DEF FinalizeSkipped, FinalizeLocked, Finalizes, RemoveTmp, ArchiveKept, ArchiveRemade,
         Finalizing, FinalizeDone, files, history
<1>2. FilesTyped'
  BY <1>1 DEF FilesTyped
<1>3. CASE FinalizeSkipped(p)
  <2>1. GoTo(p, "rotate") /\ UNCHANGED <<excl, shared, task>>
    BY <1>3 DEF FinalizeSkipped
  <2>2. "rotate" \in Places \ Appending /\ "rotate" \notin Exclusive
    BY DEF Places, Opening, Appending, Exclusive, Compressing
  <2>3. task' = [q \in Procs |-> task'[q]] /\ \A q \in Procs : task'[q] = task[q]
    BY <2>1 DEF ProcsTyped
  <2>4. ProcsTyped' /\ Locked'
    BY <2>1, <2>2, <2>3, Stays
  <2>5. AppendsReachActive'
    BY <1>1, <2>1, <2>2, <2>3, AppendsUndisturbed
  <2> QED BY <1>2, <2>4, <2>5
<1>4. CASE FinalizeLocked(p)
  <2>1. Free /\ GoTo(p, "clean") /\ excl' = p /\ UNCHANGED shared
    BY <1>4 DEF FinalizeLocked
  <2>2. "clean" \in Exclusive /\ "clean" \in Places \ Appending
    BY DEF Places, Opening, Appending, Exclusive
  <2>3. task' = [q \in Procs |-> task'[q]] /\ \A q \in Procs \ {p} : task'[q] = task[q]
    BY <1>4 DEF FinalizeLocked, ProcsTyped
  <2>4. ProcsTyped' /\ Locked'
    BY <2>1, <2>2, <2>3, Takes
  <2>5. AppendsReachActive'
    BY <1>1, <2>1, <2>2, <2>3, AppendsUndisturbed
  <2> QED BY <1>2, <2>4, <2>5
<1>5. CASE RemoveTmp(p) \/ ArchiveKept(p) \/ ArchiveRemade(p)
  <2>1. pc[p] = "clean" /\ UNCHANGED <<excl, shared>>
    BY <1>5 DEF RemoveTmp, ArchiveKept, ArchiveRemade, Finalizing
  <2>2. PICK place \in {"clean", "create"} : GoTo(p, place)
    <3>1. GoTo(p, "create") \/ UNCHANGED pc
      BY <1>5 DEF RemoveTmp, ArchiveKept, ArchiveRemade
    <3>2. UNCHANGED pc => GoTo(p, "clean")
      BY <2>1 DEF ProcsTyped, GoTo
    <3> QED BY <3>1, <3>2
  <2>3. place \in Places \ Appending
    BY DEF Places, Opening, Compressing, Appending
  <2>4. task' = [q \in Procs |-> task'[q]] /\ \A q \in Procs \ {p} : task'[q] = task[q]
    BY <1>5 DEF RemoveTmp, ArchiveKept, ArchiveRemade, Finalizing, ProcsTyped
  <2>5. excl = p
    BY <2>1 DEF Locked, Exclusive
  <2>6. ProcsTyped' /\ Locked'
    BY <2>1, <2>2, <2>3, <2>4, <2>5, Stays
  <2>7. AppendsReachActive'
    BY <1>1, <2>2, <2>3, <2>4, AppendsUndisturbed
  <2> QED BY <1>2, <2>6, <2>7
<1>6. CASE FinalizeDone(p)
  <2>1. GoTo(p, "rotate") /\ Unlock(p) /\ task' = [task EXCEPT ![p] = NoTask]
    BY <1>6 DEF FinalizeDone
  <2>2. ProcsTyped' /\ Locked'
    BY <2>1, Leaves
  <2>3. AppendsReachActive'
    BY <1>1, <2>1 DEF AppendsReachActive, ProcsTyped, GoTo
  <2> QED BY <1>2, <2>2, <2>3
<1> QED BY <1>3, <1>4, <1>5, <1>6 DEF Finalizes

LEMMA CompressesInv ==
  ASSUME Inv, NEW p \in Procs, Compresses(p)
  PROVE  Inv'
<1> USE DEF Inv
<1>1. UNCHANGED <<content, active, started, excl, shared, task>>
  BY DEF Compresses, GzCreate, GzFill, GzInstall, DropPlain, history
<1>2. FilesTyped'
  BY <1>1 DEF FilesTyped
<1>3. PICK place \in {"fill", "install", "drop", "touch", "clean"} : GoTo(p, place)
  BY DEF Compresses, GzCreate, GzFill, GzInstall, DropPlain
<1>4. place \in Places \ Appending
  BY DEF Places, Opening, Compressing, Appending
<1>5. pc[p] \in Compressing
  BY DEF Compresses, GzCreate, GzFill, GzInstall, DropPlain, Compressing
<1>6. excl = p
  BY <1>5 DEF Locked, Exclusive
<1>7. task' = [q \in Procs |-> task'[q]] /\ \A q \in Procs : task'[q] = task[q]
  BY <1>1 DEF ProcsTyped
<1>8. ProcsTyped' /\ Locked'
  BY <1>1, <1>3, <1>4, <1>6, <1>7, Stays
<1>9. AppendsReachActive'
  BY <1>1, <1>3, <1>4, <1>7, AppendsUndisturbed
<1> QED BY <1>2, <1>8, <1>9

LEMMA RotatesInv ==
  ASSUME Inv, NEW p \in Procs, Rotates(p)
  PROVE  Inv'
<1> USE DEF Inv
<1>1. CASE RotateCheck(p) \/ (RotateLock(p) /\ ~Free)
  <2>1. UNCHANGED <<content, active, started, excl, shared, task>>
    BY <1>1 DEF RotateCheck, RotateLock, files, history
  <2>2. PICK place \in {"relock", "idle"} : GoTo(p, place)
    BY <1>1 DEF RotateCheck, RotateLock
  <2>3. place \in Places \ Appending /\ place \notin Exclusive
    BY DEF Places, Opening, Appending, Exclusive, Compressing
  <2>4. task' = [q \in Procs |-> task'[q]] /\ \A q \in Procs : task'[q] = task[q]
    BY <2>1 DEF ProcsTyped
  <2>5. ProcsTyped' /\ Locked'
    BY <2>1, <2>2, <2>3, <2>4, Stays
  <2>6. AppendsReachActive'
    BY <2>1, <2>2, <2>3, <2>4, AppendsUndisturbed
  <2> QED BY <2>1, <2>5, <2>6 DEF FilesTyped
<1>2. CASE RotateLock(p) /\ Free
  <2>1. /\ UNCHANGED <<content, active, started, shared, task>>
        /\ excl' = p /\ GoTo(p, "rename")
    BY <1>2 DEF RotateLock, files, history
  <2>2. "rename" \in Exclusive /\ "rename" \in Places \ Appending
    BY DEF Places, Opening, Appending, Exclusive
  <2>3. task' = [q \in Procs |-> task'[q]] /\ \A q \in Procs : task'[q] = task[q]
    BY <2>1 DEF ProcsTyped
  <2>4. ProcsTyped' /\ Locked'
    BY <1>2, <2>1, <2>2, <2>3, Takes
  <2>5. AppendsReachActive'
    BY <2>1, <2>2, <2>3, AppendsUndisturbed
  <2> QED BY <2>1, <2>4, <2>5 DEF FilesTyped
<1>3. CASE RotateRename(p) /\ RotationNeeded
  <2>1. /\ UNCHANGED <<content, started, excl, shared>> /\ active' = NoFile
        /\ pc[p] = "rename" /\ GoTo(p, "create")
        /\ task' = [task EXCEPT ![p].cur = NextIndex, ![p].rotating = TRUE]
    BY <1>3 DEF RotateRename, history
  <2>2. excl = p
    BY <2>1 DEF Locked, Exclusive
  <2>3. "create" \in Places \ Appending
    BY DEF Places, Opening, Appending, Compressing
  <2>4. task' = [q \in Procs |-> task'[q]] /\ \A q \in Procs \ {p} : task'[q] = task[q]
    BY <2>1 DEF ProcsTyped
  <2>5. ProcsTyped' /\ Locked'
    BY <2>1, <2>2, <2>3, <2>4, Stays
  <2>6. AppendsReachActive'
    <3>1. \A q \in Procs : pc[q] \notin {"write", "sync"}
      BY <2>2, NoAppendUnder, LogFilesAssumption DEF NoProc
    <3> QED BY <2>1, <3>1 DEF AppendsReachActive, ProcsTyped, GoTo
  <2>7. FilesTyped'
    BY <2>1 DEF FilesTyped, NoFile
  <2> QED BY <2>5, <2>6, <2>7
<1>4. CASE RotateRename(p) /\ ~RotationNeeded
  <2>1. UNCHANGED <<content, active, started>> /\ Done(p)
    BY <1>4 DEF RotateRename, history
  <2>2. ProcsTyped' /\ Locked'
    BY <2>1, Leaves DEF Done
  <2>3. AppendsReachActive'
    BY <2>1 DEF Done, GoTo, ProcsTyped, AppendsReachActive
  <2> QED BY <2>1, <2>2, <2>3 DEF FilesTyped
<1>5. CASE Touch(p)
  <2>1. pc[p] = "touch" /\ Done(p) /\ UNCHANGED started
    BY <1>5 DEF Touch, history
  <2>2. content' \in Seq(Seq(Pieces)) /\ active' \in 0..Len(content')
    <3>1. CASE active = NoFile
      BY <1>5, <3>1, CreateTyped DEF Touch
    <3>2. CASE active # NoFile
      BY <1>5, <3>2 DEF Touch, FilesTyped
    <3> QED BY <3>1, <3>2
  <2>3. ProcsTyped' /\ Locked'
    BY <2>1, Leaves DEF Done
  <2>4. \A q \in Procs : pc[q] \notin {"write", "sync"}
    <3>1. excl = p
      BY <2>1 DEF Locked, Exclusive
    <3> QED BY <3>1, NoAppendUnder, LogFilesAssumption DEF NoProc
  <2>5. AppendsReachActive'
    BY <2>1, <2>4 DEF AppendsReachActive, ProcsTyped, Done, GoTo
  <2> QED BY <2>1, <2>2, <2>3, <2>5 DEF FilesTyped
<1>6. CASE RotateRename(p)
  BY <1>6, <1>3, <1>4
<1>7. CASE RotateLock(p)
  BY <1>7, <1>1, <1>2
<1>8. CASE RotateCheck(p)
  BY <1>8, <1>1
<1> QED BY <1>5, <1>6, <1>7, <1>8 DEF Rotates

LEMMA OthersInv ==
  ASSUME Inv, NEW p \in Procs, StartExclusive(p) \/ EndExclusive(p) \/ Close(p) \/ Crash(p)
  PROVE  Inv'
<1> USE DEF Inv
<1>1. CASE StartExclusive(p)
  <2>1. /\ Free /\ excl' = p /\ GoTo(p, "exclusive")
        /\ UNCHANGED <<content, active, started, shared, task>>
    BY <1>1 DEF StartExclusive, files, history
  <2>2. "exclusive" \in Exclusive /\ "exclusive" \in Places \ Appending
    BY DEF Places, Appending, Exclusive
  <2>3. task' = [q \in Procs |-> task'[q]] /\ \A q \in Procs : task'[q] = task[q]
    BY <2>1 DEF ProcsTyped
  <2>4. ProcsTyped' /\ Locked'
    BY <2>1, <2>2, <2>3, Takes
  <2>5. AppendsReachActive'
    BY <2>1, <2>2, <2>3, AppendsUndisturbed
  <2> QED BY <2>1, <2>4, <2>5 DEF FilesTyped
<1>2. CASE EndExclusive(p)
  <2>1. /\ GoTo(p, "closed") /\ Unlock(p)
        /\ UNCHANGED <<content, active, started, task>>
    BY <1>2 DEF EndExclusive, files, history
  <2>2. ProcsTyped' /\ Locked'
    BY <2>1, Leaves
  <2>3. AppendsReachActive'
    BY <2>1 DEF GoTo, ProcsTyped, AppendsReachActive
  <2> QED BY <2>1, <2>2, <2>3 DEF FilesTyped
<1>3. CASE Close(p)
  <2>1. GoTo(p, "closed") /\ UNCHANGED <<content, active, started, excl, shared, task>>
    BY <1>3 DEF Close, files, history
  <2>2. "closed" \in Places \ Appending /\ "closed" \notin Exclusive
    BY DEF Places, Appending, Exclusive, Compressing
  <2>3. task' = [q \in Procs |-> task'[q]] /\ \A q \in Procs : task'[q] = task[q]
    BY <2>1 DEF ProcsTyped
  <2>4. ProcsTyped' /\ Locked'
    BY <2>1, <2>2, <2>3, Stays
  <2>5. AppendsReachActive'
    BY <2>1, <2>2, <2>3, AppendsUndisturbed
  <2> QED BY <2>1, <2>4, <2>5 DEF FilesTyped
<1>4. CASE Crash(p)
  <2>1. /\ GoTo(p, "closed") /\ Unlock(p) /\ task' = [task EXCEPT ![p] = NoTask]
        /\ UNCHANGED <<active, started>>
    BY <1>4 DEF Crash, history
  <2>2. content' \in Seq(Seq(Pieces)) /\ Len(content') = Len(content)
    <3>1. CASE pc[p] = "write"
      <4>1. task[p] \in AppendTasks /\ task[p].inode = active /\ active # NoFile
        BY <3>1 DEF ProcsTyped, Appending, AppendsReachActive
      <4> QED BY <1>4, <3>1, <4>1, InterruptedTyped DEF Crash
    <3>2. CASE pc[p] # "write"
      BY <1>4, <3>2 DEF Crash, FilesTyped
    <3> QED BY <3>1, <3>2
  <2>3. ProcsTyped' /\ Locked'
    BY <2>1, Leaves
  <2>4. AppendsReachActive'
    BY <2>1 DEF GoTo, ProcsTyped, AppendsReachActive
  <2> QED BY <2>1, <2>2, <2>3, <2>4 DEF FilesTyped
<1> QED BY <1>1, <1>2, <1>3, <1>4

LEMMA NextInv == Inv /\ [Next]_vars => Inv'
<1> SUFFICES ASSUME Inv, [Next]_vars PROVE Inv'
  OBVIOUS
<1>1. CASE UNCHANGED vars
  BY <1>1 DEF vars, Inv, FilesTyped, ProcsTyped, Locked, AppendsReachActive
<1>2. CASE Next
  BY <1>2, AppendsInv, FinalizesInv, CompressesInv, RotatesInv, OthersInv DEF Next, Progress
<1> QED BY <1>1, <1>2

\* An append that has opened the log writes to the active file, not to one a
\* rotation has renamed: the shared lock covers it from open to sync, and
\* rotation holds the exclusive one (append_jsonl, maybe_rotate_log).
THEOREM AppendsWriteToActive == Spec => []AppendsReachActive
<1>1. Inv => AppendsReachActive
  BY DEF Inv
<1> QED BY <1>1, InitInv, NextInv, PTL DEF Spec

\* Nobody appends while a rotation, a recovery, a replay or a vacuum holds the
\* lock, and at most one process does any of these.
LockExcludes ==
  \A p, q \in Procs : pc[p] \in Exclusive /\ p # q =>
    pc[q] \notin Exclusive \cup {"open", "write", "sync"}

\* The lock discipline of AverLock and lock_shared is mutual exclusion.
THEOREM LockIsExclusive == Spec => []LockExcludes
<1>1. Inv => LockExcludes
  <2> SUFFICES ASSUME Inv, NEW p \in Procs, NEW q \in Procs, pc[p] \in Exclusive, p # q
               PROVE  pc[q] \notin Exclusive \cup {"open", "write", "sync"}
    BY DEF LockExcludes
  <2>1. excl = p /\ excl # NoProc
    BY LogFilesAssumption DEF Inv, Locked, NoProc
  <2> QED BY <2>1 DEF Inv, Locked
<1> QED BY <1>1, InitInv, NextInv, PTL DEF Spec

-----------------------------------------------------------------------------
(* The files of a series in one view: what each rotation holds, and under 0 *)
(* what the active file holds.  A step leaves that view as it is, adds one  *)
(* piece to the active file, or moves the active file behind the others.    *)

Shelf == Indexes \cup {0}

On == [i \in Shelf |-> IF i = 0 THEN PiecesOf(active) ELSE Stored(i)]

Used == {i \in Indexes : plain[i] # NoFile \/ gz[i].state # "absent"}

\* Indexes are used one after the other, and no rotation is empty.
UsedInOrder ==
  /\ \E k \in 0..MaxLines : Used = 1..k
  /\ \A i \in Used : On[i] # <<>>

\* A plain file is not the active one; an archive that is complete has what its
\* plain file has, and one that is not has a plain file.
Archived ==
  \A i \in Indexes :
    /\ plain[i] # NoFile => plain[i] # active
    /\ gz[i].state = "truncated" => plain[i] # NoFile
    /\ gz[i].state = "intact" /\ plain[i] # NoFile => gz[i].pieces = content[plain[i]]

\* The listing of a recovery stays what the directory is, less what it works on.
Listed(p) ==
  LET cur == task[p].cur IN
  /\ pc[p] = "clean" =>
       /\ ~task[p].rotating
       /\ task[p].pending = {i \in Indexes : plain[i] # NoFile}
       /\ task[p].stale = {i \in Indexes : tmp[i].state # "absent"}
  /\ pc[p] \in Compressing =>
       /\ cur \in Indexes /\ plain[cur] # NoFile
       /\ pc[p] = "install" => tmp[cur] = [pieces |-> content[plain[cur]], state |-> "intact"]
       /\ pc[p] = "drop" => gz[cur].state = "intact"
       /\ ~task[p].rotating =>
            /\ task[p].pending = {i \in Indexes : plain[i] # NoFile} \ {cur}
            /\ task[p].stale = {}
            /\ \A i \in Indexes \ {cur} : tmp[i].state = "absent"
            /\ pc[p] \in {"create", "drop"} => tmp[cur].state = "absent"

DirectoryInv == TypeOK /\ UsedInOrder /\ Archived /\ \A p \in Procs : Listed(p)

\* Every line was begun once, and stands in one place.
LinesOnce(on, begun) ==
  /\ \A i \in Shelf : \A a \in DOMAIN on[i] : on[i][a].line \in 1..begun
  /\ \A i, k \in Shelf : \A a \in DOMAIN on[i], b \in DOMAIN on[k] :
       on[i][a].line = on[k][b].line => i = k /\ a = b

Stands(on, line, i) == \E a \in DOMAIN on[i] : on[i][a] = [line |-> line, end |-> "newline"]

Fresh(on, line) == \A i \in Shelf : \A a \in DOMAIN on[i] : on[i][a].line # line

ToWrite(p) == pc[p] \in {"lock", "open", "write"}

\* A line that is still to be written is nowhere yet; one written and not yet
\* acknowledged is in the active file; one acknowledged stands whole.
WritersLines(on) ==
  /\ \A p \in Procs : ToWrite(p) =>
       /\ task[p].line \in 1..started
       /\ Fresh(on, task[p].line)
       /\ \A q \in Procs \ {p} : ToWrite(q) => task[q].line # task[p].line
  /\ \A p \in Procs : pc[p] = "sync" => Stands(on, task[p].line, 0)
  /\ \A line \in acked : \E i \in Shelf : Stands(on, line, i)

SeriesInv == Inv /\ DirectoryInv /\ LinesOnce(On, started) /\ WritersLines(On)

-----------------------------------------------------------------------------
(* The files of a series one after the other. *)

Flat(seqs) == FoldLeft(Join, <<>>, seqs)

LEMMA FlatIsFold == \A seqs : Flat(seqs) = Joins!Fold(<<>>, seqs)
BY DEF Flat, Joins!Fold, Joins!FoldLeft, FoldLeft, Joins!MapThenFoldSet, MapThenFoldSet,
       Joins!Max, Max

\* The first n of some files.
First(f, n) == Flat([i \in 1..n |-> f[i]])

LEMMA FirstNone == \A f : First(f, 0) = <<>>
<1>1. \A f : [i \in 1..0 |-> f[i]] = <<>>
  OBVIOUS
<1> QED BY <1>1, FlatIsFold, Joins!FoldEmpty DEF First

LEMMA FirstNext ==
  ASSUME NEW S, NEW n \in Nat, NEW m, m = n + 1, NEW f, \A i \in 1..m : f[i] \in Seq(S)
  PROVE  First(f, m) = Join(First(f, n), f[m])
<1> DEFINE front == [i \in 1..n |-> f[i]]
           long == [i \in 1..m |-> f[i]]
<1>1. /\ m \in Nat /\ m \in 1..m /\ \A i \in 1..m : i \in 1..n \/ i = m
      /\ \A i \in 1..n : i \in 1..m /\ i # m
  OBVIOUS
<1>2. front \in Seq(Seq(S)) /\ Len(front) = n
  <2>1. \A i \in 1..n : f[i] \in Seq(S)
    BY <1>1
  <2> QED BY <2>1
<1>3. long \in Seq(Seq(S)) /\ Len(long) = m
  BY <1>1
<1>4. long = Append(front, f[m])
  <2>1. f[m] \in Seq(S)
    BY <1>1
  <2>2. /\ Append(front, f[m]) \in Seq(Seq(S)) /\ Len(Append(front, f[m])) = m
        /\ \A i \in 1..n : Append(front, f[m])[i] = front[i]
        /\ Append(front, f[m])[m] = f[m]
    <3> HIDE DEF front
    <3> QED BY <1>2, <2>1, AppendProperties
  <2>3. \A i \in 1..m : long[i] = Append(front, f[m])[i]
    <3>1. \A i \in 1..n : front[i] = f[i]
      OBVIOUS
    <3>2. \A i \in 1..m : long[i] = f[i]
      OBVIOUS
    <3> HIDE DEF front, long
    <3> QED BY <1>1, <2>2, <3>1, <3>2
  <2> HIDE DEF front, long
  <2> QED BY <1>3, <2>2, <2>3, SeqEqual
<1>5. Joins!Fold(<<>>, Append(front, f[m])) = Join(Joins!Fold(<<>>, front), f[m])
  <2>1. f[m] \in Seq(S)
    BY <1>1
  <2> HIDE DEF front
  <2> QED BY <1>2, <2>1, Joins!FoldAppend
<1> QED BY <1>4, <1>5, FlatIsFold DEF First

LEMMA FirstType ==
  ASSUME NEW S, NEW N \in Nat, NEW f, \A i \in 1..N : f[i] \in Seq(S), NEW n \in 0..N
  PROVE  First(f, n) \in Seq(S)
<1> DEFINE T == {m \in Nat : m <= N => First(f, m) \in Seq(S)}
<1>1. 0 \in T
  <2>1. <<>> \in Seq(S)
    OBVIOUS
  <2> QED BY <2>1, FirstNone
<1> HIDE DEF T
<1>2. ASSUME NEW m \in T PROVE m + 1 \in T
  <2> DEFINE k == m + 1
  <2>1. k \in Nat /\ k = m + 1 /\ m \in Nat
    BY DEF T
  <2> HIDE DEF k
  <2> SUFFICES ASSUME k <= N PROVE First(f, k) \in Seq(S)
    BY <2>1 DEF k, T
  <2>2. \A i \in 1..k : f[i] \in Seq(S)
    BY <2>1
  <2>3. m <= N /\ k \in 1..k
    BY <2>1
  <2>4. First(f, m) \in Seq(S) /\ f[k] \in Seq(S)
    BY <2>2, <2>3 DEF T
  <2>5. First(f, k) = Join(First(f, m), f[k])
    BY <2>1, <2>2, FirstNext
  <2> QED BY <2>4, <2>5, ConcatProperties DEF Join
<1>3. T = Nat
  <2>1. T \in SUBSET Nat
    BY DEF T
  <2> QED BY <1>1, <1>2, <2>1, Joins!InductionOnSets
<1> QED BY <1>3 DEF T

\* A file put behind the others, in front of empty ones, comes last.
MovedTo(f, g, k, N, S) ==
  /\ \A i \in 1..N : f[i] \in Seq(S) /\ g[i] \in Seq(S)
  /\ \A i \in 1..N : i # k => f[i] = g[i]
  /\ \A i \in 1..N : k <= i => f[i] = <<>>

LEMMA FirstMoved ==
  ASSUME NEW S, NEW N \in Nat, NEW f, NEW g, NEW k \in 1..N,
         MovedTo(f, g, k, N, S)
  PROVE  First(g, N) = Join(First(f, N), g[k])
<1> DEFINE T == {m \in Nat : k <= m /\ m <= N => First(g, m) = First(f, m) \o g[k]}
<1>1. 0 \in T
  BY DEF T
<1> HIDE DEF T
<1>2. ASSUME NEW m \in T PROVE m + 1 \in T
  <2> DEFINE n == m + 1
  <2>1. n \in Nat /\ n = m + 1 /\ m \in Nat
    BY DEF T
  <2> HIDE DEF n
  <2> SUFFICES ASSUME k <= n, n <= N PROVE First(g, n) = First(f, n) \o g[k]
    BY <2>1 DEF n, T
  <2>2. n \in 1..N /\ m \in 0..N /\ \A i \in 1..n : i \in 1..N
    BY <2>1
  <2>3. First(f, n) = First(f, m) \o f[n] /\ First(g, n) = First(g, m) \o g[n]
    <3>1. \A i \in 1..n : f[i] \in Seq(S) /\ g[i] \in Seq(S)
      BY <2>2 DEF MovedTo
    <3>2. First(f, n) = Join(First(f, m), f[n])
      BY <2>1, <3>1, FirstNext
    <3>3. First(g, n) = Join(First(g, m), g[n])
      BY <2>1, <3>1, FirstNext
    <3> QED BY <3>2, <3>3 DEF Join
  <2>4. First(f, m) \in Seq(S) /\ First(g, m) \in Seq(S) /\ f[n] = <<>>
    <3>1. \A i \in 1..N : f[i] \in Seq(S) /\ g[i] \in Seq(S)
      BY DEF MovedTo
    <3>2. First(f, m) \in Seq(S) /\ First(g, m) \in Seq(S)
      BY <2>2, <3>1, FirstType
    <3> QED BY <2>2, <3>2 DEF MovedTo
  <2>5. First(f, n) = First(f, m)
    BY <2>3, <2>4, ConcatEmptySeq
  <2>6. CASE k = n
    <3>1. \A i \in 1..m : f[i] = g[i]
      BY <2>1, <2>2, <2>6 DEF MovedTo
    <3>2. [i \in 1..m |-> f[i]] = [i \in 1..m |-> g[i]]
      BY <3>1
    <3>3. First(f, m) = First(g, m)
      BY <3>2 DEF First
    <3> QED BY <2>3, <2>5, <2>6, <3>3
  <2>7. CASE k # n
    <3>1. k <= m /\ m <= N
      BY <2>1, <2>2, <2>7
    <3>2. First(g, m) = First(f, m) \o g[k]
      BY <3>1 DEF T
    <3>3. g[n] = <<>>
      BY <2>2, <2>4, <2>7 DEF MovedTo
    <3>4. First(g, n) = First(g, m)
      BY <2>3, <2>4, <3>3, ConcatEmptySeq
    <3> QED BY <2>5, <3>2, <3>4
  <2> QED BY <2>6, <2>7
<1>3. T = Nat
  <2>1. T \in SUBSET Nat
    BY DEF T
  <2> QED BY <1>1, <1>2, <2>1, Joins!InductionOnSets
<1> QED BY <1>3 DEF T, Join

\* Files that are all empty are nothing.
LEMMA FirstEmpty ==
  ASSUME NEW N \in Nat, NEW f, \A i \in 1..N : f[i] = <<>>
  PROVE  First(f, N) = <<>>
<1>1. \A i \in 1..N : f[i] \in Seq({})
  BY EmptySeq
<1>2. First(f, N) \in Seq({})
  <2>1. N \in 0..N
    OBVIOUS
  <2> QED BY <1>1, <2>1, FirstType
<1>3. Len(First(f, N)) = 0
  <2>1. CASE Len(First(f, N)) # 0
    <3>1. 1 \in 1..Len(First(f, N))
      BY <1>2, <2>1, LenProperties
    <3> QED BY <1>2, <3>1, ElementOfSeq
  <2> QED BY <2>1
<1> QED BY <1>2, <1>3, EmptySeq

Has(seq, x) == \E j \in DOMAIN seq : seq[j] = x

\* What a concatenation has is in one of its parts.
LEMMA ConcatHas ==
  ASSUME NEW S, NEW s \in Seq(S), NEW t \in Seq(S), NEW x
  PROVE  Has(s \o t, x) <=> Has(s, x) \/ Has(t, x)
<1> DEFINE n == Len(s)
           l == Len(t)
           u == s \o t
<1>1. /\ n \in Nat /\ l \in Nat /\ DOMAIN s = 1..n /\ DOMAIN t = 1..l
      /\ DOMAIN u = 1..(n + l)
      /\ \A i \in 1..(n + l) : u[i] = IF i <= n THEN s[i] ELSE t[i - n]
  BY ConcatProperties, LenProperties
<1> HIDE DEF n, l, u
<1>2. ASSUME NEW j \in DOMAIN u, u[j] = x PROVE Has(s, x) \/ Has(t, x)
  <2>1. CASE j <= n
    BY <1>1, <1>2, <2>1 DEF Has
  <2>2. CASE ~(j <= n)
    <3>1. j - n \in 1..l /\ u[j] = t[j - n]
      BY <1>1, <2>2
    <3> QED BY <1>1, <1>2, <3>1 DEF Has
  <2> QED BY <2>1, <2>2
<1>3. ASSUME NEW j \in DOMAIN s, s[j] = x PROVE Has(u, x)
  <2>1. j \in 1..(n + l) /\ j <= n
    BY <1>1
  <2> QED BY <1>1, <1>3, <2>1 DEF Has
<1>4. ASSUME NEW j \in DOMAIN t, t[j] = x PROVE Has(u, x)
  <2> DEFINE k == n + j
  <2>1. k \in 1..(n + l) /\ ~(k <= n) /\ k - n = j
    BY <1>1
  <2> HIDE DEF k
  <2> QED BY <1>1, <1>4, <2>1 DEF Has
<1> QED BY <1>2, <1>3, <1>4 DEF u, Has

\* What is in one of the files is in all of them together, and nothing else.
LEMMA FirstHas ==
  ASSUME NEW S, NEW N \in Nat, NEW f, \A i \in 1..N : f[i] \in Seq(S), NEW x
  PROVE  Has(First(f, N), x) <=> \E i \in 1..N : Has(f[i], x)
<1> DEFINE T == {m \in Nat : m <= N =>
                   (Has(First(f, m), x) <=> \E i \in 1..m : Has(f[i], x))}
<1>1. 0 \in T
  <2>1. First(f, 0) = <<>> /\ 1..0 = {}
    BY FirstNone
  <2> QED BY <2>1 DEF Has
<1> HIDE DEF T
<1>2. ASSUME NEW m \in T PROVE m + 1 \in T
  <2> DEFINE n == m + 1
  <2>1. n \in Nat /\ n = m + 1 /\ m \in Nat
    BY DEF T
  <2> HIDE DEF n
  <2> SUFFICES ASSUME n <= N
               PROVE  Has(First(f, n), x) <=> \E i \in 1..n : Has(f[i], x)
    BY <2>1 DEF n, T
  <2>2. n \in 1..N /\ m \in 0..N /\ m <= N /\ \A i \in 1..n : i \in 1..N
    BY <2>1
  <2>3. First(f, n) = First(f, m) \o f[n]
    <3>1. First(f, n) = Join(First(f, m), f[n])
      BY <2>1, <2>2, FirstNext
    <3> QED BY <3>1 DEF Join
  <2>4. First(f, m) \in Seq(S) /\ f[n] \in Seq(S)
    BY <2>2, FirstType
  <2>5. Has(First(f, m), x) <=> \E i \in 1..m : Has(f[i], x)
    BY <2>2 DEF T
  <2>6. Has(First(f, n), x) <=> Has(First(f, m), x) \/ Has(f[n], x)
    BY <2>3, <2>4, ConcatHas
  <2>7. \A i : i \in 1..n <=> i \in 1..m \/ i = n
    BY <2>1
  <2> QED BY <2>5, <2>6, <2>7
<1>3. T = Nat
  <2>1. T \in SUBSET Nat
    BY DEF T
  <2> QED BY <1>1, <1>2, <2>1, Joins!InductionOnSets
<1> QED BY <1>3 DEF T

-----------------------------------------------------------------------------
\* Where the files stand, step by step.

DirTyped ==
  /\ plain \in [Indexes -> 0..Len(content)]
  /\ gz \in [Indexes -> Archives] /\ tmp \in [Indexes -> Archives]
  /\ task \in [Procs -> Tasks]
  /\ acked \subseteq 1..MaxLines

LEMMA TypeParts == Inv => (TypeOK <=> DirTyped)
BY DEF Inv, FilesTyped, ProcsTyped, TypeOK, DirTyped, Places

LEMMA TypePartsNext == Inv' => (TypeOK' <=> DirTyped')
BY TypeParts, PTL

LEMMA IndexFacts ==
  /\ Indexes \subseteq Nat \ {0} /\ 0 \notin Indexes /\ 0 \in Shelf /\ Indexes \subseteq Shelf
  /\ Indexes = 1..(MaxLines + 1) /\ MaxLines \in Nat \ {0}
BY LogFilesAssumption DEF Indexes, Shelf

\* A file that exists is one of the files created.
LEMMA PlainFacts ==
  ASSUME Inv, DirTyped, NEW i \in Indexes
  PROVE  /\ plain[i] \in 0..Len(content) /\ Len(content) \in Nat /\ active \in 0..Len(content)
         /\ plain[i] # NoFile => plain[i] \in 1..Len(content) /\ content[plain[i]] \in Seq(Pieces)
         /\ active # NoFile => active \in 1..Len(content) /\ content[active] \in Seq(Pieces)
         /\ gz[i] \in Archives /\ tmp[i] \in Archives
BY DEF Inv, FilesTyped, DirTyped, NoFile

LEMMA OnType ==
  ASSUME Inv, DirTyped PROVE On \in [Shelf -> Seq(Pieces)]
<1>1. PiecesOf(active) \in Seq(Pieces)
  BY DEF PiecesOf, Inv, FilesTyped, NoFile
<1>2. \A i \in Indexes : Stored(i) \in Seq(Pieces)
  BY PlainFacts DEF Stored, PiecesOf, Archives
<1> QED BY <1>1, <1>2 DEF On, Shelf

LEMMA OnValues ==
  /\ On[0] = PiecesOf(active)
  /\ \A i \in Indexes : On[i] = Stored(i)
BY IndexFacts DEF On, Shelf

LEMMA OnSame ==
  ASSUME PiecesOf(active)' = PiecesOf(active), \A i \in Indexes : Stored(i)' = Stored(i)
  PROVE  On' = On
BY IndexFacts DEF On, Shelf

\* Who works on the directory.
Busy(p) == pc[p] \in {"clean"} \cup Compressing

LEMMA BusyHolds ==
  ASSUME Inv, NEW p \in Procs, Busy(p)
  PROVE  /\ excl = p /\ excl # NoProc /\ shared = {}
         /\ \A q \in Procs \ {p} : pc[q] \notin Exclusive \cup {"open", "write", "sync"}
BY LogFilesAssumption DEF Inv, Locked, Busy, Exclusive, NoProc

LEMMA OthersIdle ==
  ASSUME Inv, NEW p \in Procs, pc[p] \in Exclusive \cup {"open", "write", "sync"}
  PROVE  \A q \in Procs \ {p} : ~Busy(q)
BY BusyHolds

LEMMA ListedRest ==
  ASSUME ProcsTyped, NEW p \in Procs, NEW place, GoTo(p, place),
         \A q \in Procs : Listed(q), \A q \in Procs \ {p} : task'[q] = task[q],
         \/ UNCHANGED <<content, plain, gz, tmp>>
         \/ \A q \in Procs \ {p} : ~Busy(q),
         place \notin {"clean"} \cup Compressing
  PROVE  \A q \in Procs : Listed(q)'
<1>1. pc'[p] = place /\ \A q \in Procs \ {p} : pc'[q] = pc[q]
  BY DEF ProcsTyped, GoTo
<1>2. Listed(p)'
  BY <1>1 DEF Listed
<1>3. ASSUME NEW q \in Procs \ {p} PROVE Listed(q)'
  <2>1. CASE UNCHANGED <<content, plain, gz, tmp>>
    BY <1>1, <2>1 DEF Listed
  <2>2. CASE ~Busy(q)
    BY <1>1, <2>2 DEF Listed, Busy
  <2> QED BY <2>1, <2>2
<1> QED BY <1>2, <1>3

TaskStep(p) ==
  /\ task' \in [Procs -> Tasks]
  /\ \A q \in Procs \ {p} : task'[q] = task[q]

LEMMA NoTaskType == NoTask \in Tasks
BY IndexFacts DEF NoTask, Tasks, NoFile

\* Steps that leave every file alone.
LEMMA QuietDirectory ==
  ASSUME Inv, DirectoryInv, NEW p \in Procs, NEW place, GoTo(p, place),
         place \notin {"clean"} \cup Compressing,
         UNCHANGED files, TaskStep(p), acked' \subseteq 1..MaxLines, Inv'
  PROVE  On' = On /\ DirectoryInv'
<1>1. UNCHANGED <<content, active, plain, gz, tmp>>
  BY DEF files
<1>2. On' = On
  BY <1>1, OnSame DEF PiecesOf, Stored
<1>3. DirTyped
  BY TypeParts DEF DirectoryInv
<1>4. DirTyped'
  BY <1>1, <1>3 DEF DirTyped, TaskStep
<1>5. TypeOK'
  <2>1. Inv' => (TypeOK' <=> DirTyped')
    BY TypePartsNext
  <2> QED BY <1>4, <2>1
<1>6. UsedInOrder' /\ Archived'
  BY <1>1, <1>2 DEF DirectoryInv, UsedInOrder, Used, Archived
<1>7. \A q \in Procs : Listed(q)'
  BY <1>1, ListedRest DEF Inv, DirectoryInv, TaskStep
<1> QED BY <1>2, <1>5, <1>6, <1>7 DEF DirectoryInv

LEMMA QuietSteps ==
  ASSUME SeriesInv, NEW p \in Procs, Inv',
         \/ StartAppend(p) \/ LockShared(p) \/ LockTimeout(p) \/ Sync(p) \/ SyncFails(p)
         \/ FinalizeSkipped(p) \/ FinalizeDone(p) \/ RotateCheck(p) \/ RotateLock(p)
         \/ RotateRename(p) /\ ~RotationNeeded
         \/ StartExclusive(p) \/ EndExclusive(p) \/ Close(p)
         \/ Crash(p) /\ UNCHANGED content
  PROVE  On' = On /\ DirectoryInv'
<1>1. UNCHANGED files
  BY DEF StartAppend, LockShared, LockTimeout, Sync, SyncFails, FinalizeSkipped, FinalizeDone,
         RotateCheck, RotateLock, RotateRename, StartExclusive, EndExclusive, Close, Crash, files
<1>2. \E place \in {"lock", "open", "idle", "rotate", "relock", "rename", "exclusive",
                    "closed"} : GoTo(p, place)
  BY DEF StartAppend, LockShared, LockTimeout, Sync, SyncFails, FinalizeSkipped, FinalizeDone,
         RotateCheck, RotateLock, RotateRename, StartExclusive, EndExclusive, Close, Crash, Done
<1>3. TaskStep(p)
  <2>1. task \in [Procs -> Tasks]
    BY TypeParts DEF SeriesInv, DirectoryInv, DirTyped
  <2>2. CASE UNCHANGED task
    BY <2>1, <2>2 DEF TaskStep
  <2>3. CASE task' = [task EXCEPT ![p] = NoTask]
    BY <2>1, <2>3, NoTaskType DEF TaskStep
  <2>4. CASE StartAppend(p)
    <3>1. [NoTask EXCEPT !.line = started + 1] \in Tasks
      <4>1. started + 1 \in 0..MaxLines
        BY <2>4, LogFilesAssumption DEF StartAppend, SeriesInv, Inv, FilesTyped
      <4> QED BY <4>1, NoTaskType DEF NoTask, Tasks
    <3> QED BY <2>1, <2>4, <3>1 DEF StartAppend, TaskStep
  <2> QED
    BY <2>2, <2>3, <2>4
    DEF LockShared, LockTimeout, Sync, SyncFails, FinalizeSkipped, FinalizeDone,
        RotateCheck, RotateLock, RotateRename, StartExclusive, EndExclusive, Close, Crash, Done
<1>4. acked' \subseteq 1..MaxLines
  <2>1. acked \subseteq 1..MaxLines
    BY TypeParts DEF SeriesInv, DirectoryInv, DirTyped
  <2>2. CASE Sync(p)
    <3>1. task[p].line \in 1..MaxLines
      BY <2>2 DEF Sync, SeriesInv, Inv, ProcsTyped, AppendTasks, Appending
    <3> QED BY <2>1, <2>2, <3>1 DEF Sync
  <2>3. CASE UNCHANGED acked
    BY <2>1, <2>3
  <2> QED
    BY <2>2, <2>3
    DEF StartAppend, LockShared, LockTimeout, SyncFails, FinalizeSkipped, FinalizeDone,
        RotateCheck, RotateLock, RotateRename, StartExclusive, EndExclusive, Close, Crash, history
<1>5. PICK place \in {"lock", "open", "idle", "rotate", "relock", "rename", "exclusive",
                      "closed"} : GoTo(p, place)
  BY <1>2
<1>6. place \notin {"clean"} \cup Compressing
  BY DEF Compressing
<1> QED BY <1>1, <1>3, <1>4, <1>5, <1>6, QuietDirectory DEF SeriesInv

\* Steps that create or extend the active file.
LEMMA ContentDirectory ==
  ASSUME Inv, DirectoryInv, NEW p \in Procs, NEW place, GoTo(p, place),
         pc[p] \in {"open", "write", "touch"},
         place \notin {"clean"} \cup Compressing,
         UNCHANGED <<plain, gz, tmp, acked>>, Len(content') >= Len(content), active' # NoFile,
         \A i \in 1..Len(content) : i # active' => content'[i] = content[i],
         \A i \in Indexes : plain[i] # active', TaskStep(p), Inv'
  PROVE  (\A i \in Indexes : Stored(i)' = Stored(i)) /\ DirectoryInv'
<1>1. DirTyped
  BY TypeParts DEF DirectoryInv
<1>2. \A i \in Indexes : plain[i] # NoFile => content'[plain[i]] = content[plain[i]]
  BY <1>1, PlainFacts
<1>3. \A i \in Indexes : Stored(i)' = Stored(i)
  BY <1>2 DEF Stored, PiecesOf
<1>4. DirTyped'
  <2>1. Len(content') \in Nat
    BY DEF Inv, FilesTyped
  <2>2. \A n \in 0..Len(content) : n \in 0..Len(content')
    BY <2>1 DEF Inv, FilesTyped
  <2> QED BY <1>1, <2>2 DEF DirTyped, TaskStep
<1>5. TypeOK'
  <2>1. Inv' => (TypeOK' <=> DirTyped')
    BY TypePartsNext
  <2> QED BY <1>4, <2>1
<1>6. \A i \in Indexes : On'[i] = On[i]
  BY <1>3, IndexFacts DEF On, Shelf
<1>7. UsedInOrder'
  <2>1. Used' = Used /\ Used \subseteq Indexes
    BY DEF Used
  <2> QED BY <1>6, <2>1 DEF DirectoryInv, UsedInOrder
<1>8. Archived'
  BY <1>2 DEF DirectoryInv, Archived
<1>9. \A q \in Procs \ {p} : ~Busy(q)
  BY OthersIdle DEF Exclusive
<1>10. \A q \in Procs : Listed(q)'
  BY <1>9, ListedRest DEF Inv, DirectoryInv, TaskStep
<1> QED BY <1>3, <1>5, <1>7, <1>8, <1>10 DEF DirectoryInv

LEMMA TaskLeft ==
  ASSUME DirTyped, NEW p \in Procs, task' = [task EXCEPT ![p] = NoTask] \/ UNCHANGED task
  PROVE  TaskStep(p)
BY NoTaskType DEF DirTyped, TaskStep

\* An active file created.
LEMMA CreateSteps ==
  ASSUME SeriesInv, NEW p \in Procs, Inv', OpenActive(p) \/ Touch(p)
  PROVE  On' = On /\ DirectoryInv'
<1> USE DEF SeriesInv
<1>1. DirTyped
  BY TypeParts DEF DirectoryInv
<1>2. PICK place \in {"write", "idle"} : GoTo(p, place)
  BY DEF OpenActive, Touch, Done
<1>3. place \notin {"clean"} \cup Compressing
  BY DEF Compressing
<1>4. TaskStep(p)
  <2>1. CASE Touch(p)
    BY <1>1, <2>1, TaskLeft DEF Touch, Done
  <2>2. CASE OpenActive(p)
    <3>1. active' \in Nat /\ task' = [task EXCEPT ![p].inode = active']
      BY <2>2 DEF OpenActive, Inv, FilesTyped
    <3> QED BY <1>1, <3>1 DEF DirTyped, TaskStep, Tasks
  <2> QED BY <2>1, <2>2
<1>5. UNCHANGED <<plain, gz, tmp, acked>> /\ pc[p] \in {"open", "write", "touch"}
  BY DEF OpenActive, Touch, history
<1>6. CASE UNCHANGED <<content, active>>
  <2>1. UNCHANGED files /\ acked' \subseteq 1..MaxLines
    BY <1>1, <1>5, <1>6 DEF files, DirTyped
  <2> QED BY <1>2, <1>3, <1>4, <2>1, QuietDirectory
<1>7. CASE active = NoFile /\ Create
  <2>1. content \in Seq(Seq(Pieces)) /\ Len(content) \in Nat
    BY DEF Inv, FilesTyped
  <2>2. /\ Len(content') = Len(content) + 1 /\ content'[Len(content) + 1] = <<>>
        /\ \A i \in 1..Len(content) : content'[i] = content[i]
        /\ active' = Len(content) + 1
    BY <1>7, <2>1 DEF Create
  <2>3. active' # NoFile /\ Len(content') >= Len(content)
    BY <2>1, <2>2 DEF NoFile
  <2>4. \A i \in Indexes : plain[i] # active'
    BY <1>1, <2>1, <2>2, PlainFacts
  <2>5. (\A i \in Indexes : Stored(i)' = Stored(i)) /\ DirectoryInv'
    BY <1>2, <1>3, <1>4, <1>5, <2>2, <2>3, <2>4, ContentDirectory
  <2>6. PiecesOf(active)' = PiecesOf(active)
    BY <1>7, <2>2, <2>3 DEF PiecesOf
  <2> QED BY <2>5, <2>6, OnSame
<1> QED BY <1>6, <1>7 DEF OpenActive, Touch

\* A piece written.
Added(on, on2, piece) == on2 = [on EXCEPT ![0] = Append(on[0], piece)]

LEMMA WroteSteps ==
  ASSUME SeriesInv, NEW p \in Procs, Inv', NEW end \in {"newline", "bare", "cut"},
         pc[p] = "write", Wrote(p, end),
         NEW place \in {"sync", "idle", "closed"}, GoTo(p, place),
         UNCHANGED <<active, plain, gz, tmp, acked>>,
         task' = [task EXCEPT ![p] = NoTask] \/ UNCHANGED task
  PROVE  Added(On, On', [line |-> task[p].line, end |-> end]) /\ DirectoryInv'
<1> USE DEF SeriesInv
<1> DEFINE piece == [line |-> task[p].line, end |-> end]
<1>1. DirTyped
  BY TypeParts DEF DirectoryInv
<1>2. active # NoFile /\ task[p].inode = active
  BY DEF Inv, AppendsReachActive
<1>3. active \in 1..Len(content) /\ content \in Seq(Seq(Pieces))
  BY <1>2 DEF Inv, FilesTyped, NoFile
<1>4. content' = [content EXCEPT ![active] = Append(content[active], piece)]
  BY <1>2 DEF Wrote
<1>5. /\ Len(content') >= Len(content)
      /\ content'[active] = Append(content[active], piece)
      /\ \A i \in 1..Len(content) : i # active => content'[i] = content[i]
  <2> HIDE DEF piece
  <2> QED BY <1>3, <1>4
<1>6. place \notin {"clean"} \cup Compressing
  BY DEF Compressing
<1>7. TaskStep(p)
  BY <1>1, TaskLeft
<1>8. \A i \in Indexes : plain[i] # active'
  BY <1>2 DEF DirectoryInv, Archived
<1>9. active' # NoFile /\ \A i \in 1..Len(content) : i # active' => content'[i] = content[i]
  BY <1>2, <1>5
<1>10. (\A i \in Indexes : Stored(i)' = Stored(i)) /\ DirectoryInv'
  <2> HIDE DEF piece
  <2> QED BY <1>5, <1>6, <1>7, <1>8, <1>9, ContentDirectory
<1>11. PiecesOf(active)' = Append(PiecesOf(active), piece)
  BY <1>2, <1>5 DEF PiecesOf
<1>12. On' = [On EXCEPT ![0] = Append(On[0], piece)]
  <2>1. /\ On'[0] = Append(On[0], piece) /\ \A i \in Indexes : On'[i] = On[i]
    <3> HIDE DEF piece
    <3> QED BY <1>10, <1>11, IndexFacts DEF On, Shelf
  <2>2. On = [i \in Shelf |-> On[i]] /\ On' = [i \in Shelf |-> On'[i]]
    BY DEF On
  <2>3. \A i \in Shelf : i = 0 \/ (i # 0 /\ i \in Indexes)
    BY IndexFacts DEF Shelf
  <2> HIDE DEF piece
  <2> QED BY <2>1, <2>2, <2>3
<1> QED BY <1>10, <1>12 DEF Added

\* Steps of a recovery or a compression: what the files hold stays.
LEMMA WorkDirectory ==
  ASSUME Inv, DirectoryInv, NEW p \in Procs, Inv', UNCHANGED <<content, active, acked>>,
         \A q \in Procs \ {p} : ~Busy(q) /\ pc'[q] = pc[q],
         plain' \in [Indexes -> 0..Len(content)],
         gz' \in [Indexes -> Archives], tmp' \in [Indexes -> Archives], TaskStep(p),
         \A i \in Indexes : Stored(i)' = Stored(i), Used' = Used, Archived', Listed(p)'
  PROVE  On' = On /\ DirectoryInv'
<1>1. On' = On
  BY OnSame DEF PiecesOf
<1>2. DirTyped
  BY TypeParts DEF DirectoryInv
<1>3. DirTyped'
  BY <1>2 DEF DirTyped, TaskStep
<1>4. TypeOK'
  <2>1. Inv' => (TypeOK' <=> DirTyped')
    BY TypePartsNext
  <2> QED BY <1>3, <2>1
<1>5. UsedInOrder'
  BY <1>1 DEF DirectoryInv, UsedInOrder
<1>6. ASSUME NEW q \in Procs \ {p} PROVE Listed(q)'
  BY DEF Listed, Busy
<1> QED BY <1>1, <1>4, <1>5, <1>6 DEF DirectoryInv

LEMMA NoArchiveType == NoArchive \in Archives /\ NoArchive.state = "absent"
BY DEF NoArchive, Archives

LEMMA FinalizeSteps ==
  ASSUME SeriesInv, NEW p \in Procs, Inv', FinalizeLocked(p) \/ RemoveTmp(p)
  PROVE  On' = On /\ DirectoryInv'
<1> USE DEF SeriesInv
<1>1. DirTyped
  BY TypeParts DEF DirectoryInv
<1>2. UNCHANGED <<content, active, plain, gz, acked>>
  BY DEF FinalizeLocked, RemoveTmp, files, history
<1>3. pc' = [pc EXCEPT ![p] = "clean"] /\ pc'[p] = "clean" /\ \A q \in Procs \ {p} : pc'[q] = pc[q]
  BY DEF FinalizeLocked, RemoveTmp, GoTo, Inv, ProcsTyped
<1>4. \A q \in Procs \ {p} : ~Busy(q)
  <2>1. CASE FinalizeLocked(p)
    BY <2>1, BusyHolds DEF FinalizeLocked, Free
  <2>2. CASE RemoveTmp(p)
    BY <2>2, OthersIdle DEF RemoveTmp, Exclusive
  <2> QED BY <2>1, <2>2
<1>5. /\ plain' \in [Indexes -> 0..Len(content)] /\ gz' \in [Indexes -> Archives]
      /\ \A i \in Indexes : Stored(i)' = Stored(i)
      /\ Used' = Used /\ Archived'
  BY <1>1, <1>2 DEF DirTyped, Stored, PiecesOf, Used, Archived, DirectoryInv
<1>6. tmp' \in [Indexes -> Archives]
  BY <1>1, NoArchiveType DEF FinalizeLocked, RemoveTmp, files, DirTyped
<1>7. CASE FinalizeLocked(p)
  <2> DEFINE new == [NoTask EXCEPT !.pending = {i \in Indexes : plain[i] # NoFile},
                                   !.stale = {i \in Indexes : tmp[i].state # "absent"}]
  <2>1. /\ task' = [task EXCEPT ![p] = new] /\ UNCHANGED tmp
    BY <1>7 DEF FinalizeLocked, files
  <2>2. /\ new \in Tasks /\ ~new.rotating
        /\ new.pending = {i \in Indexes : plain[i] # NoFile}
        /\ new.stale = {i \in Indexes : tmp[i].state # "absent"}
    BY NoTaskType DEF NoTask, Tasks
  <2> HIDE DEF new
  <2>3. TaskStep(p) /\ task'[p] = new
    BY <1>1, <2>1, <2>2 DEF TaskStep, DirTyped
  <2>4. Listed(p)'
    BY <1>2, <1>3, <2>1, <2>2, <2>3 DEF Listed, Compressing
  <2> QED BY <1>2, <1>3, <1>4, <1>5, <1>6, <2>3, <2>4, WorkDirectory
<1>8. CASE RemoveTmp(p)
  <2>1. PICK i \in task[p].stale :
          /\ tmp' = [tmp EXCEPT ![i] = NoArchive]
          /\ task' = [task EXCEPT ![p].stale = task[p].stale \ {i}]
    BY <1>8 DEF RemoveTmp
  <2>2. pc[p] = "clean" /\ task[p] \in Tasks
    BY <1>1, <1>8 DEF RemoveTmp, DirTyped
  <2>3. /\ ~task[p].rotating /\ task[p].pending = {k \in Indexes : plain[k] # NoFile}
        /\ task[p].stale = {k \in Indexes : tmp[k].state # "absent"}
    BY <2>2 DEF DirectoryInv, Listed
  <2>4. /\ TaskStep(p) /\ task'[p].rotating = task[p].rotating
        /\ task'[p].pending = task[p].pending /\ task'[p].stale = task[p].stale \ {i}
    BY <1>1, <2>1, <2>2 DEF TaskStep, DirTyped, Tasks
  <2>5. task'[p].stale = {k \in Indexes : tmp'[k].state # "absent"}
    <3>1. i \in Indexes /\ tmp \in [Indexes -> Archives]
      BY <1>1, <2>3 DEF DirTyped
    <3>2. tmp'[i].state = "absent" /\ \A k \in Indexes \ {i} : tmp'[k] = tmp[k]
      BY <2>1, <3>1, NoArchiveType
    <3>3. task'[p].stale = {k \in Indexes : tmp[k].state # "absent"} \ {i}
      BY <2>3, <2>4
    <3> QED BY <3>2, <3>3
  <2>6. Listed(p)'
    BY <1>2, <1>3, <2>3, <2>4, <2>5 DEF Listed, Compressing
  <2> QED BY <1>2, <1>3, <1>4, <1>5, <1>6, <2>4, <2>6, WorkDirectory
<1> QED BY <1>7, <1>8

LEMMA ArchiveSteps ==
  ASSUME SeriesInv, NEW p \in Procs, Inv', ArchiveKept(p) \/ ArchiveRemade(p)
  PROVE  On' = On /\ DirectoryInv'
<1> USE DEF SeriesInv
<1>1. DirTyped
  BY TypeParts DEF DirectoryInv
<1>2. PICK i \in Indexes :
        /\ Finalizing(p, i)
        /\ \/ /\ gz[i].state = "intact" /\ plain' = [plain EXCEPT ![i] = NoFile]
              /\ UNCHANGED <<gz, pc>>
           \/ /\ gz[i].state # "intact" /\ gz' = [gz EXCEPT ![i] = NoArchive]
              /\ GoTo(p, "create") /\ UNCHANGED plain
  BY DEF ArchiveKept, ArchiveRemade
<1>3. /\ UNCHANGED <<content, active, acked, tmp>> /\ pc[p] = "clean"
      /\ task[p].stale = {} /\ i \in task[p].pending
      /\ task' = [task EXCEPT ![p].pending = task[p].pending \ {i}, ![p].cur = i]
  BY <1>2 DEF Finalizing, history
<1>4. \A q \in Procs \ {p} : ~Busy(q) /\ pc'[q] = pc[q]
  BY <1>2, <1>3, OthersIdle DEF Exclusive, GoTo, Inv, ProcsTyped
<1>5. /\ ~task[p].rotating /\ task[p].pending = {k \in Indexes : plain[k] # NoFile}
      /\ task[p].stale = {k \in Indexes : tmp[k].state # "absent"}
  BY <1>3 DEF DirectoryInv, Listed
<1>6. /\ TaskStep(p) /\ ~task'[p].rotating /\ task'[p].cur = i /\ task'[p].stale = {}
      /\ task'[p].pending = task[p].pending \ {i}
  <2>1. task[p] \in Tasks
    BY <1>1 DEF DirTyped
  <2> QED BY <1>1, <1>3, <1>5, <2>1 DEF TaskStep, DirTyped, Tasks
<1>7. plain[i] # NoFile /\ \A k \in Indexes : tmp'[k].state = "absent"
  BY <1>3, <1>5
<1>8. tmp' \in [Indexes -> Archives]
  BY <1>1, <1>3 DEF DirTyped
<1>9. CASE gz[i].state = "intact"
  <2>1. plain' = [plain EXCEPT ![i] = NoFile] /\ UNCHANGED <<gz, pc>>
    BY <1>2, <1>9
  <2>2. plain'[i] = NoFile /\ \A k \in Indexes \ {i} : plain'[k] = plain[k]
    BY <1>1, <2>1 DEF DirTyped
  <2>3. plain' \in [Indexes -> 0..Len(content)] /\ gz' \in [Indexes -> Archives]
    <3>1. NoFile \in 0..Len(content)
      BY DEF NoFile, Inv, FilesTyped
    <3> QED BY <1>1, <2>1, <3>1 DEF DirTyped
  <2>4. \A k \in Indexes : Stored(k)' = Stored(k)
    BY <1>3, <1>9, <2>1, <2>2 DEF Stored, PiecesOf
  <2>5. Used' = Used /\ Archived'
    BY <1>3, <1>9, <2>1, <2>2 DEF Used, DirectoryInv, Archived
  <2>6. task'[p].pending = {k \in Indexes : plain'[k] # NoFile}
    BY <1>5, <1>6, <2>2
  <2>7. Listed(p)'
    BY <1>3, <1>6, <1>7, <2>1, <2>6 DEF Listed, Compressing
  <2> QED BY <1>3, <1>4, <1>6, <1>8, <2>3, <2>4, <2>5, <2>7, WorkDirectory
<1>10. CASE gz[i].state # "intact"
  <2>1. gz' = [gz EXCEPT ![i] = NoArchive] /\ GoTo(p, "create") /\ UNCHANGED plain
    BY <1>2, <1>10
  <2>2. gz'[i] = NoArchive /\ \A k \in Indexes \ {i} : gz'[k] = gz[k]
    BY <1>1, <2>1 DEF DirTyped
  <2>3. plain' \in [Indexes -> 0..Len(content)] /\ gz' \in [Indexes -> Archives]
    BY <1>1, <2>1, NoArchiveType DEF DirTyped
  <2>4. \A k \in Indexes : Stored(k)' = Stored(k)
    BY <1>3, <1>10, <2>1, <2>2, NoArchiveType DEF Stored, PiecesOf
  <2>5. Used' = Used /\ Archived'
    BY <1>3, <1>7, <1>10, <2>1, <2>2, NoArchiveType DEF Used, DirectoryInv, Archived
  <2>6. pc'[p] = "create"
    BY <2>1 DEF GoTo, Inv, ProcsTyped
  <2>7. Listed(p)'
    BY <1>5, <1>6, <1>7, <2>1, <2>6 DEF Listed, Compressing
  <2> QED BY <1>3, <1>4, <1>6, <1>8, <2>3, <2>4, <2>5, <2>7, WorkDirectory
<1> QED BY <1>9, <1>10

LEMMA CompressSteps ==
  ASSUME SeriesInv, NEW p \in Procs, Inv', Compresses(p)
  PROVE  On' = On /\ DirectoryInv'
<1> USE DEF SeriesInv
<1> DEFINE cur == task[p].cur
<1>1. DirTyped
  BY TypeParts DEF DirectoryInv
<1>2. UNCHANGED <<content, active, acked, task>> /\ pc[p] \in Compressing
  BY DEF Compresses, GzCreate, GzFill, GzInstall, DropPlain, history, Compressing
<1>3. \A q \in Procs \ {p} : ~Busy(q) /\ pc'[q] = pc[q]
  BY <1>2, OthersIdle
  DEF Exclusive, Compresses, GzCreate, GzFill, GzInstall, DropPlain, GoTo, Inv, ProcsTyped
<1>4. TaskStep(p) /\ UNCHANGED cur
  BY <1>1, <1>2, TaskLeft
<1>5. cur \in Indexes /\ plain[cur] # NoFile
  BY <1>2 DEF DirectoryInv, Listed
<1>6. content[plain[cur]] \in Seq(Pieces)
  BY <1>1, <1>5, PlainFacts
<1>7. /\ plain \in [Indexes -> 0..Len(content)] /\ gz \in [Indexes -> Archives]
      /\ tmp \in [Indexes -> Archives] /\ pc \in [Procs -> Places]
  BY <1>1 DEF DirTyped, Inv, ProcsTyped
<1>8. Listed(p)
  BY DEF DirectoryInv
<1>9. ASSUME UNCHANGED <<plain, gz>>
      PROVE /\ \A k \in Indexes : Stored(k)' = Stored(k)
            /\ Used' = Used /\ Archived'
  BY <1>2, <1>9 DEF Stored, PiecesOf, Used, DirectoryInv, Archived
<1> HIDE DEF cur
<1>10. CASE GzCreate(p)
  <2> DEFINE new == [pieces |-> <<>>, state |-> "truncated"]
  <2>1. /\ tmp' = [tmp EXCEPT ![cur] = new] /\ pc[p] = "create" /\ pc'[p] = "fill"
        /\ UNCHANGED <<plain, gz>>
    BY <1>7, <1>10 DEF GzCreate, GoTo, cur
  <2>2. new \in Archives
    <3>1. <<>> \in Seq(Pieces)
      OBVIOUS
    <3> QED BY <3>1 DEF Archives
  <2> HIDE DEF new
  <2>3. tmp' \in [Indexes -> Archives] /\ \A k \in Indexes \ {cur} : tmp'[k] = tmp[k]
    BY <1>5, <1>7, <2>1, <2>2
  <2>4. Listed(p)'
    BY <1>2, <1>4, <1>5, <1>8, <2>1, <2>3 DEF Listed, Compressing, cur
  <2> QED BY <1>2, <1>3, <1>4, <1>7, <1>9, <2>1, <2>3, <2>4, WorkDirectory
<1>11. CASE GzFill(p)
  <2> DEFINE new == [pieces |-> content[plain[cur]], state |-> "intact"]
  <2>1. /\ tmp' = [tmp EXCEPT ![cur] = new] /\ pc[p] = "fill" /\ pc'[p] = "install"
        /\ UNCHANGED <<plain, gz>>
    BY <1>7, <1>11 DEF GzFill, GoTo, cur
  <2>2. new \in Archives
    BY <1>6 DEF Archives
  <2>3. /\ tmp' \in [Indexes -> Archives] /\ \A k \in Indexes \ {cur} : tmp'[k] = tmp[k]
        /\ tmp'[cur] = new
    <3> HIDE DEF new
    <3> QED BY <1>5, <1>7, <2>1, <2>2
  <2>4. Listed(p)'
    BY <1>2, <1>4, <1>5, <1>8, <2>1, <2>3 DEF Listed, Compressing, cur
  <2> HIDE DEF new
  <2> QED BY <1>2, <1>3, <1>4, <1>7, <1>9, <2>1, <2>3, <2>4, WorkDirectory
<1>12. CASE GzInstall(p)
  <2>1. /\ gz' = [gz EXCEPT ![cur] = tmp[cur]] /\ tmp' = [tmp EXCEPT ![cur] = NoArchive]
        /\ pc[p] = "install" /\ pc'[p] = "drop" /\ UNCHANGED plain
    BY <1>7, <1>12 DEF GzInstall, GoTo, cur
  <2>2. tmp[cur].state = "intact" /\ tmp[cur].pieces = content[plain[cur]]
    BY <1>8, <2>1 DEF Listed, Compressing, cur
  <2>3. /\ gz' \in [Indexes -> Archives] /\ tmp' \in [Indexes -> Archives]
        /\ gz'[cur] = tmp[cur] /\ tmp'[cur] = NoArchive
        /\ \A k \in Indexes \ {cur} : gz'[k] = gz[k] /\ tmp'[k] = tmp[k]
    BY <1>5, <1>7, <2>1, NoArchiveType
  <2>4. Stored(cur)' = Stored(cur)
    <3>1. Stored(cur)' = content[plain[cur]]
      BY <1>4, <2>2, <2>3 DEF Stored
    <3>2. Stored(cur) = content[plain[cur]]
      BY <1>5 DEF Stored, PiecesOf, DirectoryInv, Archived
    <3> QED BY <3>1, <3>2
  <2>5. \A k \in Indexes : Stored(k)' = Stored(k)
    <3>1. ASSUME NEW k \in Indexes, k # cur PROVE Stored(k)' = Stored(k)
      BY <1>2, <2>1, <2>3, <3>1 DEF Stored, PiecesOf
    <3>2. ASSUME NEW k \in Indexes, k = cur PROVE Stored(k)' = Stored(k)
      BY <1>4, <2>4, <3>2 DEF Stored, PiecesOf
    <3> QED BY <3>1, <3>2
  <2>6. Used' = Used /\ Archived'
    BY <1>2, <1>5, <2>1, <2>2, <2>3 DEF Used, DirectoryInv, Archived
  <2>7. Listed(p)'
    BY <1>2, <1>4, <1>5, <1>8, <2>1, <2>2, <2>3, NoArchiveType DEF Listed, Compressing, cur
  <2>8. plain' \in [Indexes -> 0..Len(content)]
    BY <1>7, <2>1
  <2> QED BY <1>2, <1>3, <1>4, <2>3, <2>5, <2>6, <2>7, <2>8, WorkDirectory
<1>13. CASE DropPlain(p)
  <2>1. /\ plain' = [plain EXCEPT ![cur] = NoFile] /\ UNCHANGED <<gz, tmp>>
        /\ pc[p] = "drop" /\ pc'[p] = IF task[p].rotating THEN "touch" ELSE "clean"
    BY <1>7, <1>13 DEF DropPlain, GoTo, cur
  <2>2. gz[cur].state = "intact"
    BY <1>8, <2>1 DEF Listed, Compressing, cur
  <2>3. plain'[cur] = NoFile /\ \A k \in Indexes \ {cur} : plain'[k] = plain[k]
    BY <1>5, <1>7, <2>1
  <2>4. plain' \in [Indexes -> 0..Len(content)]
    <3>1. NoFile \in 0..Len(content)
      BY DEF NoFile, Inv, FilesTyped
    <3> QED BY <1>7, <2>1, <3>1
  <2>5. \A k \in Indexes : Stored(k)' = Stored(k)
    BY <1>2, <2>1, <2>2, <2>3 DEF Stored, PiecesOf
  <2>6. Used' = Used /\ Archived'
    BY <1>2, <2>1, <2>2, <2>3 DEF Used, DirectoryInv, Archived
  <2>7. CASE task[p].rotating
    <3>1. Listed(p)'
      BY <2>1, <2>7 DEF Listed, Compressing
    <3> QED BY <1>2, <1>3, <1>4, <1>7, <2>1, <2>4, <2>5, <2>6, <3>1, WorkDirectory
  <2>8. CASE ~task[p].rotating
    <3>1. /\ task[p].pending = {k \in Indexes : plain[k] # NoFile} \ {cur}
          /\ task[p].stale = {} /\ \A k \in Indexes : tmp[k].state = "absent"
      BY <1>2, <1>8, <2>1, <2>8 DEF Listed, cur
    <3>2. task[p].pending = {k \in Indexes : plain'[k] # NoFile}
      BY <2>3, <3>1
    <3>3. Listed(p)'
      BY <1>2, <2>1, <2>8, <3>1, <3>2 DEF Listed, Compressing
    <3> QED BY <1>2, <1>3, <1>4, <1>7, <2>1, <2>4, <2>5, <2>6, <3>3, WorkDirectory
  <2> QED BY <2>7, <2>8
<1> QED BY <1>10, <1>11, <1>12, <1>13 DEF Compresses

\* The index a rotation takes is free, and there is one: every file before it
\* holds a line of its own, and so does the active file.
LEMMA FirstOfUsed ==
  ASSUME NEW k \in 0..MaxLines, Used = 1..k
  PROVE  NextIndex = k + 1
<1> DEFINE S == {0} \cup {i \in Indexes : plain[i] # NoFile \/ gz[i].state # "absent"}
<1>1. S = 0..k
  <2>1. S = {0} \cup Used
    BY DEF Used
  <2> HIDE DEF S
  <2> QED BY <2>1, LogFilesAssumption
<1> HIDE DEF S
<1>2. k \in S /\ \A y \in S : k >= y
  BY <1>1, LogFilesAssumption
<1>3. \A x \in S : (\A y \in S : x >= y) => x = k
  BY <1>1, <1>2
<1>4. (CHOOSE x \in S : \A y \in S : x >= y) = k
  BY <1>2, <1>3
<1> QED BY <1>4 DEF S, NextIndex, Max

LEMMA ActiveFull ==
  ASSUME FilesTyped, RotationNeeded
  PROVE  PiecesOf(active) \in Seq(Pieces) /\ PiecesOf(active) # <<>>
<1>1. content[active] \in Seq(Pieces) /\ active # NoFile
  BY DEF RotationNeeded, FilesTyped, NoFile
<1>2. CASE content[active] = <<>>
  <2>1. {i \in DOMAIN content[active] : content[active][i].end = "newline"} = {}
    BY <1>2
  <2>2. 0 >= RotateAt
    BY <2>1, FS_EmptySet DEF RotationNeeded
  <2> QED BY <2>2, LogFilesAssumption
<1> QED BY <1>1, <1>2 DEF PiecesOf

LEMMA NextFree ==
  ASSUME SeriesInv, RotationNeeded
  PROVE  /\ NextIndex \in Indexes
         /\ Used = 1..(NextIndex - 1)
         /\ On[0] # <<>>
<1> USE DEF SeriesInv
<1>1. PICK k \in 0..MaxLines : Used = 1..k
  BY DEF DirectoryInv, UsedInOrder
<1>2. NextIndex = k + 1 /\ k \in Nat
  BY <1>1, FirstOfUsed, LogFilesAssumption
<1>3. On[0] # <<>>
  BY ActiveFull, OnValues DEF Inv
<1>4. NextIndex \in Indexes
  BY <1>2, LogFilesAssumption DEF Indexes
<1>5. Used = 1..(NextIndex - 1)
  <2> DEFINE n == NextIndex
  <2>1. n - 1 = k
    BY <1>2
  <2> QED BY <1>1, <2>1
<1> QED BY <1>3, <1>4, <1>5

\* There is an index left for the next rotation, too.
LEMMA NextWithin ==
  ASSUME SeriesInv, RotationNeeded
  PROVE  NextIndex \in 1..MaxLines
<1> USE DEF SeriesInv
<1>1. PICK k \in 0..MaxLines : Used = 1..k
  BY DEF DirectoryInv, UsedInOrder
<1>2. NextIndex = k + 1 /\ k \in Nat /\ MaxLines \in Nat /\ started \in 0..MaxLines
  BY <1>1, FirstOfUsed, LogFilesAssumption DEF Inv, FilesTyped
<1>3. On \in [Shelf -> Seq(Pieces)]
  BY OnType, TypeParts DEF DirectoryInv
<1>4. \A i \in 0..k : i \in Shelf /\ On[i] # <<>>
  <2>1. \A i \in 0..k : i = 0 \/ i \in Used
    BY <1>1, <1>2
  <2>2. On[0] # <<>> /\ Used \subseteq Shelf
    BY NextFree, IndexFacts DEF Used
  <2> QED BY <2>1, <2>2, IndexFacts DEF DirectoryInv, UsedInOrder
<1>5. \A i \in 0..k : 1 \in DOMAIN On[i]
  BY <1>3, <1>4
<1> DEFINE line == [i \in 0..k |-> On[i][1].line]
<1>6. line \in [0..k -> 1..started]
  BY <1>4, <1>5 DEF LinesOnce
<1>7. \A i, j \in 0..k : line[i] = line[j] => i = j
  BY <1>4, <1>5 DEF LinesOnce
<1>8. /\ IsFiniteSet(0..k) /\ Cardinality(0..k) = k + 1
      /\ IsFiniteSet(1..started) /\ Cardinality(1..started) = started
  <2>1. Cardinality(0..k) = k + 1 /\ IsFiniteSet(0..k)
    BY <1>2, FS_Interval
  <2>2. IsFiniteSet(1..started) /\ Cardinality(1..started) = IF 1 > started THEN 0 ELSE started - 1 + 1
    <3>1. started \in Int /\ 1 \in Int
      BY <1>2
    <3> QED BY <3>1, FS_Interval
  <2> QED BY <1>2, <2>1, <2>2
<1>9. ~(Cardinality(1..started) < Cardinality(0..k))
  <2> HIDE DEF line
  <2> QED BY <1>6, <1>7, <1>8, FS_PigeonHole
<1> QED BY <1>2, <1>8, <1>9

\* The active file put behind the others.
Moved(on, on2, k) == on2 = [on EXCEPT ![k] = on[0], ![0] = <<>>]

LEMMA RenameSteps ==
  ASSUME SeriesInv, NEW p \in Procs, Inv', RotateRename(p), RotationNeeded
  PROVE  Moved(On, On', NextIndex) /\ DirectoryInv'
<1> USE DEF SeriesInv
<1>0. PICK k : k = NextIndex
  OBVIOUS
<1>1. DirTyped
  BY TypeParts DEF DirectoryInv
<1>2. /\ k \in Indexes /\ Used = 1..(k - 1) /\ On[0] # <<>>
      /\ k \in 1..MaxLines /\ k \in Nat
  BY <1>0, NextFree, NextWithin
<1>3. /\ plain' = [plain EXCEPT ![k] = active] /\ active' = NoFile
      /\ task' = [task EXCEPT ![p].cur = k, ![p].rotating = TRUE]
      /\ pc' = [pc EXCEPT ![p] = "create"]
      /\ UNCHANGED <<content, gz, tmp, acked>> /\ pc[p] = "rename"
  BY <1>0 DEF RotateRename, history, GoTo
<1>4. active # NoFile /\ active \in 0..Len(content)
  BY DEF RotationNeeded, Inv, FilesTyped
<1>5. /\ plain'[k] = active /\ \A i \in Indexes \ {k} : plain'[i] = plain[i]
      /\ plain' \in [Indexes -> 0..Len(content)]
  BY <1>1, <1>2, <1>3, <1>4 DEF DirTyped
<1>6. gz[k].state = "absent" /\ k \notin Used
  <2>1. k \notin Used
    BY <1>2
  <2> QED BY <1>2, <2>1 DEF Used
<1>7. /\ TaskStep(p) /\ task'[p].cur = k /\ task'[p].rotating = TRUE
  <2>1. task[p] \in Tasks
    BY <1>1 DEF DirTyped
  <2> QED BY <1>1, <1>2, <1>3, <2>1 DEF TaskStep, DirTyped, Tasks
<1>8. \A q \in Procs \ {p} : ~Busy(q) /\ pc'[q] = pc[q]
  BY <1>3, OthersIdle DEF Exclusive, Inv, ProcsTyped
<1>9. /\ Stored(k)' = On[0] /\ PiecesOf(active)' = <<>>
      /\ \A i \in Indexes \ {k} : Stored(i)' = Stored(i)
  <2>1. Stored(k)' = content[active]
    BY <1>3, <1>4, <1>5, <1>6 DEF Stored, PiecesOf
  <2>2. On[0] = content[active]
    BY <1>4, OnValues DEF PiecesOf
  <2>3. \A i \in Indexes \ {k} : Stored(i)' = Stored(i)
    BY <1>3, <1>5 DEF Stored, PiecesOf
  <2> QED BY <1>3, <2>1, <2>2, <2>3 DEF PiecesOf
<1>10. /\ On'[k] = On[0] /\ On'[0] = <<>>
       /\ \A i \in Indexes \ {k} : On'[i] = On[i]
  BY <1>2, <1>9, IndexFacts DEF On, Shelf
<1>11. On' = [On EXCEPT ![k] = On[0], ![0] = <<>>]
  <2>1. On = [i \in Shelf |-> On[i]] /\ On' = [i \in Shelf |-> On'[i]]
    BY DEF On
  <2>2. \A i \in Shelf : i = 0 \/ i = k \/ (i # 0 /\ i \in Indexes \ {k})
    BY IndexFacts DEF Shelf
  <2>3. k # 0 /\ k \in Shelf /\ 0 \in Shelf
    BY <1>2, IndexFacts
  <2> QED BY <1>10, <2>1, <2>2, <2>3
<1>12. DirTyped'
  BY <1>1, <1>3, <1>5, <1>7 DEF DirTyped, TaskStep
<1>13. TypeOK'
  <2>1. Inv' => (TypeOK' <=> DirTyped')
    BY TypePartsNext
  <2> QED BY <1>12, <2>1
<1>14. UsedInOrder'
  <2>1. Used' = Used \cup {k}
    BY <1>2, <1>3, <1>4, <1>5 DEF Used
  <2>2. Used' = 1..k
    BY <1>2, <2>1
  <2>3. \A i \in Used' : On'[i] # <<>>
    <3>1. \A i \in Used : On[i] # <<>> /\ i \in Indexes
      BY DEF DirectoryInv, UsedInOrder, Used
    <3> QED BY <1>2, <1>6, <1>10, <2>1, <3>1
  <2>4. k \in 0..MaxLines
    BY <1>2
  <2> QED BY <2>2, <2>3, <2>4 DEF UsedInOrder
<1>15. Archived'
  BY <1>3, <1>4, <1>5, <1>6 DEF DirectoryInv, Archived
<1>16. ASSUME NEW q \in Procs PROVE Listed(q)'
  <2>1. CASE q = p
    <3>1. pc'[p] = "create"
      BY <1>3 DEF Inv, ProcsTyped
    <3> QED BY <1>2, <1>4, <1>5, <1>7, <2>1, <3>1 DEF Listed, Compressing
  <2>2. CASE q # p
    BY <1>8, <2>2 DEF Listed, Busy
  <2> QED BY <2>1, <2>2
<1> QED BY <1>0, <1>11, <1>13, <1>14, <1>15, <1>16 DEF DirectoryInv, Moved

-----------------------------------------------------------------------------
(* Lines, step by step. *)

LEMMA AddsLines ==
  ASSUME NEW on \in [Shelf -> Seq(Pieces)], NEW begun, LinesOnce(on, begun),
         NEW piece \in Pieces, piece.line \in 1..begun, Fresh(on, piece.line),
         NEW on2, Added(on, on2, piece)
  PROVE  /\ LinesOnce(on2, begun)
         /\ \A line : line # piece.line /\ Fresh(on, line) => Fresh(on2, line)
         /\ \A line : \A i \in Shelf : Stands(on, line, i) => Stands(on2, line, i)
         /\ piece.end = "newline" => Stands(on2, piece.line, 0)
<1> DEFINE n == Len(on[0]) + 1
<1>1. on[0] \in Seq(Pieces) /\ 0 \in Shelf
  BY IndexFacts
<1>2. /\ DOMAIN on2[0] = (DOMAIN on[0]) \cup {n} /\ n \notin DOMAIN on[0]
      /\ on2[0][n] = piece /\ \A a \in DOMAIN on[0] : on2[0][a] = on[0][a]
      /\ \A i \in Shelf : i # 0 => on2[i] = on[i]
  <2>1. on2[0] = Append(on[0], piece) /\ \A i \in Shelf : i # 0 => on2[i] = on[i]
    BY <1>1 DEF Added
  <2>2. /\ DOMAIN on[0] = 1..Len(on[0]) /\ Len(on[0]) \in Nat
        /\ DOMAIN Append(on[0], piece) = 1..n
        /\ Append(on[0], piece)[n] = piece
        /\ \A a \in 1..Len(on[0]) : Append(on[0], piece)[a] = on[0][a]
    BY <1>1
  <2>3. 1..n = (1..Len(on[0])) \cup {n} /\ n \notin 1..Len(on[0])
    BY <2>2
  <2> QED BY <2>1, <2>2, <2>3
<1> HIDE DEF n
<1>3. ASSUME NEW i \in Shelf, NEW a \in DOMAIN on2[i]
      PROVE  \/ a \in DOMAIN on[i] /\ on2[i][a] = on[i][a]
             \/ i = 0 /\ a = n /\ on2[i][a] = piece
  BY <1>2
<1>4. LinesOnce(on2, begun)
  <2>1. ASSUME NEW i \in Shelf, NEW a \in DOMAIN on2[i] PROVE on2[i][a].line \in 1..begun
    BY <1>3 DEF LinesOnce
  <2>2. ASSUME NEW i \in Shelf, NEW k \in Shelf, NEW a \in DOMAIN on2[i], NEW b \in DOMAIN on2[k],
               on2[i][a].line = on2[k][b].line
        PROVE  i = k /\ a = b
    <3>1. CASE a \in DOMAIN on[i] /\ on2[i][a] = on[i][a] /\ b \in DOMAIN on[k] /\ on2[k][b] = on[k][b]
      BY <2>2, <3>1 DEF LinesOnce
    <3>2. CASE i = 0 /\ a = n /\ on2[i][a] = piece /\ k = 0 /\ b = n
      BY <3>2
    <3>3. CASE on2[i][a] = piece /\ b \in DOMAIN on[k] /\ on2[k][b] = on[k][b]
      BY <2>2, <3>3 DEF Fresh
    <3>4. CASE on2[k][b] = piece /\ a \in DOMAIN on[i] /\ on2[i][a] = on[i][a]
      BY <2>2, <3>4 DEF Fresh
    <3> QED BY <1>3, <3>1, <3>2, <3>3, <3>4
  <2> QED BY <2>1, <2>2 DEF LinesOnce
<1>5. ASSUME NEW line, line # piece.line, Fresh(on, line) PROVE Fresh(on2, line)
  BY <1>3, <1>5 DEF Fresh
<1>6. ASSUME NEW line, NEW i \in Shelf, Stands(on, line, i) PROVE Stands(on2, line, i)
  <2>1. CASE i = 0
    BY <1>2, <1>6, <2>1 DEF Stands
  <2>2. CASE i # 0
    BY <1>2, <1>6, <2>2 DEF Stands
  <2> QED BY <2>1, <2>2
<1>7. ASSUME piece.end = "newline" PROVE Stands(on2, piece.line, 0)
  <2>1. piece = [line |-> piece.line, end |-> "newline"]
    BY <1>7 DEF Pieces
  <2> QED BY <1>2, <2>1 DEF Stands
<1> QED BY <1>4, <1>5, <1>6, <1>7

LEMMA MovesLines ==
  ASSUME NEW on \in [Shelf -> Seq(Pieces)], NEW begun, LinesOnce(on, begun),
         NEW k \in Indexes, on[k] = <<>>,
         NEW on2, Moved(on, on2, k)
  PROVE  /\ LinesOnce(on2, begun)
         /\ \A line : Fresh(on, line) => Fresh(on2, line)
         /\ \A line : (\E i \in Shelf : Stands(on, line, i)) => \E i \in Shelf : Stands(on2, line, i)
<1>1. k # 0 /\ k \in Shelf /\ 0 \in Shelf
  BY IndexFacts
<1>2. /\ on2[k] = on[0] /\ on2[0] = <<>>
      /\ \A i \in Shelf : i # 0 /\ i # k => on2[i] = on[i]
  BY <1>1 DEF Moved
<1>3. DOMAIN on2[0] = {} /\ DOMAIN on[k] = {}
  BY <1>2
<1>4. ASSUME NEW i \in Shelf, NEW a \in DOMAIN on2[i]
      PROVE  /\ i # 0
             /\ i = k => a \in DOMAIN on[0] /\ on2[i][a] = on[0][a]
             /\ i # k => a \in DOMAIN on[i] /\ on2[i][a] = on[i][a]
  BY <1>2, <1>3
<1>5. LinesOnce(on2, begun)
  <2>1. ASSUME NEW i \in Shelf, NEW a \in DOMAIN on2[i] PROVE on2[i][a].line \in 1..begun
    BY <1>1, <1>4 DEF LinesOnce
  <2>2. ASSUME NEW i \in Shelf, NEW j \in Shelf, NEW a \in DOMAIN on2[i], NEW b \in DOMAIN on2[j],
               on2[i][a].line = on2[j][b].line
        PROVE  i = j /\ a = b
    <3> DEFINE i1 == IF i = k THEN 0 ELSE i
               j1 == IF j = k THEN 0 ELSE j
    <3>1. i1 \in Shelf /\ a \in DOMAIN on[i1] /\ on2[i][a] = on[i1][a] /\ i # 0
      BY <1>1, <1>4
    <3>2. j1 \in Shelf /\ b \in DOMAIN on[j1] /\ on2[j][b] = on[j1][b] /\ j # 0
      BY <1>1, <1>4
    <3>3. i1 = j1 /\ a = b
      <4> HIDE DEF i1, j1
      <4> QED BY <2>2, <3>1, <3>2 DEF LinesOnce
    <3> QED BY <3>1, <3>2, <3>3
  <2> QED BY <2>1, <2>2 DEF LinesOnce
<1>6. ASSUME NEW line, Fresh(on, line) PROVE Fresh(on2, line)
  <2>1. ASSUME NEW i \in Shelf, NEW a \in DOMAIN on2[i] PROVE on2[i][a].line # line
    <3>1. CASE i = k
      BY <1>1, <1>4, <1>6, <2>1, <3>1 DEF Fresh
    <3>2. CASE i # k
      BY <1>4, <1>6, <2>1, <3>2 DEF Fresh
    <3> QED BY <3>1, <3>2
  <2> QED BY <2>1 DEF Fresh
<1>7. ASSUME NEW line, NEW i \in Shelf, Stands(on, line, i)
      PROVE  \E j \in Shelf : Stands(on2, line, j)
  <2>1. CASE i = 0
    <3>1. on2[k] = on[i]
      BY <1>2, <2>1
    <3>2. Stands(on2, line, k)
      BY <1>7, <3>1 DEF Stands
    <3> QED BY <1>1, <3>2
  <2>2. CASE i = k
    BY <1>3, <1>7, <2>2 DEF Stands
  <2>3. CASE i # 0 /\ i # k
    <3>1. on2[i] = on[i]
      BY <1>2, <2>3
    <3>2. Stands(on2, line, i)
      BY <1>7, <3>1 DEF Stands
    <3> QED BY <3>2
  <2> QED BY <2>1, <2>2, <2>3
<1> QED BY <1>5, <1>6, <1>7

LEMMA MoreBegun ==
  ASSUME NEW on, NEW begun \in Nat, NEW more \in Nat, begun <= more, LinesOnce(on, begun)
  PROVE  LinesOnce(on, more)
<1>1. \A n \in 1..begun : n \in 1..more
  OBVIOUS
<1> QED BY <1>1 DEF LinesOnce

LEMMA WritersNext ==
  ASSUME WritersLines(On), NEW p \in Procs,
         \A q \in Procs \ {p} : pc'[q] = pc[q] /\ task'[q] = task[q],
         \A n \in 1..started : n \in 1..started',
         \A q \in Procs \ {p} : ToWrite(q) => Fresh(On', task[q].line),
         ToWrite(p)' => /\ task'[p].line \in 1..started' /\ Fresh(On', task'[p].line)
                        /\ \A q \in Procs \ {p} : ToWrite(q) => task[q].line # task'[p].line,
         \A q \in Procs \ {p} : pc[q] = "sync" => Stands(On', task[q].line, 0),
         pc'[p] = "sync" => Stands(On', task'[p].line, 0),
         \A line \in acked' : \E i \in Shelf : Stands(On', line, i)
  PROVE  WritersLines(On)'
<1>1. ASSUME NEW q \in Procs, ToWrite(q)'
      PROVE  /\ task'[q].line \in 1..started' /\ Fresh(On', task'[q].line)
             /\ \A r \in Procs \ {q} : ToWrite(r)' => task'[r].line # task'[q].line
  <2>1. CASE q = p
    <3>1. ASSUME NEW r \in Procs \ {q}, ToWrite(r)' PROVE task'[r].line # task'[q].line
      <4>1. ToWrite(r) /\ task'[r] = task[r]
        BY <2>1, <3>1 DEF ToWrite
      <4> QED BY <1>1, <2>1, <4>1
    <3> QED BY <1>1, <2>1, <3>1
  <2>2. CASE q # p
    <3>1. ToWrite(q) /\ task'[q] = task[q]
      BY <1>1, <2>2 DEF ToWrite
    <3>2. task[q].line \in 1..started
      BY <3>1 DEF WritersLines
    <3>3. ASSUME NEW r \in Procs \ {q}, ToWrite(r)' PROVE task'[r].line # task'[q].line
      <4>1. CASE r = p
        BY <2>2, <3>1, <3>3, <4>1
      <4>2. CASE r # p
        <5>1. ToWrite(r) /\ task'[r] = task[r]
          BY <3>3, <4>2 DEF ToWrite
        <5> QED BY <3>1, <5>1 DEF WritersLines
      <4> QED BY <4>1, <4>2
    <3> QED BY <2>2, <3>1, <3>2, <3>3
  <2> QED BY <2>1, <2>2
<1>2. ASSUME NEW q \in Procs, pc'[q] = "sync" PROVE Stands(On', task'[q].line, 0)
  <2>1. CASE q = p
    BY <1>2, <2>1
  <2>2. CASE q # p
    BY <1>2, <2>2
  <2> QED BY <2>1, <2>2
<1> QED BY <1>1, <1>2 DEF WritersLines

\* The files hold what they held.
LEMMA SameShelf ==
  ASSUME SeriesInv, NEW p \in Procs, On' = On,
         \A q \in Procs \ {p} : pc'[q] = pc[q] /\ task'[q] = task[q],
         \/ ~ToWrite(p)' /\ started' = started
         \/ ToWrite(p) /\ task'[p].line = task[p].line /\ started' = started
         \/ started' = started + 1 /\ task'[p].line = started + 1,
         pc'[p] # "sync",
         acked' = acked \/ (pc[p] = "sync" /\ acked' = acked \cup {task[p].line})
  PROVE  LinesOnce(On, started)' /\ WritersLines(On)'
<1> USE DEF SeriesInv
<1>1. started \in Nat
  BY LogFilesAssumption DEF Inv, FilesTyped
<1>2. started' \in Nat /\ started <= started' /\ \A n \in 1..started : n \in 1..started'
  BY <1>1
<1>3. LinesOnce(On, started)'
  <2>1. LinesOnce(On, started')
    BY <1>1, <1>2, MoreBegun
  <2>2. LinesOnce(On', started')
    BY <2>1
  <2> QED BY <2>2
<1>4. \A q \in Procs \ {p} : ToWrite(q) => Fresh(On', task[q].line) /\ task[q].line \in 1..started
  BY DEF WritersLines
<1>5. ASSUME ToWrite(p)'
      PROVE  /\ task'[p].line \in 1..started' /\ Fresh(On', task'[p].line)
             /\ \A q \in Procs \ {p} : ToWrite(q) => task[q].line # task'[p].line
  <2>1. CASE ToWrite(p) /\ task'[p].line = task[p].line
    BY <1>2, <2>1 DEF WritersLines
  <2>2. CASE started' = started + 1 /\ task'[p].line = started + 1
    <3>1. task'[p].line \in 1..started' /\ \A n \in 1..started : n # task'[p].line
      BY <1>1, <2>2
    <3>2. Fresh(On, task'[p].line)
      BY <3>1 DEF LinesOnce, Fresh
    <3> QED BY <1>4, <3>1, <3>2
  <2> QED BY <1>5, <2>1, <2>2
<1>6. \A q \in Procs : pc[q] = "sync" => Stands(On', task[q].line, 0)
  BY DEF WritersLines
<1>7. \A line \in acked' : \E i \in Shelf : Stands(On', line, i)
  <2>1. ASSUME NEW line \in acked' PROVE line \in acked \/ (line = task[p].line /\ pc[p] = "sync")
    OBVIOUS
  <2>2. \A line \in acked : \E i \in Shelf : Stands(On', line, i)
    BY DEF WritersLines
  <2> QED BY <1>6, <2>1, <2>2, IndexFacts
<1>8. WritersLines(On)'
  <2>1. WritersLines(On)
    OBVIOUS
  <2> HIDE DEF SeriesInv
  <2> QED BY <1>2, <1>4, <1>5, <1>6, <1>7, <2>1, WritersNext
<1> QED BY <1>3, <1>8

\* The active file holds one more piece.
LEMMA LongerShelf ==
  ASSUME SeriesInv, NEW p \in Procs, pc[p] = "write", NEW end \in {"newline", "bare", "cut"},
         Added(On, On', [line |-> task[p].line, end |-> end]),
         \A q \in Procs \ {p} : pc'[q] = pc[q] /\ task'[q] = task[q],
         \/ pc'[p] \in {"idle", "closed"}
         \/ pc'[p] = "sync" /\ end = "newline" /\ task'[p] = task[p],
         UNCHANGED <<started, acked>>
  PROVE  LinesOnce(On, started)' /\ WritersLines(On)'
<1> USE DEF SeriesInv
<1> DEFINE piece == [line |-> task[p].line, end |-> end]
<1>1. On \in [Shelf -> Seq(Pieces)]
  BY OnType, TypeParts DEF DirectoryInv
<1>2. ToWrite(p)
  BY DEF ToWrite
<1>3. /\ task[p].line \in 1..started /\ Fresh(On, task[p].line)
      /\ \A q \in Procs \ {p} : ToWrite(q) => task[q].line # task[p].line
  BY <1>2 DEF WritersLines
<1>4. piece \in Pieces /\ piece.line = task[p].line /\ piece.end = end
  BY DEF Inv, ProcsTyped, AppendTasks, Appending, Pieces
<1>5. Added(On, On', piece)
  OBVIOUS
<1> HIDE DEF piece
<1>6. LinesOnce(On, started)
  OBVIOUS
<1>7. /\ LinesOnce(On', started)
      /\ \A line : line # piece.line /\ Fresh(On, line) => Fresh(On', line)
      /\ \A line : \A i \in Shelf : Stands(On, line, i) => Stands(On', line, i)
      /\ piece.end = "newline" => Stands(On', piece.line, 0)
  <2>1. PICK on : on = On
    OBVIOUS
  <2>2. PICK on2 : on2 = On'
    OBVIOUS
  <2>3. /\ on \in [Shelf -> Seq(Pieces)] /\ LinesOnce(on, started) /\ Fresh(on, piece.line)
        /\ Added(on, on2, piece) /\ piece.line \in 1..started
    BY <1>1, <1>3, <1>4, <1>5, <1>6, <2>1, <2>2
  <2> HIDE DEF SeriesInv
  <2>4. /\ LinesOnce(on2, started)
        /\ \A line : line # piece.line /\ Fresh(on, line) => Fresh(on2, line)
        /\ \A line : \A i \in Shelf : Stands(on, line, i) => Stands(on2, line, i)
        /\ piece.end = "newline" => Stands(on2, piece.line, 0)
    BY <1>4, <2>3, AddsLines
  <2> QED BY <2>1, <2>2, <2>4
<1>8. \A q \in Procs \ {p} : ToWrite(q) => Fresh(On', task[q].line)
  BY <1>3, <1>4, <1>7 DEF WritersLines
<1>9. \A q \in Procs \ {p} : pc[q] = "sync" => Stands(On', task[q].line, 0)
  BY <1>7, IndexFacts DEF WritersLines
<1>10. ~ToWrite(p)'
  BY DEF ToWrite
<1>11. pc'[p] = "sync" => Stands(On', task'[p].line, 0)
  BY <1>4, <1>7
<1>12. \A line \in acked' : \E i \in Shelf : Stands(On', line, i)
  BY <1>7 DEF WritersLines
<1>13. WritersLines(On)'
  <2>1. WritersLines(On) /\ \A n \in 1..started : n \in 1..started'
    OBVIOUS
  <2> HIDE DEF SeriesInv
  <2> QED BY <1>8, <1>9, <1>10, <1>11, <1>12, <2>1, WritersNext
<1> QED BY <1>7, <1>13

\* The active file stands behind the others.
LEMMA MovedShelf ==
  ASSUME SeriesInv, NEW p \in Procs, pc[p] = "rename", NEW k \in Indexes, On[k] = <<>>,
         Moved(On, On', k),
         \A q \in Procs \ {p} : pc'[q] = pc[q] /\ task'[q] = task[q],
         pc'[p] = "create", UNCHANGED <<started, acked>>
  PROVE  LinesOnce(On, started)' /\ WritersLines(On)'
<1> USE DEF SeriesInv
<1>1. On \in [Shelf -> Seq(Pieces)]
  BY OnType, TypeParts DEF DirectoryInv
<1>2. LinesOnce(On, started)
  OBVIOUS
<1>3. /\ LinesOnce(On', started)
      /\ \A line : Fresh(On, line) => Fresh(On', line)
      /\ \A line : (\E i \in Shelf : Stands(On, line, i)) => \E i \in Shelf : Stands(On', line, i)
  <2>1. PICK on : on = On
    OBVIOUS
  <2>2. PICK on2 : on2 = On'
    OBVIOUS
  <2>3. /\ on \in [Shelf -> Seq(Pieces)] /\ LinesOnce(on, started) /\ on[k] = <<>>
        /\ Moved(on, on2, k)
    BY <1>1, <1>2, <2>1, <2>2
  <2> HIDE DEF SeriesInv
  <2>4. /\ LinesOnce(on2, started)
        /\ \A line : Fresh(on, line) => Fresh(on2, line)
        /\ \A line : (\E i \in Shelf : Stands(on, line, i))
                       => \E i \in Shelf : Stands(on2, line, i)
    BY <2>3, MovesLines
  <2> QED BY <2>1, <2>2, <2>4
<1>4. \A q \in Procs \ {p} : pc[q] # "sync"
  <2>1. excl = p /\ excl # NoProc
    BY LogFilesAssumption DEF Inv, Locked, Exclusive, NoProc
  <2> QED BY <2>1 DEF Inv, Locked
<1>5. \A q \in Procs \ {p} : ToWrite(q) => Fresh(On', task[q].line)
  BY <1>3 DEF WritersLines
<1>6. ~ToWrite(p)' /\ pc'[p] # "sync"
  BY DEF ToWrite
<1>7. \A line \in acked' : \E i \in Shelf : Stands(On', line, i)
  BY <1>3 DEF WritersLines
<1>8. WritersLines(On)'
  <2>1. WritersLines(On) /\ \A n \in 1..started : n \in 1..started'
    OBVIOUS
  <2> HIDE DEF SeriesInv
  <2> QED BY <1>4, <1>5, <1>6, <1>7, <2>1, WritersNext
<1> QED BY <1>3, <1>8

-----------------------------------------------------------------------------
(* The steps of the shelf. *)

Keeps == On' = On /\ (acked' = acked \/ \E line : Stands(On, line, 0) /\ acked' = acked \cup {line})

Grows == (\E piece \in Pieces : Fresh(On, piece.line) /\ Added(On, On', piece)) /\ UNCHANGED acked

Rolls ==
  /\ \E k \in Indexes : (\A i \in Indexes : k <= i => On[i] = <<>>) /\ Moved(On, On', k)
  /\ UNCHANGED acked

\* Everything but a write and a renaming.
Holds(p) ==
  \/ StartAppend(p) \/ LockShared(p) \/ LockTimeout(p) \/ OpenActive(p) \/ Sync(p) \/ SyncFails(p)
  \/ FinalizeSkipped(p) \/ FinalizeLocked(p) \/ Finalizes(p) \/ Compresses(p)
  \/ RotateCheck(p) \/ RotateLock(p) \/ Touch(p)
  \/ RotateRename(p) /\ ~RotationNeeded
  \/ StartExclusive(p) \/ EndExclusive(p) \/ Close(p)
  \/ Crash(p) /\ UNCHANGED content
  \/ WriteFails(p) /\ UNCHANGED content

LEMMA OthersStay ==
  ASSUME ProcsTyped, NEW p \in Procs,
         \/ StartAppend(p) \/ FinalizeSkipped(p) \/ FinalizeLocked(p) \/ StartExclusive(p)
         \/ Close(p) \/ Crash(p) \/ Progress(p)
  PROVE  \A q \in Procs \ {p} : pc'[q] = pc[q] /\ task'[q] = task[q]
<1> USE DEF ProcsTyped, GoTo, Done
<1>1. CASE StartAppend(p) \/ FinalizeSkipped(p) \/ FinalizeLocked(p) \/ StartExclusive(p)
           \/ Close(p) \/ Crash(p) \/ EndExclusive(p)
  BY <1>1 DEF StartAppend, FinalizeSkipped, FinalizeLocked, StartExclusive, Close, Crash,
              EndExclusive
<1>2. CASE Appends(p)
  BY <1>2 DEF Appends, LockShared, LockTimeout, OpenActive, WriteLine, WriteFails, Sync, SyncFails
<1>3. CASE Finalizes(p)
  BY <1>3 DEF Finalizes, RemoveTmp, ArchiveKept, ArchiveRemade, Finalizing, FinalizeDone
<1>4. CASE Compresses(p)
  BY <1>4 DEF Compresses, GzCreate, GzFill, GzInstall, DropPlain
<1>5. CASE Rotates(p)
  BY <1>5 DEF Rotates, RotateCheck, RotateLock, RotateRename, Touch
<1> QED BY <1>1, <1>2, <1>3, <1>4, <1>5 DEF Progress

LEMMA HoldsSteps ==
  ASSUME SeriesInv, NEW p \in Procs, Inv', Holds(p)
  PROVE  SeriesInv' /\ Keeps
<1>1. On' = On /\ DirectoryInv'
  <2>1. CASE WriteFails(p) /\ UNCHANGED content
    <3>1. UNCHANGED files /\ GoTo(p, "idle") /\ acked' = acked
      BY <2>1 DEF WriteFails, Done, files, history
    <3>2. DirTyped
      BY TypeParts DEF SeriesInv, DirectoryInv
    <3>3. TaskStep(p) /\ acked' \subseteq 1..MaxLines
      BY <2>1, <3>1, <3>2, TaskLeft DEF WriteFails, Done, DirTyped
    <3> QED BY <3>1, <3>3, QuietDirectory DEF SeriesInv, Compressing
  <2>2. CASE FinalizeLocked(p) \/ RemoveTmp(p)
    BY <2>2, FinalizeSteps
  <2>3. CASE ArchiveKept(p) \/ ArchiveRemade(p)
    BY <2>3, ArchiveSteps
  <2>4. CASE Compresses(p)
    BY <2>4, CompressSteps
  <2>5. CASE OpenActive(p) \/ Touch(p)
    BY <2>5, CreateSteps
  <2> QED BY <2>1, <2>2, <2>3, <2>4, <2>5, QuietSteps DEF Holds, Finalizes
<1>2. \A q \in Procs \ {p} : pc'[q] = pc[q] /\ task'[q] = task[q]
  BY OthersStay DEF Holds, Progress, Appends, Rotates, SeriesInv, Inv
<1>3. pc \in [Procs -> Places] /\ task = [q \in Procs |-> task[q]]
  BY DEF SeriesInv, Inv, ProcsTyped
<1>4. \/ ~ToWrite(p)' /\ started' = started
      \/ ToWrite(p) /\ task'[p].line = task[p].line /\ started' = started
      \/ started' = started + 1 /\ task'[p].line = started + 1
  <2>1. CASE StartAppend(p)
    <3>1. task'[p] = [NoTask EXCEPT !.line = started + 1] /\ started' = started + 1
      BY <1>3, <2>1 DEF StartAppend
    <3> QED BY <3>1 DEF NoTask
  <2>2. CASE LockShared(p)
    BY <2>2 DEF LockShared, history, ToWrite
  <2>3. CASE OpenActive(p)
    <3>1. task[p] \in Tasks /\ task'[p] = [task[p] EXCEPT !.inode = active']
      <4>1. DirTyped
        BY TypeParts DEF SeriesInv, DirectoryInv
      <4> QED BY <2>3, <4>1 DEF OpenActive, DirTyped
    <3>2. task'[p].line = task[p].line
      BY <3>1 DEF Tasks
    <3> QED BY <2>3, <3>2 DEF OpenActive, history, ToWrite
  <2>4. CASE LockTimeout(p) \/ Sync(p) \/ SyncFails(p) \/ FinalizeSkipped(p) \/ FinalizeLocked(p)
             \/ StartExclusive(p) \/ EndExclusive(p) \/ Close(p) \/ Crash(p) \/ WriteFails(p)
    BY <1>3, <2>4
    DEF LockTimeout, Sync, SyncFails, FinalizeSkipped, FinalizeLocked, StartExclusive,
        EndExclusive, Close, Crash, WriteFails, Done, GoTo, ToWrite, history
  <2>5. CASE Finalizes(p)
    BY <1>3, <2>5
    DEF Finalizes, RemoveTmp, ArchiveKept, ArchiveRemade, Finalizing, FinalizeDone, GoTo, ToWrite,
        history
  <2>6. CASE Compresses(p)
    BY <1>3, <2>6
    DEF Compresses, GzCreate, GzFill, GzInstall, DropPlain, GoTo, ToWrite, history
  <2>7. CASE RotateCheck(p) \/ RotateLock(p) \/ Touch(p) \/ RotateRename(p)
    BY <1>3, <2>7 DEF RotateCheck, RotateLock, RotateRename, Touch, Done, GoTo, ToWrite, history
  <2> QED BY <2>1, <2>2, <2>3, <2>4, <2>5, <2>6, <2>7 DEF Holds
<1>5. pc'[p] # "sync"
  <2>1. CASE Finalizes(p)
    BY <1>3, <2>1
    DEF Finalizes, RemoveTmp, ArchiveKept, ArchiveRemade, Finalizing, FinalizeDone, GoTo
  <2>2. CASE Compresses(p)
    BY <1>3, <2>2 DEF Compresses, GzCreate, GzFill, GzInstall, DropPlain, GoTo
  <2>3. CASE RotateCheck(p) \/ RotateLock(p) \/ Touch(p) \/ RotateRename(p)
    BY <1>3, <2>3 DEF RotateCheck, RotateLock, RotateRename, Touch, Done, GoTo
  <2> QED
    BY <1>3, <2>1, <2>2, <2>3
    DEF Holds, StartAppend, LockShared, LockTimeout, OpenActive, Sync, SyncFails, FinalizeSkipped,
        FinalizeLocked, StartExclusive, EndExclusive, Close, Crash, WriteFails, Done, GoTo
<1>6. acked' = acked \/ (pc[p] = "sync" /\ acked' = acked \cup {task[p].line})
  BY DEF Holds, Finalizes, Compresses, StartAppend, LockShared, LockTimeout, OpenActive, Sync,
         SyncFails, FinalizeSkipped, FinalizeLocked, RemoveTmp, ArchiveKept, ArchiveRemade,
         Finalizing, FinalizeDone, GzCreate, GzFill, GzInstall, DropPlain, RotateCheck, RotateLock,
         RotateRename, Touch, StartExclusive, EndExclusive, Close, Crash, WriteFails, history
<1>7. LinesOnce(On, started)' /\ WritersLines(On)'
  BY <1>1, <1>2, <1>4, <1>5, <1>6, SameShelf
<1>8. Keeps
  BY <1>1, <1>6 DEF Keeps, SeriesInv, WritersLines
<1> QED BY <1>1, <1>7, <1>8 DEF SeriesInv

LEMMA WriteSteps ==
  ASSUME SeriesInv, NEW p \in Procs, Inv',
         WriteLine(p) \/ WriteFails(p) \/ Crash(p), content' # content
  PROVE  SeriesInv' /\ Grows
<1>1. pc[p] = "write"
  BY DEF WriteLine, WriteFails, Crash
<1>2. PICK end \in {"newline", "bare", "cut"} :
        /\ Wrote(p, end)
        /\ \/ end = "newline" /\ WriteLine(p)
           \/ WriteFails(p) \/ Crash(p)
  BY <1>1 DEF WriteLine, WriteFails, Crash, Interrupted
<1> DEFINE piece == [line |-> task[p].line, end |-> end]
<1>3. \A q \in Procs \ {p} : pc'[q] = pc[q] /\ task'[q] = task[q]
  BY OthersStay DEF Progress, Appends, SeriesInv, Inv
<1>4. \E place \in {"sync", "idle", "closed"} :
        /\ GoTo(p, place)
        /\ place = "sync" => end = "newline" /\ UNCHANGED task
        /\ UNCHANGED <<active, plain, gz, tmp, started, acked>>
        /\ task' = [task EXCEPT ![p] = NoTask] \/ UNCHANGED task
  <2>1. CASE end = "newline" /\ WriteLine(p)
    BY <2>1 DEF WriteLine, history
  <2>2. CASE WriteFails(p)
    BY <2>2 DEF WriteFails, Done, history
  <2>3. CASE Crash(p)
    BY <2>3 DEF Crash, history
  <2> QED BY <1>2, <2>1, <2>2, <2>3
<1>5. PICK place \in {"sync", "idle", "closed"} :
        /\ GoTo(p, place)
        /\ place = "sync" => end = "newline" /\ UNCHANGED task
        /\ UNCHANGED <<active, plain, gz, tmp, started, acked>>
        /\ task' = [task EXCEPT ![p] = NoTask] \/ UNCHANGED task
  BY <1>4
<1>6. Added(On, On', piece) /\ DirectoryInv'
  BY <1>1, <1>2, <1>5, WroteSteps
<1>7. pc'[p] = place
  BY <1>5 DEF GoTo, SeriesInv, Inv, ProcsTyped
<1>8. pc'[p] \in {"idle", "closed"} \/ (pc'[p] = "sync" /\ end = "newline" /\ task'[p] = task[p])
  BY <1>5, <1>7
<1>9. LinesOnce(On, started)' /\ WritersLines(On)'
  BY <1>1, <1>3, <1>5, <1>6, <1>8, LongerShelf
<1>10. piece \in Pieces /\ Fresh(On, piece.line)
  BY <1>1 DEF SeriesInv, Inv, ProcsTyped, AppendTasks, Appending, Pieces, WritersLines, ToWrite
<1> HIDE DEF piece
<1> QED BY <1>5, <1>6, <1>9, <1>10 DEF SeriesInv, Grows

LEMMA UnusedEmpty ==
  ASSUME NEW i \in Indexes, i \notin Used
  PROVE  On[i] = <<>>
<1>1. plain[i] = NoFile /\ gz[i].state = "absent"
  BY DEF Used
<1> QED BY <1>1, OnValues DEF Stored, PiecesOf

LEMMA RollSteps ==
  ASSUME SeriesInv, NEW p \in Procs, Inv', RotateRename(p), RotationNeeded
  PROVE  SeriesInv' /\ Rolls
<1>1. Moved(On, On', NextIndex) /\ DirectoryInv'
  BY RenameSteps
<1>2. PICK k \in Indexes : k = NextIndex
  BY NextFree
<1>3. \A i \in Indexes : k <= i => On[i] = <<>>
  <2>1. Used = 1..(k - 1)
    BY <1>2, NextFree
  <2>2. \A i \in Indexes : k <= i => i \notin Used
    BY <2>1, IndexFacts
  <2> QED BY <2>2, UnusedEmpty
<1>4. \A q \in Procs \ {p} : pc'[q] = pc[q] /\ task'[q] = task[q]
  BY OthersStay DEF Progress, Rotates, SeriesInv, Inv
<1>5. pc[p] = "rename" /\ pc'[p] = "create" /\ UNCHANGED <<started, acked>>
  BY DEF RotateRename, GoTo, history, SeriesInv, Inv, ProcsTyped
<1>6. Moved(On, On', k) /\ On[k] = <<>>
  <2>1. k <= k
    BY IndexFacts
  <2> QED BY <1>1, <1>2, <1>3, <2>1
<1>7. LinesOnce(On, started)' /\ WritersLines(On)'
  BY <1>4, <1>5, <1>6, MovedShelf
<1> QED BY <1>1, <1>3, <1>5, <1>6, <1>7 DEF SeriesInv, Rolls

LEMMA SeriesNext ==
  ASSUME SeriesInv, [Next]_vars
  PROVE  SeriesInv' /\ (Keeps \/ Grows \/ Rolls)
<1>1. Inv'
  BY NextInv DEF SeriesInv
<1>2. CASE UNCHANGED vars
  <2>1. On' = On /\ acked' = acked
    BY <1>2 DEF vars, On, Stored, PiecesOf
  <2>2. TypeOK' /\ UsedInOrder' /\ Archived'
    BY <1>2, <2>1 DEF vars, SeriesInv, DirectoryInv, TypeOK, UsedInOrder, Used, Archived
  <2>3. \A q \in Procs : Listed(q)'
    BY <1>2 DEF vars, SeriesInv, DirectoryInv, Listed
  <2>4. LinesOnce(On, started)' /\ WritersLines(On)'
    BY <1>2, <2>1 DEF vars, SeriesInv, WritersLines, ToWrite
  <2> QED BY <1>1, <2>1, <2>2, <2>3, <2>4 DEF SeriesInv, DirectoryInv, Keeps
<1>3. ASSUME NEW p \in Procs,
             \/ StartAppend(p) \/ FinalizeSkipped(p) \/ FinalizeLocked(p) \/ StartExclusive(p)
             \/ Close(p) \/ Crash(p) \/ Progress(p)
      PROVE  SeriesInv' /\ (Keeps \/ Grows \/ Rolls)
  <2>1. CASE Holds(p)
    BY <1>1, <2>1, HoldsSteps
  <2>2. CASE (WriteLine(p) \/ WriteFails(p) \/ Crash(p)) /\ content' # content
    BY <1>1, <2>2, WriteSteps
  <2>3. CASE RotateRename(p) /\ RotationNeeded
    BY <1>1, <2>3, RollSteps
  <2>4. WriteLine(p) => content' # content
    <3> SUFFICES ASSUME WriteLine(p), content' = content PROVE FALSE
      OBVIOUS
    <3>1. /\ active \in 1..Len(content) /\ content \in Seq(Seq(Pieces)) /\ task[p].inode = active
      BY DEF WriteLine, SeriesInv, Inv, FilesTyped, AppendsReachActive, NoFile
    <3>2. PICK piece : content' = [content EXCEPT ![active] = Append(content[active], piece)]
      BY <3>1 DEF WriteLine, Wrote
    <3>3. content'[active] = Append(content[active], piece)
      BY <3>1, <3>2
    <3>4. Len(Append(content[active], piece)) = Len(content[active]) + 1 /\ Len(content[active]) \in Nat
      BY <3>1
    <3> QED BY <3>3, <3>4
  <2>5. \/ Holds(p)
        \/ (WriteLine(p) \/ WriteFails(p) \/ Crash(p)) /\ content' # content
        \/ RotateRename(p) /\ RotationNeeded
    BY <1>3, <2>4 DEF Progress, Appends, Rotates, Holds
  <2> QED BY <2>1, <2>2, <2>3, <2>5
<1> QED BY <1>2, <1>3 DEF Next

LEMMA SeriesInit == Init => SeriesInv
<1> SUFFICES ASSUME Init PROVE SeriesInv
  OBVIOUS
<1> USE IndexFacts
<1>1. Inv
  BY InitInv
<1>2. \A p \in Procs : pc[p] = "closed" /\ task[p] = NoTask
  BY DEF Init
<1>3. NoArchive \in Archives /\ [pieces |-> <<>>, state |-> "truncated"] \in Archives
  <2>1. <<>> \in Seq(Pieces)
    OBVIOUS
  <2> QED BY <2>1 DEF NoArchive, Archives
<1>4. CASE /\ content = <<>> /\ started = 0 /\ acked = {}
           /\ plain = [i \in Indexes |-> NoFile]
           /\ gz = [i \in Indexes |-> NoArchive]
  <2>1. DirTyped
    <3>1. NoFile \in 0..Len(content)
      BY <1>4 DEF NoFile
    <3>2. task = [p \in Procs |-> NoTask]
      BY DEF Init
    <3> QED BY <1>3, <1>4, <3>1, <3>2, NoTaskType DEF DirTyped, Init
  <2>2. \A i \in Shelf : On[i] = <<>>
    <3>1. \A i \in Indexes : On[i] = <<>>
      BY <1>4, OnValues DEF Stored, PiecesOf, NoArchive
    <3>2. On[0] = <<>>
      BY OnValues DEF PiecesOf, Init
    <3> QED BY <3>1, <3>2 DEF Shelf
  <2>3. Used = {}
    BY <1>4 DEF Used, NoArchive
  <2>4. UsedInOrder
    <3>1. Used = 1..0 /\ 0 \in 0..MaxLines
      BY <2>3
    <3> QED BY <2>3, <3>1 DEF UsedInOrder
  <2>5. Archived
    BY <1>4 DEF Archived, NoArchive
  <2>6. \A p \in Procs : Listed(p)
    BY <1>2 DEF Listed, Compressing
  <2>7. LinesOnce(On, started) /\ WritersLines(On)
    <3>1. \A i \in Shelf : DOMAIN On[i] = {}
      BY <2>2
    <3> QED BY <1>2, <1>4, <3>1 DEF LinesOnce, WritersLines, ToWrite
  <2> QED BY <1>1, <2>1, <2>4, <2>5, <2>6, <2>7, TypeParts DEF SeriesInv, DirectoryInv
<1>5. CASE /\ content = <<InheritedLine>> /\ started = 1 /\ acked = {1}
           /\ plain = [i \in Indexes |-> IF i = 1 THEN 1 ELSE NoFile]
           /\ gz = [i \in Indexes |-> IF i = 1 THEN [pieces |-> <<>>, state |-> "truncated"]
                                               ELSE NoArchive]
  <2>0. 1 \in Indexes /\ 1 \in Shelf
    OBVIOUS
  <2>1. DirTyped
    <3>1. NoFile \in 0..Len(content) /\ 1 \in 0..Len(content)
      BY <1>5 DEF NoFile
    <3>2. task = [p \in Procs |-> NoTask] /\ tmp = [i \in Indexes |-> NoArchive]
      BY DEF Init
    <3>3. acked \subseteq 1..MaxLines
      BY <1>5
    <3> QED BY <1>3, <1>5, <3>1, <3>2, <3>3, NoTaskType DEF DirTyped
  <2>2. On[1] = InheritedLine /\ \A i \in Shelf \ {1} : On[i] = <<>>
    <3>1. On[1] = InheritedLine
      BY <1>5, <2>0, OnValues DEF Stored, PiecesOf, NoFile
    <3>2. \A i \in Indexes \ {1} : On[i] = <<>>
      BY <1>5, OnValues DEF Stored, PiecesOf, NoArchive
    <3>3. On[0] = <<>>
      BY OnValues DEF PiecesOf, Init
    <3> QED BY <3>1, <3>2, <3>3 DEF Shelf
  <2>3. Used = {1}
    BY <1>5, <2>0 DEF Used, NoArchive, NoFile
  <2>4. UsedInOrder
    <3>1. Used = 1..1 /\ 1 \in 0..MaxLines
      BY <2>3
    <3>2. On[1] # <<>>
      BY <2>2 DEF InheritedLine
    <3> QED BY <2>3, <3>1, <3>2 DEF UsedInOrder
  <2>5. Archived
    BY <1>5 DEF Archived, NoArchive, NoFile, Init
  <2>6. \A p \in Procs : Listed(p)
    BY <1>2 DEF Listed, Compressing
  <2>7. /\ DOMAIN On[1] = {1} /\ On[1][1] = [line |-> 1, end |-> "newline"]
        /\ \A i \in Shelf \ {1} : DOMAIN On[i] = {}
    BY <2>2 DEF InheritedLine
  <2>8. LinesOnce(On, started)
    <3>1. \A i \in Shelf : \A a \in DOMAIN On[i] : i = 1 /\ a = 1
      BY <2>7
    <3>2. \A i \in Shelf : \A a \in DOMAIN On[i] : On[i][a].line \in 1..started
      BY <1>5, <2>7, <3>1
    <3> QED BY <3>1, <3>2 DEF LinesOnce
  <2>9. WritersLines(On)
    <3>1. Stands(On, 1, 1)
      BY <2>7 DEF Stands
    <3> QED BY <1>2, <1>5, <2>0, <3>1 DEF WritersLines, ToWrite
  <2> QED BY <1>1, <2>1, <2>4, <2>5, <2>6, <2>8, <2>9, TypeParts DEF SeriesInv, DirectoryInv
<1> QED BY <1>4, <1>5 DEF Init

LEMMA SeriesAlways == Spec => []SeriesInv
<1>1. SeriesInv /\ [Next]_vars => SeriesInv'
  BY SeriesNext
<1> QED BY <1>1, SeriesInit, PTL DEF Spec

\* Every variable of the log files stays what log.rs makes of it.
THEOREM FilesStayTyped == Spec => []TypeOK
<1>1. SeriesInv => TypeOK
  BY DEF SeriesInv, DirectoryInv
<1> QED BY <1>1, SeriesAlways, PTL

-----------------------------------------------------------------------------
(* Recovery. *)

LEMMA RepairStep ==
  ASSUME SeriesInv, [Next]_vars, NEW p \in Procs, pc[p] = "clean", pc'[p] = "rotate"
  PROVE  \A i \in Indexes : plain'[i] = NoFile /\ tmp'[i].state = "absent"
<1>1. PICK q \in Procs : \/ StartAppend(q) \/ FinalizeSkipped(q) \/ FinalizeLocked(q)
                         \/ StartExclusive(q) \/ Close(q) \/ Crash(q) \/ Progress(q)
  BY DEF Next, vars
<1>2. q = p
  BY <1>1, OthersStay DEF SeriesInv, Inv
<1>3. pc \in [Procs -> Places]
  BY DEF SeriesInv, Inv, ProcsTyped
<1>4. FinalizeDone(p)
  <2>1. Finalizes(p)
    BY <1>1, <1>2, <1>3
    DEF StartAppend, FinalizeSkipped, FinalizeLocked, StartExclusive, Close, Crash, Progress, GoTo,
        Appends, LockShared, LockTimeout, OpenActive, WriteLine, WriteFails, Sync, SyncFails,
        Compresses, GzCreate, GzFill, GzInstall, DropPlain, Rotates, RotateCheck, RotateLock,
        RotateRename, Touch, EndExclusive
  <2> QED BY <1>3, <2>1 DEF Finalizes, RemoveTmp, ArchiveKept, ArchiveRemade, GoTo
<1>5. /\ {i \in Indexes : plain[i] # NoFile} = {} /\ {i \in Indexes : tmp[i].state # "absent"} = {}
      /\ UNCHANGED <<plain, tmp>>
  BY <1>4 DEF FinalizeDone, files, SeriesInv, DirectoryInv, Listed
<1> QED BY <1>5

\* When an open has had the lock, it leaves neither a half-rotated file nor a
\* temporary archive (finalize_pending_rotations), whatever crashed before it.
THEOREM RecoveryFinishes == Spec => FinalizeRepairs
<1>1. SeriesInv /\ [Next]_vars =>
        [\A p \in Procs : pc[p] = "clean" /\ pc'[p] = "rotate" =>
           \A i \in Indexes : plain'[i] = NoFile /\ tmp'[i].state = "absent"]_vars
  BY RepairStep
<1> QED BY <1>1, SeriesAlways, PTL DEF Spec, FinalizeRepairs

-----------------------------------------------------------------------------
(* The series the files make together. *)

KeptOf(on) == First(on, MaxLines + 1) \o on[0]

LEMMA KeptIsOn == Kept = KeptOf(On)
<1>1. [i \in Indexes |-> Stored(i)] = [i \in 1..(MaxLines + 1) |-> On[i]]
  BY OnValues DEF Indexes
<1> QED BY <1>1, OnValues DEF Kept, KeptOf, First, Flat

LEMMA ShelfParts ==
  ASSUME NEW on \in [Shelf -> Seq(Pieces)]
  PROVE  /\ MaxLines + 1 \in Nat /\ \A i \in 1..(MaxLines + 1) : on[i] \in Seq(Pieces)
         /\ on[0] \in Seq(Pieces) /\ First(on, MaxLines + 1) \in Seq(Pieces)
<1> DEFINE n == MaxLines + 1
<1>1. n \in Nat /\ Indexes = 1..n /\ n \in 0..n
  BY IndexFacts
<1>2. on[0] \in Seq(Pieces) /\ \A i \in 1..n : on[i] \in Seq(Pieces)
  BY <1>1, IndexFacts
<1> HIDE DEF n
<1>3. First(on, n) \in Seq(Pieces)
  BY <1>1, <1>2, FirstType
<1> QED BY <1>1, <1>2, <1>3 DEF n

LEMMA KeptHas ==
  ASSUME NEW on \in [Shelf -> Seq(Pieces)], NEW x
  PROVE  /\ KeptOf(on) \in Seq(Pieces)
         /\ Has(KeptOf(on), x) <=> \E i \in Shelf : Has(on[i], x)
<1> DEFINE n == MaxLines + 1
<1>1. /\ n \in Nat /\ \A i \in 1..n : on[i] \in Seq(Pieces)
      /\ on[0] \in Seq(Pieces) /\ First(on, n) \in Seq(Pieces)
  BY ShelfParts
<1>2. Shelf = 1..n \cup {0} /\ KeptOf(on) = First(on, n) \o on[0]
  BY IndexFacts DEF Shelf, KeptOf
<1> HIDE DEF n
<1>3. Has(First(on, n), x) <=> \E i \in 1..n : Has(on[i], x)
  BY <1>1, FirstHas
<1>4. Has(KeptOf(on), x) <=> Has(First(on, n), x) \/ Has(on[0], x)
  BY <1>1, <1>2, ConcatHas
<1>5. KeptOf(on) \in Seq(Pieces)
  BY <1>1, <1>2, ConcatProperties
<1> QED BY <1>2, <1>3, <1>4, <1>5

LEMMA KeptAdded ==
  ASSUME NEW on \in [Shelf -> Seq(Pieces)], NEW piece \in Pieces, NEW on2, Added(on, on2, piece)
  PROVE  KeptOf(on2) = Append(KeptOf(on), piece)
<1> DEFINE n == MaxLines + 1
<1>1. on[0] \in Seq(Pieces) /\ First(on, n) \in Seq(Pieces)
  BY ShelfParts
<1>2. on2[0] = Append(on[0], piece) /\ \A i \in 1..n : on2[i] = on[i]
  BY IndexFacts DEF Added, Shelf
<1>3. First(on2, n) = First(on, n)
  <2>1. [i \in 1..n |-> on2[i]] = [i \in 1..n |-> on[i]]
    BY <1>2
  <2> QED BY <2>1 DEF First
<1> HIDE DEF n
<1>4. \A s, t \in Seq(Pieces) : s \o Append(t, piece) = Append(s \o t, piece)
  OBVIOUS
<1>5. KeptOf(on2) = First(on, n) \o Append(on[0], piece) /\ KeptOf(on) = First(on, n) \o on[0]
  BY <1>2, <1>3 DEF KeptOf, n
<1> QED BY <1>1, <1>4, <1>5

LEMMA KeptMoved ==
  ASSUME NEW on \in [Shelf -> Seq(Pieces)], NEW k \in Indexes, NEW on2, Moved(on, on2, k),
         \A i \in Indexes : k <= i => on[i] = <<>>
  PROVE  KeptOf(on2) = KeptOf(on)
<1> DEFINE n == MaxLines + 1
<1>1. /\ n \in Nat /\ \A i \in 1..n : on[i] \in Seq(Pieces)
      /\ on[0] \in Seq(Pieces) /\ First(on, n) \in Seq(Pieces)
  BY ShelfParts
<1>2. Indexes = 1..n /\ k \in 1..n
  BY IndexFacts
<1>3. on2[0] = <<>> /\ on2[k] = on[0] /\ \A i \in Indexes : i # k => on2[i] = on[i]
  BY IndexFacts DEF Moved, Shelf
<1> HIDE DEF n
<1>4. \A i \in 1..n : on[i] \in Seq(Pieces) /\ on2[i] \in Seq(Pieces)
  BY <1>1, <1>2, <1>3
<1>5. First(on2, n) = First(on, n) \o on2[k]
  <2>1. MovedTo(on, on2, k, n, Pieces)
    BY <1>2, <1>3, <1>4 DEF MovedTo
  <2>2. n \in Nat /\ k \in 1..n
    BY <1>1, <1>2
  <2>3. First(on2, n) = Join(First(on, n), on2[k])
    BY <2>1, <2>2, FirstMoved
  <2> QED BY <2>3 DEF Join
<1>6. First(on2, n) \in Seq(Pieces)
  BY <1>1, <1>3, <1>5, ConcatProperties
<1>7. KeptOf(on2) = First(on2, n) \o <<>> /\ KeptOf(on) = First(on, n) \o on[0]
  BY <1>3 DEF KeptOf, n
<1> QED BY <1>3, <1>5, <1>6, <1>7, ConcatEmptySeq

LEMMA KeptStep ==
  ASSUME SeriesInv, [Next]_vars
  PROVE  [Series!Extend \/ Series!Acknowledge]_<<Kept, acked>>
<1>1. PICK on : on = On
  OBVIOUS
<1>2. PICK on2 : on2 = On'
  OBVIOUS
<1>3. on \in [Shelf -> Seq(Pieces)] /\ Kept = KeptOf(on)
  BY <1>1, OnType, TypeParts, KeptIsOn DEF SeriesInv, DirectoryInv
<1>4. Kept' = KeptOf(on2)
  <2>1. (Kept = KeptOf(On))'
    BY KeptIsOn, PTL
  <2> QED BY <1>2, <2>1 DEF KeptOf
<1>5. CASE Keeps
  <2>1. Kept' = Kept
    BY <1>1, <1>2, <1>3, <1>4, <1>5 DEF Keeps
  <2>2. CASE acked' = acked
    BY <2>1, <2>2
  <2>3. ASSUME NEW line, Stands(On, line, 0), acked' = acked \cup {line}
        PROVE  Series!Acknowledge
    <3> DEFINE x == [line |-> line, end |-> "newline"]
    <3>1. Has(on[0], x) /\ 0 \in Shelf
      BY <1>1, <2>3, IndexFacts DEF Stands, Has
    <3>2. Has(Kept, x)
      <4> HIDE DEF x
      <4> QED BY <1>3, <3>1, KeptHas
    <3>3. PICK j \in DOMAIN Kept : Kept[j] = x
      BY <3>2 DEF Has
    <3>4. Kept[j].end = "newline" /\ Kept[j].line = line
      BY <3>3
    <3> QED BY <2>1, <2>3, <3>4 DEF Series!Acknowledge
  <2> QED BY <1>5, <2>2, <2>3 DEF Keeps
<1>6. CASE Grows
  <2>1. PICK piece \in Pieces : Fresh(on, piece.line) /\ Added(on, on2, piece)
    BY <1>1, <1>2, <1>6 DEF Grows
  <2>2. Kept' = Append(Kept, piece)
    BY <1>3, <1>4, <2>1, KeptAdded
  <2>3. ASSUME NEW j \in DOMAIN Kept PROVE Kept[j].line # piece.line
    <3>1. Has(Kept, Kept[j])
      BY DEF Has
    <3>2. \E i \in Shelf : Has(on[i], Kept[j])
      BY <1>3, <3>1, KeptHas
    <3> QED BY <2>1, <3>2 DEF Has, Fresh
  <2> QED BY <1>6, <2>2, <2>3 DEF Grows, Series!Extend
<1>7. CASE Rolls
  <2>1. PICK k \in Indexes : Moved(on, on2, k) /\ \A i \in Indexes : k <= i => on[i] = <<>>
    BY <1>1, <1>2, <1>7 DEF Rolls
  <2>2. KeptOf(on2) = KeptOf(on)
    BY <1>3, <2>1, KeptMoved
  <2> QED BY <1>3, <1>4, <1>7, <2>2 DEF Rolls
<1> QED BY <1>5, <1>6, <1>7, SeriesNext

LEMMA KeptAtStart == Init => Series!SeriesInit
<1> SUFFICES ASSUME Init PROVE Series!SeriesInit
  OBVIOUS
<1> DEFINE N == MaxLines + 1
<1>1. N \in Nat /\ Indexes = 1..N /\ 1 \in 1..N
  BY IndexFacts
<1>2. On[0] = <<>> /\ \A i \in 1..N : On[i] = Stored(i)
  BY <1>1, OnValues DEF Init, PiecesOf
<1> HIDE DEF N
<1>3. CASE /\ content = <<>> /\ started = 0 /\ acked = {}
           /\ plain = [i \in Indexes |-> NoFile]
           /\ gz = [i \in Indexes |-> NoArchive]
  <2>1. \A i \in 1..N : On[i] = <<>>
    BY <1>1, <1>2, <1>3 DEF Stored, PiecesOf, NoArchive
  <2>2. First(On, N) = <<>>
    BY <1>1, <2>1, FirstEmpty
  <2>3. Kept = <<>>
    BY <1>2, <2>2, KeptIsOn DEF KeptOf, N
  <2> QED BY <1>3, <2>3 DEF Series!SeriesInit
<1>4. CASE /\ content = <<InheritedLine>> /\ started = 1 /\ acked = {1}
           /\ plain = [i \in Indexes |-> IF i = 1 THEN 1 ELSE NoFile]
           /\ gz = [i \in Indexes |-> IF i = 1 THEN [pieces |-> <<>>, state |-> "truncated"]
                                               ELSE NoArchive]
  <2> DEFINE none == [i \in 1..N |-> <<>>]
  <2>1. On[1] = InheritedLine /\ \A i \in 1..N : i # 1 => On[i] = <<>>
    BY <1>1, <1>2, <1>4 DEF Stored, PiecesOf, NoArchive, NoFile
  <2>2. InheritedLine \in Seq(Pieces) /\ <<>> \in Seq(Pieces)
    <3>1. [line |-> 1, end |-> "newline"] \in Pieces
      BY IndexFacts DEF Pieces
    <3> QED BY <3>1 DEF InheritedLine
  <2>3. MovedTo(none, On, 1, N, Pieces)
    BY <2>1, <2>2 DEF MovedTo
  <2>4. \A i \in 1..N : none[i] = <<>>
    OBVIOUS
  <2> HIDE DEF none
  <2>5. First(none, N) = <<>>
    BY <1>1, <2>4, FirstEmpty
  <2>6. First(On, N) = Join(First(none, N), On[1])
    BY <1>1, <2>3, FirstMoved
  <2>7. First(On, N) = InheritedLine
    BY <2>1, <2>2, <2>5, <2>6, ConcatEmptySeq DEF Join
  <2>8. Kept = InheritedLine
    BY <1>2, <2>2, <2>7, KeptIsOn, ConcatEmptySeq DEF KeptOf, N
  <2> QED BY <1>4, <2>8 DEF Series!SeriesInit
<1> QED BY <1>3, <1>4 DEF Init

\* The files of a series, read in order, are an append-only series: rotation,
\* compression, recovery and crashes in the middle of them lose, repeat and
\* reorder nothing, and a line is acknowledged only when it stands whole
\* (ADR-0019 section 5).
THEOREM FilesImplementSeries == Spec => ImplementsLogSeries
<1>1. SeriesInv /\ [Next]_vars => [Series!Extend \/ Series!Acknowledge]_<<Kept, acked>>
  BY KeptStep
<1> QED
  BY <1>1, SeriesAlways, KeptAtStart, PTL
  DEF Spec, ImplementsLogSeries, Series!SeriesSpec, Series!seriesVars

-----------------------------------------------------------------------------
(* Torn lines. *)

Lost == acked \ Recoverable
Torn == {i \in DOMAIN Kept : Kept[i].end # "newline" /\ Kept[i].line \notin acked}

\* The acknowledged line that stands behind the piece at position j of the series.
Behind(line, j) ==
  \E i \in Shelf : \E a, b \in DOMAIN On[i] :
    b = a - 1 /\ On[i][a].line = line /\ On[i][b] = Kept[j]

LEMMA RecoverableParts == \A i \in Shelf : Parsed(On[i]) \subseteq Recoverable
BY OnValues DEF Recoverable, Shelf

\* What keeps an acknowledged line from being read is the piece before it.
LEMMA LostBehindTorn ==
  ASSUME SeriesInv, NEW line \in Lost
  PROVE  \E j \in Torn : Behind(line, j)
<1>1. On \in [Shelf -> Seq(Pieces)]
  BY OnType, TypeParts DEF SeriesInv, DirectoryInv
<1>2. PICK i \in Shelf : Stands(On, line, i)
  BY DEF Lost, SeriesInv, WritersLines
<1>3. PICK a \in DOMAIN On[i] : On[i][a] = [line |-> line, end |-> "newline"]
  BY <1>2 DEF Stands
<1>4. line \notin Parsed(On[i])
  BY RecoverableParts DEF Lost
<1>5. a # 1 /\ On[i][a - 1].end # "newline"
  BY <1>3, <1>4 DEF Parsed
<1> DEFINE b == a - 1
<1>6. b \in DOMAIN On[i] /\ b = a - 1 /\ b # a
  <2>1. On[i] \in Seq(Pieces)
    BY <1>1
  <2> QED BY <1>5, <2>1
<1>7. On[i][b].end # "newline"
  BY <1>5
<1> HIDE DEF b
<1>8. On[i][b].line \notin acked
  <2> SUFFICES ASSUME On[i][b].line \in acked PROVE FALSE
    OBVIOUS
  <2>1. PICK k \in Shelf : Stands(On, On[i][b].line, k)
    BY DEF SeriesInv, WritersLines
  <2>2. PICK c \in DOMAIN On[k] : On[k][c] = [line |-> On[i][b].line, end |-> "newline"]
    BY <2>1 DEF Stands
  <2>3. On[k][c].line = On[i][b].line /\ On[k][c].end = "newline"
    BY <2>2
  <2>4. k = i /\ c = b
    BY <1>6, <2>3 DEF SeriesInv, LinesOnce
  <2> QED BY <1>7, <2>3, <2>4
<1>9. PICK j \in DOMAIN Kept : Kept[j] = On[i][b]
  <2>1. PICK on : on = On
    OBVIOUS
  <2>2. Has(on[i], on[i][b])
    BY <1>6, <2>1 DEF Has
  <2>3. Has(KeptOf(on), on[i][b])
    BY <1>1, <2>1, <2>2, KeptHas
  <2> QED BY <2>1, <2>3, KeptIsOn DEF Has
<1>10. j \in Torn
  BY <1>7, <1>8, <1>9 DEF Torn
<1>11. Behind(line, j)
  BY <1>3, <1>6, <1>9 DEF Behind
<1> QED BY <1>10, <1>11

LEMMA BehindOnce ==
  ASSUME SeriesInv, NEW j, NEW line, NEW other, Behind(line, j), Behind(other, j)
  PROVE  line = other
<1>1. PICK i \in Shelf : \E a, b \in DOMAIN On[i] :
        b = a - 1 /\ On[i][a].line = line /\ On[i][b] = Kept[j]
  BY DEF Behind
<1>2. PICK a \in DOMAIN On[i], b \in DOMAIN On[i] :
        b = a - 1 /\ On[i][a].line = line /\ On[i][b] = Kept[j]
  BY <1>1
<1>3. PICK k \in Shelf : \E c, d \in DOMAIN On[k] :
        d = c - 1 /\ On[k][c].line = other /\ On[k][d] = Kept[j]
  BY DEF Behind
<1>4. PICK c \in DOMAIN On[k], d \in DOMAIN On[k] :
        d = c - 1 /\ On[k][c].line = other /\ On[k][d] = Kept[j]
  BY <1>3
<1>5. On[i][b].line = On[k][d].line
  BY <1>2, <1>4
<1>6. i = k /\ b = d
  BY <1>5 DEF SeriesInv, LinesOnce
<1>7. On[i] \in Seq(Pieces)
  BY OnType, TypeParts DEF SeriesInv, DirectoryInv
<1>8. a = c
  BY <1>2, <1>4, <1>6, <1>7
<1> QED BY <1>2, <1>4, <1>6, <1>8

LEMMA TornIsFinite ==
  ASSUME SeriesInv
  PROVE  IsFiniteSet(Torn)
<1>1. KeptOf(On) \in Seq(Pieces)
  <2>1. PICK on : on = On
    OBVIOUS
  <2>2. on \in [Shelf -> Seq(Pieces)]
    BY <2>1, OnType, TypeParts DEF SeriesInv, DirectoryInv
  <2> QED BY <2>1, <2>2, KeptHas
<1>2. Kept \in Seq(Pieces)
  BY <1>1, KeptIsOn
<1>3. DOMAIN Kept = 1..Len(Kept) /\ Len(Kept) \in Nat
  BY <1>2
<1>4. IsFiniteSet(1..Len(Kept))
  BY <1>3, FS_Interval
<1> QED BY <1>3, <1>4, FS_Subset DEF Torn

\* A write that was cut short makes at most one acknowledged line unreadable,
\* the next one of its file, however many rotations follow (append_jsonl does
\* not look at what stands before its line).
THEOREM OneLinePerTornWrite == Spec => []TornLinesCostOneEach
<1>1. SeriesInv => TornLinesCostOneEach
  <2> SUFFICES ASSUME SeriesInv PROVE Cardinality(Lost) <= Cardinality(Torn)
    BY DEF TornLinesCostOneEach, Lost, Torn
  <2> DEFINE f == [line \in Lost |-> CHOOSE j \in Torn : Behind(line, j)]
  <2>1. \A line \in Lost : f[line] \in Torn /\ Behind(line, f[line])
    <3> SUFFICES ASSUME NEW line \in Lost PROVE f[line] \in Torn /\ Behind(line, f[line])
      OBVIOUS
    <3>1. \E j \in Torn : Behind(line, j)
      BY LostBehindTorn
    <3> QED BY <3>1
  <2>2. f \in [Lost -> Torn]
    BY <2>1
  <2> HIDE DEF f
  <2>3. \A line, other \in Lost : f[line] = f[other] => line = other
    BY <2>1, BehindOnce
  <2>4. f \in Injection(Lost, Torn)
    BY <2>2, <2>3 DEF Injection, IsInjective
  <2> QED BY <2>4, TornIsFinite, FS_Injection
<1> QED BY <1>1, SeriesAlways, PTL
=============================================================================
