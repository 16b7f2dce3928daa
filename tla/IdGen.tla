------------------------------- MODULE IdGen -------------------------------
(***************************************************************************)
(* Writer-minted ids (ids.rs, ADR-0026).  Each open store has a generator  *)
(* that is seeded from the last line of each active log series and mints   *)
(* (milliseconds << 12) | random, or last + 1 when that is not larger.     *)
(* MemoryStore takes minting as a choice of any fresh larger id; this      *)
(* module says how far the generator delivers it when stores restart, logs *)
(* rotate and the wall clock steps back.                                   *)
(***************************************************************************)
EXTENDS Integers, Sequences, FiniteSets

CONSTANTS
  Procs,        \* processes, each opens its own Store
  Width,        \* 2 ^ RANDOM_BITS
  MaxMs,        \* bound on the wall clock
  MaxSessions,  \* bound on the stores ever opened
  MaxWritten    \* bound on the ids ever logged

ASSUME IdGenAssumption ==
  /\ Width \in Nat \ {0}
  /\ MaxMs \in Nat /\ MaxSessions \in Nat /\ MaxWritten \in Nat

VARIABLES
  now,      \* milliseconds since EPOCH_MS
  last,     \* IdGen::last of each store
  session,  \* the session of each process, 0 when its store is closed
  opened,   \* how many sessions there have been
  tail,     \* the id the last line of each active file carries, 0 for none
  seen,     \* history: the tails each open store found when it opened
  written   \* history: the ids that were logged, in order, with their session

vars == <<now, last, session, opened, tail, seen, written>>

Series == {"log", "events"}
NoId == 0

Larger(a, b) == IF a > b THEN a ELSE b

TypeOK ==
  /\ now \in Nat
  /\ last \in [Procs -> Nat]
  /\ session \in [Procs -> Nat]
  /\ opened \in Nat
  /\ tail \in [Series -> Nat]
  /\ seen \in [Procs -> SUBSET Nat]
  /\ written \in Seq([id : Nat, session : Nat])

Init ==
  /\ now = 0
  /\ last = [p \in Procs |-> 0]
  /\ session = [p \in Procs |-> 0]
  /\ opened = 0
  /\ tail = [s \in Series |-> NoId]
  /\ seen = [p \in Procs |-> {}]
  /\ written = <<>>

-----------------------------------------------------------------------------

\* Mutant: the clock alone decides.
MintIgnoringLast(p, random) == Larger(now * Width + random, last[p])

\* IdGen::mint.  The compare_exchange loop never meets another thread: a Store
\* is not Sync, and every caller mints inside BEGIN IMMEDIATE.
Mint(p, random) == Larger(now * Width + random, last[p] + 1)

\* A write that mints: its record becomes the last line of its series.
Write(p) ==
  /\ session[p] # 0
  /\ Len(written) < MaxWritten
  /\ \E random \in 0..(Width - 1), s \in Series :
       LET id == Mint(p, random) IN
         /\ last' = [last EXCEPT ![p] = id]
         /\ tail' = [tail EXCEPT ![s] = id]
         /\ written' = Append(written, [id |-> id, session |-> session[p]])
  /\ UNCHANGED <<now, session, opened, seen>>

\* A retirement, a supersession, a decay or a rejection only refers to ids.
Refer(p) ==
  /\ session[p] # 0
  /\ \E s \in Series : tail[s] # NoId /\ tail' = [tail EXCEPT ![s] = NoId]
  /\ UNCHANGED <<now, last, session, opened, seen, written>>

\* Mutant: the logs are rotated before the generator is seeded.
OpenRotatesFirst(p) ==
  /\ session[p] = 0
  /\ opened < MaxSessions
  /\ opened' = opened + 1
  /\ session' = [session EXCEPT ![p] = opened + 1]
  /\ seen' = [seen EXCEPT ![p] = {tail[s] : s \in Series}]
  /\ \E rotated \in SUBSET Series :
       tail' = [s \in Series |-> IF s \in rotated THEN NoId ELSE tail[s]]
  /\ last' = [last EXCEPT ![p] = Larger(tail'["log"], tail'["events"])]
  /\ UNCHANGED <<now, written>>

\* Store::open: max_id_in_log_tails first; maybe_rotate_log then leaves a
\* series that grew too large, or was begun last month, with an empty file.
Open(p) ==
  /\ session[p] = 0
  /\ opened < MaxSessions
  /\ opened' = opened + 1
  /\ session' = [session EXCEPT ![p] = opened + 1]
  /\ seen' = [seen EXCEPT ![p] = {tail[s] : s \in Series}]
  /\ last' = [last EXCEPT ![p] = Larger(tail["log"], tail["events"])]
  /\ \E rotated \in SUBSET Series :
       tail' = [s \in Series |-> IF s \in rotated THEN NoId ELSE tail[s]]
  /\ UNCHANGED <<now, written>>

\* Closing and crashing lose the generator alike.
Close(p) ==
  /\ session[p] # 0
  /\ session' = [session EXCEPT ![p] = 0]
  /\ last' = [last EXCEPT ![p] = 0]
  /\ seen' = [seen EXCEPT ![p] = {}]
  /\ UNCHANGED <<now, opened, tail, written>>

\* SystemTime is not monotonic: it may be set back, or before EPOCH_MS, where
\* mint reads 0.
SetClock == now' \in 0..MaxMs /\ UNCHANGED <<last, session, opened, tail, seen, written>>

Next ==
  \/ \E p \in Procs : Write(p) \/ Refer(p) \/ Open(p) \/ Close(p)
  \/ SetClock

Spec == Init /\ [][Next]_vars

-----------------------------------------------------------------------------

\* Within a session ids strictly increase, in the order they are logged and
\* whatever the clock does, so no store logs an id twice (the comment of mint).
SessionIdsIncrease ==
  \A i, j \in DOMAIN written :
    i < j /\ written[i].session = written[j].session => written[i].id < written[j].id

\* A store never mints an id that was the last of an active series when it
\* opened, even if that open rotated the series and the clock went back.
TailsRespected ==
  \A p \in Procs : session[p] # 0 => \A id \in seen[p] : id <= last[p]

\* Ids stay monotonic across process restarts even if the clock moved backwards
\* (the comment of max_id_in_log_tails): no later id is smaller.
MonotonicAcrossRestarts ==
  \A i, j \in DOMAIN written : i < j => written[i].id <= written[j].id
=============================================================================
