---------------------------- MODULE IdGenProofs ----------------------------
(***************************************************************************)
(* What the id generator guarantees for every number of processes, every   *)
(* width of the random part and every behaviour of the wall clock.         *)
(***************************************************************************)
EXTENDS IdGen, TLAPS

Written == [id : Nat, session : Nat]

\* Sessions are numbered apart, and the generator of an open store is never
\* behind an id its session logged.
SessionsApart ==
  /\ \A p \in Procs : session[p] <= opened
  /\ \A p, q \in Procs : p # q /\ session[p] # 0 => session[p] # session[q]
  /\ \A i \in DOMAIN written : written[i].session <= opened

GeneratorAhead ==
  \A p \in Procs : \A i \in DOMAIN written :
    session[p] # 0 /\ written[i].session = session[p] => written[i].id <= last[p]

Inv == TypeOK /\ SessionsApart /\ GeneratorAhead /\ SessionIdsIncrease /\ TailsRespected

\* What mint returns: the next id is beyond the last one.
LEMMA MintFacts ==
  ASSUME TypeOK, NEW p \in Procs, NEW random \in 0..(Width - 1)
  PROVE  Mint(p, random) \in Nat /\ Mint(p, random) > last[p]
<1>1. now \in Nat /\ last[p] \in Nat /\ random \in Nat /\ Width \in Nat
  BY IdGenAssumption DEF TypeOK
<1>2. now * Width \in Nat
  BY <1>1
<1> DEFINE t == now * Width
<1> HIDE DEF t
<1>3. Larger(t + random, last[p] + 1) \in Nat /\ Larger(t + random, last[p] + 1) > last[p]
  BY <1>1, <1>2 DEF Larger, t
<1> QED BY <1>3 DEF Mint, t

LEMMA WrittenFacts ==
  ASSUME TypeOK, NEW i \in DOMAIN written
  PROVE  written[i].id \in Nat /\ written[i].session \in Nat
<1>1. written \in Seq(Written)
  BY DEF TypeOK, Written
<1>2. written[i] \in Written
  BY <1>1
<1> QED BY <1>2 DEF Written

LEMMA InvInit == Init => Inv
BY DEF Init, Inv, TypeOK, SessionsApart, GeneratorAhead, SessionIdsIncrease, TailsRespected, NoId

LEMMA WriteInv ==
  ASSUME Inv, NEW p \in Procs, Write(p)
  PROVE  Inv'
<1>1. PICK random \in 0..(Width - 1), s \in Series :
        /\ last' = [last EXCEPT ![p] = Mint(p, random)]
        /\ tail' = [tail EXCEPT ![s] = Mint(p, random)]
        /\ written' = Append(written, [id |-> Mint(p, random), session |-> session[p]])
  BY DEF Write
<1> DEFINE id == Mint(p, random)
           n == Len(written) + 1
<1>2. id \in Nat /\ id > last[p]
  BY MintFacts DEF Inv
<1>3. /\ last' = [last EXCEPT ![p] = id] /\ tail' = [tail EXCEPT ![s] = id]
      /\ written' = Append(written, [id |-> id, session |-> session[p]])
      /\ now' = now /\ session' = session /\ opened' = opened /\ seen' = seen
      /\ session[p] # 0
  BY <1>1 DEF Write
<1> HIDE DEF id
<1>4. TypeOK
  BY DEF Inv
<1>5. [id |-> id, session |-> session[p]] \in Written
  BY <1>2, <1>4 DEF Written, TypeOK
<1>6. /\ written \in Seq(Written) /\ written' \in Seq(Written)
      /\ n \in Nat /\ DOMAIN written' = DOMAIN written \cup {n}
      /\ \A i \in DOMAIN written : i \in Nat /\ i < n /\ written'[i] = written[i]
      /\ written'[n].id = id /\ written'[n].session = session[p]
  <2>1. written \in Seq(Written)
    BY <1>4 DEF TypeOK, Written
  <2> DEFINE w == [id |-> id, session |-> session[p]]
  <2>2. w \in Written /\ w.id = id /\ w.session = session[p] /\ written' = Append(written, w)
    BY <1>3, <1>5
  <2> HIDE DEF w
  <2>3. /\ written' \in Seq(Written) /\ Len(written) \in Nat
        /\ DOMAIN written = 1..Len(written) /\ DOMAIN written' = 1..n
        /\ \A i \in 1..Len(written) : written'[i] = written[i]
        /\ written'[n] = w
    BY <2>1, <2>2
  <2> QED BY <2>1, <2>2, <2>3
<1> HIDE DEF n
<1>7. TypeOK'
  BY <1>2, <1>3, <1>4, <1>6 DEF TypeOK, Written
<1>8. SessionsApart'
  BY <1>3, <1>4, <1>6 DEF Inv, SessionsApart, TypeOK
<1>9. \A q \in Procs : q # p => last'[q] = last[q]
  BY <1>3, <1>4 DEF TypeOK
<1>10. last'[p] = id
  BY <1>3, <1>4 DEF TypeOK
<1>11. \A i \in DOMAIN written : written[i].id \in Nat /\ written[i].session \in Nat
  BY <1>4, WrittenFacts
<1>12. \A i \in DOMAIN written : written[i].session = session[p] => written[i].id < id
  <2>1. last[p] \in Nat
    BY <1>4 DEF TypeOK
  <2>2. \A i \in DOMAIN written : written[i].session = session[p] => written[i].id <= last[p]
    BY <1>3 DEF Inv, GeneratorAhead
  <2> QED BY ONLY <1>2, <1>11, <2>1, <2>2
<1>13. GeneratorAhead'
  <2> SUFFICES ASSUME NEW q \in Procs, NEW i \in DOMAIN written',
                      session[q] # 0, written'[i].session = session[q]
               PROVE  written'[i].id <= last'[q]
    BY <1>3 DEF GeneratorAhead
  <2>1. CASE i = n
    <3>1. q = p
      BY <1>3, <1>6, <2>1 DEF Inv, SessionsApart
    <3> QED BY <1>2, <1>6, <1>10, <2>1, <3>1
  <2>2. CASE i # n /\ q = p
    BY <1>2, <1>6, <1>10, <1>11, <1>12, <2>2
  <2>3. CASE i # n /\ q # p
    BY <1>6, <1>9, <2>3 DEF Inv, GeneratorAhead
  <2> QED BY <2>1, <2>2, <2>3
<1>14. SessionIdsIncrease'
  <2> SUFFICES ASSUME NEW i \in DOMAIN written', NEW j \in DOMAIN written', i < j,
                      written'[i].session = written'[j].session
               PROVE  written'[i].id < written'[j].id
    BY DEF SessionIdsIncrease
  <2>1. i # n
    BY <1>6
  <2>2. CASE j = n
    BY <1>6, <1>12, <2>1, <2>2
  <2>3. CASE j # n
    BY <1>6, <2>1, <2>3 DEF Inv, SessionIdsIncrease
  <2> QED BY <2>2, <2>3
<1>15. TailsRespected'
  <2> SUFFICES ASSUME NEW q \in Procs, session[q] # 0, NEW x \in seen[q]
               PROVE  x <= last'[q]
    BY <1>3 DEF TailsRespected
  <2>1. x \in Nat /\ x <= last[q] /\ last[q] \in Nat
    BY <1>4 DEF Inv, TailsRespected, TypeOK
  <2> QED BY <1>2, <1>9, <1>10, <2>1
<1> QED BY <1>7, <1>8, <1>13, <1>14, <1>15 DEF Inv

LEMMA OpenInv ==
  ASSUME Inv, NEW p \in Procs, Open(p)
  PROVE  Inv'
<1>1. /\ session' = [session EXCEPT ![p] = opened + 1] /\ opened' = opened + 1
      /\ last' = [last EXCEPT ![p] = Larger(tail["log"], tail["events"])]
      /\ seen' = [seen EXCEPT ![p] = {tail[s] : s \in Series}]
      /\ now' = now /\ written' = written /\ TypeOK
  BY DEF Open, Inv
<1>2. PICK rotated \in SUBSET Series :
        tail' = [s \in Series |-> IF s \in rotated THEN NoId ELSE tail[s]]
  BY DEF Open
<1>3. /\ tail["log"] \in Nat /\ tail["events"] \in Nat /\ opened \in Nat
      /\ Larger(tail["log"], tail["events"]) \in Nat
      /\ \A s \in Series : tail[s] <= Larger(tail["log"], tail["events"])
  BY <1>1 DEF TypeOK, Series, Larger
<1>4. \A q \in Procs : session[q] \in Nat /\ session[q] <= opened
  BY <1>1 DEF Inv, SessionsApart, TypeOK
<1>5. \A i \in DOMAIN written : written[i].session \in Nat /\ written[i].session <= opened
  BY <1>1, WrittenFacts DEF Inv, SessionsApart
<1>6. /\ session'[p] = opened + 1 /\ \A q \in Procs \ {p} : session'[q] = session[q]
      /\ last'[p] = Larger(tail["log"], tail["events"])
      /\ seen'[p] = {tail[s] : s \in Series}
      /\ \A q \in Procs \ {p} : last'[q] = last[q] /\ seen'[q] = seen[q]
  BY <1>1 DEF TypeOK
<1>7. TypeOK'
  <2>1. tail' \in [Series -> Nat]
    BY <1>1, <1>2 DEF TypeOK, NoId
  <2>2. {tail[s] : s \in Series} \in SUBSET Nat
    BY <1>1 DEF TypeOK
  <2> QED BY <1>1, <1>3, <2>1, <2>2 DEF TypeOK
<1>8. SessionsApart'
  BY <1>1, <1>3, <1>4, <1>5, <1>6 DEF Inv, SessionsApart
<1>9. GeneratorAhead'
  BY <1>1, <1>3, <1>5, <1>6 DEF Inv, GeneratorAhead
<1>10. SessionIdsIncrease'
  BY <1>1 DEF Inv, SessionIdsIncrease
<1>11. TailsRespected'
  BY <1>3, <1>6 DEF Inv, TailsRespected
<1> QED BY <1>7, <1>8, <1>9, <1>10, <1>11 DEF Inv

LEMMA InvNext == Inv /\ [Next]_vars => Inv'
<1> SUFFICES ASSUME Inv, [Next]_vars PROVE Inv'
  OBVIOUS
<1>1. ASSUME NEW p \in Procs, Write(p) PROVE Inv'
  BY <1>1, WriteInv
<1>2. ASSUME NEW p \in Procs, Refer(p) PROVE Inv'
  BY <1>2 DEF Refer, Inv, TypeOK, SessionsApart, GeneratorAhead, SessionIdsIncrease,
              TailsRespected, NoId
<1>3. ASSUME NEW p \in Procs, Open(p) PROVE Inv'
  BY <1>3, OpenInv
<1>4. ASSUME NEW p \in Procs, Close(p) PROVE Inv'
  BY <1>4 DEF Close, Inv, TypeOK, SessionsApart, GeneratorAhead, SessionIdsIncrease,
              TailsRespected
<1>5. CASE SetClock
  <2>1. 0..MaxMs \subseteq Nat
    BY IdGenAssumption
  <2> QED BY <1>5, <2>1 DEF SetClock, Inv, TypeOK, SessionsApart, GeneratorAhead,
             SessionIdsIncrease, TailsRespected
<1>6. CASE UNCHANGED vars
  BY <1>6 DEF vars, Inv, TypeOK, SessionsApart, GeneratorAhead, SessionIdsIncrease,
              TailsRespected
<1> QED
  BY <1>1, <1>2, <1>3, <1>4, <1>5, <1>6 DEF Next

\* Every state of the generators is well typed.
THEOREM IdGenTypeCorrect == Spec => []TypeOK
<1>1. Inv => TypeOK
  BY DEF Inv
<1> QED BY InvInit, InvNext, <1>1, PTL DEF Spec

\* No session ever logs an id twice or out of order, however the clock moves
\* and however many stores share the logs (the comment of IdGen::mint).
THEOREM SessionsMintInOrder == Spec => []SessionIdsIncrease
<1>1. Inv => SessionIdsIncrease
  BY DEF Inv
<1> QED BY InvInit, InvNext, <1>1, PTL DEF Spec

\* Seeding before rotation keeps a reopened store beyond every id that ended an
\* active log series, even across clock steps (Store::open, ADR-0026).
THEOREM SeedCoversTails == Spec => []TailsRespected
<1>1. Inv => TailsRespected
  BY DEF Inv
<1> QED BY InvInit, InvNext, <1>1, PTL DEF Spec
=============================================================================
