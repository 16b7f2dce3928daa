--------------------------- MODULE McpServerProofs ---------------------------
(***************************************************************************)
(* The grants of the server and the calls made under them, for any number  *)
(* of users, clients, requests and repetitions: revoked lineages stay      *)
(* revoked, others have one refresh token that works, and whatever a token *)
(* lets a client do was approved on a screen.                              *)
(***************************************************************************)
EXTENDS McpServer, SequenceTheorems, TLAPS

-----------------------------------------------------------------------------
(* The inductive invariant. *)

\* A lineage is named for its first pair, whose user, client and code all its
\* members have.
Lineage ==
  \A i \in DOMAIN pairs :
    /\ pairs[i].family \in DOMAIN pairs /\ pairs[i].family <= i
    /\ pairs[pairs[i].family].family = pairs[i].family
    /\ pairs[pairs[i].family].user = pairs[i].user
    /\ pairs[pairs[i].family].client = pairs[i].client

\* What is recorded of the past is about pairs that were issued.
HistoryIsPast ==
  /\ ended \subseteq DOMAIN pairs
  /\ \A g \in Grants : cutoff[g] <= Len(pairs)

CodesExist == \A i \in DOMAIN pairs : pairs[i].code \in DOMAIN codes

PagesHaveSessions == \A page \in pages : page.session \in DOMAIN sessions

\* A live consent is an approval since the last revocation,
ConsentsApproved ==
  \A u \in Users, c \in Clients :
    consents[<<u, c>>].state = "live" =>
      \E a \in approvals : /\ a.user = u /\ a.client = c
                           /\ a.scopes = consents[<<u, c>>].scopes /\ a.current

\* and every code was approved once.
CodesApproved ==
  \A i \in DOMAIN codes :
    \E a \in approvals : /\ a.user = codes[i].user /\ a.client = codes[i].client
                         /\ a.scopes = codes[i].scopes

GrantsInv ==
  /\ TypeOK
  /\ Lineage /\ HistoryIsPast /\ CodesExist
  /\ PagesHaveSessions /\ ConsentsApproved /\ CodesApproved
  /\ DeadFamiliesStayDead /\ LiveFamiliesHaveOneHeir
  /\ TokensTraceToCodes /\ DecisionFollowsScreen

-----------------------------------------------------------------------------
(* Sequences that grow by one element or keep their length. *)

LEMMA Appended ==
  ASSUME NEW S, NEW seq \in Seq(S), NEW x \in S
  PROVE  /\ Append(seq, x) \in Seq(S)
         /\ Len(Append(seq, x)) = Len(seq) + 1
         /\ Len(seq) \in Nat /\ DOMAIN seq = 1..Len(seq)
         /\ DOMAIN Append(seq, x) = 1..(Len(seq) + 1)
         /\ \A i \in DOMAIN seq : Append(seq, x)[i] = seq[i]
         /\ Append(seq, x)[Len(seq) + 1] = x
BY AppendProperties, LenProperties

LEMMA Rewritten ==
  ASSUME NEW S, NEW seq \in Seq(S), NEW other, DOMAIN other = DOMAIN seq,
         other = [i \in DOMAIN seq |-> other[i]],
         \A i \in DOMAIN seq : other[i] \in S
  PROVE  /\ other \in Seq(S) /\ Len(other) = Len(seq)
<1>1. Len(seq) \in Nat /\ DOMAIN seq = 1..Len(seq)
  BY LenProperties
<1>2. other \in [1..Len(seq) -> S]
  BY <1>1
<1>3. other \in Seq(S)
  BY <1>1, <1>2
<1>4. DOMAIN other = 1..Len(other) /\ Len(other) \in Nat
  BY <1>3, LenProperties
<1> QED
  BY <1>1, <1>3, <1>4

-----------------------------------------------------------------------------
(* Types. *)

LEMMA GrantsInit == Init => GrantsInv
<1> SUFFICES ASSUME Init PROVE GrantsInv
  OBVIOUS
<1> USE GrantsAssumption DEF Init
<1>1. TypeOK
  BY DEF TypeOK, Grants, Consents
<1>2. DOMAIN pairs = {} /\ DOMAIN codes = {} /\ Len(pairs) = 0
  OBVIOUS
<1>3. Lineage /\ CodesExist /\ CodesApproved /\ PagesHaveSessions /\ TokensTraceToCodes
      /\ DecisionFollowsScreen
  BY <1>2 DEF Lineage, CodesExist, CodesApproved, PagesHaveSessions, TokensTraceToCodes,
              DecisionFollowsScreen
<1>4. HistoryIsPast
  BY <1>2 DEF HistoryIsPast
<1>5. ConsentsApproved
  <2>1. \A u \in Users, c \in Clients : <<u, c>> \in Grants
    BY DEF Grants
  <2> QED BY <2>1 DEF ConsentsApproved
<1>6. DeadFamiliesStayDead /\ LiveFamiliesHaveOneHeir
  BY <1>2 DEF DeadFamiliesStayDead, LiveFamiliesHaveOneHeir, Families
<1> QED BY <1>1, <1>3, <1>4, <1>5, <1>6 DEF GrantsInv

\* ensure_session only adds, and the session it answers with is then there.
LEMMA SessionEnsured ==
  ASSUME TypeOK, NEW u \in Users, NEW cookie, EnsureSession(u, cookie)
  PROVE  /\ sessions' \in Seq(Sessions) /\ Len(sessions') <= MaxSessions
         /\ DOMAIN sessions \subseteq DOMAIN sessions'
         /\ \A i \in DOMAIN sessions : sessions'[i] = sessions[i]
         /\ SessionFor(u, cookie) \in DOMAIN sessions'
         /\ DOMAIN sessions' \subseteq 1..MaxSessions
<1> USE GrantsAssumption DEF TypeOK
<1>1. CASE HasSession(u, cookie)
  BY <1>1, LenProperties DEF EnsureSession, SessionFor, HasSession
<1>2. CASE ~HasSession(u, cookie)
  <2> DEFINE new == [user |-> u, since |-> clock]
  <2>1. new \in Sessions /\ Len(sessions) < MaxSessions /\ sessions' = Append(sessions, new)
    BY <1>2 DEF EnsureSession, Sessions
  <2> HIDE DEF new
  <2>2. /\ sessions' \in Seq(Sessions) /\ Len(sessions') = Len(sessions) + 1
        /\ Len(sessions) \in Nat /\ DOMAIN sessions = 1..Len(sessions)
        /\ DOMAIN sessions' = 1..(Len(sessions) + 1)
        /\ \A i \in DOMAIN sessions : sessions'[i] = sessions[i]
    <3>1. sessions \in Seq(Sessions)
      BY DEF TypeOK
    <3> QED BY ONLY <2>1, <3>1, Appended
  <2>3. Len(sessions') <= MaxSessions /\ DOMAIN sessions' \subseteq 1..MaxSessions
    <3>1. MaxSessions \in Nat
      BY GrantsAssumption
    <3> QED BY ONLY <2>1, <2>2, <3>1
  <2>4. DOMAIN sessions \subseteq DOMAIN sessions' /\ Len(sessions) + 1 \in DOMAIN sessions'
    BY ONLY <2>2
  <2>5. SessionFor(u, cookie) = Len(sessions) + 1
    BY <1>2 DEF SessionFor
  <2> QED BY ONLY <2>2, <2>3, <2>4, <2>5
<1> QED BY <1>1, <1>2

\* A code that is stored is unused and the last one.
LEMMA CodeStored ==
  ASSUME TypeOK, NEW u \in Users, NEW c \in Clients, NEW challenge \in Challenges,
         NEW uri \in Uris, NEW scopes \in SUBSET ScopeNames,
         StoreCode(u, c, challenge, uri, scopes)
  PROVE  /\ codes' \in Seq(Codes) /\ Len(codes') <= MaxCodes
         /\ DOMAIN codes \subseteq DOMAIN codes'
         /\ \A i \in DOMAIN codes : codes'[i] = codes[i]
         /\ \A i \in DOMAIN codes' \ DOMAIN codes :
              codes'[i].user = u /\ codes'[i].client = c /\ codes'[i].scopes = scopes
<1> USE GrantsAssumption DEF TypeOK
<1> DEFINE new == [client |-> c, user |-> u, challenge |-> challenge, uri |-> uri,
                   scopes |-> scopes, since |-> clock, used |-> FALSE]
<1>1. new \in Codes /\ codes' = Append(codes, new) /\ Len(codes) < MaxCodes
  BY DEF StoreCode, Codes
<1>2. new.user = u /\ new.client = c /\ new.scopes = scopes
  OBVIOUS
<1> HIDE DEF new
<1>3. /\ codes' \in Seq(Codes) /\ Len(codes') = Len(codes) + 1
      /\ Len(codes) \in Nat /\ DOMAIN codes = 1..Len(codes)
      /\ DOMAIN codes' = 1..(Len(codes) + 1)
      /\ \A i \in DOMAIN codes : codes'[i] = codes[i]
      /\ codes'[Len(codes) + 1] = new
  <2>1. codes \in Seq(Codes)
    BY DEF TypeOK
  <2> QED BY ONLY <1>1, <2>1, Appended
<1>4. Len(codes') <= MaxCodes
  <2>1. MaxCodes \in Nat
    BY GrantsAssumption
  <2> QED BY ONLY <1>1, <1>3, <2>1
<1>5. /\ DOMAIN codes \subseteq DOMAIN codes'
      /\ \A i \in DOMAIN codes' \ DOMAIN codes : i = Len(codes) + 1
  <2>1. Len(codes) \in Nat /\ DOMAIN codes = 1..Len(codes) /\ DOMAIN codes' = 1..(Len(codes) + 1)
    BY <1>3
  <2> QED BY ONLY <2>1
<1> QED BY ONLY <1>2, <1>3, <1>4, <1>5

-----------------------------------------------------------------------------
(* What a step leaves alone stays as it was. *)

\* Codes only change by being added or spent.
CodesGrow ==
  /\ DOMAIN codes \subseteq DOMAIN codes'
  /\ \A i \in DOMAIN codes :
       /\ codes'[i].user = codes[i].user /\ codes'[i].client = codes[i].client
       /\ codes'[i].scopes = codes[i].scopes
       /\ codes[i].used => codes'[i].used

PairsInv ==
  /\ Lineage /\ HistoryIsPast /\ CodesExist
  /\ DeadFamiliesStayDead /\ LiveFamiliesHaveOneHeir /\ TokensTraceToCodes

ScreenInv == PagesHaveSessions /\ DecisionFollowsScreen

ConsentInv == ConsentsApproved /\ CodesApproved

LEMMA InvParts == GrantsInv <=> TypeOK /\ PairsInv /\ ScreenInv /\ ConsentInv
BY DEF GrantsInv, PairsInv, ScreenInv, ConsentInv

LEMMA InvPartsNext == GrantsInv' <=> TypeOK' /\ PairsInv' /\ ScreenInv' /\ ConsentInv'
BY DEF GrantsInv, PairsInv, ScreenInv, ConsentInv

LEMMA PairsUntouched ==
  ASSUME PairsInv, CodesGrow, UNCHANGED <<pairs, cutoff, ended>>
  PROVE  PairsInv'
<1>1. Lineage' /\ HistoryIsPast' /\ DeadFamiliesStayDead' /\ LiveFamiliesHaveOneHeir'
  <2>1. pairs' = pairs /\ cutoff' = cutoff /\ ended' = ended
    OBVIOUS
  <2>2. Lineage' /\ HistoryIsPast'
    BY <2>1 DEF PairsInv, Lineage, HistoryIsPast
  <2>3. DeadFamiliesStayDead'
    BY <2>1 DEF PairsInv, DeadFamiliesStayDead, Families, Members, Dead
  <2>4. LiveFamiliesHaveOneHeir'
    BY <2>1 DEF PairsInv, LiveFamiliesHaveOneHeir, Families, Members, Dead
  <2> QED BY <2>2, <2>3, <2>4
<1>2. CodesExist'
  BY DEF PairsInv, CodesExist, CodesGrow
<1>3. TokensTraceToCodes'
  BY DEF PairsInv, TokensTraceToCodes, CodesExist, CodesGrow
<1> QED BY <1>1, <1>2, <1>3 DEF PairsInv

LEMMA CodesUntouched == UNCHANGED codes => CodesGrow
BY DEF CodesGrow

LEMMA ScreensGrow ==
  ASSUME ScreenInv, UNCHANGED approvals, pages \subseteq pages',
         DOMAIN sessions \subseteq DOMAIN sessions',
         \A i \in DOMAIN sessions : sessions'[i] = sessions[i],
         \A page \in pages' \ pages : page.session \in DOMAIN sessions'
  PROVE  ScreenInv'
<1>1. PagesHaveSessions'
  BY DEF ScreenInv, PagesHaveSessions
<1>2. DecisionFollowsScreen'
  BY DEF ScreenInv, PagesHaveSessions, DecisionFollowsScreen
<1> QED BY <1>1, <1>2 DEF ScreenInv

LEMMA ScreensUntouched ==
  ASSUME ScreenInv, UNCHANGED <<approvals, pages, sessions>>
  PROVE  ScreenInv'
BY DEF ScreenInv, PagesHaveSessions, DecisionFollowsScreen

LEMMA ConsentsUntouched ==
  ASSUME ConsentInv, UNCHANGED <<approvals, consents>>, CodesGrow,
         \A i \in DOMAIN codes' \ DOMAIN codes :
           \E a \in approvals : /\ a.user = codes'[i].user /\ a.client = codes'[i].client
                                /\ a.scopes = codes'[i].scopes
  PROVE  ConsentInv'
<1>1. ConsentsApproved'
  <2>1. ConsentsApproved /\ consents' = consents /\ approvals' = approvals
    BY DEF ConsentInv
  <2>2. ASSUME NEW u \in Users, NEW c \in Clients, consents'[<<u, c>>].state = "live"
        PROVE  \E a \in approvals' : /\ a.user = u /\ a.client = c
                                     /\ a.scopes = consents'[<<u, c>>].scopes /\ a.current
    <3>1. PICK a \in approvals : /\ a.user = u /\ a.client = c
                                 /\ a.scopes = consents[<<u, c>>].scopes /\ a.current
      BY <2>1, <2>2 DEF ConsentsApproved
    <3> QED BY <2>1, <3>1
  <2> QED BY ONLY <2>2 DEF ConsentsApproved
<1>2. CodesApproved'
  BY DEF ConsentInv, CodesApproved, CodesGrow
<1> QED BY <1>1, <1>2 DEF ConsentInv

\* Only the grants' own variables in the history are unchanged when it is.
LEMMA HistoryUntouched == UNCHANGED history => UNCHANGED approvals /\ UNCHANGED cutoff /\ UNCHANGED ended
BY DEF history

-----------------------------------------------------------------------------
(* The browser. *)

LEMMA TickStep == GrantsInv /\ Tick => GrantsInv'
<1> SUFFICES ASSUME GrantsInv, Tick PROVE GrantsInv'
  OBVIOUS
<1> USE InvParts, HistoryUntouched, CodesUntouched DEF Tick
<1>1. TypeOK'
  <2>1. TypeOK /\ clock' = clock + 1 /\ clock < MaxClock
    OBVIOUS
  <2>2. clock' \in 0..MaxClock
    <3>1. clock \in 0..MaxClock /\ MaxClock \in Nat
      BY <2>1, GrantsAssumption DEF TypeOK
    <3> QED BY ONLY <2>1, <3>1
  <2>3. UNCHANGED <<clients, sessions, pages, consents, codes, pairs, approvals, cutoff, ended>>
    BY DEF history
  <2> QED BY ONLY <2>1, <2>2, <2>3 DEF TypeOK
<1>2. PairsInv'
  BY PairsUntouched
<1>3. ScreenInv'
  BY ScreensUntouched
<1>4. ConsentInv'
  BY ConsentsUntouched
<1> QED BY <1>1, <1>2, <1>3, <1>4, InvPartsNext

LEMMA RegisterStep == ASSUME GrantsInv, NEW c \in Clients, Register(c) PROVE GrantsInv'
<1> USE InvParts, HistoryUntouched, CodesUntouched DEF Register
<1>1. TypeOK'
  <2>1. PICK uris \in (SUBSET Uris) \ {{}} : uris \subseteq AllowedUris
                                          /\ clients' = [clients EXCEPT ![c] = uris]
    OBVIOUS
  <2>2. clients' \in [Clients -> SUBSET AllowedUris]
    BY <2>1 DEF TypeOK
  <2> QED BY <2>2 DEF TypeOK
<1>2. PairsInv'
  BY PairsUntouched
<1>3. ScreenInv'
  BY ScreensGrow
<1>4. ConsentInv'
  BY ConsentsUntouched
<1> QED BY <1>1, <1>2, <1>3, <1>4, InvPartsNext

LEMMA SilentlyStep ==
  ASSUME GrantsInv, NEW u \in Users, NEW c \in Clients, NEW cookie, NEW challenge \in Challenges,
         NEW uri \in Uris, NEW requested,
         AuthorizeSilently(u, c, cookie, challenge, uri, requested)
  PROVE  GrantsInv'
<1> DEFINE scopes == consents[<<u, c>>].scopes
<1>1. TypeOK /\ PairsInv /\ ScreenInv /\ ConsentInv
  BY InvParts
<1>2. /\ EnsureSession(u, cookie) /\ StoreCode(u, c, challenge, uri, scopes)
      /\ consents[<<u, c>>].state = "live"
      /\ UNCHANGED <<clock, clients, pages, consents, pairs, approvals, cutoff, ended>>
  BY DEF AuthorizeSilently, Covers, history
<1>3. scopes \in SUBSET ScopeNames
  BY <1>1 DEF TypeOK, Grants, Consents
<1> HIDE DEF scopes
<1>4. /\ sessions' \in Seq(Sessions) /\ Len(sessions') <= MaxSessions
      /\ DOMAIN sessions \subseteq DOMAIN sessions'
      /\ \A i \in DOMAIN sessions : sessions'[i] = sessions[i]
  BY <1>1, <1>2, SessionEnsured
<1>5. /\ codes' \in Seq(Codes) /\ Len(codes') <= MaxCodes
      /\ DOMAIN codes \subseteq DOMAIN codes'
      /\ \A i \in DOMAIN codes : codes'[i] = codes[i]
      /\ \A i \in DOMAIN codes' \ DOMAIN codes :
           codes'[i].user = u /\ codes'[i].client = c /\ codes'[i].scopes = scopes
  BY <1>1, <1>2, <1>3, CodeStored
<1>6. CodesGrow
  BY <1>5 DEF CodesGrow
<1>7. TypeOK'
  BY <1>1, <1>2, <1>4, <1>5 DEF TypeOK
<1>8. PairsInv'
  BY <1>1, <1>2, <1>6, PairsUntouched
<1>9. ScreenInv'
  BY <1>1, <1>2, <1>4, ScreensGrow
<1>10. ConsentInv'
  <2>1. \E a \in approvals : a.user = u /\ a.client = c /\ a.scopes = scopes
    BY <1>1, <1>2 DEF ConsentInv, ConsentsApproved, scopes
  <2> QED BY <1>1, <1>2, <1>5, <1>6, <2>1, ConsentsUntouched
<1> QED BY <1>7, <1>8, <1>9, <1>10, InvPartsNext

LEMMA OnScreenStep ==
  ASSUME GrantsInv, NEW u \in Users, NEW c \in Clients, NEW cookie, NEW challenge \in Challenges,
         NEW uri \in Uris, NEW requested,
         AuthorizeOnScreen(u, c, cookie, challenge, uri, requested)
  PROVE  GrantsInv'
<1> DEFINE page == [session |-> SessionFor(u, cookie), client |-> c, challenge |-> challenge]
<1>1. TypeOK /\ PairsInv /\ ScreenInv /\ ConsentInv
  BY InvParts
<1>2. /\ EnsureSession(u, cookie) /\ pages' = pages \cup {page}
      /\ UNCHANGED <<clock, clients, consents, codes, pairs, approvals, cutoff, ended>>
  BY DEF AuthorizeOnScreen, history
<1>3. /\ sessions' \in Seq(Sessions) /\ Len(sessions') <= MaxSessions
      /\ DOMAIN sessions \subseteq DOMAIN sessions'
      /\ \A i \in DOMAIN sessions : sessions'[i] = sessions[i]
      /\ SessionFor(u, cookie) \in DOMAIN sessions'
      /\ DOMAIN sessions' \subseteq 1..MaxSessions
  BY <1>1, <1>2, SessionEnsured
<1>4. page \in Pages /\ page.session \in DOMAIN sessions'
  BY <1>3 DEF Pages
<1> HIDE DEF page
<1>5. CodesGrow
  BY <1>2, CodesUntouched
<1>6. TypeOK'
  BY <1>1, <1>2, <1>3, <1>4 DEF TypeOK
<1>7. PairsInv'
  BY <1>1, <1>2, <1>5, PairsUntouched
<1>8. ScreenInv'
  BY <1>1, <1>2, <1>3, <1>4, ScreensGrow
<1>9. ConsentInv'
  BY <1>1, <1>2, <1>5, ConsentsUntouched
<1> QED BY <1>6, <1>7, <1>8, <1>9, InvPartsNext

LEMMA AuthorizeCutStep ==
  ASSUME GrantsInv, NEW u \in Users, NEW c \in Clients, NEW cookie, NEW uri \in Uris,
         AuthorizeCut(u, c, cookie, uri)
  PROVE  GrantsInv'
<1>1. TypeOK /\ PairsInv /\ ScreenInv /\ ConsentInv
  BY InvParts
<1>2. /\ EnsureSession(u, cookie)
      /\ UNCHANGED <<clock, clients, pages, consents, codes, pairs, approvals, cutoff, ended>>
  BY DEF AuthorizeCut, history
<1>3. /\ sessions' \in Seq(Sessions) /\ Len(sessions') <= MaxSessions
      /\ DOMAIN sessions \subseteq DOMAIN sessions'
      /\ \A i \in DOMAIN sessions : sessions'[i] = sessions[i]
  BY <1>1, <1>2, SessionEnsured
<1>4. CodesGrow
  BY <1>2, CodesUntouched
<1>5. TypeOK'
  BY <1>1, <1>2, <1>3 DEF TypeOK
<1>6. PairsInv'
  BY <1>1, <1>2, <1>4, PairsUntouched
<1>7. ScreenInv'
  BY <1>1, <1>2, <1>3, ScreensGrow
<1>8. ConsentInv'
  BY <1>1, <1>2, <1>4, ConsentsUntouched
<1> QED BY <1>5, <1>6, <1>7, <1>8, InvPartsNext

\* An approval is recorded for a screen this session was shown.
LEMMA ConsentRecorded ==
  ASSUME GrantsInv, NEW u \in Users, NEW c \in Clients, NEW cookie,
         NEW challenge \in Challenges, NEW uri \in Uris, NEW scopes \in SUBSET ScopeNames,
         MayDecide(u, c, cookie, challenge, uri), RecordConsent(u, c, challenge, scopes)
  PROVE  /\ consents' \in [Grants -> Consents] /\ approvals' \subseteq Approvals
         /\ UNCHANGED <<cutoff, ended>>
         /\ UNCHANGED <<sessions, pages>> => ScreenInv'
         /\ CodesGrow
              /\ (\A i \in DOMAIN codes' \ DOMAIN codes :
                    codes'[i].user = u /\ codes'[i].client = c /\ codes'[i].scopes = scopes)
            => ConsentInv'
<1> DEFINE approval == [user |-> u, client |-> c, challenge |-> challenge,
                        scopes |-> scopes, current |-> TRUE]
           consent == [scopes |-> scopes, state |-> "live"]
<1>1. TypeOK /\ ScreenInv /\ ConsentInv
  BY InvParts
<1>2. /\ consents' = [consents EXCEPT ![<<u, c>>] = consent]
      /\ approvals' = approvals \cup {approval}
      /\ UNCHANGED <<cutoff, ended>>
  BY DEF RecordConsent
<1>3. approval \in Approvals /\ consent \in Consents /\ <<u, c>> \in Grants
  BY DEF Approvals, Consents, Grants
<1>4. /\ approval.user = u /\ approval.client = c /\ approval.challenge = challenge
      /\ approval.scopes = scopes /\ approval.current
      /\ consent.scopes = scopes
  OBVIOUS
<1> HIDE DEF approval, consent
<1>5. consents' \in [Grants -> Consents] /\ approvals' \subseteq Approvals
  BY <1>1, <1>2, <1>3 DEF TypeOK
<1>6. ASSUME UNCHANGED <<sessions, pages>> PROVE ScreenInv'
  <2>1. PICK page \in pages : CsrfMatches(page, cookie, c, challenge)
    BY DEF MayDecide
  <2>2. sessions[page.session].user = u /\ page.client = c /\ page.challenge = challenge
    BY <2>1 DEF MayDecide, HasSession, CsrfMatches
  <2>3. PagesHaveSessions'
    BY <1>1, <1>6 DEF ScreenInv, PagesHaveSessions
  <2>4. DecisionFollowsScreen'
    BY <1>1, <1>2, <1>4, <1>6, <2>1, <2>2 DEF ScreenInv, DecisionFollowsScreen
  <2> QED BY <2>3, <2>4 DEF ScreenInv
<1>7. ASSUME CodesGrow,
             \A i \in DOMAIN codes' \ DOMAIN codes :
               codes'[i].user = u /\ codes'[i].client = c /\ codes'[i].scopes = scopes
      PROVE  ConsentInv'
  <2>1. ConsentsApproved'
    <3> SUFFICES ASSUME NEW v \in Users, NEW d \in Clients, consents'[<<v, d>>].state = "live"
                 PROVE  \E a \in approvals' : /\ a.user = v /\ a.client = d
                                              /\ a.scopes = consents'[<<v, d>>].scopes /\ a.current
      BY DEF ConsentsApproved
    <3>1. <<v, d>> \in Grants
      BY DEF Grants
    <3>2. CASE v = u /\ d = c
      <4>1. consents'[<<v, d>>] = consent
        BY <1>1, <1>2, <1>3, <3>2 DEF TypeOK
      <4> QED BY <1>2, <1>4, <3>2, <4>1
    <3>3. CASE ~(v = u /\ d = c)
      <4>1. consents'[<<v, d>>] = consents[<<v, d>>]
        BY <1>1, <1>2, <3>1, <3>3 DEF TypeOK
      <4> QED BY <1>1, <1>2, <4>1 DEF ConsentInv, ConsentsApproved
    <3> QED BY <3>2, <3>3
  <2>2. CodesApproved'
    <3> SUFFICES ASSUME NEW i \in DOMAIN codes'
                 PROVE  \E a \in approvals' : /\ a.user = codes'[i].user
                                              /\ a.client = codes'[i].client
                                              /\ a.scopes = codes'[i].scopes
      BY DEF CodesApproved
    <3>1. CASE i \in DOMAIN codes
      BY <1>1, <1>2, <1>7, <3>1 DEF ConsentInv, CodesApproved, CodesGrow
    <3>2. CASE i \notin DOMAIN codes
      BY <1>2, <1>4, <1>7, <3>2
    <3> QED BY <3>1, <3>2
  <2> QED BY <2>1, <2>2 DEF ConsentInv
<1> QED BY <1>2, <1>5, <1>6, <1>7

LEMMA ApproveStep ==
  ASSUME GrantsInv, NEW u \in Users, NEW c \in Clients, NEW cookie, NEW challenge \in Challenges,
         NEW uri \in Uris, NEW scopes \in SUBSET ScopeNames,
         Approve(u, c, cookie, challenge, uri, scopes)
  PROVE  GrantsInv'
<1>1. TypeOK /\ PairsInv /\ ScreenInv /\ ConsentInv
  BY InvParts
<1>2. /\ MayDecide(u, c, cookie, challenge, uri) /\ RecordConsent(u, c, challenge, scopes)
      /\ StoreCode(u, c, challenge, uri, scopes)
      /\ UNCHANGED <<clock, clients, sessions, pages, pairs>>
  BY DEF Approve
<1>3. /\ codes' \in Seq(Codes) /\ Len(codes') <= MaxCodes
      /\ DOMAIN codes \subseteq DOMAIN codes'
      /\ \A i \in DOMAIN codes : codes'[i] = codes[i]
      /\ \A i \in DOMAIN codes' \ DOMAIN codes :
           codes'[i].user = u /\ codes'[i].client = c /\ codes'[i].scopes = scopes
  BY <1>1, <1>2, CodeStored
<1>4. CodesGrow
  BY <1>3 DEF CodesGrow
<1>5. /\ consents' \in [Grants -> Consents] /\ approvals' \subseteq Approvals
      /\ UNCHANGED <<cutoff, ended>> /\ ScreenInv' /\ ConsentInv'
  <2>1. MayDecide(u, c, cookie, challenge, uri) /\ RecordConsent(u, c, challenge, scopes)
    BY <1>2
  <2>2. UNCHANGED <<sessions, pages>>
    BY <1>2
  <2>3. \A i \in DOMAIN codes' \ DOMAIN codes :
          codes'[i].user = u /\ codes'[i].client = c /\ codes'[i].scopes = scopes
    BY <1>3
  <2> QED BY <1>4, <2>1, <2>2, <2>3, ConsentRecorded
<1>6. TypeOK'
  BY <1>1, <1>2, <1>3, <1>5 DEF TypeOK
<1>7. PairsInv'
  BY <1>1, <1>2, <1>4, <1>5, PairsUntouched
<1> QED BY <1>5, <1>6, <1>7, InvPartsNext

LEMMA ApproveCutStep ==
  ASSUME GrantsInv, NEW u \in Users, NEW c \in Clients, NEW cookie, NEW challenge \in Challenges,
         NEW uri \in Uris, NEW scopes \in SUBSET ScopeNames,
         ApproveCut(u, c, cookie, challenge, uri, scopes)
  PROVE  GrantsInv'
<1>1. TypeOK /\ PairsInv /\ ScreenInv /\ ConsentInv
  BY InvParts
<1>2. /\ MayDecide(u, c, cookie, challenge, uri) /\ RecordConsent(u, c, challenge, scopes)
      /\ UNCHANGED <<clock, clients, sessions, pages, codes, pairs>>
  BY DEF ApproveCut
<1>3. CodesGrow
  BY <1>2, CodesUntouched
<1>4. /\ consents' \in [Grants -> Consents] /\ approvals' \subseteq Approvals
      /\ UNCHANGED <<cutoff, ended>> /\ ScreenInv' /\ ConsentInv'
  BY <1>2, <1>3, ConsentRecorded
<1>5. TypeOK'
  BY <1>1, <1>2, <1>4 DEF TypeOK
<1>6. PairsInv'
  BY <1>1, <1>2, <1>3, <1>4, PairsUntouched
<1> QED BY <1>4, <1>5, <1>6, InvPartsNext

-----------------------------------------------------------------------------
(* Revocation. *)

\* Whole families are revoked, or not touched.
RevokesFamilies(dead) ==
  \A i \in DOMAIN pairs :
    pairs'[i] = IF pairs[i].family \in dead THEN Revoked(pairs[i]) ELSE pairs[i]

LEMMA RevokedPair ==
  ASSUME NEW pair \in Pairs
  PROVE  /\ Revoked(pair) \in Pairs
         /\ Revoked(pair).access = "revoked" /\ Revoked(pair).refresh = "revoked"
         /\ Revoked(pair).family = pair.family /\ Revoked(pair).user = pair.user
         /\ Revoked(pair).client = pair.client /\ Revoked(pair).code = pair.code
         /\ Revoked(pair).scopes = pair.scopes
BY DEF Revoked, Pairs

\* If what is revoked is what counts as dead from then on, the pairs stay as
\* they should be.
LEMMA FamiliesRevoked ==
  ASSUME TypeOK, PairsInv, NEW dead, UNCHANGED codes,
         DOMAIN pairs' = DOMAIN pairs, pairs' = [i \in DOMAIN pairs |-> pairs'[i]],
         RevokesFamilies(dead), HistoryIsPast',
         \A f \in Families : Dead(f)' <=> (Dead(f) \/ f \in dead)
  PROVE  PairsInv' /\ pairs' \in Seq(Pairs) /\ Len(pairs') = Len(pairs)
<1>1. \A i \in DOMAIN pairs : pairs[i] \in Pairs
  BY ElementOfSeq, LenProperties DEF TypeOK
<1>2. \A i \in DOMAIN pairs :
        /\ pairs'[i] \in Pairs
        /\ pairs'[i].family = pairs[i].family /\ pairs'[i].user = pairs[i].user
        /\ pairs'[i].client = pairs[i].client /\ pairs'[i].code = pairs[i].code
        /\ pairs'[i].scopes = pairs[i].scopes
        /\ pairs[i].family \in dead => pairs'[i].access = "revoked" /\ pairs'[i].refresh = "revoked"
        /\ pairs[i].family \notin dead => pairs'[i] = pairs[i]
  BY <1>1, RevokedPair DEF RevokesFamilies
<1>3. pairs' \in Seq(Pairs) /\ Len(pairs') = Len(pairs)
  BY <1>2, Rewritten DEF TypeOK
<1>4. Lineage'
  BY <1>2 DEF PairsInv, Lineage
<1>5. CodesExist'
  BY <1>2 DEF PairsInv, CodesExist
<1>6. TokensTraceToCodes'
  BY <1>2 DEF PairsInv, TokensTraceToCodes
<1>7. Families' = Families /\ \A f : Members(f)' = Members(f)
  BY <1>2 DEF Families, Members
<1>8. DeadFamiliesStayDead'
  <2> SUFFICES ASSUME NEW f \in Families, Dead(f)', NEW i \in Members(f)
               PROVE  pairs'[i].access = "revoked" /\ pairs'[i].refresh = "revoked"
    BY <1>7 DEF DeadFamiliesStayDead
  <2>1. i \in DOMAIN pairs /\ pairs[i].family = f
    BY DEF Members
  <2>2. CASE f \in dead
    BY <1>2, <2>1, <2>2
  <2>3. CASE f \notin dead
    <3>1. Dead(f)
      BY <2>3
    <3> QED BY <1>2, <2>1, <2>3, <3>1 DEF PairsInv, DeadFamiliesStayDead
  <2> QED BY <2>2, <2>3
<1>9. LiveFamiliesHaveOneHeir'
  <2> SUFFICES ASSUME NEW f \in Families, ~Dead(f)', NEW i \in Members(f)
               PROVE  pairs'[i].refresh = "live" <=> \A j \in Members(f) : j <= i
    BY <1>7 DEF LiveFamiliesHaveOneHeir
  <2>1. i \in DOMAIN pairs /\ pairs[i].family = f /\ f \notin dead /\ ~Dead(f)
    BY DEF Members
  <2>2. pairs'[i] = pairs[i]
    BY <1>2, <2>1
  <2> QED BY <2>1, <2>2 DEF PairsInv, LiveFamiliesHaveOneHeir
<1> QED BY <1>3, <1>4, <1>5, <1>6, <1>8, <1>9 DEF PairsInv

LEMMA RevokeStep ==
  ASSUME GrantsInv, NEW u \in Users, NEW c \in Clients, NEW cookie, RevokeConsent(u, c, cookie)
  PROVE  GrantsInv'
<1> DEFINE dead == {f \in DOMAIN pairs : pairs[f].user = u /\ pairs[f].client = c}
           Past(a) == IF a.user = u /\ a.client = c THEN [a EXCEPT !.current = FALSE] ELSE a
<1>1. TypeOK /\ PairsInv /\ ScreenInv /\ ConsentInv
  BY InvParts
<1>2. /\ consents' = [consents EXCEPT ![<<u, c>>].state = IF @ = "none" THEN @ ELSE "revoked"]
      /\ RevokeAll(u, c)
      /\ cutoff' = [cutoff EXCEPT ![<<u, c>>] = Len(pairs)]
      /\ approvals' = {Past(a) : a \in approvals}
      /\ UNCHANGED <<clock, clients, sessions, pages, codes, ended>>
  BY DEF RevokeConsent
<1>3. /\ Len(pairs) \in Nat /\ DOMAIN pairs = 1..Len(pairs) /\ Len(pairs) <= MaxPairs
      /\ MaxPairs \in Nat
      /\ cutoff \in [Grants -> 0..MaxPairs] /\ <<u, c>> \in Grants
      /\ \A i \in DOMAIN pairs : pairs[i] \in Pairs
  BY <1>1, LenProperties, ElementOfSeq, GrantsAssumption DEF TypeOK, Grants
<1>4. /\ DOMAIN pairs' = DOMAIN pairs /\ pairs' = [i \in DOMAIN pairs |-> pairs'[i]]
      /\ \A i \in DOMAIN pairs :
           pairs'[i] = IF pairs[i].user = u /\ pairs[i].client = c THEN Revoked(pairs[i]) ELSE pairs[i]
  BY <1>2 DEF RevokeAll
<1>5. \A i \in DOMAIN pairs : pairs[i].family \in dead <=> pairs[i].user = u /\ pairs[i].client = c
  BY <1>1 DEF PairsInv, Lineage
<1>6. RevokesFamilies(dead)
  BY <1>4, <1>5 DEF RevokesFamilies
<1>7. \A i \in DOMAIN pairs : pairs'[i].user = pairs[i].user /\ pairs'[i].client = pairs[i].client
  BY <1>3, <1>4, RevokedPair
<1>8. \A g \in Grants : cutoff'[g] = IF g = <<u, c>> THEN Len(pairs) ELSE cutoff[g]
  BY <1>2, <1>3
<1>9. cutoff' \in [Grants -> 0..MaxPairs]
  BY <1>2, <1>3
<1>10. \A f \in Families : Dead(f)' <=> (Dead(f) \/ f \in dead)
  <2> SUFFICES ASSUME NEW f \in Families PROVE Dead(f)' <=> (Dead(f) \/ f \in dead)
    OBVIOUS
  <2>1. f \in DOMAIN pairs /\ f <= Len(pairs)
    BY <1>1, <1>3 DEF Families, PairsInv, Lineage
  <2> DEFINE g == <<pairs[f].user, pairs[f].client>>
  <2>2. g \in Grants
    BY <1>3, <2>1 DEF Pairs, Grants
  <2>3. Dead(f)' <=> f \in ended \/ f <= cutoff'[g]
    BY <1>2, <1>7, <2>1 DEF Dead
  <2>4. Dead(f) <=> f \in ended \/ f <= cutoff[g]
    BY DEF Dead
  <2>5. f \in dead <=> g = <<u, c>>
    BY <2>1
  <2> QED BY <1>8, <2>1, <2>2, <2>3, <2>4, <2>5
<1> HIDE DEF dead
<1>11. Len(pairs') = Len(pairs) /\ pairs' \in Seq(Pairs)
  <2>1. \A i \in DOMAIN pairs : pairs'[i] \in Pairs
    BY <1>3, <1>4, RevokedPair
  <2> QED BY <1>1, <1>4, <2>1, Rewritten DEF TypeOK
<1>12. HistoryIsPast'
  <2>1. \A g \in Grants : cutoff'[g] <= Len(pairs')
    BY <1>1, <1>3, <1>8, <1>11 DEF PairsInv, HistoryIsPast
  <2> QED BY <1>1, <1>2, <1>4, <2>1 DEF PairsInv, HistoryIsPast
<1>13. PairsInv'
  BY <1>1, <1>2, <1>4, <1>6, <1>10, <1>12, FamiliesRevoked
<1>14. /\ consents' \in [Grants -> Consents]
       /\ consents'[<<u, c>>].state # "live"
       /\ \A g \in Grants : g # <<u, c>> => consents'[g] = consents[g]
  BY <1>1, <1>2, <1>3 DEF TypeOK, Consents
<1>15. \A a \in approvals :
         /\ Past(a) \in Approvals /\ Past(a) \in approvals'
         /\ Past(a).user = a.user /\ Past(a).client = a.client
         /\ Past(a).challenge = a.challenge /\ Past(a).scopes = a.scopes
         /\ ~(a.user = u /\ a.client = c) => Past(a) = a
  BY <1>1, <1>2 DEF TypeOK, Approvals
<1>16. \A b \in approvals' : \E a \in approvals : b = Past(a)
  BY <1>2
<1> HIDE DEF Past
<1>17. ScreenInv'
  <2>1. PagesHaveSessions'
    BY <1>1, <1>2 DEF ScreenInv, PagesHaveSessions
  <2>2. DecisionFollowsScreen'
    BY <1>1, <1>2, <1>15, <1>16 DEF ScreenInv, DecisionFollowsScreen
  <2> QED BY <2>1, <2>2 DEF ScreenInv
<1>18. ConsentInv'
  <2>1. ConsentsApproved'
    <3> SUFFICES ASSUME NEW v \in Users, NEW d \in Clients, consents'[<<v, d>>].state = "live"
                 PROVE  \E a \in approvals' : /\ a.user = v /\ a.client = d
                                              /\ a.scopes = consents'[<<v, d>>].scopes /\ a.current
      BY DEF ConsentsApproved
    <3>1. <<v, d>> \in Grants /\ <<v, d>> # <<u, c>>
      BY <1>14 DEF Grants
    <3>2. PICK a \in approvals : /\ a.user = v /\ a.client = d
                                 /\ a.scopes = consents[<<v, d>>].scopes /\ a.current
      BY <1>1, <1>14, <3>1 DEF ConsentInv, ConsentsApproved
    <3>3. a \in approvals'
      BY <1>15, <3>1, <3>2
    <3> QED BY <1>14, <3>1, <3>2, <3>3
  <2>2. CodesApproved'
    BY <1>1, <1>2, <1>15 DEF ConsentInv, CodesApproved
  <2> QED BY <2>1, <2>2 DEF ConsentInv
<1>19. TypeOK'
  BY <1>1, <1>2, <1>9, <1>11, <1>14, <1>15, <1>16 DEF TypeOK
<1> QED BY <1>13, <1>17, <1>18, <1>19, InvPartsNext

LEMMA DetectReuseStep ==
  ASSUME GrantsInv, NEW i \in DOMAIN pairs, DetectReuse(i) PROVE GrantsInv'
<1> DEFINE dead == {pairs[i].family}
<1>1. TypeOK /\ PairsInv /\ ScreenInv /\ ConsentInv
  BY InvParts
<1>2. /\ pairs' = [j \in DOMAIN pairs |->
                     IF pairs[j].family = pairs[i].family THEN Revoked(pairs[j]) ELSE pairs[j]]
      /\ ended' = ended \cup dead
      /\ UNCHANGED <<clock, clients, sessions, pages, consents, codes, approvals, cutoff>>
  BY DEF DetectReuse
<1>3. \A j \in DOMAIN pairs : pairs[j] \in Pairs
  BY <1>1, LenProperties, ElementOfSeq DEF TypeOK
<1>4. DOMAIN pairs' = DOMAIN pairs /\ pairs' = [j \in DOMAIN pairs |-> pairs'[j]]
  BY <1>2
<1>5. RevokesFamilies(dead)
  BY <1>2 DEF RevokesFamilies
<1>6. \A j \in DOMAIN pairs : /\ pairs'[j] \in Pairs
                              /\ pairs'[j].user = pairs[j].user
                              /\ pairs'[j].client = pairs[j].client
  BY <1>2, <1>3, RevokedPair
<1>7. Len(pairs') = Len(pairs) /\ pairs' \in Seq(Pairs)
  BY <1>1, <1>4, <1>6, Rewritten DEF TypeOK
<1>8. dead \subseteq DOMAIN pairs
  BY <1>1 DEF PairsInv, Lineage
<1>9. HistoryIsPast'
  BY <1>1, <1>2, <1>4, <1>7, <1>8 DEF PairsInv, HistoryIsPast
<1>10. \A f \in Families : Dead(f)' <=> (Dead(f) \/ f \in dead)
  <2>1. \A f \in Families : f \in DOMAIN pairs
    BY <1>1 DEF Families, PairsInv, Lineage
  <2> QED BY <1>2, <1>6, <2>1 DEF Dead
<1>11. ended' \subseteq 1..MaxPairs
  <2>1. DOMAIN pairs \subseteq 1..MaxPairs
    BY <1>1, LenProperties, GrantsAssumption DEF TypeOK
  <2> QED BY <1>1, <1>2, <1>8, <2>1 DEF TypeOK
<1> HIDE DEF dead
<1>12. PairsInv'
  BY <1>1, <1>2, <1>4, <1>5, <1>9, <1>10, FamiliesRevoked
<1>13. ScreenInv'
  BY <1>1, <1>2, ScreensGrow
<1>14. ConsentInv'
  BY <1>1, <1>2, CodesUntouched, ConsentsUntouched
<1>15. TypeOK'
  BY <1>1, <1>2, <1>7, <1>11 DEF TypeOK
<1> QED BY <1>12, <1>13, <1>14, <1>15, InvPartsNext

-----------------------------------------------------------------------------
(* The token endpoint. *)

\* Two pairs that differ at most in what is revoked.
SamePair(a, b) ==
  /\ a.user = b.user /\ a.client = b.client /\ a.family = b.family
  /\ a.code = b.code /\ a.scopes = b.scopes

\* A pair is issued, to a lineage there is or as the first of its own.
LEMMA PairAdded ==
  ASSUME TypeOK, PairsInv, NEW before \in Seq(Pairs), NEW new \in Pairs,
         NEW n, n = Len(pairs) + 1,
         Len(before) = Len(pairs), \A j \in DOMAIN pairs : SamePair(before[j], pairs[j]),
         pairs' = Append(before, new), Len(pairs) < MaxPairs, UNCHANGED <<cutoff, ended>>,
         CodesGrow, new.code \in DOMAIN codes, codes'[new.code].used,
         codes[new.code].user = new.user, codes[new.code].client = new.client,
         codes[new.code].scopes = new.scopes,
         \/ /\ new.family = n
            /\ \A j \in DOMAIN pairs : pairs[j].code # new.code
         \/ \E i \in DOMAIN pairs : SamePair(new, pairs[i])
  PROVE  /\ pairs' \in Seq(Pairs) /\ Len(pairs') <= MaxPairs
         /\ Lineage' /\ HistoryIsPast' /\ CodesExist' /\ TokensTraceToCodes'
         /\ DOMAIN pairs' = DOMAIN pairs \cup {n}
         /\ \A j \in DOMAIN pairs : pairs'[j] = before[j]
         /\ pairs'[n] = new
         /\ \A j \in DOMAIN pairs : j < n /\ n # j
         /\ \A f \in Families : Dead(f)' <=> Dead(f)
         /\ new.family = n => ~Dead(new.family)'
<1>1. /\ Len(pairs) \in Nat /\ DOMAIN pairs = 1..Len(pairs) /\ DOMAIN before = DOMAIN pairs
      /\ MaxPairs \in Nat
  BY LenProperties, GrantsAssumption DEF TypeOK
<1>2. /\ pairs' \in Seq(Pairs) /\ Len(pairs') = n /\ DOMAIN pairs' = 1..n
      /\ \A j \in DOMAIN pairs : pairs'[j] = before[j]
      /\ pairs'[n] = new
  BY <1>1, Appended
<1>3. DOMAIN pairs' = DOMAIN pairs \cup {n} /\ \A j \in DOMAIN pairs : j < n /\ n # j
  BY <1>1, <1>2
<1>4. Len(pairs') <= MaxPairs /\ n \in Nat
  BY <1>1, <1>2
<1>5. \A j \in DOMAIN pairs : SamePair(pairs'[j], pairs[j])
  BY <1>2
<1>6. \A j \in DOMAIN pairs : pairs[j].family \in DOMAIN pairs
  BY DEF PairsInv, Lineage
<1>7. Lineage'
  <2> SUFFICES ASSUME NEW j \in DOMAIN pairs'
               PROVE  /\ pairs'[j].family \in DOMAIN pairs' /\ pairs'[j].family <= j
                      /\ pairs'[pairs'[j].family].family = pairs'[j].family
                      /\ pairs'[pairs'[j].family].user = pairs'[j].user
                      /\ pairs'[pairs'[j].family].client = pairs'[j].client
    BY DEF Lineage
  <2>1. CASE j \in DOMAIN pairs
    BY <1>3, <1>5, <1>6, <2>1 DEF PairsInv, Lineage, SamePair
  <2>2. CASE j = n /\ new.family = n
    BY <1>2, <1>3, <1>4, <2>2
  <2>3. CASE j = n /\ \E i \in DOMAIN pairs : SamePair(new, pairs[i])
    <3>1. PICK i \in DOMAIN pairs : SamePair(new, pairs[i])
      BY <2>3
    <3>2. /\ pairs[i].family \in DOMAIN pairs /\ pairs[pairs[i].family].family = pairs[i].family
          /\ pairs[pairs[i].family].user = pairs[i].user
          /\ pairs[pairs[i].family].client = pairs[i].client
      BY DEF PairsInv, Lineage
    <3>3. pairs[i].family < n /\ pairs[i].family \in Nat
      BY <1>1, <1>3, <3>2
    <3> QED BY <1>2, <1>3, <1>4, <1>5, <2>3, <3>1, <3>2, <3>3 DEF SamePair
  <2> QED BY <1>3, <2>1, <2>2, <2>3
<1>8. HistoryIsPast'
  <2>1. \A g \in Grants : cutoff'[g] <= Len(pairs')
    <3>1. \A g \in Grants : cutoff[g] <= Len(pairs) /\ cutoff[g] \in 0..MaxPairs
      BY DEF PairsInv, HistoryIsPast, TypeOK
    <3> QED BY <1>1, <1>2, <3>1
  <2> QED BY <1>3, <2>1 DEF PairsInv, HistoryIsPast
<1>9. CodesExist'
  BY <1>2, <1>3, <1>5 DEF PairsInv, CodesExist, CodesGrow, SamePair
<1>10. TokensTraceToCodes'
  <2>1. \A j \in DOMAIN pairs' :
          /\ codes'[pairs'[j].code].used
          /\ codes'[pairs'[j].code].user = pairs'[j].user
          /\ codes'[pairs'[j].code].client = pairs'[j].client
          /\ codes'[pairs'[j].code].scopes = pairs'[j].scopes
    BY <1>2, <1>3, <1>5 DEF PairsInv, CodesExist, CodesGrow, SamePair, TokensTraceToCodes
  <2>2. \A j, k \in DOMAIN pairs : pairs[j].code = pairs[k].code => pairs[j].family = pairs[k].family
    BY DEF PairsInv, TokensTraceToCodes
  <2>3. ASSUME NEW k \in DOMAIN pairs, pairs[k].code = new.code
        PROVE  pairs[k].family = new.family
    BY <2>2, <2>3 DEF SamePair
  <2>4. \A j, k \in DOMAIN pairs' :
          pairs'[j].code = pairs'[k].code => pairs'[j].family = pairs'[k].family
    BY <1>2, <1>3, <1>5, <2>2, <2>3 DEF SamePair
  <2> QED BY <2>1, <2>4 DEF TokensTraceToCodes
<1>11. \A f \in Families : Dead(f)' <=> Dead(f)
  <2>1. \A f \in Families : f \in DOMAIN pairs
    BY <1>6 DEF Families
  <2> QED BY <1>5, <2>1 DEF Dead, SamePair
<1>12. ASSUME new.family = n PROVE ~Dead(new.family)'
  <2>1. n \notin ended
    BY <1>3 DEF PairsInv, HistoryIsPast
  <2> DEFINE g == <<new.user, new.client>>
  <2>2. cutoff[g] \in 0..MaxPairs /\ cutoff[g] <= Len(pairs)
    BY DEF TypeOK, PairsInv, HistoryIsPast, Pairs, Grants
  <2>3. ~(n <= cutoff[g])
    BY <1>1, <2>2
  <2> QED BY <1>2, <1>12, <2>1, <2>3 DEF Dead
<1> QED BY <1>2, <1>3, <1>4, <1>7, <1>8, <1>9, <1>10, <1>11, <1>12

\* A code that was spent.
LEMMA CodeSpent ==
  ASSUME TypeOK, NEW i \in DOMAIN codes, Spend(i)
  PROVE  /\ codes' \in Seq(Codes) /\ Len(codes') = Len(codes) /\ DOMAIN codes' = DOMAIN codes
         /\ CodesGrow /\ codes'[i].used
<1>1. /\ DOMAIN codes' = DOMAIN codes
      /\ codes' = [j \in DOMAIN codes |-> codes'[j]]
      /\ \A j \in DOMAIN codes : codes'[j] = IF j = i THEN [codes[i] EXCEPT !.used = TRUE] ELSE codes[j]
  BY DEF Spend
<1>2. \A j \in DOMAIN codes : codes[j] \in Codes
  BY LenProperties, ElementOfSeq DEF TypeOK
<1>3. [codes[i] EXCEPT !.used = TRUE] \in Codes
  BY <1>2 DEF Codes
<1>4. /\ codes'[i].used
      /\ \A j \in DOMAIN codes :
           /\ codes'[j] \in Codes
           /\ codes'[j].user = codes[j].user /\ codes'[j].client = codes[j].client
           /\ codes'[j].scopes = codes[j].scopes /\ (codes[j].used => codes'[j].used)
  <2>1. \A j \in DOMAIN codes : j # i => codes'[j] = codes[j]
    BY <1>1
  <2>2. codes'[i] = [codes[i] EXCEPT !.used = TRUE] /\ codes[i] \in Codes
    BY <1>1, <1>2
  <2>3. /\ codes'[i].used /\ codes'[i] \in Codes
        /\ codes'[i].user = codes[i].user /\ codes'[i].client = codes[i].client
        /\ codes'[i].scopes = codes[i].scopes
    BY <1>3, <2>2 DEF Codes
  <2> QED BY <1>2, <2>1, <2>3
<1>5. codes' \in Seq(Codes) /\ Len(codes') = Len(codes)
  <2>1. codes \in Seq(Codes) /\ \A j \in DOMAIN codes : codes'[j] \in Codes
    BY <1>4 DEF TypeOK
  <2> QED BY ONLY <1>1, <2>1, Rewritten
<1>6. CodesGrow
  BY ONLY <1>1, <1>4 DEF CodesGrow
<1> QED BY ONLY <1>1, <1>4, <1>5, <1>6

LEMMA ExchangeCutStep ==
  ASSUME GrantsInv, NEW i \in DOMAIN codes, NEW c \in Clients, NEW verifier, NEW uri,
         ExchangeCut(i, c, verifier, uri)
  PROVE  GrantsInv'
<1>1. TypeOK /\ PairsInv /\ ScreenInv /\ ConsentInv
  BY InvParts
<1>2. /\ Spend(i)
      /\ UNCHANGED <<clock, clients, sessions, pages, consents, pairs, approvals, cutoff, ended>>
  BY DEF ExchangeCut, history
<1>3. /\ codes' \in Seq(Codes) /\ Len(codes') = Len(codes) /\ DOMAIN codes' = DOMAIN codes
      /\ CodesGrow
  BY <1>1, <1>2, CodeSpent
<1>4. TypeOK'
  BY <1>1, <1>2, <1>3 DEF TypeOK
<1>5. PairsInv'
  BY <1>1, <1>2, <1>3, PairsUntouched
<1>6. ScreenInv'
  BY <1>1, <1>2, ScreensGrow
<1>7. ConsentInv'
  BY <1>1, <1>2, <1>3, ConsentsUntouched
<1> QED BY <1>4, <1>5, <1>6, <1>7, InvPartsNext

LEMMA ExchangeStep ==
  ASSUME GrantsInv, NEW i \in DOMAIN codes, NEW c \in Clients, NEW verifier, NEW uri,
         Exchange(i, c, verifier, uri)
  PROVE  GrantsInv'
<1>1. TypeOK /\ PairsInv /\ ScreenInv /\ ConsentInv
  BY InvParts
<1> PICK n : n = Len(pairs) + 1
  OBVIOUS
<1>2. /\ Spend(i) /\ ~codes[i].used /\ codes[i].client = c
      /\ Len(pairs) < MaxPairs
      /\ pairs' = Append(pairs, [user |-> codes[i].user, client |-> c, family |-> n,
                                 scopes |-> codes[i].scopes, since |-> clock, code |-> i,
                                 access |-> "live", refresh |-> "live"])
      /\ UNCHANGED <<clock, clients, sessions, pages, consents, approvals, cutoff, ended>>
  BY DEF Exchange, Accepts, IssuePair, history
<1>3. /\ codes' \in Seq(Codes) /\ Len(codes') = Len(codes) /\ DOMAIN codes' = DOMAIN codes
      /\ CodesGrow /\ codes'[i].used
  BY <1>1, <1>2, CodeSpent
<1>4. PICK new \in Pairs :
        /\ pairs' = Append(pairs, new)
        /\ new.user = codes[i].user /\ new.client = codes[i].client /\ new.code = i
        /\ new.scopes = codes[i].scopes /\ new.family = n /\ new.refresh = "live"
  <2> DEFINE p == [user |-> codes[i].user, client |-> c, family |-> n,
                   scopes |-> codes[i].scopes, since |-> clock, code |-> i,
                   access |-> "live", refresh |-> "live"]
  <2>1. codes[i] \in Codes
    BY <1>1, LenProperties, ElementOfSeq DEF TypeOK
  <2>2. i \in 1..MaxCodes /\ n \in 1..MaxPairs
    <3>1. /\ codes \in Seq(Codes) /\ Len(codes) <= MaxCodes /\ MaxCodes \in Nat
          /\ pairs \in Seq(Pairs) /\ MaxPairs \in Nat
      BY <1>1, GrantsAssumption DEF TypeOK
    <3>2. /\ DOMAIN codes = 1..Len(codes) /\ Len(codes) \in Nat
          /\ DOMAIN pairs = 1..Len(pairs) /\ Len(pairs) \in Nat
      BY ONLY <3>1, LenProperties
    <3> QED BY <1>1, <1>2, <3>1, <3>2
  <2>3. p \in Pairs
    BY <1>1, <2>1, <2>2 DEF TypeOK, Codes, Pairs
  <2> QED BY <1>2, <2>3
<1>5. n \in Nat /\ \A j \in DOMAIN pairs : j \in Nat /\ pairs[j].family \in DOMAIN pairs
  <2>1. pairs \in Seq(Pairs) /\ \A j \in DOMAIN pairs : pairs[j].family \in DOMAIN pairs
    BY <1>1 DEF TypeOK, PairsInv, Lineage
  <2>2. DOMAIN pairs = 1..Len(pairs) /\ Len(pairs) \in Nat
    BY ONLY <2>1, LenProperties
  <2> QED BY <2>1, <2>2
<1>6. \A j \in DOMAIN pairs : pairs[j].code # i
  BY <1>1, <1>2 DEF PairsInv, TokensTraceToCodes
<1>7. /\ pairs' \in Seq(Pairs) /\ Len(pairs') <= MaxPairs
      /\ Lineage' /\ HistoryIsPast' /\ CodesExist' /\ TokensTraceToCodes'
      /\ DOMAIN pairs' = DOMAIN pairs \cup {n}
      /\ \A j \in DOMAIN pairs : pairs'[j] = pairs[j]
      /\ pairs'[n] = new
      /\ \A j \in DOMAIN pairs : j < n /\ n # j
      /\ \A f \in Families : Dead(f)' <=> Dead(f)
      /\ ~Dead(n)'
  <2>1. pairs \in Seq(Pairs) /\ \A j \in DOMAIN pairs : SamePair(pairs[j], pairs[j])
    BY <1>1 DEF TypeOK, SamePair
  <2>2. /\ new.code \in DOMAIN codes /\ codes'[new.code].used
        /\ codes[new.code].user = new.user /\ codes[new.code].client = new.client
        /\ codes[new.code].scopes = new.scopes
    BY <1>3, <1>4
  <2>3. new.family = n /\ \A j \in DOMAIN pairs : pairs[j].code # new.code
    BY <1>4, <1>6
  <2>4. UNCHANGED <<cutoff, ended>> /\ pairs' = Append(pairs, new) /\ Len(pairs) < MaxPairs
    BY <1>2, <1>4
  <2> QED BY <1>1, <1>3, <2>1, <2>2, <2>3, <2>4, PairAdded
<1>8. \A f \in Families : f # n
  BY <1>5, <1>7 DEF Families
<1>9. Families' = Families \cup {n}
  BY <1>4, <1>7 DEF Families
<1>10. \A f \in Families : Members(f)' = Members(f)
  BY <1>4, <1>7, <1>8 DEF Members
<1>11. Members(n)' = {n}
  BY <1>4, <1>5, <1>7 DEF Members
<1>12. ASSUME NEW f \in Families, NEW j \in Members(f)
       PROVE  j \in DOMAIN pairs /\ pairs'[j] = pairs[j]
  BY <1>7 DEF Members
<1>13. DeadFamiliesStayDead'
  <2> SUFFICES ASSUME NEW f \in Families', Dead(f)', NEW j \in Members(f)'
               PROVE  pairs'[j].access = "revoked" /\ pairs'[j].refresh = "revoked"
    BY DEF DeadFamiliesStayDead
  <2>1. f \in Families /\ Dead(f) /\ j \in Members(f)
    BY <1>7, <1>9, <1>10
  <2> QED BY <1>1, <1>12, <2>1 DEF PairsInv, DeadFamiliesStayDead
<1>14. LiveFamiliesHaveOneHeir'
  <2> SUFFICES ASSUME NEW f \in Families', ~Dead(f)', NEW j \in Members(f)'
               PROVE  pairs'[j].refresh = "live" <=> \A k \in Members(f)' : k <= j
    BY DEF LiveFamiliesHaveOneHeir
  <2>1. CASE f \in Families
    <3>1. ~Dead(f) /\ j \in Members(f) /\ Members(f)' = Members(f)
      BY <1>7, <1>10, <2>1
    <3> QED BY <1>1, <1>12, <2>1, <3>1 DEF PairsInv, LiveFamiliesHaveOneHeir
  <2>2. CASE f = n
    BY <1>4, <1>5, <1>7, <1>11, <2>2
  <2> QED BY <1>9, <2>1, <2>2
<1>15. PairsInv'
  BY <1>7, <1>13, <1>14 DEF PairsInv
<1>16. ScreenInv'
  BY <1>1, <1>2, ScreensGrow
<1>17. ConsentInv'
  BY <1>1, <1>2, <1>3, ConsentsUntouched
<1>18. TypeOK'
  BY <1>1, <1>2, <1>3, <1>7 DEF TypeOK
<1> QED BY <1>15, <1>16, <1>17, <1>18, InvPartsNext

LEMMA RotateStep ==
  ASSUME GrantsInv, NEW i \in DOMAIN pairs, Rotate(i) PROVE GrantsInv'
<1> PICK f, n : f = pairs[i].family /\ n = Len(pairs) + 1
  OBVIOUS
<1> PICK before : before = RetireRefresh(i)
  OBVIOUS
<1>1. TypeOK /\ PairsInv /\ ScreenInv /\ ConsentInv
  BY InvParts
<1>2. /\ pairs[i].refresh = "live" /\ Len(pairs) < MaxPairs
      /\ pairs' = Append(before, [user |-> pairs[i].user, client |-> pairs[i].client,
                                  family |-> f, scopes |-> pairs[i].scopes, since |-> clock,
                                  code |-> pairs[i].code, access |-> "live", refresh |-> "live"])
      /\ UNCHANGED <<clock, clients, sessions, pages, consents, codes, approvals, cutoff, ended>>
  BY DEF Rotate, IssuePair, history
<1>3. \A j \in DOMAIN pairs : pairs[j] \in Pairs
  BY <1>1, LenProperties, ElementOfSeq DEF TypeOK
<1>4. PICK new \in Pairs : /\ pairs' = Append(before, new)
                           /\ new.family = f /\ SamePair(new, pairs[i]) /\ new.refresh = "live"
  <2> DEFINE p == [user |-> pairs[i].user, client |-> pairs[i].client,
                   family |-> f, scopes |-> pairs[i].scopes, since |-> clock,
                   code |-> pairs[i].code, access |-> "live", refresh |-> "live"]
  <2>1. p \in Pairs /\ p.family = f /\ SamePair(p, pairs[i]) /\ p.refresh = "live"
    BY <1>1, <1>3 DEF TypeOK, Pairs, SamePair
  <2> QED BY <1>2, <2>1
<1>5. /\ before[i].refresh = "revoked" /\ DOMAIN before = DOMAIN pairs
      /\ \A j \in DOMAIN pairs : j # i => before[j] = pairs[j]
      /\ \A j \in DOMAIN pairs : before[j] \in Pairs /\ SamePair(before[j], pairs[j])
      /\ before = [j \in DOMAIN pairs |-> before[j]]
  BY <1>3 DEF RetireRefresh, Pairs, SamePair
<1>6. before \in Seq(Pairs) /\ Len(before) = Len(pairs)
  <2>1. pairs \in Seq(Pairs)
    BY <1>1 DEF TypeOK
  <2>2. DOMAIN before = DOMAIN pairs /\ before = [j \in DOMAIN pairs |-> before[j]]
    BY <1>5
  <2>3. \A j \in DOMAIN pairs : before[j] \in Pairs
    BY <1>5
  <2> QED BY <2>1, <2>2, <2>3, Rewritten
<1>7. /\ new.code \in DOMAIN codes /\ codes[new.code].used
      /\ codes[new.code].user = new.user /\ codes[new.code].client = new.client
      /\ codes[new.code].scopes = new.scopes
  BY <1>1, <1>4 DEF PairsInv, CodesExist, TokensTraceToCodes, SamePair
<1>8. CodesGrow /\ codes'[new.code].used
  BY <1>2, <1>7, CodesUntouched
<1>9. /\ pairs' \in Seq(Pairs) /\ Len(pairs') <= MaxPairs
      /\ Lineage' /\ HistoryIsPast' /\ CodesExist' /\ TokensTraceToCodes'
      /\ DOMAIN pairs' = DOMAIN pairs \cup {n}
      /\ \A j \in DOMAIN pairs : pairs'[j] = before[j]
      /\ pairs'[n] = new
      /\ \A j \in DOMAIN pairs : j < n /\ n # j
      /\ \A h \in Families : Dead(h)' <=> Dead(h)
  BY <1>1, <1>2, <1>4, <1>5, <1>6, <1>7, <1>8, PairAdded
<1>10. n \in Nat /\ \A j \in DOMAIN pairs : j \in Nat
  BY <1>1, LenProperties DEF TypeOK
<1>11. f \in Families /\ i \in Members(f)
  BY DEF Families, Members
<1>12. ~Dead(f)
  BY <1>1, <1>2, <1>11 DEF PairsInv, DeadFamiliesStayDead
<1>13. \A j \in Members(f) : j <= i /\ (j # i => pairs[j].refresh # "live")
  <2>1. \A j \in Members(f) : pairs[j].refresh = "live" <=> \A k \in Members(f) : k <= j
    BY <1>1, <1>11, <1>12 DEF PairsInv, LiveFamiliesHaveOneHeir
  <2>2. \A j \in Members(f) : j <= i
    BY <1>2, <1>11, <2>1
  <2>3. ASSUME NEW j \in Members(f), pairs[j].refresh = "live" PROVE j = i
    <3>1. i <= j /\ j <= i
      BY <1>11, <2>1, <2>2, <2>3
    <3>2. j \in Nat /\ i \in Nat
      BY <1>10 DEF Members
    <3> QED BY <3>1, <3>2
  <2> QED BY <2>2, <2>3
<1>14. /\ Families' = Families /\ Members(f)' = Members(f) \cup {n}
       /\ \A h \in Families : h # f => Members(h)' = Members(h)
  <2>1. DOMAIN pairs' = DOMAIN pairs \cup {n} /\ pairs'[n].family = f
    BY <1>4, <1>9
  <2>2. \A j \in DOMAIN pairs : pairs'[j].family = pairs[j].family
    BY <1>5, <1>9 DEF SamePair
  <2>3. f = pairs[i].family
    OBVIOUS
  <2>4. Families' = Families
    BY <2>1, <2>2, <2>3 DEF Families
  <2>5. Members(f)' = Members(f) \cup {n}
    BY <2>1, <2>2 DEF Members
  <2>6. \A h \in Families : h # f => Members(h)' = Members(h)
    BY <2>1, <2>2 DEF Members
  <2> QED BY <2>4, <2>5, <2>6
<1>15. \A h \in Families : \A j \in Members(h) : h # f => pairs'[j] = pairs[j]
  BY <1>5, <1>9, <1>11 DEF Members
<1>16. DeadFamiliesStayDead'
  <2> SUFFICES ASSUME NEW h \in Families', Dead(h)', NEW j \in Members(h)'
               PROVE  pairs'[j].access = "revoked" /\ pairs'[j].refresh = "revoked"
    BY DEF DeadFamiliesStayDead
  <2>1. h \in Families /\ Dead(h) /\ h # f
    BY <1>9, <1>12, <1>14
  <2> QED BY <1>1, <1>14, <1>15, <2>1 DEF PairsInv, DeadFamiliesStayDead
<1>17. LiveFamiliesHaveOneHeir'
  <2> SUFFICES ASSUME NEW h \in Families', ~Dead(h)', NEW j \in Members(h)'
               PROVE  pairs'[j].refresh = "live" <=> \A k \in Members(h)' : k <= j
    BY DEF LiveFamiliesHaveOneHeir
  <2>1. h \in Families /\ ~Dead(h)
    BY <1>9, <1>14
  <2>2. CASE h # f
    BY <1>1, <1>14, <1>15, <2>1, <2>2 DEF PairsInv, LiveFamiliesHaveOneHeir
  <2>3. CASE h = f /\ j = n
    <3>1. \A k \in Members(f) : k <= n
      BY <1>9, <1>10 DEF Members
    <3> QED BY <1>4, <1>9, <1>10, <1>14, <2>3, <3>1
  <2>4. CASE h = f /\ j # n
    <3>1. j \in Members(f) /\ j \in DOMAIN pairs
      BY <1>14, <2>4 DEF Members
    <3>2. pairs'[j].refresh # "live"
      BY <1>5, <1>9, <1>13, <3>1
    <3>3. ~(n <= j)
      BY <1>9, <1>10, <3>1
    <3> QED BY <1>14, <2>4, <3>2, <3>3
  <2> QED BY <2>2, <2>3, <2>4
<1>18. PairsInv'
  BY <1>9, <1>16, <1>17 DEF PairsInv
<1>19. ScreenInv'
  BY <1>1, <1>2, ScreensGrow
<1>20. ConsentInv'
  BY <1>1, <1>2, <1>8, ConsentsUntouched
<1>21. TypeOK'
  BY <1>1, <1>2, <1>9 DEF TypeOK
<1> QED BY <1>18, <1>19, <1>20, <1>21, InvPartsNext

-----------------------------------------------------------------------------
(* The grants. *)

LEMMA GrantsUnchanged == GrantsInv /\ UNCHANGED vars => GrantsInv'
<1> SUFFICES ASSUME GrantsInv, UNCHANGED vars PROVE GrantsInv'
  OBVIOUS
<1>1. TypeOK /\ PairsInv /\ ScreenInv /\ ConsentInv
  BY InvParts
<1>2. UNCHANGED <<clock, clients, sessions, pages, consents, codes, pairs, approvals, cutoff, ended>>
  BY DEF vars
<1>3. TypeOK'
  BY <1>1, <1>2 DEF TypeOK
<1>4. PairsInv'
  BY <1>1, <1>2, CodesUntouched, PairsUntouched
<1>5. ScreenInv'
  BY <1>1, <1>2, ScreensGrow
<1>6. ConsentInv'
  BY <1>1, <1>2, CodesUntouched, ConsentsUntouched
<1> QED BY <1>3, <1>4, <1>5, <1>6, InvPartsNext

LEMMA GrantsStep == GrantsInv /\ [GrantsNext]_vars => GrantsInv'
<1> SUFFICES ASSUME GrantsInv, GrantsNext PROVE GrantsInv'
  BY GrantsUnchanged
<1>1. CASE Tick
  BY <1>1, TickStep
<1>2. CASE \E c \in Clients : Register(c)
  BY <1>2, RegisterStep
<1>3. CASE Authorize
  <2>1. PICK u \in Users, c \in Clients, cookie \in 0..MaxSessions, uri \in Uris :
          \/ \E challenge \in Challenges, requested \in (SUBSET ScopeNames) \cup {{UnknownScope}} :
               \/ AuthorizeSilently(u, c, cookie, challenge, uri, requested)
               \/ AuthorizeOnScreen(u, c, cookie, challenge, uri, requested)
          \/ AuthorizeCut(u, c, cookie, uri)
    BY <1>3 DEF Authorize
  <2>2. CASE AuthorizeCut(u, c, cookie, uri)
    BY <2>2, AuthorizeCutStep
  <2>3. ASSUME NEW challenge \in Challenges,
               NEW requested \in (SUBSET ScopeNames) \cup {{UnknownScope}},
               \/ AuthorizeSilently(u, c, cookie, challenge, uri, requested)
               \/ AuthorizeOnScreen(u, c, cookie, challenge, uri, requested)
        PROVE  GrantsInv'
    BY <2>3, SilentlyStep, OnScreenStep
  <2> QED BY <2>1, <2>2, <2>3
<1>4. CASE Decide
  <2>1. PICK u \in Users, c \in Clients, cookie \in 1..MaxSessions, challenge \in Challenges,
             uri \in Uris, scopes \in SUBSET ScopeNames :
          \/ Approve(u, c, cookie, challenge, uri, scopes)
          \/ ApproveCut(u, c, cookie, challenge, uri, scopes)
    BY <1>4 DEF Decide
  <2> QED BY <2>1, ApproveStep, ApproveCutStep
<1>5. CASE \E u \in Users, c \in Clients, cookie \in 1..MaxSessions : RevokeConsent(u, c, cookie)
  BY <1>5, RevokeStep
<1>6. CASE \E i \in DOMAIN codes, c \in Clients, verifier \in Challenges, uri \in Uris :
             Exchange(i, c, verifier, uri) \/ ExchangeCut(i, c, verifier, uri)
  BY <1>6, ExchangeStep, ExchangeCutStep
<1>7. CASE \E i \in DOMAIN pairs : Rotate(i) \/ DetectReuse(i)
  BY <1>7, RotateStep, DetectReuseStep
<1> QED BY <1>1, <1>2, <1>3, <1>4, <1>5, <1>6, <1>7 DEF GrantsNext, Token

-----------------------------------------------------------------------------
(* The server. *)

\* A call runs under a grant that was live when it entered: what the client may
\* do was approved for it by a user.
FlightApproved ==
  \A call \in inFlight \cup ran :
    \E a \in approvals : a.client = call.client /\ call.scopes \subseteq a.scopes

\* What ran had the scope its tool declares.
RanInScope == \A call \in ran : RequiredScope(call.tool) \in call.scopes

ServerInv == GrantsInv /\ ServerTypeOK /\ FlightApproved /\ RanInScope

LEMMA ServerStart == ServerInit => ServerInv
BY GrantsInit DEF ServerInit, ServerInv, GrantsInv, ServerTypeOK, FlightApproved, RanInScope

LEMMA GrantsStepOfServer == [ServerNext]_serverVars => [GrantsNext]_vars
BY DEF ServerNext, serverVars, Admit, Serve, Drop

\* Approvals are never withdrawn from the history, only marked as past.
LEMMA ApprovalsStay ==
  ASSUME [GrantsNext]_vars, NEW a \in approvals
  PROVE  \E b \in approvals' : b.client = a.client /\ b.scopes = a.scopes
<1>1. CASE UNCHANGED approvals
  BY <1>1
<1>2. ASSUME NEW u, NEW c, NEW challenge, NEW scopes, RecordConsent(u, c, challenge, scopes)
      PROVE  a \in approvals'
  BY <1>2 DEF RecordConsent
<1>3. CASE Decide
  BY <1>2, <1>3 DEF Decide, Approve, ApproveCut
<1>4. ASSUME NEW u, NEW c, NEW cookie, RevokeConsent(u, c, cookie)
      PROVE  \E b \in approvals' : b.client = a.client /\ b.scopes = a.scopes
  <2> DEFINE b == IF a.user = u /\ a.client = c THEN [a EXCEPT !.current = FALSE] ELSE a
  <2>1. b \in approvals'
    BY <1>4 DEF RevokeConsent
  <2>2. a \in approvals => b.client = a.client /\ b.scopes = a.scopes
    OBVIOUS
  <2> QED BY <2>1, <2>2
<1>5. CASE Tick \/ (\E c \in Clients : Register(c)) \/ Token \/ UNCHANGED vars
  BY <1>1, <1>5, HistoryUntouched
     DEF Tick, Register, Token, Exchange, ExchangeCut, Rotate, DetectReuse, vars
<1>6. ASSUME NEW u, NEW c, NEW cookie, NEW uri, NEW challenge, NEW requested,
             \/ AuthorizeSilently(u, c, cookie, challenge, uri, requested)
             \/ AuthorizeOnScreen(u, c, cookie, challenge, uri, requested)
             \/ AuthorizeCut(u, c, cookie, uri)
      PROVE  UNCHANGED approvals
  BY <1>6, HistoryUntouched DEF AuthorizeSilently, AuthorizeOnScreen, AuthorizeCut
<1>7. CASE Authorize
  BY <1>1, <1>6, <1>7 DEF Authorize
<1> QED BY <1>3, <1>4, <1>5, <1>7 DEF GrantsNext

LEMMA ServerStep == ServerInv /\ [ServerNext]_serverVars => ServerInv'
<1> SUFFICES ASSUME ServerInv, [ServerNext]_serverVars PROVE ServerInv'
  OBVIOUS
<1>1. GrantsInv'
  BY GrantsStepOfServer, GrantsStep DEF ServerInv
<1>2. TypeOK'
  BY <1>1 DEF GrantsInv
<1>3. \A call \in inFlight \cup ran :
        \E a \in approvals' : a.client = call.client /\ call.scopes \subseteq a.scopes
  BY GrantsStepOfServer, ApprovalsStay DEF ServerInv, FlightApproved
<1>4. CASE GrantsNext /\ ran' = {} /\ UNCHANGED inFlight
  BY <1>1, <1>2, <1>3, <1>4 DEF ServerInv, ServerTypeOK, FlightApproved, RanInScope
<1>5. ASSUME NEW i \in DOMAIN pairs, NEW tool \in Tools, Admit(i, tool) PROVE ServerInv'
  <2> DEFINE call == [grant |-> i, client |-> pairs[i].client,
                      scopes |-> pairs[i].scopes \cap ScopeNames, tool |-> tool]
  <2>1. pairs[i] \in Pairs /\ i \in 1..MaxPairs
    BY LenProperties, ElementOfSeq, GrantsAssumption DEF ServerInv, GrantsInv, TypeOK
  <2>2. call \in Calls
    BY <2>1 DEF Calls, Pairs
  <2>3. inFlight' = inFlight \cup {call} /\ ran' = {} /\ UNCHANGED vars
    BY <1>5 DEF Admit
  <2>4. \E a \in approvals' : a.client = call.client /\ call.scopes \subseteq a.scopes
    <3>1. /\ pairs[i].code \in DOMAIN codes
          /\ codes[pairs[i].code].client = pairs[i].client
          /\ codes[pairs[i].code].scopes = pairs[i].scopes
      BY DEF ServerInv, GrantsInv, CodesExist, TokensTraceToCodes
    <3>2. PICK a \in approvals : a.client = pairs[i].client /\ a.scopes = pairs[i].scopes
      BY <3>1 DEF ServerInv, GrantsInv, CodesApproved
    <3>3. a \in approvals'
      BY <2>3 DEF vars
    <3> QED BY <3>2, <3>3
  <2> HIDE DEF call
  <2>5. FlightApproved'
    BY <1>3, <2>3, <2>4 DEF FlightApproved
  <2> QED BY <1>1, <1>2, <2>2, <2>3, <2>5 DEF ServerInv, ServerTypeOK, RanInScope
<1>6. ASSUME NEW call \in inFlight, Serve(call) \/ Drop(call) PROVE ServerInv'
  <2>1. inFlight' = inFlight \ {call} /\ ran' \subseteq {call} /\ (ran' = {} \/ ran' = {call})
        /\ (ran' # {} => RequiredScope(call.tool) \in call.scopes)
    BY <1>6 DEF Serve, Drop
  <2>2. FlightApproved'
    BY <1>3, <2>1 DEF FlightApproved
  <2>3. RanInScope'
    BY <2>1 DEF RanInScope
  <2>4. ServerTypeOK'
    BY <1>2, <2>1 DEF ServerInv, ServerTypeOK
  <2> QED BY <1>1, <2>2, <2>3, <2>4 DEF ServerInv
<1>7. CASE UNCHANGED serverVars
  BY <1>1, <1>2, <1>3, <1>7 DEF serverVars, ServerInv, ServerTypeOK, FlightApproved, RanInScope
<1> QED BY <1>4, <1>5, <1>6, <1>7 DEF ServerNext

\* The inductive invariant of the grants and the calls, for any number of users,
\* clients, requests, repetitions and stops of the process.
THEOREM ServerSafe == ServerSpec => []ServerInv
<1>1. ServerInit => ServerInv
  BY ServerStart
<1>2. ServerInv /\ [ServerNext]_serverVars => ServerInv'
  BY ServerStep
<1> QED BY <1>1, <1>2, PTL DEF ServerSpec

-----------------------------------------------------------------------------
(* What a reader should know of. *)

\* Every value the server keeps is of its kind (auth.rs, http.rs).
THEOREM ServerTyped == ServerSpec => []ServerTypeOK
<1>1. ServerInv => ServerTypeOK
  BY DEF ServerInv
<1> QED BY <1>1, ServerSafe, PTL

\* No token of a lineage that was revoked, by its user or by the reuse of a
\* rotated token, is valid again (refresh_access_token, revoke_consent).
THEOREM RevokedStaysRevoked == ServerSpec => []DeadFamiliesStayDead
<1>1. ServerInv => DeadFamiliesStayDead
  BY DEF ServerInv, GrantsInv
<1> QED BY <1>1, ServerSafe, PTL

\* Any other lineage has one refresh token that works, its newest
\* (refresh_access_token).
THEOREM RotationKeepsOneHeir == ServerSpec => []LiveFamiliesHaveOneHeir
<1>1. ServerInv => LiveFamiliesHaveOneHeir
  BY DEF ServerInv, GrantsInv
<1> QED BY <1>1, ServerSafe, PTL

\* A lineage stems from one code and keeps its user, client and scopes
\* (exchange_authorization_code_for_tokens, refresh_access_token).
THEOREM LineageFromOneCode == ServerSpec => []TokensTraceToCodes
<1>1. ServerInv => TokensTraceToCodes
  BY DEF ServerInv, GrantsInv
<1> QED BY <1>1, ServerSafe, PTL

\* Each approval answers a screen shown to that user for that client and
\* challenge (handle_authorize_decision).
THEOREM ApprovalAnswersScreen == ServerSpec => []DecisionFollowsScreen
<1>1. ServerInv => DecisionFollowsScreen
  BY DEF ServerInv, GrantsInv
<1> QED BY <1>1, ServerSafe, PTL

\* A tool that changes claims only ran for a client a user gave that scope to
\* (require_scope in mcp.rs).
THEOREM WritesWereApproved == ServerSpec => []CallsTraceToApproval
<1>1. ServerInv => CallsTraceToApproval
  <2> SUFFICES ASSUME ServerInv, NEW call \in ran, call.tool \in Writing
               PROVE  \E a \in approvals : a.client = call.client /\ "claims:write" \in a.scopes
    BY DEF CallsTraceToApproval
  <2>1. RequiredScope(call.tool) \in call.scopes
    BY DEF ServerInv, RanInScope
  <2>2. RequiredScope(call.tool) = "claims:write"
    <3>1. /\ call.tool \in ClaimWriters \cup ClaimKeepers \cup MaintenanceTools
          /\ call.tool \notin GraphReaders \cup {"recall"}
          /\ call.tool \notin EventTools \cup CandidateTools \cup ObservationReaders
          /\ call.tool # "record_observation"
      BY DEF Writing, ClaimWriters, ClaimKeepers, MaintenanceTools, GraphReaders, EventTools,
             CandidateTools, ObservationReaders
    <3> QED BY <3>1 DEF RequiredScope
  <2>3. PICK a \in approvals : a.client = call.client /\ call.scopes \subseteq a.scopes
    BY DEF ServerInv, FlightApproved
  <2> QED BY <2>1, <2>2, <2>3
<1> QED BY <1>1, ServerSafe, PTL

\* A code that appears was stored by one of two handlers, for what an approval
\* since the last revocation covers.
LEMMA NewCodesApproved ==
  ASSUME GrantsInv, [GrantsNext]_vars, NEW i \in DOMAIN codes' \ DOMAIN codes
  PROVE  \E a \in approvals' : /\ a.user = codes'[i].user /\ a.client = codes'[i].client
                               /\ a.scopes = codes'[i].scopes /\ a.current
<1> DEFINE Goal == \E a \in approvals' : /\ a.user = codes'[i].user /\ a.client = codes'[i].client
                                         /\ a.scopes = codes'[i].scopes /\ a.current
<1>1. TypeOK /\ ConsentsApproved
  BY DEF GrantsInv
<1>2. ASSUME NEW u \in Users, NEW c \in Clients, NEW cookie, NEW challenge \in Challenges,
             NEW uri \in Uris, NEW requested,
             AuthorizeSilently(u, c, cookie, challenge, uri, requested)
      PROVE  Goal
  <2>1. PICK scopes : scopes = consents[<<u, c>>].scopes
    OBVIOUS
  <2>2. StoreCode(u, c, challenge, uri, scopes) /\ consents[<<u, c>>].state = "live"
        /\ UNCHANGED approvals
    BY <1>2, <2>1, HistoryUntouched DEF AuthorizeSilently, Covers
  <2>3. scopes \in SUBSET ScopeNames
    BY <1>1, <2>1 DEF TypeOK, Grants, Consents
  <2>4. codes'[i].user = u /\ codes'[i].client = c /\ codes'[i].scopes = scopes
    BY <1>1, <2>2, <2>3, CodeStored
  <2> QED BY <1>1, <2>1, <2>2, <2>4 DEF ConsentsApproved
<1>3. ASSUME NEW u \in Users, NEW c \in Clients, NEW cookie, NEW challenge \in Challenges,
             NEW uri \in Uris, NEW scopes \in SUBSET ScopeNames,
             Approve(u, c, cookie, challenge, uri, scopes)
      PROVE  Goal
  <2>1. codes'[i].user = u /\ codes'[i].client = c /\ codes'[i].scopes = scopes
    BY <1>1, <1>3, CodeStored DEF Approve
  <2> DEFINE a == [user |-> u, client |-> c, challenge |-> challenge,
                   scopes |-> scopes, current |-> TRUE]
  <2>2. a \in approvals'
    BY <1>3 DEF Approve, RecordConsent
  <2>3. a.user = u /\ a.client = c /\ a.scopes = scopes /\ a.current
    OBVIOUS
  <2> QED BY <2>1, <2>2, <2>3
<1>4. CASE DOMAIN codes' = DOMAIN codes
  BY <1>4
<1>5. CASE Authorize
  <2>1. PICK u \in Users, c \in Clients, cookie \in 0..MaxSessions, uri \in Uris :
          \/ \E challenge \in Challenges, requested \in (SUBSET ScopeNames) \cup {{UnknownScope}} :
               \/ AuthorizeSilently(u, c, cookie, challenge, uri, requested)
               \/ AuthorizeOnScreen(u, c, cookie, challenge, uri, requested)
          \/ AuthorizeCut(u, c, cookie, uri)
    BY <1>5 DEF Authorize
  <2>2. ASSUME NEW challenge, NEW requested,
               AuthorizeOnScreen(u, c, cookie, challenge, uri, requested)
        PROVE  DOMAIN codes' = DOMAIN codes
    BY <2>2 DEF AuthorizeOnScreen
  <2>3. CASE AuthorizeCut(u, c, cookie, uri)
    BY <1>4, <2>3 DEF AuthorizeCut
  <2> QED BY <1>2, <1>4, <2>1, <2>2, <2>3
<1>6. CASE Decide
  <2>1. PICK u \in Users, c \in Clients, cookie \in 1..MaxSessions, challenge \in Challenges,
             uri \in Uris, scopes \in SUBSET ScopeNames :
          \/ Approve(u, c, cookie, challenge, uri, scopes)
          \/ ApproveCut(u, c, cookie, challenge, uri, scopes)
    BY <1>6 DEF Decide
  <2>2. CASE ApproveCut(u, c, cookie, challenge, uri, scopes)
    BY <1>4, <2>2 DEF ApproveCut
  <2> QED BY <1>3, <2>1, <2>2
<1>7. CASE \/ Tick \/ Token \/ UNCHANGED vars \/ \E c \in Clients : Register(c)
           \/ \E u \in Users, c \in Clients, cookie \in 1..MaxSessions : RevokeConsent(u, c, cookie)
  BY <1>4, <1>7 DEF Tick, Token, Exchange, ExchangeCut, Spend, Rotate, DetectReuse, Register,
                    RevokeConsent, vars
<1> QED BY <1>5, <1>6, <1>7 DEF GrantsNext

\* A revoked client gets no code without a new approval: neither handler stores
\* one for a consent that is not live (handle_loopback_get_authorize).
THEOREM NoCodeWithoutApproval == ServerSpec => CodesNeedApproval
<1>1. ServerInv /\ [ServerNext]_serverVars =>
        [\A i \in DOMAIN codes' \ DOMAIN codes :
           \E a \in approvals' : /\ a.user = codes'[i].user /\ a.client = codes'[i].client
                                 /\ a.scopes = codes'[i].scopes /\ a.current]_vars
  BY NewCodesApproved, GrantsStepOfServer DEF ServerInv
<1> QED BY <1>1, ServerSafe, PTL DEF ServerSpec, CodesNeedApproval

\* Once a lineage is revoked no call enters under it (validate_bearer_token).
THEOREM RevocationClosesTheDoor == ServerSpec => NoCallEntersAfterRevocation
<1>1. ServerInv /\ [ServerNext]_serverVars =>
        [\A call \in inFlight' \ inFlight : ~Dead(pairs[call.grant].family)]_serverVars
  <2> SUFFICES ASSUME ServerInv, ServerNext, NEW call \in inFlight' \ inFlight
               PROVE  ~Dead(pairs[call.grant].family)
    OBVIOUS
  <2>1. PICK i \in DOMAIN pairs, tool \in Tools : Admit(i, tool)
    BY DEF ServerNext, Serve, Drop
  <2>2. call.grant = i /\ pairs[i].access = "live"
    BY <2>1 DEF Admit, HasGrant
  <2>3. pairs[i].family \in Families /\ i \in Members(pairs[i].family)
    BY DEF Families, Members
  <2> QED BY <2>2, <2>3 DEF ServerInv, GrantsInv, DeadFamiliesStayDead
<1> QED BY <1>1, ServerSafe, PTL DEF ServerSpec, NoCallEntersAfterRevocation
=============================================================================
