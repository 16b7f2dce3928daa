----------------------------- MODULE OAuthGrants -----------------------------
(***************************************************************************)
(* The OAuth state of the server (auth.rs) and the handlers that change it *)
(* (consent.rs, http.rs): registered clients, browser sessions, consents,  *)
(* authorization codes and the token pairs of a login and its refreshes.   *)
(*                                                                         *)
(* One mutex guards the database, and each handler keeps it to its end, so *)
(* a handler is one step.  A handler that makes several writes outside a   *)
(* transaction may be cut short by a stop of the process: the ...Cut steps *)
(* leave its first write.  Requests repeat and arrive in any order, since  *)
(* nothing stops a client from presenting what it holds again.             *)
(***************************************************************************)
EXTENDS Naturals, Sequences, FiniteSets

CONSTANTS
  Users, Clients,
  Uris, AllowedUris,    \* redirect URIs, and those redirect_uri_allowed accepts
  Challenges,           \* PKCE challenges; the verifier of one is known by its name
  ScopeNames,           \* SUPPORTED
  UnknownScope,         \* what else a client may ask for
  CodeTtl, AccessTtl, RefreshTtl, SessionTtl,
  MaxClock, MaxSessions, MaxCodes, MaxPairs, MaxApprovals  \* bounds

ASSUME GrantsAssumption ==
  /\ AllowedUris \subseteq Uris
  /\ {CodeTtl, AccessTtl, RefreshTtl, SessionTtl} \subseteq Nat \ {0}
  /\ {MaxClock, MaxSessions, MaxCodes, MaxPairs, MaxApprovals} \subseteq Nat
  /\ UnknownScope \notin ScopeNames

VARIABLES
  clock,      \* now_unix
  clients,    \* oauth_clients: the redirect URIs of each, none if unregistered
  sessions,   \* sessions
  pages,      \* the consent screens rendered: what an anti-CSRF token is bound to
  consents,   \* client_consents
  codes,      \* authorization_codes
  pairs,      \* access_tokens and refresh_tokens, which are issued in pairs
  approvals,  \* history: the decisions "approve"
  cutoff,     \* history: how many pairs there were at the last revocation
  ended       \* history: the families whose reuse was detected

vars == <<clock, clients, sessions, pages, consents, codes, pairs, approvals, cutoff, ended>>
history == <<approvals, cutoff, ended>>

Grants == Users \X Clients
Sessions == [user : Users, since : 0..MaxClock]
Pages == [session : 1..MaxSessions, client : Clients, challenge : Challenges]
Consents == [scopes : SUBSET ScopeNames, state : {"none", "live", "revoked"}]
Codes == [client : Clients, user : Users, challenge : Challenges, uri : Uris,
          scopes : SUBSET ScopeNames, since : 0..MaxClock, used : BOOLEAN]
Pairs == [user : Users, client : Clients, family : 1..MaxPairs, scopes : SUBSET ScopeNames,
          since : 0..MaxClock, code : 1..MaxCodes,
          access : {"live", "revoked"}, refresh : {"live", "revoked"}]
Approvals == [user : Users, client : Clients, challenge : Challenges,
              scopes : SUBSET ScopeNames, current : BOOLEAN]

TypeOK ==
  /\ clock \in 0..MaxClock
  /\ clients \in [Clients -> SUBSET AllowedUris]
  /\ sessions \in Seq(Sessions) /\ Len(sessions) <= MaxSessions
  /\ pages \subseteq Pages
  /\ consents \in [Grants -> Consents]
  /\ codes \in Seq(Codes) /\ Len(codes) <= MaxCodes
  /\ pairs \in Seq(Pairs) /\ Len(pairs) <= MaxPairs
  /\ approvals \subseteq Approvals
  /\ cutoff \in [Grants -> 0..MaxPairs]
  /\ ended \subseteq 1..MaxPairs

Init ==
  /\ clock = 0
  /\ clients = [c \in Clients |-> {}]
  /\ sessions = <<>> /\ pages = {}
  /\ consents = [g \in Grants |-> [scopes |-> {}, state |-> "none"]]
  /\ codes = <<>> /\ pairs = <<>>
  /\ approvals = {}
  /\ cutoff = [g \in Grants |-> 0]
  /\ ended = {}

Tick ==
  /\ clock < MaxClock
  /\ clock' = clock + 1
  /\ UNCHANGED <<clients, sessions, pages, consents, codes, pairs, history>>

Expired(since, ttl) == clock >= since + ttl

\* Mutant: the redirect URIs are not checked.
RegisterUnchecked(c) ==
  /\ clients[c] = {}
  /\ \E uris \in (SUBSET Uris) \ {{}} : clients' = [clients EXCEPT ![c] = uris]
  /\ UNCHANGED <<clock, sessions, pages, consents, codes, pairs, history>>

\* register_client: an id of its own for each registration.
Register(c) ==
  /\ clients[c] = {}
  /\ \E uris \in (SUBSET Uris) \ {{}} :
       /\ uris \subseteq AllowedUris
       /\ clients' = [clients EXCEPT ![c] = uris]
  /\ UNCHANGED <<clock, sessions, pages, consents, codes, pairs, history>>

-----------------------------------------------------------------------------
(* The browser: authorize, decide, revoke. *)

\* current_session, for the user authenticate_request found; cookie 0 is none.
HasSession(u, cookie) ==
  /\ cookie \in DOMAIN sessions
  /\ sessions[cookie].user = u
  /\ ~Expired(sessions[cookie].since, SessionTtl)

\* ensure_session.
SessionFor(u, cookie) == IF HasSession(u, cookie) THEN cookie ELSE Len(sessions) + 1
EnsureSession(u, cookie) ==
  IF HasSession(u, cookie)
  THEN UNCHANGED sessions
  ELSE /\ Len(sessions) < MaxSessions
       /\ sessions' = Append(sessions, [user |-> u, since |-> clock])

StoreCode(u, c, challenge, uri, scopes) ==
  /\ Len(codes) < MaxCodes
  /\ codes' = Append(codes, [client |-> c, user |-> u, challenge |-> challenge, uri |-> uri,
                             scopes |-> scopes, since |-> clock, used |-> FALSE])

\* Mutant: a revoked consent still covers.
CoversWithoutState(consent, requested) ==
  consent.state # "none" /\ consent.scopes # {} /\ requested \subseteq consent.scopes

\* A live consent covers the request; one without scopes never does.
Covers(consent, requested) ==
  consent.state = "live" /\ consent.scopes # {} /\ requested \subseteq consent.scopes

\* handle_loopback_get_authorize with a consent: no screen, the consent's scopes.
AuthorizeSilently(u, c, cookie, challenge, uri, requested) ==
  /\ uri \in clients[c]
  /\ Covers(consents[<<u, c>>], requested)
  /\ EnsureSession(u, cookie)
  /\ StoreCode(u, c, challenge, uri, consents[<<u, c>>].scopes)
  /\ UNCHANGED <<clock, clients, pages, consents, pairs, history>>

\* Without one it renders the screen with a token for this session, client and
\* challenge.
AuthorizeOnScreen(u, c, cookie, challenge, uri, requested) ==
  /\ uri \in clients[c]
  /\ ~Covers(consents[<<u, c>>], requested)
  /\ EnsureSession(u, cookie)
  /\ pages' = pages \cup {[session |-> SessionFor(u, cookie), client |-> c,
                           challenge |-> challenge]}
  /\ UNCHANGED <<clock, clients, consents, codes, pairs, history>>

AuthorizeCut(u, c, cookie, uri) ==
  /\ uri \in clients[c]
  /\ ~HasSession(u, cookie) /\ EnsureSession(u, cookie)
  /\ UNCHANGED <<clock, clients, pages, consents, codes, pairs, history>>

\* Mutant: the anti-CSRF token is bound to the session only.
CsrfOfSession(page, cookie, c, challenge) == page.session = cookie

\* compute_csrf_token, verify_csrf_token.
CsrfMatches(page, cookie, c, challenge) ==
  page = [session |-> cookie, client |-> c, challenge |-> challenge]

\* The checks of handle_authorize_decision; the form may come from any screen.
MayDecide(u, c, cookie, challenge, uri) ==
  /\ HasSession(u, cookie)
  /\ \E page \in pages : CsrfMatches(page, cookie, c, challenge)
  /\ uri \in clients[c]

RecordConsent(u, c, challenge, scopes) ==
  /\ Cardinality(approvals) < MaxApprovals
  /\ consents' = [consents EXCEPT ![<<u, c>>] = [scopes |-> scopes, state |-> "live"]]
  /\ approvals' = approvals \cup {[user |-> u, client |-> c, challenge |-> challenge,
                                   scopes |-> scopes, current |-> TRUE]}
  /\ UNCHANGED <<cutoff, ended>>

\* The boxes that were checked count, not what the client had asked for.
Approve(u, c, cookie, challenge, uri, scopes) ==
  /\ MayDecide(u, c, cookie, challenge, uri)
  /\ RecordConsent(u, c, challenge, scopes)
  /\ StoreCode(u, c, challenge, uri, scopes)
  /\ UNCHANGED <<clock, clients, sessions, pages, pairs>>

ApproveCut(u, c, cookie, challenge, uri, scopes) ==
  /\ MayDecide(u, c, cookie, challenge, uri)
  /\ RecordConsent(u, c, challenge, scopes)
  /\ UNCHANGED <<clock, clients, sessions, pages, codes, pairs>>

Revoked(pair) == [pair EXCEPT !.access = "revoked", !.refresh = "revoked"]

\* Mutant: the refresh tokens of the client survive.
RevokeAllAccess(u, c) ==
  pairs' = [i \in DOMAIN pairs |->
              IF pairs[i].user = u /\ pairs[i].client = c
              THEN [pairs[i] EXCEPT !.access = "revoked"] ELSE pairs[i]]

RevokeAll(u, c) ==
  pairs' = [i \in DOMAIN pairs |->
              IF pairs[i].user = u /\ pairs[i].client = c THEN Revoked(pairs[i]) ELSE pairs[i]]

\* handle_revoke_consent; revoke_consent is one transaction.  Outstanding codes stay.
RevokeConsent(u, c, cookie) ==
  /\ HasSession(u, cookie)
  /\ clients[c] # {}
  /\ consents' = [consents EXCEPT ![<<u, c>>].state = IF @ = "none" THEN @ ELSE "revoked"]
  /\ RevokeAll(u, c)
  /\ cutoff' = [cutoff EXCEPT ![<<u, c>>] = Len(pairs)]
  /\ approvals' = {IF a.user = u /\ a.client = c THEN [a EXCEPT !.current = FALSE] ELSE a :
                     a \in approvals}
  /\ UNCHANGED <<clock, clients, sessions, pages, codes, ended>>

-----------------------------------------------------------------------------
(* The token endpoint. *)

IssuePair(u, c, family, scopes, code, before) ==
  /\ Len(pairs) < MaxPairs
  /\ pairs' = Append(before, [user |-> u, client |-> c, family |-> family, scopes |-> scopes,
                              since |-> clock, code |-> code,
                              access |-> "live", refresh |-> "live"])

\* Mutant: a code that was used is accepted again.
AcceptsTwice(i, c, verifier, uri) ==
  /\ codes[i].client = c
  /\ codes[i].challenge = verifier
  /\ ~Expired(codes[i].since, CodeTtl)
  /\ codes[i].uri = uri

\* What exchange_authorization_code_for_tokens ensures.
Accepts(i, c, verifier, uri) ==
  /\ ~codes[i].used
  /\ codes[i].client = c
  /\ codes[i].challenge = verifier
  /\ ~Expired(codes[i].since, CodeTtl)
  /\ codes[i].uri = uri

Spend(i) == codes' = [codes EXCEPT ![i].used = TRUE]

Exchange(i, c, verifier, uri) ==
  /\ Accepts(i, c, verifier, uri)
  /\ Spend(i)
  /\ IssuePair(codes[i].user, c, Len(pairs) + 1, codes[i].scopes, i, pairs)
  /\ UNCHANGED <<clock, clients, sessions, pages, consents, history>>

\* The code is spent before the transaction that issues the tokens.
ExchangeCut(i, c, verifier, uri) ==
  /\ Accepts(i, c, verifier, uri)
  /\ Spend(i)
  /\ UNCHANGED <<clock, clients, sessions, pages, consents, pairs, history>>

\* Mutant: the presented token stays valid.
RetireNothing(i) == pairs

\* The first statement of the rotation.
RetireRefresh(i) == [pairs EXCEPT ![i].refresh = "revoked"]

\* refresh_access_token rotates the token in one transaction.
Rotate(i) ==
  /\ pairs[i].refresh = "live"
  /\ ~Expired(pairs[i].since, RefreshTtl)
  /\ IssuePair(pairs[i].user, pairs[i].client, pairs[i].family, pairs[i].scopes, pairs[i].code,
               RetireRefresh(i))
  /\ UNCHANGED <<clock, clients, sessions, pages, consents, codes, history>>

\* A token that was rotated or revoked before: its family is revoked.
DetectReuse(i) ==
  /\ pairs[i].refresh = "revoked"
  /\ pairs' = [j \in DOMAIN pairs |->
                 IF pairs[j].family = pairs[i].family THEN Revoked(pairs[j]) ELSE pairs[j]]
  /\ ended' = ended \cup {pairs[i].family}
  /\ UNCHANGED <<clock, clients, sessions, pages, consents, codes, approvals, cutoff>>

-----------------------------------------------------------------------------

Authorize ==
  \E u \in Users, c \in Clients, cookie \in 0..MaxSessions, uri \in Uris :
    \/ \E challenge \in Challenges, requested \in (SUBSET ScopeNames) \cup {{UnknownScope}} :
         \/ AuthorizeSilently(u, c, cookie, challenge, uri, requested)
         \/ AuthorizeOnScreen(u, c, cookie, challenge, uri, requested)
    \/ AuthorizeCut(u, c, cookie, uri)

Decide ==
  \E u \in Users, c \in Clients, cookie \in 1..MaxSessions, challenge \in Challenges,
     uri \in Uris, scopes \in SUBSET ScopeNames :
    \/ Approve(u, c, cookie, challenge, uri, scopes)
    \/ ApproveCut(u, c, cookie, challenge, uri, scopes)

\* oauth_token.
Token ==
  \/ \E i \in DOMAIN codes, c \in Clients, verifier \in Challenges, uri \in Uris :
       Exchange(i, c, verifier, uri) \/ ExchangeCut(i, c, verifier, uri)
  \/ \E i \in DOMAIN pairs : Rotate(i) \/ DetectReuse(i)

GrantsNext ==
  \/ Tick
  \/ \E c \in Clients : Register(c)
  \/ Authorize
  \/ Decide
  \/ \E u \in Users, c \in Clients, cookie \in 1..MaxSessions : RevokeConsent(u, c, cookie)
  \/ Token

GrantsSpec == Init /\ [][GrantsNext]_vars

-----------------------------------------------------------------------------
(* What is promised. *)

Members(f) == {i \in DOMAIN pairs : pairs[i].family = f}
Families == {pairs[i].family : i \in DOMAIN pairs}
Dead(f) == f \in ended \/ f <= cutoff[<<pairs[f].user, pairs[f].client>>]

\* Once a login's lineage was revoked, by its user or by the reuse of a rotated
\* token, no token of it is or becomes valid again, whatever is presented later
\* (the comments of refresh_access_token and handle_revoke_consent).
DeadFamiliesStayDead ==
  \A f \in Families : Dead(f) =>
    \A i \in Members(f) : pairs[i].access = "revoked" /\ pairs[i].refresh = "revoked"

\* Every other lineage has exactly one refresh token that works, its newest: a
\* rotation replaces it or leaves it usable ("all-or-nothing"), whatever answers
\* are lost and requests repeated.
LiveFamiliesHaveOneHeir ==
  \A f \in Families : ~Dead(f) =>
    \A i \in Members(f) :
      pairs[i].refresh = "live" <=> \A j \in Members(f) : j <= i

\* Every lineage began with a code of its own, now spent, and carries its user,
\* client and scopes through all refreshes.
TokensTraceToCodes ==
  \A i \in DOMAIN pairs :
    /\ codes[pairs[i].code].used
    /\ codes[pairs[i].code].user = pairs[i].user
    /\ codes[pairs[i].code].client = pairs[i].client
    /\ codes[pairs[i].code].scopes = pairs[i].scopes
    /\ \A j \in DOMAIN pairs : pairs[j].code = pairs[i].code => pairs[j].family = pairs[i].family

\* A code is only made from an approval of exactly its scopes that was given
\* since the last revocation: a revoked client is sent to the consent screen
\* again (README.md, POST /oauth/consent/revoke).
CodesNeedApproval ==
  [][\A i \in DOMAIN codes' \ DOMAIN codes :
       \E a \in approvals' : /\ a.user = codes'[i].user /\ a.client = codes'[i].client
                             /\ a.scopes = codes'[i].scopes /\ a.current]_vars

\* Nothing is approved that was not shown: each approval answers a screen that
\* this user's session was shown for this client and this challenge.
DecisionFollowsScreen ==
  \A a \in approvals :
    \E page \in pages : /\ sessions[page.session].user = a.user
                        /\ page.client = a.client /\ page.challenge = a.challenge
=============================================================================
