------------------------------ MODULE McpServer ------------------------------
(***************************************************************************)
(* Tool calls over HTTP (http.rs, mcp.rs, scopes.rs): the bearer middleware *)
(* looks the token up under the lock of the grants and lets the request go; *)
(* the tool runs later, under the lock of the one shared AverTools, on what *)
(* the middleware put into the request.  The grants change in between.      *)
(***************************************************************************)
EXTENDS OAuthGrants

CONSTANTS
  Tools,     \* the tools that are called
  MaxFlight  \* bound on the calls in flight

VARIABLES
  inFlight,  \* requests past the middleware: [grant, client, scopes, tool]
  ran        \* the call whose tool ran in the last step, if one did

serverVars == <<vars, inFlight, ran>>

\* The handlers of mcp.rs, group by group, with the scope each declares.
ClaimWriters == {"remember_claim", "add_triple"}
GraphReaders == {"expand", "path", "communities"}
ClaimKeepers == {"contradict", "consolidate"}
EventTools == {"record_event", "should_extract_memories"}
CandidateTools == {"propose_candidate_claim", "list_candidate_claims", "promote_candidate_claim",
                   "triage_candidate_claim", "reject_candidate_claim"}
ObservationReaders == {"recall_observation", "observation_coverage", "assemble_compaction_summary"}
MaintenanceTools == {"add_vector_chunk", "retire_claim", "extract"}

\* Mutant: a writing tool declares the reading scope.
RequiredScopeOfExtract(tool) ==
  IF tool \in GraphReaders \cup {"recall", "extract"} THEN "claims:read" ELSE "claims:write"

RequiredScope(tool) ==
  CASE tool \in GraphReaders \cup {"recall"} -> "claims:read"
    [] tool \in ClaimWriters \cup ClaimKeepers \cup MaintenanceTools -> "claims:write"
    [] tool \in EventTools -> "events:write"
    [] tool \in CandidateTools -> "candidates:manage"
    [] tool \in ObservationReaders -> "observations:read"
    [] tool = "record_observation" -> "observations:write"

Calls == [grant : 1..MaxPairs, client : Clients, scopes : SUBSET ScopeNames, tool : Tools]

ServerTypeOK ==
  /\ TypeOK
  /\ inFlight \subseteq Calls
  /\ ran \in {{}} \cup {{call} : call \in Calls}

ServerInit == Init /\ inFlight = {} /\ ran = {}

\* Mutant: the lookup finds a token whatever happened to it.
GrantOfRow(i) == ~Expired(pairs[i].since, AccessTtl)

\* access_token_grant.
HasGrant(i) == pairs[i].access = "live" /\ ~Expired(pairs[i].since, AccessTtl)

\* validate_bearer_token; scopes unknown today are dropped, not refused.
Admit(i, tool) ==
  /\ HasGrant(i)
  /\ Cardinality(inFlight) < MaxFlight
  /\ inFlight' = inFlight \cup {[grant |-> i, client |-> pairs[i].client,
                                 scopes |-> pairs[i].scopes \cap ScopeNames, tool |-> tool]}
  /\ ran' = {}
  /\ UNCHANGED vars

\* require_scope, then the tool under lock_tools; or the error it returns.
Serve(call) ==
  /\ call \in inFlight
  /\ inFlight' = inFlight \ {call}
  /\ ran' = IF RequiredScope(call.tool) \in call.scopes THEN {call} ELSE {}
  /\ UNCHANGED vars

\* A stop of the process, or of the client's connection, drops the request.
Drop(call) ==
  /\ call \in inFlight
  /\ inFlight' = inFlight \ {call}
  /\ ran' = {}
  /\ UNCHANGED vars

ServerNext ==
  \/ GrantsNext /\ ran' = {} /\ UNCHANGED inFlight
  \/ \E i \in DOMAIN pairs, tool \in Tools : Admit(i, tool)
  \/ \E call \in inFlight : Serve(call) \/ Drop(call)

ServerSpec == ServerInit /\ [][ServerNext]_serverVars

\* Once a lineage is revoked, no further call enters under it; those already in
\* may finish.
NoCallEntersAfterRevocation ==
  [][\A call \in inFlight' \ inFlight : ~Dead(pairs[call.grant].family)]_serverVars

\* The tools of TOOLS that change the memory the claims live in.
Writing == ClaimWriters \cup ClaimKeepers \cup MaintenanceTools

\* From the tool back to the screen: a client whose call changed claims was given
\* "claims:write" by a user, on a screen.
CallsTraceToApproval ==
  \A call \in ran : call.tool \in Writing =>
    \E a \in approvals : a.client = call.client /\ "claims:write" \in a.scopes
=============================================================================
