------------------------------- MODULE ToolCalls -------------------------------
(***************************************************************************)
(* Tool calls on the one AverTools of a server (mcp.rs, tools.rs), whose    *)
(* mutex a call holds from its first read to its answer, model endpoints    *)
(* included: triage and extraction decisions (candidate_decision.rs), the   *)
(* embedding of a query, the decisions of users (candidates.rs), and        *)
(* extract, which writes a tree's facts one by one.  Another process on the *)
(* same store takes no part in that mutex.                                  *)
(*                                                                         *)
(* A candidate's decision is kept as who made it.  Log lines, claims and    *)
(* what becomes of a promotion that loses a race are left to MemoryStore.   *)
(***************************************************************************)
EXTENDS Decisions

CONSTANTS
  Sessions,     \* MCP sessions, each with one call at a time
  Candidates,
  PredicateOf,  \* candidate -> its predicate
  SeededWords,  \* the vocabulary at first
  Coined,       \* what users of the other process may add to it
  Tree          \* the facts extract finds, each "kept" or "private"

ASSUME ToolCallsAssumption ==
  /\ PredicateOf \in [Candidates -> Words]
  /\ SeededWords # {} /\ SeededWords \cup Coined \subseteq Words
  /\ Tree \in Seq({"kept", "private"})

VARIABLES
  candidates,  \* candidate -> [status, by]
  vocabulary,  \* accepted predicates
  signals,     \* what extraction_decision finds for the session asked about
  extracted,   \* the facts of Tree in the store
  calls,       \* session -> its call
  holder,      \* the session that holds the mutex, if one does
  answer       \* the answer given in the last step, if one was

store == <<candidates, vocabulary, signals, extracted>>
vars == <<store, calls, holder, answer>>

Signals == {"gap", "threshold"}
TriageOptions == <<"promote", "reject", "hold">>
TriggerOptions == <<"extract", "skip">>

Decided == [status : {"PENDING"}, by : {"nobody"}]
           \cup [status : {"PROMOTED", "REJECTED"}, by : {"user", "model"}]

CandidateTools == {"promote", "reject", "triage"}
Arguments(tool) == IF tool \in CandidateTools THEN Candidates
                   ELSE IF tool = "extract" THEN {"tree", "dry run", "not allowed"} ELSE {"any"}
Tools == CandidateTools \cup {"should_extract", "extract", "recall"}

Idle == [at |-> "idle"]
At(s, place) == calls[s].at = place
Runs(s, tool, place) == At(s, place) /\ calls[s].tool = tool
Move(s, place) == calls' = [calls EXCEPT ![s].at = place]

Said(word) == [word |-> word, reasons |-> {}, ingested |-> 0, private |-> 0]

Stay == UNCHANGED holder /\ answer' = {}

\* The guard goes out of scope.
Return(s, said) ==
  /\ answer' = {[session |-> s, call |-> calls[s], said |-> said]}
  /\ calls' = [calls EXCEPT ![s] = Idle]
  /\ holder' = {}

Init ==
  /\ candidates = [c \in Candidates |-> [status |-> "PENDING", by |-> "nobody"]]
  /\ vocabulary = SeededWords
  /\ signals = {} /\ extracted = {}
  /\ calls = [s \in Sessions |-> Idle]
  /\ holder = {} /\ answer = {}

Call(s, tool, arg) ==
  /\ At(s, "idle")
  /\ calls' = [calls EXCEPT ![s] = [at |-> "waiting", tool |-> tool, arg |-> arg,
                                    reply |-> Failed, found |-> {}, done |-> 0]]
  /\ Stay /\ UNCHANGED store

\* lock_tools.
Acquire(s) ==
  /\ At(s, "waiting") /\ holder = {}
  /\ holder' = {s}
  /\ Move(s, "begun")
  /\ answer' = {}
  /\ UNCHANGED store

-----------------------------------------------------------------------------
(* The endpoints. *)

\* Of a query, that it is embedded is all that counts.
RepliesTo(tool) ==
  CASE tool = "triage" -> Replies(TriageOptions)
    [] tool = "should_extract" -> Replies(TriggerOptions)
    [] tool = "recall" -> {Failed, [Failed EXCEPT !.by = "model"]}

Hear(s, reply) == calls' = [calls EXCEPT ![s].at = "heard", ![s].reply = reply]

\* The endpoint answers, or fails.
Reply(s) ==
  /\ At(s, "asking")
  /\ \E reply \in RepliesTo(calls[s].tool) : Hear(s, reply)
  /\ Stay /\ UNCHANGED store

\* Mutant: a client without a timeout waits.
TimeoutNever(s) == FALSE /\ UNCHANGED vars

\* The overall timeout of a request, of either client.
Timeout(s) ==
  /\ At(s, "asking")
  /\ Hear(s, Failed)
  /\ Stay /\ UNCHANGED store

-----------------------------------------------------------------------------
(* The decisions on candidates. *)

By(s) == IF calls[s].tool = "triage" THEN "model" ELSE "user"

\* promote_candidate_claim_inner, up to its transaction,
StartPromote(s) ==
  LET c == calls[s].arg
  IN CASE candidates[c].status = "REJECTED" -> Return(s, Said("error"))
       [] candidates[c].status = "PROMOTED" -> Return(s, Said("promote"))
       [] candidates[c].status = "PENDING" ->
            IF PredicateOf[c] \in vocabulary THEN Move(s, "promoting") /\ Stay
            ELSE Return(s, Said("error"))

\* and in it; what is not pending any more is refused and rolled back.
WritePromote(s) ==
  LET c == calls[s].arg
  IN /\ At(s, "promoting")
     /\ IF candidates[c].status = "PENDING"
        THEN /\ candidates' = [candidates EXCEPT ![c] = [status |-> "PROMOTED", by |-> By(s)]]
             /\ Return(s, Said("promote"))
        ELSE UNCHANGED candidates /\ Return(s, Said("error"))
     /\ UNCHANGED <<vocabulary, signals, extracted>>

\* reject_candidate_claim_inner, up to its transaction,
StartReject(s) ==
  IF candidates[calls[s].arg].status = "PROMOTED" THEN Return(s, Said("error"))
  ELSE Move(s, "rejecting") /\ Stay

\* and in it: read again, and no error if rejected for the same reason.
WriteReject(s) ==
  LET c == calls[s].arg
      rejected == [status |-> "REJECTED", by |-> By(s)]
  IN /\ At(s, "rejecting")
     /\ candidates' = IF candidates[c].status = "PENDING"
                      THEN [candidates EXCEPT ![c] = rejected] ELSE candidates
     /\ Return(s, Said(IF candidates'[c] = rejected THEN "reject" ELSE "error"))
     /\ UNCHANGED <<vocabulary, signals, extracted>>

\* promote_candidate_claim and reject_candidate_claim.
BeginDecision(s) ==
  /\ \/ Runs(s, "promote", "begun") /\ StartPromote(s)
     \/ Runs(s, "reject", "begun") /\ StartReject(s)
  /\ UNCHANGED store

\* triage_candidate_claim, up to the question,
BeginTriage(s) ==
  /\ Runs(s, "triage", "begun")
  /\ IF candidates[calls[s].arg].status = "PENDING" THEN Move(s, "asking") /\ Stay
     ELSE Return(s, Said("error"))
  /\ UNCHANGED store

\* and from the answer on.
UseTriage(s) ==
  LET reply == calls[s].reply
      index == Decide(TriageOptions, reply)
      choice == IF Meets(reply) THEN TriageOptions[index] ELSE "hold"
  IN /\ Runs(s, "triage", "heard")
     /\ CASE index = 0 -> Return(s, Said("error"))
          [] index # 0 /\ choice = "promote" -> StartPromote(s)
          [] index # 0 /\ choice = "reject" -> StartReject(s)
          [] index # 0 /\ choice = "hold" -> Return(s, Said("hold"))
     /\ UNCHANGED store

-----------------------------------------------------------------------------
(* should_extract_memories. *)

\* A coverage gap alone does not justify extraction.
Extraction(reasons) ==
  [Said(IF reasons \ {"gap"} # {} THEN "extract" ELSE "skip") EXCEPT !.reasons = reasons]

\* extraction_decision; a model is asked if a gap is all there is,
BeginExtraction(s) ==
  /\ Runs(s, "should_extract", "begun")
  /\ IF signals = {"gap"}
     THEN calls' = [calls EXCEPT ![s].at = "listing", ![s].found = signals] /\ Stay
     ELSE Return(s, Extraction(signals))
  /\ UNCHANGED store

\* and if there is still something uncovered to show it.
ListUncovered(s) ==
  /\ At(s, "listing")
  /\ IF "gap" \in signals THEN Move(s, "asking") /\ Stay
     ELSE Return(s, Extraction(calls[s].found))
  /\ UNCHANGED store

UseTrigger(s) ==
  LET reply == calls[s].reply
      extract == Decide(TriggerOptions, reply) = 1 /\ Meets(reply)
  IN /\ Runs(s, "should_extract", "heard")
     /\ Return(s, Extraction(calls[s].found \cup (IF extract THEN {"model"} ELSE {})))
     /\ UNCHANGED store

-----------------------------------------------------------------------------
(* extract and recall. *)

Ingested(n) == {i \in 1..n : Tree[i] = "kept"}
SaidExtract(n, dry) ==
  IF dry THEN Said("extracted")
  ELSE [Said("extracted") EXCEPT !.ingested = Cardinality(Ingested(n)),
                                 !.private = n - Cardinality(Ingested(n))]

\* extract, whose checks come before the first write,
BeginExtract(s) ==
  /\ Runs(s, "extract", "begun")
  /\ CASE calls[s].arg = "not allowed" -> Return(s, Said("error"))
       [] calls[s].arg = "dry run" -> Return(s, SaidExtract(Len(Tree), TRUE))
       [] calls[s].arg = "tree" -> Move(s, "writing") /\ Stay
  /\ UNCHANGED store

\* and one add_claim: a private fact is counted, another error ends the call.
WriteFact(s) ==
  LET n == calls[s].done + 1
  IN /\ At(s, "writing") /\ n <= Len(Tree)
     /\ \/ /\ extracted' = IF Tree[n] = "kept" THEN extracted \cup {n} ELSE extracted
           /\ calls' = [calls EXCEPT ![s].done = n] /\ Stay
        \/ Return(s, Said("error")) /\ UNCHANGED extracted
     /\ UNCHANGED <<candidates, vocabulary, signals>>

EndExtract(s) ==
  /\ At(s, "writing") /\ calls[s].done = Len(Tree)
  /\ Return(s, SaidExtract(Len(Tree), FALSE))
  /\ UNCHANGED store

\* recall, of a store with embedded chunks or without.
BeginRecall(s) ==
  /\ Runs(s, "recall", "begun")
  /\ (Move(s, "asking") /\ Stay) \/ Return(s, Said("keyword"))
  /\ UNCHANGED store

EndRecall(s) ==
  /\ Runs(s, "recall", "heard")
  /\ Return(s, Said(IF calls[s].reply = Failed THEN "keyword" ELSE "hybrid"))
  /\ UNCHANGED store

Compute(s) ==
  \/ BeginDecision(s) \/ BeginTriage(s) \/ UseTriage(s) \/ WritePromote(s) \/ WriteReject(s)
  \/ BeginExtraction(s) \/ ListUncovered(s) \/ UseTrigger(s)
  \/ BeginExtract(s) \/ WriteFact(s) \/ EndExtract(s) \/ BeginRecall(s) \/ EndRecall(s)

-----------------------------------------------------------------------------
(* The rest of the world. *)

\* A user decides in another process,
Elsewhere(c, status) ==
  /\ candidates[c].status = "PENDING"
  /\ status = "PROMOTED" => PredicateOf[c] \in vocabulary
  /\ candidates' = [candidates EXCEPT ![c] = [status |-> status, by |-> "user"]]
  /\ UNCHANGED <<vocabulary, signals, extracted, calls, holder>> /\ answer' = {}

\* coins a predicate, or records events and observations.
Coin(word) ==
  /\ word \notin vocabulary
  /\ vocabulary' = vocabulary \cup {word}
  /\ UNCHANGED <<candidates, signals, extracted, calls, holder>> /\ answer' = {}

Signal(found) ==
  /\ found # signals
  /\ signals' = found
  /\ UNCHANGED <<candidates, vocabulary, extracted, calls, holder>> /\ answer' = {}

\* The server stops, and what it was doing.
Stop ==
  /\ \E s \in Sessions : ~At(s, "idle")
  /\ calls' = [s \in Sessions |-> Idle]
  /\ holder' = {} /\ answer' = {}
  /\ UNCHANGED store

Next ==
  \/ \E s \in Sessions, tool \in Tools : \E arg \in Arguments(tool) : Call(s, tool, arg)
  \/ \E s \in Sessions : Acquire(s) \/ Reply(s) \/ Timeout(s) \/ Compute(s)
  \/ \E c \in Candidates, status \in {"PROMOTED", "REJECTED"} : Elsewhere(c, status)
  \/ \E word \in Coined : Coin(word)
  \/ \E found \in SUBSET Signals : Signal(found)
  \/ Stop

Spec == Init /\ [][Next]_vars

\* Threads run, the mutex is given to some waiting call, and clients give up;
\* nothing is assumed of endpoints, of other processes or of which call is next.
FairSpec ==
  /\ Spec
  /\ WF_vars(\E s \in Sessions : Acquire(s))
  /\ \A s \in Sessions : WF_vars(Compute(s)) /\ WF_vars(Timeout(s))

-----------------------------------------------------------------------------

ToolsTypeOK ==
  /\ candidates \in [Candidates -> Decided]
  /\ vocabulary \subseteq Words /\ signals \subseteq Signals
  /\ extracted \subseteq DOMAIN Tree
  /\ \A s \in Sessions : s \in holder <=> ~At(s, "idle") /\ ~At(s, "waiting")
  /\ Cardinality(holder) <= 1

Offered(reply, word) ==
  \/ reply.by = "key" /\ reply.key = word
  \/ reply.by = "index" /\ word = (<<"promote", "reject", "hold">>)[reply.at + 1]

\* A decision is made once, and one made for the model was its own: of a triage,
\* with a confidence at the floor or above.
DecisionsAreOwn ==
  \A c \in Candidates :
    candidates'[c] # candidates[c] =>
      /\ candidates[c].status = "PENDING"
      /\ candidates'[c].by = "model" =>
           \E a \in answer' :
             LET reply == a.call.reply IN
             /\ a.call.tool = "triage" /\ a.call.arg = c
             /\ reply.confidence \in Confidences /\ reply.confidence >= Floor
             /\ Offered(reply, IF candidates'[c].status = "PROMOTED" THEN "promote" ELSE "reject")

AnswerIsTrue(call, said) ==
  /\ said.word = "promote" => candidates'[call.arg].status = "PROMOTED"
  /\ said.word = "reject" => candidates'[call.arg].status = "REJECTED"
  /\ said.word \in {"hold", "error"} => UNCHANGED candidates
  /\ said.word = "extracted" /\ call.arg = "tree" =>
       /\ Cardinality(extracted') = said.ingested
       /\ said.ingested + said.private = Len(Tree)
       /\ \A i \in extracted' : Tree[i] = "kept"
  /\ "model" \in said.reasons =>
       /\ said.reasons \ {"model"} = {"gap"}
       /\ call.reply.confidence >= Floor

\* What an answer says of a call is so, whatever others did while its endpoint
\* was asked (ADR-0024): a decision reported stands; a call that reports a hold or
\* an error changed no candidate, a model only ever adds its own reason to a lone
\* gap, and an extraction that ends well has written every fact it counts and no
\* private one.
AnswersAreTrue == [][DecisionsAreOwn /\ \A a \in answer' : AnswerIsTrue(a.call, a.said)]_vars

\* However a user's predicates meet the options' own names, what is asked is a
\* valid decision, and what is suggested is a predicate of the vocabulary or the
\* model's own "no match"; a scope suggested is one that was allowed.
SuggestionsStayInVocabulary ==
  \A name \in Words \ vocabulary :
    LET options == NormalizeOptions(name, vocabulary)
        none == Last(options)
        guess == Suggest(name, vocabulary)
    IN /\ Valid(options)
       /\ \A w \in vocabulary : Hints(name, w) => w \in ToSet(options)
       /\ \A reply \in Replies(options) :
            LET suggested == NormalizePredicate(name, vocabulary, options, guess, reply)
            IN /\ suggested \in vocabulary \cup {Nothing}
               /\ reply.by = "key" /\ reply.confidence >= Floor =>
                    CASE reply.key = none -> suggested = Nothing
                      [] reply.key \in vocabulary /\ reply.key # none -> suggested = reply.key
                      [] OTHER -> suggested = guess
               /\ SuggestScope(options, reply) \in ToSet(options) \cup {Nothing}

\* A stalled endpoint does not block every session: whoever holds the mutex lets
\* it go, and while calls wait one of them gets it, unless the server stops.
StalledEndpointBlocksNobody ==
  /\ \A s \in Sessions : s \in holder ~> s \notin holder
  /\ (\E s \in Sessions : At(s, "waiting"))
       ~> (holder # {} \/ \A s \in Sessions : ~At(s, "waiting"))
=============================================================================
