--------------------------- MODULE ToolCallsProofs ---------------------------
(***************************************************************************)
(* ToolCalls, for any number of sessions and candidates, any tree and any  *)
(* floor: one call at a time has the mutex, what an answer says of its     *)
(* call is so, whatever others did while the call asked an endpoint, and   *)
(* what is suggested for a predicate is in the vocabulary.                 *)
(***************************************************************************)
EXTENDS ToolCalls, FiniteSetTheorems, TLAPS

\* Only the lemmas about orders are needed, for which any operator does.
Either(a, b) == {a, b}
Orders == INSTANCE DataLemmas WITH Op <- Either

\* What the instance counts is what is counted here.
LEMMA SameFiniteness ==
  ASSUME NEW T
  PROVE  Orders!IsFiniteSet(T) = IsFiniteSet(T)
BY DEF Orders!IsFiniteSet, IsFiniteSet

LEMMA SameCounting ==
  ASSUME NEW T
  PROVE  Orders!Cardinality(T) = Cardinality(T)
BY SameFiniteness DEF Orders!Cardinality, Cardinality

-----------------------------------------------------------------------------
(* The inductive invariant. *)

Places == {"waiting", "begun", "asking", "heard", "listing", "promoting", "rejecting", "writing"}

\* What a call may have been told.
Heard == {Failed} \cup Replies(TriageOptions) \cup Replies(TriggerOptions) \cup RepliesTo("recall")

ActiveCalls ==
  [at : Places, tool : Tools, arg : UNION {Arguments(tool) : tool \in Tools}, reply : Heard,
   found : SUBSET Signals, done : Nat]

\* A call of triage has the model's own word for a decision, above the floor.
Backed(call, word) ==
  call.tool = "triage" =>
    /\ call.reply.confidence \in Confidences /\ call.reply.confidence >= Floor
    /\ Offered(call.reply, word)

\* What a call has read or heard before the step it is at.
CallOK(call, got) ==
  /\ call.arg \in Arguments(call.tool)
  /\ call.at \in {"waiting", "begun"} => call.done = 0
  /\ call.at \in {"asking", "heard"} => call.tool \in {"triage", "should_extract", "recall"}
  /\ call.at = "listing" => call.tool = "should_extract"
  /\ call.tool = "should_extract" /\ call.at \in {"listing", "asking", "heard"}
       => call.found = {"gap"}
  /\ call.tool = "triage" /\ call.at = "heard" => call.reply \in Replies(TriageOptions)
  /\ call.at = "promoting" => call.tool \in {"promote", "triage"} /\ Backed(call, "promote")
  /\ call.at = "rejecting" => call.tool \in {"reject", "triage"} /\ Backed(call, "reject")
  /\ call.at = "writing" =>
       /\ call.tool = "extract" /\ call.arg = "tree"
       /\ Ingested(call.done) \subseteq got

CallsOK ==
  /\ calls \in [Sessions -> {Idle} \cup ActiveCalls]
  /\ \A s \in Sessions : calls[s] = Idle \/ CallOK(calls[s], extracted)

\* One call has the mutex, and it is the one that is neither idle nor waiting.
HolderOK ==
  /\ holder = {} \/ \E s \in Sessions : holder = {s}
  /\ \A s \in Sessions : s \in holder <=> ~At(s, "idle") /\ ~At(s, "waiting")

StoreOK ==
  /\ candidates \in [Candidates -> Decided]
  /\ vocabulary \subseteq Words /\ vocabulary # {} /\ signals \subseteq Signals
  /\ extracted \subseteq {i \in DOMAIN Tree : Tree[i] = "kept"}

ToolsInv == StoreOK /\ CallsOK /\ HolderOK

\* What a step must not do.
Outcome == DecisionsAreOwn /\ \A a \in answer' : AnswerIsTrue(a.call, a.said)

-----------------------------------------------------------------------------
(* The model's answers. *)

LEMMA TriageNames ==
  /\ DOMAIN TriageOptions = {1, 2, 3}
  /\ TriageOptions[1] = "promote" /\ TriageOptions[2] = "reject" /\ TriageOptions[3] = "hold"
BY DEF TriageOptions

\* What decide returns, unless it fails, is an option the reply names.
LEMMA DecideChooses ==
  ASSUME NEW reply, Decide(TriageOptions, reply) # 0
  PROVE  Decide(TriageOptions, reply) \in Chosen(TriageOptions, reply)
<1> DEFINE C == Chosen(TriageOptions, reply)
<1>1. C # {} /\ Decide(TriageOptions, reply) = Min(C)
  BY DEF Decide
<1>2. C \subseteq {1, 2, 3}
  BY TriageNames DEF Chosen
<1> HIDE DEF C
<1>3. \E x \in C : \A y \in C : x <= y
  <2>1. CASE 1 \in C
    BY <2>1, <1>2
  <2>2. CASE 1 \notin C /\ 2 \in C
    BY <2>2, <1>2
  <2>3. CASE 1 \notin C /\ 2 \notin C
    <3>1. C = {3}
      BY <2>3, <1>1, <1>2
    <3> QED
      BY <3>1
  <2> QED
    BY <2>1, <2>2, <2>3
<1>4. Min(C) \in C
  BY <1>3 DEF Min
<1> QED
  BY <1>1, <1>4 DEF C

\* A reply that names an option and meets the floor backs that option.
LEMMA ChoiceIsBacked ==
  ASSUME NEW reply \in Replies(TriageOptions), Meets(reply),
         NEW i \in Chosen(TriageOptions, reply)
  PROVE  /\ i \in {1, 2, 3}
         /\ reply.confidence \in Confidences /\ reply.confidence >= Floor
         /\ Offered(reply, TriageOptions[i])
<1>1. i \in {1, 2, 3}
  BY TriageNames DEF Chosen
<1>2. reply # Failed
  BY DEF Meets, Failed
<1>3. reply.confidence \in Confidences \cup {Unreported}
  BY <1>2 DEF Replies
<1>4. reply.confidence \in Confidences /\ reply.confidence >= Floor
  BY <1>3 DEF Meets
<1>5. Offered(reply, TriageOptions[i])
  <2>1. CASE reply.by = "key" /\ reply.key = TriageOptions[i]
    BY <2>1 DEF Offered
  <2>2. CASE reply.by = "index" /\ reply.at = i - 1
    <3>1. reply.at + 1 = i
      BY <2>2, <1>1
    <3> QED
      BY <2>2, <3>1 DEF Offered, TriageOptions
  <2> QED
    BY <2>1, <2>2 DEF Chosen
<1> QED
  BY <1>1, <1>4, <1>5

-----------------------------------------------------------------------------
(* What a call does to the calls and to the mutex. *)

\* Who is neither idle nor waiting has a call, and the mutex.
LEMMA Holds ==
  ASSUME ToolsInv, NEW s \in Sessions, NEW place \in Places \ {"waiting"}, At(s, place)
  PROVE  s \in holder /\ calls[s] \in ActiveCalls /\ CallOK(calls[s], extracted)
<1>1. calls[s].at # "idle" /\ calls[s].at # "waiting"
  BY DEF At, Places
<1>2. s \in holder
  BY <1>1 DEF ToolsInv, HolderOK, At
<1>3. calls[s] # Idle
  BY <1>1 DEF Idle
<1> QED
  BY <1>2, <1>3 DEF ToolsInv, CallsOK

\* The session that has the mutex goes on with its call,
LEMMA Continues ==
  ASSUME ToolsInv, NEW s \in Sessions, s \in holder,
         NEW call \in ActiveCalls, call.at # "waiting",
         calls' = [calls EXCEPT ![s] = call], holder' = holder,
         CallOK(call, extracted'), extracted \subseteq extracted'
  PROVE  CallsOK' /\ HolderOK'
<1>1. calls \in [Sessions -> {Idle} \cup ActiveCalls]
  BY DEF ToolsInv, CallsOK
<1>2. calls' \in [Sessions -> {Idle} \cup ActiveCalls]
  BY <1>1
<1>3. ASSUME NEW r \in Sessions PROVE calls'[r] = Idle \/ CallOK(calls'[r], extracted')
  <2>1. CASE r = s
    BY <2>1, <1>1
  <2>2. CASE r # s
    <3>1. calls'[r] = calls[r]
      BY <2>2, <1>1
    <3>2. calls[r] = Idle \/ CallOK(calls[r], extracted)
      BY DEF ToolsInv, CallsOK
    <3> QED
      BY <3>1, <3>2 DEF CallOK
  <2> QED
    BY <2>1, <2>2
<1>4. CallsOK'
  BY <1>2, <1>3 DEF CallsOK
<1>5. call.at # "idle"
  BY DEF ActiveCalls, Places
<1>6. ASSUME NEW r \in Sessions
      PROVE  r \in holder <=> calls'[r].at # "idle" /\ calls'[r].at # "waiting"
  BY <1>1, <1>5 DEF ToolsInv, HolderOK, At
<1>7. HolderOK'
  BY <1>6 DEF ToolsInv, HolderOK, At
<1> QED
  BY <1>4, <1>7

\* or answers and lets it go.
LEMMA Releases ==
  ASSUME ToolsInv, NEW s \in Sessions, s \in holder, NEW said, Return(s, said),
         extracted' = extracted
  PROVE  CallsOK' /\ HolderOK'
<1>1. calls \in [Sessions -> {Idle} \cup ActiveCalls]
  BY DEF ToolsInv, CallsOK
<1>2. calls' = [calls EXCEPT ![s] = Idle] /\ holder' = {}
  BY DEF Return
<1>3. CallsOK'
  BY <1>1, <1>2 DEF ToolsInv, CallsOK
<1>4. holder = {s}
  BY DEF ToolsInv, HolderOK
<1>5. ASSUME NEW r \in Sessions PROVE calls'[r].at \in {"idle", "waiting"}
  <2>1. CASE r = s
    BY <2>1, <1>1, <1>2 DEF Idle
  <2>2. CASE r # s
    <3>1. r \notin holder /\ calls'[r] = calls[r]
      BY <2>2, <1>1, <1>2, <1>4
    <3> QED
      BY <3>1 DEF ToolsInv, HolderOK, At
  <2> QED
    BY <2>1, <2>2
<1>6. HolderOK'
  BY <1>2, <1>5 DEF HolderOK, At
<1> QED
  BY <1>3, <1>6

\* No answer, and no decision: nothing is claimed.
LEMMA Silent ==
  ASSUME answer' = {}, UNCHANGED candidates
  PROVE  Outcome
BY DEF Outcome, DecisionsAreOwn

\* An answer that is so, of a call that decided nothing.
LEMMA Answers ==
  ASSUME NEW s, NEW said, Return(s, said), UNCHANGED candidates, AnswerIsTrue(calls[s], said)
  PROVE  Outcome
<1>1. DecisionsAreOwn
  BY DEF DecisionsAreOwn
<1>2. answer' = {[session |-> s, call |-> calls[s], said |-> said]}
  BY DEF Return
<1>3. \A a \in answer' : a.call = calls[s] /\ a.said = said
  BY <1>2
<1> QED
  BY <1>1, <1>3 DEF Outcome

\* An error, a hold, and the words that say nothing of a store.
LEMMA Errors ==
  ASSUME NEW s, NEW word \in {"error", "hold", "keyword", "hybrid"}, Return(s, Said(word)),
         UNCHANGED candidates
  PROVE  Outcome
<1>1. Said(word).word = word /\ Said(word).reasons = {}
  BY DEF Said
<1>2. AnswerIsTrue(calls[s], Said(word))
  BY <1>1 DEF AnswerIsTrue
<1> QED
  BY <1>2, Answers

-----------------------------------------------------------------------------
(* The steps; each keeps the invariant and leaves its outcome true. *)

Good == CallsOK' /\ HolderOK' /\ Outcome

\* The call goes on to a place where what it knows is enough,
LEMMA MoveIsGood ==
  ASSUME ToolsInv, NEW s \in Sessions, s \in holder, calls[s] \in ActiveCalls,
         NEW place \in Places \ {"waiting"}, Move(s, place), Stay, UNCHANGED store,
         CallOK([calls[s] EXCEPT !.at = place], extracted)
  PROVE  Good
<1> DEFINE call == [calls[s] EXCEPT !.at = place]
<1>1. call \in ActiveCalls /\ call.at = place
  BY DEF ActiveCalls
<1>2. calls' = [calls EXCEPT ![s] = call]
  BY DEF Move
<1>3. extracted' = extracted /\ candidates' = candidates /\ holder' = holder /\ answer' = {}
  BY DEF store, Stay
<1>4. CallOK(call, extracted') /\ call.at # "waiting"
  BY <1>1, <1>3
<1> HIDE DEF call
<1>5. CallsOK' /\ HolderOK'
  BY <1>1, <1>2, <1>3, <1>4, Continues
<1>6. Outcome
  BY <1>3, Silent
<1> QED
  BY <1>5, <1>6 DEF Good

\* or ends with words that are so of a store it did not change.
LEMMA ReturnIsGood ==
  ASSUME ToolsInv, NEW s \in Sessions, s \in holder, NEW said, Return(s, said), UNCHANGED store,
         AnswerIsTrue(calls[s], said)
  PROVE  Good
<1>1. extracted' = extracted /\ UNCHANGED candidates
  BY DEF store
<1>2. CallsOK' /\ HolderOK'
  BY <1>1, Releases
<1>3. Outcome
  BY <1>1, Answers
<1> QED
  BY <1>2, <1>3 DEF Good

LEMMA ErrorIsGood ==
  ASSUME ToolsInv, NEW s \in Sessions, s \in holder,
         NEW word \in {"error", "hold", "keyword", "hybrid"}, Return(s, Said(word)), UNCHANGED store
  PROVE  Good
<1>1. extracted' = extracted /\ UNCHANGED candidates
  BY DEF store
<1>2. CallsOK' /\ HolderOK'
  BY <1>1, Releases
<1>3. Outcome
  BY <1>1, Errors
<1> QED
  BY <1>2, <1>3 DEF Good

LEMMA StartPromoteIsGood ==
  ASSUME ToolsInv, NEW s \in Sessions, s \in holder, calls[s] \in ActiveCalls,
         CallOK(calls[s], extracted), calls[s].tool \in {"promote", "triage"},
         Backed(calls[s], "promote"), StartPromote(s), UNCHANGED store
  PROVE  Good
<1> DEFINE c == calls[s].arg
<1>1. c \in Candidates
  BY DEF CallOK, CandidateTools, Arguments
<1>2. candidates[c].status \in {"PENDING", "PROMOTED", "REJECTED"}
  BY <1>1 DEF ToolsInv, StoreOK, Decided
<1>3. CASE candidates[c].status = "REJECTED"
  <2>1. Return(s, Said("error"))
    BY <1>3 DEF StartPromote
  <2> QED
    BY <2>1, ErrorIsGood
<1>4. CASE candidates[c].status = "PROMOTED"
  <2>1. Return(s, Said("promote"))
    BY <1>4 DEF StartPromote
  <2>2. Said("promote").word = "promote" /\ Said("promote").reasons = {}
    BY DEF Said
  <2>3. candidates' = candidates
    BY DEF store
  <2>4. AnswerIsTrue(calls[s], Said("promote"))
    BY <1>4, <2>2, <2>3 DEF AnswerIsTrue
  <2> QED
    BY <2>1, <2>4, ReturnIsGood
<1>5. CASE candidates[c].status = "PENDING" /\ PredicateOf[c] \notin vocabulary
  <2>1. Return(s, Said("error"))
    BY <1>5 DEF StartPromote
  <2> QED
    BY <2>1, ErrorIsGood
<1>6. CASE candidates[c].status = "PENDING" /\ PredicateOf[c] \in vocabulary
  <2>1. Move(s, "promoting") /\ Stay
    BY <1>6 DEF StartPromote
  <2>2. CallOK([calls[s] EXCEPT !.at = "promoting"], extracted)
    BY DEF CallOK, ActiveCalls, Backed
  <2>3. "promoting" \in Places \ {"waiting"}
    BY DEF Places
  <2> QED
    BY <2>1, <2>2, <2>3, MoveIsGood
<1> QED
  BY <1>2, <1>3, <1>4, <1>5, <1>6

LEMMA StartRejectIsGood ==
  ASSUME ToolsInv, NEW s \in Sessions, s \in holder, calls[s] \in ActiveCalls,
         CallOK(calls[s], extracted), calls[s].tool \in {"reject", "triage"},
         Backed(calls[s], "reject"), StartReject(s), UNCHANGED store
  PROVE  Good
<1>1. CASE candidates[calls[s].arg].status = "PROMOTED"
  <2>1. Return(s, Said("error"))
    BY <1>1 DEF StartReject
  <2> QED
    BY <2>1, ErrorIsGood
<1>2. CASE candidates[calls[s].arg].status # "PROMOTED"
  <2>1. Move(s, "rejecting") /\ Stay
    BY <1>2 DEF StartReject
  <2>2. CallOK([calls[s] EXCEPT !.at = "rejecting"], extracted)
    BY DEF CallOK, ActiveCalls, Backed
  <2>3. "rejecting" \in Places \ {"waiting"}
    BY DEF Places
  <2> QED
    BY <2>1, <2>2, <2>3, MoveIsGood
<1> QED
  BY <1>1, <1>2

LEMMA BeginDecisionStep ==
  ASSUME ToolsInv, NEW s \in Sessions, BeginDecision(s)
  PROVE  StoreOK' /\ Good
<1>1. At(s, "begun") /\ UNCHANGED store
  BY DEF BeginDecision, Runs
<1>2. s \in holder /\ calls[s] \in ActiveCalls /\ CallOK(calls[s], extracted)
  BY <1>1, Holds DEF Places
<1>3. StoreOK'
  BY <1>1 DEF ToolsInv, StoreOK, store
<1>4. CASE calls[s].tool = "promote" /\ StartPromote(s)
  <2>1. Backed(calls[s], "promote")
    BY <1>4 DEF Backed
  <2> QED
    BY <1>1, <1>2, <1>3, <1>4, <2>1, StartPromoteIsGood
<1>5. CASE calls[s].tool = "reject" /\ StartReject(s)
  <2>1. Backed(calls[s], "reject")
    BY <1>5 DEF Backed
  <2> QED
    BY <1>1, <1>2, <1>3, <1>5, <2>1, StartRejectIsGood
<1> QED
  BY <1>4, <1>5 DEF BeginDecision, Runs

LEMMA BeginTriageStep ==
  ASSUME ToolsInv, NEW s \in Sessions, BeginTriage(s)
  PROVE  StoreOK' /\ Good
<1>1. At(s, "begun") /\ calls[s].tool = "triage" /\ UNCHANGED store
  BY DEF BeginTriage, Runs
<1>2. s \in holder /\ calls[s] \in ActiveCalls /\ CallOK(calls[s], extracted)
  BY <1>1, Holds DEF Places
<1>3. StoreOK'
  BY <1>1 DEF ToolsInv, StoreOK, store
<1>4. CASE Move(s, "asking") /\ Stay
  <2>1. CallOK([calls[s] EXCEPT !.at = "asking"], extracted)
    BY <1>1, <1>2 DEF CallOK, ActiveCalls
  <2>2. "asking" \in Places \ {"waiting"}
    BY DEF Places
  <2> QED
    BY <1>1, <1>2, <1>3, <1>4, <2>1, <2>2, MoveIsGood
<1>5. CASE Return(s, Said("error"))
  BY <1>1, <1>2, <1>3, <1>5, ErrorIsGood
<1> QED
  BY <1>4, <1>5 DEF BeginTriage

LEMMA UseTriageStep ==
  ASSUME ToolsInv, NEW s \in Sessions, UseTriage(s)
  PROVE  StoreOK' /\ Good
<1> DEFINE reply == calls[s].reply
           index == Decide(TriageOptions, reply)
           choice == IF Meets(reply) THEN TriageOptions[index] ELSE "hold"
<1>1. At(s, "heard") /\ calls[s].tool = "triage" /\ UNCHANGED store
  BY DEF UseTriage, Runs
<1>2. s \in holder /\ calls[s] \in ActiveCalls /\ CallOK(calls[s], extracted)
  BY <1>1, Holds DEF Places
<1>3. StoreOK'
  BY <1>1 DEF ToolsInv, StoreOK, store
<1>4. reply \in Replies(TriageOptions)
  BY <1>1, <1>2 DEF CallOK, At
<1>5. CASE index = 0
  <2>1. Return(s, Said("error"))
    BY <1>5 DEF UseTriage
  <2> QED
    BY <1>1, <1>2, <1>3, <2>1, ErrorIsGood
<1>6. CASE index # 0
  <2>1. index \in Chosen(TriageOptions, reply)
    BY <1>6, DecideChooses
  <2>2. index \in {1, 2, 3}
    BY <2>1, TriageNames DEF Chosen
  <2>3. choice \in {"promote", "reject", "hold"}
    BY <2>2, TriageNames
  <2>4. ASSUME Meets(reply) PROVE Backed(calls[s], choice)
    BY <1>4, <2>1, <2>4, ChoiceIsBacked DEF Backed
  <2>5. CASE choice = "promote"
    <3>1. Meets(reply)
      BY <2>5
    <3>2. Backed(calls[s], "promote")
      BY <2>4, <2>5, <3>1
    <3>3. StartPromote(s)
      BY <1>6, <2>5 DEF UseTriage
    <3> QED
      BY <1>1, <1>2, <1>3, <3>2, <3>3, StartPromoteIsGood
  <2>6. CASE choice = "reject"
    <3>1. Meets(reply)
      BY <2>6
    <3>2. Backed(calls[s], "reject")
      BY <2>4, <2>6, <3>1
    <3>3. StartReject(s)
      BY <1>6, <2>6 DEF UseTriage
    <3> QED
      BY <1>1, <1>2, <1>3, <3>2, <3>3, StartRejectIsGood
  <2>7. CASE choice = "hold"
    <3>1. Return(s, Said("hold"))
      BY <1>6, <2>7 DEF UseTriage
    <3> QED
      BY <1>1, <1>2, <1>3, <3>1, ErrorIsGood
  <2> QED
    BY <2>3, <2>5, <2>6, <2>7
<1> QED
  BY <1>5, <1>6

\* A decision of the call itself, and the word for it.
LEMMA DecisionIsOwn ==
  ASSUME ToolsInv, NEW s \in Sessions,
         NEW status \in {"PROMOTED", "REJECTED"}, NEW word \in {"promote", "reject"},
         word = (IF status = "PROMOTED" THEN "promote" ELSE "reject"),
         calls[s].arg \in Candidates, candidates[calls[s].arg].status = "PENDING",
         candidates' = [candidates EXCEPT ![calls[s].arg] = [status |-> status, by |-> By(s)]],
         Backed(calls[s], word), Return(s, Said(word))
  PROVE  Outcome
<1> DEFINE c == calls[s].arg
<1>1. answer' = {[session |-> s, call |-> calls[s], said |-> Said(word)]}
  BY DEF Return
<1>2. candidates \in [Candidates -> Decided]
  BY DEF ToolsInv, StoreOK
<1>3. candidates'[c] = [status |-> status, by |-> By(s)]
  BY <1>2
<1>4. ASSUME NEW d \in Candidates, candidates'[d] # candidates[d]
      PROVE  d = c
  BY <1>2, <1>4
<1>5. ASSUME candidates'[c].by = "model"
      PROVE  \E a \in answer' :
               LET reply == a.call.reply IN
               /\ a.call.tool = "triage" /\ a.call.arg = c
               /\ reply.confidence \in Confidences /\ reply.confidence >= Floor
               /\ Offered(reply, IF candidates'[c].status = "PROMOTED" THEN "promote" ELSE "reject")
  <2>1. calls[s].tool = "triage"
    BY <1>3, <1>5 DEF By
  <2>2. /\ calls[s].reply.confidence \in Confidences /\ calls[s].reply.confidence >= Floor
        /\ Offered(calls[s].reply, word)
    BY <2>1 DEF Backed
  <2>3. word = (IF candidates'[c].status = "PROMOTED" THEN "promote" ELSE "reject")
    BY <1>3
  <2> DEFINE a == [session |-> s, call |-> calls[s], said |-> Said(word)]
  <2>4. a \in answer' /\ a.call = calls[s]
    BY <1>1
  <2> HIDE DEF a
  <2> QED
    BY <2>1, <2>2, <2>3, <2>4
<1>6. DecisionsAreOwn
  BY <1>4, <1>5 DEF DecisionsAreOwn
<1>7. Said(word).word = word /\ Said(word).reasons = {}
  BY DEF Said
<1>8. AnswerIsTrue(calls[s], Said(word))
  BY <1>3, <1>7 DEF AnswerIsTrue
<1>9. \A a \in answer' : a.call = calls[s] /\ a.said = Said(word)
  BY <1>1
<1> QED
  BY <1>6, <1>8, <1>9 DEF Outcome

LEMMA WritePromoteStep ==
  ASSUME ToolsInv, NEW s \in Sessions, WritePromote(s)
  PROVE  StoreOK' /\ Good
<1> DEFINE c == calls[s].arg
<1>1. At(s, "promoting") /\ UNCHANGED <<vocabulary, signals, extracted>>
  BY DEF WritePromote
<1>2. s \in holder /\ calls[s] \in ActiveCalls /\ CallOK(calls[s], extracted)
  BY <1>1, Holds DEF Places
<1>3. calls[s].tool \in {"promote", "triage"} /\ Backed(calls[s], "promote")
  BY <1>1, <1>2 DEF CallOK, At
<1>4. c \in Candidates
  BY <1>2, <1>3 DEF CallOK, CandidateTools, Arguments
<1>5. CASE candidates[c].status = "PENDING"
  <2>1. /\ candidates' = [candidates EXCEPT ![c] = [status |-> "PROMOTED", by |-> By(s)]]
        /\ Return(s, Said("promote"))
    BY <1>5 DEF WritePromote
  <2>2. StoreOK'
    BY <1>1, <1>4, <2>1 DEF ToolsInv, StoreOK, Decided, By
  <2>3. CallsOK' /\ HolderOK'
    BY <1>1, <1>2, <2>1, Releases
  <2>4. Outcome
    BY <1>3, <1>4, <1>5, <2>1, DecisionIsOwn
  <2> QED
    BY <2>2, <2>3, <2>4 DEF Good
<1>6. CASE candidates[c].status # "PENDING"
  <2>1. candidates' = candidates /\ Return(s, Said("error"))
    BY <1>6 DEF WritePromote
  <2>2. UNCHANGED store
    BY <1>1, <2>1 DEF store
  <2>3. StoreOK'
    BY <2>2 DEF ToolsInv, StoreOK, store
  <2> QED
    BY <1>2, <2>1, <2>2, <2>3, ErrorIsGood
<1> QED
  BY <1>5, <1>6

LEMMA WriteRejectStep ==
  ASSUME ToolsInv, NEW s \in Sessions, WriteReject(s)
  PROVE  StoreOK' /\ Good
<1> DEFINE c == calls[s].arg
           rejected == [status |-> "REJECTED", by |-> By(s)]
<1>1. At(s, "rejecting") /\ UNCHANGED <<vocabulary, signals, extracted>>
  BY DEF WriteReject
<1>2. s \in holder /\ calls[s] \in ActiveCalls /\ CallOK(calls[s], extracted)
  BY <1>1, Holds DEF Places
<1>3. calls[s].tool \in {"reject", "triage"} /\ Backed(calls[s], "reject")
  BY <1>1, <1>2 DEF CallOK, At
<1>4. c \in Candidates
  BY <1>2, <1>3 DEF CallOK, CandidateTools, Arguments
<1>5. candidates \in [Candidates -> Decided]
  BY DEF ToolsInv, StoreOK
<1>6. CASE candidates[c].status = "PENDING"
  <2>1. candidates' = [candidates EXCEPT ![c] = rejected]
    BY <1>6 DEF WriteReject
  <2>2. candidates'[c] = rejected
    BY <1>4, <1>5, <2>1
  <2>3. Return(s, Said("reject"))
    BY <2>2 DEF WriteReject
  <2>4. StoreOK'
    BY <1>1, <1>4, <2>1 DEF ToolsInv, StoreOK, Decided, By
  <2>5. CallsOK' /\ HolderOK'
    BY <1>1, <1>2, <2>3, Releases
  <2>6. Outcome
    BY <1>3, <1>4, <1>6, <2>1, <2>3, DecisionIsOwn
  <2> QED
    BY <2>4, <2>5, <2>6 DEF Good
<1>7. CASE candidates[c].status # "PENDING"
  <2>1. candidates' = candidates
    BY <1>7 DEF WriteReject
  <2>2. UNCHANGED store
    BY <1>1, <2>1 DEF store
  <2>3. StoreOK'
    BY <2>2 DEF ToolsInv, StoreOK, store
  <2>4. CASE candidates[c] = rejected
    <3>1. Return(s, Said("reject"))
      BY <2>1, <2>4 DEF WriteReject
    <3>2. Said("reject").word = "reject" /\ Said("reject").reasons = {}
      BY DEF Said
    <3>3. candidates'[c].status = "REJECTED"
      BY <2>1, <2>4
    <3>4. AnswerIsTrue(calls[s], Said("reject"))
      BY <3>2, <3>3 DEF AnswerIsTrue
    <3> QED
      BY <1>2, <2>2, <2>3, <3>1, <3>4, ReturnIsGood
  <2>5. CASE candidates[c] # rejected
    <3>1. Return(s, Said("error"))
      BY <2>1, <2>5 DEF WriteReject
    <3> QED
      BY <1>2, <2>2, <2>3, <3>1, ErrorIsGood
  <2> QED
    BY <2>4, <2>5
<1> QED
  BY <1>6, <1>7

-----------------------------------------------------------------------------
(* should_extract_memories. *)

\* What is answered without a model, and with one: its reason joins a lone gap.
LEMMA ExtractionIsTrue ==
  ASSUME NEW call, NEW reasons,
         "model" \in reasons => reasons \ {"model"} = {"gap"} /\ call.reply.confidence >= Floor
  PROVE  AnswerIsTrue(call, Extraction(reasons))
<1>1. Extraction(reasons).word \in {"extract", "skip"} /\ Extraction(reasons).reasons = reasons
  BY DEF Extraction, Said
<1> QED
  BY <1>1 DEF AnswerIsTrue

LEMMA BeginExtractionStep ==
  ASSUME ToolsInv, NEW s \in Sessions, BeginExtraction(s)
  PROVE  StoreOK' /\ Good
<1>1. At(s, "begun") /\ calls[s].tool = "should_extract" /\ UNCHANGED store
  BY DEF BeginExtraction, Runs
<1>2. s \in holder /\ calls[s] \in ActiveCalls /\ CallOK(calls[s], extracted)
  BY <1>1, Holds DEF Places
<1>3. StoreOK'
  BY <1>1 DEF ToolsInv, StoreOK, store
<1>4. CASE signals = {"gap"}
  <2> DEFINE call == [calls[s] EXCEPT !.at = "listing", !.found = signals]
  <2>1. calls' = [calls EXCEPT ![s] = call] /\ Stay
    BY <1>4 DEF BeginExtraction
  <2>2. call \in ActiveCalls /\ call.at = "listing"
    BY <1>2, <1>4 DEF ActiveCalls, Places, Signals
  <2>3. CallOK(call, extracted)
    BY <1>1, <1>2, <1>4 DEF CallOK, ActiveCalls, CandidateTools
  <2> HIDE DEF call
  <2>4. extracted' = extracted /\ candidates' = candidates /\ holder' = holder /\ answer' = {}
    BY <1>1, <2>1 DEF store, Stay
  <2>5. CallsOK' /\ HolderOK'
    BY <1>2, <2>1, <2>2, <2>3, <2>4, Continues
  <2>6. Outcome
    BY <2>4, Silent
  <2> QED
    BY <1>3, <2>5, <2>6 DEF Good
<1>5. CASE signals # {"gap"}
  <2>1. Return(s, Extraction(signals))
    BY <1>5 DEF BeginExtraction
  <2>2. "model" \notin signals
    BY DEF ToolsInv, StoreOK, Signals
  <2>3. AnswerIsTrue(calls[s], Extraction(signals))
    BY <2>2, ExtractionIsTrue
  <2> QED
    BY <1>1, <1>2, <1>3, <2>1, <2>3, ReturnIsGood
<1> QED
  BY <1>4, <1>5

LEMMA ListUncoveredStep ==
  ASSUME ToolsInv, NEW s \in Sessions, ListUncovered(s)
  PROVE  StoreOK' /\ Good
<1>1. At(s, "listing") /\ UNCHANGED store
  BY DEF ListUncovered
<1>2. s \in holder /\ calls[s] \in ActiveCalls /\ CallOK(calls[s], extracted)
  BY <1>1, Holds DEF Places
<1>3. StoreOK'
  BY <1>1 DEF ToolsInv, StoreOK, store
<1>4. calls[s].tool = "should_extract" /\ calls[s].found = {"gap"}
  BY <1>1, <1>2 DEF CallOK, At
<1>5. CASE Move(s, "asking") /\ Stay
  <2>1. CallOK([calls[s] EXCEPT !.at = "asking"], extracted)
    BY <1>2, <1>4 DEF CallOK, ActiveCalls, CandidateTools
  <2>2. "asking" \in Places \ {"waiting"}
    BY DEF Places
  <2> QED
    BY <1>1, <1>2, <1>3, <1>5, <2>1, <2>2, MoveIsGood
<1>6. CASE Return(s, Extraction(calls[s].found))
  <2>1. AnswerIsTrue(calls[s], Extraction(calls[s].found))
    BY <1>4, ExtractionIsTrue
  <2> QED
    BY <1>1, <1>2, <1>3, <1>6, <2>1, ReturnIsGood
<1> QED
  BY <1>5, <1>6 DEF ListUncovered

LEMMA UseTriggerStep ==
  ASSUME ToolsInv, NEW s \in Sessions, UseTrigger(s)
  PROVE  StoreOK' /\ Good
<1> DEFINE reply == calls[s].reply
           extract == Decide(TriggerOptions, reply) = 1 /\ Meets(reply)
           reasons == calls[s].found \cup (IF extract THEN {"model"} ELSE {})
<1>1. At(s, "heard") /\ calls[s].tool = "should_extract" /\ UNCHANGED store
  BY DEF UseTrigger, Runs
<1>2. s \in holder /\ calls[s] \in ActiveCalls /\ CallOK(calls[s], extracted)
  BY <1>1, Holds DEF Places
<1>3. StoreOK'
  BY <1>1 DEF ToolsInv, StoreOK, store
<1>4. calls[s].found = {"gap"}
  BY <1>1, <1>2 DEF CallOK, At
<1>5. Return(s, Extraction(reasons))
  BY DEF UseTrigger
<1>6. ASSUME "model" \in reasons
      PROVE  reasons \ {"model"} = {"gap"} /\ reply.confidence >= Floor
  <2>1. Meets(reply)
    BY <1>4, <1>6
  <2>2. reasons = {"gap", "model"}
    BY <1>4, <1>6
  <2>3. reply.confidence >= Floor
    BY <2>1 DEF Meets
  <2> QED
    BY <2>2, <2>3
<1> HIDE DEF reasons
<1>7. AnswerIsTrue(calls[s], Extraction(reasons))
  BY <1>6, ExtractionIsTrue
<1> QED
  BY <1>1, <1>2, <1>3, <1>5, <1>7, ReturnIsGood

-----------------------------------------------------------------------------
(* extract and recall. *)

LEMMA IngestedIsFinite ==
  ASSUME NEW n \in Nat
  PROVE  IsFiniteSet(Ingested(n)) /\ Cardinality(Ingested(n)) \in Nat
<1>1. IsFiniteSet(1..n)
  BY FS_Interval
<1>2. Ingested(n) \subseteq 1..n
  BY DEF Ingested
<1>3. IsFiniteSet(Ingested(n))
  BY <1>1, <1>2, FS_Subset
<1> QED
  BY <1>3, FS_CardinalityType

\* Facts are counted one by one.
LEMMA IngestedNext ==
  ASSUME NEW n \in Nat
  PROVE  /\ Ingested(0) = {}
         /\ Tree[n + 1] = "kept" => Ingested(n + 1) = Ingested(n) \cup {n + 1}
         /\ Tree[n + 1] # "kept" => Ingested(n + 1) = Ingested(n)
BY DEF Ingested

LEMMA BeginExtractStep ==
  ASSUME ToolsInv, NEW s \in Sessions, BeginExtract(s)
  PROVE  StoreOK' /\ Good
<1>1. At(s, "begun") /\ calls[s].tool = "extract" /\ UNCHANGED store
  BY DEF BeginExtract, Runs
<1>2. s \in holder /\ calls[s] \in ActiveCalls /\ CallOK(calls[s], extracted)
  BY <1>1, Holds DEF Places
<1>3. StoreOK'
  BY <1>1 DEF ToolsInv, StoreOK, store
<1>4. calls[s].done = 0 /\ calls[s].arg \in {"tree", "dry run", "not allowed"}
  BY <1>1, <1>2 DEF CallOK, At, Arguments, CandidateTools
<1>5. CASE calls[s].arg = "not allowed"
  <2>1. Return(s, Said("error"))
    BY <1>5 DEF BeginExtract
  <2> QED
    BY <1>1, <1>2, <1>3, <2>1, ErrorIsGood
<1>6. CASE calls[s].arg = "dry run"
  <2>1. Return(s, Said("extracted"))
    BY <1>6 DEF BeginExtract, SaidExtract
  <2>2. Said("extracted").word = "extracted" /\ Said("extracted").reasons = {}
    BY DEF Said
  <2>3. AnswerIsTrue(calls[s], Said("extracted"))
    BY <1>6, <2>2 DEF AnswerIsTrue
  <2> QED
    BY <1>1, <1>2, <1>3, <2>1, <2>3, ReturnIsGood
<1>7. CASE calls[s].arg = "tree"
  <2>1. Move(s, "writing") /\ Stay
    BY <1>7 DEF BeginExtract
  <2>2. Ingested(calls[s].done) \subseteq extracted
    BY <1>4, IngestedNext
  <2>3. CallOK([calls[s] EXCEPT !.at = "writing"], extracted)
    BY <1>1, <1>2, <1>7, <2>2 DEF CallOK, ActiveCalls, CandidateTools
  <2>4. "writing" \in Places \ {"waiting"}
    BY DEF Places
  <2> QED
    BY <1>1, <1>2, <1>3, <2>1, <2>3, <2>4, MoveIsGood
<1> QED
  BY <1>4, <1>5, <1>6, <1>7

LEMMA WriteFactStep ==
  ASSUME ToolsInv, NEW s \in Sessions, WriteFact(s)
  PROVE  StoreOK' /\ Good
<1> DEFINE n == calls[s].done + 1
           call == [calls[s] EXCEPT !.done = n]
<1>1. At(s, "writing") /\ n <= Len(Tree) /\ UNCHANGED <<candidates, vocabulary, signals>>
  BY DEF WriteFact
<1>2. s \in holder /\ calls[s] \in ActiveCalls /\ CallOK(calls[s], extracted)
  BY <1>1, Holds DEF Places
<1>3. calls[s].tool = "extract" /\ calls[s].arg = "tree" /\ Ingested(calls[s].done) \subseteq extracted
  BY <1>1, <1>2 DEF CallOK, At
<1>4. calls[s].done \in Nat
  BY <1>2 DEF ActiveCalls
<1>5. CASE /\ extracted' = IF Tree[n] = "kept" THEN extracted \cup {n} ELSE extracted
           /\ calls' = [calls EXCEPT ![s].done = n] /\ Stay
  <2>1. calls' = [calls EXCEPT ![s] = call] /\ holder' = holder /\ answer' = {}
    BY <1>5 DEF Stay
  <2>2. call \in ActiveCalls /\ call.at # "waiting"
    BY <1>1, <1>2, <1>4 DEF ActiveCalls, At
  <2>3. Ingested(n) \subseteq extracted' /\ extracted \subseteq extracted'
    BY <1>3, <1>4, <1>5, IngestedNext
  <2>4. CallOK(call, extracted')
    BY <1>1, <1>2, <1>3, <2>3 DEF CallOK, ActiveCalls, CandidateTools, At
  <2>5. n \in DOMAIN Tree
    <3>1. n \in 1..Len(Tree)
      BY <1>1, <1>4, ToolCallsAssumption
    <3> QED
      BY <3>1, ToolCallsAssumption
  <2>6. StoreOK'
    BY <1>1, <1>5, <2>5 DEF ToolsInv, StoreOK
  <2>7. Outcome
    BY <1>1, <2>1, Silent
  <2> HIDE DEF call, n
  <2>8. CallsOK' /\ HolderOK'
    BY <1>2, <2>1, <2>2, <2>3, <2>4, Continues
  <2> QED
    BY <2>6, <2>7, <2>8 DEF Good
<1>6. CASE Return(s, Said("error")) /\ UNCHANGED extracted
  <2>1. UNCHANGED store
    BY <1>1, <1>6 DEF store
  <2>2. StoreOK'
    BY <2>1 DEF ToolsInv, StoreOK, store
  <2> QED
    BY <1>2, <1>6, <2>1, <2>2, ErrorIsGood
<1> QED
  BY <1>5, <1>6 DEF WriteFact

\* What the answer counts is in the store, and it is all that is there.
LEMMA EndExtractStep ==
  ASSUME ToolsInv, NEW s \in Sessions, EndExtract(s)
  PROVE  StoreOK' /\ Good
<1> DEFINE said == SaidExtract(Len(Tree), FALSE)
<1>1. At(s, "writing") /\ calls[s].done = Len(Tree) /\ UNCHANGED store /\ Return(s, said)
  BY DEF EndExtract
<1>2. s \in holder /\ calls[s] \in ActiveCalls /\ CallOK(calls[s], extracted)
  BY <1>1, Holds DEF Places
<1>3. StoreOK'
  BY <1>1 DEF ToolsInv, StoreOK, store
<1>4. Ingested(Len(Tree)) \subseteq extracted
  BY <1>1, <1>2 DEF CallOK, At
<1>5. Len(Tree) \in Nat /\ DOMAIN Tree = 1..Len(Tree)
  BY ToolCallsAssumption
<1>6. \A i \in extracted : i \in DOMAIN Tree /\ Tree[i] = "kept"
  BY DEF ToolsInv, StoreOK
<1>7. extracted = Ingested(Len(Tree))
  BY <1>4, <1>5, <1>6 DEF Ingested
<1>8. extracted' = extracted
  BY <1>1 DEF store
<1> DEFINE counted == Cardinality(Ingested(Len(Tree)))
<1>9. counted \in Nat
  BY <1>5, IngestedIsFinite
<1>10. /\ said.word = "extracted" /\ said.reasons = {}
       /\ said.ingested = counted /\ said.private = Len(Tree) - counted
  BY DEF SaidExtract, Said
<1> HIDE DEF said
<1>11. Cardinality(extracted') = said.ingested
  BY <1>7, <1>8, <1>10
<1> HIDE DEF counted
<1>12. said.ingested + said.private = Len(Tree)
  BY <1>5, <1>9, <1>10
<1>13. AnswerIsTrue(calls[s], said)
  BY <1>6, <1>8, <1>10, <1>11, <1>12 DEF AnswerIsTrue
<1> QED
  BY <1>1, <1>2, <1>3, <1>13, ReturnIsGood

LEMMA BeginRecallStep ==
  ASSUME ToolsInv, NEW s \in Sessions, BeginRecall(s)
  PROVE  StoreOK' /\ Good
<1>1. At(s, "begun") /\ calls[s].tool = "recall" /\ UNCHANGED store
  BY DEF BeginRecall, Runs
<1>2. s \in holder /\ calls[s] \in ActiveCalls /\ CallOK(calls[s], extracted)
  BY <1>1, Holds DEF Places
<1>3. StoreOK'
  BY <1>1 DEF ToolsInv, StoreOK, store
<1>4. CASE Move(s, "asking") /\ Stay
  <2>1. CallOK([calls[s] EXCEPT !.at = "asking"], extracted)
    BY <1>1, <1>2 DEF CallOK, ActiveCalls, CandidateTools
  <2>2. "asking" \in Places \ {"waiting"}
    BY DEF Places
  <2> QED
    BY <1>1, <1>2, <1>3, <1>4, <2>1, <2>2, MoveIsGood
<1>5. CASE Return(s, Said("keyword"))
  BY <1>1, <1>2, <1>3, <1>5, ErrorIsGood
<1> QED
  BY <1>4, <1>5 DEF BeginRecall

LEMMA EndRecallStep ==
  ASSUME ToolsInv, NEW s \in Sessions, EndRecall(s)
  PROVE  StoreOK' /\ Good
<1> DEFINE word == IF calls[s].reply = Failed THEN "keyword" ELSE "hybrid"
<1>1. At(s, "heard") /\ UNCHANGED store /\ Return(s, Said(word))
  BY DEF EndRecall, Runs
<1>2. s \in holder
  BY <1>1, Holds DEF Places
<1>3. StoreOK'
  BY <1>1 DEF ToolsInv, StoreOK, store
<1>4. word \in {"keyword", "hybrid"}
  OBVIOUS
<1> HIDE DEF word
<1> QED
  BY <1>1, <1>2, <1>3, <1>4, ErrorIsGood

LEMMA ComputeStep ==
  ASSUME ToolsInv, NEW s \in Sessions, Compute(s)
  PROVE  StoreOK' /\ Good
<1>1. CASE BeginDecision(s) \/ BeginTriage(s) \/ UseTriage(s)
  BY <1>1, BeginDecisionStep, BeginTriageStep, UseTriageStep
<1>2. CASE WritePromote(s) \/ WriteReject(s)
  BY <1>2, WritePromoteStep, WriteRejectStep
<1>3. CASE BeginExtraction(s) \/ ListUncovered(s) \/ UseTrigger(s)
  BY <1>3, BeginExtractionStep, ListUncoveredStep, UseTriggerStep
<1>4. CASE BeginExtract(s) \/ WriteFact(s) \/ EndExtract(s)
  BY <1>4, BeginExtractStep, WriteFactStep, EndExtractStep
<1>5. CASE BeginRecall(s) \/ EndRecall(s)
  BY <1>5, BeginRecallStep, EndRecallStep
<1> QED
  BY <1>1, <1>2, <1>3, <1>4, <1>5 DEF Compute

-----------------------------------------------------------------------------
(* Calls and endpoints. *)

\* A call waits with its arguments, and nothing heard.
LEMMA CallStep ==
  ASSUME ToolsInv, NEW s \in Sessions, NEW tool \in Tools, NEW arg \in Arguments(tool),
         Call(s, tool, arg)
  PROVE  StoreOK' /\ Good
<1> DEFINE call == [at |-> "waiting", tool |-> tool, arg |-> arg,
                    reply |-> Failed, found |-> {}, done |-> 0]
<1>1. /\ At(s, "idle") /\ calls' = [calls EXCEPT ![s] = call]
      /\ holder' = holder /\ answer' = {} /\ UNCHANGED store
  BY DEF Call, Stay
<1>2. arg \in UNION {Arguments(t) : t \in Tools}
  OBVIOUS
<1>3. call \in ActiveCalls
  BY <1>2 DEF ActiveCalls, Places, Heard
<1>4. call.at = "waiting" /\ call.tool = tool /\ call.arg = arg /\ call.done = 0
  OBVIOUS
<1> HIDE DEF call
<1>5. CallOK(call, extracted)
  BY <1>4 DEF CallOK
<1>6. calls \in [Sessions -> {Idle} \cup ActiveCalls]
  BY DEF ToolsInv, CallsOK
<1>7. extracted' = extracted /\ candidates' = candidates
  BY <1>1 DEF store
<1>8. StoreOK'
  BY <1>1 DEF ToolsInv, StoreOK, store
<1>9. CallsOK'
  <2>1. calls' \in [Sessions -> {Idle} \cup ActiveCalls]
    BY <1>1, <1>3, <1>6
  <2>2. ASSUME NEW r \in Sessions PROVE calls'[r] = Idle \/ CallOK(calls'[r], extracted')
    <3>1. CASE r = s
      BY <3>1, <1>1, <1>5, <1>6, <1>7
    <3>2. CASE r # s
      BY <3>2, <1>1, <1>6, <1>7 DEF ToolsInv, CallsOK
    <3> QED
      BY <3>1, <3>2
  <2> QED
    BY <2>1, <2>2 DEF CallsOK
<1>10. HolderOK'
  <2>1. ASSUME NEW r \in Sessions
        PROVE  r \in holder <=> calls'[r].at # "idle" /\ calls'[r].at # "waiting"
    BY <1>1, <1>4, <1>6 DEF ToolsInv, HolderOK, At
  <2> QED
    BY <1>1, <2>1 DEF ToolsInv, HolderOK, At
<1>11. Outcome
  BY <1>1, <1>7, Silent
<1> QED
  BY <1>8, <1>9, <1>10, <1>11 DEF Good

LEMMA AcquireStep ==
  ASSUME ToolsInv, NEW s \in Sessions, Acquire(s)
  PROVE  StoreOK' /\ Good
<1> DEFINE call == [calls[s] EXCEPT !.at = "begun"]
<1>1. /\ At(s, "waiting") /\ calls' = [calls EXCEPT ![s] = call]
      /\ holder = {} /\ holder' = {s} /\ answer' = {} /\ UNCHANGED store
  BY DEF Acquire, Move
<1>2. calls \in [Sessions -> {Idle} \cup ActiveCalls]
  BY DEF ToolsInv, CallsOK
<1>3. calls[s] # Idle
  BY <1>1 DEF At, Idle
<1>4. calls[s] \in ActiveCalls /\ CallOK(calls[s], extracted)
  BY <1>2, <1>3 DEF ToolsInv, CallsOK
<1>5. call \in ActiveCalls /\ call.at = "begun"
  BY <1>4 DEF ActiveCalls, Places
<1>6. CallOK(call, extracted)
  BY <1>1, <1>4 DEF CallOK, ActiveCalls, At
<1> HIDE DEF call
<1>7. extracted' = extracted /\ candidates' = candidates
  BY <1>1 DEF store
<1>8. StoreOK'
  BY <1>1 DEF ToolsInv, StoreOK, store
<1>9. CallsOK'
  <2>1. calls' \in [Sessions -> {Idle} \cup ActiveCalls]
    BY <1>1, <1>2, <1>5
  <2>2. ASSUME NEW r \in Sessions PROVE calls'[r] = Idle \/ CallOK(calls'[r], extracted')
    <3>1. CASE r = s
      BY <3>1, <1>1, <1>2, <1>6, <1>7
    <3>2. CASE r # s
      BY <3>2, <1>1, <1>2, <1>7 DEF ToolsInv, CallsOK
    <3> QED
      BY <3>1, <3>2
  <2> QED
    BY <2>1, <2>2 DEF CallsOK
<1>10. HolderOK'
  <2>1. ASSUME NEW r \in Sessions
        PROVE  r \in {s} <=> calls'[r].at # "idle" /\ calls'[r].at # "waiting"
    BY <1>1, <1>2, <1>5 DEF ToolsInv, HolderOK, At
  <2> QED
    BY <1>1, <2>1 DEF HolderOK, At
<1>11. Outcome
  BY <1>1, <1>7, Silent
<1> QED
  BY <1>8, <1>9, <1>10, <1>11 DEF Good

\* Whatever an endpoint says of the question, or that it says nothing.
LEMMA HearStep ==
  ASSUME ToolsInv, NEW s \in Sessions, NEW reply, At(s, "asking"),
         reply \in RepliesTo(calls[s].tool) \/ reply = Failed,
         Hear(s, reply), Stay, UNCHANGED store
  PROVE  StoreOK' /\ Good
<1> DEFINE call == [calls[s] EXCEPT !.at = "heard", !.reply = reply]
<1>1. s \in holder /\ calls[s] \in ActiveCalls /\ CallOK(calls[s], extracted)
  BY Holds DEF Places
<1>2. calls[s].tool \in {"triage", "should_extract", "recall"}
  BY <1>1 DEF CallOK, At
<1>3. Failed \in Replies(TriageOptions)
  BY DEF Replies
<1>4. /\ RepliesTo("triage") = Replies(TriageOptions)
      /\ RepliesTo("should_extract") = Replies(TriggerOptions)
  BY DEF RepliesTo
<1>5. reply \in Heard /\ (calls[s].tool = "triage" => reply \in Replies(TriageOptions))
  BY <1>2, <1>3, <1>4 DEF Heard
<1>6. call \in ActiveCalls /\ call.at = "heard"
  BY <1>1, <1>5 DEF ActiveCalls, Places
<1>7. CallOK(call, extracted)
  BY <1>1, <1>2, <1>5 DEF CallOK, ActiveCalls, At
<1>8. calls' = [calls EXCEPT ![s] = call]
  BY DEF Hear
<1> HIDE DEF call
<1>9. extracted' = extracted /\ candidates' = candidates /\ holder' = holder /\ answer' = {}
  BY DEF store, Stay
<1>10. StoreOK'
  BY DEF ToolsInv, StoreOK, store
<1>11. CallsOK' /\ HolderOK'
  BY <1>1, <1>6, <1>7, <1>8, <1>9, Continues
<1>12. Outcome
  BY <1>9, Silent
<1> QED
  BY <1>10, <1>11, <1>12 DEF Good

LEMMA EndpointStep ==
  ASSUME ToolsInv, NEW s \in Sessions, Reply(s) \/ Timeout(s)
  PROVE  StoreOK' /\ Good
<1>1. CASE Reply(s)
  <2>1. At(s, "asking") /\ Stay /\ UNCHANGED store
    BY <1>1 DEF Reply
  <2>2. PICK reply \in RepliesTo(calls[s].tool) : Hear(s, reply)
    BY <1>1 DEF Reply
  <2> QED
    BY <2>1, <2>2, HearStep
<1>2. CASE Timeout(s)
  <2>1. At(s, "asking") /\ Stay /\ UNCHANGED store /\ Hear(s, Failed)
    BY <1>2 DEF Timeout
  <2> QED
    BY <2>1, HearStep
<1> QED
  BY <1>1, <1>2

-----------------------------------------------------------------------------
(* The rest of the world. *)

\* Calls go on as they were when the store changes but for what they extracted.
LEMMA CallsUntouched ==
  ASSUME ToolsInv, UNCHANGED <<extracted, calls, holder>>
  PROVE  CallsOK' /\ HolderOK'
BY DEF ToolsInv, CallsOK, HolderOK, At

LEMMA ElsewhereStep ==
  ASSUME ToolsInv, NEW c \in Candidates, NEW status \in {"PROMOTED", "REJECTED"},
         Elsewhere(c, status)
  PROVE  StoreOK' /\ Good
<1>1. /\ candidates[c].status = "PENDING" /\ answer' = {}
      /\ candidates' = [candidates EXCEPT ![c] = [status |-> status, by |-> "user"]]
      /\ UNCHANGED <<vocabulary, signals, extracted, calls, holder>>
  BY DEF Elsewhere
<1>2. candidates \in [Candidates -> Decided]
  BY DEF ToolsInv, StoreOK
<1>3. StoreOK'
  BY <1>1 DEF ToolsInv, StoreOK, Decided
<1>4. CallsOK' /\ HolderOK'
  BY <1>1, CallsUntouched
<1>5. ASSUME NEW d \in Candidates, candidates'[d] # candidates[d]
      PROVE  candidates[d].status = "PENDING" /\ candidates'[d].by = "user"
  BY <1>1, <1>2, <1>5
<1>6. Outcome
  BY <1>1, <1>5 DEF Outcome, DecisionsAreOwn
<1> QED
  BY <1>3, <1>4, <1>6 DEF Good

LEMMA WorldStep ==
  ASSUME ToolsInv,
         (\E word \in Coined : Coin(word)) \/ (\E found \in SUBSET Signals : Signal(found))
  PROVE  StoreOK' /\ Good
<1>1. UNCHANGED <<candidates, extracted, calls, holder>> /\ answer' = {}
  BY DEF Coin, Signal
<1>2. vocabulary' \subseteq Words /\ vocabulary' # {} /\ signals' \subseteq Signals
  BY ToolCallsAssumption DEF Coin, Signal, ToolsInv, StoreOK
<1>3. StoreOK'
  BY <1>1, <1>2 DEF ToolsInv, StoreOK
<1>4. CallsOK' /\ HolderOK'
  BY <1>1, CallsUntouched
<1>5. Outcome
  BY <1>1, Silent
<1> QED
  BY <1>3, <1>4, <1>5 DEF Good

LEMMA StopStep ==
  ASSUME ToolsInv, Stop
  PROVE  StoreOK' /\ Good
<1>1. /\ calls' = [s \in Sessions |-> Idle] /\ holder' = {} /\ answer' = {}
      /\ UNCHANGED store
  BY DEF Stop
<1>2. StoreOK'
  BY <1>1 DEF ToolsInv, StoreOK, store
<1>3. CallsOK'
  BY <1>1 DEF CallsOK
<1>4. HolderOK'
  BY <1>1 DEF HolderOK, At, Idle
<1>5. Outcome
  BY <1>1, Silent DEF store
<1> QED
  BY <1>2, <1>3, <1>4, <1>5 DEF Good

-----------------------------------------------------------------------------
(* The words, by the alphabet and by how close they are to a name. *)

LEMMA WordsAreFinite == IsFiniteSet(Words)
<1>1. Alphabet \in [1..Len(Alphabet) -> Words] /\ Len(Alphabet) \in Nat
  BY DecisionsAssumption
<1>2. \A w \in Words : \E i \in 1..Len(Alphabet) : Alphabet[i] = w
  BY <1>1, DecisionsAssumption DEF ToSet
<1>3. Alphabet \in Surjection(1..Len(Alphabet), Words)
  BY <1>1, <1>2 DEF Surjection
<1>4. IsFiniteSet(1..Len(Alphabet))
  BY <1>1, FS_Interval
<1> QED
  BY <1>3, <1>4, FS_Surjection

LEMMA PlaceType ==
  ASSUME NEW w \in Words
  PROVE  Place[w] \in Nat /\ Alphabet[Place[w]] = w
<1>1. DOMAIN Alphabet = 1..Len(Alphabet) /\ Len(Alphabet) \in Nat
  BY DecisionsAssumption
<1>2. \E i \in DOMAIN Alphabet : Alphabet[i] = w
  BY DecisionsAssumption DEF ToSet
<1>3. Place[w] = CHOOSE i \in DOMAIN Alphabet : Alphabet[i] = w
  BY DEF Place
<1>4. Place[w] \in DOMAIN Alphabet /\ Alphabet[Place[w]] = w
  BY <1>2, <1>3
<1> QED
  BY <1>1, <1>4

PlaceOrder(S) == {vw \in S \X S : Place[vw[1]] < Place[vw[2]]}

LEMMA PlaceIsLinear ==
  ASSUME NEW S \in SUBSET Words
  PROVE  Orders!LinearOrder(S, PlaceOrder(S))
<1>1. \A v, w \in S : <<v, w>> \in PlaceOrder(S) <=> Place[v] < Place[w]
  BY DEF PlaceOrder
<1>2. \A v \in S : Place[v] \in Nat /\ Alphabet[Place[v]] = v
  BY PlaceType
<1>3. \A v, w \in S : Place[v] = Place[w] => v = w
  BY <1>2
<1>4. \A v, w \in S : <<v, w>> \in PlaceOrder(S) => <<w, v>> \notin PlaceOrder(S)
  BY <1>1, <1>2
<1>5. \A u, v, w \in S :
        <<u, v>> \in PlaceOrder(S) /\ <<v, w>> \in PlaceOrder(S) => <<u, w>> \in PlaceOrder(S)
  BY <1>1, <1>2
<1>6. ASSUME NEW v \in S, NEW w \in S
      PROVE  v = w \/ <<v, w>> \in PlaceOrder(S) \/ <<w, v>> \in PlaceOrder(S)
  <2>1. Place[v] \in Nat /\ Place[w] \in Nat /\ (Place[v] = Place[w] => v = w)
    BY <1>2, <1>3
  <2>2. v = w \/ Place[v] < Place[w] \/ Place[w] < Place[v]
    BY <2>1
  <2> QED
    BY <1>1, <2>2
<1> QED
  BY <1>4, <1>5, <1>6 DEF Orders!LinearOrder

\* Closer is a linear order, whatever the distances and lengths.
LEMMA CloserIsLinear ==
  ASSUME NEW name \in Words
  PROVE  /\ \A v, w \in Words : Closer(name, v, w) => ~Closer(name, w, v)
         /\ \A u, v, w \in Words : Closer(name, u, v) /\ Closer(name, v, w) => Closer(name, u, w)
         /\ \A v, w \in Words : v = w \/ Closer(name, v, w) \/ Closer(name, w, v)
<1>1. \A v \in Words : /\ Distance[<<name, v>>] \in Nat /\ WordLength[v] \in Nat
                       /\ Place[v] \in Nat /\ Alphabet[Place[v]] = v
  BY DecisionsAssumption, PlaceType
<1>2. \A v, w \in Words : Place[v] = Place[w] => v = w
  BY <1>1
<1>3. \A v, w \in Words : Closer(name, v, w) => ~Closer(name, w, v)
  BY <1>1 DEF Closer
<1>4. \A u, v, w \in Words : Closer(name, u, v) /\ Closer(name, v, w) => Closer(name, u, w)
  BY <1>1 DEF Closer
<1>5. ASSUME NEW v \in Words, NEW w \in Words
      PROVE  v = w \/ Closer(name, v, w) \/ Closer(name, w, v)
  BY <1>1, <1>2 DEF Closer
<1> QED
  BY <1>3, <1>4, <1>5

CloserOrder(name, S) == {vw \in S \X S : Closer(name, vw[1], vw[2])}

\* The hint comes first, if it is there.
Sooner(name, v, w) == Hints(name, v) \/ (~Hints(name, w) /\ Closer(name, v, w))
SoonerOrder(name, S) == {vw \in S \X S : vw[1] # vw[2] /\ Sooner(name, vw[1], vw[2])}

LEMMA NearestExists ==
  ASSUME NEW name \in Words, NEW S \in SUBSET Words, S # {}
  PROVE  \E w \in S : \A v \in S : v = w \/ Closer(name, w, v)
<1> DEFINE R == CloserOrder(name, S)
<1>1. \A v, w \in S : <<v, w>> \in R <=> Closer(name, v, w)
  BY DEF CloserOrder
<1>2. Orders!LinearOrder(S, R)
  BY <1>1, CloserIsLinear DEF Orders!LinearOrder
<1>3. IsFiniteSet(S)
  BY WordsAreFinite, FS_Subset
<1> HIDE DEF R
<1>4. PICK w \in S : \A v \in S : v = w \/ <<w, v>> \in R
  BY SameFiniteness, SameCounting, <1>2, <1>3, Orders!RankZero
<1> QED
  BY <1>1, <1>4

LEMMA SoonerIsLinear ==
  ASSUME NEW name \in Words, NEW S \in SUBSET Words
  PROVE  Orders!LinearOrder(S, SoonerOrder(name, S))
<1> DEFINE R == SoonerOrder(name, S)
<1>1. \A v, w \in S : <<v, w>> \in R <=> v # w /\ Sooner(name, v, w)
  BY DEF SoonerOrder
<1>2. \A v, w \in S : Hints(name, v) /\ Hints(name, w) => v = w
  BY DEF Hints
<1> HIDE DEF R
<1>3. \A v, w \in S : <<v, w>> \in R => <<w, v>> \notin R
  BY <1>1, <1>2, CloserIsLinear DEF Sooner
<1>4. ASSUME NEW u \in S, NEW v \in S, NEW w \in S, <<u, v>> \in R, <<v, w>> \in R
      PROVE  <<u, w>> \in R
  <2>1. u # v /\ v # w /\ Sooner(name, u, v) /\ Sooner(name, v, w)
    BY <1>1, <1>4
  <2>2. u # w
    BY <1>3, <1>4
  <2>3. Sooner(name, u, w)
    BY <1>2, <2>1, CloserIsLinear DEF Sooner
  <2> QED
    BY <1>1, <2>2, <2>3
<1>5. \A v, w \in S : v = w \/ <<v, w>> \in R \/ <<w, v>> \in R
  BY <1>1, CloserIsLinear DEF Sooner
<1>6. Orders!LinearOrder(S, R)
  BY <1>3, <1>4, <1>5 DEF Orders!LinearOrder
<1> QED
  BY <1>6 DEF R

-----------------------------------------------------------------------------
(* normalize_predicate. *)

\* The words that are put to a model: few enough, some, and the hint among them.
LEMMA NarrowedFits ==
  ASSUME NEW name \in Words, NEW V \in SUBSET Words, V # {}
  PROVE  /\ Narrowed(name, V) \subseteq V /\ Narrowed(name, V) # {}
         /\ IsFiniteSet(Narrowed(name, V))
         /\ Cardinality(Narrowed(name, V)) \in 1..(MaxOptions - 1)
         /\ \A w \in V : Hints(name, w) => w \in Narrowed(name, V)
<1> DEFINE N == Narrowed(name, V)
           R == SoonerOrder(name, V)
<1>1. IsFiniteSet(V) /\ Cardinality(V) \in Nat
  BY WordsAreFinite, FS_Subset, FS_CardinalityType
<1>2. MaxOptions \in Nat /\ MaxOptions >= 2
  BY DecisionsAssumption
<1>3. CASE Cardinality(V) < MaxOptions
  <2>1. N = V
    BY <1>3 DEF Narrowed
  <2>2. Cardinality(V) # 0
    BY <1>1, FS_EmptySet
  <2> QED
    BY <1>1, <1>2, <1>3, <2>1, <2>2
<1>4. CASE ~(Cardinality(V) < MaxOptions)
  <2> DEFINE k == MaxOptions - 1
  <2>1. k \in Nat /\ k >= 1
    BY <1>2
  <2>2. Orders!LinearOrder(V, R)
    BY SoonerIsLinear
  <2>3. ASSUME NEW w \in V
        PROVE  Orders!Below(V, R, w) = {v \in V \ {w} : Sooner(name, v, w)}
    BY DEF Orders!Below, SoonerOrder
  <2>4. N = {w \in V : Cardinality({v \in V \ {w} : Sooner(name, v, w)}) < MaxOptions - 1}
    BY <1>4 DEF Narrowed, Sooner
  <2>5. N = {w \in V : Orders!Rank(V, R, w) < k}
    BY SameCounting, <2>3, <2>4 DEF Orders!Rank
  <2> HIDE DEF N, R, k
  <2>6. IsFiniteSet(N) /\ Cardinality(N) \in Nat /\ Cardinality(N) <= k
    BY SameFiniteness, SameCounting, <1>1, <2>1, <2>2, <2>5, Orders!FewBelow
  <2>7. N # {}
    <3>1. PICK w \in V : Orders!Rank(V, R, w) = 0
      BY SameFiniteness, SameCounting, <1>1, <2>2, Orders!RankZero
    <3> QED
      BY <2>1, <2>5, <3>1
  <2>8. Cardinality(N) # 0
    BY <2>6, <2>7, FS_EmptySet
  <2>9. ASSUME NEW w \in V, Hints(name, w) PROVE w \in N
    <3>1. \A v \in V \ {w} : ~Sooner(name, v, w)
      BY <2>9 DEF Sooner, Hints
    <3>2. Orders!Below(V, R, w) = {}
      BY <2>3, <3>1
    <3>3. Orders!Rank(V, R, w) = 0
      BY SameCounting, <3>2, FS_EmptySet DEF Orders!Rank
    <3> QED
      BY <2>1, <2>5, <3>3
  <2>10. Cardinality(N) \in 1..(MaxOptions - 1)
    BY <2>6, <2>8 DEF k
  <2> QED
    BY <2>5, <2>6, <2>7, <2>9, <2>10 DEF N
<1> QED
  BY <1>3, <1>4

\* All of them are listed, each once.
LEMMA AlphabeticalLists ==
  ASSUME NEW S \in SUBSET Words
  PROVE  /\ Cardinality(S) \in Nat
         /\ Alphabetical(S) \in [1..Cardinality(S) -> S]
         /\ \A i, j \in 1..Cardinality(S) : Alphabetical(S)[i] = Alphabetical(S)[j] => i = j
         /\ \A w \in S : \E i \in 1..Cardinality(S) : Alphabetical(S)[i] = w
<1> DEFINE R == PlaceOrder(S)
           n == Cardinality(S)
           A == Alphabetical(S)
<1>1. IsFiniteSet(S) /\ n \in Nat
  BY WordsAreFinite, FS_Subset, FS_CardinalityType
<1>2. Orders!LinearOrder(S, R)
  BY PlaceIsLinear
<1>3. ASSUME NEW w \in S
      PROVE  Orders!Rank(S, R, w) = Cardinality({v \in S : Place[v] < Place[w]})
  <2>1. Orders!Below(S, R, w) = {v \in S : Place[v] < Place[w]}
    BY DEF Orders!Below, PlaceOrder
  <2> QED
    BY SameCounting, <2>1 DEF Orders!Rank
<1> DEFINE Nth(i) == CHOOSE x \in S : Cardinality({v \in S : Place[v] < Place[x]}) = i - 1
<1>4. A = [i \in 1..n |-> Nth(i)]
  BY DEF Alphabetical
<1>5. ASSUME NEW i \in 1..n PROVE Nth(i) \in S /\ Orders!Rank(S, R, Nth(i)) = i - 1
  <2>1. i - 1 \in 0..(n - 1)
    BY <1>1
  <2>2. PICK w \in S : Orders!Rank(S, R, w) = i - 1
    BY SameFiniteness, SameCounting, <1>1, <1>2, <2>1, Orders!RankOnto
  <2>3. Cardinality({v \in S : Place[v] < Place[w]}) = i - 1
    BY <1>3, <2>2
  <2>4. Nth(i) \in S /\ Cardinality({v \in S : Place[v] < Place[Nth(i)]}) = i - 1
    BY <2>3
  <2> HIDE DEF Nth
  <2> QED
    BY <1>3, <2>4
<1> HIDE DEF A, R, Nth
<1>6. /\ A \in [1..n -> S]
      /\ \A i \in 1..n : A[i] \in S /\ Orders!Rank(S, R, A[i]) = i - 1
  BY <1>4, <1>5
<1>7. ASSUME NEW i \in 1..n, NEW j \in 1..n, A[i] = A[j] PROVE i = j
  <2>1. i - 1 = j - 1
    BY <1>6, <1>7
  <2> QED
    BY <2>1
<1>8. ASSUME NEW w \in S PROVE \E i \in 1..n : A[i] = w
  <2> DEFINE k == Orders!Rank(S, R, w)
  <2>1. k \in 0..(n - 1)
    BY SameFiniteness, SameCounting, <1>1, <1>2, Orders!RankType
  <2> HIDE DEF k
  <2>2. k + 1 \in 1..n /\ (k + 1) - 1 = k
    BY <1>1, <2>1
  <2>3. A[k + 1] \in S /\ Orders!Rank(S, R, A[k + 1]) = k
    BY <1>6, <2>2
  <2>4. A[k + 1] = w
    BY SameFiniteness, SameCounting, <1>1, <1>2, <2>3, Orders!RankTells DEF k
  <2> QED
    BY <2>2, <2>4
<1> QED
  BY <1>1, <1>6, <1>7, <1>8 DEF A

LEMMA LeastIndex ==
  ASSUME NEW T \in SUBSET Nat, T # {}
  PROVE  Min(T) \in T
BY Orders!LeastNatural DEF Min

\* "No match" has a name that no word put to the model has.
LEMMA NoneIsFree ==
  ASSUME NEW N, IsFiniteSet(N), Cardinality(N) < MaxOptions
  PROVE  NoneOption(N) \in ToSet(Sentinels) /\ NoneOption(N) \notin N
<1> DEFINE n == Len(Sentinels)
           I == {i \in 1..n : Sentinels[i] \notin N}
<1>1. /\ n \in Nat /\ DOMAIN Sentinels = 1..n /\ n > MaxOptions /\ MaxOptions \in Nat
      /\ Sentinels \in [1..n -> STRING]
  BY DecisionsAssumption
<1>2. \A i, j \in 1..n : Sentinels[i] = Sentinels[j] => i = j
  BY <1>1, DecisionsAssumption DEF IsInjective
<1>3. I # {}
  <2> SUFFICES ASSUME \A i \in 1..n : Sentinels[i] \in N PROVE FALSE
    OBVIOUS
  <2>1. Sentinels \in [1..n -> N]
    BY <1>1
  <2>2. Sentinels \in Injection(1..n, N)
    BY <1>1, <1>2, <2>1 DEF Injection, IsInjective
  <2>3. Cardinality(1..n) <= Cardinality(N)
    BY <2>2, FS_Injection
  <2>4. Cardinality(1..n) = n
    BY <1>1, FS_Interval
  <2>5. Cardinality(N) \in Nat
    BY FS_CardinalityType
  <2> HIDE DEF n
  <2> QED
    BY <1>1, <2>3, <2>4, <2>5
<1>4. Min(I) \in I
  <2>1. I \in SUBSET Nat
    OBVIOUS
  <2> QED
    BY <1>3, <2>1, LeastIndex
<1>5. NoneOption(N) = Sentinels[Min(I)]
  BY <1>3 DEF NoneOption, SelectInSeq
<1>6. Min(I) \in 1..n /\ Sentinels[Min(I)] \notin N
  BY <1>4
<1> QED
  BY <1>1, <1>5, <1>6 DEF ToSet

\* The options of a normalization: words, each once, and "no match" behind them.
Listed(options, N, none) ==
  /\ Len(options) \in 2..MaxOptions /\ DOMAIN options = 1..Len(options)
  /\ \A i \in 1..(Len(options) - 1) : options[i] \in N
  /\ \A w \in N : \E i \in 1..(Len(options) - 1) : options[i] = w
  /\ options[Len(options)] = none /\ none \notin N
  /\ \A i, j \in DOMAIN options : options[i] = options[j] => i = j
  /\ Nothing \notin N \cup {none} /\ "junk" \notin N \cup {none}

LEMMA OptionsAreListed ==
  ASSUME NEW name \in Words, NEW V \in SUBSET Words, V # {}
  PROVE  Listed(NormalizeOptions(name, V), Narrowed(name, V), NoneOption(Narrowed(name, V)))
<1> DEFINE N == Narrowed(name, V)
           none == NoneOption(N)
           A == Alphabetical(N)
           n == Cardinality(N)
           options == NormalizeOptions(name, V)
<1>1. N \in SUBSET Words /\ IsFiniteSet(N) /\ n \in 1..(MaxOptions - 1)
  BY NarrowedFits
<1>2. MaxOptions \in Nat /\ MaxOptions >= 2
  BY DecisionsAssumption
<1>3. none \in ToSet(Sentinels) /\ none \notin N
  <2>1. n < MaxOptions
    BY <1>1, <1>2
  <2> QED
    BY <1>1, <2>1, NoneIsFree
<1>4. Nothing \notin N \cup {none} /\ "junk" \notin N \cup {none}
  BY <1>1, <1>3, DecisionsAssumption
<1>5. /\ A \in [1..n -> N]
      /\ \A i, j \in 1..n : A[i] = A[j] => i = j
      /\ \A w \in N : \E i \in 1..n : A[i] = w
  BY <1>1, AlphabeticalLists
<1>6. options = Append(A, none)
  BY DEF NormalizeOptions
<1> HIDE DEF N, none, A, n, options
<1>7. A \in Seq(N) /\ Len(A) = n /\ n \in Nat
  BY <1>1, <1>5
<1>8. /\ Len(options) = n + 1 /\ DOMAIN options = 1..(n + 1)
      /\ \A i \in 1..n : options[i] = A[i]
      /\ options[n + 1] = none
  BY <1>6, <1>7
<1>9. Len(options) \in 2..MaxOptions /\ Len(options) - 1 = n
  BY <1>1, <1>2, <1>8
<1>10. ASSUME NEW i \in DOMAIN options, NEW j \in DOMAIN options, options[i] = options[j]
       PROVE  i = j
  <2>1. i \in 1..n \/ i = n + 1
    BY <1>7, <1>8
  <2>2. j \in 1..n \/ j = n + 1
    BY <1>7, <1>8
  <2>3. \A k \in 1..n : options[k] \in N
    BY <1>5, <1>8
  <2> QED
    BY <1>3, <1>5, <1>8, <1>10, <2>1, <2>2, <2>3
<1>11. Listed(options, N, none)
  BY <1>3, <1>4, <1>5, <1>8, <1>9, <1>10 DEF Listed
<1> QED
  BY <1>11 DEF N, none, options

LEMMA ListedIsValid ==
  ASSUME NEW options, NEW N, NEW none, Listed(options, N, none)
  PROVE  Valid(options) /\ ToSet(options) = N \cup {none} /\ Last(options) = none
<1>1. Len(options) \in Nat /\ Len(options) \in 1..Len(options)
  BY DecisionsAssumption DEF Listed
<1>2. ASSUME NEW i \in DOMAIN options PROVE options[i] \in N \cup {none}
  <2>1. i \in 1..(Len(options) - 1) \/ i = Len(options)
    BY <1>1 DEF Listed
  <2> QED
    BY <2>1 DEF Listed
<1>3. ASSUME NEW w \in N \cup {none} PROVE \E i \in DOMAIN options : options[i] = w
  <2>1. DOMAIN options = 1..Len(options) /\ Len(options) \in DOMAIN options
    BY <1>1 DEF Listed
  <2>2. CASE w \in N
    <3>1. PICK i \in 1..(Len(options) - 1) : options[i] = w
      BY <2>2 DEF Listed
    <3>2. i \in DOMAIN options
      BY <1>1, <2>1
    <3> QED
      BY <3>1, <3>2
  <2>3. CASE w = none
    BY <2>1, <2>3 DEF Listed
  <2> QED
    BY <2>2, <2>3
<1>4. ToSet(options) = N \cup {none}
  BY <1>2, <1>3 DEF ToSet
<1>5. Last(options) = none
  BY DEF Last, Listed
<1>6. Valid(options)
  BY <1>4 DEF Valid, Listed, IsInjective
<1> QED
  BY <1>4, <1>5, <1>6

\* decide gives an option that the answer names, and an error only if it names none.
LEMMA DecideNames ==
  ASSUME NEW options, NEW reply, DOMAIN options \subseteq Nat
  PROVE  /\ Decide(options, reply) # 0 => Decide(options, reply) \in Chosen(options, reply)
         /\ Decide(options, reply) = 0 /\ Valid(options) /\ 0 \notin DOMAIN options
              => Chosen(options, reply) = {}
<1> DEFINE C == Chosen(options, reply)
<1>1. C \subseteq DOMAIN options /\ C \in SUBSET Nat
  BY DEF Chosen
<1>2. C # {} => Min(C) \in C
  BY <1>1, LeastIndex
<1>3. Decide(options, reply) = IF Valid(options) /\ C # {} THEN Min(C) ELSE 0
  BY DEF Decide
<1> HIDE DEF C
<1>4. Decide(options, reply) # 0 => Decide(options, reply) \in C
  BY <1>2, <1>3
<1>5. Decide(options, reply) = 0 /\ Valid(options) /\ 0 \notin DOMAIN options => C = {}
  BY <1>1, <1>2, <1>3
<1> QED
  BY <1>4, <1>5 DEF C

\* An answer by name decides for that name, if it is an option.
LEMMA DecideByKey ==
  ASSUME NEW options, NEW N, NEW none, Listed(options, N, none), NEW reply, reply.by = "key"
  PROVE  /\ \A i \in DOMAIN options : reply.key = options[i] => Decide(options, reply) = i
         /\ reply.key \notin N \cup {none} => Decide(options, reply) = 0
<1>1. DOMAIN options \subseteq Nat /\ 0 \notin DOMAIN options
  BY DEF Listed
<1>2. Valid(options) /\ ToSet(options) = N \cup {none}
  BY ListedIsValid
<1>3. \A i \in DOMAIN options : i \in Chosen(options, reply) <=> reply.key = options[i]
  BY DEF Chosen
<1>4. Chosen(options, reply) \subseteq DOMAIN options
  BY DEF Chosen
<1>5. ASSUME NEW i \in DOMAIN options, reply.key = options[i]
      PROVE  Decide(options, reply) = i
  <2>1. Chosen(options, reply) # {}
    BY <1>3, <1>5
  <2>2. Decide(options, reply) \in Chosen(options, reply)
    BY <1>1, <1>2, <2>1, DecideNames
  <2>3. Decide(options, reply) \in DOMAIN options /\ options[Decide(options, reply)] = options[i]
    BY <1>3, <1>4, <1>5, <2>2
  <2> QED
    BY <2>3 DEF Listed
<1>6. ASSUME reply.key \notin N \cup {none}
      PROVE  Decide(options, reply) = 0
  <2>1. \A i \in DOMAIN options : options[i] \in N \cup {none}
    BY <1>2 DEF ToSet
  <2>2. Chosen(options, reply) = {}
    BY <1>3, <1>4, <1>6, <2>1
  <2> QED
    BY <1>1, <2>2, DecideNames
<1> QED
  BY <1>5, <1>6

LEMMA SuggestInVocabulary ==
  ASSUME NEW name \in Words, NEW V \in SUBSET Words, V # {}
  PROVE  Suggest(name, V) \in V \cup {Nothing}
<1> DEFINE nearest == CHOOSE w \in V : \A v \in V : v = w \/ Closer(name, w, v)
<1>1. nearest \in V
  BY NearestExists
<1>2. Suggest(name, V) \in {nearest, Nothing} \/ Suggest(name, V) = Hint[name]
  BY DEF Suggest
<1>3. CASE \E w \in V : Hints(name, w)
  <2>1. Hint[name] \in V
    BY <1>3 DEF Hints
  <2> QED
    BY <1>1, <1>2, <2>1
<1>4. CASE ~(\E w \in V : Hints(name, w))
  <2> HIDE DEF nearest
  <2>1. Suggest(name, V) \in {nearest, Nothing}
    BY <1>4 DEF Suggest, nearest
  <2> QED
    BY <1>1, <2>1
<1> QED
  BY <1>3, <1>4

\* What is suggested for an answer, put as the model's runs put it.
LEMMA SuggestionFits ==
  ASSUME NEW name \in Words, NEW V \in SUBSET Words, V # {}, name \notin V,
         NEW options, NEW none, options = NormalizeOptions(name, V), none = Last(options),
         NEW reply \in Replies(options), NEW guess, guess = Suggest(name, V),
         NEW suggested, suggested = NormalizePredicate(name, V, options, guess, reply)
  PROVE  /\ suggested \in V \cup {Nothing}
         /\ reply.by = "key" /\ reply.confidence >= Floor =>
              /\ reply.key = none => suggested = Nothing
              /\ reply.key \in V /\ reply.key # none => suggested = reply.key
              /\ reply.key # none /\ reply.key \notin V => suggested = guess
         /\ SuggestScope(options, reply) \in ToSet(options) \cup {Nothing}
<1> DEFINE N == Narrowed(name, V)
           index == Decide(options, reply)
           last == Len(options)
<1>1. N \subseteq V
  BY NarrowedFits
<1>2. Listed(options, N, NoneOption(N))
  BY OptionsAreListed
<1>3. Valid(options) /\ ToSet(options) = N \cup {none} /\ none = NoneOption(N)
  BY <1>2, ListedIsValid
<1>4. Listed(options, N, none)
  BY <1>2, <1>3
<1>5. suggested = IF index # 0 /\ Meets(reply)
                  THEN IF index < last THEN options[index] ELSE Nothing
                  ELSE guess
  BY DEF NormalizePredicate
<1>6. guess \in V \cup {Nothing}
  BY SuggestInVocabulary
<1>7. last \in Nat /\ last >= 2 /\ DOMAIN options = 1..last /\ options[last] = none
  BY <1>4, DecisionsAssumption DEF Listed
<1>8. \A i \in DOMAIN options : i < last => options[i] \in N
  BY <1>4, <1>7 DEF Listed
<1>9. index # 0 => index \in DOMAIN options
  <2>1. DOMAIN options \subseteq Nat
    BY <1>7
  <2>2. index # 0 => index \in Chosen(options, reply)
    BY <2>1, DecideNames
  <2> QED
    BY <2>2 DEF Chosen
<1>10. SuggestScope(options, reply) \in ToSet(options) \cup {Nothing}
  BY <1>9 DEF SuggestScope, ToSet
<1> HIDE DEF N, last
<1>11. suggested \in V \cup {Nothing}
  <2> HIDE DEF index
  <2> QED
    BY <1>1, <1>5, <1>6, <1>8, <1>9
<1>12. ASSUME reply.by = "key", reply.confidence >= Floor
       PROVE  /\ reply.key = none => suggested = Nothing
              /\ reply.key \in V /\ reply.key # none => suggested = reply.key
              /\ reply.key # none /\ reply.key \notin V => suggested = guess
  <2>1. Meets(reply)
    <3>1. Floor \in 0..100
      BY DecisionsAssumption
    <3>2. ~(-1 >= Floor)
      BY ONLY <3>1
    <3>3. reply.confidence # -1
      BY ONLY <1>12, <3>2
    <3> QED
      BY <1>12, <3>3 DEF Meets, Unreported
  <2>2. reply.key \in ToSet(options) \cup {"junk"}
    BY <1>12 DEF Replies, Failed
  <2>3. /\ \A i \in DOMAIN options : reply.key = options[i] => index = i
        /\ reply.key \notin N \cup {none} => index = 0
    BY <1>4, <1>12, DecideByKey
  <2> HIDE DEF index
  <2>4. CASE reply.key = none
    <3>1. index = last
      BY <1>7, <2>3, <2>4
    <3>2. suggested = Nothing
      BY <1>5, <1>7, <2>1, <3>1
    <3> QED
      BY <2>4, <3>2
  <2>5. CASE reply.key \in V /\ reply.key # none
    <3>1. reply.key \in N
      BY <1>3, <2>2, <2>5, DecisionsAssumption
    <3>2. PICK i \in 1..(last - 1) : options[i] = reply.key
      BY <1>4, <3>1 DEF Listed, last
    <3>3. index = i /\ i < last /\ index # 0
      BY <1>7, <2>3, <3>2
    <3>4. suggested = reply.key
      BY <1>5, <2>1, <3>2, <3>3
    <3> QED
      BY <2>5, <3>4
  <2>6. CASE reply.key # none /\ reply.key \notin V
    <3>1. index = 0
      BY <1>1, <2>3, <2>6
    <3>2. suggested = guess
      BY <1>5, <3>1
    <3> QED
      BY <2>6, <3>2
  <2> QED
    BY <2>4, <2>5, <2>6
<1> QED
  BY <1>10, <1>11, <1>12

LEMMA VocabularySuggests ==
  ASSUME vocabulary \in SUBSET Words, vocabulary # {}
  PROVE  SuggestionsStayInVocabulary
<1> SUFFICES ASSUME NEW name \in Words \ vocabulary
             PROVE  LET options == NormalizeOptions(name, vocabulary)
                        none == Last(options)
                        guess == Suggest(name, vocabulary)
                    IN /\ Valid(options)
                       /\ \A w \in vocabulary : Hints(name, w) => w \in ToSet(options)
                       /\ \A reply \in Replies(options) :
                            LET suggested == NormalizePredicate(name, vocabulary, options, guess, reply)
                            IN /\ suggested \in vocabulary \cup {Nothing}
                               /\ reply.by = "key" /\ reply.confidence >= Floor =>
                                    CASE reply.key = none -> suggested = Nothing
                                      [] reply.key \in vocabulary /\ reply.key # none
                                           -> suggested = reply.key
                                      [] OTHER -> suggested = guess
                               /\ SuggestScope(options, reply) \in ToSet(options) \cup {Nothing}
  BY DEF SuggestionsStayInVocabulary
<1> DEFINE options == NormalizeOptions(name, vocabulary)
           none == Last(options)
           guess == Suggest(name, vocabulary)
           N == Narrowed(name, vocabulary)
<1>1. Listed(options, N, NoneOption(N))
  BY OptionsAreListed
<1>2. Valid(options) /\ ToSet(options) = N \cup {none}
  BY <1>1, ListedIsValid
<1>3. \A w \in vocabulary : Hints(name, w) => w \in N
  BY NarrowedFits
<1>4. ASSUME NEW reply \in Replies(options)
      PROVE  LET suggested == NormalizePredicate(name, vocabulary, options, guess, reply)
             IN /\ suggested \in vocabulary \cup {Nothing}
                /\ reply.by = "key" /\ reply.confidence >= Floor =>
                     /\ reply.key = none => suggested = Nothing
                     /\ reply.key \in vocabulary /\ reply.key # none => suggested = reply.key
                     /\ reply.key # none /\ reply.key \notin vocabulary
                          => suggested = guess
                /\ SuggestScope(options, reply) \in ToSet(options) \cup {Nothing}
  BY SuggestionFits
<1> HIDE DEF options, none, guess, N
<1> QED
  BY <1>2, <1>3, <1>4 DEF options, none, guess

-----------------------------------------------------------------------------

LEMMA InitOK == Init => ToolsInv
<1> SUFFICES ASSUME Init PROVE ToolsInv
  OBVIOUS
<1>1. StoreOK
  BY ToolCallsAssumption DEF Init, StoreOK, Decided
<1>2. CallsOK
  BY DEF Init, CallsOK
<1>3. HolderOK
  BY DEF Init, HolderOK, At, Idle
<1> QED
  BY <1>1, <1>2, <1>3 DEF ToolsInv

LEMMA StepOK ==
  ASSUME ToolsInv, Next
  PROVE  ToolsInv' /\ Outcome
<1>1. StoreOK' /\ Good
  <2>1. CASE \E s \in Sessions, tool \in Tools : \E arg \in Arguments(tool) : Call(s, tool, arg)
    BY <2>1, CallStep
  <2>2. CASE \E s \in Sessions : Acquire(s) \/ Reply(s) \/ Timeout(s) \/ Compute(s)
    BY <2>2, AcquireStep, EndpointStep, ComputeStep
  <2>3. CASE \E c \in Candidates, status \in {"PROMOTED", "REJECTED"} : Elsewhere(c, status)
    BY <2>3, ElsewhereStep
  <2>4. CASE \/ \E word \in Coined : Coin(word)
             \/ \E found \in SUBSET Signals : Signal(found)
    BY <2>4, WorldStep
  <2>5. CASE Stop
    BY <2>5, StopStep
  <2> QED
    BY <2>1, <2>2, <2>3, <2>4, <2>5 DEF Next
<1> QED
  BY <1>1 DEF Good, ToolsInv

LEMMA StutterOK ==
  ASSUME ToolsInv, UNCHANGED vars
  PROVE  ToolsInv'
<1>1. StoreOK'
  BY DEF ToolsInv, StoreOK, vars, store
<1>2. CallsOK' /\ HolderOK'
  BY CallsUntouched DEF vars, store
<1> QED
  BY <1>1, <1>2 DEF ToolsInv

\* Whatever calls, endpoints and the other processes interleave, what a call has
\* read and heard is enough for the step it is at.
THEOREM ToolsInvariant == Spec => []ToolsInv
<1>1. Init => ToolsInv
  BY InitOK
<1>2. ToolsInv /\ [Next]_vars => ToolsInv'
  BY StepOK, StutterOK
<1> QED
  BY <1>1, <1>2, PTL DEF Spec

\* The mutex of the server: at most one call is past lock_tools and not answered,
\* and it is the one that holds it.
THEOREM OneCallAtATime == Spec => []ToolsTypeOK
<1>1. ToolsInv => ToolsTypeOK
  <2> SUFFICES ASSUME ToolsInv PROVE ToolsTypeOK
    OBVIOUS
  <2>1. Cardinality(holder) <= 1
    <3>1. CASE holder = {}
      BY <3>1, FS_EmptySet
    <3>2. CASE \E s \in Sessions : holder = {s}
      BY <3>2, FS_Singleton
    <3> QED
      BY <3>1, <3>2 DEF ToolsInv, HolderOK
  <2> QED
    BY <2>1 DEF ToolsInv, StoreOK, HolderOK, ToolsTypeOK
<1> QED
  BY <1>1, ToolsInvariant, PTL

\* What an answer says of its call is so, whatever others did while its endpoint
\* was asked, for any number of sessions, candidates and facts and any floor: no
\* decision is taken twice, the model's are its own and above the floor, and an
\* extraction that ends well has written what it counts and nothing private.
THEOREM AnswersStayTrue == Spec => AnswersAreTrue
<1>1. ToolsInv /\ [Next]_vars
        => [DecisionsAreOwn /\ \A a \in answer' : AnswerIsTrue(a.call, a.said)]_vars
  BY StepOK DEF Outcome
<1> QED
  BY <1>1, ToolsInvariant, PTL DEF Spec, AnswersAreTrue

\* For any vocabulary, alphabet, distances, hints and option limit: what is asked
\* of a model is a valid decision that lists the hint, and what its answer, or the
\* lack of one, suggests is a predicate of the vocabulary or nothing, and the one
\* the model named if it named one of them; a scope suggested was allowed.
THEOREM SuggestionsAreKnown == Spec => []SuggestionsStayInVocabulary
<1>1. ToolsInv => SuggestionsStayInVocabulary
  BY VocabularySuggests DEF ToolsInv, StoreOK
<1> QED
  BY <1>1, ToolsInvariant, PTL
=============================================================================
