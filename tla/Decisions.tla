------------------------------- MODULE Decisions -------------------------------
(***************************************************************************)
(* Closed choices put to a decision model (decision.rs), and the two seams  *)
(* that only read: predicate normalization (predicate_decision.rs,          *)
(* ontology.rs) and scope suggestion (scope_decision.rs).  What a model is  *)
(* told and the wording of its question are left out; what it may answer    *)
(* is not: an option's key or index, something else, with or without a      *)
(* confidence (a percentage), or nothing.                                   *)
(***************************************************************************)
EXTENDS Integers, Sequences, FiniteSets, SequencesExt, FiniteSetsExt

CONSTANTS
  MaxOptions,  \* how many options a decision may have, 24 in the code
  Floor,       \* AVER_DECISION_MIN_CONFIDENCE
  Confidences, \* the confidences models report
  Words,       \* predicate names, known and unknown, all normalized
  Alphabet,    \* the same in alphabetical order
  WordLength,  \* name -> its length
  Distance,    \* edit distance between normalized names
  Hint,        \* name -> the predicate of its synonym group
  Sentinels    \* none, none_of_the_above, none_of_the_above_, ...

\* No name, which no word has.
Nothing == ""

ASSUME DecisionsAssumption ==
  /\ MaxOptions \in Nat \ {0, 1}
  /\ Floor \in 0..100 /\ Confidences \subseteq 0..100
  /\ Alphabet \in Seq(Words) /\ ToSet(Alphabet) = Words /\ Len(Alphabet) = Cardinality(Words)
  /\ WordLength \in [Words -> Nat]
  /\ Distance \in [Words \X Words -> Nat]
  /\ DOMAIN Hint \subseteq Words
  /\ Sentinels \in Seq(STRING) /\ IsInjective(Sentinels)
  /\ Len(Sentinels) > MaxOptions /\ Sentinels[1] = "none"
  /\ {Nothing, "junk"} \cap (Words \cup ToSet(Sentinels)) = {}

Unreported == -1  \* a missing confidence, or NaN

Failed == [by |-> "nobody", confidence |-> Unreported]

\* What an endpoint may say of these options; one index is out of range.
Replies(options) ==
  {Failed}
  \cup [by : {"key"}, key : ToSet(options) \cup {"junk"},
         confidence : Confidences \cup {Unreported}]
  \cup [by : {"index"}, at : 0..Len(options), confidence : Confidences \cup {Unreported}]

\* Decision::validate.
Valid(options) ==
  /\ Len(options) \in 2..MaxOptions
  /\ IsInjective(options) /\ Nothing \notin ToSet(options)

\* parse_response: the options an answer names, which is one or none.
Chosen(options, reply) ==
  {i \in DOMAIN options : \/ reply.by = "key" /\ reply.key = options[i]
                          \/ reply.by = "index" /\ reply.at = i - 1}

\* decide: the option chosen, or 0 for an error; what is not valid is not sent.
Decide(options, reply) ==
  IF Valid(options) /\ Chosen(options, reply) # {} THEN Min(Chosen(options, reply)) ELSE 0

\* Mutant: without a confidence there is no floor.
MeetsUnreported(reply) == reply.confidence = Unreported \/ reply.confidence >= Floor

\* Choice::meets.
Meets(reply) == reply.confidence # Unreported /\ reply.confidence >= Floor

-----------------------------------------------------------------------------
(* normalize_predicate. *)

Place == [word \in Words |-> CHOOSE i \in DOMAIN Alphabet : Alphabet[i] = word]

\* The words, each after those that come before it in the alphabet.
Alphabetical(words) ==
  [i \in 1..Cardinality(words) |->
     CHOOSE w \in words : Cardinality({v \in words : Place[v] < Place[w]}) = i - 1]

Hints(name, word) == name \in DOMAIN Hint /\ Hint[name] = word

\* By distance, then length, then alphabet.
Closer(name, v, w) ==
  \/ Distance[<<name, v>>] < Distance[<<name, w>>]
  \/ /\ Distance[<<name, v>>] = Distance[<<name, w>>]
     /\ \/ WordLength[v] < WordLength[w]
        \/ WordLength[v] = WordLength[w] /\ Place[v] < Place[w]

\* suggest_unknown_predicate: the hint, or what is close enough.
Suggest(name, vocabulary) ==
  LET nearest == CHOOSE w \in vocabulary : \A v \in vocabulary : v = w \/ Closer(name, w, v)
      longer == Max({WordLength[name], WordLength[nearest]})
      tolerated == IF longer <= 4 THEN 1 ELSE IF longer <= 8 THEN 2 ELSE 3
  IN CASE \E w \in vocabulary : Hints(name, w) -> Hint[name]
       [] ~(\E w \in vocabulary : Hints(name, w)) /\ Distance[<<name, nearest>>] <= tolerated -> nearest
       [] OTHER -> Nothing

\* narrow_candidates: one option is kept for "no match".
Narrowed(name, vocabulary) ==
  LET Before(v, w) == Hints(name, v) \/ (~Hints(name, w) /\ Closer(name, v, w))
  IN IF Cardinality(vocabulary) < MaxOptions THEN vocabulary
     ELSE {w \in vocabulary :
             Cardinality({v \in vocabulary \ {w} : Before(v, w)}) < MaxOptions - 1}

\* Mutant: "no match" has one name.
NoneAlways(candidates) == Sentinels[1]

\* none_option.
NoneOption(candidates) == Sentinels[SelectInSeq(Sentinels, LAMBDA s : s \notin candidates)]

NormalizeOptions(name, vocabulary) ==
  LET candidates == Narrowed(name, vocabulary)
  IN Append(Alphabetical(candidates), NoneOption(candidates))

\* Asked with these options, or else the guess made without a model.
NormalizePredicate(name, vocabulary, options, guess, reply) ==
  LET index == Decide(options, reply)
  IN CASE name \in vocabulary -> Nothing
       [] name \notin vocabulary /\ index # 0 /\ Meets(reply) ->
            IF index < Len(options) THEN options[index] ELSE Nothing
       [] OTHER -> guess

-----------------------------------------------------------------------------

\* suggest_scope: one of those allowed, or the caller's default.
SuggestScope(allowed, reply) ==
  LET index == Decide(allowed, reply)
  IN IF index # 0 /\ Meets(reply) THEN allowed[index] ELSE Nothing
=============================================================================
