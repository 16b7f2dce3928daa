--------------------------- MODULE MCObservations ---------------------------
(* Small instances of Observations for TLC. *)
EXTENDS Observations, TLC

\* Distinct, except that a content observed on events 1 and 2 collides with the
\* same content observed on event 2.
SmallDigest(s, content, sources) == 10 * content + (IF 2 \in sources THEN 2 ELSE 1)

\* One content, which two observers judge as differently as they can.
TwoJudgements == {[content |-> 1, relevance |-> "low", derivation |-> 1],
                  [content |-> 1, relevance |-> "critical", derivation |-> 1]}

\* An observer whose second draft repeats an event of the first.
OneObserver ==
  {<<[draft |-> d, sources |-> {1}], [draft |-> e, sources |-> {1, 2}]>> :
     d \in TwoJudgements, e \in {f \in TwoJudgements : f.relevance = "critical"}}

ProcSymmetry == Permutations(Procs) \cup Permutations(Sessions)
=============================================================================
