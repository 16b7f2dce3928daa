------------------------------ MODULE MCToolCalls ------------------------------
(* A vocabulary of two predicates, and what users may add to it. *)
EXTENDS ToolCalls, TLC

SmallAlphabet == <<"depends_on", "fixes", "needs", "none", "runs">>
SmallLength == [w \in Words |-> CASE w \in {"none", "runs"} -> 4 [] w \in {"fixes", "needs"} -> 5
                                  [] w = "depends_on" -> 10]

\* "none" and "runs" are close to each other and to "needs".
SmallDistance ==
  [vw \in Words \X Words |->
     CASE vw[1] = vw[2] -> 0
       [] vw[1] # vw[2] /\ {vw[1], vw[2]} \subseteq {"none", "runs", "needs"} -> 2
       [] OTHER -> 9]

SmallHint == "needs" :> "depends_on"
SmallPredicates == [c \in Candidates |-> "none"]
SmallTree == <<"kept", "private">>
SmallSentinels == <<"none", "none_of_the_above", "none_of_the_above_", "none_of_the_above__">>
=============================================================================
