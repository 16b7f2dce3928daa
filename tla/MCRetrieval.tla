------------------------------ MODULE MCRetrieval ------------------------------
(* A small memory for Retrieval: a project "p", also written "P", with two parts. *)
EXTENDS Retrieval, TLC

SmallParents ==
  ("relates_to" :> NoParent) @@ ("depends_on" :> "relates_to") @@ ("name" :> "relates_to")
SmallAliases == "uses" :> "depends_on"
SmallLowerCase == "P" :> "p"

Fact(s, p, o, scope, conf, prov) ==
  [subject |-> s, predicate |-> p, object |-> o, scope |-> scope, conf |-> conf, prov |-> prov]

\* "blocks" is unknown until a user says it.
SmallFacts ==
  {Fact(1, "depends_on", 2, <<"p", "a">>, 60, "EXTRACTED"),
   Fact(2, "blocks", 1, <<"p", "b">>, 40, "INFERRED"),
   Fact(1, "blocks", 3, Global, 95, "USER_ASSERTED"),
   Fact(3, "name", 2, <<"P">>, 80, "USER_ASSERTED")}

SmallRelations ==
  {[predicate |-> "uses", members |-> <<2, 3, 4>>, conf |-> 70, prov |-> "EXTRACTED"]}

Code == [relates_to |-> 10, depends_on |-> 11, uses |-> 12, blocks |-> 13, name |-> 14]
Words == [f \in SmallFacts |-> {f.subject, Code[f.predicate], f.object}]
PartsOfWords == [f \in SmallFacts |-> Words[f] \cup {100 + f.subject, 100 + f.object}]
EndWords == [f \in SmallFacts |-> {f.subject, f.object}]

\* One query that a name can anchor, one that parts of words answer.
SmallQueries ==
  {[tokens |-> <<3, 14>>, entity |-> 4, vector |-> 2, alpha |-> 35],
   [tokens |-> <<1, 102, 11>>, entity |-> 1, vector |-> 1, alpha |-> 65]}

\* Two models, the second off dimension.
SmallEmbedding == [p \in Procs |-> [t \in Texts |-> IF p = "p1" THEN 1 ELSE 2]]

SmallNear(v, w) == IF v = w THEN 100 ELSE 40
SmallCosine(v, w) == IF v = w THEN 100 ELSE 64
=============================================================================
