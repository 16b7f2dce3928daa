----------------------------- MODULE Lifecycle -----------------------------
(***************************************************************************)
(* What the memory promises its callers, without logs, locks, processes or *)
(* files: claims and candidates move forward one whole call at a time      *)
(* (ADR-0003, ADR-0005, ADR-0014, ADR-0023).  A promotion turns a candidate*)
(* into exactly one new claim, in one step.                                *)
(*                                                                         *)
(* No rebuild invents a decision: what it shows, some call has tried.  A   *)
(* strict rebuild never goes back: it keeps every decision and every claim *)
(* at least as far along.  A lenient one skips what it refuses and promises*)
(* less: a decided candidate stays decided, but perhaps otherwise, by a    *)
(* decision a call tried and did not commit, and a promotion goes with its *)
(* claim when the rebuild loses that.  The one crash that loses the        *)
(* database file, in the middle of the swap, loses everything but what was *)
(* tried.                                                                  *)
(***************************************************************************)
EXTENDS Naturals

CONSTANTS Ids, NoId

VARIABLES
  claimStatus,  \* [Ids -> status]
  decision,     \* [Ids -> [status, claim]], the candidates
  tried,        \* [Ids -> set of decisions], history: what calls set out to decide
  rebuilding    \* "no", or the mode of the rebuild; no call runs meanwhile

abstractVars == <<claimStatus, decision, tried, rebuilding>>

Undecided == [status |-> "PENDING", claim |-> NoId]
NoCandidate == [status |-> "ABSENT", claim |-> NoId]
Promoted(id) == [status |-> "PROMOTED", claim |-> id]
Rejected == [status |-> "REJECTED", claim |-> NoId]

Final == {Promoted(id) : id \in Ids} \cup {Rejected}

Rank(s) == CASE s = "ABSENT" -> 0 [] s = "ACTIVE" -> 1 [] s = "SUPERSEDED" -> 2
             [] s = "INVALIDATED" -> 3

AllAbsent == [id \in Ids |-> "ABSENT"]
NoCandidates == [id \in Ids |-> NoCandidate]

Empty ==
  /\ claimStatus = AllAbsent
  /\ decision = NoCandidates
  /\ tried = [c \in Ids |-> {}]
  /\ rebuilding = "no"

Assert ==
  /\ \E id \in Ids : /\ claimStatus[id] = "ABSENT"
                     /\ claimStatus' = [claimStatus EXCEPT ![id] = "ACTIVE"]
  /\ UNCHANGED <<decision, tried>>

Retire ==
  /\ \E id \in Ids : /\ claimStatus[id] \in {"ACTIVE", "SUPERSEDED"}
                     /\ claimStatus' = [claimStatus EXCEPT ![id] = "INVALIDATED"]
  /\ UNCHANGED <<decision, tried>>

Supersede ==
  /\ \E S \in SUBSET {id \in Ids : claimStatus[id] = "ACTIVE"} :
       claimStatus' = [id \in Ids |-> IF id \in S THEN "SUPERSEDED" ELSE claimStatus[id]]
  /\ UNCHANGED <<decision, tried>>

Propose ==
  /\ \E c \in Ids : /\ decision[c] = NoCandidate
                    /\ decision' = [decision EXCEPT ![c] = Undecided]
  /\ UNCHANGED <<claimStatus, tried>>

\* A call is about to decide; it may stop before it does.
Try ==
  /\ \E c \in Ids, x \in Final : tried' = [tried EXCEPT ![c] = tried[c] \cup {x}]
  /\ UNCHANGED <<claimStatus, decision>>

Promote ==
  /\ \E c, id \in Ids :
       /\ decision[c] = Undecided
       /\ claimStatus[id] = "ABSENT"
       /\ Promoted(id) \in tried[c]
       /\ decision' = [decision EXCEPT ![c] = Promoted(id)]
       /\ claimStatus' = [claimStatus EXCEPT ![id] = "ACTIVE"]
  /\ UNCHANGED tried

Reject ==
  /\ \E c \in Ids : /\ decision[c] = Undecided
                    /\ Rejected \in tried[c]
                    /\ decision' = [decision EXCEPT ![c] = Rejected]
  /\ UNCHANGED <<claimStatus, tried>>

StartRebuild ==
  /\ rebuilding = "no" /\ rebuilding' \in {"strict", "lenient"}
  /\ UNCHANGED <<claimStatus, decision, tried>>

NothingInvented ==
  \A c \in Ids : decision'[c] \in tried[c] \cup {NoCandidate, Undecided}

NothingUndone ==
  /\ \A id \in Ids : Rank(claimStatus[id]) <= Rank(claimStatus'[id])
  /\ \A c \in Ids : decision[c] \in Final => decision'[c] = decision[c]

\* A candidate stays, and stays decided unless the rebuild loses its claim.
DecidedStay ==
  \A c \in Ids :
    /\ decision[c] # NoCandidate => decision'[c] # NoCandidate
    /\ decision[c] \in Final => \/ decision'[c] \in Final
                                \/ /\ decision[c] # Rejected
                                   /\ claimStatus'[decision[c].claim] = "ABSENT"

Recover ==
  /\ rebuilding # "no"
  /\ NothingInvented /\ DecidedStay
  /\ rebuilding = "strict" => NothingUndone
  /\ UNCHANGED <<tried, rebuilding>>

EndRebuild ==
  /\ rebuilding # "no" /\ rebuilding' = "no"
  /\ \/ UNCHANGED <<claimStatus, decision>>
     \/ claimStatus' = AllAbsent /\ decision' = NoCandidates
  /\ UNCHANGED tried

AbstractNext ==
  \/ /\ rebuilding = "no" /\ UNCHANGED rebuilding
     /\ Assert \/ Retire \/ Supersede \/ Propose \/ Try \/ Promote \/ Reject
  \/ StartRebuild \/ Recover \/ EndRebuild

AbstractSpec == Empty /\ [][AbstractNext]_abstractVars
=============================================================================
