------------------------------ MODULE LogSeries ------------------------------
(***************************************************************************)
(* What the files of one log series promise together: a sequence that only *)
(* grows at its end, by one write at a time, and in which every line that  *)
(* was acknowledged stands whole (ADR-0005, ADR-0019 section 5).           *)
(***************************************************************************)
EXTENDS Naturals, Sequences

CONSTANTS
  Pieces,  \* what one write can leave: [line, end]
  Starts   \* how a series may begin: [pieces, acked]

VARIABLES
  pieces,  \* everything written to the series, oldest first
  acked    \* the lines whose append returned

seriesVars == <<pieces, acked>>

\* A write leaves a line, or a part of it, that no earlier write left.
Extend ==
  /\ \E piece \in Pieces :
       /\ \A i \in DOMAIN pieces : pieces[i].line # piece.line
       /\ pieces' = Append(pieces, piece)
  /\ UNCHANGED acked

Acknowledge ==
  /\ \E i \in DOMAIN pieces : /\ pieces[i].end = "newline"
                              /\ acked' = acked \cup {pieces[i].line}
  /\ UNCHANGED pieces

SeriesInit == [pieces |-> pieces, acked |-> acked] \in Starts

SeriesSpec == SeriesInit /\ [][Extend \/ Acknowledge]_seriesVars
=============================================================================
