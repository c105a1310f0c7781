------------------------------ MODULE MCTicks ------------------------------
(***************************************************************************)
(* Instances of Ticks for TLC.                                             *)
(***************************************************************************)
EXTENDS Ticks

\* Ranges of whole intervals of "B".
Days == {Interval(0, 2), Interval(2, 4)}
\* A range within one.
Hours == {Interval(1, 2)}
=============================================================================
