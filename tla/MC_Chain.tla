------------------------------ MODULE MC_Chain ------------------------------
(***************************************************************************)
(* Instances of Chain for TLC: two validators and a node that is not one.  *)
(***************************************************************************)
EXTENDS Chain

CONSTANTS v1, v2, observer, t1, t2

\* Each validator decides a transaction; v1 is told of that of v2, before or after it
\* gets the block that has it.
TwoNotices == {<<v1, t1, v1>>, <<v2, t2, v2>>, <<v1, t2, v2>>}

\* The same, with v2 told of that of v1; the observer is told of nothing, and gets the
\* blocks of both.
ObservedNotices == {<<v1, t1, v1>>, <<v2, t2, v2>>, <<v2, t1, v1>>}

TwoPlaces == 1..2
ThreeBlocks == 1..3

\* More than the two validators make of these notices, whatever they lose or restore.
FourBlocks == 1..4
=============================================================================
