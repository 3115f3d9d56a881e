---------------------------- MODULE MC_Agreement ----------------------------
(***************************************************************************)
(* Instances of Agreement: three nodes, two or three of them validators.   *)
(***************************************************************************)
EXTENDS Agreement

CONSTANTS a, b, c

\* Each validator may find any list good or bad.
AnyVerdict == [n \in Node |-> {"yes", "no"}]

\* The worker of b that judges may die, and that of a that starts agreements.
OneOfEach == {<<a, "starter">>, <<b, "judge">>}

Pairs == {l \in SUBSET Node : Cardinality(l) = 2}

\* The validators as they are, or b and c: the leader that installs it is in it, or a is not.
StayOrChange == {{a, b}, {b, c}}
=============================================================================
