--------------------------- MODULE MC_Membership ---------------------------
(* A genesis node and three others, of which the last may die and be started again. *)
EXTENDS Membership

CONSTANTS g, n1, n2, n3
=============================================================================
