------------------------------- MODULE Store -------------------------------
(***************************************************************************)
(* What a store of a node promises the processes that share it: every      *)
(* operation takes effect in one step, on what all the earlier ones left.  *)
(* What a store holds is given by the operations it shows the effect of.   *)
(*                                                                         *)
(* A void store promises nothing any more.                                 *)
(***************************************************************************)
CONSTANT Effect

VARIABLES rows, void

Init == rows = {} /\ void = FALSE

\* An operation that keeps what there is.
Add(e) == ~void /\ rows' = rows \cup {e} /\ UNCHANGED void

\* Operations that do not.
Set(e) == ~void /\ rows' = {e} /\ UNCHANGED void

Clear == ~void /\ rows' = {} /\ UNCHANGED void

Break == void' = TRUE /\ rows' = {}

Next == (\E e \in Effect : Add(e) \/ Set(e)) \/ Clear \/ Break

Spec == Init /\ [][Next]_<<rows, void>>
=============================================================================
