------------------------------- MODULE TxPool -------------------------------
(***************************************************************************)
(* What the pool of transactions to verify promises the processes of a     *)
(* node: each of its operations takes effect in one step.  TxVoting takes  *)
(* the pool to be like this.                                               *)
(*                                                                         *)
(* The pool may also be void: nothing is promised of it any more.  The     *)
(* module that implements the pool says what makes it so.                  *)
(***************************************************************************)
CONSTANTS
    Tx,         \* the transactions
    Voter,      \* the validators that vote on them
    NoEntry     \* stands for the entry of a transaction that is not in the pool

VARIABLES
    entries,    \* entries[t]: those whose votes the entry of t holds
    void

Init ==
    /\ entries = [t \in Tx |-> NoEntry]
    /\ void = FALSE

\* A transaction is added without votes, whether or not it is there already.
Add(t) ==
    /\ ~void
    /\ entries' = [entries EXCEPT ![t] = {}]
    /\ UNCHANGED void

Record(t, u) ==
    /\ ~void
    /\ entries[t] # NoEntry
    /\ entries' = [entries EXCEPT ![t] = @ \cup {u}]
    /\ UNCHANGED void

Pop(t) ==
    /\ ~void
    /\ entries[t] # NoEntry
    /\ entries' = [entries EXCEPT ![t] = NoEntry]
    /\ UNCHANGED void

Break ==
    /\ void' = TRUE
    /\ entries' = [t \in Tx |-> NoEntry]

Next ==
    \/ \E t \in Tx : Add(t) \/ Pop(t) \/ \E u \in Voter : Record(t, u)
    \/ Break

Spec == Init /\ [][Next]_<<entries, void>>
=============================================================================
