----------------------------- MODULE TxDecision -----------------------------
(***************************************************************************)
(* What a vote on a transaction promises, whoever counts it: one ballot    *)
(* per transaction that is closed once, with one result, which the nodes   *)
(* learn one after the other and never change their mind about.            *)
(*                                                                         *)
(* A ballot may also become void: nothing is promised of it any more.  The *)
(* module that counts the votes says what makes it so.                     *)
(***************************************************************************)
CONSTANTS
    Node,       \* the nodes that learn the results
    Tx          \* the transactions voted on

VARIABLES
    ballot,     \* ballot[t]: the state of the ballot on t
    accepted,   \* accepted[n]: the transactions that n has learned to be accepted
    refused     \* refused[n]: the transactions that n has learned to be refused

Result == {"accepted", "refused"}

Init ==
    /\ ballot = [t \in Tx |-> "open"]
    /\ accepted = [n \in Node |-> {}]
    /\ refused = [n \in Node |-> {}]

\* The last vote is given: the result is fixed.
Close(t) ==
    /\ ballot[t] = "open"
    /\ \E r \in Result : ballot' = [ballot EXCEPT ![t] = r]
    /\ UNCHANGED <<accepted, refused>>

Void(t) ==
    /\ ballot' = [ballot EXCEPT ![t] = "void"]
    /\ UNCHANGED <<accepted, refused>>

LearnAccepted(n, t) ==
    /\ ballot[t] \in {"accepted", "void"}
    /\ accepted' = [accepted EXCEPT ![n] = @ \cup {t}]
    /\ UNCHANGED <<ballot, refused>>

LearnRefused(n, t) ==
    /\ ballot[t] \in {"refused", "void"}
    /\ refused' = [refused EXCEPT ![n] = @ \cup {t}]
    /\ UNCHANGED <<ballot, accepted>>

Next ==
    \/ \E t \in Tx : Close(t) \/ Void(t)
    \/ \E n \in Node, t \in Tx : LearnAccepted(n, t) \/ LearnRefused(n, t)

Spec == Init /\ [][Next]_<<ballot, accepted, refused>>
=============================================================================
