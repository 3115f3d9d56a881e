---------------------------- MODULE MC_TxVoting ----------------------------
(* TLC instances of TxVoting: the validators and the values of its constants, *)
(* and a second initial state for the instance with three validators.         *)
EXTENDS TxVoting, TLC

CONSTANTS v1, v2, v3, observer, t1

\* The sender of t1: a node that is not a validator, or the validator v1.
SentByObserver == t1 :> observer
SentByValidator == t1 :> v1

\* Every node list has the validators in the order of their registration.
Registration == v1 :> 1 @@ v2 :> 2 @@ v3 :> 3
RegistrationOrder == [n \in Node |-> [v \in Validator |-> Registration[v]]]

\* Verdicts: v3 finds the transaction bad and the others good; or v2 finds it bad
\* and v1 may find either, at each of its attempts.
OneAgainst == [v \in Validator |-> IF v = v3 THEN {"no"} ELSE {"yes"}]
SecondAgainst == [v \in Validator |-> IF v = v2 THEN {"no"} ELSE {"yes", "no"}]

\* v3 may raise on t1 at every pass, and v2 has no trust of one of the voters.
LastRaises == {<<v3, t1>>}
SecondStalls == {v2}

\* v1 has received t1 and populated it to v2; the request to v3 failed, and v3
\* learns of t1 from a vote.  Nothing has been voted on yet: the state before any
\* verifier woke up (it sleeps for a second when it finds nothing).
InitPopulated ==
    LET holders == {v1, v2}
    IN /\ pool = [v \in Validator |-> IF v \in holders THEN Tx ELSE {}]
       /\ voting = [v \in Validator |-> [t \in Tx |-> NoVotes]]
       /\ verified = [n \in Node |-> {}]
       /\ rejected = [v \in Validator |-> {}]
       /\ broadcast = {}
       /\ populating = [t \in Tx |-> [pc |-> "done", host |-> v1, at |-> Sender[t],
                                      todo |-> {}]]
       /\ act = [v \in Validator |-> Idle(v)]
       /\ held = pool
       /\ readded = {}
       /\ cast = [v \in Validator |-> [t \in Tx |-> {}]]
       /\ dropped = {}

SpecPopulated == InitPopulated /\ [][Next]_vars
FairSpecPopulated == SpecPopulated /\ Fairness
=============================================================================
