---------------------------- MODULE MC_PoolFile ----------------------------
(* The server of a node with two greenlets, and its verifier, on one pool file. *)
EXTENDS PoolFile

CONSTANTS server, verifier, s1, s2, w1, t1, t2, u1, u2

TwoProcesses == [a \in Thread |-> IF a = w1 THEN verifier ELSE server]

\* The server adds transactions, records the votes of a peer and pops; the verifier
\* records its own votes and pops.
Adds(t) == [kind : {"add"}, tx : {t}, voter : {u1}]
Votes(u) == [kind : {"record"}, tx : {t1}, voter : {u}]
Pops == [kind : {"pop"}, tx : {t1}, voter : {u1}]
Finds == [kind : {"find"}, tx : {t1}, voter : {u1}]
ServerAndVerifier ==
    [a \in Thread |-> CASE a = w1 -> Votes(u1) \cup Pops \cup Finds
                        [] a = s1 -> Adds(t1) \cup Votes(u2)
                        [] a = s2 -> Adds(t2) \cup Pops]
Few == [a \in Thread |-> IF a = s2 THEN 1 ELSE 2]
=============================================================================
