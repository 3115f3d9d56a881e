------------------------------ MODULE MC_Trust ------------------------------
(* A genesis node g and another, that has no trust of g.  Both processes of a node may     *)
(* notice the same, so that the other node is told of it twice, as it would be by two.     *)
EXTENDS Trust

CONSTANTS g, n1, voted, started, created, earlier

Abouts == [c \in Change |-> IF c = started THEN g ELSE n1]
Amounts == [c \in Change |-> IF c = voted THEN -10 ELSE 5]
Lists == [c \in Change |-> c = started]
KnownButGenesis == [n \in Node |-> IF n = n1 THEN Node \ {g} ELSE Node]

\* One row becomes old and has to be purged while the other is kept; what the worker of n1
\* notices may become old too.
TwoRows == {<<created, n1, "server">>, <<earlier, g, "worker">>}
OneOfEach == {<<created, n1, "server">>, <<voted, n1, "worker">>}

\* The server of g and the worker of n1 decide on a transaction, ...
DecidedTwice == {<<g, "server", voted>>, <<n1, "worker", voted>>}
\* ... and the server of n1 starts an agreement meanwhile.
AndStarted == DecidedTwice \cup {<<n1, "server", started>>}
\* Both processes of n1 decide on a transaction.
NoticedTwice == {<<n1, "server", voted>>, <<n1, "worker", voted>>}
\* Both nodes start an agreement.
StartedTwice == {<<n1, "server", started>>, <<g, "server", started>>}
AnyTwice == {DecidedTwice, AndStarted, NoticedTwice, StartedTwice}
=============================================================================
