----------------------------- MODULE Membership -----------------------------
(***************************************************************************)
(* How a node joins a PoST network, and how the first validators are       *)
(* drawn.                                                                  *)
(*                                                                         *)
(* The server of a node boots before it serves requests: it takes the      *)
(* genesis node for a node and the only validator, registers there, and    *)
(* gets the chain and the other nodes from it.  The genesis node tells     *)
(* every node it knows of the new one, one after the other, before it      *)
(* answers.  Once the number of nodes has been the same for a while, a     *)
(* worker at the genesis node draws validators and sends the list to all.  *)
(*                                                                         *)
(* Grain.  A handler is one step up to a request that it makes: another    *)
(* handler may run until the answer comes.  A request to a node that boots *)
(* waits, and may time out; one to a node that is dead fails.  Time is     *)
(* left out: the list of nodes may be taken for stable at any moment.      *)
(***************************************************************************)
EXTENDS FiniteSetsExt, Integers, Sequences

CONSTANTS
    Node,        \* the nodes
    Genesis,     \* the one that all know of
    Percent,     \* VALIDATORS_PART, in percent
    Mortal,      \* the nodes that may die, once
    Restartable  \* the nodes that may be started again, once

ASSUME GenesisAssumption == IsFiniteSet(Node) /\ Genesis \in Node
ASSUME PercentAssumption == Percent \in 1..100
\* What a node that asks it gets when the genesis node dies is left out.
ASSUME MortalAssumption == Mortal \subseteq Node \ {Genesis} /\ Restartable \subseteq Node \ {Genesis}

VARIABLES
    pc,          \* pc[n]: where the server of n stands in its boot
    nodes,       \* nodes[n]: those in the nodes file of n
    roll,        \* the nodes file of the genesis node, in its order
    trusted,     \* trusted[n]: those whose trust is in the nodes_trust file of n
    validators,  \* validators[n]: its validators file
    hasChain,    \* the nodes with a chain
    visited,     \* visited[n]: how far the handler that registers n is in the list, 0 if none is
    lists,       \* the <<n, V>> such that V is on its way to n
    draw,        \* where the worker that draws validators stands: waiting, done or dead
    \* History, that no step of the code reads:
    joined,      \* the nodes that booted, from beginning to end
    overlapped,  \* whether a node registered while another was registering, or not up yet
    broken,      \* whether a registration failed
    untold,      \* the nodes that refused the word of another node or of the validators
    told,        \* the nodes in the list when the validators were drawn
    amid,        \* whether they were drawn while a node was registering, or not up yet
    died,        \* the nodes that died
    restarted    \* the nodes that were started again

fileVars == <<nodes, roll, trusted, validators, hasChain>>
historyVars == <<joined, overlapped, broken, untold, told, amid, died, restarted>>
vars == <<pc, nodes, roll, trusted, validators, hasChain, visited, lists, draw, joined, overlapped,
          broken, untold, told, amid, died, restarted>>

Pc == {"off", "info", "register", "registering", "update", "up", "dead"}
Booting == {n \in Node : pc[n] \in {"info", "register", "registering", "update"}}

\* The handler that registers a node does not end with that node.
Registering == {n \in Node : visited[n] > 0 \/ pc[n] = "update"}

TypeOK ==
    /\ pc \in [Node -> Pc]
    /\ nodes \in [Node -> SUBSET Node]
    /\ roll \in Seq(Node)
    /\ IsInjective(roll) /\ Range(roll) = nodes[Genesis]
    /\ trusted \in [Node -> SUBSET Node]
    /\ validators \in [Node -> SUBSET Node]
    /\ hasChain \subseteq Node
    /\ visited \in [Node -> Nat]
    /\ lists \subseteq Node \X SUBSET Node
    /\ draw \in {"waiting", "done", "dead"}
    /\ joined \subseteq Node
    /\ overlapped \in BOOLEAN
    /\ broken \in BOOLEAN
    /\ untold \subseteq Node
    /\ told \subseteq Node
    /\ amid \in BOOLEAN
    /\ died \subseteq Node
    /\ restarted \subseteq Node

Goto(n, step) == pc' = [pc EXCEPT ![n] = step]
-----------------------------------------------------------------------------
Knowing(n, S) == nodes' = [nodes EXCEPT ![n] = @ \cup S]
Trusting(n, S) == trusted' = [trusted EXCEPT ![n] = @ \cup S]

IsValidator(n) == Genesis \in validators[n]
-----------------------------------------------------------------------------
(* PoST.load *)

\* The server starts; a node adds itself, and the genesis node makes the first block.
Start(n) ==
    /\ pc[n] = "off"
    /\ Knowing(n, {n})
    /\ Trusting(n, {n})
    /\ IF n = Genesis
         THEN /\ Goto(n, "up")
              /\ roll' = <<n>>
              /\ hasChain' = hasChain \cup {n}
              /\ validators' = [validators EXCEPT ![n] = {n}]
              /\ joined' = joined \cup {n}
         ELSE Goto(n, "info") /\ UNCHANGED <<roll, hasChain, validators, joined>>
    /\ UNCHANGED <<visited, lists, draw, overlapped, broken, untold, told, amid, died, restarted>>

\* The genesis node is known from its GET /info, and gets no trust.
GetInfo(n) ==
    /\ pc[n] = "info"
    /\ pc[Genesis] = "up"
    /\ Knowing(n, {Genesis})
    /\ validators' = [validators EXCEPT ![n] = {Genesis}]
    /\ Goto(n, "register")
    /\ UNCHANGED <<roll, trusted, hasChain, visited, lists, draw, historyVars>>

Fail(n) ==
    /\ Goto(n, "dead")
    /\ broken' = (broken \/ pc[n] # "info")
    /\ UNCHANGED <<fileVars, visited, lists, draw, joined, overlapped, untold, told, amid, died,
                   restarted>>

\* An exception in load ends the server: the genesis node does not answer, or refuses.
BootFails(n) ==
    /\ \/ pc[n] = "info" /\ pc[Genesis] # "up"
       \/ pc[n] \in {"register", "update"} /\ ~IsValidator(Genesis)
    /\ Fail(n)

AddNode(m, n) == Knowing(m, {n}) /\ Trusting(m, {n})

\* node_register, up to its first request.  The node has asked before whether it is
\* registered: it never is, or its list would have two nodes, and load leave off earlier.
Register(n) ==
    /\ pc[n] = "register"
    /\ IsValidator(Genesis)
    /\ overlapped' = (overlapped \/ Registering # {})
    /\ AddNode(Genesis, n)
    /\ roll' = Append(roll, n)
    /\ Goto(n, "registering")
    /\ visited' = [visited EXCEPT ![n] = 1]
    /\ UNCHANGED <<validators, hasChain, lists, draw, joined, broken, untold, told, amid, died,
                   restarted>>

\* This mutant leaves out the next one, the other does not leave out the new node.
AheadByTwo(n) ==
    {i \in DOMAIN roll : i > visited[n] /\ roll[i] \notin {n, Genesis}}
AheadWithItself(n) ==
    {i \in DOMAIN roll : i >= visited[n] /\ roll[i] # Genesis}

\* Where in the list are the nodes that are not told of n yet: also those that came after.
Ahead(n) ==
    {i \in DOMAIN roll : i >= visited[n] /\ roll[i] \notin {n, Genesis}}

\* The handler that registers n is about to tell the i-th node.
Tells(n, i) ==
    /\ visited[n] > 0
    /\ i \in Ahead(n)
    /\ \A j \in Ahead(n) : i =< j

\* POST /node/populate-new: populate_new_node refuses if the sender is no validator to m,
\* and if n is known.  What m answers does not matter.
Populate(n) == \E i \in DOMAIN roll :
    LET m == roll[i] IN
    /\ Tells(n, i)
    /\ pc[m] = "up"
    /\ visited' = [visited EXCEPT ![n] = i + 1]
    /\ IF IsValidator(m) /\ n \notin nodes[m]
         THEN AddNode(m, n) /\ UNCHANGED untold
         ELSE /\ untold' = IF n \in nodes[m] THEN untold ELSE untold \cup {m}
              /\ UNCHANGED <<nodes, trusted>>
    /\ UNCHANGED <<pc, roll, validators, hasChain, lists, draw, joined, overlapped, broken, told,
                   amid, died, restarted>>

\* The mutant waits without a timeout.
IsDead(m) == pc[m] = "dead"

Unanswering(m) == pc[m] # "up"

\* The node that registers gets the answer, if it is still there.
Answer(n, step) ==
    /\ visited' = [visited EXCEPT ![n] = 0]
    /\ Goto(n, IF pc[n] = "registering" THEN step ELSE pc[n])

\* A request to a node that boots times out, one to a dead node fails: node_register does
\* not catch it, and the node that registers does not boot.
PopulateFails(n) ==
    /\ \E i \in DOMAIN roll : Tells(n, i) /\ Unanswering(roll[i])
    /\ Answer(n, "dead")
    /\ broken' = TRUE
    /\ UNCHANGED <<fileVars, lists, draw, joined, overlapped, untold, told, amid, died, restarted>>

Registered(n) ==
    /\ visited[n] > 0
    /\ Ahead(n) = {}
    /\ Answer(n, "update")
    /\ UNCHANGED <<fileVars, lists, draw, historyVars>>

\* Node.update_from_json skips the nodes that are known.
NewNodes(n) == nodes[Genesis] \ nodes[n]

\* GET /node/update; the genesis node gives a trust to those it knows without.
Update(n) ==
    /\ pc[n] = "update"
    /\ IsValidator(Genesis)
    /\ hasChain' = hasChain \cup {n}
    /\ Knowing(n, NewNodes(n))
    /\ trusted' = [trusted EXCEPT ![n] = @ \cup NewNodes(n),
                                  ![Genesis] = @ \cup nodes[Genesis]]
    /\ Goto(n, "up")
    /\ joined' = joined \cup {n}
    /\ UNCHANGED <<roll, validators, visited, lists, draw, overlapped, broken, untold, told, amid,
                   died, restarted>>
-----------------------------------------------------------------------------
(* The first validators *)

\* calculate_validators_number
ValidatorsNumber(k) == Max({2, (k * Percent) \div 100})

DrawValidators ==
    LET all == nodes[Genesis] IN
    /\ draw = "waiting"
    /\ pc[Genesis] = "up"
    /\ \E V \in SUBSET all :
          /\ Cardinality(V) = ValidatorsNumber(Cardinality(all))
          /\ validators' = [validators EXCEPT ![Genesis] = V]
          /\ lists' = (all \ {Genesis}) \X {V}
    /\ draw' = "done"
    /\ told' = all
    /\ amid' = (Registering # {})
    /\ UNCHANGED <<pc, nodes, roll, trusted, hasChain, visited, joined, overlapped, broken, untold,
                   died, restarted>>

\* random.sample raises if there are too few nodes.
DrawFails ==
    /\ draw = "waiting"
    /\ pc[Genesis] = "up"
    /\ Len(roll) < ValidatorsNumber(Len(roll))
    /\ draw' = "dead"
    /\ UNCHANGED <<pc, fileVars, visited, lists, historyVars>>

\* The mutant wants the sender to be one of the new validators.
AcceptsOwn(n, V) == Genesis \in V /\ V \subseteq nodes[n]

\* node_new_validators: a list with a node that is not known is refused.
Accepts(n, V) == IsValidator(n) /\ V \subseteq nodes[n]

NewValidators(n, V) ==
    /\ <<n, V>> \in lists
    /\ pc[n] = "up"
    /\ lists' = lists \ {<<n, V>>}
    /\ IF Accepts(n, V)
         THEN validators' = [validators EXCEPT ![n] = V] /\ UNCHANGED untold
         ELSE untold' = untold \cup {n} /\ UNCHANGED validators
    /\ UNCHANGED <<pc, nodes, roll, trusted, hasChain, visited, draw, joined, overlapped, broken,
                   told, amid, died, restarted>>

ListLost(n, V) ==
    /\ <<n, V>> \in lists
    /\ pc[n] = "dead"
    /\ lists' = lists \ {<<n, V>>}
    /\ UNCHANGED <<pc, fileVars, visited, draw, historyVars>>
-----------------------------------------------------------------------------
(* Nodes die and are started again *)

Die(n) ==
    /\ n \in Mortal \ died
    /\ pc[n] # "off"
    /\ Goto(n, "dead")
    /\ died' = died \cup {n}
    /\ UNCHANGED <<fileVars, visited, lists, draw, joined, overlapped, broken, untold, told, amid,
                   restarted>>

\* The mutant takes the genesis node for one of those that a node has from an update.
HasFew(n) == Cardinality(nodes[n]) =< 2

IsAlone(n) == Cardinality(nodes[n]) < 2

\* The files are there.  With two nodes in its list a node neither registers nor asks for
\* an update.
Restart(n) ==
    /\ n \in Restartable \ restarted
    /\ pc[n] = "dead"
    /\ restarted' = restarted \cup {n}
    /\ Goto(n, IF IsAlone(n) THEN "info" ELSE "up")
    /\ UNCHANGED <<fileVars, visited, lists, draw, joined, overlapped, broken, untold, told, amid,
                   died>>

Init ==
    /\ pc = [n \in Node |-> "off"]
    /\ nodes = [n \in Node |-> {}]
    /\ roll = <<>>
    /\ trusted = [n \in Node |-> {}]
    /\ validators = [n \in Node |-> {}]
    /\ hasChain = {}
    /\ visited = [n \in Node |-> 0]
    /\ lists = {}
    /\ draw = "waiting"
    /\ joined = {}
    /\ overlapped = FALSE
    /\ broken = FALSE
    /\ untold = {}
    /\ told = {}
    /\ amid = FALSE
    /\ died = {}
    /\ restarted = {}

\* The boot of n goes on.
Boot(n) ==
    \/ GetInfo(n) \/ BootFails(n) \/ Register(n) \/ Populate(n) \/ PopulateFails(n)
    \/ Registered(n) \/ Update(n)

Next ==
    \/ \E n \in Node : Start(n) \/ Boot(n) \/ Die(n) \/ Restart(n)
    \/ DrawValidators \/ DrawFails
    \/ \E l \in lists : NewValidators(l[1], l[2]) \/ ListLost(l[1], l[2])

\* The genesis node serves requests, and its requests are answered or fail.  Nothing makes
\* anyone start a node.
Fairness ==
    /\ \A n \in Node : WF_vars(Boot(n))
    /\ WF_vars(\E l \in lists : NewValidators(l[1], l[2]) \/ ListLost(l[1], l[2]))

Spec == Init /\ [][Next]_vars
FairSpec == Spec /\ Fairness
-----------------------------------------------------------------------------
(* Properties *)

\* Nodes that have joined know each other and have a trust of each other, but for that of
\* the genesis node (a change of it waits until somebody asks for the nodes), unless the
\* validators changed in the middle of a registration (and the word of the genesis node was
\* refused).  It is not enough that a node told its own: those that register later are told
\* by the genesis node, before or while the node asks for the others.
JoinedKnowEachOther ==
    \A m, n \in joined :
        m \in untold \/ (n \in nodes[m] /\ n \in trusted[m] \cup {Genesis})

\* Nodes have joined with a chain, and the registration of one fails only if it overlaps
\* with the boot of another, a node has died, or the genesis node is not a validator now.
BootSucceeds ==
    /\ joined \subseteq hasChain
    /\ broken => overlapped \/ died # {} \/ draw = "done"

\* Validators drawn while nobody registers are those of every node that was there, once the
\* list has come, unless a registration had failed or a node died (the list then names nodes
\* that not all know).
DrawnAreShared ==
    draw = "done" /\ ~amid /\ ~broken /\ died = {} =>
        \A m, n \in told : \/ \E l \in lists : l[1] \in {m, n}
                           \/ validators[m] = validators[n]

\* A boot ends.  Two nodes whose registrations wait for each other to boot are set free by
\* the timeout.
BootEnds == \A n \in Node : []<>(n \notin Booting)
=============================================================================
