----------------------------- MODULE Agreement -----------------------------
(***************************************************************************)
(* How the validators of a PoST network agree on the next validators.      *)
(*                                                                         *)
(* A validator that finds no agreement open, and the last one long ago,    *)
(* proposes a list of nodes to the other validators and leads the          *)
(* agreement on it.  Every validator judges the list it finds in its file  *)
(* and sends its vote, which names neither list nor leader, to all the     *)
(* others.  A leader that receives a vote and then has one of every        *)
(* validator ends the agreement: it installs the list and sends it to all  *)
(* the nodes, or drops it.                                                 *)
(*                                                                         *)
(* Grain.  A node has three processes that share its files: the worker     *)
(* that starts agreements, the worker that judges lists, and the HTTP      *)
(* server.  The writes of a start, by the worker or by the handler of its  *)
(* request, are steps of their own, as are the reading of a list and the   *)
(* vote on it; the handler of a vote or of a new list is one step, unless  *)
(* its node crashes between two of its writes.                             *)
(*                                                                         *)
(* The order of a list, by trust, is left out: which lists are proposed    *)
(* and what a validator thinks of one are choices.  So are the nodes that  *)
(* a node knows: it knows them all.                                        *)
(***************************************************************************)
EXTENDS FiniteSets, Integers

CONSTANTS
    Node,        \* the nodes of the network that are proposed as validators
    NodeNumber,  \* the number of all its nodes; the others only learn of new lists
    Initial,     \* the first validators
    Proposal,    \* the lists that may be proposed
    NoNode,      \* stands for no node
    Percent,     \* VALIDATORS_PART, in percent
    Verdict,     \* Verdict[n]: what n may think of a list of the right length
    Lossy,       \* whether requests may fail
    Crashing,    \* the nodes that may crash, once each
    Mortal,      \* the workers <<n, w>> that an exception may end
    MaxStarts    \* a bound on the number of agreements started

ASSUME NodeAssumption == IsFiniteSet(Node) /\ NoNode \notin Node
ASSUME NumberAssumption == NodeNumber \in Nat /\ NodeNumber >= Cardinality(Node)
ASSUME ProposalAssumption == Proposal \subseteq SUBSET Node
ASSUME PercentAssumption == Percent \in 1..100
ASSUME VerdictAssumption == Verdict \in [Node -> SUBSET {"yes", "no"}]
ASSUME LossyAssumption == Lossy \in BOOLEAN
ASSUME CrashingAssumption == Crashing \subseteq Node
ASSUME MortalAssumption == Mortal \subseteq Node \X {"starter", "judge"}
ASSUME BoundAssumption == MaxStarts \in Nat

VARIABLES
    validators,  \* validators[n]: the validators file of n
    started,     \* started[n]: isStarted in the validators_agreement_info file
    leader,      \* leader[n]: the leader in that file
    heir,        \* heir[n]: the leader that the server of n has only in memory
    recent,      \* recent[n]: the last success that n knows of, or its last start as a
                 \* program, is too recent for it to start an agreement
    list,        \* list[n]: the nodes in the validators_agreement file
    results,     \* results[n]: those with a row in the validator_agreement_result file
    tally,       \* tally[n][m]: the vote of m in the memory of the server of n
    synced,      \* synced[n]: no other process wrote that file since the server read it
    net,         \* the requests on their way
    starter,     \* starter[n]: where the worker that starts agreements stands
    judge,       \* judge[n]: where the worker that judges lists stands
    opening,     \* opening[n]: where the handler of a start stands
    died,        \* the workers that an exception has ended
    \* History, that no step of the code reads:
    starts,      \* how many agreements were started
    approved,    \* the <<n, l>> such that n proposed or approved of list l
    installed,   \* the <<l, e>> such that a leader installed l for the validators e
    overlapped,  \* whether an agreement was started while another was under way
    misread,     \* the nodes whose server took a negative result it had for a positive one
    refused,     \* whether a validator ever voted against a list
    kept,        \* the nodes that led an agreement to its end and keep its results
    untold,      \* the nodes that a new list was not sent to, or was lost on its way to
    crashed      \* the nodes that crashed

fileVars == <<validators, started, leader, heir, recent, list>>
voteVars == <<results, tally, synced>>
procVars == <<starter, judge, opening, died>>
historyVars == <<starts, approved, installed, overlapped, misread, refused, kept, untold,
                 crashed>>
vars == <<validators, started, leader, heir, recent, list, results, tally, synced, net,
          starter, judge, opening, died,
          starts, approved, installed, overlapped, misread, refused, kept, untold, crashed>>
-----------------------------------------------------------------------------
(* Types *)

Vote == {"yes", "no"}
NoVotes == [m \in Node |-> "none"]

Request ==
    [type : {"start"}, from : Node, to : Node, list : SUBSET Node]
    \cup [type : {"vote"}, from : Node, to : Node, vote : Vote]
    \cup [type : {"news"}, from : Node, to : Node, list : SUBSET Node]

Starter == [pc : {"idle", "info", "list", "send"}, list : SUBSET Node]
Judge == [pc : {"idle", "vote"}, vote : Vote]
Opening == [pc : {"idle"}, from : {NoNode}, list : {{}}]
           \cup [pc : {"list"}, from : Node, list : SUBSET Node]

StarterIdle == [pc |-> "idle", list |-> {}]
JudgeIdle == [pc |-> "idle", vote |-> "no"]
OpeningIdle == [pc |-> "idle", from |-> NoNode, list |-> {}]

TypeOK ==
    /\ validators \in [Node -> SUBSET Node]
    /\ started \in [Node -> BOOLEAN]
    /\ leader \in [Node -> Node \cup {NoNode}]
    /\ heir \in [Node -> Node \cup {NoNode}]
    /\ recent \in [Node -> BOOLEAN]
    /\ list \in [Node -> SUBSET Node]
    /\ results \in [Node -> SUBSET Node]
    /\ tally \in [Node -> [Node -> Vote \cup {"none"}]]
    /\ synced \in [Node -> BOOLEAN]
    /\ net \subseteq Request
    /\ starter \in [Node -> Starter]
    /\ judge \in [Node -> Judge]
    /\ opening \in [Node -> Opening]
    /\ died \subseteq Node \X {"starter", "judge"}
    /\ starts \in Nat
    /\ approved \subseteq Node \X SUBSET Node
    /\ installed \subseteq (SUBSET Node) \X (SUBSET Node)
    /\ overlapped \in BOOLEAN /\ refused \in BOOLEAN
    /\ misread \subseteq Node /\ kept \subseteq Node
    /\ untold \subseteq Node /\ crashed \subseteq Node
-----------------------------------------------------------------------------
(* Numbers and files *)

AtLeastTwo(number) == IF number < 2 THEN 2 ELSE number

\* The length of a proposed list: max(2, ceil(0.1 * len(nodes)))
ProposedNumber == AtLeastTwo((NodeNumber + 9) \div 10)

\* calculate_validators_number
ValidatorsNumber == AtLeastTwo((NodeNumber * Percent) \div 100)

\* The first validators are drawn by work_set_random_validators.
ASSUME InitialAssumption == Initial \subseteq Node /\ Cardinality(Initial) = ValidatorsNumber

\* The index of a proposed node is drawn up to ProposedNumber: there is a node there.
ASSUME IndexAssumption == NodeNumber > ProposedNumber

\* set_info_data: the file is written from memory, where the leaders are replaced.
SetInfo(n, isStarted, m) ==
    /\ started' = [started EXCEPT ![n] = isStarted]
    /\ leader' = [leader EXCEPT ![n] = m]
    /\ heir' = [heir EXCEPT ![n] = NoNode]

\* get_agreement_leader, in the server
Leader(n) == IF heir[n] # NoNode THEN heir[n] ELSE leader[n]

\* A worker adds its own result, a row in the file that the server has not read.
AddOwnResult(n) ==
    /\ results' = [results EXCEPT ![n] = @ \cup {n}]
    /\ synced' = [synced EXCEPT ![n] = FALSE]
    /\ UNCHANGED tally

\* Mutant: the word in a row is not converted.
WordsRead(n) ==
    IF synced[n] THEN tally[n]
                 ELSE [m \in Node |-> IF m \in results[n] THEN "False" ELSE "none"]

\* The results as the server has them after refresh: every row that it reads again is
\* positive, since bool of any word is.
Results(n) ==
    IF synced[n] THEN tally[n]
                 ELSE [m \in Node |-> IF m \in results[n] THEN "yes" ELSE "none"]

\* The server writes the result of m.
WriteResult(n, m, vote) ==
    /\ results' = [results EXCEPT ![n] = @ \cup {m}]
    /\ tally' = [tally EXCEPT ![n] = [Results(n) EXCEPT ![m] = vote]]
    /\ misread' = IF \E u \in Node : tally[n][u] = "no" /\ Results(n)[u] = "yes"
                    THEN misread \cup {n} ELSE misread

AddResult(n, m, vote) ==
    /\ WriteResult(n, m, vote)
    /\ synced' = [synced EXCEPT ![n] = TRUE]

\* A request to every node of a set but n itself, each sent by a thread of its own.
Send(n, nodes, request) == {[request EXCEPT !.to = m] : m \in nodes \ {n}}
-----------------------------------------------------------------------------
(* The worker that starts agreements *)

\* Some node is in an agreement, or about to be.
UnderWay ==
    \/ \E n \in Node : started[n] \/ starter[n].pc # "idle"
    \/ \E r \in net : r.type # "vote"

StartIsDue(n, l) ==
    /\ starts < MaxStarts
    /\ starter[n].pc = "idle" /\ <<n, "starter">> \notin died
    /\ n \in validators[n]
    /\ ~started[n] /\ results[n] = {} /\ ~recent[n]
    /\ Cardinality(l) = ProposedNumber
    /\ starter' = [starter EXCEPT ![n] = [pc |-> "info", list |-> l]]
    /\ starts' = starts + 1
    /\ approved' = approved \cup {<<n, l>>}
    /\ overlapped' = (overlapped \/ UnderWay)
    /\ UNCHANGED <<fileVars, voteVars, net, judge, opening, died, installed, misread, refused,
                   kept, untold, crashed>>

WriteInfo(n) ==
    /\ starter[n].pc = "info"
    /\ SetInfo(n, TRUE, n)
    /\ starter' = [starter EXCEPT ![n].pc = "list"]
    /\ UNCHANGED <<validators, recent, list, voteVars, net, judge, opening, died, historyVars>>

WriteList(n) ==
    /\ starter[n].pc = "list"
    /\ list' = [list EXCEPT ![n] = starter[n].list]
    /\ starter' = [starter EXCEPT ![n].pc = "send"]
    /\ UNCHANGED <<validators, started, leader, heir, recent, voteVars, net, judge, opening,
                   died, historyVars>>

SendStart(n) ==
    /\ starter[n].pc = "send"
    /\ AddOwnResult(n)
    /\ net' = net \cup Send(n, validators[n],
                  [type |-> "start", from |-> n, to |-> n, list |-> starter[n].list])
    /\ starter' = [starter EXCEPT ![n] = StarterIdle]
    /\ UNCHANGED <<fileVars, judge, opening, died, historyVars>>
-----------------------------------------------------------------------------
(* The worker that judges lists *)

\* It finds an agreement without a result of its own, reads the list and judges it:
\* one of another length, such as a list not written yet, is bad.
JudgeList(n, vote) ==
    /\ judge[n].pc = "idle" /\ <<n, "judge">> \notin died
    /\ n \in validators[n]
    /\ started[n] /\ n \notin results[n]
    /\ IF Cardinality(list[n]) = ProposedNumber THEN vote \in Verdict[n] ELSE vote = "no"
    /\ judge' = [judge EXCEPT ![n] = [pc |-> "vote", vote |-> vote]]
    /\ approved' = IF vote = "yes" THEN approved \cup {<<n, list[n]>>} ELSE approved
    /\ refused' = (refused \/ vote = "no")
    /\ UNCHANGED <<fileVars, voteVars, net, starter, opening, died, starts, installed,
                   overlapped, misread, kept, untold, crashed>>

SendVote(n) ==
    /\ judge[n].pc = "vote"
    /\ AddOwnResult(n)
    /\ net' = net \cup Send(n, validators[n],
                  [type |-> "vote", from |-> n, to |-> n, vote |-> judge[n].vote])
    /\ judge' = [judge EXCEPT ![n] = JudgeIdle]
    /\ UNCHANGED <<fileVars, starter, opening, died, historyVars>>

\* A worker is a loop without a try, or within one: any exception ends it, such as the
\* KeyError of one that reads the info file when another process has truncated it and not
\* yet written it.
WorkerDies(n, w) ==
    /\ <<n, w>> \in Mortal \ died
    /\ died' = died \cup {<<n, w>>}
    /\ starter' = IF w = "starter" THEN [starter EXCEPT ![n] = StarterIdle] ELSE starter
    /\ judge' = IF w = "judge" THEN [judge EXCEPT ![n] = JudgeIdle] ELSE judge
    /\ UNCHANGED <<fileVars, voteVars, net, opening, historyVars>>
-----------------------------------------------------------------------------
(* The handlers of requests *)

\* A request r of some type reaches the server of n, which runs one handler at a time.
Reaches(n, type, r) ==
    /\ r \in net /\ r.type = type /\ r.to = n
    /\ opening[n].pc = "idle"

MayOpen(n, r) ==
    /\ n \in validators[n] /\ r.from \in validators[n]
    /\ ~started[n]
    /\ Cardinality(r.list) = ValidatorsNumber

\* node_validator_agreement_start, up to its first write
ReceiveStart(n, r) ==
    /\ Reaches(n, "start", r)
    /\ net' = net \ {r}
    /\ IF MayOpen(n, r)
         THEN /\ SetInfo(n, TRUE, r.from)
              /\ opening' = [opening EXCEPT ![n] =
                                [pc |-> "list", from |-> r.from, list |-> r.list]]
         ELSE UNCHANGED <<started, leader, heir, opening>>
    /\ UNCHANGED <<validators, recent, list, voteVars, starter, judge, died, historyVars>>

\* The rest of it: the list, and the result of the leader.
OpenAgreement(n) ==
    /\ opening[n].pc = "list"
    /\ list' = [list EXCEPT ![n] = opening[n].list]
    /\ AddResult(n, opening[n].from, "yes")
    /\ opening' = [opening EXCEPT ![n] = OpeningIdle]
    /\ UNCHANGED <<validators, started, leader, heir, recent, net, starter, judge, died, starts,
                   approved, installed, overlapped, refused, kept, untold, crashed>>

\* Mutant: the leader's own result is not counted.
HasEndedBesides(n, votes) ==
    Cardinality({m \in Node : votes[m] # "none"}) = Cardinality(validators[n]) + 1

\* is_agreement_voting_ended, of votes just refreshed
HasEnded(n, votes) ==
    Cardinality({m \in Node : votes[m] # "none"}) = Cardinality(validators[n])

Positive(votes) == Cardinality({m \in Node : votes[m] = "yes"})

\* Mutant: half the validators are enough.
IsHalf(n, votes) == 2 * Positive(votes) >= Cardinality(validators[n])

\* is_agreement_result_success
IsSuccess(n, votes) == 2 * Positive(votes) > Cardinality(validators[n])

\* Mutant: the list is read after it was cleared.
ClearedList(n) == {}

\* What a leader installs: the list, read before it is cleared.
NewValidators(n) == list[n]

\* Mutant: a leader tells the validators only.
ValidatorsOf(n) == validators[n]

\* send_validators_list: all the nodes are told.
Informed(n) == Node

\* The votes that n has with that of r, which it accepts: a result that is there and
\* positive stays.
Counting(n, r) == [Results(n) EXCEPT ![r.from] = r.vote]
Accepts(n, r) == r.from \in validators[n] /\ Results(n)[r.from] # "yes"

\* The vote of r is the last one, and n the leader: validator_agreement_end.
Ends(n, r) == Accepts(n, r) /\ HasEnded(n, Counting(n, r)) /\ Leader(n) = n

\* node_validator_agreement_vote.  When an agreement ends, its results stay in the file,
\* and if it fails only the list is cleared.
ReceiveVote(n, r) ==
    LET success == Ends(n, r) /\ IsSuccess(n, Counting(n, r))
        news == [type |-> "news", from |-> n, to |-> n, list |-> NewValidators(n)]
    IN /\ Reaches(n, "vote", r)
       /\ IF Accepts(n, r) THEN AddResult(n, r.from, r.vote) ELSE UNCHANGED <<voteVars, misread>>
       /\ list' = IF Ends(n, r) THEN [list EXCEPT ![n] = {}] ELSE list
       /\ IF success
            THEN /\ validators' = [validators EXCEPT ![n] = NewValidators(n)]
                 /\ recent' = [recent EXCEPT ![n] = TRUE]
                 /\ SetInfo(n, FALSE, NoNode)
                 /\ net' = (net \ {r}) \cup Send(n, Informed(n), news)
                 /\ installed' = installed \cup {<<NewValidators(n), validators[n]>>}
                 /\ kept' = kept \cup {n}
            ELSE /\ net' = net \ {r}
                 /\ IF Ends(n, r) THEN \E m \in validators[n] : heir' = [heir EXCEPT ![n] = m]
                                  ELSE UNCHANGED heir
                 /\ UNCHANGED <<validators, recent, started, leader, installed, kept>>
       /\ UNCHANGED <<procVars, starts, approved, overlapped, refused, untold, crashed>>

\* node_new_validators
ReceiveNews(n, r) ==
    /\ Reaches(n, "news", r)
    /\ net' = net \ {r}
    /\ IF r.from \in validators[n]
         THEN /\ validators' = [validators EXCEPT ![n] = r.list]
              /\ SetInfo(n, FALSE, NoNode)
              /\ recent' = [recent EXCEPT ![n] = TRUE]
              /\ list' = [list EXCEPT ![n] = {}]
              /\ results' = [results EXCEPT ![n] = {}]
              /\ tally' = [tally EXCEPT ![n] = NoVotes]
              /\ synced' = [synced EXCEPT ![n] = TRUE]
              /\ kept' = kept \ {n}
         ELSE UNCHANGED <<fileVars, voteVars, kept>>
    /\ UNCHANGED <<procVars, starts, approved, installed, overlapped, misread, refused, untold,
                   crashed>>

\* Those who were to learn of a new list from these requests.
Missing(lost) == {r.to : r \in {q \in lost : q.type = "news"}}

Lose(r) ==
    /\ Lossy /\ r \in net
    /\ net' = net \ {r}
    /\ untold' = untold \cup Missing({r})
    /\ UNCHANGED <<fileVars, voteVars, procVars, starts, approved, installed, overlapped,
                   misread, refused, kept, crashed>>
-----------------------------------------------------------------------------
(* Time and crashes *)

\* No request is on its way, and no process in the middle of its work.
Quiet ==
    /\ net = {}
    /\ \A n \in Node : "idle" = starter[n].pc /\ "idle" = judge[n].pc /\ "idle" = opening[n].pc

\* The last success becomes 139 seconds old: no request or list takes that long.
TimePasses(n) ==
    /\ recent[n] /\ Quiet
    /\ recent' = [recent EXCEPT ![n] = FALSE]
    /\ UNCHANGED <<validators, started, leader, heir, list, voteVars, net, procVars, historyVars>>

\* The processes of n stop and start again from its files, while some of the requests from
\* n or to it are lost.  The worker that starts agreements sleeps for 70 seconds first.
Stop(n, taken, missing) ==
    /\ n \in Crashing \ crashed
    /\ heir' = [heir EXCEPT ![n] = NoNode]
    /\ synced' = [synced EXCEPT ![n] = FALSE]
    /\ recent' = [recent EXCEPT ![n] = TRUE]
    /\ starter' = [starter EXCEPT ![n] = StarterIdle]
    /\ judge' = [judge EXCEPT ![n] = JudgeIdle]
    /\ opening' = [opening EXCEPT ![n] = OpeningIdle]
    /\ died' = {d \in died : d[1] # n}
    /\ crashed' = crashed \cup {n}
    /\ \E lost \in SUBSET {r \in net : n \in {r.from, r.to}} :
          /\ net' = net \ (taken \cup lost)
          /\ untold' = untold \cup missing \cup Missing(lost \ taken)
    /\ UNCHANGED <<starts, approved, overlapped, refused>>

\* The handler of a start may have written the list when it stops.
Restart(n) ==
    /\ Stop(n, {}, {})
    /\ \/ UNCHANGED list
       \/ opening[n].pc = "list" /\ list' = [list EXCEPT ![n] = opening[n].list]
    /\ UNCHANGED <<validators, started, leader, results, tally, installed, misread, kept>>

\* The leader n stops while it ends an agreement: when it has written the last result, when
\* it has cleared the list too, or when it has installed the list and told nobody.
StopAtEnd(n, r) ==
    /\ Reaches(n, "vote", r) /\ Ends(n, r)
    /\ WriteResult(n, r.from, r.vote)
    /\ \/ UNCHANGED list /\ Stop(n, {r}, {}) /\ UNCHANGED <<validators, installed, kept>>
       \/ /\ list' = [list EXCEPT ![n] = {}]
          /\ \/ Stop(n, {r}, {}) /\ UNCHANGED <<validators, installed, kept>>
             \/ /\ IsSuccess(n, Counting(n, r))
                /\ Stop(n, {r}, Node \ {n})
                /\ validators' = [validators EXCEPT ![n] = NewValidators(n)]
                /\ installed' = installed \cup {<<NewValidators(n), validators[n]>>}
                /\ kept' = kept \cup {n}
    /\ UNCHANGED <<started, leader>>

\* Node n stops while it takes a new list over: when it has the validators, when the
\* agreement is no longer started either, or when it has cleared the list as well.
StopAtNews(n, r) ==
    /\ Reaches(n, "news", r) /\ r.from \in validators[n]
    /\ Stop(n, {r}, {})
    /\ validators' = [validators EXCEPT ![n] = r.list]
    /\ \/ UNCHANGED <<started, leader, list>>
       \/ /\ started' = [started EXCEPT ![n] = FALSE]
          /\ leader' = [leader EXCEPT ![n] = NoNode]
          /\ UNCHANGED list \/ list' = [list EXCEPT ![n] = {}]
    /\ UNCHANGED <<results, tally, installed, misread, kept>>
-----------------------------------------------------------------------------
Init ==
    /\ validators = [n \in Node |-> Initial]
    /\ started = [n \in Node |-> FALSE]
    /\ leader = [n \in Node |-> NoNode]
    /\ heir = [n \in Node |-> NoNode]
    /\ recent = [n \in Node |-> FALSE]
    /\ list = [n \in Node |-> {}]
    /\ results = [n \in Node |-> {}]
    /\ tally = [n \in Node |-> NoVotes]
    /\ synced = [n \in Node |-> TRUE]
    /\ net = {}
    /\ starter = [n \in Node |-> StarterIdle]
    /\ judge = [n \in Node |-> JudgeIdle]
    /\ opening = [n \in Node |-> OpeningIdle]
    /\ died = {}
    /\ starts = 0
    /\ approved = {}
    /\ installed = {}
    /\ overlapped = FALSE
    /\ misread = {}
    /\ refused = FALSE
    /\ kept = {}
    /\ untold = {}
    /\ crashed = {}

StarterStep(n) ==
    \/ \E l \in Proposal : StartIsDue(n, l)
    \/ WriteInfo(n)
    \/ WriteList(n)
    \/ SendStart(n)

JudgeStep(n) ==
    \/ \E vote \in Vote : JudgeList(n, vote)
    \/ SendVote(n)

ServerStep(n) ==
    \/ OpenAgreement(n)
    \/ \E r \in net : ReceiveStart(n, r) \/ ReceiveVote(n, r) \/ ReceiveNews(n, r)

CrashStep(n) ==
    \/ Restart(n)
    \/ \E r \in net : StopAtEnd(n, r) \/ StopAtNews(n, r)

Next ==
    \/ \E n \in Node : StarterStep(n) \/ JudgeStep(n) \/ ServerStep(n)
    \/ \E n \in Node : TimePasses(n) \/ CrashStep(n)
    \/ \E n \in Node, w \in {"starter", "judge"} : WorkerDies(n, w)
    \/ \E r \in net : Lose(r)

\* The workers are loops, until an exception ends them, the server answers what reaches
\* it, and time passes.
Fairness ==
    \A n \in Node :
        /\ WF_vars(StarterStep(n)) /\ WF_vars(JudgeStep(n))
        /\ WF_vars(ServerStep(n)) /\ WF_vars(TimePasses(n))

Spec == Init /\ [][Next]_vars
FairSpec == Spec /\ Fairness
-----------------------------------------------------------------------------
(* Properties *)

\* validator_agreement_end: a list that a leader installs was proposed or found good by
\* more than half of the validators it replaces.  Two things undo this, and are left
\* out here: an agreement started while another is under way, since a vote names no
\* list, and a server that reads a negative result as a positive one (the file holds
\* words, and load finds each of them true).
InstalledByMajority ==
    ~overlapped /\ misread = {} =>
        \A i \in installed :
            2 * Cardinality({m \in i[2] : <<m, i[1]>> \in approved}) > Cardinality(i[2])

\* The number of validators stays what calculate_validators_number says, through lost
\* requests and crashes, if agreements do not overlap.  When two do, the vote that
\* ends one of them may find a list that is not written yet, or one that the end of
\* the other cleared, and an empty list is installed.
ValidatorsAreEnough ==
    ~overlapped => \A n \in Node : Cardinality(validators[n]) = ValidatorsNumber

\* validator_agreement_end and node_new_validators: the nodes have the same validators as
\* soon as the last new list has reached those it is still on its way to, but for the nodes
\* that some new list did not get to: it was lost, or its leader crashed before it sent it.
\* A list is accepted only from a validator, and the leader may have just ceased to be one.
NodesShareValidators ==
    ~overlapped /\ (\A r \in net : r.type # "news") =>
        \A m, n \in Node \ untold : validators[m] = validators[n]

\* A worker of n whose work the agreement needs has died.
LacksWorker(n) ==
    \/ <<n, "judge">> \in died /\ n \in validators[n]
    \/ <<n, "starter">> \in died /\ Leader(n) = n

\* The workers and the handlers bring a first agreement to its end: no node stays in
\* one.  It may last for ever in four cases, since nothing else clears the file: two
\* agreements overlap, a validator votes against the list (validator_agreement_end
\* only names a new leader, who does nothing), the leader of an earlier agreement
\* is still a validator (it keeps its results and does not vote again), or the worker that
\* judges for a validator, or the one that started the agreement, has died.
AgreementEnds ==
    []<>(\/ \A n \in Node : ~started[n]
         \/ overlapped \/ refused
         \/ \E n \in kept : n \in validators[n]
         \/ \E n \in Node : LacksWorker(n))
=============================================================================
