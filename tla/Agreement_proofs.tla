-------------------------- MODULE Agreement_proofs --------------------------
(***************************************************************************)
(* Theorems about Agreement, for any nodes, any lists and any number of    *)
(* agreements:                                                             *)
(*                                                                         *)
(*   TypeCorrect           every variable keeps its type                   *)
(*   ValidatorsStayEnough  the number of validators stays what it must be  *)
(*   MajorityInstalls      a list is installed by a majority of those it   *)
(*                         replaces                                        *)
(*   ValidatorsAreShared   the nodes that every new list got to have the   *)
(*                         same validators                                 *)
(*   AgreementIsNotStuck   an agreement that nothing disturbs goes on      *)
(*                                                                         *)
(* all but the first as long as agreements do not overlap.                 *)
(***************************************************************************)
EXTENDS Agreement, FiniteSetTheorems, TLAPS

USE DEF fileVars, voteVars, procVars, historyVars
-----------------------------------------------------------------------------
(* Numbers and requests *)

LEMMA Numbers ==
    /\ ValidatorsNumber \in Nat /\ ValidatorsNumber >= 2
    /\ ProposedNumber \in Nat /\ ProposedNumber >= 2
<1>1. /\ (NodeNumber * Percent) \div 100 \in Int
      /\ (NodeNumber + 9) \div 10 \in Int
  BY NumberAssumption, PercentAssumption
<1>2. \A i \in Int : AtLeastTwo(i) \in Nat /\ AtLeastTwo(i) >= 2
  BY DEF AtLeastTwo
<1> QED
  BY <1>1, <1>2 DEF ValidatorsNumber, ProposedNumber

\* The set of nodes is finite, and so are the sets that count.
LEMMA NodesFinite ==
    ASSUME NEW S \in SUBSET Node
    PROVE  IsFiniteSet(S) /\ Cardinality(S) \in Nat
  BY NodeAssumption, FS_Subset, FS_CardinalityType

\* The requests of a start, of a vote and of a new list.
LEMMA Starts ==
    ASSUME NEW n \in Node, NEW nodes \in SUBSET Node, NEW l \in SUBSET Node,
           NEW r \in Send(n, nodes, [type |-> "start", from |-> n, to |-> n, list |-> l])
    PROVE  /\ r \in Request /\ r.to \in nodes \ {n}
           /\ r = [type |-> "start", from |-> n, to |-> r.to, list |-> l]
  BY DEF Send, Request

LEMMA Votes ==
    ASSUME NEW n \in Node, NEW nodes \in SUBSET Node, NEW v \in Vote,
           NEW r \in Send(n, nodes, [type |-> "vote", from |-> n, to |-> n, vote |-> v])
    PROVE  /\ r \in Request /\ r.to \in nodes \ {n}
           /\ r = [type |-> "vote", from |-> n, to |-> r.to, vote |-> v]
  BY DEF Send, Request

LEMMA News ==
    ASSUME NEW n \in Node, NEW nodes \in SUBSET Node, NEW l \in SUBSET Node,
           NEW r \in Send(n, nodes, [type |-> "news", from |-> n, to |-> n, list |-> l])
    PROVE  /\ r \in Request /\ r.to \in nodes \ {n}
           /\ r = [type |-> "news", from |-> n, to |-> r.to, list |-> l]
  BY DEF Send, Request

\* The fields of a request of each type.
LEMMA RequestFields ==
    ASSUME NEW r \in Request
    PROVE  /\ r.from \in Node /\ r.to \in Node
           /\ r.type \in {"start", "vote", "news"}
           /\ r.type \in {"start", "news"} => r.list \in SUBSET Node
           /\ r.type = "vote" => r.vote \in Vote
  BY DEF Request

LEMMA ResultsType ==
    ASSUME TypeOK, NEW n \in Node
    PROVE  Results(n) \in [Node -> Vote \cup {"none"}]
  BY DEF TypeOK, Results, Vote

-----------------------------------------------------------------------------
(* Types *)

LEMMA StarterStepType ==
    ASSUME TypeOK, NEW n \in Node, StarterStep(n)
    PROVE  TypeOK'
<1> USE DEF TypeOK
<1>1. ASSUME NEW l \in Proposal, StartIsDue(n, l) PROVE TypeOK'
  <2>1. l \in SUBSET Node
    BY ProposalAssumption
  <2> QED
    BY <1>1, <2>1 DEF StartIsDue, Starter
<1>2. CASE WriteInfo(n)
  BY ZenonT(40), <1>2 DEF WriteInfo, SetInfo, Starter
<1>3. CASE WriteList(n)
  <2>1. starter[n] \in Starter /\ starter[n].pc = "list"
    BY <1>3 DEF WriteList
  <2>2. /\ starter[n].list \in SUBSET Node
        /\ [starter[n] EXCEPT !.pc = "send"] \in Starter
    BY <2>1 DEF Starter
  <2>3. list' \in [Node -> SUBSET Node] /\ starter' \in [Node -> Starter]
    BY <1>3, <2>2 DEF WriteList
  <2> QED
    BY <1>3, <2>3 DEF WriteList
<1>4. CASE SendStart(n)
  <2>1. starter[n].list \in SUBSET Node /\ validators[n] \in SUBSET Node
    BY DEF Starter
  <2>2. net' \subseteq Request
    BY <1>4, <2>1, Starts DEF SendStart
  <2> QED
    BY <1>4, <2>2 DEF SendStart, AddOwnResult, StarterIdle, Starter
<1> QED
  BY <1>1, <1>2, <1>3, <1>4 DEF StarterStep

LEMMA JudgeStepType ==
    ASSUME TypeOK, NEW n \in Node, JudgeStep(n)
    PROVE  TypeOK'
<1> USE DEF TypeOK
<1>1. ASSUME NEW vote \in Vote, JudgeList(n, vote) PROVE TypeOK'
  BY <1>1 DEF JudgeList, Judge
<1>2. CASE SendVote(n)
  <2>1. judge[n].vote \in Vote /\ validators[n] \in SUBSET Node
    BY DEF Judge
  <2>2. Send(n, validators[n], [type |-> "vote", from |-> n, to |-> n,
                                vote |-> judge[n].vote]) \subseteq Request
    BY <2>1, Votes
  <2>3. net' \subseteq Request
    BY <1>2, <2>2 DEF SendVote
  <2> QED
    BY <1>2, <2>3 DEF SendVote, AddOwnResult, JudgeIdle, Judge, Vote
<1> QED
  BY <1>1, <1>2 DEF JudgeStep

\* What the server does to the results it has is of the right type.
LEMMA WriteResultType ==
    ASSUME TypeOK, NEW n \in Node, NEW m \in Node, NEW vote \in Vote, WriteResult(n, m, vote)
    PROVE  /\ results' \in [Node -> SUBSET Node]
           /\ tally' \in [Node -> [Node -> Vote \cup {"none"}]]
           /\ misread' \subseteq Node
<1>1. [Results(n) EXCEPT ![m] = vote] \in [Node -> Vote \cup {"none"}]
  BY ResultsType
<1>2. /\ results' \in [Node -> SUBSET Node]
      /\ tally' \in [Node -> [Node -> Vote \cup {"none"}]]
  <2>1. results' \in [Node -> SUBSET Node]
    BY DEF TypeOK, WriteResult
  <2>2. tally' = [tally EXCEPT ![n] = [Results(n) EXCEPT ![m] = vote]]
    BY DEF WriteResult
  <2>3. tally' \in [Node -> [Node -> Vote \cup {"none"}]]
    BY <1>1, <2>2 DEF TypeOK
  <2> QED
    BY <2>1, <2>3
<1>3. misread' = misread \/ misread' = misread \cup {n}
  BY DEF WriteResult
<1>4. misread' \subseteq Node
  BY <1>3 DEF TypeOK
<1> QED
  BY <1>2, <1>4

LEMMA AddResultType ==
    ASSUME TypeOK, NEW n \in Node, NEW m \in Node, NEW vote \in Vote, AddResult(n, m, vote)
    PROVE  /\ results' \in [Node -> SUBSET Node]
           /\ tally' \in [Node -> [Node -> Vote \cup {"none"}]]
           /\ synced' \in [Node -> BOOLEAN]
           /\ misread' \subseteq Node
<1>1. synced' \in [Node -> BOOLEAN]
  BY DEF TypeOK, AddResult
<1> QED
  BY <1>1, WriteResultType DEF AddResult

LEMMA SetInfoType ==
    ASSUME TypeOK, NEW n \in Node, NEW b \in BOOLEAN, NEW m \in Node \cup {NoNode},
           SetInfo(n, b, m)
    PROVE  /\ started' \in [Node -> BOOLEAN]
           /\ leader' \in [Node -> Node \cup {NoNode}]
           /\ heir' \in [Node -> Node \cup {NoNode}]
<1>1. started' \in [Node -> BOOLEAN]
  BY DEF TypeOK, SetInfo
<1>2. leader' \in [Node -> Node \cup {NoNode}] /\ heir' \in [Node -> Node \cup {NoNode}]
  BY DEF TypeOK, SetInfo
<1> QED
  BY <1>1, <1>2

LEMMA ReceiveVoteType ==
    ASSUME TypeOK, NEW n \in Node, NEW r \in net, ReceiveVote(n, r)
    PROVE  TypeOK'
<1>1. r.from \in Node /\ r.vote \in Vote
  BY RequestFields DEF TypeOK, ReceiveVote, Reaches
<1> DEFINE votes == [Results(n) EXCEPT ![r.from] = r.vote]
           accepted == r.from \in validators[n] /\ Results(n)[r.from] # "yes"
           ended == accepted /\ HasEnded(n, votes) /\ Leader(n) = n
           success == ended /\ IsSuccess(n, votes)
           news == [type |-> "news", from |-> n, to |-> n, list |-> list[n]]
<1> HIDE DEF votes, accepted, ended, success, news
<1>2. /\ IF accepted THEN AddResult(n, r.from, r.vote) ELSE UNCHANGED <<voteVars, misread>>
      /\ list' = IF ended THEN [list EXCEPT ![n] = {}] ELSE list
      /\ IF success
           THEN /\ validators' = [validators EXCEPT ![n] = list[n]]
                /\ recent' = [recent EXCEPT ![n] = TRUE]
                /\ SetInfo(n, FALSE, NoNode)
                /\ net' = (net \ {r}) \cup Send(n, Node, news)
                /\ installed' = installed \cup {<<list[n], validators[n]>>}
                /\ kept' = kept \cup {n}
           ELSE /\ net' = net \ {r}
                /\ IF ended THEN \E m \in validators[n] : heir' = [heir EXCEPT ![n] = m]
                            ELSE UNCHANGED heir
                /\ UNCHANGED <<validators, recent, started, leader, installed, kept>>
      /\ UNCHANGED <<procVars, starts, approved, overlapped, refused, untold, crashed>>
  BY DEF ReceiveVote, Ends, Accepts, Counting, NewValidators, Informed, votes, accepted, ended,
         success, news
<1>3. /\ results' \in [Node -> SUBSET Node]
      /\ tally' \in [Node -> [Node -> Vote \cup {"none"}]]
      /\ synced' \in [Node -> BOOLEAN]
      /\ misread' \subseteq Node
  <2>1. CASE accepted
    BY <1>1, <1>2, <2>1, AddResultType
  <2>2. CASE ~accepted
    BY <1>2, <2>2 DEF TypeOK
  <2> QED
    BY <2>1, <2>2
<1>4. net' \subseteq Request
  <2>1. Send(n, Node, news) \subseteq Request
    BY News DEF TypeOK, news
  <2> QED
    BY <1>2, <2>1 DEF TypeOK
<1>5. heir' \in [Node -> Node \cup {NoNode}]
  <2>1. CASE success
    BY <1>2, <2>1 DEF TypeOK, SetInfo
  <2>2. CASE ~success
    BY <1>2, <2>2 DEF TypeOK
  <2> QED
    BY <2>1, <2>2
<1>6. /\ validators' \in [Node -> SUBSET Node]
      /\ started' \in [Node -> BOOLEAN]
      /\ leader' \in [Node -> Node \cup {NoNode}]
      /\ recent' \in [Node -> BOOLEAN]
      /\ list' \in [Node -> SUBSET Node]
      /\ installed' \subseteq (SUBSET Node) \X (SUBSET Node)
      /\ kept' \subseteq Node
  <2>1. list[n] \in SUBSET Node /\ validators[n] \in SUBSET Node
    BY DEF TypeOK
  <2>2. CASE success
    <3>1. SetInfo(n, FALSE, NoNode)
      BY <1>2, <2>2
    <3>2. /\ started' \in [Node -> BOOLEAN]
          /\ leader' \in [Node -> Node \cup {NoNode}]
      BY <3>1, SetInfoType
    <3>3. validators' \in [Node -> SUBSET Node] /\ list' \in [Node -> SUBSET Node]
      BY <1>2, <2>1, <2>2 DEF TypeOK
    <3>5. recent' \in [Node -> BOOLEAN]
      BY <1>2, <2>2 DEF TypeOK
    <3>4. /\ installed' \subseteq (SUBSET Node) \X (SUBSET Node)
          /\ kept' \subseteq Node
      BY <1>2, <2>1, <2>2 DEF TypeOK
    <3> QED
      BY <3>2, <3>3, <3>4, <3>5
  <2>3. CASE ~success
    BY <1>2, <2>3 DEF TypeOK
  <2> QED
    BY <2>2, <2>3
<1> QED
  BY <1>2, <1>3, <1>4, <1>5, <1>6 DEF TypeOK

LEMMA ServerStepType ==
    ASSUME TypeOK, NEW n \in Node, ServerStep(n)
    PROVE  TypeOK'
<1>1. CASE OpenAgreement(n)
  <2>1. opening[n].from \in Node /\ opening[n].list \in SUBSET Node
    BY <1>1 DEF TypeOK, Opening, OpenAgreement
  <2>2. /\ results' \in [Node -> SUBSET Node]
        /\ tally' \in [Node -> [Node -> Vote \cup {"none"}]]
        /\ synced' \in [Node -> BOOLEAN]
        /\ misread' \subseteq Node
    BY <1>1, <2>1, AddResultType DEF OpenAgreement, Vote
  <2> QED
    BY <1>1, <2>1, <2>2 DEF TypeOK, OpenAgreement, Opening, OpeningIdle
<1>2. ASSUME NEW r \in net, ReceiveStart(n, r) PROVE TypeOK'
  <2>1. r.from \in Node /\ r.list \in SUBSET Node
    BY <1>2, RequestFields DEF TypeOK, ReceiveStart, Reaches
  <2>2. CASE MayOpen(n, r)
    <3>1. SetInfo(n, TRUE, r.from)
      BY <1>2, <2>2 DEF ReceiveStart
    <3>2. /\ started' \in [Node -> BOOLEAN]
          /\ leader' \in [Node -> Node \cup {NoNode}]
          /\ heir' \in [Node -> Node \cup {NoNode}]
      BY <2>1, <3>1, SetInfoType
    <3>3. opening' \in [Node -> Opening]
      BY SMTT(30), <1>2, <2>1, <2>2 DEF TypeOK, ReceiveStart, Opening
    <3> QED
      BY <1>2, <2>2, <3>2, <3>3 DEF TypeOK, ReceiveStart
  <2>3. CASE ~MayOpen(n, r)
    BY <1>2, <2>3 DEF TypeOK, ReceiveStart
  <2> QED
    BY <2>2, <2>3
<1>3. ASSUME NEW r \in net, ReceiveVote(n, r) PROVE TypeOK'
  BY <1>3, ReceiveVoteType
<1>4. ASSUME NEW r \in net, ReceiveNews(n, r) PROVE TypeOK'
  <2>1. r.list \in SUBSET Node
    BY <1>4, RequestFields DEF TypeOK, ReceiveNews, Reaches
  <2>2. NoVotes \in [Node -> Vote \cup {"none"}]
    BY DEF NoVotes
  <2>3. CASE r.from \in validators[n]
    <3>1. SetInfo(n, FALSE, NoNode)
      BY <1>4, <2>3 DEF ReceiveNews
    <3>2. /\ started' \in [Node -> BOOLEAN]
          /\ leader' \in [Node -> Node \cup {NoNode}]
          /\ heir' \in [Node -> Node \cup {NoNode}]
      BY <3>1, SetInfoType
    <3>3. /\ validators' \in [Node -> SUBSET Node]
          /\ list' \in [Node -> SUBSET Node]
          /\ results' \in [Node -> SUBSET Node]
      BY <1>4, <2>1, <2>3 DEF TypeOK, ReceiveNews
    <3>6. tally' = [tally EXCEPT ![n] = NoVotes]
      BY <1>4, <2>3 DEF ReceiveNews
    <3>7. tally' \in [Node -> [Node -> Vote \cup {"none"}]]
      BY <2>2, <3>6 DEF TypeOK
    <3>4. recent' \in [Node -> BOOLEAN] /\ synced' \in [Node -> BOOLEAN]
      BY <1>4, <2>3 DEF TypeOK, ReceiveNews
    <3>5. /\ net' \subseteq Request /\ kept' \subseteq Node
      BY <1>4, <2>3 DEF TypeOK, ReceiveNews
    <3> QED
      BY <1>4, <2>3, <3>2, <3>3, <3>4, <3>5, <3>7 DEF TypeOK, ReceiveNews
  <2>4. CASE r.from \notin validators[n]
    BY <1>4, <2>4 DEF TypeOK, ReceiveNews
  <2> QED
    BY <2>3, <2>4
<1> QED
  BY <1>1, <1>2, <1>3, <1>4 DEF ServerStep

LEMMA WorkerDiesType ==
    ASSUME TypeOK, NEW n \in Node, NEW w \in {"starter", "judge"}, WorkerDies(n, w)
    PROVE  TypeOK'
<1>1. starter' \in [Node -> Starter] /\ judge' \in [Node -> Judge]
  BY DEF TypeOK, WorkerDies, StarterIdle, JudgeIdle, Starter, Judge, Vote
<1> QED
  BY <1>1 DEF TypeOK, WorkerDies

LEMMA MissingType ==
    ASSUME TypeOK, NEW lost \in SUBSET net
    PROVE  Missing(lost) \subseteq Node
  BY RequestFields DEF TypeOK, Missing

LEMMA LoseType ==
    ASSUME TypeOK, NEW r \in net, Lose(r)
    PROVE  TypeOK'
<1>1. Missing({r}) \subseteq Node
  BY MissingType
<1> QED
  BY <1>1 DEF TypeOK, Lose

\* What a stop leaves of the net: some requests are lost, some of them new lists.
LEMMA StopLoses ==
    ASSUME TypeOK, NEW n \in Node, NEW taken \in SUBSET net, NEW missing \in SUBSET Node,
           Stop(n, taken, missing)
    PROVE  /\ net' \subseteq net \ taken
           /\ untold \cup missing \subseteq untold' /\ untold' \subseteq Node
           /\ \A r \in net \ taken : r \in net' \/ (r.type = "news" => r.to \in untold')
<1>1. PICK lost \in SUBSET {r \in net : n \in {r.from, r.to}} :
         /\ net' = net \ (taken \cup lost)
         /\ untold' = untold \cup missing \cup Missing(lost \ taken)
  BY DEF Stop
<1>2. Missing(lost \ taken) \subseteq Node
  BY MissingType
<1>3. \A r \in lost \ taken : r.type = "news" => r.to \in Missing(lost \ taken)
  BY DEF Missing
<1> QED
  BY <1>1, <1>2, <1>3 DEF TypeOK

LEMMA StopType ==
    ASSUME TypeOK, NEW n \in Node, NEW taken \in SUBSET net, NEW missing \in SUBSET Node,
           Stop(n, taken, missing)
    PROVE  /\ heir' \in [Node -> Node \cup {NoNode}]
           /\ synced' \in [Node -> BOOLEAN] /\ recent' \in [Node -> BOOLEAN]
           /\ starter' \in [Node -> Starter] /\ judge' \in [Node -> Judge]
           /\ opening' \in [Node -> Opening]
           /\ died' \subseteq Node \X {"starter", "judge"}
           /\ crashed' \subseteq Node /\ untold' \subseteq Node /\ net' \subseteq Request
           /\ UNCHANGED <<starts, approved, overlapped, refused>>
<1>1. StarterIdle \in Starter /\ JudgeIdle \in Judge /\ OpeningIdle \in Opening
  BY DEF StarterIdle, JudgeIdle, OpeningIdle, Starter, Judge, Opening, Vote
<1>2. net' \subseteq Request /\ untold' \subseteq Node
  BY StopLoses DEF TypeOK
<1>3. starter' \in [Node -> Starter] /\ judge' \in [Node -> Judge]
      /\ opening' \in [Node -> Opening]
  BY <1>1 DEF TypeOK, Stop
<1> QED
  BY <1>2, <1>3 DEF TypeOK, Stop

LEMMA RestartType ==
    ASSUME TypeOK, NEW n \in Node, Restart(n)
    PROVE  TypeOK'
<1>1. Stop(n, {}, {})
  BY DEF Restart
<1>2. opening[n].list \in SUBSET Node
  BY DEF TypeOK, Opening
<1>3. list' \in [Node -> SUBSET Node]
  BY <1>2 DEF TypeOK, Restart
<1> QED
  BY <1>1, <1>3, StopType DEF TypeOK, Restart

LEMMA StopAtEndType ==
    ASSUME TypeOK, NEW n \in Node, NEW r \in net, StopAtEnd(n, r)
    PROVE  TypeOK'
<1>1. /\ \/ Stop(n, {r}, {}) \/ Stop(n, {r}, Node \ {n})
      /\ WriteResult(n, r.from, r.vote) /\ UNCHANGED <<started, leader>>
  BY DEF StopAtEnd
<1>2. r.from \in Node /\ r.vote \in Vote
  BY RequestFields DEF TypeOK, StopAtEnd, Reaches
<1>3. list[n] \in SUBSET Node /\ validators[n] \in SUBSET Node
  BY DEF TypeOK
<1>4. list' \in [Node -> SUBSET Node] /\ validators' \in [Node -> SUBSET Node]
  BY <1>3 DEF TypeOK, StopAtEnd, NewValidators
<1>5. kept' \subseteq Node /\ installed' \subseteq (SUBSET Node) \X (SUBSET Node)
  BY <1>3 DEF TypeOK, StopAtEnd, NewValidators
<1>6. /\ results' \in [Node -> SUBSET Node]
      /\ tally' \in [Node -> [Node -> Vote \cup {"none"}]]
      /\ misread' \subseteq Node
  BY <1>1, <1>2, WriteResultType
<1>7. {r} \in SUBSET net /\ {} \in SUBSET Node /\ Node \ {n} \in SUBSET Node
  OBVIOUS
<1>8. /\ heir' \in [Node -> Node \cup {NoNode}]
      /\ synced' \in [Node -> BOOLEAN] /\ recent' \in [Node -> BOOLEAN]
      /\ starter' \in [Node -> Starter] /\ judge' \in [Node -> Judge]
      /\ opening' \in [Node -> Opening]
      /\ died' \subseteq Node \X {"starter", "judge"}
      /\ crashed' \subseteq Node /\ untold' \subseteq Node /\ net' \subseteq Request
      /\ UNCHANGED <<starts, approved, overlapped, refused>>
  BY <1>1, <1>7, StopType
<1> QED
  BY <1>1, <1>4, <1>5, <1>6, <1>8 DEF TypeOK

LEMMA StopAtNewsType ==
    ASSUME TypeOK, NEW n \in Node, NEW r \in net, StopAtNews(n, r)
    PROVE  TypeOK'
<1>1. Stop(n, {r}, {})
  BY DEF StopAtNews
<1>2. r.list \in SUBSET Node
  BY RequestFields DEF TypeOK, StopAtNews, Reaches
<1>3. /\ list' \in [Node -> SUBSET Node] /\ validators' \in [Node -> SUBSET Node]
      /\ started' \in [Node -> BOOLEAN] /\ leader' \in [Node -> Node \cup {NoNode}]
  BY <1>2 DEF TypeOK, StopAtNews
<1>4. UNCHANGED <<results, tally, installed, misread, kept>>
  BY DEF StopAtNews
<1>5. /\ heir' \in [Node -> Node \cup {NoNode}]
      /\ synced' \in [Node -> BOOLEAN] /\ recent' \in [Node -> BOOLEAN]
      /\ starter' \in [Node -> Starter] /\ judge' \in [Node -> Judge]
      /\ opening' \in [Node -> Opening]
      /\ died' \subseteq Node \X {"starter", "judge"}
      /\ crashed' \subseteq Node /\ untold' \subseteq Node /\ net' \subseteq Request
      /\ UNCHANGED <<starts, approved, overlapped, refused>>
  <2>1. {r} \in SUBSET net /\ {} \in SUBSET Node
    OBVIOUS
  <2> QED
    BY <1>1, <2>1, StopType
<1> QED
  BY <1>3, <1>4, <1>5 DEF TypeOK

LEMMA TimePassesType == ASSUME TypeOK, NEW n \in Node, TimePasses(n) PROVE TypeOK'
  BY DEF TypeOK, TimePasses

LEMMA InitType == Init => TypeOK
<1> SUFFICES ASSUME Init PROVE TypeOK
  OBVIOUS
<1> USE DEF Init
<1>1. /\ validators \in [Node -> SUBSET Node] /\ leader \in [Node -> Node \cup {NoNode}]
      /\ heir \in [Node -> Node \cup {NoNode}] /\ list \in [Node -> SUBSET Node]
      /\ results \in [Node -> SUBSET Node] /\ tally \in [Node -> [Node -> Vote \cup {"none"}]]
  BY InitialAssumption DEF NoVotes
<1>2. /\ started \in [Node -> BOOLEAN] /\ recent \in [Node -> BOOLEAN]
      /\ synced \in [Node -> BOOLEAN]
  OBVIOUS
<1>3. starter \in [Node -> Starter] /\ judge \in [Node -> Judge] /\ opening \in [Node -> Opening]
  BY DEF StarterIdle, JudgeIdle, OpeningIdle, Starter, Judge, Opening, Vote
<1> QED
  BY <1>1, <1>2, <1>3 DEF TypeOK

LEMMA StepType == TypeOK /\ [Next]_vars => TypeOK'
<1> SUFFICES ASSUME TypeOK, [Next]_vars PROVE TypeOK'
  OBVIOUS
<1>1. CASE Next
  BY <1>1, StarterStepType, JudgeStepType, ServerStepType, WorkerDiesType, LoseType,
     RestartType, StopAtEndType, StopAtNewsType, TimePassesType
     DEF Next, CrashStep
<1>2. CASE UNCHANGED vars
  BY <1>2 DEF vars, TypeOK
<1> QED
  BY <1>1, <1>2

\* Every variable keeps its type.
THEOREM TypeCorrect == Spec => []TypeOK
  BY InitType, StepType, PTL DEF Spec
-----------------------------------------------------------------------------
(* The memory of the server, whatever the agreements do *)

\* A vote in the memory of a server is a row of its file, a row that another process
\* did not write is in its memory, and no request goes back to its sender.
TallyAt(n) ==
    \A m \in Node : /\ tally[n][m] # "none" => m \in results[n]
                    /\ m \in results[n] /\ (m # n \/ synced[n]) => tally[n][m] # "none"

MemoryInv ==
    /\ \A n \in Node : TallyAt(n)
    /\ \A r \in net : r.to # r.from

-----------------------------------------------------------------------------
(* One agreement at a time *)

\* Node n takes no part in an agreement.  If it crashed while it took over new validators,
\* the list and the results of the agreement on them may be left.
Resting(n) ==
    /\ ~started[n] /\ leader[n] = NoNode /\ heir[n] = NoNode
    /\ list[n] = {} \/ n \in results[n]
    /\ opening[n].pc = "idle"

\* Node n follows k in the agreement of the validators e about l.
Following(n, k, l, e) ==
    /\ started[n] /\ leader[n] = k /\ heir[n] = NoNode
    /\ n \in e /\ validators[n] = e
    /\ list[n] \in {{}, l} \/ n \in results[n]
    /\ opening[n].pc = "list" => opening[n].from = k /\ opening[n].list = l

\* Node n crashed when it had the new validators l, and still takes the agreement on them,
\* which k has ended, for open.
Torn(n, k, l) ==
    /\ n \in crashed
    /\ started[n] /\ leader[n] = k /\ heir[n] = NoNode
    /\ validators[n] = l /\ n \in results[n]
    /\ opening[n].pc = "idle"

\* No vote that may reach n is on its way or about to be sent.
Clean(n) ==
    /\ \A u \in Node : judge[u].pc = "idle"
    /\ \A r \in net : ~(r.type = "vote" /\ r.to = n)

\* A node that could start an agreement gets no vote of an earlier one.
NoLateVotes ==
    \A n \in Node :
        n \in validators[n] /\ ~started[n] /\ ~recent[n] => Clean(n)

\* k is in an agreement that it leads, or about to start one.
Active(k) == starter[k].pc # "idle" \/ started[k]

\* The other validators may know of the agreement that k leads.
Sent(k) ==
    \/ \E r \in net : r.type = "start"
    \/ \E m \in Node \ {k} : started[m]

\* The vote of m in the agreement of k about l is sent at most once.
VotesOnce(m, k, l) ==
    /\ judge[m].pc = "vote" =>
         /\ started[m] /\ m \notin results[m]
         /\ judge[m].vote = "yes" => <<m, l>> \in approved
    /\ \A r \in net : r.type = "vote" /\ r.from = m /\ r.to = k =>
         /\ started[m] /\ m \in results[m] /\ m \notin results[k]
         /\ r.vote = "yes" => <<m, l>> \in approved
         /\ \A s \in net : s.type = "vote" /\ s.from = m /\ s.to = k => s = r
    /\ m \in results[k] => started[m] /\ m \in results[m]

\* What k has counted, which is what the validators think unless it was misread.
Counted(k, l, e) ==
    /\ results[k] \subseteq e
    /\ <<k, l>> \in approved
    /\ misread = {} => \A m \in Node : tally[k][m] = "yes" => <<m, l>> \in approved
    /\ \A m \in Node \ {k} : VotesOnce(m, k, l)

\* Where the worker of k stands that starts the agreement.
Leading(k, l, e) ==
    /\ starter[k].pc # "idle" => /\ starter[k].list = l /\ ~Sent(k)
                                 /\ k \in validators[k]
    /\ starter[k].pc = "info" => ~started[k] /\ list[k] = {}
    /\ starter[k].pc \in {"list", "send"} => started[k]
    /\ started[k] => /\ k \in e /\ validators[k] = e /\ opening[k].pc = "idle"
                     /\ leader[k] = k
                     /\ list[k] \in {{}, l}
    /\ starter[k].pc = "send" => list[k] = l
    /\ ~started[k] => Resting(k)
    /\ Sent(k) => /\ started[k]
                  /\ list[k] = l \/ results[k] = e

\* The validators are e, for every node that takes itself for one of them.
InForce(e) ==
    /\ Cardinality(e) = ValidatorsNumber
    /\ \A n \in Node : n \in validators[n] => validators[n] = e
    /\ \A n \in Node \ untold : validators[n] = e

\* The other nodes follow k or take no part.
Others(k, l, e) ==
    \A n \in Node \ {k} :
        /\ starter[n].pc = "idle"
        /\ Resting(n) \/ Following(n, k, l, e)
        /\ started[n] => Cardinality(l) = ValidatorsNumber

\* The requests on their way are votes and those by which k starts an agreement.
OnlyStarts(k, l, e) ==
    \A r \in net :
        /\ r.type # "news"
        /\ r.type = "start" => r.from = k /\ r.list = l /\ r.to \in e /\ ~started[r.to]

\* No agreement has ended since the validators are e: none is under way, or one
\* that k leads, about l.
Open(k, l, e) ==
    /\ InForce(e)
    /\ Others(k, l, e)
    /\ OnlyStarts(k, l, e)
    /\ Leading(k, l, e)
    /\ Active(k) => Counted(k, l, e)
    /\ (\A n \in Node : ~started[n]) => NoLateVotes

\* k has ended the agreement of the validators e and installed l, which not all the
\* nodes may know yet.
Closing(k, l, e) ==
    /\ Cardinality(e) = ValidatorsNumber /\ Cardinality(l) = ValidatorsNumber
    /\ \A n \in Node : starter[n].pc = "idle"
    /\ \A n \in Node : \/ Resting(n) /\ (n \in validators[n] => validators[n] = l)
                       \/ n # k /\ Following(n, k, l, e) /\ n \in results[n]
                       \/ n # k /\ Torn(n, k, l)
    /\ \A r \in net : r.type # "start"
    /\ \A r \in net : r.type = "news" => r.from = k /\ r.list = l
    /\ NoLateVotes
    /\ k \in e
    /\ \A n \in Node \ untold :
          \/ validators[n] = l
          \/ validators[n] = e /\ \E r \in net : r.type = "news" /\ r.to = n

\* k crashed when it had installed a list, and had told nobody: nothing goes on any more.
Broken(k) ==
    /\ k \in crashed /\ Node \ {k} \subseteq untold
    /\ started[k]
    /\ \A n \in Node : /\ starter[n].pc = "idle" /\ judge[n].pc = "idle"
                       /\ started[n] => n \in results[n]
    /\ \A n \in Node \ {k} : leader[n] # n /\ heir[n] = NoNode
    /\ \A r \in net : r.type = "vote" /\ r.to # k

\* The phases that follow each other, as long as agreements do not overlap.
PhaseInv ==
    ~overlapped =>
        \E k \in Node, l, e \in SUBSET Node : Open(k, l, e) \/ Closing(k, l, e) \/ Broken(k)

-----------------------------------------------------------------------------
(* The memory invariant *)

LEMMA ResultsRows ==
    ASSUME TypeOK, NEW n \in Node, TallyAt(n), NEW m \in Node
    PROVE  Results(n)[m] # "none" <=> m \in results[n]
  BY DEF TypeOK, TallyAt, Results

LEMMA WriteResultRows ==
    ASSUME TypeOK, MemoryInv, NEW n \in Node, NEW m \in Node, NEW vote \in Vote,
           WriteResult(n, m, vote), \A u \in Node \ {n} : synced'[u] = synced[u]
    PROVE  \A u \in Node : TallyAt(u)'
<1>1. TallyAt(n)'
  <2>1. /\ results'[n] = results[n] \cup {m}
        /\ tally'[n] = [Results(n) EXCEPT ![m] = vote]
    BY DEF WriteResult, TypeOK
  <2>2. \A u \in Node : Results(n)[u] # "none" <=> u \in results[n]
    BY ResultsRows DEF MemoryInv
  <2> QED
    BY <2>1, <2>2, ResultsType DEF TallyAt, Vote
<1>2. ASSUME NEW u \in Node \ {n} PROVE TallyAt(u)'
  <2>1. results'[u] = results[u] /\ tally'[u] = tally[u] /\ synced'[u] = synced[u]
    BY DEF WriteResult, TypeOK
  <2> QED
    BY <2>1 DEF MemoryInv, TallyAt
<1> QED
  BY <1>1, <1>2

LEMMA AddResultRows ==
    ASSUME TypeOK, MemoryInv, NEW n \in Node, NEW m \in Node, NEW vote \in Vote,
           AddResult(n, m, vote)
    PROVE  \A u \in Node : TallyAt(u)'
<1>1. \A u \in Node \ {n} : synced'[u] = synced[u]
  BY DEF AddResult, TypeOK
<1> QED
  BY <1>1, WriteResultRows DEF AddResult

LEMMA AddOwnResultRows ==
    ASSUME TypeOK, MemoryInv, NEW n \in Node, AddOwnResult(n)
    PROVE  \A u \in Node : TallyAt(u)'
  BY DEF AddOwnResult, TypeOK, MemoryInv, TallyAt

\* The four outcomes of a vote that reaches n.
Ending(n, r) == HasEnded(n, Counting(n, r)) /\ Leader(n) = n

VoteRefused(n, r) ==
    /\ r.from \notin validators[n] \/ Results(n)[r.from] = "yes"
    /\ net' = net \ {r}
    /\ UNCHANGED <<fileVars, voteVars, procVars, historyVars>>

VoteAdded(n, r) ==
    /\ r.from \in validators[n]
    /\ ~Ending(n, r)
    /\ AddResult(n, r.from, r.vote)
    /\ net' = net \ {r}
    /\ UNCHANGED <<fileVars, procVars, starts, approved, installed, overlapped, refused, kept,
                   untold, crashed>>

VoteFails(n, r) ==
    /\ r.from \in validators[n] /\ Ending(n, r) /\ ~IsSuccess(n, Counting(n, r))
    /\ AddResult(n, r.from, r.vote)
    /\ list' = [list EXCEPT ![n] = {}]
    /\ \E m \in validators[n] : heir' = [heir EXCEPT ![n] = m]
    /\ net' = net \ {r}
    /\ UNCHANGED <<validators, started, leader, recent, procVars, starts, approved, installed,
                   overlapped, refused, kept, untold, crashed>>

VoteInstalls(n, r) ==
    /\ r.from \in validators[n] /\ Ending(n, r) /\ IsSuccess(n, Counting(n, r))
    /\ AddResult(n, r.from, r.vote)
    /\ list' = [list EXCEPT ![n] = {}]
    /\ validators' = [validators EXCEPT ![n] = list[n]]
    /\ recent' = [recent EXCEPT ![n] = TRUE]
    /\ SetInfo(n, FALSE, NoNode)
    /\ net' = (net \ {r}) \cup
                 Send(n, Node, [type |-> "news", from |-> n, to |-> n, list |-> list[n]])
    /\ installed' = installed \cup {<<list[n], validators[n]>>}
    /\ kept' = kept \cup {n}
    /\ UNCHANGED <<procVars, starts, approved, overlapped, refused, untold, crashed>>

LEMMA VoteOutcomes ==
    ASSUME NEW n \in Node, NEW r \in net, ReceiveVote(n, r)
    PROVE  /\ r.type = "vote" /\ r.to = n /\ opening[n].pc = "idle"
           /\ \/ VoteRefused(n, r) \/ VoteAdded(n, r)
              \/ VoteFails(n, r) \/ VoteInstalls(n, r)
<1> DEFINE accepted == r.from \in validators[n] /\ Results(n)[r.from] # "yes"
           ended == accepted /\ Ending(n, r)
           success == ended /\ IsSuccess(n, Counting(n, r))
           news == [type |-> "news", from |-> n, to |-> n, list |-> list[n]]
<1>1. r.type = "vote" /\ r.to = n /\ opening[n].pc = "idle"
  BY DEF ReceiveVote, Reaches
<1>2. /\ IF accepted THEN AddResult(n, r.from, r.vote) ELSE UNCHANGED <<voteVars, misread>>
      /\ list' = IF ended THEN [list EXCEPT ![n] = {}] ELSE list
      /\ IF success
           THEN /\ validators' = [validators EXCEPT ![n] = list[n]]
                /\ recent' = [recent EXCEPT ![n] = TRUE]
                /\ SetInfo(n, FALSE, NoNode)
                /\ net' = (net \ {r}) \cup Send(n, Node, news)
                /\ installed' = installed \cup {<<list[n], validators[n]>>}
                /\ kept' = kept \cup {n}
           ELSE /\ net' = net \ {r}
                /\ IF ended THEN \E m \in validators[n] : heir' = [heir EXCEPT ![n] = m]
                            ELSE UNCHANGED heir
                /\ UNCHANGED <<validators, recent, started, leader, installed, kept>>
      /\ UNCHANGED <<procVars, starts, approved, overlapped, refused, untold, crashed>>
  BY DEF ReceiveVote, Ends, Accepts, NewValidators, Informed, Ending
<1>3. CASE ~accepted
  <2>1. ~accepted /\ ~ended /\ ~success
    BY <1>3
  <2> HIDE DEF ended, success, accepted
  <2>2. VoteRefused(n, r)
    BY <1>2, <2>1 DEF VoteRefused, accepted
  <2> QED
    BY <1>1, <2>2
<1>4. CASE accepted /\ ~Ending(n, r)
  <2>1. accepted /\ ~ended /\ ~success
    BY <1>4
  <2> HIDE DEF ended, success, accepted
  <2>2. VoteAdded(n, r)
    BY <1>2, <1>4, <2>1 DEF VoteAdded, accepted
  <2> QED
    BY <1>1, <2>2
<1>5. CASE accepted /\ Ending(n, r) /\ ~IsSuccess(n, Counting(n, r))
  <2>1. accepted /\ ended /\ ~success
    BY <1>5
  <2> HIDE DEF ended, success, accepted
  <2>2. VoteFails(n, r)
    BY <1>2, <1>5, <2>1 DEF VoteFails, accepted
  <2> QED
    BY <1>1, <2>2
<1>6. CASE accepted /\ Ending(n, r) /\ IsSuccess(n, Counting(n, r))
  <2>1. accepted /\ ended /\ success
    BY <1>6
  <2> HIDE DEF ended, success, accepted
  <2>2. VoteInstalls(n, r)
    BY <1>2, <1>6, <2>1 DEF VoteInstalls, accepted
  <2> QED
    BY <1>1, <2>2
<1> QED
  BY <1>3, <1>4, <1>5, <1>6

-----------------------------------------------------------------------------
(* Every step keeps the memory invariant *)

LEMMA InitMemory == Init => MemoryInv
  BY DEF Init, MemoryInv, TallyAt, NoVotes

LEMMA StopMemory ==
    ASSUME TypeOK, MemoryInv, NEW n \in Node, NEW taken, NEW missing, Stop(n, taken, missing),
           UNCHANGED <<results, tally>>
    PROVE  MemoryInv'
  BY DEF Stop, TypeOK, MemoryInv, TallyAt

LEMMA StepMemory == TypeOK /\ MemoryInv /\ [Next]_vars => MemoryInv'
<1> SUFFICES ASSUME TypeOK, MemoryInv, [Next]_vars PROVE MemoryInv'
  OBVIOUS
<1>0. ASSUME UNCHANGED voteVars, net' \subseteq net PROVE MemoryInv'
  BY <1>0 DEF MemoryInv, TallyAt
<1>1. ASSUME NEW n \in Node, StarterStep(n) PROVE MemoryInv'
  <2>1. CASE SendStart(n)
    <3>1. starter[n].list \in SUBSET Node /\ validators[n] \in SUBSET Node
      BY DEF TypeOK, Starter
    <3>2. \A r \in Send(n, validators[n], [type |-> "start", from |-> n, to |-> n,
                                            list |-> starter[n].list]) : r.to # r.from
      BY <3>1, Starts
    <3>3. \A r \in net' : r.to # r.from
      BY <2>1, <3>2 DEF SendStart, MemoryInv
    <3> QED
      BY <2>1, <3>3, AddOwnResultRows DEF SendStart, MemoryInv
  <2>2. CASE ~SendStart(n)
    BY <1>0, <1>1, <2>2 DEF StarterStep, StartIsDue, WriteInfo, WriteList
  <2> QED
    BY <2>1, <2>2
<1>2. ASSUME NEW n \in Node, JudgeStep(n) PROVE MemoryInv'
  <2>1. CASE SendVote(n)
    <3>1. judge[n].vote \in Vote /\ validators[n] \in SUBSET Node
      BY DEF TypeOK, Judge
    <3>2. \A r \in Send(n, validators[n], [type |-> "vote", from |-> n, to |-> n,
                                            vote |-> judge[n].vote]) : r.to # r.from
      BY <3>1, Votes
    <3>3. \A r \in net' : r.to # r.from
      BY <2>1, <3>2 DEF SendVote, MemoryInv
    <3> QED
      BY <2>1, <3>3, AddOwnResultRows DEF SendVote, MemoryInv
  <2>2. CASE ~SendVote(n)
    BY <1>0, <1>2, <2>2 DEF JudgeStep, JudgeList
  <2> QED
    BY <2>1, <2>2
<1>3. ASSUME NEW n \in Node, OpenAgreement(n) PROVE MemoryInv'
  <2>1. opening[n].from \in Node
    BY <1>3 DEF TypeOK, Opening, OpenAgreement
  <2>2. \A u \in Node : TallyAt(u)'
    BY <1>3, <2>1, AddResultRows DEF OpenAgreement, Vote
  <2> QED
    BY <1>3, <2>2 DEF OpenAgreement, MemoryInv
<1>4. ASSUME NEW n \in Node, NEW r \in net, ReceiveStart(n, r) PROVE MemoryInv'
  BY <1>0, <1>4 DEF ReceiveStart
<1>5. ASSUME NEW n \in Node, NEW r \in net, ReceiveVote(n, r) PROVE MemoryInv'
  <2>1. r.from \in Node /\ r.vote \in Vote
    BY <1>5, VoteOutcomes, RequestFields DEF TypeOK
  <2>2. CASE VoteRefused(n, r)
    BY <1>0, <2>2 DEF VoteRefused
  <2>3. ASSUME AddResult(n, r.from, r.vote), net' = net \ {r} PROVE MemoryInv'
    BY <2>1, <2>3, AddResultRows DEF MemoryInv
  <2>4. CASE VoteInstalls(n, r)
    <3>1. list[n] \in SUBSET Node
      BY DEF TypeOK
    <3>2. \A s \in Send(n, Node, [type |-> "news", from |-> n, to |-> n, list |-> list[n]]) :
             s.to # s.from
      BY <3>1, News
    <3>3. \A s \in net' : s.to # s.from
      BY <2>4, <3>2 DEF VoteInstalls, MemoryInv
    <3> QED
      BY <2>1, <2>4, <3>3, AddResultRows DEF VoteInstalls, MemoryInv
  <2> QED
    BY <1>5, <2>2, <2>3, <2>4, VoteOutcomes DEF VoteAdded, VoteFails
<1>6. ASSUME NEW n \in Node, NEW r \in net, ReceiveNews(n, r) PROVE MemoryInv'
  <2>1. CASE r.from \in validators[n]
    <3>1. \A u \in Node : TallyAt(u)'
      BY <1>6, <2>1 DEF ReceiveNews, TypeOK, MemoryInv, TallyAt, NoVotes
    <3> QED
      BY <1>6, <3>1 DEF ReceiveNews, MemoryInv
  <2>2. CASE r.from \notin validators[n]
    BY <1>0, <1>6, <2>2 DEF ReceiveNews
  <2> QED
    BY <2>1, <2>2
<1>7. ASSUME NEW n \in Node, TimePasses(n) PROVE MemoryInv'
  BY <1>0, <1>7 DEF TimePasses
<1>8. ASSUME NEW n \in Node, CrashStep(n) PROVE MemoryInv'
  <2>1. ASSUME Restart(n) PROVE MemoryInv'
    BY <2>1, StopMemory DEF Restart
  <2>2. ASSUME NEW r \in net, StopAtNews(n, r) PROVE MemoryInv'
    BY <2>2, StopMemory DEF StopAtNews
  <2>3. ASSUME NEW r \in net, StopAtEnd(n, r) PROVE MemoryInv'
    <3>1. r.from \in Node /\ r.vote \in Vote
      BY <2>3, RequestFields DEF TypeOK, StopAtEnd, Reaches
    <3>2. Stop(n, {r}, {}) \/ Stop(n, {r}, Node \ {n})
      BY <2>3 DEF StopAtEnd
    <3>3. net' \subseteq net /\ \A u \in Node \ {n} : synced'[u] = synced[u]
      <4>1. synced' = [synced EXCEPT ![n] = FALSE]
        BY <3>2 DEF Stop
      <4>2. net' \subseteq net
        BY <3>2 DEF Stop
      <4> QED
        BY <4>1, <4>2 DEF TypeOK
    <3>4. WriteResult(n, r.from, r.vote)
      BY <2>3 DEF StopAtEnd
    <3> QED
      BY <3>1, <3>3, <3>4, WriteResultRows DEF MemoryInv
  <2> QED
    BY <1>8, <2>1, <2>2, <2>3 DEF CrashStep
<1>9. ASSUME NEW n \in Node, NEW w \in {"starter", "judge"}, WorkerDies(n, w) PROVE MemoryInv'
  BY <1>0, <1>9 DEF WorkerDies
<1>10. ASSUME NEW r \in net, Lose(r) PROVE MemoryInv'
  BY <1>0, <1>10 DEF Lose
<1>11. CASE UNCHANGED vars
  BY <1>0, <1>11 DEF vars
<1> QED
  BY <1>1, <1>2, <1>3, <1>4, <1>5, <1>6, <1>7, <1>8, <1>9, <1>10, <1>11 DEF Next, ServerStep

-----------------------------------------------------------------------------
(* The first phase, and steps that only remove a request *)

LEMMA InitPhase == Init => PhaseInv
<1> SUFFICES ASSUME Init PROVE \E k \in Node : Open(k, {}, Initial)
  BY InitialAssumption DEF PhaseInv
<1>1. PICK k \in Node : k \in Initial
  BY InitialAssumption, Numbers, FS_EmptySet
<1>2. InForce(Initial)
  BY InitialAssumption DEF InForce, Init
<1>3. \A n \in Node : Resting(n) /\ starter[n].pc = "idle" /\ ~started[n]
  BY DEF Init, Resting, StarterIdle, OpeningIdle
<1>4. ~Sent(k) /\ ~Active(k)
  BY <1>3 DEF Sent, Active, Init
<1>5. NoLateVotes
  BY DEF NoLateVotes, Clean, Init, JudgeIdle
<1>6. Others(k, {}, Initial) /\ OnlyStarts(k, {}, Initial) /\ Leading(k, {}, Initial)
  BY <1>3, <1>4 DEF Others, OnlyStarts, Leading, Init
<1> QED
  BY <1>2, <1>4, <1>5, <1>6 DEF Open

\* Processes may stop.
Halted ==
    \A n \in Node :
        /\ starter'[n] = starter[n] \/ starter'[n].pc = "idle"
        /\ judge'[n] = judge[n] \/ judge'[n].pc = "idle"
        /\ opening'[n] = opening[n] \/ opening'[n].pc = "idle"
        /\ recent[n] => recent'[n]

\* They may, and what the server has in memory may go.
Idled == Halted /\ \A n \in Node : heir'[n] \in {heir[n], NoNode}

\* The handler of a start may write its list.
ListsKept ==
    \A n \in Node : \/ list'[n] = list[n]
                    \/ opening[n].pc = "list" /\ list'[n] = opening[n].list

LEMMA OpenShrinks ==
    ASSUME NEW k \in Node, NEW l \in SUBSET Node, NEW e \in SUBSET Node, Open(k, l, e),
           net' \subseteq net, untold \subseteq untold', Idled, ListsKept,
           UNCHANGED <<validators, started, leader, results, tally, approved, misread>>
    PROVE  Open(k, l, e)'
<1> USE DEF Open
<1>1. InForce(e)'
  BY DEF InForce
<1>2. Others(k, l, e)'
  BY DEF Others, Resting, Following, Halted, Idled, ListsKept
<1>3. OnlyStarts(k, l, e)'
  BY DEF OnlyStarts
<1>4. Leading(k, l, e)'
  <2>1. Sent(k)' => Sent(k)
    BY DEF Sent
  <2>2. opening[k].pc = "idle" /\ list'[k] = list[k]
    BY DEF Leading, Resting, ListsKept
  <2> QED
    BY <2>1, <2>2 DEF Leading, Resting, Halted, Idled
<1>5. Active(k)' => Counted(k, l, e)'
  BY DEF Active, Counted, VotesOnce, Halted, Idled
<1>6. (\A n \in Node : ~started'[n]) => NoLateVotes'
  BY DEF NoLateVotes, Clean, Halted, Idled
<1> QED
  BY <1>1, <1>2, <1>3, <1>4, <1>5, <1>6

LEMMA ClosingShrinks ==
    ASSUME NEW k \in Node, NEW l \in SUBSET Node, NEW e \in SUBSET Node, Closing(k, l, e),
           net' \subseteq net, untold \subseteq untold', crashed \subseteq crashed',
           \A r \in net \ net' : r.type = "news" => r.to \in untold',
           Idled, ListsKept, \A n \in Node : results[n] \subseteq results'[n],
           UNCHANGED <<validators, started, leader>>
    PROVE  Closing(k, l, e)'
<1>1. \A n \in Node : Resting(n) => Resting(n)'
  BY DEF Resting, Halted, Idled, ListsKept
<1>2. \A n \in Node : /\ Following(n, k, l, e) /\ n \in results[n] => Following(n, k, l, e)'
                      /\ Torn(n, k, l) => Torn(n, k, l)'
  BY DEF Following, Torn, Halted, Idled
<1>3. NoLateVotes'
  BY DEF Closing, NoLateVotes, Clean, Halted, Idled
<1>4. \A n \in Node : starter'[n].pc = "idle"
  BY DEF Closing, Halted, Idled
<1>5. \A n \in Node \ untold' :
         \/ validators'[n] = l
         \/ validators'[n] = e /\ \E r \in net' : r.type = "news" /\ r.to = n
  BY DEF Closing
<1>6. \A n \in Node : \/ Resting(n)' /\ (n \in validators'[n] => validators'[n] = l)
                      \/ n # k /\ Following(n, k, l, e)' /\ n \in results'[n]
                      \/ n # k /\ Torn(n, k, l)'
  <2>1. ASSUME NEW n \in Node
        PROVE  \/ Resting(n)' /\ (n \in validators'[n] => validators'[n] = l)
               \/ n # k /\ Following(n, k, l, e)' /\ n \in results'[n]
               \/ n # k /\ Torn(n, k, l)'
    <3>1. \/ Resting(n) /\ (n \in validators[n] => validators[n] = l)
          \/ n # k /\ Following(n, k, l, e) /\ n \in results[n]
          \/ n # k /\ Torn(n, k, l)
      BY DEF Closing
    <3>2. results[n] \subseteq results'[n] /\ UNCHANGED validators
      OBVIOUS
    <3>3. Resting(n) => Resting(n)'
      BY <1>1
    <3>4. /\ Following(n, k, l, e) /\ n \in results[n] => Following(n, k, l, e)'
          /\ Torn(n, k, l) => Torn(n, k, l)'
      BY <1>2
    <3>5. n \in results[n] => n \in results'[n]
      BY <3>2
    <3>6. validators'[n] = validators[n]
      BY <3>2
    <3> QED
      BY ONLY <3>1, <3>3, <3>4, <3>5, <3>6
  <2> QED
    BY <2>1
<1>7. \A r \in net' : r.type # "start" /\ (r.type = "news" => r.from = k /\ r.list = l)
  BY DEF Closing
<1> QED
  BY <1>3, <1>4, <1>5, <1>6, <1>7 DEF Closing

LEMMA BrokenShrinks ==
    ASSUME NEW k \in Node, Broken(k),
           net' \subseteq net, untold \subseteq untold', crashed \subseteq crashed',
           \A n \in Node : /\ starter'[n] = starter[n] \/ starter'[n].pc = "idle"
                           /\ judge'[n] = judge[n] \/ judge'[n].pc = "idle"
                           /\ heir'[n] \in {heir[n], NoNode},
           \A n \in Node : results[n] \subseteq results'[n],
           UNCHANGED <<started, leader>>
    PROVE  Broken(k)'
  BY DEF Broken

-----------------------------------------------------------------------------
(* The steps of the worker that starts agreements *)

\* An agreement that does not overlap another is started when all the nodes rest,
\* with the validators of the last one that ended.
LEMMA StartIsDuePhase ==
    ASSUME TypeOK, MemoryInv, PhaseInv, NEW n \in Node, NEW l \in Proposal, StartIsDue(n, l)
    PROVE  PhaseInv'
<1> SUFFICES ASSUME ~overlapped' PROVE \E e \in SUBSET Node : Open(n, l, e)'
  BY ProposalAssumption DEF PhaseInv
<1>0. l \in SUBSET Node
  BY ProposalAssumption
<1>1. /\ ~overlapped /\ ~UnderWay
      /\ \A m \in Node : ~started[m] /\ starter[m].pc = "idle"
      /\ \A r \in net : r.type = "vote"
  BY DEF StartIsDue, UnderWay
<1>2. PICK k \in Node, l0 \in SUBSET Node, e0 \in SUBSET Node :
         Open(k, l0, e0) \/ Closing(k, l0, e0)
  BY <1>1 DEF PhaseInv, Broken
<1>3. /\ \A m \in Node : Resting(m)
      /\ NoLateVotes
  <2>1. CASE Open(k, l0, e0)
    BY <1>1, <2>1 DEF Open, Others, Following, Leading
  <2>2. CASE Closing(k, l0, e0)
    BY <1>1, <2>2 DEF Closing, Following, Torn
  <2> QED
    BY <1>2, <2>1, <2>2
<1>4. PICK e \in SUBSET Node : InForce(e)
  <2>1. CASE Open(k, l0, e0)
    BY <2>1 DEF Open
  <2>2. CASE Closing(k, l0, e0)
    BY <1>1, <2>2 DEF Closing, Following, Torn, InForce
  <2> QED
    BY <1>2, <2>1, <2>2
<1>5. Clean(n) /\ results[n] = {} /\ n \in validators[n] /\ ~started[n] /\ list[n] = {}
  BY <1>1, <1>3 DEF StartIsDue, NoLateVotes, Resting
<1>6. /\ starter' = [starter EXCEPT ![n] = [pc |-> "info", list |-> l]]
      /\ approved' = approved \cup {<<n, l>>}
      /\ UNCHANGED <<fileVars, voteVars, net, judge, opening, misread, untold>>
  BY DEF StartIsDue
<1>7. /\ starter'[n] = [pc |-> "info", list |-> l]
      /\ \A m \in Node \ {n} : starter'[m] = starter[m]
  BY <1>6 DEF TypeOK
<1> HIDE DEF StartIsDue
<1>8. InForce(e)'
  BY <1>4, <1>6 DEF InForce
<1>9. Others(n, l, e)' /\ OnlyStarts(n, l, e)'
  BY <1>1, <1>3, <1>6, <1>7 DEF Others, OnlyStarts, Resting
<1>10. Leading(n, l, e)'
  <2>1. ~Sent(n)'
    BY <1>1, <1>6 DEF Sent
  <2> QED
    BY <1>3, <1>5, <1>6, <1>7, <2>1 DEF Leading, Resting
<1>11. Counted(n, l, e)'
  <2>1. \A m \in Node : tally[n][m] # "yes"
    BY <1>5 DEF MemoryInv, TallyAt
  <2>2. \A m \in Node \ {n} : VotesOnce(m, n, l)'
    BY <1>5, <1>6 DEF VotesOnce, Clean
  <2> QED
    BY <1>5, <1>6, <2>1, <2>2 DEF Counted
<1>12. NoLateVotes'
  BY <1>3, <1>6 DEF NoLateVotes, Clean
<1> QED
  BY <1>8, <1>9, <1>10, <1>11, <1>12 DEF Open

LEMMA WriteInfoPhase ==
    ASSUME TypeOK, NEW k \in Node, NEW l \in SUBSET Node, NEW e \in SUBSET Node,
           Open(k, l, e), NEW n \in Node, WriteInfo(n)
    PROVE  Open(k, l, e)'
<1>1. n = k /\ starter[k].pc = "info"
  BY DEF Open, Others, WriteInfo
<1>2. /\ ~Sent(k) /\ ~started[k] /\ Resting(k) /\ k \in validators[k]
      /\ starter[k].list = l /\ Counted(k, l, e) /\ list[k] = {}
      /\ k \in e /\ validators[k] = e
  BY <1>1 DEF Open, Leading, Active, InForce
<1>3. /\ started'[k] = TRUE /\ leader'[k] = k /\ heir'[k] = NoNode
      /\ starter'[k].pc = "list" /\ starter'[k].list = l
      /\ \A m \in Node \ {k} : /\ started'[m] = started[m] /\ leader'[m] = leader[m]
                               /\ heir'[m] = heir[m] /\ starter'[m] = starter[m]
      /\ UNCHANGED <<validators, recent, list, voteVars, net, judge, opening, historyVars>>
  BY <1>1, <1>2 DEF WriteInfo, SetInfo, TypeOK, Starter
<1> HIDE DEF WriteInfo
<1>4. InForce(e)'
  BY <1>3 DEF Open, InForce
<1>5. Others(k, l, e)'
  BY <1>3 DEF Open, Others, Resting, Following
<1>6. OnlyStarts(k, l, e)'
  BY <1>2, <1>3 DEF Open, OnlyStarts, Sent
<1>7. ~Sent(k)'
  BY <1>2, <1>3 DEF Sent
<1>8. Leading(k, l, e)'
  BY <1>2, <1>3, <1>7 DEF Leading, Resting
<1>9. Counted(k, l, e)'
  BY <1>2, <1>3 DEF Counted, VotesOnce
<1> QED
  BY <1>3, <1>4, <1>5, <1>6, <1>8, <1>9 DEF Open

LEMMA WriteListPhase ==
    ASSUME TypeOK, NEW k \in Node, NEW l \in SUBSET Node, NEW e \in SUBSET Node,
           Open(k, l, e), NEW n \in Node, WriteList(n)
    PROVE  Open(k, l, e)'
<1>1. n = k /\ starter[k].pc = "list"
  BY DEF Open, Others, WriteList
<1>2. /\ ~Sent(k) /\ started[k] /\ starter[k].list = l /\ Counted(k, l, e)
      /\ k \in validators[k] /\ Leading(k, l, e)
  BY <1>1 DEF Open, Leading, Active
<1>3. /\ list'[k] = l
      /\ starter'[k].pc = "send" /\ starter'[k].list = l
      /\ \A m \in Node \ {k} : list'[m] = list[m] /\ starter'[m] = starter[m]
      /\ UNCHANGED <<validators, started, leader, heir, recent, voteVars, net, judge, opening,
                     historyVars>>
  BY <1>1, <1>2 DEF WriteList, TypeOK, Starter
<1> HIDE DEF WriteList
<1>4. InForce(e)' /\ OnlyStarts(k, l, e)'
  BY <1>3 DEF Open, InForce, OnlyStarts
<1>5. Others(k, l, e)'
  BY <1>3 DEF Open, Others, Resting, Following
<1>6. ~Sent(k)'
  BY <1>2, <1>3 DEF Sent
<1>7. Leading(k, l, e)'
  BY <1>2, <1>3, <1>6 DEF Leading, Resting
<1>8. Counted(k, l, e)'
  BY <1>2, <1>3 DEF Counted, VotesOnce
<1> QED
  BY <1>2, <1>3, <1>4, <1>5, <1>7, <1>8 DEF Open

LEMMA SendStartPhase ==
    ASSUME TypeOK, NEW k \in Node, NEW l \in SUBSET Node, NEW e \in SUBSET Node,
           Open(k, l, e), NEW n \in Node, SendStart(n)
    PROVE  Open(k, l, e)'
<1>1. n = k /\ starter[k].pc = "send"
  BY DEF Open, Others, SendStart
<1>2. /\ ~Sent(k) /\ started[k] /\ starter[k].list = l /\ list[k] = l /\ Counted(k, l, e)
      /\ k \in e /\ validators[k] = e /\ Leading(k, l, e)
      /\ \A m \in Node \ {k} : ~started[m]
  BY <1>1 DEF Open, Leading, Active, Sent
<1>3. /\ results'[k] = results[k] \cup {k}
      /\ starter'[k].pc = "idle"
      /\ \A m \in Node \ {k} : results'[m] = results[m] /\ starter'[m] = starter[m]
      /\ UNCHANGED <<fileVars, tally, judge, opening, historyVars>>
  BY <1>1 DEF SendStart, AddOwnResult, StarterIdle, TypeOK
<1>4. \A r \in net' : r \in net \/ (r.type = "start" /\ r.from = k /\ r.list = l
                                     /\ r.to \in e \ {k})
  BY <1>1, <1>2, Starts DEF SendStart, TypeOK
<1> HIDE DEF SendStart
<1>5. InForce(e)'
  BY <1>3 DEF Open, InForce
<1>6. OnlyStarts(k, l, e)'
  BY <1>2, <1>3, <1>4 DEF Open, OnlyStarts
<1>7. Others(k, l, e)'
  BY <1>3 DEF Open, Others, Resting, Following
<1>8. Leading(k, l, e)'
  BY <1>2, <1>3 DEF Leading, Resting
<1>9. Counted(k, l, e)'
  <2>1. \A m \in Node \ {k} : VotesOnce(m, k, l)'
    BY <1>2, <1>3, <1>4 DEF Counted, VotesOnce
  <2> QED
    BY <1>2, <1>3, <2>1 DEF Counted
<1> QED
  BY <1>2, <1>3, <1>5, <1>6, <1>7, <1>8, <1>9 DEF Open

-----------------------------------------------------------------------------
(* The steps of the worker that judges lists *)

LEMMA JudgeListOpen ==
    ASSUME TypeOK, NEW k \in Node, NEW l \in SUBSET Node, NEW e \in SUBSET Node,
           Open(k, l, e), NEW n \in Node, NEW vote \in Vote, JudgeList(n, vote)
    PROVE  Open(k, l, e)'
<1>1. started[n] /\ n \notin results[n]
  BY DEF JudgeList
<1>2. vote = "yes" => list[n] = l
  <2>1. vote = "yes" => Cardinality(list[n]) = ProposedNumber
    BY DEF JudgeList
  <2>2. Cardinality({}) # ProposedNumber
    BY Numbers, FS_EmptySet
  <2>3. list[n] \in {{}, l}
    BY ZenonT(30), <1>1 DEF Open, Others, Resting, Following, Leading
  <2> QED
    BY <2>1, <2>2, <2>3
<1>3. /\ judge' = [judge EXCEPT ![n] = [pc |-> "vote", vote |-> vote]]
      /\ approved' = IF vote = "yes" THEN approved \cup {<<n, list[n]>>} ELSE approved
      /\ UNCHANGED <<fileVars, voteVars, net, starter, opening, untold>>
  BY DEF JudgeList
<1>4. /\ judge'[n] = [pc |-> "vote", vote |-> vote]
      /\ \A m \in Node \ {n} : judge'[m] = judge[m]
      /\ approved \subseteq approved'
      /\ vote = "yes" => <<n, l>> \in approved'
  BY <1>2, <1>3 DEF TypeOK
<1>9. misread' = misread
  BY DEF JudgeList
<1> HIDE DEF JudgeList
<1>5. InForce(e)' /\ OnlyStarts(k, l, e)' /\ Others(k, l, e)'
  BY <1>3 DEF Open, InForce, OnlyStarts, Others, Resting, Following
<1>6. Leading(k, l, e)'
  BY <1>3 DEF Open, Leading, Sent, Resting
<1>7. Active(k)' => Counted(k, l, e)'
  <2> SUFFICES ASSUME Active(k)' PROVE Counted(k, l, e)'
    OBVIOUS
  <2>1. Counted(k, l, e)
    BY <1>3 DEF Open, Active
  <2>2. ASSUME NEW m \in Node \ {k} PROVE VotesOnce(m, k, l)'
    BY <1>1, <1>3, <1>4, <2>1, <2>2 DEF Counted, VotesOnce
  <2> QED
    BY <1>3, <1>4, <1>9, <2>1, <2>2 DEF Counted
<1> QED
  BY <1>1, <1>3, <1>5, <1>6, <1>7 DEF Open

\* Once an agreement has ended, those that are still in it have voted.
LEMMA JudgeListClosing ==
    ASSUME NEW k \in Node, NEW l \in SUBSET Node, NEW e \in SUBSET Node,
           Closing(k, l, e), NEW n \in Node, NEW vote \in Vote, JudgeList(n, vote)
    PROVE  FALSE
  BY DEF Closing, Resting, Torn, JudgeList

\* A vote goes to each node once.
LEMMA SendVoteEffect ==
    ASSUME TypeOK, NEW n \in Node, SendVote(n)
    PROVE  /\ judge[n].pc = "vote" /\ judge'[n].pc = "idle"
           /\ results'[n] = results[n] \cup {n}
           /\ \A m \in Node \ {n} : judge'[m] = judge[m] /\ results'[m] = results[m]
           /\ \A r \in net' : r \in net \/
                 (r.type = "vote" /\ r.from = n /\ r.vote = judge[n].vote)
           /\ \A r, s \in net' : r \notin net /\ s \notin net /\ r.to = s.to => r = s
           /\ net \subseteq net'
           /\ UNCHANGED <<fileVars, tally, starter, opening, historyVars>>
<1>1. judge[n].vote \in Vote /\ validators[n] \in SUBSET Node
  BY DEF TypeOK, Judge
<1>2. \A r \in net' : r \in net \/
         r = [type |-> "vote", from |-> n, to |-> r.to, vote |-> judge[n].vote]
  BY <1>1, Votes DEF SendVote
<1>3. \A r \in net' : r \in net \/ (r.type = "vote" /\ r.from = n /\ r.vote = judge[n].vote)
  BY <1>2
<1>4. \A r, s \in net' : r \notin net /\ s \notin net /\ r.to = s.to => r = s
  BY <1>2
<1> QED
  BY <1>3, <1>4 DEF SendVote, AddOwnResult, JudgeIdle, TypeOK

LEMMA SendVoteOpen ==
    ASSUME TypeOK, NEW k \in Node, NEW l \in SUBSET Node, NEW e \in SUBSET Node,
           Open(k, l, e), NEW n \in Node, SendVote(n)
    PROVE  Open(k, l, e)'
<1>1. /\ judge[n].pc = "vote" /\ judge'[n].pc = "idle"
      /\ results'[n] = results[n] \cup {n}
      /\ \A m \in Node \ {n} : judge'[m] = judge[m] /\ results'[m] = results[m]
      /\ \A r \in net' : r \in net \/ (r.type = "vote" /\ r.from = n /\ r.vote = judge[n].vote)
      /\ net \subseteq net'
      /\ UNCHANGED <<fileVars, tally, starter, opening, historyVars>>
  BY SendVoteEffect
<1>2. \A r, s \in net' : r \notin net /\ s \notin net /\ r.to = s.to => r = s
  BY SendVoteEffect
<1>3. \A r \in net' : r.type # "vote" => r \in net
  BY <1>1
<1>4. InForce(e)' /\ OnlyStarts(k, l, e)'
  BY <1>1, <1>3 DEF Open, InForce, OnlyStarts
<1>5. Others(k, l, e)'
  BY <1>1 DEF Open, Others, Resting, Following
<1>6. Active(k)' => Counted(k, l, e)'
  <2> SUFFICES ASSUME Active(k)' PROVE Counted(k, l, e)'
    OBVIOUS
  <2>1. Counted(k, l, e) /\ k \in e
    BY <1>1 DEF Open, Active, Leading, InForce
  <2>2. results'[k] \subseteq e /\ (results'[k] = results[k] \/ n = k)
    BY <1>1, <2>1 DEF Counted
  <2>3. ASSUME NEW m \in Node \ {k}, m # n PROVE VotesOnce(m, k, l)'
    BY <1>1, <2>1, <2>2, <2>3 DEF Counted, VotesOnce
  <2>4. ASSUME n # k PROVE VotesOnce(n, k, l)'
    <3>1. /\ started[n] /\ n \notin results[n] /\ n \notin results[k]
          /\ judge[n].vote = "yes" => <<n, l>> \in approved
          /\ \A r \in net : ~(r.type = "vote" /\ r.from = n /\ r.to = k)
      BY <1>1, <2>1, <2>4 DEF Counted, VotesOnce
    <3>2. \A r, s \in net' :
             /\ r.type = "vote" /\ r.from = n /\ r.to = k
             /\ s.type = "vote" /\ s.from = n /\ s.to = k
             => s = r
      BY <1>2, <3>1
    <3>3. \A r \in net' : r.type = "vote" /\ r.from = n /\ r.to = k =>
             r.vote = judge[n].vote
      BY <1>1, <3>1
    <3>4. results'[k] = results[k] /\ n \in results'[n]
      BY <1>1, <2>4
    <3> QED
      BY <1>1, <3>1, <3>2, <3>3, <3>4 DEF VotesOnce
  <2> QED
    BY <1>1, <2>1, <2>2, <2>3, <2>4 DEF Counted
<1>7. Leading(k, l, e)'
  <2>1. Sent(k)' <=> Sent(k)
    BY <1>1, <1>3 DEF Sent
  <2>2. Sent(k) /\ results[k] = e => results'[k] = e
    BY ZenonT(40), <1>1 DEF Open, Leading
  <2> QED
    BY <1>1, <2>1, <2>2 DEF Open, Leading, Resting
<1>8. (\A m \in Node : ~started'[m]) => NoLateVotes'
  BY <1>1 DEF Open, NoLateVotes, Clean
<1> QED
  BY <1>4, <1>5, <1>6, <1>7, <1>8 DEF Open

LEMMA SendVoteClosing ==
    ASSUME TypeOK, NEW k \in Node, NEW l \in SUBSET Node, NEW e \in SUBSET Node,
           Closing(k, l, e), NEW n \in Node, SendVote(n)
    PROVE  Closing(k, l, e)'
<1>1. /\ judge[n].pc = "vote"
      /\ \A m \in Node : results[m] \subseteq results'[m]
      /\ \A r \in net' : r.type # "vote" => r \in net
      /\ net \subseteq net'
      /\ UNCHANGED <<fileVars, starter, opening, historyVars>>
  BY SendVoteEffect
<1>2. NoLateVotes'
  BY <1>1 DEF Closing, NoLateVotes, Clean
<1> QED
  BY <1>1, <1>2 DEF Closing, Resting, Following, Torn

-----------------------------------------------------------------------------
(* The steps of the server while the agreement is open *)

\* What the server has after it added a result: what it had, unless it misread it.
LEMMA WriteResultEffect ==
    ASSUME TypeOK, NEW n \in Node, NEW m \in Node, NEW vote \in Vote, WriteResult(n, m, vote)
    PROVE  /\ results'[n] = results[n] \cup {m}
           /\ tally'[n] = [Results(n) EXCEPT ![m] = vote]
           /\ \A u \in Node \ {n} : results'[u] = results[u] /\ tally'[u] = tally[u]
           /\ misread' = {} => misread = {}
  BY DEF WriteResult, TypeOK

LEMMA AddResultEffect ==
    ASSUME TypeOK, NEW n \in Node, NEW m \in Node, NEW vote \in Vote, AddResult(n, m, vote)
    PROVE  /\ results'[n] = results[n] \cup {m}
           /\ tally'[n] = [Results(n) EXCEPT ![m] = vote]
           /\ \A u \in Node \ {n} : results'[u] = results[u] /\ tally'[u] = tally[u]
           /\ misread' = {} => misread = {}
  BY WriteResultEffect DEF AddResult

LEMMA ReadRight ==
    ASSUME TypeOK, MemoryInv, NEW n \in Node, NEW m \in Node, NEW vote \in Vote,
           WriteResult(n, m, vote), misread' = {}
    PROVE  /\ \A u \in Node \ {n} : Results(n)[u] = tally[n][u]
           /\ \A u \in Node \ {n, m} : tally'[n][u] = tally[n][u]
           /\ tally'[n][m] = vote
<1>1. tally'[n] = [Results(n) EXCEPT ![m] = vote]
  BY WriteResultEffect
<1>2. \A u \in Node : ~(tally[n][u] = "no" /\ Results(n)[u] = "yes")
  BY DEF WriteResult
<1>3. ASSUME NEW u \in Node \ {n} PROVE Results(n)[u] = tally[n][u]
  <2>1. tally[n][u] \in {"yes", "no", "none"}
    BY DEF TypeOK, Vote
  <2>2. tally[n][u] # "none" <=> u \in results[n]
    BY DEF MemoryInv, TallyAt
  <2> QED
    BY <1>2, <2>1, <2>2 DEF Results
<1> QED
  BY <1>1, <1>3, ResultsType

LEMMA OpenAgreementOpen ==
    ASSUME TypeOK, MemoryInv, NEW k \in Node, NEW l \in SUBSET Node, NEW e \in SUBSET Node,
           Open(k, l, e), NEW n \in Node, OpenAgreement(n)
    PROVE  Open(k, l, e)'
<1>1. /\ n # k /\ started[n] /\ Following(n, k, l, e)
      /\ opening[n].pc = "list" /\ opening[n].from = k /\ opening[n].list = l
  BY DEF Open, Others, Leading, Resting, Following, OpenAgreement
<1>2. /\ results'[n] = results[n] \cup {k}
      /\ \A u \in Node \ {n} : results'[u] = results[u] /\ tally'[u] = tally[u]
      /\ misread' = {} => misread = {}
  BY <1>1, AddResultEffect DEF OpenAgreement, Vote
<1>3. /\ list'[n] = l /\ opening'[n].pc = "idle"
      /\ \A m \in Node \ {n} : list'[m] = list[m] /\ opening'[m] = opening[m]
      /\ UNCHANGED <<validators, started, leader, heir, recent, net, starter, judge, approved,
                     untold>>
  BY <1>1 DEF OpenAgreement, OpeningIdle, TypeOK
<1> HIDE DEF OpenAgreement
<1>4. InForce(e)' /\ OnlyStarts(k, l, e)'
  BY <1>3 DEF Open, InForce, OnlyStarts
<1>5. Others(k, l, e)'
  BY <1>1, <1>2, <1>3 DEF Open, Others, Resting, Following
<1>6. Leading(k, l, e)'
  BY <1>1, <1>2, <1>3 DEF Open, Leading, Sent, Resting
<1>7. Active(k)' => Counted(k, l, e)'
  <2> SUFFICES ASSUME Active(k)' PROVE Counted(k, l, e)'
    OBVIOUS
  <2>1. Counted(k, l, e)
    BY <1>3 DEF Open, Active
  <2>2. \A m \in Node \ {k} : VotesOnce(m, k, l)'
    BY <1>1, <1>2, <1>3, <2>1 DEF Counted, VotesOnce
  <2> QED
    BY <1>1, <1>2, <1>3, <2>1, <2>2 DEF Counted
<1> QED
  BY <1>1, <1>3, <1>4, <1>5, <1>6, <1>7 DEF Open

LEMMA ReceiveStartOpen ==
    ASSUME TypeOK, NEW k \in Node, NEW l \in SUBSET Node, NEW e \in SUBSET Node,
           Open(k, l, e), NEW n \in Node, NEW r \in net, ReceiveStart(n, r)
    PROVE  Open(k, l, e)'
<1>1. /\ r.type = "start" /\ r.to = n /\ r.from = k /\ r.list = l
      /\ opening[n].pc = "idle" /\ Sent(k) /\ started[k]
  BY DEF ReceiveStart, Reaches, Open, OnlyStarts, Leading, Sent
<1>2. /\ net' = net \ {r}
      /\ UNCHANGED <<validators, recent, list, voteVars, starter, judge, historyVars>>
  BY DEF ReceiveStart
<1>3. CASE ~MayOpen(n, r)
  BY <1>2, <1>3, OpenShrinks DEF ReceiveStart, Halted, Idled, ListsKept
<1>4. CASE MayOpen(n, r)
  <2>1. /\ n # k /\ ~started[n] /\ Cardinality(l) = ValidatorsNumber
        /\ n \in e /\ validators[n] = e /\ (list[n] = {} \/ n \in results[n])
    BY <1>1, <1>4 DEF MayOpen, Open, InForce, Others, Resting, Following
  <2>2. /\ started'[n] = TRUE /\ leader'[n] = k /\ heir'[n] = NoNode
        /\ opening'[n] = [pc |-> "list", from |-> k, list |-> l]
        /\ \A m \in Node \ {n} : /\ started'[m] = started[m] /\ leader'[m] = leader[m]
                                 /\ heir'[m] = heir[m] /\ opening'[m] = opening[m]
    BY <1>1, <1>4 DEF ReceiveStart, SetInfo, TypeOK
  <2> HIDE DEF ReceiveStart
  <2>3. InForce(e)'
    BY <1>2 DEF Open, InForce
  <2>4. \A s \in net' : ~(s.type = "start" /\ s.to = n)
    <3>1. ASSUME NEW s \in net, s.type = "start", s.to = n PROVE s = r
      <4>1. s \in Request /\ r \in Request /\ s.from = k /\ s.list = l
        BY <3>1 DEF TypeOK, Open, OnlyStarts
      <4> QED
        BY <1>1, <3>1, <4>1 DEF Request
    <3> QED
      BY <1>2, <3>1
  <2>5. OnlyStarts(k, l, e)'
    BY <1>2, <2>2, <2>4 DEF TypeOK, Open, OnlyStarts, Request
  <2>6. Others(k, l, e)'
    BY <1>2, <2>1, <2>2 DEF Open, Others, Resting, Following
  <2>7. Leading(k, l, e)'
    BY <1>1, <1>2, <2>1, <2>2 DEF Open, Leading, Resting
  <2>8. Active(k)' => Counted(k, l, e)'
    <3>1. Counted(k, l, e)
      BY <1>1 DEF Open, Active
    <3>2. \A m \in Node \ {k} : VotesOnce(m, k, l)'
      BY <1>2, <2>1, <2>2, <3>1 DEF Counted, VotesOnce
    <3> QED
      BY <1>2, <3>1, <3>2 DEF Counted
  <2> QED
    BY <2>2, <2>3, <2>5, <2>6, <2>7, <2>8 DEF Open
<1> QED
  BY <1>3, <1>4

-----------------------------------------------------------------------------
(* A vote while the agreement is open *)

\* Two sets of nodes, one in the other, that are as large are the same.
LEMMA SameNodes ==
    ASSUME NEW T \in SUBSET Node, NEW S \in SUBSET T, Cardinality(S) = Cardinality(T)
    PROVE  S = T
  BY NodesFinite, FS_Subset

\* A vote that reaches n is counted with those in its file.
LEMMA CountingRows ==
    ASSUME TypeOK, MemoryInv, NEW n \in Node, NEW r \in net, r.type = "vote"
    PROVE  {m \in Node : Counting(n, r)[m] # "none"} = results[n] \cup {r.from}
<1>1. \A m \in Node : Results(n)[m] # "none" <=> m \in results[n]
  BY ResultsRows DEF MemoryInv
<1>2. \A m \in Node : Counting(n, r)[m] = IF m = r.from THEN r.vote ELSE Results(n)[m]
  BY ResultsType DEF Counting
<1>3. r.from \in Node /\ r.vote # "none" /\ results[n] \subseteq Node
  BY RequestFields DEF Vote, TypeOK
<1> QED
  BY <1>1, <1>2, <1>3

\* Only k ends the agreement, when it has the votes of all the validators, who
\* therefore have all started it.
LEMMA EndingOpen ==
    ASSUME TypeOK, MemoryInv, NEW k \in Node, NEW l \in SUBSET Node, NEW e \in SUBSET Node,
           Open(k, l, e), NEW n \in Node, NEW r \in net,
           r.type = "vote", r.to = n, r.from \in validators[n], Ending(n, r)
    PROVE  /\ n = k /\ started[k] /\ k \in e /\ validators[k] = e /\ Counted(k, l, e)
           /\ results[k] \cup {r.from} = e /\ r.from # k
           /\ \A m \in e \ {k} : started[m] /\ m \in results[m]
           /\ Sent(k) /\ starter[k].pc = "idle" /\ list[k] = l
           /\ Cardinality(l) = ValidatorsNumber
<1>1. Leader(n) = n
  BY DEF Ending
<1>2. n = k
  <2>1. ASSUME n # k PROVE FALSE
    BY <1>1, <2>1, NodeAssumption
       DEF Leader, Open, Others, Resting, Following
  <2> QED
    BY <2>1
<1>3. started[k]
  BY <1>1, <1>2, NodeAssumption DEF Leader, Open, Leading, Resting
<1>4. k \in e /\ validators[k] = e /\ Leading(k, l, e) /\ Counted(k, l, e)
  BY <1>3 DEF Open, Leading, Active
<1>5. r.from # k /\ r.from \in e
  BY <1>2, <1>4 DEF MemoryInv
<1>6. results[k] \cup {r.from} = e
  <2>2. {m \in Node : Counting(k, r)[m] # "none"} = results[k] \cup {r.from}
    BY CountingRows
  <2>3. Cardinality(results[k] \cup {r.from}) = Cardinality(e)
    BY <1>2, <1>4, <2>2 DEF Ending, HasEnded
  <2>4. results[k] \cup {r.from} \in SUBSET e
    BY <1>4, <1>5 DEF Counted
  <2> QED
    BY <2>3, <2>4, SameNodes
<1>7. started[r.from] /\ r.from \in results[r.from] /\ r.from \notin results[k]
  BY <1>2, <1>4, <1>5 DEF Counted, VotesOnce
<1>8. \A m \in e \ {k} : started[m] /\ m \in results[m]
  BY <1>4, <1>6, <1>7 DEF Counted, VotesOnce
<1>9. Sent(k)
  BY <1>5, <1>7 DEF Sent
<1>10. starter[k].pc = "idle" /\ list[k] = l
  BY <1>4, <1>5, <1>7, <1>9 DEF Leading
<1>11. Cardinality(l) = ValidatorsNumber
  BY <1>5, <1>7 DEF Open, Others
<1> QED
  BY <1>2, <1>3, <1>4, <1>5, <1>6, <1>8, <1>9, <1>10, <1>11

\* A vote that is added leaves the agreement open, and so does the last one when the
\* agreement fails.
LEMMA VoteAddedOpen ==
    ASSUME TypeOK, MemoryInv, NEW k \in Node, NEW l \in SUBSET Node, NEW e \in SUBSET Node,
           Open(k, l, e), NEW n \in Node, NEW r \in net,
           r.type = "vote", r.to = n, r.from \in validators[n],
           WriteResult(n, r.from, r.vote),
           net' \subseteq net \ {r}, untold \subseteq untold', Halted,
           UNCHANGED <<validators, started, leader, approved>>,
           \/ /\ UNCHANGED list
              /\ \A m \in Node : heir'[m] \in {heir[m], NoNode}
           \/ /\ n = k /\ started[k] /\ list'[k] = {} /\ results[k] \cup {r.from} = e
              /\ \A m \in Node \ {k} : list'[m] = list[m] /\ heir'[m] \in {heir[m], NoNode}
    PROVE  Open(k, l, e)'
<1>0. r.from \in Node /\ r.vote \in Vote /\ r.from # n
  BY RequestFields DEF TypeOK, MemoryInv
<1>1. /\ results'[n] = results[n] \cup {r.from}
      /\ \A u \in Node \ {n} : results'[u] = results[u] /\ tally'[u] = tally[u]
      /\ misread' = {} =>
            /\ misread = {}
            /\ \A u \in Node \ {n, r.from} : tally'[n][u] = tally[n][u]
            /\ tally'[n][r.from] = r.vote
  <2>1. /\ results'[n] = results[n] \cup {r.from}
        /\ \A u \in Node \ {n} : results'[u] = results[u] /\ tally'[u] = tally[u]
    BY <1>0, WriteResultEffect
  <2>2. misread' = {} => misread = {}
    BY <1>0, WriteResultEffect
  <2>3. ASSUME misread' = {}
        PROVE  /\ \A u \in Node \ {n, r.from} : tally'[n][u] = tally[n][u]
               /\ tally'[n][r.from] = r.vote
    BY <1>0, <2>3, ReadRight
  <2> QED
    BY <2>1, <2>2, <2>3
<1>2. InForce(e)' /\ OnlyStarts(k, l, e)'
  BY DEF Open, InForce, OnlyStarts
<1>3. Others(k, l, e)'
  <2>1. \A m \in Node \ {k} : /\ list'[m] = list[m] /\ heir'[m] \in {heir[m], NoNode}
                            /\ results[m] \subseteq results'[m]
    BY <1>1
  <2> QED
    BY <2>1 DEF Open, Others, Resting, Following, Halted
<1>4. Active(k)' => Counted(k, l, e)'
  <2> SUFFICES ASSUME Active(k) PROVE Counted(k, l, e)'
    BY DEF Active, Halted
  <2>1. Counted(k, l, e)
    BY DEF Open
  <2>2. CASE n # k
    <3>1. \A m \in Node \ {k} : VotesOnce(m, k, l)'
      BY <1>0, <1>1, <2>1, <2>2 DEF Counted, VotesOnce, Halted
    <3> QED
      BY <1>1, <2>1, <2>2, <3>1 DEF Counted
  <2>3. CASE n = k
    <3>1. VotesOnce(r.from, k, l)
      BY <1>0, <2>1, <2>3 DEF Counted
    <3>2. VotesOnce(r.from, k, l)'
      BY <1>0, <1>1, <2>3, <3>1 DEF VotesOnce, Halted
    <3>3. ASSUME NEW m \in Node \ {k, r.from} PROVE VotesOnce(m, k, l)'
      <4>1. VotesOnce(m, k, l)
        BY <2>1 DEF Counted
      <4> QED
        BY <1>0, <1>1, <2>3, <4>1 DEF VotesOnce, Halted
    <3>4. results'[k] \subseteq e
      <4>1. validators[k] = e
        BY <2>3 DEF Open, Leading, Active, InForce
      <4> QED
        BY <1>1, <2>1, <2>3, <4>1 DEF Counted
    <3>5. misread' = {} => \A m \in Node : tally'[k][m] = "yes" => <<m, l>> \in approved
      BY <1>0, <1>1, <2>1, <2>3, <3>1 DEF Counted, VotesOnce
    <3> QED
      BY <2>1, <3>2, <3>3, <3>4, <3>5 DEF Counted
  <2> QED
    BY <2>2, <2>3
<1>5. Leading(k, l, e)'
  <2>1. Sent(k)' => Sent(k)
    BY DEF Sent
  <2>3. Sent(k) /\ results[k] = e => results'[k] = e
    <3>1. Sent(k) => started[k] /\ validators[k] = e
      BY DEF Open, Leading
    <3>2. CASE n = k
      BY <1>1, <3>1, <3>2
    <3>3. CASE n # k
      BY <1>1, <3>3
    <3> QED
      BY <3>2, <3>3
  <2>4. CASE UNCHANGED list /\ \A m \in Node : heir'[m] \in {heir[m], NoNode}
    BY <1>1, <2>1, <2>3, <2>4 DEF Open, Leading, Resting, Halted
  <2>5. CASE /\ n = k /\ started[k] /\ list'[k] = {} /\ results[k] \cup {r.from} = e
    <3>1. results'[k] = e /\ r.from # k /\ r.from \in results'[k]
      BY <1>0, <1>1, <2>5
    <3>2. started[r.from]
      BY <1>0, <2>5 DEF Open, Active, Counted, VotesOnce
    <3>3. Sent(k)
      BY <1>0, <3>1, <3>2 DEF Sent
    <3> QED
      BY <2>1, <2>5, <3>1, <3>3 DEF Open, Leading, Halted
  <2>6. \/ UNCHANGED list /\ \A m \in Node : heir'[m] \in {heir[m], NoNode}
        \/ n = k /\ started[k] /\ list'[k] = {} /\ results[k] \cup {r.from} = e
    OBVIOUS
  <2> QED
    BY ONLY <2>4, <2>5, <2>6
<1>6. (\A m \in Node : ~started'[m]) => NoLateVotes'
  BY DEF Open, NoLateVotes, Clean, Halted
<1> QED
  BY <1>2, <1>3, <1>4, <1>5, <1>6 DEF Open

LEMMA VoteInstallsClosing ==
    ASSUME TypeOK, MemoryInv, NEW k \in Node, NEW l \in SUBSET Node, NEW e \in SUBSET Node,
           Open(k, l, e), NEW n \in Node, NEW r \in net,
           r.type = "vote", r.to = n, opening[n].pc = "idle", VoteInstalls(n, r)
    PROVE  Closing(k, l, e)'
<1>1. /\ n = k /\ started[k] /\ k \in e /\ validators[k] = e
      /\ results[k] \cup {r.from} = e /\ r.from # k /\ r.from \in e
      /\ \A m \in e \ {k} : started[m] /\ m \in results[m]
      /\ starter[k].pc = "idle" /\ list[k] = l
      /\ Cardinality(l) = ValidatorsNumber
  <2>1. r.from \in validators[n] /\ Ending(n, r)
    BY DEF VoteInstalls
  <2> QED
    BY <2>1, EndingOpen, SMTT(30)
<1>2. \A m \in Node \ {n} : results'[m] = results[m]
  BY <1>1, AddResultEffect, RequestFields DEF VoteInstalls, TypeOK
<1>3. /\ validators'[k] = l /\ ~started'[k] /\ leader'[k] = NoNode /\ heir'[k] = NoNode
      /\ list'[k] = {} /\ recent'[k] /\ opening'[k].pc = "idle"
      /\ \A m \in Node \ {k} :
            /\ validators'[m] = validators[m] /\ started'[m] = started[m]
            /\ leader'[m] = leader[m] /\ heir'[m] = heir[m] /\ list'[m] = list[m]
            /\ recent'[m] = recent[m]
      /\ UNCHANGED procVars
  BY <1>1 DEF VoteInstalls, SetInfo, TypeOK
<1>4. /\ \A s \in net' : s \in net \/ (s.type = "news" /\ s.from = k /\ s.list = l)
      /\ \A m \in Node \ {k} : \E s \in net' : s.type = "news" /\ s.to = m
  <2> DEFINE news(m) == [type |-> "news", from |-> k, to |-> m, list |-> l]
  <2>1. Send(n, Node, [type |-> "news", from |-> n, to |-> n, list |-> list[n]])
          = {news(m) : m \in Node \ {k}}
    <3>1. \A m \in Node : [[type |-> "news", from |-> k, to |-> k, list |-> l] EXCEPT !.to = m]
                            = news(m)
      OBVIOUS
    <3> QED
      BY <1>1, <3>1 DEF Send
  <2>2. net' = (net \ {r}) \cup {news(m) : m \in Node \ {k}}
    BY <1>1, <2>1 DEF VoteInstalls
  <2>3. \A m \in Node : /\ news(m).type = "news" /\ news(m).from = k
                         /\ news(m).to = m /\ news(m).list = l
    OBVIOUS
  <2> HIDE DEF news
  <2> QED
    BY <2>2, <2>3
<1> HIDE DEF VoteInstalls
<1>5. ASSUME NEW m \in Node \ {k}
      PROVE  /\ starter[m].pc = "idle"
             /\ \/ Resting(m) /\ m \notin validators[m] /\ Resting(m)'
                \/ Following(m, k, l, e) /\ Following(m, k, l, e)' /\ m \in results'[m]
  <2>1. starter[m].pc = "idle" /\ (Resting(m) \/ Following(m, k, l, e))
    BY DEF Open, Others
  <2>2. CASE Resting(m)
    <3>1. m \notin validators[m]
      BY <1>1, <2>2 DEF Open, InForce, Resting
    <3> QED
      <4>1. /\ started'[m] = started[m] /\ leader'[m] = leader[m] /\ heir'[m] = heir[m]
            /\ list'[m] = list[m] /\ opening' = opening /\ results'[m] = results[m]
        BY <1>1, <1>2, <1>3
      <4>2. Resting(m)'
        BY <2>2, <4>1 DEF Resting
      <4> QED
        BY <2>1, <2>2, <3>1, <4>2
  <2>3. CASE Following(m, k, l, e)
    BY <1>1, <1>2, <1>3, <2>1, <2>3 DEF Following
  <2> QED
    BY <2>1, <2>2, <2>3
<1>6. \A s \in net' : s.type # "start"
  <2>1. ASSUME NEW s \in net, s.type = "start" PROVE FALSE
    <3>1. s.to \in e /\ s.to # k /\ ~started[s.to] /\ s.from = k
      BY <2>1, RequestFields DEF Open, OnlyStarts, MemoryInv, TypeOK
    <3> QED
      BY <1>1, <3>1
  <2> QED
    BY <1>4, <2>1
<1>7. \A s \in net' : s.type = "news" => s.from = k /\ s.list = l
  BY <1>4 DEF Open, OnlyStarts
<1>8. NoLateVotes'
  BY <1>1, <1>3, <1>5 DEF NoLateVotes, Following, Resting
<1>9. \A m \in Node \ untold' :
          \/ validators'[m] = l
          \/ validators'[m] = e /\ \E s \in net' : s.type = "news" /\ s.to = m
  <2>1. untold' = untold
    BY DEF VoteInstalls
  <2> QED
    BY <1>3, <1>4, <2>1 DEF Open, InForce
<1>10. Cardinality(e) = ValidatorsNumber
  BY DEF Open, InForce
<1> QED
  BY <1>1, <1>3, <1>5, <1>6, <1>7, <1>8, <1>9, <1>10 DEF Closing, Resting

LEMMA ReceiveVoteOpen ==
    ASSUME TypeOK, MemoryInv, NEW k \in Node, NEW l \in SUBSET Node, NEW e \in SUBSET Node,
           Open(k, l, e), NEW n \in Node, NEW r \in net, ReceiveVote(n, r)
    PROVE  Open(k, l, e)' \/ Closing(k, l, e)'
<1>1. r.type = "vote" /\ r.to = n /\ opening[n].pc = "idle"
  BY VoteOutcomes
<1>2. CASE VoteRefused(n, r)
  BY <1>2, OpenShrinks DEF VoteRefused, Halted, Idled, ListsKept
<1>3. CASE VoteAdded(n, r)
  BY <1>1, <1>3, VoteAddedOpen DEF VoteAdded, AddResult, Halted
<1>4. CASE VoteFails(n, r)
  <2>1. n = k /\ started[k] /\ results[k] \cup {r.from} = e
    <3>1. r.from \in validators[n] /\ Ending(n, r)
      BY <1>4 DEF VoteFails
    <3> QED
      BY <1>1, <3>1, EndingOpen
  <2>2. /\ list'[k] = {}
        /\ \A m \in Node \ {k} : list'[m] = list[m] /\ heir'[m] = heir[m]
    BY <1>4, <2>1 DEF VoteFails, TypeOK
  <2> QED
    BY <1>1, <1>4, <2>1, <2>2, VoteAddedOpen DEF VoteFails, AddResult, Halted
<1>5. CASE VoteInstalls(n, r)
  BY <1>1, <1>5, VoteInstallsClosing
<1> QED
  BY <1>2, <1>3, <1>4, <1>5, VoteOutcomes

-----------------------------------------------------------------------------
(* The steps of the server when the agreement has ended *)

\* The handler of a start, and that of a vote that is refused or only added.
LEMMA OpenAgreementShrinks ==
    ASSUME TypeOK, NEW n \in Node, OpenAgreement(n)
    PROVE  /\ Idled /\ ListsKept /\ \A m \in Node : results[m] \subseteq results'[m]
           /\ UNCHANGED <<validators, started, leader, net, untold, crashed>>
<1>1. opening[n].from \in Node /\ opening[n].pc = "list"
  BY DEF OpenAgreement, TypeOK, Opening
<1>2. \A m \in Node : results[m] \subseteq results'[m]
  BY <1>1, AddResultEffect DEF OpenAgreement, Vote
<1>3. Idled /\ ListsKept
  BY <1>1 DEF OpenAgreement, OpeningIdle, TypeOK, Halted, Idled, ListsKept
<1> QED
  BY <1>2, <1>3 DEF OpenAgreement

LEMMA VoteShrinks ==
    ASSUME TypeOK, NEW n \in Node, NEW r \in net, ReceiveVote(n, r), ~Ending(n, r)
    PROVE  /\ Idled /\ ListsKept /\ \A m \in Node : results[m] \subseteq results'[m]
           /\ net' = net \ {r} /\ r.type = "vote"
           /\ UNCHANGED <<validators, started, leader, untold, crashed>>
<1>1. r.type = "vote" /\ (VoteRefused(n, r) \/ VoteAdded(n, r))
  BY VoteOutcomes DEF VoteFails, VoteInstalls
<1>2. CASE VoteRefused(n, r)
  BY <1>1, <1>2 DEF VoteRefused, Halted, Idled, ListsKept
<1>3. CASE VoteAdded(n, r)
  <2>1. \A m \in Node : results[m] \subseteq results'[m]
    <3>1. r.from \in Node /\ r.vote \in Vote
      BY <1>1, RequestFields DEF TypeOK
    <3> QED
      BY <1>3, <3>1, AddResultEffect DEF VoteAdded
  <2> QED
    BY <1>1, <1>3, <2>1 DEF VoteAdded, Halted, Idled, ListsKept
<1> QED
  BY <1>1, <1>2, <1>3

LEMMA OpenAgreementClosing ==
    ASSUME TypeOK, NEW k \in Node, NEW l \in SUBSET Node, NEW e \in SUBSET Node,
           Closing(k, l, e), NEW n \in Node, OpenAgreement(n)
    PROVE  Closing(k, l, e)'
  BY OpenAgreementShrinks, ClosingShrinks

LEMMA NoEndingClosing ==
    ASSUME NEW k \in Node, NEW l \in SUBSET Node, NEW e \in SUBSET Node,
           Closing(k, l, e), NEW n \in Node, NEW r \in net
    PROVE  ~Ending(n, r)
  BY NodeAssumption DEF Ending, Leader, Closing, Resting, Following, Torn

LEMMA NoEndingBroken ==
    ASSUME NEW k \in Node, Broken(k), NEW n \in Node, NEW r \in net, r.to = n
    PROVE  ~Ending(n, r)
  BY DEF Ending, Leader, Broken

LEMMA ReceiveVoteClosing ==
    ASSUME TypeOK, NEW k \in Node, NEW l \in SUBSET Node, NEW e \in SUBSET Node,
           Closing(k, l, e), NEW n \in Node, NEW r \in net, ReceiveVote(n, r)
    PROVE  Closing(k, l, e)'
  BY NoEndingClosing, VoteShrinks, ClosingShrinks

LEMMA ReceiveNewsClosing ==
    ASSUME TypeOK, NEW k \in Node, NEW l \in SUBSET Node, NEW e \in SUBSET Node,
           Closing(k, l, e), NEW n \in Node, NEW r \in net, ReceiveNews(n, r)
    PROVE  Closing(k, l, e)'
<1>1. /\ r.type = "news" /\ r.to = n /\ r.from = k /\ r.list = l /\ opening[n].pc = "idle"
      /\ net' = net \ {r} /\ UNCHANGED <<procVars, untold, crashed>>
  BY DEF ReceiveNews, Reaches, Closing
<1>2. CASE k \in validators[n]
  <2>1. /\ validators'[n] = l /\ ~started'[n] /\ leader'[n] = NoNode /\ heir'[n] = NoNode
        /\ list'[n] = {} /\ recent'[n]
        /\ \A m \in Node \ {n} :
              /\ validators'[m] = validators[m] /\ started'[m] = started[m]
              /\ leader'[m] = leader[m] /\ heir'[m] = heir[m] /\ list'[m] = list[m]
              /\ recent'[m] = recent[m] /\ results'[m] = results[m]
    BY <1>1, <1>2 DEF ReceiveNews, SetInfo, TypeOK
  <2> HIDE DEF ReceiveNews
  <2>2. NoLateVotes'
    BY <1>1, <2>1 DEF Closing, NoLateVotes, Clean
  <2>3. \A m \in Node : \/ Resting(m)' /\ (m \in validators'[m] => validators'[m] = l)
                        \/ m # k /\ Following(m, k, l, e)' /\ m \in results'[m]
                        \/ m # k /\ Torn(m, k, l)'
    BY <1>1, <2>1 DEF Closing, Resting, Following, Torn
  <2>4. \A m \in Node \ untold' :
          \/ validators'[m] = l
          \/ validators'[m] = e /\ \E s \in net' : s.type = "news" /\ s.to = m
    BY <1>1, <2>1 DEF Closing
  <2> QED
    BY <1>1, <2>2, <2>3, <2>4 DEF Closing
<1>3. CASE k \notin validators[n]
  <2>1. UNCHANGED <<fileVars, voteVars>>
    BY <1>1, <1>3 DEF ReceiveNews
  <2>2. NoLateVotes'
    BY <1>1, <2>1 DEF Closing, NoLateVotes, Clean
  <2>3. \A m \in Node : \/ Resting(m)' /\ (m \in validators'[m] => validators'[m] = l)
                        \/ m # k /\ Following(m, k, l, e)' /\ m \in results'[m]
                        \/ m # k /\ Torn(m, k, l)'
    BY <1>1, <2>1 DEF Closing, Resting, Following, Torn
  <2>4. \A m \in Node \ untold' :
          \/ validators'[m] = l
          \/ validators'[m] = e /\ \E s \in net' : s.type = "news" /\ s.to = m
    BY <1>1, <1>3, <2>1 DEF Closing
  <2> QED
    BY <1>1, <2>1, <2>2, <2>3, <2>4 DEF Closing
<1> QED
  BY <1>2, <1>3

-----------------------------------------------------------------------------
(* Time and crashes *)

LEMMA TimePassesPhase ==
    ASSUME TypeOK, NEW k \in Node, NEW l \in SUBSET Node, NEW e \in SUBSET Node,
           NEW n \in Node, TimePasses(n)
    PROVE  /\ Open(k, l, e) => Open(k, l, e)'
           /\ Closing(k, l, e) => Closing(k, l, e)'
           /\ Broken(k) => Broken(k)'
<1>1. UNCHANGED <<validators, started, leader, heir, list, voteVars, net, procVars, historyVars>>
  BY DEF TimePasses
<1>2. NoLateVotes'
  BY DEF TimePasses, Quiet, NoLateVotes, Clean
<1>3. ASSUME Open(k, l, e) PROVE Open(k, l, e)'
  <2>1. InForce(e)' /\ Others(k, l, e)' /\ OnlyStarts(k, l, e)'
    BY <1>1, <1>3 DEF Open, InForce, Others, OnlyStarts, Resting, Following
  <2>2. Leading(k, l, e)'
    BY <1>1, <1>3 DEF Open, Leading, Sent, Resting
  <2>3. Active(k)' => Counted(k, l, e)'
    BY <1>1, <1>3 DEF Open, Active, Counted, VotesOnce
  <2> QED
    BY <1>2, <2>1, <2>2, <2>3 DEF Open
<1>4. ASSUME Closing(k, l, e) PROVE Closing(k, l, e)'
  BY <1>1, <1>2, <1>4 DEF Closing, Resting, Following, Torn
<1>5. ASSUME Broken(k) PROVE Broken(k)'
  BY <1>1, <1>5 DEF Broken
<1> QED
  BY <1>3, <1>4, <1>5

\* A step after which only some processes, requests and memories are gone.
Shrinks ==
    /\ net' \subseteq net /\ untold \subseteq untold' /\ crashed \subseteq crashed'
    /\ \A r \in net \ net' : r.type = "news" => r.to \in untold'
    /\ Idled /\ ListsKept
    /\ UNCHANGED <<validators, started, leader, results, tally, approved, misread>>

LEMMA ShrinksPhase ==
    ASSUME Shrinks, NEW k \in Node, NEW l \in SUBSET Node, NEW e \in SUBSET Node
    PROVE  /\ Open(k, l, e) => Open(k, l, e)'
           /\ Closing(k, l, e) => Closing(k, l, e)'
           /\ Broken(k) => Broken(k)'
<1>1. ASSUME Open(k, l, e) PROVE Open(k, l, e)'
  BY <1>1, OpenShrinks DEF Shrinks
<1>2. ASSUME Closing(k, l, e) PROVE Closing(k, l, e)'
  BY <1>2, ClosingShrinks DEF Shrinks
<1>3. ASSUME Broken(k) PROVE Broken(k)'
  BY <1>3, BrokenShrinks DEF Shrinks, Halted, Idled
<1> QED
  BY <1>1, <1>2, <1>3

LEMMA LoseShrinks == ASSUME NEW r \in net, Lose(r) PROVE Shrinks
  BY DEF Lose, Missing, Shrinks, Halted, Idled, ListsKept

LEMMA WorkerDiesShrinks ==
    ASSUME TypeOK, NEW n \in Node, NEW w \in {"starter", "judge"}, WorkerDies(n, w)
    PROVE  Shrinks
<1>1. Halted
  BY DEF WorkerDies, TypeOK, StarterIdle, JudgeIdle, Halted
<1> QED
  BY <1>1 DEF WorkerDies, Shrinks, Idled, ListsKept

\* What a stop does to the processes, whatever was written before.
LEMMA StopEffect ==
    ASSUME TypeOK, NEW n \in Node, NEW taken \in SUBSET net, NEW missing \in SUBSET Node,
           Stop(n, taken, missing)
    PROVE  /\ Idled /\ recent'[n] /\ n \in crashed' /\ crashed \subseteq crashed'
           /\ starter'[n].pc = "idle" /\ judge'[n].pc = "idle" /\ opening'[n].pc = "idle"
           /\ heir'[n] = NoNode
           /\ \A m \in Node \ {n} : recent'[m] = recent[m]
           /\ UNCHANGED <<approved, overlapped>>
<1>1. /\ starter'[n] = StarterIdle /\ judge'[n] = JudgeIdle /\ opening'[n] = OpeningIdle
      /\ heir'[n] = NoNode /\ recent'[n]
      /\ \A m \in Node \ {n} : /\ starter'[m] = starter[m] /\ judge'[m] = judge[m]
                               /\ opening'[m] = opening[m] /\ heir'[m] = heir[m]
                               /\ recent'[m] = recent[m]
  BY DEF Stop, TypeOK
<1>2. Idled
  BY <1>1 DEF StarterIdle, JudgeIdle, OpeningIdle, Halted, Idled
<1> QED
  BY <1>1, <1>2 DEF Stop, StarterIdle, JudgeIdle, OpeningIdle

LEMMA RestartShrinks == ASSUME TypeOK, NEW n \in Node, Restart(n) PROVE Shrinks
<1>1. Stop(n, {}, {}) /\ {} \in SUBSET net /\ {} \in SUBSET Node
  BY DEF Restart
<1>2. ListsKept
  BY DEF Restart, ListsKept, TypeOK
<1>3. /\ net' \subseteq net /\ untold \subseteq untold'
      /\ \A r \in net \ net' : r.type = "news" => r.to \in untold'
  BY <1>1, StopLoses
<1>4. Idled /\ crashed \subseteq crashed' /\ approved' = approved
  BY <1>1, StopEffect
<1>5. UNCHANGED <<validators, started, leader, results, tally, misread>>
  BY DEF Restart
<1> QED
  BY <1>2, <1>3, <1>4, <1>5 DEF Shrinks

\* A leader that stops while it ends an agreement leaves it open, or installs the list and
\* tells nobody.
StopInstalls(n, r) ==
    /\ IsSuccess(n, Counting(n, r))
    /\ Stop(n, {r}, Node \ {n})
    /\ validators' = [validators EXCEPT ![n] = list[n]]
    /\ installed' = installed \cup {<<list[n], validators[n]>>}

LEMMA StopOutcomes ==
    ASSUME NEW n \in Node, NEW r \in net, StopAtEnd(n, r)
    PROVE  /\ r.type = "vote" /\ r.to = n /\ r.from \in validators[n] /\ Ending(n, r)
           /\ WriteResult(n, r.from, r.vote)
           /\ UNCHANGED <<started, leader>>
           /\ UNCHANGED list \/ list' = [list EXCEPT ![n] = {}]
           /\ \/ Stop(n, {r}, {}) /\ UNCHANGED <<validators, installed>>
              \/ StopInstalls(n, r)
  BY DEF StopAtEnd, Reaches, Ends, Accepts, Ending, StopInstalls, NewValidators

LEMMA StopAtEndOpen ==
    ASSUME TypeOK, MemoryInv, NEW k \in Node, NEW l \in SUBSET Node, NEW e \in SUBSET Node,
           Open(k, l, e), NEW n \in Node, NEW r \in net, StopAtEnd(n, r)
    PROVE  Open(k, l, e)' \/ Broken(k)'
<1>1. /\ r.type = "vote" /\ r.to = n /\ r.from \in validators[n] /\ Ending(n, r)
      /\ WriteResult(n, r.from, r.vote)
      /\ UNCHANGED <<started, leader>>
      /\ UNCHANGED list \/ list' = [list EXCEPT ![n] = {}]
      /\ \/ Stop(n, {r}, {}) /\ UNCHANGED validators
         \/ StopInstalls(n, r)
  BY StopOutcomes
<1>2. /\ n = k /\ started[k] /\ k \in e /\ validators[k] = e /\ Counted(k, l, e)
      /\ results[k] \cup {r.from} = e /\ r.from # k
      /\ \A m \in e \ {k} : started[m] /\ m \in results[m]
      /\ Sent(k) /\ starter[k].pc = "idle"
  BY <1>1, EndingOpen, SMTT(30)
<1>3. {r} \in SUBSET net /\ {} \in SUBSET Node /\ Node \ {n} \in SUBSET Node
  OBVIOUS
<1>9. Stop(n, {r}, {}) \/ Stop(n, {r}, Node \ {n})
  BY <1>1 DEF StopInstalls
<1>4. Idled /\ n \in crashed' /\ judge'[n].pc = "idle" /\ UNCHANGED approved
  BY <1>3, <1>9, StopEffect
<1>5. net' \subseteq net \ {r} /\ untold \subseteq untold'
  <2>1. PICK missing \in SUBSET Node : Stop(n, {r}, missing)
    BY <1>3, <1>9
  <2>2. /\ net' \subseteq net \ {r}
        /\ untold \cup missing \subseteq untold'
    BY <1>3, <2>1, StopLoses
  <2> QED
    BY <2>2
<1>6. CASE UNCHANGED validators
  <2>1. CASE UNCHANGED list
    BY <1>1, <1>4, <1>5, <1>6, <2>1, VoteAddedOpen DEF Idled
  <2>2. CASE list' = [list EXCEPT ![n] = {}]
    <3>1. /\ list'[k] = {}
          /\ \A m \in Node \ {k} : list'[m] = list[m] /\ heir'[m] \in {heir[m], NoNode}
      BY <1>2, <1>4, <2>2 DEF TypeOK, Idled
    <3> QED
      BY <1>1, <1>2, <1>4, <1>5, <1>6, <3>1, VoteAddedOpen DEF Idled
  <2> QED
    BY <1>1, <2>1, <2>2
<1>7. CASE StopInstalls(n, r)
  <2>1. Node \ {k} \subseteq untold'
    <3>1. Stop(n, {r}, Node \ {n})
      BY <1>7 DEF StopInstalls
    <3>2. PICK missing \in SUBSET Node : missing = Node \ {n} /\ Stop(n, {r}, missing)
      BY <1>3, <3>1
    <3>4. Stop(n, {r}, missing)
      BY <3>2
    <3>3. /\ net' \subseteq net \ {r}
          /\ untold \cup missing \subseteq untold'
      BY <1>3, <3>4, StopLoses
    <3> QED
      BY <1>2, <3>2, <3>3
  <2>2. \A m \in Node \ {k} : /\ starter[m].pc = "idle" /\ heir[m] = NoNode /\ leader[m] # m
                              /\ started[m] => m \in results[m]
    BY <1>2, NodeAssumption DEF Open, Others, Resting, Following
  <2>3. k \in results[k]
    BY <1>2
  <2>4. \A m \in Node : results[m] \subseteq results'[m]
    <3>1. r.from \in Node /\ r.vote \in Vote
      BY <1>1, RequestFields DEF TypeOK
    <3> QED
      BY <1>1, <3>1, WriteResultEffect
  <2>5. \A m \in Node \ {k} : judge[m].pc # "vote"
    BY <1>2, <2>2 DEF Counted, VotesOnce
  <2>6. \A m \in Node : judge'[m].pc = "idle" /\ starter'[m].pc = "idle"
    <3>1. \A m \in Node : judge[m].pc \in {"idle", "vote"}
      BY DEF TypeOK, Judge
    <3> QED
      BY <1>2, <1>4, <2>2, <2>5, <3>1 DEF Idled, Halted
  <2>7. \A s \in net' : s.type = "vote" /\ s.to # k
    <3>1. ASSUME NEW s \in net, s.type = "start" PROVE FALSE
      <4>1. s.to \in e /\ s.to # k /\ ~started[s.to] /\ s.from = k
        BY <3>1, RequestFields DEF Open, OnlyStarts, MemoryInv, TypeOK
      <4> QED
        BY <1>2, <4>1
    <3>2. ASSUME NEW s \in net \ {r}, s.type = "vote", s.to = k PROVE FALSE
      <4>1. s.from \in Node \ {k} /\ r.from \in Node
        BY <3>2, RequestFields DEF MemoryInv, TypeOK
      <4>2. VotesOnce(s.from, k, l)
        BY <1>2, <4>1 DEF Counted
      <4>3. started[s.from] /\ s.from \notin results[k]
        BY <3>2, <4>2 DEF VotesOnce
      <4>4. s.from \in e
        BY <4>1, <4>3 DEF Open, Others, Resting, Following
      <4>5. s.from = r.from
        BY <1>2, <4>3, <4>4
      <4>6. s = r
        BY <1>1, <1>2, <3>2, <4>2, <4>5 DEF VotesOnce
      <4> QED
        BY <3>2, <4>6
    <3>3. \A s \in net : s.type \in {"start", "vote", "news"} /\ s.type # "news"
      BY RequestFields DEF TypeOK, Open, OnlyStarts
    <3> QED
      BY <1>5, <3>1, <3>2, <3>3
  <2> QED
    BY <1>1, <1>2, <1>4, <2>1, <2>2, <2>3, <2>4, <2>6, <2>7 DEF Broken, Idled
<1> QED
  BY <1>1, <1>6, <1>7

LEMMA StopAtNewsClosing ==
    ASSUME TypeOK, MemoryInv, NEW k \in Node, NEW l \in SUBSET Node, NEW e \in SUBSET Node,
           Closing(k, l, e), NEW n \in Node, NEW r \in net, StopAtNews(n, r)
    PROVE  Closing(k, l, e)'
<1>1. /\ r.type = "news" /\ r.to = n /\ r.from = k /\ r.list = l /\ n # k
      /\ opening[n].pc = "idle"
  BY DEF StopAtNews, Reaches, Closing, MemoryInv
<1>2. Stop(n, {r}, {}) /\ {r} \in SUBSET net /\ {} \in SUBSET Node
  BY DEF StopAtNews
<1>3. /\ Idled /\ recent'[n] /\ heir'[n] = NoNode /\ opening'[n].pc = "idle"
      /\ n \in crashed' /\ crashed \subseteq crashed'
  BY <1>2, StopEffect
<1>4. /\ net' \subseteq net \ {r} /\ untold \subseteq untold'
      /\ \A s \in net \ {r} : s \in net' \/ (s.type = "news" => s.to \in untold')
  BY <1>2, StopLoses
<1>5. /\ validators'[n] = l
      /\ \/ started'[n] = started[n] /\ leader'[n] = leader[n] /\ list'[n] = list[n]
         \/ ~started'[n] /\ leader'[n] = NoNode /\ list'[n] \in {list[n], {}}
      /\ \A m \in Node \ {n} : /\ validators'[m] = validators[m] /\ started'[m] = started[m]
                               /\ leader'[m] = leader[m] /\ list'[m] = list[m]
      /\ results' = results
  BY <1>1 DEF StopAtNews, TypeOK
<1> HIDE DEF StopAtNews
<1>6. \A m \in Node : starter'[m].pc = "idle"
  BY <1>3 DEF Closing, Idled, Halted
<1>7. ASSUME NEW m \in Node
      PROVE  \/ Resting(m)' /\ (m \in validators'[m] => validators'[m] = l)
             \/ m # k /\ Following(m, k, l, e)' /\ m \in results'[m]
             \/ m # k /\ Torn(m, k, l)'
  <2>1. \/ Resting(m) /\ (m \in validators[m] => validators[m] = l)
        \/ m # k /\ Following(m, k, l, e) /\ m \in results[m]
        \/ m # k /\ Torn(m, k, l)
    BY DEF Closing
  <2>2. CASE m # n
    BY <1>3, <1>5, <2>1, <2>2 DEF Resting, Following, Torn, Idled, Halted
  <2>3. CASE m = n
    BY <1>1, <1>3, <1>5, <2>1, <2>3 DEF Resting, Following, Torn
  <2> QED
    BY <2>2, <2>3
<1>8. NoLateVotes'
  BY <1>3, <1>4, <1>5 DEF Closing, NoLateVotes, Clean, Idled, Halted
<1>9. \A m \in Node \ untold' :
          \/ validators'[m] = l
          \/ validators'[m] = e /\ \E s \in net' : s.type = "news" /\ s.to = m
  BY <1>1, <1>4, <1>5 DEF Closing
<1> QED
  BY <1>4, <1>6, <1>7, <1>8, <1>9 DEF Closing

-----------------------------------------------------------------------------
(* The phases follow each other *)

\* An overlap is not forgotten, nor a misread vote or an approved list.
LEMMA HistoryGrows ==
    ASSUME [Next]_vars
    PROVE  /\ overlapped => overlapped'
           /\ misread \subseteq misread' /\ approved \subseteq approved'
<1> DEFINE Grows == /\ overlapped => overlapped'
                    /\ misread \subseteq misread' /\ approved \subseteq approved'
<1>1. ASSUME NEW n \in Node, NEW m, NEW vote, AddResult(n, m, vote) PROVE misread \subseteq misread'
  BY <1>1 DEF AddResult, WriteResult
<1>2. ASSUME NEW n \in Node, StarterStep(n) PROVE Grows
  <2>1. ASSUME NEW l \in Proposal, StartIsDue(n, l) PROVE Grows
    <3>1. overlapped' = (overlapped \/ UnderWay)
      BY <2>1 DEF StartIsDue
    <3>2. misread' = misread /\ approved' = approved \cup {<<n, l>>}
      BY <2>1 DEF StartIsDue
    <3> QED
      BY <3>1, <3>2
  <2>2. ASSUME ~\E l \in Proposal : StartIsDue(n, l) PROVE Grows
    <3>1. UNCHANGED <<overlapped, misread, approved>>
      BY <1>2, <2>2 DEF StarterStep, WriteInfo, WriteList, SendStart
    <3> QED
      BY <3>1
  <2> QED
    BY <2>1, <2>2
<1>3. ASSUME NEW n \in Node, JudgeStep(n) PROVE Grows
  BY <1>3 DEF JudgeStep, JudgeList, SendVote
<1>4. ASSUME NEW n \in Node, OpenAgreement(n) PROVE Grows
  BY <1>1, <1>4 DEF OpenAgreement
<1>5. ASSUME NEW n \in Node, NEW r \in net, ReceiveVote(n, r) PROVE Grows
  <2>1. UNCHANGED <<overlapped, approved>>
    BY <1>5 DEF ReceiveVote
  <2>2. misread' = misread \/ AddResult(n, r.from, r.vote)
    BY <1>5, VoteOutcomes DEF VoteRefused, VoteAdded, VoteFails, VoteInstalls
  <2> QED
    BY <1>1, <2>1, <2>2
<1>6. ASSUME NEW n \in Node, NEW r \in net, ReceiveStart(n, r) \/ ReceiveNews(n, r) PROVE Grows
  <2>1. CASE ReceiveStart(n, r)
    BY <2>1 DEF ReceiveStart
  <2>2. CASE ReceiveNews(n, r)
    BY <2>2 DEF ReceiveNews
  <2> QED
    BY <1>6, <2>1, <2>2
<1>7. ASSUME NEW n \in Node, TimePasses(n) PROVE Grows
  BY <1>7 DEF TimePasses
<1>8. ASSUME NEW n \in Node, CrashStep(n) PROVE Grows
  <2>1. UNCHANGED <<overlapped, approved>>
    BY <1>8 DEF CrashStep, Restart, StopAtEnd, StopAtNews, Stop
  <2>2. misread' = misread \/ \E m, vote : WriteResult(n, m, vote)
    BY <1>8 DEF CrashStep, Restart, StopAtEnd, StopAtNews
  <2>3. misread \subseteq misread'
    BY <2>2 DEF WriteResult
  <2> QED
    BY <2>1, <2>3
<1>9. ASSUME NEW n \in Node, NEW w \in {"starter", "judge"}, WorkerDies(n, w) PROVE Grows
  BY <1>9 DEF WorkerDies
<1>10. ASSUME NEW r \in net, Lose(r) PROVE Grows
  BY <1>10 DEF Lose
<1>11. CASE UNCHANGED vars
  BY <1>11 DEF vars
<1> QED
  BY <1>2, <1>3, <1>4, <1>5, <1>6, <1>7, <1>8, <1>9, <1>10, <1>11 DEF Next, ServerStep

\* The steps that start no agreement.
LEMMA StepOpen ==
    ASSUME TypeOK, MemoryInv, NEW k \in Node, NEW l \in SUBSET Node, NEW e \in SUBSET Node,
           Open(k, l, e), [Next]_vars, ~\E n \in Node, p \in Proposal : StartIsDue(n, p)
    PROVE  Open(k, l, e)' \/ Closing(k, l, e)' \/ Broken(k)'
<1>1. ASSUME NEW n \in Node, StarterStep(n) PROVE Open(k, l, e)'
  BY <1>1, WriteInfoPhase, WriteListPhase, SendStartPhase DEF StarterStep
<1>2. ASSUME NEW n \in Node, JudgeStep(n) PROVE Open(k, l, e)'
  BY <1>2, JudgeListOpen, SendVoteOpen DEF JudgeStep
<1>3. ASSUME NEW n \in Node, ServerStep(n) PROVE Open(k, l, e)' \/ Closing(k, l, e)'
  <2>1. ASSUME NEW r \in net, ReceiveNews(n, r) PROVE FALSE
    BY <2>1 DEF ReceiveNews, Reaches, Open, OnlyStarts
  <2> QED
    BY <1>3, <2>1, OpenAgreementOpen, ReceiveStartOpen, ReceiveVoteOpen DEF ServerStep
<1>4. ASSUME NEW n \in Node, CrashStep(n) PROVE Open(k, l, e)' \/ Broken(k)'
  <2>1. ASSUME NEW r \in net, StopAtNews(n, r) PROVE FALSE
    BY <2>1 DEF StopAtNews, Reaches, Open, OnlyStarts
  <2> QED
    BY <1>4, <2>1, StopAtEndOpen, RestartShrinks, ShrinksPhase DEF CrashStep
<1>5. ASSUME NEW n \in Node, TimePasses(n) PROVE Open(k, l, e)'
  BY <1>5, TimePassesPhase
<1>6. ASSUME Shrinks PROVE Open(k, l, e)'
  BY <1>6, ShrinksPhase
<1>7. CASE UNCHANGED vars
  BY <1>7, OpenShrinks DEF vars, Halted, Idled, ListsKept
<1> QED
  BY <1>1, <1>2, <1>3, <1>4, <1>5, <1>6, <1>7, WorkerDiesShrinks, LoseShrinks DEF Next

LEMMA StepClosing ==
    ASSUME TypeOK, MemoryInv, NEW k \in Node, NEW l \in SUBSET Node, NEW e \in SUBSET Node,
           Closing(k, l, e), [Next]_vars, ~\E n \in Node, p \in Proposal : StartIsDue(n, p)
    PROVE  Closing(k, l, e)'
<1>1. ASSUME NEW n \in Node, StarterStep(n) PROVE FALSE
  BY <1>1 DEF StarterStep, Closing, WriteInfo, WriteList, SendStart
<1>2. ASSUME NEW n \in Node, JudgeStep(n) PROVE Closing(k, l, e)'
  BY <1>2, JudgeListClosing, SendVoteClosing DEF JudgeStep
<1>3. ASSUME NEW n \in Node, ServerStep(n) PROVE Closing(k, l, e)'
  <2>1. ASSUME NEW r \in net, ReceiveStart(n, r) PROVE FALSE
    BY <2>1 DEF ReceiveStart, Reaches, Closing
  <2> QED
    BY <1>3, <2>1, OpenAgreementClosing, ReceiveVoteClosing, ReceiveNewsClosing DEF ServerStep
<1>4. ASSUME NEW n \in Node, CrashStep(n) PROVE Closing(k, l, e)'
  <2>1. ASSUME NEW r \in net, StopAtEnd(n, r) PROVE FALSE
    BY <2>1, StopOutcomes, NoEndingClosing
  <2> QED
    BY <1>4, <2>1, StopAtNewsClosing, RestartShrinks, ShrinksPhase DEF CrashStep
<1>5. ASSUME NEW n \in Node, TimePasses(n) PROVE Closing(k, l, e)'
  BY <1>5, TimePassesPhase
<1>6. ASSUME Shrinks PROVE Closing(k, l, e)'
  BY <1>6, ShrinksPhase
<1>7. CASE UNCHANGED vars
  BY <1>7, ClosingShrinks DEF vars, Halted, Idled, ListsKept
<1> QED
  BY <1>1, <1>2, <1>3, <1>4, <1>5, <1>6, <1>7, WorkerDiesShrinks, LoseShrinks DEF Next

LEMMA StepBroken ==
    ASSUME TypeOK, NEW k \in Node, Broken(k), [Next]_vars,
           ~\E n \in Node, p \in Proposal : StartIsDue(n, p)
    PROVE  Broken(k)'
<1>1. ASSUME NEW n \in Node, StarterStep(n) PROVE FALSE
  BY <1>1 DEF StarterStep, Broken, WriteInfo, WriteList, SendStart
<1>2. ASSUME NEW n \in Node, JudgeStep(n) PROVE FALSE
  BY <1>2 DEF JudgeStep, Broken, JudgeList, SendVote
<1>3. ASSUME NEW n \in Node, ServerStep(n) PROVE Broken(k)'
  <2>1. ASSUME NEW r \in net, ReceiveStart(n, r) \/ ReceiveNews(n, r) PROVE FALSE
    BY <2>1 DEF ReceiveStart, ReceiveNews, Reaches, Broken
  <2>2. CASE OpenAgreement(n)
    BY <2>2, OpenAgreementShrinks, BrokenShrinks DEF Idled, Halted
  <2>3. ASSUME NEW r \in net, ReceiveVote(n, r) PROVE Broken(k)'
    <3>1. ~Ending(n, r)
      BY <2>3, VoteOutcomes, NoEndingBroken
    <3> QED
      BY <2>3, <3>1, VoteShrinks, BrokenShrinks DEF Idled, Halted
  <2> QED
    BY <1>3, <2>1, <2>2, <2>3 DEF ServerStep
<1>4. ASSUME NEW n \in Node, CrashStep(n) PROVE Broken(k)'
  <2>1. ASSUME NEW r \in net, StopAtEnd(n, r) PROVE FALSE
    BY <2>1, StopOutcomes, NoEndingBroken
  <2>2. ASSUME NEW r \in net, StopAtNews(n, r) PROVE FALSE
    BY <2>2 DEF StopAtNews, Reaches, Broken
  <2> QED
    BY <1>4, <2>1, <2>2, RestartShrinks, ShrinksPhase DEF CrashStep
<1>5. ASSUME NEW n \in Node, TimePasses(n) PROVE Broken(k)'
  BY <1>5, TimePassesPhase
<1>6. ASSUME Shrinks PROVE Broken(k)'
  BY <1>6, ShrinksPhase
<1>7. CASE UNCHANGED vars
  BY <1>7, BrokenShrinks DEF vars
<1> QED
  BY <1>1, <1>2, <1>3, <1>4, <1>5, <1>6, <1>7, WorkerDiesShrinks, LoseShrinks DEF Next

LEMMA StepPhase == TypeOK /\ MemoryInv /\ PhaseInv /\ [Next]_vars => PhaseInv'
<1> SUFFICES ASSUME TypeOK, MemoryInv, PhaseInv, [Next]_vars, ~overlapped'
             PROVE  PhaseInv'
  BY DEF PhaseInv
<1>1. ASSUME NEW n \in Node, NEW l \in Proposal, StartIsDue(n, l) PROVE PhaseInv'
  BY <1>1, StartIsDuePhase
<1>2. ASSUME ~\E n \in Node, l \in Proposal : StartIsDue(n, l) PROVE PhaseInv'
  <2>1. ~overlapped
    BY HistoryGrows
  <2>2. PICK k \in Node, l \in SUBSET Node, e \in SUBSET Node :
           Open(k, l, e) \/ Closing(k, l, e) \/ Broken(k)
    BY <2>1 DEF PhaseInv
  <2>3. Open(k, l, e)' \/ Closing(k, l, e)' \/ Broken(k)'
    BY <1>2, <2>2, StepOpen, StepClosing, StepBroken
  <2> QED
    BY <2>3 DEF PhaseInv
<1> QED
  BY <1>1, <1>2

\* What holds of every reachable state.
Inv == TypeOK /\ MemoryInv /\ PhaseInv

THEOREM PhasesFollow == Spec => []Inv
<1>1. Init => Inv
  BY InitType, InitMemory, InitPhase DEF Inv
<1>2. Inv /\ [Next]_vars => Inv'
  BY StepType, StepMemory, StepPhase DEF Inv
<1> QED
  BY <1>1, <1>2, PTL DEF Spec

-----------------------------------------------------------------------------
(* The three properties *)

\* When agreements do not overlap, the nodes have the same validators as soon as no new list
\* is on its way, whatever requests were lost and wherever nodes crashed, but for those that
\* some new list did not get to.
THEOREM ValidatorsAreShared == Spec => []NodesShareValidators
<1>1. Inv => NodesShareValidators
  <2> SUFFICES ASSUME Inv, ~overlapped, \A r \in net : r.type # "news"
               PROVE  \A m, n \in Node \ untold : validators[m] = validators[n]
    BY DEF NodesShareValidators
  <2>1. PICK k \in Node, l \in SUBSET Node, e \in SUBSET Node :
           Open(k, l, e) \/ Closing(k, l, e) \/ Broken(k)
    BY DEF Inv, PhaseInv
  <2> QED
    BY <2>1 DEF Open, InForce, Closing, Broken
<1> QED
  BY <1>1, PhasesFollow, PTL

\* Who ends an agreement leads the open agreement about its list, and has counted for it.
LEMMA EndsOpen ==
    ASSUME Inv, ~overlapped, NEW n \in Node, NEW r \in net,
           r.type = "vote", r.to = n, r.from \in validators[n], Ending(n, r)
    PROVE  /\ Cardinality(list[n]) = ValidatorsNumber
           /\ Counted(n, list[n], validators[n])
<1>1. PICK k \in Node, l \in SUBSET Node, e \in SUBSET Node :
         Open(k, l, e) \/ Closing(k, l, e) \/ Broken(k)
  BY DEF Inv, PhaseInv
<1>2. Open(k, l, e)
  BY <1>1, NoEndingClosing, NoEndingBroken
<1>3. /\ n = k /\ validators[k] = e /\ Counted(k, l, e) /\ list[k] = l
      /\ Cardinality(l) = ValidatorsNumber
  <2>1. TypeOK /\ MemoryInv
    BY DEF Inv
  <2> QED
    BY <1>2, <2>1, EndingOpen, SMTT(30)
<1> QED
  BY <1>3

\* The news are of a list that is as long.
LEMMA NewsSize ==
    ASSUME Inv, ~overlapped, NEW r \in net, r.type = "news"
    PROVE  Cardinality(r.list) = ValidatorsNumber
<1>1. PICK k \in Node, l \in SUBSET Node, e \in SUBSET Node :
         Open(k, l, e) \/ Closing(k, l, e) \/ Broken(k)
  BY DEF Inv, PhaseInv
<1> QED
  BY <1>1 DEF Open, OnlyStarts, Closing, Broken

\* A step installs a list only when the votes on it are in, and takes over only news.
LEMMA ListsInstalled ==
    ASSUME TypeOK, [Next]_vars
    PROVE  \/ UNCHANGED <<validators, installed>>
           \/ \E n \in Node, r \in net :
                 /\ r.type = "vote" /\ r.to = n /\ r.from \in validators[n] /\ Ending(n, r)
                 /\ IsSuccess(n, Counting(n, r)) /\ WriteResult(n, r.from, r.vote)
                 /\ validators' = [validators EXCEPT ![n] = list[n]]
                 /\ installed' = installed \cup {<<list[n], validators[n]>>}
           \/ \E n \in Node, r \in net :
                 /\ r.type = "news" /\ validators' = [validators EXCEPT ![n] = r.list]
                 /\ UNCHANGED installed
<1> DEFINE Same == UNCHANGED <<validators, installed>>
           Voted(n, r) == /\ r.type = "vote" /\ r.to = n /\ r.from \in validators[n]
                          /\ Ending(n, r)
                          /\ IsSuccess(n, Counting(n, r)) /\ WriteResult(n, r.from, r.vote)
                          /\ validators' = [validators EXCEPT ![n] = list[n]]
                          /\ installed' = installed \cup {<<list[n], validators[n]>>}
           Told(n, r) == /\ r.type = "news" /\ validators' = [validators EXCEPT ![n] = r.list]
                         /\ UNCHANGED installed
           Goal == \/ Same \/ \E n \in Node, r \in net : Voted(n, r)
                   \/ \E n \in Node, r \in net : Told(n, r)
<1>1. ASSUME NEW n \in Node, NEW r \in net, ReceiveVote(n, r) PROVE Same \/ Voted(n, r)
  <2>1. CASE VoteInstalls(n, r)
    BY <1>1, <2>1, VoteOutcomes DEF VoteInstalls, AddResult
  <2>2. CASE ~VoteInstalls(n, r)
    <3>1. VoteRefused(n, r) \/ VoteAdded(n, r) \/ VoteFails(n, r)
      BY <1>1, <2>2, VoteOutcomes
    <3>2. Same
      BY <3>1 DEF VoteRefused, VoteAdded, VoteFails
    <3> QED
      BY <3>2
  <2> QED
    BY <2>1, <2>2
<1>2. ASSUME NEW n \in Node, NEW r \in net, ReceiveNews(n, r) PROVE Same \/ Told(n, r)
  BY <1>2 DEF ReceiveNews, Reaches
<1>3. ASSUME NEW n \in Node, NEW r \in net, StopAtEnd(n, r) PROVE Same \/ Voted(n, r)
  BY <1>3, StopOutcomes DEF StopInstalls
<1>4. ASSUME NEW n \in Node, NEW r \in net, StopAtNews(n, r) PROVE Told(n, r)
  BY <1>4 DEF StopAtNews, Reaches
<1>5. ASSUME NEW n \in Node, StarterStep(n) \/ JudgeStep(n) PROVE Same
  BY <1>5 DEF StarterStep, JudgeStep, StartIsDue, WriteInfo, WriteList, SendStart, JudgeList,
     SendVote
<1>6. ASSUME NEW n \in Node, OpenAgreement(n) PROVE Same
  BY <1>6 DEF OpenAgreement
<1>7. ASSUME NEW n \in Node, NEW r \in net, ReceiveStart(n, r) PROVE Same
  BY <1>7 DEF ReceiveStart
<1>8. ASSUME NEW n \in Node, TimePasses(n) \/ Restart(n) PROVE Same
  BY <1>8 DEF TimePasses, Restart
<1>9. ASSUME NEW n \in Node, NEW w \in {"starter", "judge"}, WorkerDies(n, w) PROVE Same
  BY <1>9 DEF WorkerDies
<1>10. ASSUME NEW r \in net, Lose(r) PROVE Same
  BY <1>10 DEF Lose
<1>11. ASSUME UNCHANGED vars PROVE Same
  BY <1>11 DEF vars
<1> HIDE DEF Same, Voted, Told
<1>12. ASSUME NEW n \in Node, ServerStep(n) PROVE Goal
  BY <1>1, <1>2, <1>6, <1>7, <1>12 DEF ServerStep
<1>13. ASSUME NEW n \in Node, CrashStep(n) PROVE Goal
  BY <1>3, <1>4, <1>8, <1>13 DEF CrashStep
<1>14. Same => Goal
  OBVIOUS
<1> HIDE DEF Goal
<1>15. ASSUME Next PROVE Goal
  <2>1. CASE \E n \in Node : StarterStep(n) \/ JudgeStep(n) \/ ServerStep(n)
    BY <1>5, <1>12, <1>14, <2>1
  <2>2. CASE \E n \in Node : TimePasses(n) \/ CrashStep(n)
    BY <1>8, <1>13, <1>14, <2>2
  <2>3. CASE \E n \in Node, w \in {"starter", "judge"} : WorkerDies(n, w)
    BY <1>9, <1>14, <2>3
  <2>4. CASE \E r \in net : Lose(r)
    BY <1>10, <1>14, <2>4
  <2> QED
    BY <1>15, <2>1, <2>2, <2>3, <2>4 DEF Next
<1>16. Goal
  BY <1>11, <1>14, <1>15
<1> QED
  BY <1>16 DEF Goal, Same, Voted, Told

\* A step changes validators only by the end of an agreement about the list that the
\* phase names, or by the news of it.
LEMMA StepSize == Inv /\ ValidatorsAreEnough /\ [Next]_vars => ValidatorsAreEnough'
<1> SUFFICES ASSUME Inv, ValidatorsAreEnough, [Next]_vars, ~overlapped',
                    NEW m \in Node
             PROVE  Cardinality(validators'[m]) = ValidatorsNumber
  BY DEF ValidatorsAreEnough
<1>1. ~overlapped
  BY HistoryGrows
<1>2. Cardinality(validators[m]) = ValidatorsNumber
  BY <1>1 DEF ValidatorsAreEnough
<1>3. ASSUME NEW n \in Node, NEW l, validators' = [validators EXCEPT ![n] = l],
             Cardinality(l) = ValidatorsNumber
      PROVE  Cardinality(validators'[m]) = ValidatorsNumber
  <2>1. validators'[m] = IF m = n THEN l ELSE validators[m]
    BY <1>3 DEF Inv, TypeOK
  <2> QED
    BY <1>2, <1>3, <2>1
<1>4. \/ UNCHANGED validators
      \/ \E n \in Node : /\ validators' = [validators EXCEPT ![n] = list[n]]
                         /\ Cardinality(list[n]) = ValidatorsNumber
      \/ \E n \in Node, r \in net : /\ validators' = [validators EXCEPT ![n] = r.list]
                                     /\ Cardinality(r.list) = ValidatorsNumber
  BY <1>1, ListsInstalled, EndsOpen, NewsSize DEF Inv
<1> QED
  BY <1>2, <1>3, <1>4

\* As long as agreements do not overlap, there are as many validators as there must be.
THEOREM ValidatorsStayEnough == Spec => []ValidatorsAreEnough
<1>1. Init => ValidatorsAreEnough
  BY InitialAssumption DEF Init, ValidatorsAreEnough
<1> QED
  BY <1>1, StepSize, PhasesFollow, PTL DEF Spec

\* More than half of the validators e approved of the list l.
Backed(l, e) == 2 * Cardinality({m \in e : <<m, l>> \in approved}) > Cardinality(e)

LEMMA BackedStays ==
    ASSUME NEW l, NEW e \in SUBSET Node, Backed(l, e), approved \subseteq approved'
    PROVE  Backed(l, e)'
<1> DEFINE before == {m \in e : <<m, l>> \in approved}
           after == {m \in e : <<m, l>> \in approved'}
<1>1. before \in SUBSET after /\ after \in SUBSET Node
  OBVIOUS
<1>2. Cardinality(before) \in Nat /\ Cardinality(after) \in Nat /\ Cardinality(e) \in Nat
      /\ Cardinality(before) <= Cardinality(after)
  BY <1>1, NodesFinite, FS_Subset
<1> HIDE DEF before, after
<1>3. 2 * Cardinality(before) > Cardinality(e)
  BY DEF Backed, before
<1>4. 2 * Cardinality(after) > Cardinality(e)
  BY <1>2, <1>3
<1> QED
  BY <1>4 DEF Backed, after

\* A list is installed on the votes of those who approved of it.
LEMMA InstallsBacked ==
    ASSUME Inv, ~overlapped, misread' = {}, NEW n \in Node, NEW r \in net,
           r.type = "vote", r.to = n, r.from \in validators[n], Ending(n, r),
           IsSuccess(n, Counting(n, r)), WriteResult(n, r.from, r.vote)
    PROVE  Backed(list[n], validators[n])
<1> DEFINE l == list[n]
           e == validators[n]
           yes == {m \in Node : Counting(n, r)[m] = "yes"}
           backers == {m \in e : <<m, l>> \in approved}
<1>0. /\ r.type = "vote" /\ r.to = n /\ r.from \in Node /\ r.vote \in Vote /\ r.from # n
      /\ r.from \in e
  <2>1. r.type = "vote" /\ r.to = n /\ r.from \in e
    OBVIOUS
  <2>2. r \in Request /\ r.from # r.to
    BY DEF Inv, TypeOK, MemoryInv
  <2> HIDE DEF e
  <2> QED
    BY <2>1, <2>2, RequestFields
<1>1. Counted(n, l, e)
  BY EndsOpen
<1>2. \A m \in Node : Counting(n, r)[m] = IF m = r.from THEN r.vote ELSE Results(n)[m]
  BY <1>0, ResultsType DEF Counting, Inv
<1>3. /\ misread = {}
      /\ \A m \in Node \ {n} : Results(n)[m] = tally[n][m]
  BY <1>0, WriteResultEffect, ReadRight DEF Inv
<1>4. ASSUME NEW m \in yes PROVE m \in backers
  <2>1. m \in e
    <3>1. Results(n)[m] # "none" => m \in results[n]
      BY ResultsRows DEF Inv, MemoryInv
    <3> QED
      BY <1>0, <1>1, <1>2, <3>1 DEF Counted
  <2>2. <<m, l>> \in approved
    <3>1. CASE m = r.from
      BY <1>0, <1>1, <1>2, <3>1 DEF Counted, VotesOnce
    <3>2. CASE m = n
      BY <1>1, <3>2 DEF Counted
    <3>3. CASE m \notin {n, r.from}
      BY <1>1, <1>2, <1>3, <3>3 DEF Counted
    <3> QED
      BY <3>1, <3>2, <3>3
  <2> QED
    BY <2>1, <2>2
<1>5. yes \in SUBSET backers /\ backers \in SUBSET Node /\ e \in SUBSET Node
  BY <1>4 DEF Inv, TypeOK
<1>6. 2 * Cardinality(yes) > Cardinality(e)
  BY DEF IsSuccess, Positive
<1> HIDE DEF yes, backers, e, l
<1>7. /\ Cardinality(yes) \in Nat /\ Cardinality(backers) \in Nat /\ Cardinality(e) \in Nat
      /\ Cardinality(yes) <= Cardinality(backers)
  BY <1>5, NodesFinite, FS_Subset
<1>8. 2 * Cardinality(backers) > Cardinality(e)
  BY <1>6, <1>7
<1> QED
  BY <1>8 DEF Backed, backers, e, l

LEMMA StepInstalled == Inv /\ InstalledByMajority /\ [Next]_vars => InstalledByMajority'
<1> SUFFICES ASSUME Inv, InstalledByMajority, [Next]_vars, ~overlapped', misread' = {},
                    NEW i \in installed'
             PROVE  Backed(i[1], i[2])'
  BY DEF InstalledByMajority, Backed
<1>1. ~overlapped /\ misread = {} /\ approved \subseteq approved'
  BY HistoryGrows
<1>2. CASE i \in installed
  <2>1. Backed(i[1], i[2]) /\ i[2] \in SUBSET Node
    BY <1>1, <1>2 DEF InstalledByMajority, Backed, Inv, TypeOK
  <2> QED
    BY <1>1, <2>1, BackedStays
<1>3. CASE i \notin installed
  <2>1. PICK n \in Node, r \in net :
           /\ r.type = "vote" /\ r.to = n /\ r.from \in validators[n] /\ Ending(n, r)
           /\ IsSuccess(n, Counting(n, r)) /\ WriteResult(n, r.from, r.vote)
           /\ installed' = installed \cup {<<list[n], validators[n]>>}
    BY <1>3, ListsInstalled DEF Inv
  <2>2. i = <<list[n], validators[n]>>
    BY <1>3, <2>1
  <2>3. Backed(list[n], validators[n]) /\ validators[n] \in SUBSET Node
    BY <1>1, <2>1, InstallsBacked DEF Inv, TypeOK
  <2> QED
    BY <1>1, <2>2, <2>3, BackedStays
<1> QED
  BY <1>2, <1>3

\* As long as agreements do not overlap and no vote is misread, a list is installed only
\* if more than half of the validators it replaces proposed it or found it good.
THEOREM MajorityInstalls == Spec => []InstalledByMajority
<1>1. Init => InstalledByMajority
  BY DEF Init, InstalledByMajority
<1> QED
  BY <1>1, StepInstalled, PhasesFollow, PTL DEF Spec

-----------------------------------------------------------------------------
(* No agreement gets stuck, when nothing disturbs it *)

\* No request is lost, no node crashed and no worker died, no agreements overlapped, no
\* validator was against a list.
Undisturbed ==
    /\ ~Lossy /\ untold = {}
    /\ crashed = {} /\ died = {}
    /\ ~overlapped /\ ~refused

\* k leads an agreement that it wrote to its file.
Leads(k) == started[k] /\ leader[k] = k

\* A request of some type is on its way to m.
IsOnItsWay(type, m) == \E r \in net : r.type = type /\ r.to = m

\* All the votes are in favour, so that no leader was ever replaced.
YesInv ==
    /\ \A n \in Node : judge[n].pc = "vote" => judge[n].vote = "yes"
    /\ \A r \in net : r.type = "vote" => r.vote = "yes"
    /\ \A n, m \in Node : tally[n][m] # "no"
    /\ \A n \in Node : heir[n] = NoNode

\* The lists that are proposed have the length that work_start_agreement gives them.
SizeInv ==
    /\ \A n \in Node : starter[n].pc # "idle" => Cardinality(starter[n].list) = ProposedNumber
    /\ \A r \in net : r.type = "start" => Cardinality(r.list) = ProposedNumber

\* A leader that has sent its list voted, and every other validator is in the agreement or
\* will be.
CalledInv ==
    \A k \in Node : Leads(k) /\ starter[k].pc = "idle" =>
        /\ k \in results[k]
        /\ \A m \in validators[k] \ {k} : started[m] \/ IsOnItsWay("start", m)

\* A validator votes once in an agreement, but for a leader that kept its results; and its
\* vote gets to the leader.
VotedInv ==
    \A m \in Node \ kept :
        /\ m \in results[m] \/ judge[m].pc = "vote" => started[m]
        /\ started[m] /\ m \in results[m] /\ leader[m] # m =>
              \/ \E r \in net : r.type = "vote" /\ r.from = m /\ r.to = leader[m]
              \/ m \in results[leader[m]]
              \/ IsOnItsWay("news", m)

\* When the new validators are announced, only the leader may still be about to vote.
JudgedInv == \A r \in net, u \in Node : r.type = "news" /\ judge[u].pc = "vote" => u = r.from

\* A leader never waits for the end of an agreement of which it has all the results.
CountedInv == \A k \in Node : Leads(k) => results[k] # validators[k]

\* Whoever is in an agreement has a leader that is in it, or is told of its end.
LedInv == \A n \in Node : started[n] => Leads(leader[n]) \/ IsOnItsWay("news", n)

GoInv ==
    YesInv /\ SizeInv /\ CalledInv /\ VotedInv /\ JudgedInv /\ CountedInv /\ LedInv

\* Where a node stands in an agreement that has not ended.
LEMMA OpenLeads ==
    ASSUME NEW k \in Node, NEW l \in SUBSET Node, NEW e \in SUBSET Node, Open(k, l, e),
           untold = {}, NEW n \in Node
    PROVE  /\ validators[n] = e
           /\ Leads(n) => n = k
           /\ started[n] => /\ n \in e /\ k \in e /\ leader[n] = k /\ Leads(k)
                            /\ Counted(k, l, e)
           /\ started[n] /\ n # k => starter[k].pc = "idle"
<1>1. validators[n] = e
  BY DEF Open, InForce
<1>2. CASE n = k
  BY <1>1, <1>2 DEF Open, Leading, Leads, Active
<1>3. CASE n # k /\ started[n]
  <2>1. Sent(k) /\ Following(n, k, l, e)
    BY <1>3 DEF Sent, Open, Others, Resting
  <2>2. started[k] /\ leader[k] = k /\ k \in e /\ starter[k].pc = "idle"
    BY <2>1 DEF Open, Leading
  <2> QED
    BY <1>1, <1>3, <2>1, <2>2 DEF Following, Leads, Open, Active
<1> QED
  BY <1>1, <1>2, <1>3 DEF Leads

\* The same, when it has ended.
LEMMA ClosingLeads ==
    ASSUME NEW k \in Node, NEW l \in SUBSET Node, NEW e \in SUBSET Node, Closing(k, l, e),
           crashed = {}, LedInv, NEW n \in Node
    PROVE  /\ ~Leads(n)
           /\ started[n] => /\ n # k /\ k \in validators[n] /\ leader[n] = k
                            /\ n \in results[n] /\ IsOnItsWay("news", n)
<1>1. \A m \in Node : started[m] => m # k /\ Following(m, k, l, e) /\ m \in results[m]
  BY DEF Closing, Resting, Torn
<1>2. ~Leads(n)
  BY <1>1 DEF Leads, Following
<1>3. ~Leads(k)
  BY <1>1 DEF Leads
<1> QED
  BY <1>1, <1>2, <1>3 DEF LedInv, Following, Closing

\* The leader of an agreement is one of its validators.
LEMMA LeaderIsValidator ==
    ASSUME Inv, Undisturbed, LedInv, NEW n \in Node, started[n]
    PROVE  leader[n] \in Node /\ leader[n] \in validators[n]
<1>1. PICK k \in Node, l \in SUBSET Node, e \in SUBSET Node :
         Open(k, l, e) \/ Closing(k, l, e)
  BY DEF Inv, PhaseInv, Undisturbed, Broken
<1>2. CASE Open(k, l, e)
  <2>1. validators[n] = e /\ k \in e /\ leader[n] = k
    BY <1>2, OpenLeads DEF Undisturbed
  <2> QED
    BY <2>1
<1>3. CASE Closing(k, l, e)
  <2>1. k \in validators[n] /\ leader[n] = k
    BY <1>3, ClosingLeads DEF Undisturbed
  <2> QED
    BY <2>1
<1> QED
  BY <1>1, <1>2, <1>3

\* Before the others are asked, a leader has no result but its own.
LEMMA LeaderAlone ==
    ASSUME NEW k \in Node, NEW l \in SUBSET Node, NEW e \in SUBSET Node, Open(k, l, e),
           Active(k), ~Sent(k), NEW S \in SUBSET (results[k] \cup {k})
    PROVE  S # e
<1>1. \A m \in Node \ {k} : m \notin results[k]
  BY DEF Open, Counted, VotesOnce, Sent
<1>2. results[k] \subseteq Node
  BY DEF Open, Counted
<1>3. S \subseteq {k}
  BY <1>1, <1>2
<1>4. Cardinality({k}) = 1 /\ Cardinality({}) = 0
  BY FS_Singleton, FS_EmptySet
<1>5. Cardinality(e) >= 2
  BY Numbers DEF Open, InForce
<1>6. S = {} \/ S = {k}
  BY <1>3
<1> QED
  BY <1>4, <1>5, <1>6

\* A request goes to every node of the set but the sender.
LEMMA StartToAll ==
    ASSUME NEW n \in Node, NEW nodes \in SUBSET Node, NEW m \in nodes \ {n}, NEW l
    PROVE  \E r \in Send(n, nodes, [type |-> "start", from |-> n, to |-> n, list |-> l]) :
              r.type = "start" /\ r.to = m
<1>1. [[type |-> "start", from |-> n, to |-> n, list |-> l] EXCEPT !.to = m]
         = [type |-> "start", from |-> n, to |-> m, list |-> l]
  OBVIOUS
<1>2. [type |-> "start", from |-> n, to |-> m, list |-> l]
         \in Send(n, nodes, [type |-> "start", from |-> n, to |-> n, list |-> l])
  BY <1>1 DEF Send
<1> QED
  BY <1>2

LEMMA VoteToAll ==
    ASSUME NEW n \in Node, NEW nodes \in SUBSET Node, NEW m \in nodes \ {n}, NEW v
    PROVE  \E r \in Send(n, nodes, [type |-> "vote", from |-> n, to |-> n, vote |-> v]) :
              r.type = "vote" /\ r.from = n /\ r.to = m
<1>1. [[type |-> "vote", from |-> n, to |-> n, vote |-> v] EXCEPT !.to = m]
         = [type |-> "vote", from |-> n, to |-> m, vote |-> v]
  OBVIOUS
<1>2. [type |-> "vote", from |-> n, to |-> m, vote |-> v]
         \in Send(n, nodes, [type |-> "vote", from |-> n, to |-> n, vote |-> v])
  BY <1>1 DEF Send
<1> QED
  BY <1>2

LEMMA NewsToAll ==
    ASSUME NEW n \in Node, NEW nodes \in SUBSET Node, NEW m \in nodes \ {n}, NEW l
    PROVE  \E r \in Send(n, nodes, [type |-> "news", from |-> n, to |-> n, list |-> l]) :
              r.type = "news" /\ r.to = m
<1>1. [[type |-> "news", from |-> n, to |-> n, list |-> l] EXCEPT !.to = m]
         = [type |-> "news", from |-> n, to |-> m, list |-> l]
  OBVIOUS
<1>2. [type |-> "news", from |-> n, to |-> m, list |-> l]
         \in Send(n, nodes, [type |-> "news", from |-> n, to |-> n, list |-> l])
  BY <1>1 DEF Send
<1> QED
  BY <1>2

-----------------------------------------------------------------------------
(* The worker that starts agreements keeps them going *)

LEMMA StartIsDueGo ==
    ASSUME Inv, GoInv, Undisturbed', NEW n \in Node, NEW l \in Proposal, StartIsDue(n, l)
    PROVE  GoInv'
<1>1. /\ \A m \in Node : ~started[m] /\ starter[m].pc = "idle"
      /\ \A r \in net : r.type = "vote"
  BY DEF StartIsDue, UnderWay, Undisturbed
<1>2. /\ Cardinality(l) = ProposedNumber
      /\ starter' = [starter EXCEPT ![n] = [pc |-> "info", list |-> l]]
      /\ UNCHANGED <<fileVars, voteVars, net, judge, opening, kept>>
  BY DEF StartIsDue
<1>3. \A m \in Node : starter'[m] = starter[m] \/ starter'[m].list = l
  BY <1>2 DEF Inv, TypeOK
<1>4. YesInv' /\ SizeInv'
  <2>1. YesInv'
    BY <1>2 DEF GoInv, YesInv
  <2>2. SizeInv'
    BY <1>2, <1>3 DEF GoInv, SizeInv
  <2> QED
    BY <2>1, <2>2
<1>5. CalledInv' /\ CountedInv' /\ LedInv'
  BY <1>1, <1>2 DEF GoInv, CalledInv, CountedInv, LedInv, Leads
<1>6. VotedInv' /\ JudgedInv'
  BY <1>2 DEF GoInv, VotedInv, JudgedInv, IsOnItsWay
<1> QED
  BY <1>4, <1>5, <1>6 DEF GoInv

LEMMA WriteInfoGo ==
    ASSUME Inv, GoInv, Undisturbed, NEW k \in Node, NEW l \in SUBSET Node, NEW e \in SUBSET Node,
           Open(k, l, e), NEW n \in Node, WriteInfo(n)
    PROVE  GoInv'
<1>1. n = k /\ starter[k].pc = "info"
  BY DEF Open, Others, WriteInfo
<1>2. ~Sent(k) /\ Active(k) /\ \A m \in Node : ~started[m]
  BY <1>1 DEF Open, Leading, Active, Sent
<1>3. /\ started'[k] = TRUE /\ leader'[k] = k
      /\ starter'[k].pc = "list" /\ starter'[k].list = starter[k].list
      /\ \A m \in Node \ {k} : started'[m] = started[m] /\ starter'[m] = starter[m]
      /\ \A m \in Node : heir'[m] \in {NoNode, heir[m]}
      /\ UNCHANGED <<validators, recent, list, voteVars, net, judge, opening, historyVars>>
  BY <1>1 DEF WriteInfo, SetInfo, Inv, TypeOK, Starter
<1> HIDE DEF WriteInfo
<1>4. YesInv' /\ SizeInv' /\ JudgedInv'
  <2>1. YesInv'
    BY <1>3 DEF GoInv, YesInv
  <2>2. SizeInv' /\ JudgedInv'
    BY <1>1, <1>3 DEF GoInv, SizeInv, JudgedInv
  <2> QED
    BY <2>1, <2>2
<1>5. CalledInv' /\ LedInv'
  BY <1>2, <1>3 DEF CalledInv, LedInv, Leads
<1>6. VotedInv'
  BY <1>2, <1>3 DEF GoInv, VotedInv
<1>7. CountedInv'
  <2>1. results[k] # e
    BY <1>2, LeaderAlone
  <2>2. validators[k] = e
    BY OpenLeads DEF Undisturbed
  <2>3. \A m \in Node : Leads(m)' => m = k
    BY <1>2, <1>3 DEF Leads
  <2> QED
    BY <1>3, <2>1, <2>2, <2>3 DEF CountedInv
<1> QED
  BY <1>4, <1>5, <1>6, <1>7 DEF GoInv

LEMMA WriteListGo ==
    ASSUME Inv, GoInv, NEW n \in Node, WriteList(n)
    PROVE  GoInv'
<1>1. /\ starter[n].pc = "list"
      /\ starter'[n].pc = "send" /\ starter'[n].list = starter[n].list
      /\ \A m \in Node \ {n} : starter'[m] = starter[m]
      /\ UNCHANGED <<validators, started, leader, heir, recent, voteVars, net, judge, opening,
                     historyVars>>
  BY DEF WriteList, Inv, TypeOK, Starter
<1> HIDE DEF WriteList
<1>2. YesInv' /\ CountedInv' /\ LedInv' /\ VotedInv' /\ JudgedInv'
  BY <1>1 DEF GoInv, YesInv, CountedInv, LedInv, VotedInv, JudgedInv, Leads, IsOnItsWay
<1>3. SizeInv' /\ CalledInv'
  BY <1>1 DEF GoInv, SizeInv, CalledInv, Leads, IsOnItsWay
<1> QED
  BY <1>2, <1>3 DEF GoInv

LEMMA SendStartGo ==
    ASSUME Inv, GoInv, Undisturbed, NEW k \in Node, NEW l \in SUBSET Node, NEW e \in SUBSET Node,
           Open(k, l, e), NEW n \in Node, SendStart(n)
    PROVE  GoInv'
<1>1. n = k /\ starter[k].pc = "send"
  BY DEF Open, Others, SendStart
<1>2. /\ ~Sent(k) /\ Active(k) /\ Leads(k) /\ validators[k] = e
      /\ \A m \in Node \ {k} : ~started[m]
  BY <1>1 DEF Open, Leading, Active, Sent, Leads
<1>3. /\ results'[k] = results[k] \cup {k}
      /\ starter'[k].pc = "idle"
      /\ \A m \in Node \ {k} : results'[m] = results[m] /\ starter'[m] = starter[m]
      /\ UNCHANGED <<fileVars, tally, judge, opening, historyVars>>
  BY <1>1 DEF SendStart, AddOwnResult, StarterIdle, Inv, TypeOK
<1>4. /\ net \subseteq net'
      /\ \A r \in net' : r \in net \/ (r.type = "start" /\ r.list = starter[k].list)
      /\ \A m \in e \ {k} : IsOnItsWay("start", m)'
  <2>1. validators[k] \in SUBSET Node /\ starter[k].list \in SUBSET Node
    BY DEF Inv, TypeOK, Starter
  <2>2. net' = net \cup Send(k, validators[k],
                  [type |-> "start", from |-> k, to |-> k, list |-> starter[k].list])
    BY <1>1 DEF SendStart
  <2>3. \A r \in net' : r \in net \/ (r.type = "start" /\ r.list = starter[k].list)
    BY <2>1, <2>2, Starts
  <2>4. \A m \in e \ {k} : IsOnItsWay("start", m)'
    BY <1>2, <2>2, StartToAll DEF IsOnItsWay
  <2> QED
    BY <2>2, <2>3, <2>4
<1> HIDE DEF SendStart
<1>5. YesInv' /\ SizeInv' /\ JudgedInv'
  <2>1. YesInv'
    BY <1>3, <1>4 DEF GoInv, YesInv
  <2>2. SizeInv' /\ JudgedInv'
    BY <1>1, <1>3, <1>4 DEF GoInv, SizeInv, JudgedInv
  <2> QED
    BY <2>1, <2>2
<1>6. CalledInv'
  BY <1>2, <1>3, <1>4, OpenLeads DEF CalledInv, Leads, Undisturbed
<1>7. LedInv'
  BY <1>3, <1>4 DEF GoInv, LedInv, Leads, IsOnItsWay
<1>8. VotedInv'
  BY <1>2, <1>3, <1>4 DEF GoInv, VotedInv, Leads, IsOnItsWay
<1>9. CountedInv'
  <2>1. results'[k] # e
    BY <1>2, <1>3, LeaderAlone
  <2> QED
    BY <1>2, <1>3, <2>1, OpenLeads DEF CountedInv, Leads, Undisturbed
<1> QED
  BY <1>5, <1>6, <1>7, <1>8, <1>9 DEF GoInv

-----------------------------------------------------------------------------
(* The worker that judges lists, and the server before the votes *)

LEMMA JudgeListGo ==
    ASSUME Inv, GoInv, Undisturbed, Undisturbed', NEW n \in Node, NEW vote \in Vote,
           JudgeList(n, vote)
    PROVE  GoInv'
<1>1. started[n] /\ n \notin results[n] /\ vote = "yes"
  BY DEF JudgeList, Undisturbed, Vote
<1>2. /\ judge'[n] = [pc |-> "vote", vote |-> vote]
      /\ \A m \in Node \ {n} : judge'[m] = judge[m]
      /\ UNCHANGED <<fileVars, voteVars, net, starter, opening, kept>>
  BY DEF JudgeList, Inv, TypeOK
<1>3. \A r \in net : r.type # "news"
  <2>1. PICK k \in Node, l \in SUBSET Node, e \in SUBSET Node :
           Open(k, l, e) \/ Closing(k, l, e)
    BY DEF Inv, PhaseInv, Undisturbed, Broken
  <2>2. Open(k, l, e)
    BY <2>1, JudgeListClosing
  <2> QED
    BY <2>2 DEF Open, OnlyStarts
<1> HIDE DEF JudgeList
<1>4. YesInv'
  BY <1>1, <1>2 DEF GoInv, YesInv
<1>5. SizeInv' /\ CalledInv' /\ CountedInv' /\ LedInv'
  BY <1>2 DEF GoInv, SizeInv, CalledInv, CountedInv, LedInv, Leads, IsOnItsWay
<1>6. VotedInv'
  BY <1>1, <1>2 DEF GoInv, VotedInv, IsOnItsWay
<1>7. JudgedInv'
  BY <1>2, <1>3 DEF JudgedInv
<1> QED
  BY <1>4, <1>5, <1>6, <1>7 DEF GoInv

LEMMA SendVoteGo ==
    ASSUME Inv, GoInv, Undisturbed, NEW n \in Node, SendVote(n)
    PROVE  GoInv'
<1>1. /\ judge[n].pc = "vote" /\ judge'[n].pc = "idle"
      /\ results'[n] = results[n] \cup {n}
      /\ \A m \in Node \ {n} : judge'[m] = judge[m] /\ results'[m] = results[m]
      /\ \A r \in net' : r \in net \/ (r.type = "vote" /\ r.from = n /\ r.vote = judge[n].vote)
      /\ net \subseteq net'
      /\ UNCHANGED <<fileVars, tally, starter, opening, historyVars>>
  BY SendVoteEffect DEF Inv
<1>2. \A m \in validators[n] \ {n} :
         \E r \in net' : r.type = "vote" /\ r.from = n /\ r.to = m
  <2>1. validators[n] \in SUBSET Node
    BY DEF Inv, TypeOK
  <2> QED
    BY <2>1, VoteToAll DEF SendVote
<1>3. PICK k \in Node, l \in SUBSET Node, e \in SUBSET Node :
         Open(k, l, e) \/ Closing(k, l, e)
  BY DEF Inv, PhaseInv, Undisturbed, Broken
<1> HIDE DEF SendVote
<1>4. YesInv' /\ JudgedInv'
  <2>1. YesInv'
    BY <1>1 DEF GoInv, YesInv
  <2>2. JudgedInv'
    BY <1>1 DEF GoInv, JudgedInv
  <2> QED
    BY <2>1, <2>2
<1>5. SizeInv' /\ CalledInv' /\ LedInv'
  <2>1. SizeInv' /\ LedInv'
    BY <1>1 DEF GoInv, SizeInv, LedInv, Leads, IsOnItsWay
  <2>2. CalledInv'
    BY <1>1 DEF GoInv, CalledInv, Leads, IsOnItsWay
  <2> QED
    BY <2>1, <2>2
<1>6. VotedInv'
  <2> SUFFICES ASSUME NEW m \in Node \ kept
               PROVE  /\ m \in results'[m] \/ judge'[m].pc = "vote" => started[m]
                      /\ started[m] /\ m \in results'[m] /\ leader[m] # m =>
                            \/ \E r \in net' : r.type = "vote" /\ r.from = m /\ r.to = leader[m]
                            \/ m \in results'[leader[m]]
                            \/ IsOnItsWay("news", m)'
    BY <1>1 DEF VotedInv
  <2>1. CASE m # n
    <3>1. started[m] => leader[m] \in Node
      BY LeaderIsValidator DEF GoInv
    <3> QED
      BY <1>1, <2>1, <3>1 DEF GoInv, VotedInv, IsOnItsWay
  <2>2. CASE m = n
    <3>1. started[n]
      BY <1>1, <2>2 DEF GoInv, VotedInv
    <3>2. leader[n] \in validators[n]
      BY <3>1, LeaderIsValidator DEF GoInv
    <3> QED
      BY <1>2, <2>2, <3>1, <3>2
  <2> QED
    BY <2>1, <2>2
<1>7. CountedInv'
  <2> SUFFICES ASSUME NEW m \in Node, Leads(m) PROVE results'[m] # validators[m]
    BY <1>1 DEF CountedInv, Leads
  <2>1. CASE m # n \/ n \in results[n]
    <3>1. results'[m] = results[m]
      BY <1>1, <2>1
    <3> QED
      BY <3>1 DEF GoInv, CountedInv
  <2>2. CASE m = n /\ n \notin results[n]
    <3>1. starter[n].pc # "idle"
      BY <2>2 DEF GoInv, CalledInv
    <3>2. Open(k, l, e) /\ n = k /\ validators[n] = e
      BY <1>3, <2>2, OpenLeads, ClosingLeads DEF Undisturbed, GoInv
    <3>3. Active(k) /\ ~Sent(k)
      BY <3>1, <3>2 DEF Active, Open, Leading
    <3>4. results'[k] # e
      BY <1>1, <3>2, <3>3, LeaderAlone
    <3> QED
      BY <2>2, <3>2, <3>4
  <2> QED
    BY <2>1, <2>2
<1> QED
  BY <1>4, <1>5, <1>6, <1>7 DEF GoInv

LEMMA OpenAgreementGo ==
    ASSUME Inv, GoInv, Undisturbed, NEW n \in Node, OpenAgreement(n)
    PROVE  GoInv'
<1>1. PICK k \in Node, l \in SUBSET Node, e \in SUBSET Node :
         Open(k, l, e) \/ Closing(k, l, e)
  BY DEF Inv, PhaseInv, Undisturbed, Broken
<1>2. n # k /\ started[n] /\ leader[n] = k /\ opening[n].from = k
  BY <1>1 DEF Open, Closing, Others, Leading, Resting, Following, Torn, OpenAgreement
<1>3. /\ results'[n] = results[n] \cup {k}
      /\ tally'[n] = [Results(n) EXCEPT ![k] = "yes"]
      /\ \A u \in Node \ {n} : results'[u] = results[u] /\ tally'[u] = tally[u]
      /\ UNCHANGED <<validators, started, leader, heir, recent, net, starter, judge, kept>>
  <2>1. AddResult(n, k, "yes")
    BY <1>2 DEF OpenAgreement
  <2>2. "yes" \in Vote
    BY DEF Vote
  <2> QED
    BY <2>1, <2>2, AddResultEffect DEF OpenAgreement, Inv
<1> HIDE DEF OpenAgreement
<1>4. YesInv'
  <2>1. \A m \in Node : tally'[n][m] # "no"
    <3>1. \A m \in Node : Results(n)[m] # "no"
      BY DEF Results, GoInv, YesInv
    <3> QED
      BY <1>3, <3>1, ResultsType DEF Inv
  <2>2. \A m, u \in Node : tally'[m][u] # "no"
    <3>1. \A m \in Node \ {n} : tally'[m] = tally[m]
      BY <1>3
    <3>2. \A m, u \in Node : tally[m][u] # "no"
      BY DEF GoInv, YesInv
    <3> QED
      BY <2>1, <3>1, <3>2
  <2>3. UNCHANGED <<judge, net, heir>>
    BY <1>3
  <2> QED
    BY <2>2, <2>3 DEF GoInv, YesInv
<1>5. SizeInv' /\ CalledInv' /\ LedInv' /\ JudgedInv'
  BY <1>3 DEF GoInv, SizeInv, CalledInv, LedInv, JudgedInv, Leads, IsOnItsWay
<1>6. VotedInv'
  <2>1. \A m \in Node : results[m] \subseteq results'[m] /\ (m \in results'[m] => m \in results[m])
    BY <1>2, <1>3
  <2>2. \A m \in Node : started[m] => leader[m] \in Node
    BY LeaderIsValidator DEF GoInv
  <2> QED
    BY <1>3, <2>1, <2>2 DEF GoInv, VotedInv, IsOnItsWay
<1>7. CountedInv'
  BY <1>2, <1>3 DEF GoInv, CountedInv, Leads
<1> QED
  BY <1>4, <1>5, <1>6, <1>7 DEF GoInv

\* A start that comes late is one that was due: it is never turned down.
LEMMA ReceiveStartGo ==
    ASSUME Inv, GoInv, Undisturbed, ProposedNumber = ValidatorsNumber,
           NEW n \in Node, NEW r \in net, ReceiveStart(n, r)
    PROVE  GoInv'
<1>1. r.type = "start" /\ r.to = n
  BY DEF ReceiveStart, Reaches
<1>2. PICK k \in Node, l \in SUBSET Node, e \in SUBSET Node : Open(k, l, e)
  BY <1>1 DEF Inv, PhaseInv, Undisturbed, Closing, Broken
<1>3. /\ r.from = k /\ n \in e /\ ~started[n] /\ n # k
      /\ Leads(k) /\ k \in e /\ \A m \in Node : validators[m] = e
  BY <1>1, <1>2 DEF Open, OnlyStarts, Leading, Sent, InForce, Undisturbed, Inv, MemoryInv, Leads
<1>4. MayOpen(n, r)
  BY <1>1, <1>3 DEF MayOpen, GoInv, SizeInv
<1>5. /\ started'[n] = TRUE /\ leader'[n] = k
      /\ \A m \in Node \ {n} : started'[m] = started[m] /\ leader'[m] = leader[m]
      /\ \A m \in Node : heir'[m] \in {NoNode, heir[m]}
      /\ net' = net \ {r}
      /\ UNCHANGED <<validators, recent, list, voteVars, starter, judge, historyVars>>
  BY <1>3, <1>4 DEF ReceiveStart, SetInfo, Inv, TypeOK
<1> HIDE DEF ReceiveStart
<1>6. YesInv' /\ SizeInv' /\ JudgedInv'
  <2>1. YesInv'
    BY <1>5 DEF GoInv, YesInv
  <2>2. SizeInv' /\ JudgedInv'
    BY <1>5 DEF GoInv, SizeInv, JudgedInv
  <2> QED
    BY <2>1, <2>2
<1>7. \A m \in Node : Leads(m)' <=> Leads(m)
  BY <1>3, <1>5 DEF Leads
<1>8. CalledInv'
  <2>1. \A m \in Node \ {n} : IsOnItsWay("start", m) => IsOnItsWay("start", m)'
    BY <1>1, <1>5 DEF IsOnItsWay
  <2>2. \A m \in Node : Leads(m) => m = k
    BY <1>2, OpenLeads DEF Undisturbed
  <2>3. \A m \in validators[k] \ {k} : m \in Node /\ (started'[m] \/ m # n)
    BY <1>5 DEF Inv, TypeOK
  <2>4. ASSUME starter[k].pc = "idle", NEW m \in validators[k] \ {k}
        PROVE  started'[m] \/ IsOnItsWay("start", m)'
    <3>1. started[m] \/ IsOnItsWay("start", m)
      BY <1>3, <2>4 DEF GoInv, CalledInv
    <3> QED
      BY <1>5, <2>1, <2>3, <3>1
  <2>5. starter[k].pc = "idle" => k \in results[k]
    BY <1>3 DEF GoInv, CalledInv
  <2> QED
    BY <1>5, <1>7, <2>2, <2>4, <2>5 DEF CalledInv
<1>9. LedInv'
  <2>1. \A m \in Node : IsOnItsWay("news", m) => IsOnItsWay("news", m)'
    BY <1>1, <1>5 DEF IsOnItsWay
  <2>2. \A m \in Node : started[m] => leader[m] = k
    BY <1>2, OpenLeads DEF Undisturbed
  <2> QED
    BY <1>3, <1>5, <1>7, <2>1, <2>2 DEF GoInv, LedInv
<1>10. CountedInv'
  BY <1>5, <1>7 DEF GoInv, CountedInv
<1>11. VotedInv'
  <2>1. \A m \in Node : IsOnItsWay("news", m) => IsOnItsWay("news", m)'
    BY <1>1, <1>5 DEF IsOnItsWay
  <2>2. \A s \in net : s.type = "vote" => s \in net'
    BY <1>1, <1>5
  <2>3. n \notin kept => n \notin results[n]
    BY <1>3 DEF GoInv, VotedInv
  <2> QED
    BY <1>5, <2>1, <2>2, <2>3 DEF GoInv, VotedInv
<1> QED
  BY <1>6, <1>8, <1>9, <1>10, <1>11 DEF GoInv

-----------------------------------------------------------------------------
(* The votes and the news *)

\* A step that takes the vote r from the net and changes no file but results.
LEMMA VoteTakenGo ==
    ASSUME Inv, GoInv, Undisturbed, NEW n \in Node, NEW r \in net, r.type = "vote", r.to = n,
           net' = net \ {r},
           \A m \in Node : results[m] \subseteq results'[m]
                           /\ (m \in results'[m] => m \in results[m]),
           \A m \in Node : r.from = m /\ started[m] /\ leader[m] = n =>
               m \in results'[n] \/ IsOnItsWay("news", m),
           \A m \in Node : Leads(m) => results'[m] # validators[m],
           \A m, u \in Node : tally'[m][u] # "no",
           UNCHANGED <<validators, started, leader, heir, starter, judge, kept>>
    PROVE  GoInv'
<1>1. \A type \in {"start", "news"}, m \in Node : IsOnItsWay(type, m) => IsOnItsWay(type, m)'
  BY DEF IsOnItsWay
<1>2. YesInv' /\ SizeInv' /\ JudgedInv'
  <2>1. YesInv'
    BY DEF GoInv, YesInv
  <2>2. SizeInv' /\ JudgedInv'
    BY DEF GoInv, SizeInv, JudgedInv
  <2> QED
    BY <2>1, <2>2
<1>3. LedInv' /\ CountedInv'
  BY <1>1 DEF GoInv, LedInv, CountedInv, Leads
<1>4. CalledInv'
  <2>1. \A k \in Node : validators[k] \subseteq Node
    BY DEF Inv, TypeOK
  <2> QED
    BY <1>1, <2>1 DEF GoInv, CalledInv, Leads
<1>5. VotedInv'
  <2> SUFFICES ASSUME NEW m \in Node \ kept, started[m], m \in results[m], leader[m] # m,
                      m \notin results'[leader[m]], ~IsOnItsWay("news", m)'
               PROVE  \E s \in net' : s.type = "vote" /\ s.from = m /\ s.to = leader[m]
    BY DEF GoInv, VotedInv
  <2>1. ~IsOnItsWay("news", m) /\ leader[m] \in Node
    BY <1>1, LeaderIsValidator DEF GoInv
  <2>2. m \notin results[leader[m]]
    BY <2>1
  <2>3. PICK s \in net : s.type = "vote" /\ s.from = m /\ s.to = leader[m]
    BY <2>1, <2>2 DEF GoInv, VotedInv
  <2>4. s # r
    BY <2>1, <2>3
  <2> QED
    BY <2>3, <2>4
<1> QED
  BY <1>2, <1>3, <1>4, <1>5 DEF GoInv

\* A vote is turned down only if its sender is counted already, or no longer asked.
LEMMA VoteRefusedGo ==
    ASSUME Inv, GoInv, Undisturbed, NEW n \in Node, NEW r \in net, r.type = "vote", r.to = n,
           VoteRefused(n, r)
    PROVE  GoInv'
<1>1. net' = net \ {r}
      /\ UNCHANGED <<validators, started, leader, heir, starter, judge, kept, results, tally>>
  BY DEF VoteRefused
<1>2. r.from \notin validators[n] \/ Results(n)[r.from] = "yes"
  BY DEF VoteRefused
<1>3. ASSUME NEW m \in Node, r.from = m, started[m], leader[m] = n
      PROVE  m \in results[n] \/ IsOnItsWay("news", m)
  <2>1. PICK k \in Node, l \in SUBSET Node, e \in SUBSET Node :
           Open(k, l, e) \/ Closing(k, l, e)
    BY DEF Inv, PhaseInv, Undisturbed, Broken
  <2>2. CASE Open(k, l, e)
    <3>1. m \in e
      BY <1>3, <2>2, OpenLeads DEF Undisturbed
    <3>2. validators[n] = e
      BY <2>2 DEF Open, InForce, Undisturbed
    <3>3. Results(n)[m] = "yes"
      BY <1>2, <1>3, <3>1, <3>2
    <3> QED
      BY <3>3, ResultsRows DEF Inv, MemoryInv
  <2>3. CASE Closing(k, l, e)
    BY <1>3, <2>3, ClosingLeads DEF GoInv, Undisturbed
  <2> QED
    BY <2>1, <2>2, <2>3
<1> HIDE DEF VoteRefused
<1>4. \A m \in Node : Leads(m) => results'[m] # validators[m]
  BY <1>1 DEF GoInv, CountedInv
<1>5. \A m, u \in Node : tally'[m][u] # "no"
  BY <1>1 DEF GoInv, YesInv
<1> QED
  BY <1>1, <1>3, <1>4, <1>5, VoteTakenGo

\* After a vote that does not end the agreement of a leader some vote is missing there.
LEMMA VoteAddedGo ==
    ASSUME Inv, GoInv, Undisturbed, NEW n \in Node, NEW r \in net, r.type = "vote", r.to = n,
           VoteAdded(n, r)
    PROVE  GoInv'
<1>1. r.from \in Node /\ r.from # n /\ r.vote = "yes" /\ r.vote \in Vote
  BY RequestFields DEF Inv, TypeOK, MemoryInv, GoInv, YesInv
<1>2. /\ net' = net \ {r}
      /\ UNCHANGED <<validators, started, leader, heir, starter, judge, kept>>
      /\ AddResult(n, r.from, r.vote) /\ ~Ending(n, r)
  BY DEF VoteAdded
<1> HIDE DEF VoteAdded
<1>3. /\ results'[n] = results[n] \cup {r.from}
      /\ tally'[n] = [Results(n) EXCEPT ![r.from] = r.vote]
      /\ \A u \in Node \ {n} : results'[u] = results[u] /\ tally'[u] = tally[u]
  BY <1>1, <1>2, AddResultEffect DEF Inv
<1>4. \A m \in Node : results[m] \subseteq results'[m] /\ (m \in results'[m] => m \in results[m])
  BY <1>1, <1>3
<1>5. ASSUME NEW m \in Node, Leads(m) PROVE results'[m] # validators[m]
  <2>1. CASE m = n
    <3>1. Leader(n) = n
      BY <1>5, <2>1 DEF Leader, Leads, GoInv, YesInv
    <3>2. Cardinality(results[n] \cup {r.from}) # Cardinality(validators[n])
      BY <1>2, <3>1, CountingRows DEF Ending, HasEnded, Inv
    <3> QED
      BY <1>3, <2>1, <3>2
  <2>2. CASE m # n
    BY <1>3, <1>5, <2>2 DEF GoInv, CountedInv
  <2> QED
    BY <2>1, <2>2
<1>6. ASSUME NEW m \in Node, NEW u \in Node PROVE tally'[m][u] # "no"
  <2>1. \A v \in Node : Results(n)[v] # "no"
    BY DEF Results, GoInv, YesInv
  <2>2. CASE m = n
    BY <1>1, <1>3, <2>1, <2>2, ResultsType DEF Inv
  <2>3. CASE m # n
    BY <1>3, <2>3 DEF GoInv, YesInv
  <2> QED
    BY <2>2, <2>3
<1>7. \A m \in Node : r.from = m /\ started[m] /\ leader[m] = n =>
         m \in results'[n] \/ IsOnItsWay("news", m)
  BY <1>3
<1> QED
  BY <1>2, <1>4, <1>5, <1>6, <1>7, VoteTakenGo

\* Without a vote against it, an agreement does not fail.
LEMMA VoteFailsNot ==
    ASSUME Inv, GoInv, NEW n \in Node, NEW r \in net, r.type = "vote", VoteFails(n, r)
    PROVE  FALSE
<1> DEFINE votes == Counting(n, r)
           given == {m \in Node : votes[m] # "none"}
<1>1. r.from \in Node /\ r.vote = "yes"
  BY RequestFields DEF Inv, TypeOK, GoInv, YesInv
<1>2. \A m \in Node : votes[m] \in {"yes", "none"}
  <2>1. \A m \in Node : Results(n)[m] # "no"
    BY DEF Results, GoInv, YesInv
  <2> QED
    BY <1>1, <2>1, ResultsType DEF Counting, Inv, Vote
<1>3. {m \in Node : votes[m] = "yes"} = given
  BY <1>2
<1>4. r.from \in given
  BY <1>1, ResultsType DEF Counting, Inv
<1>5. Cardinality(given) \in Nat /\ Cardinality(given) # 0
  <2>1. given \in SUBSET Node /\ given # {}
    BY <1>4
  <2>2. IsFiniteSet(given) /\ Cardinality(given) \in Nat
    BY <2>1, NodesFinite
  <2> HIDE DEF given
  <2> QED
    BY <2>1, <2>2, FS_EmptySet
<1>6. Cardinality(given) = Cardinality(validators[n])
  BY DEF VoteFails, Ending, HasEnded
<1>7. ~(2 * Cardinality(given) > Cardinality(validators[n]))
  BY <1>3 DEF VoteFails, IsSuccess, Positive
<1> HIDE DEF given
<1> QED
  BY <1>5, <1>6, <1>7

LEMMA VoteInstallsGo ==
    ASSUME Inv, GoInv, Undisturbed, NEW n \in Node, NEW r \in net, r.type = "vote", r.to = n,
           VoteInstalls(n, r)
    PROVE  GoInv'
<1>0. r.from \in Node /\ r.from # n /\ r.vote = "yes" /\ r.vote \in Vote
  BY RequestFields DEF Inv, TypeOK, MemoryInv, GoInv, YesInv
<1>1. PICK k \in Node, l \in SUBSET Node, e \in SUBSET Node : Open(k, l, e)
  <2>1. PICK k \in Node, l \in SUBSET Node, e \in SUBSET Node :
           Open(k, l, e) \/ Closing(k, l, e)
    BY DEF Inv, PhaseInv, Undisturbed, Broken
  <2> QED
    BY <2>1, NoEndingClosing DEF VoteInstalls
<1>2. /\ n = k /\ Counted(k, l, e)
      /\ results[k] \cup {r.from} = e /\ r.from # k
      /\ \A m \in e \ {k} : started[m] /\ m \in results[m]
  <2>1. r.from \in validators[n] /\ Ending(n, r)
    BY DEF VoteInstalls
  <2>2. TypeOK /\ MemoryInv
    BY DEF Inv
  <2> QED
    BY <1>1, <2>1, <2>2, EndingOpen, SMTT(30)
<1>3. /\ ~started'[k] /\ heir'[k] = NoNode /\ leader'[k] = NoNode
      /\ \A m \in Node \ {k} : /\ started'[m] = started[m] /\ leader'[m] = leader[m]
                               /\ heir'[m] = heir[m]
      /\ kept' = kept \cup {k} /\ UNCHANGED procVars
  BY <1>2 DEF VoteInstalls, SetInfo, Inv, TypeOK
<1>4. /\ \A m \in Node : tally'[k][m] # "no"
      /\ \A m \in Node \ {k} : results'[m] = results[m] /\ tally'[m] = tally[m]
  <2>1. \A m \in Node : Results(n)[m] # "no"
    BY DEF Results, GoInv, YesInv
  <2>2. /\ tally'[n] = [Results(n) EXCEPT ![r.from] = r.vote]
        /\ \A m \in Node \ {n} : results'[m] = results[m] /\ tally'[m] = tally[m]
    BY <1>0, AddResultEffect DEF VoteInstalls, Inv
  <2> QED
    BY <1>0, <1>2, <2>1, <2>2, ResultsType DEF Inv
<1>5. /\ \A s \in net' : s \in net \/ (s.type = "news" /\ s.from = k)
      /\ \A m \in Node \ {k} : IsOnItsWay("news", m)'
  <2>1. net' = (net \ {r}) \cup
                 Send(n, Node, [type |-> "news", from |-> n, to |-> n, list |-> list[n]])
        /\ list[n] \in SUBSET Node
    BY DEF VoteInstalls, Inv, TypeOK
  <2>2. \A s \in Send(n, Node, [type |-> "news", from |-> n, to |-> n, list |-> list[n]]) :
           s.type = "news" /\ s.from = n
    BY <2>1, News
  <2>3. \A m \in Node \ {k} : IsOnItsWay("news", m)'
    BY <1>2, <2>1, NewsToAll DEF IsOnItsWay
  <2> QED
    BY <1>2, <2>1, <2>2, <2>3
<1> HIDE DEF VoteInstalls
<1>6. YesInv'
  BY <1>3, <1>4, <1>5 DEF GoInv, YesInv
<1>7. SizeInv'
  BY <1>3, <1>5 DEF GoInv, SizeInv
<1>8. \A m \in Node : ~Leads(m)'
  <2>1. \A m \in Node \ {k} : ~Leads(m)
    BY <1>1, OpenLeads DEF Undisturbed
  <2> QED
    BY <1>3, <2>1 DEF Leads
<1>9. CalledInv' /\ CountedInv' /\ LedInv'
  BY <1>3, <1>5, <1>8 DEF CalledInv, CountedInv, LedInv
<1>10. VotedInv'
  BY <1>3, <1>4, <1>5 DEF GoInv, VotedInv
<1>11. JudgedInv'
  <2>1. \A s \in net' : s.type = "news" => s.from = k
    BY <1>1, <1>5 DEF Open, OnlyStarts
  <2>2. ASSUME NEW u \in Node \ {k}, judge[u].pc = "vote" PROVE FALSE
    <3>1. VotesOnce(u, k, l)
      BY <1>2 DEF Counted
    <3>2. started[u] /\ u \notin results[u]
      BY <2>2, <3>1 DEF VotesOnce
    <3>3. u \in e
      BY <1>1, <3>2, OpenLeads DEF Undisturbed
    <3> QED
      BY <1>2, <3>2, <3>3
  <2> QED
    BY <1>3, <2>1, <2>2 DEF JudgedInv
<1> QED
  BY <1>6, <1>7, <1>9, <1>10, <1>11 DEF GoInv

LEMMA ReceiveVoteGo ==
    ASSUME Inv, GoInv, Undisturbed, NEW n \in Node, NEW r \in net, ReceiveVote(n, r)
    PROVE  GoInv'
<1>1. r.type = "vote" /\ r.to = n
      /\ (VoteRefused(n, r) \/ VoteAdded(n, r) \/ VoteFails(n, r) \/ VoteInstalls(n, r))
  BY VoteOutcomes
<1> QED
  BY <1>1, VoteRefusedGo, VoteAddedGo, VoteFailsNot, VoteInstallsGo

LEMMA ReceiveNewsGo ==
    ASSUME Inv, GoInv, Undisturbed, NEW n \in Node, NEW r \in net, ReceiveNews(n, r)
    PROVE  GoInv'
<1>1. /\ r.type = "news" /\ r.to = n /\ net' = net \ {r} /\ UNCHANGED procVars
      /\ r.from # n
  BY DEF ReceiveNews, Reaches, Inv, MemoryInv
<1>2. PICK k \in Node, l \in SUBSET Node, e \in SUBSET Node : Closing(k, l, e)
  BY <1>1 DEF Inv, PhaseInv, Undisturbed, Open, OnlyStarts, Broken
<1>3. r.from = k
  BY <1>1, <1>2 DEF Closing
<1>4. \A m \in Node :
         /\ ~Leads(m)
         /\ started[m] => k \in validators[m] /\ leader[m] = k /\ IsOnItsWay("news", m)
  BY <1>2, ClosingLeads DEF GoInv, Undisturbed
<1>5. \A m \in Node \ {n} : IsOnItsWay("news", m) => IsOnItsWay("news", m)'
  BY <1>1 DEF IsOnItsWay
<1>6. /\ ~started'[n]
      /\ \A m \in Node \ {n} : /\ started'[m] = started[m] /\ leader'[m] = leader[m]
                               /\ results'[m] = results[m]
      /\ \A m \in Node : heir'[m] \in {NoNode, heir[m]}
      /\ \A m, u \in Node : tally'[m][u] \in {"none", tally[m][u]}
      /\ \/ kept' = kept \ {n} /\ results'[n] = {}
         \/ kept' = kept /\ results'[n] = results[n] /\ ~started[n]
  <2>1. CASE k \in validators[n]
    BY <1>3, <2>1 DEF ReceiveNews, SetInfo, NoVotes, Inv, TypeOK
  <2>2. CASE k \notin validators[n]
    <3>1. UNCHANGED <<fileVars, voteVars, kept>>
      BY <1>3, <2>2 DEF ReceiveNews
    <3>2. ~started[n]
      BY <1>4, <2>2
    <3> QED
      BY <3>1, <3>2
  <2> QED
    BY <2>1, <2>2
<1> HIDE DEF ReceiveNews
<1>7. YesInv' /\ SizeInv' /\ JudgedInv'
  <2>1. YesInv'
    BY <1>1, <1>6 DEF GoInv, YesInv
  <2>2. SizeInv' /\ JudgedInv'
    BY <1>1 DEF GoInv, SizeInv, JudgedInv
  <2> QED
    BY <2>1, <2>2
<1>8. CalledInv' /\ CountedInv' /\ LedInv'
  <2>1. \A m \in Node : ~Leads(m)'
    BY <1>4, <1>6 DEF Leads
  <2> QED
    BY <1>4, <1>5, <1>6, <2>1 DEF CalledInv, CountedInv, LedInv
<1>9. VotedInv'
  <2>1. judge[n].pc # "vote"
    BY <1>1 DEF GoInv, JudgedInv
  <2> QED
    BY <1>1, <1>4, <1>5, <1>6, <2>1 DEF GoInv, VotedInv
<1> QED
  BY <1>7, <1>8, <1>9 DEF GoInv

-----------------------------------------------------------------------------
(* Every step keeps agreements going *)

\* What disturbed agreements is not forgotten.
LEMMA StaysDisturbed == [Next]_vars /\ Undisturbed' => Undisturbed
<1> DEFINE Calm == untold = {} /\ crashed = {} /\ died = {} /\ ~refused
<1> SUFFICES ASSUME [Next]_vars, Undisturbed' PROVE ~overlapped /\ Calm
  BY DEF Undisturbed
<1>0. ~overlapped' /\ untold' = {} /\ crashed' = {} /\ died' = {} /\ ~refused'
  BY DEF Undisturbed
<1>1. ~overlapped
  BY <1>0, HistoryGrows
<1>2. ASSUME NEW n \in Node, NEW vote \in Vote, JudgeList(n, vote) PROVE Calm
  <2>1. refused' = (refused \/ vote = "no") /\ UNCHANGED <<untold, crashed, died>>
    BY <1>2 DEF JudgeList
  <2> QED
    BY <1>0, <2>1
<1>3. ASSUME UNCHANGED <<untold, crashed, died, refused>> PROVE Calm
  BY <1>0, <1>3
<1>4. ASSUME NEW n \in Node, StarterStep(n) \/ SendVote(n) \/ TimePasses(n) PROVE Calm
  BY <1>3, <1>4 DEF StarterStep, StartIsDue, WriteInfo, WriteList, SendStart, SendVote, TimePasses
<1>5. ASSUME NEW n \in Node, ServerStep(n) PROVE Calm
  <2>1. ASSUME OpenAgreement(n) PROVE UNCHANGED <<untold, crashed, died, refused>>
    BY <2>1 DEF OpenAgreement
  <2>2. ASSUME NEW r \in net, ReceiveStart(n, r)
        PROVE  UNCHANGED <<untold, crashed, died, refused>>
    BY <2>2 DEF ReceiveStart
  <2>3. ASSUME NEW r \in net, ReceiveVote(n, r)
        PROVE  UNCHANGED <<untold, crashed, died, refused>>
    BY <2>3 DEF ReceiveVote
  <2>4. ASSUME NEW r \in net, ReceiveNews(n, r)
        PROVE  UNCHANGED <<untold, crashed, died, refused>>
    BY <2>4 DEF ReceiveNews
  <2> QED
    BY <1>3, <1>5, <2>1, <2>2, <2>3, <2>4 DEF ServerStep
<1>6. ASSUME NEW n \in Node, CrashStep(n) PROVE FALSE
  <2>1. PICK taken, missing : Stop(n, taken, missing)
    BY <1>6 DEF CrashStep, Restart, StopAtEnd, StopAtNews
  <2> QED
    BY <1>0, <2>1 DEF Stop
<1>7. ASSUME NEW n \in Node, NEW w \in {"starter", "judge"}, WorkerDies(n, w) PROVE FALSE
  BY <1>0, <1>7 DEF WorkerDies
<1>8. ASSUME NEW r \in net, Lose(r) PROVE Calm
  <2>1. untold \subseteq untold' /\ UNCHANGED <<crashed, died, refused>>
    BY <1>8 DEF Lose
  <2> QED
    BY <1>0, <2>1
<1>9. ASSUME UNCHANGED vars PROVE Calm
  BY <1>3, <1>9 DEF vars
<1>10. Calm
  BY <1>2, <1>4, <1>5, <1>6, <1>7, <1>8, <1>9 DEF Next, JudgeStep
<1> QED
  BY <1>1, <1>10

LEMMA InitGo == Init => GoInv
<1> SUFFICES ASSUME Init PROVE GoInv
  OBVIOUS
<1>1. YesInv /\ SizeInv /\ JudgedInv
  BY DEF Init, YesInv, SizeInv, JudgedInv, JudgeIdle, StarterIdle, NoVotes
<1>2. CalledInv /\ VotedInv /\ CountedInv /\ LedInv
  BY DEF Init, CalledInv, VotedInv, CountedInv, LedInv, Leads, JudgeIdle
<1> QED
  BY <1>1, <1>2 DEF GoInv

LEMMA StepGo ==
    ASSUME ProposedNumber = ValidatorsNumber, Inv, Undisturbed => GoInv, [Next]_vars
    PROVE  (Undisturbed => GoInv)'
<1> SUFFICES ASSUME Undisturbed' PROVE GoInv'
  OBVIOUS
<1>0. Undisturbed /\ GoInv
  BY StaysDisturbed
<1>1. ASSUME NEW n \in Node, StarterStep(n) PROVE GoInv'
  <2>1. ASSUME NEW l \in Proposal, StartIsDue(n, l) PROVE GoInv'
    BY <1>0, <2>1, StartIsDueGo
  <2>2. CASE WriteList(n)
    BY <1>0, <2>2, WriteListGo
  <2>3. CASE WriteInfo(n) \/ SendStart(n)
    <3>1. PICK k \in Node, l \in SUBSET Node, e \in SUBSET Node :
             Open(k, l, e) \/ Closing(k, l, e)
      BY <1>0 DEF Inv, PhaseInv, Undisturbed, Broken
    <3>2. Open(k, l, e)
      BY <2>3, <3>1 DEF Closing, WriteInfo, SendStart
    <3> QED
      BY <1>0, <2>3, <3>2, WriteInfoGo, SendStartGo
  <2> QED
    BY <1>1, <2>1, <2>2, <2>3 DEF StarterStep
<1>2. ASSUME NEW n \in Node, JudgeStep(n) PROVE GoInv'
  BY <1>0, <1>2, JudgeListGo, SendVoteGo DEF JudgeStep
<1>3. ASSUME NEW n \in Node, ServerStep(n) PROVE GoInv'
  <2>1. CASE OpenAgreement(n)
    BY <1>0, <2>1, OpenAgreementGo
  <2>2. ASSUME NEW r \in net, ReceiveStart(n, r) PROVE GoInv'
    BY <1>0, <2>2, ReceiveStartGo
  <2>3. ASSUME NEW r \in net, ReceiveVote(n, r) PROVE GoInv'
    BY <1>0, <2>3, ReceiveVoteGo
  <2>4. ASSUME NEW r \in net, ReceiveNews(n, r) PROVE GoInv'
    BY <1>0, <2>4, ReceiveNewsGo
  <2> QED
    BY <1>3, <2>1, <2>2, <2>3, <2>4 DEF ServerStep
<1>4. ASSUME UNCHANGED <<validators, started, leader, heir, results, tally, net, starter, judge,
                         kept>>
      PROVE  GoInv'
  <2>1. YesInv' /\ SizeInv' /\ JudgedInv'
    BY <1>0, <1>4 DEF GoInv, YesInv, SizeInv, JudgedInv
  <2>2. CalledInv' /\ VotedInv' /\ CountedInv' /\ LedInv'
    BY <1>0, <1>4 DEF GoInv, CalledInv, VotedInv, CountedInv, LedInv, Leads, IsOnItsWay
  <2> QED
    BY <2>1, <2>2 DEF GoInv
<1>5. ASSUME NEW n \in Node, TimePasses(n) PROVE GoInv'
  BY <1>4, <1>5 DEF TimePasses
<1>6. ASSUME NEW n \in Node, CrashStep(n) PROVE FALSE
  <2>1. PICK taken, missing : Stop(n, taken, missing)
    BY <1>6 DEF CrashStep, Restart, StopAtEnd, StopAtNews
  <2> QED
    BY <2>1 DEF Stop, Undisturbed
<1>9. ASSUME NEW n \in Node, NEW w \in {"starter", "judge"}, WorkerDies(n, w) PROVE FALSE
  BY <1>9 DEF WorkerDies, Undisturbed
<1>7. ASSUME NEW r \in net, Lose(r) PROVE FALSE
  BY <1>0, <1>7 DEF Lose, Undisturbed
<1>8. CASE UNCHANGED vars
  BY <1>4, <1>8 DEF vars
<1> QED
  BY <1>1, <1>2, <1>3, <1>5, <1>6, <1>7, <1>8, <1>9 DEF Next

\* The worker that judges lists has one before it.
JudgeIsDue(n) == n \in validators[n] /\ started[n] /\ n \notin results[n]

\* work_start_agreement to validator_agreement_end: an agreement that nothing disturbs never
\* waits for nothing.  As long as a node is in one, a request is on its way, a process is at
\* work, or a worker has a list to judge.  (What AgreementEnds needs to hold of every state,
\* with its exceptions.)
AgreementGoesOn ==
    Undisturbed /\ (\A n \in kept : n \notin validators[n]) /\ (\E n \in Node : started[n]) =>
        ~Quiet \/ \E n \in Node : JudgeIsDue(n)

\* Agreements go on to their ends if the length of a list is the same for the one who
\* proposes it and for those who receive it, which they calculate by two formulas.
THEOREM AgreementIsNotStuck ==
    ASSUME ProposedNumber = ValidatorsNumber PROVE Spec => []AgreementGoesOn
<1>1. Inv /\ (Undisturbed => GoInv) => AgreementGoesOn
  <2> SUFFICES ASSUME Inv, GoInv, Undisturbed, \A n \in kept : n \notin validators[n],
                      NEW n \in Node, started[n], Quiet, \A m \in Node : ~JudgeIsDue(m)
               PROVE  FALSE
    BY DEF AgreementGoesOn
  <2>1. PICK k \in Node, l \in SUBSET Node, e \in SUBSET Node :
           Open(k, l, e) \/ Closing(k, l, e)
    BY DEF Inv, PhaseInv, Undisturbed, Broken
  <2>2. Open(k, l, e)
    BY <2>1, ClosingLeads DEF GoInv, IsOnItsWay, Quiet, Undisturbed
  <2>3. Leads(k) /\ k \in e /\ validators[k] = e /\ Counted(k, l, e)
    BY <2>2, OpenLeads DEF Undisturbed
  <2>4. ASSUME NEW m \in e \ {k} PROVE m \in results[k]
    <3>1. started[m] /\ validators[m] = e
      BY <2>2, <2>3, OpenLeads DEF GoInv, CalledInv, Quiet, IsOnItsWay, Undisturbed
    <3>2. leader[m] = k
      BY <2>2, <3>1, OpenLeads DEF Undisturbed
    <3>3. m \in results[m] /\ m \notin kept
      BY <3>1 DEF JudgeIsDue
    <3> QED
      BY <3>1, <3>2, <3>3 DEF GoInv, VotedInv, Quiet, IsOnItsWay
  <2>5. k \in results[k]
    BY <2>3 DEF GoInv, CalledInv, Quiet
  <2>6. results[k] = e
    BY <2>3, <2>4, <2>5 DEF Counted
  <2> QED
    BY <2>3, <2>6 DEF GoInv, CountedInv
<1>2. Init => (Undisturbed => GoInv)
  BY InitGo
<1>3. Inv /\ (Undisturbed => GoInv) /\ [Next]_vars => (Undisturbed => GoInv)'
  BY StepGo
<1> QED
  BY <1>1, <1>2, <1>3, PhasesFollow, PTL DEF Spec
=============================================================================
