------------------------- MODULE Membership_proofs -------------------------
(***************************************************************************)
(* Proofs about Membership: types, that boots succeed (BootSucceeds), that *)
(* nodes come to know each other (JoinedKnowEachOther) and that the drawn  *)
(* validators are shared (DrawnAreShared), each but for what it names.     *)
(*                                                                         *)
(* StageInv says what is known of a node from where its boot stands, and   *)
(* FailInv what must have happened to one that registered and did not join. *)
(* KnowInv follows a registration: of those that joined, each knows the new *)
(* node or has it coming, since the handler still has it before it in the  *)
(* list of the genesis node; one that joins later gets the whole list.     *)
(* Before the draw nobody refuses the word of the genesis node             *)
(* (NotDrawnInv); at a draw that nothing disturbs all nodes have joined,   *)
(* and so know all those that the list may name (DrawnInv).                *)
(***************************************************************************)
EXTENDS Membership, FiniteSetTheorems, TLAPS

-----------------------------------------------------------------------------
(* Where a boot stands *)

\* What is known of n from where its server stands.
Stage(n) ==
    /\ pc[n] = "off" => nodes[n] = {}
    /\ pc[n] # "off" => n \in nodes[n]
    /\ pc[n] = "info" => nodes[n] = {n}
    /\ pc[n] \in {"info", "register", "registering", "update"} => n # Genesis
    /\ pc[n] \in {"register", "registering", "update"} =>
           Genesis \in nodes[n] /\ pc[Genesis] = "up"
    /\ pc[n] = "register" => n \notin nodes[Genesis]
    /\ pc[n] \in {"registering", "update"} => n \in nodes[Genesis]
    /\ n \in nodes[Genesis] =>
           pc[n] \in {"registering", "update", "up", "dead"} /\ Genesis \in nodes[n]
    /\ n \in joined => pc[n] \in {"up", "dead"} /\ n \in nodes[Genesis]
    /\ pc[n] = "registering" => visited[n] > 0
    /\ visited[n] > 0 => /\ n \in nodes[Genesis] \ {Genesis} /\ n \notin joined
                         /\ pc[n] \in {"registering", "up", "dead"}

StageInv ==
    /\ pc[Genesis] \in {"off", "up"}
    /\ \A n \in Node : Stage(n)

BootInv == TypeOK /\ StageInv

\* A new node at the end of the list.
LEMMA AppendRange ==
  ASSUME NEW n \in Node, roll \in Seq(Node), IsInjective(roll), n \notin Range(roll)
  PROVE  LET r == Append(roll, n) IN
         r \in Seq(Node) /\ IsInjective(r) /\ Range(r) = Range(roll) \cup {n}
  <1> DEFINE r == Append(roll, n)
  <1>1. /\ r \in Seq(Node)
        /\ DOMAIN roll = 1..Len(roll) /\ Len(roll) \in Nat
        /\ DOMAIN r = 1..(Len(roll) + 1)
        /\ \A i \in DOMAIN roll : r[i] = roll[i]
        /\ r[Len(roll) + 1] = n
    OBVIOUS
  <1> HIDE DEF r
  <1>2. \A i \in DOMAIN roll : roll[i] # n
    BY DEF Range
  <1>3. IsInjective(r)
    BY <1>1, <1>2 DEF IsInjective
  <1>4. Range(r) = Range(roll) \cup {n}
    BY <1>1 DEF Range
  <1> QED
    BY <1>1, <1>3, <1>4 DEF r

\* A node is alone when it knows itself only.
LEMMA Alone ==
  ASSUME BootInv, NEW n \in Node, pc[n] # "off"
  PROVE  IsAlone(n) <=> nodes[n] = {n}
  <1>1. nodes[n] \subseteq Node /\ n \in nodes[n]
    BY DEF BootInv, TypeOK, StageInv, Stage
  <1>2. IsFiniteSet(nodes[n])
    BY <1>1, GenesisAssumption, FS_Subset
  <1>3. CASE nodes[n] = {n}
    <2>1. Cardinality(nodes[n]) = 1
      BY <1>3, FS_Singleton
    <2> QED
      BY <1>3, <2>1 DEF IsAlone
  <1>4. CASE nodes[n] # {n}
    <2>1. PICK m \in nodes[n] : m # n
      BY <1>1, <1>4
    <2>2. IsFiniteSet({n, m}) /\ Cardinality({n, m}) = 2
      <3>1. IsFiniteSet({n}) /\ Cardinality({n}) = 1
        BY FS_Singleton
      <3>2. {n} \cup {m} = {n, m}
        OBVIOUS
      <3> QED
        BY <2>1, <3>1, <3>2, FS_AddElement
    <2>3. Cardinality({n, m}) =< Cardinality(nodes[n])
      BY <1>1, <1>2, <2>1, FS_Subset
    <2>4. Cardinality(nodes[n]) \in Nat
      BY <1>2, FS_CardinalityType
    <2> QED
      BY <1>4, <2>2, <2>3, <2>4 DEF IsAlone
  <1> QED
    BY <1>3, <1>4

\* The handler that registers n has told the i-th node, which learned of n, or did not.
Told(n, i) ==
    LET m == roll[i] IN
    /\ m \in Node \ {n, Genesis} /\ pc[m] = "up" /\ visited[n] > 0
    /\ i \in Nat /\ \A j \in Ahead(n) : i =< j
    /\ visited' = [visited EXCEPT ![n] = i + 1]
    /\ \/ AddNode(m, n) /\ UNCHANGED untold
       \/ n \in nodes[m] /\ UNCHANGED <<nodes, trusted, untold>>
       \/ ~IsValidator(m) /\ UNCHANGED <<nodes, trusted>> /\ untold' = untold \cup {m}

LEMMA PopulateTells ==
  ASSUME BootInv, NEW n \in Node, Populate(n)
  PROVE  \E i \in DOMAIN roll : Told(n, i)
  <1>1. \A i \in DOMAIN roll : roll[i] \in Node /\ i \in Nat
    BY DEF BootInv, TypeOK
  <1>2. PICK i \in DOMAIN roll :
            LET m == roll[i] IN
            /\ Tells(n, i)
            /\ pc[m] = "up"
            /\ visited' = [visited EXCEPT ![n] = i + 1]
            /\ IF IsValidator(m) /\ n \notin nodes[m]
                 THEN AddNode(m, n) /\ UNCHANGED untold
                 ELSE /\ untold' = IF n \in nodes[m] THEN untold ELSE untold \cup {m}
                      /\ UNCHANGED <<nodes, trusted>>
    BY Zenon DEF Populate
  <1>3. /\ visited[n] > 0 /\ roll[i] \notin {n, Genesis}
        /\ \A j \in Ahead(n) : i =< j
    BY <1>2 DEF Tells, Ahead
  <1>4. \/ AddNode(roll[i], n) /\ UNCHANGED untold
        \/ n \in nodes[roll[i]] /\ UNCHANGED <<nodes, trusted, untold>>
        \/ ~IsValidator(roll[i]) /\ UNCHANGED <<nodes, trusted>> /\ untold' = untold \cup {roll[i]}
    BY <1>2
  <1> QED
    BY <1>1, <1>2, <1>3, <1>4 DEF Told

LEMMA BootInit == Init => BootInv
  <1> SUFFICES ASSUME Init PROVE BootInv
    OBVIOUS
  <1>1. /\ roll \in Seq(Node) /\ IsInjective(roll) /\ Range(roll) = {}
    BY DEF Init, IsInjective, Range
  <1>2. TypeOK
    BY <1>1, GenesisAssumption DEF Init, TypeOK, Pc
  <1>3. StageInv
    BY GenesisAssumption DEF Init, StageInv, Stage
  <1> QED
    BY <1>2, <1>3 DEF BootInv

LEMMA BootStep ==
  ASSUME BootInv, [Next]_vars
  PROVE  BootInv'
  <1> USE GenesisAssumption
  <1> USE DEF BootInv, TypeOK, StageInv, Stage
  <1>0. ASSUME UNCHANGED vars PROVE BootInv'
    BY <1>0 DEF vars
  <1>1. ASSUME NEW n \in Node, Start(n) PROVE BootInv'
    <2>1. n = Genesis => roll' \in Seq(Node) /\ IsInjective(roll') /\ Range(roll') = {n}
      <3>1. n = Genesis => roll' = <<n>>
        BY <1>1 DEF Start
      <3> DEFINE r == <<n>>
      <3>2. r \in Seq(Node) /\ DOMAIN r = {1} /\ r[1] = n
        OBVIOUS
      <3> HIDE DEF r
      <3>3. IsInjective(r) /\ Range(r) = {n}
        BY <3>2 DEF IsInjective, Range
      <3> QED
        BY <3>1, <3>2, <3>3 DEF r
    <2>2. n = Genesis => nodes'[n] = {n}
      BY <1>1 DEF Start, Knowing
    <2>3. n # Genesis => nodes'[Genesis] = nodes[Genesis]
      BY <1>1 DEF Start, Knowing
    <2>4. TypeOK'
      <3>1. /\ roll' \in Seq(Node) /\ IsInjective(roll') /\ Range(roll') = nodes'[Genesis]
            /\ nodes' \in [Node -> SUBSET Node] /\ trusted' \in [Node -> SUBSET Node]
        BY <1>1, <2>1, <2>2, <2>3 DEF Start, Knowing, Trusting
      <3>2. /\ pc' \in [Node -> Pc] /\ validators' \in [Node -> SUBSET Node]
            /\ hasChain' \subseteq Node /\ joined' \subseteq Node
        <4>1. CASE n = Genesis
          <5>1. pc' = [pc EXCEPT ![n] = "up"] /\ "up" \in Pc
            BY <1>1, <4>1 DEF Start, Goto, Pc
          <5>2. /\ validators' = [validators EXCEPT ![n] = {n}]
                /\ hasChain' = hasChain \cup {n} /\ joined' = joined \cup {n}
            BY <1>1, <4>1 DEF Start
          <5> QED
            BY <5>1, <5>2
        <4>2. CASE n # Genesis
          BY <1>1, <4>2 DEF Start, Goto, Pc
        <4> QED
          BY <4>1, <4>2
      <3> QED
        BY <1>1, <3>1, <3>2 DEF Start
    <2>5. StageInv'
      BY <1>1 DEF Start, Knowing, Goto, Pc
    <2> QED
      BY <2>4, <2>5
  <1>2. ASSUME NEW n \in Node, GetInfo(n) PROVE BootInv'
    <2>1. TypeOK'
      BY <1>2 DEF GetInfo, Knowing, Goto, Pc, historyVars
    <2>2. StageInv'
      BY <1>2 DEF GetInfo, Knowing, Goto, Pc, historyVars
    <2> QED
      BY <2>1, <2>2
  <1>3. ASSUME NEW n \in Node, pc[n] \notin {"off", "up"}, Fail(n) PROVE BootInv'
    <2>1. TypeOK'
      BY <1>3 DEF Fail, Goto, Pc, fileVars
    <2>2. StageInv'
      BY <1>3 DEF Fail, Goto, Pc, fileVars
    <2> QED
      BY <2>1, <2>2
  <1>4. ASSUME NEW n \in Node, Register(n) PROVE BootInv'
    <2>1. roll' = Append(roll, n) /\ n \notin Range(roll)
      BY <1>4 DEF Register
    <2>2. roll' \in Seq(Node) /\ IsInjective(roll') /\ Range(roll') = Range(roll) \cup {n}
      BY <2>1, AppendRange
    <2>3. nodes'[Genesis] = nodes[Genesis] \cup {n}
      BY <1>4 DEF Register, AddNode, Knowing
    <2>4. TypeOK'
      BY <1>4, <2>2, <2>3 DEF Register, AddNode, Knowing, Trusting, Goto, Pc
    <2>5. \A m \in Node :
              /\ pc'[m] = IF m = n THEN "registering" ELSE pc[m]
              /\ visited'[m] = IF m = n THEN 1 ELSE visited[m]
              /\ nodes'[m] = IF m = Genesis THEN nodes[m] \cup {n} ELSE nodes[m]
      BY <1>4 DEF Register, AddNode, Knowing, Goto
    <2>6. pc[n] = "register" /\ joined' = joined
      BY <1>4 DEF Register
    <2>7. ASSUME NEW m \in Node PROVE Stage(m)'
      <3>1. CASE m = n
        <4>1. /\ Genesis \in nodes[n] /\ n # Genesis /\ n \notin joined /\ n \in nodes[n]
              /\ pc[Genesis] = "up"
          BY <2>6
        <4>2. /\ pc'[n] = "registering" /\ visited'[n] = 1 /\ pc'[Genesis] = "up"
              /\ nodes'[n] = nodes[n] /\ nodes'[Genesis] = nodes[Genesis] \cup {n}
          BY <2>5, <4>1
        <4> QED
          BY <2>6, <3>1, <4>1, <4>2
      <3>2. CASE m # n
        <4>1. pc'[m] = pc[m] /\ visited'[m] = visited[m] /\ joined' = joined
          BY <2>5, <2>6, <3>2
        <4>2. /\ nodes'[Genesis] = nodes[Genesis] \cup {n}
              /\ nodes[m] \subseteq nodes'[m]
              /\ m # Genesis => nodes'[m] = nodes[m]
          BY <2>5
        <4>3. pc[Genesis] = "up" /\ pc'[Genesis] = "up"
          BY <1>4, <2>5, <2>6
        <4> QED
          BY <3>2, <4>1, <4>2, <4>3
      <3> QED
        BY <3>1, <3>2
    <2>8. StageInv'
      BY <2>5, <2>6, <2>7
    <2> QED
      BY <2>4, <2>8
  <1>5. ASSUME NEW n \in Node, Populate(n) PROVE BootInv'
    <2>1. PICK i \in DOMAIN roll : Told(n, i)
      BY <1>5, PopulateTells
    <2>2. \A m \in Node : m # roll[i] => nodes'[m] = nodes[m]
      BY <2>1 DEF Told, AddNode, Knowing
    <2>3. nodes'[roll[i]] \in {nodes[roll[i]], nodes[roll[i]] \cup {n}}
      BY <2>1 DEF Told, AddNode, Knowing
    <2>4. /\ nodes' \in [Node -> SUBSET Node] /\ trusted' \in [Node -> SUBSET Node]
          /\ untold' \subseteq Node /\ visited' \in [Node -> Nat]
      <3>1. nodes' \in [Node -> SUBSET Node] /\ trusted' \in [Node -> SUBSET Node]
        <4>1. CASE AddNode(roll[i], n)
          BY <4>1 DEF AddNode, Knowing, Trusting
        <4>2. CASE UNCHANGED <<nodes, trusted>>
          BY <4>2
        <4> QED
          BY <2>1, <4>1, <4>2 DEF Told
      <3>2. visited' \in [Node -> Nat]
        BY <2>1 DEF Told
      <3>3. untold' \subseteq Node
        BY <2>1 DEF Told
      <3> QED
        BY <3>1, <3>2, <3>3
    <2>5. roll[i] # Genesis /\ pc[roll[i]] = "up"
      BY <2>1 DEF Told
    <2>6. TypeOK'
      BY <1>5, <2>2, <2>4, <2>5 DEF Populate
    <2>7. UNCHANGED <<pc, joined>> /\ \A m \in Node : visited'[m] > 0 <=> visited[m] > 0
      BY <1>5, <2>1 DEF Populate, Told
    <2>8. ASSUME NEW m \in Node PROVE Stage(m)'
      <3>1. CASE m = roll[i]
        BY <2>2, <2>3, <2>5, <2>7, <3>1
      <3>2. CASE m # roll[i]
        BY <2>2, <2>5, <2>7, <3>2
      <3> QED
        BY <3>1, <3>2
    <2>9. StageInv'
      BY <2>7, <2>8
    <2> QED
      BY <2>6, <2>9
  <1>6. ASSUME NEW n \in Node, Registered(n) PROVE BootInv'
    <2>1. TypeOK'
      BY <1>6 DEF Registered, Answer, Goto, Pc, fileVars, historyVars
    <2>2. StageInv'
      BY <1>6 DEF Registered, Answer, Goto, Pc, fileVars, historyVars
    <2> QED
      BY <2>1, <2>2
  <1>14. ASSUME NEW n \in Node, PopulateFails(n) PROVE BootInv'
    <2>1. TypeOK'
      BY <1>14 DEF PopulateFails, Answer, Goto, Pc, fileVars
    <2>2. StageInv'
      BY <1>14 DEF PopulateFails, Tells, Answer, Goto, Pc, fileVars
    <2> QED
      BY <2>1, <2>2
  <1>7. ASSUME NEW n \in Node, Update(n) PROVE BootInv'
    <2>1. TypeOK'
      BY <1>7 DEF Update, NewNodes, Knowing, Goto, Pc
    <2>2. \A m \in Node :
              /\ pc'[m] = IF m = n THEN "up" ELSE pc[m]
              /\ nodes'[m] = IF m = n THEN nodes[m] \cup nodes[Genesis] ELSE nodes[m]
      BY <1>7 DEF Update, NewNodes, Knowing, Goto
    <2>3. pc[n] = "update" /\ joined' = joined \cup {n} /\ visited' = visited
      BY <1>7 DEF Update
    <2>4. n \in nodes[Genesis] /\ n # Genesis /\ ~(visited[n] > 0) /\ pc[Genesis] = "up"
      BY <2>3
    <2>5. ASSUME NEW m \in Node PROVE Stage(m)'
      <3>1. CASE m = n
        BY <2>2, <2>3, <2>4, <3>1
      <3>2. CASE m # n
        BY <2>2, <2>3, <2>4, <3>2
      <3> QED
        BY <3>1, <3>2
    <2>6. StageInv'
      BY <2>2, <2>4, <2>5
    <2> QED
      BY <2>1, <2>6
  <1>8. CASE DrawValidators
    <2>1. TypeOK'
      BY <1>8 DEF DrawValidators
    <2>2. StageInv'
      BY <1>8 DEF DrawValidators
    <2> QED
      BY <2>1, <2>2
  <1>9. CASE DrawFails
    BY <1>9 DEF DrawFails, fileVars, historyVars
  <1>10. ASSUME NEW l \in lists, NewValidators(l[1], l[2]) PROVE BootInv'
    <2>1. l[1] \in Node /\ l[2] \in SUBSET Node
      OBVIOUS
    <2>2. validators' \in [Node -> SUBSET Node] /\ untold' \subseteq Node
      <3>1. CASE Accepts(l[1], l[2])
        BY <1>10, <2>1, <3>1 DEF NewValidators
      <3>2. CASE ~Accepts(l[1], l[2])
        BY <1>10, <2>1, <3>2 DEF NewValidators
      <3> QED
        BY <3>1, <3>2
    <2>3. TypeOK'
      BY <1>10, <2>2 DEF NewValidators
    <2>4. StageInv'
      BY <1>10 DEF NewValidators
    <2> QED
      BY <2>3, <2>4
  <1>11. ASSUME NEW l \in lists, ListLost(l[1], l[2]) PROVE BootInv'
    BY <1>11 DEF ListLost, fileVars, historyVars
  <1>12. ASSUME NEW n \in Node, Die(n) PROVE BootInv'
    <2>1. TypeOK'
      BY <1>12 DEF Die, Goto, Pc, fileVars
    <2>2. StageInv'
      BY <1>12, MortalAssumption DEF Die, Goto, Pc, fileVars
    <2> QED
      BY <2>1, <2>2
  <1>13. ASSUME NEW n \in Node, Restart(n) PROVE BootInv'
    <2>1. IsAlone(n) <=> nodes[n] = {n}
      BY <1>13, Alone DEF Restart
    <2>2. TypeOK'
      BY <1>13 DEF Restart, Goto, Pc, fileVars
    <2>3. StageInv'
      BY <1>13, <2>1, MortalAssumption DEF Restart, Goto, Pc, fileVars
    <2> QED
      BY <2>2, <2>3
  <1> QED
    BY <1>0, <1>1, <1>2, <1>3, <1>4, <1>5, <1>6, <1>7, <1>8, <1>9, <1>10, <1>11, <1>12, <1>13,
    <1>14 DEF Next, Boot, BootFails
-----------------------------------------------------------------------------
(* Why a boot fails *)

\* Until the validators are drawn, the genesis node is the one of all that know it, and
\* nobody refuses its word.
NotDrawnInv ==
    draw # "done" =>
        /\ lists = {} /\ untold = {}
        /\ \A n \in Node : Genesis \in nodes[n] => validators[n] = {Genesis}

\* A node that registered and did not join is being registered, or something failed.
FailInv ==
    /\ \A m, n \in Registering : m # n => overlapped
    /\ \A n \in nodes[Genesis] \ {Genesis} :
           /\ pc[n] = "dead" => broken \/ died # {}
           /\ pc[n] = "up" => n \in joined \/ broken \/ died # {}
    /\ pc[Genesis] = "up" => Genesis \in joined
    /\ BootSucceeds

LEMMA NotDrawnStep ==
  ASSUME BootInv, NotDrawnInv, [Next]_vars
  PROVE  NotDrawnInv'
  <1> SUFFICES ASSUME draw' # "done" PROVE NotDrawnInv'
    BY DEF NotDrawnInv
  <1> USE GenesisAssumption
  <1> USE DEF BootInv, TypeOK, StageInv, Stage, NotDrawnInv
  <1>0. CASE UNCHANGED vars
    BY <1>0 DEF vars
  <1>1. ASSUME NEW n \in Node, Start(n) PROVE NotDrawnInv'
    <2>1. CASE n = Genesis
      BY <1>1, <2>1 DEF Start, Knowing
    <2>2. CASE n # Genesis
      BY <1>1, <2>2 DEF Start, Knowing
    <2> QED
      BY <2>1, <2>2
  <1>2. ASSUME NEW n \in Node, GetInfo(n) PROVE NotDrawnInv'
    BY <1>2 DEF GetInfo, Knowing, historyVars
  <1>3. ASSUME NEW n \in Node, Fail(n) PROVE NotDrawnInv'
    BY <1>3 DEF Fail, fileVars
  <1>4. ASSUME NEW n \in Node, Register(n) PROVE NotDrawnInv'
    BY <1>4 DEF Register, AddNode, Knowing
  <1>5. ASSUME NEW n \in Node, Populate(n) PROVE NotDrawnInv'
    <2>1. PICK i \in DOMAIN roll : Told(n, i)
      BY <1>5, PopulateTells
    <2>2. UNCHANGED <<draw, lists, validators>>
      BY <1>5 DEF Populate
    <2>3. roll[i] \in nodes[Genesis]
      BY DEF Range
    <2>4. IsValidator(roll[i])
      BY <2>1, <2>2, <2>3 DEF Told, IsValidator
    <2>5. untold' = untold
      BY <2>1, <2>4 DEF Told
    <2>6. n # Genesis
      BY <2>1 DEF Told
    <2>7. \A m \in Node : Genesis \in nodes'[m] => Genesis \in nodes[m]
      <3>1. CASE AddNode(roll[i], n)
        BY <2>6, <3>1 DEF AddNode, Knowing
      <3>2. CASE nodes' = nodes
        BY <3>2
      <3> QED
        BY <2>1, <3>1, <3>2 DEF Told
    <2> QED
      BY <2>2, <2>5, <2>7
  <1>6. ASSUME NEW n \in Node, Registered(n) PROVE NotDrawnInv'
    BY <1>6 DEF Registered, fileVars, historyVars
  <1>14. ASSUME NEW n \in Node, PopulateFails(n) PROVE NotDrawnInv'
    BY <1>14 DEF PopulateFails, fileVars
  <1>7. ASSUME NEW n \in Node, Update(n) PROVE NotDrawnInv'
    BY <1>7 DEF Update, NewNodes, Knowing
  <1>8. CASE DrawValidators
    BY <1>8 DEF DrawValidators
  <1>9. CASE DrawFails
    BY <1>9 DEF DrawFails, fileVars, historyVars
  <1>10. ASSUME NEW l \in lists, NewValidators(l[1], l[2]) PROVE NotDrawnInv'
    BY <1>10 DEF NewValidators
  <1>11. ASSUME NEW l \in lists, ListLost(l[1], l[2]) PROVE NotDrawnInv'
    BY <1>11 DEF ListLost, fileVars, historyVars
  <1>12. ASSUME NEW n \in Node, Die(n) PROVE NotDrawnInv'
    BY <1>12 DEF Die, fileVars
  <1>13. ASSUME NEW n \in Node, Restart(n) PROVE NotDrawnInv'
    BY <1>13 DEF Restart, fileVars
  <1> QED
    BY <1>0, <1>1, <1>2, <1>3, <1>4, <1>5, <1>6, <1>7, <1>8, <1>9, <1>10, <1>11, <1>12, <1>13,
    <1>14 DEF Next, Boot, BootFails

\* Why the boot of n fails.
LEMMA FailCauses ==
  ASSUME BootInv, NotDrawnInv, FailInv, NEW n \in Node, BootFails(n) \/ PopulateFails(n)
  PROVE  pc[n] = "info" \/ overlapped \/ died # {} \/ draw = "done"
  <1> USE GenesisAssumption
  <1>1. CASE BootFails(n)
    <2>1. SUFFICES ASSUME pc[n] \in {"register", "update"}, draw # "done"
          PROVE  IsValidator(Genesis)
      BY <1>1 DEF BootFails
    <2>2. Genesis \in nodes[Genesis]
      BY <2>1 DEF BootInv, StageInv, Stage
    <2> QED
      BY <2>1, <2>2 DEF NotDrawnInv, IsValidator
  <1>2. CASE PopulateFails(n)
    <2>1. PICK i \in DOMAIN roll : Tells(n, i) /\ Unanswering(roll[i])
      BY <1>2 DEF PopulateFails
    <2> DEFINE m == roll[i]
    <2>2. visited[n] > 0 /\ m \notin {n, Genesis} /\ pc[m] # "up"
      BY <2>1 DEF Tells, Ahead, Unanswering
    <2>3. m \in Node /\ m \in nodes[Genesis]
      BY DEF BootInv, TypeOK, Range
    <2> HIDE DEF m
    <2>4. pc[m] \in {"registering", "update", "dead"}
      BY <2>2, <2>3 DEF BootInv, StageInv, Stage
    <2>5. CASE pc[m] = "dead"
      BY <2>2, <2>3, <2>5 DEF FailInv, BootSucceeds
    <2>6. CASE pc[m] \in {"registering", "update"}
      <3>1. n \in Registering /\ m \in Registering
        BY <2>2, <2>3, <2>6 DEF Registering, BootInv, StageInv, Stage
      <3> QED
        BY <2>2, <3>1 DEF FailInv
    <2> QED
      BY <2>4, <2>5, <2>6
  <1> QED
    BY <1>1, <1>2

LEMMA FailStep ==
  ASSUME BootInv, NotDrawnInv, FailInv, [Next]_vars
  PROVE  FailInv'
  <1> USE GenesisAssumption
  <1> USE DEF BootInv, TypeOK, StageInv, Stage, FailInv, BootSucceeds, Registering
  <1>0. CASE UNCHANGED vars
    BY <1>0 DEF vars
  <1>1. ASSUME NEW n \in Node, Start(n) PROVE FailInv'
    <2>1. CASE n = Genesis
      BY <1>1, <2>1 DEF Start, Knowing, Goto
    <2>2. CASE n # Genesis
      BY <1>1, <2>2 DEF Start, Knowing, Goto
    <2> QED
      BY <2>1, <2>2
  <1>2. ASSUME NEW n \in Node, GetInfo(n) PROVE FailInv'
    BY <1>2 DEF GetInfo, Knowing, Goto, historyVars
  <1>14. ASSUME NEW n \in Node, PopulateFails(n) PROVE FailInv'
    <2>1. pc[n] = "info" \/ overlapped \/ died # {} \/ draw = "done"
      BY <1>14, FailCauses
    <2>2. /\ \A m \in Node : /\ pc'[m] = pc[m] \/ (m = n /\ pc'[m] = "dead")
                            /\ visited'[m] = IF m = n THEN 0 ELSE visited[m]
          /\ broken' = TRUE /\ visited[n] > 0
          /\ UNCHANGED <<nodes, joined, hasChain, overlapped, died, draw>>
      BY <1>14 DEF PopulateFails, Tells, Answer, Goto, fileVars
    <2>3. Registering' \subseteq Registering
      BY <2>2
    <2>4. pc[n] # "info" /\ n # Genesis
      BY <2>2
    <2> QED
      BY <2>1, <2>2, <2>3, <2>4
  <1>3. ASSUME NEW n \in Node, BootFails(n) PROVE FailInv'
    <2>1. pc[n] = "info" \/ overlapped \/ died # {} \/ draw = "done"
      BY <1>3, FailCauses
    <2>2. Fail(n) /\ pc[n] \in {"info", "register", "update"}
      BY <1>3 DEF BootFails
    <2>3. /\ \A m \in Node : pc'[m] = IF m = n THEN "dead" ELSE pc[m]
          /\ UNCHANGED <<nodes, visited, joined, hasChain, overlapped, died, draw>>
      BY <2>2 DEF Fail, Goto, fileVars
    <2>4. CASE pc[n] = "info"
      <3>1. broken' = broken /\ n \notin nodes[Genesis]
        BY <2>2, <2>4 DEF Fail
      <3> QED
        BY <2>2, <2>3, <2>4, <3>1
    <2>5. CASE pc[n] # "info"
      <3>1. broken'
        BY <2>2, <2>5 DEF Fail
      <3> QED
        BY <2>1, <2>2, <2>3, <2>5, <3>1
    <2> QED
      BY <2>4, <2>5
  <1>4. ASSUME NEW n \in Node, Register(n) PROVE FailInv'
    <2>1. /\ \A m \in Node : /\ pc'[m] = IF m = n THEN "registering" ELSE pc[m]
                            /\ visited'[m] = IF m = n THEN 1 ELSE visited[m]
          /\ nodes'[Genesis] = nodes[Genesis] \cup {n}
          /\ UNCHANGED <<joined, hasChain, broken, died, draw>>
      BY <1>4 DEF Register, AddNode, Knowing, Goto
    <2>2. overlapped \/ Registering # {} => overlapped'
      BY <1>4 DEF Register
    <2>3. n # Genesis
      BY <1>4 DEF Register
    <2>4. \A m, k \in Registering' : m # k => overlapped'
      BY <2>1, <2>2
    <2>5. BootSucceeds'
      BY <2>1, <2>2
    <2> QED
      BY <2>1, <2>3, <2>4, <2>5
  <1>5. ASSUME NEW n \in Node, Populate(n) PROVE FailInv'
    <2>1. PICK i \in DOMAIN roll : Told(n, i)
      BY <1>5, PopulateTells
    <2>2. nodes'[Genesis] = nodes[Genesis] /\ n \in Registering
      BY <2>1 DEF Told, AddNode, Knowing
    <2>3. Registering' \subseteq Registering
      BY <1>5, <2>1, <2>2 DEF Told, Populate
    <2> QED
      BY <1>5, <2>2, <2>3 DEF Populate
  <1>6. ASSUME NEW n \in Node, Registered(n) PROVE FailInv'
    <2>1. /\ \A m \in Node : /\ pc'[m] = pc[m] \/ (m = n /\ pc'[m] = "update")
                            /\ visited'[m] = IF m = n THEN 0 ELSE visited[m]
          /\ n \in Registering /\ n # Genesis
          /\ UNCHANGED <<nodes, joined, hasChain, overlapped, broken, died, draw>>
      BY <1>6 DEF Registered, Answer, Goto, fileVars, historyVars
    <2>2. Registering' \subseteq Registering
      BY <2>1
    <2> QED
      BY <2>1, <2>2
  <1>7. ASSUME NEW n \in Node, Update(n) PROVE FailInv'
    BY <1>7 DEF Update, NewNodes, Knowing, Goto
  <1>8. CASE DrawValidators
    BY <1>8 DEF DrawValidators
  <1>9. CASE DrawFails
    BY <1>9 DEF DrawFails, fileVars, historyVars
  <1>10. ASSUME NEW l \in lists, NewValidators(l[1], l[2]) PROVE FailInv'
    BY <1>10 DEF NewValidators
  <1>11. ASSUME NEW l \in lists, ListLost(l[1], l[2]) PROVE FailInv'
    BY <1>11 DEF ListLost, fileVars, historyVars
  <1>12. ASSUME NEW n \in Node, Die(n) PROVE FailInv'
    BY <1>12, MortalAssumption DEF Die, Goto, fileVars
  <1>13. ASSUME NEW n \in Node, Restart(n) PROVE FailInv'
    BY <1>13, MortalAssumption DEF Restart, Goto, fileVars
  <1> QED
    BY <1>0, <1>1, <1>2, <1>3, <1>4, <1>5, <1>6, <1>7, <1>8, <1>9, <1>10, <1>11, <1>12, <1>13,
    <1>14 DEF Next, Boot

-----------------------------------------------------------------------------
(* Who knows whom *)

\* The handler that registers n has m before it.
Coming(m, n) == visited[n] > 0 /\ \E i \in Ahead(n) : roll[i] = m

\* A node that joined knows all that registered, but for one that it is still to be told of,
\* one whose registration failed, and one that it did not want to know of.
KnowInv ==
    /\ \A m \in Node : nodes[m] \subseteq trusted[m] \cup {Genesis}
    /\ \A m \in joined : \A n \in nodes[Genesis] :
           \/ n \in nodes[m] \/ m \in untold \/ Coming(m, n)
           \/ n \notin joined /\ pc[n] \notin {"registering", "update"}

\* Whom a node knows it has a trust of, but for the genesis node.
LEMMA TrustStep ==
  ASSUME BootInv, \A m \in Node : nodes[m] \subseteq trusted[m] \cup {Genesis}, [Next]_vars
  PROVE  \A m \in Node : nodes'[m] \subseteq trusted'[m] \cup {Genesis}
  <1> USE GenesisAssumption
  <1> DEFINE Goal == \A m \in Node : nodes'[m] \subseteq trusted'[m] \cup {Genesis}
  <1> USE DEF BootInv, TypeOK
  <1>0. CASE UNCHANGED <<nodes, trusted>>
    BY <1>0
  <1>1. ASSUME NEW n \in Node, Start(n) PROVE Goal
    BY <1>1 DEF Start, Knowing, Trusting
  <1>2. ASSUME NEW n \in Node, GetInfo(n) PROVE Goal
    BY <1>2 DEF GetInfo, Knowing
  <1>3. ASSUME NEW n \in Node, NEW m \in Node, AddNode(m, n) PROVE Goal
    BY <1>3 DEF AddNode, Knowing, Trusting
  <1>4. ASSUME NEW n \in Node, Update(n) PROVE Goal
    BY <1>4 DEF Update, NewNodes, Knowing
  <1>5. ASSUME NEW n \in Node, Populate(n) PROVE Goal
    <2>1. PICK i \in DOMAIN roll : Told(n, i)
      BY <1>5, PopulateTells
    <2> QED
      BY <1>0, <1>3, <2>1 DEF Told
  <1> HIDE DEF Goal
  <1>6. ASSUME NEW n \in Node, Register(n) PROVE Goal
    BY <1>3, <1>6 DEF Register
  <1> QED
    BY <1>0, <1>1, <1>2, <1>4, <1>5, <1>6
    DEF Goal, Next, Boot, BootFails, Fail, PopulateFails, Registered, DrawValidators, DrawFails,
        NewValidators, ListLost, Die, Restart, fileVars, historyVars, vars

LEMMA KnowStep ==
  ASSUME BootInv, KnowInv, [Next]_vars
  PROVE  KnowInv'
  <1> USE GenesisAssumption
  <1> USE DEF BootInv, TypeOK, StageInv, Stage
  <1> DEFINE K(m, n) == \/ n \in nodes[m] \/ m \in untold \/ Coming(m, n)
                        \/ n \notin joined /\ pc[n] \notin {"registering", "update"}
             Goal == \A m \in joined' : \A n \in nodes'[Genesis] : K(m, n)'
  <1>00. \A m \in joined : \A n \in nodes[Genesis] : K(m, n)
    BY DEF KnowInv
  \* Steps that leave alone who knows whom, and who is registering.
  <1>0. ASSUME UNCHANGED <<nodes, roll, untold, joined, visited>>,
               \A n \in Node : pc'[n] = pc[n] \/ pc'[n] \notin {"registering", "update"}
        PROVE  Goal
    BY <1>00, <1>0 DEF Coming, Ahead
  <1>1. ASSUME NEW k \in Node, Start(k) PROVE Goal
    <2>1. /\ \A m \in Node : m # k => nodes'[m] = nodes[m] /\ pc'[m] = pc[m]
          /\ nodes'[k] = {k} /\ pc'[k] \in {"up", "info"}
          /\ UNCHANGED <<untold, visited>>
      BY <1>1 DEF Start, Knowing, Goto
    <2>2. CASE k = Genesis
      <3>1. joined = {} /\ joined' = {k} /\ nodes'[Genesis] = {k}
        BY <1>1, <2>1, <2>2 DEF Start
      <3> QED
        BY <2>1, <3>1
    <2>3. CASE k # Genesis
      <3>1. UNCHANGED <<roll, joined>> /\ k \notin joined /\ nodes'[Genesis] = nodes[Genesis]
        BY <1>1, <2>1, <2>3 DEF Start
      <3>2. ASSUME NEW m \in joined, NEW n \in nodes[Genesis] PROVE K(m, n)'
        <4>1. m # k /\ n # k /\ m \in Node /\ n \in Node
          BY <1>1, <3>1 DEF Start
        <4>2. pc'[n] = pc[n] /\ nodes'[m] = nodes[m]
          BY <2>1, <4>1
        <4>3. Coming(m, n) => Coming(m, n)'
          BY <2>1, <3>1, <4>2 DEF Coming, Ahead
        <4> QED
          BY <1>00, <2>1, <3>1, <4>2, <4>3
      <3> QED
        BY <3>1, <3>2
    <2> QED
      BY <2>2, <2>3
  <1>2. ASSUME NEW k \in Node, GetInfo(k) PROVE Goal
    <2>1. /\ \A m \in Node : nodes[m] \subseteq nodes'[m] /\ (m # k => nodes'[m] = nodes[m])
          /\ \A m \in Node : m # k => pc'[m] = pc[m]
          /\ UNCHANGED <<roll, untold, joined, visited>> /\ k # Genesis /\ k \notin nodes[Genesis]
      BY <1>2 DEF GetInfo, Knowing, Goto, historyVars
    <2> QED
      BY <1>00, <2>1 DEF Coming, Ahead
  <1>3. ASSUME NEW k \in Node, PopulateFails(k) PROVE Goal
    <2>1. /\ \A m \in Node : m # k => pc'[m] = pc[m] /\ visited'[m] = visited[m]
          /\ pc'[k] \notin {"registering", "update"} /\ k \notin joined
          /\ UNCHANGED <<nodes, roll, untold, joined>>
      BY <1>3 DEF PopulateFails, Tells, Answer, Goto, fileVars
    <2>2. ASSUME NEW m \in joined, NEW n \in nodes[Genesis] PROVE K(m, n)'
      <3>1. CASE n = k
        BY <2>1, <3>1
      <3>2. CASE n # k
        BY <1>00, <2>1, <3>2 DEF Coming, Ahead
      <3> QED
        BY <3>1, <3>2
    <2> QED
      BY <2>1, <2>2
  <1>4. ASSUME NEW k \in Node, Register(k) PROVE Goal
    <2>1. /\ \A m \in Node : m # k => pc'[m] = pc[m] /\ visited'[m] = visited[m]
          /\ \A m \in Node : nodes[m] \subseteq nodes'[m]
          /\ nodes'[Genesis] = nodes[Genesis] \cup {k}
          /\ pc'[k] = "registering" /\ visited'[k] = 1 /\ roll' = Append(roll, k)
          /\ k # Genesis /\ k \notin joined /\ UNCHANGED <<untold, joined>>
      BY <1>4 DEF Register, AddNode, Knowing, Goto
    <2>2. /\ DOMAIN roll \subseteq DOMAIN roll' /\ DOMAIN roll \subseteq Nat \ {0}
          /\ \A i \in DOMAIN roll : roll'[i] = roll[i]
      BY <2>1
    <2>3. ASSUME NEW m \in joined, NEW n \in nodes'[Genesis] PROVE K(m, n)'
      <3>1. CASE n = k
        <4>1. m \in nodes[Genesis] /\ m # k
          BY <2>1
        <4>2. CASE m = Genesis
          BY <2>1, <3>1, <4>2
        <4>3. CASE m # Genesis
          <5>1. PICK i \in DOMAIN roll : roll[i] = m
            BY <4>1 DEF Range
          <5>2. i >= 1 /\ roll'[i] = m /\ i \in DOMAIN roll'
            BY <2>2, <5>1
          <5>3. i \in Ahead(k)' /\ visited'[k] > 0
            BY <2>1, <4>1, <4>3, <5>2 DEF Ahead
          <5> QED
            BY <3>1, <5>2, <5>3 DEF Coming
        <4> QED
          BY <4>2, <4>3
      <3>2. CASE n # k
        <4>1. ASSUME Coming(m, n) PROVE Coming(m, n)'
          <5>1. PICK i \in Ahead(n) : roll[i] = m
            BY <4>1 DEF Coming
          <5>2. i \in Ahead(n)' /\ roll'[i] = m
            BY <2>1, <2>2, <3>2, <5>1 DEF Ahead
          <5> QED
            BY <2>1, <3>2, <4>1, <5>2 DEF Coming
        <4>2. n \in nodes[Genesis] /\ pc'[n] = pc[n]
          BY <2>1, <3>2
        <4> QED
          BY <1>00, <2>1, <4>1, <4>2
      <3> QED
        BY <3>1, <3>2
    <2> QED
      BY <2>1, <2>3
  <1>5. ASSUME NEW k \in Node, Populate(k) PROVE Goal
    <2>1. PICK i \in DOMAIN roll : Told(k, i)
      BY <1>5, PopulateTells
    <2>2. UNCHANGED <<pc, roll, joined>>
      BY <1>5 DEF Populate
    <2>3. /\ \A m \in Node : m # k => visited'[m] = visited[m]
          /\ visited'[k] = i + 1 /\ i \in Nat /\ visited'[k] > 0 /\ \A j \in Ahead(k) : i =< j
          /\ roll[i] # Genesis
      BY <2>1 DEF Told
    <2>4. \A m \in Node : nodes[m] \subseteq nodes'[m]
      <3>1. AddNode(roll[i], k) \/ nodes' = nodes
        BY <2>1 DEF Told
      <3> QED
        BY <3>1 DEF AddNode, Knowing
    <2>5. nodes'[Genesis] = nodes[Genesis] /\ untold \subseteq untold'
      BY <2>1 DEF Told, AddNode, Knowing
    <2>6. k \in nodes'[roll[i]] \/ roll[i] \in untold'
      BY <2>1, <2>4 DEF Told, AddNode, Knowing
    <2>7. ASSUME NEW m \in joined, NEW n \in nodes[Genesis] PROVE K(m, n)'
      <3>1. CASE n = k
        <4>1. CASE m = roll[i]
          BY <2>6, <3>1, <4>1
        <4>2. CASE m # roll[i]
          <5>1. ASSUME Coming(m, k) PROVE Coming(m, k)'
            <6>1. PICK j \in Ahead(k) : roll[j] = m
              BY <5>1 DEF Coming
            <6>2. j \in Nat /\ j >= i + 1
              BY <2>3, <4>2, <6>1 DEF Ahead
            <6>3. j \in Ahead(k)'
              BY <2>2, <2>3, <6>1, <6>2 DEF Ahead
            <6> QED
              BY <2>2, <2>3, <6>1, <6>3 DEF Coming
          <5> QED
            BY <1>00, <2>2, <2>4, <2>5, <3>1, <5>1
        <4> QED
          BY <4>1, <4>2
      <3>2. CASE n # k
        <4>1. Coming(m, n) => Coming(m, n)'
          BY <2>2, <2>3, <3>2 DEF Coming, Ahead
        <4> QED
          BY <1>00, <2>2, <2>4, <2>5, <4>1
      <3> QED
        BY <3>1, <3>2
    <2> QED
      BY <2>2, <2>5, <2>7
  <1>6. ASSUME NEW k \in Node, Registered(k) PROVE Goal
    <2>1. /\ \A m \in Node : m # k => pc'[m] = pc[m] /\ visited'[m] = visited[m]
          /\ Ahead(k) = {}
          /\ pc'[k] = pc[k] \/ pc[k] = "registering"
          /\ UNCHANGED <<nodes, roll, untold, joined>>
      BY <1>6 DEF Registered, Answer, Goto, fileVars, historyVars
    <2>2. ASSUME NEW m \in joined, NEW n \in nodes[Genesis] PROVE K(m, n)'
      <3>1. CASE n = k
        BY <1>00, <2>1, <3>1 DEF Coming
      <3>2. CASE n # k
        BY <1>00, <2>1, <3>2 DEF Coming, Ahead
      <3> QED
        BY <3>1, <3>2
    <2> QED
      BY <2>1, <2>2
  <1>7. ASSUME NEW k \in Node, Update(k) PROVE Goal
    <2>1. /\ \A m \in Node : m # k => pc'[m] = pc[m] /\ nodes'[m] = nodes[m]
          /\ nodes'[k] = nodes[k] \cup nodes[Genesis] /\ pc[k] = "update"
          /\ k # Genesis /\ joined' = joined \cup {k}
          /\ UNCHANGED <<roll, untold, visited>>
      BY <1>7 DEF Update, NewNodes, Knowing, Goto
    <2>2. ASSUME NEW m \in joined', NEW n \in nodes'[Genesis] PROVE K(m, n)'
      <3>1. CASE m = k
        BY <2>1, <3>1
      <3>2. CASE m # k /\ n = k
        BY <1>00, <2>1, <3>2 DEF Coming
      <3>3. CASE m # k /\ n # k
        BY <1>00, <2>1, <3>3 DEF Coming, Ahead
      <3> QED
        BY <3>1, <3>2, <3>3
    <2> QED
      BY <2>2
  <1>8. ASSUME NEW l \in lists, NewValidators(l[1], l[2]) PROVE Goal
    <2>1. untold \subseteq untold' /\ UNCHANGED <<pc, nodes, roll, joined, visited>>
      BY <1>8 DEF NewValidators
    <2> QED
      BY <1>00, <2>1 DEF Coming, Ahead
  <1>9. ASSUME NEW k \in Node, Die(k) \/ BootFails(k) PROVE Goal
    <2>1. /\ \A m \in Node : m # k => pc'[m] = pc[m]
          /\ pc'[k] = "dead"
          /\ UNCHANGED <<nodes, roll, untold, joined, visited>>
      BY <1>9 DEF Die, BootFails, Fail, Goto, fileVars
    <2> QED
      BY <1>0, <2>1
  <1>10. ASSUME NEW k \in Node, Restart(k) PROVE Goal
    <2>1. /\ \A m \in Node : m # k => pc'[m] = pc[m]
          /\ pc[k] = "dead" /\ pc'[k] \in {"info", "up"}
          /\ UNCHANGED <<nodes, roll, untold, joined, visited>>
      BY <1>10 DEF Restart, Goto, fileVars
    <2> QED
      BY <1>0, <2>1
  <1> DEFINE Still == UNCHANGED <<pc, nodes, roll, untold, joined, visited>>
  <1>11. ASSUME Still PROVE Goal
    BY <1>0, <1>11
  <1> HIDE DEF Goal
  <1>12. UNCHANGED vars \/ DrawValidators \/ DrawFails => Still
    BY DEF DrawValidators, DrawFails, fileVars, historyVars, vars
  <1>13. \A l \in lists : ListLost(l[1], l[2]) => Still
    BY DEF ListLost, fileVars, historyVars
  <1> HIDE DEF Still
  <1>15. Goal
    BY <1>1, <1>2, <1>3, <1>4, <1>5, <1>6, <1>7, <1>8, <1>9, <1>10, <1>11, <1>12, <1>13
    DEF Next, Boot
  <1>16. \A m \in Node : nodes'[m] \subseteq trusted'[m] \cup {Genesis}
    BY TrustStep DEF KnowInv
  <1> QED
    BY <1>15, <1>16 DEF KnowInv, Goal

-----------------------------------------------------------------------------
(* The validators that were drawn *)

Smooth == draw = "done" /\ ~amid /\ ~broken /\ died = {}

\* All that are told of the validators knew the genesis node as the only one, know those
\* that were drawn, and will have them when the list has come.
DrawnInv ==
    Smooth =>
        /\ Genesis \in told /\ told \subseteq nodes[Genesis] /\ validators[Genesis] \subseteq told
        /\ \A m \in told : /\ told \subseteq nodes[m]
                           /\ \/ <<m, validators[Genesis]>> \in lists
                              \/ validators[m] = validators[Genesis]
        /\ \A l \in lists : /\ l[1] \in told \ {Genesis}
                            /\ l[2] = validators[Genesis] /\ validators[l[1]] = {Genesis}

\* The draw: all the nodes of the genesis node have joined, and know each other.
LEMMA DrawStarts ==
  ASSUME BootInv, NotDrawnInv, FailInv, KnowInv, DrawValidators, Smooth'
  PROVE  DrawnInv'
  <1> USE GenesisAssumption
  <1> DEFINE all == nodes[Genesis]
  <1>1. /\ draw # "done" /\ pc[Genesis] = "up" /\ Registering = {} /\ ~broken /\ died = {}
        /\ told' = all /\ nodes' = nodes
    BY DEF DrawValidators, Smooth
  <1>2. PICK V \in SUBSET all : /\ validators' = [validators EXCEPT ![Genesis] = V]
                                /\ lists' = (all \ {Genesis}) \X {V}
    BY DEF DrawValidators
  <1>3. all \subseteq Node /\ Genesis \in all /\ validators \in [Node -> SUBSET Node]
    BY <1>1 DEF BootInv, TypeOK, StageInv, Stage
  <1>4. ASSUME NEW m \in all PROVE m \in joined
    <2>1. CASE m = Genesis
      BY <1>1, <2>1 DEF FailInv
    <2>2. CASE m # Genesis
      <3>1. pc[m] \in {"up", "dead"}
        BY <1>1, <1>3 DEF BootInv, StageInv, Stage, Registering
      <3> QED
        BY <1>1, <2>2, <3>1 DEF FailInv
    <2> QED
      BY <2>1, <2>2
  <1>5. ASSUME NEW m \in all PROVE all \subseteq nodes[m]
    BY <1>1, <1>3, <1>4 DEF KnowInv, NotDrawnInv, Coming, BootInv, TypeOK, StageInv, Stage,
                               Registering
  <1>6. \A m \in all : validators[m] = {Genesis}
    BY <1>1, <1>3, <1>5 DEF NotDrawnInv
  <1>7. validators'[Genesis] = V /\ \A m \in Node \ {Genesis} : validators'[m] = validators[m]
    BY <1>2, <1>3
  <1>8. \A m \in all \ {Genesis} : <<m, V>> \in lists'
    BY <1>2
  <1>9. \A l \in lists' : l[1] \in all \ {Genesis} /\ l[2] = V
    BY <1>2
  <1> HIDE DEF all
  <1> QED
    BY <1>1, <1>2, <1>3, <1>5, <1>6, <1>7, <1>8, <1>9 DEF DrawnInv, all

\* A list comes.
LEMMA ListComes ==
  ASSUME BootInv, DrawnInv, Smooth, NEW l \in lists, NewValidators(l[1], l[2])
  PROVE  DrawnInv'
  <1> USE GenesisAssumption
  <1> DEFINE m == l[1]
             V == validators[Genesis]
  <1>1. m \in told \ {Genesis} /\ l[2] = V /\ validators[m] = {Genesis} /\ V \subseteq told
        /\ told \subseteq nodes[m] /\ told \subseteq Node
    BY DEF DrawnInv, BootInv, TypeOK
  <1>2. Accepts(l[1], l[2])
    BY <1>1 DEF Accepts, IsValidator
  <1>3. /\ validators' = [validators EXCEPT ![m] = V] /\ lists' = lists \ {<<m, V>>}
        /\ UNCHANGED <<nodes, told>>
    BY <1>1, <1>2 DEF NewValidators
  <1>4. \A k \in lists : k = <<k[1], k[2]>>
    BY DEF BootInv, TypeOK
  <1>5. \A k \in lists' : k \in lists /\ k[1] # m
    BY <1>1, <1>3, <1>4 DEF DrawnInv
  <1>6. /\ validators'[m] = V /\ validators'[Genesis] = V
        /\ \A n \in Node : n # m => validators'[n] = validators[n]
    BY <1>1, <1>3 DEF BootInv, TypeOK
  <1> HIDE DEF m, V
  <1>7. \A n \in told : <<n, V>> \in lists' \/ validators'[n] = V
    <2>1. ASSUME NEW n \in told, n # m PROVE <<n, V>> \in lists' \/ validators'[n] = V
      <3>1. <<n, V>> # <<m, V>>
        BY <2>1
      <3> QED
        BY <1>1, <1>3, <1>6, <2>1, <3>1 DEF DrawnInv, V
    <2> QED
      BY <1>6, <2>1
  <1>8. \A k \in lists' : k[1] \in told \ {Genesis} /\ k[2] = V /\ validators'[k[1]] = {Genesis}
    BY <1>1, <1>5, <1>6 DEF DrawnInv, V
  <1> QED
    BY <1>1, <1>3, <1>6, <1>7, <1>8 DEF DrawnInv, V

LEMMA DrawnStep ==
  ASSUME BootInv, NotDrawnInv, FailInv, KnowInv, DrawnInv, [Next]_vars
  PROVE  DrawnInv'
  <1> SUFFICES ASSUME Smooth' PROVE DrawnInv'
    BY DEF DrawnInv
  <1> USE GenesisAssumption
  <1>1. CASE DrawValidators
    BY <1>1, DrawStarts
  <1>2. CASE ~Smooth /\ ~DrawValidators
    <2>1. amid' = amid /\ draw' \in {draw, "dead"}
      BY <1>2 DEF Next, Start, Boot, GetInfo, BootFails, Register, Populate, PopulateFails,
                  Registered, Update, Fail, DrawFails, NewValidators, ListLost, Die, Restart,
                  fileVars, historyVars, vars
    <2>2. broken => broken'
      BY <1>2 DEF Next, Start, Boot, GetInfo, BootFails, Register, Populate, PopulateFails,
                  Registered, Update, Fail, DrawFails, NewValidators, ListLost, Die, Restart,
                  fileVars, historyVars, vars
    <2>3. died \subseteq died'
      BY <1>2 DEF Next, Start, Boot, GetInfo, BootFails, Register, Populate, PopulateFails,
                  Registered, Update, Fail, DrawFails, NewValidators, ListLost, Die, Restart,
                  fileVars, historyVars, vars
    <2> QED
      BY <1>2, <2>1, <2>2, <2>3 DEF Smooth
  <1>3. ASSUME Smooth, UNCHANGED <<told, lists, validators>>,
               \A m \in Node : nodes[m] \subseteq nodes'[m]
        PROVE  DrawnInv'
    BY <1>3 DEF DrawnInv, BootInv, TypeOK
  <1>4. ASSUME Smooth, NEW k \in Node, Start(k) PROVE DrawnInv'
    <2>1. k # Genesis
      BY <1>4 DEF Start, DrawnInv, BootInv, StageInv, Stage
    <2> QED
      BY <1>3, <1>4, <2>1 DEF Start, Knowing, BootInv, TypeOK
  <1>5. ASSUME Smooth, NEW k \in Node, GetInfo(k) PROVE DrawnInv'
    <2>1. k \notin nodes[Genesis]
      BY <1>5 DEF GetInfo, BootInv, StageInv, Stage
    <2>2. /\ \A m \in Node : m # k => validators'[m] = validators[m]
          /\ \A m \in Node : nodes[m] \subseteq nodes'[m]
          /\ UNCHANGED <<told, lists>>
      BY <1>5 DEF GetInfo, Knowing, historyVars, BootInv, TypeOK
    <2>3. k \notin told /\ k # Genesis
      BY <1>5, <2>1 DEF DrawnInv
    <2> QED
      BY <1>5, <2>2, <2>3 DEF DrawnInv, BootInv, TypeOK
  <1>6. ASSUME Smooth, NEW k \in Node, Populate(k) PROVE DrawnInv'
    <2>1. PICK i \in DOMAIN roll : Told(k, i)
      BY <1>6, PopulateTells
    <2>2. \A m \in Node : nodes[m] \subseteq nodes'[m]
      BY <2>1 DEF Told, AddNode, Knowing, BootInv, TypeOK
    <2>3. UNCHANGED <<told, lists, validators>>
      BY <1>6 DEF Populate
    <2> QED
      BY <1>3, <1>6, <2>2, <2>3
  <1>7. ASSUME Smooth, NEW k \in Node, Register(k) PROVE DrawnInv'
    BY <1>3, <1>7 DEF Register, AddNode, Knowing, BootInv, TypeOK
  <1>8. ASSUME Smooth, NEW k \in Node, Update(k) PROVE DrawnInv'
    BY <1>3, <1>8 DEF Update, NewNodes, Knowing, BootInv, TypeOK
  <1>9. ASSUME Smooth, NEW l \in lists, NewValidators(l[1], l[2]) PROVE DrawnInv'
    BY <1>9, ListComes
  <1>10. ASSUME Smooth, NEW l \in lists PROVE ~ListLost(l[1], l[2])
    <2>1. l[1] \in nodes[Genesis] \ {Genesis} /\ ~broken /\ died = {}
      BY <1>10 DEF DrawnInv, Smooth
    <2> QED
      BY <2>1 DEF ListLost, FailInv
  <1>11. ASSUME Smooth, UNCHANGED <<nodes, told, lists, validators>> PROVE DrawnInv'
    BY <1>3, <1>11
  <1>12. \A k \in Node : BootFails(k) \/ PopulateFails(k) \/ Registered(k) \/ Die(k) \/ Restart(k)
             => UNCHANGED <<nodes, told, lists, validators>>
    BY DEF BootFails, PopulateFails, Registered, Die, Restart, Fail, fileVars, historyVars
  <1>13. DrawFails \/ UNCHANGED vars => UNCHANGED <<nodes, told, lists, validators>>
    BY DEF DrawFails, fileVars, historyVars, vars
  <1> QED
    BY <1>1, <1>2, <1>4, <1>5, <1>6, <1>7, <1>8, <1>9, <1>10, <1>11, <1>12, <1>13 DEF Next, Boot

-----------------------------------------------------------------------------
(* Theorems *)

IInv == BootInv /\ NotDrawnInv /\ FailInv /\ KnowInv /\ DrawnInv

LEMMA IInvInit == Init => IInv
  <1>1. Init => NotDrawnInv /\ DrawnInv
    BY DEF Init, NotDrawnInv, DrawnInv, Smooth
  <1>2. Init => FailInv
    BY GenesisAssumption DEF Init, FailInv, BootSucceeds, Registering
  <1>3. Init => KnowInv
    BY DEF Init, KnowInv
  <1> QED
    BY <1>1, <1>2, <1>3, BootInit DEF IInv

LEMMA IInvAlways == Spec => []IInv
  <1>1. IInv /\ [Next]_vars => IInv'
    BY BootStep, NotDrawnStep, FailStep, KnowStep, DrawnStep DEF IInv
  <1> QED
    BY <1>1, IInvInit, PTL DEF Spec

\* The files of every node, where its boot stands and the requests have their types, and
\* the nodes file of the genesis node lists no node twice.
THEOREM TypeCorrect == Spec => []TypeOK
  <1>1. IInv => TypeOK
    BY DEF IInv, BootInv
  <1> QED
    BY <1>1, IInvAlways, PTL

\* A boot that fails after the registration has begun overlapped with another one, met a
\* node that died, or came after the validators were drawn; a node that joined has a chain.
THEOREM BootsSucceed == Spec => []BootSucceeds
  <1>1. IInv => BootSucceeds
    BY DEF IInv, FailInv
  <1> QED
    BY <1>1, IInvAlways, PTL

\* Nodes that have joined know each other, in whatever order they registered and however
\* their registrations overlapped, but for one that refused the word of the genesis node.
THEOREM JoinedNodesKnow == Spec => []JoinedKnowEachOther
  <1>1. IInv => JoinedKnowEachOther
    <2> SUFFICES ASSUME IInv, NEW m \in joined, NEW n \in joined, m \notin untold
                 PROVE  n \in nodes[m] /\ n \in trusted[m] \cup {Genesis}
      BY DEF JoinedKnowEachOther
    <2>1. m \in Node /\ n \in nodes[Genesis] /\ ~(visited[n] > 0)
      BY DEF IInv, BootInv, TypeOK, StageInv, Stage
    <2>2. n \in nodes[m]
      BY <2>1 DEF IInv, KnowInv, Coming
    <2> QED
      BY <2>1, <2>2 DEF IInv, KnowInv
  <1> QED
    BY <1>1, IInvAlways, PTL

\* Validators that were drawn while nobody registered, nothing had failed and no node had
\* died are those of every node, once the list has come.
THEOREM DrawnListIsShared == Spec => []DrawnAreShared
  <1>1. IInv => DrawnAreShared
    BY DEF IInv, DrawnInv, Smooth, DrawnAreShared
  <1> QED
    BY <1>1, IInvAlways, PTL
=============================================================================
