---------------------------- MODULE Chain_proofs ----------------------------
(***************************************************************************)
(* Proofs about Chain, for any nodes, transactions, notices and ids of     *)
(* blocks, and whatever is lost or crashes: types, ChainIsLinked and       *)
(* PrefixAgreement.                                                        *)
(*                                                                         *)
(* The inductive invariant IInv says that blocks are known by their ids    *)
(* and chains are made of signed blocks on Genesis (BlocksInv), that two   *)
(* blocks at work together make the node raced, and that a block about to  *)
(* be appended at a node that is not follows its last one, from the check  *)
(* of its handler or its signature on (NextInv).  A chain then changes by  *)
(* the append of such a block only (ChainMove), and the two properties are *)
(* facts of that append.                                                   *)
(***************************************************************************)
EXTENDS Chain, TLAPS

\* The worker has signed its block and not sent it.
HasSigned(n) == worker[n].pc \in {"append", "delete again", "dump again", "send"}

BlocksInv ==
    /\ \A b, c \in signed : b.id = c.id => b = c
    /\ \A b \in signed : b.id \in BlockId
    /\ \A n \in Node :
          /\ Len(chain[n]) >= 1
          /\ chain[n][1] = Genesis
          /\ \A i \in 2..Len(chain[n]) : chain[n][i] \in signed

NextAt(n) ==
    /\ HasSigned(n) => worker[n].block \in signed
    /\ HandlerBusy(n) => handler[n].block \in signed
    /\ n \notin raced =>
          /\ ~(WorkerBusy(n) /\ HandlerBusy(n))
          /\ resolving[n] # {} => ~WorkerBusy(n) /\ ~HandlerBusy(n)
          /\ \A b, c \in resolving[n] : b = c
          /\ \A b \in resolving[n] : b.prev = Last(n).id
          /\ worker[n].pc = "append" => worker[n].block.prev = Last(n).id
          /\ HandlerBusy(n) => handler[n].block.prev = Last(n).id

NextInv == \A n \in Node : NextAt(n)

IInv == TypeOK /\ BlocksInv /\ NextInv /\ ChainIsLinked /\ PrefixAgreement

Assumptions ==
    /\ Validator \subseteq Node /\ Validator # {}
    /\ Notice \subseteq Node \X Tx \X Validator
    /\ Place \subseteq Nat
    /\ BlockId \subseteq Nat \ {0}

LEMMA ConstantsAreRight == Assumptions
  BY ValidatorAssumption, NoticeAssumption, PlaceAssumption, BlockIdAssumption
     DEF Assumptions

LEMMA GenesisType ==
  /\ Genesis \in Block
  /\ Genesis.id = 0
  /\ WorkerIdle \in Worker
  /\ HandlerIdle \in Handler
  <1>1. (CHOOSE v \in Validator : TRUE) \in Node
    BY ConstantsAreRight DEF Assumptions
  <1>2. Genesis \in Block
    BY <1>1 DEF Genesis, Block
  <1> QED
    BY <1>2 DEF Genesis, WorkerIdle, HandlerIdle, Worker, Handler

\* What a chain becomes when a block is appended to it.
LEMMA AppendFacts ==
  ASSUME NEW S, NEW s \in Seq(S), NEW b \in S
  PROVE  /\ Append(s, b) \in Seq(S)
         /\ Len(Append(s, b)) = Len(s) + 1
         /\ \A i \in 1..Len(s) : Append(s, b)[i] = s[i]
         /\ Append(s, b)[Len(s) + 1] = b
  OBVIOUS
-----------------------------------------------------------------------------
(* Types *)

LEMMA InitType == Init => TypeOK
  <1> SUFFICES ASSUME Init PROVE TypeOK
    OBVIOUS
  <1>1. chain \in [Node -> Seq(Block)]
    BY GenesisType DEF Init
  <1>2. /\ worker \in [Node -> Worker] /\ handler \in [Node -> Handler]
    BY GenesisType DEF Init
  <1> QED
    BY <1>1, <1>2 DEF Init, TypeOK

LEMMA WorkType ==
  ASSUME TypeOK, NEW n \in Node, NEW w \in Worker, Work(n, w)
  PROVE  /\ worker' \in [Node -> Worker] /\ handler' \in [Node -> Handler]
         /\ crashed' \subseteq Node /\ resolving' = resolving
  BY DEF TypeOK, Work

LEMMA HandleType ==
  ASSUME TypeOK, NEW n \in Node, NEW h \in Handler, Handle(n, h)
  PROVE  /\ worker' \in [Node -> Worker] /\ handler' \in [Node -> Handler]
         /\ crashed' \subseteq Node /\ resolving' = resolving
  BY DEF TypeOK, Handle

LEMMA AddType ==
  ASSUME TypeOK, NEW n \in Node, NEW b \in Block, Add(n, b)
  PROVE  chain' \in [Node -> Seq(Block)] /\ young' \in [Node -> BOOLEAN]
  <1>1. chain[n] \in Seq(Block)
    BY DEF TypeOK
  <1>2. Append(chain[n], b) \in Seq(Block)
    BY <1>1, AppendFacts
  <1> QED
    BY <1>2 DEF TypeOK, Add

LEMMA WriteType ==
  ASSUME TypeOK, NEW n \in Node, NEW txs \in SUBSET Tx, Write(n, txs)
  PROVE  /\ verified' \in [Node -> SUBSET Tx]
         /\ place' \in [Node -> [Tx -> Place]]
         /\ touched' \in [Node -> BOOLEAN]
  BY DEF TypeOK, Write

\* The last block of a chain is one of its blocks.
LEMMA LastFacts ==
  ASSUME TypeOK, BlocksInv, NEW n \in Node
  PROVE  Last(n) \in Block /\ Last(n).id \in BlockId \cup {0}
  <1>1. chain[n] \in Seq(Block) /\ Len(chain[n]) \in Nat /\ Len(chain[n]) >= 1
    BY DEF TypeOK, BlocksInv
  <1>2. Last(n) \in Block
    BY <1>1 DEF Last
  <1> QED
    BY <1>2 DEF Block

LEMMA TransactionVerifiedType ==
  ASSUME TypeOK, NEW n \in Node, NEW t \in Tx, NEW v \in Validator,
         TransactionVerified(n, t, v)
  PROVE  TypeOK'
  <1> USE DEF TransactionVerified, blockVars, procVars
  <1>1. UNCHANGED <<chain, young, net, signed, worker, resolving, handler, raced, crashed>>
    OBVIOUS
  <1>2. place' \in [Node -> [Tx -> Place]]
    <2>1. PICK p \in Place : place' = [place EXCEPT ![n][t] = p]
      OBVIOUS
    <2>2. place[n] \in [Tx -> Place]
      BY DEF TypeOK
    <2> QED
      BY <2>1, <2>2 DEF TypeOK
  <1>3. /\ verified' \in [Node -> SUBSET Tx] /\ learned' \in [Node -> SUBSET Tx]
        /\ touched' \in [Node -> BOOLEAN] /\ coming' \subseteq Notice
    BY DEF TypeOK
  <1>4. relearned' \subseteq Tx /\ clobbered' \subseteq Node
    BY DEF TypeOK
  <1> QED
    BY <1>1, <1>2, <1>3, <1>4 DEF TypeOK

LEMMA WorkerStepType ==
  ASSUME TypeOK, BlocksInv, NextInv, NEW n \in Node, WorkerStep(n)
  PROVE  TypeOK'
  <1> USE DEF blockVars, storeVars, noticeVars
  <1>0. /\ worker[n] \in Worker
        /\ verified[n] \subseteq Tx
        /\ worker[n].taken \subseteq Tx /\ worker[n].rest \subseteq Tx
        /\ worker[n].block \in Block
        /\ touched[n] \in BOOLEAN
    BY DEF TypeOK, Worker
  <1>1. CASE BlockIsDue(n)
    <2>1. [worker[n] EXCEPT !.pc = "take"] \in Worker
      BY <1>0 DEF Worker
    <2>2. /\ worker' \in [Node -> Worker] /\ handler' \in [Node -> Handler]
          /\ crashed' \subseteq Node /\ resolving' = resolving
      BY <1>1, <2>1, WorkType DEF BlockIsDue
    <2> QED
      BY <1>1, <2>2 DEF BlockIsDue, TypeOK
  <1>2. CASE TakeVerified(n)
    <2>1. [worker[n] EXCEPT !.pc = "delete", !.taken = verified[n]] \in Worker
      BY <1>0 DEF Worker
    <2>2. /\ worker' \in [Node -> Worker] /\ handler' \in [Node -> Handler]
          /\ crashed' \subseteq Node /\ resolving' = resolving
      BY <1>2, <2>1, WorkType DEF TakeVerified
    <2> QED
      BY <1>2, <2>2 DEF TakeVerified, TypeOK
  <1>3. CASE DeleteTaken(n)
    <2>1. [worker[n] EXCEPT !.pc = "dump", !.reloaded = touched[n],
                            !.rest = verified[n] \ worker[n].taken] \in Worker
      BY <1>0 DEF Worker
    <2>2. [WorkerIdle EXCEPT !.pc = "dead"] \in Worker
      BY GenesisType DEF Worker
    <2>3. /\ worker' \in [Node -> Worker] /\ handler' \in [Node -> Handler]
          /\ crashed' \subseteq Node /\ resolving' = resolving
      BY <1>3, <2>1, <2>2, WorkType DEF DeleteTaken
    <2> QED
      BY <1>3, <2>3 DEF DeleteTaken, TypeOK
  <1>4. CASE DumpRest(n)
    <2>1. [worker[n] EXCEPT !.pc = "sign"] \in Worker
      BY <1>0 DEF Worker
    <2>2. /\ worker' \in [Node -> Worker] /\ handler' \in [Node -> Handler]
          /\ crashed' \subseteq Node /\ resolving' = resolving
      BY <1>4, <2>1, WorkType DEF DumpRest
    <2>3. /\ verified' \in [Node -> SUBSET Tx]
          /\ place' \in [Node -> [Tx -> Place]]
          /\ touched' \in [Node -> BOOLEAN]
      BY <1>0, <1>4, WriteType DEF DumpRest
    <2> QED
      BY <1>4, <2>2, <2>3 DEF DumpRest, TypeOK
  <1>5. CASE SignBlock(n)
    <2>1. PICK id \in BlockId :
             LET b == [id |-> id, prev |-> Last(n).id, by |-> n, txs |-> worker[n].taken]
             IN /\ signed' = signed \cup {b}
                /\ Work(n, [worker[n] EXCEPT !.pc = "append", !.block = b])
      BY <1>5 DEF SignBlock
    <2> DEFINE b == [id |-> id, prev |-> Last(n).id, by |-> n, txs |-> worker[n].taken]
    <2>2. b \in Block
      BY <1>0, LastFacts DEF Block
    <2>3. [worker[n] EXCEPT !.pc = "append", !.block = b] \in Worker
      BY <1>0, <2>2 DEF Worker
    <2>4. /\ worker' \in [Node -> Worker] /\ handler' \in [Node -> Handler]
          /\ crashed' \subseteq Node /\ resolving' = resolving
      BY <2>1, <2>3, WorkType
    <2>5. signed' \subseteq Block /\ signed \subseteq signed'
      BY <2>1, <2>2 DEF TypeOK
    <2> QED
      BY <1>5, <2>4, <2>5 DEF SignBlock, TypeOK
  <1>6. CASE AppendBlock(n)
    <2>1. [worker[n] EXCEPT !.pc = "delete again"] \in Worker
      BY <1>0 DEF Worker
    <2>2. /\ worker' \in [Node -> Worker] /\ handler' \in [Node -> Handler]
          /\ crashed' \subseteq Node /\ resolving' = resolving
      BY <1>6, <2>1, WorkType DEF AppendBlock
    <2>3. chain' \in [Node -> Seq(Block)] /\ young' \in [Node -> BOOLEAN]
      BY <1>0, <1>6, AddType DEF AppendBlock
    <2> QED
      BY <1>6, <2>2, <2>3 DEF AppendBlock, TypeOK
  <1>7. CASE DeleteAgain(n)
    <2> DEFINE keys == IF worker[n].reloaded THEN worker[n].taken ELSE {}
    <2>1. [worker[n] EXCEPT !.pc = "dump again", !.rest = verified[n] \ keys] \in Worker
      BY <1>0 DEF Worker
    <2>2. [WorkerIdle EXCEPT !.pc = "dead"] \in Worker
      BY GenesisType DEF Worker
    <2>3. /\ worker' \in [Node -> Worker] /\ handler' \in [Node -> Handler]
          /\ crashed' \subseteq Node /\ resolving' = resolving
      BY <1>7, <2>1, <2>2, WorkType DEF DeleteAgain
    <2> QED
      BY <1>7, <2>3 DEF DeleteAgain, TypeOK
  <1>8. CASE DumpAgain(n)
    <2>1. [worker[n] EXCEPT !.pc = "send"] \in Worker
      BY <1>0 DEF Worker
    <2>2. /\ worker' \in [Node -> Worker] /\ handler' \in [Node -> Handler]
          /\ crashed' \subseteq Node /\ resolving' = resolving
      BY <1>8, <2>1, WorkType DEF DumpAgain
    <2>3. /\ verified' \in [Node -> SUBSET Tx]
          /\ place' \in [Node -> [Tx -> Place]]
          /\ touched' \in [Node -> BOOLEAN]
      BY <1>0, <1>8, WriteType DEF DumpAgain
    <2> QED
      BY <1>8, <2>2, <2>3 DEF DumpAgain, TypeOK
  <1>9. CASE SendBlock(n)
    <2>1. /\ worker' \in [Node -> Worker] /\ handler' \in [Node -> Handler]
          /\ crashed' \subseteq Node /\ resolving' = resolving
      BY <1>9, GenesisType, WorkType DEF SendBlock
    <2>2. worker[n].block \in signed
      BY <1>9 DEF SendBlock, NextInv, NextAt, HasSigned
    <2>3. net' \subseteq Node \X signed
      BY <1>9, <2>2 DEF SendBlock, TypeOK
    <2> QED
      BY <1>9, <2>1, <2>3 DEF SendBlock, TypeOK
  <1> QED
    BY <1>1, <1>2, <1>3, <1>4, <1>5, <1>6, <1>7, <1>8, <1>9 DEF WorkerStep

LEMMA HandlingType ==
  ASSUME TypeOK, NEW n \in Node, Handling(n)
  PROVE  TypeOK'
  <1> USE DEF blockVars, storeVars, noticeVars
  <1>0. /\ handler[n] \in Handler
        /\ verified[n] \subseteq Tx
        /\ handler[n].ids \subseteq Tx /\ handler[n].rest \subseteq Tx
        /\ handler[n].block \in Block
    BY DEF TypeOK, Handler
  <1>1. CASE CheckBlock(n)
    <2>1. [handler[n] EXCEPT !.pc = "collect"] \in Handler
      BY <1>0 DEF Handler
    <2>2. /\ worker' \in [Node -> Worker] /\ handler' \in [Node -> Handler]
          /\ crashed' \subseteq Node /\ resolving' = resolving
      BY <1>1, <2>1, GenesisType, HandleType DEF CheckBlock
    <2> QED
      BY <1>1, <2>2 DEF CheckBlock, TypeOK
  <1>2. CASE CollectIds(n)
    <2>1. [handler[n] EXCEPT !.pc = "delete", !.ids = IdsOf(n, handler[n].block)] \in Handler
      BY <1>0 DEF Handler, IdsOf
    <2>2. /\ worker' \in [Node -> Worker] /\ handler' \in [Node -> Handler]
          /\ crashed' \subseteq Node /\ resolving' = resolving
      BY <1>2, <2>1, HandleType DEF CollectIds
    <2> QED
      BY <1>2, <2>2 DEF CollectIds, TypeOK
  <1>3. CASE DeleteIds(n)
    <2>1. [handler[n] EXCEPT !.pc = "dump", !.rest = verified[n] \ handler[n].ids] \in Handler
      BY <1>0 DEF Handler
    <2>2. /\ worker' \in [Node -> Worker] /\ handler' \in [Node -> Handler]
          /\ crashed' \subseteq Node /\ resolving' = resolving
      BY <1>3, <2>1, GenesisType, HandleType DEF DeleteIds
    <2> QED
      BY <1>3, <2>2 DEF DeleteIds, TypeOK
  <1>4. CASE DumpIds(n)
    <2>1. [handler[n] EXCEPT !.pc = "add"] \in Handler
      BY <1>0 DEF Handler
    <2>2. /\ worker' \in [Node -> Worker] /\ handler' \in [Node -> Handler]
          /\ crashed' \subseteq Node /\ resolving' = resolving
      BY <1>4, <2>1, HandleType DEF DumpIds
    <2>3. /\ verified' \in [Node -> SUBSET Tx]
          /\ place' \in [Node -> [Tx -> Place]]
          /\ touched' \in [Node -> BOOLEAN]
      BY <1>0, <1>4, WriteType DEF DumpIds
    <2> QED
      BY <1>4, <2>2, <2>3 DEF DumpIds, TypeOK
  <1>5. CASE AddNewBlock(n)
    <2>1. /\ worker' \in [Node -> Worker] /\ handler' \in [Node -> Handler]
          /\ crashed' \subseteq Node /\ resolving' = resolving
      BY <1>5, GenesisType, HandleType DEF AddNewBlock
    <2>2. chain' \in [Node -> Seq(Block)] /\ young' \in [Node -> BOOLEAN]
      BY <1>0, <1>5, AddType DEF AddNewBlock
    <2> QED
      BY <1>5, <2>1, <2>2 DEF AddNewBlock, TypeOK
  <1> QED
    BY <1>1, <1>2, <1>3, <1>4, <1>5 DEF Handling

LEMMA NetworkType ==
  ASSUME TypeOK, NEW n \in Node, NEW b \in signed,
         BlockArrives(n, b) \/ HostResolved(n, b) \/ BlockLost(n, b)
  PROVE  TypeOK'
  <1> USE DEF blockVars, storeVars, noticeVars, procVars
  <1>1. CASE BlockArrives(n, b) \/ BlockLost(n, b)
    <2>1. /\ net' \subseteq Node \X signed
          /\ UNCHANGED <<signed, chain, young, worker, handler, crashed>>
      BY <1>1 DEF TypeOK, BlockArrives, BlockLost
    <2>2. resolving' \in [Node -> SUBSET signed] /\ raced' \subseteq Node
      BY <1>1 DEF BlockArrives, BlockLost, TypeOK
    <2> QED
      BY <1>1, <2>1, <2>2 DEF BlockArrives, BlockLost, TypeOK
  <1>2. CASE HostResolved(n, b)
    <2>1. b \in Block /\ resolving' \in [Node -> SUBSET signed]
      BY <1>2 DEF TypeOK, HostResolved
    <2>2. handler' \in [Node -> Handler]
      <3> DEFINE first == IF n \in Validator THEN "check" ELSE "collect"
                 h == [handler[n] EXCEPT !.pc = first, !.block = b]
      <3>1. h \in Handler
        <4>1. first \in {"check", "collect"} /\ handler[n] \in Handler
          BY DEF TypeOK
        <4> HIDE DEF first
        <4> QED
          BY <2>1, <4>1 DEF Handler
      <3>2. UNCHANGED handler \/ handler' = [handler EXCEPT ![n] = h]
        BY <1>2 DEF HostResolved
      <3> QED
        BY <3>1, <3>2 DEF TypeOK
    <2> QED
      BY <1>2, <2>1, <2>2 DEF HostResolved, TypeOK
  <1> QED
    BY <1>1, <1>2

LEMMA LastBlockAgesType ==
  ASSUME TypeOK, NEW n \in Node, LastBlockAges(n)
  PROVE  TypeOK'
  BY DEF LastBlockAges, TypeOK, procVars, storeVars, noticeVars

LEMMA RestartType ==
  ASSUME TypeOK, NEW n \in Node, Restart(n)
  PROVE  TypeOK'
  BY GenesisType DEF Restart, TypeOK, blockVars, storeVars, noticeVars

LEMMA NextType ==
  ASSUME TypeOK, BlocksInv, NextInv, [Next]_vars
  PROVE  TypeOK'
  <1>1. CASE UNCHANGED vars
    BY <1>1 DEF vars, TypeOK
  <1> QED
    BY <1>1, TransactionVerifiedType, WorkerStepType, HandlingType, NetworkType, RestartType,
       LastBlockAgesType DEF Next
-----------------------------------------------------------------------------
(* How chains change *)

\* The block b follows the last one of n, or n is raced.
Extends(n, b) == n \notin raced => b.prev = Last(n).id

\* A step appends at most one block to one chain, a signed one that extends it.
LEMMA ChainMove ==
  ASSUME TypeOK, NextInv, [Next]_vars
  PROVE  /\ raced \subseteq raced' /\ signed \subseteq signed'
         /\ \/ UNCHANGED chain
            \/ \E n \in Node, b \in signed :
                  Add(n, b) /\ Extends(n, b) /\ UNCHANGED <<signed, raced>>
  <1> DEFINE Move == /\ raced \subseteq raced' /\ signed \subseteq signed'
                     /\ \/ UNCHANGED chain
                        \/ \E n \in Node, b \in signed :
                              Add(n, b) /\ Extends(n, b) /\ UNCHANGED <<signed, raced>>
  <1> USE DEF blockVars, procVars
  <1>1. CASE UNCHANGED vars
    BY <1>1 DEF vars
  <1>2. ASSUME NEW n \in Node, NEW t \in Tx, NEW v \in Validator, TransactionVerified(n, t, v)
        PROVE  Move
    BY <1>2 DEF TransactionVerified
  <1>3. ASSUME NEW n \in Node, WorkerStep(n) PROVE Move
    <2>1. CASE AppendBlock(n)
      <3>1. worker[n].block \in signed /\ Extends(n, worker[n].block)
        BY <2>1 DEF AppendBlock, NextInv, NextAt, HasSigned, Extends
      <3> QED
        BY <2>1, <3>1 DEF AppendBlock
    <2>2. CASE ~AppendBlock(n)
      <3>1. UNCHANGED chain /\ raced \subseteq raced' /\ signed \subseteq signed'
        BY <1>3, <2>2 DEF WorkerStep, BlockIsDue, TakeVerified, DeleteTaken, DumpRest, SignBlock,
           DeleteAgain, DumpAgain, SendBlock
      <3> QED
        BY <3>1
    <2> QED
      BY <2>1, <2>2
  <1>4. ASSUME NEW n \in Node, Handling(n) PROVE Move
    <2>1. CASE AddNewBlock(n)
      <3>1. handler[n].block \in signed /\ Extends(n, handler[n].block)
        BY <2>1 DEF AddNewBlock, NextInv, NextAt, HandlerBusy, Extends
      <3> QED
        BY <2>1, <3>1 DEF AddNewBlock
    <2>2. CASE ~AddNewBlock(n)
      <3>1. UNCHANGED chain /\ raced \subseteq raced' /\ signed \subseteq signed'
        BY <1>4, <2>2 DEF Handling, CheckBlock, CollectIds, DeleteIds, DumpIds
      <3> QED
        BY <3>1
    <2> QED
      BY <2>1, <2>2
  <1>5. ASSUME NEW n \in Node, NEW b \in signed,
               BlockArrives(n, b) \/ HostResolved(n, b) \/ BlockLost(n, b)
        PROVE  Move
    BY <1>5 DEF BlockArrives, HostResolved, BlockLost
  <1>6. ASSUME NEW n \in Node, Restart(n) \/ LastBlockAges(n) PROVE Move
    BY <1>6 DEF Restart, LastBlockAges
  <1> QED
    BY <1>1, <1>2, <1>3, <1>4, <1>5, <1>6 DEF Next

\* The chains after an append.
LEMMA AddEffect ==
  ASSUME TypeOK, BlocksInv, NEW n \in Node, NEW b \in signed, Add(n, b)
  PROVE  /\ \A m \in Node \ {n} : chain'[m] = chain[m]
         /\ Len(chain[n]) \in Nat /\ Len(chain[n]) >= 1
         /\ Len(chain'[n]) = Len(chain[n]) + 1
         /\ \A i \in 1..Len(chain[n]) : chain'[n][i] = chain[n][i]
         /\ chain'[n][Len(chain[n]) + 1] = b
  <1>1. chain[n] \in Seq(Block) /\ b \in Block /\ Len(chain[n]) >= 1
    BY DEF TypeOK, BlocksInv
  <1>2. chain'[n] = Append(chain[n], b) /\ \A m \in Node \ {n} : chain'[m] = chain[m]
    BY DEF Add, TypeOK
  <1> QED
    BY <1>1, <1>2, AppendFacts
-----------------------------------------------------------------------------
(* Blocks *)

\* Signing gives a block an id that no other has.
LEMMA SignedIds ==
  ASSUME TypeOK, BlocksInv, [Next]_vars
  PROVE  /\ \A b, c \in signed' : b.id = c.id => b = c
         /\ \A b \in signed' : b.id \in BlockId
  <1>1. CASE UNCHANGED signed
    BY <1>1 DEF BlocksInv
  <1>2. ASSUME NEW n \in Node, SignBlock(n)
        PROVE  /\ \A b, c \in signed' : b.id = c.id => b = c
               /\ \A b \in signed' : b.id \in BlockId
    <2>1. PICK id \in BlockId :
             LET b == [id |-> id, prev |-> Last(n).id, by |-> n, txs |-> worker[n].taken]
             IN /\ \A j \in BlockId : j < id <=> \E c \in signed : c.id = j
                /\ signed' = signed \cup {b}
      BY <1>2 DEF SignBlock
    <2>2. id \in Nat
      BY ConstantsAreRight DEF Assumptions
    <2>3. \A c \in signed : c.id # id
      BY <2>1, <2>2
    <2> QED
      BY <2>1, <2>3 DEF BlocksInv
  <1>3. [Next]_vars => UNCHANGED signed \/ \E n \in Node : SignBlock(n)
    BY DEF Next, vars, blockVars, procVars, TransactionVerified, WorkerStep, BlockIsDue,
       TakeVerified, DeleteTaken, DumpRest, AppendBlock, DeleteAgain, DumpAgain, SendBlock,
       Handling, CheckBlock, CollectIds, DeleteIds, DumpIds, AddNewBlock, BlockArrives,
       HostResolved, BlockLost, Restart, LastBlockAges
  <1> QED
    BY <1>1, <1>2, <1>3

LEMMA NextBlocks ==
  ASSUME TypeOK, BlocksInv, NextInv, [Next]_vars
  PROVE  BlocksInv'
  <1>1. ASSUME NEW n \in Node
        PROVE  /\ Len(chain'[n]) >= 1
               /\ chain'[n][1] = Genesis
               /\ \A i \in 2..Len(chain'[n]) : chain'[n][i] \in signed'
    <2>1. CASE UNCHANGED chain
      BY <2>1, ChainMove DEF BlocksInv
    <2>2. CASE \E m \in Node, b \in signed : Add(m, b)
      <3>1. PICK m \in Node, b \in signed : Add(m, b)
        BY <2>2
      <3>2. CASE m = n
        BY <3>1, <3>2, AddEffect, ChainMove DEF BlocksInv
      <3>3. CASE m # n
        BY <3>1, <3>3, AddEffect, ChainMove DEF BlocksInv
      <3> QED
        BY <3>2, <3>3
    <2> QED
      BY <2>1, <2>2, ChainMove
  <1> QED
    BY <1>1, SignedIds DEF BlocksInv
-----------------------------------------------------------------------------
(* The next block *)

\* A step that leaves a node alone keeps what NextInv says of it.
LEMMA NextFrame ==
  ASSUME NEW n \in Node, NextAt(n), signed \subseteq signed', raced \subseteq raced',
         worker'[n] = worker[n], handler'[n] = handler[n], chain'[n] = chain[n],
         resolving'[n] = resolving[n]
  PROVE  NextAt(n)'
  BY DEF NextAt, HasSigned, HandlerBusy, WorkerBusy, Last

LEMMA WorkerStepNext ==
  ASSUME TypeOK, BlocksInv, NextInv, NEW n \in Node, WorkerStep(n)
  PROVE  NextInv'
  <1> USE DEF blockVars, storeVars, noticeVars
  <1>0. /\ worker[n] \in Worker /\ handler[n] \in Handler /\ NextAt(n)
        /\ worker' = [worker EXCEPT ![n] = worker'[n]] /\ handler' = handler
        /\ resolving' = resolving /\ signed \subseteq signed' /\ raced \subseteq raced'
        /\ \A m \in Node \ {n} : chain'[m] = chain[m]
    BY DEF TypeOK, NextInv, WorkerStep, BlockIsDue, TakeVerified, DeleteTaken, DumpRest,
       SignBlock, AppendBlock, DeleteAgain, DumpAgain, SendBlock, Work, Add
  <1>1. \A m \in Node \ {n} : NextAt(m)'
    <2> SUFFICES ASSUME NEW m \in Node \ {n} PROVE NextAt(m)'
      OBVIOUS
    <2>1. worker'[m] = worker[m] /\ handler'[m] = handler[m]
      BY <1>0 DEF TypeOK
    <2> QED
      BY <1>0, <2>1, NextFrame DEF NextInv
  <1>2. NextAt(n)'
    <2> USE DEF NextAt, HasSigned, HandlerBusy, WorkerBusy, Last, Worker, TypeOK
    <2>1. CASE BlockIsDue(n)
      BY <1>0, <2>1 DEF BlockIsDue, Work, ServerBusy
    <2>2. CASE TakeVerified(n)
      BY <1>0, <2>2 DEF TakeVerified, Work
    <2>3. CASE DeleteTaken(n)
      <3>1. UNCHANGED <<chain, signed, raced>>
        BY <2>3 DEF DeleteTaken
      <3>2. \/ worker'[n].pc = "dump" /\ worker'[n].block = worker[n].block
            \/ worker'[n].pc = "dead"
        <4>1. CASE Work(n, [worker[n] EXCEPT !.pc = "dump", !.reloaded = touched[n],
                                          !.rest = verified[n] \ worker[n].taken])
          BY <1>0, <4>1 DEF Work
        <4>2. CASE Work(n, [WorkerIdle EXCEPT !.pc = "dead"])
          BY <1>0, <4>2 DEF Work, WorkerIdle
        <4> QED
          BY <2>3, <4>1, <4>2 DEF DeleteTaken
      <3> QED
        BY <1>0, <2>3, <3>1, <3>2 DEF DeleteTaken
    <2>4. CASE DumpRest(n)
      BY <1>0, <2>4 DEF DumpRest, Work
    <2>5. CASE SignBlock(n)
      <3>1. PICK id \in BlockId :
               LET b == [id |-> id, prev |-> Last(n).id, by |-> n, txs |-> worker[n].taken]
               IN /\ signed' = signed \cup {b}
                  /\ Work(n, [worker[n] EXCEPT !.pc = "append", !.block = b])
        BY <2>5 DEF SignBlock
      <3>2. UNCHANGED <<chain, raced>>
        BY <2>5 DEF SignBlock
      <3>3. worker'[n].pc = "append" /\ worker'[n].block.prev = Last(n).id
            /\ worker'[n].block \in signed'
        BY <1>0, <3>1 DEF Work
      <3> QED
        BY <1>0, <2>5, <3>2, <3>3 DEF SignBlock
    <2>6. CASE AppendBlock(n)
      BY <1>0, <2>6 DEF AppendBlock, Work
    <2>7. CASE DeleteAgain(n)
      <3>1. UNCHANGED <<chain, signed, raced>>
        BY <2>7 DEF DeleteAgain
      <3>2. \/ worker'[n].pc = "dump again" /\ worker'[n].block = worker[n].block
            \/ worker'[n].pc = "dead"
        <4>1. CASE Work(n, [worker[n] EXCEPT !.pc = "dump again",
                      !.rest = verified[n] \ IF worker[n].reloaded THEN worker[n].taken ELSE {}])
          BY <1>0, <4>1 DEF Work
        <4>2. CASE Work(n, [WorkerIdle EXCEPT !.pc = "dead"])
          BY <1>0, <4>2 DEF Work, WorkerIdle
        <4> QED
          BY <2>7, <4>1, <4>2 DEF DeleteAgain
      <3> QED
        BY <1>0, <2>7, <3>1, <3>2 DEF DeleteAgain
    <2>8. CASE DumpAgain(n)
      BY <1>0, <2>8 DEF DumpAgain, Work
    <2>9. CASE SendBlock(n)
      BY <1>0, <2>9 DEF SendBlock, Work, WorkerIdle
    <2> QED
      BY <2>1, <2>2, <2>3, <2>4, <2>5, <2>6, <2>7, <2>8, <2>9 DEF WorkerStep
  <1> QED
    BY <1>1, <1>2 DEF NextInv

LEMMA HandlingNext ==
  ASSUME TypeOK, BlocksInv, NextInv, NEW n \in Node, Handling(n)
  PROVE  NextInv'
  <1> USE DEF blockVars, storeVars, noticeVars
  <1>0. /\ worker[n] \in Worker /\ handler[n] \in Handler /\ NextAt(n)
        /\ handler' = [handler EXCEPT ![n] = handler'[n]] /\ worker' = worker
        /\ resolving' = resolving /\ signed' = signed /\ raced' = raced
        /\ \A m \in Node \ {n} : chain'[m] = chain[m]
    BY DEF TypeOK, NextInv, Handling, CheckBlock, CollectIds, DeleteIds, DumpIds,
       AddNewBlock, Handle, Add
  <1>1. \A m \in Node \ {n} : NextAt(m)'
    <2> SUFFICES ASSUME NEW m \in Node \ {n} PROVE NextAt(m)'
      OBVIOUS
    <2>1. worker'[m] = worker[m] /\ handler'[m] = handler[m]
      BY <1>0 DEF TypeOK
    <2> QED
      BY <1>0, <2>1, NextFrame DEF NextInv
  <1>2. NextAt(n)'
    <2> USE DEF NextAt, HasSigned, HandlerBusy, WorkerBusy, Last, Handler, TypeOK
    <2>1. CASE CheckBlock(n)
      <3>1. UNCHANGED <<chain, signed, raced>>
        BY <2>1 DEF CheckBlock
      <3>2. \/ handler'[n].pc = "collect" /\ handler'[n].block = handler[n].block
            \/ handler'[n].pc = "idle"
        <4>1. CASE Handle(n, [handler[n] EXCEPT !.pc = "collect"])
          BY <1>0, <4>1 DEF Handle
        <4>2. CASE Handle(n, HandlerIdle)
          BY <1>0, <4>2 DEF Handle, HandlerIdle
        <4> QED
          BY <2>1, <4>1, <4>2 DEF CheckBlock
      <3> QED
        BY <1>0, <2>1, <3>1, <3>2 DEF CheckBlock
    <2>2. CASE CollectIds(n)
      BY <1>0, <2>2 DEF CollectIds, Handle
    <2>3. CASE DeleteIds(n)
      <3>1. UNCHANGED <<chain, signed, raced>>
        BY <2>3 DEF DeleteIds
      <3>2. \/ handler'[n].pc = "dump" /\ handler'[n].block = handler[n].block
            \/ handler'[n].pc = "idle"
        <4>1. CASE Handle(n, [handler[n] EXCEPT !.pc = "dump",
                                            !.rest = verified[n] \ handler[n].ids])
          BY <1>0, <4>1 DEF Handle
        <4>2. CASE Handle(n, HandlerIdle)
          BY <1>0, <4>2 DEF Handle, HandlerIdle
        <4> QED
          BY <2>3, <4>1, <4>2 DEF DeleteIds
      <3> QED
        BY <1>0, <2>3, <3>1, <3>2 DEF DeleteIds
    <2>4. CASE DumpIds(n)
      BY <1>0, <2>4 DEF DumpIds, Handle
    <2>5. CASE AddNewBlock(n)
      BY <1>0, <2>5 DEF AddNewBlock, Handle, HandlerIdle
    <2> QED
      BY <2>1, <2>2, <2>3, <2>4, <2>5 DEF Handling
  <1> QED
    BY <1>1, <1>2 DEF NextInv

LEMMA BlockArrivesNext ==
  ASSUME TypeOK, NextInv, NEW n \in Node, NEW b \in signed, BlockArrives(n, b)
  PROVE  NextInv'
  <1>1. /\ UNCHANGED <<chain, signed, worker, handler>> /\ raced \subseteq raced'
        /\ ~HandlerBusy(n)
        /\ \A m \in Node \ {n} : resolving'[m] = resolving[m]
    BY DEF BlockArrives, TypeOK
  <1>2. \A m \in Node \ {n} : NextAt(m)'
    BY <1>1, NextFrame DEF NextInv
  <1>3. CASE UNCHANGED <<resolving, raced>>
    BY <1>1, <1>2, <1>3, NextFrame DEF NextInv
  <1>4. CASE ~UNCHANGED <<resolving, raced>>
    <2>1. /\ b.prev = Last(n).id
          /\ resolving' = [resolving EXCEPT ![n] = @ \cup {b}]
          /\ raced' = IF WorkerBusy(n) \/ resolving[n] # {} THEN raced \cup {n} ELSE raced
      BY <1>4 DEF BlockArrives, Follows
    <2>2. resolving'[n] = resolving[n] \cup {b} /\ NextAt(n)
      BY <2>1 DEF TypeOK, NextInv
    <2>3. NextAt(n)'
      <3>1. CASE WorkerBusy(n) \/ resolving[n] # {}
        BY <1>1, <2>1, <2>2, <3>1 DEF NextAt, HasSigned, HandlerBusy, Last
      <3>2. CASE ~(WorkerBusy(n) \/ resolving[n] # {})
        BY <1>1, <2>1, <2>2, <3>2 DEF NextAt, HasSigned, HandlerBusy, WorkerBusy, Last
      <3> QED
        BY <3>1, <3>2
    <2> QED
      BY <1>2, <2>3 DEF NextInv
  <1> QED
    BY <1>3, <1>4

LEMMA HostResolvedNext ==
  ASSUME TypeOK, NextInv, NEW n \in Node, NEW b \in signed, HostResolved(n, b)
  PROVE  NextInv'
  <1>1. /\ UNCHANGED <<chain, signed, worker, raced>>
        /\ ~HandlerBusy(n) /\ b \in resolving[n]
        /\ resolving'[n] = resolving[n] \ {b}
        /\ \A m \in Node \ {n} : resolving'[m] = resolving[m] /\ handler'[m] = handler[m]
    BY DEF HostResolved, TypeOK, blockVars
  <1>2. \A m \in Node \ {n} : NextAt(m)'
    BY <1>1, NextFrame DEF NextInv
  <1>3. handler'[n] = handler[n] \/ handler'[n].block = b
    BY DEF HostResolved, TypeOK, Handler
  <1>4. NextAt(n) /\ (n \notin raced => resolving'[n] = {} /\ ~WorkerBusy(n) /\ b.prev = Last(n).id)
    BY <1>1 DEF NextInv, NextAt
  <1>5. NextAt(n)'
    BY <1>1, <1>3, <1>4 DEF NextAt, HasSigned, HandlerBusy, WorkerBusy, Last
  <1> QED
    BY <1>2, <1>5 DEF NextInv

LEMMA NetworkNext ==
  ASSUME TypeOK, NextInv, NEW n \in Node, NEW b \in signed,
         BlockArrives(n, b) \/ HostResolved(n, b) \/ BlockLost(n, b)
  PROVE  NextInv'
  <1>1. BlockLost(n, b) => NextInv'
    BY NextFrame DEF NextInv, BlockLost, procVars
  <1> QED
    BY <1>1, BlockArrivesNext, HostResolvedNext

LEMMA RestartNext ==
  ASSUME TypeOK, NextInv, NEW n \in Node, Restart(n)
  PROVE  NextInv'
  <1>1. /\ worker' = [worker EXCEPT ![n] = WorkerIdle]
        /\ handler' = [handler EXCEPT ![n] = HandlerIdle]
        /\ resolving' = [resolving EXCEPT ![n] = {}]
        /\ UNCHANGED <<chain, signed, raced>>
    BY DEF Restart, blockVars
  <1>2. \A m \in Node \ {n} : NextAt(m)'
    BY <1>1, NextFrame DEF NextInv, TypeOK
  <1>3. NextAt(n)'
    BY <1>1 DEF NextAt, HasSigned, HandlerBusy, WorkerBusy, WorkerIdle, HandlerIdle, TypeOK
  <1> QED
    BY <1>2, <1>3 DEF NextInv

LEMMA NextNext ==
  ASSUME TypeOK, BlocksInv, NextInv, [Next]_vars
  PROVE  NextInv'
  <1>1. CASE UNCHANGED vars
    BY <1>1, NextFrame DEF vars, NextInv
  <1>2. ASSUME NEW n \in Node, NEW t \in Tx, NEW v \in Validator, TransactionVerified(n, t, v)
        PROVE  NextInv'
    BY <1>2, NextFrame DEF NextInv, TransactionVerified, blockVars, procVars
  <1>3. ASSUME NEW n \in Node, LastBlockAges(n) PROVE NextInv'
    BY <1>3, NextFrame DEF NextInv, LastBlockAges, procVars
  <1> QED
    BY <1>1, <1>2, <1>3, WorkerStepNext, HandlingNext, NetworkNext, RestartNext DEF Next
-----------------------------------------------------------------------------
(* Links and prefixes *)

LEMMA NextLinked ==
  ASSUME TypeOK, BlocksInv, NextInv, ChainIsLinked, [Next]_vars
  PROVE  ChainIsLinked'
  <1> SUFFICES ASSUME NEW n \in Node, n \notin raced', NEW i \in 2..Len(chain'[n])
               PROVE  chain'[n][i].prev = chain'[n][i - 1].id
    BY DEF ChainIsLinked, Linked
  <1>1. n \notin raced
    BY ChainMove
  <1>2. CASE chain'[n] = chain[n]
    BY <1>1, <1>2 DEF ChainIsLinked, Linked
  <1>3. CASE \E b \in signed : Add(n, b) /\ Extends(n, b)
    <2>1. PICK b \in signed : Add(n, b) /\ b.prev = Last(n).id
      BY <1>1, <1>3 DEF Extends
    <2>2. /\ Len(chain[n]) \in Nat /\ Len(chain[n]) >= 1
          /\ Len(chain'[n]) = Len(chain[n]) + 1
          /\ \A k \in 1..Len(chain[n]) : chain'[n][k] = chain[n][k]
          /\ chain'[n][Len(chain[n]) + 1] = b
      BY <2>1, AddEffect
    <2>3. CASE i = Len(chain[n]) + 1
      BY <2>1, <2>2, <2>3 DEF Last
    <2>4. CASE i # Len(chain[n]) + 1
      <3>1. i \in 2..Len(chain[n]) /\ i \in 1..Len(chain[n]) /\ i - 1 \in 1..Len(chain[n])
        BY <2>2, <2>4
      <3> QED
        BY <1>1, <2>2, <3>1 DEF ChainIsLinked, Linked
    <2> QED
      BY <2>3, <2>4
  <1>4. CASE \E m \in Node \ {n}, b \in signed : Add(m, b)
    BY <1>2, <1>4, AddEffect
  <1> QED
    BY <1>2, <1>3, <1>4, ChainMove

\* Chains p and q agree wherever they share a block.
AgreeAt(p, q) ==
    \A i \in 1..Len(p), j \in 1..Len(q) :
        p[i].id = q[j].id => i = j /\ \A k \in 1..i : p[k] = q[k]

\* What makes chain c a chain: it starts with Genesis and its blocks, signed ones,
\* follow each other.
IsChain(c) ==
    /\ Len(c) \in Nat /\ Len(c) >= 1
    /\ c[1] = Genesis
    /\ \A i \in 2..Len(c) : c[i] \in signed /\ c[i].prev = c[i - 1].id

\* A block that follows the last one of a chain is nowhere in that chain, and in a
\* chain that agrees with it, only on top of the same blocks.
LEMMA AgreementGrows ==
  ASSUME BlocksInv, NEW c, NEW d, NEW e, NEW b \in signed,
         IsChain(c), IsChain(d), AgreeAt(c, d),
         b.prev = c[Len(c)].id,
         Len(e) = Len(c) + 1, e[Len(c) + 1] = b, \A k \in 1..Len(c) : e[k] = c[k]
  PROVE  AgreeAt(e, d)
  <1> SUFFICES ASSUME NEW i \in 1..Len(e), NEW j \in 1..Len(d), e[i].id = d[j].id
               PROVE  i = j /\ \A k \in 1..i : e[k] = d[k]
    BY DEF AgreeAt
  <1>0. Len(c) \in Nat /\ Len(d) \in Nat /\ Len(c) >= 1 /\ Len(d) >= 1
    BY DEF IsChain
  <1>1. CASE i \in 1..Len(c)
    <2>1. i = j /\ \A k \in 1..i : c[k] = d[k]
      BY <1>0, <1>1 DEF AgreeAt
    <2> QED
      BY <1>0, <1>1, <2>1
  <1>2. CASE i = Len(c) + 1
    <2>1. b.id # Genesis.id
      BY GenesisType, ConstantsAreRight DEF BlocksInv, Assumptions
    <2>2. j # 1
      BY <1>2, <2>1 DEF IsChain
    <2>3. j \in 2..Len(d) /\ j - 1 \in 1..Len(d)
      BY <1>0, <2>2
    <2>4. d[j] \in signed /\ d[j].prev = d[j - 1].id
      BY <2>3 DEF IsChain
    <2>5. d[j] = b
      BY <1>2, <2>4 DEF BlocksInv
    <2>6. Len(c) = j - 1 /\ \A k \in 1..Len(c) : c[k] = d[k]
      BY <1>0, <2>3, <2>4, <2>5 DEF AgreeAt
    <2> QED
      BY <1>0, <1>2, <2>3, <2>5, <2>6
  <1> QED
    BY <1>0, <1>1, <1>2

\* Agreement is symmetric.
LEMMA AgreementIsSymmetric ==
  ASSUME NEW p, NEW q, AgreeAt(p, q)
  PROVE  AgreeAt(q, p)
  BY DEF AgreeAt

LEMMA NextPrefix ==
  ASSUME TypeOK, BlocksInv, NextInv, ChainIsLinked, PrefixAgreement, [Next]_vars
  PROVE  PrefixAgreement'
  <1> DEFINE Free == Node \ raced
  <1>0. \A m, n \in Free : AgreeAt(chain[m], chain[n])
    BY DEF PrefixAgreement, AgreeAt
  <1>1. \A n \in Free : IsChain(chain[n])
    BY DEF BlocksInv, ChainIsLinked, Linked, IsChain, TypeOK
  <1>2. SUFFICES \A m, n \in Free : AgreeAt(chain'[m], chain'[n])
    <2>1. Node \ raced' \subseteq Free
      BY ChainMove
    <2> QED
      BY <1>2, <2>1 DEF PrefixAgreement, AgreeAt
  <1>3. CASE UNCHANGED chain
    BY <1>0, <1>3
  <1>4. CASE \E a \in Node, b \in signed : Add(a, b) /\ Extends(a, b)
    <2>1. PICK a \in Node, b \in signed : Add(a, b) /\ Extends(a, b)
      BY <1>4
    <2>2. /\ \A m \in Node \ {a} : chain'[m] = chain[m]
          /\ Len(chain[a]) \in Nat /\ Len(chain[a]) >= 1
          /\ Len(chain'[a]) = Len(chain[a]) + 1
          /\ \A k \in 1..Len(chain[a]) : chain'[a][k] = chain[a][k]
          /\ chain'[a][Len(chain[a]) + 1] = b
      BY <2>1, AddEffect
    <2>3. ASSUME a \in Free, NEW n \in Free PROVE AgreeAt(chain'[a], chain[n])
      <3>1. b.prev = chain[a][Len(chain[a])].id
        BY <2>1, <2>3 DEF Extends, Last
      <3> QED
        BY <1>0, <1>1, <2>2, <2>3, <3>1, AgreementGrows
    <2>4. ASSUME a \in Free PROVE AgreeAt(chain'[a], chain'[a])
      <3>1. AgreeAt(chain[a], chain'[a])
        BY <2>3, <2>4, AgreementIsSymmetric
      <3> SUFFICES ASSUME NEW i \in 1..Len(chain'[a]), NEW j \in 1..Len(chain'[a]),
                          chain'[a][i].id = chain'[a][j].id
                   PROVE  i = j
        BY DEF AgreeAt
      <3>2. CASE i \in 1..Len(chain[a])
        BY <2>2, <3>1, <3>2 DEF AgreeAt
      <3>3. CASE j \in 1..Len(chain[a])
        BY <2>2, <3>1, <3>3 DEF AgreeAt
      <3> QED
        BY <2>2, <3>2, <3>3
    <2> QED
      BY <1>0, <2>2, <2>3, <2>4, AgreementIsSymmetric
  <1> QED
    BY <1>3, <1>4, ChainMove
-----------------------------------------------------------------------------
(* Theorems *)

LEMMA InitInv == Init => IInv
  <1> SUFFICES ASSUME Init PROVE IInv
    OBVIOUS
  <1>1. TypeOK
    BY InitType
  <1>2. \A n \in Node : chain[n] = <<Genesis>> /\ Len(chain[n]) = 1
    BY DEF Init
  <1>3. BlocksInv
    BY <1>2 DEF Init, BlocksInv
  <1>4. NextInv
    BY DEF Init, NextInv, NextAt, HasSigned, HandlerBusy, WorkerBusy, WorkerIdle, HandlerIdle
  <1>5. ChainIsLinked
    BY <1>2 DEF ChainIsLinked, Linked
  <1>6. PrefixAgreement
    BY <1>2 DEF PrefixAgreement
  <1> QED
    BY <1>1, <1>3, <1>4, <1>5, <1>6 DEF IInv

LEMMA NextInvariant == IInv /\ [Next]_vars => IInv'
  BY NextType, NextBlocks, NextNext, NextLinked, NextPrefix DEF IInv

THEOREM Invariant == Spec => []IInv
  BY InitInv, NextInvariant, PTL DEF Spec

\* The files of every node, and what its processes hold, keep their types.
THEOREM TypeCorrect == Spec => []TypeOK
  <1>1. IInv => TypeOK
    BY DEF IInv
  <1> QED
    BY <1>1, Invariant, PTL

\* At a node that never worked on two blocks at once, every block of the chain follows
\* the one before it.
THEOREM ChainsAreLinked == Spec => []ChainIsLinked
  <1>1. IInv => ChainIsLinked
    BY DEF IInv
  <1> QED
    BY <1>1, Invariant, PTL

\* Unraced nodes that share a block share all that comes before it.
THEOREM ChainsAgree == Spec => []PrefixAgreement
  <1>1. IInv => PrefixAgreement
    BY DEF IInv
  <1> QED
    BY <1>1, Invariant, PTL
=============================================================================
