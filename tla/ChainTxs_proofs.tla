-------------------------- MODULE ChainTxs_proofs --------------------------
(***************************************************************************)
(* Proofs about the transactions in Chain: that they are kept until they   *)
(* are in a block (VerifiedIsKept), and are in no two blocks of a chain    *)
(* (NoDoubleInclusion), under the exceptions that these name.              *)
(*                                                                         *)
(* The inductive invariant KeptInv follows a transaction from the store of *)
(* its node to its chain: at each step of a deletion, what was or will be  *)
(* deleted is in the block that the same process is about to append, or    *)
(* already in the chain.                                                   *)
(*                                                                         *)
(* FreshInv says the reverse: what is verified, or about to be signed, is  *)
(* not yet in the chain.  Hence the signer of a block had none of its      *)
(* transactions in a block under it (SignedInv), and since chains that     *)
(* share a block share all that is under it, no chain has.                 *)
(***************************************************************************)
EXTENDS Chain_proofs

\* What an append does to the blocks and transactions of a chain.
LEMMA AddTxs ==
  ASSUME TypeOK, BlocksInv, NEW n \in Node, NEW b \in signed, Add(n, b)
  PROVE  /\ BlocksOf(n)' = BlocksOf(n) \cup {b}
         /\ TxsOf(n)' = TxsOf(n) \cup b.txs
         /\ \A m \in Node \ {n} : BlocksOf(m)' = BlocksOf(m) /\ TxsOf(m)' = TxsOf(m)
  <1>1. BlocksOf(n)' = BlocksOf(n) \cup {b}
    BY SMTT(30), AddEffect DEF BlocksOf
  <1>2. TxsOf(n)' = TxsOf(n) \cup b.txs
    BY <1>1 DEF TxsOf
  <1>3. \A m \in Node \ {n} : BlocksOf(m)' = BlocksOf(m)
    BY AddEffect DEF BlocksOf
  <1>4. \A m \in Node \ {n} : TxsOf(m)' = TxsOf(m)
    BY <1>3 DEF TxsOf
  <1> QED
    BY <1>1, <1>2, <1>3, <1>4

\* A chain that stays the same keeps its blocks and transactions.
LEMMA SameTxs ==
  ASSUME NEW n \in Node, chain'[n] = chain[n]
  PROVE  BlocksOf(n)' = BlocksOf(n) /\ TxsOf(n)' = TxsOf(n)
  BY DEF BlocksOf, TxsOf

-----------------------------------------------------------------------------
(* What is verified is kept *)

\* What a node has deleted from its verified transactions and not yet added to its
\* chain.
Held(n) == (IF worker[n].pc \in {"sign", "append"} THEN worker[n].taken ELSE {})
           \cup (IF handler[n].pc = "add" THEN handler[n].block.txs ELSE {})

Exempt == raced \cup clobbered \cup crashed

KeptAt(n) ==
    n \notin Exempt =>
        /\ learned[n] \subseteq verified[n] \cup TxsOf(n) \cup Held(n)
        /\ worker[n].pc = "delete" => worker[n].taken \subseteq verified[n]
        /\ worker[n].pc = "dump" => worker[n].rest = verified[n] \ worker[n].taken
        /\ worker[n].pc = "append" => worker[n].block.txs = worker[n].taken
        /\ worker[n].pc = "delete again" => worker[n].taken \subseteq TxsOf(n)
        /\ worker[n].pc = "dump again" => verified[n] \ worker[n].rest \subseteq TxsOf(n)
        /\ handler[n].pc = "delete" => handler[n].ids \subseteq verified[n] \cap handler[n].block.txs
        /\ handler[n].pc = "dump" => verified[n] \ handler[n].rest \subseteq handler[n].block.txs

KeptInv == \A n \in Node : KeptAt(n)

LEMMA KeptFrame ==
  ASSUME NEW n \in Node, KeptAt(n), Exempt \subseteq Exempt',
         worker'[n] = worker[n], handler'[n] = handler[n], chain'[n] = chain[n],
         verified'[n] = verified[n], learned'[n] = learned[n]
  PROVE  KeptAt(n)'
  <1>1. TxsOf(n)' = TxsOf(n)
    BY SameTxs
  <1> QED
    BY <1>1 DEF KeptAt, Held

LEMMA TransactionVerifiedKept ==
  ASSUME TypeOK, KeptInv, NEW n \in Node, NEW t \in Tx, NEW v \in Validator,
         TransactionVerified(n, t, v)
  PROVE  KeptInv'
  <1> USE DEF TransactionVerified, blockVars, procVars
  <1>1. \A m \in Node \ {n} : KeptAt(m)'
    BY KeptFrame DEF KeptInv, TypeOK, Exempt
  <1>2. /\ verified'[n] = verified[n] \cup {t} /\ learned'[n] = learned[n] \cup {t}
        /\ worker' = worker /\ handler' = handler /\ TxsOf(n)' = TxsOf(n)
        /\ Exempt \subseteq Exempt' /\ (Deleting(n) => n \in Exempt')
    BY SameTxs DEF TypeOK, Exempt
  <1>3. KeptAt(n)
    BY DEF KeptInv
  <1>4. KeptAt(n)'
    <2>1. CASE Deleting(n)
      BY <1>2, <2>1 DEF KeptAt
    <2>2. CASE ~Deleting(n)
      <3>1. Held(n)' = Held(n)
        BY <1>2 DEF Held
      <3> QED
        BY ZenonT(40), <1>2, <1>3, <2>2, <3>1 DEF KeptAt, Deleting
    <2> QED
      BY <2>1, <2>2
  <1> QED
    BY <1>1, <1>4 DEF KeptInv

LEMMA WorkerStepKept ==
  ASSUME TypeOK, BlocksInv, NextInv, KeptInv, NEW n \in Node, WorkerStep(n)
  PROVE  KeptInv'
  <1> USE DEF blockVars, storeVars, noticeVars
  <1>0. /\ worker \in [Node -> Worker] /\ handler \in [Node -> Handler]
        /\ verified \in [Node -> SUBSET Tx]
        /\ worker[n] \in Worker /\ handler[n] \in Handler /\ KeptAt(n) /\ NextAt(n)
        /\ worker' = [worker EXCEPT ![n] = worker'[n]] /\ handler' = handler
        /\ Exempt \subseteq Exempt' /\ raced \subseteq raced' /\ learned' = learned
        /\ \A m \in Node \ {n} : chain'[m] = chain[m] /\ verified'[m] = verified[m]
    BY DEF TypeOK, KeptInv, NextInv, WorkerStep, BlockIsDue, TakeVerified, DeleteTaken, DumpRest,
       SignBlock, AppendBlock, DeleteAgain, DumpAgain, SendBlock, Work, Write, Add, Exempt
  <1>1. \A m \in Node \ {n} : KeptAt(m)'
    BY <1>0, KeptFrame DEF KeptInv, TypeOK
  <1>2. ASSUME n \notin Exempt' PROVE KeptAt(n)'
    <2>0. n \notin Exempt /\ (WorkerBusy(n) => handler[n].pc = "idle")
      BY <1>0, <1>2 DEF NextAt, HandlerBusy, Exempt
    <2> USE DEF KeptAt, Held, Worker
    <2>1. CASE BlockIsDue(n)
      BY <1>0, <2>0, <2>1, SameTxs DEF BlockIsDue, Work
    <2>2. CASE TakeVerified(n)
      BY <1>0, <2>0, <2>2, SameTxs DEF TakeVerified, Work
    <2>3. CASE DeleteTaken(n)
      <3>1. /\ worker'[n].pc = "dump" /\ worker'[n].taken = worker[n].taken
            /\ worker'[n].rest = verified[n] \ worker[n].taken
        <4>1. worker[n].taken \subseteq verified[n]
          BY <1>0, <2>0, <2>3 DEF DeleteTaken
        <4>2. worker' = [worker EXCEPT ![n] =
                 [worker[n] EXCEPT !.pc = "dump", !.reloaded = touched[n],
                                   !.rest = verified[n] \ worker[n].taken]]
          BY <2>3, <4>1 DEF DeleteTaken, Work
        <4> QED
          BY <1>0, <4>2
      <3> QED
        BY <1>0, <2>0, <2>3, <3>1, SameTxs DEF DeleteTaken
    <2>4. CASE DumpRest(n)
      <3>1. /\ worker'[n].pc = "sign" /\ worker'[n].taken = worker[n].taken
            /\ verified'[n] = verified[n] \ worker[n].taken
        BY <1>0, <2>0, <2>4 DEF DumpRest, Work, Write
      <3>2. TxsOf(n)' = TxsOf(n) /\ handler[n].pc = "idle"
        BY <2>0, <2>4, SameTxs DEF DumpRest, WorkerBusy
      <3>3. learned[n] \subseteq verified[n] \cup TxsOf(n)
        BY <1>0, <2>0, <2>4, <3>2 DEF DumpRest
      <3>4. Held(n)' = worker[n].taken
        BY <1>0, <3>1, <3>2
      <3> HIDE DEF Held, KeptAt
      <3>5. learned'[n] \subseteq verified'[n] \cup TxsOf(n)' \cup Held(n)'
        BY ZenonT(40), <1>0, <3>1, <3>2, <3>3, <3>4
      <3> QED
        BY <1>0, <3>1, <3>2, <3>5 DEF KeptAt
    <2>5. CASE SignBlock(n)
      <3>1. /\ worker'[n].pc = "append" /\ worker'[n].taken = worker[n].taken
            /\ worker'[n].block.txs = worker[n].taken
        <4>1. PICK id \in BlockId :
                 Work(n, [worker[n] EXCEPT !.pc = "append",
                             !.block = [id |-> id, prev |-> Last(n).id, by |-> n,
                                        txs |-> worker[n].taken]])
          BY <2>5 DEF SignBlock
        <4> QED
          BY <1>0, <4>1 DEF Work
      <3> QED
        BY <1>0, <2>0, <2>5, <3>1, SameTxs DEF SignBlock
    <2>6. CASE AppendBlock(n)
      <3>1. worker'[n].pc = "delete again" /\ worker'[n].taken = worker[n].taken
        BY <1>0, <2>6 DEF AppendBlock, Work
      <3>2. TxsOf(n)' = TxsOf(n) \cup worker[n].taken
        <4>1. worker[n].block \in signed
          BY <1>0, <2>6 DEF AppendBlock, NextAt, HasSigned
        <4>2. worker[n].block.txs = worker[n].taken
          BY <1>0, <2>0, <2>6 DEF AppendBlock
        <4>3. Add(n, worker[n].block)
          BY <2>6 DEF AppendBlock
        <4> HIDE DEF KeptAt, Held, Worker
        <4> QED
          BY <4>1, <4>2, <4>3, AddTxs
      <3> QED
        BY <1>0, <2>0, <2>6, <3>1, <3>2 DEF AppendBlock
    <2>7. CASE DeleteAgain(n)
      <3> DEFINE keys == IF worker[n].reloaded THEN worker[n].taken ELSE {}
      <3>1. CASE Work(n, [worker[n] EXCEPT !.pc = "dump again", !.rest = verified[n] \ keys])
        <4>1. worker'[n].pc = "dump again" /\ worker'[n].rest = verified[n] \ keys
          BY <1>0, <3>1 DEF Work
        <4>2. keys \subseteq worker[n].taken /\ worker[n].taken \subseteq TxsOf(n)
          BY <1>0, <2>0, <2>7 DEF DeleteAgain
        <4>3. verified' = verified /\ TxsOf(n)' = TxsOf(n) /\ handler[n].pc = "idle"
          BY <2>0, <2>7, SameTxs DEF DeleteAgain, WorkerBusy
        <4>4. learned[n] \subseteq verified[n] \cup TxsOf(n)
          BY <1>0, <2>0, <2>7, <4>3 DEF DeleteAgain
        <4> HIDE DEF keys
        <4> QED
          BY ZenonT(40), <1>0, <4>1, <4>2, <4>3, <4>4
      <3>2. CASE Work(n, [WorkerIdle EXCEPT !.pc = "dead"])
        <4>1. worker'[n].pc = "dead"
          BY <1>0, <3>2 DEF Work, WorkerIdle
        <4> QED
          BY <1>0, <2>0, <2>7, <4>1, SameTxs DEF DeleteAgain
      <3> QED
        BY <2>7, <3>1, <3>2 DEF DeleteAgain
    <2>8. CASE DumpAgain(n)
      <3>1. worker'[n].pc = "send" /\ verified'[n] = worker[n].rest
        BY <1>0, <2>8 DEF DumpAgain, Work, Write
      <3> QED
        <4>1. TxsOf(n)' = TxsOf(n) /\ handler[n].pc = "idle"
          BY <2>0, <2>8, SameTxs DEF DumpAgain, WorkerBusy
        <4>2. /\ learned[n] \subseteq verified[n] \cup TxsOf(n)
              /\ verified[n] \ worker[n].rest \subseteq TxsOf(n)
          BY <1>0, <2>0, <2>8, <4>1 DEF DumpAgain
        <4>3. learned'[n] \subseteq verified'[n] \cup TxsOf(n)'
          BY ZenonT(40), <1>0, <3>1, <4>1, <4>2
        <4> QED
          BY <1>0, <3>1, <4>1, <4>3
    <2>9. CASE SendBlock(n)
      <3>1. worker'[n].pc = "idle"
        BY <1>0, <2>9 DEF SendBlock, Work, WorkerIdle
      <3> QED
        BY <1>0, <2>0, <2>9, <3>1, SameTxs DEF SendBlock
    <2> QED
      BY <2>1, <2>2, <2>3, <2>4, <2>5, <2>6, <2>7, <2>8, <2>9 DEF WorkerStep
  <1>3. KeptAt(n)'
    BY <1>2 DEF KeptAt
  <1> QED
    BY <1>1, <1>3 DEF KeptInv

LEMMA HandlingKept ==
  ASSUME TypeOK, BlocksInv, NextInv, KeptInv, NEW n \in Node, Handling(n)
  PROVE  KeptInv'
  <1> USE DEF blockVars, storeVars, noticeVars
  <1>0. /\ worker \in [Node -> Worker] /\ handler \in [Node -> Handler]
        /\ verified \in [Node -> SUBSET Tx]
        /\ worker[n] \in Worker /\ handler[n] \in Handler /\ KeptAt(n) /\ NextAt(n)
        /\ handler' = [handler EXCEPT ![n] = handler'[n]] /\ worker' = worker
        /\ Exempt' = Exempt /\ learned' = learned /\ HandlerBusy(n)
        /\ \A m \in Node \ {n} : chain'[m] = chain[m] /\ verified'[m] = verified[m]
    BY DEF TypeOK, KeptInv, NextInv, Handling, CheckBlock, CollectIds, DeleteIds, DumpIds,
       AddNewBlock, Handle, Write, Add, Exempt, HandlerBusy
  <1>1. \A m \in Node \ {n} : KeptAt(m)'
    BY <1>0, KeptFrame DEF KeptInv, TypeOK
  <1>2. ASSUME n \notin Exempt PROVE KeptAt(n)'
    <2>0. ~WorkerBusy(n)
      BY <1>0, <1>2 DEF NextAt, Exempt
    <2>00. worker[n].pc \in {"idle", "send", "dead"}
      BY <2>0 DEF WorkerBusy
    <2> USE DEF KeptAt, Held, Handler
    <2>1. CASE CheckBlock(n)
      <3>1. handler'[n].pc \in {"collect", "idle"}
        <4>1. CASE Handle(n, [handler[n] EXCEPT !.pc = "collect"])
          BY <1>0, <4>1 DEF Handle
        <4>2. CASE Handle(n, HandlerIdle)
          BY <1>0, <4>2 DEF Handle, HandlerIdle
        <4> QED
          BY <2>1, <4>1, <4>2 DEF CheckBlock
      <3> QED
        BY <1>0, <1>2, <2>00, <2>1, <3>1, SameTxs DEF CheckBlock
    <2>2. CASE CollectIds(n)
      <3>1. /\ handler'[n].pc = "delete" /\ handler'[n].block = handler[n].block
            /\ handler'[n].ids = verified[n] \cap handler[n].block.txs
        BY <1>0, <2>2 DEF CollectIds, Handle, IdsOf
      <3> QED
        BY <1>0, <1>2, <2>00, <2>2, <3>1, SameTxs DEF CollectIds
    <2>3. CASE DeleteIds(n)
      <3>1. /\ handler'[n].pc = "dump" /\ handler'[n].block = handler[n].block
            /\ handler'[n].rest = verified[n] \ handler[n].ids
        <4>1. handler[n].ids \subseteq verified[n]
          BY <1>0, <1>2, <2>3 DEF DeleteIds
        <4>2. handler' = [handler EXCEPT ![n] =
                 [handler[n] EXCEPT !.pc = "dump", !.rest = verified[n] \ handler[n].ids]]
          BY <2>3, <4>1 DEF DeleteIds, Handle
        <4> QED
          BY <1>0, <4>2
      <3> QED
        BY <1>0, <1>2, <2>00, <2>3, <3>1, SameTxs DEF DeleteIds
    <2>4. CASE DumpIds(n)
      <3>1. /\ handler'[n].pc = "add" /\ handler'[n].block = handler[n].block
            /\ verified'[n] = handler[n].rest
        BY <1>0, <2>4 DEF DumpIds, Handle, Write
      <3> QED
        <4>1. TxsOf(n)' = TxsOf(n) /\ worker' = worker
          BY <2>4, SameTxs DEF DumpIds, Handle
        <4>2. /\ learned[n] \subseteq verified[n] \cup TxsOf(n)
              /\ verified[n] \ handler[n].rest \subseteq handler[n].block.txs
          BY <1>0, <1>2, <2>00, <2>4 DEF DumpIds
        <4> QED
          BY ZenonT(40), <1>0, <2>00, <3>1, <4>1, <4>2
    <2>5. CASE AddNewBlock(n)
      <3>1. handler'[n].pc = "idle"
        BY <1>0, <2>5 DEF AddNewBlock, Handle, HandlerIdle
      <3>2. TxsOf(n)' = TxsOf(n) \cup handler[n].block.txs
        <4>1. Add(n, handler[n].block) /\ handler[n].block \in signed
          BY <1>0, <2>5 DEF AddNewBlock, NextAt
        <4> HIDE DEF KeptAt, Held, Handler
        <4> QED
          BY <4>1, AddTxs
      <3> QED
        BY <1>0, <1>2, <2>00, <2>5, <3>1, <3>2 DEF AddNewBlock
    <2> QED
      BY <2>1, <2>2, <2>3, <2>4, <2>5 DEF Handling
  <1>3. KeptAt(n)'
    BY <1>0, <1>2 DEF KeptAt
  <1> QED
    BY <1>1, <1>3 DEF KeptInv

LEMMA NetworkKept ==
  ASSUME TypeOK, KeptInv, NEW n \in Node, NEW b \in signed,
         BlockArrives(n, b) \/ HostResolved(n, b) \/ BlockLost(n, b)
  PROVE  KeptInv'
  <1> USE DEF blockVars, storeVars, noticeVars, procVars
  <1>0. /\ UNCHANGED <<chain, verified, learned, worker>>
        /\ Exempt \subseteq Exempt'
        /\ \A m \in Node \ {n} : handler'[m] = handler[m]
    BY DEF BlockArrives, HostResolved, BlockLost, TypeOK, Exempt
  <1>1. \A m \in Node \ {n} : KeptAt(m)'
    BY <1>0, KeptFrame DEF KeptInv
  <1>2. CASE handler'[n] = handler[n]
    BY <1>0, <1>1, <1>2, KeptFrame DEF KeptInv
  <1>3. CASE handler'[n] # handler[n]
    <2>1. handler[n].pc = "idle" /\ handler'[n].pc \in {"check", "collect"}
      <3>1. HostResolved(n, b)
        BY <1>3 DEF BlockArrives, BlockLost
      <3> DEFINE first == IF n \in Validator THEN "check" ELSE "collect"
      <3>2. /\ handler' = [handler EXCEPT ![n] = [handler[n] EXCEPT !.pc = first, !.block = b]]
            /\ handler[n].pc = "idle"
        BY <1>3, <3>1 DEF HostResolved, HandlerBusy
      <3>3. handler'[n].pc = first
        BY <3>2 DEF TypeOK, Handler
      <3> QED
        BY <3>2, <3>3
    <2>2. TxsOf(n)' = TxsOf(n)
      BY <1>0, SameTxs
    <2>3. KeptAt(n) /\ Held(n) \subseteq Held(n)'
      BY <1>0, <2>1 DEF KeptInv, Held
    <2>4. KeptAt(n)'
      BY <1>0, <2>1, <2>2, <2>3 DEF KeptAt
    <2> QED
      BY <1>1, <2>4 DEF KeptInv
  <1> QED
    BY <1>2, <1>3

LEMMA RestartKept ==
  ASSUME TypeOK, KeptInv, NEW n \in Node, Restart(n)
  PROVE  KeptInv'
  <1>1. /\ n \in Exempt' /\ Exempt \subseteq Exempt' /\ UNCHANGED <<chain, verified, learned>>
        /\ \A m \in Node \ {n} : worker'[m] = worker[m] /\ handler'[m] = handler[m]
    BY DEF Restart, blockVars, storeVars, noticeVars, Exempt, TypeOK
  <1>2. \A m \in Node \ {n} : KeptAt(m)'
    BY <1>1, KeptFrame DEF KeptInv
  <1>3. KeptAt(n)'
    BY <1>1 DEF KeptAt
  <1> QED
    BY <1>2, <1>3 DEF KeptInv

LEMMA NextKept ==
  ASSUME IInv, KeptInv, [Next]_vars
  PROVE  KeptInv'
  <1>1. CASE UNCHANGED vars
    BY <1>1, KeptFrame DEF vars, KeptInv, Exempt
  <1>2. ASSUME NEW n \in Node, LastBlockAges(n) PROVE KeptInv'
    BY <1>2, KeptFrame DEF LastBlockAges, procVars, storeVars, noticeVars, KeptInv, Exempt
  <1> QED
    BY <1>1, <1>2, TransactionVerifiedKept, WorkerStepKept, HandlingKept, NetworkKept, RestartKept
       DEF Next, IInv

\* A verified transaction is in the store, the chain or the hands of its node, but
\* for a crash, two blocks at work at once, or an addition during a deletion.
THEOREM VerifiedIsNotLost == Spec => []VerifiedIsKept
  <1>1. Init => KeptInv
    <2> SUFFICES ASSUME Init, NEW n \in Node PROVE KeptAt(n)
      BY DEF KeptInv
    <2>1. learned[n] = {} /\ worker[n].pc = "idle" /\ handler[n].pc = "idle"
      BY DEF Init, WorkerIdle, HandlerIdle
    <2> QED
      BY <2>1 DEF KeptAt
  <1>2. IInv /\ KeptInv /\ [Next]_vars => KeptInv'
    BY NextKept
  <1>3. KeptInv => VerifiedIsKept
    BY DEF KeptInv, KeptAt, Held, VerifiedIsKept, Exempt
  <1> QED
    BY <1>1, <1>2, <1>3, Invariant, PTL DEF Spec
-----------------------------------------------------------------------------
(* Nothing is included twice *)

\* No block is appended, and no deletion written, behind the back of another process: as
\* long as no node worked on two blocks at once, what validator n has verified is not in its
\* chain, and will not be in what it is about to sign or add, unless it was relearned.
WorkerFresh(n) ==
    /\ worker[n].pc \in {"delete", "dump", "sign", "append"} =>
           worker[n].taken \subseteq learned[n] /\ worker[n].taken \cap TxsOf(n) \subseteq relearned
    /\ worker[n].pc \in {"dump", "dump again"} =>
           worker[n].rest \subseteq learned[n] /\ worker[n].rest \cap TxsOf(n) \subseteq relearned
    /\ worker[n].pc = "dump" => worker[n].rest \cap worker[n].taken = {}
    /\ worker[n].pc \in {"sign", "append"} => verified[n] \cap worker[n].taken \subseteq relearned
    /\ worker[n].pc = "append" => worker[n].block.txs = worker[n].taken

HandlerFresh(n) ==
    /\ handler[n].pc \in {"collect", "delete"} => handler[n].block.txs \subseteq verified[n]
    /\ handler[n].pc = "delete" => handler[n].ids = handler[n].block.txs
    /\ handler[n].pc \in {"dump", "add"} => handler[n].block.txs \subseteq learned[n]
    /\ handler[n].pc = "dump" =>
           /\ handler[n].rest \subseteq learned[n]
           /\ handler[n].rest \cap TxsOf(n) \subseteq relearned
           /\ handler[n].rest \cap handler[n].block.txs = {}
    /\ handler[n].pc = "add" => verified[n] \cap handler[n].block.txs \subseteq relearned

FreshAt(n) ==
    /\ verified[n] \cup TxsOf(n) \subseteq learned[n]
    /\ verified[n] \cap TxsOf(n) \subseteq relearned
    /\ WorkerFresh(n)
    /\ HandlerFresh(n)

FreshInv ==
    /\ \A n \in Node : worker[n].pc # "idle" => n \in Validator
    /\ raced = {} => \A n \in Validator : FreshAt(n)

\* The signer of b had, and has, the block before b, and up to there nothing of b.
SignedFresh(b) ==
    \E i \in 1..Len(chain[b.by]) :
        /\ chain[b.by][i].id = b.prev
        /\ \A k \in 1..i : chain[b.by][k].txs \cap b.txs \subseteq relearned

SignedInv == raced = {} => \A b \in signed : SignedFresh(b)

LEMMA HistoryGrows ==
  ASSUME TypeOK, [Next]_vars
  PROVE  /\ relearned \subseteq relearned' /\ raced \subseteq raced'
         /\ \A n \in Node : learned[n] \subseteq learned'[n]
  <1>1. CASE UNCHANGED vars
    BY <1>1 DEF vars
  <1>2. ASSUME NEW n \in Node, NEW t \in Tx, NEW v \in Validator, TransactionVerified(n, t, v)
        PROVE  /\ relearned \subseteq relearned' /\ raced \subseteq raced'
               /\ \A m \in Node : learned[m] \subseteq learned'[m]
    BY <1>2 DEF TransactionVerified, TypeOK, procVars
  <1>3. CASE \E n \in Node : WorkerStep(n) \/ Handling(n) \/ LastBlockAges(n) \/ Restart(n)
    BY <1>3 DEF WorkerStep, BlockIsDue, TakeVerified, DeleteTaken, DumpRest, SignBlock,
       AppendBlock, DeleteAgain, DumpAgain, SendBlock, Handling, CheckBlock, CollectIds,
       DeleteIds, DumpIds, AddNewBlock, Restart, LastBlockAges, noticeVars, procVars
  <1>4. CASE \E n \in Node, b \in signed :
                BlockArrives(n, b) \/ HostResolved(n, b) \/ BlockLost(n, b)
    BY <1>4 DEF BlockArrives, HostResolved, BlockLost, noticeVars, procVars
  <1> QED
    BY <1>1, <1>2, <1>3, <1>4 DEF Next

LEMMA FreshFrame ==
  ASSUME NEW n \in Node, FreshAt(n), relearned \subseteq relearned',
         learned[n] \subseteq learned'[n], worker'[n] = worker[n], handler'[n] = handler[n],
         chain'[n] = chain[n], verified'[n] = verified[n]
  PROVE  FreshAt(n)'
  <1>1. TxsOf(n)' = TxsOf(n)
    BY SameTxs
  <1>2. WorkerFresh(n)'
    BY <1>1 DEF FreshAt, WorkerFresh
  <1>3. HandlerFresh(n)'
    BY <1>1 DEF FreshAt, HandlerFresh
  <1> QED
    BY <1>1, <1>2, <1>3 DEF FreshAt

LEMMA TransactionVerifiedFresh ==
  ASSUME TypeOK, FreshInv, NEW n \in Node, NEW t \in Tx, NEW v \in Validator,
         TransactionVerified(n, t, v)
  PROVE  FreshInv'
  <1> USE DEF TransactionVerified, blockVars, procVars
  <1>0. /\ UNCHANGED <<chain, worker, handler, raced>> /\ relearned \subseteq relearned'
        /\ learned' = [learned EXCEPT ![n] = @ \cup {t}]
        /\ verified' = [verified EXCEPT ![n] = @ \cup {t}]
        /\ t \in learned[n] => t \in verified[n] \/ t \in relearned'
    OBVIOUS
  <1> HIDE DEF TransactionVerified, blockVars, procVars
  <1> SUFFICES ASSUME raced = {}, NEW m \in Validator PROVE FreshAt(m)'
    BY <1>0 DEF FreshInv
  <1>1. m \in Node /\ FreshAt(m)
    BY ConstantsAreRight DEF FreshInv, Assumptions
  <1>2. CASE m # n
    BY <1>0, <1>1, <1>2, FreshFrame DEF TypeOK
  <1>3. CASE m = n
    <2>1. /\ verified'[m] = verified[m] \cup {t} /\ learned'[m] = learned[m] \cup {t}
          /\ worker'[m] = worker[m] /\ handler'[m] = handler[m] /\ TxsOf(m)' = TxsOf(m)
      BY <1>0, <1>1, <1>3, SameTxs DEF TypeOK
    <2>2. /\ verified'[m] \cup TxsOf(m)' \subseteq learned'[m]
          /\ verified'[m] \cap TxsOf(m)' \subseteq relearned'
      BY <1>0, <1>1, <1>3, <2>1 DEF FreshAt
    <2>3. WorkerFresh(m)'
      BY ZenonT(40), <1>0, <1>1, <1>3, <2>1 DEF FreshAt, WorkerFresh
    <2>4. HandlerFresh(m)'
      BY <1>0, <1>1, <1>3, <2>1 DEF FreshAt, HandlerFresh
    <2> QED
      BY <2>2, <2>3, <2>4 DEF FreshAt
  <1> QED
    BY <1>2, <1>3

LEMMA WorkerStepFresh ==
  ASSUME TypeOK, BlocksInv, NextInv, FreshInv, NEW n \in Node, WorkerStep(n)
  PROVE  FreshInv'
  <1> USE DEF blockVars, storeVars, noticeVars
  <1>0. /\ worker \in [Node -> Worker] /\ worker[n] \in Worker
        /\ verified \in [Node -> SUBSET Tx] /\ NextAt(n)
        /\ worker' = [worker EXCEPT ![n] = worker'[n]] /\ handler' = handler
        /\ raced \subseteq raced' /\ learned' = learned /\ relearned' = relearned
        /\ \A m \in Node \ {n} : chain'[m] = chain[m] /\ verified'[m] = verified[m]
    BY DEF TypeOK, NextInv, WorkerStep, BlockIsDue, TakeVerified, DeleteTaken, DumpRest,
       SignBlock, AppendBlock, DeleteAgain, DumpAgain, SendBlock, Work, Write, Add
  <1>1. n \in Validator
    BY DEF FreshInv, WorkerStep, BlockIsDue, TakeVerified, DeleteTaken, DumpRest, SignBlock,
       AppendBlock, DeleteAgain, DumpAgain, SendBlock
  <1>2. \A m \in Node : worker'[m].pc # "idle" => m \in Validator
    BY <1>0, <1>1 DEF FreshInv
  <1> SUFFICES ASSUME raced' = {} PROVE \A m \in Validator : FreshAt(m)'
    BY <1>2 DEF FreshInv
  <1>3. raced = {} /\ (WorkerBusy(n) => handler[n].pc = "idle")
    BY <1>0 DEF NextAt, HandlerBusy
  <1>4. \A m \in Validator \ {n} : FreshAt(m)'
    BY <1>0, <1>3, FreshFrame, ConstantsAreRight DEF FreshInv, Assumptions
  <1>5. /\ verified[n] \cup TxsOf(n) \subseteq learned[n]
        /\ verified[n] \cap TxsOf(n) \subseteq relearned
        /\ WorkerFresh(n) /\ HandlerFresh(n)
    BY <1>1, <1>3 DEF FreshInv, FreshAt
  <1>6. handler'[n].pc = "idle" => HandlerFresh(n)'
    BY DEF HandlerFresh
  <1>7. FreshAt(n)'
    <2> USE DEF Worker
    <2>1. CASE BlockIsDue(n) \/ SendBlock(n)
      <3>1. worker'[n].pc \in {"take", "idle"}
        <4>1. CASE BlockIsDue(n)
          BY <1>0, <4>1 DEF BlockIsDue, Work
        <4>2. CASE SendBlock(n)
          BY <1>0, <4>2 DEF SendBlock, Work, WorkerIdle
        <4> QED
          BY <2>1, <4>1, <4>2
      <3>2. UNCHANGED <<chain, verified>> /\ TxsOf(n)' = TxsOf(n)
        BY <2>1, SameTxs DEF BlockIsDue, SendBlock
      <3>3. WorkerFresh(n)'
        BY <3>1 DEF WorkerFresh
      <3>4. HandlerFresh(n)'
        BY <1>0, <1>5, <3>2 DEF HandlerFresh
      <3> QED
        BY <1>0, <1>5, <3>2, <3>3, <3>4 DEF FreshAt
    <2>2. CASE TakeVerified(n)
      <3>1. worker'[n].pc = "delete" /\ worker'[n].taken = verified[n]
        BY <1>0, <2>2 DEF TakeVerified, Work
      <3>2. UNCHANGED <<chain, verified>> /\ TxsOf(n)' = TxsOf(n) /\ handler'[n].pc = "idle"
        BY <1>0, <1>3, <2>2, SameTxs DEF TakeVerified, WorkerBusy
      <3>3. WorkerFresh(n)'
        BY <1>0, <1>5, <3>1, <3>2 DEF WorkerFresh
      <3> QED
        BY <1>0, <1>5, <1>6, <3>2, <3>3 DEF FreshAt
    <2>3. CASE DeleteTaken(n)
      <3>1. \/ worker'[n].pc = "dead"
            \/ /\ worker'[n].pc = "dump" /\ worker'[n].taken = worker[n].taken
               /\ worker'[n].rest = verified[n] \ worker[n].taken
        <4>1. CASE worker' = [worker EXCEPT ![n] =
                 [worker[n] EXCEPT !.pc = "dump", !.reloaded = touched[n],
                                   !.rest = verified[n] \ worker[n].taken]]
          BY <1>0, <4>1
        <4>2. CASE worker' = [worker EXCEPT ![n] = [WorkerIdle EXCEPT !.pc = "dead"]]
          BY <1>0, <4>2 DEF WorkerIdle
        <4> QED
          BY <2>3, <4>1, <4>2 DEF DeleteTaken, Work
      <3>2. UNCHANGED <<chain, verified>> /\ TxsOf(n)' = TxsOf(n) /\ handler'[n].pc = "idle"
        BY <1>0, <1>3, <2>3, SameTxs DEF DeleteTaken, WorkerBusy
      <3>3. worker[n].pc = "delete"
        BY <2>3 DEF DeleteTaken
      <3>4. WorkerFresh(n)'
        BY <1>0, <1>5, <3>1, <3>2, <3>3 DEF WorkerFresh
      <3> QED
        BY <1>0, <1>5, <1>6, <3>2, <3>4 DEF FreshAt
    <2>4. CASE DumpRest(n)
      <3>1. /\ worker[n].pc = "dump" /\ worker'[n].pc = "sign"
            /\ worker'[n].taken = worker[n].taken /\ verified'[n] = worker[n].rest
        BY <1>0, <2>4 DEF DumpRest, Work, Write
      <3>2. TxsOf(n)' = TxsOf(n) /\ handler'[n].pc = "idle"
        BY <1>0, <1>3, <2>4, SameTxs DEF DumpRest, WorkerBusy
      <3>3. WorkerFresh(n)'
        BY <1>0, <1>5, <3>1, <3>2 DEF WorkerFresh
      <3>4. /\ verified'[n] \cup TxsOf(n)' \subseteq learned'[n]
            /\ verified'[n] \cap TxsOf(n)' \subseteq relearned'
        BY <1>0, <1>5, <3>1, <3>2 DEF WorkerFresh
      <3> QED
        BY <1>6, <3>2, <3>3, <3>4 DEF FreshAt
    <2>5. CASE SignBlock(n)
      <3>1. /\ worker[n].pc = "sign" /\ worker'[n].pc = "append"
            /\ worker'[n].taken = worker[n].taken /\ worker'[n].block.txs = worker[n].taken
        <4>1. PICK id \in BlockId :
                 Work(n, [worker[n] EXCEPT !.pc = "append",
                             !.block = [id |-> id, prev |-> Last(n).id, by |-> n,
                                        txs |-> worker[n].taken]])
          BY <2>5 DEF SignBlock
        <4> QED
          BY <1>0, <2>5, <4>1 DEF Work, SignBlock
      <3>2. UNCHANGED <<chain, verified>> /\ TxsOf(n)' = TxsOf(n) /\ handler'[n].pc = "idle"
        BY <1>0, <1>3, <2>5, SameTxs DEF SignBlock, WorkerBusy
      <3>3. WorkerFresh(n)'
        BY <1>0, <1>5, <3>1, <3>2 DEF WorkerFresh
      <3> QED
        BY <1>0, <1>5, <1>6, <3>2, <3>3 DEF FreshAt
    <2>6. CASE AppendBlock(n)
      <3>1. worker[n].pc = "append" /\ worker'[n].pc = "delete again"
        BY <1>0, <2>6 DEF AppendBlock, Work
      <3>2. verified' = verified /\ handler'[n].pc = "idle"
        BY <1>0, <1>3, <2>6 DEF AppendBlock, WorkerBusy
      <3>3. worker[n].block \in signed /\ worker[n].block.txs = worker[n].taken
        BY <1>0, <1>5, <3>1 DEF NextAt, HasSigned, WorkerFresh
      <3>4. TxsOf(n)' = TxsOf(n) \cup worker[n].taken
        <4>1. Add(n, worker[n].block)
          BY <2>6 DEF AppendBlock
        <4> HIDE DEF Worker
        <4> QED
          BY <3>3, <4>1, AddTxs
      <3>5. WorkerFresh(n)'
        BY <3>1 DEF WorkerFresh
      <3>6. /\ verified'[n] \cup TxsOf(n)' \subseteq learned'[n]
            /\ verified'[n] \cap TxsOf(n)' \subseteq relearned'
        BY <1>0, <1>5, <3>1, <3>2, <3>4 DEF WorkerFresh
      <3> QED
        BY <1>6, <3>2, <3>5, <3>6 DEF FreshAt
    <2>7. CASE DeleteAgain(n)
      <3>1. \/ worker'[n].pc = "dead"
            \/ worker'[n].pc = "dump again" /\ worker'[n].rest \subseteq verified[n]
        <4> DEFINE keys == IF worker[n].reloaded THEN worker[n].taken ELSE {}
        <4>1. CASE worker' = [worker EXCEPT ![n] =
                 [worker[n] EXCEPT !.pc = "dump again", !.rest = verified[n] \ keys]]
          <5> HIDE DEF keys
          <5> QED
            BY <1>0, <4>1
        <4>2. CASE worker' = [worker EXCEPT ![n] = [WorkerIdle EXCEPT !.pc = "dead"]]
          BY <1>0, <4>2 DEF WorkerIdle
        <4> QED
          BY <2>7, <4>1, <4>2 DEF DeleteAgain, Work
      <3>2. UNCHANGED <<chain, verified>> /\ TxsOf(n)' = TxsOf(n) /\ handler'[n].pc = "idle"
        BY <1>0, <1>3, <2>7, SameTxs DEF DeleteAgain, WorkerBusy
      <3>3. WorkerFresh(n)'
        BY <1>0, <1>5, <3>1, <3>2 DEF WorkerFresh
      <3> QED
        BY <1>0, <1>5, <1>6, <3>2, <3>3 DEF FreshAt
    <2>8. CASE DumpAgain(n)
      <3>1. /\ worker[n].pc = "dump again" /\ worker'[n].pc = "send"
            /\ verified'[n] = worker[n].rest
        BY <1>0, <2>8 DEF DumpAgain, Work, Write
      <3>2. TxsOf(n)' = TxsOf(n) /\ handler'[n].pc = "idle"
        BY <1>0, <1>3, <2>8, SameTxs DEF DumpAgain, WorkerBusy
      <3>3. WorkerFresh(n)'
        BY <3>1 DEF WorkerFresh
      <3>4. /\ verified'[n] \cup TxsOf(n)' \subseteq learned'[n]
            /\ verified'[n] \cap TxsOf(n)' \subseteq relearned'
        BY <1>0, <1>5, <3>1, <3>2 DEF WorkerFresh
      <3> QED
        BY <1>6, <3>2, <3>3, <3>4 DEF FreshAt
    <2> QED
      BY <2>1, <2>2, <2>3, <2>4, <2>5, <2>6, <2>7, <2>8 DEF WorkerStep
  <1> QED
    BY <1>4, <1>7

LEMMA HandlingFresh ==
  ASSUME TypeOK, BlocksInv, NextInv, FreshInv, NEW n \in Node, Handling(n)
  PROVE  FreshInv'
  <1> USE DEF blockVars, storeVars, noticeVars
  <1>0. /\ handler \in [Node -> Handler] /\ handler[n] \in Handler
        /\ verified \in [Node -> SUBSET Tx] /\ NextAt(n) /\ HandlerBusy(n)
        /\ handler' = [handler EXCEPT ![n] = handler'[n]] /\ worker' = worker
        /\ raced' = raced /\ learned' = learned /\ relearned' = relearned
        /\ \A m \in Node \ {n} : chain'[m] = chain[m] /\ verified'[m] = verified[m]
    BY DEF TypeOK, NextInv, Handling, CheckBlock, CollectIds, DeleteIds, DumpIds,
       AddNewBlock, Handle, Write, Add, HandlerBusy
  <1>1. \A m \in Node : worker'[m].pc # "idle" => m \in Validator
    BY <1>0 DEF FreshInv
  <1> SUFFICES ASSUME raced = {} PROVE \A m \in Validator : FreshAt(m)'
    BY <1>0, <1>1 DEF FreshInv
  <1>2. \A m \in Validator \ {n} : FreshAt(m)'
    BY <1>0, FreshFrame, ConstantsAreRight DEF FreshInv, Assumptions
  <1>3. ASSUME n \in Validator PROVE FreshAt(n)'
    <2>1. worker'[n].pc \in {"idle", "send", "dead"}
      BY <1>0 DEF NextAt, WorkerBusy
    <2>2. WorkerFresh(n)'
      BY <2>1 DEF WorkerFresh
    <2>3. /\ verified[n] \cup TxsOf(n) \subseteq learned[n]
          /\ verified[n] \cap TxsOf(n) \subseteq relearned
          /\ HandlerFresh(n)
      BY <1>3 DEF FreshInv, FreshAt
    <2> USE DEF Handler
    <2>4. CASE CheckBlock(n)
      <3>1. \/ handler'[n].pc = "idle"
            \/ /\ handler'[n].pc = "collect" /\ handler'[n].block = handler[n].block
               /\ handler[n].block.txs \subseteq verified[n]
        <4>1. CASE Handle(n, HandlerIdle)
          BY <1>0, <4>1 DEF Handle, HandlerIdle
        <4>2. CASE ~Handle(n, HandlerIdle)
          <5>1. /\ handler' = [handler EXCEPT ![n] = [handler[n] EXCEPT !.pc = "collect"]]
                /\ handler[n].block.txs \subseteq verified[n]
            BY <2>4, <4>2 DEF CheckBlock, Handle, IsAcceptable
          <5> QED
            BY <1>0, <5>1
        <4> QED
          BY <4>1, <4>2
      <3>2. UNCHANGED <<chain, verified>> /\ TxsOf(n)' = TxsOf(n)
        BY <2>4, SameTxs DEF CheckBlock
      <3>3. HandlerFresh(n)'
        BY <3>1, <3>2 DEF HandlerFresh
      <3> QED
        BY <1>0, <2>2, <2>3, <3>2, <3>3 DEF FreshAt
    <2>5. CASE CollectIds(n)
      <3>1. /\ handler[n].pc = "collect" /\ handler'[n].pc = "delete"
            /\ handler'[n].block = handler[n].block
            /\ handler'[n].ids = verified[n] \cap handler[n].block.txs
        BY <1>0, <2>5 DEF CollectIds, Handle, IdsOf
      <3>2. UNCHANGED <<chain, verified>> /\ TxsOf(n)' = TxsOf(n)
        BY <2>5, SameTxs DEF CollectIds
      <3>3. HandlerFresh(n)'
        BY <2>3, <3>1, <3>2 DEF HandlerFresh
      <3> QED
        BY <1>0, <2>2, <2>3, <3>2, <3>3 DEF FreshAt
    <2>6. CASE DeleteIds(n)
      <3>1. /\ handler[n].pc = "delete" /\ handler'[n].pc = "dump"
            /\ handler'[n].block = handler[n].block
            /\ handler'[n].rest = verified[n] \ handler[n].block.txs
        <4>1. handler[n].ids = handler[n].block.txs /\ handler[n].ids \subseteq verified[n]
          BY <2>3, <2>6 DEF DeleteIds, HandlerFresh
        <4>2. handler' = [handler EXCEPT ![n] =
                 [handler[n] EXCEPT !.pc = "dump", !.rest = verified[n] \ handler[n].ids]]
          BY <2>6, <4>1 DEF DeleteIds, Handle
        <4> QED
          BY <1>0, <2>6, <4>1, <4>2 DEF DeleteIds
      <3>2. UNCHANGED <<chain, verified>> /\ TxsOf(n)' = TxsOf(n)
        BY <2>6, SameTxs DEF DeleteIds
      <3>3. HandlerFresh(n)'
        BY <1>0, <2>3, <3>1, <3>2 DEF HandlerFresh
      <3> QED
        BY <1>0, <2>2, <2>3, <3>2, <3>3 DEF FreshAt
    <2>7. CASE DumpIds(n)
      <3>1. /\ handler[n].pc = "dump" /\ handler'[n].pc = "add"
            /\ handler'[n].block = handler[n].block /\ verified'[n] = handler[n].rest
        BY <1>0, <2>7 DEF DumpIds, Handle, Write
      <3>2. TxsOf(n)' = TxsOf(n)
        BY <2>7, SameTxs DEF DumpIds
      <3>3. HandlerFresh(n)'
        BY <1>0, <2>3, <3>1, <3>2 DEF HandlerFresh
      <3>4. /\ verified'[n] \cup TxsOf(n)' \subseteq learned'[n]
            /\ verified'[n] \cap TxsOf(n)' \subseteq relearned'
        BY <1>0, <2>3, <3>1, <3>2 DEF HandlerFresh
      <3> QED
        BY <2>2, <3>3, <3>4 DEF FreshAt
    <2>8. CASE AddNewBlock(n)
      <3>1. handler[n].pc = "add" /\ handler'[n].pc = "idle" /\ verified' = verified
        BY <1>0, <2>8 DEF AddNewBlock, Handle, HandlerIdle
      <3>2. TxsOf(n)' = TxsOf(n) \cup handler[n].block.txs
        <4>1. Add(n, handler[n].block) /\ handler[n].block \in signed
          BY <1>0, <2>8 DEF AddNewBlock, NextAt
        <4> HIDE DEF Handler
        <4> QED
          BY <4>1, AddTxs
      <3>3. HandlerFresh(n)'
        BY <3>1 DEF HandlerFresh
      <3>4. /\ verified'[n] \cup TxsOf(n)' \subseteq learned'[n]
            /\ verified'[n] \cap TxsOf(n)' \subseteq relearned'
        BY <1>0, <2>3, <3>1, <3>2 DEF HandlerFresh
      <3> QED
        BY <2>2, <3>3, <3>4 DEF FreshAt
    <2> QED
      BY <2>4, <2>5, <2>6, <2>7, <2>8 DEF Handling
  <1> QED
    BY <1>2, <1>3

LEMMA NetworkFresh ==
  ASSUME TypeOK, FreshInv, NEW n \in Node, NEW b \in signed,
         BlockArrives(n, b) \/ HostResolved(n, b) \/ BlockLost(n, b)
  PROVE  FreshInv'
  <1> USE DEF blockVars, storeVars, noticeVars, procVars
  <1>1. /\ UNCHANGED <<chain, verified, learned, relearned, worker>> /\ raced \subseteq raced'
        /\ \A m \in Node \ {n} : handler'[m] = handler[m]
        /\ n \in Validator => handler'[n] = handler[n] \/ handler'[n].pc = "check"
    <2>1. CASE BlockArrives(n, b) \/ BlockLost(n, b)
      BY <2>1 DEF BlockArrives, BlockLost
    <2>2. CASE HostResolved(n, b)
      BY <2>2 DEF HostResolved, TypeOK, Handler
    <2> QED
      BY <2>1, <2>2
  <1>2. ASSUME raced = {}, NEW m \in Validator PROVE FreshAt(m)'
    <2>1. m \in Node /\ FreshAt(m)
      BY <1>2, ConstantsAreRight DEF FreshInv, Assumptions
    <2>2. CASE handler'[m] = handler[m]
      BY <1>1, <2>1, <2>2, FreshFrame
    <2>3. CASE handler'[m].pc = "check"
      <3>1. TxsOf(m)' = TxsOf(m)
        BY <1>1, <2>1, SameTxs
      <3>2. HandlerFresh(m)'
        BY <2>3 DEF HandlerFresh
      <3>3. WorkerFresh(m)'
        BY <1>1, <2>1, <3>1 DEF FreshAt, WorkerFresh
      <3> QED
        BY <1>1, <2>1, <3>1, <3>2, <3>3 DEF FreshAt
    <2> QED
      BY <1>1, <2>1, <2>2, <2>3
  <1> QED
    BY <1>1, <1>2 DEF FreshInv

LEMMA RestartFresh ==
  ASSUME TypeOK, FreshInv, NEW n \in Node, Restart(n)
  PROVE  FreshInv'
  <1>1. /\ UNCHANGED <<chain, verified, learned, relearned, raced>>
        /\ \A m \in Node \ {n} : worker'[m] = worker[m] /\ handler'[m] = handler[m]
        /\ worker'[n].pc = "idle" /\ handler'[n].pc = "idle"
    BY DEF Restart, blockVars, storeVars, noticeVars, TypeOK, WorkerIdle, HandlerIdle
  <1>2. ASSUME raced = {}, NEW m \in Validator PROVE FreshAt(m)'
    <2>1. m \in Node /\ FreshAt(m)
      BY <1>2, ConstantsAreRight DEF FreshInv, Assumptions
    <2>2. CASE m # n
      BY <1>1, <2>1, <2>2, FreshFrame
    <2>3. CASE m = n
      <3>1. TxsOf(m)' = TxsOf(m)
        BY <1>1, <2>1, SameTxs
      <3> QED
        BY <1>1, <2>1, <2>3, <3>1 DEF FreshAt, WorkerFresh, HandlerFresh
    <2> QED
      BY <2>2, <2>3
  <1> QED
    BY <1>1, <1>2 DEF FreshInv

LEMMA NextFresh ==
  ASSUME IInv, FreshInv, [Next]_vars
  PROVE  FreshInv'
  <1>1. CASE UNCHANGED vars
    <2>1. \A m \in Validator : FreshAt(m) => FreshAt(m)'
      BY <1>1, FreshFrame, ConstantsAreRight DEF vars, Assumptions
    <2> QED
      BY <1>1, <2>1 DEF vars, FreshInv
  <1>2. ASSUME NEW n \in Node, LastBlockAges(n) PROVE FreshInv'
    <2> USE DEF LastBlockAges, procVars, storeVars, noticeVars
    <2>1. \A m \in Validator : FreshAt(m) => FreshAt(m)'
      BY <1>2, FreshFrame, ConstantsAreRight DEF Assumptions
    <2> QED
      BY <1>2, <2>1 DEF FreshInv
  <1> QED
    BY <1>1, <1>2, TransactionVerifiedFresh, WorkerStepFresh, HandlingFresh, NetworkFresh,
       RestartFresh DEF Next, IInv

\* Chains and relearned only grow, so that what is fresh stays so.
LEMMA SignedStays ==
  ASSUME IInv, [Next]_vars, NEW b \in signed, SignedFresh(b)
  PROVE  SignedFresh(b)'
  <1>1. b.by \in Node /\ relearned \subseteq relearned'
    BY HistoryGrows DEF IInv, TypeOK, Block
  <1>2. PICK i \in 1..Len(chain[b.by]) :
           /\ chain[b.by][i].id = b.prev
           /\ \A k \in 1..i : chain[b.by][k].txs \cap b.txs \subseteq relearned
    BY DEF SignedFresh
  <1>3. /\ i \in 1..Len(chain'[b.by])
        /\ \A k \in 1..i : chain'[b.by][k] = chain[b.by][k]
    <2>1. CASE UNCHANGED chain
      BY <1>2, <2>1
    <2>2. ASSUME NEW n \in Node, NEW c \in signed, Add(n, c)
          PROVE  /\ i \in 1..Len(chain'[b.by])
                 /\ \A k \in 1..i : chain'[b.by][k] = chain[b.by][k]
      BY SMTT(30), <1>1, <1>2, <2>2, AddEffect DEF IInv
    <2> QED
      BY <2>1, <2>2, ChainMove DEF IInv
  <1>4. i \in 1..i
    OBVIOUS
  <1> QED
    BY <1>1, <1>2, <1>3, <1>4 DEF SignedFresh

LEMMA NextSigned ==
  ASSUME IInv, FreshInv, SignedInv, [Next]_vars
  PROVE  SignedInv'
  <1>1. raced \subseteq raced'
    BY HistoryGrows DEF IInv
  <1> SUFFICES ASSUME raced = {}, NEW b \in signed' PROVE SignedFresh(b)'
    BY <1>1 DEF SignedInv
  <1>2. CASE b \in signed
    BY <1>2, SignedStays DEF SignedInv
  <1>3. CASE b \notin signed
    <2>1. PICK n \in Node : SignBlock(n)
      BY <1>3 DEF Next, vars, blockVars, procVars, TransactionVerified, WorkerStep,
         BlockIsDue, TakeVerified, DeleteTaken, DumpRest, AppendBlock, DeleteAgain, DumpAgain,
         SendBlock, Handling, CheckBlock, CollectIds, DeleteIds, DumpIds, AddNewBlock,
         BlockArrives, HostResolved, BlockLost, Restart, LastBlockAges
    <2>2. b.by = n /\ b.prev = Last(n).id /\ b.txs = worker[n].taken
      BY <1>3, <2>1 DEF SignBlock
    <2>3. chain' = chain /\ relearned' = relearned
      BY <2>1 DEF SignBlock, noticeVars
    <2>4. worker[n].taken \cap TxsOf(n) \subseteq relearned
      <3>1. n \in Validator /\ worker[n].pc = "sign"
        BY <2>1 DEF SignBlock, FreshInv
      <3> QED
        BY <3>1 DEF FreshInv, FreshAt, WorkerFresh
    <2>5. Len(chain[n]) \in Nat /\ Len(chain[n]) >= 1
      BY DEF IInv, TypeOK, BlocksInv
    <2>6. \A k \in 1..Len(chain[n]) : chain[n][k].txs \subseteq TxsOf(n)
      BY DEF TxsOf, BlocksOf
    <2>7. Len(chain[n]) \in 1..Len(chain[n]) /\ chain[n][Len(chain[n])].id = b.prev
      BY <2>2, <2>5 DEF Last
    <2> QED
      BY <2>2, <2>3, <2>4, <2>6, <2>7 DEF SignedFresh
  <1> QED
    BY <1>2, <1>3

\* A block has nothing of the blocks under it in any chain: they are those that its
\* signer had.
LEMMA NothingTwice ==
  ASSUME IInv, SignedInv, raced = {}, NEW n \in Node,
         NEW i \in 1..Len(chain[n]), NEW j \in 1..Len(chain[n]), i < j
  PROVE  chain[n][i].txs \cap chain[n][j].txs \subseteq relearned
  <1>1. Len(chain[n]) \in Nat
    BY DEF IInv, TypeOK
  <1>2. j \in 2..Len(chain[n]) /\ j - 1 \in 1..Len(chain[n]) /\ i \in 1..(j - 1)
    BY <1>1
  <1>3. chain[n][j] \in signed /\ chain[n][j].prev = chain[n][j - 1].id
    BY <1>2 DEF IInv, BlocksInv, ChainIsLinked, Linked
  <1> DEFINE b == chain[n][j]
  <1>4. b.by \in Node
    BY <1>3 DEF IInv, TypeOK, Block
  <1>5. PICK k \in 1..Len(chain[b.by]) :
           /\ chain[b.by][k].id = b.prev
           /\ \A h \in 1..k : chain[b.by][h].txs \cap b.txs \subseteq relearned
    BY <1>3 DEF SignedInv, SignedFresh
  <1>6. j - 1 = k /\ \A h \in 1..(j - 1) : chain[n][h] = chain[b.by][h]
    BY SMTT(30), <1>2, <1>3, <1>4, <1>5 DEF IInv, PrefixAgreement
  <1> QED
    BY <1>2, <1>5, <1>6

\* create_block and add_new_block: a chain has no transaction twice, but for those that
\* a node was told of again, if no node worked on two blocks at once.
THEOREM NothingIsIncludedTwice == Spec => []NoDoubleInclusion
  <1>1. Init => FreshInv /\ SignedInv
    <2> SUFFICES ASSUME Init PROVE FreshInv /\ SignedInv
      OBVIOUS
    <2>1. SignedInv
      BY DEF Init, SignedInv
    <2>2. \A n \in Node : /\ chain[n] = <<Genesis>> /\ verified[n] = {}
                          /\ worker[n].pc = "idle" /\ handler[n].pc = "idle"
      BY DEF Init, WorkerIdle, HandlerIdle
    <2>3. \A n \in Node : TxsOf(n) = {}
      <3> SUFFICES ASSUME NEW n \in Node PROVE TxsOf(n) = {}
        OBVIOUS
      <3>1. BlocksOf(n) = {Genesis}
        BY <2>2 DEF BlocksOf
      <3>2. Genesis.txs = {}
        BY DEF Genesis
      <3> QED
        BY <3>1, <3>2 DEF TxsOf
    <2>4. FreshInv
      BY <2>2, <2>3, ConstantsAreRight DEF FreshInv, FreshAt, WorkerFresh, HandlerFresh,
         Assumptions
    <2> QED
      BY <2>1, <2>4
  <1>2. IInv /\ FreshInv /\ SignedInv /\ [Next]_vars => FreshInv' /\ SignedInv'
    BY NextFresh, NextSigned
  <1>3. IInv /\ SignedInv => NoDoubleInclusion
    <2> SUFFICES ASSUME IInv, SignedInv, raced = {}, NEW n \in Node, NEW t \in Tx \ relearned,
                        NEW i \in 1..Len(chain[n]), NEW j \in 1..Len(chain[n]),
                        t \in chain[n][i].txs, t \in chain[n][j].txs
                 PROVE  i = j
      BY DEF NoDoubleInclusion
    <2>1. ~(i < j) /\ ~(j < i)
      BY NothingTwice
    <2>2. Len(chain[n]) \in Nat
      BY DEF IInv, TypeOK
    <2> QED
      BY <2>1, <2>2
  <1> QED
    BY <1>1, <1>2, <1>3, Invariant, PTL DEF Spec
=============================================================================
