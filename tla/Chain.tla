------------------------------- MODULE Chain -------------------------------
(***************************************************************************)
(* How the nodes of a PoST network turn verified transactions into blocks. *)
(*                                                                         *)
(* The store of verified transactions of a node is filled by votes and     *)
(* announcements.  The block worker of a validator puts all of it into a   *)
(* block on top of its chain and sends the block to the other nodes, whose *)
(* handlers append it if it extends their last block (and, at a validator, *)
(* if its transactions are verified there).  A refused block is not asked  *)
(* for again.                                                              *)
(*                                                                         *)
(* Grain.  The worker and the HTTP server of a node are two processes that *)
(* share the files of the chain and of the verified transactions.  An      *)
(* action is one operation on one file; the deletion of transactions is    *)
(* two, the read of the file and its rewriting.  The server is one thread  *)
(* of greenlets: a handler of a block gives way to the next ones while it  *)
(* looks up the name of its own host, after the check of the block and     *)
(* before all else, and runs to its end from there.  A third process, the  *)
(* verifier, adds verified transactions at any time.                       *)
(*                                                                         *)
(* A block is known by an id, for its hash; of the timestamps, there is    *)
(* only whether the last block is young; signatures are left out.          *)
(***************************************************************************)
EXTENDS FiniteSets, Integers, Sequences

CONSTANTS
    Node,        \* the nodes of the network
    Validator,   \* those that are validators
    Tx,          \* the transactions
    Notice,      \* the <<n, t, v>> such that v makes n add t to its verified ones
    Place,       \* places in the order of a node's verified transactions by time
    BlockId,     \* ids of blocks: a bound on the number of blocks
    Lossy,       \* whether the request that sends a block may fail
    Crashing     \* the nodes that may crash, once each

ASSUME ValidatorAssumption == Validator \subseteq Node /\ Validator # {}
ASSUME NoticeAssumption == Notice \subseteq Node \X Tx \X Validator
ASSUME PlaceAssumption == Place \subseteq Nat
ASSUME BlockIdAssumption == BlockId \subseteq Nat \ {0}
ASSUME LossyAssumption == Lossy \in BOOLEAN
ASSUME CrashingAssumption == Crashing \subseteq Node

VARIABLES
    chain,       \* chain[n]: the blockchain file of n
    verified,    \* verified[n]: the transactions in the transaction_verified file of n
    place,       \* place[n][t]: where t stands in them by time, the latest highest
    touched,     \* touched[n]: whether that file was written since the worker took from it
    coming,      \* the notices not yet received
    young,       \* young[n]: the last block of n has not reached the age of a next one
    net,         \* the <<n, b>> such that block b is on its way to n
    worker,      \* worker[n]: where the block worker of n stands
    resolving,   \* resolving[n]: the blocks whose handlers at n look up its own name
    handler,     \* handler[n]: where the handler of a new block at n stands, after that
    \* History, that no step of the code reads:
    signed,      \* the blocks ever signed
    learned,     \* learned[n]: the transactions ever verified at n
    relearned,   \* those some node added again after they had left its verified ones
    raced,       \* the nodes that were at work on two blocks at once
    clobbered,   \* the nodes that added a transaction between a deletion's read and write
    crashed      \* the nodes that crashed

storeVars == <<verified, place, touched>>
noticeVars == <<coming, learned, relearned, clobbered>>
blockVars == <<chain, young, net, signed>>
procVars == <<worker, resolving, handler, raced, crashed>>
vars == <<chain, young, verified, place, touched, coming, net, worker, resolving, handler,
          signed, learned, relearned, raced, clobbered, crashed>>
-----------------------------------------------------------------------------
(* Types *)

Block == [id : BlockId \cup {0}, prev : BlockId \cup {0}, by : Node, txs : SUBSET Tx]

\* The block of create_first_block; it also fills a field that holds no block.
Genesis == [id |-> 0, prev |-> 0, by |-> CHOOSE v \in Validator : TRUE, txs |-> {}]

Worker == [pc : {"idle", "take", "delete", "dump", "sign", "append", "delete again",
                 "dump again", "send", "dead"},
           taken : SUBSET Tx,      \* the transactions of the block
           rest : SUBSET Tx,       \* what a deletion will write
           reloaded : BOOLEAN,     \* the first deletion read the file again
           block : Block]

Handler == [pc : {"idle", "check", "collect", "delete", "dump", "add"},
            ids : SUBSET Tx,       \* the transactions to delete
            rest : SUBSET Tx,
            block : Block]

WorkerIdle == [pc |-> "idle", taken |-> {}, rest |-> {}, reloaded |-> FALSE,
               block |-> Genesis]
HandlerIdle == [pc |-> "idle", ids |-> {}, rest |-> {}, block |-> Genesis]

TypeOK ==
    /\ chain \in [Node -> Seq(Block)]
    /\ young \in [Node -> BOOLEAN]
    /\ verified \in [Node -> SUBSET Tx]
    /\ place \in [Node -> [Tx -> Place]]
    /\ touched \in [Node -> BOOLEAN]
    /\ coming \subseteq Notice
    /\ net \subseteq Node \X signed
    /\ worker \in [Node -> Worker]
    /\ resolving \in [Node -> SUBSET signed]
    /\ handler \in [Node -> Handler]
    /\ signed \subseteq Block
    /\ learned \in [Node -> SUBSET Tx]
    /\ relearned \subseteq Tx
    /\ raced \subseteq Node /\ clobbered \subseteq Node /\ crashed \subseteq Node
-----------------------------------------------------------------------------
Last(n) == chain[n][Len(chain[n])]
BlocksOf(n) == {chain[n][i] : i \in 1..Len(chain[n])}
TxsOf(n) == UNION {b.txs : b \in BlocksOf(n)}

WorkerBusy(n) == worker[n].pc \notin {"idle", "send", "dead"}
HandlerBusy(n) == handler[n].pc # "idle"
ServerBusy(n) == HandlerBusy(n) \/ resolving[n] # {}

\* A deletion has read the verified transactions of n and not written them yet.
Deleting(n) == worker[n].pc \in {"dump", "dump again"} \/ handler[n].pc = "dump"

\* The verified transactions of n are written.
Write(n, txs) ==
    /\ verified' = [verified EXCEPT ![n] = txs]
    /\ touched' = [touched EXCEPT ![n] = TRUE]
    /\ UNCHANGED place

Work(n, w) == worker' = [worker EXCEPT ![n] = w] /\ UNCHANGED <<resolving, handler, crashed>>
Handle(n, h) == handler' = [handler EXCEPT ![n] = h] /\ UNCHANGED <<worker, resolving, crashed>>

\* The mutant adds every block as the first of a chain, after none.
AddAsFirst(n, b) ==
    /\ chain' = [chain EXCEPT ![n] = Append(@, [b EXCEPT !.prev = -1])]
    /\ young' = [young EXCEPT ![n] = TRUE]

\* BlockchainManager.add
Add(n, b) ==
    /\ chain' = [chain EXCEPT ![n] = Append(@, b)]
    /\ young' = [young EXCEPT ![n] = TRUE]
-----------------------------------------------------------------------------
(* Transactions become verified *)

\* n decides t itself (v = n, in its verifier or its server) or its server is told
\* by v that t is verified: in both cases t is added, whatever n knows of it.  Its
\* time, that of its arrival in the pool of v, puts it anywhere in the order.
TransactionVerified(n, t, v) ==
    /\ <<n, t, v>> \in coming
    /\ n = v \/ ~HandlerBusy(n)
    /\ coming' = coming \ {<<n, t, v>>}
    /\ verified' = [verified EXCEPT ![n] = @ \cup {t}]
    /\ touched' = [touched EXCEPT ![n] = TRUE]
    /\ \E p \in Place :
          /\ \A u \in verified[n] \ {t} : place[n][u] # p
          /\ place' = [place EXCEPT ![n][t] = p]
    /\ learned' = [learned EXCEPT ![n] = @ \cup {t}]
    /\ relearned' = IF t \in learned[n] \ verified[n] THEN relearned \cup {t} ELSE relearned
    /\ clobbered' = IF Deleting(n) THEN clobbered \cup {n} ELSE clobbered
    /\ UNCHANGED <<blockVars, procVars>>
-----------------------------------------------------------------------------
(* The block worker *)

\* The mutant is off by one.
HasManyVerified(n) == Cardinality(verified[n]) > 1
HasVerified(n) == verified[n] # {}

\* The last block is 150 seconds old, which matters when a block could be made.
LastBlockAges(n) ==
    /\ n \in Validator
    /\ worker[n].pc = "idle"
    /\ HasVerified(n)
    /\ young[n]
    /\ young' = [young EXCEPT ![n] = FALSE]
    /\ UNCHANGED <<chain, net, signed, procVars, storeVars, noticeVars>>

\* The last block is old enough and there are verified transactions.
BlockIsDue(n) ==
    /\ n \in Validator
    /\ worker[n].pc = "idle"
    /\ ~young[n]
    /\ HasVerified(n)
    /\ Work(n, [worker[n] EXCEPT !.pc = "take"])
    /\ raced' = IF ServerBusy(n) THEN raced \cup {n} ELSE raced
    /\ UNCHANGED <<blockVars, storeVars, noticeVars>>

TakeVerified(n) ==
    /\ worker[n].pc = "take"
    /\ Work(n, [worker[n] EXCEPT !.pc = "delete", !.taken = verified[n]])
    /\ touched' = [touched EXCEPT ![n] = FALSE]
    /\ UNCHANGED <<verified, place, raced, blockVars, noticeVars>>

\* TransactionVerifiedManager.delete of the transactions taken, up to its write.
\* Unless the file has changed, it empties the very dictionary that create_block
\* keeps its keys in.
DeleteTaken(n) ==
    /\ worker[n].pc = "delete"
    /\ IF worker[n].taken \subseteq verified[n]
         THEN Work(n, [worker[n] EXCEPT !.pc = "dump", !.reloaded = touched[n],
                                        !.rest = verified[n] \ worker[n].taken])
         ELSE Work(n, [WorkerIdle EXCEPT !.pc = "dead"])
    /\ UNCHANGED <<raced, blockVars, storeVars, noticeVars>>

DumpRest(n) ==
    /\ worker[n].pc = "dump"
    /\ Write(n, worker[n].rest)
    /\ Work(n, [worker[n] EXCEPT !.pc = "sign"])
    /\ UNCHANGED <<raced, blockVars, noticeVars>>

\* The block is signed on top of the last one; ids are given in order.
SignBlock(n) ==
    /\ worker[n].pc = "sign"
    /\ \E id \in BlockId :
          LET b == [id |-> id, prev |-> Last(n).id, by |-> n, txs |-> worker[n].taken]
          IN /\ \A j \in BlockId : j < id <=> \E c \in signed : c.id = j
             /\ signed' = signed \cup {b}
             /\ Work(n, [worker[n] EXCEPT !.pc = "append", !.block = b])
    /\ UNCHANGED <<chain, young, net, raced, storeVars, noticeVars>>

AppendBlock(n) ==
    /\ worker[n].pc = "append"
    /\ Add(n, worker[n].block)
    /\ Work(n, [worker[n] EXCEPT !.pc = "delete again"])
    /\ UNCHANGED <<net, signed, raced, storeVars, noticeVars>>

\* The second deletion of the same keys: of none, if the first one emptied the
\* dictionary they are kept in, and a KeyError otherwise, which ends the worker.
DeleteAgain(n) ==
    LET keys == IF worker[n].reloaded THEN worker[n].taken ELSE {}
    IN /\ worker[n].pc = "delete again"
       /\ IF keys \subseteq verified[n]
            THEN Work(n, [worker[n] EXCEPT !.pc = "dump again", !.rest = verified[n] \ keys])
            ELSE Work(n, [WorkerIdle EXCEPT !.pc = "dead"])
       /\ UNCHANGED <<raced, blockVars, storeVars, noticeVars>>

DumpAgain(n) ==
    /\ worker[n].pc = "dump again"
    /\ Write(n, worker[n].rest)
    /\ Work(n, [worker[n] EXCEPT !.pc = "send"])
    /\ UNCHANGED <<raced, blockVars, noticeVars>>

\* A thread per node sends the block.  The loop that follows ends at once, since
\* there are threads: the worker does not wait for them.
SendBlock(n) ==
    /\ worker[n].pc = "send"
    /\ net' = net \cup ((Node \ {n}) \X {worker[n].block})
    /\ Work(n, WorkerIdle)
    /\ UNCHANGED <<chain, young, signed, raced, storeVars, noticeVars>>
-----------------------------------------------------------------------------
(* The handler of a new block *)

\* The mutant takes any block of the chain for the previous one.
FollowsSome(n, b) == \E c \in BlocksOf(n) : b.prev = c.id
Follows(n, b) == b.prev = Last(n).id

\* add_new_block, up to the look-up of the node's own name: the block must follow the
\* last one.
BlockArrives(n, b) ==
    /\ <<n, b>> \in net
    /\ ~HandlerBusy(n)
    /\ net' = net \ {<<n, b>>}
    /\ IF Follows(n, b)
         THEN /\ resolving' = [resolving EXCEPT ![n] = @ \cup {b}]
              /\ raced' = IF WorkerBusy(n) \/ resolving[n] # {} THEN raced \cup {n} ELSE raced
         ELSE UNCHANGED <<resolving, raced>>
    /\ UNCHANGED <<chain, young, signed, worker, handler, crashed, storeVars, noticeVars>>

\* It goes on; a node that is not a validator looks whether it has the block.
HostResolved(n, b) ==
    /\ b \in resolving[n]
    /\ ~HandlerBusy(n)
    /\ resolving' = [resolving EXCEPT ![n] = @ \ {b}]
    /\ IF n \in Validator \/ b \notin BlocksOf(n)
         THEN handler' = [handler EXCEPT ![n] =
                  [@ EXCEPT !.pc = IF n \in Validator THEN "check" ELSE "collect", !.block = b]]
         ELSE UNCHANGED handler
    /\ UNCHANGED <<worker, raced, crashed, blockVars, storeVars, noticeVars>>

BlockLost(n, b) ==
    /\ Lossy
    /\ <<n, b>> \in net
    /\ net' = net \ {<<n, b>>}
    /\ UNCHANGED <<chain, young, signed, procVars, storeVars, noticeVars>>

\* _check_for_missing_transactions: what the block leaves out is later than all that
\* it has.
MissingAreLatest(n, txs) ==
    \A t \in verified[n] \ txs, u \in txs : place[n][t] > place[n][u]

\* The mutant forgets the transactions that are not verified here.
IsLatest(n, txs) == MissingAreLatest(n, txs)
IsAcceptable(n, txs) == txs \subseteq verified[n] /\ MissingAreLatest(n, txs)

\* _register_new_block_validator
CheckBlock(n) ==
    LET txs == handler[n].block.txs
    IN /\ handler[n].pc = "check"
       /\ IF IsAcceptable(n, txs)
            THEN Handle(n, [handler[n] EXCEPT !.pc = "collect"])
            ELSE Handle(n, HandlerIdle)
       /\ UNCHANGED <<raced, blockVars, storeVars, noticeVars>>

\* The mutant empties the store.
AllIds(n, b) == verified[n]
IdsOf(n, b) == verified[n] \cap b.txs

CollectIds(n) ==
    /\ handler[n].pc = "collect"
    /\ Handle(n, [handler[n] EXCEPT !.pc = "delete",
                                    !.ids = IdsOf(n, handler[n].block)])
    /\ UNCHANGED <<raced, blockVars, storeVars, noticeVars>>

\* A transaction that is no longer there is a KeyError, and the block is not added.
DeleteIds(n) ==
    /\ handler[n].pc = "delete"
    /\ IF handler[n].ids \subseteq verified[n]
         THEN Handle(n, [handler[n] EXCEPT !.pc = "dump",
                                           !.rest = verified[n] \ handler[n].ids])
         ELSE Handle(n, HandlerIdle)
    /\ UNCHANGED <<raced, blockVars, storeVars, noticeVars>>

DumpIds(n) ==
    /\ handler[n].pc = "dump"
    /\ Write(n, handler[n].rest)
    /\ Handle(n, [handler[n] EXCEPT !.pc = "add"])
    /\ UNCHANGED <<raced, blockVars, noticeVars>>

AddNewBlock(n) ==
    /\ handler[n].pc = "add"
    /\ Add(n, handler[n].block)
    /\ Handle(n, HandlerIdle)
    /\ UNCHANGED <<net, signed, raced, storeVars, noticeVars>>
-----------------------------------------------------------------------------
\* The processes of the node stop, and start again from its files.  What they were
\* sending may be lost too, as BlockLost allows.
Restart(n) ==
    /\ n \in Crashing \ crashed
    /\ worker' = [worker EXCEPT ![n] = WorkerIdle]
    /\ resolving' = [resolving EXCEPT ![n] = {}]
    /\ handler' = [handler EXCEPT ![n] = HandlerIdle]
    /\ crashed' = crashed \cup {n}
    /\ UNCHANGED <<raced, blockVars, storeVars, noticeVars>>

Init ==
    /\ chain = [n \in Node |-> <<Genesis>>]
    /\ young = [n \in Node |-> TRUE]
    /\ verified = [n \in Node |-> {}]
    /\ place \in [Node -> [Tx -> Place]]
    /\ \A n \in Node, t \in Tx : \A p \in Place : place[n][t] <= p
    /\ touched = [n \in Node |-> FALSE]
    /\ coming = Notice
    /\ net = {}
    /\ worker = [n \in Node |-> WorkerIdle]
    /\ resolving = [n \in Node |-> {}]
    /\ handler = [n \in Node |-> HandlerIdle]
    /\ signed = {}
    /\ learned = [n \in Node |-> {}]
    /\ relearned = {}
    /\ raced = {}
    /\ clobbered = {}
    /\ crashed = {}

WorkerStep(n) ==
    \/ BlockIsDue(n)
    \/ TakeVerified(n)
    \/ DeleteTaken(n)
    \/ DumpRest(n)
    \/ SignBlock(n)
    \/ AppendBlock(n)
    \/ DeleteAgain(n)
    \/ DumpAgain(n)
    \/ SendBlock(n)

Handling(n) ==
    \/ CheckBlock(n)
    \/ CollectIds(n)
    \/ DeleteIds(n)
    \/ DumpIds(n)
    \/ AddNewBlock(n)

Next ==
    \/ \E n \in Node, t \in Tx, v \in Validator : TransactionVerified(n, t, v)
    \/ \E n \in Node : WorkerStep(n) \/ Handling(n) \/ LastBlockAges(n) \/ Restart(n)
    \/ \E n \in Node, b \in signed :
          BlockArrives(n, b) \/ HostResolved(n, b) \/ BlockLost(n, b)

\* The worker is a loop and the handler runs to its end, in processes of their own; the
\* name of a host is found, and a block that stays the last one gets old.  What the
\* network or the verifier does is not assumed.
Fairness ==
    \A n \in Node :
        /\ WF_vars(WorkerStep(n))
        /\ WF_vars(Handling(n) \/ \E b \in signed : HostResolved(n, b))
        /\ WF_vars(LastBlockAges(n))

Spec == Init /\ [][Next]_vars
FairSpec == Spec /\ Fairness
-----------------------------------------------------------------------------
(* Properties *)

Linked(c) == \A i \in 2..Len(c) : c[i].prev = c[i - 1].id

\* At a node that was never at work on two blocks at once, its worker's or those of
\* requests, every block of the chain follows the one before it: the check of
\* add_new_block, the last block read by create_block and the two appends are far
\* enough from each other.
ChainIsLinked == \A n \in Node \ raced : Linked(chain[n])

\* The same of every node, as the check of add_new_block has it.
EveryChainIsLinked == \A n \in Node : Linked(chain[n])

\* Two such chains that share a block share all that comes before it, at the same
\* height: nodes part at one block, and never meet again after it.
PrefixAgreement ==
    \A m, n \in Node \ raced :
        \A i \in 1..Len(chain[m]), j \in 1..Len(chain[n]) :
            chain[m][i].id = chain[n][j].id =>
                i = j /\ \A k \in 1..i : chain[m][k] = chain[n][k]

\* When no node worked on two blocks at once, no chain has a transaction twice, unless
\* a node was told again of a transaction that had left its verified ones: deletion
\* before signing, the check of a validator that it has verified a block's
\* transactions, and the order of blocks together keep it out.
NoDoubleInclusion ==
    raced = {} =>
        \A n \in Node, t \in Tx \ relearned :
            \A i, j \in 1..Len(chain[n]) :
                t \in chain[n][i].txs /\ t \in chain[n][j].txs => i = j

\* A transaction verified at a node stays there or is in its chain, or in the block
\* the node is working on, but for three ways of losing it: a crash, an addition
\* between the read and the write of a deletion, two blocks at work at once.
VerifiedIsKept ==
    \A n \in Node \ (raced \cup clobbered \cup crashed) :
        learned[n] \subseteq verified[n] \cup TxsOf(n) \cup worker[n].taken
                              \cup handler[n].block.txs

\* A validator collects its verified transactions over and over: what can hold it off
\* for ever are the blocks of others, if they keep arriving before the last one is old
\* enough, and a KeyError that ended its worker.
VerifiedIsCollected ==
    \A v \in Validator :
        \/ []<>(verified[v] = {})
        \/ <>(worker[v].pc = "dead")
        \/ []<><<chain'[v] # chain[v]>>_vars
=============================================================================
