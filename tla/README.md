# Verification of the PoST network

PoST ("Proof of Staked Trust") is a blockchain for IoT devices, simulated by a network of
HTTP nodes. Every node creates signed transactions; the *validators* among the nodes vote on
each transaction, put the accepted ones in blocks, and from time to time agree on the next
validators. This directory holds TLA+ models of that code, the TLC configurations that check
them, and TLAPS proofs. All paths below are relative to the repository.

1. [The system](#1-the-system)
2. [Modules](#2-modules)
3. [Runs](#3-runs)
4. [Proofs](#4-proofs)
5. [Where the code and its texts disagree](#5-where-the-code-and-its-texts-disagree)
6. [What is not modelled](#6-what-is-not-modelled)
7. [Plan](#7-plan)

## 1. The system

### Processes of a node

A container runs one HTTP server (gunicorn with one gevent worker) and one process for each
of these loops, all on the same files:

| process | file | what it does |
|---|---|---|
| HTTP server | `src/post/http.py`, `src/post/network/blockchain.py` | the handlers of all requests |
| scenario | `src/start_scenario_job.py`, `src/post/scenario/` | sends transactions |
| verifier | `src/start_transaction_verifier_job.py`, `src/post/network/verifier.py` | at a validator: judges the transactions of the pool and votes |
| block worker | `src/work_create_block.py` | at a validator: makes a block of the verified transactions, sends it |
| start worker | `src/work_start_agreement.py` | at a validator: proposes the next validators |
| judge worker | `src/work_validate_agreement.py` | at a validator: judges a proposed list, votes |
| first validators | `src/work_set_random_validators.py` | once, at one node: draws the first validators |
| dumper | `src/start_dump_worker.py`, `src/post/network/dumper.py` | writes the state out for the plots |

Nothing restarts a process that dies. Inside the server a handler runs until it makes an HTTP
request or sleeps (gevent switches only there; file operations block), so that handlers
interleave at their requests, and with the other processes at every file operation.

### Components

| component | state | operations | interacts through |
|---|---|---|---|
| Transaction voting | pool of transactions to verify with their votings, verified and rejected stores | create, populate, verify, record a vote, decide, announce | requests between servers; pool file shared by server, scenario and verifier |
| Blocks | chain file, verified transactions | create and send a block, accept one | requests; both files shared by block worker and server |
| Validator agreement | validators, agreement info, list, results | start, judge, vote, end, announce | requests; four files shared by the two workers and the server |
| Transaction pool file | pool file, lock file, cache | add, pop, record, find | lock file with retries |
| Trust | trust of every node, history of changes | change, send, purge, ask for the nodes | requests to every node; three files shared by server and workers |
| Membership | node list, own identity, first validators | boot, register, populate, update, draw | requests; node file |
| Other stores | one file each, memory with a stamp | load, dump, update | `flock` |
| Encoding | - | bytes of transactions, blocks, keys | - |
| HTTP routes, scenarios | - | route to handler, random delays, senders | - |
| Monitoring, plots | - | read the state, draw it | - |

Every validator holds every transaction and every validator's vote on it, and decides by
itself once it has all the votes. There is no leader and no retry: a request that fails is
logged and forgotten. A block is accepted if it follows the receiver's last one; otherwise
it is refused, and nobody asks for it again.

### What is hard

* Two activations of `add_transaction_verification_result` (the verifier's own vote and the
  vote of a peer) interleave on one pool entry: record, count, read, pop, announce are
  separate steps, and each may find the entry decided, removed or added again.
* A vote may arrive before its transaction, or after the decision.
* `create_block` deletes the verified transactions before it appends the block; so does the
  handler of a new block; both rewrite a file that a third party appends to.
* A block worker and the handler of a block both append to one chain after a check made
  much earlier.
* The start of an agreement writes three files one by one while another process reads them;
  votes name neither list nor leader; two agreements may overlap.
* Each process keeps in memory what it read, and sees the writes of another process only
  when it compares stamps.
* A crash loses what is between two writes; there is no log. A process that dies with the
  lock file of the pool leaves it there for ever.
* The pool is read before its lock is waited for and written after; a store is truncated
  before it is locked; a stamp is taken without a lock.
* Several nodes notice the same trust change and send it, each with a time of its own; the
  trust of all nodes is read, changed and written back by several processes.
* Nodes register while others do, or boot, or die; while they boot they answer nobody.

`PROJECT.json` lists every such hazard with its line and with the properties that cover it.

### What makes each component correct

* **Voting**: a node never records a vote its voter did not reach; a transaction is decided
  once, on the votes of all validators, by majority and alike everywhere; each pool entry
  gets voted on and leaves the pool.
* **Blocks**: a chain is linked; two chains share everything up to the point where they
  part and nothing after it; a verified transaction is not lost and not included twice;
  verified transactions go on being collected.
* **Agreement**: a list is installed only when a majority of the validators it replaces
  approved of it; it has the right number of nodes; all nodes end up with the same
  validators; agreements end, and are started again.
* **Pool file, other stores**: each operation takes effect in one step, on what all the
  earlier ones left; a stamp hides nothing; a lock excludes and is released.
* **Trust**: a change is applied once at every node; the trust of a node is the sum of its
  history; nodes agree on it; a change arrives.
* **Membership**: nodes that joined know each other; a boot ends, and succeeds; the drawn
  validators are the same everywhere.

## 2. Modules

| module | models | extends |
|---|---|---|
| `TxDecision` | what a vote promises (abstract) | - |
| `TxVoting` | voting on transactions | instantiates `TxDecision` |
| `Chain` | creating, sending and accepting blocks | - |
| `Agreement` | agreeing on the next validators | - |
| `TxPool` | what the pool of transactions promises (abstract) | - |
| `PoolFile` | the pool file, its lock file and the processes that share them | instantiates `TxPool` |
| `Store` | what any other store promises (abstract) | - |
| `StoreFile` | the twelve files with `flock`, and the processes that share one | instantiates `Store` |
| `Trust` | changing the trust of nodes, everywhere | - |
| `Membership` | how a node joins, the first validators | - |
| `TxVoting_proofs`, `Chain_proofs`, `ChainTxs_proofs`, `Agreement_proofs`, `PoolFile_proofs`, `StoreFile_proofs`, `Trust_proofs`, `Membership_proofs` | theorems | the module of the name; `ChainTxs_proofs` is about `Chain` |
| `MC_*` | instances for TLC | the module they check |

In all of them an action is one step that no other process can get into: an operation on one
file, a request answered, or a stretch of a handler between two requests. The grain differs:
`PoolFile` and `StoreFile` take an operation of a manager apart, down to look, open, lock, read,
write and stamp; the modules above them take such an operation as one step, which is what
`TxPool` and `Store` promise of it, and what `PoolFile` and `StoreFile` are shown to keep
until operations overlap. Variables under
"History" in a module are read by no step, only by properties; they say which of the named
exceptions of a property has happened.

### TxVoting

| variable | code |
|---|---|
| `pool`, `voting` | `blockchain.tx_to_verified`: the entries, and the `voting` of each |
| `verified`, `rejected` | `blockchain.txs_verified`, `txs_rejected` |
| `broadcast` | requests of `send_new_transaction_verified` under way |
| `populating[t]` | the handler of `transaction_new` that is sending `t` to the validators one by one; the scenario of its sender while it waits for the reply |
| `act[v]` | the verifier of `v`: where it is in `verify_transaction`, or in the handler at `act[v].at` that its vote runs |
| `held`, `readded`, `cast`, `dropped` | history |

`TransactionNew` to `PopulateDone`, `SenderReply`, `ReplyLost` are `transaction_new`,
`transaction_populate` and the scenario that adds its own transaction when the reply comes.
`VerifierPick`, `SendVote`, `SendVoteFails`, `SendVoteDone` are the verifier process.
`Lookup`, `TransactionGet`, `TransactionGetFails`, `FetchFails`, `AddFetched`, `AssertAdded`,
`RecordVote`, `CountVotes`, `PopEntry`, `Decide`, `Cleanup` are, in order, the reads and
writes of `add_transaction_verification_result` (`blockchain.py:139-213`), which runs in the
verifier for the own vote and in the server of the receiver for every other; `Raise` is an
exception in it. `TransactionVerifiedNew` and `BroadcastLost` end the announcement.

What is abstract: transactions are values; the verdict of a verifier (signature, age, data)
is a choice from `Verdict[v]`; the validators do not change during a vote; an operation of
the pool is one step (`TxPool`). `add_verification_result` looks whether the vote is
there in one such operation and writes it in another (`manager.py:126-133`): two votes of one
voter on one transaction may both pass the look, and the second then replaces the first.

`TxDecision` has one ballot per transaction, closed once with one result, learned by the
nodes one by one. `TxVoting` implements it under the mapping `Ballots`: the ballot of `t` is
closed by the verdict of the last validator, its result is the majority of the verdicts,
and it is void once a pool was given `t` a second time, which is the one way in which nodes
may decide on different votes.

### Chain

| variable | code |
|---|---|
| `chain` | the file `blockchain`: `BlockchainManager` |
| `verified`, `place` | the file of verified transactions and the times in it |
| `touched` | whether that file was written since the worker read it (its cache is stale) |
| `coming` | announcements and decisions that will add a verified transaction |
| `net` | requests with a block |
| `worker[n]` | `work_create_block.py` with `Blockchain.create_block`: before the deletion, between its read and write, before signing, before the append, before and inside the second deletion, before the sends; or dead of a `KeyError` |
| `handler[n]` | `add_new_block`: before and after the check, between the read and the write of the deletion, before the append |
| `signed`, `learned`, `relearned`, `raced`, `clobbered`, `crashed` | history |

`BlockIsDue` to `SendBlock` are one round of the worker, `BlockArrives` to `AddNewBlock` the
handler, `TransactionVerified` the additions by the verifier and by announcements, `Restart`
a crash of all processes of a node.

What is abstract: a block is an id, the id of its predecessor, its transactions and its
signer; times are only an order (`Place`); the age of the last block, which delays the
worker, is left out, so that the worker may run at any time.

### Agreement

| variable | code |
|---|---|
| `validators` | the file `validators` |
| `started`, `leader`, `recent` | the file `validators_agreement_info`; `recent` is `last_successful_agreement` less than 139 seconds ago |
| `heir` | the leader that `add_leader` appends in the memory of the server only |
| `list` | the file `validators_agreement` |
| `results`, `tally`, `synced` | the rows of the file `validator_agreement_result`; what the server has of them in memory; whether the two are in step |
| `net` | requests with a start, a vote or a new list |
| `starter`, `judge` | `work_start_agreement.py`, `work_validate_agreement.py` |
| `opening` | `node_validator_agreement_start` between its writes |
| `starts`, `approved`, `installed`, `overlapped`, `misread`, `refused`, `kept`, `crashed` | history |

`StartIsDue`, `WriteInfo`, `WriteList`, `SendStart` are a round of the start worker,
`JudgeList` and `SendVote` one of the judge worker. `ReceiveStart` and `OpenAgreement` are
`node_validator_agreement_start`, `ReceiveVote` is `node_validator_agreement_vote` with
`validator_agreement_end`, `ReceiveNews` is `node_new_validators`. A file read again after
another process wrote it gives "yes" for every row (`Results`), as `bool(row[1])` does.

What is abstract: lists are sets, and the order by trust that a proposal follows is a choice
from `Proposal`, as is what a validator thinks of one of the right length; the nodes of
`Node` are those that are proposed, out of `NodeNumber`; every node knows all nodes.
`TimePasses` says that 139 seconds are longer than any request or round of a worker.

### PoolFile

| variable | code |
|---|---|
| `file` | the rows of `txs_to_verified`, a function from transactions to the votes on them |
| `cut`, `garbled` | truncated by `open` and not yet written; two writers wrote over each other |
| `lock` | the lock file beside it |
| `memory`, `fresh` | `_txs` of `TransactionToVerifyManager`; whether `_last_modified_time` and size are those of the file |
| `pc`, `call`, `sure` | where a thread of control is in which operation; whether it has seen that the vote is new |
| `steady`, `overlapped`, `crossed`, `dead` | history |

A process has threads of control: the greenlets of the server share its memory, and change
over only where one sleeps for the lock (`MayRun`). `Refresh`, `WaitForLock`, `Read`,
`StampRead` are `refresh` and `TransactionStorage.load`; `Find`, `AddEntry`, `FindVote`, `GoOn`
what the operations do with the memory; `Take`, `Touch` are `wait_for_set_lock`, `Append` is
`update`, `Change` and `Write` are `dump`, `StampWritten`, `Unlock`, `Remove` their ends, and
`ChangeFails` and the second way through `Unlock` the handler of an exception. `Die` kills a
process.

`TxPool` has one step for each of add, record and pop. `PoolFile` implements it under
`entries <- file` as long as it is not `Void`: as long as no operation acted on what it had read
before another one wrote (`overlapped`), and nobody died between truncating the file and
writing it.

### StoreFile

| variable | code |
|---|---|
| `store` | the class of storage looked at, with the operations of its manager, and whether it flushes |
| `file`, `cut`, `garbled` | as in `PoolFile`; a row is the operation that wrote it |
| `holder` | who has the `flock` |
| `memory`, `fresh` | what the manager keeps, `is_up_to_date` |
| `pc`, `call` | where a process is in which operation |
| `steady`, `overlapped`, `done` | history |

`Refresh`, `LockToRead`, `Read`, `ReadFails`, `StampRead` are `refresh` and `load`;
`OpenToAppend` opens for `update`, `OpenToRewrite` for `dump`, which truncates, both before
`LockToWrite`; `Write` and `StampWritten` follow, in the other order in the one class that does not
flush (`TransactionVerifiedStorage`). `flock` blocks the whole server, so that a process is one thread of
control. `Store` has add, set and clear.

### Trust

| variable | code |
|---|---|
| `trust` | the file `nodes_trust` of each node |
| `recent`, `full` | `node_trust_history`, which is purged, and `node_trust_full_history`; a row is a change and the process that noticed it, which gave it its time |
| `asLists` | rows that a process has not read back from the file: their data is a list still |
| `act`, `waiting` | the change that server or worker is about; the handlers that sleep in `add_trust_to_node` |
| `net`, `due`, `old` | requests; what nodes are yet to notice; changes older than five seconds |
| `again`, `stale`, `clobbered`, `lost` | history |

`Notice` is `change_node_trust` up to its first write, `Receive` is `node_trust_change`; both
begin with `Check`: purge, and look for an equal change. `Read`, `Wait`, `Resume`, `Write` are
`add_trust_to_node`, `Record` adds to the two histories and sends the change, `Ask` is
`get_node_trust`, which gives a node without trust the basic one. What changes the trust of
whom and when is an input (`Plans`); `GrowOld` is the passing of five seconds.

### Membership

| variable | code |
|---|---|
| `pc` | where a server is in `PoST.load`, before it serves |
| `nodes`, `trusted`, `validators`, `hasChain` | the files `nodes`, `nodes_trust`, `validators`, `blockchain` |
| `roll` | the file `nodes` of the genesis node in its order, which matters there only |
| `visited` | how far `node_register` is in telling the others of a new node |
| `lists`, `draw` | requests with the first validators; the worker that draws them |
| `joined`, `overlapped`, `broken`, `untold`, `told`, `amid`, `died`, `restarted` | history |

`Start`, `GetInfo`, `Register`, `Update` are the requests of `load`; `Populate`,
`PopulateFails`, `Registered` the handler at the genesis node meanwhile; `DrawValidators` is
`work_set_random_validators.py`, and `NewValidators` what a node does with the list. `Die` and
`Restart` stop a node and start it with its files.

## 3. Runs

| run | instance | states | what it shows |
|---|---|---|---|
| `voting_lossy` | 2 validators, one of them the sender; every request may fail; one of them may change its mind | 327 000 | types; a recorded vote was cast; nothing is verified without a "yes"; the votes implement `TxDecision` |
| `voting_three` | 3 validators, one against, and a sender; the populate to one of them failed; fair | 265 000 | majority of all validators; no two nodes disagree; each entry gets the validator's vote and leaves the pool |
| `chain_two` | 2 validators, 2 transactions, 2 blocks, lost sends, a crash, fair | 697 000 | types; linked chains; nothing verified is lost; collecting goes on |
| `chain_three` | 2 validators and an observer, 3 blocks in any order | 2 600 000 | chains part once; nothing is included twice |
| `agreement_two` | 2 validators of 3 nodes, any pair proposed, 2 agreements, fair | 202 000 | types; nodes share the validators; agreements end |
| `agreement_lossy` | the same with lost requests and a crash | 981 000 | lists have the right length and a majority |
| `pool_file` | a server with 2 greenlets and a verifier, which may die; 2 transactions, 5 operations; fair | 255 000 | types; a stamp hides nothing; the lock excludes; the file implements `TxPool`; a vote is refused rightly; operations end |
| `stores` | 3 processes, one of which may die, 4 operations, on each of 9 classes of store; fair | 943 000 | types; a stamp hides nothing; a store that only grows loses nothing; a file implements `Store`; operations end |
| `trust` | 3 nodes with server and worker, 2 changes noticed by up to 3 processes, or by both of one node, lost requests, a change that gets old, a node without trust; fair | 619 000 | types; a change is applied once; trust is the sum of the history; nodes agree; changes arrive |
| `membership` | a genesis node and 3 others, one of which may die and start again; fair | 167 000 | types; nodes that joined know each other; boots succeed; drawn validators are shared; boots end |
| `chain_linked`, `trust_unlisted` | see section 5 | | a text of the repository does not hold |

Why these bounds are enough. Voting treats transactions one by one: no step reads two
entries. Two validators already give every interleaving of the own vote with a peer's, and
three give a majority that is not unanimity and votes that overtake the transaction. Two
blocks are what a race on one chain needs, three what a fork and a return from it would.
Two agreements are what an overlap and a leftover need. On a file, two processes give every race of
a writing with a reading, and a third reads or writes between the two; two greenlets of one process give
what shared memory adds. Stores that differ in name only are
checked once. Two nodes that notice a change and a third that hears of it from both give every order
of duplicates. Three nodes beside the genesis node are two that register at once and
one that is told of both. `BlockId`, `MaxStarts`, `Budget`, `Plans` and the sets of mortal processes bound the
runs; nothing else does. In the instances of `Agreement`, `NodeNumber` and `Percent` are such
that proposer and receiver count the nodes of a list alike (see section 5).

Deadlock is not checked: when every transaction is decided, the operations are done, or the ids of
blocks or the agreements are used up, the models rightly stop.

**Exceptions in properties.** Several properties hold but for cases that a history variable
names. Each case is a way the code really takes. In voting: a pool given a
transaction twice (`readded`), an error that swallows a vote (`dropped`). In blocks: worker and handler
at work at the same time (`raced`), an addition between the read and the rewriting of a file
(`clobbered`), a late announcement (`relearned`), a crash (`crashed`). In agreements: two that overlap
(`overlapped`), a misread vote (`misread`; it takes a third validator). On a file:
an operation that acts on what it read before another wrote, or writes to a file that another
has truncated (`overlapped`), a lock file created twice (`crossed`), a death (`dead`). For trust: a second copy
during the first, after five seconds, or with a list that was read back as a string
(`again`), an update that another overwrote (`clobbered`), a lost request (`lost`). For nodes:
registrations that overlap or fail, a node that died, a word refused in the middle of a change
of validators. The property says
that there is no other way, which is what a reader cannot see from the code.

**Fairness.** Weak, and for each process by itself: the handlers and the verifier
(`PopulateStep`, `VerifierStep`) and the delivery of announcements; the block worker and the
handler of a block; the two workers and the server of an agreement, and the passing of time; each
thread that is in an operation on a file; the server and the worker of a node that are about a
change; the boot of a node.
The workers are endless loops, a request is answered or fails, and a handler does not wait
for another but where the model says so. `flock` and the lock file need not be fair to one process: the operations are
bounded. Nothing is assumed of what the environment does (`TransactionNew`,
`TransactionVerified`, `Restart`, `Lose`, `Begin`, `Notice`, `Ask`, `Start`, `Die`).

## 4. Proofs

All theorems are for any number of nodes, processes, transactions, blocks, operations and
requests, with loss and
crashes. Beyond the assumptions on constants stated in the modules nothing is assumed.

| theorem | says |
|---|---|
| `TxVoting_proofs!TypeCorrect` | types of `TxVoting` |
| `TxVoting_proofs!VotesAreCastAlways` | a vote, recorded or on its way, was cast |
| `TxVoting_proofs!MajorityDecides` | decisions are by the majority of all validators |
| `TxVoting_proofs!NodesAgree` | no two nodes disagree |
| `TxVoting_proofs!VerifiedNeedsYes` | nothing is verified that nobody found good |
| `TxVoting_proofs!VotesImplementDecision` | the votes implement `TxDecision` |
| `TxVoting_proofs!NoEntryForgotten` | an entry of a pool still has a decision to come (when no request is lost) |
| `Chain_proofs!TypeCorrect` | types of `Chain` |
| `Chain_proofs!ChainsAreLinked` | chains are linked |
| `Chain_proofs!ChainsAgree` | chains share all that is before a common block |
| `ChainTxs_proofs!VerifiedIsNotLost` | a verified transaction stays, or is in a block |
| `ChainTxs_proofs!NothingIsIncludedTwice` | no chain has a transaction in two blocks |
| `Agreement_proofs!TypeCorrect` | types of `Agreement` |
| `Agreement_proofs!ValidatorsStayEnough` | lists have the right number of nodes |
| `Agreement_proofs!MajorityInstalls` | a list is installed by a majority of those it replaces |
| `Agreement_proofs!ValidatorsAreShared` | nodes come to share the validators (when no request is lost) |
| `Agreement_proofs!AgreementIsNotStuck` | an agreement that nothing disturbs goes on (when both sides give a list the same length) |
| `PoolFile_proofs!TypeCorrect` | types of `PoolFile` |
| `PoolFile_proofs!LockExclusive` | the lock file excludes, until it is created twice |
| `PoolFile_proofs!StampIsTrue` | a current stamp means a current memory |
| `PoolFile_proofs!RefusalIsRight` | a vote is refused for what is in the file |
| `PoolFile_proofs!FileImplementsPool` | the file implements `TxPool` |
| `PoolFile_proofs!LockIsReleased` | operations never all wait, unless one died with the lock |
| `StoreFile_proofs!TypeCorrect` | types of `StoreFile` |
| `StoreFile_proofs!GrowingStoreKeeps` | a store that only grows loses nothing |
| `StoreFile_proofs!StampIsTrue` | a current stamp means a current memory |
| `StoreFile_proofs!FileImplementsStore` | the file implements `Store` |
| `StoreFile_proofs!LockIsReleased` | operations never all wait, whoever dies |
| `Trust_proofs!TypeCorrect` | types of `Trust` |
| `Trust_proofs!ChangeOnce` | a node applies a change once |
| `Trust_proofs!TrustFollowsHistory` | the trust of a node is the sum of its history |
| `Trust_proofs!ChangeSpreads` | a change that one node has applied reaches another, is on its way, or was lost |
| `Trust_proofs!QuietNodesAgree` | when all is done, two nodes give a node the same trust |
| `Membership_proofs!TypeCorrect` | types of `Membership` |
| `Membership_proofs!BootsSucceed` | a registration fails for the named reasons only |
| `Membership_proofs!JoinedNodesKnow` | nodes that joined know and trust each other |
| `Membership_proofs!DrawnListIsShared` | the first validators are shared |

*TxVoting.* `DecidedByMajority` is not inductive: what is decided was counted before. The
invariant follows one vote from the verdict to the decision. `RunInv` says where a procedure
runs and that past the add its node was given the transaction. `CastInv`: as long as
no pool got `t` twice, a verifier has one verdict on `t`, and has recorded it unless it is
about to. `PopInv`: an entry about to be popped has all the votes, since votes are only added
while it stays. `DecideInv`: what was popped had all verdicts and `positive` is their majority.
`OutcomeInv`: so is every outcome. The steps of the procedure all fit one of few *moves*
(`PoolMove` and what follows), and preservation is proved per move.
`VerifiedOnSomeYes` needs none of the exceptions: `YesInv` says that a count that came out positive
had a vote in favour. The refinement compares the outcomes before and
after a step: a step closes or voids at most one ballot (`BallotMove`, `OneBallot`), or changes what
one node knows of it (`Learning`), and `DecideInv` says that the ballot is closed with the right result.
`EntryHasFuture` looks ahead: `FullInv` says that an entry with all its votes is about to be counted,
`OweInv` that a verdict is a vote that has arrived at a node or is owed to it, `PopulateInv` that a transaction has
arrived at a validator or is still to be sent there, `GoneInv` that what was popped had the verdicts of all.
It names the exceptions of `EntryIsDecided`: a vote swallowed by an error, a second add, a lost request.

*Chain.* `NextInv` says that the block a worker or a handler is about to append follows the
last one, unless they are both at work (`raced`); `BlocksInv` that an id names one block and
that chains are made of signed blocks. Then a chain changes only by the append of a block
that follows its last one (`ChainMove`), from which linkedness follows, and agreement on
prefixes by comparing the appended block with the same block in another chain.

*ChainTxs.* `KeptInv` says for every place where the worker or the handler may stand which
of the learned transactions are in the file, in the hand of the process, or in the chain.
For `NoDoubleInclusion`, `FreshInv` says that what a node has verified, or is about
to sign, is not in its chain, nor in the block its handler is adding, unless it was learned again
there. So a block has nothing that the signer had under it (`SignedInv`), and `PrefixAgreement` carries this
from the signer's chain to every other.

*Agreement.* A vote says neither what list it is for nor in which agreement it was given, so
that a majority can only be known from what else may be under way. `PhaseInv` says that, as
long as agreements do not overlap, all nodes are in one of two phases. In the first (`Open`)
no agreement is under way, or one is, of the electors `e` led by `k` about the list `l`: every
list in a file, in a request or in the hands of a process is then `l`, and every node
has the validators `e`. In the second (`Closing`) `k` has installed `l`, and each other node
has `e` or `l`, in the latter case because it heard the news. A vote cannot be counted in
the next agreement, because each node votes once, and a node that could start one has no vote
under way to it (`NoLateVotes`). `MemoryInv` relates the memory of a server to its file: what the server counted
was sent by the nodes it names, unless it was misread. Then a list is installed
only by its leader, from its own file and on counted votes for it.
`AgreementGoesOn` follows an agreement that nothing disturbs: every validator is in it or sent a start
(`CalledInv`), votes once, and its vote reaches the leader (`VotedInv`), who never has all the results
without having ended the agreement (`CountedInv`), and whose end is announced to whoever is in it (`LedInv`).
That a start is not turned down takes the hypothesis `ProposedNumber = ValidatorsNumber`, which fails in larger
networks (section 5).

*PoolFile.* `LockExcludes` is inductive. The refinement is not: it needs to be known what a
thread that writes has in memory. `SteadyInv` says it for every thread that is *steady*,
for which nothing has changed since it looked: its memory is the file, or the
file with the entry it is adding, or what it is about to write. `FreshInv` says the same of a
process with a current stamp, `CutInv` that a truncated file is that of the one thread that
writes it next, and `RunInv` that one thread of a process runs at a time, so that no greenlet
changes the memory that another relies on. A write by a thread that is not steady sets `overlapped`,
after which nothing is claimed; one by a thread that is steady is a step of `TxPool`.
`LockIsHeld` says that a lock file that is there belongs to a thread that will remove it. It holds even
when several created it, because each of them removes it; a process that dies with it is the only exception.

*StoreFile.* The same, with a lock that does not matter (what matters is done before it is taken).
In a store that only grows, nothing is ever truncated, and `GrowInv` says of every process that
the rows it has in memory are in the file, but for its own. `HolderInv` says that the lock is held by the process
that is inside a reading or a flushed writing, and by no other, so that every way out gives it back.

*Trust.* `OnceAt` says of all the changes that a node has *taken*, those applied, those being applied
and those that wait, that no two are equal unless `again` says so. It is kept because an
equal change that is not old is still in the history that `Check` looks into (`RecentAt`).
`TrustIsHistory` needs to know that a row is applied no more than once: `PlaceInv` follows each
from the plan of the one process that notices the change to one place at its node, and from
the history of that node by one request to one place at each of the others. `HistoryAt` then
compares file, views and history: a view that is not stale is the file, so that a write adds
one row to both sides of the sum. The sum is a fold, of whose recursion a prover makes nothing;
`TotalIsSum` shows, by the well-foundedness of finite sets, that it is a difference of two
cardinalities (`Sum`), to which the theorems on finite sets apply. `SpreadAt` says where a change is
that one node noticed and another does not have. When all is quiet it leaves only changes that
were lost, so that two nodes have applied the same ones, once each (`OnceAt`), and their sums are equal by a
bijection of what is counted (`MatchedTotals`).

*Membership.* `StageInv` says what is known of a node from where its boot stands, and `FailInv` what
must have happened to one that registered and did not join. `KnowInv` follows a registration: each node
that joined knows the new node, or refused to, or is still ahead of the handler in the list
of the genesis node (`Coming`); one that joins later gets the whole list. Until the draw nobody refuses
(`NotDrawnInv`), and at a draw that nothing disturbs all have joined, so that each accepts the list (`DrawnInv`).

Every safety and action property of a passing run is proved, and so are both refinements.
Only model-checked: liveness (`EntryGetsOwnVote`, `EntryIsDecided`, `VerifiedIsCollected`, `AgreementEnds`,
`OperationEnds`, `ChangeArrives`, `BootEnds`), which is under fairness, and fairness speaks of `ENABLED`,
of which the provers know nothing. Of four of them the part that is about one state is proved, that what is
waited for can still come: `NoEntryForgotten` for `EntryIsDecided`, `AgreementIsNotStuck` for `AgreementEnds`,
`LockIsReleased` (twice) for `OperationEnds`, `ChangeSpreads` for `ChangeArrives`. There `CanGoOn`, `Owes` and the like stand for the guards of the actions.
The other three wait for one process only, whose guards leave it a step in every state; nobody else can stop it.

## 5. Where the code and its texts disagree

* `chain_linked`: `create_block` and `add_new_block` both append to one chain after looking
  at its last block much earlier; the chain then has a block whose previous hash does not
  match, against the check at `blockchain.py:428-429`.
* `trust_unlisted`: `test/network/service_test.py:82` changes the trust of a node that has none
  in the file, and expects it changed at line 90; `add_trust_to_node` waits for it to be there
  (`manager.py:251`), and nothing adds it. A node has no trust of the genesis node, which it
  adds from `GET /info` without one (`blockchain.py:71`), until somebody asks it for its nodes.

Observed while modelling, and not checked by a run of their own:

* `assert isinstance(tx_to_verified, TxToVerify)` (`blockchain.py:175`) fails
  when another activation decides the transaction after this one added it to the pool; the
  vote is lost (`dropped` in `TxVoting`).
* `doc/uzgadnienie-walidatorow.txt:1` says that agreements are started once
  in a given time; but the results of the leader are never cleared, and after one success no
  validator may be left that starts another.
* `blockchain.py:572` says "Validator number is not correct" of a list of
  the wrong length; two agreements at once install an empty list (`overlapped` in `Agreement`).
* `blockchain.py:603` says "Vote result is already saved"; `bool(row[1])`
  (`storage.py:443`) turns a saved `False` into `True` when the file is read again (`misread`).
* A proposal has
  `max(2, ceil(0.1 * nodes))` nodes (`work_start_agreement.py:61`) and its receiver wants
  `max(2, int(nodes * VALIDATORS_PART))` (`service.py:209`): with 0.2, the default, they differ
  from 15 nodes on, and every start is refused.
* A node that is started again with two nodes in its file neither registers nor fetches the
  chain (`blockchain.py:65`); a node that is listed and dead makes every later registration fail
  (`blockchain.py:511`).
* The loops under "Wait for all to end" do
  not wait once there is a thread, and never end without one (`blockchain.py:339`).
* `README.md:35` of the repository wants half
  of the new validators to be others than before; nothing looks at that.

## 6. What is not modelled

* **In TxVoting**: a change of the validators during a vote.
* **In Chain**: copying the chain to a node that registers or updates (`Membership` has only
  that it was copied); `block_new`, which no
  route calls; the window between
  refresh and append inside one operation of a manager (`StoreFile` has it).
* **In Agreement**: the order of lists by trust,
  `node_validator_agreement_done` (its request is sent nowhere), the same window.
* **In PoolFile, StoreFile**: the reading of the files when a process starts; a write of more than one
  buffer, which would let a reader see half of the rows.
* **In Trust**: a network of one node, which never leaves the loop at `blockchain.py:339`; the
  amounts, and when a change is made, which are inputs.
* **In Membership**: `node_update` with exclusions (`work_update_nodes_info.py` is not started),
  two nodes at one address.
* **Workers**: `randint` at `work_start_agreement.py:69` may give an index past the end of a list of
  two.
* **Encoding, routes**: data and input-output; a transaction and a block are values.
* **Monitoring, notebooks, plots, simulation tools**: they read the state and draw it. They make up most of the
  repository's lines.

## 7. Plan

Done: every component that keeps state has a module, and the voting, the pool file and the other
stores an abstract specification that they implement. What would add most next:

1. `TxVoting`, `Chain` and `Agreement` composed on shared `validators` and
   `verified`, at a coarser grain (a decision, a block, an installation), with the validators
   changing during a vote.
