--------------------------- MODULE TxVoting_proofs ---------------------------
(***************************************************************************)
(* Proofs about TxVoting, for every set of nodes, validators and           *)
(* transactions, every order of the node lists and every verdict.          *)
(***************************************************************************)
EXTENDS TxVoting, FiniteSetTheorems, TLAPS

-----------------------------------------------------------------------------
(* Type correctness *)

\* A fresh entry is well typed, and adding one keeps the pools so.
LEMMA PoolAddType ==
    ASSUME PoolTypeOK, NEW v \in Validator, NEW t \in Tx, PoolAdd(v, t)
    PROVE  PoolTypeOK'
BY DEF PoolTypeOK, PoolAdd, NoVotes, NoVote, Vote

\* So does popping one.
LEMMA PoolPopType ==
    ASSUME PoolTypeOK, NEW v \in Validator, NEW t \in Tx, PoolPop(v, t)
    PROVE  PoolTypeOK'
BY DEF PoolTypeOK, PoolPop, NoVotes, NoVote, Vote

\* The states between two procedures of a verifier are activations.
LEMMA IdleType ==
    ASSUME NEW v \in Validator
    PROVE  Idle(v) \in Activation /\ Idle(v).pc = "idle"
BY DEF Idle, Activation, Vote, HandlerPc

LEMMA SendingType ==
    ASSUME VoterTypeOK, NEW v \in Validator, act[v].pc # "idle",
           NEW todo \in SUBSET Validator
    PROVE  /\ Sending(v, todo) \in Activation
           /\ Sending(v, todo).pc = "send"
           /\ Sending(v, todo).tx = act[v].tx
BY DEF VoterTypeOK, Sending, Idle, Activation, Vote, HandlerPc

\* A verifier that goes on with a well-typed activation keeps the types.
LEMMA ContinueType ==
    ASSUME VoterTypeOK, NEW v \in Validator, NEW a \in Activation,
           a.pc # "idle" => a.tx \in Tx, Continue(v, a)
    PROVE  VoterTypeOK'
BY DEF VoterTypeOK, Continue

LEMMA GotoType ==
    ASSUME VoterTypeOK, NEW v \in Validator, act[v].pc # "idle",
           NEW pc \in HandlerPc, Goto(v, pc)
    PROVE  VoterTypeOK'
<1>0. act[v] \in Activation
  BY DEF VoterTypeOK
<1>1. [act[v] EXCEPT !.pc = pc] \in Activation
  BY <1>0 DEF Activation
<1>2. [act[v] EXCEPT !.pc = pc].tx \in Tx
  BY DEF VoterTypeOK, Activation
<1>3. QED
  BY <1>1, <1>2, ContinueType DEF Goto

LEMMA ReturnType ==
    ASSUME VoterTypeOK, NEW v \in Validator, act[v].pc # "idle", Return(v)
    PROVE  VoterTypeOK'
<1>1. act[v].todo \in SUBSET Validator /\ act[v].tx \in Tx
  BY DEF VoterTypeOK, Activation
<1>2. QED
  BY <1>1, SendingType, ContinueType DEF Return

LEMMA RaiseType ==
    ASSUME VoterTypeOK, NEW v \in Validator, act[v].pc # "idle", Raise(v)
    PROVE  VoterTypeOK'
<1>1. CASE act[v].proc = "http" /\ Return(v)
  BY <1>1, ReturnType
<1>2. CASE act' = [act EXCEPT ![v] = Idle(v)] /\ dropped' = dropped \cup {act[v].tx}
           /\ UNCHANGED cast
  BY <1>2, IdleType DEF VoterTypeOK
<1>3. CASE act' = [act EXCEPT ![v] = Sending(v, act[v].todo)]
           /\ dropped' = dropped \cup {act[v].tx} /\ UNCHANGED cast
  <2>1. act[v].todo \in SUBSET Validator /\ act[v].tx \in Tx
    BY DEF VoterTypeOK, Activation
  <2>2. QED
    BY <1>3, <2>1, SendingType DEF VoterTypeOK
<1>4. QED
  BY <1>1, <1>2, <1>3 DEF Raise, LoseVote

\* The parts of TypeOK depend on one group of variables each.
LEMMA TypeUnchanged ==
    ASSUME TypeOK
    PROVE  /\ UNCHANGED poolVars => PoolTypeOK'
           /\ UNCHANGED outcomeVars => OutcomeTypeOK'
           /\ UNCHANGED populating => PopulatingTypeOK'
           /\ UNCHANGED voterVars => VoterTypeOK'
<1>1. UNCHANGED poolVars => PoolTypeOK'
  BY DEF TypeOK, PoolTypeOK, poolVars
<1>2. UNCHANGED outcomeVars => OutcomeTypeOK'
  BY DEF TypeOK, OutcomeTypeOK, outcomeVars
<1>3. UNCHANGED populating => PopulatingTypeOK'
  BY DEF TypeOK, PopulatingTypeOK
<1>4. UNCHANGED voterVars => VoterTypeOK'
  BY DEF TypeOK, VoterTypeOK, voterVars
<1>5. QED
  BY <1>1, <1>2, <1>3, <1>4

\* The populating handler of t moves to a well-typed state.
LEMMA PopulatingType ==
    ASSUME PopulatingTypeOK, NEW t \in Tx, NEW pc \in {"send", "insert", "reply", "done"},
           NEW at \in Node, NEW todo \in SUBSET Validator,
           pc = "insert" => at \in Validator, Populating(t, pc, at, todo)
    PROVE  PopulatingTypeOK'
<1>1. populating[t] \in Population
  BY DEF PopulatingTypeOK
<1>2. populating' = [populating EXCEPT ![t] =
                       [populating[t] EXCEPT !.pc = pc, !.at = at, !.todo = todo]]
  BY <1>1 DEF Populating, PopulatingTypeOK
<1>3. [populating[t] EXCEPT !.pc = pc, !.at = at, !.todo = todo] \in Population
  BY <1>1 DEF Population
<1>4. [populating[t] EXCEPT !.pc = pc, !.at = at, !.todo = todo].pc = pc
      /\ [populating[t] EXCEPT !.pc = pc, !.at = at, !.todo = todo].at = at
  BY <1>1 DEF Population
<1>5. QED
  BY <1>2, <1>3, <1>4 DEF PopulatingTypeOK

LEMMA NewType ==
    ASSUME TypeOK, NEW t \in Tx, NEW v \in Validator, TransactionNew(t, v)
    PROVE  TypeOK'
<1>1. PoolTypeOK'
  BY PoolAddType DEF TransactionNew, TypeOK
<1>2. PopulatingTypeOK'
  <2>1. [pc |-> "send", host |-> v, at |-> Sender[t], todo |-> Validator] \in Population
    BY SenderAssumption, ValidatorsAssumption DEF Population
  <2>2. QED
    BY <2>1 DEF TransactionNew, TypeOK, PopulatingTypeOK
<1>3. QED
  BY <1>1, <1>2, TypeUnchanged DEF TransactionNew, TypeOK

LEMMA PopulateStepType ==
    ASSUME TypeOK, NEW t \in Tx, PopulateStep(t)
    PROVE  TypeOK'
<1> USE SenderAssumption, ValidatorsAssumption
<1>0. populating[t].todo \in SUBSET Validator /\ Sender[t] \in Node
  BY DEF TypeOK, PopulatingTypeOK, Population
<1>1. ASSUME NEW w \in Validator, TransactionPopulate(t, w)
      PROVE  TypeOK'
  <2>1. PopulatingTypeOK'
    BY <1>0, <1>1, PopulatingType DEF TransactionPopulate, TypeOK
  <2>2. QED
    BY <1>1, <2>1, TypeUnchanged DEF TransactionPopulate, TypeOK
<1>2. ASSUME NEW w \in Validator, PopulateFails(t, w)
      PROVE  TypeOK'
  <2>1. PopulatingTypeOK'
    BY <1>0, <1>2, PopulatingType DEF PopulateFails, TypeOK
  <2>2. QED
    BY <1>2, <2>1, TypeUnchanged DEF PopulateFails, TypeOK
<1>3. CASE PopulateInsert(t)
  <2>1. PopulatingTypeOK'
    BY <1>0, <1>3, PopulatingType DEF PopulateInsert, TypeOK
  <2>2. PoolTypeOK'
    BY <1>3, PoolAddType DEF PopulateInsert, TypeOK, PopulatingTypeOK
  <2>3. QED
    BY <1>3, <2>1, <2>2, TypeUnchanged DEF PopulateInsert, TypeOK
<1>4. CASE PopulateDone(t)
  <2>1. PopulatingTypeOK'
    BY <1>0, <1>4, PopulatingType DEF PopulateDone, TypeOK
  <2>2. QED
    BY <1>4, <2>1, TypeUnchanged DEF PopulateDone, TypeOK
<1>5. CASE SenderReply(t)
  <2>1. PopulatingTypeOK'
    BY <1>0, <1>5, PopulatingType DEF SenderReply, TypeOK
  <2>2. PoolTypeOK'
    BY <1>5, PoolAddType, TypeUnchanged DEF SenderReply, TypeOK
  <2>3. QED
    BY <1>5, <2>1, <2>2, TypeUnchanged DEF SenderReply, TypeOK
<1>6. CASE ReplyLost(t)
  <2>1. PopulatingTypeOK'
    BY <1>0, <1>6, PopulatingType DEF ReplyLost, TypeOK
  <2>2. QED
    BY <1>6, <2>1, TypeUnchanged DEF ReplyLost, TypeOK
<1>7. QED
  BY <1>1, <1>2, <1>3, <1>4, <1>5, <1>6 DEF PopulateStep


\* The fields of an activation.
LEMMA ActType ==
    ASSUME VoterTypeOK, NEW v \in Validator
    PROVE  /\ act[v] \in Activation
           /\ act[v].at \in Validator
           /\ act[v].todo \in SUBSET Validator
           /\ act[v].ask \in SUBSET Validator
           /\ act[v].vote \in Vote
           /\ act[v].pc # "idle" => act[v].tx \in Tx
BY DEF VoterTypeOK, Activation

\* The updates that the steps of a verifier make to its activation.
LEMMA UpdateType ==
    ASSUME NEW a \in Activation, NEW w \in Validator, NEW b \in BOOLEAN
    PROVE  /\ [a EXCEPT !.pc = "lookup", !.at = w, !.todo = @ \ {w}] \in Activation
           /\ [a EXCEPT !.todo = @ \ {w}] \in Activation
           /\ [a EXCEPT !.ask = @ \ {w}] \in Activation
           /\ [a EXCEPT !.pc = "fetch", !.ask = Validator] \in Activation
           /\ [a EXCEPT !.pc = "add", !.ask = {}] \in Activation
           /\ [a EXCEPT !.pc = "decide", !.positive = b] \in Activation
<1>1. [a EXCEPT !.pc = "lookup", !.at = w, !.todo = @ \ {w}] \in Activation
  BY DEF Activation
<1>2. [a EXCEPT !.todo = @ \ {w}] \in Activation
  BY DEF Activation
<1>3. [a EXCEPT !.ask = @ \ {w}] \in Activation
  BY DEF Activation
<1>4. [a EXCEPT !.pc = "fetch", !.ask = Validator] \in Activation
  BY DEF Activation, HandlerPc
<1>5. [a EXCEPT !.pc = "add", !.ask = {}] \in Activation
  BY DEF Activation, HandlerPc
<1>6. [a EXCEPT !.pc = "decide", !.positive = b] \in Activation
  BY DEF Activation, HandlerPc
<1>7. QED
  BY <1>1, <1>2, <1>3, <1>4, <1>5, <1>6

LEMMA VerifierOnlyType ==
    ASSUME TypeOK, NEW v \in Validator, NEW w \in Validator,
           SendVote(v, w) \/ SendVoteFails(v, w) \/ SendVoteDone(v)
    PROVE  TypeOK'
<1>0. VoterTypeOK
  BY DEF TypeOK
<1> USE ActType, <1>0
<1>1. CASE SendVote(v, w)
  <2>1. [act[v] EXCEPT !.pc = "lookup", !.at = w, !.todo = @ \ {w}] \in Activation
    BY UpdateType
  <2>2. [act[v] EXCEPT !.pc = "lookup", !.at = w, !.todo = @ \ {w}].tx \in Tx
    BY <1>1 DEF Activation, SendVote
  <2>3. VoterTypeOK'
    BY <1>1, <2>1, <2>2, ContinueType DEF SendVote
  <2>4. QED
    BY <1>1, <2>3, TypeUnchanged DEF SendVote, TypeOK
<1>2. CASE SendVoteFails(v, w)
  <2>1. [act[v] EXCEPT !.todo = @ \ {w}] \in Activation
    BY UpdateType
  <2>2. [act[v] EXCEPT !.todo = @ \ {w}].tx \in Tx
    BY <1>2 DEF Activation, SendVoteFails
  <2>3. VoterTypeOK'
    BY <1>2, <2>1, <2>2, ContinueType DEF SendVoteFails
  <2>4. QED
    BY <1>2, <2>3, TypeUnchanged DEF SendVoteFails, TypeOK
<1>3. CASE SendVoteDone(v)
  <2>1. VoterTypeOK'
    BY <1>3, IdleType, ContinueType DEF SendVoteDone
  <2>2. QED
    BY <1>3, <2>1, TypeUnchanged DEF SendVoteDone, TypeOK
<1>4. QED
  BY <1>1, <1>2, <1>3

LEMMA PickType ==
    ASSUME TypeOK, NEW v \in Validator, NEW t \in Tx, NEW r \in Vote, VerifierPick(v, t, r)
    PROVE  TypeOK'
<1>1. [Idle(v) EXCEPT !.pc = "lookup", !.tx = t, !.vote = r, !.todo = Validator]
          \in Activation
  BY DEF Idle, Activation, Vote, HandlerPc
<1>2. [Idle(v) EXCEPT !.pc = "lookup", !.tx = t, !.vote = r, !.todo = Validator].tx = t
  BY DEF Idle
<1>3. VoterTypeOK'
  BY <1>1, <1>2 DEF VerifierPick, TypeOK, VoterTypeOK
<1>4. QED
  BY <1>3, TypeUnchanged DEF VerifierPick, TypeOK

LEMMA HandlerStepType ==
    ASSUME TypeOK, NEW v \in Validator, HandlerStep(v)
    PROVE  TypeOK'
<1>0. VoterTypeOK /\ PoolTypeOK /\ OutcomeTypeOK
  BY DEF TypeOK
<1> USE ActType, <1>0
<1>1. CASE Lookup(v)
  <2>1. [act[v] EXCEPT !.pc = "fetch", !.ask = Validator] \in Activation
    BY UpdateType
  <2>2. [act[v] EXCEPT !.pc = "fetch", !.ask = Validator].tx \in Tx
    BY <1>1 DEF Activation, Lookup
  <2>3. "record" \in HandlerPc
    BY DEF HandlerPc
  <2>4. VoterTypeOK'
    BY <1>1, <2>1, <2>2, <2>3, ContinueType, GotoType, RaiseType DEF Lookup
  <2>5. QED
    BY <1>1, <2>4, TypeUnchanged DEF Lookup, TypeOK
<1>2. ASSUME NEW w \in Validator, TransactionGet(v, w)
      PROVE  TypeOK'
  <2>1. /\ [act[v] EXCEPT !.pc = "add", !.ask = {}] \in Activation
        /\ [act[v] EXCEPT !.ask = @ \ {w}] \in Activation
    BY UpdateType
  <2>2. /\ [act[v] EXCEPT !.pc = "add", !.ask = {}].tx \in Tx
        /\ [act[v] EXCEPT !.ask = @ \ {w}].tx \in Tx
    BY <1>2 DEF Activation, TransactionGet
  <2>3. VoterTypeOK'
    BY <1>2, <2>1, <2>2, ContinueType DEF TransactionGet
  <2>4. QED
    BY <1>2, <2>3, TypeUnchanged DEF TransactionGet, TypeOK
<1>3. ASSUME NEW w \in Validator, TransactionGetFails(v, w)
      PROVE  TypeOK'
  <2>1. [act[v] EXCEPT !.ask = @ \ {w}] \in Activation
    BY UpdateType
  <2>2. [act[v] EXCEPT !.ask = @ \ {w}].tx \in Tx
    BY <1>3 DEF Activation, TransactionGetFails
  <2>3. VoterTypeOK'
    BY <1>3, <2>1, <2>2, ContinueType DEF TransactionGetFails
  <2>4. QED
    BY <1>3, <2>3, TypeUnchanged DEF TransactionGetFails, TypeOK
<1>4. CASE FetchFails(v)
  <2>1. VoterTypeOK'
    BY <1>4, RaiseType DEF FetchFails
  <2>2. QED
    BY <1>4, <2>1, TypeUnchanged DEF FetchFails, TypeOK
<1>5. CASE AddFetched(v)
  <2>1. VoterTypeOK'
    BY <1>5, GotoType DEF AddFetched, HandlerPc
  <2>2. PoolTypeOK'
    BY <1>5, PoolAddType DEF AddFetched
  <2>3. QED
    BY <1>5, <2>1, <2>2, TypeUnchanged DEF AddFetched, TypeOK
<1>6. CASE AssertAdded(v)
  <2>1. VoterTypeOK'
    BY <1>6, GotoType, RaiseType DEF AssertAdded, HandlerPc
  <2>2. QED
    BY <1>6, <2>1, TypeUnchanged DEF AssertAdded, TypeOK
<1>7. CASE RecordVote(v)
  <2>1. VoterTypeOK'
    BY <1>7, GotoType, RaiseType DEF RecordVote, HandlerPc
  <2>2. PoolTypeOK'
    <3>1. \A ballot \in [Validator -> Vote \cup {NoVote}] : \A r \in Vote :
              KeepFirst(ballot, v, r) \in [Validator -> Vote \cup {NoVote}]
      BY DEF KeepFirst
    <3>2. CASE act[v].tx \notin pool[act[v].at] /\ UNCHANGED voting
      BY <1>7, <3>2 DEF RecordVote, PoolTypeOK
    <3>3. CASE voting' = [voting EXCEPT ![act[v].at][act[v].tx] =
                              KeepFirst(@, v, act[v].vote)]
      <4>1. act[v].tx \in Tx
        BY <1>7 DEF RecordVote
      <4>2. voting[act[v].at][act[v].tx] \in [Validator -> Vote \cup {NoVote}]
        BY <4>1 DEF PoolTypeOK
      <4>3. KeepFirst(voting[act[v].at][act[v].tx], v, act[v].vote)
                \in [Validator -> Vote \cup {NoVote}]
        BY <3>1, <4>2
      <4>4. voting' \in [Validator -> [Tx -> [Validator -> Vote \cup {NoVote}]]]
        BY <3>3, <4>1, <4>3 DEF PoolTypeOK
      <4>5. QED
        BY <1>7, <4>4 DEF RecordVote, PoolTypeOK
    <3>4. QED
      BY <1>7, <3>2, <3>3 DEF RecordVote
  <2>3. QED
    BY <1>7, <2>1, <2>2, TypeUnchanged DEF RecordVote, TypeOK
<1>8. CASE CountVotes(v)
  <2>1. VoterTypeOK'
    BY <1>8, GotoType, RaiseType, ReturnType DEF CountVotes, HandlerPc
  <2>2. QED
    BY <1>8, <2>1, TypeUnchanged DEF CountVotes, TypeOK
<1>9. CASE PopEntry(v)
  <2> DEFINE p == IsVotingPositive(voting[act[v].at][act[v].tx])
             a == [act[v] EXCEPT !.pc = "decide", !.positive = p]
  <2>1. p \in BOOLEAN
    BY DEF IsVotingPositive
  <2> HIDE DEF p
  <2>2. a \in Activation /\ (act[v].pc # "idle" => a.tx \in Tx)
    <3>1. a \in Activation
      BY <2>1, UpdateType
    <3>2. a.tx = act[v].tx
      BY DEF Activation
    <3>3. QED
      BY <3>1, <3>2
  <2> HIDE DEF a
  <2>3. Raise(v) \/ Continue(v, a)
    BY <1>9 DEF PopEntry, p, a
  <2>4. act[v].pc # "idle"
    BY <1>9 DEF PopEntry
  <2>5. VoterTypeOK'
    BY <2>2, <2>3, <2>4, RaiseType, ContinueType
  <2>6. PoolTypeOK'
    BY <1>9, <2>4, PoolPopType, TypeUnchanged DEF PopEntry
  <2>7. QED
    BY <1>9, <2>5, <2>6, TypeUnchanged DEF PopEntry, TypeOK
<1>10. CASE Decide(v)
  <2>1. VoterTypeOK'
    BY <1>10, GotoType DEF Decide, HandlerPc
  <2>2. OutcomeTypeOK'
    BY <1>10, ValidatorsAssumption DEF Decide, OutcomeTypeOK
  <2>3. QED
    BY <1>10, <2>1, <2>2, TypeUnchanged DEF Decide, TypeOK
<1>11. CASE Cleanup(v)
  <2>1. VoterTypeOK'
    BY <1>11, GotoType, ReturnType DEF Cleanup, HandlerPc
  <2>2. PoolTypeOK'
    BY <1>11, PoolPopType, TypeUnchanged DEF Cleanup
  <2>3. QED
    BY <1>11, <2>1, <2>2, TypeUnchanged DEF Cleanup, TypeOK
<1>12. CASE TrustChanged(v)
  <2>1. VoterTypeOK'
    BY <1>12, GotoType, ReturnType DEF TrustChanged, HandlerPc
  <2>2. QED
    BY <1>12, <2>1, TypeUnchanged DEF TrustChanged, TypeOK
<1>13. QED
  BY <1>1, <1>2, <1>3, <1>4, <1>5, <1>6, <1>7, <1>8, <1>9, <1>10, <1>11, <1>12 DEF HandlerStep

LEMMA BroadcastType ==
    ASSUME TypeOK, NEW n \in Node, NEW t \in Tx,
           TransactionVerifiedNew(n, t) \/ BroadcastLost(n, t)
    PROVE  TypeOK'
<1>1. OutcomeTypeOK'
  BY DEF TransactionVerifiedNew, BroadcastLost, TypeOK, OutcomeTypeOK
<1>2. QED
  BY <1>1, TypeUnchanged DEF TransactionVerifiedNew, BroadcastLost, TypeOK

-----------------------------------------------------------------------------
(* The inductive invariant behind Agreement *)

\* An entry in a pool has been put there, and votes are kept only with an entry.
PoolInv ==
    /\ \A v \in Validator : pool[v] \subseteq held[v]
    /\ \A v \in Validator, t \in Tx : t \notin pool[v] => voting[v][t] = NoVotes

\* Where the procedure runs: at v itself in the process of the verifier, and past
\* the pool's add only at a node that was given the transaction.
RunInv ==
    \A v \in Validator :
        /\ act[v].proc = "verifier" => act[v].at = v
        /\ act[v].pc = "send" => act[v].proc = "http"
        /\ act[v].pc \in {"assert", "record", "count", "pop", "decide", "trust", "cleanup"}
               => act[v].tx \in held[act[v].at]

\* The verifier of v has not yet recorded its verdict on t in its own pool.
Unrecorded(v, t) ==
    act[v].tx = t /\ act[v].proc = "verifier" /\ act[v].pc \in {"lookup", "record"}

\* A verifier reaches one verdict on t: it has put t in its pool before the first,
\* and then lacks its own vote only while it is about to record it.
CastInv ==
    \A v \in Validator, t \in Tx : cast[v][t] # {} =>
        /\ t \in held[v]
        /\ t \notin readded =>
               /\ \A r, q \in cast[v][t] : r = q
               /\ t \in pool[v] /\ voting[v][t][v] = NoVote => Unrecorded(v, t)

\* Every validator has reached a verdict.
Closed(t) == \A v \in Validator : cast[v][t] # {}

\* What is about to be popped has all the votes; what was popped had the verdicts
\* of all the validators, and so has every decision.
PopInv ==
    \A v \in Validator : LET n == act[v].at
                             t == act[v].tx
                         IN act[v].pc = "pop" /\ t \notin readded /\ t \in pool[n]
                                => IsFull(voting[n][t])

DecideInv ==
    \A v \in Validator : act[v].pc = "decide" /\ act[v].tx \notin readded
        => Closed(act[v].tx) /\ (act[v].positive <=> Majority(act[v].tx))

OutcomeInv ==
    \A t \in Tx \ readded :
        /\ \A n \in Node : t \in verified[n] \/ <<n, t>> \in broadcast
               => Closed(t) /\ Majority(t)
        /\ \A n \in Validator : t \in rejected[n] => Closed(t) /\ ~Majority(t)

VoteInv == TypeOK /\ VotesAreCast /\ PoolInv /\ RunInv
IInv == VoteInv /\ CastInv /\ PopInv /\ DecideInv /\ OutcomeInv
-----------------------------------------------------------------------------
(* What a step does to the pools, and to one verifier *)

Late == {"assert", "record", "count", "pop", "decide", "trust", "cleanup"}

\* The vote of the procedure of v is recorded where it runs.
Records(v) ==
    /\ act[v].pc = "record"
    /\ act[v].tx \in pool[act[v].at]
    /\ voting' = [voting EXCEPT ![act[v].at][act[v].tx] = KeepFirst(@, v, act[v].vote)]
    /\ UNCHANGED <<pool, held, readded>>

PoolMove ==
    \/ UNCHANGED poolVars
    \/ \E n \in Validator, t \in Tx : PoolAdd(n, t)
    \/ \E n \in Validator, t \in Tx : PoolPop(n, t)
    \/ \E v \in Validator : Records(v)

\* A step of the verifier of v, or of the handler that answers it, other than the
\* choice of a transaction.
VoterMove(v) ==
    /\ \A u \in Validator \ {v} : act'[u] = act[u]
    /\ cast' = cast
    /\ act'[v].pc # "idle" =>
           act[v].pc # "idle" /\ act'[v].tx = act[v].tx /\ act'[v].vote = act[v].vote
    /\ act'[v].proc = "verifier" =>
           act'[v].at = v /\ (act'[v].pc # "idle" => act[v].proc = "verifier")
    /\ act'[v].pc = "send" => act'[v].proc = "http"
    /\ act'[v].pc \in Late => act'[v].tx \in held'[act'[v].at]
    /\ \A t \in Tx : Unrecorded(v, t) =>
           Unrecorded(v, t)' \/ t \notin pool'[v] \/ voting'[v][t][v] # NoVote
    /\ act'[v].pc = "pop" =>
           UNCHANGED poolVars /\ IsFull(voting[act'[v].at][act'[v].tx])
    /\ act'[v].pc = "decide" => PopEntry(v) /\ act[v].tx \in pool[act[v].at]

\* What changes in act when the procedure goes on, returns or raises.
LEMMA GotoEffect ==
    ASSUME VoterTypeOK, NEW v \in Validator, NEW pc \in HandlerPc, Goto(v, pc)
    PROVE  /\ \A u \in Validator \ {v} : act'[u] = act[u]
           /\ act'[v].pc = pc /\ act'[v].proc = act[v].proc /\ act'[v].at = act[v].at
           /\ act'[v].tx = act[v].tx /\ act'[v].vote = act[v].vote
           /\ act'[v].positive = act[v].positive
           /\ cast' = cast
<1>1. act[v] \in Activation
  BY ActType
<1>2. /\ [act[v] EXCEPT !.pc = pc].pc = pc
      /\ [act[v] EXCEPT !.pc = pc].proc = act[v].proc
      /\ [act[v] EXCEPT !.pc = pc].at = act[v].at
      /\ [act[v] EXCEPT !.pc = pc].tx = act[v].tx
      /\ [act[v] EXCEPT !.pc = pc].vote = act[v].vote
      /\ [act[v] EXCEPT !.pc = pc].positive = act[v].positive
  BY <1>1 DEF Activation
<1>3. act' = [act EXCEPT ![v] = [act[v] EXCEPT !.pc = pc]] /\ cast' = cast
  BY DEF Goto, Continue
<1>4. QED
  BY <1>2, <1>3 DEF VoterTypeOK

LEMMA SendingEffect ==
    ASSUME VoterTypeOK, NEW v \in Validator,
           act' = [act EXCEPT ![v] = Sending(v, act[v].todo)]
    PROVE  /\ \A u \in Validator \ {v} : act'[u] = act[u]
           /\ act'[v].pc = "send" /\ act'[v].proc = "http"
           /\ act'[v].tx = act[v].tx /\ act'[v].vote = act[v].vote
<1>1. LET s == Sending(v, act[v].todo)
      IN s.pc = "send" /\ s.proc = "http" /\ s.tx = act[v].tx /\ s.vote = act[v].vote
  BY DEF Sending, Idle
<1>2. QED
  BY <1>1 DEF VoterTypeOK

LEMMA ReturnEffect ==
    ASSUME VoterTypeOK, NEW v \in Validator, Return(v)
    PROVE  /\ \A u \in Validator \ {v} : act'[u] = act[u]
           /\ act'[v].pc = "send" /\ act'[v].proc = "http"
           /\ act'[v].tx = act[v].tx /\ act'[v].vote = act[v].vote
           /\ cast' = cast
BY SendingEffect DEF Return, Continue

\* The verifier of v is idle.
LEMMA IdleEffect ==
    ASSUME VoterTypeOK, NEW v \in Validator, act' = [act EXCEPT ![v] = Idle(v)]
    PROVE  /\ \A u \in Validator \ {v} : act'[u] = act[u]
           /\ act'[v].pc = "idle" /\ act'[v].proc = "verifier" /\ act'[v].at = v
BY DEF VoterTypeOK, Idle

LEMMA RaiseEffect ==
    ASSUME VoterTypeOK, NEW v \in Validator, Raise(v)
    PROVE  /\ \A u \in Validator \ {v} : act'[u] = act[u]
           /\ \/ act'[v].pc = "idle" /\ act'[v].proc = "verifier" /\ act'[v].at = v
              \/ /\ act'[v].pc = "send" /\ act'[v].proc = "http"
                 /\ act'[v].tx = act[v].tx /\ act'[v].vote = act[v].vote
           /\ cast' = cast
BY IdleEffect, SendingEffect, ReturnEffect DEF Raise, LoseVote

\* A procedure that ends, at a node that no longer holds the entry or that has
\* its own vote, is a VoterMove.
LEMMA EndIsMove ==
    ASSUME VoteInv, NEW v \in Validator, act[v].pc # "idle",
           Return(v) \/ Raise(v),
           Unrecorded(v, act[v].tx) => act[v].tx \notin pool'[v]
    PROVE  VoterMove(v)
<1>1. VoterTypeOK
  BY DEF VoteInv, TypeOK
<1>2. /\ \A u \in Validator \ {v} : act'[u] = act[u]
      /\ \/ act'[v].pc = "idle" /\ act'[v].proc = "verifier" /\ act'[v].at = v
         \/ /\ act'[v].pc = "send" /\ act'[v].proc = "http"
            /\ act'[v].tx = act[v].tx /\ act'[v].vote = act[v].vote
      /\ cast' = cast
  BY <1>1, RaiseEffect, ReturnEffect
<1>3. \A t \in Tx : Unrecorded(v, t) => t \notin pool'[v]
  BY DEF Unrecorded
<1>4. QED
  BY <1>2, <1>3 DEF VoterMove, Late

\* A procedure that goes on, and loses neither the entry nor its place.
LEMMA GotoIsMove ==
    ASSUME VoteInv, NEW v \in Validator, act[v].pc # "idle",
           NEW pc \in HandlerPc \ {"pop", "decide"}, Goto(v, pc),
           pc \in Late => act[v].tx \in held'[act[v].at],
           Unrecorded(v, act[v].tx) =>
               \/ pc = "record"
               \/ act[v].tx \notin pool'[v]
               \/ voting'[v][act[v].tx][v] # NoVote
    PROVE  VoterMove(v)
<1>1. VoterTypeOK
  BY DEF VoteInv, TypeOK
<1>2. /\ \A u \in Validator \ {v} : act'[u] = act[u]
      /\ act'[v].pc = pc /\ act'[v].proc = act[v].proc /\ act'[v].at = act[v].at
      /\ act'[v].tx = act[v].tx /\ act'[v].vote = act[v].vote
      /\ cast' = cast
  BY <1>1, GotoEffect
<1>3. \A t \in Tx : Unrecorded(v, t) =>
          Unrecorded(v, t)' \/ t \notin pool'[v] \/ voting'[v][t][v] # NoVote
  BY <1>2 DEF Unrecorded
<1>4. pc # "send" /\ pc # "idle" /\ pc # "pop" /\ pc # "decide"
  BY DEF HandlerPc
<1>5. act[v].proc = "verifier" => act[v].at = v
  BY DEF VoteInv, RunInv
<1>6. QED
  BY <1>2, <1>3, <1>4, <1>5 DEF VoterMove

LEMMA SendIsMove ==
    ASSUME VoteInv, NEW v \in Validator, NEW w \in Validator,
           SendVote(v, w) \/ SendVoteFails(v, w) \/ SendVoteDone(v)
    PROVE  VoterMove(v)
<1>1. VoterTypeOK
  BY DEF VoteInv, TypeOK
<1>2. act[v] \in Activation /\ act[v].pc = "send" /\ act[v].proc = "http"
  BY <1>1, ActType DEF SendVote, SendVoteFails, SendVoteDone, VoteInv, RunInv
<1>3. \A t \in Tx : ~Unrecorded(v, t)
  BY <1>2 DEF Unrecorded
<1>4. CASE SendVote(v, w)
  <2> DEFINE a == [act[v] EXCEPT !.pc = "lookup", !.at = w, !.todo = @ \ {w}]
  <2>1. a.pc = "lookup" /\ a.proc = "http" /\ a.tx = act[v].tx /\ a.vote = act[v].vote
    BY <1>2 DEF Activation
  <2>2. act' = [act EXCEPT ![v] = a] /\ cast' = cast
    BY <1>4 DEF SendVote, Continue
  <2> HIDE DEF a
  <2>3. act'[v] = a /\ \A u \in Validator \ {v} : act'[u] = act[u]
    BY <1>1, <2>2 DEF VoterTypeOK
  <2>4. QED
    BY <1>2, <1>3, <2>1, <2>2, <2>3 DEF VoterMove, Late
<1>5. CASE SendVoteFails(v, w)
  <2> DEFINE a == [act[v] EXCEPT !.todo = @ \ {w}]
  <2>1. a.pc = "send" /\ a.proc = "http" /\ a.tx = act[v].tx /\ a.vote = act[v].vote
    BY <1>2 DEF Activation
  <2>2. act' = [act EXCEPT ![v] = a] /\ cast' = cast
    BY <1>5 DEF SendVoteFails, Continue
  <2> HIDE DEF a
  <2>3. act'[v] = a /\ \A u \in Validator \ {v} : act'[u] = act[u]
    BY <1>1, <2>2 DEF VoterTypeOK
  <2>4. QED
    BY <1>2, <1>3, <2>1, <2>2, <2>3 DEF VoterMove, Late
<1>6. CASE SendVoteDone(v)
  <2>1. act' = [act EXCEPT ![v] = Idle(v)] /\ cast' = cast
    BY <1>6 DEF SendVoteDone, Continue
  <2>2. QED
    BY <1>1, <1>2, <1>3, <2>1, IdleEffect DEF VoterMove, Late
<1>7. QED
  BY <1>4, <1>5, <1>6

LEMMA HandlerIsMove ==
    ASSUME VoteInv, NEW v \in Validator, HandlerStep(v)
    PROVE  VoterMove(v)
<1>1. VoterTypeOK /\ PoolTypeOK
  BY DEF VoteInv, TypeOK
<1>2. act[v] \in Activation /\ act[v].at \in Validator
  BY <1>1, ActType
<1>3. act[v].pc # "idle" => act[v].tx \in Tx
  BY <1>1, ActType
<1>4. pool[act[v].at] \subseteq held[act[v].at]
  BY <1>2 DEF VoteInv, PoolInv
<1>5. act[v].proc = "verifier" => act[v].at = v
  BY DEF VoteInv, RunInv
<1>6. CASE Lookup(v)
  <2>1. act[v].pc = "lookup" /\ UNCHANGED poolVars
    BY <1>6 DEF Lookup
  <2>2. CASE act[v].tx \in pool[act[v].at] /\ Goto(v, "record")
    BY <1>4, <2>1, <2>2, GotoIsMove DEF HandlerPc, poolVars
  <2>3. CASE act[v].tx \notin pool[act[v].at] /\ Raise(v)
    BY <1>5, <2>1, <2>3, EndIsMove DEF Unrecorded, poolVars
  <2>4. CASE /\ act[v].tx \notin pool[act[v].at]
             /\ Continue(v, [act[v] EXCEPT !.pc = "fetch", !.ask = Validator])
    <3> DEFINE a == [act[v] EXCEPT !.pc = "fetch", !.ask = Validator]
    <3>1. /\ a.pc = "fetch" /\ a.proc = act[v].proc /\ a.at = act[v].at
          /\ a.tx = act[v].tx /\ a.vote = act[v].vote
      BY <1>2 DEF Activation
    <3>2. act' = [act EXCEPT ![v] = a] /\ cast' = cast
      BY <2>4 DEF Continue
    <3> HIDE DEF a
    <3>3. act'[v] = a /\ \A u \in Validator \ {v} : act'[u] = act[u]
      BY <1>1, <3>2 DEF VoterTypeOK
    <3>4. \A t \in Tx : Unrecorded(v, t) => t \notin pool'[v]
      BY <1>5, <2>1, <2>4 DEF Unrecorded, poolVars
    <3>5. QED
      BY <1>5, <2>1, <3>1, <3>2, <3>3, <3>4 DEF VoterMove, Late
  <2>5. QED
    BY <1>6, <2>2, <2>3, <2>4 DEF Lookup
<1>7. ASSUME NEW w \in Validator, TransactionGet(v, w) \/ TransactionGetFails(v, w)
      PROVE  VoterMove(v)
  <2>1. PICK a : /\ act' = [act EXCEPT ![v] = a] /\ cast' = cast
                 /\ a.pc \in {"add", "fetch"} /\ a.proc = act[v].proc /\ a.at = act[v].at
                 /\ a.tx = act[v].tx /\ a.vote = act[v].vote
    <3> DEFINE a1 == [act[v] EXCEPT !.pc = "add", !.ask = {}]
               a2 == [act[v] EXCEPT !.ask = @ \ {w}]
    <3>1. /\ a1.pc = "add" /\ a1.proc = act[v].proc /\ a1.at = act[v].at
          /\ a1.tx = act[v].tx /\ a1.vote = act[v].vote
      BY <1>2 DEF Activation
    <3>2. /\ a2.pc = act[v].pc /\ a2.proc = act[v].proc /\ a2.at = act[v].at
          /\ a2.tx = act[v].tx /\ a2.vote = act[v].vote
      BY <1>2 DEF Activation
    <3>3. Continue(v, a1) \/ Continue(v, a2)
      BY <1>7 DEF TransactionGet, TransactionGetFails
    <3>4. act[v].pc = "fetch"
      BY <1>7 DEF TransactionGet, TransactionGetFails
    <3> HIDE DEF a1, a2
    <3>5. QED
      BY <3>1, <3>2, <3>3, <3>4 DEF Continue
  <2>2. act'[v] = a /\ \A u \in Validator \ {v} : act'[u] = act[u]
    BY <1>1, <2>1 DEF VoterTypeOK
  <2>3. act[v].pc = "fetch"
    BY <1>7 DEF TransactionGet, TransactionGetFails
  <2>4. \A t \in Tx : ~Unrecorded(v, t)
    BY <2>3 DEF Unrecorded
  <2>5. QED
    BY <1>5, <2>1, <2>2, <2>3, <2>4 DEF VoterMove, Late
<1>8. CASE FetchFails(v)
  BY <1>8, EndIsMove DEF FetchFails, Unrecorded
<1>9. CASE AddFetched(v)
  <2>1. act[v].pc = "add" /\ act[v].tx \in held'[act[v].at]
    BY <1>1, <1>2, <1>9 DEF AddFetched, PoolAdd, PoolTypeOK
  <2>2. QED
    BY <1>9, <2>1, GotoIsMove DEF AddFetched, HandlerPc, Unrecorded
<1>10. CASE AssertAdded(v)
  <2>1. act[v].pc = "assert" /\ held' = held
    BY <1>10 DEF AssertAdded, poolVars
  <2>2. act[v].tx \in held[act[v].at]
    BY <2>1 DEF VoteInv, RunInv
  <2>3. QED
    BY <1>10, <2>1, <2>2, GotoIsMove, EndIsMove DEF AssertAdded, HandlerPc, Unrecorded
<1>11. CASE RecordVote(v)
  <2>1. act[v].pc = "record" /\ held' = held /\ pool' = pool
    BY <1>11 DEF RecordVote
  <2>2. CASE act[v].tx \notin pool[act[v].at] /\ Raise(v)
    BY <1>5, <2>1, <2>2, EndIsMove DEF Unrecorded
  <2>3. CASE /\ act[v].tx \in pool[act[v].at]
             /\ voting' = [voting EXCEPT ![act[v].at][act[v].tx] =
                               KeepFirst(@, v, act[v].vote)]
             /\ Goto(v, "count")
    <3>1. act[v].vote \in Vote
      BY <1>1, ActType
    <3>2. \A ballot \in [Validator -> Vote \cup {NoVote}] :
              KeepFirst(ballot, v, act[v].vote)[v] # NoVote
      BY <3>1 DEF KeepFirst, Vote, NoVote
    <3>3. voting'[act[v].at][act[v].tx][v] # NoVote
      BY <1>1, <1>2, <1>3, <2>1, <2>3, <3>2 DEF PoolTypeOK
    <3>4. QED
      BY <1>4, <1>5, <2>1, <2>3, <3>3, GotoIsMove DEF HandlerPc, Unrecorded
  <2>4. QED
    BY <1>11, <2>2, <2>3 DEF RecordVote
<1>12. CASE CountVotes(v)
  <2>1. act[v].pc = "count" /\ UNCHANGED poolVars
    BY <1>12 DEF CountVotes
  <2>2. CASE Raise(v) \/ Return(v)
    BY <2>1, <2>2, EndIsMove DEF Unrecorded
  <2>3. CASE /\ act[v].tx \in pool[act[v].at]
             /\ IsFull(voting[act[v].at][act[v].tx]) /\ Goto(v, "pop")
    <3>1. /\ \A u \in Validator \ {v} : act'[u] = act[u]
          /\ act'[v].pc = "pop" /\ act'[v].proc = act[v].proc /\ act'[v].at = act[v].at
          /\ act'[v].tx = act[v].tx /\ act'[v].vote = act[v].vote
          /\ cast' = cast
      BY <1>1, <2>3, GotoEffect DEF HandlerPc
    <3>2. \A t \in Tx : ~Unrecorded(v, t)
      BY <2>1 DEF Unrecorded
    <3>3. act[v].tx \in held'[act[v].at]
      BY <1>4, <2>1, <2>3 DEF poolVars
    <3>4. QED
      BY <1>5, <2>1, <2>3, <3>1, <3>2, <3>3 DEF VoterMove
  <2>4. QED
    BY <1>12, <2>2, <2>3 DEF CountVotes
<1>13. CASE PopEntry(v)
  <2>1. act[v].pc = "pop"
    BY <1>13 DEF PopEntry
  <2>2. CASE Raise(v)
    BY <2>1, <2>2, EndIsMove DEF Unrecorded
  <2>3. CASE act[v].tx \in pool[act[v].at] /\ ~Raise(v)
    <3> DEFINE p == IsVotingPositive(voting[act[v].at][act[v].tx])
               a == [act[v] EXCEPT !.pc = "decide", !.positive = p]
    <3>1. /\ a.pc = "decide" /\ a.proc = act[v].proc /\ a.at = act[v].at
          /\ a.tx = act[v].tx /\ a.vote = act[v].vote
      BY <1>2 DEF Activation
    <3>2. act' = [act EXCEPT ![v] = a] /\ cast' = cast /\ held' = held
      BY <1>13, <2>3 DEF PopEntry, Continue, PoolPop
    <3> HIDE DEF a, p
    <3>3. act'[v] = a /\ \A u \in Validator \ {v} : act'[u] = act[u]
      BY <1>1, <3>2 DEF VoterTypeOK
    <3>4. \A t \in Tx : ~Unrecorded(v, t)
      BY <2>1 DEF Unrecorded
    <3>5. act[v].tx \in held'[act[v].at]
      BY <1>4, <2>3, <3>2
    <3>6. QED
      BY <1>5, <1>13, <2>1, <2>3, <3>1, <3>2, <3>3, <3>4, <3>5 DEF VoterMove
  <2>4. QED
    BY <1>13, <2>2, <2>3 DEF PopEntry
<1>14. CASE Decide(v)
  <2>1. act[v].pc = "decide" /\ held' = held
    BY <1>14 DEF Decide, poolVars
  <2>2. act[v].tx \in held[act[v].at]
    BY <2>1 DEF VoteInv, RunInv
  <2>3. QED
    BY <1>14, <2>1, <2>2, GotoIsMove DEF Decide, HandlerPc, Unrecorded
<1>15. CASE Cleanup(v)
  <2>1. act[v].pc = "cleanup" /\ held' = held
    BY <1>15 DEF Cleanup, PoolPop, poolVars
  <2>2. act[v].tx \in held[act[v].at]
    BY <2>1 DEF VoteInv, RunInv
  <2>3. QED
    BY <1>15, <2>1, <2>2, EndIsMove, GotoIsMove DEF Cleanup, HandlerPc, Unrecorded
<1>16. CASE TrustChanged(v)
  <2>1. act[v].pc = "trust" /\ held' = held
    BY <1>16 DEF TrustChanged, poolVars
  <2>2. act[v].tx \in held[act[v].at]
    BY <2>1 DEF VoteInv, RunInv
  <2>3. QED
    BY <1>16, <2>1, <2>2, EndIsMove, GotoIsMove DEF TrustChanged, HandlerPc, Unrecorded
<1>17. QED
  BY <1>6, <1>7, <1>8, <1>9, <1>10, <1>11, <1>12, <1>13, <1>14, <1>15, <1>16 DEF HandlerStep

\* A step of the model as one of the pools, and one of at most one verifier.
Picks(v, t, r) == VerifierPick(v, t, r)
VoterMoves ==
    \/ UNCHANGED <<act, cast>>
    \/ \E v \in Validator, t \in Tx, r \in Vote : Picks(v, t, r)
    \/ \E v \in Validator : VoterMove(v)

LEMMA NextIsMove ==
    ASSUME VoteInv, Next
    PROVE  PoolMove /\ VoterMoves
<1>0. TypeOK /\ VoterTypeOK /\ PopulatingTypeOK
  BY DEF VoteInv, TypeOK
<1>1. ASSUME NEW t \in Tx, NEW v \in Validator, TransactionNew(t, v)
      PROVE  PoolMove /\ VoterMoves
  BY <1>1 DEF TransactionNew, PoolMove, VoterMoves, voterVars
<1>2. ASSUME NEW t \in Tx, PopulateStep(t)
      PROVE  PoolMove /\ VoterMoves
  <2>1. VoterMoves
    BY <1>2 DEF PopulateStep, TransactionPopulate, PopulateFails, PopulateInsert,
                PopulateDone, SenderReply, ReplyLost, VoterMoves, voterVars
  <2>2. populating[t].pc = "insert" => populating[t].at \in Validator
    BY <1>0 DEF PopulatingTypeOK
  <2>3. PoolMove
    BY <1>2, <2>2 DEF PopulateStep, TransactionPopulate, PopulateFails, PopulateInsert,
                      PopulateDone, SenderReply, ReplyLost, PoolMove
  <2>4. QED
    BY <2>1, <2>3
<1>3. ASSUME NEW v \in Validator, NEW t \in Tx, NEW r \in Vote, VerifierPick(v, t, r)
      PROVE  PoolMove /\ VoterMoves
  BY <1>3 DEF VerifierPick, PoolMove, VoterMoves, Picks
<1>4. ASSUME NEW v \in Validator, NEW w \in Validator,
             SendVote(v, w) \/ SendVoteFails(v, w) \/ SendVoteDone(v)
      PROVE  PoolMove /\ VoterMoves
  <2>1. PoolMove
    BY <1>4 DEF SendVote, SendVoteFails, SendVoteDone, PoolMove
  <2>2. QED
    BY <1>4, <2>1, SendIsMove DEF VoterMoves
<1>5. ASSUME NEW v \in Validator, HandlerStep(v)
      PROVE  PoolMove /\ VoterMoves
  <2>1. act[v].at \in Validator /\ (act[v].pc # "idle" => act[v].tx \in Tx)
    BY <1>0, ActType
  <2>2. PoolMove
    <3>1. CASE RecordVote(v)
      <4>1. UNCHANGED poolVars \/ Records(v)
        BY <3>1 DEF RecordVote, Records, poolVars
      <4>2. QED
        BY <4>1 DEF PoolMove
    <3>2. CASE PopEntry(v) \/ Cleanup(v)
      BY <2>1, <3>2 DEF PopEntry, Cleanup, PoolMove
    <3>3. CASE AddFetched(v)
      BY <2>1, <3>3 DEF AddFetched, PoolMove
    <3>4. CASE ~RecordVote(v) /\ ~PopEntry(v) /\ ~Cleanup(v) /\ ~AddFetched(v)
      BY <1>5, <3>4 DEF HandlerStep, Lookup, TransactionGet, TransactionGetFails,
                        FetchFails, AssertAdded, CountVotes, Decide, TrustChanged,
                        PoolMove
    <3>5. QED
      BY <3>1, <3>2, <3>3, <3>4
  <2>3. QED
    BY <1>5, <2>2, HandlerIsMove DEF VoterMoves
<1>6. ASSUME NEW n \in Node, NEW t \in Tx,
             TransactionVerifiedNew(n, t) \/ BroadcastLost(n, t)
      PROVE  PoolMove /\ VoterMoves
  BY <1>6 DEF TransactionVerifiedNew, BroadcastLost, PoolMove, VoterMoves, voterVars
<1>7. ASSUME NEW v \in Validator, VerifierStep(v)
      PROVE  PoolMove /\ VoterMoves
  BY <1>3, <1>4, <1>5, <1>7 DEF VerifierStep
<1>8. QED
  BY <1>1, <1>2, <1>6, <1>7 DEF Next

\* The histories only grow.
LEMMA HistoryGrows ==
    ASSUME VoteInv, Next
    PROVE  /\ \A v \in Validator : held[v] \subseteq held'[v]
           /\ readded \subseteq readded'
           /\ \A v \in Validator, t \in Tx : cast[v][t] \subseteq cast'[v][t]
<1>1. PoolTypeOK /\ VoterTypeOK
  BY DEF VoteInv, TypeOK
<1>2. PoolMove /\ VoterMoves
  BY NextIsMove
<1>3. (\A v \in Validator : held[v] \subseteq held'[v]) /\ readded \subseteq readded'
  BY ZenonT(40), <1>1, <1>2 DEF PoolMove, PoolAdd, PoolPop, Records, PoolTypeOK, poolVars
<1>4. \A v \in Validator, t \in Tx : cast[v][t] \subseteq cast'[v][t]
  <2>1. CASE cast' = cast
    BY <2>1
  <2>2. ASSUME NEW u \in Validator, NEW x \in Tx, NEW r \in Vote, Picks(u, x, r)
        PROVE  \A v \in Validator, t \in Tx : cast[v][t] \subseteq cast'[v][t]
    BY <1>1, <2>2 DEF Picks, VerifierPick, VoterTypeOK
  <2>3. QED
    BY <1>2, <2>1, <2>2 DEF VoterMoves, VoterMove
<1>5. QED
  BY <1>3, <1>4

\* What one entry can become.
LEMMA EntryMove ==
    ASSUME VoteInv, PoolMove, NEW n \in Validator, NEW t \in Tx
    PROVE  \/ /\ t \in pool'[n] <=> t \in pool[n]
              /\ voting'[n][t] = voting[n][t]
           \/ /\ voting'[n][t] = NoVotes
              /\ t \in pool'[n] /\ t \in held'[n] /\ (t \in held[n] => t \in readded')
           \/ t \notin pool'[n] /\ voting'[n][t] = NoVotes
           \/ /\ t \in pool[n] /\ t \in pool'[n]
              /\ \E v \in Validator :
                    /\ act[v].tx = t /\ act[v].pc = "record"
                    /\ voting'[n][t] = KeepFirst(voting[n][t], v, act[v].vote)
<1>1. PoolTypeOK /\ VoterTypeOK
  BY DEF VoteInv, TypeOK
<1>2. CASE UNCHANGED poolVars
  BY <1>2 DEF poolVars
<1>3. ASSUME NEW m \in Validator, NEW x \in Tx, PoolAdd(m, x)
      PROVE  \/ /\ t \in pool'[n] <=> t \in pool[n]
                /\ voting'[n][t] = voting[n][t]
             \/ /\ voting'[n][t] = NoVotes
                /\ t \in pool'[n] /\ t \in held'[n] /\ (t \in held[n] => t \in readded')
  <2>1. CASE m = n /\ x = t
    BY <1>1, <1>3, <2>1 DEF PoolAdd, PoolTypeOK
  <2>2. CASE ~(m = n /\ x = t)
    BY <1>1, <1>3, <2>2 DEF PoolAdd, PoolTypeOK
  <2>3. QED
    BY <2>1, <2>2
<1>4. ASSUME NEW m \in Validator, NEW x \in Tx, PoolPop(m, x)
      PROVE  \/ /\ t \in pool'[n] <=> t \in pool[n]
                /\ voting'[n][t] = voting[n][t]
             \/ t \notin pool'[n] /\ voting'[n][t] = NoVotes
  <2>1. CASE m = n /\ x = t
    BY <1>1, <1>4, <2>1 DEF PoolPop, PoolTypeOK
  <2>2. CASE ~(m = n /\ x = t)
    BY <1>1, <1>4, <2>2 DEF PoolPop, PoolTypeOK
  <2>3. QED
    BY <2>1, <2>2
<1>5. ASSUME NEW v \in Validator, Records(v)
      PROVE  \/ /\ t \in pool'[n] <=> t \in pool[n]
                /\ voting'[n][t] = voting[n][t]
             \/ /\ t \in pool[n] /\ t \in pool'[n]
                /\ act[v].tx = t /\ act[v].pc = "record"
                /\ voting'[n][t] = KeepFirst(voting[n][t], v, act[v].vote)
  <2>1. act[v].at \in Validator /\ act[v].tx \in Tx
    BY <1>1, <1>5, ActType DEF Records
  <2>2. CASE act[v].at = n /\ act[v].tx = t
    BY <1>1, <1>5, <2>2 DEF Records, PoolTypeOK
  <2>3. CASE ~(act[v].at = n /\ act[v].tx = t)
    BY <1>1, <1>5, <2>1, <2>3 DEF Records, PoolTypeOK
  <2>4. QED
    BY <2>2, <2>3
<1>6. QED
  BY <1>2, <1>3, <1>4, <1>5 DEF PoolMove
-----------------------------------------------------------------------------
(* Each part of the invariant is kept *)

LEMMA TypeKept ==
    ASSUME TypeOK, [Next]_vars
    PROVE  TypeOK'
<1>1. CASE UNCHANGED vars
  BY <1>1, TypeUnchanged DEF vars, poolVars, outcomeVars, voterVars, TypeOK
<1>2. ASSUME NEW t \in Tx, NEW v \in Validator, TransactionNew(t, v)
      PROVE  TypeOK'
  BY <1>2, NewType
<1>3. ASSUME NEW t \in Tx, PopulateStep(t)
      PROVE  TypeOK'
  BY <1>3, PopulateStepType
<1>4. ASSUME NEW v \in Validator, VerifierStep(v)
      PROVE  TypeOK'
  BY <1>4, PickType, VerifierOnlyType, HandlerStepType DEF VerifierStep
<1>5. ASSUME NEW n \in Node, NEW t \in Tx,
             TransactionVerifiedNew(n, t) \/ BroadcastLost(n, t)
      PROVE  TypeOK'
  BY <1>5, BroadcastType
<1>6. QED
  BY <1>1, <1>2, <1>3, <1>4, <1>5 DEF Next

LEMMA InitType == Init => TypeOK
<1> SUFFICES ASSUME Init PROVE TypeOK
  OBVIOUS
<1> USE DEF Init
<1>1. PoolTypeOK
  BY DEF PoolTypeOK, NoVotes
<1>2. OutcomeTypeOK
  BY DEF OutcomeTypeOK
<1>3. PopulatingTypeOK
  BY SenderAssumption DEF PopulatingTypeOK, Population
<1>4. VoterTypeOK
  BY IdleType DEF VoterTypeOK
<1>5. QED
  BY <1>1, <1>2, <1>3, <1>4 DEF TypeOK

\* Every value the nodes keep stays in its type: TypeOK holds initially and is
\* kept by every step.
THEOREM TypeCorrect == Spec => []TypeOK
BY InitType, TypeKept, PTL DEF Spec

LEMMA VotesAreCastKept ==
    ASSUME VoteInv, Next
    PROVE  VotesAreCast'
<1>0. VoterTypeOK /\ PoolTypeOK /\ VotesAreCast
  BY DEF VoteInv, TypeOK
<1>1. PoolMove /\ VoterMoves
  BY NextIsMove
<1>2. \A v \in Validator, t \in Tx : cast[v][t] \subseteq cast'[v][t]
  BY HistoryGrows
<1>3. ASSUME NEW n \in Validator, NEW v \in Validator, NEW t \in Tx
      PROVE  voting'[n][t][v] = NoVote \/ voting'[n][t][v] \in cast'[v][t]
  <2>1. voting[n][t][v] = NoVote \/ voting[n][t][v] \in cast'[v][t]
    BY <1>0, <1>2 DEF VotesAreCast
  <2>2. CASE voting'[n][t] = voting[n][t]
    BY <2>1, <2>2
  <2>3. CASE voting'[n][t] = NoVotes
    BY <2>3 DEF NoVotes
  <2>4. ASSUME NEW u \in Validator, act[u].tx = t, act[u].pc = "record",
               voting'[n][t] = KeepFirst(voting[n][t], u, act[u].vote)
        PROVE  voting'[n][t][v] = NoVote \/ voting'[n][t][v] \in cast'[v][t]
    <3>1. act[u].vote \in cast'[u][t]
      BY <1>0, <1>2, <2>4 DEF VotesAreCast
    <3>2. voting[n][t] \in [Validator -> Vote \cup {NoVote}]
      BY <1>0 DEF PoolTypeOK
    <3>3. QED
      BY <2>1, <2>4, <3>1, <3>2 DEF KeepFirst
  <2>5. QED
    BY <1>1, <2>2, <2>3, <2>4, EntryMove
<1>4. ASSUME NEW v \in Validator, act'[v].pc # "idle"
      PROVE  act'[v].vote \in cast'[v][act'[v].tx]
  <2>1. ASSUME act[v].pc # "idle", act'[v].tx = act[v].tx, act'[v].vote = act[v].vote
        PROVE  act'[v].vote \in cast'[v][act'[v].tx]
    BY <1>0, <1>2, <2>1, ActType DEF VotesAreCast
  <2>2. ASSUME NEW t \in Tx, NEW r \in Vote, Picks(v, t, r)
        PROVE  act'[v].vote \in cast'[v][act'[v].tx]
    <3>1. act'[v].tx = t /\ act'[v].vote = r
      BY <1>0, <2>2 DEF Picks, VerifierPick, VoterTypeOK, Idle
    <3>2. r \in cast'[v][t]
      BY <1>0, <2>2 DEF Picks, VerifierPick, VoterTypeOK
    <3>3. QED
      BY <3>1, <3>2
  <2>3. ASSUME NEW u \in Validator \ {v}, NEW t \in Tx, NEW r \in Vote, Picks(u, t, r)
        PROVE  act'[v] = act[v]
    BY <1>0, <2>3 DEF Picks, VerifierPick, VoterTypeOK
  <2>4. ASSUME NEW u \in Validator, VoterMove(u)
        PROVE  act'[v].vote \in cast'[v][act'[v].tx]
    <3>1. CASE u = v
      BY <1>4, <2>1, <2>4, <3>1 DEF VoterMove
    <3>2. CASE u # v
      BY <1>4, <2>1, <2>4, <3>2 DEF VoterMove
    <3>3. QED
      BY <3>1, <3>2
  <2>5. QED
    BY <1>1, <1>4, <2>1, <2>2, <2>3, <2>4 DEF VoterMoves
<1>5. QED
  BY <1>3, <1>4 DEF VotesAreCast

LEMMA PoolInvKept ==
    ASSUME VoteInv, Next
    PROVE  PoolInv'
<1>1. PoolMove
  BY NextIsMove
<1>2. ASSUME NEW n \in Validator, NEW t \in Tx
      PROVE  /\ t \in pool'[n] => t \in held'[n]
             /\ t \notin pool'[n] => voting'[n][t] = NoVotes
  <2>1. /\ t \in pool[n] => t \in held[n]
        /\ t \notin pool[n] => voting[n][t] = NoVotes
    BY DEF VoteInv, PoolInv
  <2>2. t \in held[n] => t \in held'[n]
    BY HistoryGrows
  <2>3. QED
    BY <1>1, <2>1, <2>2, EntryMove
<1>3. \A n \in Validator : pool'[n] \subseteq Tx
  BY TypeKept DEF VoteInv, TypeOK, PoolTypeOK
<1>4. QED
  BY <1>2, <1>3 DEF PoolInv

\* After a pick, the verifier stands before the procedure, at its own node.
LEMMA PickEffect ==
    ASSUME VoterTypeOK, NEW v \in Validator, NEW t \in Tx, NEW r \in Vote, Picks(v, t, r)
    PROVE  /\ \A u \in Validator \ {v} : act'[u] = act[u]
           /\ act'[v].pc = "lookup" /\ act'[v].proc = "verifier" /\ act'[v].at = v
           /\ act'[v].tx = t /\ act'[v].vote = r
           /\ cast' = [cast EXCEPT ![v][t] = @ \cup {r}]
           /\ act[v].pc = "idle" /\ t \in pool[v] /\ voting[v][t][v] = NoVote
           /\ UNCHANGED <<poolVars, outcomeVars>>
BY DEF Picks, VerifierPick, VoterTypeOK, Idle, LacksOwnVote

LEMMA RunInvKept ==
    ASSUME VoteInv, Next
    PROVE  RunInv'
<1>0. VoterTypeOK /\ RunInv
  BY DEF VoteInv, TypeOK
<1>1. VoterMoves
  BY NextIsMove
<1>2. SUFFICES ASSUME NEW v \in Validator
               PROVE  /\ act'[v].proc = "verifier" => act'[v].at = v
                      /\ act'[v].pc = "send" => act'[v].proc = "http"
                      /\ act'[v].pc \in Late => act'[v].tx \in held'[act'[v].at]
  BY DEF RunInv, Late
<1>3. CASE act'[v] = act[v]
  <2>1. act[v].pc \in Late => act[v].tx \in held[act[v].at]
    BY <1>0 DEF RunInv, Late
  <2>2. act[v].at \in Validator
    BY <1>0, ActType
  <2>3. QED
    BY <1>0, <1>3, <2>1, <2>2, HistoryGrows DEF RunInv
<1>4. ASSUME NEW t \in Tx, NEW r \in Vote, Picks(v, t, r)
      PROVE  /\ act'[v].proc = "verifier" => act'[v].at = v
             /\ act'[v].pc = "send" => act'[v].proc = "http"
             /\ act'[v].pc \in Late => act'[v].tx \in held'[act'[v].at]
  BY <1>0, <1>4, PickEffect DEF Late
<1>5. CASE VoterMove(v)
  BY <1>5 DEF VoterMove
<1>6. QED
  BY <1>0, <1>1, <1>3, <1>4, <1>5, PickEffect DEF VoterMoves, VoterMove

LEMMA VoteInvKept ==
    ASSUME VoteInv, [Next]_vars
    PROVE  VoteInv'
<1>1. CASE Next
  BY <1>1, TypeKept, VotesAreCastKept, PoolInvKept, RunInvKept DEF VoteInv
<1>2. CASE UNCHANGED vars
  <2>1. TypeOK'
    BY TypeKept DEF VoteInv
  <2>2. VotesAreCast'
    BY <1>2 DEF vars, VoteInv, VotesAreCast
  <2>3. PoolInv' /\ RunInv'
    BY <1>2 DEF vars, VoteInv, PoolInv, RunInv
  <2>4. QED
    BY <2>1, <2>2, <2>3 DEF VoteInv
<1>3. QED
  BY <1>1, <1>2

LEMMA CastInvKept ==
    ASSUME VoteInv, CastInv, Next
    PROVE  CastInv'
<1>0. VoterTypeOK /\ PoolTypeOK /\ RunInv /\ PoolInv
  BY DEF VoteInv, TypeOK
<1>1. PoolMove /\ VoterMoves
  BY NextIsMove
<1>2. SUFFICES ASSUME NEW v \in Validator, NEW t \in Tx, cast'[v][t] # {}
               PROVE  /\ t \in held'[v]
                      /\ t \notin readded' =>
                            /\ \A r, q \in cast'[v][t] : r = q
                            /\ t \in pool'[v] /\ voting'[v][t][v] = NoVote
                                  => Unrecorded(v, t)'
  BY DEF CastInv
<1>3. held[v] \subseteq held'[v] /\ readded \subseteq readded'
  BY HistoryGrows
<1>4. CASE \E r \in Vote : Picks(v, t, r)
  <2>1. PICK r \in Vote : Picks(v, t, r)
    BY <1>4
  <2>2. /\ act[v].pc = "idle" /\ t \in pool[v] /\ voting[v][t][v] = NoVote
        /\ cast'[v][t] = cast[v][t] \cup {r}
        /\ Unrecorded(v, t)'
    BY <1>0, <2>1, PickEffect DEF VoterTypeOK, Unrecorded
  <2>3. t \in held'[v]
    BY <1>0, <1>3, <2>2 DEF PoolInv
  <2>4. ~Unrecorded(v, t)
    BY <2>2 DEF Unrecorded
  <2>5. t \notin readded => cast[v][t] = {}
    BY <2>2, <2>4 DEF CastInv
  <2>6. QED
    BY <1>3, <2>2, <2>3, <2>5
<1>5. CASE ~\E r \in Vote : Picks(v, t, r)
  <2>1. cast'[v][t] = cast[v][t]
    <3>1. CASE cast' = cast
      BY <3>1
    <3>2. ASSUME NEW u \in Validator, NEW x \in Tx, NEW r \in Vote, Picks(u, x, r)
          PROVE  cast'[v][t] = cast[v][t]
      <4>1. cast' = [cast EXCEPT ![u][x] = @ \cup {r}] /\ ~(u = v /\ x = t)
        BY <1>0, <1>5, <3>2, PickEffect
      <4>2. QED
        BY <1>0, <4>1 DEF VoterTypeOK
    <3>3. QED
      BY <1>1, <3>1, <3>2 DEF VoterMoves, VoterMove
  <2>2. t \in held[v]
    BY <1>2, <2>1 DEF CastInv
  <2>3. ASSUME t \notin readded', t \in pool'[v], voting'[v][t][v] = NoVote
        PROVE  Unrecorded(v, t)'
    <3>1. t \in pool[v] /\ voting[v][t][v] = NoVote
      <4>1. ASSUME NEW u \in Validator,
                   voting'[v][t] = KeepFirst(voting[v][t], u, act[u].vote)
            PROVE  voting[v][t][v] = NoVote
        <5>1. voting[v][t] \in [Validator -> Vote \cup {NoVote}]
          BY <1>0 DEF PoolTypeOK
        <5>2. act[u].vote \in Vote
          BY <1>0, ActType
        <5>3. QED
          BY <2>3, <4>1, <5>1, <5>2 DEF KeepFirst, Vote, NoVote
      <4>2. QED
        BY <1>1, <2>2, <2>3, <4>1, EntryMove
    <3>2. Unrecorded(v, t)
      BY <1>2, <1>3, <2>1, <2>3, <3>1 DEF CastInv
    <3>3. CASE VoterMove(v)
      BY <2>3, <3>2, <3>3 DEF VoterMove
    <3>4. CASE act'[v] = act[v]
      BY <3>2, <3>4 DEF Unrecorded
    <3>5. ASSUME NEW x \in Tx, NEW r \in Vote, Picks(v, x, r)
          PROVE  FALSE
      BY <1>0, <3>2, <3>5, PickEffect DEF Unrecorded
    <3>6. QED
      BY <1>0, <1>1, <3>3, <3>4, <3>5, PickEffect DEF VoterMoves, VoterMove
  <2>4. QED
    BY <1>2, <1>3, <2>1, <2>2, <2>3 DEF CastInv
<1>6. QED
  BY <1>4, <1>5

\* A closed ballot stays as it is: no verifier has a vote to reach any more.
LEMMA ClosedStays ==
    ASSUME VoteInv, CastInv, Next, NEW t \in Tx, t \notin readded, Closed(t)
    PROVE  Closed(t)' /\ Majority(t)' = Majority(t)
<1>0. VoterTypeOK
  BY DEF VoteInv, TypeOK
<1>1. VoterMoves
  BY NextIsMove
<1>2. ASSUME NEW v \in Validator, NEW r \in Vote, Picks(v, t, r)
      PROVE  FALSE
  <2>1. act[v].pc = "idle" /\ t \in pool[v] /\ voting[v][t][v] = NoVote
    BY <1>0, <1>2, PickEffect
  <2>2. Unrecorded(v, t)
    BY <2>1 DEF CastInv, Closed
  <2>3. QED
    BY <2>1, <2>2 DEF Unrecorded
<1>3. \A v \in Validator : cast'[v][t] = cast[v][t]
  <2>1. CASE cast' = cast
    BY <2>1
  <2>2. ASSUME NEW u \in Validator, NEW x \in Tx, NEW r \in Vote, Picks(u, x, r)
        PROVE  \A v \in Validator : cast'[v][t] = cast[v][t]
    <3>1. x # t /\ cast' = [cast EXCEPT ![u][x] = @ \cup {r}]
      BY <1>0, <1>2, <2>2, PickEffect
    <3>2. QED
      BY <1>0, <3>1 DEF VoterTypeOK
  <2>3. QED
    BY <1>1, <2>1, <2>2 DEF VoterMoves, VoterMove
<1>4. {v \in Validator : "yes" \in cast'[v][t]} = {v \in Validator : "yes" \in cast[v][t]}
  BY <1>3
<1>5. Majority(t)' = Majority(t)
  BY <1>4 DEF Majority
<1>6. QED
  BY <1>3, <1>5 DEF Closed

LEMMA PopInvKept ==
    ASSUME VoteInv, PopInv, Next
    PROVE  PopInv'
<1>0. VoterTypeOK /\ PoolTypeOK /\ RunInv
  BY DEF VoteInv, TypeOK
<1>1. PoolMove /\ VoterMoves
  BY NextIsMove
<1>2. SUFFICES ASSUME NEW v \in Validator, act'[v].pc = "pop",
                      act'[v].tx \notin readded', act'[v].tx \in pool'[act'[v].at]
               PROVE  IsFull(voting'[act'[v].at][act'[v].tx])
  BY DEF PopInv, IsFull, Voters
<1>3. CASE VoterMove(v)
  BY <1>2, <1>3 DEF VoterMove, poolVars
<1>4. CASE act'[v] = act[v]
  <2> DEFINE n == act[v].at
             t == act[v].tx
  <2>1. n \in Validator /\ t \in Tx /\ t \in held[n] /\ t \notin readded'
    BY <1>0, <1>2, <1>4, ActType DEF RunInv
  <2>2. t \notin readded
    BY <2>1, HistoryGrows
  <2> HIDE DEF n, t
  <2>3. t \in pool[n] => IsFull(voting[n][t])
    BY <1>2, <1>4, <2>2 DEF PopInv, n, t
  <2>4. t \in pool'[n]
    BY <1>2, <1>4 DEF n, t
  <2>5. ASSUME NEW u \in Validator, t \in pool[n],
               voting'[n][t] = KeepFirst(voting[n][t], u, act[u].vote)
        PROVE  IsFull(voting'[n][t])
    <3>1. voting[n][t] \in [Validator -> Vote \cup {NoVote}]
      BY <1>0, <2>1 DEF PoolTypeOK
    <3>2. \A w \in Validator : voting[n][t][w] # NoVote
      BY <2>3, <2>5 DEF IsFull, Voters
    <3>3. voting'[n][t] = voting[n][t]
      BY <2>5, <3>1, <3>2 DEF KeepFirst
    <3>4. QED
      BY <2>3, <2>5, <3>3
  <2>6. IsFull(voting'[n][t])
    BY <1>1, <2>1, <2>3, <2>4, <2>5, EntryMove
  <2>7. QED
    BY <1>4, <2>6 DEF n, t
<1>5. ASSUME NEW t \in Tx, NEW r \in Vote, Picks(v, t, r)
      PROVE  FALSE
  BY <1>0, <1>2, <1>5, PickEffect
<1>6. QED
  BY <1>0, <1>1, <1>3, <1>4, <1>5, PickEffect DEF VoterMoves, VoterMove

\* An entry with all the votes, popped once per node, is decided on the verdicts.
LEMMA FullDecides ==
    ASSUME VoteInv, CastInv, NEW n \in Validator, NEW t \in Tx, t \notin readded,
           IsFull(voting[n][t])
    PROVE  Closed(t) /\ (IsVotingPositive(voting[n][t]) <=> Majority(t))
<1>0. PoolTypeOK /\ VotesAreCast
  BY DEF VoteInv, TypeOK
<1>1. \A u \in Validator : voting[n][t][u] \in Vote /\ voting[n][t][u] \in cast[u][t]
  BY <1>0 DEF PoolTypeOK, VotesAreCast, IsFull, Voters, NoVote, Vote
<1>2. Closed(t)
  BY <1>1 DEF Closed
<1>3. \A u \in Validator : voting[n][t][u] = "yes" <=> "yes" \in cast[u][t]
  BY <1>1 DEF CastInv
<1>4. Yes(voting[n][t]) = {u \in Validator : "yes" \in cast[u][t]}
  BY <1>3 DEF Yes
<1>5. Voters(voting[n][t]) = Validator
  BY DEF IsFull
<1>6. QED
  BY <1>2, <1>4, <1>5 DEF IsVotingPositive, Majority

LEMMA DecideInvKept ==
    ASSUME VoteInv, CastInv, PopInv, DecideInv, Next
    PROVE  DecideInv'
<1>0. VoterTypeOK
  BY DEF VoteInv, TypeOK
<1>1. VoterMoves
  BY NextIsMove
<1>2. SUFFICES ASSUME NEW v \in Validator, act'[v].pc = "decide", act'[v].tx \notin readded'
               PROVE  /\ Closed(act[v].tx)'
                      /\ act'[v].positive <=> Majority(act[v].tx)'
  BY DEF DecideInv, Closed, Majority
<1>3. CASE VoterMove(v)
  <2> DEFINE n == act[v].at
             t == act[v].tx
             p == IsVotingPositive(voting[n][t])
             a == [act[v] EXCEPT !.pc = "decide", !.positive = p]
  <2>1. PopEntry(v) /\ t \in pool[n] /\ act[v].pc = "pop" /\ act'[v].tx = t
        /\ cast' = cast
    BY <1>2, <1>3 DEF VoterMove, PopEntry
  <2>2. n \in Validator /\ t \in Tx /\ act[v] \in Activation
    BY <1>0, <2>1, ActType
  <2>3. a.positive = p
    BY <2>2 DEF Activation
  <2>4. act' = [act EXCEPT ![v] = a] /\ readded' = readded
    BY <2>1 DEF PopEntry, Continue, PoolPop
  <2>5. act'[v].positive = p
    BY <1>0, <2>3, <2>4 DEF VoterTypeOK
  <2>6. IsFull(voting[n][t]) /\ t \notin readded
    BY <1>2, <2>1, <2>4 DEF PopInv
  <2>7. Closed(t) /\ (p <=> Majority(t))
    BY <2>2, <2>6, FullDecides
  <2> HIDE DEF p
  <2>8. QED
    BY <2>1, <2>5, <2>7 DEF Closed, Majority
<1>4. CASE act'[v] = act[v]
  <2>1. act[v].tx \in Tx /\ act[v].tx \notin readded
    BY <1>0, <1>2, <1>4, ActType, HistoryGrows
  <2>2. Closed(act[v].tx) /\ (act[v].positive <=> Majority(act[v].tx))
    BY <1>2, <1>4, <2>1 DEF DecideInv
  <2>3. Closed(act[v].tx)' /\ Majority(act[v].tx)' = Majority(act[v].tx)
    <3>1. ASSUME NEW x \in Tx, x \notin readded, Closed(x)
          PROVE  /\ \A u \in Validator : cast'[u][x] # {}
                 /\ (2 * Cardinality({u \in Validator : "yes" \in cast'[u][x]})
                       > Cardinality(Validator)) = Majority(x)
      BY <3>1, ClosedStays DEF Closed, Majority
    <3>2. QED
      BY <1>4, <2>1, <2>2, <3>1 DEF Closed, Majority
  <2>4. QED
    BY <1>4, <2>2, <2>3
<1>5. ASSUME NEW t \in Tx, NEW r \in Vote, Picks(v, t, r)
      PROVE  FALSE
  BY <1>0, <1>2, <1>5, PickEffect
<1>6. QED
  BY <1>0, <1>1, <1>3, <1>4, <1>5, PickEffect DEF VoterMoves, VoterMove

LEMMA OutcomeInvKept ==
    ASSUME VoteInv, CastInv, DecideInv, OutcomeInv, Next
    PROVE  OutcomeInv'
<1>0. VoterTypeOK /\ OutcomeTypeOK
  BY DEF VoteInv, TypeOK
<1>1. SUFFICES ASSUME NEW t \in Tx, t \notin readded'
               PROVE  /\ \A n \in Node : t \in verified'[n] \/ <<n, t>> \in broadcast'
                             => Closed(t)' /\ Majority(t)'
                      /\ \A n \in Validator : t \in rejected'[n]
                             => Closed(t)' /\ ~Majority(t)'
  BY DEF OutcomeInv
<1>2. t \notin readded
  BY <1>1, HistoryGrows
<1>3. Closed(t) => Closed(t)' /\ Majority(t)' = Majority(t)
  BY <1>2, ClosedStays
<1>4. /\ \A n \in Node : t \in verified[n] \/ <<n, t>> \in broadcast
             => Closed(t) /\ Majority(t)
      /\ \A n \in Validator : t \in rejected[n] => Closed(t) /\ ~Majority(t)
  BY <1>2 DEF OutcomeInv
<1> HIDE DEF Closed, Majority
<1>5. CASE UNCHANGED outcomeVars
  BY <1>3, <1>4, <1>5 DEF outcomeVars
<1>6. ASSUME NEW v \in Validator, Decide(v)
      PROVE  /\ \A n \in Node : t \in verified'[n] \/ <<n, t>> \in broadcast'
                    => Closed(t)' /\ Majority(t)'
             /\ \A n \in Validator : t \in rejected'[n] => Closed(t)' /\ ~Majority(t)'
  <2>1. act[v].tx = t => Closed(t) /\ (act[v].positive <=> Majority(t))
    BY <1>2, <1>6 DEF DecideInv, Decide
  <2>2. act[v].at \in Validator
    BY <1>0, ActType
  <2>3. CASE act[v].tx = t /\ act[v].positive
    <3>1. rejected' = rejected
      BY <1>6, <2>3 DEF Decide
    <3>2. QED
      BY <1>3, <1>4, <2>1, <2>3, <3>1
  <2>4. CASE act[v].tx = t /\ ~act[v].positive
    <3>1. verified' = verified /\ broadcast' = broadcast
      BY <1>6, <2>4 DEF Decide
    <3>2. QED
      BY <1>3, <1>4, <2>1, <2>4, <3>1
  <2>5. CASE act[v].tx # t
    <3>1. /\ \A n \in Node : t \in verified'[n] => t \in verified[n]
          /\ \A n \in Node : <<n, t>> \in broadcast' => <<n, t>> \in broadcast
          /\ \A n \in Validator : t \in rejected'[n] => t \in rejected[n]
      BY <1>0, <1>6, <2>2, <2>5 DEF Decide, OutcomeTypeOK
    <3>2. QED
      BY <1>3, <1>4, <3>1
  <2>6. QED
    BY <2>3, <2>4, <2>5
<1>7. ASSUME NEW m \in Node, NEW x \in Tx,
             TransactionVerifiedNew(m, x) \/ BroadcastLost(m, x)
      PROVE  /\ \A n \in Node : t \in verified'[n] \/ <<n, t>> \in broadcast'
                    => Closed(t)' /\ Majority(t)'
             /\ \A n \in Validator : t \in rejected'[n] => Closed(t)' /\ ~Majority(t)'
  <2>1. /\ \A n \in Node : t \in verified'[n] =>
               t \in verified[n] \/ <<n, t>> \in broadcast
        /\ \A n \in Node : <<n, t>> \in broadcast' => <<n, t>> \in broadcast
        /\ rejected' = rejected
    BY <1>0, <1>7 DEF TransactionVerifiedNew, BroadcastLost, OutcomeTypeOK
  <2>2. QED
    BY <1>3, <1>4, <2>1
<1>8. \/ UNCHANGED outcomeVars
      \/ \E v \in Validator : Decide(v)
      \/ \E m \in Node, x \in Tx : TransactionVerifiedNew(m, x) \/ BroadcastLost(m, x)
  BY ZenonT(40) DEF Next, TransactionNew, PopulateStep, TransactionPopulate, PopulateFails,
         PopulateInsert, PopulateDone, SenderReply, ReplyLost, VerifierStep, VerifierPick,
         SendVote, SendVoteFails, SendVoteDone, HandlerStep, Lookup, TransactionGet,
         TransactionGetFails, FetchFails, AddFetched, AssertAdded, RecordVote, CountVotes,
         PopEntry, TrustChanged, Cleanup
<1>9. QED
  BY <1>5, <1>6, <1>7, <1>8
-----------------------------------------------------------------------------
(* The invariant, and what follows from it *)

LEMMA InitInv == Init => IInv
<1> SUFFICES ASSUME Init PROVE IInv
  OBVIOUS
<1>1. TypeOK
  BY InitType
<1>2. /\ \A v \in Validator : /\ act[v].pc = "idle" /\ act[v].proc = "verifier"
                              /\ act[v].at = v
                              /\ pool[v] = {} /\ held[v] = {} /\ rejected[v] = {}
      /\ \A v \in Validator, t \in Tx : cast[v][t] = {} /\ voting[v][t] = NoVotes
      /\ \A n \in Node : verified[n] = {}
      /\ broadcast = {}
  BY DEF Init, Idle
<1>3. VotesAreCast /\ PoolInv /\ RunInv
  BY <1>2 DEF VotesAreCast, NoVotes, PoolInv, RunInv
<1>4. CastInv /\ PopInv /\ DecideInv /\ OutcomeInv
  BY <1>2 DEF CastInv, PopInv, DecideInv, OutcomeInv
<1>5. QED
  BY <1>1, <1>3, <1>4 DEF IInv, VoteInv

LEMMA StepInv == IInv /\ [Next]_vars => IInv'
<1> SUFFICES ASSUME IInv, [Next]_vars PROVE IInv'
  OBVIOUS
<1>1. VoteInv'
  BY VoteInvKept DEF IInv
<1>2. CASE Next
  BY <1>1, <1>2, CastInvKept, PopInvKept, DecideInvKept, OutcomeInvKept DEF IInv
<1>3. CASE UNCHANGED vars
  <2>1. CastInv'
    BY <1>3 DEF vars, IInv, CastInv, Unrecorded
  <2>2. PopInv'
    BY <1>3 DEF vars, IInv, PopInv
  <2>3. DecideInv' /\ OutcomeInv'
    BY <1>3 DEF vars, IInv, DecideInv, OutcomeInv, Closed, Majority
  <2>4. QED
    BY <1>1, <2>1, <2>2, <2>3 DEF IInv
<1>4. QED
  BY <1>2, <1>3

\* The conjuncts of the inductive invariant hold of every behaviour.
THEOREM Invariance == Spec => []IInv
BY InitInv, StepInv, PTL DEF Spec

\* A node never counts a vote its voter did not reach: votes are attributed to the
\* verifier that sent them and arrive as they were sent, in any interleaving.
THEOREM VotesAreCastAlways == Spec => []VotesAreCast
<1>1. IInv => VotesAreCast
  BY DEF IInv, VoteInv
<1>2. QED
  BY <1>1, Invariance, PTL

\* A transaction that no pool was given twice is decided on the verdicts of all
\* the validators, by their majority.
THEOREM MajorityDecides == Spec => []DecidedByMajority
<1>1. IInv => DecidedByMajority
  BY DEF IInv, OutcomeInv, DecidedByMajority, Closed
<1>2. QED
  BY <1>1, Invariance, PTL

\* The nodes never disagree on a transaction that no pool was given twice: it is
\* not verified at one of them and rejected at another.
THEOREM NodesAgree == Spec => []Agreement
<1>1. IInv => Agreement
  BY DEF IInv, OutcomeInv, Agreement
<1>2. QED
  BY <1>1, Invariance, PTL
-----------------------------------------------------------------------------
(* No transaction is verified without a "yes" *)

\* Some verifier has found t good.
FoundGood(t) == \E v \in Validator : "yes" \in cast[v][t]

\* What is popped as positive, or decided so, was found good by someone: also when
\* the pool was given the transaction twice, and few votes decide.
YesInv ==
    /\ \A v \in Validator :
           act[v].pc = "decide" /\ act[v].positive => FoundGood(act[v].tx)
    /\ VerifiedOnSomeYes

LEMMA PositiveNeedsYes ==
    ASSUME VoteInv, NEW n \in Validator, NEW t \in Tx, IsVotingPositive(voting[n][t])
    PROVE  FoundGood(t)
<1>1. \A v \in Validator : voting[n][t][v] = "yes" => "yes" \in cast[v][t]
  BY DEF VoteInv, VotesAreCast, NoVote
<1>2. SUFFICES ASSUME ~FoundGood(t) PROVE FALSE
  OBVIOUS
<1>3. Yes(voting[n][t]) = {}
  BY <1>1, <1>2 DEF FoundGood, Yes
<1>4. Cardinality(Voters(voting[n][t])) \in Nat
  BY ValidatorsAssumption, FS_Subset, FS_CardinalityType DEF Voters
<1>5. QED
  BY <1>3, <1>4, FS_EmptySet DEF IsVotingPositive

LEMMA FoundStays ==
    ASSUME VoteInv, Next, NEW t \in Tx, FoundGood(t)
    PROVE  FoundGood(t)'
  BY HistoryGrows DEF FoundGood

\* What a step does to the outcomes.
LEMMA OutcomeMove ==
    ASSUME Next
    PROVE  \/ UNCHANGED outcomeVars
           \/ \E v \in Validator : Decide(v)
           \/ \E m \in Node, x \in Tx : TransactionVerifiedNew(m, x) \/ BroadcastLost(m, x)
  BY ZenonT(40) DEF Next, TransactionNew, PopulateStep, TransactionPopulate, PopulateFails,
         PopulateInsert, PopulateDone, SenderReply, ReplyLost, VerifierStep, VerifierPick,
         SendVote, SendVoteFails, SendVoteDone, HandlerStep, Lookup, TransactionGet,
         TransactionGetFails, FetchFails, AddFetched, AssertAdded, RecordVote, CountVotes,
         PopEntry, TrustChanged, Cleanup

LEMMA YesInvKept ==
    ASSUME VoteInv, YesInv, Next
    PROVE  YesInv'
<1>0. VoterTypeOK /\ OutcomeTypeOK
  BY DEF VoteInv, TypeOK
<1>1. ASSUME NEW v \in Validator, act'[v].pc = "decide", act'[v].positive
      PROVE  FoundGood(act[v].tx)'
  <2>0. \A x \in Tx : FoundGood(x) => \E u \in Validator : "yes" \in cast'[u][x]
    BY FoundStays DEF FoundGood
  <2>1. CASE act'[v] = act[v]
    <3>1. act[v].tx \in Tx /\ FoundGood(act[v].tx)
      BY <1>0, <1>1, <2>1, ActType DEF YesInv
    <3> QED
      BY <2>0, <2>1, <3>1 DEF FoundGood
  <2>2. CASE VoterMove(v)
    <3> DEFINE n == act[v].at
               t == act[v].tx
               p == IsVotingPositive(voting[n][t])
               a == [act[v] EXCEPT !.pc = "decide", !.positive = p]
    <3>1. PopEntry(v) /\ t \in pool[n] /\ act[v].pc = "pop" /\ act'[v].tx = t
      BY <1>1, <2>2 DEF VoterMove, PopEntry
    <3>2. n \in Validator /\ t \in Tx /\ act[v] \in Activation
      BY <1>0, <3>1, ActType
    <3>3. a.positive = p
      BY <3>2 DEF Activation
    <3>4. act' = [act EXCEPT ![v] = a]
      BY <3>1 DEF PopEntry, Continue
    <3>5. p
      BY <1>0, <1>1, <3>3, <3>4 DEF VoterTypeOK
    <3>6. FoundGood(t)
      BY <3>2, <3>5, PositiveNeedsYes
    <3> QED
      BY <2>0, <3>1, <3>2, <3>6 DEF FoundGood
  <2>3. ASSUME NEW t \in Tx, NEW r \in Vote, Picks(v, t, r)
        PROVE  FALSE
    BY <1>0, <1>1, <2>3, PickEffect
  <2>4. VoterMoves
    BY NextIsMove
  <2> QED
    BY <1>0, <2>1, <2>2, <2>3, <2>4, PickEffect DEF VoterMoves, VoterMove
<1>2. ASSUME NEW t \in Tx, NEW n \in Node, t \in verified'[n] \/ <<n, t>> \in broadcast'
      PROVE  FoundGood(t)'
  <2>1. FoundGood(t) => FoundGood(t)'
    BY FoundStays
  <2>2. (\E m \in Node : t \in verified[m] \/ <<m, t>> \in broadcast) => FoundGood(t)
    BY DEF YesInv, VerifiedOnSomeYes, FoundGood
  <2>3. CASE UNCHANGED outcomeVars
    BY <1>2, <2>1, <2>2, <2>3 DEF outcomeVars
  <2>4. ASSUME NEW v \in Validator, Decide(v)
        PROVE  FoundGood(t)'
    <3>1. act[v].at \in Validator
      BY <1>0, ActType
    <3>2. CASE act[v].tx = t /\ act[v].positive
      BY <2>1, <2>4, <3>2 DEF Decide, YesInv
    <3>3. CASE ~(act[v].tx = t /\ act[v].positive)
      <4>1. t \in verified[n] \/ <<n, t>> \in broadcast
        BY <1>0, <1>2, <2>4, <3>1, <3>3, ValidatorsAssumption DEF Decide, OutcomeTypeOK
      <4> QED
        BY <2>1, <2>2, <4>1
    <3> QED
      BY <3>2, <3>3
  <2>5. ASSUME NEW m \in Node, NEW x \in Tx,
               TransactionVerifiedNew(m, x) \/ BroadcastLost(m, x)
        PROVE  FoundGood(t)'
    <3>1. t \in verified[n] \/ <<n, t>> \in broadcast
      BY <1>0, <1>2, <2>5 DEF TransactionVerifiedNew, BroadcastLost, OutcomeTypeOK
    <3> QED
      BY <2>1, <2>2, <3>1
  <2> QED
    BY <2>3, <2>4, <2>5, OutcomeMove
<1> QED
  BY <1>1, <1>2 DEF YesInv, VerifiedOnSomeYes, FoundGood

\* add_transaction_verification_result: a transaction that no verifier found good is
\* verified nowhere, and not announced, even if a pool was given it twice.
THEOREM VerifiedNeedsYes == Spec => []VerifiedOnSomeYes
<1>1. Init => YesInv
  BY ValidatorsAssumption DEF Init, Idle, YesInv, VerifiedOnSomeYes
<1>2. IInv /\ YesInv /\ [Next]_vars => YesInv'
  <2>1. CASE UNCHANGED vars
    BY <2>1 DEF vars, YesInv, VerifiedOnSomeYes, FoundGood
  <2> QED
    BY <2>1, YesInvKept DEF IInv
<1>3. YesInv => VerifiedOnSomeYes
  BY DEF YesInv
<1> QED
  BY <1>1, <1>2, <1>3, Invariance, PTL DEF Spec
-----------------------------------------------------------------------------
(* The votes implement TxDecision *)

\* What Ballots takes for ballot and for refused.
BallotMap == [t \in Tx |-> BallotOf(t)]
RefusedMap == [n \in Node |-> IF n \in Validator THEN rejected[n] ELSE {}]

\* A ballot only closes, or becomes void.
LEMMA BallotMove ==
    ASSUME VoteInv, CastInv, Next, NEW t \in Tx
    PROVE  \/ BallotOf(t)' = BallotOf(t)
           \/ BallotOf(t)' = "void"
           \/ BallotOf(t) = "open" /\ BallotOf(t)' \in {"accepted", "refused"}
<1>1. CASE t \in readded'
  BY <1>1 DEF BallotOf
<1>2. CASE t \notin readded' /\ Closed(t)
  <2>1. t \notin readded
    BY <1>2, HistoryGrows
  <2>2. Closed(t)' /\ Majority(t)' = Majority(t)
    BY <1>2, <2>1, ClosedStays
  <2> HIDE DEF Majority
  <2>3. BallotOf(t) = IF Majority(t) THEN "accepted" ELSE "refused"
    BY <1>2, <2>1 DEF BallotOf, Closed
  <2>4. BallotOf(t)' = IF Majority(t)' THEN "accepted" ELSE "refused"
    BY <1>2, <2>2 DEF BallotOf, Closed
  <2> QED
    BY <2>2, <2>3, <2>4
<1>3. CASE t \notin readded' /\ ~Closed(t)
  <2>1. t \notin readded
    BY <1>3, HistoryGrows
  <2>2. BallotOf(t) = "open"
    BY <1>3, <2>1 DEF BallotOf, Closed
  <2>3. BallotOf(t)' \in {"open", "accepted", "refused"}
    BY <1>3 DEF BallotOf
  <2> QED
    BY <2>2, <2>3
<1> QED
  BY <1>1, <1>2, <1>3

\* What is not added again, and is not voted on, keeps its ballot.
LEMMA BallotSame ==
    ASSUME NEW t \in Tx, t \in readded' <=> t \in readded,
           \A v \in Validator : cast'[v][t] = cast[v][t]
    PROVE  BallotOf(t)' = BallotOf(t)
<1>1. Majority(t)' = Majority(t)
  <2>1. {v \in Validator : "yes" \in cast'[v][t]} = {v \in Validator : "yes" \in cast[v][t]}
    OBVIOUS
  <2> QED
    BY <2>1 DEF Majority
<1>2. (\E v \in Validator : cast'[v][t] = {}) <=> (\E v \in Validator : cast[v][t] = {})
  OBVIOUS
<1> QED
  BY <1>1, <1>2 DEF BallotOf

\* A step changes one ballot at most.
LEMMA OneBallot ==
    ASSUME VoteInv, Next
    PROVE  \/ \A t \in Tx : BallotOf(t)' = BallotOf(t)
           \/ \E x \in Tx : \A t \in Tx \ {x} : BallotOf(t)' = BallotOf(t)
<1>0. VoterTypeOK
  BY DEF VoteInv, TypeOK
<1>1. PoolMove /\ VoterMoves
  BY NextIsMove
<1>2. \/ readded' = readded
      \/ \E x \in Tx : readded' = readded \cup {x}
  BY <1>1 DEF PoolMove, PoolAdd, PoolPop, Records, poolVars
<1>3. ASSUME NEW v \in Validator, NEW x \in Tx, NEW r \in Vote, Picks(v, x, r)
      PROVE  \E y \in Tx : \A t \in Tx \ {y} : BallotOf(t)' = BallotOf(t)
  <2>1. /\ readded' = readded
        /\ cast' = [cast EXCEPT ![v][x] = @ \cup {r}]
    BY <1>0, <1>3, PickEffect DEF poolVars
  <2>2. \A t \in Tx \ {x} : \A u \in Validator : cast'[u][t] = cast[u][t]
    BY <1>0, <2>1 DEF VoterTypeOK
  <2> QED
    BY <2>1, <2>2, BallotSame
<1>4. ASSUME cast' = cast
      PROVE  \/ \A t \in Tx : BallotOf(t)' = BallotOf(t)
             \/ \E x \in Tx : \A t \in Tx \ {x} : BallotOf(t)' = BallotOf(t)
  <2>1. CASE readded' = readded
    BY <1>4, <2>1, BallotSame
  <2>2. ASSUME NEW x \in Tx, readded' = readded \cup {x}
        PROVE  \A t \in Tx \ {x} : BallotOf(t)' = BallotOf(t)
    BY <1>4, <2>2, BallotSame
  <2> QED
    BY <1>2, <2>1, <2>2
<1> QED
  BY <1>1, <1>3, <1>4 DEF VoterMoves, VoterMove

\* A node learns what the ballot says, or what is void.
LEMMA Learning ==
    ASSUME IInv, NEW v \in Validator, Decide(v)
    PROVE  \E n \in Node, t \in Tx :
               \/ Ballots!LearnAccepted(n, t)
               \/ Ballots!LearnRefused(n, t)
<1>0. VoterTypeOK /\ OutcomeTypeOK
  BY DEF IInv, VoteInv, TypeOK
<1>1. PICK n \in Validator, t \in Tx : n = act[v].at /\ t = act[v].tx
  BY <1>0, ActType DEF Decide
<1>2. n \in Node
  BY ValidatorsAssumption
<1>3. t \in readded => BallotMap[t] = "void"
  BY DEF BallotMap, BallotOf
<1>4. t \notin readded => Closed(t) /\ (act[v].positive <=> Majority(t))
  BY <1>1 DEF Decide, IInv, DecideInv
<1>5. t \notin readded => BallotMap[t] = IF act[v].positive THEN "accepted" ELSE "refused"
  <2> HIDE DEF Majority
  <2> QED
    BY <1>4 DEF BallotMap, BallotOf, Closed
<1>6. BallotMap' = BallotMap
  BY BallotSame DEF Decide, Goto, Continue, poolVars, BallotMap
<1>7. CASE act[v].positive
  <2>1. verified' = [verified EXCEPT ![n] = @ \cup {t}] /\ rejected' = rejected
    BY <1>1, <1>7 DEF Decide
  <2>2. RefusedMap' = RefusedMap
    BY <2>1 DEF RefusedMap
  <2>3. BallotMap[t] \in {"accepted", "void"}
    BY <1>3, <1>5, <1>7
  <2>4. Ballots!LearnAccepted(n, t)
    BY <1>6, <2>1, <2>2, <2>3 DEF Ballots!LearnAccepted, BallotMap, RefusedMap
  <2> QED
    BY <1>2, <2>4
<1>8. CASE ~act[v].positive
  <2>1. rejected' = [rejected EXCEPT ![n] = @ \cup {t}] /\ verified' = verified
    BY <1>1, <1>8 DEF Decide
  <2>2. RefusedMap' = [RefusedMap EXCEPT ![n] = @ \cup {t}]
    BY <1>0, <1>2, <2>1 DEF RefusedMap, OutcomeTypeOK
  <2>3. BallotMap[t] \in {"refused", "void"}
    BY <1>3, <1>5, <1>8
  <2>4. Ballots!LearnRefused(n, t)
    BY <1>6, <2>1, <2>2, <2>3 DEF Ballots!LearnRefused, BallotMap, RefusedMap
  <2> QED
    BY <1>2, <2>4
<1> QED
  BY <1>7, <1>8

LEMMA NextBallots ==
    IInv /\ [Next]_vars => [Ballots!Next]_<<BallotMap, verified, RefusedMap>>
<1> SUFFICES ASSUME IInv, [Next]_vars
             PROVE  [Ballots!Next]_<<BallotMap, verified, RefusedMap>>
  OBVIOUS
<1>0. OutcomeTypeOK /\ VoteInv /\ CastInv
  BY DEF IInv, VoteInv, TypeOK
<1>1. CASE UNCHANGED vars
  BY <1>1 DEF vars, BallotMap, BallotOf, Majority, RefusedMap
<1>2. CASE Next /\ UNCHANGED outcomeVars
  <2>1. verified' = verified /\ RefusedMap' = RefusedMap
    BY <1>2 DEF outcomeVars, RefusedMap
  <2>2. CASE \A t \in Tx : BallotOf(t)' = BallotOf(t)
    BY <2>1, <2>2 DEF BallotMap
  <2>3. ASSUME NEW x \in Tx, \A t \in Tx \ {x} : BallotOf(t)' = BallotOf(t)
        PROVE  [Ballots!Next]_<<BallotMap, verified, RefusedMap>>
    <3>1. BallotMap' = [BallotMap EXCEPT ![x] = BallotOf(x)']
      BY <2>3 DEF BallotMap
    <3>2. CASE BallotOf(x)' = BallotOf(x)
      BY <2>1, <2>3, <3>2 DEF BallotMap
    <3>3. CASE BallotOf(x)' = "void"
      <4>1. Ballots!Void(x)
        BY <2>1, <3>1, <3>3 DEF Ballots!Void, BallotMap, RefusedMap
      <4> QED
        BY <4>1 DEF Ballots!Next
    <3>4. CASE BallotOf(x) = "open" /\ BallotOf(x)' \in {"accepted", "refused"}
      <4>1. BallotMap[x] = "open"
        BY <3>4 DEF BallotMap
      <4>2. Ballots!Close(x)
        BY <2>1, <3>1, <3>4, <4>1 DEF Ballots!Close, Ballots!Result, BallotMap, RefusedMap
      <4> QED
        BY <4>2 DEF Ballots!Next
    <3> QED
      BY <1>0, <1>2, <3>2, <3>3, <3>4, BallotMove
  <2> QED
    BY <1>0, <1>2, <2>2, <2>3, OneBallot
<1>3. ASSUME NEW v \in Validator, Decide(v)
      PROVE  Ballots!Next
  BY <1>3, Learning DEF Ballots!Next
<1>4. ASSUME NEW n \in Node, NEW t \in Tx, TransactionVerifiedNew(n, t)
      PROVE  Ballots!Next
  <2>1. /\ verified' = [verified EXCEPT ![n] = @ \cup {t}]
        /\ RefusedMap' = RefusedMap /\ BallotMap' = BallotMap
    BY <1>4, BallotSame DEF TransactionVerifiedNew, poolVars, voterVars, RefusedMap, BallotMap
  <2>2. t \notin readded => Closed(t) /\ Majority(t)
    BY <1>4 DEF TransactionVerifiedNew, IInv, OutcomeInv
  <2>3. BallotMap[t] \in {"accepted", "void"}
    BY <2>2 DEF BallotMap, BallotOf, Closed
  <2>4. Ballots!LearnAccepted(n, t)
    BY <2>1, <2>3 DEF Ballots!LearnAccepted, BallotMap, RefusedMap
  <2> QED
    BY <2>4 DEF Ballots!Next
<1>5. ASSUME NEW n \in Node, NEW t \in Tx, BroadcastLost(n, t)
      PROVE  UNCHANGED <<BallotMap, verified, RefusedMap>>
  BY <1>5, BallotSame DEF BroadcastLost, poolVars, voterVars, RefusedMap, BallotMap
<1> QED
  BY <1>1, <1>2, <1>3, <1>4, <1>5, OutcomeMove

\* The votes implement TxDecision: the last verdict on a transaction fixes one result, and
\* the nodes only learn it, one by one, or nothing is promised of the transaction.
THEOREM VotesImplementDecision == Spec => DecidesOnce
<1>1. Init => Ballots!Init
  <2> SUFFICES ASSUME Init PROVE Ballots!Init
    OBVIOUS
  <2>1. ASSUME NEW t \in Tx PROVE BallotOf(t) = "open"
    BY ValidatorsAssumption DEF Init, BallotOf
  <2> QED
    BY <2>1, ValidatorsAssumption DEF Init, Ballots!Init
<1>2. IInv /\ [Next]_vars =>
          [Ballots!Next]_<<[t \in Tx |-> BallotOf(t)], verified,
                           [n \in Node |-> IF n \in Validator THEN rejected[n] ELSE {}]>>
  BY NextBallots DEF BallotMap, RefusedMap
<1> QED
  BY <1>1, <1>2, Invariance, PTL DEF Spec, DecidesOnce, Ballots!Spec
-----------------------------------------------------------------------------
(* What an entry of a pool waits for, when no request fails.                *)

\* The pcs at which a vote has not yet been recorded at the node it was sent to.
Early == {"lookup", "fetch", "add", "assert", "record"}

\* The vote of u on t is still to be sent to n, or in the handler there and not yet recorded.
Owes(u, n, t) ==
    /\ act[u].pc # "idle" /\ act[u].tx = t
    /\ n \in act[u].todo \/ (act[u].at = n /\ act[u].pc \in Early)

\* It got there: the entry of n, as long as there is one, has a vote of u.
Arrived(u, n, t) == t \in held[n] /\ (t \in pool[n] => voting[n][t][u] # NoVote)

\* t is still to be sent to n, or validated there.
IsSentTo(t, n) ==
    \/ populating[t].pc \in {"send", "insert"} /\ n \in populating[t].todo
    \/ populating[t].pc = "insert" /\ n = populating[t].at

\* A procedure at n is about to count the votes on t, or has counted them all.
Counts(v, n, t) == act[v].at = n /\ act[v].tx = t /\ act[v].pc \in {"count", "pop"}

\* The one that records the last vote goes on to count.
FullInv ==
    \A n \in Validator, t \in Tx :
        t \in pool[n] /\ IsFull(voting[n][t]) => \E v \in Validator : Counts(v, n, t)

\* Once received, a transaction was given to every validator, or is still sent.
PopulateInv ==
    \A t \in Tx, n \in Validator :
        /\ populating[t].pc = "unborn" => t \notin held[n]
        /\ populating[t].pc # "unborn" /\ ~Lossy => t \in held[n] \/ IsSentTo(t, n)

\* A verdict reached is a vote that has arrived everywhere, or is on its way.
OweInv ==
    ~Lossy => \A t \in Tx \ (readded \cup dropped) : \A u, n \in Validator :
        cast[u][t] # {} => Owes(u, n, t) \/ Arrived(u, n, t)

\* What was popped had the verdicts of all, and is not popped again.
GoneInv ==
    \A t \in Tx \ readded :
        /\ \A n \in Validator : t \in held[n] /\ t \notin pool[n] => Closed(t)
        /\ \A v \in Validator : act[v].tx = t /\ act[v].pc \in {"decide", "trust", "cleanup"}
               => t \notin pool[act[v].at]

FutureInv == FullInv /\ PopulateInv /\ OweInv /\ GoneInv
-----------------------------------------------------------------------------
(* What a step does to a vote that is on its way *)

\* A step of one verifier moves no other.
LEMMA VoterFrame ==
    ASSUME VoteInv, NEW v \in Validator, VerifierStep(v)
    PROVE  \A u \in Validator \ {v} : act'[u] = act[u]
<1>1. VoterTypeOK
  BY DEF VoteInv, TypeOK
<1>2. ASSUME NEW t \in Tx, NEW r \in Vote, VerifierPick(v, t, r)
      PROVE  \A u \in Validator \ {v} : act'[u] = act[u]
  BY <1>1, <1>2, PickEffect DEF Picks
<1> QED
  BY <1>2, SendIsMove, HandlerIsMove DEF VerifierStep, VoterMove

\* Only a verifier, or a handler that answers it, changes what they stand at.
LEMMA VoterSteps ==
    ASSUME Next
    PROVE  \/ UNCHANGED voterVars
           \/ \E v \in Validator : VerifierStep(v)
BY DEF Next, TransactionNew, PopulateStep, TransactionPopulate, PopulateFails, PopulateInsert,
       PopulateDone, SenderReply, ReplyLost, TransactionVerifiedNew, BroadcastLost

LEMMA DroppedGrows ==
    ASSUME Next
    PROVE  dropped \subseteq dropped'
<1>1. ASSUME NEW v \in Validator, VerifierStep(v)
      PROVE  dropped \subseteq dropped'
  BY <1>1, ZenonT(40) DEF VerifierStep, VerifierPick, SendVote, SendVoteFails, SendVoteDone,
     HandlerStep, Lookup, TransactionGet, TransactionGetFails, FetchFails, AddFetched, AssertAdded,
     RecordVote, CountVotes, PopEntry, Decide, TrustChanged, Cleanup, Goto, Return, Raise, LoseVote,
     Continue
<1> QED
  BY <1>1, VoterSteps DEF voterVars

\* A procedure that goes on or returns forgets nobody it has still to turn to.
LEMMA GotoTodo ==
    ASSUME VoterTypeOK, NEW v \in Validator, NEW pc \in HandlerPc, Goto(v, pc)
    PROVE  /\ act'[v].tx = act[v].tx /\ act'[v].todo = act[v].todo
           /\ act'[v].at = act[v].at /\ act'[v].pc = pc
<1>1. act[v] \in Activation
  BY ActType
<1>2. LET a == [act[v] EXCEPT !.pc = pc]
      IN a.tx = act[v].tx /\ a.todo = act[v].todo /\ a.at = act[v].at /\ a.pc = pc
  BY <1>1 DEF Activation
<1>3. act' = [act EXCEPT ![v] = [act[v] EXCEPT !.pc = pc]]
  BY DEF Goto, Continue
<1> QED
  BY <1>2, <1>3 DEF VoterTypeOK

LEMMA ReturnTodo ==
    ASSUME VoterTypeOK, NEW v \in Validator, Return(v)
    PROVE  act'[v].tx = act[v].tx /\ act'[v].todo = act[v].todo /\ act'[v].pc = "send"
<1>1. LET a == Sending(v, act[v].todo)
      IN a.tx = act[v].tx /\ a.todo = act[v].todo /\ a.pc = "send"
  BY DEF Sending, Idle
<1>2. act' = [act EXCEPT ![v] = Sending(v, act[v].todo)]
  BY DEF Return, Continue
<1> QED
  BY <1>1, <1>2 DEF VoterTypeOK

\* A procedure that raises has lost the vote, or returns.
LEMMA RaiseTodo ==
    ASSUME NEW v \in Validator, Raise(v), act[v].tx \notin dropped'
    PROVE  Return(v) /\ act[v].proc = "http" /\ act[v].pc \notin {"fetch", "add"}
BY DEF Raise, LoseVote

\* At a node that has decided t, t was in the pool.
LEMMA DecidedWasHeld ==
    ASSUME CastInv, OutcomeInv, NEW n \in Validator, NEW t \in Tx, t \notin readded,
           t \in verified[n] \cup rejected[n]
    PROVE  t \in held[n]
<1>1. n \in Node
  BY ValidatorsAssumption
<1>2. Closed(t)
  BY <1>1 DEF OutcomeInv
<1> QED
  BY <1>2 DEF Closed, CastInv

\* The procedure keeps what it owes, unless it loses the vote; where it runs it records the
\* vote, or leaves it out at a node that has popped the entry.
LEMMA HandlerOwes ==
    ASSUME VoteInv, CastInv, OutcomeInv, ~Lossy, NEW v \in Validator, HandlerStep(v),
           act[v].tx \notin readded, act[v].tx \notin dropped'
    PROVE  /\ act'[v].tx = act[v].tx /\ act'[v].todo = act[v].todo /\ act'[v].pc # "idle"
           /\ act[v].pc \in Early =>
                  \/ act'[v].pc \in Early /\ act'[v].at = act[v].at
                  \/ /\ act[v].tx \in held'[act[v].at]
                     /\ act[v].tx \in pool'[act[v].at] =>
                            voting'[act[v].at][act[v].tx][v] # NoVote
<1> DEFINE n == act[v].at
           t == act[v].tx
<1>0. VoterTypeOK /\ PoolTypeOK /\ RunInv /\ PoolInv /\ act[v] \in Activation
  BY ActType DEF VoteInv, TypeOK
<1>1. act[v].pc # "idle"
  BY DEF HandlerStep, Lookup, TransactionGet, TransactionGetFails, FetchFails, AddFetched,
         AssertAdded, RecordVote, CountVotes, PopEntry, Decide, TrustChanged, Cleanup
<1>2. n \in Validator /\ t \in Tx
  BY <1>0, <1>1, ActType
<1>3. Raise(v) => Return(v) /\ act[v].pc \notin {"fetch", "add"}
  BY RaiseTodo
<1>4. Return(v) =>
          act'[v].tx = t /\ act'[v].todo = act[v].todo /\ act'[v].pc = "send"
  BY <1>0, ReturnTodo
<1>5. \A pc \in HandlerPc : Goto(v, pc) =>
          act'[v].tx = t /\ act'[v].todo = act[v].todo /\ act'[v].at = n /\ act'[v].pc = pc
  BY <1>0, GotoTodo
<1> HIDE DEF n, t
<1>6. CASE Lookup(v)
  <2>0. UNCHANGED poolVars
    BY <1>6 DEF Lookup
  <2>1. CASE t \in pool[n] /\ Goto(v, "record")
    BY <1>5, <2>1 DEF Early, HandlerPc, n, t
  <2>2. CASE t \notin pool[n] /\ t \in verified[n] \cup rejected[n] /\ Raise(v)
    <3>1. t \in held[n]
      BY <1>2, <2>2, DecidedWasHeld DEF t
    <3> QED
      BY <1>3, <1>4, <2>0, <2>2, <3>1 DEF poolVars, n, t
  <2>3. CASE Continue(v, [act[v] EXCEPT !.pc = "fetch", !.ask = Validator])
    <3> DEFINE a == [act[v] EXCEPT !.pc = "fetch", !.ask = Validator]
    <3>1. a.tx = act[v].tx /\ a.todo = act[v].todo /\ a.at = act[v].at /\ a.pc = "fetch"
      BY <1>0 DEF Activation
    <3> HIDE DEF a
    <3>2. act'[v] = a
      BY <1>0, <2>3 DEF Continue, VoterTypeOK, a
    <3> QED
      BY <3>1, <3>2 DEF Early
  <2> QED
    BY <1>6, <2>1, <2>2, <2>3 DEF Lookup, n, t
<1>7. ASSUME NEW w \in Validator, TransactionGet(v, w)
      PROVE  act'[v].tx = t /\ act'[v].todo = act[v].todo /\ act'[v].at = n
             /\ act'[v].pc \in {"fetch", "add"}
  <2> DEFINE a1 == [act[v] EXCEPT !.pc = "add", !.ask = {}]
             a2 == [act[v] EXCEPT !.ask = @ \ {w}]
  <2>0. act[v].pc = "fetch"
    BY <1>7 DEF TransactionGet
  <2>1. a1.tx = act[v].tx /\ a1.todo = act[v].todo /\ a1.at = act[v].at /\ a1.pc = "add"
    BY <1>0 DEF Activation
  <2>2. a2.tx = act[v].tx /\ a2.todo = act[v].todo /\ a2.at = act[v].at /\ a2.pc = "fetch"
    BY <1>0, <2>0 DEF Activation
  <2> HIDE DEF a1, a2
  <2>3. act'[v] = a1 \/ act'[v] = a2
    BY <1>0, <1>7 DEF TransactionGet, Continue, VoterTypeOK, a1, a2
  <2> QED
    BY <2>1, <2>2, <2>3 DEF n, t
<1>8. ASSUME NEW w \in Validator, TransactionGetFails(v, w)
      PROVE  FALSE
  BY <1>8 DEF TransactionGetFails
<1>9. ~FetchFails(v)
  BY <1>3 DEF FetchFails
<1>10. CASE AddFetched(v)
  BY <1>5, <1>10 DEF AddFetched, Early, HandlerPc, n, t
<1>11. CASE AssertAdded(v)
  <2>1. t \in held[n] /\ UNCHANGED poolVars
    BY <1>0, <1>11 DEF AssertAdded, RunInv, n, t
  <2> QED
    BY <1>3, <1>4, <1>5, <1>11, <2>1 DEF AssertAdded, poolVars, Early, HandlerPc, n, t
<1>12. CASE RecordVote(v)
  <2>1. t \in held[n] /\ UNCHANGED <<pool, held>>
    BY <1>0, <1>12 DEF RecordVote, RunInv, n, t
  <2>2. CASE t \notin pool[n] /\ Raise(v)
    BY <1>3, <1>4, <2>1, <2>2 DEF n, t
  <2>3. CASE /\ t \in pool[n] /\ Goto(v, "count")
             /\ voting' = [voting EXCEPT ![n][t] = KeepFirst(@, v, act[v].vote)]
    <3>1. act[v].vote \in Vote
      BY <1>0, ActType
    <3>2. \A ballot \in [Validator -> Vote \cup {NoVote}] :
              KeepFirst(ballot, v, act[v].vote)[v] # NoVote
      BY <3>1 DEF KeepFirst, Vote, NoVote
    <3>3. voting'[n][t][v] # NoVote
      BY <1>0, <1>2, <2>3, <3>2 DEF PoolTypeOK
    <3> QED
      BY <1>5, <2>1, <2>3, <3>3 DEF HandlerPc, n, t
  <2> QED
    BY <1>12, <2>2, <2>3 DEF RecordVote, n, t
<1>13. CASE CountVotes(v) \/ PopEntry(v) \/ Decide(v) \/ TrustChanged(v) \/ Cleanup(v)
  <2>1. act[v].pc \notin Early
    BY <1>13 DEF CountVotes, PopEntry, Decide, TrustChanged, Cleanup, Early
  <2>2. CASE Return(v) \/ Raise(v) \/ (\E pc \in {"pop", "trust", "cleanup"} : Goto(v, pc))
    BY <1>3, <1>4, <1>5, <2>1, <2>2 DEF HandlerPc, t
  <2>3. CASE \E b \in BOOLEAN :
                 Continue(v, [act[v] EXCEPT !.pc = "decide", !.positive = b])
    <3>1. PICK b \in BOOLEAN :
              Continue(v, [act[v] EXCEPT !.pc = "decide", !.positive = b])
      BY <2>3
    <3> DEFINE a == [act[v] EXCEPT !.pc = "decide", !.positive = b]
    <3>2. a.tx = act[v].tx /\ a.todo = act[v].todo /\ a.pc = "decide"
      BY <1>0 DEF Activation
    <3> HIDE DEF a
    <3>3. act'[v] = a
      BY <1>0, <3>1 DEF Continue, VoterTypeOK, a
    <3> QED
      BY <2>1, <3>2, <3>3
  <2>4. IsVotingPositive(voting[act[v].at][act[v].tx]) \in BOOLEAN
    BY DEF IsVotingPositive
  <2> QED
    BY <1>13, <2>2, <2>3, <2>4 DEF CountVotes, PopEntry, Decide, TrustChanged, Cleanup
<1> QED
  BY <1>1, <1>6, <1>7, <1>8, <1>9, <1>10, <1>11, <1>12, <1>13 DEF HandlerStep, Early, n, t

\* So an owed vote stays owed, or gets there.
LEMMA OwesMove ==
    ASSUME VoteInv, CastInv, OutcomeInv, ~Lossy, NEW u \in Validator, VerifierStep(u),
           NEW n \in Validator, NEW t \in Tx, Owes(u, n, t),
           t \notin readded, t \notin dropped'
    PROVE  Owes(u, n, t)' \/ Arrived(u, n, t)'
<1>0. VoterTypeOK /\ act[u] \in Activation /\ act[u].tx = t /\ act[u].pc # "idle"
  BY ActType DEF VoteInv, TypeOK, Owes
<1>1. ASSUME NEW w \in Validator, SendVote(u, w)
      PROVE  Owes(u, n, t)'
  <2> DEFINE a == [act[u] EXCEPT !.pc = "lookup", !.at = w, !.todo = @ \ {w}]
  <2>1. a.tx = act[u].tx /\ a.todo = act[u].todo \ {w} /\ a.at = w /\ a.pc = "lookup"
    BY <1>0 DEF Activation
  <2> HIDE DEF a
  <2>2. act'[u] = a
    BY <1>0, <1>1 DEF SendVote, Continue, VoterTypeOK, a
  <2>3. n \in act[u].todo
    BY <1>1 DEF SendVote, Owes, Early
  <2> QED
    BY <1>0, <2>1, <2>2, <2>3 DEF Owes, Early
<1>2. ASSUME NEW w \in Validator, SendVoteFails(u, w)
      PROVE  FALSE
  BY <1>2 DEF SendVoteFails
<1>3. ~SendVoteDone(u)
  BY DEF SendVoteDone, Owes, Early
<1>4. CASE HandlerStep(u)
  BY <1>0, <1>4, HandlerOwes DEF Owes, Arrived
<1>5. ASSUME NEW x \in Tx, NEW r \in Vote, VerifierPick(u, x, r)
      PROVE  FALSE
  BY <1>0, <1>5 DEF VerifierPick
<1> QED
  BY <1>1, <1>2, <1>3, <1>4, <1>5 DEF VerifierStep

\* What has arrived is there until the entry goes, unless t is added again.
LEMMA ArrivedStays ==
    ASSUME VoteInv, Next, NEW u \in Validator, NEW n \in Validator, NEW t \in Tx,
           Arrived(u, n, t), t \notin readded'
    PROVE  Arrived(u, n, t)'
<1>0. PoolTypeOK /\ VoterTypeOK
  BY DEF VoteInv, TypeOK
<1>1. PoolMove
  BY NextIsMove
<1>2. t \in held[n] /\ t \in held'[n]
  BY HistoryGrows DEF Arrived
<1>3. ASSUME NEW v \in Validator, t \in pool[n],
             voting'[n][t] = KeepFirst(voting[n][t], v, act[v].vote)
      PROVE  voting'[n][t][u] # NoVote
  <2>1. voting[n][t] \in [Validator -> Vote \cup {NoVote}]
    BY <1>0 DEF PoolTypeOK
  <2>2. act[v].vote \in Vote
    BY <1>0, ActType
  <2> QED
    BY <1>3, <2>1, <2>2 DEF KeepFirst, Vote, NoVote, Arrived
<1>4. t \in pool'[n] => voting'[n][t][u] # NoVote
  BY <1>0, <1>1, <1>2, <1>3, EntryMove DEF Arrived
<1> QED
  BY <1>2, <1>4 DEF Arrived

\* Each verdict that is reached is owed to every validator.
LEMMA OweInvKept ==
    ASSUME VoteInv, CastInv, OutcomeInv, OweInv, Next
    PROVE  OweInv'
<1>0. VoterTypeOK
  BY DEF VoteInv, TypeOK
<1>1. SUFFICES ASSUME ~Lossy, NEW t \in Tx, t \notin readded', t \notin dropped',
                      NEW u \in Validator, NEW n \in Validator, cast'[u][t] # {}
               PROVE  Owes(u, n, t)' \/ Arrived(u, n, t)'
  BY DEF OweInv
<1>2. t \notin readded /\ t \notin dropped
  BY <1>1, HistoryGrows, DroppedGrows
<1>3. ASSUME NEW r \in Vote, Picks(u, t, r)
      PROVE  Owes(u, n, t)'
  <2> DEFINE a == [Idle(u) EXCEPT !.pc = "lookup", !.tx = t, !.vote = r, !.todo = Validator]
  <2>1. a.tx = t /\ a.todo = Validator /\ a.pc = "lookup"
    BY DEF Idle
  <2> HIDE DEF a
  <2>2. act'[u] = a
    BY <1>0, <1>3 DEF Picks, VerifierPick, VoterTypeOK, a
  <2> QED
    BY <2>1, <2>2 DEF Owes
<1>4. CASE cast[u][t] # {}
  <2>1. Owes(u, n, t) \/ Arrived(u, n, t)
    BY <1>1, <1>2, <1>4 DEF OweInv
  <2>2. CASE Arrived(u, n, t)
    BY <1>1, <2>2, ArrivedStays
  <2>3. CASE Owes(u, n, t) /\ act'[u] = act[u]
    BY <2>3 DEF Owes
  <2>4. CASE Owes(u, n, t) /\ VerifierStep(u)
    BY <1>1, <1>2, <2>4, OwesMove
  <2> QED
    BY <2>1, <2>2, <2>3, <2>4, VoterSteps, VoterFrame DEF voterVars
<1>5. CASE cast[u][t] = {}
  <2>1. ASSUME ~\E r \in Vote : Picks(u, t, r)
        PROVE  cast'[u][t] = cast[u][t]
    <3>1. CASE cast' = cast
      BY <3>1
    <3>2. ASSUME NEW v \in Validator, NEW x \in Tx, NEW r \in Vote, Picks(v, x, r)
          PROVE  cast'[u][t] = cast[u][t]
      <4>1. cast' = [cast EXCEPT ![v][x] = @ \cup {r}] /\ ~(v = u /\ x = t)
        BY <1>0, <2>1, <3>2, PickEffect
      <4> QED
        BY <1>0, <4>1 DEF VoterTypeOK
    <3> QED
      BY <3>1, <3>2, NextIsMove DEF VoterMoves, VoterMove
  <2> QED
    BY <1>1, <1>3, <1>5, <2>1
<1> QED
  BY <1>4, <1>5

\* A step that records a vote is RecordVote; any other adds or pops an entry, or does neither.
LEMMA PoolSteps ==
    ASSUME VoteInv, Next
    PROVE  \/ UNCHANGED poolVars
           \/ \E n \in Validator, t \in Tx : PoolAdd(n, t)
           \/ \E v \in Validator : /\ PopEntry(v) \/ Cleanup(v)
                                   /\ PoolPop(act[v].at, act[v].tx)
           \/ \E v \in Validator : RecordVote(v)
<1>0. TypeOK /\ VoterTypeOK /\ PopulatingTypeOK
  BY DEF VoteInv, TypeOK
<1>1. ASSUME NEW t \in Tx, NEW v \in Validator, TransactionNew(t, v)
      PROVE  \E n \in Validator, x \in Tx : PoolAdd(n, x)
  BY <1>1 DEF TransactionNew
<1>2. ASSUME NEW t \in Tx, PopulateStep(t)
      PROVE  UNCHANGED poolVars \/ \E n \in Validator, x \in Tx : PoolAdd(n, x)
  <2>1. populating[t].pc = "insert" => populating[t].at \in Validator
    BY <1>0 DEF PopulatingTypeOK
  <2> QED
    BY <1>2, <2>1 DEF PopulateStep, TransactionPopulate, PopulateFails, PopulateInsert,
                      PopulateDone, SenderReply, ReplyLost
<1>3. ASSUME NEW v \in Validator, VerifierStep(v), ~RecordVote(v)
      PROVE  \/ UNCHANGED poolVars
             \/ \E n \in Validator, x \in Tx : PoolAdd(n, x)
             \/ (PopEntry(v) \/ Cleanup(v)) /\ PoolPop(act[v].at, act[v].tx)
  <2>1. CASE PopEntry(v) \/ Cleanup(v)
    BY <2>1 DEF PopEntry, Cleanup
  <2>2. CASE AddFetched(v)
    <3>1. act[v].at \in Validator /\ act[v].tx \in Tx
      BY <1>0, <2>2, ActType DEF AddFetched
    <3> QED
      BY <2>2, <3>1 DEF AddFetched
  <2>3. CASE ~PopEntry(v) /\ ~Cleanup(v) /\ ~AddFetched(v)
    BY <1>3, <2>3 DEF VerifierStep, VerifierPick, SendVote, SendVoteFails, SendVoteDone,
                      HandlerStep, Lookup, TransactionGet, TransactionGetFails, FetchFails,
                      AssertAdded, CountVotes, Decide, TrustChanged
  <2> QED
    BY <2>1, <2>2, <2>3
<1>4. ASSUME NEW n \in Node, NEW t \in Tx,
             TransactionVerifiedNew(n, t) \/ BroadcastLost(n, t)
      PROVE  UNCHANGED poolVars
  BY <1>4 DEF TransactionVerifiedNew, BroadcastLost
<1> QED
  BY <1>1, <1>2, <1>3, <1>4 DEF Next

\* The one who records the last vote on an entry is about to count, and pops it.
LEMMA FullInvKept ==
    ASSUME VoteInv, FullInv, Next
    PROVE  FullInv'
<1>0. PoolTypeOK /\ VoterTypeOK
  BY DEF VoteInv, TypeOK
<1>1. SUFFICES ASSUME NEW n \in Validator, NEW t \in Tx, t \in pool'[n],
                      IsFull(voting'[n][t])
               PROVE  \E v \in Validator : Counts(v, n, t)'
  BY DEF FullInv, IsFull, Voters
<1>2. CASE t \in pool[n] /\ IsFull(voting[n][t])
  <2>1. PICK v \in Validator : Counts(v, n, t)
    BY <1>2 DEF FullInv
  <2>2. CASE act'[v] = act[v]
    BY <2>1, <2>2 DEF Counts
  <2>3. CASE VerifierStep(v)
    <3>1. CountVotes(v) \/ PopEntry(v)
      BY <2>1, <2>3 DEF Counts, VerifierStep, VerifierPick, SendVote, SendVoteFails, SendVoteDone,
         HandlerStep, Lookup, TransactionGet, TransactionGetFails, FetchFails, AddFetched,
         AssertAdded, RecordVote, Decide, TrustChanged, Cleanup
    <3>2. ~PopEntry(v)
      BY <1>0, <1>1, <1>2, <2>1 DEF PopEntry, PoolPop, Counts, PoolTypeOK
    <3>3. Goto(v, "pop")
      BY <1>2, <2>1, <3>1, <3>2 DEF CountVotes, Counts
    <3> QED
      BY <1>0, <2>1, <3>3, GotoTodo DEF Counts, HandlerPc
  <2> QED
    BY <2>1, <2>2, <2>3, VoterSteps, VoterFrame DEF voterVars
<1>3. CASE ~(t \in pool[n] /\ IsFull(voting[n][t]))
  <2>0. ~IsFull(NoVotes)
    BY ValidatorsAssumption DEF IsFull, Voters, NoVotes
  <2>1. CASE UNCHANGED poolVars
    BY <1>1, <1>3, <2>1 DEF poolVars
  <2>2. ASSUME NEW m \in Validator, NEW x \in Tx, PoolAdd(m, x) \/ PoolPop(m, x)
        PROVE  FALSE
    <3>1. CASE m = n /\ x = t
      <4>1. voting'[n][t] = NoVotes
        BY <1>0, <2>2, <3>1 DEF PoolAdd, PoolPop, PoolTypeOK
      <4> QED
        BY <1>1, <2>0, <4>1
    <3>2. CASE ~(m = n /\ x = t)
      <4>1. voting'[n][t] = voting[n][t] /\ (t \in pool'[n] => t \in pool[n])
        BY <1>0, <2>2, <3>2 DEF PoolAdd, PoolPop, PoolTypeOK
      <4> QED
        BY <1>1, <1>3, <4>1
    <3> QED
      BY <3>1, <3>2
  <2>3. ASSUME NEW v \in Validator, RecordVote(v)
        PROVE  Counts(v, n, t)'
    <3>1. pool' = pool
      BY <2>3 DEF RecordVote
    <3>2. voting' # voting
      BY <1>1, <1>3, <3>1
    <3>3. /\ Goto(v, "count")
          /\ voting' = [voting EXCEPT ![act[v].at][act[v].tx] = KeepFirst(@, v, act[v].vote)]
      BY <2>3, <3>2 DEF RecordVote
    <3>4. act[v].at = n /\ act[v].tx = t
      BY <1>0, <1>1, <1>3, <3>1, <3>3 DEF PoolTypeOK
    <3> QED
      BY <1>0, <3>3, <3>4, GotoTodo DEF Counts, HandlerPc
  <2>4. \A v \in Validator :
            PopEntry(v) \/ Cleanup(v) => act[v].at \in Validator /\ act[v].tx \in Tx
    BY <1>0, ActType DEF PopEntry, Cleanup
  <2> QED
    BY <2>1, <2>2, <2>3, <2>4, PoolSteps
<1> QED
  BY <1>2, <1>3

\* A transaction new to a pool was added to it.
LEMMA NewlyHeld ==
    ASSUME PoolTypeOK, NEW m \in Validator, NEW x \in Tx, PoolAdd(m, x),
           NEW n \in Validator, NEW t \in Tx
    PROVE  t \in held'[n] <=> t \in held[n] \/ (m = n /\ x = t)
BY DEF PoolAdd, PoolTypeOK

\* The handler that received t turns to every validator, before it replies.
LEMMA PopulateInvKept ==
    ASSUME VoteInv, CastInv, PopulateInv, Next
    PROVE  PopulateInv'
<1>0. PoolTypeOK /\ VoterTypeOK /\ PopulatingTypeOK /\ VotesAreCast
  BY DEF VoteInv, TypeOK
<1>1. SUFFICES ASSUME NEW t \in Tx, NEW n \in Validator
               PROVE  /\ populating'[t].pc = "unborn" => t \notin held'[n]
                      /\ populating'[t].pc # "unborn" /\ ~Lossy =>
                             t \in held'[n] \/ IsSentTo(t, n)'
  BY DEF PopulateInv
<1>2. /\ populating[t].pc = "unborn" => t \notin held[n]
      /\ populating[t].pc # "unborn" /\ ~Lossy => t \in held[n] \/ IsSentTo(t, n)
  BY DEF PopulateInv
<1>3. t \in held[n] => t \in held'[n]
  BY HistoryGrows
<1>4. ASSUME populating'[t] = populating[t], t \in held'[n] => t \in held[n]
      PROVE  /\ populating'[t].pc = "unborn" => t \notin held'[n]
             /\ populating'[t].pc # "unborn" /\ ~Lossy =>
                    t \in held'[n] \/ IsSentTo(t, n)'
  BY <1>2, <1>3, <1>4 DEF IsSentTo
<1>5. ASSUME NEW x \in Tx, NEW v \in Validator, TransactionNew(x, v)
      PROVE  /\ populating'[t].pc = "unborn" => t \notin held'[n]
             /\ populating'[t].pc # "unborn" /\ ~Lossy =>
                    t \in held'[n] \/ IsSentTo(t, n)'
  <2>1. CASE x = t
    <3>1. populating'[t].pc = "send" /\ populating'[t].todo = Validator
      BY <1>0, <1>5, <2>1 DEF TransactionNew, PopulatingTypeOK
    <3> QED
      BY <3>1 DEF IsSentTo
  <2>2. CASE x # t
    <3>1. populating'[t] = populating[t]
      BY <1>0, <1>5, <2>2 DEF TransactionNew, PopulatingTypeOK
    <3>2. t \in held'[n] => t \in held[n]
      BY <1>0, <1>5, <2>2, NewlyHeld DEF TransactionNew
    <3> QED
      BY <1>4, <3>1, <3>2
  <2> QED
    BY <2>1, <2>2
<1>6. ASSUME NEW x \in Tx, PopulateStep(x), x # t
      PROVE  populating'[t] = populating[t] /\ (t \in held'[n] => t \in held[n])
  <2>1. populating'[t] = populating[t]
    BY <1>0, <1>6 DEF PopulateStep, TransactionPopulate, PopulateFails, PopulateInsert,
                      PopulateDone, SenderReply, ReplyLost, Populating, PopulatingTypeOK
  <2>2. populating[x].pc = "insert" => populating[x].at \in Validator
    BY <1>0 DEF PopulatingTypeOK
  <2>3. UNCHANGED poolVars \/ \E m \in Validator : PoolAdd(m, x)
    BY <1>6, <2>2 DEF PopulateStep, TransactionPopulate, PopulateFails, PopulateInsert,
                      PopulateDone, SenderReply, ReplyLost
  <2>4. t \in held'[n] => t \in held[n]
    BY <1>0, <1>6, <2>3, NewlyHeld DEF poolVars
  <2> QED
    BY <2>1, <2>4
<1>7. CASE PopulateStep(t)
  <2>0. populating[t] \in Population
    BY <1>0 DEF PopulatingTypeOK
  <2>1. \A pc, at, todo : Populating(t, pc, at, todo) =>
            populating'[t].pc = pc /\ populating'[t].at = at /\ populating'[t].todo = todo
    BY <1>0, <2>0 DEF Populating, PopulatingTypeOK, Population
  <2>2. ASSUME NEW w \in Validator, TransactionPopulate(t, w)
        PROVE  populating'[t].pc # "unborn" /\ (~Lossy => t \in held'[n] \/ IsSentTo(t, n)')
    <3>0. populating[t].pc = "send" /\ pool[w] \subseteq held[w]
      BY <2>2 DEF TransactionPopulate, VoteInv, PoolInv
    <3>1. CASE t \in pool[w] /\ Populating(t, "send", Sender[t], populating[t].todo \ {w})
      <4>1. populating'[t].pc = "send" /\ populating'[t].todo = populating[t].todo \ {w}
        BY <2>1, <3>1
      <4> QED
        BY <1>2, <1>3, <3>0, <3>1, <4>1 DEF IsSentTo
    <3>2. CASE Populating(t, "insert", w, populating[t].todo \ {w})
      <4>1. /\ populating'[t].pc = "insert" /\ populating'[t].at = w
            /\ populating'[t].todo = populating[t].todo \ {w}
        BY <2>1, <3>2
      <4> QED
        BY <1>2, <1>3, <3>0, <4>1 DEF IsSentTo
    <3> QED
      BY <2>2, <3>1, <3>2 DEF TransactionPopulate
  <2>3. ASSUME NEW w \in Validator, PopulateFails(t, w)
        PROVE  populating'[t].pc # "unborn" /\ Lossy
    BY <2>1, <2>3 DEF PopulateFails
  <2>4. ASSUME PopulateInsert(t)
        PROVE  populating'[t].pc # "unborn" /\ (~Lossy => t \in held'[n] \/ IsSentTo(t, n)')
    <3>1. /\ populating[t].pc = "insert" /\ populating[t].at \in Validator
          /\ populating'[t].pc = "send" /\ populating'[t].todo = populating[t].todo
      BY <1>0, <2>1, <2>4 DEF PopulateInsert, PopulatingTypeOK
    <3>2. populating[t].at = n => t \in held'[n]
      BY <1>0, <2>4, <3>1, NewlyHeld DEF PopulateInsert
    <3> QED
      BY <1>2, <1>3, <3>1, <3>2 DEF IsSentTo
  <2>5. ASSUME PopulateDone(t)
        PROVE  populating'[t].pc # "unborn" /\ (~Lossy => t \in held'[n])
    <3>1. populating[t].pc = "send" /\ populating[t].todo = {} /\ populating'[t].pc = "reply"
      BY <2>1, <2>5 DEF PopulateDone
    <3> QED
      BY <1>2, <1>3, <3>1 DEF IsSentTo
  <2>6. ASSUME SenderReply(t) \/ ReplyLost(t)
        PROVE  populating'[t].pc # "unborn" /\ (~Lossy => t \in held'[n])
    <3>1. populating[t].pc = "reply" /\ populating'[t].pc = "done"
      BY <2>1, <2>6 DEF SenderReply, ReplyLost
    <3> QED
      BY <1>2, <1>3, <3>1 DEF IsSentTo
  <2> QED
    BY <1>7, <2>2, <2>3, <2>4, <2>5, <2>6 DEF PopulateStep
<1>8. ASSUME NEW v \in Validator, VerifierStep(v)
      PROVE  /\ populating'[t].pc = "unborn" => t \notin held'[n]
             /\ populating'[t].pc # "unborn" /\ ~Lossy =>
                    t \in held'[n] \/ IsSentTo(t, n)'
  <2>1. CASE AddFetched(v)
    <3>1. populating' = populating
      BY <2>1 DEF AddFetched
    <3>2. act[v].at \in Validator /\ act[v].tx \in Tx /\ act[v].pc # "idle"
      BY <1>0, <2>1, ActType DEF AddFetched
    <3>3. act[v].tx \in held[v]
      BY <1>0, <3>2 DEF VotesAreCast, CastInv
    <3>4. populating[t].pc = "unborn" => act[v].tx # t
      BY <3>3 DEF PopulateInv
    <3>5. t \in held'[n] <=> t \in held[n] \/ (act[v].at = n /\ act[v].tx = t)
      BY <1>0, <2>1, <3>2, NewlyHeld DEF AddFetched
    <3> QED
      BY <1>2, <3>1, <3>4, <3>5 DEF IsSentTo
  <2>2. CASE ~AddFetched(v)
    <3>1. populating' = populating /\ held' = held
      BY <1>8, <2>2 DEF VerifierStep, VerifierPick, SendVote, SendVoteFails, SendVoteDone,
         HandlerStep, Lookup, TransactionGet, TransactionGetFails, FetchFails, AssertAdded,
         RecordVote, CountVotes, PopEntry, PoolPop, Decide, TrustChanged, Cleanup, poolVars
    <3> QED
      BY <1>4, <3>1
  <2> QED
    BY <2>1, <2>2
<1>9. ASSUME NEW m \in Node, NEW x \in Tx,
             TransactionVerifiedNew(m, x) \/ BroadcastLost(m, x)
      PROVE  populating' = populating /\ held' = held
  BY <1>9 DEF TransactionVerifiedNew, BroadcastLost, poolVars
<1> QED
  BY <1>4, <1>5, <1>6, <1>7, <1>8, <1>9 DEF Next

\* The only way to the trust change and the clean-up is a decision.
LEMMA AfterDecision ==
    ASSUME VoteInv, NEW v \in Validator, HandlerStep(v), act'[v].pc \in {"trust", "cleanup"}
    PROVE  Decide(v) \/ TrustChanged(v) \/ Cleanup(v)
<1>0. VoterTypeOK /\ act[v] \in Activation
  BY ActType DEF VoteInv, TypeOK
<1>1. ~Return(v) /\ ~Raise(v)
  BY <1>0, RaiseEffect, ReturnEffect
<1>2. \A pc \in HandlerPc \ {"trust", "cleanup"} : ~Goto(v, pc)
  BY <1>0, GotoEffect
<1>3. \A w \in Validator : ~TransactionGet(v, w) /\ ~TransactionGetFails(v, w)
  <2> SUFFICES ASSUME NEW w \in Validator, TransactionGet(v, w) \/ TransactionGetFails(v, w)
               PROVE  FALSE
    OBVIOUS
  <2> DEFINE a1 == [act[v] EXCEPT !.pc = "add", !.ask = {}]
             a2 == [act[v] EXCEPT !.ask = @ \ {w}]
  <2>1. a1.pc = "add" /\ a2.pc = act[v].pc
    BY <1>0 DEF Activation
  <2>2. Continue(v, a1) \/ Continue(v, a2)
    BY DEF TransactionGet, TransactionGetFails
  <2>3. act[v].pc = "fetch"
    BY DEF TransactionGet, TransactionGetFails
  <2> HIDE DEF a1, a2
  <2> QED
    BY <1>0, <2>1, <2>2, <2>3 DEF Continue, VoterTypeOK
<1>4. ~Lookup(v)
  <2> DEFINE a == [act[v] EXCEPT !.pc = "fetch", !.ask = Validator]
  <2>1. a.pc = "fetch"
    BY <1>0 DEF Activation
  <2> HIDE DEF a
  <2>2. ~Continue(v, a)
    BY <1>0, <2>1 DEF Continue, VoterTypeOK
  <2> QED
    BY <1>1, <1>2, <2>2 DEF Lookup, HandlerPc, a
<1>5. ~PopEntry(v)
  <2>1. ASSUME NEW b
        PROVE  ~Continue(v, [act[v] EXCEPT !.pc = "decide", !.positive = b])
    <3> DEFINE a == [act[v] EXCEPT !.pc = "decide", !.positive = b]
    <3>1. a.pc = "decide"
      BY <1>0 DEF Activation
    <3> HIDE DEF a
    <3>2. ~Continue(v, a)
      BY <1>0, <3>1 DEF Continue, VoterTypeOK
    <3> QED
      BY <3>2 DEF a
  <2> QED
    BY <1>1, <2>1 DEF PopEntry
<1>6. ~FetchFails(v) /\ ~AddFetched(v) /\ ~AssertAdded(v) /\ ~RecordVote(v) /\ ~CountVotes(v)
  BY <1>1, <1>2 DEF FetchFails, AddFetched, AssertAdded, RecordVote, CountVotes, HandlerPc
<1> QED
  BY <1>3, <1>4, <1>5, <1>6 DEF HandlerStep

\* Only a full entry is popped, and it does not come back.
LEMMA GoneInvKept ==
    ASSUME VoteInv, CastInv, PopInv, GoneInv, Next
    PROVE  GoneInv'
<1>0. PoolTypeOK /\ VoterTypeOK /\ RunInv
  BY DEF VoteInv, TypeOK
<1>1. SUFFICES ASSUME NEW t \in Tx, t \notin readded'
               PROVE  /\ \A n \in Validator : t \in held'[n] /\ t \notin pool'[n] => Closed(t)'
                      /\ \A v \in Validator :
                             act'[v].tx = t /\ act'[v].pc \in {"decide", "trust", "cleanup"}
                                 => t \notin pool'[act'[v].at]
  BY DEF GoneInv
<1>2. t \notin readded
  BY <1>1, HistoryGrows
<1>3. Closed(t) => Closed(t)'
  BY <1>2, ClosedStays
<1>4. ASSUME NEW n \in Validator, t \in held'[n], t \notin pool'[n]
      PROVE  Closed(t)'
  <2>1. CASE t \in held[n] /\ t \notin pool[n]
    BY <1>2, <1>3, <2>1 DEF GoneInv
  <2>2. CASE UNCHANGED poolVars
    BY <1>4, <2>1, <2>2 DEF poolVars
  <2>3. ASSUME NEW m \in Validator, NEW x \in Tx, PoolAdd(m, x)
        PROVE  Closed(t)'
    <3>1. t \in held[n] /\ t \notin pool[n]
      BY <1>0, <1>4, <2>3 DEF PoolAdd, PoolTypeOK
    <3> QED
      BY <2>1, <3>1
  <2>4. ASSUME NEW v \in Validator, PopEntry(v) \/ Cleanup(v), PoolPop(act[v].at, act[v].tx),
               t \in pool[n]
        PROVE  Closed(t)'
    <3>1. act[v].at \in Validator /\ act[v].tx \in Tx
      BY <1>0, <2>4, ActType DEF PopEntry, Cleanup
    <3>2. act[v].at = n /\ act[v].tx = t
      BY <1>0, <1>4, <2>4, <3>1 DEF PoolPop, PoolTypeOK
    <3>3. ~Cleanup(v)
      BY <1>2, <2>4, <3>2 DEF Cleanup, GoneInv
    <3>4. IsFull(voting[n][t])
      BY <1>2, <2>4, <3>2, <3>3 DEF PopEntry, PopInv
    <3>5. Closed(t)
      BY <1>2, <3>4, FullDecides
    <3> QED
      BY <1>3, <3>5
  <2>5. ASSUME NEW v \in Validator, PoolPop(act[v].at, act[v].tx), t \notin pool[n]
        PROVE  Closed(t)'
    BY <1>4, <2>1, <2>5 DEF PoolPop
  <2>6. ASSUME NEW v \in Validator, RecordVote(v)
        PROVE  Closed(t)'
    BY <1>4, <2>1, <2>6 DEF RecordVote
  <2> QED
    BY <2>2, <2>3, <2>4, <2>5, <2>6, PoolSteps
<1>5. ASSUME NEW v \in Validator, act'[v].tx = t, act'[v].pc \in {"decide", "trust", "cleanup"}
      PROVE  t \notin pool'[act'[v].at]
  <2>1. ASSUME act'[v] = act[v]
        PROVE  t \notin pool'[act'[v].at]
    <3>1. t \notin pool[act[v].at] /\ act[v].at \in Validator
      BY <1>0, <1>2, <1>5, <2>1, ActType DEF GoneInv
    <3>2. t \in held[act[v].at]
      BY <1>0, <1>5, <2>1 DEF RunInv
    <3> QED
      BY <1>1, <2>1, <3>1, <3>2, EntryMove, NextIsMove
  <2>2. CASE VerifierStep(v)
    <3>1. ~\E x \in Tx, r \in Vote : VerifierPick(v, x, r)
      BY <1>0, <1>5, PickEffect DEF Picks
    <3>2. VoterMove(v)
      BY <2>2, <3>1, SendIsMove, HandlerIsMove DEF VerifierStep
    <3>3. CASE act'[v].pc = "decide"
      <4>1. PopEntry(v) /\ act[v].tx \in pool[act[v].at] /\ act[v].pc = "pop"
        BY <3>2, <3>3 DEF VoterMove, PopEntry
      <4>2. PoolPop(act[v].at, act[v].tx) /\ act[v].at \in Validator
        BY <1>0, <4>1, ActType DEF PopEntry
      <4>3. act'[v].at = act[v].at /\ act[v].tx = t
        <5> DEFINE p == IsVotingPositive(voting[act[v].at][act[v].tx])
                   a == [act[v] EXCEPT !.pc = "decide", !.positive = p]
        <5>1. act[v] \in Activation
          BY <1>0, ActType
        <5>2. a.at = act[v].at /\ a.tx = act[v].tx
          BY <5>1 DEF Activation
        <5>3. act' = [act EXCEPT ![v] = a]
          BY <4>1 DEF PopEntry, Continue
        <5> HIDE DEF a
        <5> QED
          BY <1>0, <1>5, <5>2, <5>3 DEF VoterTypeOK
      <4> QED
        BY <1>0, <4>2, <4>3 DEF PoolPop, PoolTypeOK
    <3>4. CASE act'[v].pc \in {"trust", "cleanup"}
      <4>1. ~\E w \in Validator : SendVote(v, w) \/ SendVoteFails(v, w)
        <5> SUFFICES ASSUME NEW w \in Validator, SendVote(v, w) \/ SendVoteFails(v, w)
                     PROVE  FALSE
          OBVIOUS
        <5> DEFINE a1 == [act[v] EXCEPT !.pc = "lookup", !.at = w, !.todo = @ \ {w}]
                   a2 == [act[v] EXCEPT !.todo = @ \ {w}]
        <5>1. act[v] \in Activation /\ act[v].pc = "send"
          BY <1>0, ActType DEF SendVote, SendVoteFails
        <5>2. a1.pc = "lookup" /\ a2.pc = "send"
          BY <5>1 DEF Activation
        <5>3. Continue(v, a1) \/ Continue(v, a2)
          BY DEF SendVote, SendVoteFails
        <5> HIDE DEF a1, a2
        <5> QED
          BY <1>0, <3>4, <5>2, <5>3 DEF Continue, VoterTypeOK
      <4>2. ~SendVoteDone(v)
        BY <1>0, <3>4, IdleEffect DEF SendVoteDone, Continue
      <4>3. Decide(v) \/ TrustChanged(v) \/ Cleanup(v)
        BY <2>2, <3>1, <3>4, <4>1, <4>2, AfterDecision DEF VerifierStep
      <4>4. \E pc \in {"trust", "cleanup"} : Goto(v, pc)
        BY <1>0, <3>4, <4>3, ReturnEffect DEF Decide, TrustChanged, Cleanup
      <4>5. act'[v].at = act[v].at /\ act'[v].tx = act[v].tx
        BY <1>0, <4>4, GotoEffect DEF HandlerPc
      <4>6. act[v].pc \in {"decide", "trust", "cleanup"}
        BY <4>3 DEF Decide, TrustChanged, Cleanup
      <4>7. act[v].tx \notin pool[act[v].at]
        BY <1>2, <1>5, <4>5, <4>6 DEF GoneInv
      <4>8. pool' = pool
        BY <4>3, <4>7 DEF Decide, TrustChanged, Cleanup, poolVars
      <4> QED
        BY <1>5, <4>5, <4>7, <4>8
    <3> QED
      BY <1>5, <3>3, <3>4
  <2> QED
    BY <2>1, <2>2, VoterSteps, VoterFrame DEF voterVars
<1> QED
  BY <1>4, <1>5

LEMMA InitFuture == Init => FutureInv
<1> SUFFICES ASSUME Init PROVE FutureInv
  OBVIOUS
<1>1. /\ \A v \in Validator : pool[v] = {} /\ held[v] = {} /\ act[v].pc = "idle"
      /\ \A v \in Validator, t \in Tx : cast[v][t] = {}
      /\ \A t \in Tx : populating[t].pc = "unborn"
  BY DEF Init, Idle
<1> QED
  BY <1>1 DEF FutureInv, FullInv, PopulateInv, OweInv, GoneInv

LEMMA StepFuture == IInv /\ FutureInv /\ [Next]_vars => FutureInv'
<1> SUFFICES ASSUME IInv, FutureInv, [Next]_vars PROVE FutureInv'
  OBVIOUS
<1>1. CASE Next
  BY <1>1, FullInvKept, PopulateInvKept, OweInvKept, GoneInvKept DEF IInv, FutureInv
<1>2. CASE UNCHANGED vars
  <2>1. FullInv' /\ PopulateInv'
    BY <1>2 DEF vars, FutureInv, FullInv, PopulateInv, Counts, IsSentTo
  <2>2. OweInv'
    BY <1>2 DEF vars, FutureInv, OweInv, Owes, Arrived
  <2>3. GoneInv'
    BY <1>2 DEF vars, FutureInv, GoneInv, Closed
  <2> QED
    BY <2>1, <2>2, <2>3 DEF FutureInv
<1> QED
  BY <1>1, <1>2

\* add_transaction_verification_result and send_transaction_populate: when no request fails, an
\* entry in a pool waits for nothing that is not to come.  Either a procedure counts its votes,
\* or some validator's vote is on its way, is still to be reached on the transaction in its pool,
\* or will be when the transaction has got there.  (What EntryIsDecided asks in the end, as far
\* as it is about one state; with the same exceptions.)
EntryHasFuture ==
    ~Lossy => \A t \in Tx \ (readded \cup dropped), n \in Validator :
        t \in pool[n] =>
            \/ \E v \in Validator : Counts(v, n, t)
            \/ \E u \in Validator : Owes(u, n, t)
            \/ \E u \in Validator :
                   cast[u][t] = {} /\ (LacksOwnVote(u, t) \/ IsSentTo(t, u))

\* No entry of a pool is forgotten: not by the last voter, not by a vote that came before the
\* transaction, not by one that came after a decision.
THEOREM NoEntryForgotten == Spec => []EntryHasFuture
<1>1. IInv /\ FutureInv => EntryHasFuture
  <2> SUFFICES ASSUME IInv, FutureInv, ~Lossy, NEW t \in Tx, t \notin readded, t \notin dropped,
                      NEW n \in Validator, t \in pool[n]
               PROVE  \/ \E v \in Validator : Counts(v, n, t)
                      \/ \E u \in Validator : Owes(u, n, t)
                      \/ \E u \in Validator :
                             cast[u][t] = {} /\ (LacksOwnVote(u, t) \/ IsSentTo(t, u))
    BY DEF EntryHasFuture
  <2>1. CASE IsFull(voting[n][t])
    BY <2>1 DEF FutureInv, FullInv
  <2>2. CASE ~IsFull(voting[n][t])
    <3>1. PICK u \in Validator : voting[n][t][u] = NoVote
      BY <2>2 DEF IsFull, Voters
    <3>2. CASE cast[u][t] # {}
      <4>1. Owes(u, n, t) \/ Arrived(u, n, t)
        BY <3>2 DEF FutureInv, OweInv
      <4> QED
        BY <3>1, <4>1 DEF Arrived
    <3>3. CASE cast[u][t] = {}
      <4>1. t \in held[n]
        BY DEF IInv, VoteInv, PoolInv
      <4>2. t \in held[u] \/ IsSentTo(t, u)
        BY <4>1 DEF FutureInv, PopulateInv
      <4>3. t \in held[u] => t \in pool[u]
        BY <3>3 DEF FutureInv, GoneInv, Closed
      <4>4. voting[u][t][u] = NoVote
        BY <3>3 DEF IInv, VoteInv, VotesAreCast
      <4> QED
        BY <3>3, <4>2, <4>3, <4>4 DEF LacksOwnVote
    <3> QED
      BY <3>2, <3>3
  <2> QED
    BY <2>1, <2>2
<1> QED
  BY <1>1, InitFuture, StepFuture, InitInv, StepInv, PTL DEF Spec
=============================================================================
