------------------------------ MODULE TxVoting ------------------------------
(***************************************************************************)
(* How the validators of a PoST network vote on a transaction.             *)
(*                                                                         *)
(* A validator that receives a transaction puts it in its pool of          *)
(* transactions to verify and populates it to every validator.  The        *)
(* verifier process of each validator picks a pool entry that lacks its    *)
(* own vote, records that vote in its own pool and sends it to every       *)
(* validator; the handler of a vote records it and, once as many votes as  *)
(* validators are recorded, pops the entry and decides.                    *)
(*                                                                         *)
(* Grain.  An action is one operation on one of the node's stores, or one  *)
(* request answered.  The processes of a node share those stores, and      *)
(* every operation of the pool may yield to another greenlet or process    *)
(* while the pool file is locked, so the steps of all handlers and         *)
(* processes interleave at that grain.                                     *)
(*                                                                         *)
(* Requests are synchronous and sent one validator at a time (without a    *)
(* timeout), so a populating handler and a verifier each have at most one  *)
(* request outstanding: the handler that answers it is part of the state   *)
(* of its sender.  The targets are taken in the order of a node list,      *)
(* which may differ from node to node: validators of the same Rank are     *)
(* taken in any order.  Only the broadcast of a verified transaction is    *)
(* sent by parallel threads.                                               *)
(***************************************************************************)
EXTENDS FiniteSets, Integers

CONSTANTS
    Node,        \* the nodes of the network
    Validator,   \* those that are validators, fixed while a transaction is voted on
    Tx,          \* the transactions
    Sender,      \* Sender[t]: the node that creates and signs t
    NoTx,        \* stands for no transaction
    Rank,        \* Rank[n][w]: the place of w in the lists of nodes and validators of n
    Verdict,     \* Verdict[v]: the verdicts that the verifier of v may reach
    Lossy,       \* whether requests may fail
    Raising,     \* the <<v, t>> such that verify_transaction may raise on t at every pass of v
    Stalling     \* the validators with a node they have no trust of in their trust file

ASSUME ValidatorsAssumption ==
    Validator \subseteq Node /\ IsFiniteSet(Validator) /\ Validator # {}
\* Without another node the broadcast of a verified transaction never returns: its
\* loop ends only when there are threads.
ASSUME OthersAssumption == \A n \in Node : Node # {n}
ASSUME SenderAssumption == Sender \in [Tx -> Node]
ASSUME RankAssumption == Rank \in [Node -> [Validator -> Nat]]
ASSUME VerdictAssumption == Verdict \in [Validator -> SUBSET {"yes", "no"}]
ASSUME LossyAssumption == Lossy \in BOOLEAN
ASSUME RaisingAssumption == Raising \subseteq Validator \X Tx
ASSUME StallingAssumption == Stalling \subseteq Validator
ASSUME NoTxAssumption == NoTx \notin Tx

VARIABLES
    pool,        \* pool[v]: the transactions in the tx_to_verified store of v
    voting,      \* voting[v][t][u]: the vote of u that v has recorded on t
    verified,    \* verified[n]: the transactions in the txs_verified store of n
    rejected,    \* rejected[v]: the transactions in the txs_rejected store of v
    broadcast,   \* the <<n, t>> such that "t is verified" is on its way to n
    populating,  \* populating[t]: where the handler that received t stands
    act,         \* act[v]: where the verifier of v, or the handler that answers it, stands
    \* History, that no step of the code reads:
    held,        \* held[v]: the transactions ever put in the pool of v
    readded,     \* the transactions some pool was given a second time
    cast,        \* cast[v][t]: the verdicts that the verifier of v has reached on t
    dropped      \* the transactions on which a vote was lost in an error

poolVars == <<pool, voting, held, readded>>
outcomeVars == <<verified, rejected, broadcast>>
voterVars == <<act, cast, dropped>>
vars == <<pool, voting, held, readded, verified, rejected, broadcast, populating,
          act, cast, dropped>>
-----------------------------------------------------------------------------
(* Types *)

Vote == {"yes", "no"}
NoVote == "none"
NoVotes == [u \in Validator |-> NoVote]

\* The steps of add_transaction_verification_result, in the order of the code; the trust of
\* the voters is changed before the clean-up of a verified transaction, and after that of a
\* rejected one.
HandlerPc ==
    {"fetch", "add", "assert", "record", "count", "pop", "decide", "trust", "cleanup"}

Activation == [pc : {"idle", "lookup", "send"} \cup HandlerPc,
               proc : {"verifier", "http"},  \* the process of "at" that runs the step
               at : Validator,               \* whose stores the step reads and writes
               tx : Tx \cup {NoTx},
               vote : Vote,
               todo : SUBSET Validator,      \* validators the vote is still to be sent to
               ask : SUBSET Validator,       \* validators not yet asked for the transaction
               positive : BOOLEAN]           \* the result of the popped voting

Idle(v) == [pc |-> "idle", proc |-> "verifier", at |-> v, tx |-> NoTx, vote |-> "yes",
            todo |-> {}, ask |-> {}, positive |-> FALSE]

\* Mutants: the transaction, or the verdict, does not get into the request.
SendingNoTx(v, todo) == [Idle(v) EXCEPT !.pc = "send", !.proc = "http",
                                        !.vote = act[v].vote, !.todo = todo]
SendingYes(v, todo) == [Idle(v) EXCEPT !.pc = "send", !.proc = "http",
                                       !.tx = act[v].tx, !.todo = todo]

\* The verifier of v about to send the vote it has reached to the validators of todo.
Sending(v, todo) == [Idle(v) EXCEPT !.pc = "send", !.proc = "http", !.tx = act[v].tx,
                                    !.vote = act[v].vote, !.todo = todo]

Population == [pc : {"unborn", "send", "insert", "reply", "done"},
               host : Node,                  \* the validator that received the transaction
               at : Node,                    \* whose pool "insert" writes
               todo : SUBSET Validator]

Populating(t, pc, at, todo) ==
    populating' = [populating EXCEPT ![t].pc = pc, ![t].at = at, ![t].todo = todo]

PoolTypeOK ==
    /\ pool \in [Validator -> SUBSET Tx]
    /\ voting \in [Validator -> [Tx -> [Validator -> Vote \cup {NoVote}]]]
    /\ held \in [Validator -> SUBSET Tx]
    /\ readded \in SUBSET Tx

OutcomeTypeOK ==
    /\ verified \in [Node -> SUBSET Tx]
    /\ rejected \in [Validator -> SUBSET Tx]
    /\ broadcast \in SUBSET (Node \X Tx)

PopulatingTypeOK ==
    /\ populating \in [Tx -> Population]
    /\ \A t \in Tx : populating[t].pc = "insert" => populating[t].at \in Validator

VoterTypeOK ==
    /\ act \in [Validator -> Activation]
    /\ \A v \in Validator : act[v].pc # "idle" => act[v].tx \in Tx
    /\ cast \in [Validator -> [Tx -> SUBSET Vote]]
    /\ dropped \in SUBSET Tx

TypeOK == PoolTypeOK /\ OutcomeTypeOK /\ PopulatingTypeOK /\ VoterTypeOK
-----------------------------------------------------------------------------
\* w is the next validator that n turns to, of those it still has to.
IsNext(n, w, todo) == w \in todo /\ \A u \in todo : Rank[n][w] <= Rank[n][u]

(* The pool store *)

\* TransactionToVerifyManager.add: the entry is written with an empty voting,
\* whether or not there is one already.
PoolAdd(v, t) ==
    /\ pool' = [pool EXCEPT ![v] = @ \cup {t}]
    /\ voting' = [voting EXCEPT ![v][t] = NoVotes]
    /\ held' = [held EXCEPT ![v] = @ \cup {t}]
    /\ readded' = IF t \in held[v] THEN readded \cup {t} ELSE readded

\* TransactionToVerifyManager.pop, of an entry that is there.
PoolPop(v, t) ==
    /\ pool' = [pool EXCEPT ![v] = @ \ {t}]
    /\ voting' = [voting EXCEPT ![v][t] = NoVotes]
    /\ UNCHANGED <<held, readded>>

Voters(ballot) == {u \in Validator : ballot[u] # NoVote}
Yes(ballot) == {u \in Validator : ballot[u] = "yes"}

\* Mutant: one vote too few.
IsNearlyFull(ballot) == Cardinality(Voters(ballot)) >= Cardinality(Validator) - 1

\* len(voting) == count_validator_nodes()
IsFull(ballot) == Voters(ballot) = Validator

\* Mutant: half of the votes are enough.
IsVotingNotNegative(ballot) == 2 * Cardinality(Yes(ballot)) >= Cardinality(Voters(ballot))

\* TxToVerify.is_voting_positive: more than half of the votes recorded.
IsVotingPositive(ballot) == 2 * Cardinality(Yes(ballot)) > Cardinality(Voters(ballot))

\* TransactionToVerifyManager.add_verification_result: the first vote of u stays.
KeepFirst(ballot, u, r) == IF ballot[u] = NoVote THEN [ballot EXCEPT ![u] = r] ELSE ballot
-----------------------------------------------------------------------------
(* Creating and populating a transaction *)

\* The scenario worker of the sender picks another node, when there is more than one
\* validator: transaction_new at validator v.
TransactionNew(t, v) ==
    /\ populating[t].pc = "unborn"
    /\ v # Sender[t] /\ Cardinality(Validator) > 1
    /\ PoolAdd(v, t)
    /\ populating' = [populating EXCEPT ![t] =
           [pc |-> "send", host |-> v, at |-> Sender[t], todo |-> Validator]]
    /\ UNCHANGED <<outcomeVars, voterVars>>

\* send_transaction_populate: the next validator w finds t in its pool and
\* returns, or goes on to decode and validate it: that asks the sender for its
\* public key over the network.
TransactionPopulate(t, w) ==
    /\ populating[t].pc = "send"
    /\ IsNext(populating[t].host, w, populating[t].todo)
    /\ IF t \in pool[w]
         THEN Populating(t, "send", Sender[t], populating[t].todo \ {w})
         ELSE Populating(t, "insert", w, populating[t].todo \ {w})
    /\ UNCHANGED <<poolVars, outcomeVars, voterVars>>

\* The request fails, or the validation of the transaction does: the sender logs
\* the error and goes on with the next validator.
PopulateFails(t, w) ==
    /\ Lossy
    /\ \/ populating[t].pc = "send" /\ IsNext(populating[t].host, w, populating[t].todo)
       \/ populating[t].pc = "insert" /\ w = populating[t].at
    /\ Populating(t, "send", Sender[t], populating[t].todo \ {w})
    /\ UNCHANGED <<poolVars, outcomeVars, voterVars>>

\* The end of transaction_populate: the validated transaction is added.
PopulateInsert(t) ==
    /\ populating[t].pc = "insert"
    /\ PoolAdd(populating[t].at, t)
    /\ Populating(t, "send", Sender[t], populating[t].todo)
    /\ UNCHANGED <<outcomeVars, voterVars>>

\* Every validator was asked: transaction_new replies.
PopulateDone(t) ==
    /\ populating[t].pc = "send"
    /\ populating[t].todo = {}
    /\ Populating(t, "reply", Sender[t], {})
    /\ UNCHANGED <<poolVars, outcomeVars, voterVars>>

\* The scenario worker that created t gets the reply; if its node is a validator
\* it adds t to its own pool.
SenderReply(t) ==
    /\ populating[t].pc = "reply"
    /\ Populating(t, "done", Sender[t], {})
    /\ IF Sender[t] \in Validator THEN PoolAdd(Sender[t], t) ELSE UNCHANGED poolVars
    /\ UNCHANGED <<outcomeVars, voterVars>>

ReplyLost(t) ==
    /\ Lossy
    /\ populating[t].pc = "reply"
    /\ Populating(t, "done", Sender[t], {})
    /\ UNCHANGED <<poolVars, outcomeVars, voterVars>>
-----------------------------------------------------------------------------
(* The verifier process *)

\* What the verifier of v does next.
Continue(v, activation) ==
    /\ act' = [act EXCEPT ![v] = activation]
    /\ UNCHANGED <<cast, dropped>>

\* Mutant: only entries without a vote are looked at.
LacksVotes(v, t) == t \in pool[v] /\ Voters(voting[v][t]) = {}

LacksOwnVote(v, t) == t \in pool[v] /\ voting[v][t][v] = NoVote

\* TransactionVerifier.process: the verifier takes a pool entry that lacks its
\* own vote and reaches a verdict.  The verdict depends on the transactions its
\* node knows at that moment: it may differ when it is reached again.  A pass whose
\* verify_transaction raises (values that are no numbers) changes nothing and is
\* repeated: it is the verifier that stays idle.
VerifierPick(v, t, r) ==
    /\ act[v].pc = "idle"
    /\ LacksOwnVote(v, t)
    /\ r \in Verdict[v]
    /\ act' = [act EXCEPT ![v] = [Idle(v) EXCEPT !.pc = "lookup", !.tx = t, !.vote = r,
                                                !.todo = Validator]]
    /\ cast' = [cast EXCEPT ![v][t] = @ \cup {r}]
    /\ UNCHANGED <<poolVars, outcomeVars, populating, dropped>>

\* send_transaction_verification: the vote request reaches the next validator w,
\* whose handler transaction_populate_verify_result starts.
SendVote(v, w) ==
    /\ act[v].pc = "send"
    /\ IsNext(v, w, act[v].todo)
    /\ Continue(v, [act[v] EXCEPT !.pc = "lookup", !.at = w, !.todo = @ \ {w}])
    /\ UNCHANGED <<poolVars, outcomeVars, populating>>

\* The request fails: the error is logged and the vote never sent to w again.
SendVoteFails(v, w) ==
    /\ Lossy
    /\ act[v].pc = "send"
    /\ IsNext(v, w, act[v].todo)
    /\ Continue(v, [act[v] EXCEPT !.todo = @ \ {w}])
    /\ UNCHANGED <<poolVars, outcomeVars, populating>>

\* Every validator was sent the vote.
SendVoteDone(v) ==
    /\ act[v].pc = "send"
    /\ act[v].todo = {}
    /\ Continue(v, Idle(v))
    /\ UNCHANGED <<poolVars, outcomeVars, populating>>
-----------------------------------------------------------------------------
(* add_transaction_verification_result, run by the verifier of v at its own *)
(* node and then by the handler of its vote at each validator.              *)

\* The procedure goes on with its next statement.
Goto(v, pc) == Continue(v, [act[v] EXCEPT !.pc = pc])

\* The procedure returns: the vote goes to the next validator.
Return(v) == Continue(v, Sending(v, act[v].todo))

\* The vote is lost.
LoseVote(v, activation) ==
    /\ act' = [act EXCEPT ![v] = activation]
    /\ dropped' = dropped \cup {act[v].tx}
    /\ UNCHANGED cast

\* It raises: the verifier logs the error and never sends its vote; a sender
\* whose request is answered by an error goes on with the next validator.  The vote
\* is then lost at a node that has not got the transaction yet.
Raise(v) ==
    \/ act[v].proc = "verifier" /\ LoseVote(v, Idle(v))
    \/ /\ act[v].proc = "http"
       /\ IF act[v].pc \in {"fetch", "add"} THEN LoseVote(v, Sending(v, act[v].todo))
                                           ELSE Return(v)

\* Mutant: a vote on an unknown transaction is refused.
LookupNoFetch(v) ==
    /\ act[v].pc = "lookup"
    /\ IF act[v].tx \in pool[act[v].at] THEN Goto(v, "record") ELSE Raise(v)
    /\ UNCHANGED <<poolVars, outcomeVars, populating>>

\* The transaction is looked for in the pool, then among those decided.
Lookup(v) ==
    LET n == act[v].at
        t == act[v].tx
    IN /\ act[v].pc = "lookup"
       /\ \/ t \in pool[n] /\ Goto(v, "record")
          \/ t \notin pool[n] /\ t \in verified[n] \cup rejected[n] /\ Raise(v)
          \/ /\ t \notin pool[n] \cup verified[n] \cup rejected[n]
             /\ Continue(v, [act[v] EXCEPT !.pc = "fetch", !.ask = Validator])
       /\ UNCHANGED <<poolVars, outcomeVars, populating>>

\* transaction_get at validator w: it answers from its pool only.
TransactionGet(v, w) ==
    /\ act[v].pc = "fetch"
    /\ IsNext(act[v].at, w, act[v].ask)
    /\ IF act[v].tx \in pool[w]
         THEN Continue(v, [act[v] EXCEPT !.pc = "add", !.ask = {}])
         ELSE Continue(v, [act[v] EXCEPT !.ask = @ \ {w}])
    /\ UNCHANGED <<poolVars, outcomeVars, populating>>

TransactionGetFails(v, w) ==
    /\ Lossy
    /\ act[v].pc = "fetch"
    /\ IsNext(act[v].at, w, act[v].ask)
    /\ Continue(v, [act[v] EXCEPT !.ask = @ \ {w}])
    /\ UNCHANGED <<poolVars, outcomeVars, populating>>

\* No validator had the transaction, or its validation (a request to its sender)
\* failed.
FetchFails(v) ==
    /\ \/ act[v].pc = "fetch" /\ act[v].ask = {}
       \/ act[v].pc = "add" /\ Lossy
    /\ Raise(v)
    /\ UNCHANGED <<poolVars, outcomeVars, populating>>

AddFetched(v) ==
    /\ act[v].pc = "add"
    /\ PoolAdd(act[v].at, act[v].tx)
    /\ Goto(v, "assert")
    /\ UNCHANGED <<outcomeVars, populating>>

\* assert isinstance(tx_to_verified, TxToVerify)
AssertAdded(v) ==
    /\ act[v].pc = "assert"
    /\ IF act[v].tx \in pool[act[v].at] THEN Goto(v, "record") ELSE Raise(v)
    /\ UNCHANGED <<poolVars, outcomeVars, populating>>

RecordVote(v) ==
    LET n == act[v].at
        t == act[v].tx
    IN /\ act[v].pc = "record"
       /\ \/ t \notin pool[n] /\ Raise(v) /\ UNCHANGED voting
          \/ /\ t \in pool[n]
             /\ voting' = [voting EXCEPT ![n][t] = KeepFirst(@, v, act[v].vote)]
             /\ Goto(v, "count")
       /\ UNCHANGED <<pool, held, readded, outcomeVars, populating>>

\* The entry is read again, and its votes counted.
CountVotes(v) ==
    LET n == act[v].at
        t == act[v].tx
    IN /\ act[v].pc = "count"
       /\ \/ t \notin pool[n] /\ Raise(v)
          \/ t \in pool[n] /\ ~IsFull(voting[n][t]) /\ Return(v)
          \/ t \in pool[n] /\ IsFull(voting[n][t]) /\ Goto(v, "pop")
       /\ UNCHANGED <<poolVars, outcomeVars, populating>>

\* The entry is popped: the votes it has now are those that decide.
PopEntry(v) ==
    LET n == act[v].at
        t == act[v].tx
    IN /\ act[v].pc = "pop"
       /\ \/ t \notin pool[n] /\ Raise(v) /\ UNCHANGED poolVars
          \/ /\ t \in pool[n]
             /\ PoolPop(n, t)
             /\ Continue(v, [act[v] EXCEPT !.pc = "decide",
                                           !.positive = IsVotingPositive(voting[n][t])])
       /\ UNCHANGED <<outcomeVars, populating>>

\* A positive voting makes the transaction verified, here and, by a broadcast,
\* at every other node; any other voting makes it rejected here.
Decide(v) ==
    LET n == act[v].at
        t == act[v].tx
    IN /\ act[v].pc = "decide"
       /\ \/ /\ act[v].positive
             /\ verified' = [verified EXCEPT ![n] = @ \cup {t}]
             /\ broadcast' = broadcast \cup ((Node \ {n}) \X {t})
             /\ UNCHANGED rejected
             /\ Goto(v, "trust")
          \/ /\ ~act[v].positive
             /\ rejected' = [rejected EXCEPT ![n] = @ \cup {t}]
             /\ UNCHANGED <<verified, broadcast>>
             /\ Goto(v, "cleanup")
       /\ UNCHANGED <<poolVars, populating>>

\* send_multiple_trust_change, for those who voted with the result and against it: what it
\* does is in Trust.  It waits for each of them to be in the trust file of this node.
TrustChanged(v) ==
    /\ act[v].pc = "trust"
    /\ \/ act[v].positive /\ Goto(v, "cleanup")
       \/ ~act[v].positive /\ Return(v)
    /\ UNCHANGED <<poolVars, outcomeVars, populating>>

\* "Transaction is still in to verify. Removing it"
Cleanup(v) ==
    LET n == act[v].at
        t == act[v].tx
    IN /\ act[v].pc = "cleanup"
       /\ IF t \in pool[n] THEN PoolPop(n, t) ELSE UNCHANGED poolVars
       /\ \/ act[v].positive /\ Return(v)
          \/ ~act[v].positive /\ Goto(v, "trust")
       /\ UNCHANGED <<outcomeVars, populating>>
-----------------------------------------------------------------------------
(* The broadcast of a verified transaction *)

\* transaction_verified_new: added, whatever the node knows of the transaction.
TransactionVerifiedNew(n, t) ==
    /\ <<n, t>> \in broadcast
    /\ broadcast' = broadcast \ {<<n, t>>}
    /\ verified' = [verified EXCEPT ![n] = @ \cup {t}]
    /\ UNCHANGED <<rejected, poolVars, populating, voterVars>>

BroadcastLost(n, t) ==
    /\ Lossy
    /\ <<n, t>> \in broadcast
    /\ broadcast' = broadcast \ {<<n, t>>}
    /\ UNCHANGED <<verified, rejected, poolVars, populating, voterVars>>
-----------------------------------------------------------------------------
Init ==
    /\ pool = [v \in Validator |-> {}]
    /\ voting = [v \in Validator |-> [t \in Tx |-> NoVotes]]
    /\ verified = [n \in Node |-> {}]
    /\ rejected = [v \in Validator |-> {}]
    /\ populating = [t \in Tx |-> [pc |-> "unborn", host |-> Sender[t], at |-> Sender[t], todo |-> {}]]
    /\ act = [v \in Validator |-> Idle(v)]
    /\ broadcast = {}
    /\ held = [v \in Validator |-> {}]
    /\ readded = {}
    /\ cast = [v \in Validator |-> [t \in Tx |-> {}]]
    /\ dropped = {}

\* The handler that received t, and those of its populate requests.
PopulateStep(t) ==
    \/ \E w \in Validator : TransactionPopulate(t, w) \/ PopulateFails(t, w)
    \/ PopulateInsert(t)
    \/ PopulateDone(t)
    \/ SenderReply(t)
    \/ ReplyLost(t)

\* add_transaction_verification_result on behalf of the verifier of v.
HandlerStep(v) ==
    \/ Lookup(v)
    \/ \E w \in Validator : TransactionGet(v, w) \/ TransactionGetFails(v, w)
    \/ FetchFails(v)
    \/ AddFetched(v)
    \/ AssertAdded(v)
    \/ RecordVote(v)
    \/ CountVotes(v)
    \/ PopEntry(v)
    \/ Decide(v)
    \/ TrustChanged(v)
    \/ Cleanup(v)

VerifierStep(v) ==
    \/ \E t \in Tx, r \in Vote : VerifierPick(v, t, r)
    \/ \E w \in Validator : SendVote(v, w) \/ SendVoteFails(v, w)
    \/ SendVoteDone(v)
    \/ HandlerStep(v)

Next ==
    \/ \E t \in Tx, v \in Validator : TransactionNew(t, v)
    \/ \E t \in Tx : PopulateStep(t)
    \/ \E v \in Validator : VerifierStep(v)
    \/ \E n \in Node, t \in Tx : TransactionVerifiedNew(n, t) \/ BroadcastLost(n, t)

\* The procedure of v sleeps in the trust change of a node that lacks a trust.
Stalled(v) == act[v].pc = "trust" /\ act[v].at \in Stalling

\* What the verifier of v, and the handler that answers it, are bound to go on with: not a
\* verdict that may never be reached, nor a trust change that may never return.
BoundStep(v) ==
    \/ \E t \in Tx, r \in Vote : <<v, t>> \notin Raising /\ VerifierPick(v, t, r)
    \/ \E w \in Validator : SendVote(v, w) \/ SendVoteFails(v, w)
    \/ SendVoteDone(v)
    \/ ~Stalled(v) /\ HandlerStep(v)

\* Every process of a node is scheduled and every request is answered or fails, but for
\* the two reasons above.  Nothing makes a node send a transaction.
Fairness ==
    /\ \A t \in Tx : WF_vars(PopulateStep(t))
    /\ \A v \in Validator : WF_vars(BoundStep(v))
    /\ \A n \in Node, t \in Tx :
           WF_vars(TransactionVerifiedNew(n, t) \/ BroadcastLost(n, t))

Spec == Init /\ [][Next]_vars
FairSpec == Spec /\ Fairness
-----------------------------------------------------------------------------
(* Properties *)

\* A node never holds a vote that its voter did not reach: every recorded vote,
\* and every vote on its way, is a verdict of that validator's verifier.
VotesAreCast ==
    /\ \A n, v \in Validator : \A t \in Tx :
          voting[n][t][v] = NoVote \/ voting[n][t][v] \in cast[v][t]
    /\ \A v \in Validator :
          act[v].pc # "idle" => act[v].vote \in cast[v][act[v].tx]

\* A transaction that no verifier ever found good is verified nowhere and is not
\* announced as verified, whatever is lost, added twice or decided on few votes.
VerifiedOnSomeYes ==
    \A t \in Tx :
        (\E n \in Node : t \in verified[n] \/ <<n, t>> \in broadcast)
            => \E v \in Validator : "yes" \in cast[v][t]

Majority(t) ==
    2 * Cardinality({v \in Validator : "yes" \in cast[v][t]}) > Cardinality(Validator)

\* As long as no pool was given t a second time, t is decided on the verdicts of
\* all the validators and by their majority, wherever it is decided: a second
\* add is the only way to a decision on fewer votes.
DecidedByMajority ==
    \A t \in Tx \ readded :
        /\ (\E n \in Node : t \in verified[n]) => Majority(t)
        /\ \A n \in Validator : t \in rejected[n] =>
               ~Majority(t) /\ \A v \in Validator : cast[v][t] # {}

\* Two nodes never disagree on a transaction that no pool was given twice: none
\* has it rejected while another, or itself, has it verified.
Agreement ==
    \A t \in Tx \ readded : \A m \in Node, n \in Validator :
        ~(t \in verified[m] /\ t \in rejected[n])

\* The ballot on t is closed when the last verifier has reached its verdict, and
\* void once some pool was given t a second time.
BallotOf(t) ==
    CASE t \in readded -> "void"
      [] t \notin readded /\ \E v \in Validator : cast[v][t] = {} -> "open"
      [] OTHER -> IF Majority(t) THEN "accepted" ELSE "refused"

Ballots == INSTANCE TxDecision WITH
    ballot <- [t \in Tx |-> BallotOf(t)],
    accepted <- verified,
    refused <- [n \in Node |-> IF n \in Validator THEN rejected[n] ELSE {}]

\* The votes implement the promise of TxDecision: one result per transaction,
\* fixed by the last verdict, and only learned by the nodes that decide later.
DecidesOnce == Ballots!Spec

\* A validator's verifier votes on whatever its pool holds, unless the entry goes, its
\* verify_transaction raises on the transaction, or it waits for ever in a trust change, its
\* own or that of a handler that answers it.
EntryGetsOwnVote ==
    \A v \in Validator : \A t \in {x \in Tx : <<v, x>> \notin Raising} :
        []<>(t \notin pool[v] \/ voting[v][t][v] # NoVote) \/ <>[]Stalled(v)

\* Some verifier has t in its pool without a verdict, and may never get one.
IsUndecidable(t) ==
    \E u \in Validator : <<u, t>> \in Raising /\ t \in pool[u] /\ cast[u][t] = {}

\* When no request fails, a transaction leaves every pool, unless a pool was given
\* it twice, a verifier failed after its verdict and did not send it, a node
\* refused a vote on it because no other node had it any more, a verifier raises on it,
\* or one waits for ever in a trust change.
EntryIsDecided ==
    \A v \in Validator, t \in Tx :
        \/ []<>(t \notin pool[v] \/ t \in readded \/ t \in dropped \/ IsUndecidable(t))
        \/ \E u \in Validator : <>[]Stalled(u)
=============================================================================
