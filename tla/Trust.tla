------------------------------- MODULE Trust -------------------------------
(***************************************************************************)
(* The trust of the nodes of a PoST network, and how a change of it gets   *)
(* to all of them.                                                         *)
(*                                                                         *)
(* A node that takes another (or itself) to have done something changes    *)
(* the trust of it, in its own files, and sends the change to all the      *)
(* others.  Several nodes may notice the same thing: all the validators    *)
(* that decide on a transaction change the trust of those that voted on    *)
(* it.  A node applies a change unless it finds an equal one among those   *)
(* it applied in the last seconds.                                         *)
(*                                                                         *)
(* Grain.  A node has a server, that handles requests, and a worker: the   *)
(* verifier, whose own vote may be the one that decides, or the process    *)
(* that creates blocks.  They share the files, and an action is one        *)
(* operation on one of them: the trust is read, and then written; the      *)
(* history is read, truncated and rewritten without its old rows, read     *)
(* once more to look for an equal change, read again at the end, and a row *)
(* appended to it.  In the server a handler gives way to another only      *)
(* while it waits for the trust of a node to be there.                     *)
(*                                                                         *)
(* A change is a value: type, amount and additional data, which are        *)
(* compared to recognise it, are equal for equal changes only.             *)
(***************************************************************************)
EXTENDS FiniteSetsExt, Integers

CONSTANTS
    Node,      \* the nodes, which all know each other
    Change,    \* the changes
    About,     \* About[c]: the node whose trust c changes
    Amount,    \* Amount[c]: by how much
    Listed,    \* Listed[c]: its additional data is a list, not a string
    Plans,     \* sets of <<n, p, c>>: process p of n notices c, once; one set is chosen
    Known,     \* Known[n]: the nodes whose trust is in the file of n at first
    Past,      \* the rows <<c, o, p>> that all the nodes have in their histories at first
    NoTrust,   \* stands for the trust of a node that is not in the file
    Lossy,     \* whether requests may fail
    Ageing     \* the rows <<c, o, p>> that may become old

\* One that knows no other node never leaves the loop that waits for the broadcast to be sent.
ASSUME NodeAssumption == IsFiniteSet(Node) /\ Cardinality(Node) > 1
ASSUME AboutAssumption == About \in [Change -> Node]
ASSUME AmountAssumption == Amount \in [Change -> Int]
ASSUME ListedAssumption == Listed \in [Change -> BOOLEAN]
ASSUME PlansAssumption == Plans \subseteq SUBSET (Node \X {"server", "worker"} \X Change)
ASSUME KnownAssumption == Known \in [Node -> SUBSET Node]
ASSUME PastAssumption ==
    /\ Past \subseteq Change \X Node \X {"server", "worker"} /\ IsFiniteSet(Past)
    /\ \A r, s \in Past : r[1] = s[1] => r = s
    /\ \A r \in Past : <<r[2], r[3], r[1]>> \notin UNION Plans
    /\ \A r \in Past, n \in Node : About[r[1]] \in Known[n]
ASSUME NoTrustAssumption == NoTrust \notin Int
ASSUME LossyAssumption == Lossy \in BOOLEAN
ASSUME AgeingAssumption == Ageing \subseteq Change \X Node \X {"server", "worker"}

VARIABLES
    trust,     \* trust[n]: the nodes_trust file of n
    recent,    \* recent[n]: the rows of its node_trust_history file
    garbled,   \* the nodes where two rows in that file are mixed up, so that it cannot be read
    memory,    \* memory[n][p]: the rows of it that process p of n has in memory
    current,   \* current[n]: the processes whose stamp is that of the file
    full,      \* full[n]: the rows in its node_trust_full_history file
    asLists,   \* asLists[n][p]: those that process p of n has in memory as it made them
    act,       \* act[n][p]: the change that process p of n is about
    waiting,   \* waiting[n]: the changes that handlers in the server of n wait to apply
    net,       \* the requests on their way
    due,       \* those of the plan that have not been noticed yet
    old,       \* the rows that are older than TRUST_PURGE_INTERVAL
    \* History, that no step of the code reads:
    again,     \* again[n]: those n may apply again, for one of the reasons given below
    missed,    \* missed[n]: the rows of recent[n] that a process wrote over, or stamped, unread
    stale,     \* stale[n]: the processes with a view of the trust file that is not current
    clobbered, \* the nodes at which an update of the trust file was lost
    lost       \* the <<c, n>> such that a request to tell n of c failed, or n failed to handle c

historyFile == <<recent, garbled, memory, current, full, asLists>>
vars == <<trust, historyFile, act, waiting, net, due, old, again, missed, stale, clobbered,
          lost>>

Proc == {"server", "worker"}
BasicTrust == 5000

\* <<c, o, p>>: the change c as process p of node o noticed it, for it bears the time of that.
Row == Change \X Node \X Proc
Same(r, s) == r[1] = s[1]

Idle == [pc |-> "idle"]

\* The mutant drops the time of a change.
AtChange(step, r) == [pc |-> step, row |-> r[1]]

At(step, r) == [pc |-> step, row |-> r]

TrustFile == [Node -> Int \cup {NoTrust}]

Act == {Idle}
       \cup [pc : {"purge", "rewrite", "find", "read", "record", "append"}, row : Row]
       \cup [pc : {"write"}, row : Row, view : TrustFile]

TypeOK ==
    /\ trust \in [Node -> TrustFile]
    /\ recent \in [Node -> SUBSET Row]
    /\ garbled \subseteq Node
    /\ memory \in [Node -> [Proc -> SUBSET Row]]
    /\ current \in [Node -> SUBSET Proc]
    /\ full \in [Node -> SUBSET Row]
    /\ asLists \in [Node -> [Proc -> SUBSET Row]]
    /\ act \in [Node -> [Proc -> Act]]
    /\ waiting \in [Node -> SUBSET Row]
    /\ net \subseteq [row : Row, to : Node]
    /\ due \subseteq UNION Plans
    /\ old \subseteq Row
    /\ again \in [Node -> SUBSET Change]
    /\ missed \in [Node -> SUBSET Row]
    /\ stale \in [Node -> SUBSET Proc]
    /\ clobbered \subseteq Node
    /\ lost \subseteq Change \X Node
-----------------------------------------------------------------------------
\* Those whose trust is in the file of n.
Trusted(n) == {m \in Node : trust[n][m] # NoTrust}

IsFree(n) == act[n]["server"] = Idle

Do(n, p, a) == act' = [act EXCEPT ![n][p] = a]

Other(p) == IF p = "server" THEN "worker" ELSE "server"

\* What p has in memory of the history once it has read the file again, if it must, ...
Seen(n, p) == IF p \in current[n] THEN memory[n][p] ELSE recent[n]

\* ... and what of that has not come from the file.
Kept(n, p) == IF p \in current[n] THEN asLists[n][p] ELSE {}

IsReadable(n, p) == p \in current[n] \/ n \notin garbled

\* p has these rows in memory, and the stamp of the file.
Refresh(n, p, rows) ==
    /\ memory' = [memory EXCEPT ![n][p] = rows]
    /\ asLists' = [asLists EXCEPT ![n][p] = Kept(n, p)]
    /\ current' = [current EXCEPT ![n] = @ \cup {p}]

\* The rows that a process does not know when it writes to a file that is not the one it read.
Unread(n, p) == IF p \in current[n] THEN {} ELSE recent[n] \ memory[n][p]

Taking == {"read", "write", "record", "append"}

\* A second copy of r may be taken for new while the first is being applied, ...
UnderWay(n, p, r) ==
    \/ \E s \in waiting[n] : Same(r, s)
    \/ LET b == act[n][Other(p)]
       IN  b.pc \in Taking /\ Same(b.row, r)

\* ... and later if the first is old, if it was missed or the file is being rewritten, or if
\* there is a list in it that was read from the file as a string.
Unrecognised(n, p, r) ==
    \E s \in full[n] :
        /\ Same(r, s)
        /\ s \in old \cup missed[n] \/ act[n][Other(p)].pc = "rewrite" \/ Listed[r[1]]
-----------------------------------------------------------------------------
(* A request fails, time passes *)

Lose(m) ==
    /\ Lossy
    /\ net' = net \ {m}
    /\ lost' = lost \cup {<<m.row[1], m.to>>}
    /\ UNCHANGED <<trust, historyFile, act, waiting, due, old, again, missed, stale, clobbered>>

\* A change gets older than TRUST_PURGE_INTERVAL.
GrowOld(r) ==
    /\ r \in Ageing \ old
    /\ r \in UNION {full[n] : n \in Node} \cup {m.row : m \in net}
    /\ old' = old \cup {r}
    /\ UNCHANGED <<trust, historyFile, act, waiting, net, due, again, missed, stale, clobbered,
                   lost>>
-----------------------------------------------------------------------------
(* change_node_trust and node_trust_change *)

\* The mutant keeps the old ones only.
Forgets(rows) == rows \cap old

\* purge_old_history
Purged(rows) == rows \ old

\* has_node_trust: p finds an equal change among the rows.
HasNodeTrust(n, p, r, rows) ==
    \E s \in rows : Same(r, s) /\ (Listed[r[1]] => s \in Kept(n, p))

LookUp(n, p, r, rows) ==
    IF HasNodeTrust(n, p, r, rows)
      THEN Do(n, p, Idle) /\ UNCHANGED again
      ELSE /\ Do(n, p, At("read", r))
           /\ again' = IF UnderWay(n, p, r) \/ Unrecognised(n, p, r)
                         THEN [again EXCEPT ![n] = @ \cup {r[1]}] ELSE again

\* A row that cannot be read ends a handler, or what a worker is about, with an error.
Raise(n, p, r) ==
    /\ ~IsReadable(n, p)
    /\ Do(n, p, Idle)
    /\ lost' = lost \cup {<<r[1], n>>}

\* A change begins with a reading of the history, for purge_old_history.  If there is
\* nothing to purge, that of has_node_trust is the same.
Check(n, p, r) ==
    \/ /\ IsReadable(n, p)
       /\ Refresh(n, p, Purged(Seen(n, p)))
       /\ IF Seen(n, p) \cap old = {} THEN LookUp(n, p, r, Seen(n, p))
                                     ELSE Do(n, p, At("purge", r)) /\ UNCHANGED again
       /\ UNCHANGED lost
    \/ Raise(n, p, r) /\ UNCHANGED <<memory, asLists, current, again>>

\* change_node_trust
Notice(n, p, c) ==
    /\ <<n, p, c>> \in due
    /\ act[n][p] = Idle
    /\ due' = due \ {<<n, p, c>>}
    /\ Check(n, p, <<c, n, p>>)
    /\ UNCHANGED <<trust, recent, garbled, full, waiting, net, old, missed, stale, clobbered>>

\* node_trust_change
Receive(n, r) ==
    /\ [row |-> r, to |-> n] \in net
    /\ IsFree(n)
    /\ net' = net \ {[row |-> r, to |-> n]}
    /\ Check(n, "server", r)
    /\ UNCHANGED <<trust, recent, garbled, full, waiting, due, old, missed, stale, clobbered>>

\* set: the file is truncated when it is opened, ...
Truncate(n, p) ==
    /\ act[n][p].pc = "purge"
    /\ recent' = [recent EXCEPT ![n] = {}]
    /\ garbled' = garbled \ {n}
    /\ current' = [current EXCEPT ![n] = {}]
    /\ missed' = [missed EXCEPT ![n] = @ \cup Unread(n, p)]
    /\ Do(n, p, At("rewrite", act[n][p].row))
    /\ UNCHANGED <<trust, memory, full, asLists, waiting, net, due, old, again, stale, clobbered,
                   lost>>

\* ... and written to from its start, over the rows that another wrote there since.
Rewrite(n, p) ==
    /\ act[n][p].pc = "rewrite"
    /\ IF memory[n][p] = {} THEN UNCHANGED <<recent, garbled>>
         ELSE /\ recent' = [recent EXCEPT ![n] = memory[n][p]]
              /\ \/ UNCHANGED garbled
                 \/ ~(recent[n] \subseteq memory[n][p]) /\ garbled' = garbled \cup {n}
    /\ current' = [current EXCEPT ![n] = {p}]
    /\ missed' = [missed EXCEPT ![n] = @ \cup (recent[n] \ memory[n][p])]
    /\ Do(n, p, At("find", act[n][p].row))
    /\ UNCHANGED <<trust, memory, full, asLists, waiting, net, due, old, again, stale, clobbered,
                   lost>>

Find(n, p) ==
    LET r == act[n][p].row IN
    /\ act[n][p].pc = "find"
    /\ \/ /\ IsReadable(n, p)
          /\ Refresh(n, p, Seen(n, p))
          /\ LookUp(n, p, r, Seen(n, p))
          /\ UNCHANGED lost
       \/ Raise(n, p, r) /\ UNCHANGED <<memory, asLists, current, again>>
    /\ UNCHANGED <<trust, recent, garbled, full, waiting, net, due, old, missed, stale, clobbered>>

\* add_trust_to_node reads the trust of the node once it is there ...
View(n, p, r) ==
    /\ About[r[1]] \in Trusted(n)
    /\ Do(n, p, [pc |-> "write", row |-> r, view |-> trust[n]])
    /\ stale' = [stale EXCEPT ![n] = @ \ {p}]

Read(n, p) ==
    /\ act[n][p].pc = "read"
    /\ View(n, p, act[n][p].row)
    /\ UNCHANGED <<trust, historyFile, waiting, net, due, old, again, missed, clobbered, lost>>

\* ... for which a handler sleeps, a worker too but with nothing else to do, ...
Wait(n) ==
    /\ act[n]["server"].pc = "read"
    /\ About[act[n]["server"].row[1]] \notin Trusted(n)
    /\ waiting' = [waiting EXCEPT ![n] = @ \cup {act[n]["server"].row}]
    /\ Do(n, "server", Idle)
    /\ UNCHANGED <<trust, historyFile, net, due, old, again, missed, stale, clobbered, lost>>

Resume(n, r) ==
    /\ r \in waiting[n]
    /\ IsFree(n)
    /\ View(n, "server", r)
    /\ waiting' = [waiting EXCEPT ![n] = @ \ {r}]
    /\ UNCHANGED <<trust, historyFile, net, due, old, again, missed, clobbered, lost>>

\* The mutant changes the trust in the view of the process, and not in the file.
Unchanged(view, m, d) == view

Raised(view, m, d) == [view EXCEPT ![m] = @ + d]

\* ... and writes the trust of all nodes, as it read it, with this one changed.
Write(n, p) ==
    LET a == act[n][p]
        c == a.row[1]
    IN
    /\ a.pc = "write"
    /\ trust' = [trust EXCEPT ![n] = Raised(a.view, About[c], Amount[c])]
    /\ clobbered' = IF p \in stale[n] THEN clobbered \cup {n} ELSE clobbered
    /\ stale' = [stale EXCEPT ![n] = {q \in Proc \ {p} : act[n][q].pc = "write"}]
    /\ Do(n, p, At("record", a.row))
    /\ UNCHANGED <<historyFile, waiting, net, due, old, again, missed, lost>>

\* The mutant sends the change back to the one it is about only.
Concerned(n, r) == {About[r[1]]} \ {n}

\* The one that noticed a change sends it to all the others.
Addressees(n, r) == IF r[2] = n THEN Node \ {n} ELSE {}

\* NodeTrustHistoryManager.add reads the history again, ...
Record(n, p) ==
    LET r == act[n][p].row IN
    /\ act[n][p].pc = "record"
    /\ \/ /\ IsReadable(n, p)
          /\ Refresh(n, p, Seen(n, p))
          /\ Do(n, p, At("append", r))
          /\ UNCHANGED <<clobbered, lost>>
       \/ /\ Raise(n, p, r)
          /\ clobbered' = clobbered \cup {n}
          /\ UNCHANGED <<memory, asLists, current>>
    /\ UNCHANGED <<trust, recent, garbled, full, waiting, net, due, old, again, missed, stale>>

\* ... and appends the row to the file and to the memory, which may not be the same by then.
Append(n, p) ==
    LET r == act[n][p].row IN
    /\ act[n][p].pc = "append"
    /\ recent' = [recent EXCEPT ![n] = @ \cup {r}]
    /\ full' = [full EXCEPT ![n] = @ \cup {r}]
    /\ memory' = [memory EXCEPT ![n][p] = @ \cup {r}]
    /\ asLists' = [asLists EXCEPT ![n][p] = @ \cup {r}]
    /\ current' = [current EXCEPT ![n] = {p}]
    /\ missed' = [missed EXCEPT ![n] = @ \cup Unread(n, p)]
    /\ net' = net \cup {[row |-> r, to |-> m] : m \in Addressees(n, r)}
    /\ Do(n, p, Idle)
    /\ UNCHANGED <<trust, garbled, waiting, due, old, again, stale, clobbered, lost>>

\* get_node_trust: somebody asks the server of n for its nodes.
Ask(n, m) ==
    /\ IsFree(n)
    /\ m \notin Trusted(n)
    /\ trust' = [trust EXCEPT ![n][m] = BasicTrust]
    /\ stale' = [stale EXCEPT ![n] = {q \in Proc : act[n][q].pc = "write"}]
    /\ UNCHANGED <<historyFile, act, waiting, net, due, old, again, missed, clobbered, lost>>
-----------------------------------------------------------------------------
\* By how much some changes raise a trust.
Total(S) == MapThenSumSet(LAMBDA r : Amount[r[1]], S)

Init ==
    /\ trust = [n \in Node |-> [m \in Node |->
                   IF m \in Known[n] THEN BasicTrust + Total({r \in Past : About[r[1]] = m})
                                     ELSE NoTrust]]
    /\ recent = [n \in Node |-> Past]
    /\ garbled = {}
    /\ memory = [n \in Node |-> [p \in Proc |-> Past]]
    /\ current = [n \in Node |-> Proc]
    /\ full = [n \in Node |-> Past]
    /\ asLists = [n \in Node |-> [p \in Proc |-> {}]]
    /\ act = [n \in Node |-> [p \in Proc |-> Idle]]
    /\ waiting = [n \in Node |-> {}]
    /\ net = {}
    /\ due \in Plans
    /\ old = {}
    /\ again = [n \in Node |-> {}]
    /\ missed = [n \in Node |-> {}]
    /\ stale = [n \in Node |-> {}]
    /\ clobbered = {}
    /\ lost = {}

\* What process p of n is about goes on.
Step(n, p) ==
    \/ Truncate(n, p) \/ Rewrite(n, p) \/ Find(n, p)
    \/ Read(n, p) \/ Write(n, p)
    \/ Record(n, p) \/ Append(n, p)

Server(n) == Step(n, "server") \/ Wait(n) \/ \E r \in Row : Receive(n, r) \/ Resume(n, r)

Next ==
    \/ \E n \in Node : Server(n) \/ Step(n, "worker") \/ \E m \in Node : Ask(n, m)
    \/ \E s \in due : Notice(s[1], s[2], s[3])
    \/ \E m \in net : Lose(m)
    \/ \E r \in Ageing : GrowOld(r)

\* Servers and workers run, and what has been sent is handled.  Nothing makes anybody notice
\* a change, or ask for the nodes.
Fairness == \A n \in Node : WF_vars(Server(n)) /\ WF_vars(Step(n, "worker"))

Spec == Init /\ [][Next]_vars
FairSpec == Spec /\ Fairness
-----------------------------------------------------------------------------
(* Properties *)

\* A node applies a change once, although several nodes noticed it and sent it, each with
\* a time of its own.  It may apply it again
\*   - if a second copy is looked at while the first is being applied, by the other process
\*     or by a handler that waits for the trust of the node to be there,
\*   - if it comes more than five seconds after the first was noticed,
\*   - if the row of the first was missed: one process wrote it between the reading and the
\*     rewriting of the history, or the reading and the appending, by the other,
\*   - if it is looked at between the truncation and the rewriting, or
\*   - if the data of the change is a list and the history has been read from its file since.
AppliedOnce ==
    \A n \in Node : \A r, s \in full[n] : r # s /\ Same(r, s) => r[1] \in again[n]

Applied(n) ==
    full[n] \cup {act[n][p].row : p \in {q \in Proc : act[n][q].pc \in {"record", "append"}}}

\* The trust of a node is its first trust and the changes in the full history, or about to
\* be written there, unless one process wrote the trust of all nodes as it was before
\* another one changed it, or found the history garbled when it had changed the trust.
TrustIsHistory ==
    \A n \in Node \ clobbered : \A m \in Trusted(n) :
        trust[n][m] = BasicTrust + Total({r \in Applied(n) : About[r[1]] = m})

Quiet == net = {} /\ \A n \in Node : waiting[n] = {} /\ \A p \in Proc : act[n][p] = Idle

\* When all is done, two nodes give a node the same trust, unless one of them lost an
\* update, was not told of a change or failed to read its history for it, or applied one again.
NodesAgree ==
    Quiet => \A m, n \in Node \ clobbered : \A x \in Trusted(m) \cap Trusted(n) :
        \/ trust[m][x] = trust[n][x]
        \/ \E c \in Change : About[c] = x /\ c \in again[m] \cup again[n]
        \/ \E c \in Change : About[c] = x /\ {<<c, m>>, <<c, n>>} \cap lost # {}

\* A change that some node has applied is applied by every node in the end, unless the
\* request to it fails, it cannot read its history, or it has no trust of the node the change
\* is about.
ChangeArrives ==
    []<>\A n \in Node, c \in Change :
          \/ \A m \in Node : \A r \in full[m] : r[1] # c
          \/ \E r \in full[n] : r[1] = c
          \/ <<c, n>> \in lost
          \/ About[c] \notin Trusted(n)

\* test/network/service_test.py:82 changes the trust of a node that was added without one,
\* and expects 5001 at line 90.  But add_trust_to_node waits for the trust to be there, and
\* nothing adds it.
ChangeIsMade == \A n \in Node : waiting[n] # {} ~> waiting[n] = {}
=============================================================================
