----------------------------- MODULE StoreFile -----------------------------
(***************************************************************************)
(* The stores of a node, all but the pool of transactions to verify: one   *)
(* file each, shared by the processes of the node.                         *)
(*                                                                         *)
(* As with the pool, a process has the rows in memory and a stamp of the   *)
(* file, and reads the file again if the stamp has changed.  But the file  *)
(* is locked by flock, when it has been opened: for a reading too, after   *)
(* the truncation if it is opened to be rewritten, and not for longer than *)
(* the process lives.  flock blocks the process with all its greenlets, so *)
(* that a process is one thread of control here.                           *)
(*                                                                         *)
(* Grain.  An action is one operation on the file: open, lock, read or     *)
(* write, stamp and unlock.  A store is one of the classes below; what it  *)
(* holds is given by the operations it shows the effect of.  Rows that are *)
(* written fill no more than a buffer, and a rewriting other than a clear  *)
(* writes some row.                                                        *)
(***************************************************************************)
EXTENDS Integers

CONSTANTS
    Process,   \* the processes of a node
    Nobody,    \* stands for no process
    Classes,   \* the stores that are looked at, each by itself
    Budget,    \* Budget[p]: a bound on the operations that p calls
    Mortal     \* the processes that may die, once, without a restart

ASSUME NobodyAssumption == Nobody \notin Process
ASSUME BudgetAssumption == Budget \in [Process -> Nat]
ASSUME MortalAssumption == Mortal \subseteq Process
-----------------------------------------------------------------------------
(* The operations of a manager that write its store:                       *)
(*   append   refresh, add to the memory, add a row to the file            *)
(*   change   refresh, change the memory, rewrite the file                 *)
(*   set      refresh, replace the memory, rewrite the file                *)
(*   replace  the same without the refresh                                 *)
(*   clear    replace by nothing: nothing is written after the truncation  *)
(*   log      add a row to the file, with no memory of it                  *)

BlockchainManager == {"append", "replace"}
NodeManager == {"append", "change"}
ValidatorManager == {"set"}
NodeTrust == {"append", "change"}
TransactionVerifiedManager == {"append", "change"}
ValidatorAgreementResult == {"append", "clear"}
ValidatorAgreement == {"replace", "clear"}
ValidatorAgreementInfoManager == {"change"}
NodeTrustHistoryManager == {"append", "change"}
RejectedTransactionManager == {"append"}

\* The stores: with the operations of their managers, and whether rows are in the file
\* before the lock is released.
BlocksStorage == [flushed |-> TRUE, calls |-> BlockchainManager]
NodeStorage == [flushed |-> TRUE, calls |-> NodeManager]
NodeTrustStorage == [flushed |-> TRUE, calls |-> NodeTrust]
TransactionVerifiedStorage == [flushed |-> FALSE, calls |-> TransactionVerifiedManager]
ValidatorStorage == [flushed |-> TRUE, calls |-> ValidatorManager]
ValidatorAgreementStorage == [flushed |-> TRUE, calls |-> ValidatorAgreement]
ValidatorAgreementInfoStorage == [flushed |-> TRUE, calls |-> ValidatorAgreementInfoManager]
ValidatorAgreementResultStorage == [flushed |-> TRUE, calls |-> ValidatorAgreementResult]
NodeTrustHistory == [flushed |-> TRUE, calls |-> NodeTrustHistoryManager]
NodeTrustFullHistory == [flushed |-> TRUE, calls |-> {"log"}]
RejectedTransactions == [flushed |-> TRUE, calls |-> RejectedTransactionManager]
TransactionTime == [flushed |-> TRUE, calls |-> {"log"}]

ASSUME ClassesAssumption == Classes \subseteq
    {BlocksStorage, NodeStorage, NodeTrustStorage, TransactionVerifiedStorage,
     ValidatorStorage, ValidatorAgreementStorage, ValidatorAgreementInfoStorage,
     ValidatorAgreementResultStorage, NodeTrustHistory, NodeTrustFullHistory,
     RejectedTransactions, TransactionTime}

\* What is read from the file must be a dictionary with all the keys.
HasKeys(s) == s.calls = ValidatorAgreementInfoManager

\* Those that only ever grow.
GrowsOnly(s) == s.calls \subseteq {"append", "log"}
-----------------------------------------------------------------------------
VARIABLES
    store,       \* the class looked at
    file,        \* the effects in the file that the last write left
    cut,         \* the processes that have truncated it, not yet written to since
    garbled,     \* whether a row is a mixture of two
    holder,      \* the process that has locked it
    memory,      \* memory[p]: the effects in the memory of p
    fresh,       \* fresh[p]: the stamp of p is that of the file
    pc,          \* pc[p]: where p stands
    call,        \* call[p]: its operation
    left,        \* left[p]: how many p may still call
    \* History, that no step of the code reads:
    steady,      \* the processes for which memory and file are as they last saw them
    overlapped,  \* whether one acted on what it saw before another's write, wrote to a file
                 \* that another had truncated, or died before it wrote one
    done         \* the effects of the operations that returned

fileVars == <<file, cut, garbled>>
vars == <<store, file, cut, garbled, holder, memory, fresh, pc, call, left, steady,
          overlapped, done>>

Effect == UNION {{p} \X (0..Budget[p]) : p \in Process}
Calls == {"read", "append", "change", "set", "replace", "clear", "log"}
Pc == {"idle", "dead", "refresh", "load", "read", "stamp", "lacks", "go", "wait", "write", "restamp"}

TypeOK ==
    /\ store \in Classes
    /\ file \subseteq Effect
    /\ cut \subseteq Process
    /\ garbled \in BOOLEAN
    /\ holder \in Process \cup {Nobody}
    /\ memory \in [Process -> SUBSET Effect]
    /\ fresh \in [Process -> BOOLEAN]
    /\ pc \in [Process -> Pc]
    /\ call \in [Process -> Calls]
    /\ left \in [Process -> Nat]
    /\ steady \subseteq Process
    /\ overlapped \in BOOLEAN
    /\ done \subseteq Effect
-----------------------------------------------------------------------------
\* The effect of the operation of p.
Own(p) == <<p, left[p]>>

Goto(p, step) == pc' = [pc EXCEPT ![p] = step]

Unlock == holder' = Nobody

\* The operation of p returns, or raises.
Return(p) == Goto(p, "idle") /\ done' = done \cup {Own(p)}
Raise(p) == Goto(p, "idle") /\ UNCHANGED done

\* What reading the file gives.
Rows == IF cut = {} THEN file ELSE {}

\* The history is not kept on after an overlap.
History(seers, overlap) ==
    /\ overlapped' = (overlapped \/ overlap)
    /\ steady' = IF overlapped' THEN {} ELSE seers

\* p changes the file: no stamp is that of the file any more.
Touched(p, overlap) ==
    /\ fresh' = [q \in Process |-> FALSE]
    /\ History(steady \cap {p}, overlap)

\* update_cache, by one whose memory should be the file.
Stamped(p) ==
    /\ fresh' = [fresh EXCEPT ![p] = TRUE]
    /\ History(steady, call[p] # "log" /\ p \notin steady)
-----------------------------------------------------------------------------
(* An operation, up to where it writes *)

Refreshes == {"read", "append", "change", "set"}

Begin(p, c) ==
    /\ pc[p] = "idle"
    /\ left[p] > 0
    /\ c \in store.calls \/ (c = "read" /\ store.calls # {"log"})
    /\ Goto(p, IF c \in Refreshes THEN "refresh" ELSE "go")
    /\ call' = [call EXCEPT ![p] = c]
    /\ left' = [left EXCEPT ![p] = @ - 1]
    /\ steady' = IF c \in {"replace", "clear"} /\ ~overlapped THEN steady \cup {p} ELSE steady
    /\ UNCHANGED <<store, fileVars, holder, memory, fresh, overlapped, done>>

\* The mutant never reads the file again.
AlwaysUpToDate(p) == TRUE

IsUpToDate(p) == fresh[p]

\* Manager.refresh
Refresh(p) ==
    /\ pc[p] = "refresh"
    /\ \/ IsUpToDate(p) /\ Goto(p, "go") /\ History(steady \cup {p}, FALSE)
       \/ ~IsUpToDate(p) /\ Goto(p, "load") /\ UNCHANGED <<steady, overlapped>>
    /\ UNCHANGED <<store, fileVars, holder, memory, fresh, call, left, done>>

LockToRead(p) ==
    /\ pc[p] = "load"
    /\ holder = Nobody
    /\ holder' = p
    /\ Goto(p, "read")
    /\ UNCHANGED <<store, fileVars, memory, fresh, call, left, steady, overlapped, done>>

\* The mutant does not unlock when a row cannot be read.
UnlockAfterError == UNCHANGED holder

UnlockFinally == Unlock

\* A row that is a mixture cannot be read.
ReadFails(p) ==
    /\ pc[p] = "read"
    /\ garbled
    /\ Raise(p)
    /\ UnlockFinally
    /\ UNCHANGED <<store, fileVars, memory, fresh, call, left, steady, overlapped>>

\* One that has locked the file may still read it between a truncation and a writing, ...
Read(p) ==
    /\ pc[p] = "read"
    /\ ~garbled
    /\ IF HasKeys(store) /\ cut # {}
         THEN UNCHANGED memory /\ Goto(p, "lacks")
         ELSE memory' = [memory EXCEPT ![p] = Rows] /\ Goto(p, "stamp")
    /\ History(steady \cup {p}, cut # {})
    /\ UNCHANGED <<store, fileVars, holder, fresh, call, left, done>>

\* ... and finds a key missing when it has taken the stamp.
StampRead(p) ==
    /\ \/ pc[p] = "stamp" /\ Goto(p, "go") /\ UNCHANGED done
       \/ pc[p] = "lacks" /\ Raise(p)
    /\ Stamped(p)
    /\ Unlock
    /\ UNCHANGED <<store, fileVars, memory, call, left>>
-----------------------------------------------------------------------------
(* What an operation does then *)

\* all, find, len, ...
ReadDone(p) ==
    /\ pc[p] = "go"
    /\ call[p] = "read"
    /\ Goto(p, "idle")
    /\ UNCHANGED <<store, fileVars, holder, memory, fresh, call, left, steady, overlapped,
                   done>>

\* The mutant writes the row and forgets it.
WithoutRow(p) == memory[p]

WithRow(p) == IF call[p] = "log" THEN memory[p] ELSE memory[p] \cup {Own(p)}

\* update opens the file with mode a, dump with mode w, before it is locked.
OpenToAppend(p) ==
    /\ pc[p] = "go"
    /\ call[p] \in {"append", "log"}
    /\ memory' = [memory EXCEPT ![p] = WithRow(p)]
    /\ Goto(p, "wait")
    /\ UNCHANGED <<store, fileVars, holder, fresh, call, left, steady, overlapped, done>>

\* The mutant takes the process for the row it adds.
WithProcess(p) == memory[p] \cup {p}

MemoryAfter(p) ==
    CASE call[p] = "change" -> memory[p] \cup {Own(p)}
      [] call[p] \in {"set", "replace"} -> {Own(p)}
      [] call[p] = "clear" -> {}

OpenToRewrite(p) ==
    /\ pc[p] = "go"
    /\ call[p] \in {"change", "set", "replace", "clear"}
    /\ memory' = [memory EXCEPT ![p] = MemoryAfter(p)]
    /\ IF call[p] = "clear"
         THEN file' = {} /\ UNCHANGED cut
         ELSE cut' = cut \cup {p} /\ UNCHANGED file
    /\ garbled' = FALSE
    /\ Touched(p, p \notin steady)
    /\ Goto(p, "wait")
    /\ UNCHANGED <<store, holder, call, left, done>>

\* Without a flush the stamp is taken, and the lock released, before the rows are in the
\* file.
LockToWrite(p) ==
    /\ pc[p] = "wait"
    /\ holder = Nobody
    /\ holder' = p
    /\ Goto(p, IF store.flushed /\ call[p] # "clear" THEN "write" ELSE "restamp")
    /\ UNCHANGED <<store, fileVars, memory, fresh, call, left, steady, overlapped, done>>

\* The mutant writes what is in memory.
AppendedToMemory(p) == memory[p] \cup {Own(p)}

Appended(p) == Rows \cup {Own(p)}

\* A row is appended to what is there; a rewriting starts at the start of the file, over
\* the rows that another wrote after the truncation, if any.
Write(p) ==
    /\ pc[p] = "write"
    /\ IF call[p] \in {"append", "log"}
         THEN file' = Appended(p) /\ UNCHANGED garbled
         ELSE \/ file' = memory[p] /\ UNCHANGED garbled
              \/ p \notin cut /\ garbled' = TRUE /\ UNCHANGED file
    /\ cut' = {}
    /\ Touched(p, cut \ {p} # {} \/ (call[p] \notin {"append", "log"} /\ p \notin steady))
    /\ IF store.flushed THEN Goto(p, "restamp") /\ UNCHANGED done ELSE Return(p)
    /\ UNCHANGED <<store, holder, memory, call, left>>

StampWritten(p) ==
    /\ pc[p] = "restamp"
    /\ Stamped(p)
    /\ Unlock
    /\ IF store.flushed \/ call[p] = "clear" THEN Return(p)
                                           ELSE Goto(p, "write") /\ UNCHANGED done
    /\ UNCHANGED <<store, fileVars, memory, call, left>>
-----------------------------------------------------------------------------
\* A process is killed: its lock goes with it, and what it has not written yet.
Die(p) ==
    /\ p \in Mortal
    /\ pc[p] # "dead"
    /\ Goto(p, "dead")
    /\ holder' = IF holder = p THEN Nobody ELSE holder
    /\ History(steady, p \in cut)
    /\ UNCHANGED <<store, fileVars, memory, fresh, call, left, done>>

Init ==
    /\ store \in Classes
    /\ file = {}
    /\ cut = {}
    /\ garbled = FALSE
    /\ holder = Nobody
    /\ memory = [p \in Process |-> {}]
    /\ fresh = [p \in Process |-> TRUE]
    /\ pc = [p \in Process |-> "idle"]
    /\ call = [p \in Process |-> "read"]
    /\ left = Budget
    /\ steady = {}
    /\ overlapped = FALSE
    /\ done = {}

\* The operation of p goes on.
Step(p) ==
    \/ Refresh(p) \/ LockToRead(p) \/ ReadFails(p) \/ Read(p) \/ StampRead(p) \/ ReadDone(p)
    \/ OpenToAppend(p) \/ OpenToRewrite(p) \/ LockToWrite(p) \/ Write(p) \/ StampWritten(p)

Next == \E p \in Process : Step(p) \/ Die(p) \/ \E c \in Calls : Begin(p, c)

\* Every process runs.  flock need not be fair: the operations are bounded.
Fairness == \A p \in Process : WF_vars(Step(p))

Spec == Init /\ [][Next]_vars
FairSpec == Spec /\ Fairness
-----------------------------------------------------------------------------
(* Properties *)

Atomic == INSTANCE Store WITH
    rows <- IF overlapped THEN {} ELSE file,
    void <- overlapped

\* Unless operations overlap, or one dies half-way through a rewriting, every change of a
\* store is one operation, made to what all the others left.
WritesOneByOne == Atomic!Spec

\* Until then what an idle process with a current stamp has in memory is the store.
SeesFile ==
    ~overlapped /\ store.calls # {"log"} =>
        \A p \in Process : fresh[p] /\ pc[p] = "idle" => memory[p] = file

\* A store that only grows loses nothing and is never garbled, whatever the operations
\* overlap with and whoever dies: the rows of those that returned are there, and nobody
\* has any other row in memory than those and the one it is about to write.
GrowsOnlyKeeps ==
    GrowsOnly(store) =>
        /\ ~garbled
        /\ done \subseteq file
        /\ \A p \in Process : memory[p] \subseteq file \cup {Own(p)}

\* An operation ends, by a return or an error, whoever dies with the file locked.
OperationEnds == \A p \in Process : []<>(pc[p] \in {"idle", "dead"})
=============================================================================
