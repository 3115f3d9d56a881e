------------------------------ MODULE PoolFile ------------------------------
(***************************************************************************)
(* The file of transactions to verify, and the processes of a node that    *)
(* share it.                                                               *)
(*                                                                         *)
(* Every process keeps the entries in memory, with a stamp (the time and   *)
(* the size of the file) taken when it last read or wrote the file.  An    *)
(* operation first reads the file again if its stamp has changed, without  *)
(* holding the lock; an add, a vote or a pop then takes the lock, writes,  *)
(* takes the stamp and unlocks.  The lock is a file beside the pool file:  *)
(* one looks whether it exists, and then creates it.                       *)
(*                                                                         *)
(* Grain.  An action is one operation on one of the two files.  The server *)
(* is one process with several threads of control, which are greenlets:    *)
(* they share its memory, and another one runs only while one sleeps,      *)
(* waiting for the lock.                                                   *)
(*                                                                         *)
(* What a file holds is written when it is closed: the buffer is larger    *)
(* than the pool of a simulation.                                          *)
(***************************************************************************)
EXTENDS FiniteSets, Integers

CONSTANTS
    Process,     \* the processes of a node
    Thread,      \* their threads of control
    ProcessOf,   \* ProcessOf[a]: the process of thread a
    Tx,          \* the transactions
    Voter,       \* the validators whose votes are recorded
    NoEntry,     \* stands for the entry of a transaction that is not in the pool
    Calls,       \* Calls[a]: the operations that thread a may call
    Budget,      \* Budget[a]: a bound on the number of its calls
    Mortal       \* the processes that may die, once, without a restart

ASSUME ProcessAssumption == ProcessOf \in [Thread -> Process]
ASSUME TxAssumption == Tx # {} /\ Voter # {}
ASSUME NoEntryAssumption == \A s \in SUBSET Voter : s # NoEntry
ASSUME CallsAssumption ==
    Calls \in [Thread -> SUBSET [kind : {"add", "record", "pop", "find"}, tx : Tx, voter : Voter]]
ASSUME BudgetAssumption == Budget \in [Thread -> Nat]
ASSUME MortalAssumption == Mortal \subseteq Process

VARIABLES
    file,        \* file[t]: the entry of t that the last write left
    cut,         \* the threads that have truncated the file, not yet written to since
    garbled,     \* whether a row is a mixture of two
    lock,        \* whether the lock file exists
    memory,      \* memory[p]: the entries in the memory of p
    fresh,       \* fresh[p]: the stamp of p is that of the file
    pc,          \* pc[a]: where thread a stands
    call,        \* call[a]: its operation
    sure,        \* sure[a]: it has found the entry without the vote it is to record
    left,        \* left[a]: how often it may still call an operation
    \* History, that no step of the code reads:
    steady,      \* the threads for which memory and file are as they last saw them
    overlapped,  \* whether one acted on what it saw before another's write
    crossed,     \* whether one took the lock that another had
    dead         \* the processes that died

fileVars == <<file, cut, garbled>>
viewVars == <<memory, fresh>>
historyVars == <<steady, overlapped>>
vars == <<file, cut, garbled, lock, memory, fresh, pc, call, sure, left, steady, overlapped,
          crossed, dead>>
-----------------------------------------------------------------------------
(* Types *)

Entry == {NoEntry} \cup SUBSET Voter
Empty == [t \in Tx |-> NoEntry]

\* The steps of an operation, in the order of the code.
Refreshing == {"refresh", "load", "sleeping", "read", "stamp"}
Holding == {"change", "append", "write", "restamp", "unlock", "remove",
            "recover", "discard"}
Pc == {"idle", "dead", "go", "take", "waiting", "touch"} \cup Refreshing \cup Holding

Call == [kind : {"add", "record", "pop", "find"}, tx : Tx, voter : Voter]

TypeOK ==
    /\ file \in [Tx -> Entry]
    /\ cut \subseteq Thread
    /\ garbled \in BOOLEAN
    /\ lock \in BOOLEAN
    /\ memory \in [Process -> [Tx -> Entry]]
    /\ fresh \in [Process -> BOOLEAN]
    /\ pc \in [Thread -> Pc]
    /\ call \in [Thread -> Call]
    /\ sure \in [Thread -> BOOLEAN]
    /\ left \in [Thread -> Nat]
    /\ steady \subseteq Thread
    /\ overlapped \in BOOLEAN
    /\ crossed \in BOOLEAN
    /\ dead \subseteq Process
-----------------------------------------------------------------------------
Peers(a) == {b \in Thread \ {a} : ProcessOf[b] = ProcessOf[a]}

\* Only a greenlet that sleeps lets the others of its process run.
MayRun(a) == \A b \in Peers(a) : pc[b] \in {"idle", "sleeping", "waiting"}

Goto(a, step) == pc' = [pc EXCEPT ![a] = step]

NoCall == CHOOSE c \in Call : TRUE

Return(a) ==
    /\ Goto(a, "idle")
    /\ call' = [call EXCEPT ![a] = NoCall]
    /\ sure' = [sure EXCEPT ![a] = FALSE]

\* What reading the file gives.
Rows == IF cut = {} THEN file ELSE Empty

\* The mutant changes the file only.
RememberNothing(a, e) == UNCHANGED memory

\* The entry that a is about becomes e in the memory of its process.
Remember(a, e) ==
    memory' = [memory EXCEPT ![ProcessOf[a]] = [@ EXCEPT ![call[a].tx] = e]]

Own(a) == memory[ProcessOf[a]][call[a].tx]

\* A greenlet of the same process has an entry in memory that it has not written yet.
Pending(a) == \E b \in Peers(a) : pc[b] = "waiting" /\ call[b].kind = "add"

\* The history is not kept on after an overlap.
History(seers, overlap) ==
    /\ overlapped' = (overlapped \/ overlap)
    /\ steady' = IF overlapped' THEN {} ELSE seers

\* a has seen that memory and file are the same.
Looked(a) == History(IF Pending(a) THEN steady \ {a} ELSE steady \cup {a}, FALSE)

\* The mutant never reads the file again.
AlwaysUpToDate(a) == TRUE

\* is_up_to_date, update_cache: time and size tell every write.
IsUpToDate(a) == fresh[ProcessOf[a]]

Stamped(a) == fresh' = [fresh EXCEPT ![ProcessOf[a]] = TRUE]

\* a writes: no stamp is that of the file any more.
Touched(a) ==
    /\ fresh' = [p \in Process |-> FALSE]
    /\ History({a}, a \notin steady)
-----------------------------------------------------------------------------
(* The refresh that every operation begins with *)

Begin(a, c) ==
    /\ pc[a] = "idle"
    /\ left[a] > 0
    /\ MayRun(a)
    /\ c \in Calls[a]
    /\ Goto(a, "refresh")
    /\ call' = [call EXCEPT ![a] = c]
    /\ left' = [left EXCEPT ![a] = @ - 1]
    /\ UNCHANGED <<fileVars, lock, viewVars, sure, historyVars, crossed, dead>>

\* TransactionToVerifyManager.refresh
Refresh(a) ==
    /\ pc[a] = "refresh"
    /\ \/ IsUpToDate(a) /\ Goto(a, "go") /\ Looked(a)
       \/ ~IsUpToDate(a) /\ Goto(a, "load") /\ UNCHANGED historyVars
    /\ UNCHANGED <<fileVars, lock, viewVars, call, sure, left, crossed, dead>>

\* TransactionStorage.load waits until there is no lock, but does not take it.
WaitForLock(a) ==
    /\ \/ pc[a] = "load" /\ lock /\ Goto(a, "sleeping")
       \/ pc[a] = "load" /\ ~lock /\ Goto(a, "read")
       \/ pc[a] = "sleeping" /\ ~lock /\ MayRun(a) /\ Goto(a, "read")
    /\ UNCHANGED <<fileVars, lock, viewVars, call, sure, left, historyVars, crossed, dead>>

\* A garbled row raises; a file that another is about to write reads as empty.
Read(a) ==
    /\ pc[a] = "read"
    /\ IF garbled
         THEN Return(a) /\ UNCHANGED <<memory, historyVars>>
         ELSE /\ Goto(a, "stamp")
              /\ UNCHANGED <<call, sure>>
              /\ memory' = [memory EXCEPT ![ProcessOf[a]] = Rows]
              /\ History((steady \ Peers(a)) \cup {a}, cut # {})
    /\ UNCHANGED <<fileVars, lock, fresh, left, crossed, dead>>

\* The stamp is taken after the file was read, and may be that of a later write.
StampRead(a) ==
    /\ pc[a] = "stamp"
    /\ Stamped(a)
    /\ History(steady, a \notin steady)
    /\ Goto(a, "go")
    /\ UNCHANGED <<fileVars, lock, memory, call, sure, left, crossed, dead>>
-----------------------------------------------------------------------------
(* What an operation does with the memory *)

\* find, get, all
Find(a) ==
    /\ pc[a] = "go"
    /\ call[a].kind = "find"
    /\ Return(a)
    /\ UNCHANGED <<fileVars, lock, viewVars, left, historyVars, crossed, dead>>

\* add puts the entry in memory before it waits for the lock.
AddEntry(a) ==
    /\ pc[a] = "go"
    /\ call[a].kind = "add"
    /\ Remember(a, {})
    /\ History(steady \ Peers(a), FALSE)
    /\ Goto(a, "take")
    /\ UNCHANGED <<fileVars, lock, fresh, call, sure, left, crossed, dead>>

\* add_verification_result raises if the entry is not there, returns if it has the
\* vote, and refreshes again.
FindVote(a) ==
    /\ pc[a] = "go"
    /\ call[a].kind = "record" /\ ~sure[a]
    /\ IF Own(a) = NoEntry \/ call[a].voter \in Own(a)
         THEN Return(a)
         ELSE /\ Goto(a, "refresh")
              /\ sure' = [sure EXCEPT ![a] = TRUE]
              /\ UNCHANGED call
    /\ UNCHANGED <<fileVars, lock, viewVars, left, historyVars, crossed, dead>>

GoOn(a) ==
    /\ pc[a] = "go"
    /\ call[a].kind = "pop" \/ sure[a]
    /\ Goto(a, "take")
    /\ UNCHANGED <<fileVars, lock, viewVars, call, sure, left, historyVars, crossed, dead>>
-----------------------------------------------------------------------------
(* What it does with the lock *)

\* wait_for_set_lock: the lock file is looked for ...
Take(a) ==
    /\ \/ pc[a] = "take" /\ lock /\ Goto(a, "waiting")
       \/ pc[a] = "take" /\ ~lock /\ Goto(a, "touch")
       \/ pc[a] = "waiting" /\ ~lock /\ MayRun(a) /\ Goto(a, "touch")
    /\ UNCHANGED <<fileVars, lock, viewVars, call, sure, left, historyVars, crossed, dead>>

\* The mutant waits only.
SetNoLock == UNCHANGED lock

SetLock == lock' = TRUE

\* ... and created, whoever has created it in between.
Touch(a) ==
    /\ pc[a] = "touch"
    /\ SetLock
    /\ crossed' = (crossed \/ lock)
    /\ Goto(a, IF call[a].kind = "add" THEN "append" ELSE "change")
    /\ UNCHANGED <<fileVars, viewVars, call, sure, left, historyVars, dead>>

\* The mutant opens the file with mode w.
Overwritten(t) == [Empty EXCEPT ![t] = {}]

Extended(t) == [Rows EXCEPT ![t] = {}]

\* TransactionStorage.update: a row at the end of the file, the last one of a key counts.
Append(a) ==
    /\ pc[a] = "append"
    /\ file' = Extended(call[a].tx)
    /\ cut' = {}
    /\ Touched(a)
    /\ Goto(a, "restamp")
    /\ UNCHANGED <<garbled, lock, memory, call, sure, left, crossed, dead>>

\* The mutant's error path keeps the lock.
KeepsLock == "idle"

UnlocksToo == "recover"

\* The entry to change is not in memory any more: KeyError.
ChangeFails(a) ==
    /\ pc[a] = "change"
    /\ Own(a) = NoEntry
    /\ Goto(a, UnlocksToo)
    /\ UNCHANGED <<fileVars, lock, viewVars, call, sure, left, historyVars, crossed, dead>>

\* The mutant takes the transaction for the voter.
VoteOfTx(a) == IF call[a].kind = "pop" THEN NoEntry ELSE Own(a) \cup {call[a].tx}

Changed(a) == IF call[a].kind = "pop" THEN NoEntry ELSE Own(a) \cup {call[a].voter}

\* pop and add_verification_result change the entry, and dump opens the file.
Change(a) ==
    /\ pc[a] = "change"
    /\ Own(a) # NoEntry
    /\ Remember(a, Changed(a))
    /\ cut' = cut \cup {a}
    /\ Touched(a)
    /\ Goto(a, "write")
    /\ UNCHANGED <<file, garbled, lock, call, sure, left, crossed, dead>>

\* The rows are written at the start of the file: over those that another wrote after
\* the truncation, if any.
Write(a) ==
    /\ pc[a] = "write"
    /\ \/ file' = memory[ProcessOf[a]] /\ UNCHANGED garbled
       \/ a \notin cut /\ garbled' = TRUE /\ UNCHANGED file
    /\ cut' = {}
    /\ Touched(a)
    /\ Goto(a, "restamp")
    /\ UNCHANGED <<lock, memory, call, sure, left, crossed, dead>>

StampWritten(a) ==
    /\ pc[a] = "restamp"
    /\ Stamped(a)
    /\ History(steady, a \notin steady)
    /\ Goto(a, "unlock")
    /\ UNCHANGED <<fileVars, lock, memory, call, sure, left, crossed, dead>>

\* unlock: if the lock file exists ...
Unlock(a) ==
    /\ pc[a] \in {"unlock", "recover"}
    /\ IF lock
         THEN /\ Goto(a, IF pc[a] = "unlock" THEN "remove" ELSE "discard")
              /\ UNCHANGED <<call, sure>>
         ELSE Return(a)
    /\ UNCHANGED <<fileVars, lock, viewVars, left, historyVars, crossed, dead>>

\* ... it is removed.  If another was quicker that raises, and the handler of the error
\* unlocks once more.
Remove(a) ==
    /\ pc[a] \in {"remove", "discard"}
    /\ lock' = FALSE
    /\ IF pc[a] = "remove" /\ ~lock
         THEN Goto(a, "recover") /\ UNCHANGED <<call, sure>>
         ELSE Return(a)
    /\ UNCHANGED <<fileVars, viewVars, left, historyVars, crossed, dead>>
-----------------------------------------------------------------------------
\* A process is killed: nobody starts it again, and its lock stays.
Die(p) ==
    /\ p \in Mortal \ dead
    /\ dead' = dead \cup {p}
    /\ pc' = [a \in Thread |-> IF ProcessOf[a] = p THEN "dead" ELSE pc[a]]
    /\ UNCHANGED <<fileVars, lock, viewVars, call, sure, left, historyVars, crossed>>

Init ==
    /\ file = Empty
    /\ cut = {}
    /\ garbled = FALSE
    /\ lock = FALSE
    /\ memory = [p \in Process |-> Empty]
    /\ fresh = [p \in Process |-> TRUE]
    /\ pc = [a \in Thread |-> "idle"]
    /\ call = [a \in Thread |-> NoCall]
    /\ sure = [a \in Thread |-> FALSE]
    /\ left = Budget
    /\ steady = {}
    /\ overlapped = FALSE
    /\ crossed = FALSE
    /\ dead = {}

\* The operation of a goes on.
Step(a) ==
    \/ Refresh(a) \/ WaitForLock(a) \/ Read(a) \/ StampRead(a)
    \/ Find(a) \/ AddEntry(a) \/ FindVote(a) \/ GoOn(a)
    \/ Take(a) \/ Touch(a) \/ Append(a) \/ ChangeFails(a) \/ Change(a) \/ Write(a)
    \/ StampWritten(a) \/ Unlock(a) \/ Remove(a)

Next ==
    \/ \E a \in Thread : Step(a) \/ \E c \in Calls[a] : Begin(a, c)
    \/ \E p \in Process : Die(p)

\* Every process runs.  Nothing makes one call an operation.
Fairness == \A a \in Thread : WF_vars(Step(a))

Spec == Init /\ [][Next]_vars
FairSpec == Spec /\ Fairness
-----------------------------------------------------------------------------
(* Properties *)

\* What may go wrong has gone wrong: an operation acted on what it had read before
\* another one wrote, or a process died in the middle of a write.
Void == overlapped \/ \E a \in cut : pc[a] = "dead"

Pool == INSTANCE TxPool WITH
    entries <- IF Void THEN Empty ELSE file,
    void <- Void

\* Until then the pool is what TxVoting takes it for: every change of the file is one
\* add, one vote or one pop, made to what all the others left.
WritesOneByOne == Pool!Spec

\* Until then a process whose stamp is current has in memory what is in the file, so
\* that no stamp ever hides an entry or a vote from it.
SeesFile ==
    ~Void => \A p \in Process :
        fresh[p] /\ (\A a \in Thread : ProcessOf[a] = p => pc[a] = "idle") => memory[p] = file

\* One that refuses a vote as being on an unknown transaction, having read the file
\* since it last changed, is right: the transaction is not in the pool.
RefusesRightly ==
    [][\A a \in Thread :
          pc[a] = "go" /\ call[a].kind = "record" /\ pc'[a] = "idle" /\ a \in steady /\ ~Void
              => file[call[a].tx] = NoEntry \/ call[a].voter \in file[call[a].tx]]_vars

\* As long as nobody created the lock file over another's, it excludes: at most one
\* thread is between taking and removing it, and the file is there all that time.
LockExcludes ==
    ~crossed => \A a, b \in Thread :
        pc[a] \in Holding => lock /\ (pc[b] \in Holding => a = b)

\* An operation ends, by a return or an error, unless a process died and left its lock.
OperationEnds == \A a \in Thread : []<>(pc[a] \in {"idle", "dead"} \/ (dead # {} /\ lock))
=============================================================================
