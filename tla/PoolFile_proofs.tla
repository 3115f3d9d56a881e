-------------------------- MODULE PoolFile_proofs --------------------------
(***************************************************************************)
(* Theorems about PoolFile, for any processes and threads, any operations  *)
(* and any process that may die:                                           *)
(*                                                                         *)
(*   TypeCorrect         every variable keeps its type                     *)
(*   LockExclusive       the lock file excludes, until it is created twice *)
(*   StampIsTrue         a stamp hides nothing                             *)
(*   RefusalIsRight      a vote is refused for what is in the file         *)
(*   FileImplementsPool  the file implements TxPool                        *)
(*   LockIsReleased      operations never all wait for each other          *)
(*                                                                         *)
(* StampIsTrue, RefusalIsRight and FileImplementsPool until an operation   *)
(* acts on what it read before another one wrote.                          *)
(***************************************************************************)
EXTENDS PoolFile, TLAPS

USE DEF fileVars, viewVars, historyVars
-----------------------------------------------------------------------------
(* Types *)

\* The entry that an operation is to be about is one of the calls.
LEMMA NoCallType == NoCall \in Call
<1>1. PICK t \in Tx, u \in Voter : TRUE
  BY TxAssumption
<1>2. [kind |-> "add", tx |-> t, voter |-> u] \in Call
  BY <1>1 DEF Call
<1> QED
  BY <1>2 DEF NoCall

\* The entry that a thread has in memory, and what its operation makes of it.
LEMMA OwnType ==
    ASSUME TypeOK, NEW a \in Thread
    PROVE  /\ ProcessOf[a] \in Process
           /\ call[a] \in Call
           /\ call[a].tx \in Tx /\ call[a].voter \in Voter
           /\ Own(a) \in Entry
           /\ Own(a) # NoEntry => Changed(a) \in Entry
<1>1. ProcessOf[a] \in Process
  BY ProcessAssumption
<1>2. call[a] \in Call /\ call[a].tx \in Tx /\ call[a].voter \in Voter
  BY DEF TypeOK, Call
<1>3. Own(a) \in Entry
  BY <1>1, <1>2 DEF TypeOK, Own
<1>4. Own(a) # NoEntry => Changed(a) \in Entry
  BY <1>2, <1>3 DEF Changed, Entry
<1> QED
  BY <1>1, <1>2, <1>3, <1>4

\* What changes in the memory of a process is an entry.
LEMMA RememberType ==
    ASSUME TypeOK, NEW a \in Thread, NEW e \in Entry, Remember(a, e)
    PROVE  memory' \in [Process -> [Tx -> Entry]]
<1>1. ProcessOf[a] \in Process /\ call[a].tx \in Tx
  BY OwnType
<1>2. [memory[ProcessOf[a]] EXCEPT ![call[a].tx] = e] \in [Tx -> Entry]
  BY <1>1 DEF TypeOK
<1> QED
  BY <1>1, <1>2 DEF TypeOK, Remember

LEMMA RowsType == TypeOK => Rows \in [Tx -> Entry]
BY DEF TypeOK, Rows, Empty, Entry

\* The history of what the threads have seen keeps its type.
LEMMA HistoryType ==
    ASSUME TypeOK, NEW seers \in SUBSET Thread, NEW overlap \in BOOLEAN, History(seers, overlap)
    PROVE  steady' \subseteq Thread /\ overlapped' \in BOOLEAN
BY DEF TypeOK, History

LEMMA LookedType ==
    ASSUME TypeOK, NEW a \in Thread, Looked(a)
    PROVE  steady' \subseteq Thread /\ overlapped' \in BOOLEAN
BY HistoryType DEF TypeOK, Looked

LEMMA TouchedType ==
    ASSUME TypeOK, NEW a \in Thread, Touched(a)
    PROVE  /\ fresh' \in [Process -> BOOLEAN]
           /\ steady' \subseteq Thread /\ overlapped' \in BOOLEAN
<1>1. (a \notin steady) \in BOOLEAN /\ {a} \in SUBSET Thread
  OBVIOUS
<1>2. steady' \subseteq Thread /\ overlapped' \in BOOLEAN
  BY <1>1, HistoryType DEF Touched
<1> QED
  BY <1>2 DEF Touched

LEMMA StampedType ==
    ASSUME TypeOK, NEW a \in Thread, Stamped(a), History(steady, a \notin steady)
    PROVE  /\ fresh' \in [Process -> BOOLEAN]
           /\ steady' \subseteq Thread /\ overlapped' \in BOOLEAN
<1>1. (a \notin steady) \in BOOLEAN /\ steady \in SUBSET Thread
  BY DEF TypeOK
<1>2. steady' \subseteq Thread /\ overlapped' \in BOOLEAN
  BY <1>1, HistoryType
<1> QED
  BY <1>2, OwnType DEF TypeOK, Stamped

LEMMA GotoType ==
    ASSUME TypeOK, NEW a \in Thread, NEW step \in Pc, Goto(a, step)
    PROVE  pc' \in [Thread -> Pc]
BY DEF TypeOK, Goto

LEMMA ReturnType ==
    ASSUME TypeOK, NEW a \in Thread, Return(a)
    PROVE  /\ pc' \in [Thread -> Pc]
           /\ call' \in [Thread -> Call]
           /\ sure' \in [Thread -> BOOLEAN]
BY NoCallType DEF TypeOK, Return, Goto, Pc

-----------------------------------------------------------------------------
LEMMA InitType == Init => TypeOK
<1> SUFFICES ASSUME Init PROVE TypeOK
  OBVIOUS
<1>1. Empty \in [Tx -> Entry]
  BY DEF Empty, Entry
<1>2. left \in [Thread -> Nat]
  BY BudgetAssumption DEF Init
<1>3. call \in [Thread -> Call]
  BY NoCallType DEF Init
<1> QED
  BY <1>1, <1>2, <1>3 DEF Init, TypeOK, Pc

\* An operation begins: one of those that the thread may call.
LEMMA BeginType ==
    ASSUME TypeOK, NEW a \in Thread, NEW c \in Calls[a], Begin(a, c)
    PROVE  TypeOK'
<1>1. c \in Call
  BY CallsAssumption DEF Call
<1>2. pc' \in [Thread -> Pc]
  BY GotoType DEF Begin, Pc, Refreshing
<1>3. call' \in [Thread -> Call]
  BY <1>1 DEF TypeOK, Begin
<1>4. left' \in [Thread -> Nat]
  BY DEF TypeOK, Begin
<1> QED
  BY <1>2, <1>3, <1>4 DEF TypeOK, Begin

\* The steps up to where an operation holds the lock.
LEMMA RefreshingType ==
    ASSUME TypeOK, NEW a \in Thread,
           Refresh(a) \/ WaitForLock(a) \/ Read(a) \/ StampRead(a) \/ Find(a) \/ AddEntry(a)
           \/ FindVote(a) \/ GoOn(a) \/ Take(a) \/ Touch(a)
    PROVE  TypeOK'
<1> USE DEF Refreshing, Holding
<1>1. CASE Refresh(a)
  <2>1. pc' \in [Thread -> Pc]
    BY <1>1, GotoType DEF Refresh, Pc
  <2>2. steady' \subseteq Thread /\ overlapped' \in BOOLEAN
    BY <1>1, LookedType DEF Refresh, TypeOK
  <2> QED
    BY <1>1, <2>1, <2>2 DEF TypeOK, Refresh
<1>2. CASE WaitForLock(a)
  <2>1. pc' \in [Thread -> Pc]
    BY <1>2, GotoType DEF WaitForLock, Pc
  <2> QED
    BY <1>2, <2>1 DEF TypeOK, WaitForLock
<1>3. CASE Read(a)
  <2>1. CASE garbled
    <3>1. pc' \in [Thread -> Pc] /\ call' \in [Thread -> Call] /\ sure' \in [Thread -> BOOLEAN]
      BY <1>3, <2>1, ReturnType DEF Read
    <3> QED
      BY <1>3, <2>1, <3>1 DEF TypeOK, Read
  <2>2. CASE ~garbled
    <3>1. pc' \in [Thread -> Pc]
      BY <1>3, <2>2, GotoType DEF Read, Pc
    <3>2. memory' \in [Process -> [Tx -> Entry]]
      BY <1>3, <2>2, RowsType, OwnType DEF TypeOK, Read
    <3>3. (steady \ Peers(a)) \cup {a} \in SUBSET Thread /\ (cut # {}) \in BOOLEAN
      BY DEF TypeOK
    <3>4. steady' \subseteq Thread /\ overlapped' \in BOOLEAN
      BY <1>3, <2>2, <3>3, HistoryType DEF Read
    <3> QED
      BY <1>3, <2>2, <3>1, <3>2, <3>4 DEF TypeOK, Read
  <2> QED
    BY <2>1, <2>2
<1>4. CASE StampRead(a)
  <2>1. pc' \in [Thread -> Pc]
    BY <1>4, GotoType DEF StampRead, Pc
  <2>2. fresh' \in [Process -> BOOLEAN] /\ steady' \subseteq Thread /\ overlapped' \in BOOLEAN
    BY <1>4, StampedType DEF StampRead
  <2> QED
    BY <1>4, <2>1, <2>2 DEF TypeOK, StampRead
<1>5. CASE Find(a)
  <2>1. pc' \in [Thread -> Pc] /\ call' \in [Thread -> Call] /\ sure' \in [Thread -> BOOLEAN]
    BY <1>5, ReturnType DEF Find
  <2> QED
    BY <1>5, <2>1 DEF TypeOK, Find
<1>6. CASE AddEntry(a)
  <2>1. pc' \in [Thread -> Pc]
    BY <1>6, GotoType DEF AddEntry, Pc
  <2>2. memory' \in [Process -> [Tx -> Entry]]
    BY <1>6, RememberType DEF AddEntry, Entry
  <2>3. steady \ Peers(a) \in SUBSET Thread
    BY DEF TypeOK
  <2>4. steady' \subseteq Thread /\ overlapped' \in BOOLEAN
    BY <1>6, <2>3, HistoryType DEF AddEntry
  <2> QED
    BY <1>6, <2>1, <2>2, <2>4 DEF TypeOK, AddEntry
<1>7. CASE FindVote(a)
  <2>1. CASE Own(a) = NoEntry \/ call[a].voter \in Own(a)
    <3>1. pc' \in [Thread -> Pc] /\ call' \in [Thread -> Call] /\ sure' \in [Thread -> BOOLEAN]
      BY <1>7, <2>1, ReturnType DEF FindVote
    <3> QED
      BY <1>7, <3>1 DEF TypeOK, FindVote
  <2>2. CASE ~(Own(a) = NoEntry \/ call[a].voter \in Own(a))
    <3>1. pc' \in [Thread -> Pc]
      BY <1>7, <2>2, GotoType DEF FindVote, Pc
    <3> QED
      BY <1>7, <2>2, <3>1 DEF TypeOK, FindVote
  <2> QED
    BY <2>1, <2>2
<1>8. CASE GoOn(a)
  <2>1. pc' \in [Thread -> Pc]
    BY <1>8, GotoType DEF GoOn, Pc
  <2> QED
    BY <1>8, <2>1 DEF TypeOK, GoOn
<1>9. CASE Take(a)
  <2>1. pc' \in [Thread -> Pc]
    BY <1>9, GotoType DEF Take, Pc
  <2> QED
    BY <1>9, <2>1 DEF TypeOK, Take
<1>10. CASE Touch(a)
  <2>1. pc' \in [Thread -> Pc]
    BY <1>10, GotoType DEF Touch, Pc
  <2> QED
    BY <1>10, <2>1 DEF TypeOK, Touch, SetLock
<1> QED
  BY <1>1, <1>2, <1>3, <1>4, <1>5, <1>6, <1>7, <1>8, <1>9, <1>10

\* The steps of one that holds the lock.
LEMMA HoldingType ==
    ASSUME TypeOK, NEW a \in Thread,
           Append(a) \/ ChangeFails(a) \/ Change(a) \/ Write(a) \/ StampWritten(a) \/ Unlock(a)
           \/ Remove(a)
    PROVE  TypeOK'
<1> USE DEF Holding
<1>1. CASE Append(a)
  <2>1. pc' \in [Thread -> Pc]
    BY <1>1, GotoType DEF Append, Pc
  <2>2. file' \in [Tx -> Entry]
    BY <1>1, RowsType DEF Append, Extended, Entry
  <2>3. fresh' \in [Process -> BOOLEAN] /\ steady' \subseteq Thread /\ overlapped' \in BOOLEAN
    BY <1>1, TouchedType DEF Append
  <2> QED
    BY <1>1, <2>1, <2>2, <2>3 DEF TypeOK, Append
<1>2. CASE ChangeFails(a)
  <2>1. pc' \in [Thread -> Pc]
    BY <1>2, GotoType DEF ChangeFails, UnlocksToo, Pc
  <2> QED
    BY <1>2, <2>1 DEF TypeOK, ChangeFails
<1>3. CASE Change(a)
  <2>1. pc' \in [Thread -> Pc]
    BY <1>3, GotoType DEF Change, Pc
  <2>2. memory' \in [Process -> [Tx -> Entry]]
    BY <1>3, OwnType, RememberType DEF Change
  <2>3. fresh' \in [Process -> BOOLEAN] /\ steady' \subseteq Thread /\ overlapped' \in BOOLEAN
    BY <1>3, TouchedType DEF Change
  <2> QED
    BY <1>3, <2>1, <2>2, <2>3 DEF TypeOK, Change
<1>4. CASE Write(a)
  <2>1. pc' \in [Thread -> Pc]
    BY <1>4, GotoType DEF Write, Pc
  <2>2. file' \in [Tx -> Entry]
    BY <1>4, OwnType DEF TypeOK, Write
  <2>3. fresh' \in [Process -> BOOLEAN] /\ steady' \subseteq Thread /\ overlapped' \in BOOLEAN
    BY <1>4, TouchedType DEF Write
  <2> QED
    BY <1>4, <2>1, <2>2, <2>3 DEF TypeOK, Write
<1>5. CASE StampWritten(a)
  <2>1. pc' \in [Thread -> Pc]
    BY <1>5, GotoType DEF StampWritten, Pc
  <2>2. fresh' \in [Process -> BOOLEAN] /\ steady' \subseteq Thread /\ overlapped' \in BOOLEAN
    BY <1>5, StampedType DEF StampWritten
  <2> QED
    BY <1>5, <2>1, <2>2 DEF TypeOK, StampWritten
<1>6. CASE Unlock(a)
  <2>1. CASE lock
    <3>1. (IF pc[a] = "unlock" THEN "remove" ELSE "discard") \in Pc
      BY DEF Pc
    <3>2. pc' \in [Thread -> Pc]
      BY <1>6, <2>1, <3>1, GotoType DEF Unlock
    <3> QED
      BY <1>6, <2>1, <3>2 DEF TypeOK, Unlock
  <2>2. CASE ~lock
    <3>1. pc' \in [Thread -> Pc] /\ call' \in [Thread -> Call] /\ sure' \in [Thread -> BOOLEAN]
      BY <1>6, <2>2, ReturnType DEF Unlock
    <3> QED
      BY <1>6, <2>2, <3>1 DEF TypeOK, Unlock
  <2> QED
    BY <2>1, <2>2
<1>7. CASE Remove(a)
  <2>1. CASE pc[a] = "remove" /\ ~lock
    <3>1. pc' \in [Thread -> Pc]
      BY <1>7, <2>1, GotoType DEF Remove, Pc
    <3> QED
      BY <1>7, <2>1, <3>1 DEF TypeOK, Remove
  <2>2. CASE ~(pc[a] = "remove" /\ ~lock)
    <3>1. pc' \in [Thread -> Pc] /\ call' \in [Thread -> Call] /\ sure' \in [Thread -> BOOLEAN]
      BY <1>7, <2>2, ReturnType DEF Remove
    <3> QED
      BY <1>7, <2>2, <3>1 DEF TypeOK, Remove
  <2> QED
    BY <2>1, <2>2
<1> QED
  BY <1>1, <1>2, <1>3, <1>4, <1>5, <1>6, <1>7

LEMMA NextType == TypeOK /\ [Next]_vars => TypeOK'
<1> SUFFICES ASSUME TypeOK, [Next]_vars PROVE TypeOK'
  OBVIOUS
<1>1. ASSUME NEW a \in Thread, Step(a) PROVE TypeOK'
  BY <1>1, RefreshingType, HoldingType DEF Step
<1>2. ASSUME NEW a \in Thread, NEW c \in Calls[a], Begin(a, c) PROVE TypeOK'
  BY <1>2, BeginType
<1>3. ASSUME NEW p \in Process, Die(p) PROVE TypeOK'
  BY <1>3 DEF TypeOK, Die, Pc
<1>4. CASE UNCHANGED vars
  BY <1>4 DEF TypeOK, vars
<1> QED
  BY <1>1, <1>2, <1>3, <1>4 DEF Next

\* Every variable keeps its type: a stored entry is a set of votes, and a thread stands at
\* a step of the operations of TransactionToVerifyManager.
THEOREM TypeCorrect == Spec => []TypeOK
BY InitType, NextType, PTL DEF Spec
-----------------------------------------------------------------------------
(* The lock.  LockExcludes is inductive.                                   *)

\* Only a step of its own moves a living thread.
LEMMA OtherStays ==
    ASSUME TypeOK, NEW a \in Thread, NEW b \in Thread, a # b, Step(a)
    PROVE  pc'[b] = pc[b]
BY DEF TypeOK, Step, Refresh, WaitForLock, Read, StampRead, Find, AddEntry, FindVote, GoOn,
       Take, Touch, Append, ChangeFails, Change, Write, StampWritten, Unlock, Remove, Goto,
       Return

\* One that does not hold the lock does not touch it, and begins to hold it by creating it.
LEMMA OutsideStep ==
    ASSUME TypeOK, NEW a \in Thread, Step(a), pc[a] \notin Holding, ~Touch(a)
    PROVE  lock' = lock /\ crossed' = crossed /\ pc'[a] \notin Holding
BY DEF TypeOK, Holding, Step, Refresh, WaitForLock, Read, StampRead, Find, AddEntry, FindVote,
       GoOn, Take, Append, ChangeFails, Change, Write, StampWritten, Unlock, Remove, Goto,
       Return

\* One that does keeps it, until it returns.
LEMMA InsideStep ==
    ASSUME TypeOK, NEW a \in Thread, Step(a), pc[a] \in Holding, lock
    PROVE  crossed' = crossed /\ (lock' \/ pc'[a] \notin Holding)
BY DEF TypeOK, Holding, Step, Refresh, WaitForLock, Read, StampRead, Find, AddEntry, FindVote,
       GoOn, Take, Touch, Append, ChangeFails, Change, Write, StampWritten, Unlock, Remove,
       Goto, Return

LEMMA StepExcludes ==
    ASSUME TypeOK, LockExcludes, NEW a \in Thread, Step(a)
    PROVE  LockExcludes'
<1>1. ASSUME NEW b \in Thread, b # a PROVE pc'[b] = pc[b]
  BY <1>1, OtherStays
<1>2. CASE Touch(a)
  <2> SUFFICES ASSUME ~crossed' PROVE LockExcludes'
    BY DEF LockExcludes
  <2>1. ~crossed /\ ~lock /\ lock'
    BY <1>2 DEF Touch, SetLock
  <2>2. \A b \in Thread : pc[b] \notin Holding
    BY <2>1 DEF LockExcludes
  <2> QED
    BY <1>1, <2>1, <2>2 DEF LockExcludes
<1>3. CASE pc[a] \notin Holding /\ ~Touch(a)
  <2>1. lock' = lock /\ crossed' = crossed /\ pc'[a] \notin Holding
    BY <1>3, OutsideStep
  <2> QED
    BY <1>1, <2>1 DEF LockExcludes
<1>4. CASE pc[a] \in Holding
  <2> SUFFICES ASSUME ~crossed' PROVE LockExcludes'
    BY DEF LockExcludes
  <2>1. ~crossed
    BY <1>4 DEF TypeOK, Holding, Step, Refresh, WaitForLock, Read, StampRead, Find, AddEntry,
                FindVote, GoOn, Take, Touch, Append, ChangeFails, Change, Write, StampWritten,
                Unlock, Remove
  <2>2. lock /\ \A b \in Thread \ {a} : pc[b] \notin Holding
    BY <1>4, <2>1 DEF LockExcludes
  <2>3. lock' \/ pc'[a] \notin Holding
    BY <1>4, <2>2, InsideStep
  <2> QED
    BY <1>1, <2>2, <2>3 DEF LockExcludes
<1> QED
  BY <1>2, <1>3, <1>4

LEMMA NextExcludes == TypeOK /\ LockExcludes /\ [Next]_vars => LockExcludes'
<1> SUFFICES ASSUME TypeOK, LockExcludes, [Next]_vars PROVE LockExcludes'
  OBVIOUS
<1>1. ASSUME NEW a \in Thread, Step(a) PROVE LockExcludes'
  BY <1>1, StepExcludes
<1>2. ASSUME NEW a \in Thread, NEW c \in Calls[a], Begin(a, c) PROVE LockExcludes'
  <2>1. \A b \in Thread : pc'[b] \in Holding => pc[b] \in Holding
    BY <1>2 DEF TypeOK, Begin, Goto, Holding
  <2> QED
    BY <1>2, <2>1 DEF LockExcludes, Begin
<1>3. ASSUME NEW p \in Process, Die(p) PROVE LockExcludes'
  <2>1. \A b \in Thread : pc'[b] \in Holding => pc[b] \in Holding
    BY <1>3 DEF Die, Holding
  <2> QED
    BY <1>3, <2>1 DEF LockExcludes, Die
<1>4. CASE UNCHANGED vars
  BY <1>4 DEF LockExcludes, vars
<1> QED
  BY <1>1, <1>2, <1>3, <1>4 DEF Next

\* wait_for_set_lock and unlock: as long as no thread created the lock file over another's,
\* at most one is between taking and removing it, whoever dies.
THEOREM LockExclusive == Spec => []LockExcludes
<1>1. Init => LockExcludes
  BY DEF Init, LockExcludes, Holding
<1> QED
  BY <1>1, InitType, NextType, NextExcludes, PTL DEF Spec
-----------------------------------------------------------------------------
(* The file implements TxPool.  The invariant says what a thread knows of  *)
(* the file, as long as nothing was overlapped.                            *)

Resting == {"idle", "sleeping", "waiting", "dead"}

\* One thread of a process runs at a time, the others sleep or call nothing; all of
\* them die together.
RunInv ==
    \A a, b \in Thread : a # b /\ ProcessOf[a] = ProcessOf[b] =>
        /\ pc[a] \in Resting \/ pc[b] \in Resting
        /\ pc[a] = "dead" => pc[b] = "dead"

\* Only one that is to record a vote has looked for it, and only an add appends.
CallInv ==
    \A a \in Thread :
        /\ sure[a] => call[a].kind = "record" /\ pc[a] # "idle"
        /\ pc[a] = "append" => call[a].kind = "add"

\* A file that was truncated is so by one thread, that writes it next or is dead.  No other
\* thread has seen it like this, and no stamp is current.
CutInv ==
    cut # {} =>
        /\ \E b \in Thread : cut = {b} /\ pc[b] \in {"write", "dead"} /\ steady \subseteq {b}
        /\ \A p \in Process : ~fresh[p]

\* The entry that a thread adds is in memory before it is in the file.
Adding(a) == call[a].kind = "add" /\ pc[a] \in {"take", "waiting", "touch", "append"}

\* What the file is to be when a has written it.
Intended(a) ==
    [file EXCEPT ![call[a].tx] = IF call[a].kind = "pop" THEN NoEntry ELSE @ \cup {call[a].voter}]

\* A steady thread has in memory what is in the file, and what it is about to write.
Knows(a) ==
    /\ Adding(a) => memory[ProcessOf[a]] = [file EXCEPT ![call[a].tx] = {}]
    /\ pc[a] = "write" => /\ a \in cut
                          /\ file[call[a].tx] # NoEntry
                          /\ memory[ProcessOf[a]] = Intended(a)
    /\ ~Adding(a) /\ pc[a] \notin {"write", "dead"} => memory[ProcessOf[a]] = file

SteadyInv == \A a \in steady : Knows(a)

\* A process with a current stamp has it too, unless one of its threads is adding.
FreshInv ==
    \A p \in Process : fresh[p] =>
        memory[p] = file \/ \E a \in Thread : ProcessOf[a] = p /\ (Adding(a) \/ pc[a] = "dead")

ViewInv == CutInv /\ SteadyInv /\ FreshInv

FileInv ==
    /\ RunInv
    /\ CallInv
    /\ ~overlapped => ViewInv

LEMMA InitFile == Init => FileInv
BY DEF Init, FileInv, RunInv, CallInv, ViewInv, CutInv, SteadyInv, FreshInv, Resting

\* One that runs runs alone in its process.
LEMMA PeersRest ==
    ASSUME TypeOK, RunInv, NEW a \in Thread, NEW b \in Peers(a),
           Step(a) \/ \E c \in Calls[a] : Begin(a, c)
    PROVE  pc[b] \in {"idle", "sleeping", "waiting"} /\ pc'[b] = pc[b]
<1>1. b \in Thread /\ b # a /\ ProcessOf[b] = ProcessOf[a]
  BY DEF Peers
<1>2. pc[a] # "dead"
  BY DEF Step, Begin, Refresh, WaitForLock, Read, StampRead, Find, AddEntry, FindVote, GoOn,
         Take, Touch, Append, ChangeFails, Change, Write, StampWritten, Unlock, Remove
<1>3. pc[b] # "dead"
  BY <1>1, <1>2 DEF RunInv
<1>4. CASE pc[a] \in {"idle", "sleeping", "waiting"}
  <2>1. MayRun(a)
    BY <1>4 DEF Step, Begin, Refresh, WaitForLock, Read, StampRead, Find, AddEntry, FindVote,
                GoOn, Take, Touch, Append, ChangeFails, Change, Write, StampWritten, Unlock,
                Remove
  <2> QED
    BY <2>1, <1>1, OtherStays DEF MayRun, TypeOK, Begin, Goto
<1>5. CASE pc[a] \notin {"idle", "sleeping", "waiting"}
  <2>1. pc[b] \in Resting
    BY <1>1, <1>2, <1>5 DEF RunInv, Resting
  <2> QED
    BY <2>1, <1>1, <1>3, OtherStays, <1>5 DEF Resting, TypeOK, Begin, Goto
<1> QED
  BY <1>4, <1>5

\* A step leads to no death.
LEMMA StepLives ==
    ASSUME TypeOK, NEW a \in Thread, Step(a) \/ \E c \in Calls[a] : Begin(a, c)
    PROVE  /\ pc[a] # "dead" /\ pc'[a] # "dead"
           /\ \A b \in Thread : b # a => pc'[b] = pc[b] /\ call'[b] = call[b] /\ sure'[b] = sure[b]
BY DEF TypeOK, Step, Begin, Refresh, WaitForLock, Read, StampRead, Find, AddEntry, FindVote,
       GoOn, Take, Touch, Append, ChangeFails, Change, Write, StampWritten, Unlock, Remove,
       Goto, Return, UnlocksToo

LEMMA NextRun == TypeOK /\ RunInv /\ [Next]_vars => RunInv'
<1> SUFFICES ASSUME TypeOK, RunInv, [Next]_vars PROVE RunInv'
  OBVIOUS
<1>1. ASSUME NEW a \in Thread, Step(a) \/ \E c \in Calls[a] : Begin(a, c) PROVE RunInv'
  <2> SUFFICES ASSUME NEW b \in Thread, NEW c \in Thread, b # c, ProcessOf[b] = ProcessOf[c]
               PROVE  /\ pc'[b] \in Resting \/ pc'[c] \in Resting
                      /\ pc'[b] = "dead" => pc'[c] = "dead"
    BY DEF RunInv
  <2>1. CASE b = a
    <3>1. c \in Peers(a)
      BY <2>1 DEF Peers
    <3> QED
      BY <1>1, <2>1, <3>1, PeersRest, StepLives DEF Resting
  <2>2. CASE c = a
    <3>1. b \in Peers(a)
      BY <2>2 DEF Peers
    <3> QED
      BY <1>1, <2>2, <3>1, PeersRest, StepLives DEF Resting
  <2>3. CASE b # a /\ c # a
    BY <1>1, <2>3, StepLives DEF RunInv
  <2> QED
    BY <2>1, <2>2, <2>3
<1>2. ASSUME NEW p \in Process, Die(p) PROVE RunInv'
  BY <1>2 DEF RunInv, Die, Resting
<1>3. CASE UNCHANGED vars
  BY <1>3 DEF RunInv, vars
<1> QED
  BY <1>1, <1>2, <1>3 DEF Next

LEMMA NextCall == TypeOK /\ CallInv /\ [Next]_vars => CallInv'
<1> SUFFICES ASSUME TypeOK, CallInv, [Next]_vars PROVE CallInv'
  OBVIOUS
<1>1. ASSUME NEW a \in Thread, Step(a) \/ \E c \in Calls[a] : Begin(a, c) PROVE CallInv'
  <2>1. /\ sure'[a] => call'[a].kind = "record" /\ pc'[a] # "idle"
        /\ pc'[a] = "append" => call'[a].kind = "add"
    BY <1>1 DEF CallInv, TypeOK, Step, Begin, Refresh, WaitForLock, Read, StampRead, Find,
                AddEntry, FindVote, GoOn, Take, Touch, Append, ChangeFails, Change, Write,
                StampWritten, Unlock, Remove, Goto, Return, UnlocksToo
  <2> QED
    BY <1>1, <2>1, StepLives DEF CallInv
<1>2. ASSUME NEW p \in Process, Die(p) PROVE CallInv'
  BY <1>2 DEF CallInv, Die
<1>3. CASE UNCHANGED vars
  BY <1>3 DEF CallInv, vars
<1> QED
  BY <1>1, <1>2, <1>3 DEF Next
-----------------------------------------------------------------------------
(* The steps of a thread, and what the threads know after them             *)

\* One for which a step changes nothing of this.
Settled(b) ==
    \/ pc'[b] = "dead"
    \/ pc'[b] = pc[b] /\ call'[b] = call[b]
    \/ /\ {pc[b], pc'[b]} \cap {"write", "dead"} = {}
       /\ Adding(b)' <=> Adding(b)
       /\ Adding(b) => call'[b] = call[b]

\* A step that changes no file, no memory and no stamp, and leads into no write.
LEMMA Quiet ==
    ASSUME ViewInv, UNCHANGED <<fileVars, viewVars>>, steady' \subseteq steady,
           \A b \in Thread : Settled(b),
           steady \subseteq Thread
    PROVE  ViewInv'
<1>1. CutInv'
  BY DEF ViewInv, CutInv, Settled
<1>2. SteadyInv'
  <2> SUFFICES ASSUME NEW b \in steady' PROVE Knows(b)'
    BY DEF SteadyInv
  <2>1. b \in Thread /\ Knows(b) /\ Settled(b)
    BY DEF ViewInv, SteadyInv
  <2> QED
    BY <2>1 DEF Knows, Settled, Adding, Intended
<1>3. FreshInv'
  <2>1. \A b \in Thread : (Adding(b) \/ pc[b] = "dead") => (Adding(b)' \/ pc'[b] = "dead")
    BY DEF Settled, Adding
  <2> QED
    BY <2>1 DEF ViewInv, FreshInv
<1> QED
  BY <1>1, <1>2, <1>3 DEF ViewInv

\* What a step adds to the history, unless it was overlapped.
LEMMA Kept ==
    ASSUME NEW seers, NEW overlap, History(seers, overlap), ~overlapped'
    PROVE  steady' = seers /\ ~overlap /\ ~overlapped
BY DEF History

\* Without a stamp that is current there is nothing to say of the stamps.
LEMMA TouchedKeeps ==
    ASSUME NEW a \in Thread, Touched(a), ~overlapped', cut' \in {{}, {a}}, Knows(a)',
           cut' # {} => pc'[a] = "write"
    PROVE  ViewInv'
<1>1. steady' = {a}
  BY Kept DEF Touched
<1>2. \A p \in Process : ~fresh'[p]
  BY DEF Touched
<1> QED
  BY <1>1, <1>2 DEF ViewInv, CutInv, SteadyInv, FreshInv

\* One that neither adds nor writes, and is steady, finds no file that was truncated.
LEMMA NotCut ==
    ASSUME CutInv, NEW a \in steady, pc[a] \notin {"write", "dead"}
    PROVE  cut = {}
BY DEF CutInv

LEMMA QuietStep ==
    ASSUME TypeOK, ViewInv, CallInv, NEW a \in Thread, ~overlapped',
           \/ Refresh(a) /\ ~IsUpToDate(a)
           \/ WaitForLock(a) \/ (Read(a) /\ garbled) \/ Find(a) \/ FindVote(a) \/ GoOn(a)
           \/ Take(a) \/ Touch(a) \/ ChangeFails(a) \/ Unlock(a) \/ Remove(a)
           \/ \E c \in Calls[a] : Begin(a, c)
    PROVE  ViewInv'
<1>1. UNCHANGED <<fileVars, viewVars, steady>>
  BY DEF Refresh, WaitForLock, Read, Find, FindVote, GoOn, Take, Touch, ChangeFails, Unlock,
         Remove, Begin, Goto, Return
<1>2. Settled(a)
  BY DEF CallInv, TypeOK, Settled, Adding, Refresh, WaitForLock, Read, Find, FindVote, GoOn,
         Take, Touch, ChangeFails, Unlock, Remove, Begin, Goto, Return, UnlocksToo
<1>3. \A b \in Thread \ {a} : Settled(b)
  BY StepLives DEF Settled, Step
<1> QED
  BY <1>1, <1>2, <1>3, Quiet DEF TypeOK

\* The other threads keep what they know if their memory and the file do not change.
LEMMA OthersKnow ==
    ASSUME NEW a \in Thread, NEW b \in Thread, b # a, Knows(b), UNCHANGED <<file, cut>>,
           pc'[b] = pc[b], call'[b] = call[b],
           memory'[ProcessOf[b]] = memory[ProcessOf[b]]
    PROVE  Knows(b)'
BY DEF Knows, Adding, Intended

LEMMA RefreshKnows ==
    ASSUME TypeOK, RunInv, ViewInv, NEW a \in Thread, Refresh(a), IsUpToDate(a), ~overlapped'
    PROVE  ViewInv'
<1>1. steady' = IF Pending(a) THEN steady \ {a} ELSE steady \cup {a}
  BY DEF Refresh, Looked, History
<1>2. UNCHANGED <<fileVars, viewVars, call>> /\ pc[a] = "refresh" /\ pc' = [pc EXCEPT ![a] = "go"]
  BY DEF Refresh, Goto
<1>3. fresh[ProcessOf[a]] /\ ProcessOf[a] \in Process
  BY OwnType DEF IsUpToDate
<1>4. cut = {}
  BY <1>3 DEF ViewInv, CutInv
<1>5. ~Pending(a) => memory[ProcessOf[a]] = file
  <2> SUFFICES ASSUME ~Pending(a), NEW b \in Thread, ProcessOf[b] = ProcessOf[a],
                      Adding(b) \/ pc[b] = "dead"
               PROVE  FALSE
    BY <1>3 DEF ViewInv, FreshInv
  <2>1. b # a
    BY <1>2 DEF Adding
  <2>2. b \in Peers(a)
    BY <2>1 DEF Peers
  <2>3. pc[b] \in {"idle", "sleeping", "waiting"}
    BY <2>2, PeersRest DEF Step
  <2>4. pc[b] = "waiting" /\ call[b].kind = "add"
    BY <2>3 DEF Adding
  <2> QED
    BY <2>2, <2>4 DEF Pending
<1>6. SteadyInv'
  <2> SUFFICES ASSUME NEW b \in steady' PROVE Knows(b)'
    BY DEF SteadyInv
  <2>1. CASE b = a
    <3>1. ~Pending(a)
      BY <1>1, <2>1
    <3> QED
      BY <1>2, <1>5, <2>1, <3>1 DEF TypeOK, Knows, Adding
  <2>2. CASE b # a
    <3>1. b \in steady /\ b \in Thread /\ Knows(b)
      BY <1>1, <2>2 DEF TypeOK, ViewInv, SteadyInv
    <3>2. pc'[b] = pc[b]
      BY <1>2, <2>2, <3>1 DEF TypeOK
    <3> QED
      BY <1>2, <2>2, <3>1, <3>2, OthersKnow
  <2> QED
    BY <2>1, <2>2
<1>7. FreshInv'
  <2>1. \A b \in Thread : (Adding(b) \/ pc[b] = "dead") => (Adding(b)' \/ pc'[b] = "dead")
    BY <1>2 DEF TypeOK, Adding
  <2> QED
    BY <1>2, <2>1 DEF ViewInv, FreshInv
<1> QED
  BY <1>2, <1>4, <1>6, <1>7 DEF ViewInv, CutInv

LEMMA ReadKnows ==
    ASSUME TypeOK, ViewInv, NEW a \in Thread, Read(a), ~garbled, ~overlapped'
    PROVE  ViewInv'
<1>1. steady' = (steady \ Peers(a)) \cup {a} /\ cut = {}
  BY Kept DEF Read
<1>2. /\ UNCHANGED <<fileVars, fresh, call>> /\ pc[a] = "read"
      /\ pc' = [pc EXCEPT ![a] = "stamp"]
      /\ memory' = [memory EXCEPT ![ProcessOf[a]] = file]
  BY <1>1 DEF Read, Rows, Goto
<1>3. ProcessOf[a] \in Process /\ memory'[ProcessOf[a]] = file
  BY <1>2, OwnType DEF TypeOK
<1>4. SteadyInv'
  <2> SUFFICES ASSUME NEW b \in steady' PROVE Knows(b)'
    BY DEF SteadyInv
  <2>1. CASE b = a
    BY <1>2, <1>3, <2>1 DEF TypeOK, Knows, Adding
  <2>2. CASE b # a
    <3>1. b \in steady /\ b \in Thread /\ Knows(b) /\ b \notin Peers(a)
      BY <1>1, <2>2 DEF TypeOK, ViewInv, SteadyInv
    <3>2. ProcessOf[b] # ProcessOf[a]
      BY <2>2, <3>1 DEF Peers
    <3>3. pc'[b] = pc[b] /\ memory'[ProcessOf[b]] = memory[ProcessOf[b]]
      BY <1>2, <2>2, <3>1, <3>2, ProcessAssumption DEF TypeOK
    <3> QED
      BY <1>2, <2>2, <3>1, <3>3, OthersKnow
  <2> QED
    BY <2>1, <2>2
<1>5. FreshInv'
  <2>1. \A b \in Thread : (Adding(b) \/ pc[b] = "dead") => (Adding(b)' \/ pc'[b] = "dead")
    BY <1>2 DEF TypeOK, Adding
  <2>2. \A p \in Process : memory'[p] = IF p = ProcessOf[a] THEN file ELSE memory[p]
    BY <1>2 DEF TypeOK
  <2> QED
    BY <1>2, <2>1, <2>2 DEF ViewInv, FreshInv
<1> QED
  BY <1>1, <1>2, <1>4, <1>5 DEF ViewInv, CutInv

\* The stamp is that of the file as the thread knows it.
LEMMA StampKnows ==
    ASSUME TypeOK, ViewInv, NEW a \in Thread, StampRead(a) \/ StampWritten(a), ~overlapped'
    PROVE  ViewInv'
<1>1. steady' = steady /\ a \in steady
  BY Kept DEF StampRead, StampWritten
<1>2. /\ UNCHANGED <<fileVars, memory, call>>
      /\ pc[a] \in {"stamp", "restamp"}
      /\ pc' = [pc EXCEPT ![a] = IF pc[a] = "stamp" THEN "go" ELSE "unlock"]
      /\ fresh' = [fresh EXCEPT ![ProcessOf[a]] = TRUE]
  BY DEF StampRead, StampWritten, Goto, Stamped
<1>3. cut = {}
  BY <1>1, <1>2, NotCut DEF ViewInv
<1>4. memory[ProcessOf[a]] = file
  BY <1>1, <1>2 DEF ViewInv, SteadyInv, Knows, Adding
<1>5. SteadyInv'
  <2> SUFFICES ASSUME NEW b \in steady' PROVE Knows(b)'
    BY DEF SteadyInv
  <2>1. CASE b = a
    BY <1>2, <1>4, <2>1 DEF TypeOK, Knows, Adding
  <2>2. CASE b # a
    <3>1. b \in Thread /\ Knows(b) /\ pc'[b] = pc[b]
      BY <1>1, <1>2, <2>2 DEF TypeOK, ViewInv, SteadyInv
    <3> QED
      BY <1>2, <2>2, <3>1, OthersKnow
  <2> QED
    BY <2>1, <2>2
<1>6. FreshInv'
  <2>1. \A b \in Thread : (Adding(b) \/ pc[b] = "dead") => (Adding(b)' \/ pc'[b] = "dead")
    BY <1>2 DEF TypeOK, Adding
  <2>2. \A p \in Process : fresh'[p] => fresh[p] \/ p = ProcessOf[a]
    BY <1>2 DEF TypeOK
  <2> QED
    BY <1>2, <1>4, <2>1, <2>2 DEF ViewInv, FreshInv
<1> QED
  BY <1>2, <1>3, <1>5, <1>6 DEF ViewInv, CutInv

LEMMA AddEntryKnows ==
    ASSUME TypeOK, ViewInv, NEW a \in Thread, AddEntry(a), ~overlapped'
    PROVE  ViewInv'
<1>1. steady' = steady \ Peers(a)
  BY Kept DEF AddEntry
<1>2. /\ UNCHANGED <<fileVars, fresh, call>> /\ pc[a] = "go" /\ call[a].kind = "add"
      /\ pc' = [pc EXCEPT ![a] = "take"]
      /\ memory' = [memory EXCEPT ![ProcessOf[a]] = [@ EXCEPT ![call[a].tx] = {}]]
  BY DEF AddEntry, Goto, Remember
<1>3. Adding(a)'
  BY <1>2 DEF TypeOK, Adding
<1>4. ProcessOf[a] \in Process
  BY OwnType
<1>5. SteadyInv'
  <2> SUFFICES ASSUME NEW b \in steady' PROVE Knows(b)'
    BY DEF SteadyInv
  <2>0. b \in Thread /\ Knows(b)
    BY <1>1 DEF TypeOK, ViewInv, SteadyInv
  <2>1. CASE b = a
    <3>1. memory[ProcessOf[a]] = file
      BY <1>2, <2>0, <2>1 DEF Knows, Adding
    <3>2. memory'[ProcessOf[a]] = [file EXCEPT ![call[a].tx] = {}]
      BY <1>2, <1>4, <3>1 DEF TypeOK
    <3> QED
      BY <1>2, <1>3, <2>1, <3>2 DEF TypeOK, Knows
  <2>2. CASE b # a
    <3>1. ProcessOf[b] # ProcessOf[a]
      BY <1>1, <2>0, <2>2 DEF Peers
    <3>2. pc'[b] = pc[b] /\ memory'[ProcessOf[b]] = memory[ProcessOf[b]]
      BY <1>2, <2>0, <2>2, <3>1, ProcessAssumption DEF TypeOK
    <3> QED
      BY <1>2, <2>0, <2>2, <3>2, OthersKnow
  <2> QED
    BY <2>1, <2>2
<1>6. FreshInv'
  <2>1. \A b \in Thread : (Adding(b) \/ pc[b] = "dead") => (Adding(b)' \/ pc'[b] = "dead")
    BY <1>2 DEF TypeOK, Adding
  <2>2. \A p \in Process : p = ProcessOf[a] \/ memory'[p] = memory[p]
    BY <1>2 DEF TypeOK
  <2> QED
    BY <1>2, <1>3, <2>1, <2>2 DEF ViewInv, FreshInv
<1>7. CutInv'
  <2>1. cut # {} => a \notin cut
    BY <1>2 DEF ViewInv, CutInv
  <2> QED
    BY <1>1, <1>2, <2>1 DEF TypeOK, ViewInv, CutInv
<1> QED
  BY <1>5, <1>6, <1>7 DEF ViewInv

\* An add that was not overlapped appends what the thread has in memory.
LEMMA AppendKnows ==
    ASSUME TypeOK, ViewInv, CallInv, NEW a \in Thread, Append(a), ~overlapped'
    PROVE  /\ ViewInv'
           /\ file' = [file EXCEPT ![call[a].tx] = {}]
<1>1. a \in steady
  BY Kept DEF Append, Touched
<1>2. /\ UNCHANGED <<memory, call>> /\ pc[a] = "append" /\ call[a].kind = "add"
      /\ pc' = [pc EXCEPT ![a] = "restamp"]
      /\ cut' = {}
  BY DEF Append, Goto, CallInv
<1>3. cut = {}
  BY <1>1, <1>2, NotCut DEF ViewInv
<1>4. file' = [file EXCEPT ![call[a].tx] = {}]
  BY <1>3 DEF Append, Extended, Rows
<1>5. memory'[ProcessOf[a]] = file'
  BY <1>1, <1>2, <1>4 DEF ViewInv, SteadyInv, Knows, Adding
<1>6. Knows(a)'
  BY <1>2, <1>5 DEF TypeOK, Knows, Adding
<1> QED
  BY <1>2, <1>4, <1>6, TouchedKeeps DEF Append

\* A pop or a vote that was not overlapped changes an entry that is in the file.
LEMMA ChangeKnows ==
    ASSUME TypeOK, ViewInv, NEW a \in Thread, Change(a), ~overlapped'
    PROVE  ViewInv'
<1>1. a \in steady
  BY Kept DEF Change, Touched
<1>2. /\ UNCHANGED <<file, call>> /\ pc[a] = "change" /\ Own(a) # NoEntry
      /\ pc' = [pc EXCEPT ![a] = "write"]
      /\ memory' = [memory EXCEPT ![ProcessOf[a]] = [@ EXCEPT ![call[a].tx] = Changed(a)]]
  BY DEF Change, Goto, Remember
<1>3. cut' = {a}
  BY <1>1, <1>2, NotCut DEF ViewInv, Change
<1>4. memory[ProcessOf[a]] = file
  BY <1>1, <1>2 DEF ViewInv, SteadyInv, Knows, Adding
<1>5. file[call[a].tx] # NoEntry
  BY <1>2, <1>4 DEF Own
<1>6. memory'[ProcessOf[a]] = [file EXCEPT ![call[a].tx] = Changed(a)]
  BY <1>2, <1>4, OwnType DEF TypeOK
<1>7. [file EXCEPT ![call[a].tx] = Changed(a)] = Intended(a)
  BY <1>4 DEF Changed, Own, Intended
<1>8. pc'[a] = "write"
  BY <1>2 DEF TypeOK
<1>9. Intended(a)' = Intended(a)
  BY <1>2 DEF Intended
<1>10. Knows(a)'
  BY <1>2, <1>3, <1>5, <1>6, <1>7, <1>8, <1>9 DEF Knows, Adding
<1> QED
  BY <1>3, <1>8, <1>10, TouchedKeeps DEF Change

\* What it writes is that change.
LEMMA WriteKnows ==
    ASSUME TypeOK, ViewInv, NEW a \in Thread, Write(a), ~overlapped'
    PROVE  /\ ViewInv'
           /\ file[call[a].tx] # NoEntry
           /\ file' = Intended(a)
<1>1. a \in steady
  BY Kept DEF Write, Touched
<1>2. /\ UNCHANGED <<memory, call>> /\ pc[a] = "write"
      /\ pc' = [pc EXCEPT ![a] = "restamp"]
      /\ cut' = {}
  BY DEF Write, Goto
<1>3. a \in cut /\ file[call[a].tx] # NoEntry /\ memory[ProcessOf[a]] = Intended(a)
  BY <1>1, <1>2 DEF ViewInv, SteadyInv, Knows
<1>4. file' = memory[ProcessOf[a]]
  BY <1>3 DEF Write
<1>5. Knows(a)'
  BY <1>2, <1>4 DEF TypeOK, Knows, Adding
<1> QED
  BY <1>2, <1>3, <1>4, <1>5, TouchedKeeps DEF Write

\* No step undoes an overlap.
LEMMA OverlapStays == [Next]_vars /\ overlapped => overlapped'
BY DEF Next, vars, Step, Begin, Refresh, WaitForLock, Read, StampRead, Find, AddEntry, FindVote,
       GoOn, Take, Touch, Append, ChangeFails, Change, Write, StampWritten, Unlock, Remove, Die,
       Looked, Touched, History

LEMMA NextView == TypeOK /\ FileInv /\ [Next]_vars /\ ~overlapped' => ViewInv'
<1> SUFFICES ASSUME TypeOK, FileInv, [Next]_vars, ~overlapped' PROVE ViewInv'
  OBVIOUS
<1>1. ViewInv /\ RunInv /\ CallInv
  BY OverlapStays DEF FileInv
<1>2. ASSUME NEW a \in Thread, Step(a) PROVE ViewInv'
  BY <1>1, <1>2, QuietStep, RefreshKnows, ReadKnows, StampKnows, AddEntryKnows, AppendKnows,
     ChangeKnows, WriteKnows DEF Step
<1>3. ASSUME NEW a \in Thread, NEW c \in Calls[a], Begin(a, c) PROVE ViewInv'
  BY <1>1, <1>3, QuietStep
<1>4. ASSUME NEW p \in Process, Die(p) PROVE ViewInv'
  <2>1. \A b \in Thread : Settled(b)
    BY <1>4 DEF Die, Settled
  <2>2. UNCHANGED <<fileVars, viewVars, steady>>
    BY <1>4 DEF Die
  <2> QED
    BY <1>1, <2>1, <2>2, Quiet DEF TypeOK
<1>5. CASE UNCHANGED vars
  <2>1. \A b \in Thread : Settled(b)
    BY <1>5 DEF vars, Settled
  <2>2. UNCHANGED <<fileVars, viewVars, steady>>
    BY <1>5 DEF vars
  <2> QED
    BY <1>1, <2>1, <2>2, Quiet DEF TypeOK
<1> QED
  BY <1>2, <1>3, <1>4, <1>5 DEF Next

LEMMA NextFile == TypeOK /\ FileInv /\ [Next]_vars => FileInv'
BY NextRun, NextCall, NextView DEF FileInv

LEMMA AlwaysFile == Spec => [](TypeOK /\ FileInv)
BY InitType, NextType, InitFile, NextFile, PTL DEF Spec

\* is_up_to_date: until an operation acted on what it had read before another wrote, a
\* process whose stamp is current, and that is in no operation, has in memory what is in
\* the file.
THEOREM StampIsTrue == Spec => []SeesFile
<1>1. TypeOK /\ FileInv => SeesFile
  BY DEF FileInv, ViewInv, FreshInv, SeesFile, Void, Adding
<1> QED
  BY <1>1, AlwaysFile, PTL

\* add_verification_result: a thread that refuses a vote, and has read the file since it
\* last changed, is right to.
THEOREM RefusalIsRight == Spec => RefusesRightly
<1>1. ASSUME TypeOK, FileInv, [Next]_vars,
             NEW a \in Thread, pc[a] = "go", call[a].kind = "record", pc'[a] = "idle",
             a \in steady, ~Void
      PROVE  file[call[a].tx] = NoEntry \/ call[a].voter \in file[call[a].tx]
  <2>1. memory[ProcessOf[a]] = file
    BY <1>1 DEF FileInv, ViewInv, SteadyInv, Knows, Adding, Void
  <2>2. ASSUME NEW b \in Thread, Step(b) PROVE a = b
    BY <1>1, <2>2, StepLives
  <2>3. ASSUME NEW b \in Thread, NEW c \in Calls[b], Begin(b, c) PROVE FALSE
    BY <1>1, <2>3 DEF TypeOK, Begin, Goto
  <2>4. ASSUME NEW p \in Process, Die(p) PROVE FALSE
    BY <1>1, <2>4 DEF Die
  <2>5. pc' # pc
    BY <1>1
  <2>6. Step(a)
    BY <1>1, <2>2, <2>3, <2>4, <2>5 DEF Next, vars
  <2>7. Own(a) = NoEntry \/ call[a].voter \in Own(a)
    BY <1>1, <2>6 DEF TypeOK, Step, Refresh, WaitForLock, Read, StampRead, Find, AddEntry,
                      FindVote, GoOn, Take, Touch, Append, ChangeFails, Change, Write,
                      StampWritten, Unlock, Remove, Goto
  <2> QED
    BY <2>1, <2>7 DEF Own
<1>2. TypeOK /\ FileInv /\ [Next]_vars =>
        [\A a \in Thread :
          pc[a] = "go" /\ call[a].kind = "record" /\ pc'[a] = "idle" /\ a \in steady /\ ~Void
              => file[call[a].tx] = NoEntry \/ call[a].voter \in file[call[a].tx]]_vars
  BY <1>1
<1> QED
  BY <1>2, AlwaysFile, PTL DEF Spec, RefusesRightly
-----------------------------------------------------------------------------
(* Every step is one of TxPool, or none.                                   *)

LEMMA VoidStays == TypeOK /\ FileInv /\ [Next]_vars /\ Void => Void'
<1> SUFFICES ASSUME TypeOK, FileInv, [Next]_vars, ~overlapped',
                    NEW b \in cut, pc[b] = "dead"
             PROVE  \E c \in cut' : pc'[c] = "dead"
  BY OverlapStays DEF Void
<1>1. ViewInv /\ b \in Thread
  BY OverlapStays DEF FileInv, TypeOK
<1>2. \A c \in steady : c = b
  BY <1>1 DEF ViewInv, CutInv
<1>3. ASSUME NEW a \in Thread, Step(a) PROVE b \in cut' /\ pc'[b] = "dead"
  <2>1. pc[a] # "dead" /\ a # b /\ a \notin steady
    BY <1>1, <1>2, <1>3, StepLives
  <2>2. ~Append(a) /\ ~Write(a)
    BY <2>1, Kept DEF Append, Write, Touched
  <2>3. b \in cut'
    BY <1>3, <2>2 DEF Step, Refresh, WaitForLock, Read, StampRead, Find, AddEntry, FindVote,
                      GoOn, Take, Touch, ChangeFails, Change, StampWritten, Unlock, Remove
  <2> QED
    BY <1>1, <1>3, <2>1, <2>3, StepLives
<1>4. ASSUME NEW a \in Thread, NEW c \in Calls[a], Begin(a, c) PROVE b \in cut' /\ pc'[b] = "dead"
  BY <1>1, <1>4, StepLives DEF Begin
<1>5. ASSUME NEW p \in Process, Die(p) PROVE b \in cut' /\ pc'[b] = "dead"
  BY <1>1, <1>5 DEF Die
<1>6. CASE UNCHANGED vars
  BY <1>6 DEF vars
<1> QED
  BY <1>3, <1>4, <1>5, <1>6 DEF Next

LEMMA InitPool == Init => Pool!Init
BY DEF Init, Pool!Init, Void, Empty

\* One that is not void either before or after a step was changed by one operation.
LEMMA StepPool ==
    ASSUME TypeOK, FileInv, [Next]_vars, ~overlapped', file' # file
    PROVE  \E t \in Tx : \/ file' = [file EXCEPT ![t] = {}]
                         \/ /\ file[t] # NoEntry
                            /\ \/ file' = [file EXCEPT ![t] = NoEntry]
                               \/ \E u \in Voter : file' = [file EXCEPT ![t] = @ \cup {u}]
<1>1. ViewInv /\ CallInv
  BY OverlapStays DEF FileInv
<1>2. PICK a \in Thread : Append(a) \/ Write(a)
  BY DEF Next, vars, Step, Begin, Refresh, WaitForLock, Read, StampRead, Find, AddEntry,
         FindVote, GoOn, Take, Touch, ChangeFails, Change, StampWritten, Unlock, Remove, Die
<1>3. call[a].tx \in Tx /\ call[a].voter \in Voter
  BY OwnType
<1>4. CASE Append(a)
  BY <1>1, <1>3, <1>4, AppendKnows
<1>5. CASE Write(a)
  <2>1. file[call[a].tx] # NoEntry /\ file' = Intended(a)
    BY <1>1, <1>5, WriteKnows
  <2> QED
    BY <1>3, <2>1 DEF Intended
<1> QED
  BY <1>2, <1>4, <1>5

LEMMA NextPool ==
    TypeOK /\ FileInv /\ [Next]_vars =>
        [Pool!Next]_<<IF Void THEN Empty ELSE file, Void>>
<1> SUFFICES ASSUME TypeOK, FileInv, [Next]_vars
             PROVE  [Pool!Next]_<<IF Void THEN Empty ELSE file, Void>>
  OBVIOUS
<1>1. Void \in BOOLEAN /\ Void' \in BOOLEAN
  BY NextType DEF TypeOK, Void
<1>2. CASE Void
  BY <1>1, <1>2, VoidStays DEF Empty
<1>3. CASE ~Void /\ Void'
  <2>1. Pool!Break
    BY <1>1, <1>3 DEF Pool!Break, Empty
  <2> QED
    BY <2>1 DEF Pool!Next
<1>4. CASE ~Void /\ ~Void'
  <2>1. CASE file' = file
    BY <1>1, <1>4, <2>1
  <2>2. CASE file' # file
    <3>1. PICK t \in Tx : \/ file' = [file EXCEPT ![t] = {}]
                          \/ /\ file[t] # NoEntry
                             /\ \/ file' = [file EXCEPT ![t] = NoEntry]
                                \/ \E u \in Voter : file' = [file EXCEPT ![t] = @ \cup {u}]
      BY <1>4, <2>2, StepPool DEF Void
    <3>2. Pool!Add(t) \/ Pool!Pop(t) \/ \E u \in Voter : Pool!Record(t, u)
      BY <1>1, <1>4, <3>1 DEF Pool!Add, Pool!Pop, Pool!Record
    <3> QED
      BY <3>2 DEF Pool!Next
  <2> QED
    BY <2>1, <2>2
<1> QED
  BY <1>2, <1>3, <1>4

\* TransactionStorage and TransactionToVerifyManager: until an operation is overlapped, or a
\* process dies in the middle of a write, every write of the pool file is one add, vote or
\* pop, made to what all the others left.
THEOREM FileImplementsPool == Spec => WritesOneByOne
BY InitPool, NextPool, AlwaysFile, PTL DEF Spec, WritesOneByOne, Pool!Spec
-----------------------------------------------------------------------------
(* Operations do not all wait for each other. *)

\* Where an operation can go on, whatever the others do; one that sleeps needs the lock
\* file to be away, and the greenlets of its process to rest.
CanGoOn(a) ==
    /\ pc[a] \notin {"idle", "dead"}
    /\ pc[a] \in {"sleeping", "waiting"} => ~lock /\ MayRun(a)

\* Whoever finds the lock file there can count on one that will remove it.
LockIsHeld == lock /\ dead = {} => \E a \in Thread : pc[a] \in Holding

\* TransactionStorage.unlock: on every path out of an operation, errors included, the lock
\* file goes: also when several had it at once.
LEMMA NextHeld == TypeOK /\ LockIsHeld /\ [Next]_vars => LockIsHeld'
<1> SUFFICES ASSUME TypeOK, LockIsHeld, [Next]_vars, lock', dead' = {}
             PROVE  \E a \in Thread : pc'[a] \in Holding
  BY DEF LockIsHeld
<1>1. ASSUME NEW a \in Thread, Step(a)
      PROVE  \E b \in Thread : pc'[b] \in Holding
  <2>1. dead' = dead
    BY <1>1 DEF Step, Refresh, WaitForLock, Read, StampRead, Find, AddEntry, FindVote, GoOn,
       Take, Touch, Append, ChangeFails, Change, Write, StampWritten, Unlock, Remove
  <2>2. CASE Touch(a)
    BY <2>2 DEF Touch, Goto, TypeOK, Holding
  <2>3. CASE pc[a] \notin Holding /\ ~Touch(a)
    <3>1. lock
      BY <1>1, <2>3, OutsideStep
    <3>2. PICK b \in Thread : pc[b] \in Holding
      BY <2>1, <3>1 DEF LockIsHeld
    <3> QED
      BY <1>1, <2>3, <3>2, OtherStays
  <2>4. CASE pc[a] \in Holding
    <3>1. pc'[a] \in Holding
      BY <1>1, <2>4 DEF TypeOK, Holding, Step, Refresh, WaitForLock, Read, StampRead, Find,
         AddEntry, FindVote, GoOn, Take, Touch, Append, ChangeFails, Change, Write,
         StampWritten, Unlock, Remove, Goto, Return, UnlocksToo
    <3> QED
      BY <3>1
  <2> QED
    BY <2>2, <2>3, <2>4
<1>2. ASSUME NEW a \in Thread, NEW c \in Calls[a], Begin(a, c)
      PROVE  \E b \in Thread : pc'[b] \in Holding
  <2>1. lock /\ dead = {} /\ \A b \in Thread : pc[b] \in Holding => pc'[b] \in Holding
    BY <1>2 DEF Begin, Goto, TypeOK, Holding
  <2> QED
    BY <2>1 DEF LockIsHeld
<1>3. ASSUME NEW p \in Process, Die(p)
      PROVE  FALSE
  BY <1>3 DEF Die
<1>4. CASE UNCHANGED vars
  BY <1>4 DEF vars, LockIsHeld
<1> QED
  BY <1>1, <1>2, <1>3, <1>4 DEF Next

\* As long as some operation is under way, some operation can go on, unless a process died
\* and left its lock: threads, greenlets and processes never all wait for each other.  (What
\* OperationEnds needs to hold of every state.)
NobodyStuck ==
    (\E a \in Thread : pc[a] \notin {"idle", "dead"}) =>
        (dead # {} /\ lock) \/ \E a \in Thread : CanGoOn(a)

\* wait_for_set_lock, load, unlock: there is no deadlock on the lock file, in whatever
\* order it is looked for, created and removed.
THEOREM LockIsReleased == Spec => []NobodyStuck
<1>1. TypeOK /\ FileInv /\ LockIsHeld => NobodyStuck
  <2> SUFFICES ASSUME TypeOK, RunInv, LockIsHeld, ~(dead # {} /\ lock),
                      NEW a \in Thread, pc[a] \notin {"idle", "dead"}
               PROVE  \E b \in Thread : CanGoOn(b)
    BY DEF NobodyStuck, FileInv
  <2>1. CASE \E b \in Thread : pc[b] \notin {"idle", "dead", "sleeping", "waiting"}
    BY <2>1 DEF CanGoOn
  <2>2. CASE \A b \in Thread : pc[b] \in {"idle", "dead", "sleeping", "waiting"}
    <3>1. ~lock
      BY <2>2 DEF LockIsHeld, Holding
    <3>2. MayRun(a)
      BY <2>2 DEF MayRun, Peers, RunInv
    <3> QED
      BY <3>1, <3>2 DEF CanGoOn
  <2> QED
    BY <2>1, <2>2
<1>2. Init => LockIsHeld
  BY DEF Init, LockIsHeld
<1> QED
  BY <1>1, <1>2, InitType, NextType, NextHeld, AlwaysFile, PTL DEF Spec
=============================================================================
