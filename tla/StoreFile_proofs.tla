-------------------------- MODULE StoreFile_proofs --------------------------
(***************************************************************************)
(* Theorems about StoreFile, for any processes, any of them mortal, and    *)
(* any number of operations on any of the stores:                          *)
(*                                                                         *)
(*   TypeCorrect            every variable keeps its type                  *)
(*   GrowingStoreKeeps      a store that only grows loses nothing          *)
(*   StampIsTrue            a stamp hides nothing                          *)
(*   FileImplementsStore    the file implements Store                      *)
(*   LockIsReleased         operations never all wait for each other       *)
(*                                                                         *)
(* StampIsTrue and FileImplementsStore until operations overlap, or one    *)
(* dies half-way.                                                          *)
(***************************************************************************)
EXTENDS StoreFile, TLAPS

USE DEF fileVars
-----------------------------------------------------------------------------
(* Types.  What an operation has the effect of is given by how many of its *)
(* process are left.                                                       *)

LeftInv == \A p \in Process : left[p] \in 0..Budget[p]

LEMMA EffectType ==
    ASSUME NEW p \in Process, NEW k \in 0..Budget[p]
    PROVE  <<p, k>> \in Effect
<1>1. <<p, k>> \in {p} \X (0..Budget[p])
  OBVIOUS
<1>2. {p} \X (0..Budget[p]) \in {{q} \X (0..Budget[q]) : q \in Process}
  OBVIOUS
<1> QED
  BY <1>1, <1>2 DEF Effect

LEMMA OwnType ==
    ASSUME LeftInv, NEW p \in Process
    PROVE  Own(p) \in Effect
BY EffectType DEF LeftInv, Own

\* A store is written by operations that a manager calls.
LEMMA CallsType ==
    ASSUME NEW s \in Classes
    PROVE  /\ s.flushed \in BOOLEAN
           /\ s.calls \subseteq {"append", "change", "set", "replace", "clear", "log"}
           /\ "log" \in s.calls => s.calls = {"log"}
           /\ GrowsOnly(s) => s.flushed
<1> DEFINE Managers ==
             {BlockchainManager, NodeManager, ValidatorManager, NodeTrust,
              TransactionVerifiedManager, ValidatorAgreementResult, ValidatorAgreement,
              ValidatorAgreementInfoManager, NodeTrustHistoryManager,
              RejectedTransactionManager}
<1>1. /\ s.flushed \in BOOLEAN
      /\ s.calls \in Managers \/ s.calls = {"log"}
      /\ s.flushed \/ s.calls = TransactionVerifiedManager
  <2>1. s \in {BlocksStorage, NodeStorage, NodeTrustStorage, TransactionVerifiedStorage,
               ValidatorStorage, ValidatorAgreementStorage, ValidatorAgreementInfoStorage,
               ValidatorAgreementResultStorage, NodeTrustHistory, NodeTrustFullHistory,
               RejectedTransactions, TransactionTime}
    BY ClassesAssumption
  <2>2. s = TransactionVerifiedStorage \/ s.flushed = TRUE
    BY <2>1
       DEF BlocksStorage, NodeStorage, NodeTrustStorage,
           ValidatorStorage, ValidatorAgreementStorage, ValidatorAgreementInfoStorage,
           ValidatorAgreementResultStorage, NodeTrustHistory, NodeTrustFullHistory,
           RejectedTransactions, TransactionTime
  <2>3. s.calls \in Managers \/ s.calls = {"log"}
    BY <2>1
       DEF BlocksStorage, NodeStorage, NodeTrustStorage, TransactionVerifiedStorage,
           ValidatorStorage, ValidatorAgreementStorage, ValidatorAgreementInfoStorage,
           ValidatorAgreementResultStorage, NodeTrustHistory, NodeTrustFullHistory,
           RejectedTransactions, TransactionTime
  <2>4. s = TransactionVerifiedStorage =>
          s.flushed = FALSE /\ s.calls = TransactionVerifiedManager
    BY DEF TransactionVerifiedStorage
  <2>5. s.flushed \in BOOLEAN /\ (s.flushed \/ s.calls = TransactionVerifiedManager)
    BY <2>2, <2>4, Zenon
  <2> QED
    BY <2>3, <2>5, Zenon
<1>2. \A M \in Managers :
        M \subseteq {"append", "change", "set", "replace", "clear"} /\ "log" \notin M
  BY DEF BlockchainManager, NodeManager, ValidatorManager, NodeTrust,
         TransactionVerifiedManager, ValidatorAgreementResult, ValidatorAgreement,
         ValidatorAgreementInfoManager, NodeTrustHistoryManager, RejectedTransactionManager
<1>3. ~(TransactionVerifiedManager \subseteq {"append", "log"})
  BY DEF TransactionVerifiedManager
<1> HIDE DEF Managers
<1> QED
  BY <1>1, <1>2, <1>3 DEF GrowsOnly

LEMMA HistoryType ==
    ASSUME NEW seers \in SUBSET Process, NEW overlap \in BOOLEAN, overlapped \in BOOLEAN,
           History(seers, overlap)
    PROVE  steady' \subseteq Process /\ overlapped' \in BOOLEAN
BY DEF History

LEMMA TouchedType ==
    ASSUME TypeOK, NEW p \in Process, NEW overlap \in BOOLEAN, Touched(p, overlap)
    PROVE  /\ fresh' \in [Process -> BOOLEAN]
           /\ steady' \subseteq Process /\ overlapped' \in BOOLEAN
<1>1. steady \cap {p} \in SUBSET Process /\ overlapped \in BOOLEAN
  BY DEF TypeOK
<1>2. steady' \subseteq Process /\ overlapped' \in BOOLEAN
  BY <1>1, HistoryType DEF Touched
<1> QED
  BY <1>2 DEF Touched

LEMMA StampedType ==
    ASSUME TypeOK, NEW p \in Process, Stamped(p)
    PROVE  /\ fresh' \in [Process -> BOOLEAN]
           /\ steady' \subseteq Process /\ overlapped' \in BOOLEAN
<1>1. steady \in SUBSET Process /\ overlapped \in BOOLEAN
  BY DEF TypeOK
<1>2. steady' \subseteq Process /\ overlapped' \in BOOLEAN
  BY <1>1, HistoryType DEF Stamped
<1> QED
  BY <1>2 DEF TypeOK, Stamped

LEMMA GotoType ==
    ASSUME TypeOK, NEW p \in Process, NEW step \in Pc, Goto(p, step)
    PROVE  pc' \in [Process -> Pc]
BY DEF TypeOK, Goto

LEMMA RowsType == TypeOK => Rows \subseteq Effect
BY DEF TypeOK, Rows

\* What an operation has in memory when it has opened the file.
LEMMA MemoryType ==
    ASSUME TypeOK, LeftInv, NEW p \in Process
    PROVE  /\ WithRow(p) \subseteq Effect
           /\ call[p] \in {"change", "set", "replace", "clear"} => MemoryAfter(p) \subseteq Effect
BY OwnType DEF TypeOK, WithRow, MemoryAfter

LEMMA InitType == Init => TypeOK /\ LeftInv
<1> SUFFICES ASSUME Init PROVE TypeOK /\ LeftInv
  OBVIOUS
<1>1. left \in [Process -> Nat] /\ LeftInv
  BY BudgetAssumption DEF Init, LeftInv
<1> QED
  BY <1>1 DEF Init, TypeOK, Pc, Calls

LEMMA BeginType ==
    ASSUME TypeOK, LeftInv, NEW p \in Process, NEW c \in Calls, Begin(p, c)
    PROVE  TypeOK' /\ LeftInv'
<1>1. pc' \in [Process -> Pc]
  BY GotoType DEF Begin, Pc
<1>2. left' \in [Process -> Nat] /\ LeftInv'
  <2>1. left[p] \in Nat /\ left[p] > 0 /\ left' = [left EXCEPT ![p] = @ - 1]
    BY DEF TypeOK, Begin
  <2>2. left[p] - 1 \in 0..Budget[p]
    BY <2>1, BudgetAssumption DEF LeftInv
  <2> QED
    BY <2>1, <2>2 DEF TypeOK, LeftInv
<1>3. steady' \subseteq Process
  BY DEF TypeOK, Begin
<1> QED
  BY <1>1, <1>2, <1>3 DEF TypeOK, Begin

\* The steps up to where the memory is current.
LEMMA ReadingType ==
    ASSUME TypeOK, LeftInv, NEW p \in Process,
           Refresh(p) \/ LockToRead(p) \/ ReadFails(p) \/ Read(p) \/ StampRead(p) \/ ReadDone(p)
    PROVE  TypeOK' /\ LeftInv'
<1>0. LeftInv'
  BY DEF LeftInv, Refresh, LockToRead, ReadFails, Read, StampRead, ReadDone
<1>1. pc' \in [Process -> Pc]
  BY GotoType DEF Refresh, LockToRead, ReadFails, Read, StampRead, ReadDone, Raise, Pc
<1>2. CASE Refresh(p)
  <2>1. steady \cup {p} \in SUBSET Process /\ overlapped \in BOOLEAN
    BY DEF TypeOK
  <2>2. steady' \subseteq Process /\ overlapped' \in BOOLEAN
    BY <1>2, <2>1, HistoryType DEF TypeOK, Refresh
  <2> QED
    BY <1>0, <1>1, <1>2, <2>2 DEF TypeOK, Refresh
<1>3. CASE LockToRead(p)
  BY <1>0, <1>1, <1>3 DEF TypeOK, LockToRead
<1>4. CASE ReadFails(p)
  BY <1>0, <1>1, <1>4 DEF TypeOK, ReadFails, Raise, UnlockFinally, Unlock
<1>5. CASE Read(p)
  <2>1. steady \cup {p} \in SUBSET Process /\ (cut # {}) \in BOOLEAN /\ overlapped \in BOOLEAN
    BY DEF TypeOK
  <2>2. steady' \subseteq Process /\ overlapped' \in BOOLEAN
    BY <1>5, <2>1, HistoryType DEF Read
  <2>3. memory' \in [Process -> SUBSET Effect]
    BY <1>5, RowsType DEF TypeOK, Read
  <2> QED
    BY <1>0, <1>1, <1>5, <2>2, <2>3 DEF TypeOK, Read
<1>6. CASE StampRead(p)
  <2>1. fresh' \in [Process -> BOOLEAN] /\ steady' \subseteq Process /\ overlapped' \in BOOLEAN
    BY <1>6, StampedType DEF StampRead
  <2> QED
    BY <1>0, <1>1, <1>6, <2>1 DEF TypeOK, StampRead, Raise, Unlock
<1>7. CASE ReadDone(p)
  BY <1>0, <1>1, <1>7 DEF TypeOK, ReadDone
<1> QED
  BY <1>2, <1>3, <1>4, <1>5, <1>6, <1>7

\* The steps that write.
LEMMA WritingType ==
    ASSUME TypeOK, LeftInv, NEW p \in Process,
           OpenToAppend(p) \/ OpenToRewrite(p) \/ LockToWrite(p) \/ Write(p) \/ StampWritten(p)
    PROVE  TypeOK' /\ LeftInv'
<1>0. LeftInv'
  BY DEF LeftInv, OpenToAppend, OpenToRewrite, LockToWrite, Write, StampWritten
<1>1. pc' \in [Process -> Pc]
  <2>1. (IF store.flushed /\ call[p] # "clear" THEN "write" ELSE "restamp") \in Pc
    BY DEF Pc
  <2> QED
    BY <2>1, GotoType DEF OpenToAppend, OpenToRewrite, LockToWrite, Write, StampWritten, Return, Pc
<1>2. CASE OpenToAppend(p)
  <2>1. memory' \in [Process -> SUBSET Effect]
    BY <1>2, MemoryType DEF TypeOK, OpenToAppend
  <2> QED
    BY <1>0, <1>1, <1>2, <2>1 DEF TypeOK, OpenToAppend
<1>3. CASE OpenToRewrite(p)
  <2>1. memory' \in [Process -> SUBSET Effect]
    BY <1>3, MemoryType DEF TypeOK, OpenToRewrite
  <2>2. fresh' \in [Process -> BOOLEAN] /\ steady' \subseteq Process /\ overlapped' \in BOOLEAN
    BY <1>3, TouchedType DEF OpenToRewrite
  <2>3. file' \subseteq Effect /\ cut' \subseteq Process
    BY <1>3 DEF TypeOK, OpenToRewrite
  <2> QED
    BY <1>0, <1>1, <1>3, <2>1, <2>2, <2>3 DEF TypeOK, OpenToRewrite
<1>4. CASE LockToWrite(p)
  BY <1>0, <1>1, <1>4 DEF TypeOK, LockToWrite
<1>5. CASE Write(p)
  <2>1. fresh' \in [Process -> BOOLEAN] /\ steady' \subseteq Process /\ overlapped' \in BOOLEAN
    BY <1>5, TouchedType DEF Write
  <2>2. file' \subseteq Effect /\ garbled' \in BOOLEAN
    <3>1. Appended(p) \subseteq Effect /\ memory[p] \subseteq Effect
      BY RowsType, OwnType DEF TypeOK, Appended
    <3> QED
      BY <1>5, <3>1 DEF TypeOK, Write
  <2>3. done' \subseteq Effect
    BY <1>5, OwnType DEF TypeOK, Write, Return
  <2> QED
    BY <1>0, <1>1, <1>5, <2>1, <2>2, <2>3 DEF TypeOK, Write
<1>6. CASE StampWritten(p)
  <2>1. fresh' \in [Process -> BOOLEAN] /\ steady' \subseteq Process /\ overlapped' \in BOOLEAN
    BY <1>6, StampedType DEF StampWritten
  <2>2. done' \subseteq Effect
    BY <1>6, OwnType DEF TypeOK, StampWritten, Return
  <2> QED
    BY <1>0, <1>1, <1>6, <2>1, <2>2 DEF TypeOK, StampWritten, Unlock
<1> QED
  BY <1>2, <1>3, <1>4, <1>5, <1>6

LEMMA NextType == TypeOK /\ LeftInv /\ [Next]_vars => TypeOK' /\ LeftInv'
<1> SUFFICES ASSUME TypeOK, LeftInv, [Next]_vars PROVE TypeOK' /\ LeftInv'
  OBVIOUS
<1>1. ASSUME NEW p \in Process, Step(p) PROVE TypeOK' /\ LeftInv'
  BY <1>1, ReadingType, WritingType DEF Step
<1>2. ASSUME NEW p \in Process, NEW c \in Calls, Begin(p, c) PROVE TypeOK' /\ LeftInv'
  BY <1>2, BeginType
<1>3. ASSUME NEW p \in Process, Die(p) PROVE TypeOK' /\ LeftInv'
  <2>1. steady \in SUBSET Process /\ overlapped \in BOOLEAN /\ (p \in cut) \in BOOLEAN
    BY DEF TypeOK
  <2>2. steady' \subseteq Process /\ overlapped' \in BOOLEAN
    BY <1>3, <2>1, HistoryType DEF Die
  <2>3. pc' \in [Process -> Pc]
    BY <1>3, GotoType DEF Die, Pc
  <2> QED
    BY <1>3, <2>2, <2>3 DEF TypeOK, LeftInv, Die
<1>4. CASE UNCHANGED vars
  BY <1>4 DEF TypeOK, LeftInv, vars
<1> QED
  BY <1>1, <1>2, <1>3, <1>4 DEF Next

LEMMA AlwaysType == Spec => [](TypeOK /\ LeftInv)
BY InitType, NextType, PTL DEF Spec

\* Every variable keeps its type: a store holds effects of operations, and a process stands
\* at a step of the operations of the storage classes.
THEOREM TypeCorrect == Spec => []TypeOK
BY AlwaysType, PTL
-----------------------------------------------------------------------------
(* Where an operation may stand                                            *)

CallInv ==
    \A p \in Process :
        /\ pc[p] \in {"refresh", "load", "read", "stamp"} => call[p] \in Refreshes
        /\ pc[p] \in {"wait", "write", "restamp"} => call[p] # "read"
        /\ pc[p] = "write" => call[p] # "clear"

\* A step is one of a living process, and leaves the store and the others the same.
LEMMA OthersStay ==
    ASSUME TypeOK, NEW p \in Process, Step(p) \/ Die(p) \/ \E c \in Calls : Begin(p, c)
    PROVE  /\ store' = store
           /\ pc[p] # "dead"
           /\ \A q \in Process : q # p =>
                /\ pc'[q] = pc[q] /\ call'[q] = call[q] /\ left'[q] = left[q]
                /\ memory'[q] = memory[q]
BY DEF TypeOK, Step, Refresh, LockToRead, ReadFails, Read, StampRead, ReadDone, OpenToAppend,
       OpenToRewrite, LockToWrite, Write, StampWritten, Die, Begin, Goto, Return, Raise

LEMMA NextCall == TypeOK /\ CallInv /\ [Next]_vars => CallInv'
<1> SUFFICES ASSUME TypeOK, CallInv, [Next]_vars PROVE CallInv'
  OBVIOUS
<1>1. ASSUME NEW p \in Process, Step(p) \/ Die(p) \/ \E c \in Calls : Begin(p, c)
      PROVE  CallInv'
  <2>1. /\ pc'[p] \in {"refresh", "load", "read", "stamp"} => call'[p] \in Refreshes
        /\ pc'[p] \in {"wait", "write", "restamp"} => call'[p] # "read"
        /\ pc'[p] = "write" => call'[p] # "clear"
    BY <1>1 DEF TypeOK, CallInv, Refreshes, Step, Refresh, LockToRead, ReadFails, Read,
                StampRead, ReadDone, OpenToAppend, OpenToRewrite, LockToWrite, Write,
                StampWritten, Die, Begin, Goto, Return, Raise
  <2> QED
    BY <1>1, <2>1, OthersStay DEF CallInv
<1>2. CASE UNCHANGED vars
  BY <1>2 DEF CallInv, vars
<1> QED
  BY <1>1, <1>2 DEF Next

-----------------------------------------------------------------------------
(* A store that only grows                                                 *)

\* A row that a process knows of is in the file, or the process is about to write it.
GrowMemory(p) ==
    /\ memory[p] \subseteq file \cup {Own(p)}
    /\ pc[p] \notin {"wait", "write", "dead"} => memory[p] \subseteq file
    /\ pc[p] = "restamp" => Own(p) \in file

\* Nothing but rows is ever written to it.
GrowInv ==
    GrowsOnly(store) =>
        /\ cut = {} /\ ~garbled
        /\ done \subseteq file
        /\ \A p \in Process : GrowMemory(p) /\ call[p] \in {"read", "append", "log"}

LEMMA InitGrow == Init => GrowInv
BY DEF Init, GrowInv, GrowMemory

\* What one process does to a file that keeps what it has, and does to itself.
LEMMA GrowStep ==
    ASSUME TypeOK, GrowInv, GrowsOnly(store), NEW p \in Process,
           Step(p) \/ Die(p) \/ \E c \in Calls : Begin(p, c),
           UNCHANGED <<cut, garbled>>, file \subseteq file', done' \subseteq file',
           GrowMemory(p)', call'[p] \in {"read", "append", "log"}
    PROVE  GrowInv'
<1>1. ASSUME NEW q \in Process, q # p PROVE GrowMemory(q)' /\ call'[q] \in {"read", "append", "log"}
  <2>1. GrowMemory(q) /\ call[q] \in {"read", "append", "log"}
    BY DEF GrowInv
  <2>2. pc'[q] = pc[q] /\ call'[q] = call[q] /\ Own(q)' = Own(q) /\ memory'[q] = memory[q]
    BY <1>1, OthersStay DEF Own
  <2> QED
    BY <2>1, <2>2 DEF GrowMemory
<1>2. ASSUME NEW q \in Process PROVE GrowMemory(q)' /\ call'[q] \in {"read", "append", "log"}
  <2>1. CASE q = p
    BY <2>1 DEF GrowMemory, Own
  <2> QED
    BY <1>1, <2>1
<1> QED
  BY <1>2 DEF GrowInv

\* The steps that leave the file alone.
LEMMA GrowQuiet ==
    ASSUME TypeOK, GrowInv, GrowsOnly(store), NEW p \in Process,
           \/ Refresh(p) \/ LockToRead(p) \/ ReadFails(p) \/ Read(p) \/ StampRead(p)
           \/ ReadDone(p) \/ OpenToAppend(p) \/ LockToWrite(p) \/ StampWritten(p) \/ Die(p)
           \/ \E c \in Calls : Begin(p, c)
    PROVE  GrowInv'
<1>1. GrowMemory(p) /\ call[p] \in {"read", "append", "log"} /\ cut = {} /\ done \subseteq file
  BY DEF GrowInv
<1>2. store.flushed /\ store.calls \subseteq {"append", "log"}
  BY CallsType DEF TypeOK, GrowsOnly
<1>3. UNCHANGED <<cut, garbled, file>>
  BY DEF Refresh, LockToRead, ReadFails, Read, StampRead, ReadDone, OpenToAppend, LockToWrite,
         StampWritten, Die, Begin
<1>4. done' \subseteq file'
  BY <1>1, <1>3 DEF GrowMemory, Refresh, LockToRead, ReadFails, Read, StampRead, ReadDone,
         OpenToAppend, LockToWrite, StampWritten, Die, Begin, Raise, Return
<1>5. call'[p] \in {"read", "append", "log"}
  BY <1>1, <1>2 DEF TypeOK, Refresh, LockToRead, ReadFails, Read, StampRead, ReadDone,
         OpenToAppend, LockToWrite, StampWritten, Die, Begin
<1>6. GrowMemory(p)'
  <2>1. CASE Read(p)
    BY <1>1, <1>3, <2>1 DEF TypeOK, GrowMemory, Read, Rows, Goto
  <2>2. CASE OpenToAppend(p)
    BY <1>1, <1>3, <2>2 DEF TypeOK, GrowMemory, OpenToAppend, WithRow, Own, Goto
  <2>3. CASE LockToWrite(p)
    BY <1>1, <1>2, <1>3, <2>3 DEF TypeOK, GrowMemory, LockToWrite, Own, Goto
  <2>4. CASE StampWritten(p)
    BY <1>1, <1>2, <1>3, <2>4 DEF TypeOK, GrowMemory, StampWritten, Own, Goto, Return
  <2>5. CASE Die(p)
    BY <1>1, <1>3, <2>5 DEF TypeOK, GrowMemory, Die, Own, Goto
  <2>6. CASE \E c \in Calls : Begin(p, c)
    BY <1>1, <1>3, <2>6 DEF TypeOK, GrowMemory, Begin, Own, Goto
  <2>7. CASE Refresh(p) \/ LockToRead(p) \/ ReadFails(p) \/ StampRead(p) \/ ReadDone(p)
    BY <1>1, <1>3, <2>7 DEF TypeOK, GrowMemory, Refresh, LockToRead, ReadFails, StampRead,
                            ReadDone, Own, Goto, Raise
  <2> QED
    BY <2>1, <2>2, <2>3, <2>4, <2>5, <2>6, <2>7
<1> QED
  BY <1>3, <1>4, <1>5, <1>6, GrowStep DEF Step

LEMMA GrowWrite ==
    ASSUME TypeOK, GrowInv, CallInv, GrowsOnly(store), NEW p \in Process, Write(p)
    PROVE  GrowInv'
<1>1. /\ GrowMemory(p) /\ cut = {} /\ ~garbled /\ done \subseteq file
      /\ pc[p] = "write" /\ call[p] \in {"append", "log"}
  BY DEF GrowInv, CallInv, Write
<1>2. store.flushed
  BY CallsType DEF TypeOK
<1>3. /\ file' = file \cup {Own(p)}
      /\ pc' = [pc EXCEPT ![p] = "restamp"]
      /\ UNCHANGED <<cut, garbled, memory, call, left, done>>
  BY <1>1, <1>2 DEF Write, Appended, Rows, Goto
<1>4. GrowMemory(p)'
  BY <1>1, <1>3 DEF TypeOK, GrowMemory, Own
<1> QED
  BY <1>1, <1>3, <1>4, GrowStep DEF Step

LEMMA NextGrow == TypeOK /\ CallInv /\ GrowInv /\ [Next]_vars => GrowInv'
<1> SUFFICES ASSUME TypeOK, CallInv, GrowInv, [Next]_vars PROVE GrowInv'
  OBVIOUS
<1>1. store' = store
  BY OthersStay DEF Next, vars
<1>2. CASE ~GrowsOnly(store)
  BY <1>1, <1>2 DEF GrowInv, GrowsOnly
<1>3. CASE GrowsOnly(store)
  <2>1. ASSUME NEW p \in Process, Step(p) \/ Die(p) \/ \E c \in Calls : Begin(p, c)
        PROVE  GrowInv'
    <3>1. ~OpenToRewrite(p)
      BY <1>3 DEF GrowInv, OpenToRewrite
    <3> QED
      BY <1>3, <2>1, <3>1, GrowQuiet, GrowWrite DEF Step
  <2>2. CASE UNCHANGED vars
    BY <2>2 DEF GrowInv, GrowMemory, Own, vars
  <2> QED
    BY <2>1, <2>2 DEF Next
<1> QED
  BY <1>2, <1>3

LEMMA InitCall == Init => CallInv
BY DEF Init, CallInv

LEMMA AlwaysGrow == Spec => []GrowInv
BY InitType, NextType, InitCall, NextCall, InitGrow, NextGrow, PTL DEF Spec

\* The stores of refused transactions and of times: an update opens the file with mode a, so
\* that, whatever it overlaps with and whoever dies, no row that an operation has returned
\* after writing is lost, and nobody has a row in memory that is neither there nor its own.
THEOREM GrowingStoreKeeps == Spec => []GrowsOnlyKeeps
<1>1. GrowInv => GrowsOnlyKeeps
  BY DEF GrowInv, GrowMemory, GrowsOnlyKeeps
<1> QED
  BY <1>1, AlwaysGrow, PTL
-----------------------------------------------------------------------------
(* The file implements Store.  The invariant says what a process knows of  *)
(* the file, as long as nothing was overlapped.                            *)

\* A row is added to a store without looking at it only where nobody looks.
LogInv ==
    /\ \A p \in Process : call[p] = "log" => store.calls = {"log"}
    /\ store.calls = {"log"} =>
         /\ steady = {}
         /\ \A p \in Process : pc[p] \notin {"refresh", "load", "read", "stamp", "lacks"}

\* The memory has been changed, the file has not.
Writes(p) == pc[p] \in {"wait", "write"} \/ (pc[p] = "restamp" /\ ~store.flushed)

Rewrites == {"change", "set", "replace"}

\* Who has truncated the file is going to write it.
CutInv == \A p \in cut : Writes(p) /\ call[p] \in Rewrites

\* What the file is to be when p has written it.
Target(p) ==
    CASE call[p] \in {"set", "replace"} -> {Own(p)}
      [] call[p] = "clear" -> file
      [] OTHER -> file \cup {Own(p)}

\* A steady process has in memory what is in the file, or what it is about to write, unless
\* it is going to replace it.
Knows(p) ==
    /\ Writes(p) => /\ memory[p] = Target(p)
                    /\ call[p] \in Rewrites => p \in cut
    /\ ~Writes(p) /\ pc[p] # "dead" /\ ~(pc[p] = "go" /\ call[p] \in {"replace", "clear"})
         => memory[p] = file

SteadyInv == \A p \in steady : Knows(p)

\* A process with a current stamp has it too, when it is not writing.  None has read a file
\* without its keys.
HasFile(p) ==
    /\ pc[p] # "lacks"
    /\ fresh[p] /\ pc[p] \notin {"wait", "write", "restamp", "dead"} /\ store.calls # {"log"}
           => memory[p] = file

FreshInv == \A p \in Process : HasFile(p)

ViewInv == CutInv /\ SteadyInv /\ FreshInv

FileInv == LogInv /\ (~overlapped => ViewInv)

LEMMA InitFile == Init => FileInv
<1> SUFFICES ASSUME Init PROVE FileInv
  OBVIOUS
<1>1. LogInv
  BY DEF Init, LogInv
<1>2. ViewInv
  BY DEF Init, ViewInv, CutInv, SteadyInv, FreshInv, HasFile
<1> QED
  BY <1>1, <1>2 DEF FileInv

LEMMA NextLog == TypeOK /\ LogInv /\ [Next]_vars => LogInv'
<1> SUFFICES ASSUME TypeOK, LogInv, [Next]_vars PROVE LogInv'
  OBVIOUS
<1>1. ASSUME NEW p \in Process, Step(p) \/ Die(p) \/ \E c \in Calls : Begin(p, c)
      PROVE  LogInv'
  <2>1. call'[p] = "log" => store.calls = {"log"}
    BY ZenonT(40), <1>1, CallsType
    DEF TypeOK, LogInv, Step, Refresh, LockToRead, ReadFails, Read, StampRead,
                ReadDone, OpenToAppend, OpenToRewrite, LockToWrite, Write, StampWritten, Die,
                Begin
  <2>2. CASE store.calls = {"log"}
    <3>1. steady = {} /\ pc[p] \notin {"refresh", "load", "read", "stamp", "lacks"}
      BY <2>2 DEF LogInv
    <3>2. ~Refresh(p) /\ ~LockToRead(p) /\ ~ReadFails(p) /\ ~Read(p) /\ ~StampRead(p)
      BY <3>1 DEF Refresh, LockToRead, ReadFails, Read, StampRead
    <3>3. \A c \in Calls : Begin(p, c) => c = "log"
      BY <2>2 DEF Begin
    <3>4. steady' = {}
      BY <1>1, <3>1, <3>2, <3>3 DEF Step, ReadDone, OpenToAppend, OpenToRewrite, LockToWrite,
         Write, StampWritten, Die, Begin, Touched, Stamped, History
    <3>5. pc'[p] \notin {"refresh", "load", "read", "stamp", "lacks"}
      BY <1>1, <3>1, <3>2, <3>3 DEF TypeOK, Step, ReadDone, OpenToAppend, OpenToRewrite,
         LockToWrite, Write, StampWritten, Die, Begin, Goto, Return, Refreshes
    <3> QED
      BY <1>1, <2>1, <3>4, <3>5, OthersStay DEF LogInv
  <2>3. CASE store.calls # {"log"}
    BY <1>1, <2>1, <2>3, OthersStay DEF LogInv
  <2> QED
    BY <2>2, <2>3
<1>2. CASE UNCHANGED vars
  BY <1>2 DEF LogInv, vars
<1> QED
  BY <1>1, <1>2 DEF Next

\* What a process has to see to, for the others to know what they knew.
LEMMA ViewStep ==
    ASSUME TypeOK, ViewInv, NEW p \in Process,
           Step(p) \/ Die(p) \/ \E c \in Calls : Begin(p, c),
           steady' \subseteq steady \cup {p},
           p \in steady' => Knows(p)',
           cut' \subseteq cut \cup {p},
           p \in cut' => (Writes(p) /\ call[p] \in Rewrites)',
           \/ UNCHANGED <<file, cut>> /\ \A q \in Process \ {p} : fresh'[q] = fresh[q]
           \/ steady' \subseteq {p} /\ \A q \in Process \ {p} : ~fresh'[q],
           HasFile(p)'
    PROVE  ViewInv'
<1>1. ASSUME NEW q \in Process, q # p
      PROVE  /\ pc'[q] = pc[q] /\ call'[q] = call[q] /\ memory'[q] = memory[q]
             /\ Own(q)' = Own(q) /\ Writes(q)' = Writes(q) /\ store' = store
  BY <1>1, OthersStay DEF Own, Writes
<1>2. CutInv'
  <2> SUFFICES ASSUME NEW q \in cut' PROVE (Writes(q) /\ call[q] \in Rewrites)'
    BY DEF CutInv
  <2>1. CASE q = p
    BY <2>1 DEF Writes
  <2>2. CASE q # p
    <3>1. q \in Process /\ Writes(q) /\ call[q] \in Rewrites
      BY <2>2 DEF TypeOK, ViewInv, CutInv
    <3> QED
      BY <1>1, <2>2, <3>1
  <2> QED
    BY <2>1, <2>2
<1>3. SteadyInv'
  <2> SUFFICES ASSUME NEW q \in steady' PROVE Knows(q)'
    BY DEF SteadyInv
  <2>1. CASE q = p
    BY <2>1 DEF Knows, Writes, Target, Own
  <2>2. CASE q # p
    <3>1. q \in Process /\ Knows(q) /\ UNCHANGED <<file, cut>>
      BY <2>2 DEF TypeOK, ViewInv, SteadyInv
    <3>2. Target(q)' = Target(q)
      BY <1>1, <2>2, <3>1 DEF Target
    <3> QED
      BY <1>1, <2>2, <3>1, <3>2 DEF Knows
  <2> QED
    BY <2>1, <2>2
<1>4. FreshInv'
  <2> SUFFICES ASSUME NEW q \in Process PROVE HasFile(q)'
    BY DEF FreshInv
  <2>1. CASE q = p
    BY <2>1 DEF HasFile
  <2>2. CASE q # p
    BY <1>1, <2>2 DEF ViewInv, FreshInv, HasFile
  <2> QED
    BY <2>1, <2>2
<1> QED
  BY <1>2, <1>3, <1>4 DEF ViewInv

\* What a step adds to the history, unless it was overlapped.
LEMMA Kept ==
    ASSUME NEW seers, NEW overlap, History(seers, overlap), ~overlapped'
    PROVE  steady' = seers /\ ~overlap /\ ~overlapped
BY DEF History

\* The steps that change neither file nor memory nor stamp.
LEMMA QuietKnows ==
    ASSUME TypeOK, CallInv, ViewInv, NEW p \in Process, ~overlapped',
           \/ Refresh(p) /\ ~IsUpToDate(p)
           \/ LockToRead(p) \/ ReadFails(p) \/ ReadDone(p) \/ LockToWrite(p)
           \/ \E c \in Calls : Begin(p, c)
    PROVE  ViewInv'
<1>1. UNCHANGED <<store, file, cut, memory, fresh>> /\ steady' \subseteq steady \cup {p}
  BY DEF Refresh, LockToRead, ReadFails, ReadDone, LockToWrite, Begin, Raise
<1>2. p \in cut => Writes(p) /\ call[p] \in Rewrites
  BY DEF ViewInv, CutInv
<1>3. p \in steady => Knows(p)
  BY DEF ViewInv, SteadyInv
<1>4. HasFile(p)
  BY DEF ViewInv, FreshInv
<1>5. /\ p \in steady' => Knows(p)'
      /\ p \in cut' => (Writes(p) /\ call[p] \in Rewrites)'
      /\ HasFile(p)'
  <2>1. CASE LockToWrite(p)
    <3>1. /\ UNCHANGED <<steady, call, left>> /\ pc[p] = "wait"
          /\ pc'[p] = IF store.flushed /\ call[p] # "clear" THEN "write" ELSE "restamp"
      BY <2>1 DEF TypeOK, LockToWrite, Goto
    <3>2. Target(p)' = Target(p)
      BY <1>1, <3>1 DEF Target, Own
    <3>3. p \in steady' => Knows(p)'
      BY <1>1, <1>3, <3>1, <3>2 DEF Knows, Writes, Target
    <3>4. p \in cut' => (Writes(p) /\ call[p] \in Rewrites)'
      BY <1>1, <1>2, <3>1 DEF Writes, Rewrites
    <3> QED
      BY <3>1, <3>3, <3>4 DEF HasFile
  <2>2. CASE (Refresh(p) /\ ~IsUpToDate(p)) \/ LockToRead(p) \/ ReadFails(p) \/ ReadDone(p)
    <3>1. /\ UNCHANGED <<steady, call, left>>
          /\ pc[p] \in {"refresh", "load", "read", "go"} /\ pc'[p] \in {"load", "read", "idle"}
          /\ call[p] \notin {"replace", "clear"}
      BY <2>2 DEF TypeOK, CallInv, Refreshes, Refresh, LockToRead, ReadFails, ReadDone, Goto, Raise
    <3> QED
      BY <1>1, <1>2, <1>3, <1>4, <3>1 DEF Knows, Writes, HasFile
  <2>3. ASSUME NEW c \in Calls, Begin(p, c)
        PROVE  /\ p \in steady' => Knows(p)'
               /\ p \in cut' => (Writes(p) /\ call[p] \in Rewrites)'
               /\ HasFile(p)'
    <3>1. /\ pc[p] = "idle" /\ call'[p] = c
          /\ pc'[p] = IF c \in Refreshes THEN "refresh" ELSE "go"
          /\ p \in steady' => p \in steady \/ c \in {"replace", "clear"}
      BY <2>3 DEF TypeOK, Begin, Goto
    <3>2. p \in steady' => Knows(p)'
      BY <1>1, <1>3, <3>1 DEF Knows, Writes, Refreshes
    <3> QED
      BY <1>1, <1>2, <1>4, <3>1, <3>2 DEF Writes, HasFile
  <2> QED
    BY <2>1, <2>2, <2>3
<1> QED
  BY <1>1, <1>5, ViewStep DEF Step

LEMMA DieKnows ==
    ASSUME TypeOK, ViewInv, NEW p \in Process, Die(p), ~overlapped'
    PROVE  ViewInv'
<1>1. steady' = steady /\ p \notin cut /\ UNCHANGED <<file, cut, fresh>> /\ pc'[p] = "dead"
  BY Kept DEF TypeOK, Die, Goto
<1> QED
  BY <1>1, ViewStep DEF Knows, Writes, HasFile

\* The steps that see the file.
LEMMA SeeKnows ==
    ASSUME TypeOK, CallInv, ViewInv, NEW p \in Process, ~overlapped',
           (Refresh(p) /\ IsUpToDate(p)) \/ Read(p) \/ StampRead(p), store.calls # {"log"}
    PROVE  ViewInv'
<1>1. /\ UNCHANGED <<store, file, cut, call>> /\ pc[p] \in {"refresh", "read", "stamp"}
      /\ pc'[p] \in {"go", "stamp"} /\ call[p] \notin {"replace", "clear", "log"}
      /\ \A q \in Process \ {p} : fresh'[q] = fresh[q]
  <2>1. CASE Refresh(p) /\ IsUpToDate(p)
    BY <2>1 DEF TypeOK, CallInv, Refreshes, Refresh, Goto
  <2>2. CASE Read(p)
    <3>1. cut = {}
      BY <2>2, Kept DEF Read
    <3> QED
      BY <2>2, <3>1 DEF TypeOK, CallInv, Refreshes, Read, Goto
  <2>3. CASE StampRead(p)
    <3>1. pc[p] = "stamp"
      BY <2>3 DEF ViewInv, FreshInv, HasFile, StampRead
    <3> QED
      BY <2>3, <3>1 DEF TypeOK, CallInv, Refreshes, StampRead, Goto, Stamped
  <2> QED
    BY <2>1, <2>2, <2>3
<1>2. p \notin cut
  BY <1>1 DEF ViewInv, CutInv, Writes
<1>3. steady' \subseteq steady \cup {p} /\ memory'[p] = file
  <2>1. CASE Refresh(p) /\ IsUpToDate(p)
    <3>1. steady' = steady \cup {p}
      BY <2>1, Kept, <1>1 DEF Refresh, History
    <3>2. memory[p] = file
      BY <2>1, <1>1 DEF IsUpToDate, ViewInv, FreshInv, HasFile, Refresh
    <3> QED
      BY <2>1, <3>1, <3>2 DEF Refresh
  <2>2. CASE Read(p)
    <3>1. steady' = steady \cup {p} /\ cut = {}
      BY <2>2, Kept DEF Read
    <3> QED
      BY <2>2, <3>1 DEF TypeOK, Read, Rows
  <2>3. CASE StampRead(p)
    <3>1. steady' = steady /\ p \in steady
      BY <2>3, <1>1, Kept DEF StampRead, Stamped
    <3>2. pc[p] = "stamp"
      BY <2>3, <1>1 DEF StampRead
    <3> QED
      BY <2>3, <3>1, <3>2 DEF StampRead, ViewInv, SteadyInv, Knows, Writes
  <2> QED
    BY <2>1, <2>2, <2>3
<1>4. Knows(p)' /\ HasFile(p)'
  BY <1>1, <1>3 DEF Knows, Writes, HasFile
<1> QED
  BY <1>1, <1>2, <1>3, <1>4, ViewStep DEF Step

LEMMA OpenToAppendKnows ==
    ASSUME TypeOK, ViewInv, LogInv, NEW p \in Process, OpenToAppend(p), ~overlapped'
    PROVE  ViewInv'
<1>1. /\ UNCHANGED <<store, file, cut, call, left, fresh, steady>>
      /\ pc[p] = "go" /\ pc'[p] = "wait" /\ call[p] \in {"append", "log"}
      /\ memory'[p] = WithRow(p)
  BY DEF TypeOK, OpenToAppend, Goto
<1>2. p \notin cut
  BY <1>1 DEF ViewInv, CutInv, Writes
<1>3. ASSUME p \in steady PROVE Knows(p)'
  <2>1. call[p] = "append"
    BY <1>1, <1>3 DEF LogInv
  <2>2. memory[p] = file
    BY <1>1, <1>3, <2>1 DEF ViewInv, SteadyInv, Knows, Writes
  <2>3. memory'[p] = Target(p)'
    BY <1>1, <2>1, <2>2 DEF WithRow, Target, Own
  <2> QED
    BY <1>1, <2>1, <2>3 DEF Knows, Writes, Rewrites
<1> QED
  BY <1>1, <1>2, <1>3, ViewStep DEF Step, HasFile

LEMMA OpenToRewriteKnows ==
    ASSUME TypeOK, ViewInv, NEW p \in Process, OpenToRewrite(p), ~overlapped'
    PROVE  /\ ViewInv'
           /\ file' = file \/ file' = {}
<1>1. steady' = steady \cap {p} /\ p \in steady
  BY Kept DEF OpenToRewrite, Touched
<1>2. /\ UNCHANGED <<store, call, left>> /\ \A q \in Process : ~fresh'[q]
      /\ pc[p] = "go" /\ pc'[p] = "wait" /\ call[p] \in {"change", "set", "replace", "clear"}
      /\ memory'[p] = MemoryAfter(p)
      /\ IF call[p] = "clear" THEN file' = {} /\ UNCHANGED cut
                              ELSE cut' = cut \cup {p} /\ UNCHANGED file
  BY DEF TypeOK, OpenToRewrite, Goto, Touched
<1>3. p \notin cut
  BY <1>2 DEF ViewInv, CutInv, Writes
<1>4. call[p] = "change" => memory[p] = file
  BY <1>1, <1>2 DEF ViewInv, SteadyInv, Knows, Writes
<1>5. memory'[p] = Target(p)'
  <2>1. Own(p)' = Own(p)
    BY <1>2 DEF Own
  <2>2. CASE call[p] = "change"
    BY <1>2, <1>4, <2>1, <2>2 DEF MemoryAfter, Target
  <2>3. CASE call[p] \in {"set", "replace"}
    BY <1>2, <2>1, <2>3 DEF MemoryAfter, Target
  <2>4. CASE call[p] = "clear"
    BY <1>2, <2>4 DEF MemoryAfter, Target
  <2> QED
    BY <1>2, <2>2, <2>3, <2>4
<1>6. Knows(p)'
  BY <1>2, <1>5 DEF Knows, Writes, Rewrites
<1>7. p \in cut' => (Writes(p) /\ call[p] \in Rewrites)'
  BY <1>2, <1>3 DEF Writes, Rewrites
<1> QED
  BY <1>1, <1>2, <1>6, <1>7, ViewStep DEF Step, HasFile

\* A writing that was not overlapped is one addition, to what is there, or a replacement.
LEMMA WriteKnows ==
    ASSUME TypeOK, CallInv, ViewInv, LogInv, NEW p \in Process, Write(p), ~overlapped'
    PROVE  /\ ViewInv'
           /\ file' = file \cup {Own(p)} \/ file' = {Own(p)}
<1>1. /\ steady' = steady \cap {p} /\ cut \ {p} = {}
      /\ call[p] \in {"append", "log"} \/ p \in steady
  BY Kept DEF Write, Touched
<1>2. /\ UNCHANGED <<store, call, left, memory>> /\ \A q \in Process : ~fresh'[q]
      /\ pc[p] = "write" /\ cut' = {}
      /\ pc'[p] = IF store.flushed THEN "restamp" ELSE "idle"
      /\ call[p] \notin {"read", "clear"}
  BY DEF TypeOK, CallInv, Write, Goto, Return, Touched
<1>3. CASE call[p] \in {"append", "log"}
  <2>1. cut = {}
    BY <1>1, <1>3 DEF ViewInv, CutInv, Rewrites
  <2>2. file' = file \cup {Own(p)}
    BY <1>3, <2>1 DEF Write, Appended, Rows
  <2>3. ASSUME p \in steady PROVE memory'[p] = file'
    BY <1>2, <1>3, <2>2, <2>3 DEF ViewInv, SteadyInv, Knows, Writes, Target
  <2>4. p \in steady' => Knows(p)'
    BY <1>1, <1>2, <2>3 DEF Knows, Writes
  <2> QED
    BY <1>1, <1>2, <2>2, <2>4, ViewStep DEF Step, HasFile
<1>4. CASE call[p] \notin {"append", "log"}
  <2>1. p \in steady /\ call[p] \in Rewrites
    BY <1>1, <1>2, <1>4 DEF TypeOK, Calls, Rewrites
  <2>2. p \in cut /\ memory[p] = Target(p)
    BY <1>2, <2>1 DEF ViewInv, SteadyInv, Knows, Writes
  <2>3. file' = memory[p]
    BY <1>4, <2>2 DEF Write
  <2>4. Knows(p)'
    BY <1>2, <2>3 DEF Knows, Writes
  <2>5. file' = file \cup {Own(p)} \/ file' = {Own(p)}
    BY <1>2, <2>2, <2>3 DEF Target
  <2> QED
    BY <1>1, <1>2, <2>4, <2>5, ViewStep DEF Step, HasFile
<1> QED
  BY <1>3, <1>4

LEMMA StampWrittenKnows ==
    ASSUME TypeOK, ViewInv, LogInv, NEW p \in Process, StampWritten(p), ~overlapped'
    PROVE  ViewInv'
<1>1. /\ UNCHANGED <<store, file, cut, call, left, memory, steady>> /\ pc[p] = "restamp"
      /\ pc'[p] = IF store.flushed \/ call[p] = "clear" THEN "idle" ELSE "write"
      /\ \A q \in Process \ {p} : fresh'[q] = fresh[q]
      /\ call[p] = "log" \/ p \in steady
  BY Kept DEF TypeOK, StampWritten, Stamped, Goto, Return
<1>2. p \in cut => ~store.flushed /\ call[p] \in Rewrites
  BY <1>1 DEF ViewInv, CutInv, Writes
<1>3. p \in cut' => (Writes(p) /\ call[p] \in Rewrites)'
  BY <1>1, <1>2 DEF Writes, Rewrites
<1>4. ASSUME p \in steady PROVE Knows(p)' /\ HasFile(p)'
  <2>1. Knows(p)
    BY <1>4 DEF ViewInv, SteadyInv
  <2>2. CASE store.flushed
    BY <1>1, <2>1, <2>2 DEF Knows, Writes, HasFile
  <2>3. CASE ~store.flushed
    <3>1. memory[p] = Target(p)
      BY <1>1, <2>1, <2>3 DEF Knows, Writes
    <3>2. CASE call[p] = "clear"
      <4>1. memory[p] = file
        BY <3>1, <3>2 DEF Target
      <4> QED
        BY <1>1, <3>2, <4>1 DEF Knows, Writes, HasFile
    <3>3. CASE call[p] # "clear"
      <4>1. Target(p)' = Target(p)
        BY <1>1 DEF Target, Own
      <4> QED
        BY <1>1, <2>1, <2>3, <3>3, <4>1 DEF Knows, Writes, HasFile
    <3> QED
      BY <3>2, <3>3
  <2> QED
    BY <2>2, <2>3
<1>5. HasFile(p)'
  <2>1. CASE call[p] = "log"
    BY <1>1, <2>1 DEF LogInv, HasFile
  <2> QED
    BY <1>1, <1>4, <2>1
<1>6. p \in steady' => Knows(p)'
  BY <1>1, <1>4
<1> QED
  BY <1>1, <1>3, <1>5, <1>6, ViewStep DEF Step

\* No step undoes an overlap.
LEMMA OverlapStays == [Next]_vars /\ overlapped => overlapped'
BY DEF Next, vars, Step, Refresh, LockToRead, ReadFails, Read, StampRead, ReadDone,
       OpenToAppend, OpenToRewrite, LockToWrite, Write, StampWritten, Die, Begin, Touched,
       Stamped, History

LEMMA NextView == TypeOK /\ CallInv /\ FileInv /\ [Next]_vars /\ ~overlapped' => ViewInv'
<1> SUFFICES ASSUME TypeOK, CallInv, FileInv, [Next]_vars, ~overlapped' PROVE ViewInv'
  OBVIOUS
<1>1. ViewInv /\ LogInv
  BY OverlapStays DEF FileInv
<1>2. ASSUME NEW p \in Process, Step(p) PROVE ViewInv'
  <2>1. CASE (Refresh(p) /\ IsUpToDate(p)) \/ Read(p) \/ StampRead(p)
    <3>1. store.calls # {"log"}
      BY <1>1, <2>1 DEF LogInv, Refresh, Read, StampRead
    <3> QED
      BY <1>1, <2>1, <3>1, SeeKnows
  <2>2. CASE \/ Refresh(p) /\ ~IsUpToDate(p)
             \/ LockToRead(p) \/ ReadFails(p) \/ ReadDone(p) \/ LockToWrite(p)
    BY <1>1, <2>2, QuietKnows
  <2> QED
    BY <1>1, <1>2, <2>1, <2>2, OpenToAppendKnows, OpenToRewriteKnows, WriteKnows,
       StampWrittenKnows DEF Step
<1>3. ASSUME NEW p \in Process, NEW c \in Calls, Begin(p, c) PROVE ViewInv'
  BY <1>1, <1>3, QuietKnows
<1>4. ASSUME NEW p \in Process, Die(p) PROVE ViewInv'
  BY <1>1, <1>4, DieKnows
<1>5. CASE UNCHANGED vars
  BY <1>1, <1>5 DEF vars, ViewInv, CutInv, SteadyInv, FreshInv, Knows, HasFile, Writes, Target,
                    Own
<1> QED
  BY <1>2, <1>3, <1>4, <1>5 DEF Next

LEMMA AlwaysFile == Spec => [](TypeOK /\ LeftInv /\ CallInv /\ FileInv)
<1>1. TypeOK /\ CallInv /\ FileInv /\ [Next]_vars => FileInv'
  BY NextLog, NextView DEF FileInv
<1> QED
  BY <1>1, InitType, NextType, InitCall, NextCall, InitFile, PTL DEF Spec

\* Manager.refresh, is_up_to_date: until operations overlap, what an idle process with a
\* current stamp has in memory is the store.
THEOREM StampIsTrue == Spec => []SeesFile
<1>1. FileInv => SeesFile
  BY DEF FileInv, ViewInv, FreshInv, HasFile, SeesFile
<1> QED
  BY <1>1, AlwaysFile, PTL
-----------------------------------------------------------------------------
(* Every step is one of Store, or none.                                    *)

LEMMA InitStore == Init => Atomic!Init
BY DEF Init, Atomic!Init

LEMMA StepStore ==
    ASSUME TypeOK, LeftInv, CallInv, FileInv, [Next]_vars, ~overlapped', file' # file
    PROVE  file' = {} \/ \E e \in Effect : file' = file \cup {e} \/ file' = {e}
<1>1. ViewInv /\ LogInv
  BY OverlapStays DEF FileInv
<1>2. PICK p \in Process : OpenToRewrite(p) \/ Write(p)
  BY DEF Next, vars, Step, Refresh, LockToRead, ReadFails, Read, StampRead, ReadDone,
         OpenToAppend, LockToWrite, StampWritten, Die, Begin
<1>3. CASE OpenToRewrite(p)
  BY <1>1, <1>3, OpenToRewriteKnows
<1>4. CASE Write(p)
  <2>1. file' = file \cup {Own(p)} \/ file' = {Own(p)}
    BY <1>1, <1>4, WriteKnows
  <2> QED
    BY <2>1, OwnType
<1> QED
  BY <1>2, <1>3, <1>4

LEMMA NextStore ==
    TypeOK /\ LeftInv /\ CallInv /\ FileInv /\ [Next]_vars =>
        [Atomic!Next]_<<IF overlapped THEN {} ELSE file, overlapped>>
<1> SUFFICES ASSUME TypeOK, LeftInv, CallInv, FileInv, [Next]_vars
             PROVE  [Atomic!Next]_<<IF overlapped THEN {} ELSE file, overlapped>>
  OBVIOUS
<1>1. overlapped \in BOOLEAN /\ overlapped' \in BOOLEAN
  BY NextType DEF TypeOK
<1>2. CASE overlapped
  BY <1>1, <1>2, OverlapStays
<1>3. CASE ~overlapped /\ overlapped'
  <2>1. Atomic!Break
    BY <1>1, <1>3 DEF Atomic!Break
  <2> QED
    BY <2>1 DEF Atomic!Next
<1>4. CASE ~overlapped /\ ~overlapped'
  <2>1. CASE file' = file
    BY <1>1, <1>4, <2>1
  <2>2. CASE file' # file
    <3>1. file' = {} \/ \E e \in Effect : file' = file \cup {e} \/ file' = {e}
      BY <1>4, <2>2, StepStore
    <3>2. Atomic!Clear \/ \E e \in Effect : Atomic!Add(e) \/ Atomic!Set(e)
      BY <1>1, <1>4, <3>1 DEF Atomic!Clear, Atomic!Add, Atomic!Set
    <3> QED
      BY <3>2 DEF Atomic!Next
  <2> QED
    BY <2>1, <2>2
<1> QED
  BY <1>2, <1>3, <1>4

\* The storage classes and their managers: until operations overlap, or one dies half-way
\* through a rewriting, every change of a store is one operation, made to what all the others
\* left.
THEOREM FileImplementsStore == Spec => WritesOneByOne
BY InitStore, NextStore, AlwaysFile, PTL DEF Spec, WritesOneByOne, Atomic!Spec
-----------------------------------------------------------------------------
(* Operations do not all wait for each other. *)

\* Where an operation stands that has locked the file.
Inside(p) ==
    \/ pc[p] \in {"read", "stamp", "lacks", "restamp"}
    \/ pc[p] = "write" /\ store.flushed

\* flock: who is inside has the lock, and nobody else has.
HolderInv == \A p \in Process : holder = p <=> Inside(p)

\* Where it can go on, whatever the others do: where it does not wait for the lock.
CanGoOn(p) == pc[p] \notin {"idle", "dead"} /\ (pc[p] \in {"load", "wait"} => holder = Nobody)

LEMMA NextHolder == TypeOK /\ HolderInv /\ [Next]_vars => HolderInv'
<1> SUFFICES ASSUME TypeOK, HolderInv, [Next]_vars, NEW q \in Process
             PROVE  holder' = q <=> Inside(q)'
  BY DEF HolderInv
<1>0. q # Nobody /\ (holder = q <=> Inside(q))
  BY NobodyAssumption DEF HolderInv
<1>1. ASSUME NEW p \in Process, Step(p)
      PROVE  holder' = q <=> Inside(q)'
  <2>0. store' = store /\ (holder = p <=> Inside(p))
    BY <1>1 DEF HolderInv, Step, Refresh, LockToRead, ReadFails, Read, StampRead, ReadDone,
                OpenToAppend, OpenToRewrite, LockToWrite, Write, StampWritten
  <2>1. CASE p = q
    BY <1>0, <1>1, <2>1 DEF TypeOK, Inside, Step, Refresh, LockToRead, ReadFails, Read, StampRead,
       ReadDone, OpenToAppend, OpenToRewrite, LockToWrite, Write, StampWritten, Goto, Return,
       Raise, Unlock, UnlockFinally
  <2>2. CASE p # q
    <3>1. pc'[q] = pc[q]
      BY <1>1, <2>2 DEF TypeOK, Step, Refresh, LockToRead, ReadFails, Read, StampRead, ReadDone,
         OpenToAppend, OpenToRewrite, LockToWrite, Write, StampWritten, Goto, Return, Raise
    <3>2. Inside(q)' <=> Inside(q)
      BY <2>0, <3>1 DEF Inside
    <3>3. \/ holder' = holder
          \/ holder = Nobody /\ holder' = p
          \/ Inside(p) /\ holder' = Nobody
      BY <1>1 DEF Inside, Step, Refresh, LockToRead, ReadFails, Read, StampRead, ReadDone,
         OpenToAppend, OpenToRewrite, LockToWrite, Write, StampWritten, Unlock, UnlockFinally
    <3> QED
      BY <1>0, <2>0, <2>2, <3>2, <3>3
  <2> QED
    BY <2>1, <2>2
<1>2. ASSUME NEW p \in Process, Die(p)
      PROVE  holder' = q <=> Inside(q)'
  <2>1. p # q => pc'[q] = pc[q]
    BY <1>2 DEF TypeOK, Die, Goto
  <2>2. p = q => pc'[q] = "dead"
    BY <1>2 DEF TypeOK, Die, Goto
  <2> QED
    BY <1>0, <1>2, <2>1, <2>2 DEF Die, Inside
<1>3. ASSUME NEW p \in Process, NEW c \in Calls, Begin(p, c)
      PROVE  holder' = q <=> Inside(q)'
  BY <1>0, <1>3 DEF TypeOK, Begin, Goto, Inside
<1>4. CASE UNCHANGED vars
  BY <1>0, <1>4 DEF vars, Inside
<1> QED
  BY <1>1, <1>2, <1>3, <1>4 DEF Next

\* As long as some operation is under way, some operation can go on: processes never all wait
\* for the lock of a file, whoever died with it.  (What OperationEnds needs to hold of every
\* state.)
NobodyStuck ==
    (\E p \in Process : pc[p] \notin {"idle", "dead"}) => \E p \in Process : CanGoOn(p)

\* load, dump and update: the lock is given back on every path, errors and deaths included.
THEOREM LockIsReleased == Spec => []NobodyStuck
<1>1. TypeOK /\ HolderInv => NobodyStuck
  <2> SUFFICES ASSUME TypeOK, HolderInv, NEW p \in Process, pc[p] \notin {"idle", "dead"}
               PROVE  \E q \in Process : CanGoOn(q)
    BY DEF NobodyStuck
  <2>1. CASE holder = Nobody
    BY <2>1 DEF CanGoOn
  <2>2. CASE holder \in Process
    <3>1. Inside(holder)
      BY <2>2 DEF HolderInv
    <3> QED
      BY <2>2, <3>1 DEF Inside, CanGoOn
  <2> QED
    BY <2>1, <2>2 DEF TypeOK
<1>2. Init => HolderInv
  BY NobodyAssumption DEF Init, HolderInv, Inside
<1> QED
  BY <1>1, <1>2, NextHolder, AlwaysType, PTL DEF Spec
=============================================================================
