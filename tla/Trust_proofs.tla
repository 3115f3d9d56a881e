---------------------------- MODULE Trust_proofs ----------------------------
(***************************************************************************)
(* Theorems about Trust, for any nodes, changes, amounts, histories and    *)
(* plans:                                                                  *)
(*                                                                         *)
(*   TypeCorrect          every variable keeps its type                    *)
(*   ChangeOnce           a node applies a change once, but for the        *)
(*                        reasons that AppliedOnce names                   *)
(*   TrustFollowsHistory  the trust of a node is the sum of its history    *)
(*   ChangeSpreads        a change is on its way to every node that does   *)
(*                        not have it, or was lost                         *)
(*   QuietNodesAgree      when all is done, nodes give a node the same     *)
(*                        trust                                            *)
(***************************************************************************)
EXTENDS Trust, FiniteSetTheorems, TLAPS

-----------------------------------------------------------------------------
(* Sums                                                                    *)
(*                                                                         *)
(* Total is a fold, of which a proof can only use the recursion it is      *)
(* chosen to satisfy.  Sum gives the same without any: it counts the units *)
(* by which the changes of a set raise and lower a trust.                  *)

LEMMA RowType ==
    ASSUME NEW r \in Row
    PROVE  r[1] \in Change /\ r[2] \in Node /\ About[r[1]] \in Node /\ Amount[r[1]] \in Int
BY AboutAssumption, AmountAssumption DEF Row

LEMMA SubsetInduction ==
    ASSUME NEW S, IsFiniteSet(S), NEW T, {} \in T,
           \A s \in SUBSET S : s # {} /\ (\A r \in s : s \ {r} \in T) => s \in T
    PROVE  \A s \in SUBSET S : s \in T
<1> DEFINE R == StrictSubsetOrdering(S)
           Out == (SUBSET S) \ T
<1>1. IsWellFoundedOn(R, SUBSET S)
  BY FS_FiniteSubsetsOfFinite, FS_StrictSubsetOrderingWellFounded
<1>2. SUFFICES ASSUME Out # {} PROVE FALSE
  OBVIOUS
<1>3. PICK s \in Out : \A t \in Out : ~(<<t, s>> \in R)
  <2> HIDE DEF R
  <2>1. Out \subseteq SUBSET S
    OBVIOUS
  <2> HIDE DEF Out
  <2> QED
    BY <1>1, <1>2, <2>1, WFMin
<1>4. ASSUME NEW r \in s PROVE s \ {r} \in T
  <2>1. <<s \ {r}, s>> \in R
    BY DEF StrictSubsetOrdering
  <2> QED
    BY <1>3, <2>1
<1> QED
  BY <1>3, <1>4

\* The amounts of the changes of S that raise the trust, and those that lower it, counted.
Up(S) == {u \in S \X Nat : u[2] \in 1..Amount[u[1][1]]}
Down(S) == {u \in S \X Nat : u[2] \in 1..(-Amount[u[1][1]])}
Sum(S) == Cardinality(Up(S)) - Cardinality(Down(S))

Units(r, a) == {u \in {r} \X Nat : u[2] \in 1..a}

LEMMA UnitsCount ==
    ASSUME NEW r, NEW a \in Int
    PROVE  IsFiniteSet(Units(r, a)) /\ Cardinality(Units(r, a)) = IF a > 0 THEN a ELSE 0
<1> DEFINE U == Units(r, a)
           f == [i \in 1..a |-> <<r, i>>]
<1>1. f \in Bijection(1..a, U)
  <2>1. f \in [1..a -> U]
    BY DEF Units
  <2>2. \A i, j \in 1..a : f[i] = f[j] => i = j
    OBVIOUS
  <2>3. \A u \in U : \E i \in 1..a : f[i] = u
    BY DEF Units
  <2> HIDE DEF f, U
  <2> QED
    BY <2>1, <2>2, <2>3, Zenon DEF Bijection, Injection, Surjection, IsInjective
<1>2. IsFiniteSet(1..a) /\ Cardinality(1..a) = IF a > 0 THEN a ELSE 0
  BY FS_Interval
<1> HIDE DEF f, U
<1>3. IsFiniteSet(U) /\ Cardinality(U) = Cardinality(1..a)
  BY <1>1, <1>2, FS_Bijection DEF ExistsBijection
<1> QED
  BY <1>2, <1>3 DEF U

LEMMA UnitsOfOne ==
    ASSUME NEW r \in Row
    PROVE  /\ IsFiniteSet(Up({r})) /\ IsFiniteSet(Down({r}))
           /\ Sum({r}) = Amount[r[1]]
<1>1. Amount[r[1]] \in Int /\ -Amount[r[1]] \in Int
  BY RowType
<1>2. Up({r}) = Units(r, Amount[r[1]])
  BY DEF Up, Units
<1>3. Down({r}) = Units(r, -Amount[r[1]])
  BY DEF Down, Units
<1>4. IsFiniteSet(Up({r})) /\ Cardinality(Up({r})) = IF Amount[r[1]] > 0 THEN Amount[r[1]] ELSE 0
  BY <1>1, <1>2, UnitsCount
<1>5. /\ IsFiniteSet(Down({r}))
      /\ Cardinality(Down({r})) = IF -Amount[r[1]] > 0 THEN -Amount[r[1]] ELSE 0
  BY <1>1, <1>3, UnitsCount
<1> QED
  BY <1>1, <1>4, <1>5 DEF Sum

LEMMA DisjointUnion ==
    ASSUME NEW S, NEW T, IsFiniteSet(S), IsFiniteSet(T), S \cap T = {}
    PROVE  Cardinality(S \cup T) = Cardinality(S) + Cardinality(T)
<1>1. Cardinality(S) \in Nat /\ Cardinality(T) \in Nat /\ Cardinality(S \cap T) = 0
  BY FS_CardinalityType, FS_EmptySet
<1>2. Cardinality(S \cup T) = Cardinality(S) + Cardinality(T) - Cardinality(S \cap T)
  BY FS_Union
<1> QED
  BY <1>1, <1>2

LEMMA FiniteUnits ==
    ASSUME NEW S \in SUBSET Row, IsFiniteSet(S)
    PROVE  IsFiniteSet(Up(S)) /\ IsFiniteSet(Down(S))
<1> DEFINE T == {s \in SUBSET S : IsFiniteSet(Up(s)) /\ IsFiniteSet(Down(s))}
<1>1. {} \in T
  <2>1. Up({}) = {} /\ Down({}) = {}
    BY DEF Up, Down
  <2> QED
    BY <2>1, FS_EmptySet
<1>2. ASSUME NEW s \in SUBSET S, s # {}, \A r \in s : s \ {r} \in T PROVE s \in T
  <2>1. PICK r \in s : TRUE
    BY <1>2
  <2>2. Up(s) = Up(s \ {r}) \cup Up({r}) /\ Down(s) = Down(s \ {r}) \cup Down({r})
    BY <2>1 DEF Up, Down
  <2>3. IsFiniteSet(Up({r})) /\ IsFiniteSet(Down({r}))
    BY <2>1, UnitsOfOne
  <2>4. IsFiniteSet(Up(s \ {r})) /\ IsFiniteSet(Down(s \ {r}))
    BY <1>2, <2>1
  <2>5. IsFiniteSet(Up(s)) /\ IsFiniteSet(Down(s))
    <3>1. IsFiniteSet(Up(s \ {r}) \cup Up({r}))
      BY <2>3, <2>4, FS_Union
    <3>2. IsFiniteSet(Down(s \ {r}) \cup Down({r}))
      BY <2>3, <2>4, FS_Union
    <3> QED
      BY <2>2, <3>1, <3>2
  <2> QED
    BY <2>5
<1> HIDE DEF T
<1>3. S \in T
  BY <1>1, <1>2, SubsetInduction
<1> QED
  BY <1>3 DEF T

LEMMA SumEmpty == Sum({}) = 0
<1>1. Up({}) = {} /\ Down({}) = {}
  BY DEF Up, Down
<1> QED
  BY <1>1, FS_EmptySet DEF Sum

LEMMA SumAdds ==
    ASSUME NEW S \in SUBSET Row, IsFiniteSet(S), NEW r \in Row \ S
    PROVE  Sum(S \cup {r}) = Sum(S) + Amount[r[1]] /\ Sum(S) \in Int
<1>1. /\ Up(S \cup {r}) = Up(S) \cup Up({r}) /\ Up(S) \cap Up({r}) = {}
      /\ Down(S \cup {r}) = Down(S) \cup Down({r}) /\ Down(S) \cap Down({r}) = {}
  BY DEF Up, Down
<1>2. /\ IsFiniteSet(Up(S)) /\ IsFiniteSet(Down(S))
      /\ IsFiniteSet(Up({r})) /\ IsFiniteSet(Down({r}))
      /\ Sum({r}) = Amount[r[1]]
  BY FiniteUnits, UnitsOfOne
<1>3. /\ Cardinality(Up(S)) \in Nat /\ Cardinality(Down(S)) \in Nat
      /\ Cardinality(Up({r})) \in Nat /\ Cardinality(Down({r})) \in Nat
  BY <1>2, FS_CardinalityType
<1>4. /\ Cardinality(Up(S \cup {r})) = Cardinality(Up(S)) + Cardinality(Up({r}))
      /\ Cardinality(Down(S \cup {r})) = Cardinality(Down(S)) + Cardinality(Down({r}))
  BY <1>1, <1>2, DisjointUnion
<1> QED
  BY <1>2, <1>3, <1>4 DEF Sum

LEMMA TotalIsSum ==
    ASSUME NEW S \in SUBSET Row, IsFiniteSet(S)
    PROVE  Total(S) = Sum(S)
<1> DEFINE x(s) == CHOOSE r \in s : TRUE
           F(g) == [s \in SUBSET S |-> IF s = {} THEN 0 ELSE Amount[x(s)[1]] + g[s \ {x(s)}]]
           iter == CHOOSE g : g = F(g)
           sum == [s \in SUBSET S |-> Sum(s)]
<1>1. Total(S) = iter[S]
  BY DEF Total, MapThenSumSet, MapThenFoldSet
<1>2. ASSUME NEW s \in SUBSET S, s # {}
      PROVE  x(s) \in s /\ Sum(s) = Amount[x(s)[1]] + Sum(s \ {x(s)})
  <2>1. x(s) \in s
    BY <1>2
  <2> DEFINE t == s \ {x(s)}
  <2>2. IsFiniteSet(t) /\ t \in SUBSET Row /\ x(s) \in Row \ t /\ s = t \cup {x(s)}
    BY <2>1, FS_Subset
  <2> HIDE DEF t, x
  <2>3. Sum(s) = Sum(t) + Amount[x(s)[1]] /\ Sum(t) \in Int /\ Amount[x(s)[1]] \in Int
    BY <2>2, SumAdds, RowType
  <2> QED
    BY <2>1, <2>3 DEF t
<1>3. Sum({}) = 0
  BY SumEmpty
<1>4. sum = F(sum)
  <2> HIDE DEF x
  <2> QED
    BY <1>2, <1>3
<1>5. iter = F(iter)
  <2> HIDE DEF F, sum
  <2> QED
    BY <1>4, Zenon
<1> DEFINE T == {s \in SUBSET S : iter[s] = Sum(s)}
<1> HIDE DEF x, iter
<1>6. iter[{}] = 0 /\ \A s \in SUBSET S : s # {} => iter[s] = Amount[x(s)[1]] + iter[s \ {x(s)}]
  BY <1>5
<1>7. {} \in T
  BY <1>3, <1>6
<1>8. ASSUME NEW s \in SUBSET S, s # {}, \A r \in s : s \ {r} \in T PROVE s \in T
  BY <1>2, <1>6, <1>8
<1>9. S \in T
  <2> HIDE DEF T
  <2> QED
    BY <1>7, <1>8, SubsetInduction
<1> QED
  BY <1>1, <1>9

\* The rows of S that are about m.
Of(S, m) == {r \in S : About[r[1]] = m}

LEMMA TotalAdds ==
    ASSUME NEW S \in SUBSET Row, IsFiniteSet(S), NEW r \in Row \ S, NEW m
    PROVE  /\ Total(Of(S, m)) \in Int
           /\ Total(Of(S \cup {r}, m)) = IF About[r[1]] = m THEN Total(Of(S, m)) + Amount[r[1]]
                                                            ELSE Total(Of(S, m))
<1> DEFINE T == Of(S, m)
<1>1. T \in SUBSET Row /\ r \in Row \ T /\ IsFiniteSet(T)
  BY FS_Subset DEF Of
<1>2. Of(S \cup {r}, m) = IF About[r[1]] = m THEN T \cup {r} ELSE T
  BY DEF Of
<1> HIDE DEF T
<1>3. Sum(T \cup {r}) = Sum(T) + Amount[r[1]] /\ Sum(T) \in Int
  BY <1>1, SumAdds
<1>4. Total(T) = Sum(T) /\ Total(T \cup {r}) = Sum(T \cup {r})
  BY <1>1, TotalIsSum, FS_AddElement
<1> QED
  BY <1>2, <1>3, <1>4 DEF T

LEMMA TotalType ==
    ASSUME NEW S \in SUBSET Row, IsFiniteSet(S), NEW m
    PROVE  Total(Of(S, m)) \in Int
<1> DEFINE T == Of(S, m)
<1>1. T \in SUBSET Row /\ IsFiniteSet(T)
  BY FS_Subset DEF Of
<1> HIDE DEF T
<1>2. Cardinality(Up(T)) \in Nat /\ Cardinality(Down(T)) \in Nat
  BY <1>1, FiniteUnits, FS_CardinalityType
<1> QED
  BY <1>1, <1>2, TotalIsSum DEF Sum, T

LEMMA TotalEmpty == Total({}) = 0
<1>1. Total({}) = Sum({})
  BY TotalIsSum, FS_EmptySet
<1> QED
  BY <1>1, SumEmpty

\* Units of changes that two sets of rows have in common are as many.
Counted(S, a) == {u \in S \X Nat : u[2] \in 1..a[u[1][1]]}

LEMMA MatchedUnits ==
    ASSUME NEW S, NEW T, NEW a, IsFiniteSet(Counted(S, a)),
           \A r \in S : \E s \in T : Same(r, s), \A s \in T : \E r \in S : Same(r, s),
           \A r, s \in S : Same(r, s) => r = s, \A r, s \in T : Same(r, s) => r = s
    PROVE  Cardinality(Counted(S, a)) = Cardinality(Counted(T, a))
<1> DEFINE mate(r) == CHOOSE s \in T : Same(r, s)
           U == Counted(S, a)
           V == Counted(T, a)
           f == [u \in U |-> <<mate(u[1]), u[2]>>]
<1>1. \A r \in S : mate(r) \in T /\ Same(r, mate(r))
  OBVIOUS
<1> HIDE DEF mate
<1>2. f \in [U -> V]
  BY <1>1 DEF Counted, Same
<1>3. ASSUME NEW u \in U, NEW v \in U, f[u] = f[v] PROVE u = v
  <2>1. mate(u[1]) = mate(v[1]) /\ u[2] = v[2] /\ u[1] \in S /\ v[1] \in S
    BY <1>3 DEF Counted
  <2>2. u[1] = v[1]
    BY <1>1, <2>1 DEF Same
  <2> QED
    BY <2>1, <2>2 DEF Counted
<1>4. ASSUME NEW v \in V PROVE \E u \in U : f[u] = v
  <2>1. v = <<v[1], v[2]>> /\ v[1] \in T /\ v[2] \in Nat /\ v[2] \in 1..a[v[1][1]]
    BY DEF Counted
  <2>2. PICK r \in S : Same(r, v[1])
    BY <2>1
  <2>3. <<r, v[2]>> \in U
    BY <2>1, <2>2 DEF Counted, Same
  <2>4. mate(r) = v[1]
    BY <1>1, <2>1, <2>2 DEF Same
  <2> QED
    BY <2>1, <2>3, <2>4
<1> HIDE DEF f, U, V
<1>5. f \in Bijection(U, V)
  BY <1>2, <1>3, <1>4, Zenon DEF Bijection, Injection, Surjection, IsInjective
<1>6. Cardinality(V) = Cardinality(U)
  BY <1>5, FS_Bijection DEF ExistsBijection, U
<1> QED
  BY <1>6 DEF U, V

LEMMA MatchedTotals ==
    ASSUME NEW S \in SUBSET Row, NEW T \in SUBSET Row, IsFiniteSet(S), IsFiniteSet(T),
           \A r \in S : \E s \in T : Same(r, s), \A s \in T : \E r \in S : Same(r, s),
           \A r, s \in S : Same(r, s) => r = s, \A r, s \in T : Same(r, s) => r = s
    PROVE  Total(S) = Total(T)
<1> DEFINE minus == [c \in Change |-> -Amount[c]]
<1>1. ASSUME NEW A \in SUBSET Row
      PROVE  Up(A) = Counted(A, Amount) /\ Down(A) = Counted(A, minus)
  BY RowType DEF Up, Down, Counted
<1>2. IsFiniteSet(Up(S)) /\ IsFiniteSet(Down(S))
  BY FiniteUnits
<1> HIDE DEF minus
<1>3. Cardinality(Up(S)) = Cardinality(Up(T))
  BY <1>1, <1>2, MatchedUnits
<1>4. Cardinality(Down(S)) = Cardinality(Down(T))
  BY <1>1, <1>2, MatchedUnits
<1> QED
  BY <1>3, <1>4, TotalIsSum DEF Sum
-----------------------------------------------------------------------------
(* Types *)

\* What is written is the trust of a node that was in the file.
ViewInv ==
    \A n \in Node, p \in Proc :
        act[n][p].pc = "write" => act[n][p].view[About[act[n][p].row[1]]] \in Int

TypeInv == TypeOK /\ ViewInv

\* A process that is about a change has its row.
LEMMA ActRow ==
    ASSUME TypeOK, NEW n \in Node, NEW p \in Proc, act[n][p] # Idle
    PROVE  /\ act[n][p].row \in Row
           /\ act[n][p].pc \in {"purge", "rewrite", "find"} \cup Taking
           /\ act[n][p].pc = "write" => act[n][p].view \in TrustFile
<1>1. act[n][p] \in Act
  BY DEF TypeOK
<1> QED
  BY <1>1 DEF Act, Taking

\* Doing something else changes what one process of one node is about.
LEMMA DoType ==
    ASSUME TypeInv, NEW n \in Node, NEW p \in Proc, NEW a \in Act, Do(n, p, a),
           a.pc = "write" => a.view[About[a.row[1]]] \in Int
    PROVE  act' \in [Node -> [Proc -> Act]] /\ ViewInv'
<1>1. act' \in [Node -> [Proc -> Act]]
  BY DEF TypeInv, TypeOK, Do
<1>2. ASSUME NEW m \in Node, NEW q \in Proc
      PROVE  act'[m][q] = IF m = n /\ q = p THEN a ELSE act[m][q]
  BY DEF TypeInv, TypeOK, Do
<1> QED
  BY <1>1, <1>2 DEF TypeInv, ViewInv

LEMMA IdleType == Idle \in Act /\ Idle.pc = "idle"
BY DEF Idle, Act

LEMMA AtType ==
    ASSUME NEW step \in {"purge", "rewrite", "find", "read", "record", "append"}, NEW r \in Row
    PROVE  /\ At(step, r) \in Act /\ At(step, r).pc = step /\ At(step, r).row = r
           /\ At(step, r) # Idle
BY DEF At, Act, Idle

LEMMA PastType == Past \in SUBSET Row /\ IsFiniteSet(Past)
BY PastAssumption DEF Row, Proc

LEMMA InitType == Init => TypeInv
<1> SUFFICES ASSUME Init PROVE TypeInv
  OBVIOUS
<1>1. trust \in [Node -> TrustFile]
  <2>1. ASSUME NEW m \in Node PROVE Total({r \in Past : About[r[1]] = m}) \in Int
    <3>1. {r \in Past : About[r[1]] = m} = Of(Past, m)
      BY DEF Of
    <3> QED
      BY <3>1, PastType, TotalType
  <2>2. ASSUME NEW m \in Node
        PROVE  BasicTrust + Total({r \in Past : About[r[1]] = m}) \in Int
    BY <2>1 DEF BasicTrust
  <2> QED
    BY <2>2 DEF Init, TrustFile
<1>2. act \in [Node -> [Proc -> Act]] /\ ViewInv
  BY IdleType DEF Init, ViewInv
<1>3. due \subseteq UNION Plans
  BY DEF Init
<1>4. /\ recent \in [Node -> SUBSET Row] /\ full \in [Node -> SUBSET Row]
      /\ memory \in [Node -> [Proc -> SUBSET Row]] /\ current \in [Node -> SUBSET Proc]
  BY PastType DEF Init
<1> QED
  BY <1>1, <1>2, <1>3, <1>4 DEF Init, TypeInv, TypeOK

\* refresh.
LEMMA SeenType ==
    ASSUME TypeOK, NEW n \in Node, NEW p \in Proc
    PROVE  Seen(n, p) \in SUBSET Row /\ Kept(n, p) \in SUBSET Row
BY DEF TypeOK, Seen, Kept

LEMMA RefreshType ==
    ASSUME TypeOK, NEW n \in Node, NEW p \in Proc, NEW rows \in SUBSET Row, Refresh(n, p, rows)
    PROVE  /\ memory' \in [Node -> [Proc -> SUBSET Row]]
           /\ asLists' \in [Node -> [Proc -> SUBSET Row]]
           /\ current' \in [Node -> SUBSET Proc]
<1>1. /\ memory \in [Node -> [Proc -> SUBSET Row]]
      /\ asLists \in [Node -> [Proc -> SUBSET Row]]
      /\ current \in [Node -> SUBSET Proc]
  BY DEF TypeOK
<1>2. memory' = [memory EXCEPT ![n][p] = rows]
  BY DEF Refresh
<1>3. asLists' = [asLists EXCEPT ![n][p] = Kept(n, p)] /\ Kept(n, p) \in SUBSET Row
  BY SeenType DEF Refresh
<1>4. current' = [current EXCEPT ![n] = @ \cup {p}]
  BY DEF Refresh
<1> QED
  BY <1>1, <1>2, <1>3, <1>4

\* has_node_trust.
LEMMA LookUpType ==
    ASSUME TypeInv, NEW n \in Node, NEW p \in Proc, NEW r \in Row, NEW rows,
           LookUp(n, p, r, rows)
    PROVE  /\ act' \in [Node -> [Proc -> Act]] /\ ViewInv'
           /\ again' \in [Node -> SUBSET Change]
<1>1. act' \in [Node -> [Proc -> Act]] /\ ViewInv'
  <2>1. Do(n, p, Idle) \/ Do(n, p, At("read", r))
    BY DEF LookUp
  <2> QED
    BY <2>1, IdleType, AtType, DoType
<1>2. again' \in [Node -> SUBSET Change]
  <2>1. again \in [Node -> SUBSET Change] /\ r[1] \in Change
    BY RowType DEF TypeInv, TypeOK
  <2>2. [again EXCEPT ![n] = @ \cup {r[1]}] \in [Node -> SUBSET Change]
    BY <2>1
  <2>3. again' = again \/ again' = [again EXCEPT ![n] = @ \cup {r[1]}]
    BY DEF LookUp
  <2> QED
    BY <2>1, <2>2, <2>3
<1> QED
  BY <1>1, <1>2

LEMMA RaiseType ==
    ASSUME TypeInv, NEW n \in Node, NEW p \in Proc, NEW r \in Row, Raise(n, p, r)
    PROVE  /\ act' \in [Node -> [Proc -> Act]] /\ ViewInv'
           /\ lost' \subseteq Change \X Node
<1>1. act' \in [Node -> [Proc -> Act]] /\ ViewInv'
  BY IdleType, DoType DEF Raise
<1>2. lost' \subseteq Change \X Node
  BY RowType DEF Raise, TypeInv, TypeOK
<1> QED
  BY <1>1, <1>2

\* purge_old_history reads the history; if there is nothing to purge, has_node_trust follows.
LEMMA CheckType ==
    ASSUME TypeInv, NEW n \in Node, NEW p \in Proc, NEW r \in Row, Check(n, p, r)
    PROVE  /\ memory' \in [Node -> [Proc -> SUBSET Row]]
           /\ asLists' \in [Node -> [Proc -> SUBSET Row]]
           /\ current' \in [Node -> SUBSET Proc]
           /\ act' \in [Node -> [Proc -> Act]] /\ ViewInv'
           /\ again' \in [Node -> SUBSET Change] /\ lost' \subseteq Change \X Node
<1>1. CASE Refresh(n, p, Purged(Seen(n, p)))
  <2>1. Purged(Seen(n, p)) \in SUBSET Row
    BY SeenType DEF TypeInv, Purged
  <2>2. /\ memory' \in [Node -> [Proc -> SUBSET Row]]
        /\ asLists' \in [Node -> [Proc -> SUBSET Row]]
        /\ current' \in [Node -> SUBSET Proc]
    BY <1>1, <2>1, RefreshType DEF TypeInv
  <2>3. CASE LookUp(n, p, r, Seen(n, p)) /\ UNCHANGED lost
    BY <2>2, <2>3, LookUpType DEF TypeInv, TypeOK
  <2>4. CASE Do(n, p, At("purge", r)) /\ UNCHANGED <<again, lost>>
    BY <2>2, <2>4, AtType, DoType DEF TypeInv, TypeOK
  <2>5. CASE Raise(n, p, r) /\ UNCHANGED again
    BY <2>2, <2>5, RaiseType DEF TypeInv, TypeOK
  <2> QED
    BY <2>3, <2>4, <2>5 DEF Check
<1>2. CASE Raise(n, p, r) /\ UNCHANGED <<memory, asLists, current, again>>
  BY <1>2, RaiseType DEF TypeInv, TypeOK
<1> QED
  BY <1>1, <1>2 DEF Check

LEMMA ViewType ==
    ASSUME TypeInv, NEW n \in Node, NEW p \in Proc, NEW r \in Row, View(n, p, r)
    PROVE  /\ act' \in [Node -> [Proc -> Act]] /\ ViewInv'
           /\ stale' \in [Node -> SUBSET Proc]
<1> DEFINE a == [pc |-> "write", row |-> r, view |-> trust[n]]
<1>1. trust[n] \in TrustFile /\ About[r[1]] \in Node
  BY RowType DEF TypeInv, TypeOK
<1>2. a \in Act /\ a.pc = "write" /\ a.row = r /\ a.view = trust[n]
  BY <1>1 DEF Act
<1>3. trust[n][About[r[1]]] \in Int
  BY <1>1 DEF View, Trusted, TrustFile
<1>4. Do(n, p, a)
  BY DEF View
<1> HIDE DEF a
<1>5. act' \in [Node -> [Proc -> Act]] /\ ViewInv'
  BY <1>2, <1>3, <1>4, DoType
<1>6. stale' \in [Node -> SUBSET Proc]
  BY DEF TypeInv, TypeOK, View
<1> QED
  BY <1>5, <1>6

LEMMA RaisedType ==
    ASSUME NEW v \in TrustFile, NEW m \in Node, NEW d \in Int, v[m] \in Int
    PROVE  /\ Raised(v, m, d) \in TrustFile
           /\ \A k \in Node : Raised(v, m, d)[k] = IF k = m THEN v[m] + d ELSE v[k]
BY DEF Raised, TrustFile

LEMMA PurgeType ==
    ASSUME TypeInv, NEW n \in Node, NEW p \in Proc, NEW r \in Row, r = act[n][p].row,
           Truncate(n, p) \/ Rewrite(n, p)
    PROVE  TypeInv'
<1>1. act' \in [Node -> [Proc -> Act]] /\ ViewInv'
  <2>1. Do(n, p, At("rewrite", r)) \/ Do(n, p, At("find", r))
    BY DEF Truncate, Rewrite
  <2> QED
    BY <2>1, AtType, DoType
<1>2. /\ recent \in [Node -> SUBSET Row] /\ memory[n][p] \in SUBSET Row
      /\ missed \in [Node -> SUBSET Row] /\ garbled \subseteq Node
  BY DEF TypeInv, TypeOK
<1>3. /\ recent' \in [Node -> SUBSET Row] /\ missed' \in [Node -> SUBSET Row]
      /\ garbled' \subseteq Node /\ current' \in [Node -> SUBSET Proc]
  <2>1. CASE Truncate(n, p)
    <3>1. Unread(n, p) \in SUBSET Row
      BY <1>2 DEF Unread
    <3> QED
      BY <1>2, <2>1, <3>1 DEF Truncate, TypeInv, TypeOK
  <2>2. CASE Rewrite(n, p)
    <3>1. recent' \in [Node -> SUBSET Row] /\ garbled' \subseteq Node
      BY <1>2, <2>2 DEF Rewrite
    <3>2. missed' \in [Node -> SUBSET Row]
      BY <1>2, <2>2 DEF Rewrite
    <3>3. current' \in [Node -> SUBSET Proc]
      BY <2>2 DEF Rewrite, TypeInv, TypeOK
    <3> QED
      BY <3>1, <3>2, <3>3
  <2> QED
    BY <2>1, <2>2
<1>4. UNCHANGED <<trust, memory, full, asLists, waiting, net, due, old, again, stale, clobbered,
                  lost>>
  BY DEF Truncate, Rewrite
<1> QED
  BY <1>1, <1>3, <1>4 DEF TypeInv, TypeOK

LEMMA FindType ==
    ASSUME TypeInv, NEW n \in Node, NEW p \in Proc, act[n][p].row \in Row, Find(n, p)
    PROVE  TypeInv'
<1> DEFINE r == act[n][p].row
<1>1. /\ memory' \in [Node -> [Proc -> SUBSET Row]]
      /\ asLists' \in [Node -> [Proc -> SUBSET Row]]
      /\ current' \in [Node -> SUBSET Proc]
      /\ act' \in [Node -> [Proc -> Act]] /\ ViewInv'
      /\ again' \in [Node -> SUBSET Change] /\ lost' \subseteq Change \X Node
  <2>1. CASE Refresh(n, p, Seen(n, p)) /\ LookUp(n, p, r, Seen(n, p)) /\ UNCHANGED lost
    <3>1. /\ memory' \in [Node -> [Proc -> SUBSET Row]]
          /\ asLists' \in [Node -> [Proc -> SUBSET Row]]
          /\ current' \in [Node -> SUBSET Proc]
      <4>1. Seen(n, p) \in SUBSET Row
        BY SeenType DEF TypeInv
      <4> QED
        BY <2>1, <4>1, RefreshType DEF TypeInv
    <3>2. /\ act' \in [Node -> [Proc -> Act]] /\ ViewInv'
          /\ again' \in [Node -> SUBSET Change]
      BY <2>1, LookUpType
    <3> QED
      BY <2>1, <3>1, <3>2 DEF TypeInv, TypeOK
  <2>2. CASE Raise(n, p, r) /\ UNCHANGED <<memory, asLists, current, again>>
    BY <2>2, RaiseType DEF TypeInv, TypeOK
  <2> QED
    BY <2>1, <2>2 DEF Find
<1>2. UNCHANGED <<trust, recent, garbled, full, waiting, net, due, old, missed, stale, clobbered>>
  BY DEF Find
<1> QED
  BY <1>1, <1>2 DEF TypeInv, TypeOK

LEMMA RecordType ==
    ASSUME TypeInv, NEW n \in Node, NEW p \in Proc, act[n][p].row \in Row, Record(n, p)
    PROVE  TypeInv'
<1> DEFINE r == act[n][p].row
<1>1. /\ memory' \in [Node -> [Proc -> SUBSET Row]]
      /\ asLists' \in [Node -> [Proc -> SUBSET Row]]
      /\ current' \in [Node -> SUBSET Proc]
      /\ act' \in [Node -> [Proc -> Act]] /\ ViewInv'
      /\ clobbered' \subseteq Node /\ lost' \subseteq Change \X Node
  <2>1. CASE /\ Refresh(n, p, Seen(n, p)) /\ Do(n, p, At("append", r))
             /\ UNCHANGED <<clobbered, lost>>
    <3>1. /\ memory' \in [Node -> [Proc -> SUBSET Row]]
          /\ asLists' \in [Node -> [Proc -> SUBSET Row]]
          /\ current' \in [Node -> SUBSET Proc]
      <4>1. Seen(n, p) \in SUBSET Row
        BY SeenType DEF TypeInv
      <4> QED
        BY <2>1, <4>1, RefreshType DEF TypeInv
    <3>2. act' \in [Node -> [Proc -> Act]] /\ ViewInv'
      BY <2>1, AtType, DoType
    <3> QED
      BY <2>1, <3>1, <3>2 DEF TypeInv, TypeOK
  <2>2. CASE /\ Raise(n, p, r) /\ clobbered' = clobbered \cup {n}
             /\ UNCHANGED <<memory, asLists, current>>
    BY <2>2, RaiseType DEF TypeInv, TypeOK
  <2> QED
    BY <2>1, <2>2 DEF Record
<1>2. UNCHANGED <<trust, recent, garbled, full, waiting, net, due, old, again, missed, stale>>
  BY DEF Record
<1> QED
  BY <1>1, <1>2 DEF TypeInv, TypeOK

LEMMA AppendType ==
    ASSUME TypeInv, NEW n \in Node, NEW p \in Proc, act[n][p].row \in Row, Append(n, p)
    PROVE  TypeInv'
<1> DEFINE r == act[n][p].row
<1>1. act' \in [Node -> [Proc -> Act]] /\ ViewInv'
  BY IdleType, DoType DEF Append
<1>2. recent' \in [Node -> SUBSET Row] /\ full' \in [Node -> SUBSET Row]
  BY DEF TypeInv, TypeOK, Append
<1>3. memory' \in [Node -> [Proc -> SUBSET Row]] /\ asLists' \in [Node -> [Proc -> SUBSET Row]]
  BY DEF TypeInv, TypeOK, Append
<1>4. current' \in [Node -> SUBSET Proc] /\ missed' \in [Node -> SUBSET Row]
  <2>1. Unread(n, p) \in SUBSET Row
    BY DEF TypeInv, TypeOK, Unread
  <2> QED
    BY <2>1 DEF TypeInv, TypeOK, Append
<1>5. net' \subseteq [row : Row, to : Node]
  <2>1. Addressees(n, r) \subseteq Node
    BY DEF Addressees
  <2> QED
    BY <2>1 DEF TypeInv, TypeOK, Append
<1>6. UNCHANGED <<trust, garbled, waiting, due, old, again, stale, clobbered, lost>>
  BY DEF Append
<1> QED
  BY <1>1, <1>2, <1>3, <1>4, <1>5, <1>6 DEF TypeInv, TypeOK

\* A process that goes on is about a change.
LEMMA StepRow ==
    ASSUME TypeOK, NEW n \in Node, NEW p \in Proc, Step(n, p)
    PROVE  act[n][p] # Idle /\ act[n][p].row \in Row
<1>1. act[n][p] # Idle
  BY IdleType DEF Step, Truncate, Rewrite, Find, Read, Write, Record, Append
<1> QED
  BY <1>1, ActRow

LEMMA StepType ==
    ASSUME TypeInv, NEW n \in Node, NEW p \in Proc, Step(n, p)
    PROVE  TypeInv'
<1> DEFINE r == act[n][p].row
<1>1. act[n][p] # Idle /\ r \in Row /\ (act[n][p].pc = "write" => act[n][p].view \in TrustFile)
  BY StepRow, ActRow DEF TypeInv
<1>2. CASE Truncate(n, p) \/ Rewrite(n, p)
  BY <1>1, <1>2, PurgeType
<1>3. CASE Read(n, p)
  <2>1. act' \in [Node -> [Proc -> Act]] /\ ViewInv' /\ stale' \in [Node -> SUBSET Proc]
    BY <1>1, <1>3, ViewType DEF Read
  <2> QED
    BY <1>3, <2>1 DEF TypeInv, TypeOK, Read, historyFile
<1>4. CASE Write(n, p)
  <2>1. act' \in [Node -> [Proc -> Act]] /\ ViewInv'
    BY <1>1, <1>4, AtType, DoType DEF Write
  <2>2. Raised(act[n][p].view, About[r[1]], Amount[r[1]]) \in TrustFile
    <3>1. act[n][p].view[About[r[1]]] \in Int /\ act[n][p].view \in TrustFile
      BY <1>1, <1>4 DEF TypeInv, ViewInv, Write
    <3> QED
      BY <1>1, <3>1, RowType, RaisedType
  <2>3. trust' \in [Node -> TrustFile]
    BY <1>4, <2>2 DEF TypeInv, TypeOK, Write
  <2>4. stale' \in [Node -> SUBSET Proc] /\ clobbered' \subseteq Node
    BY <1>4 DEF TypeInv, TypeOK, Write
  <2> QED
    BY <1>4, <2>1, <2>3, <2>4 DEF TypeInv, TypeOK, Write, historyFile
<1> QED
  BY <1>1, <1>2, <1>3, <1>4, FindType, RecordType, AppendType DEF Step

LEMMA ServerType ==
    ASSUME TypeInv, NEW n \in Node, Server(n)
    PROVE  TypeInv'
<1>1. "server" \in Proc
  BY DEF Proc
<1>2. CASE Step(n, "server")
  BY <1>1, <1>2, StepType
<1>3. CASE Wait(n)
  <2>1. act[n]["server"] # Idle
    BY <1>3, IdleType DEF Wait
  <2>2. act[n]["server"].row \in Row
    BY <1>1, <2>1, ActRow DEF TypeInv
  <2>3. act' \in [Node -> [Proc -> Act]] /\ ViewInv'
    BY <1>1, <1>3, IdleType, DoType DEF Wait
  <2> QED
    BY <1>3, <2>2, <2>3 DEF TypeInv, TypeOK, Wait, historyFile
<1>4. ASSUME NEW r \in Row, Receive(n, r) PROVE TypeInv'
  BY <1>1, <1>4, CheckType DEF TypeInv, TypeOK, Receive
<1>5. ASSUME NEW r \in Row, Resume(n, r) PROVE TypeInv'
  BY <1>1, <1>5, ViewType DEF TypeInv, TypeOK, Resume, historyFile
<1> QED
  BY <1>2, <1>3, <1>4, <1>5 DEF Server

\* A member of due is one of the plan.
LEMMA DueType ==
    ASSUME TypeOK, NEW s \in due
    PROVE  s = <<s[1], s[2], s[3]>> /\ s[1] \in Node /\ s[2] \in Proc /\ s[3] \in Change
BY PlansAssumption DEF TypeOK, Proc

LEMMA OutsideType ==
    ASSUME TypeInv,
           \/ \E n, m \in Node : Ask(n, m)
           \/ \E s \in due : Notice(s[1], s[2], s[3])
           \/ \E m \in net : Lose(m)
           \/ \E r \in Ageing : GrowOld(r)
           \/ UNCHANGED vars
    PROVE  TypeInv'
<1>1. ASSUME NEW n \in Node, NEW m \in Node, Ask(n, m) PROVE TypeInv'
  <2>1. trust' \in [Node -> TrustFile]
    BY <1>1 DEF TypeInv, TypeOK, Ask, TrustFile, BasicTrust
  <2>2. stale' \in [Node -> SUBSET Proc]
    BY <1>1 DEF TypeInv, TypeOK, Ask
  <2> QED
    BY <1>1, <2>1, <2>2 DEF TypeInv, TypeOK, ViewInv, Ask, historyFile
<1>2. ASSUME NEW s \in due, Notice(s[1], s[2], s[3]) PROVE TypeInv'
  <2>1. s[1] \in Node /\ s[2] \in Proc /\ <<s[3], s[1], s[2]>> \in Row
    BY DueType DEF TypeInv, Row
  <2> QED
    BY <1>2, <2>1, CheckType DEF TypeInv, TypeOK, Notice
<1>3. ASSUME NEW m \in net, Lose(m) PROVE TypeInv'
  <2>1. m.row \in Row /\ m.to \in Node
    BY DEF TypeInv, TypeOK
  <2> QED
    BY <1>3, <2>1, RowType DEF TypeInv, TypeOK, ViewInv, Lose, historyFile
<1>4. ASSUME NEW r \in Ageing, GrowOld(r) PROVE TypeInv'
  <2>1. r \in Row
    BY AgeingAssumption DEF Row, Proc
  <2> QED
    BY <1>4, <2>1 DEF TypeInv, TypeOK, ViewInv, GrowOld, historyFile
<1>5. CASE UNCHANGED vars
  BY <1>5 DEF TypeInv, TypeOK, ViewInv, vars, historyFile
<1> QED
  BY <1>1, <1>2, <1>3, <1>4, <1>5

LEMMA NextType == TypeInv /\ [Next]_vars => TypeInv'
<1>1. "worker" \in Proc
  BY DEF Proc
<1> QED
  BY <1>1, StepType, ServerType, OutsideType DEF Next

\* Every variable keeps its type: a process that writes the trust file has a view of it, with
\* the node that the change is about.
THEOREM TypeCorrect == Spec => []TypeOK
<1>1. TypeInv => TypeOK
  BY DEF TypeInv
<1> QED
  BY <1>1, InitType, NextType, PTL DEF Spec
-----------------------------------------------------------------------------
(* A node applies a change once                                            *)

\* The changes that a node has applied, or has found to be new.
Taken(n) ==
    full[n] \cup waiting[n] \cup {act[n][p].row : p \in {q \in Proc : act[n][q].pc \in Taking}}

OnceAt(n) == \A r, s \in Taken(n) : r # s /\ Same(r, s) => r[1] \in again[n]

\* Those that a process finds if it looks for them.
Fresh(n) == full[n] \ (old \cup missed[n])

\* They are in the file, or are being written to it again, ...
RecentAt(n) ==
    \A s \in Fresh(n) :
        s \in recent[n] \/ \E q \in Proc : act[n][q].pc = "rewrite" /\ s \in memory[n][q]

\* ... and in the memory of a process with the stamp of the file.
MemoryAt(n) ==
    \A p \in Proc : p \in current[n] => recent[n] \ (old \cup missed[n]) \subseteq memory[n][p]

OnceInv == \A n \in Node : OnceAt(n) /\ RecentAt(n) /\ MemoryAt(n)

LEMMA InitOnce == Init => OnceInv
<1> SUFFICES ASSUME Init, NEW n \in Node PROVE OnceAt(n) /\ RecentAt(n) /\ MemoryAt(n)
  BY DEF OnceInv
<1>1. Taken(n) = Past /\ recent[n] = Past /\ full[n] = Past
  BY IdleType DEF Init, Taken, Taking
<1>2. \A p \in Proc : memory[n][p] = Past
  BY DEF Init
<1> QED
  BY <1>1, <1>2, PastAssumption DEF OnceAt, RecentAt, Fresh, MemoryAt, Same

\* A step that a node finds nothing new by.
LEMMA NothingTaken ==
    ASSUME NEW n \in Node, OnceAt(n), Taken(n)' \subseteq Taken(n), again[n] \subseteq again'[n]
    PROVE  OnceAt(n)'
BY DEF OnceAt, Same

\* What the act of one process adds to what its node has taken.
LEMMA DoTakes ==
    ASSUME TypeOK, NEW n \in Node, NEW p \in Proc, NEW a, Do(n, p, a)
    PROVE  /\ \A m \in Node : m # n => act'[m] = act[m]
           /\ act'[n][p] = a
           /\ \A q \in Proc : q # p => act'[n][q] = act[n][q]
BY DEF TypeOK, Do

\* A process that finds nothing new takes at most the row it has.
LEMMA DoSubset ==
    ASSUME TypeOK, NEW n \in Node, NEW p \in Proc, NEW a, Do(n, p, a),
           a.pc \in Taking => a.row \in Taken(n),
           full'[n] \subseteq Taken(n), waiting'[n] \subseteq Taken(n)
    PROVE  Taken(n)' \subseteq Taken(n)
<1> SUFFICES ASSUME NEW s \in Taken(n)' PROVE s \in Taken(n)
  OBVIOUS
<1>1. CASE s \in full'[n] \cup waiting'[n]
  BY <1>1
<1>2. CASE \E q \in Proc : act'[n][q].pc \in Taking /\ s = act'[n][q].row
  BY <1>2, DoTakes DEF Taken
<1> QED
  BY <1>1, <1>2 DEF Taken

\* A fresh row is in what a process has in memory once it has read the file, unless the other
\* is rewriting it.
LEMMA FreshSeen ==
    ASSUME TypeOK, NEW n \in Node, NEW p \in Proc, RecentAt(n), MemoryAt(n),
           act[n][p].pc # "rewrite", act[n][Other(p)].pc # "rewrite"
    PROVE  Fresh(n) \subseteq Seen(n, p)
<1> SUFFICES ASSUME NEW s \in Fresh(n) PROVE s \in Seen(n, p)
  OBVIOUS
<1>1. \A q \in Proc : q = p \/ q = Other(p)
  BY DEF Proc, Other
<1>2. s \in recent[n]
  BY <1>1 DEF RecentAt
<1> QED
  BY <1>2 DEF Seen, MemoryAt, Fresh

\* One that finds a change new has found no equal one: not one that is fresh, and no other
\* unless it says so.
LEMMA LookUpOnce ==
    ASSUME TypeInv, NEW n \in Node, NEW p \in Proc, NEW r \in Row,
           LookUp(n, p, r, Seen(n, p)), act[n][p].pc \notin Taking \cup {"rewrite"},
           OnceAt(n), RecentAt(n), MemoryAt(n), UNCHANGED <<full, waiting>>
    PROVE  OnceAt(n)'
<1>1. again[n] \subseteq again'[n]
  BY DEF TypeInv, TypeOK, LookUp
<1>2. full'[n] \subseteq Taken(n) /\ waiting'[n] \subseteq Taken(n)
  BY DEF Taken
<1>3. CASE HasNodeTrust(n, p, r, Seen(n, p))
  <2>1. Do(n, p, Idle) /\ Idle.pc \notin Taking
    BY <1>3, IdleType DEF LookUp, Taking
  <2>2. Taken(n)' \subseteq Taken(n)
    BY <1>2, <2>1, DoSubset DEF TypeInv
  <2> QED
    BY <1>1, <2>2, NothingTaken
<1>4. CASE ~HasNodeTrust(n, p, r, Seen(n, p))
  <2>1. Do(n, p, At("read", r)) /\ At("read", r).row = r
    BY <1>4, AtType DEF LookUp
  <2>2. Taken(n)' \subseteq Taken(n) \cup {r}
    BY <2>1, DoTakes DEF TypeInv, Taken
  <2>3. ASSUME NEW s \in Taken(n), Same(r, s) PROVE r[1] \in again'[n]
    <3>1. UnderWay(n, p, r) \/ Unrecognised(n, p, r) => r[1] \in again'[n]
      BY <1>4 DEF TypeInv, TypeOK, LookUp
    <3>2. CASE s \in full[n]
      <4>1. s \in Seen(n, p) => Listed[r[1]]
        BY <1>4, <2>3 DEF HasNodeTrust
      <4>2. s \in Fresh(n) /\ act[n][Other(p)].pc # "rewrite" => s \in Seen(n, p)
        BY FreshSeen DEF TypeInv
      <4>3. Unrecognised(n, p, r)
        BY <2>3, <3>2, <4>1, <4>2 DEF Unrecognised, Fresh
      <4> QED
        BY <3>1, <4>3
    <3>3. CASE s \in waiting[n]
      BY <2>3, <3>1, <3>3 DEF UnderWay
    <3>4. CASE \E q \in Proc : act[n][q].pc \in Taking /\ s = act[n][q].row
      <4>1. PICK q \in Proc : act[n][q].pc \in Taking /\ s = act[n][q].row
        BY <3>4
      <4>2. q = Other(p)
        BY <4>1 DEF Other, Proc
      <4> QED
        BY <2>3, <3>1, <4>1, <4>2 DEF UnderWay, Same
    <3> QED
      BY <3>2, <3>3, <3>4 DEF Taken
  <2> SUFFICES ASSUME NEW s \in Taken(n)', NEW t \in Taken(n)', s # t, Same(s, t)
               PROVE  s[1] \in again'[n]
    BY DEF OnceAt, Same
  <2> QED
    BY <1>1, <2>2, <2>3 DEF OnceAt, Same
<1> QED
  BY <1>3, <1>4

\* A process reads the file again, and may forget what is old.
LEMMA RefreshRecent ==
    ASSUME TypeInv, NEW n \in Node, NEW p \in Proc, NEW rows \in SUBSET Row,
           Refresh(n, p, rows), Seen(n, p) \ old \subseteq rows,
           act[n][p].pc # "rewrite", NEW a, Do(n, p, a),
           RecentAt(n), MemoryAt(n), UNCHANGED <<full, recent, missed, old>>
    PROVE  RecentAt(n)' /\ MemoryAt(n)'
<1>1. /\ \A q \in Proc : memory'[n][q] = IF q = p THEN rows ELSE memory[n][q]
      /\ current'[n] = current[n] \cup {p}
      /\ \A q \in Proc : q # p => act'[n][q] = act[n][q]
  <2>1. TypeOK
    BY DEF TypeInv
  <2>2. \A q \in Proc : q # p => act'[n][q] = act[n][q]
    BY <2>1, DoTakes
  <2>3. /\ \A q \in Proc : memory'[n][q] = IF q = p THEN rows ELSE memory[n][q]
        /\ current'[n] = current[n] \cup {p}
    <3>1. /\ memory' = [memory EXCEPT ![n][p] = rows]
          /\ current' = [current EXCEPT ![n] = @ \cup {p}]
      BY DEF Refresh
    <3>2. memory \in [Node -> [Proc -> SUBSET Row]] /\ current \in [Node -> SUBSET Proc]
      BY <2>1 DEF TypeOK
    <3> QED
      BY <3>1, <3>2
  <2> QED
    BY <2>2, <2>3
<1>2. RecentAt(n)'
  <2> SUFFICES ASSUME NEW s \in Fresh(n), s \notin recent[n]
               PROVE  \E q \in Proc : act'[n][q].pc = "rewrite" /\ s \in memory'[n][q]
    BY DEF RecentAt, Fresh
  <2>1. PICK q \in Proc : act[n][q].pc = "rewrite" /\ s \in memory[n][q]
    BY DEF RecentAt
  <2> QED
    BY <1>1, <2>1
<1>3. recent[n] \ (old \cup missed[n]) \subseteq rows
  BY DEF MemoryAt, Seen
<1>4. MemoryAt(n)'
  BY <1>1, <1>3 DEF MemoryAt
<1> QED
  BY <1>2, <1>4

\* What the history of a node is not touched by.
LEMMA SameRecent ==
    ASSUME TypeInv, NEW n \in Node, NEW p \in Proc, NEW a, Do(n, p, a),
           act[n][p].pc # "rewrite", RecentAt(n), MemoryAt(n), UNCHANGED historyFile,
           UNCHANGED <<missed, old>>
    PROVE  RecentAt(n)' /\ MemoryAt(n)'
<1>1. \A q \in Proc : q # p => act'[n][q] = act[n][q]
  BY DoTakes DEF TypeInv
<1>2. RecentAt(n)'
  BY <1>1 DEF RecentAt, Fresh, historyFile
<1>3. MemoryAt(n)'
  BY DEF MemoryAt, historyFile
<1> QED
  BY <1>2, <1>3

\* purge_old_history, as far as it reads, and has_node_trust if that is all.
LEMMA CheckOnce ==
    ASSUME TypeInv, NEW n \in Node, NEW p \in Proc, NEW r \in Row, Check(n, p, r),
           act[n][p] = Idle, OnceAt(n), RecentAt(n), MemoryAt(n),
           UNCHANGED <<recent, full, waiting, missed, old>>
    PROVE  OnceAt(n)' /\ RecentAt(n)' /\ MemoryAt(n)'
<1>1. act[n][p].pc \notin Taking \cup {"rewrite"}
  BY IdleType DEF Taking
<1>2. full'[n] \subseteq Taken(n) /\ waiting'[n] \subseteq Taken(n)
  BY DEF Taken
<1>3. CASE Raise(n, p, r) /\ UNCHANGED <<memory, asLists, current, again>>
  <2>1. Do(n, p, Idle) /\ Idle.pc \notin Taking
    BY <1>3, IdleType DEF Raise, Taking
  <2>2. OnceAt(n)'
    BY <1>2, <1>3, <2>1, DoSubset, NothingTaken DEF TypeInv
  <2>3. RecentAt(n)' /\ MemoryAt(n)'
    <3>1. \A q \in Proc : q # p => act'[n][q] = act[n][q]
      BY <2>1, DoTakes DEF TypeInv
    <3> QED
      BY <1>1, <1>3, <3>1 DEF RecentAt, MemoryAt, Fresh
  <2> QED
    BY <2>2, <2>3
<1>4. CASE Refresh(n, p, Purged(Seen(n, p)))
  <2>1. Purged(Seen(n, p)) \in SUBSET Row /\ Seen(n, p) \ old \subseteq Purged(Seen(n, p))
    BY SeenType DEF TypeInv, Purged
  <2>2. CASE LookUp(n, p, r, Seen(n, p))
    <3>1. Do(n, p, Idle) \/ Do(n, p, At("read", r))
      BY <2>2 DEF LookUp
    <3>2. OnceAt(n)'
      BY <1>1, <2>2, LookUpOnce
    <3>3. RecentAt(n)' /\ MemoryAt(n)'
      BY <1>1, <1>4, <2>1, <3>1, RefreshRecent
    <3> QED
      BY <3>2, <3>3
  <2>3. CASE Do(n, p, At("purge", r)) /\ UNCHANGED again
    <3>1. At("purge", r).pc \notin Taking
      BY AtType DEF Taking
    <3>2. OnceAt(n)'
      BY <1>2, <2>3, <3>1, DoSubset, NothingTaken DEF TypeInv
    <3>3. RecentAt(n)' /\ MemoryAt(n)'
      BY <1>1, <1>4, <2>1, <2>3, RefreshRecent
    <3> QED
      BY <3>2, <3>3
  <2>4. CASE Raise(n, p, r) /\ UNCHANGED <<memory, asLists, current, again>>
    BY <1>3, <2>4
  <2> QED
    BY <2>2, <2>3, <2>4 DEF Check
<1> QED
  BY <1>3, <1>4 DEF Check

\* set: what the process has not seen is missed when it truncates the file, ...
LEMMA TruncateOnce ==
    ASSUME TypeInv, NEW n \in Node, NEW p \in Proc, Truncate(n, p), act[n][p].row \in Row,
           OnceAt(n), RecentAt(n), MemoryAt(n)
    PROVE  OnceAt(n)' /\ RecentAt(n)' /\ MemoryAt(n)'
<1> DEFINE r == act[n][p].row
<1>1. /\ act[n][p].pc = "purge" /\ Do(n, p, At("rewrite", r))
      /\ UNCHANGED <<memory, full, waiting, old, again>>
      /\ recent'[n] = {} /\ current'[n] = {} /\ missed'[n] = missed[n] \cup Unread(n, p)
  BY DEF TypeInv, TypeOK, Truncate
<1>2. At("rewrite", r).pc = "rewrite"
  BY AtType
<1>3. act'[n][p].pc = "rewrite" /\ \A q \in Proc : q # p => act'[n][q] = act[n][q]
  BY <1>1, <1>2, DoTakes DEF TypeInv
<1>4. OnceAt(n)'
  <2>1. full'[n] \subseteq Taken(n) /\ waiting'[n] \subseteq Taken(n)
    BY <1>1 DEF Taken
  <2>2. At("rewrite", r).pc \notin Taking
    BY <1>2 DEF Taking
  <2>3. Taken(n)' \subseteq Taken(n)
    BY <1>1, <2>1, <2>2, DoSubset DEF TypeInv
  <2> QED
    BY <1>1, <2>3, NothingTaken
<1>5. RecentAt(n)'
  <2> SUFFICES ASSUME NEW s \in Fresh(n)'
               PROVE  \E q \in Proc : act'[n][q].pc = "rewrite" /\ s \in memory'[n][q]
    BY DEF RecentAt
  <2>1. s \in Fresh(n) /\ s \notin Unread(n, p)
    BY <1>1 DEF Fresh
  <2>2. CASE s \in recent[n]
    <3>1. s \in memory[n][p]
      BY <2>1, <2>2 DEF Unread, MemoryAt, Fresh
    <3> QED
      BY <1>1, <1>3, <3>1
  <2>3. CASE s \notin recent[n]
    <3>1. PICK q \in Proc : act[n][q].pc = "rewrite" /\ s \in memory[n][q]
      BY <2>1, <2>3 DEF RecentAt
    <3> QED
      BY <1>1, <1>3, <3>1
  <2> QED
    BY <2>2, <2>3
<1>6. MemoryAt(n)'
  BY <1>1 DEF MemoryAt
<1> QED
  BY <1>4, <1>5, <1>6

\* ... and what another has written since, when it writes its own rows over it.
LEMMA RewriteOnce ==
    ASSUME TypeInv, NEW n \in Node, NEW p \in Proc, Rewrite(n, p), act[n][p].row \in Row,
           OnceAt(n), RecentAt(n), MemoryAt(n)
    PROVE  OnceAt(n)' /\ RecentAt(n)' /\ MemoryAt(n)'
<1> DEFINE r == act[n][p].row
<1>1. /\ act[n][p].pc = "rewrite" /\ Do(n, p, At("find", r))
      /\ UNCHANGED <<memory, full, waiting, old, again>>
      /\ recent'[n] = (IF memory[n][p] = {} THEN recent[n] ELSE memory[n][p])
      /\ current'[n] = {p}
      /\ missed'[n] = missed[n] \cup (recent[n] \ memory[n][p])
  BY DEF TypeInv, TypeOK, Rewrite
<1>2. At("find", r).pc = "find"
  BY AtType
<1>3. \A q \in Proc : q # p => act'[n][q] = act[n][q]
  BY <1>1, DoTakes DEF TypeInv
<1>4. OnceAt(n)'
  <2>1. full'[n] \subseteq Taken(n) /\ waiting'[n] \subseteq Taken(n)
    BY <1>1 DEF Taken
  <2>2. At("find", r).pc \notin Taking
    BY <1>2 DEF Taking
  <2>3. Taken(n)' \subseteq Taken(n)
    BY <1>1, <2>1, <2>2, DoSubset DEF TypeInv
  <2> QED
    BY <1>1, <2>3, NothingTaken
<1>5. RecentAt(n)'
  <2> SUFFICES ASSUME NEW s \in Fresh(n)', s \notin recent'[n]
               PROVE  \E q \in Proc : act'[n][q].pc = "rewrite" /\ s \in memory'[n][q]
    BY DEF RecentAt
  <2>1. s \in Fresh(n) /\ s \notin memory[n][p] /\ s \notin recent[n]
    BY <1>1 DEF Fresh
  <2>2. PICK q \in Proc : act[n][q].pc = "rewrite" /\ s \in memory[n][q]
    BY <2>1 DEF RecentAt
  <2> QED
    BY <1>1, <1>3, <2>1, <2>2
<1>6. MemoryAt(n)'
  BY <1>1 DEF MemoryAt
<1> QED
  BY <1>4, <1>5, <1>6

LEMMA FindOnce ==
    ASSUME TypeInv, NEW n \in Node, NEW p \in Proc, Find(n, p), act[n][p].row \in Row,
           OnceAt(n), RecentAt(n), MemoryAt(n)
    PROVE  OnceAt(n)' /\ RecentAt(n)' /\ MemoryAt(n)'
<1> DEFINE r == act[n][p].row
<1>1. act[n][p].pc = "find" /\ UNCHANGED <<recent, full, waiting, missed, old>>
  BY DEF Find
<1>2. act[n][p].pc \notin Taking \cup {"rewrite"}
  BY <1>1 DEF Taking
<1>3. CASE Refresh(n, p, Seen(n, p)) /\ LookUp(n, p, r, Seen(n, p))
  <2>1. Do(n, p, Idle) \/ Do(n, p, At("read", r))
    BY <1>3 DEF LookUp
  <2>2. Seen(n, p) \in SUBSET Row
    BY SeenType DEF TypeInv
  <2>3. OnceAt(n)'
    BY <1>1, <1>2, <1>3, LookUpOnce
  <2>4. RecentAt(n)' /\ MemoryAt(n)'
    BY <1>1, <1>3, <2>1, <2>2, RefreshRecent
  <2> QED
    BY <2>3, <2>4
<1>4. CASE Raise(n, p, r) /\ UNCHANGED <<memory, asLists, current, again>>
  <2>1. Do(n, p, Idle) /\ Idle.pc \notin Taking
    BY <1>4, IdleType DEF Raise, Taking
  <2>2. full'[n] \subseteq Taken(n) /\ waiting'[n] \subseteq Taken(n)
    BY <1>1 DEF Taken
  <2>3. OnceAt(n)'
    BY <1>4, <2>1, <2>2, DoSubset, NothingTaken DEF TypeInv
  <2>4. RecentAt(n)' /\ MemoryAt(n)'
    <3>1. \A q \in Proc : q # p => act'[n][q] = act[n][q]
      BY <2>1, DoTakes DEF TypeInv
    <3> QED
      BY <1>1, <1>4, <3>1 DEF RecentAt, MemoryAt, Fresh
  <2> QED
    BY <2>3, <2>4
<1> QED
  BY <1>3, <1>4 DEF Find

\* NodeTrustHistoryManager.add.
LEMMA RecordOnce ==
    ASSUME TypeInv, NEW n \in Node, NEW p \in Proc, Record(n, p), act[n][p].row \in Row,
           OnceAt(n), RecentAt(n), MemoryAt(n)
    PROVE  OnceAt(n)' /\ RecentAt(n)' /\ MemoryAt(n)'
<1> DEFINE r == act[n][p].row
<1>1. act[n][p].pc = "record" /\ UNCHANGED <<recent, full, waiting, missed, old, again>>
  BY DEF Record
<1>2. full'[n] \subseteq Taken(n) /\ waiting'[n] \subseteq Taken(n) /\ r \in Taken(n)
  BY <1>1 DEF Taken, Taking
<1>3. CASE Refresh(n, p, Seen(n, p)) /\ Do(n, p, At("append", r))
  <2>1. At("append", r).row = r /\ Seen(n, p) \in SUBSET Row
    BY AtType, SeenType DEF TypeInv
  <2>2. Taken(n)' \subseteq Taken(n)
    BY <1>2, <1>3, <2>1, DoSubset DEF TypeInv
  <2>3. OnceAt(n)'
    BY <1>1, <2>2, NothingTaken
  <2>4. RecentAt(n)' /\ MemoryAt(n)'
    BY <1>1, <1>3, <2>1, RefreshRecent
  <2> QED
    BY <2>3, <2>4
<1>4. CASE Raise(n, p, r) /\ UNCHANGED <<memory, asLists, current>>
  <2>1. Do(n, p, Idle) /\ Idle.pc \notin Taking
    BY <1>4, IdleType DEF Raise, Taking
  <2>2. Taken(n)' \subseteq Taken(n)
    BY <1>2, <2>1, DoSubset DEF TypeInv
  <2>3. OnceAt(n)'
    BY <1>1, <2>2, NothingTaken
  <2>4. RecentAt(n)' /\ MemoryAt(n)'
    <3>1. \A q \in Proc : q # p => act'[n][q] = act[n][q]
      BY <2>1, DoTakes DEF TypeInv
    <3> QED
      BY <1>1, <1>4, <3>1 DEF RecentAt, MemoryAt, Fresh
  <2> QED
    BY <2>3, <2>4
<1> QED
  BY <1>3, <1>4 DEF Record

LEMMA AppendOnce ==
    ASSUME TypeInv, NEW n \in Node, NEW p \in Proc, Append(n, p), act[n][p].row \in Row,
           OnceAt(n), RecentAt(n), MemoryAt(n)
    PROVE  OnceAt(n)' /\ RecentAt(n)' /\ MemoryAt(n)'
<1> DEFINE r == act[n][p].row
<1>1. act[n][p].pc = "append" /\ Do(n, p, Idle) /\ UNCHANGED <<waiting, old, again>>
  BY DEF Append
<1>2. /\ recent'[n] = recent[n] \cup {r} /\ full'[n] = full[n] \cup {r}
      /\ \A q \in Proc : memory'[n][q] = IF q = p THEN memory[n][q] \cup {r} ELSE memory[n][q]
      /\ current'[n] = {p} /\ missed'[n] = missed[n] \cup Unread(n, p)
  BY DEF TypeInv, TypeOK, Append
<1>3. \A q \in Proc : q # p => act'[n][q] = act[n][q]
  BY <1>1, DoTakes DEF TypeInv
<1>4. OnceAt(n)'
  <2>1. r \in Taken(n)
    BY <1>1 DEF Taken, Taking
  <2>2. full'[n] \subseteq Taken(n) /\ waiting'[n] \subseteq Taken(n) /\ Idle.pc \notin Taking
    BY <1>1, <1>2, <2>1, IdleType DEF Taken, Taking
  <2>3. Taken(n)' \subseteq Taken(n)
    BY <1>1, <2>2, DoSubset DEF TypeInv
  <2> QED
    BY <1>1, <2>3, NothingTaken
<1>5. RecentAt(n)'
  <2> SUFFICES ASSUME NEW s \in Fresh(n)', s \notin recent'[n]
               PROVE  \E q \in Proc : act'[n][q].pc = "rewrite" /\ s \in memory'[n][q]
    BY DEF RecentAt
  <2>1. s \in Fresh(n) /\ s \notin recent[n]
    BY <1>1, <1>2 DEF Fresh
  <2>2. PICK q \in Proc : act[n][q].pc = "rewrite" /\ s \in memory[n][q]
    BY <2>1 DEF RecentAt
  <2> QED
    BY <1>1, <1>2, <1>3, <2>2
<1>6. MemoryAt(n)'
  <2>1. recent[n] \ (old \cup missed'[n]) \subseteq memory[n][p]
    BY <1>2 DEF MemoryAt, Unread
  <2> QED
    BY <1>1, <1>2, <2>1 DEF MemoryAt
<1> QED
  BY <1>4, <1>5, <1>6

\* The trust file is read and written for a change that was taken before.
LEMMA TrustOnce ==
    ASSUME TypeInv, NEW n \in Node, NEW p \in Proc, Read(n, p) \/ Write(n, p),
           act[n][p].row \in Row, OnceAt(n), RecentAt(n), MemoryAt(n)
    PROVE  OnceAt(n)' /\ RecentAt(n)' /\ MemoryAt(n)'
<1>1. PICK a : Do(n, p, a) /\ a.row = act[n][p].row
  BY AtType DEF Read, View, Write
<1>2. act[n][p].pc \in {"read", "write"} /\ UNCHANGED historyFile
      /\ UNCHANGED <<waiting, again, old, missed>>
  BY DEF Read, Write
<1>3. OnceAt(n)'
  <2>1. /\ full'[n] \subseteq Taken(n) /\ waiting'[n] \subseteq Taken(n)
        /\ act[n][p].row \in Taken(n)
    BY <1>2 DEF Taken, Taking, historyFile
  <2>2. Taken(n)' \subseteq Taken(n)
    BY <1>1, <2>1, DoSubset DEF TypeInv
  <2> QED
    BY <1>2, <2>2, NothingTaken
<1>4. RecentAt(n)' /\ MemoryAt(n)'
  BY <1>1, <1>2, SameRecent
<1> QED
  BY <1>3, <1>4

LEMMA StepOnce ==
    ASSUME TypeInv, NEW n \in Node, NEW p \in Proc, Step(n, p),
           OnceAt(n), RecentAt(n), MemoryAt(n)
    PROVE  OnceAt(n)' /\ RecentAt(n)' /\ MemoryAt(n)'
<1>1. act[n][p].row \in Row
  BY StepRow DEF TypeInv
<1> QED
  BY <1>1, TruncateOnce, RewriteOnce, FindOnce, RecordOnce, AppendOnce, TrustOnce DEF Step

LEMMA ServerOnce ==
    ASSUME TypeInv, NEW n \in Node, Server(n), OnceAt(n), RecentAt(n), MemoryAt(n)
    PROVE  OnceAt(n)' /\ RecentAt(n)' /\ MemoryAt(n)'
<1>1. "server" \in Proc
  BY DEF Proc
<1>2. CASE Step(n, "server")
  BY <1>1, <1>2, StepOnce
<1>3. CASE Wait(n)
  <2>1. act[n]["server"].pc = "read" /\ Do(n, "server", Idle) /\ UNCHANGED historyFile
        /\ UNCHANGED <<again, old, missed>>
        /\ waiting'[n] = waiting[n] \cup {act[n]["server"].row}
    BY <1>3 DEF TypeInv, TypeOK, Wait
  <2>2. full'[n] \subseteq Taken(n) /\ waiting'[n] \subseteq Taken(n) /\ Idle.pc \notin Taking
    BY <1>1, <2>1, IdleType DEF Taken, Taking, historyFile
  <2>3. OnceAt(n)'
    BY <1>1, <2>1, <2>2, DoSubset, NothingTaken DEF TypeInv
  <2>4. RecentAt(n)' /\ MemoryAt(n)'
    BY <1>1, <2>1, SameRecent
  <2> QED
    BY <2>3, <2>4
<1>4. ASSUME NEW r \in Row, Receive(n, r) PROVE OnceAt(n)' /\ RecentAt(n)' /\ MemoryAt(n)'
  BY <1>1, <1>4, CheckOnce DEF Receive, IsFree
<1>5. ASSUME NEW r \in Row, Resume(n, r) PROVE OnceAt(n)' /\ RecentAt(n)' /\ MemoryAt(n)'
  <2>1. PICK a : Do(n, "server", a) /\ a.row = r
    BY <1>5 DEF Resume, View
  <2>2. /\ r \in waiting[n] /\ waiting'[n] \subseteq waiting[n] /\ act[n]["server"] = Idle
        /\ UNCHANGED historyFile /\ UNCHANGED <<again, old, missed>>
    BY <1>5 DEF TypeInv, TypeOK, Resume, IsFree
  <2>3. full'[n] \subseteq Taken(n) /\ waiting'[n] \subseteq Taken(n) /\ r \in Taken(n)
    BY <2>2 DEF Taken, historyFile
  <2>4. OnceAt(n)'
    BY <1>1, <2>1, <2>2, <2>3, DoSubset, NothingTaken DEF TypeInv
  <2>5. RecentAt(n)' /\ MemoryAt(n)'
    BY <1>1, <2>1, <2>2, SameRecent, IdleType
  <2> QED
    BY <2>4, <2>5
<1> QED
  BY <1>2, <1>3, <1>4, <1>5 DEF Server

\* What one node does is nothing to another.
LEMMA Elsewhere ==
    ASSUME NEW n \in Node, OnceAt(n), RecentAt(n), MemoryAt(n),
           full'[n] = full[n], waiting'[n] = waiting[n], act'[n] = act[n],
           recent'[n] = recent[n], memory'[n] = memory[n], current'[n] = current[n],
           missed'[n] = missed[n], again'[n] = again[n], old \subseteq old'
    PROVE  OnceAt(n)' /\ RecentAt(n)' /\ MemoryAt(n)'
<1>1. Taken(n)' = Taken(n)
  BY DEF Taken
<1>2. OnceAt(n)'
  BY <1>1, NothingTaken
<1>3. RecentAt(n)'
  BY DEF RecentAt, Fresh
<1>4. MemoryAt(n)'
  BY DEF MemoryAt
<1> QED
  BY <1>2, <1>3, <1>4

\* What is a node's own.
Own(m) == <<full[m], waiting[m], act[m], recent[m], memory[m], current[m], missed[m], again[m]>>

LEMMA CheckElsewhere ==
    ASSUME TypeInv, NEW n \in Node, NEW p \in Proc, NEW r \in Row, Check(n, p, r),
           NEW m \in Node, m # n
    PROVE  /\ act'[m] = act[m] /\ memory'[m] = memory[m] /\ current'[m] = current[m]
           /\ again'[m] = again[m]
BY DEF TypeInv, TypeOK, Check, Refresh, LookUp, Raise, Do

LEMMA StepElsewhere ==
    ASSUME TypeInv, NEW n \in Node, NEW p \in Proc, Step(n, p), NEW m \in Node, m # n
    PROVE  Own(m)' = Own(m) /\ old' = old
<1>1. CASE Truncate(n, p) \/ Rewrite(n, p)
  BY <1>1 DEF TypeInv, TypeOK, Truncate, Rewrite, Do, Own
<1>2. CASE Find(n, p) \/ Record(n, p)
  BY <1>2 DEF TypeInv, TypeOK, Find, Record, Refresh, LookUp, Raise, Do, Own
<1>3. CASE Read(n, p) \/ Write(n, p)
  BY <1>3 DEF TypeInv, TypeOK, Read, Write, View, Do, Own, historyFile
<1>4. CASE Append(n, p)
  BY <1>4 DEF TypeInv, TypeOK, Append, Do, Own
<1> QED
  BY <1>1, <1>2, <1>3, <1>4 DEF Step

LEMMA ServerElsewhere ==
    ASSUME TypeInv, NEW n \in Node, NEW p \in Proc,
           Step(n, p) \/ Wait(n) \/ \E r \in Row : Receive(n, r) \/ Resume(n, r),
           NEW m \in Node, m # n
    PROVE  Own(m)' = Own(m) /\ old' = old
<1>1. "server" \in Proc
  BY DEF Proc
<1>2. CASE Wait(n) \/ \E r \in Row : Resume(n, r)
  BY <1>1, <1>2 DEF TypeInv, TypeOK, Wait, Resume, View, Do, Own, historyFile
<1>3. ASSUME NEW r \in Row, Receive(n, r) PROVE Own(m)' = Own(m) /\ old' = old
  BY <1>1, <1>3, CheckElsewhere DEF Receive, Own
<1> QED
  BY <1>2, <1>3, StepElsewhere

LEMMA NextOnce == TypeInv /\ OnceInv /\ [Next]_vars => OnceInv'
<1> SUFFICES ASSUME TypeInv, OnceInv, [Next]_vars, NEW m \in Node
             PROVE  OnceAt(m)' /\ RecentAt(m)' /\ MemoryAt(m)'
  BY DEF OnceInv
<1>0. OnceAt(m) /\ RecentAt(m) /\ MemoryAt(m) /\ {"server", "worker"} = Proc
  BY DEF OnceInv, Proc
<1>1. ASSUME NEW n \in Node, Server(n) \/ Step(n, "worker")
      PROVE  OnceAt(m)' /\ RecentAt(m)' /\ MemoryAt(m)'
  <2>1. CASE m = n
    BY <1>0, <1>1, <2>1, ServerOnce, StepOnce
  <2>2. CASE m # n
    <3>1. Own(m)' = Own(m) /\ old' = old
      BY <1>0, <1>1, <2>2, ServerElsewhere DEF Server
    <3> QED
      BY <1>0, <3>1, Elsewhere DEF Own
  <2> QED
    BY <2>1, <2>2
<1>2. ASSUME NEW s \in due, Notice(s[1], s[2], s[3])
      PROVE  OnceAt(m)' /\ RecentAt(m)' /\ MemoryAt(m)'
  <2>1. s[1] \in Node /\ s[2] \in Proc /\ <<s[3], s[1], s[2]>> \in Row
    BY DueType DEF TypeInv, Row
  <2>2. CASE m = s[1]
    BY <1>0, <1>2, <2>1, <2>2, CheckOnce DEF Notice
  <2>3. CASE m # s[1]
    BY <1>0, <1>2, <2>1, <2>3, CheckElsewhere, Elsewhere DEF Notice
  <2> QED
    BY <2>2, <2>3
<1>3. CASE \/ \E n, k \in Node : Ask(n, k)
           \/ \E k \in net : Lose(k)
           \/ \E r \in Ageing : GrowOld(r)
           \/ UNCHANGED vars
  BY <1>0, <1>3, Elsewhere DEF Ask, Lose, GrowOld, vars, historyFile
<1> QED
  BY <1>1, <1>2, <1>3 DEF Next

\* purge_old_history and has_node_trust: a node applies a change once, whatever nodes noticed
\* it and sent it, but for the reasons that AppliedOnce names: all that another process may do
\* between the operations on the history is among them.
THEOREM ChangeOnce == Spec => []AppliedOnce
<1>1. OnceInv => AppliedOnce
  BY DEF OnceInv, OnceAt, Taken, AppliedOnce
<1> QED
  BY <1>1, InitType, NextType, InitOnce, NextOnce, PTL DEF Spec
-----------------------------------------------------------------------------
(* A row is in one place of a node                                         *)

\* The changes that a node has applied or is about.
Held(n) == full[n] \cup waiting[n] \cup {act[n][p].row : p \in {q \in Proc : act[n][q] # Idle}}

Apart(n) ==
    /\ full[n] \cap waiting[n] = {}
    /\ \A p \in Proc : act[n][p] # Idle => act[n][p].row \notin full[n] \cup waiting[n]
    /\ \A p, q \in Proc :
          p # q /\ act[n][p] # Idle /\ act[n][q] # Idle => act[n][p].row # act[n][q].row

\* A row has come from the node that noticed the change, which has it in its history ...
OriginAt(n) == \A r \in Held(n) : r[2] # n => r \in full[r[2]]

\* ... and has sent it once to every other, ...
NetInv ==
    \A m \in net : m.row[2] # m.to /\ m.row \in full[m.row[2]] /\ m.row \notin Held(m.to)

\* ... and noticed it once.
DueInv == \A s \in due : <<s[3], s[1], s[2]>> \notin Held(s[1])

PlaceInv == (\A n \in Node : Apart(n) /\ OriginAt(n)) /\ NetInv /\ DueInv

LEMMA InitPlace == Init => PlaceInv
<1> SUFFICES ASSUME Init PROVE PlaceInv
  OBVIOUS
<1>1. ASSUME NEW n \in Node PROVE Held(n) = Past /\ Apart(n) /\ OriginAt(n)
  <2>1. Held(n) = Past
    BY DEF Init, Held
  <2>2. Apart(n)
    BY DEF Init, Apart
  <2>3. OriginAt(n)
    BY <2>1, PastType, RowType DEF Init, OriginAt
  <2> QED
    BY <2>1, <2>2, <2>3
<1>2. NetInv
  BY DEF Init, NetInv
<1>3. DueInv
  <2> SUFFICES ASSUME NEW s \in due PROVE <<s[3], s[1], s[2]>> \notin Held(s[1])
    BY DEF DueInv
  <2>1. s = <<s[1], s[2], s[3]>> /\ s[1] \in Node /\ s \in UNION Plans
    BY PlansAssumption DEF Init
  <2> QED
    BY <1>1, <2>1, PastAssumption
<1> QED
  BY <1>1, <1>2, <1>3 DEF PlaceInv

\* What a step does to the rows of a node: it leaves them, moves one or drops one, ...
Keeps(n) == Held(n)' \subseteq Held(n) /\ Apart(n)' /\ full[n] \subseteq full'[n]

\* ... or takes one.
Takes(n, r) ==
    /\ Held(n)' \subseteq Held(n) \cup {r}
    /\ Apart(n)' /\ full[n] \subseteq full'[n]

LEMMA SameKeeps ==
    ASSUME NEW n \in Node, Apart(n),
           full'[n] = full[n], waiting'[n] = waiting[n], act'[n] = act[n]
    PROVE  Keeps(n)
BY DEF Keeps, Held, Apart

\* What one process is about changes, and what it was about may move to the history.
LEMMA DoKeeps ==
    ASSUME TypeOK, NEW n \in Node, NEW p \in Proc, act[n][p] # Idle, NEW a, Do(n, p, a),
           a # Idle => a.row = act[n][p].row, Apart(n), waiting'[n] = waiting[n],
           full'[n] = full[n] \/ (a = Idle /\ full'[n] = full[n] \cup {act[n][p].row})
    PROVE  Keeps(n)
<1>1. act'[n][p] = a /\ \A q \in Proc : q # p => act'[n][q] = act[n][q]
  BY DoTakes
<1>2. act[n][p].row \in Held(n)
  BY DEF Held
<1>3. Held(n)' \subseteq Held(n)
  <2> SUFFICES ASSUME NEW s \in Held(n)' PROVE s \in Held(n)
    OBVIOUS
  <2>1. CASE s \in full'[n] \cup waiting'[n]
    BY <1>2, <2>1 DEF Held
  <2>2. CASE \E q \in Proc : act'[n][q] # Idle /\ s = act'[n][q].row
    BY <1>1, <1>2, <2>2 DEF Held
  <2> QED
    BY <2>1, <2>2 DEF Held
<1>4. Apart(n)'
  BY <1>1 DEF Apart
<1> QED
  BY <1>3, <1>4 DEF Keeps

LEMMA CheckTakes ==
    ASSUME TypeInv, NEW n \in Node, NEW p \in Proc, NEW r \in Row, Check(n, p, r),
           act[n][p] = Idle, Apart(n), r \notin Held(n), UNCHANGED <<full, waiting>>
    PROVE  Takes(n, r)
<1>1. PICK a : Do(n, p, a) /\ (a # Idle => a.row = r)
  <2>1. Do(n, p, Idle) \/ Do(n, p, At("read", r)) \/ Do(n, p, At("purge", r))
    BY DEF Check, LookUp, Raise
  <2> QED
    BY <2>1, AtType
<1>2. act'[n][p] = a /\ \A q \in Proc : q # p => act'[n][q] = act[n][q]
  BY <1>1, DoTakes DEF TypeInv
<1>3. Held(n)' \subseteq Held(n) \cup {r}
  BY <1>1, <1>2 DEF Held
<1>4. r \notin full[n] \cup waiting[n] /\ \A q \in Proc : act[n][q] # Idle => act[n][q].row # r
  BY DEF Held
<1>5. Apart(n)'
  BY <1>1, <1>2, <1>4 DEF Apart
<1> QED
  BY <1>3, <1>5 DEF Takes

\* The steps by which a process goes on leave the row where it is, move it to the history or
\* drop it.
LEMMA StepKeeps ==
    ASSUME TypeInv, NEW n \in Node, NEW p \in Proc, Step(n, p), Apart(n)
    PROVE  Keeps(n)
<1> DEFINE r == act[n][p].row
<1>1. act[n][p] # Idle /\ r \in Row
  BY StepRow DEF TypeInv
<1>2. CASE Append(n, p)
  <2>1. Do(n, p, Idle) /\ waiting'[n] = waiting[n] /\ full'[n] = full[n] \cup {r}
    BY <1>2 DEF TypeInv, TypeOK, Append
  <2> QED
    BY <1>1, <2>1, DoKeeps DEF TypeInv
<1>3. CASE Read(n, p)
  <2>1. PICK a : Do(n, p, a) /\ a.row = r
    BY <1>3 DEF Read, View
  <2> QED
    BY <1>1, <1>3, <2>1, DoKeeps DEF TypeInv, Read, historyFile
<1>4. CASE Truncate(n, p) \/ Rewrite(n, p) \/ Find(n, p) \/ Write(n, p) \/ Record(n, p)
  <2>1. UNCHANGED <<full, waiting>>
    BY <1>4 DEF Truncate, Rewrite, Find, Write, Record, historyFile
  <2>2. PICK a : Do(n, p, a) /\ (a # Idle => a.row = r)
    <3>1. \/ Do(n, p, Idle)
          \/ \E step \in {"rewrite", "find", "read", "record", "append"} : Do(n, p, At(step, r))
      BY <1>4 DEF Truncate, Rewrite, Find, LookUp, Raise, Write, Record
    <3> QED
      BY <1>1, <3>1, AtType
  <2> QED
    BY <1>1, <2>1, <2>2, DoKeeps DEF TypeInv
<1> QED
  BY <1>2, <1>3, <1>4 DEF Step

\* So do those by which a handler starts to wait, and goes on.
LEMMA WaitKeeps ==
    ASSUME TypeInv, NEW n \in Node, Wait(n), Apart(n)
    PROVE  Keeps(n)
<1> DEFINE r == act[n]["server"].row
<1>1. "server" \in Proc /\ act[n]["server"] # Idle
  BY IdleType DEF Proc, Wait
<1>2. Do(n, "server", Idle) /\ UNCHANGED full /\ waiting'[n] = waiting[n] \cup {r}
  BY DEF TypeInv, TypeOK, Wait, historyFile
<1>3. act'[n]["server"] = Idle /\ \A q \in Proc : q # "server" => act'[n][q] = act[n][q]
  BY <1>1, <1>2, DoTakes DEF TypeInv
<1>4. Held(n)' \subseteq Held(n)
  BY <1>1, <1>2, <1>3 DEF Held
<1>5. Apart(n)'
  BY <1>1, <1>2, <1>3 DEF Apart
<1> QED
  BY <1>2, <1>4, <1>5 DEF Keeps

LEMMA ResumeKeeps ==
    ASSUME TypeInv, NEW n \in Node, NEW r \in Row, Resume(n, r), Apart(n)
    PROVE  Keeps(n)
<1>1. "server" \in Proc /\ act[n]["server"] = Idle /\ r \in waiting[n]
  BY DEF Proc, Resume, IsFree
<1>2. PICK a : Do(n, "server", a) /\ a.row = r /\ a # Idle
  BY IdleType DEF Resume, View
<1>3. UNCHANGED full /\ waiting'[n] = waiting[n] \ {r}
  BY DEF TypeInv, TypeOK, Resume, historyFile
<1>4. act'[n]["server"] = a /\ \A q \in Proc : q # "server" => act'[n][q] = act[n][q]
  BY <1>1, <1>2, DoTakes DEF TypeInv
<1>5. Held(n)' \subseteq Held(n)
  BY <1>1, <1>2, <1>3, <1>4 DEF Held
<1>6. Apart(n)'
  BY <1>1, <1>2, <1>3, <1>4 DEF Apart
<1> QED
  BY <1>3, <1>5, <1>6 DEF Keeps

\* What one node does keeps the rows of the others.
LEMMA ElsewhereKeeps ==
    ASSUME TypeInv, NEW n \in Node, NEW p \in Proc,
           Step(n, p) \/ Wait(n) \/ \E r \in Row : Receive(n, r) \/ Resume(n, r),
           NEW m \in Node, m # n, Apart(m)
    PROVE  Keeps(m)
BY ServerElsewhere, SameKeeps DEF Own

LEMMA TakenType ==
    ASSUME TypeOK, NEW n \in Node
    PROVE  Held(n) \subseteq Row
<1> SUFFICES ASSUME NEW r \in Held(n) PROVE r \in Row
  OBVIOUS
<1>1. CASE r \in full[n] \cup waiting[n]
  BY <1>1 DEF TypeOK
<1>2. CASE \E p \in Proc : act[n][p] # Idle /\ r = act[n][p].row
  BY <1>2, ActRow
<1> QED
  BY <1>1, <1>2 DEF Held

LEMMA KeptOrigin ==
    ASSUME TypeOK, PlaceInv, \A n \in Node : Keeps(n), NEW n \in Node
    PROVE  Apart(n)' /\ OriginAt(n)'
<1> SUFFICES ASSUME NEW r \in Held(n)', r[2] # n PROVE r \in full'[r[2]]
  BY DEF OriginAt, Keeps
<1>1. r \in Held(n) /\ r[2] \in Node
  BY TakenType, RowType DEF Keeps
<1> QED
  BY <1>1 DEF PlaceInv, OriginAt, Keeps

\* Nothing is taken: no row of a request or of the plan comes to be at a node.
LEMMA KeptPlace ==
    ASSUME PlaceInv, TypeOK, \A n \in Node : Keeps(n), net' \subseteq net, due' \subseteq due
    PROVE  PlaceInv'
<1>1. ASSUME NEW n \in Node PROVE Apart(n)' /\ OriginAt(n)'
  BY KeptOrigin
<1>2. NetInv'
  <2> SUFFICES ASSUME NEW m \in net'
               PROVE  m.row[2] # m.to /\ m.row \in full'[m.row[2]] /\ m.row \notin Held(m.to)'
    BY DEF NetInv
  <2>1. m \in net /\ m.to \in Node /\ m.row[2] \in Node
    BY RowType DEF TypeOK
  <2> QED
    BY <2>1 DEF PlaceInv, NetInv, Keeps
<1>3. DueInv'
  <2> SUFFICES ASSUME NEW s \in due' PROVE <<s[3], s[1], s[2]>> \notin Held(s[1])'
    BY DEF DueInv
  <2>1. s \in due /\ s[1] \in Node
    BY DueType
  <2> QED
    BY <2>1 DEF PlaceInv, DueInv, Keeps
<1> QED
  BY <1>1, <1>2, <1>3 DEF PlaceInv

\* A row is taken by the node that noticed the change, of the plan no more, or from the request.
LEMMA TakenPlace ==
    ASSUME PlaceInv, TypeOK, NEW n \in Node, NEW r \in Row, Takes(n, r),
           \A m \in Node : m # n => Keeps(m),
           r[2] = n \/ r \in full[r[2]],
           net' \subseteq net, due' \subseteq due,
           \A m \in net' : m.to = n => m.row # r,
           \A s \in due' : s[1] = n => <<s[3], s[1], s[2]>> # r
    PROVE  PlaceInv'
<1>0. /\ \A m \in Node : full[m] \subseteq full'[m] /\ Apart(m)'
      /\ \A m \in Node : m # n => Held(m)' \subseteq Held(m)
      /\ Held(n)' \subseteq Held(n) \cup {r}
  BY DEF Keeps, Takes
<1>1. ASSUME NEW m \in Node PROVE OriginAt(m)'
  <2> SUFFICES ASSUME NEW s \in Held(m)', s[2] # m PROVE s \in full'[s[2]]
    BY DEF OriginAt
  <2>1. CASE s \in Held(m)
    <3>1. s[2] \in Node /\ s \in full[s[2]]
      BY <2>1, TakenType, RowType DEF PlaceInv, OriginAt
    <3> QED
      BY <1>0, <3>1
  <2>2. CASE m = n /\ s = r
    BY <1>0, <2>2, RowType
  <2> QED
    BY <1>0, <2>1, <2>2
<1>2. NetInv'
  <2> SUFFICES ASSUME NEW m \in net'
               PROVE  m.row[2] # m.to /\ m.row \in full'[m.row[2]] /\ m.row \notin Held(m.to)'
    BY DEF NetInv
  <2>1. m \in net /\ m.to \in Node /\ m.row[2] \in Node
    BY RowType DEF TypeOK
  <2> QED
    BY <1>0, <2>1 DEF PlaceInv, NetInv
<1>3. DueInv'
  <2> SUFFICES ASSUME NEW s \in due' PROVE <<s[3], s[1], s[2]>> \notin Held(s[1])'
    BY DEF DueInv
  <2>1. s \in due /\ s[1] \in Node
    BY DueType
  <2> QED
    BY <1>0, <2>1 DEF PlaceInv, DueInv
<1> QED
  BY <1>0, <1>1, <1>2, <1>3 DEF PlaceInv

LEMMA NoticePlace ==
    ASSUME TypeInv, PlaceInv, NEW s \in due, Notice(s[1], s[2], s[3])
    PROVE  PlaceInv'
<1> DEFINE n == s[1]
           r == <<s[3], s[1], s[2]>>
<1>1. s = <<s[1], s[2], s[3]>> /\ n \in Node /\ s[2] \in Proc /\ r \in Row /\ r[2] = n
  BY DueType DEF TypeInv, Row
<1>2. r \notin Held(n)
  BY DEF PlaceInv, DueInv
<1>3. Check(n, s[2], r) /\ act[n][s[2]] = Idle /\ UNCHANGED <<full, waiting, net>>
  BY DEF Notice
<1>4. due' = due \ {s}
  BY <1>1 DEF Notice
<1>5. Takes(n, r)
  <2> HIDE DEF n, r
  <2> QED
    BY <1>1, <1>2, <1>3, CheckTakes DEF PlaceInv
<1>6. ASSUME NEW m \in Node, m # n PROVE Keeps(m)
  <2> HIDE DEF n, r
  <2> QED
    BY <1>1, <1>3, <1>6, CheckElsewhere, SameKeeps DEF PlaceInv
<1>7. \A m \in net' : m.to = n => m.row # r
  BY <1>1, <1>3 DEF PlaceInv, NetInv
<1>8. \A t \in due' : t[1] = n => <<t[3], t[1], t[2]>> # r
  BY <1>1, <1>4, DueType DEF TypeInv
<1> HIDE DEF n, r
<1> QED
  BY <1>1, <1>3, <1>4, <1>5, <1>6, <1>7, <1>8, TakenPlace DEF TypeInv

LEMMA ReceivePlace ==
    ASSUME TypeInv, PlaceInv, NEW n \in Node, NEW r \in Row, Receive(n, r)
    PROVE  PlaceInv'
<1> DEFINE k == [row |-> r, to |-> n]
<1>1. k \in net /\ k.row = r /\ k.to = n /\ net' = net \ {k} /\ "server" \in Proc
  BY DEF Receive, Proc
<1>2. r \notin Held(n) /\ r[2] # n /\ r \in full[r[2]]
  BY <1>1 DEF PlaceInv, NetInv
<1>3. Check(n, "server", r) /\ act[n]["server"] = Idle /\ UNCHANGED <<full, waiting, due>>
  BY DEF Receive, IsFree
<1>4. Takes(n, r)
  BY <1>1, <1>2, <1>3, CheckTakes DEF PlaceInv
<1>5. ASSUME NEW m \in Node, m # n PROVE Keeps(m)
  BY <1>1, <1>5, ElsewhereKeeps DEF PlaceInv
<1>6. \A m \in net' : m.to = n => m.row # r
  BY <1>1 DEF TypeInv, TypeOK
<1>7. \A s \in due' : s[1] = n => <<s[3], s[1], s[2]>> # r
  BY <1>2
<1> QED
  BY <1>1, <1>2, <1>3, <1>4, <1>5, <1>6, <1>7, TakenPlace DEF TypeInv

\* What is sent is in the history of the node that sends it, and no other has it.
LEMMA AppendPlace ==
    ASSUME TypeInv, PlaceInv, NEW n \in Node, NEW p \in Proc, Append(n, p)
    PROVE  PlaceInv'
<1> DEFINE r == act[n][p].row
           new == {[row |-> r, to |-> m] : m \in Addressees(n, r)}
<1>1. act[n][p] # Idle /\ r \in Row
  BY IdleType, ActRow DEF TypeInv, Append
<1>2. ASSUME NEW m \in Node PROVE Keeps(m)
  <2>1. Step(n, p)
    BY DEF Step
  <2> QED
    BY <2>1, StepKeeps, ElsewhereKeeps DEF PlaceInv
<1>3. r \notin full[n] /\ r \in full'[n] /\ net' = net \cup new /\ due' = due
  BY <1>1 DEF PlaceInv, Apart, TypeInv, TypeOK, Append
<1>4. ASSUME NEW m \in Node PROVE Apart(m)' /\ OriginAt(m)'
  BY <1>2, KeptOrigin DEF TypeInv
<1>5. DueInv'
  <2> SUFFICES ASSUME NEW s \in due' PROVE <<s[3], s[1], s[2]>> \notin Held(s[1])'
    BY DEF DueInv
  <2>1. s \in due /\ s[1] \in Node
    BY <1>3, DueType DEF TypeInv
  <2> QED
    BY <1>2, <2>1 DEF PlaceInv, DueInv, Keeps
<1>6. NetInv'
  <2> SUFFICES ASSUME NEW m \in net'
               PROVE  m.row[2] # m.to /\ m.row \in full'[m.row[2]] /\ m.row \notin Held(m.to)'
    BY DEF NetInv
  <2>1. CASE m \in net
    <3>1. m.to \in Node /\ m.row[2] \in Node
      BY <2>1, RowType DEF TypeInv, TypeOK
    <3> QED
      BY <1>2, <2>1, <3>1 DEF PlaceInv, NetInv, Keeps
  <2>2. CASE m \in new
    <3>1. m.row = r /\ r[2] = n /\ m.to \in Node \ {n}
      BY <2>2 DEF Addressees
    <3>2. r \notin Held(m.to)
      BY <1>3, <3>1 DEF PlaceInv, OriginAt
    <3> QED
      BY <1>2, <1>3, <3>1, <3>2 DEF Keeps
  <2> HIDE DEF new
  <2> QED
    BY <1>3, <2>1, <2>2
<1> QED
  BY <1>4, <1>5, <1>6 DEF PlaceInv

LEMMA NextPlace == TypeInv /\ PlaceInv /\ [Next]_vars => PlaceInv'
<1> SUFFICES ASSUME TypeInv, PlaceInv, [Next]_vars PROVE PlaceInv'
  OBVIOUS
<1>0. TypeOK /\ (\A n \in Node : Apart(n)) /\ Proc = {"server", "worker"}
  BY DEF TypeInv, PlaceInv, Proc
<1>1. ASSUME NEW n \in Node, NEW p \in Proc, Step(n, p) PROVE PlaceInv'
  <2>1. CASE Append(n, p)
    BY <2>1, AppendPlace
  <2>2. CASE \/ Truncate(n, p) \/ Rewrite(n, p) \/ Find(n, p)
             \/ Read(n, p) \/ Write(n, p) \/ Record(n, p)
    <3>1. \A m \in Node : Keeps(m)
      BY <1>0, <1>1, StepKeeps, ElsewhereKeeps
    <3> QED
      BY <1>0, <2>2, <3>1, KeptPlace DEF Truncate, Rewrite, Find, Read, Write, Record
  <2> QED
    BY <1>1, <2>1, <2>2 DEF Step
<1>2. ASSUME NEW n \in Node, Wait(n) PROVE PlaceInv'
  <2>1. \A m \in Node : Keeps(m)
    BY <1>0, <1>2, WaitKeeps, ElsewhereKeeps
  <2> QED
    BY <1>0, <1>2, <2>1, KeptPlace DEF Wait
<1>3. ASSUME NEW n \in Node, NEW r \in Row, Resume(n, r) PROVE PlaceInv'
  <2>1. \A m \in Node : Keeps(m)
    BY <1>0, <1>3, ResumeKeeps, ElsewhereKeeps
  <2> QED
    BY <1>0, <1>3, <2>1, KeptPlace DEF Resume
<1>4. CASE \/ \E n, k \in Node : Ask(n, k)
           \/ \E k \in net : Lose(k)
           \/ \E r \in Ageing : GrowOld(r)
           \/ UNCHANGED vars
  <2>1. UNCHANGED <<full, waiting, act, due>> /\ net' \subseteq net
    BY <1>4 DEF Ask, Lose, GrowOld, vars, historyFile
  <2>2. \A m \in Node : Keeps(m)
    BY <1>0, <2>1, SameKeeps
  <2> QED
    BY <1>0, <2>1, <2>2, KeptPlace
<1> QED
  BY <1>0, <1>1, <1>2, <1>3, <1>4, NoticePlace, ReceivePlace DEF Next, Server
-----------------------------------------------------------------------------
(* The trust is the history                                                *)

\* A view that is not stale is what the file holds.
ViewsAt(n) ==
    \A p \in Proc : act[n][p].pc = "write" /\ p \notin stale[n] => act[n][p].view = trust[n]

SumsAt(n) ==
    /\ \A r \in Applied(n) : About[r[1]] \in Trusted(n)
    /\ \A m \in Trusted(n) : trust[n][m] = BasicTrust + Total(Of(Applied(n), m))

HistoryAt(n) == IsFiniteSet(full[n]) /\ ViewsAt(n) /\ (n \notin clobbered => SumsAt(n))

HistoryInv == \A n \in Node : HistoryAt(n)

LEMMA InitHistory == Init => HistoryInv
<1> SUFFICES ASSUME Init, NEW n \in Node PROVE HistoryAt(n)
  BY DEF HistoryInv
<1>1. \A p \in Proc : act[n][p].pc = "idle"
  BY IdleType DEF Init
<1>2. Applied(n) = Past /\ full[n] = Past
  BY <1>1 DEF Init, Applied
<1>3. \A m \in Node : trust[n][m] = IF m \in Known[n] THEN BasicTrust + Total(Of(Past, m))
                                                      ELSE NoTrust
  BY DEF Init, Of
<1>4. SumsAt(n)
  <2>1. ASSUME NEW m \in Known[n] PROVE m \in Trusted(n)
    <3>1. m \in Node /\ trust[n][m] = BasicTrust + Total(Of(Past, m))
      BY <1>3, KnownAssumption
    <3>2. Total(Of(Past, m)) \in Int
      BY PastType, TotalType
    <3> QED
      BY <3>1, <3>2, NoTrustAssumption DEF Trusted, BasicTrust
  <2>2. \A r \in Past : About[r[1]] \in Trusted(n)
    BY <2>1, PastAssumption
  <2>3. \A m \in Trusted(n) : trust[n][m] = BasicTrust + Total(Of(Past, m))
    BY <1>3 DEF Trusted
  <2> QED
    BY <1>2, <2>2, <2>3 DEF SumsAt
<1> QED
  BY <1>1, <1>2, <1>4, PastType DEF HistoryAt, ViewsAt

LEMMA AppliedType ==
    ASSUME TypeOK, NEW n \in Node, IsFiniteSet(full[n])
    PROVE  Applied(n) \in SUBSET Row /\ IsFiniteSet(Applied(n))
<1> DEFINE R == {act[n][p].row : p \in {q \in Proc : act[n][q].pc \in {"record", "append"}}}
           two == {act[n]["server"].row, act[n]["worker"].row}
<1>1. full[n] \subseteq Row /\ R \subseteq Row
  BY IdleType, ActRow DEF TypeOK
<1>2. R \subseteq two
  BY DEF Proc
<1>3. IsFiniteSet(two)
  <2>1. IsFiniteSet({act[n]["server"].row})
    BY FS_Singleton
  <2>2. IsFiniteSet({act[n]["server"].row} \cup {act[n]["worker"].row})
    BY <2>1, FS_AddElement
  <2> QED
    BY <2>2
<1>4. IsFiniteSet(R)
  BY <1>2, <1>3, FS_Subset
<1>5. Applied(n) = full[n] \cup R
  BY DEF Applied
<1> HIDE DEF R
<1>6. IsFiniteSet(full[n] \cup R)
  BY <1>4, FS_Union
<1> QED
  BY <1>1, <1>5, <1>6

\* A step that leaves the trust and what has been applied.
LEMMA SameHistory ==
    ASSUME TypeOK, NEW n \in Node, HistoryAt(n), ViewsAt(n)',
           trust'[n] = trust[n], Applied(n)' = Applied(n), clobbered \subseteq clobbered'
    PROVE  HistoryAt(n)'
<1>1. IsFiniteSet(Applied(n))
  BY AppliedType DEF HistoryAt
<1>2. full'[n] \subseteq Applied(n)
  BY DEF Applied
<1>3. IsFiniteSet(full'[n])
  BY <1>1, <1>2, FS_Subset
<1>4. Trusted(n)' = Trusted(n)
  BY DEF Trusted
<1>5. SumsAt(n) => SumsAt(n)'
  BY <1>4 DEF SumsAt
<1> QED
  BY <1>3, <1>5 DEF HistoryAt

\* One that leaves the node as it is, too.
LEMMA HistoryElsewhere ==
    ASSUME TypeOK, NEW n \in Node, HistoryAt(n), trust'[n] = trust[n], full'[n] = full[n],
           act'[n] = act[n], stale'[n] = stale[n], clobbered \subseteq clobbered'
    PROVE  HistoryAt(n)'
<1>1. ViewsAt(n)' /\ Applied(n)' = Applied(n)
  BY DEF HistoryAt, ViewsAt, Applied
<1> QED
  BY <1>1, SameHistory

\* One that changes what a process is about, but not whether it has written the trust.
LEMMA DoHistory ==
    ASSUME TypeOK, NEW n \in Node, NEW p \in Proc, NEW a, Do(n, p, a), HistoryAt(n),
           act[n][p].pc \notin {"record", "append"}, a.pc \notin {"write", "record", "append"},
           UNCHANGED <<trust, full, stale, clobbered>>
    PROVE  HistoryAt(n)'
<1>1. act'[n][p] = a /\ \A q \in Proc : q # p => act'[n][q] = act[n][q]
  BY DoTakes
<1>2. ViewsAt(n)'
  BY <1>1 DEF HistoryAt, ViewsAt
<1>3. Applied(n)' = Applied(n)
  BY <1>1 DEF Applied
<1> QED
  BY <1>2, <1>3, SameHistory

LEMMA CheckHistory ==
    ASSUME TypeInv, NEW n \in Node, NEW p \in Proc, NEW r \in Row, Check(n, p, r),
           act[n][p] = Idle, HistoryAt(n), UNCHANGED <<trust, full, stale, clobbered>>
    PROVE  HistoryAt(n)'
<1>1. PICK a : Do(n, p, a) /\ a.pc \notin {"write", "record", "append"}
  <2>1. Do(n, p, Idle) \/ Do(n, p, At("read", r)) \/ Do(n, p, At("purge", r))
    BY DEF Check, LookUp, Raise
  <2> QED
    BY <2>1, AtType, IdleType
<1>2. act[n][p].pc = "idle"
  BY IdleType
<1> QED
  BY <1>1, <1>2, DoHistory DEF TypeInv

\* set and has_node_trust are about the history alone.
LEMMA PurgeHistory ==
    ASSUME TypeInv, NEW n \in Node, NEW p \in Proc, act[n][p].row \in Row,
           Truncate(n, p) \/ Rewrite(n, p) \/ Find(n, p), HistoryAt(n)
    PROVE  HistoryAt(n)'
<1> DEFINE r == act[n][p].row
<1>1. PICK a : Do(n, p, a) /\ a.pc \notin {"write", "record", "append"}
  <2>1. Do(n, p, Idle) \/ \E step \in {"rewrite", "find", "read"} : Do(n, p, At(step, r))
    BY DEF Truncate, Rewrite, Find, LookUp, Raise
  <2> QED
    BY <2>1, AtType, IdleType
<1>2. act[n][p].pc \notin {"record", "append"} /\ UNCHANGED <<trust, full, stale, clobbered>>
  BY DEF Truncate, Rewrite, Find
<1> QED
  BY <1>1, <1>2, DoHistory DEF TypeInv

\* add_trust_to_node reads the file as it is.
LEMMA ViewHistory ==
    ASSUME TypeInv, NEW n \in Node, NEW p \in Proc, NEW r \in Row, View(n, p, r),
           act[n][p].pc \notin {"record", "append"}, HistoryAt(n),
           UNCHANGED <<trust, full, clobbered>>
    PROVE  HistoryAt(n)'
<1> DEFINE a == [pc |-> "write", row |-> r, view |-> trust[n]]
<1>1. a.pc = "write" /\ a.view = trust[n]
  OBVIOUS
<1>2. Do(n, p, a) /\ stale'[n] = stale[n] \ {p}
  BY DEF View, TypeInv, TypeOK
<1> HIDE DEF a
<1>3. act'[n][p] = a /\ \A q \in Proc : q # p => act'[n][q] = act[n][q]
  BY <1>2, DoTakes DEF TypeInv
<1>4. ViewsAt(n)'
  BY <1>1, <1>2, <1>3 DEF HistoryAt, ViewsAt
<1>5. Applied(n)' = Applied(n)
  BY <1>1, <1>3 DEF Applied
<1> QED
  BY <1>4, <1>5, SameHistory DEF TypeInv

\* It writes the trust as it is, but for one change that has not been applied before.
LEMMA WriteHistory ==
    ASSUME TypeInv, NEW n \in Node, NEW p \in Proc, Write(n, p), Apart(n), HistoryAt(n)
    PROVE  HistoryAt(n)'
<1> DEFINE a == act[n][p]
           r == a.row
           x == About[r[1]]
<1>1. a.pc = "write" /\ a # Idle /\ r \in Row
  BY IdleType, ActRow DEF TypeInv, Write
<1>2. x \in Node /\ Amount[r[1]] \in Int /\ a.view[x] \in Int
  BY <1>1, RowType DEF TypeInv, ViewInv
<1>3. Do(n, p, At("record", r)) /\ At("record", r).pc = "record" /\ At("record", r).row = r
  BY <1>1, AtType DEF Write
<1>4. /\ act'[n][p].pc = "record" /\ act'[n][p].row = r
      /\ \A q \in Proc : q # p => act'[n][q] = act[n][q]
  BY <1>3, DoTakes DEF TypeInv
<1>5. /\ trust'[n] = Raised(a.view, x, Amount[r[1]]) /\ full' = full
      /\ stale'[n] = {q \in Proc \ {p} : act[n][q].pc = "write"}
      /\ clobbered' = IF p \in stale[n] THEN clobbered \cup {n} ELSE clobbered
  BY DEF TypeInv, TypeOK, Write, historyFile
<1>6. r \notin Applied(n) /\ Applied(n)' = Applied(n) \cup {r}
  <2>1. r \notin full[n]
    BY <1>1 DEF Apart
  <2>2. ASSUME NEW q \in Proc, act[n][q].pc \in {"record", "append"}
        PROVE  r # act[n][q].row
    BY <1>1, <2>2, IdleType DEF Apart
  <2> QED
    BY <1>1, <1>4, <1>5, <2>1, <2>2 DEF Applied
<1>7. IsFiniteSet(full'[n]) /\ ViewsAt(n)'
  BY <1>4, <1>5 DEF HistoryAt, ViewsAt
<1>8. ASSUME n \notin clobbered' PROVE SumsAt(n)'
  <2>1. n \notin clobbered /\ a.view = trust[n] /\ SumsAt(n)
    BY <1>1, <1>5, <1>8 DEF HistoryAt, ViewsAt
  <2>2. trust[n] \in TrustFile /\ trust[n][x] \in Int
    BY <1>2, <2>1 DEF TypeInv, TypeOK
  <2>3. \A m \in Node : trust'[n][m] = IF m = x THEN trust[n][x] + Amount[r[1]] ELSE trust[n][m]
    <3> HIDE DEF a, r, x
    <3>1. trust'[n] = Raised(trust[n], x, Amount[r[1]])
      BY <1>5, <2>1
    <3> QED
      BY <1>2, <2>2, <3>1, RaisedType
  <2>4. x \in Trusted(n) /\ Trusted(n)' = Trusted(n)
    <3> HIDE DEF a, r, x
    <3>1. trust[n][x] # NoTrust /\ trust'[n][x] \in Int
      BY <1>2, <2>2, <2>3, NoTrustAssumption
    <3>2. \A m \in Node : trust'[n][m] # NoTrust <=> trust[n][m] # NoTrust
      BY <2>3, <3>1, NoTrustAssumption
    <3> QED
      BY <1>2, <3>1, <3>2 DEF Trusted
  <2>5. \A s \in Applied(n)' : About[s[1]] \in Trusted(n)'
    BY <1>6, <2>1, <2>4 DEF SumsAt
  <2>6. ASSUME NEW m \in Trusted(n)'
        PROVE  trust'[n][m] = BasicTrust + Total(Of(Applied(n)', m))
    <3> DEFINE A == Applied(n)
    <3>1. A \in SUBSET Row /\ IsFiniteSet(A) /\ r \in Row \ A
      BY <1>1, <1>6, AppliedType DEF TypeInv, HistoryAt
    <3>2. trust[n][m] = BasicTrust + Total(Of(A, m)) /\ m \in Node
      BY <2>1, <2>4 DEF SumsAt, Trusted
    <3> HIDE DEF A
    <3>3. /\ Total(Of(A, m)) \in Int
          /\ Total(Of(A \cup {r}, m)) = IF x = m THEN Total(Of(A, m)) + Amount[r[1]]
                                                 ELSE Total(Of(A, m))
      BY <3>1, TotalAdds
    <3>4. Applied(n)' = A \cup {r}
      BY <1>6 DEF A
    <3> HIDE DEF x, r
    <3>5. trust'[n][m] = BasicTrust + Total(Of(A \cup {r}, m))
      BY <1>2, <2>3, <3>2, <3>3 DEF BasicTrust
    <3> QED
      BY <3>4, <3>5
  <2> QED
    BY <2>5, <2>6 DEF SumsAt
<1> QED
  BY <1>7, <1>8 DEF HistoryAt

\* NodeTrustHistoryManager.add writes what has been applied, if it can read the history.
LEMMA RecordHistory ==
    ASSUME TypeInv, NEW n \in Node, NEW p \in Proc, Record(n, p), act[n][p].row \in Row,
           HistoryAt(n)
    PROVE  HistoryAt(n)'
<1> DEFINE r == act[n][p].row
<1>1. act[n][p].pc = "record" /\ UNCHANGED <<trust, full, stale>>
  BY DEF Record
<1>2. CASE Do(n, p, At("append", r)) /\ UNCHANGED clobbered
  <2>1. /\ act'[n][p].pc = "append" /\ act'[n][p].row = r
        /\ \A q \in Proc : q # p => act'[n][q] = act[n][q]
    BY <1>2, AtType, DoTakes DEF TypeInv
  <2>2. ViewsAt(n)'
    BY <1>1, <2>1 DEF HistoryAt, ViewsAt
  <2>3. Applied(n)' = Applied(n)
    BY <1>1, <2>1 DEF Applied
  <2> QED
    BY <1>1, <1>2, <2>2, <2>3, SameHistory DEF TypeInv
<1>3. CASE Do(n, p, Idle) /\ clobbered' = clobbered \cup {n}
  <2>1. act'[n][p].pc = "idle" /\ \A q \in Proc : q # p => act'[n][q] = act[n][q]
    BY <1>3, IdleType, DoTakes DEF TypeInv
  <2>2. ViewsAt(n)'
    BY <1>1, <2>1 DEF HistoryAt, ViewsAt
  <2> QED
    BY <1>1, <1>3, <2>2 DEF HistoryAt
<1> QED
  BY <1>2, <1>3 DEF Record, Raise

LEMMA AppendHistory ==
    ASSUME TypeInv, NEW n \in Node, NEW p \in Proc, Append(n, p), HistoryAt(n)
    PROVE  HistoryAt(n)'
<1> DEFINE r == act[n][p].row
<1>1. act[n][p].pc = "append" /\ full'[n] = full[n] \cup {r} /\ Do(n, p, Idle)
  BY DEF Append, TypeInv, TypeOK
<1>2. act'[n][p].pc = "idle" /\ \A q \in Proc : q # p => act'[n][q] = act[n][q]
  BY <1>1, DoTakes, IdleType DEF TypeInv
<1>3. Applied(n)' = Applied(n)
  <2>1. {act[n][q].row : q \in {k \in Proc : act[n][k].pc \in {"record", "append"}}}
          = {r} \cup {act'[n][q].row :
                        q \in {k \in Proc : act'[n][k].pc \in {"record", "append"}}}
    BY <1>1, <1>2
  <2> QED
    BY <1>1, <2>1 DEF Applied
<1>4. UNCHANGED <<trust, stale, clobbered>>
  BY DEF Append
<1>5. ViewsAt(n)'
  BY <1>2, <1>4 DEF HistoryAt, ViewsAt
<1> QED
  BY <1>3, <1>4, <1>5, SameHistory DEF TypeInv

\* get_node_trust gives a node its first trust; no change of it has been applied.
LEMMA AskHistory ==
    ASSUME TypeInv, NEW n \in Node, NEW x \in Node, Ask(n, x), HistoryAt(n)
    PROVE  HistoryAt(n)'
<1>1. /\ \A m \in Node : trust'[n][m] = IF m = x THEN BasicTrust ELSE trust[n][m]
      /\ stale'[n] = {q \in Proc : act[n][q].pc = "write"}
      /\ UNCHANGED <<full, act, clobbered>>
  BY DEF Ask, TypeInv, TypeOK, TrustFile, historyFile
<1>2. ViewsAt(n)' /\ Applied(n)' = Applied(n)
  BY <1>1 DEF ViewsAt, Applied
<1>3. Trusted(n)' = Trusted(n) \cup {x} /\ x \notin Trusted(n)
  BY <1>1, NoTrustAssumption DEF Ask, Trusted, BasicTrust
<1>4. ASSUME SumsAt(n) PROVE SumsAt(n)'
  <2>1. ASSUME NEW m \in Trusted(n)'
        PROVE  trust'[n][m] = BasicTrust + Total(Of(Applied(n), m))
    <3>1. CASE m = x
      <4>1. Of(Applied(n), x) = {}
        BY <1>3, <1>4 DEF SumsAt, Of
      <4> QED
        BY <1>1, <3>1, <4>1, TotalEmpty DEF BasicTrust
    <3>2. CASE m # x
      BY <1>1, <1>3, <1>4, <3>2 DEF SumsAt, Trusted
    <3> QED
      BY <3>1, <3>2
  <2> QED
    BY <1>2, <1>3, <1>4, <2>1 DEF SumsAt
<1> QED
  BY <1>1, <1>2, <1>4 DEF HistoryAt

\* What one node does is nothing to the trust file of another.
LEMMA FileElsewhere ==
    ASSUME TypeInv, NEW n \in Node, NEW p \in Proc, NEW m \in Node, m # n,
           \/ Step(n, p) \/ Wait(n)
           \/ \E r \in Row : Receive(n, r) \/ Resume(n, r)
           \/ \E x \in Node : Ask(n, x)
    PROVE  trust'[m] = trust[m] /\ stale'[m] = stale[m] /\ clobbered \subseteq clobbered'
<1>1. CASE Step(n, p)
  BY <1>1 DEF TypeInv, TypeOK, Step, Truncate, Rewrite, Find, Read, Write, Record, Append, View
<1>2. CASE Wait(n) \/ \E r \in Row : Receive(n, r) \/ Resume(n, r)
  BY <1>2 DEF TypeInv, TypeOK, Wait, Receive, Resume, View
<1>3. CASE \E x \in Node : Ask(n, x)
  BY <1>3 DEF TypeInv, TypeOK, Ask
<1> QED
  BY <1>1, <1>2, <1>3

LEMMA StepHistory ==
    ASSUME TypeInv, NEW n \in Node, NEW p \in Proc, Step(n, p), Apart(n), HistoryAt(n)
    PROVE  HistoryAt(n)'
<1>1. act[n][p].row \in Row
  BY StepRow DEF TypeInv
<1>2. CASE Read(n, p)
  <2>1. act[n][p].pc \notin {"record", "append"} /\ View(n, p, act[n][p].row)
    BY <1>2 DEF Read
  <2> QED
    BY <1>1, <1>2, <2>1, ViewHistory DEF Read, historyFile
<1> QED
  BY <1>1, <1>2, PurgeHistory, WriteHistory, RecordHistory, AppendHistory DEF Step

LEMMA ServerHistory ==
    ASSUME TypeInv, NEW n \in Node, Server(n), Apart(n), HistoryAt(n)
    PROVE  HistoryAt(n)'
<1>1. "server" \in Proc
  BY DEF Proc
<1>2. CASE Step(n, "server")
  BY <1>1, <1>2, StepHistory
<1>3. CASE Wait(n)
  <2>1. /\ act[n]["server"].pc = "read" /\ Do(n, "server", Idle)
        /\ UNCHANGED <<trust, full, stale, clobbered>>
    BY <1>3 DEF Wait, historyFile
  <2> QED
    BY <1>1, <2>1, DoHistory, IdleType DEF TypeInv
<1>4. ASSUME NEW r \in Row, Receive(n, r) PROVE HistoryAt(n)'
  BY <1>1, <1>4, CheckHistory DEF Receive, IsFree
<1>5. ASSUME NEW r \in Row, Resume(n, r) PROVE HistoryAt(n)'
  BY <1>1, <1>5, ViewHistory, IdleType DEF Resume, IsFree, historyFile
<1> QED
  BY <1>2, <1>3, <1>4, <1>5 DEF Server

LEMMA NextHistory == TypeInv /\ PlaceInv /\ HistoryInv /\ [Next]_vars => HistoryInv'
<1> SUFFICES ASSUME TypeInv, PlaceInv, HistoryInv, [Next]_vars, NEW m \in Node
             PROVE  HistoryAt(m)'
  BY DEF HistoryInv
<1>0. TypeOK /\ Apart(m) /\ HistoryAt(m) /\ {"server", "worker"} = Proc
  BY DEF TypeInv, PlaceInv, HistoryInv, Proc
<1>1. ASSUME NEW n \in Node, Server(n) \/ Step(n, "worker") PROVE HistoryAt(m)'
  <2>1. CASE m = n
    BY <1>0, <1>1, <2>1, ServerHistory, StepHistory
  <2>2. CASE m # n
    <3>1. full'[m] = full[m] /\ act'[m] = act[m]
      BY <1>0, <1>1, <2>2, ServerElsewhere DEF Server, Own
    <3>2. trust'[m] = trust[m] /\ stale'[m] = stale[m] /\ clobbered \subseteq clobbered'
      BY <1>0, <1>1, <2>2, FileElsewhere DEF Server
    <3> QED
      BY <1>0, <3>1, <3>2, HistoryElsewhere
  <2> QED
    BY <2>1, <2>2
<1>2. ASSUME NEW s \in due, Notice(s[1], s[2], s[3]) PROVE HistoryAt(m)'
  <2>1. s[1] \in Node /\ s[2] \in Proc /\ <<s[3], s[1], s[2]>> \in Row
    BY DueType DEF TypeInv, Row
  <2>2. CASE m = s[1]
    BY <1>0, <1>2, <2>1, <2>2, CheckHistory DEF Notice
  <2>3. CASE m # s[1]
    BY <1>0, <1>2, <2>1, <2>3, CheckElsewhere, HistoryElsewhere DEF Notice
  <2> QED
    BY <2>2, <2>3
<1>3. ASSUME NEW n \in Node, NEW x \in Node, Ask(n, x) PROVE HistoryAt(m)'
  <2>1. CASE m = n
    BY <1>0, <1>3, <2>1, AskHistory
  <2>2. CASE m # n
    BY <1>0, <1>3, <2>2, FileElsewhere, HistoryElsewhere DEF Ask, historyFile
  <2> QED
    BY <2>1, <2>2
<1>4. CASE \/ \E k \in net : Lose(k)
           \/ \E r \in Ageing : GrowOld(r)
           \/ UNCHANGED vars
  BY <1>0, <1>4, HistoryElsewhere DEF Lose, GrowOld, vars, historyFile
<1> QED
  BY <1>1, <1>2, <1>3, <1>4 DEF Next

\* add_trust_to_node and NodeTrustHistoryManager.add, step by step in the processes of a node
\* that share its files: the trust of a node is its first trust and what the history says has
\* been applied, unless an update of the file was lost, or the history could not be read.
THEOREM TrustFollowsHistory == Spec => []TrustIsHistory
<1>1. HistoryInv => TrustIsHistory
  BY DEF HistoryInv, HistoryAt, SumsAt, Of, TrustIsHistory
<1> QED
  BY <1>1, InitType, NextType, InitPlace, NextPlace, InitHistory, NextHistory, PTL DEF Spec
-----------------------------------------------------------------------------
(* Nodes agree                                                             *)

\* A node has a change, ...
HasChange(n, c) == \E s \in Held(n) : s[1] = c

\* ... or may never have it.
Settled(n, c) == HasChange(n, c) \/ <<c, n>> \in lost

\* What a node noticed and applied has been taken by the others, is on its way to them, or
\* was lost.
SpreadAt(n) ==
    \A k \in Node : \A r \in full[k] :
        r[2] = k => Settled(n, r[1]) \/ [row |-> r, to |-> n] \in net

\* A change that is recognised has been applied.
KeptAt(n) == recent[n] \subseteq full[n] /\ \A p \in Proc : memory[n][p] \subseteq full[n]

SpreadInv == \A n \in Node : SpreadAt(n) /\ KeptAt(n)

\* The same of the next state, for a change that is given by the state.
Later(n, c) == (\E s \in Held(n)' : s[1] = c) \/ <<c, n>> \in lost'

\* A step takes no change from a node.
Settles(n) == \A c : Settled(n, c) => Later(n, c)

LEMMA InitSpread == Init => SpreadInv
<1> SUFFICES ASSUME Init, NEW n \in Node PROVE SpreadAt(n) /\ KeptAt(n)
  BY DEF SpreadInv
<1>1. KeptAt(n)
  BY DEF Init, KeptAt
<1>2. Past \subseteq Held(n) /\ \A k \in Node : full[k] = Past
  BY DEF Init, Held
<1> QED
  BY <1>1, <1>2 DEF SpreadAt, Settled, HasChange

LEMMA KeptSeen ==
    ASSUME NEW n \in Node, NEW p \in Proc, KeptAt(n)
    PROVE  Seen(n, p) \subseteq full[n]
BY DEF KeptAt, Seen

\* A process goes on: what it was about, and what no longer waits, is somewhere else.
LEMMA DoSettles ==
    ASSUME TypeOK, NEW n \in Node, NEW p \in Proc, NEW a, Do(n, p, a),
           act[n][p] # Idle => Later(n, act[n][p].row[1]),
           full[n] \subseteq full'[n], \A s \in waiting[n] \ waiting'[n] : Later(n, s[1]),
           lost \subseteq lost'
    PROVE  Settles(n)
<1> SUFFICES ASSUME NEW c, Settled(n, c) PROVE Later(n, c)
  BY DEF Settles
<1>1. CASE <<c, n>> \in lost
  BY <1>1 DEF Settled, Later
<1>2. ASSUME NEW s \in Held(n), s[1] = c PROVE Later(n, c)
  <2>1. CASE s \in full[n] \cup waiting[n]
    BY <1>2, <2>1 DEF Settled, Later, HasChange, Held
  <2>2. CASE \E q \in Proc : act[n][q] # Idle /\ s = act[n][q].row
    <3>1. PICK q \in Proc : act[n][q] # Idle /\ s = act[n][q].row
      BY <2>2
    <3>2. CASE q = p
      BY <1>2, <3>1, <3>2
    <3>3. CASE q # p
      <4>1. act'[n][q] = act[n][q]
        BY <3>3, DoTakes
      <4> QED
        BY <1>2, <3>1, <4>1 DEF Settled, Later, HasChange, Held
    <3> QED
      BY <3>2, <3>3
  <2> QED
    BY <2>1, <2>2 DEF Held
<1> QED
  BY <1>1, <1>2 DEF Settled, Later, HasChange

\* One that is about a change has it.
LEMMA ActSettled ==
    ASSUME TypeOK, NEW n \in Node, NEW p \in Proc, NEW a, Do(n, p, a), a # Idle
    PROVE  Later(n, a.row[1])
<1>1. act'[n][p] = a
  BY DoTakes
<1> QED
  BY <1>1 DEF Settled, Later, HasChange, Held

\* has_node_trust: the change is one that the node has, or takes.
LEMMA LookUpSettled ==
    ASSUME TypeOK, NEW n \in Node, NEW p \in Proc, NEW r \in Row, NEW rows,
           LookUp(n, p, r, rows), rows \subseteq full[n], UNCHANGED full
    PROVE  Later(n, r[1])
<1>1. CASE HasNodeTrust(n, p, r, rows)
  <2>1. PICK s \in rows : Same(r, s)
    BY <1>1 DEF HasNodeTrust
  <2> QED
    BY <2>1 DEF Settled, Later, HasChange, Held, Same
<1>2. CASE ~HasNodeTrust(n, p, r, rows)
  <2>1. Do(n, p, At("read", r)) /\ At("read", r) # Idle /\ At("read", r).row = r
    BY <1>2, AtType DEF LookUp
  <2>2. Later(n, At("read", r).row[1])
    BY <2>1, ActSettled
  <2> QED
    BY <2>1, <2>2
<1> QED
  BY <1>1, <1>2

LEMMA RaiseSettled ==
    ASSUME NEW n, NEW p, NEW r, Raise(n, p, r)
    PROVE  Later(n, r[1]) /\ lost \subseteq lost'
BY DEF Raise, Later

LEMMA CheckSettles ==
    ASSUME TypeInv, NEW n \in Node, NEW p \in Proc, NEW r \in Row, Check(n, p, r),
           act[n][p] = Idle, KeptAt(n), UNCHANGED <<full, waiting>>
    PROVE  Later(n, r[1]) /\ Settles(n) /\ lost \subseteq lost'
<1>1. Later(n, r[1]) /\ lost \subseteq lost'
  <2>1. CASE LookUp(n, p, r, Seen(n, p)) /\ UNCHANGED lost
    BY <2>1, KeptSeen, LookUpSettled DEF TypeInv
  <2>2. CASE Do(n, p, At("purge", r)) /\ UNCHANGED lost
    <3>1. At("purge", r) # Idle /\ At("purge", r).row = r
      BY AtType
    <3>2. Later(n, At("purge", r).row[1])
      BY <2>2, <3>1, ActSettled DEF TypeInv
    <3> QED
      BY <2>2, <3>1, <3>2
  <2>3. CASE Raise(n, p, r)
    BY <2>3, RaiseSettled
  <2> QED
    BY <2>1, <2>2, <2>3 DEF Check
<1>2. PICK a : Do(n, p, a)
  BY DEF Check, LookUp, Raise
<1> QED
  BY <1>1, <1>2, DoSettles DEF TypeInv

LEMMA CheckKept ==
    ASSUME TypeInv, NEW n \in Node, NEW p \in Proc, NEW r \in Row, Check(n, p, r),
           KeptAt(n), UNCHANGED <<recent, full>>
    PROVE  KeptAt(n)'
<1>1. CASE Refresh(n, p, Purged(Seen(n, p)))
  <2>1. Purged(Seen(n, p)) \subseteq full[n]
    BY KeptSeen DEF Purged
  <2>2. \A q \in Proc : memory'[n][q] = IF q = p THEN Purged(Seen(n, p)) ELSE memory[n][q]
    BY <1>1 DEF Refresh, TypeInv, TypeOK
  <2> QED
    BY <2>1, <2>2 DEF KeptAt
<1>2. CASE UNCHANGED memory
  BY <1>2 DEF KeptAt
<1> QED
  BY <1>1, <1>2 DEF Check

\* A process that goes on keeps what it is about, writes it to the history, or fails.
LEMMA StepSettles ==
    ASSUME TypeInv, NEW n \in Node, NEW p \in Proc, Step(n, p), KeptAt(n)
    PROVE  Settles(n) /\ lost \subseteq lost'
<1> DEFINE r == act[n][p].row
<1>1. act[n][p] # Idle /\ r \in Row /\ TypeOK
  BY StepRow DEF TypeInv
<1>2. Later(n, r[1]) /\ lost \subseteq lost'
  <2>1. CASE Truncate(n, p) \/ Rewrite(n, p) \/ Write(n, p)
    <3>1. PICK step \in {"rewrite", "find", "record"} : Do(n, p, At(step, r))
      BY <2>1 DEF Truncate, Rewrite, Write
    <3>2. At(step, r) # Idle /\ At(step, r).row = r
      BY <1>1, AtType
    <3>3. Later(n, At(step, r).row[1])
      BY <1>1, <3>1, <3>2, ActSettled
    <3> QED
      BY <2>1, <3>2, <3>3 DEF Truncate, Rewrite, Write
  <2>2. CASE Find(n, p)
    <3>1. CASE LookUp(n, p, r, Seen(n, p)) /\ UNCHANGED lost
      BY <1>1, <2>2, <3>1, KeptSeen, LookUpSettled DEF Find
    <3> QED
      BY <2>2, <3>1, RaiseSettled DEF Find
  <2>3. CASE Read(n, p)
    <3>1. PICK a : Do(n, p, a) /\ a # Idle /\ a.row = r
      BY <2>3, IdleType DEF Read, View
    <3>2. Later(n, a.row[1])
      BY <1>1, <3>1, ActSettled
    <3> QED
      BY <2>3, <3>1, <3>2 DEF Read
  <2>4. CASE Record(n, p)
    <3>1. CASE Do(n, p, At("append", r)) /\ UNCHANGED lost
      <4>1. At("append", r) # Idle /\ At("append", r).row = r
        BY <1>1, AtType
      <4>2. Later(n, At("append", r).row[1])
        BY <1>1, <3>1, <4>1, ActSettled
      <4> QED
        BY <3>1, <4>1, <4>2
    <3> QED
      BY <2>4, <3>1, RaiseSettled DEF Record
  <2>5. CASE Append(n, p)
    <3>1. r \in full'[n]
      BY <1>1, <2>5 DEF TypeOK, Append
    <3> QED
      BY <2>5, <3>1 DEF Append, Settled, Later, HasChange, Held
  <2> QED
    BY <2>1, <2>2, <2>3, <2>4, <2>5 DEF Step
<1>3. PICK a : Do(n, p, a)
  BY DEF Step, Truncate, Rewrite, Find, LookUp, Raise, Read, View, Write, Record, Append
<1>4. full[n] \subseteq full'[n] /\ waiting' = waiting
  BY <1>1 DEF TypeOK, Step, Truncate, Rewrite, Find, Read, Write, Record, Append, historyFile
<1> QED
  BY <1>1, <1>2, <1>3, <1>4, DoSettles

LEMMA StepKept ==
    ASSUME TypeInv, NEW n \in Node, NEW p \in Proc, Step(n, p), KeptAt(n)
    PROVE  KeptAt(n)'
<1>1. CASE Truncate(n, p) \/ Rewrite(n, p)
  BY <1>1 DEF TypeInv, TypeOK, Truncate, Rewrite, KeptAt
<1>2. CASE Find(n, p) \/ Record(n, p)
  <2>1. UNCHANGED <<recent, full>>
    BY <1>2 DEF Find, Record
  <2>2. CASE Refresh(n, p, Seen(n, p))
    <3>1. \A q \in Proc : memory'[n][q] = IF q = p THEN Seen(n, p) ELSE memory[n][q]
      BY <2>2 DEF Refresh, TypeInv, TypeOK
    <3> QED
      BY <2>1, <3>1, KeptSeen DEF KeptAt
  <2>3. CASE UNCHANGED memory
    BY <2>1, <2>3 DEF KeptAt
  <2> QED
    BY <1>2, <2>2, <2>3 DEF Find, Record
<1>3. CASE Read(n, p) \/ Write(n, p)
  BY <1>3 DEF Read, Write, KeptAt, historyFile
<1>4. CASE Append(n, p)
  <2>1. /\ recent'[n] = recent[n] \cup {act[n][p].row} /\ full'[n] = full[n] \cup {act[n][p].row}
        /\ \A q \in Proc : memory'[n][q] \subseteq memory[n][q] \cup {act[n][p].row}
    BY <1>4 DEF TypeInv, TypeOK, Append
  <2> QED
    BY <2>1 DEF KeptAt
<1> QED
  BY <1>1, <1>2, <1>3, <1>4 DEF Step

\* A handler starts to wait, and goes on.
LEMMA WaitSettles ==
    ASSUME TypeInv, NEW n \in Node, Wait(n) \/ \E r \in Row : Resume(n, r)
    PROVE  Settles(n) /\ UNCHANGED <<recent, memory, full, net, lost>>
<1>1. "server" \in Proc /\ TypeOK
  BY DEF Proc, TypeInv
<1>2. UNCHANGED <<recent, memory, full, net, lost>>
  BY DEF Wait, Resume, historyFile
<1>3. CASE Wait(n)
  <2>1. Do(n, "server", Idle) /\ waiting'[n] = waiting[n] \cup {act[n]["server"].row}
    BY <1>1, <1>3 DEF TypeOK, Wait
  <2>2. Later(n, act[n]["server"].row[1])
    BY <2>1 DEF Settled, Later, HasChange, Held
  <2> QED
    BY <1>1, <1>2, <2>1, <2>2, DoSettles
<1>4. ASSUME NEW r \in Row, Resume(n, r) PROVE Settles(n)
  <2>1. PICK a : Do(n, "server", a) /\ a # Idle /\ a.row = r
    BY <1>4, IdleType DEF Resume, View
  <2>2. Later(n, r[1])
    BY <1>1, <2>1, ActSettled
  <2>3. waiting'[n] = waiting[n] \ {r} /\ act[n]["server"] = Idle
    BY <1>1, <1>4 DEF TypeOK, Resume, IsFree
  <2> QED
    BY <1>1, <1>2, <2>1, <2>2, <2>3, DoSettles
<1> QED
  BY <1>2, <1>3, <1>4

\* What one node does takes nothing from another.
LEMMA SpreadElsewhere ==
    ASSUME TypeInv, NEW n \in Node, NEW p \in Proc,
           Step(n, p) \/ Wait(n) \/ \E r \in Row : Receive(n, r) \/ Resume(n, r),
           NEW m \in Node, m # n, KeptAt(m), lost \subseteq lost'
    PROVE  Settles(m) /\ KeptAt(m)'
<1>1. Own(m)' = Own(m)
  BY ServerElsewhere
<1>2. Held(m)' = Held(m)
  BY <1>1 DEF Own, Held
<1>3. Settles(m)
  BY <1>2 DEF Settles, Settled, Later, HasChange
<1>4. KeptAt(m)'
  BY <1>1 DEF Own, KeptAt
<1> QED
  BY <1>3, <1>4

\* A step that leaves the histories and the requests on their way.
LEMMA SameSpread ==
    ASSUME NEW n \in Node, SpreadAt(n), Settles(n), full' = full, net \subseteq net'
    PROVE  SpreadAt(n)'
BY DEF SpreadAt, Settles, Settled, Later, HasChange

LEMMA NoticeSpread ==
    ASSUME TypeInv, SpreadInv, NEW s \in due, Notice(s[1], s[2], s[3]), NEW m \in Node
    PROVE  SpreadAt(m)' /\ KeptAt(m)'
<1> DEFINE n == s[1]
           r == <<s[3], s[1], s[2]>>
<1>1. n \in Node /\ s[2] \in Proc /\ r \in Row /\ SpreadAt(m) /\ KeptAt(m) /\ KeptAt(n)
  BY DueType DEF TypeInv, Row, SpreadInv
<1>2. Check(n, s[2], r) /\ act[n][s[2]] = Idle /\ UNCHANGED <<recent, full, waiting, net>>
  BY DEF Notice
<1> HIDE DEF n, r
<1>3. lost \subseteq lost' /\ Settles(n) /\ KeptAt(n)'
  BY <1>1, <1>2, CheckSettles, CheckKept
<1>4. CASE m = n
  BY <1>1, <1>2, <1>3, <1>4, SameSpread
<1>5. CASE m # n
  <2>1. act'[m] = act[m] /\ memory'[m] = memory[m]
    BY <1>1, <1>2, <1>5, CheckElsewhere
  <2>2. Settles(m)
    BY <1>2, <1>3, <2>1 DEF Settles, Settled, Later, HasChange, Held
  <2> QED
    BY <1>1, <1>2, <2>1, <2>2, SameSpread DEF KeptAt
<1> QED
  BY <1>4, <1>5

\* node_trust_change: the change that came is one that the node has or takes, or it fails.
LEMMA ReceiveSpread ==
    ASSUME TypeInv, SpreadInv, NEW n \in Node, NEW r \in Row, Receive(n, r), NEW m \in Node
    PROVE  SpreadAt(m)' /\ KeptAt(m)'
<1> DEFINE k == [row |-> r, to |-> n]
<1>1. /\ net' = net \ {k} /\ UNCHANGED <<recent, full, waiting>>
      /\ Check(n, "server", r) /\ act[n]["server"] = Idle /\ "server" \in Proc
      /\ SpreadAt(m) /\ KeptAt(m) /\ KeptAt(n)
  BY DEF Receive, IsFree, Proc, SpreadInv
<1>2. Later(n, r[1]) /\ Settles(n) /\ lost \subseteq lost' /\ KeptAt(n)'
  BY <1>1, CheckSettles, CheckKept
<1>3. Settles(m) /\ KeptAt(m)'
  BY <1>1, <1>2, SpreadElsewhere
<1>4. SpreadAt(m)'
  <2> SUFFICES ASSUME NEW o \in Node, NEW s \in full'[o], s[2] = o
               PROVE  Later(m, s[1]) \/ [row |-> s, to |-> m] \in net'
    BY DEF SpreadAt, Settled, Later, HasChange
  <2>1. Settled(m, s[1]) \/ [row |-> s, to |-> m] \in net
    BY <1>1 DEF SpreadAt
  <2>2. Settled(m, s[1]) => Later(m, s[1])
    BY <1>3 DEF Settles
  <2>3. [row |-> s, to |-> m] = k => m = n /\ s = r
    OBVIOUS
  <2> HIDE DEF k
  <2> QED
    BY <1>1, <1>2, <2>1, <2>2, <2>3
<1> QED
  BY <1>3, <1>4

\* What is written in the history of the node that noticed it is sent to all the others.
LEMMA AppendSpread ==
    ASSUME TypeInv, NEW n \in Node, NEW p \in Proc, Append(n, p),
           NEW m \in Node, SpreadAt(m), Settles(m)
    PROVE  SpreadAt(m)'
<1> DEFINE r == act[n][p].row
<1>1. /\ \A o \in Node : full'[o] = IF o = n THEN full[o] \cup {r} ELSE full[o]
      /\ net' = net \cup {[row |-> r, to |-> o] : o \in Addressees(n, r)}
  BY DEF TypeInv, TypeOK, Append
<1> SUFFICES ASSUME NEW o \in Node, NEW s \in full'[o], s[2] = o
             PROVE  Later(m, s[1]) \/ [row |-> s, to |-> m] \in net'
  BY DEF SpreadAt, Settled, Later, HasChange
<1>2. CASE s \in full[o]
  BY <1>1, <1>2 DEF SpreadAt, Settles
<1>3. CASE o = n /\ s = r
  <2>1. CASE m = n
    <3>1. s \in Held(m)'
      BY <1>1, <1>3, <2>1 DEF Held
    <3> QED
      BY <3>1 DEF Settled, Later, HasChange
  <2>2. CASE m # n
    BY <1>1, <1>3, <2>2 DEF Addressees
  <2> QED
    BY <2>1, <2>2
<1> QED
  BY <1>1, <1>2, <1>3

LEMMA StepSpread ==
    ASSUME TypeInv, SpreadInv, NEW n \in Node, NEW p \in Proc, Step(n, p), NEW m \in Node
    PROVE  SpreadAt(m)' /\ KeptAt(m)'
<1>1. SpreadAt(m) /\ KeptAt(m) /\ KeptAt(n)
  BY DEF SpreadInv
<1>2. Settles(n) /\ KeptAt(n)' /\ lost \subseteq lost'
  BY <1>1, StepSettles, StepKept
<1>3. Settles(m) /\ KeptAt(m)'
  BY <1>1, <1>2, SpreadElsewhere
<1>4. CASE Append(n, p)
  BY <1>1, <1>3, <1>4, AppendSpread
<1>5. CASE \/ Truncate(n, p) \/ Rewrite(n, p) \/ Find(n, p)
           \/ Read(n, p) \/ Write(n, p) \/ Record(n, p)
  <2>1. UNCHANGED <<full, net>>
    BY <1>5 DEF Truncate, Rewrite, Find, Read, Write, Record, historyFile
  <2> QED
    BY <1>1, <1>3, <2>1, SameSpread
<1> QED
  BY <1>3, <1>4, <1>5 DEF Step

\* send_node_trust_change: a request that fails is the one that was on its way.
LEMMA LoseSpread ==
    ASSUME TypeInv, SpreadInv, NEW k \in net, Lose(k), NEW m \in Node
    PROVE  SpreadAt(m)' /\ KeptAt(m)'
<1>1. /\ UNCHANGED <<recent, memory, full, waiting, act>>
      /\ net' = net \ {k} /\ lost' = lost \cup {<<k.row[1], k.to>>}
      /\ SpreadAt(m) /\ KeptAt(m)
  BY DEF Lose, historyFile, SpreadInv
<1>2. Held(m)' = Held(m)
  BY <1>1 DEF Held
<1>3. SpreadAt(m)'
  BY <1>1, <1>2 DEF SpreadAt, Settled, Later, HasChange
<1>4. KeptAt(m)'
  BY <1>1 DEF KeptAt
<1> QED
  BY <1>3, <1>4

LEMMA NextSpread == TypeInv /\ SpreadInv /\ [Next]_vars => SpreadInv'
<1> SUFFICES ASSUME TypeInv, SpreadInv, [Next]_vars, NEW m \in Node
             PROVE  SpreadAt(m)' /\ KeptAt(m)'
  BY DEF SpreadInv
<1>0. SpreadAt(m) /\ KeptAt(m) /\ {"server", "worker"} = Proc
  BY DEF SpreadInv, Proc
<1>1. ASSUME NEW n \in Node, Wait(n) \/ \E r \in Row : Resume(n, r)
      PROVE  SpreadAt(m)' /\ KeptAt(m)'
  <2>1. Settles(n) /\ UNCHANGED <<recent, memory, full, net, lost>>
    BY <1>1, WaitSettles
  <2>2. Settles(m)
    BY <1>0, <1>1, <2>1, SpreadElsewhere
  <2>3. KeptAt(m)'
    BY <1>0, <2>1 DEF KeptAt
  <2> QED
    BY <1>0, <2>1, <2>2, <2>3, SameSpread
<1>2. ASSUME NEW n \in Node, Server(n) PROVE SpreadAt(m)' /\ KeptAt(m)'
  BY <1>0, <1>1, <1>2, StepSpread, ReceiveSpread DEF Server
<1>3. CASE \/ \E n, k \in Node : Ask(n, k)
           \/ \E r \in Ageing : GrowOld(r)
           \/ UNCHANGED vars
  <2>1. UNCHANGED <<recent, memory, full, waiting, act, net, lost>>
    BY <1>3 DEF Ask, GrowOld, vars, historyFile
  <2>2. Settles(m)
    BY <2>1 DEF Settles, Settled, Later, HasChange, Held
  <2>3. KeptAt(m)'
    BY <1>0, <2>1 DEF KeptAt
  <2> QED
    BY <1>0, <2>1, <2>2, <2>3, SameSpread
<1> QED
  BY <1>0, <1>2, <1>3, StepSpread, NoticeSpread, LoseSpread DEF Next

\* change_node_trust and node_trust_change: whatever one node has applied, another has
\* applied, is about, or is still to be told of, unless the request to it was lost or it
\* could not read its history; no step in between forgets it.  (What ChangeArrives asks in
\* the end, as far as it is about one state.)
ChangesSpread ==
    \A m, n \in Node : \A r \in full[m] :
        \/ HasChange(n, r[1])
        \/ \E k \in net : k.to = n /\ k.row[1] = r[1]
        \/ <<r[1], n>> \in lost

\* No change that a node has applied vanishes on its way to another.
THEOREM ChangeSpreads == Spec => []ChangesSpread
<1>1. TypeInv /\ PlaceInv /\ SpreadInv => ChangesSpread
  <2> SUFFICES ASSUME TypeInv, PlaceInv, SpreadInv,
                      NEW m \in Node, NEW n \in Node, NEW r \in full[m]
               PROVE  \/ HasChange(n, r[1])
                      \/ \E k \in net : k.to = n /\ k.row[1] = r[1]
                      \/ <<r[1], n>> \in lost
    BY DEF ChangesSpread
  <2>1. r \in Held(m) /\ r[2] \in Node
    BY RowType DEF Held, TypeInv, TypeOK
  <2>2. r \in full[r[2]]
    BY <2>1 DEF PlaceInv, OriginAt
  <2> QED
    BY <2>1, <2>2 DEF SpreadInv, SpreadAt, Settled
<1> QED
  BY <1>1, InitType, NextType, InitPlace, NextPlace, InitSpread, NextSpread, PTL DEF Spec

\* When all is done, a change that one node has applied and another was told of is one that
\* the other has applied.
LEMMA QuietShares ==
    ASSUME TypeInv, PlaceInv, SpreadInv, Quiet, NEW m \in Node, NEW n \in Node,
           NEW r \in full[m], <<r[1], n>> \notin lost
    PROVE  \E s \in full[n] : Same(r, s)
<1>1. r \in Held(m) /\ r[2] \in Node
  BY RowType DEF Held, TypeInv, TypeOK
<1>2. r \in full[r[2]]
  BY <1>1 DEF PlaceInv, OriginAt
<1>3. HasChange(n, r[1])
  BY <1>1, <1>2 DEF SpreadInv, SpreadAt, Settled, Quiet
<1>4. Held(n) = full[n]
  BY DEF Quiet, Held
<1> QED
  BY <1>3, <1>4 DEF HasChange, Same

LEMMA QuietAgrees ==
    ASSUME TypeInv, OnceInv, PlaceInv, HistoryInv, SpreadInv, Quiet
    PROVE  NodesAgree
<1> SUFFICES ASSUME NEW m \in Node \ clobbered, NEW n \in Node \ clobbered,
                    NEW x \in Trusted(m) \cap Trusted(n),
                    \A c \in Change : About[c] = x =>
                        /\ c \notin again[m] \cup again[n]
                        /\ <<c, m>> \notin lost /\ <<c, n>> \notin lost
             PROVE  trust[m][x] = trust[n][x]
  BY DEF NodesAgree
<1>1. ASSUME NEW k \in {m, n}
      PROVE  /\ Of(full[k], x) \in SUBSET Row /\ IsFiniteSet(Of(full[k], x))
             /\ trust[k][x] = BasicTrust + Total(Of(full[k], x))
             /\ \A r, s \in Of(full[k], x) : Same(r, s) => r = s
  <2>1. full[k] \subseteq Row /\ HistoryAt(k) /\ SumsAt(k) /\ OnceAt(k)
    BY DEF TypeInv, TypeOK, HistoryInv, HistoryAt, OnceInv
  <2>2. Applied(k) = full[k]
    BY IdleType DEF Quiet, Applied
  <2>3. Of(full[k], x) \subseteq full[k]
    BY DEF Of
  <2>4. IsFiniteSet(Of(full[k], x))
    BY <2>1, <2>3, FS_Subset DEF HistoryAt
  <2>5. ASSUME NEW r \in Of(full[k], x), NEW s \in Of(full[k], x), Same(r, s) PROVE r = s
    <3>1. r \in Taken(k) /\ s \in Taken(k) /\ r[1] \in Change /\ About[r[1]] = x
      BY <2>1, <2>3, RowType DEF Taken, Of
    <3> QED
      BY <2>1, <2>5, <3>1 DEF OnceAt
  <2> QED
    BY <2>1, <2>2, <2>3, <2>4, <2>5 DEF SumsAt
<1>2. ASSUME NEW k \in {m, n}, NEW l \in {m, n}, NEW r \in Of(full[k], x)
      PROVE  \E s \in Of(full[l], x) : Same(r, s)
  <2>1. r \in full[k] /\ About[r[1]] = x /\ r[1] \in Change
    BY <1>1, RowType DEF Of
  <2>2. PICK s \in full[l] : Same(r, s)
    BY <2>1, QuietShares
  <2> QED
    BY <2>1, <2>2 DEF Of, Same
<1>3. Total(Of(full[m], x)) = Total(Of(full[n], x))
  <2>1. \A s \in Of(full[n], x) : \E r \in Of(full[m], x) : Same(r, s)
    BY <1>2 DEF Same
  <2>2. \A r \in Of(full[m], x) : \E s \in Of(full[n], x) : Same(r, s)
    BY <1>2
  <2> QED
    BY <1>1, <2>1, <2>2, MatchedTotals
<1> QED
  BY <1>1, <1>3

\* change_node_trust and node_trust_change: when nothing is on its way or being applied, nodes
\* that applied the changes in any order give a node the same trust, unless one of them lost
\* an update of the file, was not told of a change or failed to read its history for it, or
\* applied one again.
THEOREM QuietNodesAgree == Spec => []NodesAgree
<1>1. TypeInv /\ OnceInv /\ PlaceInv /\ HistoryInv /\ SpreadInv => NodesAgree
  BY QuietAgrees DEF NodesAgree
<1> QED
  BY <1>1, InitType, NextType, InitOnce, NextOnce, InitPlace, NextPlace, InitHistory,
     NextHistory, InitSpread, NextSpread, PTL DEF Spec
=============================================================================
