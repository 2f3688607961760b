-------------------------- MODULE GpuBrokerProofs --------------------------
(***************************************************************************)
(* Proofs about GpuBroker, for any processes, users, backends and costs.   *)
(***************************************************************************)
EXTENDS GpuBroker, FiniteSetTheorems, WellFoundedInduction, TLAPS

-----------------------------------------------------------------------------
(* Sums of integers over finite sets (SumFunctionOnSet of Functions): what *)
(* a sum is by its definition, and how it follows the function summed.     *)

\* A set of numbers has a least one.
LEMMA NatLeast ==
    ASSUME NEW T, T \subseteq Nat, T # {}
    PROVE  \E n \in T : \A m \in T : n <= m
<1> DEFINE L == {ss \in Nat \X Nat : ss[1] < ss[2]}
<1>1. IsWellFoundedOn(L, Nat)
  BY NatLessThanWellFounded DEF OpToRel
<1>2. PICK n \in T : \A m \in T : ~ (<<m, n>> \in L)
  <2> HIDE DEF L
  <2> QED
    BY <1>1, WFMin
<1>3. ASSUME NEW m \in T PROVE ~ (m < n)
  <2>1. <<m, n>> \notin L
    BY <1>2
  <2>2. <<m, n>> \in Nat \X Nat
    OBVIOUS
  <2> QED
    BY <2>1, <2>2
<1> QED
  BY <1>3

\* Of sets within a finite one, some is such that none of the others is it
\* without one of its elements.
LEMMA SubsetLeast ==
    ASSUME NEW S, IsFiniteSet(S), NEW Bad, Bad \subseteq SUBSET S, Bad # {}
    PROVE  \E T \in Bad : \A x \in T : T \ {x} \notin Bad
<1> DEFINE Sizes == {n \in Nat : \E T \in Bad : Cardinality(T) = n}
<1>1. \A T \in Bad : IsFiniteSet(T) /\ Cardinality(T) \in Nat
  BY FS_Subset, FS_CardinalityType
<1>2. Sizes \subseteq Nat /\ Sizes # {}
  BY <1>1
<1>3. PICK n \in Sizes : \A m \in Sizes : n <= m
  <2> HIDE DEF Sizes
  <2> QED
    BY <1>2, NatLeast
<1>4. PICK T \in Bad : Cardinality(T) = n
  BY <1>3
<1>5. ASSUME NEW x \in T, T \ {x} \in Bad PROVE FALSE
  <2>1. Cardinality(T \ {x}) = n - 1
    BY <1>1, <1>4, FS_RemoveElement
  <2>2. n - 1 \in Sizes
    BY <1>1, <1>5, <2>1
  <2> QED
    BY <1>3, <2>2
<1> QED
  BY <1>5

-----------------------------------------------------------------------------
(* The recursive function behind a sum. *)

First(s) == CHOOSE x \in s : TRUE

PartSum(f, g, s) == IF s = {} THEN 0 ELSE f[First(s)] + g[s \ {First(s)}]

\* A sum is what that function has for the whole set.
LEMMA SumIsChosen ==
    ASSUME NEW S, NEW f
    PROVE  SumFunctionOnSet(f, S)
             = (CHOOSE g : g = [s \in SUBSET S |-> PartSum(f, g, s)])[S]
BY DEF SumFunctionOnSet, FoldFunctionOnSet, MapThenFoldSet, PartSum, First

\* The element that is taken first is one of the set.
LEMMA FirstIn ==
    ASSUME NEW s, s # {}
    PROVE  First(s) \in s
BY DEF First

\* The recursive function of a sum exists.
LEMMA SumsExist ==
    ASSUME NEW S, IsFiniteSet(S), NEW f
    PROVE  \E g : g = [s \in SUBSET S |-> PartSum(f, g, s)]
<1> DEFINE Upto(n) == {s \in SUBSET S : Cardinality(s) <= n}
           Has(n) == \E g : g = [s \in Upto(n) |-> PartSum(f, g, s)]
           Bad == {n \in Nat : ~Has(n)}
<1>0. \A s \in SUBSET S : IsFiniteSet(s) /\ Cardinality(s) \in Nat
  BY FS_Subset, FS_CardinalityType
<1>1. Has(0)
  <2> DEFINE g == [s \in Upto(0) |-> 0]
  <2>1. \A s \in Upto(0) : s = {}
    <3> SUFFICES ASSUME NEW s \in Upto(0) PROVE s = {}
      OBVIOUS
    <3>1. Cardinality(s) = 0
      BY <1>0
    <3> QED
      BY <1>0, <3>1, FS_EmptySet
  <2>2. g = [s \in Upto(0) |-> PartSum(f, g, s)]
    BY <2>1 DEF PartSum
  <2> QED
    BY <2>2
<1>2. ASSUME NEW n \in Nat, Has(n) PROVE Has(n + 1)
  <2>1. PICK g : g = [s \in Upto(n) |-> PartSum(f, g, s)]
    BY <1>2
  <2> DEFINE h == [s \in Upto(n + 1) |-> PartSum(f, g, s)]
  <2>2. \A s \in Upto(n) : s \in Upto(n + 1) /\ h[s] = g[s]
    <3> SUFFICES ASSUME NEW s \in Upto(n) PROVE s \in Upto(n + 1) /\ h[s] = g[s]
      OBVIOUS
    <3>1. s \in Upto(n + 1)
      BY <1>0
    <3>2. g[s] = PartSum(f, g, s)
      BY <2>1
    <3>3. h[s] = PartSum(f, g, s)
      BY <3>1
    <3> QED
      BY <3>1, <3>2, <3>3
  <2>3. \A s \in Upto(n + 1) : s # {} => s \ {First(s)} \in Upto(n)
    <3> SUFFICES ASSUME NEW s \in Upto(n + 1), s # {} PROVE s \ {First(s)} \in Upto(n)
      OBVIOUS
    <3>1. Cardinality(s \ {First(s)}) = Cardinality(s) - 1
      BY <1>0, FirstIn, FS_RemoveElement
    <3> QED
      BY <1>0, <3>1
  <2>4. \A s \in Upto(n + 1) : PartSum(f, h, s) = PartSum(f, g, s)
    <3> HIDE DEF h, Upto
    <3> QED
      BY <2>2, <2>3 DEF PartSum
  <2>5. h = [s \in Upto(n + 1) |-> PartSum(f, h, s)]
    BY <2>4
  <2> QED
    BY <2>5
<1>3. Bad = {}
  <2> SUFFICES ASSUME Bad # {} PROVE FALSE
    OBVIOUS
  <2>1. PICK n \in Bad : \A m \in Bad : n <= m
    <3>1. Bad \subseteq Nat
      OBVIOUS
    <3> HIDE DEF Bad
    <3> QED
      BY <3>1, NatLeast
  <2>2. n \in Nat /\ ~Has(n)
    OBVIOUS
  <2>3. n # 0
    BY <1>1, <2>2
  <2>4. n - 1 \in Nat /\ n - 1 \notin Bad
    <3>1. n - 1 \in Nat /\ ~ (n <= n - 1)
      BY <2>2, <2>3
    <3>2. \A m \in Bad : n <= m
      BY <2>1
    <3> HIDE DEF Bad
    <3> QED
      BY <3>1, <3>2
  <2>5. Has(n - 1)
    BY <2>4
  <2>6. Has((n - 1) + 1)
    <3> HIDE DEF Has
    <3> QED
      BY <1>2, <2>4, <2>5
  <2>7. (n - 1) + 1 = n
    BY <2>2
  <2> HIDE DEF Has
  <2> QED
    BY <2>2, <2>6, <2>7
<1>4. Has(Cardinality(S))
  <2>1. Cardinality(S) \in Nat
    BY FS_CardinalityType
  <2> HIDE DEF Has
  <2> QED
    BY <1>3, <2>1
<1>5. Upto(Cardinality(S)) = SUBSET S
  BY FS_Subset
<1> QED
  BY <1>4, <1>5

\* The sum over a finite set by its definition: an element, and the rest.
SumsOf(f, S) == CHOOSE g : g = [s \in SUBSET S |-> PartSum(f, g, s)]

LEMMA SumsUnfold ==
    ASSUME NEW S, IsFiniteSet(S), NEW f
    PROVE  /\ SumFunctionOnSet(f, S) = SumsOf(f, S)[S]
           /\ \A s \in SUBSET S : SumsOf(f, S)[s] = PartSum(f, SumsOf(f, S), s)
<1>1. SumsOf(f, S) = [s \in SUBSET S |-> PartSum(f, SumsOf(f, S), s)]
  BY SumsExist DEF SumsOf
<1>2. SumFunctionOnSet(f, S) = SumsOf(f, S)[S]
  BY SumIsChosen DEF SumsOf
<1> QED
  BY <1>1, <1>2
-----------------------------------------------------------------------------
(* How sums follow what is summed. *)

\* A sum of integers is an integer.
LEMMA SumInt ==
    ASSUME NEW S, IsFiniteSet(S), NEW f, \A s \in S : f[s] \in Int
    PROVE  SumFunctionOnSet(f, S) \in Int
<1> DEFINE g == SumsOf(f, S)
           Bad == {T \in SUBSET S : g[T] \notin Int}
<1>1. \A T \in SUBSET S : g[T] = PartSum(f, g, T)
  BY SumsUnfold
<1>2. ASSUME Bad # {} PROVE FALSE
  <2>1. PICK T \in Bad : \A x \in T : T \ {x} \notin Bad
    <3>1. Bad \subseteq SUBSET S
      OBVIOUS
    <3> HIDE DEF Bad
    <3> QED
      BY <1>2, <3>1, SubsetLeast
  <2>2. T \in SUBSET S /\ g[T] \notin Int
    OBVIOUS
  <2>3. T # {}
    BY <1>1, <2>2 DEF PartSum
  <2>4. First(T) \in T /\ T \ {First(T)} \in SUBSET S
    BY <2>2, <2>3, FirstIn
  <2>5. g[T \ {First(T)}] \in Int
    BY <2>1, <2>4
  <2>6. g[T] = f[First(T)] + g[T \ {First(T)}]
    BY <1>1, <2>2, <2>3 DEF PartSum
  <2>7. f[First(T)] \in Int
    BY <2>2, <2>4
  <2> HIDE DEF g
  <2> QED
    BY <2>2, <2>5, <2>6, <2>7
<1>3. g[S] \in Int
  BY <1>2
<1> QED
  BY <1>3, SumsUnfold

\* One element that changes by d changes the sum by d.
LEMMA SumShift ==
    ASSUME NEW S, IsFiniteSet(S), NEW f, NEW h, NEW x, NEW d \in Int,
           \A s \in S : f[s] \in Int,
           x \in S => h[x] = f[x] + d, \A s \in S \ {x} : h[s] = f[s]
    PROVE  SumFunctionOnSet(h, S) = SumFunctionOnSet(f, S) + (IF x \in S THEN d ELSE 0)
<1> DEFINE F == SumsOf(f, S)
           H == SumsOf(h, S)
           By(T) == IF x \in T THEN d ELSE 0
           Bad == {T \in SUBSET S : ~ (F[T] \in Int /\ H[T] = F[T] + By(T))}
<1>1. \A T \in SUBSET S : F[T] = PartSum(f, F, T) /\ H[T] = PartSum(h, H, T)
  BY SumsUnfold
<1>2. ASSUME Bad # {} PROVE FALSE
  <2>1. PICK T \in Bad : \A y \in T : T \ {y} \notin Bad
    <3>1. Bad \subseteq SUBSET S
      OBVIOUS
    <3> HIDE DEF Bad
    <3> QED
      BY <1>2, <3>1, SubsetLeast
  <2>2. T \in SUBSET S /\ ~ (F[T] \in Int /\ H[T] = F[T] + By(T))
    OBVIOUS
  <2>3. T # {}
    <3> SUFFICES ASSUME T = {} PROVE FALSE
      OBVIOUS
    <3>1. F[T] = 0 /\ H[T] = 0
      BY <1>1 DEF PartSum
    <3>2. By(T) = 0
      OBVIOUS
    <3> QED
      BY <2>2, <3>1, <3>2
  <2> DEFINE y == First(T)
             R == T \ {y}
  <2>4. y \in T /\ y \in S /\ R \in SUBSET S
    BY <2>2, <2>3, FirstIn
  <2>5. F[R] \in Int /\ H[R] = F[R] + By(R)
    BY <2>1, <2>4
  <2>6. F[T] = f[y] + F[R] /\ H[T] = h[y] + H[R]
    BY <1>1, <2>2, <2>3 DEF PartSum
  <2>7. f[y] \in Int /\ h[y] = f[y] + (IF y = x THEN d ELSE 0)
    BY <2>4
  <2>8. By(T) = (IF y = x THEN d ELSE 0) + By(R)
    BY <2>4
  <2>9. By(R) \in Int
    OBVIOUS
  <2> HIDE DEF F, H, By, y, R
  <2> QED
    BY <2>2, <2>5, <2>6, <2>7, <2>8, <2>9
<1>3. H[S] = F[S] + By(S)
  BY <1>2
<1> QED
  BY <1>3, SumsUnfold

\* The same, told by the change itself; an element that is not summed changes nothing.
LEMMA SumMoves ==
    ASSUME NEW S, IsFiniteSet(S), NEW f, NEW h, \A s \in S : f[s] \in Int,
           NEW x, h[x] \in Int, \A s \in S \ {x} : h[s] = f[s]
    PROVE  /\ x \in S => SumFunctionOnSet(h, S) = SumFunctionOnSet(f, S) + (h[x] - f[x])
           /\ x \notin S => SumFunctionOnSet(h, S) = SumFunctionOnSet(f, S)
<1>1. CASE x \in S
  <2> DEFINE d == h[x] - f[x]
  <2>1. d \in Int /\ h[x] = f[x] + d
    BY <1>1
  <2> HIDE DEF d
  <2>2. SumFunctionOnSet(h, S) = SumFunctionOnSet(f, S) + (IF x \in S THEN d ELSE 0)
    BY <2>1, SumShift
  <2> QED
    BY <1>1, <2>2 DEF d
<1>2. CASE x \notin S
  <2>1. SumFunctionOnSet(h, S) = SumFunctionOnSet(f, S) + (IF x \in S THEN 0 ELSE 0)
    BY <1>2, SumShift
  <2>2. SumFunctionOnSet(f, S) \in Int
    BY SumInt
  <2> QED
    BY <1>2, <2>1, <2>2
<1> QED
  BY <1>1, <1>2

\* No element greater, no greater sum.
LEMMA SumMonotone ==
    ASSUME NEW S, IsFiniteSet(S), NEW f, NEW h,
           \A s \in S : f[s] \in Int /\ h[s] \in Int /\ f[s] <= h[s]
    PROVE  SumFunctionOnSet(f, S) <= SumFunctionOnSet(h, S)
<1> DEFINE F == SumsOf(f, S)
           H == SumsOf(h, S)
           Bad == {T \in SUBSET S : ~ (F[T] \in Int /\ H[T] \in Int /\ F[T] <= H[T])}
<1>1. \A T \in SUBSET S : F[T] = PartSum(f, F, T) /\ H[T] = PartSum(h, H, T)
  BY SumsUnfold
<1>2. ASSUME Bad # {} PROVE FALSE
  <2>1. PICK T \in Bad : \A y \in T : T \ {y} \notin Bad
    <3>1. Bad \subseteq SUBSET S
      OBVIOUS
    <3> HIDE DEF Bad
    <3> QED
      BY <1>2, <3>1, SubsetLeast
  <2>2. T \in SUBSET S /\ ~ (F[T] \in Int /\ H[T] \in Int /\ F[T] <= H[T])
    OBVIOUS
  <2>3. T # {}
    <3> SUFFICES ASSUME T = {} PROVE FALSE
      OBVIOUS
    <3>1. F[T] = 0 /\ H[T] = 0
      BY <1>1, <2>2 DEF PartSum
    <3> HIDE DEF F, H
    <3> QED
      BY <2>2, <3>1
  <2> DEFINE y == First(T)
             R == T \ {y}
  <2>4. y \in T /\ y \in S /\ R \in SUBSET S
    BY <2>2, <2>3, FirstIn
  <2>5. F[R] \in Int /\ H[R] \in Int /\ F[R] <= H[R]
    BY <2>1, <2>4
  <2>6. F[T] = f[y] + F[R] /\ H[T] = h[y] + H[R]
    BY <1>1, <2>2, <2>3 DEF PartSum
  <2>7. f[y] \in Int /\ h[y] \in Int /\ f[y] <= h[y]
    BY <2>4
  <2> HIDE DEF F, H, y, R
  <2> QED
    BY <2>2, <2>5, <2>6, <2>7
<1>3. F[S] <= H[S]
  BY <1>2
<1> QED
  BY <1>3, SumsUnfold

\* Nothing adds up to nothing.
LEMMA SumZero ==
    ASSUME NEW S, IsFiniteSet(S), NEW f, \A s \in S : f[s] = 0
    PROVE  SumFunctionOnSet(f, S) = 0
<1> DEFINE F == SumsOf(f, S)
           Bad == {T \in SUBSET S : F[T] # 0}
<1>1. \A T \in SUBSET S : F[T] = PartSum(f, F, T)
  BY SumsUnfold
<1>2. ASSUME Bad # {} PROVE FALSE
  <2>1. PICK T \in Bad : \A y \in T : T \ {y} \notin Bad
    <3>1. Bad \subseteq SUBSET S
      OBVIOUS
    <3> HIDE DEF Bad
    <3> QED
      BY <1>2, <3>1, SubsetLeast
  <2>2. T \in SUBSET S /\ F[T] # 0
    OBVIOUS
  <2>3. T # {}
    BY <1>1, <2>2 DEF PartSum
  <2>4. First(T) \in T /\ T \ {First(T)} \in SUBSET S
    BY <2>2, <2>3, FirstIn
  <2>5. F[T \ {First(T)}] = 0
    BY <2>1, <2>4
  <2>6. F[T] = f[First(T)] + F[T \ {First(T)}]
    BY <1>1, <2>2, <2>3 DEF PartSum
  <2>7. f[First(T)] = 0
    BY <2>2, <2>4
  <2> HIDE DEF F
  <2> QED
    BY <2>2, <2>5, <2>6, <2>7
<1>3. F[S] = 0
  BY <1>2
<1> QED
  BY <1>3, SumsUnfold

-----------------------------------------------------------------------------
(* Types.                                                                  *)

\* The slot of a user's call is one of the slots, and belongs to its process.
LEMMA SlotOfType ==
  ASSUME NEW u \in Users, NEW k \in Backends
  PROVE  SlotOf(u, k) \in Slots /\ SlotOf(u, k)[1] = ProcessOf[u]
  BY UsersAssumption DEF SlotOf, Slots

\* The initial state has its types.
LEMMA TypeInit == Init => TypeOK
  BY UsersAssumption, CostAssumption, BoundsAssumption
     DEF Init, TypeOK, SlotStates, PCs

\* Every step keeps the types.
LEMMA TypeNext == TypeOK /\ [Next]_vars => TypeOK'
<1> SUFFICES ASSUME TypeOK, [Next]_vars PROVE TypeOK'
  OBVIOUS
<1> USE UsersAssumption, CostAssumption, BoundsAssumption
<1>a. ASSUME NEW u \in Users PROVE At(u) \in Slots
  BY SlotOfType DEF At, TypeOK
<1>1. ASSUME NEW u \in Users, NEW k \in Backends, Grant(u, k) PROVE TypeOK'
  <2>1. SlotOf(u, k) \in Slots
    BY <1>a, SlotOfType
  <2>2. CASE TakeSession(u, SlotOf(u, k))
    BY <1>1, <2>1, <2>2
    DEF Grant, TakeSession, TypeOK, SlotStates, PCs, WaitPCs, CreatePCs, GrantPCs, memory,
        bounds
  <2>3. CASE SetOut(u, SlotOf(u, k))
    BY <1>1, <2>1, <2>3
    DEF Grant, SetOut, TypeOK, SlotStates, PCs, WaitPCs, CreatePCs, GrantPCs, memory, bounds
  <2>4. CASE Sleep(u, SlotOf(u, k))
    BY <1>1, <2>1, <2>4
    DEF Grant, Sleep, TypeOK, SlotStates, PCs, WaitPCs, CreatePCs, GrantPCs, memory, bounds
  <2> QED
    BY <1>1, <2>2, <2>3, <2>4 DEF Grant, TakeTurn
<1>2. ASSUME NEW u \in Users, Wake(u) PROVE TypeOK'
  <2>1. At(u) \in Slots
    BY <1>a, SlotOfType
  <2>2. CASE TakeSession(u, At(u))
    BY <1>2, <2>1, <2>2
    DEF Wake, TakeSession, TypeOK, SlotStates, PCs, WaitPCs, CreatePCs, GrantPCs, memory,
        bounds
  <2>3. CASE SetOut(u, At(u))
    BY <1>2, <2>1, <2>3
    DEF Wake, SetOut, TypeOK, SlotStates, PCs, WaitPCs, CreatePCs, GrantPCs, memory, bounds
  <2>4. CASE Sleep(u, At(u))
    BY <1>2, <2>1, <2>4
    DEF Wake, Sleep, TypeOK, SlotStates, PCs, WaitPCs, CreatePCs, GrantPCs, memory, bounds
  <2> QED
    BY <1>2, <2>2, <2>3, <2>4 DEF Wake, TakeTurn
<1>3. ASSUME NEW u \in Users, NEW k \in Backends, Ensure(u, k) PROVE TypeOK'
  BY <1>3, <1>a, SlotOfType
  DEF Ensure, TypeOK, SlotStates, PCs, WaitPCs, CreatePCs, GrantPCs, memory, bounds
<1>4. ASSUME NEW u \in Users, TakeLock(u) PROVE TypeOK'
  BY <1>4, <1>a, SlotOfType
  DEF TakeLock, TypeOK, SlotStates, PCs, WaitPCs, CreatePCs, GrantPCs, memory, bounds
<1>5. ASSUME NEW u \in Users, LockTimeout(u) PROVE TypeOK'
  BY <1>5, <1>a, SlotOfType
  DEF LockTimeout, TypeOK, SlotStates, PCs, WaitPCs, CreatePCs, GrantPCs, memory, bounds
<1>6. ASSUME NEW u \in Users, Admit(u) PROVE TypeOK'
  BY <1>6, <1>a, SlotOfType
  DEF Admit, TypeOK, SlotStates, PCs, WaitPCs, CreatePCs, GrantPCs, memory, bounds
<1>7. ASSUME NEW u \in Users, Refuse(u) PROVE TypeOK'
  BY <1>7, <1>a, SlotOfType
  DEF Refuse, TypeOK, SlotStates, PCs, WaitPCs, CreatePCs, GrantPCs, memory, bounds
<1>8. ASSUME NEW u \in Users, LoadFails(u) PROVE TypeOK'
  BY <1>8, <1>a, SlotOfType
  DEF LoadFails, TypeOK, SlotStates, PCs, WaitPCs, CreatePCs, GrantPCs, memory, bounds
<1>9. ASSUME NEW u \in Users, WarmedUp(u) PROVE TypeOK'
  BY <1>9, <1>a, SlotOfType
  DEF WarmedUp, TypeOK, SlotStates, PCs, WaitPCs, CreatePCs, GrantPCs, memory, bounds
<1>10. ASSUME NEW u \in Users, HandOver(u) PROVE TypeOK'
  BY <1>10, <1>a, SlotOfType
  DEF HandOver, TypeOK, SlotStates, PCs, WaitPCs, CreatePCs, GrantPCs, memory, bounds
<1>11. ASSUME NEW u \in Users, RunEnds(u) PROVE TypeOK'
  BY <1>11, <1>a, SlotOfType
  DEF RunEnds, TypeOK, SlotStates, PCs, WaitPCs, CreatePCs, GrantPCs, memory, bounds
<1>12. ASSUME NEW u \in Users, RunPanics(u) PROVE TypeOK'
  BY <1>12, <1>a, SlotOfType
  DEF RunPanics, TypeOK, SlotStates, PCs, WaitPCs, CreatePCs, GrantPCs, memory, bounds
<1>13. ASSUME NEW u \in Users, GiveBack(u) PROVE TypeOK'
  BY <1>13, <1>a, SlotOfType
  DEF GiveBack, TurnEnds, TypeOK, SlotStates, PCs, WaitPCs, CreatePCs, GrantPCs, memory,
      bounds
<1>14. ASSUME NEW u \in Users, Discard(u) PROVE TypeOK'
  BY <1>14, <1>a, SlotOfType
  DEF Discard, TurnEnds, TypeOK, SlotStates, PCs, WaitPCs, CreatePCs, GrantPCs, memory,
      bounds
<1>15. ASSUME NEW u \in Users, CreationFails(u) PROVE TypeOK'
  BY <1>15, <1>a, SlotOfType
  DEF CreationFails, TurnEnds, TypeOK, SlotStates, PCs, WaitPCs, CreatePCs, GrantPCs,
      memory, bounds
<1>16. ASSUME NEW u \in Users, NotifyAll(u) PROVE TypeOK'
  BY <1>16, <1>a, SlotOfType
  DEF NotifyAll, TypeOK, SlotStates, PCs, WaitPCs, CreatePCs, GrantPCs, memory, bounds
<1>17. ASSUME NEW p \in Processes, TakeIdle(p) PROVE TypeOK'
  BY <1>17
  DEF TakeIdle, TypeOK, SlotStates, PCs, WaitPCs, CreatePCs, GrantPCs, memory, bounds
<1>18. ASSUME NEW p \in Processes, Crash(p) PROVE TypeOK'
  BY <1>18 DEF Crash, TypeOK, SlotStates, PCs, WaitPCs, CreatePCs, GrantPCs, memory, bounds
<1>19. ASSUME NEW s \in Slots, DropSession(s) PROVE TypeOK'
  BY <1>19
  DEF DropSession, TypeOK, SlotStates, PCs, WaitPCs, CreatePCs, GrantPCs, memory, bounds,
      Cost, Slots
<1>20. CASE UNCHANGED vars
  BY <1>20 DEF vars, TypeOK
<1> QED
  BY <1>1, <1>2, <1>3, <1>4, <1>5, <1>6, <1>7, <1>8, <1>9, <1>10, <1>11, <1>12, <1>13,
     <1>14, <1>15, <1>16, <1>17, <1>18, <1>19, <1>20
  DEF Next, Advance

\* The initial state has the invariant.
LEMMA InvInit == Init => IInv
  BY UsersAssumption DEF Init, IInv, TurnShown, ExclusiveUse, OneTurn, OneOnGpu, HasTurn,
     WaitersCounted, NoLostWakeup, OvertakenAtMostOnce, NotOvertakenBefore,
     WaitPCs, CreatePCs, GrantPCs, LockPCs, At, SlotOf, Slots

\* Grant keeps the invariant.
LEMMA GrantInv ==
  ASSUME TypeOK, IInv, NEW u \in Users, NEW k \in Backends, Grant(u, k)
  PROVE  IInv'
<1> USE UsersAssumption
<1>a. ASSUME NEW v \in Users PROVE At(v) \in Slots /\ At(v)[1] = ProcessOf[v]
  BY SlotOfType DEF At, TypeOK
<1>1. TurnShown'
  <2>1. CASE TakeSession(u, SlotOf(u, k))
    BY <1>a, <2>1
    DEF TakeSession, Grant, TurnShown, OneTurn, HasTurn, TypeOK, IInv, ExclusiveUse,
        WaitPCs, CreatePCs, GrantPCs, At, SlotOf, Slots, memory, bounds, Outranked
  <2>2. CASE SetOut(u, SlotOf(u, k))
    BY <1>a, <2>2
    DEF SetOut, Grant, TurnShown, OneTurn, HasTurn, TypeOK, IInv, ExclusiveUse, WaitPCs,
        CreatePCs, GrantPCs, At, SlotOf, Slots, memory, bounds, Outranked
  <2>3. CASE Sleep(u, SlotOf(u, k))
    BY <1>a, <2>3
    DEF Sleep, Grant, TurnShown, OneTurn, HasTurn, TypeOK, IInv, ExclusiveUse, WaitPCs,
        CreatePCs, GrantPCs, At, SlotOf, Slots, memory, bounds, Outranked
  <2> QED
    BY <2>1, <2>2, <2>3 DEF Grant, TakeTurn
<1>2. OneTurn'
  <2>1. CASE TakeSession(u, SlotOf(u, k))
    BY <1>a, <2>1
    DEF TakeSession, Grant, TurnShown, OneTurn, HasTurn, TypeOK, IInv, ExclusiveUse,
        WaitPCs, CreatePCs, GrantPCs, At, SlotOf, Slots, memory, bounds, Outranked
  <2>2. CASE SetOut(u, SlotOf(u, k))
    BY <1>a, <2>2
    DEF SetOut, Grant, TurnShown, OneTurn, HasTurn, TypeOK, IInv, ExclusiveUse, WaitPCs,
        CreatePCs, GrantPCs, At, SlotOf, Slots, memory, bounds, Outranked
  <2>3. CASE Sleep(u, SlotOf(u, k))
    BY <1>a, <2>3
    DEF Sleep, Grant, TurnShown, OneTurn, HasTurn, TypeOK, IInv, ExclusiveUse, WaitPCs,
        CreatePCs, GrantPCs, At, SlotOf, Slots, memory, bounds, Outranked
  <2> QED
    BY <2>1, <2>2, <2>3 DEF Grant, TakeTurn
<1>3. OneOnGpu'
  <2>1. CASE TakeSession(u, SlotOf(u, k))
    BY <1>a, <2>1
    DEF TakeSession, Grant, OneOnGpu, LockPCs, TypeOK, IInv, ExclusiveUse, WaitPCs,
        CreatePCs, GrantPCs, At, SlotOf, Slots, memory, bounds, Outranked
  <2>2. CASE SetOut(u, SlotOf(u, k))
    BY <1>a, <2>2
    DEF SetOut, Grant, OneOnGpu, LockPCs, TypeOK, IInv, ExclusiveUse, WaitPCs, CreatePCs,
        GrantPCs, At, SlotOf, Slots, memory, bounds, Outranked
  <2>3. CASE Sleep(u, SlotOf(u, k))
    BY <1>a, <2>3
    DEF Sleep, Grant, OneOnGpu, LockPCs, TypeOK, IInv, ExclusiveUse, WaitPCs, CreatePCs,
        GrantPCs, At, SlotOf, Slots, memory, bounds, Outranked
  <2> QED
    BY <2>1, <2>2, <2>3 DEF Grant, TakeTurn
<1>4. WaitersCounted'
  <2>1. CASE TakeSession(u, SlotOf(u, k))
    BY <1>a, <2>1
    DEF TakeSession, Grant, WaitersCounted, TypeOK, IInv, ExclusiveUse, WaitPCs, CreatePCs,
        GrantPCs, At, SlotOf, Slots, memory, bounds, Outranked
  <2>2. CASE SetOut(u, SlotOf(u, k))
    BY <1>a, <2>2
    DEF SetOut, Grant, WaitersCounted, TypeOK, IInv, ExclusiveUse, WaitPCs, CreatePCs,
        GrantPCs, At, SlotOf, Slots, memory, bounds, Outranked
  <2>3. CASE Sleep(u, SlotOf(u, k))
    BY <1>a, <2>3
    DEF Sleep, Grant, WaitersCounted, TypeOK, IInv, ExclusiveUse, WaitPCs, CreatePCs,
        GrantPCs, At, SlotOf, Slots, memory, bounds, Outranked
  <2> QED
    BY <2>1, <2>2, <2>3 DEF Grant, TakeTurn
<1>5. NoLostWakeup'
  <2>1. CASE TakeSession(u, SlotOf(u, k))
    BY <1>a, <2>1
    DEF TakeSession, Grant, NoLostWakeup, WaitersCounted, Outranked, TypeOK, IInv,
        ExclusiveUse, WaitPCs, CreatePCs, GrantPCs, At, SlotOf, Slots, memory, bounds
  <2>2. CASE SetOut(u, SlotOf(u, k))
    BY <1>a, <2>2
    DEF SetOut, Grant, NoLostWakeup, WaitersCounted, Outranked, TypeOK, IInv, ExclusiveUse,
        WaitPCs, CreatePCs, GrantPCs, At, SlotOf, Slots, memory, bounds
  <2>3. CASE Sleep(u, SlotOf(u, k))
    <3> SUFFICES ASSUME NEW v \in Users, pc'[v] = "asleep",
                        slot'[At(v)'] \in {"empty", "idle"}
                 PROVE  \/ Outranked(v, At(v))'
                        \/ \E w \in Users : ProcessOf[w] = ProcessOf[v] /\ pc'[w] = "notify"
      BY DEF NoLostWakeup
    <3>1. slot' = slot /\ \A r \in Slots : waiting[r] \subseteq waiting'[r]
      BY <2>3 DEF Sleep, TypeOK
    <3>2. CASE v = u
      <4>1. At(u)' = SlotOf(u, k) /\ SlotOf(u, k) \in Slots
        BY <1>a, SlotOfType DEF Grant, At, SlotOf, TypeOK
      <4>2. Outranked(u, SlotOf(u, k))
        BY <2>3, <3>1, <3>2, <4>1 DEF Sleep
      <4> QED
        BY <3>1, <3>2, <4>1, <4>2 DEF Outranked
    <3>3. CASE v # u
      <4>1. pc[v] = "asleep" /\ At(v)' = At(v)
        BY <2>3, <3>3 DEF Sleep, Grant, TypeOK, At, SlotOf
      <4>2. CASE Outranked(v, At(v))
        BY <1>a, <3>1, <4>1, <4>2 DEF Outranked
      <4>3. CASE \E w \in Users : ProcessOf[w] = ProcessOf[v] /\ pc[w] = "notify"
        BY <2>3, <4>3 DEF Sleep, Grant, TypeOK
      <4> QED
        BY <3>1, <4>1, <4>2, <4>3 DEF IInv, NoLostWakeup
    <3> QED
      BY <3>2, <3>3
  <2> QED
    BY <2>1, <2>2, <2>3 DEF Grant, TakeTurn
<1>6. OvertakenAtMostOnce'
  <2>1. CASE TakeSession(u, SlotOf(u, k))
    BY <1>a, <2>1
    DEF TakeSession, Grant, OvertakenAtMostOnce, NotOvertakenBefore, WaitersCounted,
        LowerTurn, HasTurn, TypeOK, IInv, ExclusiveUse, WaitPCs, CreatePCs, GrantPCs, At,
        SlotOf, Slots, memory, bounds, Outranked
  <2>2. CASE SetOut(u, SlotOf(u, k))
    BY <1>a, <2>2
    DEF SetOut, Grant, OvertakenAtMostOnce, NotOvertakenBefore, WaitersCounted, LowerTurn,
        HasTurn, TypeOK, IInv, ExclusiveUse, WaitPCs, CreatePCs, GrantPCs, At, SlotOf,
        Slots, memory, bounds, Outranked
  <2>3. CASE Sleep(u, SlotOf(u, k))
    BY <1>a, <2>3
    DEF Sleep, Grant, OvertakenAtMostOnce, NotOvertakenBefore, WaitersCounted, LowerTurn,
        HasTurn, TypeOK, IInv, ExclusiveUse, WaitPCs, CreatePCs, GrantPCs, At, SlotOf,
        Slots, memory, bounds, Outranked
  <2> QED
    BY <2>1, <2>2, <2>3 DEF Grant, TakeTurn
<1>7. NotOvertakenBefore'
  <2>1. CASE TakeSession(u, SlotOf(u, k))
    BY <1>a, <2>1
    DEF TakeSession, Grant, NotOvertakenBefore, WaitersCounted, TurnShown, OneTurn,
        OvertakenAtMostOnce, LowerTurn, HasTurn, TypeOK, IInv, ExclusiveUse, WaitPCs,
        CreatePCs, GrantPCs, At, SlotOf, Slots, memory, bounds, Outranked
  <2>2. CASE SetOut(u, SlotOf(u, k))
    BY <1>a, <2>2
    DEF SetOut, Grant, NotOvertakenBefore, WaitersCounted, TurnShown, OneTurn,
        OvertakenAtMostOnce, LowerTurn, HasTurn, TypeOK, IInv, ExclusiveUse, WaitPCs,
        CreatePCs, GrantPCs, At, SlotOf, Slots, memory, bounds, Outranked
  <2>3. CASE Sleep(u, SlotOf(u, k))
    BY <1>a, <2>3
    DEF Sleep, Grant, NotOvertakenBefore, WaitersCounted, TurnShown, OneTurn,
        OvertakenAtMostOnce, LowerTurn, HasTurn, TypeOK, IInv, ExclusiveUse, WaitPCs,
        CreatePCs, GrantPCs, At, SlotOf, Slots, memory, bounds, Outranked
  <2> QED
    BY <2>1, <2>2, <2>3 DEF Grant, TakeTurn
<1> QED
  BY <1>1, <1>2, <1>3, <1>4, <1>5, <1>6, <1>7 DEF IInv, ExclusiveUse

\* Wake keeps the invariant.
LEMMA WakeInv ==
  ASSUME TypeOK, IInv, NEW u \in Users, Wake(u)
  PROVE  IInv'
<1> USE UsersAssumption
<1>a. ASSUME NEW v \in Users PROVE At(v) \in Slots /\ At(v)[1] = ProcessOf[v]
  BY SlotOfType DEF At, TypeOK
<1>1. TurnShown'
  <2>1. CASE TakeSession(u, At(u))
    BY <1>a, <2>1
    DEF TakeSession, Wake, TurnShown, OneTurn, HasTurn, TypeOK, IInv, ExclusiveUse, WaitPCs,
        CreatePCs, GrantPCs, At, SlotOf, Slots, memory, bounds, Outranked
  <2>2. CASE SetOut(u, At(u))
    BY <1>a, <2>2
    DEF SetOut, Wake, TurnShown, OneTurn, HasTurn, TypeOK, IInv, ExclusiveUse, WaitPCs,
        CreatePCs, GrantPCs, At, SlotOf, Slots, memory, bounds, Outranked
  <2>3. CASE Sleep(u, At(u))
    BY <1>a, <2>3
    DEF Sleep, Wake, TurnShown, OneTurn, HasTurn, TypeOK, IInv, ExclusiveUse, WaitPCs,
        CreatePCs, GrantPCs, At, SlotOf, Slots, memory, bounds, Outranked
  <2> QED
    BY <2>1, <2>2, <2>3 DEF Wake, TakeTurn
<1>2. OneTurn'
  <2>1. CASE TakeSession(u, At(u))
    BY <1>a, <2>1, SMTT(60)
    DEF TakeSession, Wake, TurnShown, OneTurn, HasTurn, TypeOK, IInv, ExclusiveUse, WaitPCs,
        CreatePCs, GrantPCs, At, SlotOf, Slots, memory, bounds, Outranked
  <2>2. CASE SetOut(u, At(u))
    BY <1>a, <2>2, SMTT(60)
    DEF SetOut, Wake, TurnShown, OneTurn, HasTurn, TypeOK, IInv, ExclusiveUse, WaitPCs,
        CreatePCs, GrantPCs, At, SlotOf, Slots, memory, bounds, Outranked
  <2>3. CASE Sleep(u, At(u))
    BY <1>a, <2>3
    DEF Sleep, Wake, TurnShown, OneTurn, HasTurn, TypeOK, IInv, ExclusiveUse, WaitPCs,
        CreatePCs, GrantPCs, At, SlotOf, Slots, memory, bounds, Outranked
  <2> QED
    BY <2>1, <2>2, <2>3 DEF Wake, TakeTurn
<1>3. OneOnGpu'
  <2>1. CASE TakeSession(u, At(u))
    BY <1>a, <2>1
    DEF TakeSession, Wake, OneOnGpu, LockPCs, TypeOK, IInv, ExclusiveUse, WaitPCs,
        CreatePCs, GrantPCs, At, SlotOf, Slots, memory, bounds, Outranked
  <2>2. CASE SetOut(u, At(u))
    BY <1>a, <2>2
    DEF SetOut, Wake, OneOnGpu, LockPCs, TypeOK, IInv, ExclusiveUse, WaitPCs, CreatePCs,
        GrantPCs, At, SlotOf, Slots, memory, bounds, Outranked
  <2>3. CASE Sleep(u, At(u))
    BY <1>a, <2>3
    DEF Sleep, Wake, OneOnGpu, LockPCs, TypeOK, IInv, ExclusiveUse, WaitPCs, CreatePCs,
        GrantPCs, At, SlotOf, Slots, memory, bounds, Outranked
  <2> QED
    BY <2>1, <2>2, <2>3 DEF Wake, TakeTurn
<1>4. WaitersCounted'
  <2>1. CASE TakeSession(u, At(u))
    BY <1>a, <2>1
    DEF TakeSession, Wake, WaitersCounted, TypeOK, IInv, ExclusiveUse, WaitPCs, CreatePCs,
        GrantPCs, At, SlotOf, Slots, memory, bounds, Outranked
  <2>2. CASE SetOut(u, At(u))
    BY <1>a, <2>2
    DEF SetOut, Wake, WaitersCounted, TypeOK, IInv, ExclusiveUse, WaitPCs, CreatePCs,
        GrantPCs, At, SlotOf, Slots, memory, bounds, Outranked
  <2>3. CASE Sleep(u, At(u))
    BY <1>a, <2>3
    DEF Sleep, Wake, WaitersCounted, TypeOK, IInv, ExclusiveUse, WaitPCs, CreatePCs,
        GrantPCs, At, SlotOf, Slots, memory, bounds, Outranked
  <2> QED
    BY <2>1, <2>2, <2>3 DEF Wake, TakeTurn
<1>5. NoLostWakeup'
  <2>1. CASE TakeSession(u, At(u))
    BY <1>a, <2>1
    DEF TakeSession, Wake, NoLostWakeup, WaitersCounted, Outranked, TypeOK, IInv,
        ExclusiveUse, WaitPCs, CreatePCs, GrantPCs, At, SlotOf, Slots, memory, bounds
  <2>2. CASE SetOut(u, At(u))
    BY <1>a, <2>2
    DEF SetOut, Wake, NoLostWakeup, WaitersCounted, Outranked, TypeOK, IInv, ExclusiveUse,
        WaitPCs, CreatePCs, GrantPCs, At, SlotOf, Slots, memory, bounds
  <2>3. CASE Sleep(u, At(u))
    <3> SUFFICES ASSUME NEW v \in Users, pc'[v] = "asleep",
                        slot'[At(v)'] \in {"empty", "idle"}
                 PROVE  \/ Outranked(v, At(v))'
                        \/ \E w \in Users : ProcessOf[w] = ProcessOf[v] /\ pc'[w] = "notify"
      BY DEF NoLostWakeup
    <3>1. slot' = slot /\ \A r \in Slots : waiting[r] \subseteq waiting'[r]
      BY <2>3 DEF Sleep, TypeOK
    <3>2. CASE v = u
      <4>1. At(u)' = At(u) /\ At(u) \in Slots
        BY <1>a, SlotOfType DEF Wake, At, SlotOf, TypeOK
      <4>2. Outranked(u, At(u))
        BY <2>3, <3>1, <3>2, <4>1 DEF Sleep
      <4> QED
        BY <3>1, <3>2, <4>1, <4>2 DEF Outranked
    <3>3. CASE v # u
      <4>1. pc[v] = "asleep" /\ At(v)' = At(v)
        BY <2>3, <3>3 DEF Sleep, Wake, TypeOK, At, SlotOf
      <4>2. CASE Outranked(v, At(v))
        BY <1>a, <3>1, <4>1, <4>2 DEF Outranked
      <4>3. CASE \E w \in Users : ProcessOf[w] = ProcessOf[v] /\ pc[w] = "notify"
        BY <2>3, <4>3 DEF Sleep, Wake, TypeOK
      <4> QED
        BY <3>1, <4>1, <4>2, <4>3 DEF IInv, NoLostWakeup
    <3> QED
      BY <3>2, <3>3
  <2> QED
    BY <2>1, <2>2, <2>3 DEF Wake, TakeTurn
<1>6. OvertakenAtMostOnce'
  <2>1. CASE TakeSession(u, At(u))
    BY <1>a, <2>1
    DEF TakeSession, Wake, OvertakenAtMostOnce, NotOvertakenBefore, WaitersCounted,
        LowerTurn, HasTurn, TypeOK, IInv, ExclusiveUse, WaitPCs, CreatePCs, GrantPCs, At,
        SlotOf, Slots, memory, bounds, Outranked
  <2>2. CASE SetOut(u, At(u))
    BY <1>a, <2>2
    DEF SetOut, Wake, OvertakenAtMostOnce, NotOvertakenBefore, WaitersCounted, LowerTurn,
        HasTurn, TypeOK, IInv, ExclusiveUse, WaitPCs, CreatePCs, GrantPCs, At, SlotOf,
        Slots, memory, bounds, Outranked
  <2>3. CASE Sleep(u, At(u))
    BY <1>a, <2>3
    DEF Sleep, Wake, OvertakenAtMostOnce, NotOvertakenBefore, WaitersCounted, LowerTurn,
        HasTurn, TypeOK, IInv, ExclusiveUse, WaitPCs, CreatePCs, GrantPCs, At, SlotOf,
        Slots, memory, bounds, Outranked
  <2> QED
    BY <2>1, <2>2, <2>3 DEF Wake, TakeTurn
<1>7. NotOvertakenBefore'
  <2>1. CASE TakeSession(u, At(u))
    BY <1>a, <2>1
    DEF TakeSession, Wake, NotOvertakenBefore, WaitersCounted, TurnShown, OneTurn,
        OvertakenAtMostOnce, LowerTurn, HasTurn, TypeOK, IInv, ExclusiveUse, WaitPCs,
        CreatePCs, GrantPCs, At, SlotOf, Slots, memory, bounds, Outranked
  <2>2. CASE SetOut(u, At(u))
    BY <1>a, <2>2
    DEF SetOut, Wake, NotOvertakenBefore, WaitersCounted, TurnShown, OneTurn,
        OvertakenAtMostOnce, LowerTurn, HasTurn, TypeOK, IInv, ExclusiveUse, WaitPCs,
        CreatePCs, GrantPCs, At, SlotOf, Slots, memory, bounds, Outranked
  <2>3. CASE Sleep(u, At(u))
    BY <1>a, <2>3
    DEF Sleep, Wake, NotOvertakenBefore, WaitersCounted, TurnShown, OneTurn,
        OvertakenAtMostOnce, LowerTurn, HasTurn, TypeOK, IInv, ExclusiveUse, WaitPCs,
        CreatePCs, GrantPCs, At, SlotOf, Slots, memory, bounds, Outranked
  <2> QED
    BY <2>1, <2>2, <2>3 DEF Wake, TakeTurn
<1> QED
  BY <1>1, <1>2, <1>3, <1>4, <1>5, <1>6, <1>7 DEF IInv, ExclusiveUse

\* Ensure keeps the invariant.
LEMMA EnsureInv ==
  ASSUME TypeOK, IInv, NEW u \in Users, NEW k \in Backends, Ensure(u, k)
  PROVE  IInv'
<1> USE UsersAssumption
<1>a. ASSUME NEW v \in Users PROVE At(v) \in Slots /\ At(v)[1] = ProcessOf[v]
  BY SlotOfType DEF At, TypeOK
<1>1. TurnShown'
  BY <1>a
  DEF Ensure, TurnShown, OneTurn, HasTurn, TypeOK, IInv, ExclusiveUse, WaitPCs, CreatePCs,
      GrantPCs, At, SlotOf, Slots, memory, bounds
<1>2. OneTurn'
  BY <1>a
  DEF Ensure, TurnShown, OneTurn, HasTurn, TypeOK, IInv, ExclusiveUse, WaitPCs, CreatePCs,
      GrantPCs, At, SlotOf, Slots, memory, bounds
<1>3. OneOnGpu'
  BY <1>a
  DEF Ensure, OneOnGpu, LockPCs, TypeOK, IInv, ExclusiveUse, WaitPCs, CreatePCs, GrantPCs,
      At, SlotOf, Slots, memory, bounds
<1>4. WaitersCounted'
  BY <1>a
  DEF Ensure, WaitersCounted, TypeOK, IInv, ExclusiveUse, WaitPCs, CreatePCs, GrantPCs, At,
      SlotOf, Slots, memory, bounds
<1>5. NoLostWakeup'
  BY <1>a
  DEF Ensure, NoLostWakeup, WaitersCounted, Outranked, TypeOK, IInv, ExclusiveUse, WaitPCs,
      CreatePCs, GrantPCs, At, SlotOf, Slots, memory, bounds
<1>6. OvertakenAtMostOnce'
  BY <1>a
  DEF Ensure, OvertakenAtMostOnce, NotOvertakenBefore, WaitersCounted, LowerTurn, HasTurn,
      TypeOK, IInv, ExclusiveUse, WaitPCs, CreatePCs, GrantPCs, At, SlotOf, Slots, memory,
      bounds
<1>7. NotOvertakenBefore'
  BY <1>a
  DEF Ensure, NotOvertakenBefore, WaitersCounted, TurnShown, OneTurn, OvertakenAtMostOnce,
      LowerTurn, HasTurn, TypeOK, IInv, ExclusiveUse, WaitPCs, CreatePCs, GrantPCs, At,
      SlotOf, Slots, memory, bounds
<1> QED
  BY <1>1, <1>2, <1>3, <1>4, <1>5, <1>6, <1>7 DEF IInv, ExclusiveUse

\* TakeLock keeps the invariant.
LEMMA TakeLockInv ==
  ASSUME TypeOK, IInv, NEW u \in Users, TakeLock(u)
  PROVE  IInv'
<1> USE UsersAssumption
<1>a. ASSUME NEW v \in Users PROVE At(v) \in Slots /\ At(v)[1] = ProcessOf[v]
  BY SlotOfType DEF At, TypeOK
<1>1. TurnShown'
  BY <1>a
  DEF TakeLock, TurnShown, OneTurn, HasTurn, TypeOK, IInv, ExclusiveUse, WaitPCs, CreatePCs,
      GrantPCs, At, SlotOf, Slots, memory, bounds
<1>2. OneTurn'
  BY <1>a
  DEF TakeLock, TurnShown, OneTurn, HasTurn, TypeOK, IInv, ExclusiveUse, WaitPCs, CreatePCs,
      GrantPCs, At, SlotOf, Slots, memory, bounds
<1>3. OneOnGpu'
  BY <1>a
  DEF TakeLock, OneOnGpu, LockPCs, TypeOK, IInv, ExclusiveUse, WaitPCs, CreatePCs, GrantPCs,
      At, SlotOf, Slots, memory, bounds
<1>4. WaitersCounted'
  BY <1>a
  DEF TakeLock, WaitersCounted, TypeOK, IInv, ExclusiveUse, WaitPCs, CreatePCs, GrantPCs,
      At, SlotOf, Slots, memory, bounds
<1>5. NoLostWakeup'
  BY <1>a
  DEF TakeLock, NoLostWakeup, WaitersCounted, Outranked, TypeOK, IInv, ExclusiveUse,
      WaitPCs, CreatePCs, GrantPCs, At, SlotOf, Slots, memory, bounds
<1>6. OvertakenAtMostOnce'
  BY <1>a
  DEF TakeLock, OvertakenAtMostOnce, NotOvertakenBefore, WaitersCounted, LowerTurn, HasTurn,
      TypeOK, IInv, ExclusiveUse, WaitPCs, CreatePCs, GrantPCs, At, SlotOf, Slots, memory,
      bounds
<1>7. NotOvertakenBefore'
  BY <1>a
  DEF TakeLock, NotOvertakenBefore, WaitersCounted, TurnShown, OneTurn, OvertakenAtMostOnce,
      LowerTurn, HasTurn, TypeOK, IInv, ExclusiveUse, WaitPCs, CreatePCs, GrantPCs, At,
      SlotOf, Slots, memory, bounds
<1> QED
  BY <1>1, <1>2, <1>3, <1>4, <1>5, <1>6, <1>7 DEF IInv, ExclusiveUse

\* LockTimeout keeps the invariant.
LEMMA LockTimeoutInv ==
  ASSUME TypeOK, IInv, NEW u \in Users, LockTimeout(u)
  PROVE  IInv'
<1> USE UsersAssumption
<1>a. ASSUME NEW v \in Users PROVE At(v) \in Slots /\ At(v)[1] = ProcessOf[v]
  BY SlotOfType DEF At, TypeOK
<1>1. TurnShown'
  BY <1>a
  DEF LockTimeout, TurnShown, OneTurn, HasTurn, TypeOK, IInv, ExclusiveUse, WaitPCs,
      CreatePCs, GrantPCs, At, SlotOf, Slots, memory, bounds
<1>2. OneTurn'
  BY <1>a
  DEF LockTimeout, TurnShown, OneTurn, HasTurn, TypeOK, IInv, ExclusiveUse, WaitPCs,
      CreatePCs, GrantPCs, At, SlotOf, Slots, memory, bounds
<1>3. OneOnGpu'
  BY <1>a
  DEF LockTimeout, OneOnGpu, LockPCs, TypeOK, IInv, ExclusiveUse, WaitPCs, CreatePCs,
      GrantPCs, At, SlotOf, Slots, memory, bounds
<1>4. WaitersCounted'
  BY <1>a
  DEF LockTimeout, WaitersCounted, TypeOK, IInv, ExclusiveUse, WaitPCs, CreatePCs, GrantPCs,
      At, SlotOf, Slots, memory, bounds
<1>5. NoLostWakeup'
  BY <1>a
  DEF LockTimeout, NoLostWakeup, WaitersCounted, Outranked, TypeOK, IInv, ExclusiveUse,
      WaitPCs, CreatePCs, GrantPCs, At, SlotOf, Slots, memory, bounds
<1>6. OvertakenAtMostOnce'
  BY <1>a
  DEF LockTimeout, OvertakenAtMostOnce, NotOvertakenBefore, WaitersCounted, LowerTurn,
      HasTurn, TypeOK, IInv, ExclusiveUse, WaitPCs, CreatePCs, GrantPCs, At, SlotOf, Slots,
      memory, bounds
<1>7. NotOvertakenBefore'
  BY <1>a
  DEF LockTimeout, NotOvertakenBefore, WaitersCounted, TurnShown, OneTurn,
      OvertakenAtMostOnce, LowerTurn, HasTurn, TypeOK, IInv, ExclusiveUse, WaitPCs,
      CreatePCs, GrantPCs, At, SlotOf, Slots, memory, bounds
<1> QED
  BY <1>1, <1>2, <1>3, <1>4, <1>5, <1>6, <1>7 DEF IInv, ExclusiveUse

\* Admit keeps the invariant.
LEMMA AdmitInv ==
  ASSUME TypeOK, IInv, NEW u \in Users, Admit(u)
  PROVE  IInv'
<1> USE UsersAssumption
<1>a. ASSUME NEW v \in Users PROVE At(v) \in Slots /\ At(v)[1] = ProcessOf[v]
  BY SlotOfType DEF At, TypeOK
<1>1. TurnShown'
  BY <1>a
  DEF Admit, TurnShown, OneTurn, HasTurn, TypeOK, IInv, ExclusiveUse, WaitPCs, CreatePCs,
      GrantPCs, At, SlotOf, Slots, memory, bounds
<1>2. OneTurn'
  BY <1>a
  DEF Admit, TurnShown, OneTurn, HasTurn, TypeOK, IInv, ExclusiveUse, WaitPCs, CreatePCs,
      GrantPCs, At, SlotOf, Slots, memory, bounds
<1>3. OneOnGpu'
  BY <1>a
  DEF Admit, OneOnGpu, LockPCs, TypeOK, IInv, ExclusiveUse, WaitPCs, CreatePCs, GrantPCs,
      At, SlotOf, Slots, memory, bounds
<1>4. WaitersCounted'
  BY <1>a
  DEF Admit, WaitersCounted, TypeOK, IInv, ExclusiveUse, WaitPCs, CreatePCs, GrantPCs, At,
      SlotOf, Slots, memory, bounds
<1>5. NoLostWakeup'
  BY <1>a
  DEF Admit, NoLostWakeup, WaitersCounted, Outranked, TypeOK, IInv, ExclusiveUse, WaitPCs,
      CreatePCs, GrantPCs, At, SlotOf, Slots, memory, bounds
<1>6. OvertakenAtMostOnce'
  BY <1>a
  DEF Admit, OvertakenAtMostOnce, NotOvertakenBefore, WaitersCounted, LowerTurn, HasTurn,
      TypeOK, IInv, ExclusiveUse, WaitPCs, CreatePCs, GrantPCs, At, SlotOf, Slots, memory,
      bounds
<1>7. NotOvertakenBefore'
  BY <1>a
  DEF Admit, NotOvertakenBefore, WaitersCounted, TurnShown, OneTurn, OvertakenAtMostOnce,
      LowerTurn, HasTurn, TypeOK, IInv, ExclusiveUse, WaitPCs, CreatePCs, GrantPCs, At,
      SlotOf, Slots, memory, bounds
<1> QED
  BY <1>1, <1>2, <1>3, <1>4, <1>5, <1>6, <1>7 DEF IInv, ExclusiveUse

\* Refuse keeps the invariant.
LEMMA RefuseInv ==
  ASSUME TypeOK, IInv, NEW u \in Users, Refuse(u)
  PROVE  IInv'
<1> USE UsersAssumption
<1>a. ASSUME NEW v \in Users PROVE At(v) \in Slots /\ At(v)[1] = ProcessOf[v]
  BY SlotOfType DEF At, TypeOK
<1>1. TurnShown'
  BY <1>a
  DEF Refuse, TurnShown, OneTurn, HasTurn, TypeOK, IInv, ExclusiveUse, WaitPCs, CreatePCs,
      GrantPCs, At, SlotOf, Slots, memory, bounds
<1>2. OneTurn'
  BY <1>a
  DEF Refuse, TurnShown, OneTurn, HasTurn, TypeOK, IInv, ExclusiveUse, WaitPCs, CreatePCs,
      GrantPCs, At, SlotOf, Slots, memory, bounds
<1>3. OneOnGpu'
  BY <1>a
  DEF Refuse, OneOnGpu, LockPCs, TypeOK, IInv, ExclusiveUse, WaitPCs, CreatePCs, GrantPCs,
      At, SlotOf, Slots, memory, bounds
<1>4. WaitersCounted'
  BY <1>a
  DEF Refuse, WaitersCounted, TypeOK, IInv, ExclusiveUse, WaitPCs, CreatePCs, GrantPCs, At,
      SlotOf, Slots, memory, bounds
<1>5. NoLostWakeup'
  BY <1>a
  DEF Refuse, NoLostWakeup, WaitersCounted, Outranked, TypeOK, IInv, ExclusiveUse, WaitPCs,
      CreatePCs, GrantPCs, At, SlotOf, Slots, memory, bounds
<1>6. OvertakenAtMostOnce'
  BY <1>a
  DEF Refuse, OvertakenAtMostOnce, NotOvertakenBefore, WaitersCounted, LowerTurn, HasTurn,
      TypeOK, IInv, ExclusiveUse, WaitPCs, CreatePCs, GrantPCs, At, SlotOf, Slots, memory,
      bounds
<1>7. NotOvertakenBefore'
  BY <1>a
  DEF Refuse, NotOvertakenBefore, WaitersCounted, TurnShown, OneTurn, OvertakenAtMostOnce,
      LowerTurn, HasTurn, TypeOK, IInv, ExclusiveUse, WaitPCs, CreatePCs, GrantPCs, At,
      SlotOf, Slots, memory, bounds
<1> QED
  BY <1>1, <1>2, <1>3, <1>4, <1>5, <1>6, <1>7 DEF IInv, ExclusiveUse

\* LoadFails keeps the invariant.
LEMMA LoadFailsInv ==
  ASSUME TypeOK, IInv, NEW u \in Users, LoadFails(u)
  PROVE  IInv'
<1> USE UsersAssumption
<1>a. ASSUME NEW v \in Users PROVE At(v) \in Slots /\ At(v)[1] = ProcessOf[v]
  BY SlotOfType DEF At, TypeOK
<1>1. TurnShown'
  BY <1>a
  DEF LoadFails, TurnShown, OneTurn, HasTurn, TypeOK, IInv, ExclusiveUse, WaitPCs,
      CreatePCs, GrantPCs, At, SlotOf, Slots, memory, bounds
<1>2. OneTurn'
  BY <1>a
  DEF LoadFails, TurnShown, OneTurn, HasTurn, TypeOK, IInv, ExclusiveUse, WaitPCs,
      CreatePCs, GrantPCs, At, SlotOf, Slots, memory, bounds
<1>3. OneOnGpu'
  BY <1>a
  DEF LoadFails, OneOnGpu, LockPCs, TypeOK, IInv, ExclusiveUse, WaitPCs, CreatePCs,
      GrantPCs, At, SlotOf, Slots, memory, bounds
<1>4. WaitersCounted'
  BY <1>a
  DEF LoadFails, WaitersCounted, TypeOK, IInv, ExclusiveUse, WaitPCs, CreatePCs, GrantPCs,
      At, SlotOf, Slots, memory, bounds
<1>5. NoLostWakeup'
  BY <1>a
  DEF LoadFails, NoLostWakeup, WaitersCounted, Outranked, TypeOK, IInv, ExclusiveUse,
      WaitPCs, CreatePCs, GrantPCs, At, SlotOf, Slots, memory, bounds
<1>6. OvertakenAtMostOnce'
  BY <1>a
  DEF LoadFails, OvertakenAtMostOnce, NotOvertakenBefore, WaitersCounted, LowerTurn,
      HasTurn, TypeOK, IInv, ExclusiveUse, WaitPCs, CreatePCs, GrantPCs, At, SlotOf, Slots,
      memory, bounds
<1>7. NotOvertakenBefore'
  BY <1>a
  DEF LoadFails, NotOvertakenBefore, WaitersCounted, TurnShown, OneTurn,
      OvertakenAtMostOnce, LowerTurn, HasTurn, TypeOK, IInv, ExclusiveUse, WaitPCs,
      CreatePCs, GrantPCs, At, SlotOf, Slots, memory, bounds
<1> QED
  BY <1>1, <1>2, <1>3, <1>4, <1>5, <1>6, <1>7 DEF IInv, ExclusiveUse

\* WarmedUp keeps the invariant.
LEMMA WarmedUpInv ==
  ASSUME TypeOK, IInv, NEW u \in Users, WarmedUp(u)
  PROVE  IInv'
<1> USE UsersAssumption
<1>a. ASSUME NEW v \in Users PROVE At(v) \in Slots /\ At(v)[1] = ProcessOf[v]
  BY SlotOfType DEF At, TypeOK
<1>1. TurnShown'
  BY <1>a
  DEF WarmedUp, TurnShown, OneTurn, HasTurn, TypeOK, IInv, ExclusiveUse, WaitPCs, CreatePCs,
      GrantPCs, At, SlotOf, Slots, memory, bounds
<1>2. OneTurn'
  BY <1>a
  DEF WarmedUp, TurnShown, OneTurn, HasTurn, TypeOK, IInv, ExclusiveUse, WaitPCs, CreatePCs,
      GrantPCs, At, SlotOf, Slots, memory, bounds
<1>3. OneOnGpu'
  BY <1>a
  DEF WarmedUp, OneOnGpu, LockPCs, TypeOK, IInv, ExclusiveUse, WaitPCs, CreatePCs, GrantPCs,
      At, SlotOf, Slots, memory, bounds
<1>4. WaitersCounted'
  BY <1>a
  DEF WarmedUp, WaitersCounted, TypeOK, IInv, ExclusiveUse, WaitPCs, CreatePCs, GrantPCs,
      At, SlotOf, Slots, memory, bounds
<1>5. NoLostWakeup'
  BY <1>a
  DEF WarmedUp, NoLostWakeup, WaitersCounted, Outranked, TypeOK, IInv, ExclusiveUse,
      WaitPCs, CreatePCs, GrantPCs, At, SlotOf, Slots, memory, bounds
<1>6. OvertakenAtMostOnce'
  BY <1>a
  DEF WarmedUp, OvertakenAtMostOnce, NotOvertakenBefore, WaitersCounted, LowerTurn, HasTurn,
      TypeOK, IInv, ExclusiveUse, WaitPCs, CreatePCs, GrantPCs, At, SlotOf, Slots, memory,
      bounds
<1>7. NotOvertakenBefore'
  BY <1>a
  DEF WarmedUp, NotOvertakenBefore, WaitersCounted, TurnShown, OneTurn, OvertakenAtMostOnce,
      LowerTurn, HasTurn, TypeOK, IInv, ExclusiveUse, WaitPCs, CreatePCs, GrantPCs, At,
      SlotOf, Slots, memory, bounds
<1> QED
  BY <1>1, <1>2, <1>3, <1>4, <1>5, <1>6, <1>7 DEF IInv, ExclusiveUse

\* HandOver keeps the invariant.
LEMMA HandOverInv ==
  ASSUME TypeOK, IInv, NEW u \in Users, HandOver(u)
  PROVE  IInv'
<1> USE UsersAssumption
<1>a. ASSUME NEW v \in Users PROVE At(v) \in Slots /\ At(v)[1] = ProcessOf[v]
  BY SlotOfType DEF At, TypeOK
<1>1. TurnShown'
  BY <1>a
  DEF HandOver, TurnShown, OneTurn, HasTurn, TypeOK, IInv, ExclusiveUse, WaitPCs, CreatePCs,
      GrantPCs, At, SlotOf, Slots, memory, bounds
<1>2. OneTurn'
  BY <1>a
  DEF HandOver, TurnShown, OneTurn, HasTurn, TypeOK, IInv, ExclusiveUse, WaitPCs, CreatePCs,
      GrantPCs, At, SlotOf, Slots, memory, bounds
<1>3. OneOnGpu'
  BY <1>a
  DEF HandOver, OneOnGpu, LockPCs, TypeOK, IInv, ExclusiveUse, WaitPCs, CreatePCs, GrantPCs,
      At, SlotOf, Slots, memory, bounds
<1>4. WaitersCounted'
  BY <1>a
  DEF HandOver, WaitersCounted, TypeOK, IInv, ExclusiveUse, WaitPCs, CreatePCs, GrantPCs,
      At, SlotOf, Slots, memory, bounds
<1>5. NoLostWakeup'
  BY <1>a
  DEF HandOver, NoLostWakeup, WaitersCounted, Outranked, TypeOK, IInv, ExclusiveUse,
      WaitPCs, CreatePCs, GrantPCs, At, SlotOf, Slots, memory, bounds
<1>6. OvertakenAtMostOnce'
  BY <1>a
  DEF HandOver, OvertakenAtMostOnce, NotOvertakenBefore, WaitersCounted, LowerTurn, HasTurn,
      TypeOK, IInv, ExclusiveUse, WaitPCs, CreatePCs, GrantPCs, At, SlotOf, Slots, memory,
      bounds
<1>7. NotOvertakenBefore'
  BY <1>a
  DEF HandOver, NotOvertakenBefore, WaitersCounted, TurnShown, OneTurn, OvertakenAtMostOnce,
      LowerTurn, HasTurn, TypeOK, IInv, ExclusiveUse, WaitPCs, CreatePCs, GrantPCs, At,
      SlotOf, Slots, memory, bounds
<1> QED
  BY <1>1, <1>2, <1>3, <1>4, <1>5, <1>6, <1>7 DEF IInv, ExclusiveUse

\* RunEnds keeps the invariant.
LEMMA RunEndsInv ==
  ASSUME TypeOK, IInv, NEW u \in Users, RunEnds(u)
  PROVE  IInv'
<1> USE UsersAssumption
<1>a. ASSUME NEW v \in Users PROVE At(v) \in Slots /\ At(v)[1] = ProcessOf[v]
  BY SlotOfType DEF At, TypeOK
<1>1. TurnShown'
  BY <1>a
  DEF RunEnds, TurnShown, OneTurn, HasTurn, TypeOK, IInv, ExclusiveUse, WaitPCs, CreatePCs,
      GrantPCs, At, SlotOf, Slots, memory, bounds
<1>2. OneTurn'
  BY <1>a
  DEF RunEnds, TurnShown, OneTurn, HasTurn, TypeOK, IInv, ExclusiveUse, WaitPCs, CreatePCs,
      GrantPCs, At, SlotOf, Slots, memory, bounds
<1>3. OneOnGpu'
  BY <1>a
  DEF RunEnds, OneOnGpu, LockPCs, TypeOK, IInv, ExclusiveUse, WaitPCs, CreatePCs, GrantPCs,
      At, SlotOf, Slots, memory, bounds
<1>4. WaitersCounted'
  BY <1>a
  DEF RunEnds, WaitersCounted, TypeOK, IInv, ExclusiveUse, WaitPCs, CreatePCs, GrantPCs, At,
      SlotOf, Slots, memory, bounds
<1>5. NoLostWakeup'
  <2> SUFFICES ASSUME NEW v \in Users, pc'[v] = "asleep",
                      slot'[At(v)'] \in {"empty", "idle"}
               PROVE  \/ Outranked(v, At(v))'
                      \/ \E w \in Users : ProcessOf[w] = ProcessOf[v] /\ pc'[w] = "notify"
    BY DEF NoLostWakeup
  <2>1. pc[v] = "asleep" /\ At(v)' = At(v) /\ slot' = slot /\ waiting' = waiting
    BY DEF RunEnds, TypeOK, At, SlotOf
  <2>2. CASE Outranked(v, At(v))
    BY <2>1, <2>2 DEF Outranked
  <2>3. CASE \E w \in Users : ProcessOf[w] = ProcessOf[v] /\ pc[w] = "notify"
    BY <2>3 DEF RunEnds, TypeOK
  <2> QED
    BY <2>1, <2>2, <2>3 DEF IInv, NoLostWakeup
<1>6. OvertakenAtMostOnce'
  BY <1>a
  DEF RunEnds, OvertakenAtMostOnce, NotOvertakenBefore, WaitersCounted, LowerTurn, HasTurn,
      TypeOK, IInv, ExclusiveUse, WaitPCs, CreatePCs, GrantPCs, At, SlotOf, Slots, memory,
      bounds
<1>7. NotOvertakenBefore'
  BY <1>a
  DEF RunEnds, NotOvertakenBefore, WaitersCounted, TurnShown, OneTurn, OvertakenAtMostOnce,
      LowerTurn, HasTurn, TypeOK, IInv, ExclusiveUse, WaitPCs, CreatePCs, GrantPCs, At,
      SlotOf, Slots, memory, bounds
<1> QED
  BY <1>1, <1>2, <1>3, <1>4, <1>5, <1>6, <1>7 DEF IInv, ExclusiveUse

\* RunPanics keeps the invariant.
LEMMA RunPanicsInv ==
  ASSUME TypeOK, IInv, NEW u \in Users, RunPanics(u)
  PROVE  IInv'
<1> USE UsersAssumption
<1>a. ASSUME NEW v \in Users PROVE At(v) \in Slots /\ At(v)[1] = ProcessOf[v]
  BY SlotOfType DEF At, TypeOK
<1>1. TurnShown'
  BY <1>a
  DEF RunPanics, TurnShown, OneTurn, HasTurn, TypeOK, IInv, ExclusiveUse, WaitPCs,
      CreatePCs, GrantPCs, At, SlotOf, Slots, memory, bounds
<1>2. OneTurn'
  BY <1>a
  DEF RunPanics, TurnShown, OneTurn, HasTurn, TypeOK, IInv, ExclusiveUse, WaitPCs,
      CreatePCs, GrantPCs, At, SlotOf, Slots, memory, bounds
<1>3. OneOnGpu'
  BY <1>a
  DEF RunPanics, OneOnGpu, LockPCs, TypeOK, IInv, ExclusiveUse, WaitPCs, CreatePCs,
      GrantPCs, At, SlotOf, Slots, memory, bounds
<1>4. WaitersCounted'
  BY <1>a
  DEF RunPanics, WaitersCounted, TypeOK, IInv, ExclusiveUse, WaitPCs, CreatePCs, GrantPCs,
      At, SlotOf, Slots, memory, bounds
<1>5. NoLostWakeup'
  <2> SUFFICES ASSUME NEW v \in Users, pc'[v] = "asleep",
                      slot'[At(v)'] \in {"empty", "idle"}
               PROVE  \/ Outranked(v, At(v))'
                      \/ \E w \in Users : ProcessOf[w] = ProcessOf[v] /\ pc'[w] = "notify"
    BY DEF NoLostWakeup
  <2>1. pc[v] = "asleep" /\ At(v)' = At(v) /\ slot' = slot /\ waiting' = waiting
    BY DEF RunPanics, TypeOK, At, SlotOf
  <2>2. CASE Outranked(v, At(v))
    BY <2>1, <2>2 DEF Outranked
  <2>3. CASE \E w \in Users : ProcessOf[w] = ProcessOf[v] /\ pc[w] = "notify"
    BY <2>3 DEF RunPanics, TypeOK
  <2> QED
    BY <2>1, <2>2, <2>3 DEF IInv, NoLostWakeup
<1>6. OvertakenAtMostOnce'
  BY <1>a
  DEF RunPanics, OvertakenAtMostOnce, NotOvertakenBefore, WaitersCounted, LowerTurn,
      HasTurn, TypeOK, IInv, ExclusiveUse, WaitPCs, CreatePCs, GrantPCs, At, SlotOf, Slots,
      memory, bounds
<1>7. NotOvertakenBefore'
  BY <1>a
  DEF RunPanics, NotOvertakenBefore, WaitersCounted, TurnShown, OneTurn,
      OvertakenAtMostOnce, LowerTurn, HasTurn, TypeOK, IInv, ExclusiveUse, WaitPCs,
      CreatePCs, GrantPCs, At, SlotOf, Slots, memory, bounds
<1> QED
  BY <1>1, <1>2, <1>3, <1>4, <1>5, <1>6, <1>7 DEF IInv, ExclusiveUse

\* GiveBack keeps the invariant.
LEMMA GiveBackInv ==
  ASSUME TypeOK, IInv, NEW u \in Users, GiveBack(u)
  PROVE  IInv'
<1> USE UsersAssumption
<1>a. ASSUME NEW v \in Users PROVE At(v) \in Slots /\ At(v)[1] = ProcessOf[v]
  BY SlotOfType DEF At, TypeOK
<1>1. TurnShown'
  BY <1>a
  DEF GiveBack, TurnEnds, TurnShown, OneTurn, HasTurn, TypeOK, IInv, ExclusiveUse, WaitPCs,
      CreatePCs, GrantPCs, At, SlotOf, Slots, memory, bounds
<1>2. OneTurn'
  BY <1>a
  DEF GiveBack, TurnEnds, TurnShown, OneTurn, HasTurn, TypeOK, IInv, ExclusiveUse, WaitPCs,
      CreatePCs, GrantPCs, At, SlotOf, Slots, memory, bounds
<1>3. OneOnGpu'
  BY <1>a
  DEF GiveBack, TurnEnds, OneOnGpu, LockPCs, TypeOK, IInv, ExclusiveUse, WaitPCs, CreatePCs,
      GrantPCs, At, SlotOf, Slots, memory, bounds
<1>4. WaitersCounted'
  BY <1>a
  DEF GiveBack, TurnEnds, WaitersCounted, TypeOK, IInv, ExclusiveUse, WaitPCs, CreatePCs,
      GrantPCs, At, SlotOf, Slots, memory, bounds
<1>5. NoLostWakeup'
  BY <1>a
  DEF GiveBack, TurnEnds, NoLostWakeup, WaitersCounted, Outranked, TypeOK, IInv,
      ExclusiveUse, WaitPCs, CreatePCs, GrantPCs, At, SlotOf, Slots, memory, bounds
<1>6. OvertakenAtMostOnce'
  <2> SUFFICES ASSUME NEW v \in Users, pc'[v] \in WaitPCs
               PROVE  overtaken'[v] <= 1
    BY DEF OvertakenAtMostOnce
  <2>1. pc[v] \in WaitPCs /\ overtaken[v] \in Nat
    BY DEF GiveBack, TurnEnds, TypeOK, WaitPCs
  <2>2. CASE /\ v \in waiting[At(u)]
             /\ call[u] = "grant"
             /\ Rank(v) < Rank(u)
    <3>1. LowerTurn(v)
      BY <1>a, <2>2
      DEF GiveBack, LowerTurn, HasTurn, IInv, WaitersCounted, CreatePCs, GrantPCs
    <3>2. overtaken[v] = 0
      BY <2>1, <3>1 DEF IInv, NotOvertakenBefore
    <3> QED
      BY <2>2, <3>2 DEF GiveBack, TurnEnds
  <2>3. CASE ~(/\ v \in waiting[At(u)]
               /\ call[u] = "grant"
               /\ Rank(v) < Rank(u))
    BY <2>1, <2>3 DEF GiveBack, TurnEnds, IInv, OvertakenAtMostOnce
  <2> QED
    BY <2>2, <2>3
<1>7. NotOvertakenBefore'
  BY <1>a
  DEF GiveBack, TurnEnds, NotOvertakenBefore, WaitersCounted, TurnShown, OneTurn,
      OvertakenAtMostOnce, LowerTurn, HasTurn, TypeOK, IInv, ExclusiveUse, WaitPCs,
      CreatePCs, GrantPCs, At, SlotOf, Slots, memory, bounds
<1> QED
  BY <1>1, <1>2, <1>3, <1>4, <1>5, <1>6, <1>7 DEF IInv, ExclusiveUse

\* Discard keeps the invariant.
LEMMA DiscardInv ==
  ASSUME TypeOK, IInv, NEW u \in Users, Discard(u)
  PROVE  IInv'
<1> USE UsersAssumption
<1>a. ASSUME NEW v \in Users PROVE At(v) \in Slots /\ At(v)[1] = ProcessOf[v]
  BY SlotOfType DEF At, TypeOK
<1>1. TurnShown'
  BY <1>a
  DEF Discard, TurnEnds, TurnShown, OneTurn, HasTurn, TypeOK, IInv, ExclusiveUse, WaitPCs,
      CreatePCs, GrantPCs, At, SlotOf, Slots, memory, bounds
<1>2. OneTurn'
  BY <1>a
  DEF Discard, TurnEnds, TurnShown, OneTurn, HasTurn, TypeOK, IInv, ExclusiveUse, WaitPCs,
      CreatePCs, GrantPCs, At, SlotOf, Slots, memory, bounds
<1>3. OneOnGpu'
  BY <1>a
  DEF Discard, TurnEnds, OneOnGpu, LockPCs, TypeOK, IInv, ExclusiveUse, WaitPCs, CreatePCs,
      GrantPCs, At, SlotOf, Slots, memory, bounds
<1>4. WaitersCounted'
  BY <1>a
  DEF Discard, TurnEnds, WaitersCounted, TypeOK, IInv, ExclusiveUse, WaitPCs, CreatePCs,
      GrantPCs, At, SlotOf, Slots, memory, bounds
<1>5. NoLostWakeup'
  BY <1>a
  DEF Discard, TurnEnds, NoLostWakeup, WaitersCounted, Outranked, TypeOK, IInv,
      ExclusiveUse, WaitPCs, CreatePCs, GrantPCs, At, SlotOf, Slots, memory, bounds
<1>6. OvertakenAtMostOnce'
  BY <1>a
  DEF Discard, TurnEnds, OvertakenAtMostOnce, NotOvertakenBefore, WaitersCounted, LowerTurn,
      HasTurn, TypeOK, IInv, ExclusiveUse, WaitPCs, CreatePCs, GrantPCs, At, SlotOf, Slots,
      memory, bounds
<1>7. NotOvertakenBefore'
  BY <1>a
  DEF Discard, TurnEnds, NotOvertakenBefore, WaitersCounted, TurnShown, OneTurn,
      OvertakenAtMostOnce, LowerTurn, HasTurn, TypeOK, IInv, ExclusiveUse, WaitPCs,
      CreatePCs, GrantPCs, At, SlotOf, Slots, memory, bounds
<1> QED
  BY <1>1, <1>2, <1>3, <1>4, <1>5, <1>6, <1>7 DEF IInv, ExclusiveUse

\* CreationFails keeps the invariant.
LEMMA CreationFailsInv ==
  ASSUME TypeOK, IInv, NEW u \in Users, CreationFails(u)
  PROVE  IInv'
<1> USE UsersAssumption
<1>a. ASSUME NEW v \in Users PROVE At(v) \in Slots /\ At(v)[1] = ProcessOf[v]
  BY SlotOfType DEF At, TypeOK
<1>1. TurnShown'
  BY <1>a
  DEF CreationFails, TurnEnds, TurnShown, OneTurn, HasTurn, TypeOK, IInv, ExclusiveUse,
      WaitPCs, CreatePCs, GrantPCs, At, SlotOf, Slots, memory, bounds
<1>2. OneTurn'
  BY <1>a
  DEF CreationFails, TurnEnds, TurnShown, OneTurn, HasTurn, TypeOK, IInv, ExclusiveUse,
      WaitPCs, CreatePCs, GrantPCs, At, SlotOf, Slots, memory, bounds
<1>3. OneOnGpu'
  BY <1>a
  DEF CreationFails, TurnEnds, OneOnGpu, LockPCs, TypeOK, IInv, ExclusiveUse, WaitPCs,
      CreatePCs, GrantPCs, At, SlotOf, Slots, memory, bounds
<1>4. WaitersCounted'
  BY <1>a
  DEF CreationFails, TurnEnds, WaitersCounted, TypeOK, IInv, ExclusiveUse, WaitPCs,
      CreatePCs, GrantPCs, At, SlotOf, Slots, memory, bounds
<1>5. NoLostWakeup'
  BY <1>a
  DEF CreationFails, TurnEnds, NoLostWakeup, WaitersCounted, Outranked, TypeOK, IInv,
      ExclusiveUse, WaitPCs, CreatePCs, GrantPCs, At, SlotOf, Slots, memory, bounds
<1>6. OvertakenAtMostOnce'
  <2> SUFFICES ASSUME NEW v \in Users, pc'[v] \in WaitPCs
               PROVE  overtaken'[v] <= 1
    BY DEF OvertakenAtMostOnce
  <2>1. pc[v] \in WaitPCs /\ overtaken[v] \in Nat
    BY DEF CreationFails, TurnEnds, TypeOK, WaitPCs
  <2>2. CASE /\ v \in waiting[At(u)]
             /\ call[u] = "grant"
             /\ Rank(v) < Rank(u)
    <3>1. LowerTurn(v)
      BY <1>a, <2>2
      DEF CreationFails, LowerTurn, HasTurn, IInv, WaitersCounted, CreatePCs, GrantPCs
    <3>2. overtaken[v] = 0
      BY <2>1, <3>1 DEF IInv, NotOvertakenBefore
    <3> QED
      BY <2>2, <3>2 DEF CreationFails, TurnEnds
  <2>3. CASE ~(/\ v \in waiting[At(u)]
               /\ call[u] = "grant"
               /\ Rank(v) < Rank(u))
    BY <2>1, <2>3 DEF CreationFails, TurnEnds, IInv, OvertakenAtMostOnce
  <2> QED
    BY <2>2, <2>3
<1>7. NotOvertakenBefore'
  BY <1>a
  DEF CreationFails, TurnEnds, NotOvertakenBefore, WaitersCounted, TurnShown, OneTurn,
      OvertakenAtMostOnce, LowerTurn, HasTurn, TypeOK, IInv, ExclusiveUse, WaitPCs,
      CreatePCs, GrantPCs, At, SlotOf, Slots, memory, bounds
<1> QED
  BY <1>1, <1>2, <1>3, <1>4, <1>5, <1>6, <1>7 DEF IInv, ExclusiveUse

\* NotifyAll keeps the invariant.
LEMMA NotifyAllInv ==
  ASSUME TypeOK, IInv, NEW u \in Users, NotifyAll(u)
  PROVE  IInv'
<1> USE UsersAssumption
<1>a. ASSUME NEW v \in Users PROVE At(v) \in Slots /\ At(v)[1] = ProcessOf[v]
  BY SlotOfType DEF At, TypeOK
<1>1. TurnShown'
  BY <1>a
  DEF NotifyAll, TurnShown, OneTurn, HasTurn, TypeOK, IInv, ExclusiveUse, WaitPCs,
      CreatePCs, GrantPCs, At, SlotOf, Slots, memory, bounds
<1>2. OneTurn'
  BY <1>a
  DEF NotifyAll, TurnShown, OneTurn, HasTurn, TypeOK, IInv, ExclusiveUse, WaitPCs,
      CreatePCs, GrantPCs, At, SlotOf, Slots, memory, bounds
<1>3. OneOnGpu'
  BY <1>a
  DEF NotifyAll, OneOnGpu, LockPCs, TypeOK, IInv, ExclusiveUse, WaitPCs, CreatePCs,
      GrantPCs, At, SlotOf, Slots, memory, bounds
<1>4. WaitersCounted'
  BY <1>a
  DEF NotifyAll, WaitersCounted, TypeOK, IInv, ExclusiveUse, WaitPCs, CreatePCs, GrantPCs,
      At, SlotOf, Slots, memory, bounds
<1>5. NoLostWakeup'
  BY <1>a
  DEF NotifyAll, NoLostWakeup, WaitersCounted, Outranked, TypeOK, IInv, ExclusiveUse,
      WaitPCs, CreatePCs, GrantPCs, At, SlotOf, Slots, memory, bounds
<1>6. OvertakenAtMostOnce'
  BY <1>a
  DEF NotifyAll, OvertakenAtMostOnce, NotOvertakenBefore, WaitersCounted, LowerTurn,
      HasTurn, TypeOK, IInv, ExclusiveUse, WaitPCs, CreatePCs, GrantPCs, At, SlotOf, Slots,
      memory, bounds
<1>7. NotOvertakenBefore'
  BY <1>a
  DEF NotifyAll, NotOvertakenBefore, WaitersCounted, TurnShown, OneTurn,
      OvertakenAtMostOnce, LowerTurn, HasTurn, TypeOK, IInv, ExclusiveUse, WaitPCs,
      CreatePCs, GrantPCs, At, SlotOf, Slots, memory, bounds
<1> QED
  BY <1>1, <1>2, <1>3, <1>4, <1>5, <1>6, <1>7 DEF IInv, ExclusiveUse

\* TakeIdle keeps the invariant.
LEMMA TakeIdleInv ==
  ASSUME TypeOK, IInv, NEW p \in Processes, TakeIdle(p)
  PROVE  IInv'
<1> USE UsersAssumption
<1>a. ASSUME NEW v \in Users PROVE At(v) \in Slots /\ At(v)[1] = ProcessOf[v]
  BY SlotOfType DEF At, TypeOK
<1>1. TurnShown'
  BY <1>a
  DEF TakeIdle, TurnShown, OneTurn, HasTurn, TypeOK, IInv, ExclusiveUse, WaitPCs, CreatePCs,
      GrantPCs, At, SlotOf, Slots, memory, bounds
<1>2. OneTurn'
  BY <1>a
  DEF TakeIdle, TurnShown, OneTurn, HasTurn, TypeOK, IInv, ExclusiveUse, WaitPCs, CreatePCs,
      GrantPCs, At, SlotOf, Slots, memory, bounds
<1>3. OneOnGpu'
  BY <1>a
  DEF TakeIdle, OneOnGpu, LockPCs, TypeOK, IInv, ExclusiveUse, WaitPCs, CreatePCs, GrantPCs,
      At, SlotOf, Slots, memory, bounds
<1>4. WaitersCounted'
  BY <1>a
  DEF TakeIdle, WaitersCounted, TypeOK, IInv, ExclusiveUse, WaitPCs, CreatePCs, GrantPCs,
      At, SlotOf, Slots, memory, bounds
<1>5. NoLostWakeup'
  BY <1>a, SMTT(60)
  DEF TakeIdle, NoLostWakeup, WaitersCounted, Outranked, TypeOK, IInv, ExclusiveUse,
      WaitPCs, CreatePCs, GrantPCs, At, SlotOf, Slots, memory, bounds
<1>6. OvertakenAtMostOnce'
  BY <1>a
  DEF TakeIdle, OvertakenAtMostOnce, NotOvertakenBefore, WaitersCounted, LowerTurn, HasTurn,
      TypeOK, IInv, ExclusiveUse, WaitPCs, CreatePCs, GrantPCs, At, SlotOf, Slots, memory,
      bounds
<1>7. NotOvertakenBefore'
  BY <1>a
  DEF TakeIdle, NotOvertakenBefore, WaitersCounted, TurnShown, OneTurn, OvertakenAtMostOnce,
      LowerTurn, HasTurn, TypeOK, IInv, ExclusiveUse, WaitPCs, CreatePCs, GrantPCs, At,
      SlotOf, Slots, memory, bounds
<1> QED
  BY <1>1, <1>2, <1>3, <1>4, <1>5, <1>6, <1>7 DEF IInv, ExclusiveUse

\* Crash keeps the invariant.
LEMMA CrashInv ==
  ASSUME TypeOK, IInv, NEW p \in Processes, Crash(p)
  PROVE  IInv'
<1> USE UsersAssumption
<1>a. ASSUME NEW v \in Users PROVE At(v) \in Slots /\ At(v)[1] = ProcessOf[v]
  BY SlotOfType DEF At, TypeOK
<1>1. TurnShown'
  BY <1>a
  DEF Crash, TurnShown, OneTurn, HasTurn, TypeOK, IInv, ExclusiveUse, WaitPCs, CreatePCs,
      GrantPCs, At, SlotOf, Slots, memory, bounds
<1>2. OneTurn'
  BY <1>a
  DEF Crash, TurnShown, OneTurn, HasTurn, TypeOK, IInv, ExclusiveUse, WaitPCs, CreatePCs,
      GrantPCs, At, SlotOf, Slots, memory, bounds
<1>3. OneOnGpu'
  BY <1>a
  DEF Crash, OneOnGpu, LockPCs, TypeOK, IInv, ExclusiveUse, WaitPCs, CreatePCs, GrantPCs,
      At, SlotOf, Slots, memory, bounds
<1>4. WaitersCounted'
  BY <1>a
  DEF Crash, WaitersCounted, TypeOK, IInv, ExclusiveUse, WaitPCs, CreatePCs, GrantPCs, At,
      SlotOf, Slots, memory, bounds
<1>5. NoLostWakeup'
  BY <1>a, SMTT(60)
  DEF Crash, NoLostWakeup, WaitersCounted, Outranked, TypeOK, IInv, ExclusiveUse, WaitPCs,
      CreatePCs, GrantPCs, At, SlotOf, Slots, memory, bounds
<1>6. OvertakenAtMostOnce'
  BY <1>a
  DEF Crash, OvertakenAtMostOnce, NotOvertakenBefore, WaitersCounted, LowerTurn, HasTurn,
      TypeOK, IInv, ExclusiveUse, WaitPCs, CreatePCs, GrantPCs, At, SlotOf, Slots, memory,
      bounds
<1>7. NotOvertakenBefore'
  BY <1>a
  DEF Crash, NotOvertakenBefore, WaitersCounted, TurnShown, OneTurn, OvertakenAtMostOnce,
      LowerTurn, HasTurn, TypeOK, IInv, ExclusiveUse, WaitPCs, CreatePCs, GrantPCs, At,
      SlotOf, Slots, memory, bounds
<1> QED
  BY <1>1, <1>2, <1>3, <1>4, <1>5, <1>6, <1>7 DEF IInv, ExclusiveUse

\* DropSession keeps the invariant.
LEMMA DropSessionInv ==
  ASSUME TypeOK, IInv, NEW s \in Slots, DropSession(s)
  PROVE  IInv'
<1> USE UsersAssumption
<1>a. ASSUME NEW v \in Users PROVE At(v) \in Slots /\ At(v)[1] = ProcessOf[v]
  BY SlotOfType DEF At, TypeOK
<1>1. TurnShown'
  BY <1>a
  DEF DropSession, TurnShown, OneTurn, HasTurn, TypeOK, IInv, ExclusiveUse, WaitPCs,
      CreatePCs, GrantPCs, At, SlotOf, Slots, memory, bounds
<1>2. OneTurn'
  BY <1>a
  DEF DropSession, TurnShown, OneTurn, HasTurn, TypeOK, IInv, ExclusiveUse, WaitPCs,
      CreatePCs, GrantPCs, At, SlotOf, Slots, memory, bounds
<1>3. OneOnGpu'
  BY <1>a
  DEF DropSession, OneOnGpu, LockPCs, TypeOK, IInv, ExclusiveUse, WaitPCs, CreatePCs,
      GrantPCs, At, SlotOf, Slots, memory, bounds
<1>4. WaitersCounted'
  BY <1>a
  DEF DropSession, WaitersCounted, TypeOK, IInv, ExclusiveUse, WaitPCs, CreatePCs, GrantPCs,
      At, SlotOf, Slots, memory, bounds
<1>5. NoLostWakeup'
  BY <1>a
  DEF DropSession, NoLostWakeup, WaitersCounted, Outranked, TypeOK, IInv, ExclusiveUse,
      WaitPCs, CreatePCs, GrantPCs, At, SlotOf, Slots, memory, bounds
<1>6. OvertakenAtMostOnce'
  BY <1>a
  DEF DropSession, OvertakenAtMostOnce, NotOvertakenBefore, WaitersCounted, LowerTurn,
      HasTurn, TypeOK, IInv, ExclusiveUse, WaitPCs, CreatePCs, GrantPCs, At, SlotOf, Slots,
      memory, bounds
<1>7. NotOvertakenBefore'
  BY <1>a
  DEF DropSession, NotOvertakenBefore, WaitersCounted, TurnShown, OneTurn,
      OvertakenAtMostOnce, LowerTurn, HasTurn, TypeOK, IInv, ExclusiveUse, WaitPCs,
      CreatePCs, GrantPCs, At, SlotOf, Slots, memory, bounds
<1> QED
  BY <1>1, <1>2, <1>3, <1>4, <1>5, <1>6, <1>7 DEF IInv, ExclusiveUse

\* Every step keeps the invariant.
LEMMA InvNext == TypeOK /\ IInv /\ [Next]_vars => IInv'
<1> SUFFICES ASSUME TypeOK, IInv, [Next]_vars PROVE IInv'
  OBVIOUS
<1>1. CASE UNCHANGED vars
  BY <1>1
  DEF vars, IInv, TurnShown, ExclusiveUse, OneTurn, OneOnGpu, HasTurn, WaitersCounted,
      NoLostWakeup, OvertakenAtMostOnce, NotOvertakenBefore, LowerTurn, Outranked, At,
      SlotOf
<1> QED
  BY <1>1, GrantInv, WakeInv, EnsureInv, TakeLockInv, LockTimeoutInv, AdmitInv, RefuseInv,
     LoadFailsInv, WarmedUpInv, HandOverInv, RunEndsInv, RunPanicsInv, GiveBackInv,
     DiscardInv, CreationFailsInv, NotifyAllInv, TakeIdleInv, CrashInv, DropSessionInv
  DEF Next, Advance

\* The broker's state keeps its types.
THEOREM TypeCorrect == Spec => []TypeOK
  BY TypeInit, TypeNext, PTL DEF Spec

\* The inductive invariant holds in every reachable state.
THEOREM InductiveInvariant == Spec => []IInv
  BY TypeInit, TypeNext, InvInit, InvNext, PTL DEF Spec

\* For any number of users and processes a session is lent to one run at a time,
\* and one model at a time is on the card (grant, GpuLock).
THEOREM SessionsAreExclusive == Spec => []ExclusiveUse
<1>1. IInv => ExclusiveUse
  BY DEF IInv
<1> QED
  BY <1>1, InductiveInvariant, PTL

\* For any number of users no wake-up is lost: notify_all after every return of
\* a slot is enough, and take_idle needs none.
THEOREM NoWakeupIsLost == Spec => []NoLostWakeup
<1>1. IInv => NoLostWakeup
  BY DEF IInv
<1> QED
  BY <1>1, InductiveInvariant, PTL

\* For any number of users a wait sees at most one turn of a lower rank end.
THEOREM QueriesWaitOneTurn == Spec => []OvertakenAtMostOnce
<1>1. IInv => OvertakenAtMostOnce
  BY DEF IInv
<1> QED
  BY <1>1, InductiveInvariant, PTL
-----------------------------------------------------------------------------
(* What the sessions cost.                                                 *)

\* There are so many slots, and each belongs to a process and a backend.
LEMMA SlotsFinite == IsFiniteSet(Slots)
  BY SizeAssumption, FS_Product DEF Slots

\* A session that stays where it is costs what it did.
LEMMA MeterKept ==
  ASSUME NEW s \in Slots, mem[s] = Metered(s), dropping[s] >= 0,
         mem'[s] = mem[s], dropping'[s] = dropping[s], Live(s)' <=> Live(s),
         Part(s)' <=> Part(s)
  PROVE  mem'[s] = Metered(s)' /\ dropping'[s] >= 0
  BY DEF Metered, Cost

\* Nothing is metered at first.
LEMMA AccountedInit == Init => Accounted
<1> SUFFICES ASSUME Init, NEW s \in Slots PROVE mem[s] = Metered(s) /\ dropping[s] >= 0
  BY DEF Accounted
<1>1. mem[s] = 0 /\ dropping[s] = 0 /\ ~Live(s) /\ ~Part(s)
  BY DEF Init, Live, Part
<1>2. Cost(s[2]) \in Int
  BY CostAssumption DEF Cost, Slots
<1> QED
  BY <1>1, <1>2 DEF Metered

\* Steps of a user that neither build nor take out a session.
LEMMA PlainSteps ==
  ASSUME TypeOK, IInv, Accounted, NEW u \in Users, NEW k \in Backends,
         \/ Grant(u, k) \/ Wake(u) \/ Ensure(u, k) \/ TakeLock(u) \/ LockTimeout(u)
         \/ Refuse(u) \/ RunEnds(u) \/ RunPanics(u) \/ HandOver(u) \/ GiveBack(u)
         \/ CreationFails(u) \/ NotifyAll(u)
  PROVE  Accounted'
<1> SUFFICES ASSUME NEW s \in Slots PROVE mem'[s] = Metered(s)' /\ dropping'[s] >= 0
  BY DEF Accounted
<1>0. mem[s] = Metered(s) /\ dropping[s] >= 0
  BY DEF Accounted
<1>1. mem'[s] = mem[s] /\ dropping'[s] = dropping[s]
  BY DEF Grant, Wake, Ensure, TakeLock, LockTimeout, Refuse, RunEnds, RunPanics, HandOver,
         GiveBack, CreationFails, NotifyAll, TurnEnds, memory
<1>2. Part(s)' <=> Part(s)
  BY DEF Grant, Wake, Ensure, TakeLock, LockTimeout, Refuse, RunEnds, RunPanics, HandOver,
         GiveBack, CreationFails, NotifyAll, TurnEnds, memory, Part, At, SlotOf, TypeOK,
         TakeTurn, TakeSession, SetOut, Sleep
<1>3. Live(s)' <=> Live(s)
  <2> DEFINE Built(v) == pc[v] = "built" /\ At(v) = s
  <2>1. CASE \/ TakeLock(u) \/ LockTimeout(u) \/ Refuse(u) \/ RunEnds(u) \/ RunPanics(u)
             \/ NotifyAll(u)
    <3>1. slot' = slot /\ \A v \in Users : Built(v)' <=> Built(v)
      BY <2>1 DEF TakeLock, LockTimeout, Refuse, RunEnds, RunPanics, NotifyAll, At, SlotOf,
                  TypeOK
    <3> QED
      BY <3>1 DEF Live
  <2>2. ASSUME NEW r \in Slots, TakeTurn(u, r), pc[u] \in {"out", "awake"}, backend' = backend
               \/ \E x : backend' = [backend EXCEPT ![u] = x]
        PROVE  Live(s)' <=> Live(s)
    <3>1. \A v \in Users : Built(v)' <=> Built(v)
      BY <2>2 DEF TakeTurn, TakeSession, SetOut, Sleep, At, SlotOf, TypeOK
    <3>2. slot'[s] \in {"idle", "granted"} <=> slot[s] \in {"idle", "granted"}
      BY <2>2 DEF TakeTurn, TakeSession, SetOut, Sleep, TypeOK
    <3> QED
      BY <3>1, <3>2 DEF Live
  <2>3. CASE Grant(u, k)
    BY <2>2, <2>3, SlotOfType DEF Grant
  <2>4. CASE Wake(u)
    <3>1. At(u) \in Slots
      BY SlotOfType DEF At, TypeOK
    <3> QED
      BY <2>2, <2>4, <3>1 DEF Wake
  <2>5. CASE Ensure(u, k)
    <3>1. \A v \in Users : Built(v)' <=> Built(v)
      BY <2>5 DEF Ensure, At, SlotOf, TypeOK
    <3>2. slot'[s] \in {"idle", "granted"} <=> slot[s] \in {"idle", "granted"}
      BY <2>5 DEF Ensure, TypeOK
    <3> QED
      BY <3>1, <3>2 DEF Live
  <2>6. CASE HandOver(u) \/ GiveBack(u) \/ CreationFails(u)
    <3>1. \A v \in Users : v # u => (Built(v)' <=> Built(v))
      BY <2>6 DEF HandOver, GiveBack, CreationFails, TurnEnds, At, SlotOf, TypeOK
    <3>2. CASE s # At(u)
      <4>1. slot'[s] = slot[s]
        BY <2>6, <3>2 DEF HandOver, GiveBack, CreationFails, TurnEnds, TypeOK
      <4>2. ~Built(u) /\ ~Built(u)'
        BY <2>6, <3>2 DEF HandOver, GiveBack, CreationFails, TurnEnds, TypeOK
      <4> QED
        BY <3>1, <4>1, <4>2 DEF Live
    <3>3. CASE s = At(u) /\ HandOver(u)
      BY <3>3 DEF HandOver, Live, TypeOK
    <3>4. CASE s = At(u) /\ GiveBack(u)
      BY <3>4 DEF GiveBack, TurnEnds, Live, TypeOK, IInv, TurnShown, GrantPCs
    <3>5. CASE s = At(u) /\ CreationFails(u)
      <4>1. slot[s] = "creating" /\ slot'[s] = "empty"
        BY <3>5 DEF CreationFails, TurnEnds, TypeOK, IInv, TurnShown, CreatePCs
      <4>2. ~Built(u) /\ ~Built(u)'
        BY <3>5 DEF CreationFails, TurnEnds, TypeOK
      <4> QED
        BY <3>1, <4>1, <4>2 DEF Live
    <3> QED
      BY <2>6, <3>2, <3>3, <3>4, <3>5
  <2> QED
    BY <2>1, <2>3, <2>4, <2>5, <2>6
<1> QED
  BY <1>0, <1>1, <1>2, <1>3, MeterKept

\* A session that cost c more or less stays accounted for.
LEMMA Costs ==
  ASSUME NEW s \in Slots, NEW n \in Int
  PROVE  /\ Cost(s[2]) \in Nat /\ Cost(s[2]) = Load[s[2]] + WarmUp[s[2]]
         /\ Load[s[2]] \in Nat /\ WarmUp[s[2]] \in Nat
         /\ Cost(s[2]) * (n + 1) = Cost(s[2]) * n + Cost(s[2])
         /\ Cost(s[2]) * n \in Int
         /\ n >= 0 => Cost(s[2]) * n >= 0
<1>1. Load[s[2]] \in Nat /\ WarmUp[s[2]] \in Nat
  BY CostAssumption DEF Slots
<1>2. Cost(s[2]) \in Nat /\ Cost(s[2]) = Load[s[2]] + WarmUp[s[2]]
  BY <1>1 DEF Cost
<1>3. ASSUME NEW c \in Nat
      PROVE  /\ c * (n + 1) = c * n + c
             /\ c * n \in Int
             /\ n >= 0 => c * n >= 0
  OBVIOUS
<1> QED
  BY <1>1, <1>2, <1>3

\* A session that leaves its slot costs as much until it is dropped.
LEMMA TakenOut ==
  ASSUME NEW s \in Slots, mem[s] = Metered(s), dropping[s] \in Int, dropping[s] >= 0,
         mem'[s] = mem[s], dropping'[s] = dropping[s] + 1, Live(s), ~Live(s)',
         ~Part(s), ~Part(s)'
  PROVE  mem'[s] = Metered(s)' /\ dropping'[s] >= 0
<1>1. Cost(s[2]) * (dropping[s] + 1) \in Int
  <2>1. \A n \in Int : Cost(s[2]) * n \in Int
    BY Costs
  <2>2. dropping[s] + 1 \in Int
    OBVIOUS
  <2> QED
    BY <2>1, <2>2
<1>2. Metered(s) = Cost(s[2]) * (dropping[s] + 1)
  BY <1>1 DEF Metered
<1>3. Metered(s)' = Cost(s[2]) * (dropping[s] + 1)
  BY <1>1 DEF Metered, Cost
<1> QED
  BY <1>2, <1>3

\* Other slots than the user's are as they were.
LEMMA OthersMetered ==
  ASSUME TypeOK, IInv, Accounted, NEW u \in Users,
         Admit(u) \/ LoadFails(u) \/ WarmedUp(u) \/ Discard(u), NEW s \in Slots, s # At(u)
  PROVE  mem'[s] = Metered(s)' /\ dropping'[s] >= 0
<1>0. mem[s] = Metered(s) /\ dropping[s] >= 0
  BY DEF Accounted
<1>1. mem'[s] = mem[s] /\ dropping'[s] = dropping[s] /\ slot'[s] = slot[s]
  BY DEF Admit, LoadFails, WarmedUp, Discard, TurnEnds, TypeOK
<1>2. Part(s)' <=> Part(s)
  BY DEF Admit, LoadFails, WarmedUp, Discard, TurnEnds, Part, At, SlotOf, TypeOK
<1>3. Live(s)' <=> Live(s)
  BY <1>1
  DEF Admit, LoadFails, WarmedUp, Discard, TurnEnds, Live, At, SlotOf, TypeOK
<1> QED
  BY <1>0, <1>1, <1>2, <1>3, MeterKept

\* A session grows in its slot, or falls back.
LEMMA BuildSteps ==
  ASSUME TypeOK, IInv, Accounted, NEW u \in Users, Admit(u) \/ LoadFails(u) \/ WarmedUp(u)
  PROVE  Accounted'
<1> SUFFICES ASSUME NEW s \in Slots, s = At(u)
             PROVE  mem'[s] = Metered(s)' /\ dropping'[s] >= 0
  BY OthersMetered DEF Accounted
<1>0. mem[s] = Metered(s) /\ dropping[s] >= 0 /\ dropping[s] \in Int
  BY DEF Accounted, TypeOK
<1>1. dropping'[s] = dropping[s] /\ slot' = slot /\ backend' = backend
  BY DEF Admit, LoadFails, WarmedUp
<1>2. slot[s] = "creating"
  BY DEF Admit, LoadFails, WarmedUp, IInv, TurnShown, CreatePCs
<1>3. \A v \in Users : v # u /\ At(v) = s => pc[v] \notin {"loading", "built"}
  BY DEF Admit, LoadFails, WarmedUp, IInv, ExclusiveUse, OneTurn, HasTurn, CreatePCs
<1>4. \A v \in Users : v # u => pc'[v] = pc[v]
  BY DEF Admit, LoadFails, WarmedUp, TypeOK
<1>5. \A v \in Users : At(v)' = At(v)
  BY <1>1 DEF At, SlotOf
<1>6. backend[u] = s[2]
  BY DEF At, SlotOf
<1>7. /\ Cost(s[2]) = Load[s[2]] + WarmUp[s[2]] /\ Cost(s[2]) \in Nat
      /\ Cost(s[2]) * (dropping[s] + 1) = Cost(s[2]) * dropping[s] + Cost(s[2])
      /\ Cost(s[2]) * dropping[s] \in Int
      /\ Load[s[2]] \in Nat /\ WarmUp[s[2]] \in Nat
  BY <1>0, Costs
<1>a. CASE Admit(u)
  <2>1. ~Live(s) /\ ~Live(s)' /\ ~Part(s) /\ Part(s)'
    BY <1>1, <1>2, <1>3, <1>4, <1>5, <1>a DEF Admit, Live, Part, TypeOK
  <2>2. mem'[s] = mem[s] + Load[s[2]]
    BY <1>6, <1>a DEF Admit, TypeOK
  <2> QED
    BY <1>0, <1>1, <1>7, <2>1, <2>2 DEF Metered, Cost
<1>b. CASE LoadFails(u)
  <2>1. ~Live(s) /\ ~Live(s)' /\ Part(s) /\ ~Part(s)'
    BY <1>1, <1>2, <1>3, <1>4, <1>5, <1>b DEF LoadFails, Live, Part, TypeOK
  <2>2. mem'[s] = mem[s] - Load[s[2]]
    BY <1>6, <1>b DEF LoadFails, TypeOK
  <2> QED
    BY <1>0, <1>1, <1>7, <2>1, <2>2 DEF Metered, Cost
<1>c. CASE WarmedUp(u)
  <2>1. ~Live(s) /\ Live(s)' /\ Part(s) /\ ~Part(s)'
    BY <1>1, <1>2, <1>3, <1>4, <1>5, <1>c DEF WarmedUp, Live, Part, TypeOK
  <2>2. mem'[s] = mem[s] + WarmUp[s[2]]
    BY <1>6, <1>c DEF WarmedUp, TypeOK
  <2> HIDE DEF Cost
  <2>3. Metered(s) = Cost(s[2]) * dropping[s] + Load[s[2]]
    BY <1>0, <1>7, <2>1 DEF Metered
  <2>4. Metered(s)' = Cost(s[2]) * (dropping[s] + 1)
    BY <1>0, <1>1, <1>7, <2>1 DEF Metered, Cost
  <2> QED
    BY <1>0, <1>1, <1>7, <2>2, <2>3, <2>4
<1> QED
  BY <1>a, <1>b, <1>c

\* A session of a panicked run leaves its slot and is still to be dropped.
LEMMA DiscardStep ==
  ASSUME TypeOK, IInv, Accounted, NEW u \in Users, Discard(u)
  PROVE  Accounted'
<1> SUFFICES ASSUME NEW s \in Slots, s = At(u)
             PROVE  mem'[s] = Metered(s)' /\ dropping'[s] >= 0
  BY OthersMetered DEF Accounted
<1>0. mem[s] = Metered(s) /\ dropping[s] >= 0 /\ dropping[s] \in Int
  BY DEF Accounted, TypeOK
<1>1. mem'[s] = mem[s] /\ dropping'[s] = dropping[s] + 1 /\ backend' = backend
  BY DEF Discard, TurnEnds, TypeOK
<1>2. slot[s] = "granted" /\ slot'[s] = "empty"
  BY DEF Discard, TurnEnds, IInv, TurnShown, GrantPCs, TypeOK
<1>3. \A v \in Users : At(v) = s => pc[v] \notin {"loading", "built"}
  BY <1>2 DEF IInv, TurnShown, CreatePCs
<1>4. \A v \in Users : v # u => pc'[v] = pc[v]
  BY DEF Discard, TurnEnds, TypeOK
<1>5. \A v \in Users : At(v)' = At(v)
  BY <1>1 DEF At, SlotOf
<1>6. pc'[u] = "notify"
  BY DEF Discard, TurnEnds, TypeOK
<1>7. Live(s) /\ ~Live(s)' /\ ~Part(s) /\ ~Part(s)'
  BY <1>2, <1>3, <1>4, <1>5, <1>6 DEF Live, Part
<1> QED
  BY <1>0, <1>1, <1>7, TakenOut

\* Idle sessions leave their slots and are still to be dropped.
LEMMA TakeIdleStep ==
  ASSUME TypeOK, IInv, Accounted, NEW p \in Processes, TakeIdle(p)
  PROVE  Accounted'
<1> SUFFICES ASSUME NEW s \in Slots PROVE mem'[s] = Metered(s)' /\ dropping'[s] >= 0
  BY DEF Accounted
<1> PICK T \in SUBSET {r \in Slots : r[1] = p /\ slot[r] = "idle"} :
      /\ slot' = [r \in Slots |-> IF r \in T THEN "empty" ELSE slot[r]]
      /\ dropping' = [r \in Slots |-> IF r \in T THEN dropping[r] + 1 ELSE dropping[r]]
  BY DEF TakeIdle
<1>0. mem[s] = Metered(s) /\ dropping[s] >= 0 /\ dropping[s] \in Int
  BY DEF Accounted, TypeOK
<1>1. mem' = mem /\ backend' = backend /\ pc' = pc
  BY DEF TakeIdle
<1>2. Part(s)' <=> Part(s)
  BY <1>1 DEF Part, At, SlotOf
<1>3. CASE s \in T
  <2>1. slot[s] = "idle" /\ slot'[s] = "empty" /\ dropping'[s] = dropping[s] + 1
    BY <1>3
  <2>2. \A v \in Users : At(v) = s => pc[v] \notin {"loading", "built"}
    BY <2>1 DEF IInv, TurnShown, CreatePCs
  <2>3. Live(s) /\ ~Live(s)' /\ ~Part(s) /\ ~Part(s)'
    BY <1>1, <2>1, <2>2 DEF Live, Part, At, SlotOf
  <2> QED
    BY <1>0, <1>1, <2>1, <2>3, TakenOut
<1>4. CASE s \notin T
  <2>1. slot'[s] = slot[s] /\ dropping'[s] = dropping[s]
    BY <1>4
  <2>2. Live(s)' <=> Live(s)
    BY <1>1, <2>1 DEF Live, At, SlotOf
  <2> QED
    BY <1>0, <1>1, <1>2, <2>1, <2>2, MeterKept
<1> QED
  BY <1>3, <1>4

\* What is dropped is freed.
LEMMA DropStep ==
  ASSUME TypeOK, Accounted, NEW r \in Slots, DropSession(r)
  PROVE  Accounted'
<1> SUFFICES ASSUME NEW s \in Slots PROVE mem'[s] = Metered(s)' /\ dropping'[s] >= 0
  BY DEF Accounted
<1>0. mem[s] = Metered(s) /\ dropping[s] >= 0 /\ dropping[s] \in Int
  BY DEF Accounted, TypeOK
<1>1. slot' = slot /\ backend' = backend /\ pc' = pc
  BY DEF DropSession
<1>2. (Part(s)' <=> Part(s)) /\ (Live(s)' <=> Live(s))
  BY <1>1 DEF Live, Part, At, SlotOf
<1>3. CASE s = r
  <2>1. /\ dropping'[s] = dropping[s] - 1 /\ dropping[s] > 0
        /\ mem'[s] = mem[s] - Cost(s[2])
    BY <1>3 DEF DropSession, TypeOK
  <2> DEFINE n == dropping[s] - 1 + (IF Live(s) THEN 1 ELSE 0)
             c == Cost(s[2])
             part == IF Part(s) THEN Load[s[2]] ELSE 0
  <2>2. n \in Int /\ c \in Nat /\ part \in Int /\ c * (n + 1) = c * n + c /\ c * n \in Int
    <3>1. n \in Int
      BY <1>0
    <3> HIDE DEF n
    <3>2. c \in Nat /\ c * (n + 1) = c * n + c /\ c * n \in Int /\ Load[s[2]] \in Nat
      BY <3>1, Costs
    <3> QED
      BY <3>1, <3>2
  <2>3. Metered(s) = c * (n + 1) + part
    <3>1. dropping[s] + (IF Live(s) THEN 1 ELSE 0) = n + 1
      BY <1>0
    <3> QED
      BY <3>1 DEF Metered
  <2>4. Metered(s)' = c * n + part
    BY <1>2, <2>1 DEF Metered, Cost
  <2>5. dropping'[s] >= 0
    BY <1>0, <2>1
  <2>6. mem'[s] = mem[s] - c
    BY <2>1
  <2> HIDE DEF n, c, part
  <2> QED
    BY <1>0, <2>2, <2>3, <2>4, <2>5, <2>6
<1>4. CASE s # r
  <2>1. mem'[s] = mem[s] /\ dropping'[s] = dropping[s]
    BY <1>4 DEF DropSession, TypeOK
  <2> QED
    BY <1>0, <1>2, <2>1, MeterKept
<1> QED
  BY <1>3, <1>4

\* A process that dies gives back what it had, and no other process anything.
LEMMA CrashStep ==
  ASSUME TypeOK, Accounted, NEW p \in Processes, Crash(p)
  PROVE  Accounted'
<1> SUFFICES ASSUME NEW s \in Slots PROVE mem'[s] = Metered(s)' /\ dropping'[s] >= 0
  BY DEF Accounted
<1>0. mem[s] = Metered(s) /\ dropping[s] >= 0 /\ dropping[s] \in Int
  BY DEF Accounted, TypeOK
<1>1. \A v \in Users : At(v)' = At(v) /\ At(v)[1] = ProcessOf[v]
  BY DEF Crash, At, SlotOf
<1>2. CASE s[1] = p
  <2>1. mem'[s] = 0 /\ dropping'[s] = 0 /\ slot'[s] = "empty"
    BY <1>2 DEF Crash
  <2>2. ~Live(s)' /\ ~Part(s)'
    BY <1>1, <1>2, <2>1 DEF Crash, Live, Part
  <2> QED
    BY <2>1, <2>2, Costs DEF Metered, Cost
<1>3. CASE s[1] # p
  <2>1. mem'[s] = mem[s] /\ dropping'[s] = dropping[s] /\ slot'[s] = slot[s]
    BY <1>3 DEF Crash
  <2>2. \A v \in Users : At(v) = s => pc'[v] = pc[v]
    BY <1>1, <1>3 DEF Crash
  <2>3. (Part(s)' <=> Part(s)) /\ (Live(s)' <=> Live(s))
    BY <1>1, <2>1, <2>2 DEF Live, Part
  <2> QED
    BY <1>0, <2>1, <2>3, MeterKept
<1> QED
  BY <1>2, <1>3

\* Every step keeps the accounts.
LEMMA AccountedNext == TypeOK /\ IInv /\ Accounted /\ [Next]_vars => Accounted'
<1> SUFFICES ASSUME TypeOK, IInv, Accounted, [Next]_vars PROVE Accounted'
  OBVIOUS
<1>1. CASE UNCHANGED vars
  BY <1>1 DEF vars, Accounted, Metered, Live, Part, At, SlotOf, Cost
<1>2. PICK k : k \in Backends
  BY UsersAssumption
<1> QED
  BY <1>1, <1>2, PlainSteps, BuildSteps, DiscardStep, TakeIdleStep, DropStep, CrashStep
  DEF Next, Advance

\* For any number of processes, users and backends the meters show what the
\* sessions cost: nothing leaks, whoever fails, panics or dies.
THEOREM NothingLeaks == Spec => []Accounted
  BY TypeInit, TypeNext, InvInit, InvNext, AccountedInit, AccountedNext, PTL DEF Spec
-----------------------------------------------------------------------------
(* What the sums of the meters are when a meter changes.                   *)

Of(p) == {s \in Slots : s[1] = p}

\* The card and the processes, as sums over sets of slots.
LEMMA MetersSummed ==
  ASSUME NEW f \in [Slots -> Int], NEW p
  PROVE  /\ SumFunction(f) = SumFunctionOnSet(f, Slots)
         /\ SumFunction(f) \in Int
         /\ SumFunctionOnSet(f, Of(p)) \in Int
         /\ IsFiniteSet(Of(p))
<1>1. DOMAIN f = Slots
  OBVIOUS
<1>2. SumFunction(f) = SumFunctionOnSet(f, Slots)
  BY <1>1 DEF SumFunction
<1>3. IsFiniteSet(Of(p)) /\ Of(p) \subseteq Slots
  BY SlotsFinite, FS_Subset DEF Of
<1>4. SumFunctionOnSet(f, Slots) \in Int
  BY SlotsFinite, SumInt
<1>5. SumFunctionOnSet(f, Of(p)) \in Int
  BY <1>3, SumInt
<1> QED
  BY <1>2, <1>3, <1>4, <1>5

\* No meter goes up, no sum goes up.
LEMMA LessIsLess ==
  ASSUME NEW f \in [Slots -> Int], NEW h \in [Slots -> Int],
         \A s \in Slots : h[s] <= f[s], NEW p
  PROVE  /\ SumFunction(h) <= SumFunction(f)
         /\ SumFunctionOnSet(h, Of(p)) <= SumFunctionOnSet(f, Of(p))
<1>1. SumFunctionOnSet(h, Slots) <= SumFunctionOnSet(f, Slots)
  BY SlotsFinite, SumMonotone
<1>2. \A s \in Of(p) : h[s] \in Int /\ f[s] \in Int /\ h[s] <= f[s]
  BY DEF Of
<1>3. SumFunctionOnSet(h, Of(p)) <= SumFunctionOnSet(f, Of(p))
  BY <1>2, MetersSummed, SumMonotone
<1> QED
  BY <1>1, <1>3, MetersSummed

\* One meter that changes moves the card's sum and its process's.
LEMMA OneMeterMoves ==
  ASSUME NEW f \in [Slots -> Int], NEW h \in [Slots -> Int], NEW x \in Slots,
         \A s \in Slots \ {x} : h[s] = f[s], NEW p
  PROVE  /\ SumFunction(h) = SumFunction(f) + (h[x] - f[x])
         /\ x[1] = p => SumFunctionOnSet(h, Of(p)) = SumFunctionOnSet(f, Of(p)) + (h[x] - f[x])
         /\ x[1] # p => SumFunctionOnSet(h, Of(p)) = SumFunctionOnSet(f, Of(p))
<1>1. (\A s \in Slots : f[s] \in Int) /\ h[x] \in Int
  OBVIOUS
<1>2. SumFunctionOnSet(h, Slots) = SumFunctionOnSet(f, Slots) + (h[x] - f[x])
  BY <1>1, SlotsFinite, SumMoves
<1>3. /\ x \in Of(p) => SumFunctionOnSet(h, Of(p)) = SumFunctionOnSet(f, Of(p)) + (h[x] - f[x])
      /\ x \notin Of(p) => SumFunctionOnSet(h, Of(p)) = SumFunctionOnSet(f, Of(p))
  <2>1. /\ \A s \in Of(p) : f[s] \in Int
        /\ \A s \in Of(p) \ {x} : h[s] = f[s]
    BY <1>1 DEF Of
  <2>2. IsFiniteSet(Of(p))
    BY MetersSummed
  <2> QED
    BY <1>1, <2>1, <2>2, SumMoves
<1>4. x \in Of(p) <=> x[1] = p
  BY DEF Of
<1>5. SumFunction(h) = SumFunctionOnSet(h, Slots) /\ SumFunction(f) = SumFunctionOnSet(f, Slots)
  BY MetersSummed
<1> QED
  BY <1>2, <1>3, <1>4, <1>5
-----------------------------------------------------------------------------
(* The memory of the card and the budgets.                                 *)

\* What the checks leave true, with every price known.
Fits == MemoryHolds /\ WarmUpFits

\* The two sums are numbers, and those of the processes are over their slots.
LEMMA SumsAreNumbers ==
  ASSUME TypeOK, NEW p
  PROVE  /\ CardUsed = Foreign + SumFunction(mem) /\ CardUsed \in Int
         /\ ProcessBytes(p) = SumFunctionOnSet(mem, Of(p)) /\ ProcessBytes(p) \in Int
<1>1. mem \in [Slots -> Int]
  BY DEF TypeOK
<1>2. ProcessBytes(p) = SumFunctionOnSet(mem, Of(p))
  BY DEF ProcessBytes, Of
<1>3. CardUsed = Foreign + SumFunction(mem)
  BY DEF CardUsed
<1> QED
  BY <1>1, <1>2, <1>3, MetersSummed, CostAssumption

\* The card has room for the other programs, and nobody has a session.
LEMMA FitsInit == Init => Fits
<1> SUFFICES ASSUME Init PROVE Fits
  OBVIOUS
<1>1. mem \in [Slots -> Int] /\ \A s \in Slots : mem[s] = 0
  BY DEF Init
<1>2. SumFunctionOnSet(mem, Slots) = 0
  BY <1>1, SlotsFinite, SumZero
<1>3. \A p \in Processes : ProcessBytes(p) = 0
  <2> SUFFICES ASSUME NEW p \in Processes PROVE ProcessBytes(p) = 0
    OBVIOUS
  <2>1. IsFiniteSet(Of(p)) /\ \A s \in Of(p) : mem[s] = 0
    BY <1>1, MetersSummed DEF Of
  <2>2. SumFunctionOnSet(mem, Of(p)) = 0
    BY <2>1, SumZero
  <2> QED
    BY <2>2 DEF ProcessBytes, Of
<1>4. CardUsed = Foreign
  BY <1>1, <1>2, MetersSummed, CostAssumption DEF CardUsed
<1> QED
  BY <1>3, <1>4, CostAssumption DEF Init, Fits, MemoryHolds, WarmUpFits

\* Where nothing is allocated and no creation is let in, what fitted fits.
LEMMA ShrinkingFits ==
  ASSUME TypeOK, TypeOK', Fits, price \subseteq price',
         \A s \in Slots : mem'[s] <= mem[s],
         \A u \in Users : pc'[u] = "loading" => pc[u] = "loading" /\ backend'[u] = backend[u]
  PROVE  Fits'
<1> SUFFICES ASSUME Priced = Backends PROVE Fits'
  BY DEF Fits, MemoryHolds, WarmUpFits
<1>1. mem \in [Slots -> Int] /\ mem' \in [Slots -> Int]
  BY DEF TypeOK
<1>2. price' = Backends
  BY DEF TypeOK, Fits, WarmUpFits
<1>3. CardUsed \in Int /\ CardUsed' \in Int /\ CardUsed' <= CardUsed
  BY <1>1, LessIsLess, MetersSummed, CostAssumption DEF CardUsed
<1>4. ASSUME NEW p
      PROVE  ProcessBytes(p) \in Int /\ ProcessBytes(p)' \in Int /\ ProcessBytes(p)' <= ProcessBytes(p)
  <2>1. /\ ProcessBytes(p) = SumFunctionOnSet(mem, Of(p))
        /\ ProcessBytes(p)' = SumFunctionOnSet(mem', Of(p))
    BY DEF ProcessBytes, Of
  <2> QED
    BY <1>1, <2>1, LessIsLess, MetersSummed
<1>5. MemoryHolds'
  BY <1>3, <1>4, CostAssumption DEF Fits, MemoryHolds
<1>6. ASSUME NEW u \in Users, pc'[u] = "loading"
      PROVE  /\ CardUsed' + WarmUp[backend'[u]] <= Card
             /\ ProcessBytes(ProcessOf[u])' + WarmUp[backend'[u]] <= Budget
  <2>1. /\ CardUsed + WarmUp[backend'[u]] <= Card
        /\ ProcessBytes(ProcessOf[u]) + WarmUp[backend'[u]] <= Budget
    BY <1>6 DEF Fits, WarmUpFits
  <2>2. WarmUp[backend'[u]] \in Nat /\ Card \in Nat /\ Budget \in Nat
    BY CostAssumption DEF TypeOK
  <2> QED
    BY <1>3, <1>4, <2>1, <2>2
<1> QED
  BY <1>2, <1>5, <1>6 DEF Fits, WarmUpFits

\* Whoever has the card's lock is the only one that builds.
LEMMA OneBuilds ==
  ASSUME TypeOK, IInv, NEW u \in Users, pc[u] \in {"admitting", "loading"}
  PROVE  \A v \in Users : v # u => pc[v] \notin {"admitting", "loading"}
  BY DEF IInv, ExclusiveUse, OneOnGpu, LockPCs

\* What a step that builds adds to the sums.
LEMMA SumsGrow ==
  ASSUME TypeOK, TypeOK', NEW u \in Users, NEW d \in Int,
         mem'[At(u)] - mem[At(u)] = d,
         \A s \in Slots \ {At(u)} : mem'[s] = mem[s], NEW p
  PROVE  /\ CardUsed \in Int /\ CardUsed' = CardUsed + d
         /\ ProcessBytes(p) \in Int
         /\ ProcessBytes(p)' = ProcessBytes(p) + (IF ProcessOf[u] = p THEN d ELSE 0)
<1>1. At(u) \in Slots /\ At(u)[1] = ProcessOf[u]
  BY SlotOfType DEF At, SlotOf, TypeOK
<1>2. mem \in [Slots -> Int] /\ mem' \in [Slots -> Int]
  BY DEF TypeOK
<1>4. /\ SumFunction(mem') = SumFunction(mem) + (mem'[At(u)] - mem[At(u)])
      /\ At(u)[1] = p => SumFunctionOnSet(mem', Of(p))
                            = SumFunctionOnSet(mem, Of(p)) + (mem'[At(u)] - mem[At(u)])
      /\ At(u)[1] # p => SumFunctionOnSet(mem', Of(p)) = SumFunctionOnSet(mem, Of(p))
  BY <1>1, <1>2, OneMeterMoves
<1>5. /\ CardUsed = Foreign + SumFunction(mem) /\ CardUsed' = Foreign + SumFunction(mem')
      /\ ProcessBytes(p) = SumFunctionOnSet(mem, Of(p))
      /\ ProcessBytes(p)' = SumFunctionOnSet(mem', Of(p))
  BY DEF CardUsed, ProcessBytes, Of
<1>6. SumFunction(mem) \in Int /\ SumFunctionOnSet(mem, Of(p)) \in Int /\ Foreign \in Int
  BY <1>2, MetersSummed, CostAssumption
<1> QED
  BY <1>1, <1>4, <1>5, <1>6

\* A creation is let in only where it fits with its warm-up.
LEMMA AdmitFits ==
  ASSUME TypeOK, TypeOK', IInv, Fits, NEW u \in Users, Admit(u)
  PROVE  Fits'
<1> SUFFICES ASSUME Priced = Backends PROVE Fits'
  BY DEF Fits, MemoryHolds, WarmUpFits
<1> DEFINE k == backend[u]
<1>1. k \in Backends /\ Load[k] \in Nat /\ WarmUp[k] \in Nat /\ Cost(k) = Load[k] + WarmUp[k]
  BY CostAssumption DEF TypeOK, Cost
<1>2. price = Backends /\ price' = price /\ backend' = backend
  BY DEF Admit, Fits, WarmUpFits
<1>3. /\ CardUsed + Load[k] + WarmUp[k] <= Card
      /\ ProcessBytes(ProcessOf[u]) + Load[k] + WarmUp[k] <= Budget
  <2>1. Card - CardUsed >= Cost(k) /\ ProcessBytes(ProcessOf[u]) + Cost(k) <= Budget
    BY <1>1, <1>2 DEF Admit, RoomOnCard, WithinBudget, Expected
  <2>2. CardUsed \in Int /\ ProcessBytes(ProcessOf[u]) \in Int
    BY SumsAreNumbers
  <2> QED
    BY <1>1, <2>1, <2>2, CostAssumption
<1>4. ASSUME NEW p
      PROVE  /\ CardUsed \in Int /\ CardUsed' = CardUsed + Load[k]
             /\ ProcessBytes(p) \in Int
             /\ ProcessBytes(p)' = ProcessBytes(p) + (IF ProcessOf[u] = p THEN Load[k] ELSE 0)
  <2>1. At(u) \in Slots
    BY SlotOfType DEF At, TypeOK
  <2>2. /\ mem'[At(u)] - mem[At(u)] = Load[k]
        /\ \A s \in Slots \ {At(u)} : mem'[s] = mem[s]
    BY <1>1, <2>1 DEF Admit, TypeOK
  <2>3. Load[k] \in Int
    BY <1>1
  <2> HIDE DEF k
  <2> QED
    BY <2>2, <2>3, SumsGrow
<1>5. \A v \in Users : pc'[v] = "loading" => v = u
  BY OneBuilds DEF Admit, TypeOK
<1>6. MemoryHolds'
  <2>1. CardUsed' <= Card
    BY <1>1, <1>3, <1>4, CostAssumption
  <2>2. ASSUME NEW p \in Processes PROVE ProcessBytes(p)' <= Budget
    BY <1>1, <1>3, <1>4, CostAssumption DEF Fits, MemoryHolds
  <2> QED
    BY <2>1, <2>2 DEF MemoryHolds
<1>7. CardUsed' + WarmUp[k] <= Card /\ ProcessBytes(ProcessOf[u])' + WarmUp[k] <= Budget
  BY <1>1, <1>3, <1>4, CostAssumption
<1> QED
  BY <1>2, <1>5, <1>6, <1>7 DEF Fits, WarmUpFits

\* The warm-up takes what was kept for it.
LEMMA WarmedUpFits ==
  ASSUME TypeOK, TypeOK', IInv, Fits, NEW u \in Users, WarmedUp(u)
  PROVE  Fits'
<1> SUFFICES ASSUME Priced = Backends PROVE Fits'
  BY DEF Fits, MemoryHolds, WarmUpFits
<1> DEFINE k == backend[u]
<1>1. k \in Backends /\ WarmUp[k] \in Nat
  BY CostAssumption DEF TypeOK
<1>2. price' = Backends
  BY <1>1 DEF WarmedUp, Fits, WarmUpFits
<1>3. /\ CardUsed + WarmUp[k] <= Card
      /\ ProcessBytes(ProcessOf[u]) + WarmUp[k] <= Budget
  BY DEF WarmedUp, Fits, WarmUpFits
<1>4. ASSUME NEW p
      PROVE  /\ CardUsed \in Int /\ CardUsed' = CardUsed + WarmUp[k]
             /\ ProcessBytes(p) \in Int
             /\ ProcessBytes(p)' = ProcessBytes(p) + (IF ProcessOf[u] = p THEN WarmUp[k] ELSE 0)
  <2>1. At(u) \in Slots
    BY SlotOfType DEF At, TypeOK
  <2>2. /\ mem'[At(u)] - mem[At(u)] = WarmUp[k]
        /\ \A s \in Slots \ {At(u)} : mem'[s] = mem[s]
    BY <1>1, <2>1 DEF WarmedUp, TypeOK
  <2>3. WarmUp[k] \in Int
    BY <1>1
  <2> HIDE DEF k
  <2> QED
    BY <2>2, <2>3, SumsGrow
<1>5. \A v \in Users : pc'[v] # "loading"
  BY OneBuilds DEF WarmedUp, TypeOK
<1>6. MemoryHolds'
  <2>1. CardUsed' <= Card
    BY <1>1, <1>3, <1>4, CostAssumption
  <2>2. ASSUME NEW p \in Processes PROVE ProcessBytes(p)' <= Budget
    BY <1>1, <1>3, <1>4, CostAssumption DEF Fits, MemoryHolds
  <2> QED
    BY <2>1, <2>2 DEF MemoryHolds
<1> QED
  BY <1>2, <1>5, <1>6 DEF Fits, WarmUpFits

\* All other steps of a user leave the meters or lower them.
LEMMA UserFits ==
  ASSUME TypeOK, TypeOK', Fits, NEW u \in Users, NEW k \in Backends,
         \/ Grant(u, k) \/ Ensure(u, k) \/ Wake(u) \/ TakeLock(u) \/ LockTimeout(u)
         \/ Refuse(u) \/ LoadFails(u) \/ HandOver(u) \/ RunEnds(u) \/ RunPanics(u)
         \/ GiveBack(u) \/ Discard(u) \/ CreationFails(u) \/ NotifyAll(u)
  PROVE  Fits'
<1>1. price \subseteq price'
  BY DEF Grant, Ensure, Wake, TakeLock, LockTimeout, Refuse, LoadFails, HandOver, RunEnds,
         RunPanics, GiveBack, Discard, CreationFails, NotifyAll, TurnEnds, memory
<1>2. \A s \in Slots : mem'[s] <= mem[s]
  <2>1. CASE mem' = mem
    BY <2>1 DEF TypeOK
  <2>2. CASE LoadFails(u)
    <3>1. Load[backend[u]] \in Nat
      BY CostAssumption DEF TypeOK
    <3> QED
      BY <2>2, <3>1 DEF LoadFails, TypeOK
  <2> QED
    BY <2>1, <2>2
    DEF Grant, Ensure, Wake, TakeLock, LockTimeout, Refuse, HandOver, RunEnds,
        RunPanics, GiveBack, Discard, CreationFails, NotifyAll, TurnEnds, memory
<1>3. \A v \in Users : pc'[v] = "loading" => pc[v] = "loading" /\ backend'[v] = backend[v]
  <2>1. CASE Grant(u, k) \/ Ensure(u, k)
    BY <2>1 DEF Grant, Ensure, TakeTurn, TakeSession, SetOut, Sleep, TypeOK
  <2>2. CASE ~(Grant(u, k) \/ Ensure(u, k))
    BY <2>2
    DEF Wake, TakeLock, LockTimeout, Refuse, LoadFails, HandOver, RunEnds,
        RunPanics, GiveBack, Discard, CreationFails, NotifyAll, TurnEnds, TakeTurn,
        TakeSession, SetOut, Sleep, TypeOK
  <2> QED
    BY <2>1, <2>2
<1> QED
  BY <1>1, <1>2, <1>3, ShrinkingFits

\* So do the steps of processes, sessions and the kernel.
LEMMA ProcessFits ==
  ASSUME TypeOK, TypeOK', Accounted, Fits, NEW p \in Processes, NEW r \in Slots,
         TakeIdle(p) \/ Crash(p) \/ DropSession(r)
  PROVE  Fits'
<1>1. price \subseteq price'
  BY DEF TakeIdle, Crash, DropSession
<1>2. \A v \in Users : pc'[v] = "loading" => pc[v] = "loading" /\ backend'[v] = backend[v]
  BY DEF TakeIdle, Crash, DropSession
<1>3. ASSUME NEW s \in Slots PROVE mem'[s] <= mem[s]
  <2>1. CASE TakeIdle(p)
    BY <2>1 DEF TakeIdle, TypeOK
  <2>2. CASE DropSession(r)
    <3>1. Cost(r[2]) \in Nat
      BY Costs
    <3> QED
      BY <2>2, <3>1 DEF DropSession, TypeOK
  <2>3. CASE Crash(p)
    <3>1. mem[s] >= 0
      <4> DEFINE n == dropping[s] + (IF Live(s) THEN 1 ELSE 0)
      <4>1. n \in Int /\ n >= 0
        BY DEF Accounted, TypeOK
      <4>2. mem[s] = Cost(s[2]) * n + (IF Part(s) THEN Load[s[2]] ELSE 0)
        BY DEF Accounted, Metered
      <4> HIDE DEF n
      <4>3. Cost(s[2]) * n >= 0 /\ Cost(s[2]) * n \in Int /\ Load[s[2]] \in Nat
        BY <4>1, Costs
      <4> QED
        BY <4>2, <4>3
    <3> QED
      BY <2>3, <3>1 DEF Crash, TypeOK
  <2> QED
    BY <2>1, <2>2, <2>3
<1> QED
  BY <1>1, <1>2, <1>3, ShrinkingFits

\* Every step leaves room for the creation that is under way.
LEMMA FitsNext ==
  TypeOK /\ TypeOK' /\ IInv /\ Accounted /\ Fits /\ [Next]_vars => Fits'
<1> SUFFICES ASSUME TypeOK, TypeOK', IInv, Accounted, Fits, [Next]_vars PROVE Fits'
  OBVIOUS
<1>1. CASE UNCHANGED vars
  <2>1. \A s \in Slots : mem'[s] <= mem[s]
    BY <1>1 DEF vars, TypeOK
  <2> QED
    BY <1>1, <2>1, ShrinkingFits DEF vars
<1>2. ASSUME NEW u \in Users, NEW k \in Backends, Grant(u, k) \/ Ensure(u, k) PROVE Fits'
  BY <1>2, UserFits
<1>3. ASSUME NEW u \in Users, Advance(u) PROVE Fits'
  <2>1. PICK k : k \in Backends
    BY UsersAssumption
  <2> QED
    BY <1>3, <2>1, UserFits, AdmitFits, WarmedUpFits DEF Advance
<1>4. ASSUME NEW p \in Processes, TakeIdle(p) \/ Crash(p) PROVE Fits'
  <2>1. PICK k : k \in Backends
    BY UsersAssumption
  <2>2. <<p, k>> \in Slots
    BY <2>1 DEF Slots
  <2> QED
    BY <1>4, <2>2, ProcessFits
<1>5. ASSUME NEW s \in Slots, DropSession(s) PROVE Fits'
  <2>1. s[1] \in Processes
    BY DEF Slots
  <2> QED
    BY <1>5, <2>1, ProcessFits
<1> QED
  BY <1>1, <1>2, <1>3, <1>4, <1>5 DEF Next

\* For any number of processes, users and backends whose prices are known, no
\* creation takes the card past its memory or a process past its budget: not
\* when others load and drop sessions, crash, or come back.
THEOREM MemoryIsEnough == Spec => []MemoryHolds
<1>1. Fits => MemoryHolds
  BY DEF Fits
<1> QED
  BY <1>1, TypeInit, TypeNext, InvInit, InvNext, AccountedInit, AccountedNext, FitsInit,
     FitsNext, PTL DEF Spec
=============================================================================
