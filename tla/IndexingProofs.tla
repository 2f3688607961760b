--------------------------- MODULE IndexingProofs ---------------------------
(***************************************************************************)
(* Proofs about indexing: the calls for vectors, the sync of an index, and *)
(* what the health check says of it.                                       *)
(*                                                                         *)
(* Of EmbeddingRequests, for any requests, texts, lengths, retries and     *)
(* flaws: the batches that are planned hold each text once and fit the     *)
(* settings; through retries, splits and answers in any order each text    *)
(* stays in one place; what a call returns is the vector of each text in   *)
(* the order of the texts; requests and metrics stay within bounds.  Of    *)
(* IndexSync and IndexHealth, for any paths, contents and failures: the    *)
(* snapshot and the cache never vouch for a file the vector store does not *)
(* have, and HEALTHY means indexed.                                        *)
(***************************************************************************)
EXTENDS MCServer, FiniteSetTheorems, SequenceTheorems, WellFoundedInduction, TLAPS

-----------------------------------------------------------------------------
(* Places.                                                                 *)

\* A set of numbers has a least one.
LEMMA LeastOfSome ==
  ASSUME NEW T, T \subseteq Nat, T # {}
  PROVE  \E n \in T : \A m \in T : n <= m
<1> DEFINE L == {ss \in Nat \X Nat : ss[1] < ss[2]}
<1>1. IsWellFoundedOn(L, Nat)
  BY NatLessThanWellFounded DEF OpToRel
<1>2. PICK n \in T : \A m \in T : ~ (<<m, n>> \in L)
  <2> HIDE DEF L
  <2> QED
    BY <1>1, WFMin
<1>3. ASSUME NEW m \in T PROVE n <= m
  <2>1. m \in Nat /\ n \in Nat /\ <<m, n>> \notin L
    BY <1>2
  <2>2. <<m, n>> \in Nat \X Nat
    BY <2>1
  <2>3. ~ (m < n)
    BY <2>1, <2>2
  <2> QED
    BY <2>1, <2>3
<1> QED
  BY <1>3

\* Some places of a sequence have a first and a last.
LEMMA EndPlaces ==
  ASSUME NEW n \in Nat, NEW P \in SUBSET (1..n), P # {}
  PROVE  (\E p \in P : \A o \in P : p <= o) /\ (\E p \in P : \A o \in P : o <= p)
<1> DEFINE Q == {n - p : p \in P}
<1>1. P \subseteq Nat /\ \A p \in P : p <= n
  OBVIOUS
<1>0. Q \subseteq Nat /\ Q # {}
  <2>1. \A p \in P : n - p \in Nat
    BY <1>1
  <2> QED
    BY <2>1
<1>2. PICK least \in Q : \A o \in Q : least <= o
  <2> HIDE DEF Q
  <2> QED
    BY <1>0, LeastOfSome
<1>3. PICK p \in P : least = n - p
  OBVIOUS
<1>4. \A o \in P : n - p <= n - o
  BY <1>2, <1>3
<1>5. \A o \in P : o <= p
  BY <1>1, <1>4
<1> QED
  BY <1>1, <1>5, LeastOfSome

-----------------------------------------------------------------------------
(* Folds over finite sets.                                                 *)

\* A fold over a finite set exists: in which order c takes the elements, and
\* what G makes of each, is open.
Takes(c, S) == \A s \in SUBSET S : s # {} => c[s] \in s
IsFold(g, S, A, b, c, G) ==
  /\ g \in [SUBSET S -> A]
  /\ \A s \in SUBSET S : g[s] = IF s = {} THEN b ELSE G[c[s]][g[s \ {c[s]}]]
\* Such a fold exists, by the size of the subsets.
LEMMA FoldExists ==
  ASSUME NEW S, IsFiniteSet(S), NEW A, NEW b \in A, NEW c, Takes(c, S), NEW G \in [S -> [A -> A]]
  PROVE  \E g : IsFold(g, S, A, b, c, G)
<1> USE DEF Takes
<1> DEFINE N == Cardinality(S)
           Upto(n) == {s \in SUBSET S : Cardinality(s) <= n}
           Eq(g, s) == g[s] = IF s = {} THEN b ELSE G[c[s]][g[s \ {c[s]}]]
           Has(n) == \E g \in [Upto(n) -> A] : \A s \in Upto(n) : Eq(g, s)
           Bad == {n \in 1..N : ~Has(n)}
<1>0. N \in Nat /\ \A s \in SUBSET S : IsFiniteSet(s) /\ Cardinality(s) \in Nat /\ Cardinality(s) <= N
  BY FS_Subset, FS_CardinalityType
<1>1. Has(0)
  <2> DEFINE g == [s \in Upto(0) |-> b]
  <2>1. \A s \in Upto(0) : s = {}
    <3> SUFFICES ASSUME NEW s \in Upto(0) PROVE s = {}
      OBVIOUS
    <3>1. Cardinality(s) = 0
      BY <1>0
    <3> QED
      BY <1>0, <3>1, FS_EmptySet
  <2>2. g \in [Upto(0) -> A] /\ \A s \in Upto(0) : Eq(g, s)
    BY <2>1
  <2> QED
    BY <2>2
<1>2. ASSUME NEW n \in Nat, Has(n) PROVE Has(n + 1)
  <2>1. PICK g \in [Upto(n) -> A] : \A s \in Upto(n) : Eq(g, s)
    BY <1>2
  <2>2. \A s \in Upto(n) : s \in Upto(n + 1)
    BY <1>0
  <2>3. \A s \in Upto(n + 1) : s # {} => s \ {c[s]} \in Upto(n) /\ c[s] \in S
    <3> SUFFICES ASSUME NEW s \in Upto(n + 1), s # {} PROVE s \ {c[s]} \in Upto(n) /\ c[s] \in S
      OBVIOUS
    <3>0. c[s] \in s /\ s \in SUBSET S
      OBVIOUS
    <3>1. Cardinality(s \ {c[s]}) = Cardinality(s) - 1
      <4>1. IsFiniteSet(s)
        BY <1>0
      <4> HIDE DEF Upto, Has, Eq, N
      <4> QED
        BY <3>0, <4>1, FS_RemoveElement
    <3>2. Cardinality(s) <= n + 1 /\ Cardinality(s) \in Nat
      BY <1>0
    <3>3. Cardinality(s) - 1 <= n
      BY <3>2
    <3>4. s \ {c[s]} \in SUBSET S /\ Cardinality(s \ {c[s]}) <= n
      BY <3>0, <3>1, <3>3
    <3> QED
      BY <3>0, <3>4
  <2> DEFINE h == [s \in Upto(n + 1) |-> IF s = {} THEN b ELSE G[c[s]][g[s \ {c[s]}]]]
  <2>4. \A s \in Upto(n) : h[s] = g[s]
    BY <2>1, <2>2
  <2>5. h \in [Upto(n + 1) -> A]
    <3> SUFFICES ASSUME NEW s \in Upto(n + 1), s # {} PROVE G[c[s]][g[s \ {c[s]}]] \in A
      OBVIOUS
    <3> DEFINE rest == s \ {c[s]}
    <3>1. rest \in Upto(n) /\ c[s] \in S
      BY <2>3
    <3> HIDE DEF rest, Upto
    <3>2. g[rest] \in A
      BY <2>1, <3>1
    <3>3. G[c[s]] \in [A -> A]
      BY <3>1
    <3> QED
      BY <3>2, <3>3 DEF rest
  <2>6. \A s \in Upto(n + 1) : Eq(h, s)
    <3> SUFFICES ASSUME NEW s \in Upto(n + 1) PROVE Eq(h, s)
      OBVIOUS
    <3>1. s # {} => h[s \ {c[s]}] = g[s \ {c[s]}]
      BY <2>3, <2>4
    <3>2. h[s] = IF s = {} THEN b ELSE G[c[s]][g[s \ {c[s]}]]
      OBVIOUS
    <3> HIDE DEF h
    <3> QED
      BY <3>1, <3>2
  <2> QED
    BY <2>5, <2>6
<1>3. Bad = {}
  <2> SUFFICES ASSUME Bad # {} PROVE FALSE
    OBVIOUS
  <2>1. Bad \in SUBSET (1..N)
    OBVIOUS
  <2>2. PICK n \in Bad : \A m \in Bad : n <= m
    <3> HIDE DEF Bad
    <3> QED
      BY <1>0, <2>1, EndPlaces
  <2>3. n \in 1..N /\ ~Has(n)
    BY <2>2
  <2>4. n - 1 \in Nat /\ (n - 1) + 1 = n /\ ~ (n <= n - 1)
    BY <1>0, <2>3
  <2>5. Has(n - 1)
    <3>1. CASE n = 1
      <4>1. n - 1 = 0
        BY <3>1
      <4> HIDE DEF Has
      <4> QED
        BY <1>1, <4>1
    <3>2. CASE n # 1
      <4>1. n - 1 \in 1..N /\ n - 1 \notin Bad
        <5>1. n - 1 \in 1..N
          BY <1>0, <2>3, <3>2
        <5>2. \A m \in Bad : n <= m
          BY <2>2
        <5> HIDE DEF Bad
        <5> QED
          BY <2>4, <5>1, <5>2
      <4> QED
        BY <4>1
    <3> QED
      BY <3>1, <3>2
  <2> HIDE DEF Has, Bad
  <2>6. Has((n - 1) + 1)
    BY <1>2, <2>4, <2>5
  <2> QED
    BY <2>3, <2>4, <2>6
<1>4. Has(N)
  <2>1. CASE N = 0
    <3> HIDE DEF Has, N
    <3> QED
      BY <1>1, <2>1
  <2>2. CASE N # 0
    <3>1. N \in 1..N
      BY <1>0, <2>2
    <3> HIDE DEF Has
    <3> QED
      BY <1>3, <3>1
  <2> QED
    BY <2>1, <2>2
<1>5. Upto(N) = SUBSET S
  BY <1>0
<1> QED
  BY <1>4, <1>5 DEF IsFold

-----------------------------------------------------------------------------
(* The plan as the texts are taken one by one (plan_batches).              *)

\* The greatest of some places.
LEMMA GreatestPlace ==
  ASSUME NEW n \in Nat
  PROVE  /\ \A s \in SUBSET (1..n) : s # {} => Max(s) \in s /\ \A o \in s : o <= Max(s)
         /\ \A i \in 1..n : Max(1..i) = i /\ (1..i) \ {Max(1..i)} = 1..(i - 1)
<1>1. ASSUME NEW s \in SUBSET (1..n), s # {} PROVE Max(s) \in s /\ \A o \in s : o <= Max(s)
  <2>1. \E p \in s : \A o \in s : o <= p
    BY <1>1, EndPlaces
  <2>2. \A p, o \in s : o <= p <=> p >= o
    OBVIOUS
  <2>3. \E p \in s : \A o \in s : p >= o
    BY <2>1, <2>2
  <2>4. Max(s) \in s /\ \A o \in s : Max(s) >= o
    BY <2>3 DEF Max
  <2> QED
    BY <2>2, <2>4
<1>2. ASSUME NEW i \in 1..n PROVE Max(1..i) = i /\ (1..i) \ {Max(1..i)} = 1..(i - 1)
  <2>1. 1..i \in SUBSET (1..n) /\ 1..i # {} /\ i \in 1..i
    OBVIOUS
  <2>2. Max(1..i) \in 1..i /\ i <= Max(1..i)
    BY <1>1, <2>1
  <2>3. Max(1..i) = i
    BY <2>2
  <2> QED
    BY <2>3
<1> QED
  BY <1>1, <1>2

PlanState == [plans : Seq([start : Int, end : Int]), start : Int, rows : Nat, longest : Nat]

\* What one more text makes of a plan is a plan.
LEMMA PlannedType ==
  ASSUME NEW acc \in PlanState, NEW i \in Int, NEW len \in Nat, NEW rows, NEW tokens
  PROVE  Planned(acc, i, len, rows, tokens) \in PlanState
<1>1. /\ acc.plans \in Seq([start : Int, end : Int]) /\ acc.start \in Int
      /\ acc.rows \in Nat /\ acc.longest \in Nat
  BY DEF PlanState
<1>2. acc.rows + 1 \in Nat /\ Most(acc.longest, len) \in Nat /\ i - 1 \in Int /\ 1 \in Nat
  BY <1>1 DEF Most
<1>3. Append(acc.plans, [start |-> acc.start, end |-> i - 1]) \in Seq([start : Int, end : Int])
  <2>1. [start |-> acc.start, end |-> i - 1] \in [start : Int, end : Int]
    BY <1>1, <1>2
  <2> HIDE DEF Planned
  <2> QED
    BY <1>1, <2>1, AppendProperties
<1>4. \A p \in Seq([start : Int, end : Int]), t \in Int, r, l \in Nat :
        [plans |-> p, start |-> t, rows |-> r, longest |-> l] \in PlanState
  BY DEF PlanState
<1>5. [plans |-> Append(acc.plans, [start |-> acc.start, end |-> i - 1]),
       start |-> i - 1, rows |-> 1, longest |-> len] \in PlanState
  BY <1>2, <1>3, <1>4
<1>6. [plans |-> acc.plans, start |-> acc.start, rows |-> acc.rows + 1,
       longest |-> Most(acc.longest, len)] \in PlanState
  BY <1>1, <1>2, <1>4
<1> QED
  BY <1>5, <1>6 DEF Planned

Whole(lens, rows, tokens) ==
  FoldLeftDomain(LAMBDA acc, i : Planned(acc, i, AtLeastOne(lens[i]), AtLeastOne(rows), AtLeastOne(tokens)),
                 NoPlans, lens)

Places(lens) == [i \in DOMAIN lens |-> i]
PlansUpto(lens, rows, tokens, g) ==
  [s \in SUBSET DOMAIN Places(lens) |->
     IF s = {} THEN NoPlans
     ELSE Planned(g[s \ {Max(s)}], Places(lens)[Max(s)], AtLeastOne(lens[Places(lens)[Max(s)]]),
                  AtLeastOne(rows), AtLeastOne(tokens))]
\* The plan of all the texts is the one the fold chooses.
LEMMA WholeIsChosen ==
  ASSUME NEW lens, NEW rows, NEW tokens
  PROVE  Whole(lens, rows, tokens)
           = (CHOOSE g : g = PlansUpto(lens, rows, tokens, g))[DOMAIN Places(lens)]
  BY DEF Whole, FoldLeftDomain, FoldLeft, MapThenFoldSet, PlansUpto, Places

\* The fold takes one text after the other.
LEMMA PlanSteps ==
  ASSUME NEW lens \in Seq(Nat), NEW rows \in Nat, NEW tokens \in Nat
  PROVE  \E h : /\ h[0] = NoPlans /\ h[Len(lens)] = Whole(lens, rows, tokens)
                /\ \A i \in 1..Len(lens) : h[i] = Planned(h[i - 1], i, AtLeastOne(lens[i]),
                                                         AtLeastOne(rows), AtLeastOne(tokens))
<1> DEFINE n == Len(lens)
           S == 1..n
           next(acc, i) == Planned(acc, i, AtLeastOne(lens[i]), AtLeastOne(rows), AtLeastOne(tokens))
           c == [s \in SUBSET S |-> Max(s)]
           G == [i \in S |-> [acc \in PlanState |-> next(acc, i)]]
           it == CHOOSE g : g = PlansUpto(lens, rows, tokens, g)
<1>1. n \in Nat /\ IsFiniteSet(S) /\ DOMAIN lens = S /\ \A i \in S : AtLeastOne(lens[i]) \in Nat /\ i \in Int
  <2>1. n \in Nat
    OBVIOUS
  <2>2. IsFiniteSet(1..n)
    BY <2>1, FS_Interval
  <2> QED
    BY <2>1, <2>2 DEF AtLeastOne
<1>2. \A s \in SUBSET S : s # {} => Max(s) \in s
  BY <1>1, GreatestPlace
<1>3. G \in [S -> [PlanState -> PlanState]]
  BY <1>1, PlannedType
<1>4. NoPlans \in PlanState
  BY DEF NoPlans, PlanState
<1>5. DOMAIN Places(lens) = S /\ \A i \in S : Places(lens)[i] = i
  BY <1>1 DEF Places
<1>6. \A g : g = PlansUpto(lens, rows, tokens, g) <=>
             g = [s \in SUBSET S |-> IF s = {} THEN NoPlans ELSE next(g[s \ {Max(s)}], Max(s))]
  <2> SUFFICES ASSUME NEW g
               PROVE  PlansUpto(lens, rows, tokens, g)
                        = [s \in SUBSET S |-> IF s = {} THEN NoPlans ELSE next(g[s \ {Max(s)}], Max(s))]
    OBVIOUS
  <2>1. ASSUME NEW s \in SUBSET S, s # {} PROVE Places(lens)[Max(s)] = Max(s)
    BY <1>2, <1>5, <2>1
  <2> HIDE DEF S
  <2> QED
    BY <1>5, <2>1 DEF PlansUpto
<1>7. \E g : g = PlansUpto(lens, rows, tokens, g)
  <2>1. \A s \in SUBSET S : s # {} => c[s] \in s
    BY <1>2
  <2>2. \E g : IsFold(g, S, PlanState, NoPlans, c, G)
    <3>1. IsFiniteSet(S)
      BY <1>1
    <3>2. Takes(c, S)
      BY <2>1 DEF Takes
    <3> HIDE DEF G, c, S, n, it, next
    <3> QED
      BY <3>1, <3>2, <1>3, <1>4, FoldExists
  <2>3. PICK g \in [SUBSET S -> PlanState] : \A s \in SUBSET S :
           g[s] = IF s = {} THEN NoPlans ELSE G[c[s]][g[s \ {c[s]}]]
    BY <2>2 DEF IsFold
  <2>4. ASSUME NEW s \in SUBSET S, s # {} PROVE g[s] = next(g[s \ {Max(s)}], Max(s))
    <3>1. c[s] = Max(s) /\ Max(s) \in S /\ s \ {Max(s)} \in SUBSET S
      BY <1>2, <2>4
    <3>2. g[s \ {Max(s)}] \in PlanState
      BY <2>3, <3>1
    <3>3. g[s] = G[Max(s)][g[s \ {Max(s)}]]
      BY <2>3, <2>4, <3>1
    <3> HIDE DEF next
    <3> QED
      BY <3>1, <3>2, <3>3
  <2>5. g = [s \in SUBSET S |-> IF s = {} THEN NoPlans ELSE next(g[s \ {Max(s)}], Max(s))]
    <3> HIDE DEF next, S
    <3> QED
      BY <2>3, <2>4
  <2> QED
    BY <1>6, <2>5
<1>8. it = [s \in SUBSET S |-> IF s = {} THEN NoPlans ELSE next(it[s \ {Max(s)}], Max(s))]
  <2>1. it = PlansUpto(lens, rows, tokens, it)
    BY <1>7
  <2> HIDE DEF it, S, next
  <2> QED
    BY <1>6, <2>1
<1>9. Whole(lens, rows, tokens) = it[S]
  BY <1>5, WholeIsChosen
<1> HIDE DEF it
<1> DEFINE h == [i \in 0..n |-> it[1..i]]
<1>10. h[0] = NoPlans
  <2>1. 1..0 = {} /\ 0 \in 0..n
    BY <1>1
  <2>2. it[{}] = NoPlans
    BY <1>8
  <2> QED
    BY <2>1, <2>2
<1>11. h[n] = it[S]
  BY <1>1
<1>12. ASSUME NEW i \in 1..n PROVE h[i] = next(h[i - 1], i)
  <2>0. i \in 0..n /\ i - 1 \in 0..n /\ i \in 1..i
    BY <1>1
  <2>1. 1..i \in SUBSET S /\ 1..i # {}
    <3>1. n \in Nat /\ i \in Nat /\ i <= n
      BY <1>1
    <3>2. \A k \in 1..i : k \in S
      BY <3>1
    <3> QED
      BY <2>0, <3>2
  <2>2. Max(1..i) = i /\ (1..i) \ {Max(1..i)} = 1..(i - 1)
    BY <1>1, GreatestPlace
  <2>3. it[1..i] = next(it[(1..i) \ {Max(1..i)}], Max(1..i))
    <3> HIDE DEF next, S
    <3> QED
      BY <1>8, <2>1
  <2>4. it[1..i] = next(it[1..(i - 1)], i)
    <3> HIDE DEF next
    <3> QED
      BY <2>2, <2>3
  <2>5. h[i] = it[1..i] /\ h[i - 1] = it[1..(i - 1)]
    BY <2>0
  <2> HIDE DEF h, next
  <2> QED
    BY <2>4, <2>5
<1> HIDE DEF h
<1> QED
  BY <1>9, <1>10, <1>11, <1>12

Plans == Seq([start : Int, end : Int])

\* Plans that follow each other from the first text to the z-th.
Joined(plans, z) ==
  /\ plans = <<>> => z = 0
  /\ plans # <<>> => plans[1].start = 0 /\ plans[Len(plans)].end = z
  /\ \A k \in DOMAIN plans :
       /\ 0 <= plans[k].start /\ plans[k].start < plans[k].end /\ plans[k].end <= z
       /\ k > 1 => plans[k].start = plans[k - 1].end

\* The longest text from one place to another, what a batch has room for, and why
\* it is not longer.
IsLongest(lens, a, z, l) ==
  /\ l \in Nat /\ \A k \in (a + 1)..z : AtLeastOne(lens[k]) <= l
  /\ \E k \in (a + 1)..z : l = AtLeastOne(lens[k])
Room(lens, p, rows, tokens) ==
  /\ p.end - p.start <= rows
  /\ p.end - p.start = 1 \/ \E l : IsLongest(lens, p.start, p.end, l) /\ (p.end - p.start) * l <= tokens
NoMore(lens, p, rows, tokens) ==
  \/ p.end - p.start + 1 > rows
  \/ \E l : IsLongest(lens, p.start, p.end + 1, l) /\ (p.end - p.start + 1) * l > tokens

\* One more plan behind the others.
Behind(more, plans, p) ==
  /\ more \in Plans /\ Joined(more, p.end) /\ Len(more) = Len(plans) + 1
  /\ more[Len(plans) + 1] = p /\ \A k \in DOMAIN plans : more[k] = plans[k]

\* A plan that starts where the last one ends joins the others.
LEMMA JoinedOn ==
  ASSUME NEW plans \in Plans, NEW p \in [start : Int, end : Int], 0 <= p.start, p.start < p.end,
         Joined(plans, p.start)
  PROVE  Behind(Append(plans, p), plans, p)
<1> DEFINE z == p.start
           e == p.end
           more == Append(plans, p)
<1>1. z \in Nat /\ e \in Nat /\ z < e
  OBVIOUS
<1>2. /\ more \in Plans /\ Len(more) = Len(plans) + 1 /\ more[Len(plans) + 1] = p
      /\ \A k \in 1..Len(plans) : more[k] = plans[k]
  BY <1>1, AppendProperties DEF Plans
<1>3. Len(plans) \in Nat /\ DOMAIN plans = 1..Len(plans) /\ DOMAIN more = 1..(Len(plans) + 1)
      /\ \A k \in DOMAIN plans : plans[k].start \in Int /\ plans[k].end \in Int
  <2>1. more \in Seq([start : Int, end : Int]) /\ plans \in Seq([start : Int, end : Int])
    BY <1>2 DEF Plans
  <2> HIDE DEF more
  <2>2. DOMAIN more = 1..Len(more) /\ DOMAIN plans = 1..Len(plans) /\ Len(plans) \in Nat
    BY <2>1, LenProperties
  <2>3. \A k \in DOMAIN plans : plans[k] \in [start : Int, end : Int]
    BY <2>1, <2>2, ElementOfSeq
  <2>4. \A k \in DOMAIN plans : plans[k].start \in Int /\ plans[k].end \in Int
    BY <2>3
  <2> QED
    BY <1>2, <2>2, <2>4
<1> HIDE DEF more
<1>4. more # <<>> /\ more[Len(more)].end = e
  BY <1>1, <1>2, <1>3
<1>5. plans = <<>> <=> Len(plans) = 0
  BY <1>3 DEF Plans
<1>6. more[1].start = 0
  <2>1. CASE Len(plans) = 0
    <3>1. z = 0
      BY <1>5, <2>1 DEF Joined
    <3> QED
      BY <1>1, <1>2, <2>1, <3>1
  <2>2. CASE Len(plans) # 0
    <3>1. plans[1].start = 0
      BY <1>5, <2>2 DEF Joined
    <3> QED
      BY <1>2, <1>3, <2>2, <3>1
  <2> QED
    BY <2>1, <2>2
<1>7. ASSUME NEW k \in DOMAIN more
      PROVE  /\ 0 <= more[k].start /\ more[k].start < more[k].end /\ more[k].end <= e
             /\ k > 1 => more[k].start = more[k - 1].end
  <2>1. CASE k \in 1..Len(plans)
    <3>1. 0 <= plans[k].start /\ plans[k].start < plans[k].end /\ plans[k].end <= z
          /\ (k > 1 => plans[k].start = plans[k - 1].end)
      BY <1>3, <2>1 DEF Joined
    <3>2. more[k] = plans[k] /\ (k > 1 => more[k - 1] = plans[k - 1])
      BY <1>2, <1>3, <2>1
    <3>3. plans[k].end \in Int
      BY <1>3, <2>1
    <3> QED
      BY <3>1, <3>2, <3>3
  <2>2. CASE k = Len(plans) + 1
    <3>1. k > 1 => plans[k - 1].end = z
      BY <1>3, <1>5, <2>2 DEF Joined
    <3>2. k > 1 => more[k - 1] = plans[k - 1]
      BY <1>2, <1>3, <2>2
    <3> QED
      BY <1>1, <1>2, <2>2, <3>1, <3>2
  <2> QED
    BY <1>3, <2>1, <2>2
<1>8. Joined(more, e)
  BY <1>4, <1>6, <1>7 DEF Joined
<1> QED
  BY <1>2, <1>3, <1>8 DEF more, Behind

\* The plan after i texts: what is cut, and what the open batch holds.
Open(acc, i, lens, rows, tokens) ==
  /\ acc \in PlanState
  /\ acc.start \in 0..i /\ acc.rows = i - acc.start
  /\ i = 0 => acc.plans = <<>> /\ acc.longest = 0
  /\ i > 0 => /\ acc.rows > 0 /\ acc.rows <= rows /\ IsLongest(lens, acc.start, i, acc.longest)
              /\ acc.rows = 1 \/ acc.rows * acc.longest <= tokens
  /\ Joined(acc.plans, acc.start)
  /\ \A k \in DOMAIN acc.plans : Room(lens, acc.plans[k], rows, tokens)
                              /\ NoMore(lens, acc.plans[k], rows, tokens)

\* One more text is the longest, or the longest stays.
LEMMA LongestOn ==
  ASSUME NEW lens \in Seq(Nat), NEW a \in Nat, NEW i \in Nat, a < i, i \in 1..Len(lens), NEW l,
         a < i - 1 => IsLongest(lens, a, i - 1, l), a = i - 1 => l = 0
  PROVE  IsLongest(lens, a, i, Most(l, AtLeastOne(lens[i])))
<1> DEFINE L(k) == AtLeastOne(lens[k])
<1>1. \A k \in 1..i : L(k) \in Nat /\ L(k) >= 1
  BY DEF AtLeastOne
<1>2. l \in Nat
  <2>1. a < i - 1 \/ a = i - 1
    OBVIOUS
  <2> QED
    BY <2>1 DEF IsLongest
<1> HIDE DEF L
<1>3. Most(l, L(i)) \in Nat /\ l <= Most(l, L(i)) /\ L(i) <= Most(l, L(i))
      /\ (Most(l, L(i)) = l \/ Most(l, L(i)) = L(i))
  BY <1>1, <1>2 DEF Most
<1>4. i \in (a + 1)..i /\ \A k \in (a + 1)..i : k = i \/ k \in (a + 1)..(i - 1)
  OBVIOUS
<1>5. CASE a = i - 1
  <2>1. \A k \in (a + 1)..i : k = i
    BY <1>5
  <2>2. Most(l, L(i)) = L(i)
    BY <1>1, <1>5 DEF Most
  <2> QED
    BY <1>3, <1>4, <2>1, <2>2 DEF IsLongest, L
<1>6. CASE a < i - 1
  <2>1. /\ \A k \in (a + 1)..(i - 1) : L(k) <= l
        /\ \E k \in (a + 1)..(i - 1) : l = L(k)
    BY <1>6 DEF IsLongest, L
  <2>2. \A k \in (a + 1)..(i - 1) : k \in (a + 1)..i /\ k \in 1..i
    OBVIOUS
  <2>3. \A k \in (a + 1)..i : L(k) <= Most(l, L(i))
    <3> SUFFICES ASSUME NEW k \in (a + 1)..i PROVE L(k) <= Most(l, L(i))
      OBVIOUS
    <3>1. CASE k = i
      BY <1>3, <3>1
    <3>2. CASE k \in (a + 1)..(i - 1)
      <4>1. L(k) <= l /\ L(k) \in Nat
        BY <1>1, <2>1, <2>2, <3>2
      <4> HIDE DEF L
      <4> QED
        BY <1>2, <1>3, <4>1
    <3> QED
      BY <1>4, <3>1, <3>2
  <2>4. \E k \in (a + 1)..i : Most(l, L(i)) = L(k)
    BY <1>3, <1>4, <2>1, <2>2
  <2> DEFINE m == Most(l, L(i))
  <2>5. m \in Nat /\ (\A k \in (a + 1)..i : L(k) <= m) /\ \E k \in (a + 1)..i : m = L(k)
    BY <1>3, <2>3, <2>4
  <2> HIDE DEF m
  <2>6. IsLongest(lens, a, i, m)
    BY <2>5 DEF IsLongest, L
  <2> QED
    BY <2>6 DEF m, L
<1> QED
  BY <1>5, <1>6

\* One more text leaves the plan sound: it joins the open batch if there is room,
\* and is the first of the next if there is none.
LEMMA OpenKept ==
  ASSUME NEW lens \in Seq(Nat), NEW rows \in Nat \ {0}, NEW tokens \in Nat,
         NEW i \in 1..Len(lens), NEW acc, Open(acc, i - 1, lens, rows, tokens)
  PROVE  Open(Planned(acc, i, AtLeastOne(lens[i]), rows, tokens), i, lens, rows, tokens)
<1> DEFINE len == AtLeastOne(lens[i])
           longest == Most(acc.longest, len)
           full == acc.rows > 0 /\ (acc.rows + 1 > rows \/ (acc.rows + 1) * longest > tokens)
           grown == Planned(acc, i, len, rows, tokens)
           open == [start |-> acc.start, end |-> i - 1]
           more == Append(acc.plans, open)
<1>1. len \in Nat /\ len >= 1 /\ i \in Nat /\ i > 0 /\ i - 1 \in Nat
  BY DEF AtLeastOne
<1>2. /\ acc \in PlanState /\ acc.plans \in Plans /\ acc.longest \in Nat
      /\ acc.start \in Nat /\ acc.start <= i - 1 /\ acc.rows = i - 1 - acc.start /\ acc.rows \in Nat
      /\ Joined(acc.plans, acc.start)
      /\ \A k \in DOMAIN acc.plans : Room(lens, acc.plans[k], rows, tokens)
                                  /\ NoMore(lens, acc.plans[k], rows, tokens)
  BY <1>1 DEF Open, PlanState, Plans
<1>3. IF i = 1 THEN acc.plans = <<>> /\ acc.longest = 0
      ELSE acc.rows > 0 /\ acc.rows <= rows /\ IsLongest(lens, acc.start, i - 1, acc.longest)
           /\ (acc.rows = 1 \/ acc.rows * acc.longest <= tokens)
  BY <1>1 DEF Open
<1>4. i = 1 => acc.start = 0 /\ acc.rows = 0
  BY <1>2
<1>5. IsLongest(lens, acc.start, i, longest)
  <2>1. acc.start < i - 1 => IsLongest(lens, acc.start, i - 1, acc.longest)
    BY <1>1, <1>2, <1>3
  <2>2. acc.start = i - 1 => acc.longest = 0
    BY <1>1, <1>2, <1>3
  <2>3. acc.start < i
    BY <1>1, <1>2
  <2> HIDE DEF grown
  <2> QED
    BY <1>1, <1>2, <2>1, <2>2, <2>3, LongestOn
<1>6. longest \in Nat
  BY <1>1, <1>2 DEF Most
<1>7. grown \in PlanState
  <2> HIDE DEF len
  <2> QED
    BY <1>1, <1>2, PlannedType
<1> SUFFICES Open(grown, i, lens, rows, tokens)
  OBVIOUS
<1>8. CASE full
  <2>1. grown = [plans |-> more, start |-> i - 1, rows |-> 1, longest |-> len]
    BY <1>8 DEF Planned
  <2>2. grown.plans = more /\ grown.start = i - 1 /\ grown.rows = 1 /\ grown.longest = len
    <3> HIDE DEF grown, more, len
    <3> QED
      BY <2>1
  <2>3. acc.rows > 0 /\ acc.start < i - 1 /\ i # 1
    BY <1>1, <1>2, <1>4, <1>8
  <2>4. /\ more \in Plans /\ Joined(more, i - 1) /\ Len(more) = Len(acc.plans) + 1
        /\ more[Len(acc.plans) + 1] = open /\ \A k \in DOMAIN acc.plans : more[k] = acc.plans[k]
    <3>1. open \in [start : Int, end : Int] /\ open.start = acc.start /\ open.end = i - 1
      BY <1>1, <1>2
    <3> HIDE DEF grown, full, len, longest, open
    <3>2. 0 <= open.start /\ open.start < open.end /\ Joined(acc.plans, open.start) /\ acc.plans \in Plans
      BY <1>2, <2>3, <3>1
    <3>3. Behind(more, acc.plans, open)
      BY <3>1, <3>2, JoinedOn
    <3> HIDE DEF more
    <3> QED
      BY <3>1, <3>3 DEF Behind
  <2>5. IsLongest(lens, i - 1, i, len)
    <3>1. \A k \in ((i - 1) + 1)..i : k = i
      BY <1>1
    <3>2. i \in ((i - 1) + 1)..i
      BY <1>1
    <3> QED
      BY <1>1, <3>1, <3>2 DEF IsLongest
  <2>6. open.start = acc.start /\ open.end = i - 1
    OBVIOUS
  <2> HIDE DEF open
  <2>7. Room(lens, open, rows, tokens)
    <3>1. i - 1 - acc.start = acc.rows
      BY <1>1, <1>2
    <3>2. acc.rows <= rows /\ IsLongest(lens, acc.start, i - 1, acc.longest)
          /\ (acc.rows = 1 \/ acc.rows * acc.longest <= tokens)
      BY <1>3, <2>3
    <3>3. open.end - open.start = acc.rows
      BY <2>6, <3>1
    <3> QED
      BY <2>6, <3>2, <3>3 DEF Room
  <2>8. NoMore(lens, open, rows, tokens)
    <3>1. open.end - open.start + 1 = acc.rows + 1
      BY <1>1, <1>2, <2>6
    <3>2. open.end + 1 = i
      BY <1>1, <2>6
    <3>3. IsLongest(lens, open.start, open.end + 1, longest)
      BY <1>5, <2>6, <3>2
    <3> HIDE DEF longest
    <3>4. acc.rows + 1 > rows \/ (acc.rows + 1) * longest > tokens
      BY <1>8
    <3> QED
      BY <3>1, <3>3, <3>4 DEF NoMore
  <2>9. \A k \in DOMAIN more : Room(lens, more[k], rows, tokens) /\ NoMore(lens, more[k], rows, tokens)
    <3>1. more \in Seq([start : Int, end : Int]) /\ acc.plans \in Seq([start : Int, end : Int])
      BY <1>2, <2>4 DEF Plans
    <3> HIDE DEF more
    <3>2. DOMAIN more = 1..(Len(acc.plans) + 1) /\ DOMAIN acc.plans = 1..Len(acc.plans) /\ Len(acc.plans) \in Nat
      BY <2>4, <3>1, LenProperties
    <3>3. \A k \in DOMAIN more : k \in DOMAIN acc.plans \/ k = Len(acc.plans) + 1
      BY <3>2
    <3> QED
      BY <1>2, <2>4, <2>7, <2>8, <3>3
  <2>10. grown.start \in 0..i /\ grown.rows = i - grown.start /\ grown.rows > 0 /\ grown.rows <= rows
    BY <1>1, <2>2
  <2> HIDE DEF grown, more, len
  <2> QED
    <3>1. IsLongest(lens, grown.start, i, grown.longest) /\ Joined(grown.plans, grown.start)
      BY <2>2, <2>4, <2>5
    <3>2. \A k \in DOMAIN grown.plans : Room(lens, grown.plans[k], rows, tokens) /\ NoMore(lens, grown.plans[k], rows, tokens)
      BY <2>2, <2>9
    <3>3. i # 0
      BY <1>1
    <3> QED
      BY <1>7, <2>2, <2>10, <3>1, <3>2, <3>3 DEF Open
<1>9. CASE ~ full
  <2>1. grown = [plans |-> acc.plans, start |-> acc.start, rows |-> acc.rows + 1, longest |-> longest]
    BY <1>9 DEF Planned
  <2>2. grown.plans = acc.plans /\ grown.start = acc.start /\ grown.rows = acc.rows + 1 /\ grown.longest = longest
    <3> HIDE DEF grown, longest
    <3> QED
      BY <2>1
  <2>3. grown.start \in 0..i /\ grown.rows = i - grown.start /\ grown.rows > 0
    <3> DEFINE s == acc.start m == acc.rows
    <3>1. grown.start = s /\ grown.rows = m + 1
      BY <2>2
    <3>2. i \in Nat /\ s \in Nat /\ s <= i - 1 /\ m = i - 1 - s /\ m \in Nat
      BY <1>1, <1>2
    <3> HIDE DEF s, m, grown, longest, len
    <3>3. s \in 0..i /\ m + 1 = i - s /\ m + 1 > 0
      BY <3>2
    <3> QED
      BY <3>1, <3>3
  <2>4. acc.rows = 0 => acc.rows + 1 = 1
    OBVIOUS
  <2>5. acc.rows > 0 => acc.rows + 1 <= rows /\ (acc.rows + 1) * longest <= tokens
    <3> HIDE DEF longest
    <3>1. acc.rows > 0 => ~ (acc.rows + 1 > rows) /\ ~ ((acc.rows + 1) * longest > tokens)
      BY <1>9
    <3>2. (acc.rows + 1) * longest \in Int
      BY <1>2, <1>6
    <3> QED
      BY <1>2, <3>1, <3>2
  <2>6. grown.rows <= rows /\ (grown.rows = 1 \/ grown.rows * grown.longest <= tokens)
    <3> HIDE DEF grown, longest
    <3>1. acc.rows = 0 \/ acc.rows > 0
      BY <1>2
    <3> QED
      BY <2>2, <2>4, <2>5, <3>1
  <2> HIDE DEF grown, longest
  <2> QED
    <3>1. IsLongest(lens, grown.start, i, grown.longest) /\ Joined(grown.plans, grown.start)
      BY <1>2, <1>5, <2>2
    <3>2. \A k \in DOMAIN grown.plans : Room(lens, grown.plans[k], rows, tokens) /\ NoMore(lens, grown.plans[k], rows, tokens)
      BY <1>2, <2>2
    <3>3. i # 0
      BY <1>1
    <3> QED
      BY <1>7, <2>3, <2>6, <3>1, <3>2, <3>3 DEF Open
<1> QED
  BY <1>8, <1>9

\* What plan_batches promises: every batch has room for what it holds, and ends
\* only where the next text does not fit.
LEMMA PlansAreSound ==
  ASSUME NEW lens \in Seq(Nat), lens # <<>>, NEW rows \in Nat, NEW tokens \in Nat
  PROVE  LET plans == plan_batches(lens, rows, tokens) IN
         /\ plans \in Plans /\ plans # <<>> /\ Joined(plans, Len(lens))
         /\ \A k \in DOMAIN plans :
              /\ Room(lens, plans[k], AtLeastOne(rows), AtLeastOne(tokens))
              /\ k < Len(plans) => NoMore(lens, plans[k], AtLeastOne(rows), AtLeastOne(tokens))
<1> DEFINE n == Len(lens)
           R == AtLeastOne(rows)
           T == AtLeastOne(tokens)
           all == Whole(lens, rows, tokens)
<1>1. n \in Nat /\ n > 0 /\ R \in Nat \ {0} /\ T \in Nat
  BY DEF AtLeastOne
<1>2. PICK h : /\ h[0] = NoPlans /\ h[n] = all
               /\ \A i \in 1..n : h[i] = Planned(h[i - 1], i, AtLeastOne(lens[i]), R, T)
  <2> HIDE DEF all
  <2> QED
    BY PlanSteps DEF all
<1> DEFINE Good(i) == Open(h[i], i, lens, R, T)
           Bad == {i \in 1..n : ~ Good(i)}
<1> HIDE DEF all, R, T
<1>3. Good(0)
  <2>1. NoPlans \in PlanState
    BY DEF NoPlans, PlanState
  <2>2. NoPlans.plans = <<>> /\ NoPlans.start = 0 /\ NoPlans.rows = 0 /\ NoPlans.longest = 0
    BY DEF NoPlans
  <2> HIDE DEF Bad
  <2> QED
    BY <1>2, <2>1, <2>2 DEF Open, Joined
<1>4. ASSUME NEW i \in 1..n, Good(i - 1) PROVE Good(i)
  <2>1. h[i] = Planned(h[i - 1], i, AtLeastOne(lens[i]), R, T)
    BY <1>2
  <2>2. Open(h[i - 1], i - 1, lens, R, T)
    BY <1>4
  <2> HIDE DEF Bad
  <2>3. Open(Planned(h[i - 1], i, AtLeastOne(lens[i]), R, T), i, lens, R, T)
    BY <1>1, <2>2, OpenKept
  <2> QED
    BY <2>1, <2>3
<1> HIDE DEF Good
<1>5. Bad = {}
  <2> SUFFICES ASSUME Bad # {} PROVE FALSE
    OBVIOUS
  <2>1. Bad \in SUBSET (1..n)
    OBVIOUS
  <2>2. PICK i \in Bad : \A j \in Bad : i <= j
    <3> HIDE DEF Bad
    <3> QED
      BY <1>1, <2>1, EndPlaces
  <2>3. i \in 1..n /\ ~ Good(i)
    BY <2>2
  <2>4. i - 1 \notin Bad
    BY <2>1, <2>2, <2>3
  <2>5. i - 1 = 0 \/ i - 1 \in 1..n
    BY <1>1, <2>3
  <2>6. Good(i - 1)
    BY <1>3, <2>4, <2>5
  <2> QED
    BY <1>4, <2>3, <2>6
<1>6. Open(all, n, lens, R, T)
  <2>1. n \in 1..n
    BY <1>1
  <2>2. Good(n)
    BY <1>5, <2>1
  <2> QED
    BY <1>2, <2>2 DEF Good
<1> DEFINE last == [start |-> all.start, end |-> n]
           plans == Append(all.plans, last)
<1>7. plan_batches(lens, rows, tokens) = plans
  BY DEF plan_batches, Whole, all
<1>8. /\ all.plans \in Plans /\ all.start \in Nat /\ all.start < n /\ all.rows = n - all.start
      /\ all.rows <= R /\ IsLongest(lens, all.start, n, all.longest)
      /\ (all.rows = 1 \/ all.rows * all.longest <= T)
      /\ Joined(all.plans, all.start)
      /\ \A k \in DOMAIN all.plans : Room(lens, all.plans[k], R, T) /\ NoMore(lens, all.plans[k], R, T)
  BY <1>1, <1>6 DEF Open, PlanState, Plans
<1>9. /\ plans \in Plans /\ Joined(plans, n) /\ Len(plans) = Len(all.plans) + 1
      /\ plans[Len(all.plans) + 1] = last /\ \A k \in DOMAIN all.plans : plans[k] = all.plans[k]
  <2>1. last \in [start : Int, end : Int] /\ last.start = all.start /\ last.end = n
    BY <1>1, <1>8
  <2> HIDE DEF last
  <2>2. Behind(plans, all.plans, last)
    BY <1>1, <1>8, <2>1, JoinedOn
  <2> HIDE DEF plans
  <2> QED
    BY <2>1, <2>2 DEF Behind
<1>10. Room(lens, last, R, T)
  <2>1. last.start = all.start /\ last.end = n
    OBVIOUS
  <2> HIDE DEF last
  <2> QED
    BY <1>8, <2>1 DEF Room
<1> HIDE DEF last, plans
<1>11. DOMAIN plans = 1..(Len(all.plans) + 1) /\ DOMAIN all.plans = 1..Len(all.plans) /\ Len(all.plans) \in Nat
  <2>1. plans \in Seq([start : Int, end : Int]) /\ all.plans \in Seq([start : Int, end : Int])
    BY <1>8, <1>9 DEF Plans
  <2> QED
    BY <1>9, <2>1, LenProperties
<1>12. ASSUME NEW k \in DOMAIN plans
       PROVE  Room(lens, plans[k], R, T) /\ (k < Len(plans) => NoMore(lens, plans[k], R, T))
  <2>1. k \in DOMAIN all.plans \/ (k = Len(all.plans) + 1 /\ ~ (k < Len(plans)))
    BY <1>9, <1>11
  <2> QED
    BY <1>8, <1>9, <1>10, <2>1
<1>13. plans # <<>>
  BY <1>9, <1>11
<1> QED
  BY <1>7, <1>9, <1>12, <1>13 DEF R, T

-----------------------------------------------------------------------------
(* Batches of as many rows as a session has.                               *)

\* The least number of rows of a height that hold n texts.
LEMMA HeightsNeeded ==
  ASSUME NEW n \in Nat, n > 0, NEW H \in Nat \ {0}
  PROVE  LET m == (n + H - 1) \div H IN m \in Nat /\ m > 0 /\ (m - 1) * H < n /\ n <= m * H
<1> DEFINE whole == n + H - 1
           m == whole \div H
<1>1. whole \in Nat /\ whole >= H
  OBVIOUS
<1> HIDE DEF whole
<1>2. m \in Nat /\ m * H <= whole /\ whole < m * H + H
  BY <1>1, SMTT(30)
<1>3. (m - 1) * H = m * H - H
  BY <1>2, SMTT(30)
<1>4. m # 0
  BY <1>1, <1>2, SMTT(30)
<1>5. m * H \in Nat
  BY <1>2, SMTT(30)
<1> HIDE DEF m
<1>6. (m - 1) * H < n /\ n <= m * H /\ m > 0
  <2> DEFINE p == m * H
  <2>1. p \in Nat /\ p <= whole /\ whole < p + H /\ (m - 1) * H = p - H
    BY <1>2, <1>3, <1>5
  <2> HIDE DEF p
  <2>2. (m - 1) * H < n /\ n <= p
    BY <2>1 DEF whole
  <2> QED
    BY <1>2, <1>4, <2>2 DEF p
<1> QED
  BY <1>2, <1>6 DEF m, whole

\* Multiplying keeps the order.
LEMMA TimesKeepsOrder ==
  ASSUME NEW a \in Nat, NEW b \in Nat, a <= b, NEW H \in Nat
  PROVE  a * H <= b * H /\ a * H \in Nat /\ b * H \in Nat
<1>1. PICK d \in Nat : b = a + d
  <2>1. b - a \in Nat /\ b = a + (b - a)
    OBVIOUS
  <2> QED
    BY <2>1
<1>2. b * H = a * H + d * H
  BY <1>1, SMTT(30)
<1>3. a * H \in Nat /\ d * H \in Nat
  BY SMTT(30)
<1> QED
  BY <1>2, <1>3

\* What plan_fixed_rows promises: batches of the height, but for the last.
LEMMA FixedRowsAreSound ==
  ASSUME NEW n \in Nat, n > 0, NEW rows \in Nat
  PROVE  LET plans == plan_fixed_rows(n, rows) IN
         /\ plans \in Plans /\ plans # <<>> /\ Joined(plans, n)
         /\ \A k \in DOMAIN plans :
              /\ plans[k].end - plans[k].start <= AtLeastOne(rows)
              /\ k < Len(plans) => plans[k].end - plans[k].start = AtLeastOne(rows)
<1> DEFINE H == AtLeastOne(rows)
           m == (n + H - 1) \div H
           plans == plan_fixed_rows(n, rows)
<1>1. H \in Nat \ {0}
  BY DEF AtLeastOne
<1>2. plans = [k \in 1..m |-> [start |-> (k - 1) * H, end |-> Fewest(k * H, n)]]
  BY DEF plan_fixed_rows
<1> HIDE DEF H, plans
<1>3. m \in Nat /\ m > 0 /\ (m - 1) * H < n /\ n <= m * H
  BY <1>1, HeightsNeeded
<1> HIDE DEF m
<1>4. ASSUME NEW k \in 1..m
      PROVE  /\ (k - 1) * H \in Nat /\ k * H \in Nat /\ k * H = (k - 1) * H + H
             /\ (k - 1) * H < n /\ (k < m => k * H < n)
  <2>1. k * H = (k - 1) * H + H
    BY <1>1, SMTT(30)
  <2>2. k - 1 \in Nat /\ k \in Nat /\ k - 1 <= m - 1 /\ m - 1 \in Nat
    BY <1>3
  <2>3. (k - 1) * H <= (m - 1) * H /\ (k - 1) * H \in Nat /\ (m - 1) * H \in Nat
    BY <1>1, <2>2, TimesKeepsOrder
  <2>4. k < m => k <= m - 1
    BY <1>3
  <2>5. k < m => k * H <= (m - 1) * H
    BY <1>1, <2>2, <2>4, TimesKeepsOrder
  <2>6. k * H \in Nat
    BY <1>1, <2>1, <2>3
  <2> DEFINE a == (k - 1) * H
             b == k * H
             c == (m - 1) * H
  <2>7. a \in Nat /\ b \in Nat /\ c \in Nat /\ b = a + H /\ a <= c /\ c < n /\ (k < m => b <= c)
    BY <1>3, <2>1, <2>3, <2>5, <2>6
  <2> HIDE DEF a, b, c
  <2>8. a < n /\ (k < m => b < n)
    BY <2>7
  <2> QED
    BY <2>1, <2>3, <2>6, <2>8 DEF a, b
<1>5. ASSUME NEW k \in 1..m
      PROVE  /\ plans[k] \in [start : Int, end : Int]
             /\ plans[k].start = (k - 1) * H /\ plans[k].end = Fewest(k * H, n)
             /\ plans[k].end \in Nat /\ plans[k].start < plans[k].end /\ plans[k].end <= n
             /\ plans[k].end - plans[k].start <= H
             /\ k < m => plans[k].end - plans[k].start = H
             /\ k < m => plans[k].end = k * H
  <2> DEFINE a == (k - 1) * H
             b == k * H
  <2>1. a \in Nat /\ b \in Nat /\ b = a + H /\ a < n /\ (k < m => b < n)
    BY <1>4
  <2>2. plans[k] = [start |-> a, end |-> Fewest(b, n)]
    BY <1>2
  <2> HIDE DEF a, b
  <2>3. Fewest(b, n) \in Nat /\ a < Fewest(b, n) /\ Fewest(b, n) <= n /\ Fewest(b, n) - a <= H
        /\ (k < m => Fewest(b, n) = b /\ Fewest(b, n) - a = H)
    BY <1>1, <2>1 DEF Fewest
  <2>4. plans[k] \in [start : Int, end : Int] /\ plans[k].start = a /\ plans[k].end = Fewest(b, n)
    BY <2>1, <2>2, <2>3
  <2>5. /\ plans[k].start < plans[k].end /\ plans[k].end <= n
        /\ plans[k].end - plans[k].start <= H
        /\ k < m => plans[k].end - plans[k].start = H
        /\ k < m => plans[k].end = b
    BY <2>3, <2>4
  <2> QED
    BY <2>3, <2>4, <2>5 DEF a, b
<1>6. plans \in Plans /\ Len(plans) = m /\ DOMAIN plans = 1..m
  <2>1. plans \in [1..m -> [start : Int, end : Int]]
    BY <1>2, <1>5
  <2>2. plans \in Seq([start : Int, end : Int])
    <3> DEFINE Plan == [start : Int, end : Int]
    <3> HIDE DEF Plan
    <3>1. plans \in [1..m -> Plan] /\ m \in Nat
      BY <1>3, <2>1 DEF Plan
    <3>2. plans \in Seq(Plan)
      BY <3>1, SeqDef
    <3> QED
      BY <3>2 DEF Plan
  <2>3. DOMAIN plans = 1..m
    BY <2>1
  <2> QED
    BY <1>3, <2>2, <2>3, LenProperties DEF Plans
<1>7. ASSUME NEW k \in 1..m, k > 1 PROVE plans[k].start = plans[k - 1].end
  <2>1. k - 1 \in 1..m /\ k - 1 < m
    BY <1>3, <1>7
  <2>2. plans[k - 1].end = (k - 1) * H
    BY <1>5, <2>1
  <2> QED
    BY <1>5, <2>2
<1>8. plans[1].start = 0
  <2>1. 1 \in 1..m
    BY <1>3
  <2>2. plans[1].start = (1 - 1) * H
    BY <1>5, <2>1
  <2>3. (1 - 1) * H = 0
    BY <1>1
  <2> QED
    BY <2>2, <2>3
<1>9. plans[m].end = n
  <2>1. m \in 1..m
    BY <1>3
  <2>2. plans[m].end = Fewest(m * H, n)
    BY <1>5, <2>1
  <2> DEFINE b == m * H
  <2>3. b \in Nat /\ n <= b
    BY <1>3, <1>4, <2>1
  <2> HIDE DEF b
  <2>4. Fewest(b, n) = n
    BY <2>3 DEF Fewest
  <2> QED
    BY <2>2, <2>4 DEF b
<1>10. \A k \in 1..m : 0 <= plans[k].start
  BY <1>4, <1>5
<1>11. plans # <<>>
  BY <1>3, <1>6
<1>12. Joined(plans, n)
  BY <1>5, <1>6, <1>7, <1>8, <1>9, <1>10, <1>11 DEF Joined
<1>13. \A k \in DOMAIN plans : /\ plans[k].end - plans[k].start <= H
                               /\ k < Len(plans) => plans[k].end - plans[k].start = H
  BY <1>5, <1>6
<1> QED
  BY <1>6, <1>11, <1>12, <1>13 DEF plans, H

-----------------------------------------------------------------------------
(* The order of the inputs.                                                *)

Input == [index : Nat, len : Nat]

\* Each of n texts is in one place of a sequence of inputs.
EachIn(inputs, n) ==
  /\ inputs \in Seq(Input) /\ Len(inputs) = n
  /\ \A k \in 1..n : inputs[k].index \in 0..(n - 1)
  /\ \A j, k \in 1..n : inputs[j].index = inputs[k].index => j = k
  /\ \A i \in 0..(n - 1) : \E k \in 1..n : inputs[k].index = i

\* The inputs as they come hold each text once.
LEMMA InputsAreEach ==
  ASSUME NEW lens \in Seq(Nat)
  PROVE  EachIn(Inputs(lens), Len(lens))
<1> DEFINE n == Len(lens)
           inputs == Inputs(lens)
<1>1. n \in Nat /\ DOMAIN lens = 1..n /\ \A i \in 1..n : lens[i] \in Nat
  BY LenProperties, ElementOfSeq
<1> HIDE DEF n
<1>2. inputs = [i \in 1..n |-> [index |-> i - 1, len |-> lens[i]]]
  BY <1>1 DEF Inputs
<1> HIDE DEF inputs
<1>3. \A i \in 1..n : inputs[i] = [index |-> i - 1, len |-> lens[i]] /\ i - 1 \in Nat /\ lens[i] \in Nat
  BY <1>1, <1>2
<1>4. \A i \in 1..n : inputs[i] \in Input /\ inputs[i].index = i - 1
  <2> SUFFICES ASSUME NEW i \in 1..n PROVE inputs[i] \in Input /\ inputs[i].index = i - 1
    OBVIOUS
  <2>1. inputs[i] = [index |-> i - 1, len |-> lens[i]] /\ i - 1 \in Nat /\ lens[i] \in Nat
    BY <1>3
  <2> QED
    BY <2>1 DEF Input
<1>5. inputs \in [1..n -> Input] /\ DOMAIN inputs = 1..n
  BY <1>2, <1>4
<1>6. inputs \in Seq(Input) /\ Len(inputs) = n
  <2>1. inputs \in Seq(Input)
    BY <1>1, <1>5, SeqDef
  <2> QED
    BY <1>1, <1>5, <2>1, LenProperties
<1>7. \A i \in 0..(n - 1) : i + 1 \in 1..n /\ inputs[i + 1].index = i
  BY <1>1, <1>4
<1>8. /\ \A k \in 1..n : inputs[k].index \in 0..(n - 1)
      /\ \A j, k \in 1..n : inputs[j].index = inputs[k].index => j = k
  BY <1>1, <1>4
<1> QED
  BY <1>6, <1>7, <1>8 DEF EachIn, inputs, n

\* Sorting by rank keeps every input: each rank below the number of the inputs is one's.
LEMMA SortedAreEach ==
  ASSUME NEW n \in Nat, NEW inputs, EachIn(inputs, n)
  PROVE  EachIn(sort_inputs(inputs), n) /\ ToSet(sort_inputs(inputs)) \subseteq ToSet(inputs)
<1> DEFINE S == ToSet(inputs)
           below(a) == {b \in S : Shorter(b, a)}
           Standing(a) == Cardinality(below(a))
           sorted == sort_inputs(inputs)
<1>1. /\ inputs \in [1..n -> Input]
      /\ \A k \in 1..n : inputs[k].index \in 0..(n - 1)
      /\ \A j, k \in 1..n : inputs[j].index = inputs[k].index => j = k
      /\ \A i \in 0..(n - 1) : \E k \in 1..n : inputs[k].index = i
  BY LenProperties DEF EachIn
<1>2. S = {inputs[k] : k \in 1..n}
  BY <1>1 DEF ToSet
<1>3. IsFiniteSet(S) /\ Cardinality(S) = n
  <2>1. IsFiniteSet(1..n) /\ Cardinality(1..n) = n
    BY FS_Interval
  <2>2. inputs \in Bijection(1..n, S)
    <3>1. inputs \in [1..n -> S]
      BY <1>1, <1>2
    <3>2. \A j, k \in 1..n : inputs[j] = inputs[k] => j = k
      BY <1>1
    <3>3. \A s \in S : \E k \in 1..n : inputs[k] = s
      BY <1>2
    <3> HIDE DEF S
    <3> QED
      BY <3>1, <3>2, <3>3 DEF Bijection, Injection, IsInjective, Surjection
  <2> HIDE DEF S
  <2> QED
    BY <2>1, <2>2, FS_Bijection DEF ExistsBijection
<1>4. \A a \in S : a.len \in Nat /\ a.index \in 0..(n - 1) /\ a \in Input
  <2>1. \A k \in 1..n : inputs[k] \in Input
    BY <1>1
  <2> QED
    <3>1. \A x \in Input : x.len \in Nat
      BY DEF Input
    <3> QED
      BY <1>1, <1>2, <2>1, <3>1
<1>5. \A a, b \in S : a.index = b.index => a = b
  BY <1>1, <1>2
<1> HIDE DEF S
<1>6. \A a \in S : ~ Shorter(a, a)
  BY <1>4 DEF Shorter
<1>7. \A a, b, c \in S : Shorter(a, b) /\ Shorter(b, c) => Shorter(a, c)
  BY <1>4 DEF Shorter
<1>8. \A a, b \in S : a # b => Shorter(a, b) \/ Shorter(b, a)
  BY <1>4, <1>5 DEF Shorter
<1>9. ASSUME NEW a \in S
      PROVE  IsFiniteSet(below(a)) /\ Standing(a) \in Nat /\ Standing(a) < n
  <2>1. below(a) \in SUBSET (S \ {a})
    BY <1>6
  <2>2. IsFiniteSet(S \ {a}) /\ Cardinality(S \ {a}) = n - 1
    BY <1>3, FS_RemoveElement
  <2> HIDE DEF below
  <2>3. IsFiniteSet(below(a)) /\ Cardinality(below(a)) <= n - 1
    BY <2>1, <2>2, FS_Subset
  <2>4. Cardinality(below(a)) \in Nat
    BY <2>3, FS_CardinalityType
  <2> QED
    BY <2>3, <2>4
<1>10. ASSUME NEW a \in S, NEW b \in S, Shorter(a, b) PROVE Standing(a) < Standing(b)
  <2>1. below(a) \cup {a} \in SUBSET below(b) /\ a \notin below(a)
    BY <1>6, <1>7, <1>10
  <2> HIDE DEF below
  <2>2. Cardinality(below(a) \cup {a}) = Standing(a) + 1
    BY <1>9, <2>1, FS_AddElement
  <2>3. Cardinality(below(a) \cup {a}) <= Standing(b)
    BY <1>9, <2>1, FS_Subset
  <2> QED
    BY <1>9, <2>2, <2>3
<1>11. \A a, b \in S : Standing(a) = Standing(b) => a = b
  <2> SUFFICES ASSUME NEW a \in S, NEW b \in S, Standing(a) = Standing(b), a # b PROVE FALSE
    OBVIOUS
  <2> HIDE DEF Standing, below
  <2>1. Standing(a) \in Nat /\ Standing(b) \in Nat
    BY <1>9
  <2>2. Standing(a) < Standing(b) \/ Standing(b) < Standing(a)
    BY <1>8, <1>10
  <2> QED
    BY <2>1, <2>2
<1> DEFINE f == [a \in S |-> Standing(a)]
<1>12. f \in Surjection(S, 0..(n - 1))
  <2>1. IsFiniteSet(0..(n - 1)) /\ Cardinality(0..(n - 1)) = n
    BY FS_Interval
  <2>2. f \in [S -> 0..(n - 1)]
    <3> HIDE DEF Standing, below
    <3>1. \A a \in S : Standing(a) \in 0..(n - 1)
      BY <1>9
    <3> QED
      BY <3>1
  <2>3. f \in Injection(S, 0..(n - 1))
    <3>1. \A a, b \in S : f[a] = f[b] => a = b
      <4> HIDE DEF Standing
      <4> QED
        BY <1>11
    <3> HIDE DEF f
    <3> QED
      BY <2>2, <3>1 DEF Injection, IsInjective
  <2> HIDE DEF f
  <2> QED
    BY <1>3, <2>1, <2>3, FS_Injection
<1>13. \A i \in 0..(n - 1) : \E a \in S : Standing(a) = i
  <2>1. \A i \in 0..(n - 1) : \E a \in S : f[a] = i
    <3> HIDE DEF f
    <3> QED
      BY <1>12 DEF Surjection
  <2> HIDE DEF Standing
  <2> QED
    BY <2>1
<1>14. sorted = [k \in 1..n |-> CHOOSE a \in S : Standing(a) = k - 1]
  BY <1>1 DEF sort_inputs, S
<1> HIDE DEF Standing, sorted
<1>15. \A k \in 1..n : sorted[k] \in S /\ Standing(sorted[k]) = k - 1
  <2> SUFFICES ASSUME NEW k \in 1..n PROVE sorted[k] \in S /\ Standing(sorted[k]) = k - 1
    OBVIOUS
  <2>1. k - 1 \in 0..(n - 1)
    OBVIOUS
  <2>2. \E a \in S : Standing(a) = k - 1
    BY <1>13, <2>1
  <2> QED
    BY <1>14, <2>2
<1>16. \A j, k \in 1..n : sorted[j] = sorted[k] => j = k
  <2> SUFFICES ASSUME NEW j \in 1..n, NEW k \in 1..n, sorted[j] = sorted[k] PROVE j = k
    OBVIOUS
  <2>1. j - 1 = k - 1
    BY <1>15
  <2> QED
    BY <2>1
<1>17. \A a \in S : \E k \in 1..n : sorted[k] = a
  <2> SUFFICES ASSUME NEW a \in S PROVE \E k \in 1..n : sorted[k] = a
    OBVIOUS
  <2>1. Standing(a) \in Nat /\ Standing(a) < n
    BY <1>9
  <2>2. Standing(a) + 1 \in 1..n /\ (Standing(a) + 1) - 1 = Standing(a)
    BY <2>1
  <2> DEFINE k == Standing(a) + 1
  <2>3. sorted[k] \in S /\ Standing(sorted[k]) = Standing(a)
    BY <1>15, <2>2
  <2>4. sorted[k] = a
    <3> HIDE DEF k
    <3> QED
      BY <1>11, <2>3
  <2> QED
    BY <2>2, <2>4
<1>18. sorted \in Seq(Input) /\ Len(sorted) = n
  <2>1. sorted \in [1..n -> Input] /\ DOMAIN sorted = 1..n
    <3>1. \A k \in 1..n : sorted[k] \in Input
      BY <1>4, <1>15
    <3> QED
      BY <1>14, <3>1
  <2>2. sorted \in Seq(Input)
    BY <2>1, SeqDef
  <2> QED
    BY <2>1, <2>2, LenProperties
<1>19. \A k \in 1..n : sorted[k].index \in 0..(n - 1)
  BY <1>4, <1>15
<1>20. \A j, k \in 1..n : sorted[j].index = sorted[k].index => j = k
  BY <1>5, <1>15, <1>16
<1>21. \A i \in 0..(n - 1) : \E k \in 1..n : sorted[k].index = i
  <2>1. \A i \in 0..(n - 1) : \E a \in S : a.index = i
    BY <1>1, <1>2
  <2> QED
    BY <1>17, <2>1
<1>22. DOMAIN sorted = 1..n /\ ToSet(sorted) \subseteq S
  <2>1. DOMAIN sorted = 1..n
    BY <1>14
  <2> QED
    BY <1>15, <2>1 DEF ToSet
<1> QED
  BY <1>18, <1>19, <1>20, <1>21, <1>22 DEF EachIn, sorted, S

-----------------------------------------------------------------------------
(* The cuts.                                                               *)

\* Each of n texts is in one place of one batch.
SpreadOver(bs, n) ==
  /\ bs \in Seq(Seq(Input)) /\ \A b \in DOMAIN bs : bs[b] # <<>>
  /\ \A b \in DOMAIN bs : \A k \in DOMAIN bs[b] : bs[b][k].index \in 0..(n - 1)
  /\ \A b, c \in DOMAIN bs : \A j \in DOMAIN bs[b], k \in DOMAIN bs[c] :
       bs[b][j].index = bs[c][k].index => b = c /\ j = k
  /\ \A i \in 0..(n - 1) : \E b \in DOMAIN bs : \E k \in DOMAIN bs[b] : bs[b][k].index = i

\* A batch is the inputs of its plan.
CutBy(bs, inputs, plans) ==
  /\ Len(bs) = Len(plans) /\ DOMAIN bs = 1..Len(plans)
  /\ \A b \in DOMAIN bs :
       /\ bs[b] \in Seq(Input) /\ Len(bs[b]) = plans[b].end - plans[b].start
       /\ \A k \in 1..(plans[b].end - plans[b].start) : bs[b][k] = inputs[plans[b].start + k]

\* What a plan that is joined looks like.
LEMMA PlansAreTyped ==
  ASSUME NEW plans \in Plans, NEW n \in Nat, Joined(plans, n)
  PROVE  /\ Len(plans) \in Nat /\ DOMAIN plans = 1..Len(plans)
         /\ \A b \in 1..Len(plans) :
              /\ plans[b].start \in Nat /\ plans[b].end \in Nat
              /\ plans[b].start < plans[b].end /\ plans[b].end <= n
              /\ b > 1 => plans[b].start = plans[b - 1].end
<1>1. Len(plans) \in Nat /\ DOMAIN plans = 1..Len(plans)
  BY LenProperties DEF Plans
<1>2. \A b \in 1..Len(plans) : plans[b] \in [start : Int, end : Int]
  BY <1>1, ElementOfSeq DEF Plans
<1>3. \A b \in 1..Len(plans) : plans[b].start \in Int /\ plans[b].end \in Int
  BY <1>2
<1> QED
  BY <1>1, <1>3 DEF Joined

\* A later batch starts behind an earlier one.
LEMMA PlansAreOrdered ==
  ASSUME NEW plans \in Plans, NEW n \in Nat, Joined(plans, n)
  PROVE  \A b, c \in 1..Len(plans) : b < c => plans[b].end <= plans[c].start
<1> DEFINE L == Len(plans)
<1>1. /\ L \in Nat
      /\ \A b \in 1..L : /\ plans[b].start \in Nat /\ plans[b].end \in Nat
                         /\ plans[b].start < plans[b].end
                         /\ b > 1 => plans[b].start = plans[b - 1].end
  BY PlansAreTyped
<1> HIDE DEF L
<1> SUFFICES ASSUME NEW b \in 1..L
             PROVE  \A c \in 1..L : b < c => plans[b].end <= plans[c].start
  BY DEF L
<1> DEFINE Bad == {c \in 1..L : b < c /\ ~ (plans[b].end <= plans[c].start)}
<1> SUFFICES ASSUME Bad # {} PROVE FALSE
  OBVIOUS
<1>2. Bad \in SUBSET (1..L)
  OBVIOUS
<1>3. PICK c \in Bad : \A d \in Bad : c <= d
  <2> HIDE DEF Bad
  <2> QED
    BY <1>1, <1>2, EndPlaces
<1>4. c \in 1..L /\ b < c /\ ~ (plans[b].end <= plans[c].start) /\ c - 1 \notin Bad
  <2>1. c - 1 \notin Bad
    BY <1>1, <1>2, <1>3
  <2> QED
    BY <1>3, <2>1
<1>5. plans[c].start = plans[c - 1].end
  BY <1>1, <1>4
<1>6. c - 1 # b
  BY <1>1, <1>4, <1>5
<1>7. c - 1 \in 1..L /\ b < c - 1
  BY <1>1, <1>4, <1>6
<1>8. plans[b].end <= plans[c - 1].start
  BY <1>4, <1>7
<1> HIDE DEF Bad
<1> QED
  BY <1>1, <1>4, <1>5, <1>7, <1>8

\* Cutting gives each batch the inputs of its plan.
LEMMA CutIsCut ==
  ASSUME NEW n \in Nat, NEW inputs, inputs \in Seq(Input), Len(inputs) = n,
         NEW plans \in Plans, Joined(plans, n)
  PROVE  CutBy(Cut(inputs, plans), inputs, plans) /\ Cut(inputs, plans) \in Seq(Seq(Input))
<1> DEFINE bs == Cut(inputs, plans)
           L == Len(plans)
<1>1. /\ L \in Nat /\ DOMAIN plans = 1..L
      /\ \A b \in 1..L : /\ plans[b].start \in Nat /\ plans[b].end \in Nat
                         /\ plans[b].start < plans[b].end /\ plans[b].end <= n
  BY PlansAreTyped
<1> HIDE DEF L
<1>2. bs = [b \in 1..L |-> SubSeq(inputs, plans[b].start + 1, plans[b].end)]
  BY <1>1 DEF Cut
<1> HIDE DEF bs
<1>3. ASSUME NEW b \in 1..L
      PROVE  /\ bs[b] \in Seq(Input) /\ Len(bs[b]) = plans[b].end - plans[b].start
             /\ \A k \in 1..(plans[b].end - plans[b].start) : bs[b][k] = inputs[plans[b].start + k]
  <2> DEFINE s == plans[b].start + 1
             e == plans[b].end
  <2>1. s \in Nat /\ e \in Nat /\ s <= e /\ s \in 1..n /\ e \in 1..n /\ s \in 1..(Len(inputs) + 1) /\ e \in (s-1)..Len(inputs)
    BY <1>1
  <2>2. bs[b] = SubSeq(inputs, s, e)
    BY <1>2
  <2>3. plans[b].start \in Nat /\ plans[b].start = s - 1
    BY <1>1
  <2> HIDE DEF s, e
  <2>4. /\ SubSeq(inputs, s, e) \in Seq(Input)
        /\ Len(SubSeq(inputs, s, e)) = e - s + 1
        /\ \A k \in 1..(e - s + 1) : SubSeq(inputs, s, e)[k] = inputs[s + k - 1]
    BY <2>1, SubSeqProperties
  <2>5. e - s + 1 = e - plans[b].start
    BY <2>1, <2>3
  <2>6. \A k \in 1..(e - s + 1) : s + k - 1 = plans[b].start + k
    BY <2>1, <2>3
  <2>7. \A k \in 1..(e - plans[b].start) : bs[b][k] = inputs[plans[b].start + k]
    BY <2>2, <2>4, <2>5, <2>6
  <2>8. bs[b] \in Seq(Input) /\ Len(bs[b]) = e - plans[b].start
    BY <2>2, <2>4, <2>5
  <2> QED
    BY <2>7, <2>8 DEF e
<1>4. bs \in Seq(Seq(Input)) /\ Len(bs) = L /\ DOMAIN bs = 1..L
  <2>1. bs \in [1..L -> Seq(Input)] /\ DOMAIN bs = 1..L
    BY <1>2, <1>3
  <2>2. bs \in Seq(Seq(Input))
    BY <1>1, <2>1, SeqDef
  <2> QED
    BY <1>1, <2>1, <2>2, LenProperties
<1> QED
  BY <1>3, <1>4 DEF CutBy, bs, L

\* Batches cut from inputs that hold each text once hold each text once.
LEMMA CutSpreads ==
  ASSUME NEW n \in Nat, NEW inputs, EachIn(inputs, n), NEW plans \in Plans, Joined(plans, n)
  PROVE  SpreadOver(Cut(inputs, plans), n)
<1> DEFINE bs == Cut(inputs, plans)
           L == Len(plans)
<1>1. /\ L \in Nat /\ DOMAIN plans = 1..L
      /\ \A b \in 1..L : /\ plans[b].start \in Nat /\ plans[b].end \in Nat
                         /\ plans[b].start < plans[b].end /\ plans[b].end <= n
                         /\ b > 1 => plans[b].start = plans[b - 1].end
  BY PlansAreTyped
<1>2. \A b, c \in 1..L : b < c => plans[b].end <= plans[c].start
  BY PlansAreOrdered
<1>3. CutBy(bs, inputs, plans) /\ bs \in Seq(Seq(Input))
  BY CutIsCut DEF EachIn
<1> HIDE DEF bs, L
<1>4. DOMAIN bs = 1..L
  BY <1>3 DEF CutBy, L
<1>5. ASSUME NEW b \in 1..L
      PROVE  /\ bs[b] # <<>> /\ DOMAIN bs[b] = 1..(plans[b].end - plans[b].start)
             /\ \A k \in DOMAIN bs[b] : /\ bs[b][k] = inputs[plans[b].start + k]
                                        /\ plans[b].start + k \in 1..n
  <2>1. bs[b] \in Seq(Input) /\ Len(bs[b]) = plans[b].end - plans[b].start
    BY <1>3, <1>4 DEF CutBy
  <2>2. DOMAIN bs[b] = 1..(plans[b].end - plans[b].start)
    BY <2>1, LenProperties
  <2>3. plans[b].end - plans[b].start > 0
    BY <1>1
  <2>4. bs[b] # <<>>
    BY <2>1, <2>3
  <2>5. \A k \in 1..(plans[b].end - plans[b].start) : plans[b].start + k \in 1..n
    BY <1>1
  <2> QED
    BY <1>3, <1>4, <2>2, <2>4, <2>5 DEF CutBy
<1>6. /\ \A k \in 1..n : inputs[k].index \in 0..(n - 1)
      /\ \A j, k \in 1..n : inputs[j].index = inputs[k].index => j = k
      /\ \A i \in 0..(n - 1) : \E k \in 1..n : inputs[k].index = i
  BY DEF EachIn
<1>7. ASSUME NEW b \in 1..L, NEW c \in 1..L, NEW j \in DOMAIN bs[b], NEW k \in DOMAIN bs[c],
             bs[b][j].index = bs[c][k].index
      PROVE  b = c /\ j = k
  <2>1. plans[b].start + j = plans[c].start + k
    <3>1. bs[b][j] = inputs[plans[b].start + j] /\ plans[b].start + j \in 1..n
      BY <1>5
    <3>2. bs[c][k] = inputs[plans[c].start + k] /\ plans[c].start + k \in 1..n
      BY <1>5
    <3>3. inputs[plans[b].start + j].index = inputs[plans[c].start + k].index
      BY <1>7, <3>1, <3>2
    <3> QED
      BY <1>6, <3>1, <3>2, <3>3
  <2>2. /\ j \in 1..(plans[b].end - plans[b].start) /\ k \in 1..(plans[c].end - plans[c].start)
    BY <1>5
  <2>3. ~ (b < c)
    BY <1>1, <1>2, <2>1, <2>2
  <2>4. ~ (c < b)
    BY <1>1, <1>2, <2>1, <2>2
  <2>5. b = c
    BY <1>1, <2>3, <2>4
  <2> QED
    BY <1>1, <2>1, <2>2, <2>5
<1>8. ASSUME NEW p \in 1..n
      PROVE  \E b \in 1..L : \E k \in DOMAIN bs[b] : p = plans[b].start + k
  <2> DEFINE After == {b \in 1..L : p <= plans[b].end}
  <2>0. plans # <<>> /\ plans[L].end = n /\ plans[1].start = 0
    BY DEF Joined, L
  <2>1. L > 0
    BY <1>1, <2>0 DEF Plans, L
  <2>2. L \in After
    BY <1>1, <2>0, <2>1
  <2>3. After \in SUBSET (1..L) /\ After # {}
    BY <2>2
  <2>4. PICK b \in After : \A c \in After : b <= c
    <3> HIDE DEF After
    <3> QED
      BY <1>1, <2>3, EndPlaces
  <2>5. b \in 1..L /\ p <= plans[b].end
    BY <2>4
  <2>6. b > 1 => plans[b - 1].end < p
    <3> SUFFICES ASSUME b > 1 PROVE plans[b - 1].end < p
      OBVIOUS
    <3>1. b - 1 \in 1..L /\ ~ (b <= b - 1)
      BY <1>1, <2>5
    <3>2. b - 1 \notin After
      BY <2>4, <3>1
    <3>3. ~ (p <= plans[b - 1].end)
      BY <3>1, <3>2
    <3> QED
      BY <1>1, <3>1, <3>3
  <2> HIDE DEF After
  <2>7. plans[b].start < p
    <3>1. CASE b = 1
      BY <2>0, <3>1
    <3>2. CASE b # 1
      <4>1. b > 1
        BY <1>1, <2>5, <3>2
      <4> QED
        BY <1>1, <2>5, <2>6, <4>1
    <3> QED
      BY <3>1, <3>2
  <2> DEFINE k == p - plans[b].start
  <2>8. k \in 1..(plans[b].end - plans[b].start) /\ p = plans[b].start + k
    BY <1>1, <2>5, <2>7
  <2> HIDE DEF k
  <2>9. k \in DOMAIN bs[b]
    BY <1>5, <2>5, <2>8
  <2> QED
    BY <2>5, <2>8, <2>9
<1>9. \A i \in 0..(n - 1) : \E b \in 1..L : \E k \in DOMAIN bs[b] : bs[b][k].index = i
  <2> SUFFICES ASSUME NEW i \in 0..(n - 1)
               PROVE  \E b \in 1..L : \E k \in DOMAIN bs[b] : bs[b][k].index = i
    OBVIOUS
  <2>1. PICK p \in 1..n : inputs[p].index = i
    BY <1>6
  <2>2. PICK b \in 1..L : \E k \in DOMAIN bs[b] : p = plans[b].start + k
    BY <1>8
  <2>3. PICK k \in DOMAIN bs[b] : p = plans[b].start + k
    BY <2>2
  <2>4. bs[b][k] = inputs[p]
    BY <1>5, <2>3
  <2> QED
    BY <2>1, <2>4
<1>10. \A b \in 1..L : \A k \in DOMAIN bs[b] : bs[b][k].index \in 0..(n - 1)
  <2> SUFFICES ASSUME NEW b \in 1..L, NEW k \in DOMAIN bs[b] PROVE bs[b][k].index \in 0..(n - 1)
    OBVIOUS
  <2>1. bs[b][k] = inputs[plans[b].start + k] /\ plans[b].start + k \in 1..n
    BY <1>5
  <2> QED
    BY <1>6, <2>1
<1> QED
  BY <1>3, <1>4, <1>5, <1>7, <1>9, <1>10 DEF SpreadOver, bs

\* A batch cut from inputs holds nothing but inputs.
Drawn(bs, S) == \A b \in DOMAIN bs : \A k \in DOMAIN bs[b] : bs[b][k] \in S
\* Cutting adds no input.
LEMMA CutIsDrawn ==
  ASSUME NEW n \in Nat, NEW inputs, EachIn(inputs, n), NEW plans \in Plans, Joined(plans, n)
  PROVE  Drawn(Cut(inputs, plans), ToSet(inputs))
<1> DEFINE bs == Cut(inputs, plans)
           L == Len(plans)
<1>1. inputs \in Seq(Input) /\ Len(inputs) = n /\ DOMAIN inputs = 1..n
  BY LenProperties DEF EachIn
<1>2. /\ L \in Nat
      /\ \A b \in 1..L : plans[b].start \in Nat /\ plans[b].end \in Nat /\ plans[b].end <= n
  BY PlansAreTyped
<1>3. CutBy(bs, inputs, plans)
  BY <1>1, CutIsCut
<1> HIDE DEF bs, L
<1> SUFFICES ASSUME NEW b \in DOMAIN bs, NEW k \in DOMAIN bs[b] PROVE bs[b][k] \in ToSet(inputs)
  BY DEF Drawn, bs
<1>4. b \in 1..L /\ bs[b] \in Seq(Input) /\ Len(bs[b]) = plans[b].end - plans[b].start
      /\ \A o \in 1..(plans[b].end - plans[b].start) : bs[b][o] = inputs[plans[b].start + o]
  BY <1>3 DEF CutBy, L
<1>5. k \in 1..(plans[b].end - plans[b].start)
  <2> DEFINE l == bs[b]
  <2>1. l \in Seq(Input) /\ k \in DOMAIN l
    BY <1>4
  <2> HIDE DEF l
  <2>2. k \in 1..Len(l)
    BY <2>1, LenProperties
  <2> QED
    BY <1>4, <2>2 DEF l
<1>6. bs[b][k] = inputs[plans[b].start + k] /\ plans[b].start + k \in 1..n
  <2>1. plans[b].start \in Nat /\ plans[b].end \in Nat /\ plans[b].end <= n
    BY <1>2, <1>4
  <2>2. plans[b].start + k \in 1..n
    BY <1>5, <2>1
  <2>3. bs[b][k] = inputs[plans[b].start + k]
    BY <1>4, <1>5
  <2> QED
    BY <2>2, <2>3
<1> QED
  BY <1>1, <1>6 DEF ToSet

-----------------------------------------------------------------------------
(* What a batch counts for.                                                *)

LongestOf(batch) == FoldSeq(LAMBDA input, longest : Most(input.len, longest), 0, batch)
LongestUpto(batch, g) ==
  [s \in SUBSET DOMAIN batch |->
     IF s = {} THEN 0
     ELSE Most(batch[CHOOSE x \in s : TRUE].len, g[s \ {CHOOSE x \in s : TRUE}])]
\* The longest length is the one the fold chooses.
LEMMA LongestIsChosen ==
  ASSUME NEW batch
  PROVE  LongestOf(batch) = (CHOOSE g : g = LongestUpto(batch, g))[DOMAIN batch]
  BY DEF LongestOf, FoldSeq, FoldFunction, FoldFunctionOnSet, MapThenFoldSet, LongestUpto

\* The length a batch is padded to is the greatest of its texts.
LEMMA LongestIsGreatest ==
  ASSUME NEW batch \in Seq(Input), batch # <<>>
  PROVE  /\ LongestOf(batch) \in Nat
         /\ \A k \in DOMAIN batch : batch[k].len <= LongestOf(batch)
         /\ \E k \in DOMAIN batch : LongestOf(batch) = batch[k].len
<1> DEFINE n == Len(batch)
           S == 1..n
           ch(s) == CHOOSE x \in s : TRUE
           c == [s \in SUBSET S |-> ch(s)]
           G == [i \in S |-> [l \in Nat |-> Most(batch[i].len, l)]]
           it == CHOOSE g : g = LongestUpto(batch, g)
<1>1. n \in Nat /\ IsFiniteSet(S) /\ DOMAIN batch = S /\ S # {} /\ Cardinality(S) = n
      /\ \A i \in S : batch[i].len \in Nat
  <2>1. n \in Nat /\ DOMAIN batch = 1..n
    BY LenProperties
  <2>2. IsFiniteSet(1..n) /\ Cardinality(1..n) = n
    BY <2>1, FS_Interval
  <2>3. n # 0
    OBVIOUS
  <2>4. \A i \in 1..n : batch[i] \in Input
    BY <2>1, ElementOfSeq
  <2>5. \A x \in Input : x.len \in Nat
    BY DEF Input
  <2> QED
    BY <2>1, <2>2, <2>3, <2>4, <2>5
<1> HIDE DEF n
<1>2. \A s \in SUBSET S : s # {} => c[s] \in s /\ c[s] = ch(s)
  OBVIOUS
<1>13. \A g : LongestUpto(batch, g)
                 = [s \in SUBSET S |-> IF s = {} THEN 0 ELSE Most(batch[c[s]].len, g[s \ {c[s]}])]
  <2> SUFFICES ASSUME NEW g
               PROVE  LongestUpto(batch, g)
                        = [s \in SUBSET S |-> IF s = {} THEN 0 ELSE Most(batch[c[s]].len, g[s \ {c[s]}])]
    OBVIOUS
  <2>1. LongestUpto(batch, g) = [s \in SUBSET S |-> IF s = {} THEN 0 ELSE Most(batch[ch(s)].len, g[s \ {ch(s)}])]
    <3> HIDE DEF S
    <3> QED
      BY <1>1 DEF LongestUpto
  <2> HIDE DEF ch, S, c
  <2> QED
    BY <1>2, <2>1
<1>3. \A l, o \in Nat : Most(l, o) \in Nat /\ l <= Most(l, o) /\ o <= Most(l, o)
                        /\ (Most(l, o) = l \/ Most(l, o) = o)
  BY DEF Most
<1>4. G \in [S -> [Nat -> Nat]]
  BY <1>1, <1>3
<1>5. \E g : g = LongestUpto(batch, g)
  <2>1. \E g : IsFold(g, S, Nat, 0, c, G)
    <3>1. Takes(c, S)
      BY <1>2 DEF Takes
    <3>2. IsFiniteSet(S) /\ 0 \in Nat
      BY <1>1
    <3> HIDE DEF G, c, S
    <3> QED
      BY <1>4, <3>1, <3>2, FoldExists
  <2>2. PICK g \in [SUBSET S -> Nat] : \A s \in SUBSET S :
           g[s] = IF s = {} THEN 0 ELSE G[c[s]][g[s \ {c[s]}]]
    BY <2>1 DEF IsFold
  <2>3. ASSUME NEW s \in SUBSET S, s # {} PROVE g[s] = Most(batch[c[s]].len, g[s \ {c[s]}])
    <3>1. c[s] \in S /\ s \ {c[s]} \in SUBSET S
      BY <1>2, <2>3
    <3>2. g[s \ {c[s]}] \in Nat
      BY <2>2, <3>1
    <3>3. g[s] = G[c[s]][g[s \ {c[s]}]]
      BY <2>2, <2>3
    <3> HIDE DEF c, S
    <3> QED
      BY <3>1, <3>2, <3>3
  <2>4. g = [s \in SUBSET S |-> IF s = {} THEN 0 ELSE Most(batch[c[s]].len, g[s \ {c[s]}])]
    <3> HIDE DEF c, S
    <3> QED
      BY <2>2, <2>3
  <2>5. LongestUpto(batch, g) = [s \in SUBSET S |-> IF s = {} THEN 0 ELSE Most(batch[c[s]].len, g[s \ {c[s]}])]
    BY <1>13
  <2> QED
    BY <2>4, <2>5
<1>6. \A s \in SUBSET S : it[s] = IF s = {} THEN 0 ELSE Most(batch[c[s]].len, it[s \ {c[s]}])
  <2>1. it = LongestUpto(batch, it)
    BY <1>5
  <2>2. LongestUpto(batch, it) = [s \in SUBSET S |-> IF s = {} THEN 0 ELSE Most(batch[c[s]].len, it[s \ {c[s]}])]
    <3> HIDE DEF it
    <3> QED
      BY <1>13
  <2> HIDE DEF it, S, c
  <2>3. it = [s \in SUBSET S |-> IF s = {} THEN 0 ELSE Most(batch[c[s]].len, it[s \ {c[s]}])]
    BY <2>1, <2>2
  <2> QED
    BY <2>3
<1>7. LongestOf(batch) = it[S]
  BY <1>1, LongestIsChosen
<1> HIDE DEF it, c, ch, G
<1> DEFINE Great(s) == /\ it[s] \in Nat /\ \A k \in s : batch[k].len <= it[s]
                       /\ s # {} => \E k \in s : it[s] = batch[k].len
           Bad == {m \in 1..n : \E s \in SUBSET S : Cardinality(s) = m /\ ~ Great(s)}
<1>8. Great({}) /\ it[{}] = 0
  <2>1. it[{}] = 0
    BY <1>6
  <2> QED
    BY <2>1
<1>9. ASSUME NEW s \in SUBSET S, s # {}, Great(s \ {c[s]}) PROVE Great(s)
  <2> DEFINE r == s \ {c[s]}
             j == c[s]
  <2>1. j \in s /\ j \in S /\ batch[j].len \in Nat /\ s = r \cup {j}
    BY <1>1, <1>2, <1>9
  <2>2. it[s] = Most(batch[j].len, it[r])
    BY <1>6, <1>9
  <2>3. Great(r)
    BY <1>9
  <2> HIDE DEF r, j
  <2>4. it[s] \in Nat /\ batch[j].len <= it[s] /\ it[r] <= it[s] /\ (it[s] = batch[j].len \/ it[s] = it[r])
    BY <1>3, <2>1, <2>2, <2>3
  <2>5. \A k \in s : batch[k].len <= it[s]
    <3> SUFFICES ASSUME NEW k \in s PROVE batch[k].len <= it[s]
      OBVIOUS
    <3>1. k = j \/ k \in r
      BY <2>1
    <3>2. k \in r => batch[k].len <= it[r] /\ batch[k].len \in Nat /\ it[r] \in Nat
      BY <1>1, <2>1, <2>3
    <3> QED
      BY <2>4, <3>1, <3>2
  <2>6. \E k \in s : it[s] = batch[k].len
    <3>1. CASE it[s] = batch[j].len
      BY <2>1, <3>1
    <3>2. CASE it[s] # batch[j].len /\ r # {}
      BY <2>1, <2>3, <2>4, <3>2
    <3>3. CASE it[s] # batch[j].len /\ r = {}
      <4>1. it[s] = 0
        BY <1>8, <2>4, <3>3
      <4> QED
        BY <2>1, <2>4, <3>3, <4>1
    <3> QED
      BY <3>1, <3>2, <3>3
  <2> QED
    BY <2>4, <2>5, <2>6
<1>10. Bad = {}
  <2> SUFFICES ASSUME Bad # {} PROVE FALSE
    OBVIOUS
  <2>1. Bad \in SUBSET (1..n)
    OBVIOUS
  <2>2. PICK m \in Bad : \A o \in Bad : m <= o
    <3> HIDE DEF Bad
    <3> QED
      BY <1>1, <2>1, EndPlaces
  <2>3. m \in 1..n /\ m - 1 \notin Bad
    BY <1>1, <2>1, <2>2
  <2>4. PICK s \in SUBSET S : Cardinality(s) = m /\ ~ Great(s)
    BY <2>2
  <2> HIDE DEF Great
  <2>5. IsFiniteSet(s)
    <3> HIDE DEF S
    <3> QED
      BY <1>1, FS_Subset
  <2>6. s # {}
    BY <2>3, <2>4, <2>5, FS_EmptySet
  <2>7. c[s] \in s
    BY <1>2, <2>6
  <2>8. Cardinality(s \ {c[s]}) = m - 1 /\ s \ {c[s]} \in SUBSET S /\ IsFiniteSet(s \ {c[s]})
    BY <2>4, <2>5, <2>7, FS_RemoveElement
  <2>9. Great(s \ {c[s]})
    <3>1. CASE m = 1
      <4>1. s \ {c[s]} = {}
        BY <2>8, <3>1, FS_EmptySet
      <4> QED
        BY <1>8, <4>1
    <3>2. CASE m # 1
      <4>1. m - 1 \in 1..n
        BY <1>1, <2>3, <3>2
      <4> QED
        BY <2>3, <2>8, <4>1
    <3> QED
      BY <3>1, <3>2
  <2> QED
    BY <1>9, <2>4, <2>6, <2>9
<1>11. Great(S)
  <2>1. n \in 1..n
    BY <1>1
  <2>2. n \notin Bad
    BY <1>10
  <2> HIDE DEF Great
  <2> QED
    BY <1>1, <2>1, <2>2
<1> QED
  BY <1>1, <1>7, <1>11

\* What a request counts for: its rows, each as long as the longest text, which
\* counts for one token if it has none.
LEMMA RowsTimesLongest ==
  ASSUME NEW batch \in Seq(Input), batch # <<>>
  PROVE  \E l \in Nat : /\ \A k \in DOMAIN batch : AtLeastOne(batch[k].len) <= l
                        /\ \E k \in DOMAIN batch : l = AtLeastOne(batch[k].len)
                        /\ Most(Len(batch), padded_tokens(batch)) = Len(batch) * l
<1> DEFINE f == LongestOf(batch)
           n == Len(batch)
<1>1. n \in Nat /\ DOMAIN batch = 1..n /\ n > 0
  BY LenProperties
<1>2. \A k \in DOMAIN batch : batch[k].len \in Nat
  <2>1. \A k \in DOMAIN batch : batch[k] \in Input
    BY <1>1, ElementOfSeq
  <2> QED
    BY <2>1 DEF Input
<1>3. /\ f \in Nat /\ \A k \in DOMAIN batch : batch[k].len <= f
      /\ \E k \in DOMAIN batch : f = batch[k].len
  BY LongestIsGreatest
<1>4. padded_tokens(batch) = n * f
  BY DEF padded_tokens, LongestOf
<1> HIDE DEF f, n
<1>5. \A x \in Nat : AtLeastOne(x) \in Nat /\ AtLeastOne(x) >= 1 /\ (x >= 1 => AtLeastOne(x) = x)
                   /\ (x = 0 => AtLeastOne(x) = 1)
  BY DEF AtLeastOne
<1>6. \A x, y \in Nat : x <= y => AtLeastOne(x) <= AtLeastOne(y)
  BY DEF AtLeastOne
<1>7. Most(n, n * f) = n * AtLeastOne(f)
  <2>1. CASE f = 0
    <3>1. n * f = 0 /\ n * AtLeastOne(f) = n
      BY <1>1, <1>5, <2>1
    <3> QED
      BY <1>1, <3>1 DEF Most
  <2>2. CASE f >= 1
    <3>1. 1 * n <= f * n /\ f * n \in Nat
      BY <1>1, <1>3, <2>2, TimesKeepsOrder
    <3>2. n * f = f * n /\ 1 * n = n
      BY <1>1, <1>3, SMTT(30)
    <3> DEFINE p == n * f
    <3>3. p \in Nat /\ n <= p /\ n * AtLeastOne(f) = p
      BY <1>3, <1>5, <2>2, <3>1, <3>2
    <3> HIDE DEF p
    <3>4. Most(n, p) = p
      BY <1>1, <3>3 DEF Most
    <3> QED
      BY <3>3, <3>4 DEF p
  <2> QED
    BY <1>3, <2>1, <2>2
<1>8. AtLeastOne(f) \in Nat /\ (\A k \in DOMAIN batch : AtLeastOne(batch[k].len) <= AtLeastOne(f))
      /\ \E k \in DOMAIN batch : AtLeastOne(f) = AtLeastOne(batch[k].len)
  BY <1>2, <1>3, <1>5, <1>6
<1> QED
  BY <1>4, <1>7, <1>8 DEF n

\* A batch of the inputs from one place to another.
Piece(batch, inputs, s, e) ==
  /\ batch \in Seq(Input) /\ Len(batch) = e - s
  /\ \A k \in 1..(e - s) : batch[k] = inputs[s + k]

\* The lengths of inputs are numbers.
LEMMA LensAreTyped ==
  ASSUME NEW inputs \in Seq(Input)
  PROVE  /\ Lens(inputs) \in Seq(Nat) /\ Len(Lens(inputs)) = Len(inputs)
         /\ \A k \in 1..Len(inputs) : Lens(inputs)[k] = inputs[k].len
<1> DEFINE n == Len(inputs)
           lens == Lens(inputs)
<1>1. n \in Nat /\ DOMAIN inputs = 1..n /\ \A k \in 1..n : inputs[k] \in Input
  BY LenProperties, ElementOfSeq
<1> HIDE DEF n
<1>2. lens = [k \in 1..n |-> inputs[k].len]
  BY <1>1 DEF Lens
<1> HIDE DEF lens
<1>3. \A x \in Input : x.len \in Nat
  BY DEF Input
<1>4. lens \in [1..n -> Nat] /\ DOMAIN lens = 1..n
  BY <1>1, <1>2, <1>3
<1>5. lens \in Seq(Nat)
  BY <1>1, <1>4, SeqDef
<1>6. Len(lens) = n
  BY <1>1, <1>4, <1>5, LenProperties
<1> QED
  BY <1>2, <1>5, <1>6 DEF lens, n

\* What a batch counts for is its rows times its longest text.
LEMMA PieceWeighs ==
  ASSUME NEW inputs \in Seq(Input), NEW s \in Nat, NEW e \in Nat, s < e, e <= Len(inputs),
         NEW batch, Piece(batch, inputs, s, e), NEW l, IsLongest(Lens(inputs), s, e, l)
  PROVE  Most(Len(batch), padded_tokens(batch)) = (e - s) * l
<1> DEFINE lens == Lens(inputs)
           d == e - s
<1>1. d \in Nat /\ d > 0 /\ \A k \in 1..d : s + k \in 1..Len(inputs) /\ s + k \in (s + 1)..e
  <2>1. Len(inputs) \in Nat
    BY LenProperties
  <2> QED
    BY <2>1
<1>2. batch \in Seq(Input) /\ Len(batch) = d /\ DOMAIN batch = 1..d /\ batch # <<>>
  <2>1. batch \in Seq(Input) /\ Len(batch) = d
    BY DEF Piece
  <2>2. DOMAIN batch = 1..d
    BY <2>1, LenProperties
  <2> QED
    BY <1>1, <2>1, <2>2
<1>3. \A k \in 1..Len(inputs) : lens[k] = inputs[k].len
  BY LensAreTyped
<1> HIDE DEF lens
<1>4. \A k \in 1..d : batch[k].len = lens[s + k]
  <2>1. \A k \in 1..d : batch[k] = inputs[s + k]
    BY DEF Piece
  <2> QED
    BY <1>1, <1>3, <2>1
<1>5. \A k \in (s + 1)..e : k - s \in 1..d /\ s + (k - s) = k
  BY <1>1
<1>6. PICK o \in Nat : /\ \A k \in DOMAIN batch : AtLeastOne(batch[k].len) <= o
                       /\ \E k \in DOMAIN batch : o = AtLeastOne(batch[k].len)
                       /\ Most(Len(batch), padded_tokens(batch)) = Len(batch) * o
  BY <1>2, RowsTimesLongest
<1>7. /\ l \in Nat /\ \A k \in (s + 1)..e : AtLeastOne(lens[k]) <= l
      /\ \E k \in (s + 1)..e : l = AtLeastOne(lens[k])
  BY DEF IsLongest, lens
<1> HIDE DEF d
<1>8. o <= l
  <2>1. PICK k \in 1..d : o = AtLeastOne(batch[k].len)
    BY <1>2, <1>6
  <2>2. o = AtLeastOne(lens[s + k]) /\ s + k \in (s + 1)..e
    BY <1>1, <1>4, <2>1
  <2> QED
    BY <1>7, <2>2
<1>9. l <= o
  <2>1. PICK k \in (s + 1)..e : l = AtLeastOne(lens[k])
    BY <1>7
  <2>2. k - s \in 1..d /\ lens[s + (k - s)] = lens[k]
    BY <1>5
  <2>3. batch[k - s].len = lens[k]
    BY <1>4, <2>2
  <2> QED
    BY <1>2, <1>6, <2>1, <2>2, <2>3
<1>10. o = l
  BY <1>6, <1>7, <1>8, <1>9
<1> QED
  BY <1>2, <1>6, <1>10 DEF d

\* A batch with room fits, and with one more text than it has room for does not.
LEMMA RoomFits ==
  ASSUME NEW inputs \in Seq(Input), NEW p, p.start \in Nat, p.end \in Nat, p.start < p.end, p.end <= Len(inputs),
         NEW rows \in Nat, NEW tokens \in Nat, Room(Lens(inputs), p, rows, tokens),
         NEW batch, Piece(batch, inputs, p.start, p.end)
  PROVE  Fits(batch, rows, tokens)
<1>1. Len(batch) = p.end - p.start
  BY DEF Piece
<1>2. CASE p.end - p.start = 1
  BY <1>1, <1>2 DEF Room, Fits
<1>3. CASE p.end - p.start # 1
  <2>1. PICK l : IsLongest(Lens(inputs), p.start, p.end, l) /\ (p.end - p.start) * l <= tokens
    BY <1>3 DEF Room
  <2>2. Most(Len(batch), padded_tokens(batch)) = (p.end - p.start) * l
    BY <2>1, PieceWeighs
  <2> QED
    BY <1>1, <2>1, <2>2 DEF Room, Fits
<1> QED
  BY <1>2, <1>3

\* Where a plan has no room for the next text, its batch does not fit with it.
LEMMA NoMoreFits ==
  ASSUME NEW inputs \in Seq(Input), NEW p, p.start \in Nat, p.end \in Nat, p.start < p.end, p.end < Len(inputs),
         NEW rows \in Nat, NEW tokens \in Nat, NoMore(Lens(inputs), p, rows, tokens),
         NEW batch, Piece(batch, inputs, p.start, p.end + 1)
  PROVE  ~ Fits(batch, rows, tokens)
<1> DEFINE d == p.end + 1 - p.start
<1>0. p.end + 1 \in Nat /\ p.start < p.end + 1 /\ p.end + 1 <= Len(inputs) /\ d \in Nat /\ d > 1
      /\ p.end - p.start + 1 = d
  BY LenProperties
<1>1. Len(batch) = d
  <2>1. \A s, e : Piece(batch, inputs, s, e) => Len(batch) = e - s
    BY DEF Piece
  <2> QED
    BY <2>1
<1> HIDE DEF d
<1>2. CASE d > rows
  <2>1. ~ (Len(batch) <= rows)
    BY <1>0, <1>1, <1>2
  <2> QED
    BY <2>1 DEF Fits
<1>3. CASE ~ (d > rows)
  <2>1. PICK l : IsLongest(Lens(inputs), p.start, p.end + 1, l) /\ d * l > tokens
    BY <1>0, <1>3 DEF NoMore
  <2>2. Most(Len(batch), padded_tokens(batch)) = d * l
    BY <1>0, <2>1, PieceWeighs DEF d
  <2>3. l \in Nat
    BY <2>1 DEF IsLongest
  <2> DEFINE w == d * l
  <2>4. w \in Int /\ w > tokens
    BY <1>0, <2>1, <2>3
  <2>6. Most(Len(batch), padded_tokens(batch)) = w
    BY <2>2
  <2> HIDE DEF w
  <2>5. ~ (Most(Len(batch), padded_tokens(batch)) <= tokens) /\ Len(batch) # 1
    BY <1>0, <1>1, <2>4, <2>6
  <2> QED
    BY <2>5 DEF Fits
<1> QED
  BY <1>2, <1>3

\* The batches a call plans fit, each as full as the next allows.
Packed(bs, rows, tokens) ==
  /\ \A b \in DOMAIN bs : Fits(bs[b], rows, tokens)
  /\ \A b \in DOMAIN bs : b > 1 => ~ Fits(Append(bs[b - 1], Head(bs[b])), rows, tokens)

\* One more text makes a piece longer.
LEMMA PieceGrows ==
  ASSUME NEW inputs \in Seq(Input), NEW s \in Nat, NEW e \in Nat, s < e, e < Len(inputs),
         NEW batch, Piece(batch, inputs, s, e)
  PROVE  Piece(Append(batch, inputs[e + 1]), inputs, s, e + 1)
<1>1. batch \in Seq(Input) /\ Len(batch) = e - s /\ \A k \in 1..(e - s) : batch[k] = inputs[s + k]
  BY DEF Piece
<1>2. inputs[e + 1] \in Input
  <2>1. e + 1 \in 1..Len(inputs)
    BY LenProperties
  <2> QED
    BY <2>1, ElementOfSeq
<1> DEFINE x == inputs[e + 1]
           more == Append(batch, x)
<1>3. x \in Input
  BY <1>2
<1> HIDE DEF x
<1>4. more \in Seq(Input) /\ Len(more) = Len(batch) + 1 /\ more[Len(batch) + 1] = x
      /\ \A k \in 1..Len(batch) : more[k] = batch[k]
  <2>1. batch \in Seq(Input)
    BY <1>1
  <2> QED
    BY <2>1, <1>3, AppendProperties
<1> HIDE DEF more
<1>5. Len(more) = e + 1 - s
  BY <1>1, <1>4
<1>6. ASSUME NEW k \in 1..(e + 1 - s) PROVE more[k] = inputs[s + k]
  <2>1. CASE k = e + 1 - s
    <3>1. k = Len(batch) + 1 /\ s + k = e + 1
      BY <1>1, <2>1
    <3> QED
      BY <1>4, <3>1 DEF x
  <2>2. CASE k # e + 1 - s
    <3>1. k \in 1..(e - s)
      BY <2>2
    <3> QED
      BY <1>1, <1>4, <3>1
  <2> QED
    BY <2>1, <2>2
<1> QED
  BY <1>4, <1>5, <1>6 DEF Piece, more, x

\* Batches cut by the tokens fit, and end only where the next text does not.
LEMMA CutIsPacked ==
  ASSUME NEW inputs \in Seq(Input), NEW plans \in Plans, Joined(plans, Len(inputs)),
         NEW rows \in Nat, NEW tokens \in Nat,
         \A b \in DOMAIN plans : /\ Room(Lens(inputs), plans[b], rows, tokens)
                                 /\ b < Len(plans) => NoMore(Lens(inputs), plans[b], rows, tokens)
  PROVE  Packed(Cut(inputs, plans), rows, tokens)
<1> DEFINE bs == Cut(inputs, plans)
           L == Len(plans)
           n == Len(inputs)
<1>0. n \in Nat
  BY LenProperties
<1>1. /\ L \in Nat /\ DOMAIN plans = 1..L
      /\ \A b \in 1..L : /\ plans[b].start \in Nat /\ plans[b].end \in Nat
                         /\ plans[b].start < plans[b].end /\ plans[b].end <= n
                         /\ b > 1 => plans[b].start = plans[b - 1].end
  BY <1>0, PlansAreTyped
<1>2. CutBy(bs, inputs, plans)
  BY <1>0, CutIsCut
<1> HIDE DEF bs, L, n
<1>3. DOMAIN bs = 1..L
  BY <1>2 DEF CutBy, L
<1>4. \A b \in 1..L : Piece(bs[b], inputs, plans[b].start, plans[b].end)
  BY <1>2, <1>3 DEF CutBy, Piece
<1>5. ASSUME NEW b \in 1..L PROVE Fits(bs[b], rows, tokens)
  <2>1. Room(Lens(inputs), plans[b], rows, tokens) /\ Piece(bs[b], inputs, plans[b].start, plans[b].end)
    BY <1>1, <1>4
  <2>2. plans[b].start \in Nat /\ plans[b].end \in Nat /\ plans[b].start < plans[b].end /\ plans[b].end <= Len(inputs)
    BY <1>1 DEF n
  <2> QED
    BY <2>1, <2>2, RoomFits
<1>6. ASSUME NEW b \in 1..L, b > 1 PROVE ~ Fits(Append(bs[b - 1], Head(bs[b])), rows, tokens)
  <2>1. b - 1 \in 1..L /\ b - 1 < L
    BY <1>1, <1>6
  <2> DEFINE p == plans[b - 1]
  <2>2. /\ p.start \in Nat /\ p.end \in Nat /\ p.start < p.end /\ plans[b].start = p.end
        /\ plans[b].start < plans[b].end /\ plans[b].end <= n /\ plans[b].end \in Nat
    BY <1>1, <1>6, <2>1
  <2>3. p.end < Len(inputs)
    BY <1>0, <2>2 DEF n
  <2>4. NoMore(Lens(inputs), p, rows, tokens) /\ Piece(bs[b - 1], inputs, p.start, p.end)
    BY <1>1, <1>4, <2>1 DEF L
  <2>5. Head(bs[b]) = inputs[p.end + 1]
    <3>1. bs[b] \in Seq(Input) /\ bs[b][1] = inputs[plans[b].start + 1] /\ Len(bs[b]) > 0
      <4>1. Piece(bs[b], inputs, plans[b].start, plans[b].end)
        BY <1>4
      <4>2. 1 \in 1..(plans[b].end - plans[b].start) /\ plans[b].end - plans[b].start > 0
        BY <2>2
      <4> QED
        BY <4>1, <4>2 DEF Piece
    <3> QED
      BY <2>2, <3>1, HeadTailProperties
  <2> HIDE DEF p
  <2>6. Piece(Append(bs[b - 1], inputs[p.end + 1]), inputs, p.start, p.end + 1)
    BY <2>2, <2>3, <2>4, PieceGrows
  <2> QED
    BY <2>2, <2>3, <2>4, <2>5, <2>6, NoMoreFits
<1> QED
  BY <1>3, <1>5, <1>6 DEF Packed, bs

\* No texts need no plan.
LEMMA NoPlansAreJoined == <<>> \in Plans /\ Joined(<<>>, 0)
  BY DEF Plans, Joined

\* Batches planned by tokens: each text in one place, each batch as full as it may be.
LEMMA PlannedByTokens ==
  ASSUME NEW n \in Nat, NEW inputs, EachIn(inputs, n), NEW rows \in Nat, NEW tokens \in Nat
  PROVE  LET bs == Cut(inputs, plan_batches(Lens(inputs), rows, tokens)) IN
         SpreadOver(bs, n) /\ Packed(bs, AtLeastOne(rows), AtLeastOne(tokens)) /\ Drawn(bs, ToSet(inputs))
<1> DEFINE lens == Lens(inputs)
           plans == plan_batches(lens, rows, tokens)
<1>1. inputs \in Seq(Input) /\ Len(inputs) = n
  BY DEF EachIn
<1>2. lens \in Seq(Nat) /\ Len(lens) = n
  BY <1>1, LensAreTyped
<1>3. AtLeastOne(rows) \in Nat /\ AtLeastOne(tokens) \in Nat
  BY DEF AtLeastOne
<1>4. /\ plans \in Plans /\ Joined(plans, n)
      /\ \A k \in DOMAIN plans :
           /\ Room(lens, plans[k], AtLeastOne(rows), AtLeastOne(tokens))
           /\ k < Len(plans) => NoMore(lens, plans[k], AtLeastOne(rows), AtLeastOne(tokens))
  <2>1. CASE lens = <<>>
    <3>1. plans = <<>>
      BY <2>1 DEF plan_batches
    <3>2. n = 0
      BY <1>2, <2>1
    <3>3. DOMAIN plans = {}
      BY <3>1
    <3> QED
      BY <3>1, <3>2, <3>3, NoPlansAreJoined
  <2>2. CASE lens # <<>>
    <3> HIDE DEF lens
    <3> QED
      BY <1>2, <2>2, PlansAreSound
  <2> QED
    BY <2>1, <2>2
<1> HIDE DEF plans
<1>5. SpreadOver(Cut(inputs, plans), n)
  BY <1>4, CutSpreads
<1>6. Packed(Cut(inputs, plans), AtLeastOne(rows), AtLeastOne(tokens))
  BY <1>1, <1>3, <1>4, CutIsPacked
<1>7. Drawn(Cut(inputs, plans), ToSet(inputs))
  BY <1>4, CutIsDrawn
<1> QED
  BY <1>5, <1>6, <1>7 DEF plans

\* Batches planned by rows: each text in one place, each batch full but for the last.
Stacked(bs, rows) ==
  /\ \A b \in DOMAIN bs : Len(bs[b]) <= rows
  /\ \A b \in DOMAIN bs : b > 1 => Len(bs[b - 1]) = rows

\* Cutting by rows gives such batches (plan_fixed_rows).
LEMMA PlannedByRows ==
  ASSUME NEW n \in Nat, NEW inputs, EachIn(inputs, n), NEW rows \in Nat
  PROVE  LET bs == Cut(inputs, plan_fixed_rows(n, rows)) IN
         SpreadOver(bs, n) /\ Stacked(bs, AtLeastOne(rows)) /\ Drawn(bs, ToSet(inputs))
<1> DEFINE plans == plan_fixed_rows(n, rows)
           bs == Cut(inputs, plans)
           H == AtLeastOne(rows)
<1>1. inputs \in Seq(Input) /\ Len(inputs) = n
  BY DEF EachIn
<1>2. H \in Nat \ {0}
  BY DEF AtLeastOne
<1>3. /\ plans \in Plans /\ Joined(plans, n)
      /\ \A k \in DOMAIN plans :
              /\ plans[k].end - plans[k].start <= H
              /\ k < Len(plans) => plans[k].end - plans[k].start = H
  <2>1. CASE n = 0
    <3>1. (n + H - 1) \div H = 0
      BY <1>2, <2>1, SMTT(30)
    <3>2. plans = <<>>
      <4>1. plans = [k \in 1..0 |-> [start |-> (k - 1) * H, end |-> Fewest(k * H, n)]]
        BY <3>1 DEF plan_fixed_rows
      <4>2. plans = [k \in {} |-> [start |-> (k - 1) * H, end |-> Fewest(k * H, n)]]
        BY <4>1
      <4> QED
        BY <4>2
    <3>3. DOMAIN plans = {}
      BY <3>2
    <3> HIDE DEF plans
    <3> QED
      BY <2>1, <3>2, <3>3, NoPlansAreJoined
  <2>2. CASE n > 0
    BY <2>2, FixedRowsAreSound
  <2> QED
    BY <2>1, <2>2
<1> HIDE DEF plans, H
<1>4. SpreadOver(bs, n) /\ Drawn(bs, ToSet(inputs))
  BY <1>3, CutSpreads, CutIsDrawn
<1>5. CutBy(bs, inputs, plans)
  BY <1>1, <1>3, CutIsCut
<1>6. Len(plans) \in Nat /\ DOMAIN plans = 1..Len(plans)
  BY <1>3, PlansAreTyped
<1> HIDE DEF bs
<1>7. /\ \A b \in DOMAIN bs : Len(bs[b]) = plans[b].end - plans[b].start
      /\ DOMAIN bs = 1..Len(plans)
  BY <1>5 DEF CutBy
<1>8. Stacked(bs, H)
  <2>1. \A b \in DOMAIN bs : b > 1 => b - 1 \in DOMAIN bs /\ b - 1 < Len(plans)
    BY <1>6, <1>7
  <2> QED
    BY <1>3, <1>6, <1>7, <2>1 DEF Stacked
<1> QED
  BY <1>4, <1>8 DEF bs, plans, H

\* What plan_remote_input_batches promises.
LEMMA RemotePlanned ==
  ASSUME NEW lens \in Seq(Nat), NEW settings, settings.max_batch_inputs \in Nat \ {0},
         settings.max_batch_tokens \in Nat \ {0}
  PROVE  LET bs == plan_remote_input_batches(lens, settings) IN
         SpreadOver(bs, Len(lens)) /\ Packed(bs, settings.max_batch_inputs, settings.max_batch_tokens)
<1> DEFINE n == Len(lens)
           inputs == sort_inputs(Inputs(lens))
           rows == settings.max_batch_inputs
           tokens == settings.max_batch_tokens
<1>1. n \in Nat /\ rows \in Nat /\ tokens \in Nat /\ AtLeastOne(rows) = rows /\ AtLeastOne(tokens) = tokens
  BY LenProperties DEF AtLeastOne
<1>2. EachIn(inputs, n)
  BY <1>1, InputsAreEach, SortedAreEach
<1>3. plan_remote_input_batches(lens, settings) = Cut(inputs, plan_batches(Lens(inputs), rows, tokens))
  BY DEF plan_remote_input_batches
<1> HIDE DEF inputs, n, rows, tokens
<1>4. LET bs == Cut(inputs, plan_batches(Lens(inputs), rows, tokens)) IN
      SpreadOver(bs, n) /\ Packed(bs, AtLeastOne(rows), AtLeastOne(tokens))
  BY <1>1, <1>2, PlannedByTokens
<1> QED
  BY <1>1, <1>3, <1>4 DEF n, rows, tokens

\* What plan_embedding_batches promises, on a GPU and off it.
LEMMA LocalPlanned ==
  ASSUME NEW lens \in Seq(Nat), NEW runtime \in Runtimes, NEW rows \in Nat, NEW tokens \in Nat,
         GpuRows \in Nat \ {0}
  PROVE  LET bs == plan_embedding_batches(lens, BatchingPolicy(runtime, rows, tokens)) IN
         /\ SpreadOver(bs, Len(lens)) /\ Drawn(bs, ToSet(Inputs(lens)))
         /\ IF is_fastembed_onnx_gpu(runtime) THEN Stacked(bs, GpuRows)
            ELSE Packed(bs, AtLeastOne(rows), AtLeastOne(tokens))
<1> DEFINE n == Len(lens)
           policy == BatchingPolicy(runtime, rows, tokens)
           bs == plan_embedding_batches(lens, policy)
<1>1. n \in Nat /\ EachIn(Inputs(lens), n)
  BY LenProperties, InputsAreEach
<1>2. EachIn(sort_inputs(Inputs(lens)), n) /\ ToSet(sort_inputs(Inputs(lens))) \subseteq ToSet(Inputs(lens))
  BY <1>1, SortedAreEach
<1> HIDE DEF n
<1>3. CASE is_fastembed_onnx_gpu(runtime)
  <2>1. GpuRows # Unset
    BY DEF Unset
  <2>2. policy.fixed = TRUE /\ policy.rows = GpuRows
    <3>1. fixed_input_shape(runtime).rows = GpuRows
      BY <1>3 DEF fixed_input_shape, is_fastembed_onnx_gpu
    <3>2. policy = [fixed |-> TRUE, rows |-> GpuRows, tokens |-> Unset]
      BY <2>1, <3>1 DEF BatchingPolicy
    <3> HIDE DEF policy
    <3> QED
      BY <3>2
  <2> HIDE DEF policy
  <2>3. Len(Inputs(lens)) = n
    BY <1>1 DEF EachIn
  <2>4. bs = Cut(Inputs(lens), plan_fixed_rows(n, GpuRows))
    BY <2>2, <2>3 DEF plan_embedding_batches, plan_by
  <2>5. AtLeastOne(GpuRows) = GpuRows
    BY DEF AtLeastOne
  <2> HIDE DEF bs
  <2>6. SpreadOver(bs, n) /\ Stacked(bs, AtLeastOne(GpuRows)) /\ Drawn(bs, ToSet(Inputs(lens)))
    BY <1>1, <2>4, PlannedByRows
  <2> QED
    BY <1>3, <2>5, <2>6 DEF bs, n, policy
<1>4. CASE ~ is_fastembed_onnx_gpu(runtime)
  <2>1. policy.fixed = FALSE /\ policy.rows = AtLeastOne(rows) /\ policy.tokens = AtLeastOne(tokens)
    <3>1. fixed_input_shape(runtime).rows = Unset
      BY <1>4 DEF fixed_input_shape, is_fastembed_onnx_gpu
    <3>2. policy = [fixed |-> FALSE, rows |-> AtLeastOne(rows), tokens |-> AtLeastOne(tokens)]
      BY <3>1 DEF BatchingPolicy
    <3> HIDE DEF policy
    <3> QED
      BY <3>2
  <2> HIDE DEF policy
  <2> DEFINE inputs == sort_inputs(Inputs(lens))
             R == AtLeastOne(rows)
             T == AtLeastOne(tokens)
  <2>2. bs = Cut(inputs, plan_batches(Lens(inputs), R, T))
    BY <2>1 DEF plan_embedding_batches, plan_by
  <2>3. R \in Nat /\ T \in Nat /\ AtLeastOne(R) = R /\ AtLeastOne(T) = T
    BY DEF AtLeastOne
  <2> HIDE DEF bs, inputs, R, T
  <2>4. SpreadOver(bs, n) /\ Packed(bs, AtLeastOne(R), AtLeastOne(T)) /\ Drawn(bs, ToSet(inputs))
    BY <1>2, <1>1, <2>2, <2>3, PlannedByTokens DEF inputs
  <2>5. Drawn(bs, ToSet(Inputs(lens)))
    BY <1>2, <2>4 DEF Drawn, inputs
  <2> QED
    BY <1>4, <2>3, <2>4, <2>5 DEF bs, n, policy, R, T
<1> QED
  BY <1>3, <1>4

-----------------------------------------------------------------------------
(* What the answers and the splits do to the texts of a batch.             *)

\* A list of batches and what is received divide the texts of a batch.
Divides(list, got, texts) ==
  /\ OneEach(got) /\ \A j \in DOMAIN list : OneEach(list[j])
  /\ \A j \in DOMAIN list : IndexesOf(got) \cap IndexesOf(list[j]) = {}
  /\ \A j, k \in DOMAIN list : j # k => IndexesOf(list[j]) \cap IndexesOf(list[k]) = {}
  /\ texts = IndexesOf(got) \cup UNION {IndexesOf(list[j]) : j \in DOMAIN list}

\* Sequences of distinct texts that share none can be joined.
LEMMA JoinedTexts ==
  ASSUME NEW S, NEW s \in Seq(S), NEW t \in Seq(S)
  PROVE  /\ IndexesOf(s \o t) = IndexesOf(s) \cup IndexesOf(t)
         /\ OneEach(s) /\ OneEach(t) /\ IndexesOf(s) \cap IndexesOf(t) = {} => OneEach(s \o t)
<1> DEFINE m == Len(s)
           n == Len(t)
           u == s \o t
<1>1. /\ m \in Nat /\ n \in Nat /\ DOMAIN s = 1..m /\ DOMAIN t = 1..n /\ DOMAIN u = 1..(m + n)
      /\ \A k \in 1..(m + n) : u[k] = IF k <= m THEN s[k] ELSE t[k - m]
  <2>1. u \in Seq(S) /\ Len(u) = m + n /\ \A k \in 1..(m + n) : u[k] = IF k <= m THEN s[k] ELSE t[k - m]
    BY ConcatProperties
  <2> HIDE DEF u
  <2> QED
    BY <2>1, LenProperties
<1> HIDE DEF m, n, u
<1>2. \A k \in 1..m : k \in 1..(m + n) /\ u[k] = s[k]
  BY <1>1
<1>3. \A k \in 1..n : m + k \in 1..(m + n) /\ u[m + k] = t[k]
  <2> SUFFICES ASSUME NEW k \in 1..n PROVE m + k \in 1..(m + n) /\ u[m + k] = t[k]
    OBVIOUS
  <2>1. m + k \in 1..(m + n) /\ ~ (m + k <= m) /\ (m + k) - m = k
    BY <1>1
  <2> QED
    BY <1>1, <2>1
<1>4. \A k \in 1..(m + n) : \/ k \in 1..m /\ u[k] = s[k]
                            \/ k - m \in 1..n /\ u[k] = t[k - m]
  BY <1>1
<1>5. IndexesOf(u) = IndexesOf(s) \cup IndexesOf(t)
  <2>1. \A x \in IndexesOf(u) : x \in IndexesOf(s) \cup IndexesOf(t)
    BY <1>1, <1>4 DEF IndexesOf
  <2>2. \A x \in IndexesOf(s) : x \in IndexesOf(u)
    BY <1>1, <1>2 DEF IndexesOf
  <2>3. \A x \in IndexesOf(t) : x \in IndexesOf(u)
    BY <1>1, <1>3 DEF IndexesOf
  <2> QED
    BY <2>1, <2>2, <2>3
<1>6. ASSUME OneEach(s), OneEach(t), IndexesOf(s) \cap IndexesOf(t) = {} PROVE OneEach(u)
  <2> SUFFICES ASSUME NEW j \in 1..(m + n), NEW k \in 1..(m + n), u[j].index = u[k].index PROVE j = k
    BY <1>1 DEF OneEach
  <2>1. CASE j \in 1..m /\ u[j] = s[j] /\ k \in 1..m /\ u[k] = s[k]
    BY <1>1, <1>6, <2>1 DEF OneEach
  <2>2. CASE j - m \in 1..n /\ u[j] = t[j - m] /\ k - m \in 1..n /\ u[k] = t[k - m]
    <3>1. j - m = k - m
      BY <1>1, <1>6, <2>2 DEF OneEach
    <3> QED
      BY <1>1, <3>1
  <2>3. CASE j \in 1..m /\ u[j] = s[j] /\ k - m \in 1..n /\ u[k] = t[k - m]
    <3>1. u[j].index \in IndexesOf(s) /\ u[k].index \in IndexesOf(t)
      BY <1>1, <2>3 DEF IndexesOf
    <3> QED
      BY <1>6, <3>1
  <2>4. CASE j - m \in 1..n /\ u[j] = t[j - m] /\ k \in 1..m /\ u[k] = s[k]
    <3>1. u[k].index \in IndexesOf(s) /\ u[j].index \in IndexesOf(t)
      BY <1>1, <2>4 DEF IndexesOf
    <3> QED
      BY <1>6, <3>1
  <2> QED
    BY <1>4, <2>1, <2>2, <2>3, <2>4
<1> QED
  BY <1>5, <1>6 DEF u

\* A batch that is answered leaves the list and its texts are with those received.
LEMMA AnswerDivides ==
  ASSUME NEW list \in Seq(Seq(Input)), list # <<>>, NEW got, NEW texts, Divides(list, got, texts),
         NEW more, OneEach(more), IndexesOf(more) = IndexesOf(got) \cup IndexesOf(Head(list))
  PROVE  Divides(Tail(list), more, texts)
<1> DEFINE n == Len(list)
           rest == Tail(list)
<1>1. n \in Nat /\ n > 0 /\ DOMAIN list = 1..n /\ Head(list) = list[1]
  BY LenProperties, HeadTailProperties
<1>2. DOMAIN rest = 1..(n - 1) /\ \A j \in 1..(n - 1) : rest[j] = list[j + 1] /\ j + 1 \in 1..n
  <2>1. rest \in Seq(Seq(Input)) /\ Len(rest) = n - 1 /\ \A j \in 1..(n - 1) : rest[j] = list[j + 1]
    BY HeadTailProperties
  <2> HIDE DEF rest
  <2> QED
    BY <1>1, <2>1, LenProperties
<1> HIDE DEF n, rest
<1>3. /\ \A j \in 1..n : OneEach(list[j]) /\ IndexesOf(got) \cap IndexesOf(list[j]) = {}
      /\ \A j, k \in 1..n : j # k => IndexesOf(list[j]) \cap IndexesOf(list[k]) = {}
      /\ texts = IndexesOf(got) \cup UNION {IndexesOf(list[j]) : j \in 1..n}
  BY <1>1 DEF Divides
<1>4. IndexesOf(more) = IndexesOf(got) \cup IndexesOf(list[1])
  BY <1>1
<1>5. \A j \in 1..(n - 1) : OneEach(rest[j]) /\ IndexesOf(more) \cap IndexesOf(rest[j]) = {}
  <2> SUFFICES ASSUME NEW j \in 1..(n - 1)
               PROVE  OneEach(rest[j]) /\ IndexesOf(more) \cap IndexesOf(rest[j]) = {}
    OBVIOUS
  <2>1. rest[j] = list[j + 1] /\ j + 1 \in 1..n /\ j + 1 # 1 /\ 1 \in 1..n
    BY <1>1, <1>2
  <2> QED
    BY <1>3, <1>4, <2>1
<1>6. \A j, k \in 1..(n - 1) : j # k => IndexesOf(rest[j]) \cap IndexesOf(rest[k]) = {}
  <2> SUFFICES ASSUME NEW j \in 1..(n - 1), NEW k \in 1..(n - 1), j # k
               PROVE  IndexesOf(rest[j]) \cap IndexesOf(rest[k]) = {}
    OBVIOUS
  <2>1. rest[j] = list[j + 1] /\ j + 1 \in 1..n /\ rest[k] = list[k + 1] /\ k + 1 \in 1..n /\ j + 1 # k + 1
    BY <1>2
  <2> QED
    BY <1>3, <2>1
<1>7. texts = IndexesOf(more) \cup UNION {IndexesOf(rest[j]) : j \in 1..(n - 1)}
  <2>1. \A j \in 1..n : j = 1 \/ (j - 1 \in 1..(n - 1) /\ rest[j - 1] = list[j])
    <3> SUFFICES ASSUME NEW j \in 1..n, j # 1 PROVE j - 1 \in 1..(n - 1) /\ rest[j - 1] = list[j]
      OBVIOUS
    <3>1. j - 1 \in 1..(n - 1) /\ (j - 1) + 1 = j
      BY <1>1
    <3> QED
      BY <1>2, <3>1
  <2>2. 1 \in 1..n
    BY <1>1
  <2>3. \A x \in texts : x \in IndexesOf(more) \cup UNION {IndexesOf(rest[j]) : j \in 1..(n - 1)}
    <3> SUFFICES ASSUME NEW x \in texts, x \notin IndexesOf(got), x \notin IndexesOf(list[1])
                 PROVE  \E j \in 1..(n - 1) : x \in IndexesOf(rest[j])
      BY <1>4
    <3>1. PICK j \in 1..n : x \in IndexesOf(list[j])
      BY <1>3
    <3> QED
      BY <2>1, <3>1
  <2>4. \A x \in IndexesOf(more) : x \in texts
    BY <1>3, <1>4, <2>2
  <2>5. \A j \in 1..(n - 1) : \A x \in IndexesOf(rest[j]) : x \in texts
    <3> SUFFICES ASSUME NEW j \in 1..(n - 1), NEW x \in IndexesOf(rest[j]) PROVE x \in texts
      OBVIOUS
    <3>1. j + 1 \in 1..n /\ x \in IndexesOf(list[j + 1])
      BY <1>2
    <3> QED
      BY <1>3, <3>1
  <2> QED
    BY <2>3, <2>4, <2>5
<1> QED
  BY <1>2, <1>5, <1>6, <1>7 DEF Divides, rest

\* A part of a batch.
PartOf(a, batch, o) ==
  /\ a \in Seq(Input) /\ a # <<>> /\ o \in Nat
  /\ \A k \in 1..Len(a) : k + o \in 1..Len(batch) /\ a[k] = batch[k + o]

\* Each half of a batch is a part of it (split_at).
LEMMA HalvesAreParts ==
  ASSUME NEW batch \in Seq(Input), Len(batch) > 1
  PROVE  \E a, b : \E m \in Nat :
           /\ split_at(batch, Len(batch) \div 2) = <<a, b>>
           /\ PartOf(a, batch, 0) /\ PartOf(b, batch, m) /\ Len(a) = m /\ Len(a) + Len(b) = Len(batch)
<1> DEFINE n == Len(batch)
           m == n \div 2
           a == SubSeq(batch, 1, m)
           b == SubSeq(batch, m + 1, n)
<1>1. n \in Nat /\ n > 1
  BY LenProperties
<1>2. m \in Nat /\ m > 0 /\ m < n
  <2> HIDE DEF n
  <2> QED
    BY <1>1, SMTT(30)
<1> HIDE DEF m
<1>3. a \in Seq(Input) /\ Len(a) = m /\ \A k \in 1..m : a[k] = batch[k]
  <2>1. 1 \in 1..(n + 1) /\ m \in (1 - 1)..n
    BY <1>1, <1>2
  <2>2. /\ a \in Seq(Input) /\ Len(a) = (IF m < 1 THEN 0 ELSE m - 1 + 1)
        /\ \A k \in 1..(m - 1 + 1) : a[k] = batch[1 + k - 1]
    BY <2>1, SubSeqProperties
  <2> HIDE DEF a
  <2>3. m - 1 + 1 = m /\ \A k \in 1..m : 1 + k - 1 = k
    BY <1>2
  <2> QED
    BY <1>2, <2>2, <2>3
<1>4. b \in Seq(Input) /\ Len(b) = n - m /\ \A k \in 1..(n - m) : b[k] = batch[k + m]
  <2>1. m + 1 \in 1..(n + 1) /\ n \in ((m + 1) - 1)..n
    BY <1>1, <1>2
  <2>2. /\ b \in Seq(Input) /\ Len(b) = (IF n < m + 1 THEN 0 ELSE n - (m + 1) + 1)
        /\ \A k \in 1..(n - (m + 1) + 1) : b[k] = batch[(m + 1) + k - 1]
    BY <2>1, SubSeqProperties
  <2> HIDE DEF b, n
  <2>3. n - (m + 1) + 1 = n - m /\ ~ (n < m + 1) /\ \A k \in 1..(n - m) : (m + 1) + k - 1 = k + m
    BY <1>1, <1>2
  <2> QED
    BY <2>2, <2>3
<1> HIDE DEF a, b
<1>5. PartOf(a, batch, 0)
  <2>1. a # <<>>
    BY <1>2, <1>3
  <2>2. \A k \in 1..m : k + 0 \in 1..n /\ k + 0 = k
    BY <1>1, <1>2
  <2> QED
    BY <1>3, <2>1, <2>2 DEF PartOf
<1>6. PartOf(b, batch, m)
  <2>1. b # <<>>
    BY <1>1, <1>2, <1>4
  <2>2. \A k \in 1..(n - m) : k + m \in 1..n
    BY <1>1, <1>2
  <2> QED
    BY <1>2, <1>4, <2>1, <2>2 DEF PartOf
<1>7. split_at(batch, Len(batch) \div 2) = <<a, b>>
  BY DEF split_at, a, b, m
<1>8. Len(a) + Len(b) = n
  BY <1>1, <1>2, <1>3, <1>4
<1> HIDE DEF n
<1> QED
  BY <1>2, <1>3, <1>5, <1>6, <1>7, <1>8 DEF n

\* What fits as a whole fits in parts.
LEMMA PartsFit ==
  ASSUME NEW batch \in Seq(Input), NEW a, NEW o, PartOf(a, batch, o), NEW rows \in Nat, NEW tokens \in Nat,
         Fits(batch, rows, tokens)
  PROVE  Fits(a, rows, tokens)
<1> DEFINE n == Len(batch)
           m == Len(a)
<1>1. /\ n \in Nat /\ m \in Nat /\ m > 0 /\ a \in Seq(Input) /\ a # <<>>
      /\ DOMAIN batch = 1..n /\ DOMAIN a = 1..m
      /\ \A k \in 1..m : k + o \in 1..n /\ a[k] = batch[k + o]
  BY LenProperties DEF PartOf
<1>2. o \in Nat
  BY DEF PartOf
<1> HIDE DEF n, m
<1>3. m <= n
  BY <1>1, <1>2
<1>4. batch # <<>>
  <2>1. n > 0
    BY <1>1, <1>3
  <2> QED
    BY <2>1 DEF n
<1>5. PICK l \in Nat : /\ \A k \in DOMAIN batch : AtLeastOne(batch[k].len) <= l
                       /\ Most(Len(batch), padded_tokens(batch)) = Len(batch) * l
  BY <1>4, RowsTimesLongest
<1>6. PICK h \in Nat : /\ \E k \in DOMAIN a : h = AtLeastOne(a[k].len)
                       /\ Most(Len(a), padded_tokens(a)) = Len(a) * h
  BY <1>1, RowsTimesLongest
<1>7. h <= l
  <2>1. PICK k \in 1..m : h = AtLeastOne(a[k].len)
    BY <1>1, <1>6
  <2>2. AtLeastOne(batch[k + o].len) <= l /\ a[k] = batch[k + o]
    BY <1>1, <1>5, <2>1
  <2> QED
    BY <2>1, <2>2
<1>8. m * h <= n * l /\ m * h \in Nat /\ n * l \in Nat
  <2>1. m * h <= n * h /\ m * h \in Nat /\ n * h \in Nat
    BY <1>1, <1>3, TimesKeepsOrder
  <2>2. h * n <= l * n /\ l * n \in Nat
    BY <1>1, <1>7, TimesKeepsOrder
  <2>3. n * h = h * n /\ n * l = l * n
    BY <1>1, SMTT(30)
  <2> DEFINE p == m * h
             whole == n * h
             r == n * l
  <2>4. p \in Nat /\ whole \in Nat /\ r \in Nat /\ p <= whole /\ whole <= r
    BY <2>1, <2>2, <2>3
  <2> HIDE DEF p, whole, r
  <2>5. p <= r
    BY <2>4
  <2> QED
    BY <2>4, <2>5 DEF p, r
<1> DEFINE p == m * h
           r == n * l
<1>9. p \in Nat /\ r \in Nat /\ p <= r /\ Most(n, padded_tokens(batch)) = r /\ Most(m, padded_tokens(a)) = p
  BY <1>5, <1>6, <1>8 DEF n, m
<1> HIDE DEF p, r
<1>10. n <= rows /\ (n = 1 \/ Most(n, padded_tokens(batch)) <= tokens)
  BY DEF Fits, n
<1>11. m <= rows /\ (m = 1 \/ Most(m, padded_tokens(a)) <= tokens)
  <2>1. m <= rows
    BY <1>1, <1>3, <1>10
  <2>2. n = 1 => m = 1
    BY <1>1, <1>3
  <2> QED
    BY <1>9, <1>10, <2>1, <2>2
<1> QED
  BY <1>11 DEF Fits, m

\* The halves of a batch hold its texts, each in one of them.
LEMMA HalvesShareTexts ==
  ASSUME NEW batch \in Seq(Input), OneEach(batch), NEW a, NEW b, NEW m \in Nat,
         PartOf(a, batch, 0), PartOf(b, batch, m), Len(a) = m, Len(a) + Len(b) = Len(batch)
  PROVE  /\ OneEach(a) /\ OneEach(b) /\ IndexesOf(a) \cap IndexesOf(b) = {}
         /\ IndexesOf(a) \cup IndexesOf(b) = IndexesOf(batch)
<1> DEFINE n == Len(batch)
<1>1. /\ n \in Nat /\ DOMAIN batch = 1..n /\ DOMAIN a = 1..m
      /\ \A k \in 1..m : k \in 1..n /\ a[k] = batch[k]
  <2>1. a \in Seq(Input) /\ \A k \in 1..m : k + 0 \in 1..n /\ a[k] = batch[k + 0]
    BY DEF PartOf
  <2>2. \A k \in 1..m : k + 0 = k
    OBVIOUS
  <2>3. DOMAIN a = 1..m
    BY <2>1, LenProperties
  <2> QED
    BY <2>1, <2>2, <2>3, LenProperties
<1>2. Len(b) = n - m /\ DOMAIN b = 1..(n - m) /\ \A k \in 1..(n - m) : k + m \in 1..n /\ b[k] = batch[k + m]
  <2>1. b \in Seq(Input) /\ \A k \in 1..Len(b) : k + m \in 1..n /\ b[k] = batch[k + m]
    BY DEF PartOf
  <2>2. Len(b) \in Nat /\ DOMAIN b = 1..Len(b)
    BY <2>1, LenProperties
  <2>3. Len(b) = n - m
    BY <1>1, <2>2
  <2> QED
    BY <2>1, <2>2, <2>3
<1>3. \A j, k \in 1..n : batch[j].index = batch[k].index => j = k
  BY <1>1 DEF OneEach
<1> HIDE DEF n
<1>4. OneEach(a)
  BY <1>1, <1>3 DEF OneEach
<1>5. OneEach(b)
  <2> SUFFICES ASSUME NEW j \in 1..(n - m), NEW k \in 1..(n - m), b[j].index = b[k].index PROVE j = k
    BY <1>2 DEF OneEach
  <2>1. j + m = k + m
    BY <1>2, <1>3
  <2> QED
    BY <2>1
<1>6. IndexesOf(a) \cap IndexesOf(b) = {}
  <2> SUFFICES ASSUME NEW j \in 1..m, NEW k \in 1..(n - m), a[j].index = b[k].index PROVE FALSE
    BY <1>1, <1>2 DEF IndexesOf
  <2>1. j = k + m
    BY <1>1, <1>2, <1>3
  <2> QED
    BY <2>1
<1>7. \A k \in 1..n : k \in 1..m \/ (k - m \in 1..(n - m) /\ b[k - m] = batch[k])
  <2> SUFFICES ASSUME NEW k \in 1..n, k \notin 1..m PROVE k - m \in 1..(n - m) /\ b[k - m] = batch[k]
    OBVIOUS
  <2>1. n \in Nat /\ k \in Nat /\ k <= n /\ ~ (k <= m) /\ k > 0
    <3>1. n \in Nat
      BY <1>1
    <3>2. k \in Nat /\ k > 0 /\ k <= n
      BY <3>1
    <3> QED
      BY <3>1, <3>2
  <2>2. k - m \in 1..(n - m) /\ (k - m) + m = k
    BY <2>1
  <2> QED
    BY <1>2, <2>2
<1>8. IndexesOf(a) \cup IndexesOf(b) = IndexesOf(batch)
  <2>1. \A x \in IndexesOf(a) : x \in IndexesOf(batch)
    BY <1>1 DEF IndexesOf
  <2>2. \A x \in IndexesOf(b) : x \in IndexesOf(batch)
    BY <1>1, <1>2 DEF IndexesOf
  <2>3. \A x \in IndexesOf(batch) : x \in IndexesOf(a) \/ x \in IndexesOf(b)
    <3> SUFFICES ASSUME NEW k \in 1..n
                 PROVE  batch[k].index \in IndexesOf(a) \/ batch[k].index \in IndexesOf(b)
      BY <1>1 DEF IndexesOf
    <3>1. CASE k \in 1..m
      BY <1>1, <3>1 DEF IndexesOf
    <3>2. CASE k \notin 1..m
      <4>1. k - m \in DOMAIN b /\ b[k - m] = batch[k]
        BY <1>2, <1>7, <3>2
      <4> QED
        BY <4>1 DEF IndexesOf
    <3> QED
      BY <3>1, <3>2
  <2> QED
    BY <2>1, <2>2, <2>3
<1> QED
  BY <1>4, <1>5, <1>6, <1>8

\* A list of batches with the first in two.
SplitList(grown, list, a, b) ==
  /\ grown \in Seq(Seq(Input)) /\ Len(grown) = Len(list) + 1 /\ grown[1] = a /\ grown[2] = b
  /\ \A j \in 2..Len(list) : grown[j + 1] = list[j]

\* Splitting the head of a list makes such a list.
LEMMA SplitListIs ==
  ASSUME NEW list \in Seq(Seq(Input)), list # <<>>, NEW a \in Seq(Input), NEW b \in Seq(Input)
  PROVE  SplitList(<<a, b>> \o Tail(list), list, a, b)
<1> DEFINE n == Len(list)
           rest == Tail(list)
           two == <<a, b>>
           grown == two \o rest
<1>1. n \in Nat /\ n > 0
  BY LenProperties
<1>2. rest \in Seq(Seq(Input)) /\ Len(rest) = n - 1 /\ \A j \in 1..(n - 1) : rest[j] = list[j + 1]
  BY HeadTailProperties
<1>3. two \in Seq(Seq(Input)) /\ Len(two) = 2 /\ two[1] = a /\ two[2] = b
  OBVIOUS
<1> HIDE DEF n, rest, two
<1>4. /\ grown \in Seq(Seq(Input)) /\ Len(grown) = 2 + (n - 1)
      /\ \A i \in 1..(2 + (n - 1)) : grown[i] = IF i <= 2 THEN two[i] ELSE rest[i - 2]
  <2>1. two \in Seq(Seq(Input)) /\ rest \in Seq(Seq(Input))
    BY <1>2, <1>3
  <2>2. /\ grown \in Seq(Seq(Input)) /\ Len(grown) = Len(two) + Len(rest)
        /\ \A i \in 1..(Len(two) + Len(rest)) : grown[i] = IF i <= Len(two) THEN two[i] ELSE rest[i - Len(two)]
    BY <2>1, ConcatProperties
  <2> HIDE DEF grown
  <2> QED
    BY <1>2, <1>3, <2>2
<1> HIDE DEF grown
<1>5. grown[1] = a /\ grown[2] = b
  <2>1. 1 \in 1..(2 + (n - 1)) /\ 2 \in 1..(2 + (n - 1))
    BY <1>1
  <2> QED
    BY <1>3, <1>4, <2>1
<1>6. \A j \in 2..n : grown[j + 1] = list[j]
  <2> SUFFICES ASSUME NEW j \in 2..n PROVE grown[j + 1] = list[j]
    OBVIOUS
  <2>1. j + 1 \in 1..(2 + (n - 1)) /\ ~ (j + 1 <= 2) /\ (j + 1) - 2 = j - 1 /\ j - 1 \in 1..(n - 1) /\ (j - 1) + 1 = j
    BY <1>1
  <2> QED
    BY <1>2, <1>4, <2>1
<1>7. Len(grown) = n + 1
  BY <1>1, <1>4
<1> QED
  BY <1>4, <1>5, <1>6, <1>7 DEF SplitList, grown, two, rest, n

\* A worker whose batch is split still has each of its texts once.
LEMMA HalvesDivide ==
  ASSUME NEW list \in Seq(Seq(Input)), list # <<>>, NEW got, NEW texts, Divides(list, got, texts),
         NEW a, NEW b, NEW grown, SplitList(grown, list, a, b),
         OneEach(a), OneEach(b), IndexesOf(a) \cap IndexesOf(b) = {},
         IndexesOf(a) \cup IndexesOf(b) = IndexesOf(list[1])
  PROVE  Divides(grown, got, texts)
<1> DEFINE n == Len(list)
<1>1. n \in Nat /\ n > 0 /\ DOMAIN list = 1..n /\ 1 \in 1..n
  BY LenProperties
<1>2. /\ DOMAIN grown = 1..(n + 1) /\ grown[1] = a /\ grown[2] = b
      /\ \A j \in 2..n : grown[j + 1] = list[j]
  <2>1. grown \in Seq(Seq(Input)) /\ Len(grown) = n + 1
    BY DEF SplitList
  <2>2. DOMAIN grown = 1..(n + 1)
    BY <2>1, LenProperties
  <2> QED
    BY <2>2 DEF SplitList
<1> HIDE DEF n
<1>3. /\ OneEach(got)
      /\ \A j \in 1..n : OneEach(list[j]) /\ IndexesOf(got) \cap IndexesOf(list[j]) = {}
      /\ \A j, k \in 1..n : j # k => IndexesOf(list[j]) \cap IndexesOf(list[k]) = {}
      /\ texts = IndexesOf(got) \cup UNION {IndexesOf(list[j]) : j \in 1..n}
  BY <1>1 DEF Divides
\* Each of the grown list is within one of the old, and only the halves share one.
<1> DEFINE Of(j) == IF j <= 2 THEN 1 ELSE j - 1
<1>4. \A j \in 1..(n + 1) :
        /\ Of(j) \in 1..n /\ OneEach(grown[j]) /\ IndexesOf(grown[j]) \subseteq IndexesOf(list[Of(j)])
        /\ j # 1 /\ j # 2 => grown[j] = list[Of(j)] /\ Of(j) # 1
  <2> SUFFICES ASSUME NEW j \in 1..(n + 1)
               PROVE  /\ Of(j) \in 1..n /\ OneEach(grown[j]) /\ IndexesOf(grown[j]) \subseteq IndexesOf(list[Of(j)])
                      /\ j # 1 /\ j # 2 => grown[j] = list[Of(j)] /\ Of(j) # 1
    OBVIOUS
  <2>1. CASE j = 1 \/ j = 2
    <3>1. Of(j) = 1
      BY <2>1
    <3> QED
      BY <1>1, <1>2, <2>1, <3>1
  <2>2. CASE j # 1 /\ j # 2
    <3>1. Of(j) = j - 1 /\ j - 1 \in 2..n /\ (j - 1) + 1 = j /\ j - 1 # 1 /\ j - 1 \in 1..n
      BY <1>1, <2>2
    <3>2. grown[j] = list[j - 1]
      BY <1>2, <3>1
    <3> QED
      BY <1>3, <3>1, <3>2
  <2> QED
    BY <2>1, <2>2
<1>5. \A j, k \in 1..(n + 1) : j # k => Of(j) # Of(k) \/ (j = 1 /\ k = 2) \/ (j = 2 /\ k = 1)
  BY <1>1
<1> HIDE DEF Of
<1>6. \A j \in 1..(n + 1) : IndexesOf(got) \cap IndexesOf(grown[j]) = {}
  BY <1>3, <1>4
<1>7. \A j, k \in 1..(n + 1) : j # k => IndexesOf(grown[j]) \cap IndexesOf(grown[k]) = {}
  <2> SUFFICES ASSUME NEW j \in 1..(n + 1), NEW k \in 1..(n + 1), j # k
               PROVE  IndexesOf(grown[j]) \cap IndexesOf(grown[k]) = {}
    OBVIOUS
  <2>1. CASE Of(j) # Of(k)
    <3>1. IndexesOf(list[Of(j)]) \cap IndexesOf(list[Of(k)]) = {}
      BY <1>3, <1>4, <2>1
    <3>2. IndexesOf(grown[j]) \subseteq IndexesOf(list[Of(j)]) /\ IndexesOf(grown[k]) \subseteq IndexesOf(list[Of(k)])
      BY <1>4
    <3> QED
      BY <3>1, <3>2
  <2>2. CASE (j = 1 /\ k = 2) \/ (j = 2 /\ k = 1)
    BY <1>2, <2>2
  <2> QED
    BY <1>5, <2>1, <2>2
<1>8. UNION {IndexesOf(list[j]) : j \in 1..n} = UNION {IndexesOf(grown[j]) : j \in 1..(n + 1)}
  <2>1. \A j \in 1..n : j = 1 \/ (j + 1 \in 1..(n + 1) /\ grown[j + 1] = list[j])
    <3> SUFFICES ASSUME NEW j \in 1..n, j # 1 PROVE j + 1 \in 1..(n + 1) /\ grown[j + 1] = list[j]
      OBVIOUS
    <3>1. j \in 2..n /\ j + 1 \in 1..(n + 1)
      BY <1>1
    <3> QED
      BY <1>2, <3>1
  <2>2. 1 \in 1..(n + 1) /\ 2 \in 1..(n + 1)
    BY <1>1
  <2>3. \A j \in 1..n : \A x \in IndexesOf(list[j]) : \E k \in 1..(n + 1) : x \in IndexesOf(grown[k])
    <3> SUFFICES ASSUME NEW j \in 1..n, NEW x \in IndexesOf(list[j])
                 PROVE  \E k \in 1..(n + 1) : x \in IndexesOf(grown[k])
      OBVIOUS
    <3>1. CASE j = 1
      BY <1>2, <2>2, <3>1
    <3>2. CASE j # 1
      BY <2>1, <3>2
    <3> QED
      BY <3>1, <3>2
  <2>4. \A k \in 1..(n + 1) : \A x \in IndexesOf(grown[k]) : \E j \in 1..n : x \in IndexesOf(list[j])
    BY <1>4
  <2> QED
    <3> DEFINE O(j) == IndexesOf(list[j])
               W(k) == IndexesOf(grown[k])
    <3>0. /\ \A j \in 1..n : \A x \in O(j) : \E k \in 1..(n + 1) : x \in W(k)
          /\ \A k \in 1..(n + 1) : \A x \in W(k) : \E j \in 1..n : x \in O(j)
      BY <2>3, <2>4
    <3> HIDE DEF O, W
    <3>1. \A x \in UNION {O(j) : j \in 1..n} : x \in UNION {W(k) : k \in 1..(n + 1)}
      <4> SUFFICES ASSUME NEW j \in 1..n, NEW x \in O(j) PROVE \E k \in 1..(n + 1) : x \in W(k)
        OBVIOUS
      <4> QED
        BY <3>0
    <3>2. \A x \in UNION {W(k) : k \in 1..(n + 1)} : x \in UNION {O(j) : j \in 1..n}
      <4> SUFFICES ASSUME NEW k \in 1..(n + 1), NEW x \in W(k) PROVE \E j \in 1..n : x \in O(j)
        OBVIOUS
      <4> QED
        BY <3>0
    <3>3. UNION {O(j) : j \in 1..n} = UNION {W(k) : k \in 1..(n + 1)}
      BY <3>1, <3>2
    <3> QED
      BY <3>3 DEF O, W
<1> QED
  BY <1>2, <1>3, <1>4, <1>6, <1>7, <1>8 DEF Divides

-----------------------------------------------------------------------------
(* Vectors and answers.                                                    *)

Entries(side) == {[index |-> i, vector |-> Vector(i + 1, side, f)] : i \in Nat, f \in BOOLEAN}
LastWith(s, i) == CHOOSE k \in DOMAIN s : s[k].index = i /\ \A l \in DOMAIN s : s[l].index = i => l <= k

\* What a vector is marked with.
LEMMA VectorMarked ==
  ASSUME NEW y, NEW z, NEW a, NEW b, NEW r, r = [text |-> y, side |-> z, finite |-> a]
  PROVE  [r EXCEPT !.finite = b] = [text |-> y, side |-> z, finite |-> b]
  OBVIOUS

\* A vector that is not finite keeps its text and its side.
LEMMA VectorSpoiled ==
  ASSUME NEW y, NEW z, NEW r, r = [text |-> y, side |-> z, finite |-> TRUE]
  PROVE  [r EXCEPT !.finite = FALSE] = [text |-> y, side |-> z, finite |-> FALSE]
<1> DEFINE a == TRUE
           b == FALSE
<1>1. r = [text |-> y, side |-> z, finite |-> a]
  OBVIOUS
<1> HIDE DEF a, b
<1>2. [r EXCEPT !.finite = b] = [text |-> y, side |-> z, finite |-> b]
  BY <1>1, VectorMarked
<1> USE DEF a, b
<1> QED
  BY <1>2

\* Of the items with one index the last is taken.
LEMMA LastWithIsOne ==
  ASSUME NEW s, NEW n \in Nat, DOMAIN s = 1..n, NEW i, \E k \in DOMAIN s : s[k].index = i
  PROVE  LastWith(s, i) \in 1..n /\ s[LastWith(s, i)].index = i
<1> DEFINE P == {k \in 1..n : s[k].index = i}
<1>1. P \in SUBSET (1..n) /\ P # {}
  OBVIOUS
<1>2. PICK p \in P : \A o \in P : o <= p
  <2> HIDE DEF P
  <2> QED
    BY <1>1, EndPlaces
<1>3. \E k \in DOMAIN s : s[k].index = i /\ \A l \in DOMAIN s : s[l].index = i => l <= k
  BY <1>2
<1> QED
  BY <1>3 DEF LastWith

\* The vectors a worker takes from a response are those of its batch, each at the
\* place of its text, in whichever order they were sent; all but the numbers is right.
AnswerOf(batch, taken) == [k \in DOMAIN batch |-> [index |-> batch[k].index, vector |-> taken[k]]]
\* What is received for a batch is listed under its own texts.
LEMMA AnswersBelong ==
  ASSUME NEW batch \in Seq(Input), batch # <<>>, NEW items \in Served(batch) \cup Garbled(batch),
         NEW taken \in parse_embeddings_response(items, Len(batch))
  PROVE  /\ AnswerOf(batch, taken) \in Seq(Entries(call.side))
         /\ Len(AnswerOf(batch, taken)) = Len(batch)
         /\ \A k \in DOMAIN batch : AnswerOf(batch, taken)[k].index = batch[k].index
<1> DEFINE n == Len(batch)
           V(k, f) == Vector(batch[k].index + 1, call.side, f)
           I == Items(batch)
<1>1. n \in Nat /\ n > 0 /\ DOMAIN batch = 1..n /\ \A k \in 1..n : batch[k].index \in Nat
  <2>1. n \in Nat /\ n > 0 /\ DOMAIN batch = 1..n /\ \A k \in 1..n : batch[k] \in Input
    BY LenProperties, ElementOfSeq
  <2> QED
    BY <2>1 DEF Input
<1> HIDE DEF n
<1>2. I = [k \in 1..n |-> [index |-> k - 1, vector |-> V(k, TRUE), fits |-> TRUE, broken |-> FALSE]]
  BY <1>1 DEF Items
<1> HIDE DEF I, V
<1>3. DOMAIN I = 1..n /\ \A k \in 1..n : I[k].index = k - 1 /\ I[k].vector = V(k, TRUE)
  BY <1>2
<1>4. Len(I) = n /\ I # <<>> /\ \E X : I \in Seq(X)
  <2> DEFINE X == {I[k] : k \in 1..n}
  <2>1. I \in [1..n -> X]
    BY <1>2, <1>3
  <2>2. I \in Seq(X)
    <3> HIDE DEF X
    <3> QED
      BY <1>1, <2>1, SeqDef
  <2>3. Len(I) = n
    <3> HIDE DEF X
    <3> QED
      BY <1>1, <1>3, <2>2, LenProperties
  <2>4. I # <<>>
    BY <1>1, <2>3
  <2> QED
    BY <2>2, <2>3, <2>4
<1> DEFINE parsed == parse_embeddings_response(items, n)
           Sound(s) == \A k \in 1..n : \A o \in 1..n :
                         s[o].index = k - 1 => s[o].vector = V(k, TRUE) \/ s[o].vector = V(k, FALSE)
<1>5. /\ Len(items) = n
      /\ \A k \in DOMAIN items : ~ (items[k].index >= n)
      /\ \A i \in 0..(n - 1) : \E k \in DOMAIN items : items[k].index = i
      /\ taken = [i \in 1..n |-> items[LastWith(items, i - 1)].vector]
  BY DEF parse_embeddings_response, LastWith, n
<1> HIDE DEF parsed
<1>6. DOMAIN items = 1..n /\ Sound(items)
  <2>1. CASE items = I
    <3>1. DOMAIN items = 1..n
      BY <1>3, <2>1
    <3>2. \A k, o \in 1..n : items[o].index = k - 1 => o = k
      <4>1. \A o \in 1..n : items[o].index = o - 1
        BY <1>3, <2>1
      <4>2. \A k, o \in 1..n : o - 1 = k - 1 => o = k
        BY <1>1
      <4> QED
        BY <4>1, <4>2
    <3> QED
      BY <1>3, <2>1, <3>1, <3>2
  <2>2. CASE items = Reverse(I)
    <3>1. items = [i \in 1..n |-> I[(n - i) + 1]]
      BY <1>4, <2>2 DEF Reverse
    <3>2. \A o \in 1..n : (n - o) + 1 \in 1..n /\ items[o] = I[(n - o) + 1]
      BY <1>1, <3>1
    <3>3. Sound(items)
      <4> SUFFICES ASSUME NEW k \in 1..n, NEW o \in 1..n, items[o].index = k - 1
                   PROVE  items[o].vector = V(k, TRUE)
        OBVIOUS
      <4> DEFINE j == (n - o) + 1
      <4>1. j \in 1..n /\ items[o] = I[j]
        BY <3>2
      <4> HIDE DEF j
      <4>2. j - 1 = k - 1
        BY <1>3, <4>1
      <4>3. j = k
        BY <1>1, <4>1, <4>2
      <4> QED
        BY <1>3, <4>1, <4>3
    <3> QED
      BY <3>1, <3>3
  <2>3. CASE items = Tail(I)
    <3>1. Len(items) = n - 1
      BY <1>4, <2>3, HeadTailProperties
    <3> QED
      BY <1>1, <1>5, <3>1
  <2>4. ASSUME NEW x, items = [I EXCEPT ![1] = x],
               \/ x.index = 0 /\ (x.vector = V(1, TRUE) \/ x.vector = V(1, FALSE))
               \/ x.index = n
               \/ x.index = n - 1 /\ x.vector = V(1, TRUE)
        PROVE  DOMAIN items = 1..n /\ Sound(items)
    <3>1. DOMAIN items = 1..n /\ items[1] = x /\ 1 \in 1..n /\ \A o \in 1..n : o # 1 => items[o] = I[o]
      BY <1>1, <1>3, <2>4
    <3>2. \A o \in 1..n : o # 1 => items[o].index = o - 1 /\ items[o].vector = V(o, TRUE)
      BY <1>3, <3>1
    <3>3. x.index # n
      <4>1. ~ (x.index >= n)
        BY <1>5, <3>1
      <4> QED
        BY <1>1, <4>1
    <3>4. x.index = n - 1 => n = 1
      <4> SUFFICES ASSUME x.index = n - 1, n # 1 PROVE FALSE
        OBVIOUS
      <4>1. 0 \in 0..(n - 1)
        BY <1>1
      <4>2. PICK o \in 1..n : items[o].index = 0
        BY <1>5, <3>1, <4>1
      <4>3. o # 1 => o - 1 = 0
        BY <3>2, <4>2
      <4>4. o = 1 => n - 1 = 0
        BY <3>1, <4>2
      <4> QED
        BY <1>1, <4>2, <4>3, <4>4
    <3>5. x.index = 0 /\ (x.vector = V(1, TRUE) \/ x.vector = V(1, FALSE))
      <4>1. n = 1 => n - 1 = 0
        OBVIOUS
      <4> QED
        BY <2>4, <3>3, <3>4, <4>1
    <3>6. Sound(items)
      <4> SUFFICES ASSUME NEW k \in 1..n, NEW o \in 1..n, items[o].index = k - 1
                   PROVE  items[o].vector = V(k, TRUE) \/ items[o].vector = V(k, FALSE)
        OBVIOUS
      <4>1. CASE o = 1
        <5>1. k - 1 = 0
          BY <3>1, <3>5, <4>1
        <5>2. k = 1
          BY <1>1, <5>1
        <5> QED
          BY <3>1, <3>5, <4>1, <5>2
      <4>2. CASE o # 1
        <5>1. o - 1 = k - 1
          BY <3>2, <4>2
        <5>2. o = k
          BY <1>1, <5>1
        <5> QED
          BY <3>2, <4>2, <5>2
      <4> QED
        BY <4>1, <4>2
    <3> QED
      BY <3>1, <3>6
  <2> DEFINE first == [index |-> 0, vector |-> V(1, TRUE), fits |-> TRUE, broken |-> FALSE]
  <2>5. I[1] = first
    <3>1. 1 \in 1..n /\ 1 - 1 = 0
      BY <1>1
    <3> QED
      BY <1>2, <3>1
  <2>6. V(1, TRUE) = [text |-> batch[1].index + 1, side |-> call.side, finite |-> TRUE]
        /\ V(1, FALSE) = [text |-> batch[1].index + 1, side |-> call.side, finite |-> FALSE]
    BY DEF V, Vector
  <2>7. items = I \/ items = Reverse(I) \/ items = Tail(I)
        \/ \E x \in {[I[1] EXCEPT !.index = n], [I[1] EXCEPT !.index = n - 1], [I[1] EXCEPT !.fits = FALSE],
                     [I[1] EXCEPT !.broken = TRUE], [I[1] EXCEPT !.vector.finite = FALSE]} :
             items = [I EXCEPT ![1] = x]
    BY DEF Served, Garbled, I, n
  <2>8. ASSUME NEW x \in {[I[1] EXCEPT !.index = n], [I[1] EXCEPT !.index = n - 1], [I[1] EXCEPT !.fits = FALSE],
                     [I[1] EXCEPT !.broken = TRUE], [I[1] EXCEPT !.vector.finite = FALSE]}
        PROVE  \/ x.index = 0 /\ (x.vector = V(1, TRUE) \/ x.vector = V(1, FALSE))
               \/ x.index = n
               \/ x.index = n - 1 /\ x.vector = V(1, TRUE)
    <3>1. CASE x = [I[1] EXCEPT !.index = n]
      BY <2>5, <3>1
    <3>2. CASE x = [I[1] EXCEPT !.index = n - 1]
      BY <2>5, <3>2
    <3>3. CASE x = [I[1] EXCEPT !.fits = FALSE]
      BY <2>5, <3>3
    <3>4. CASE x = [I[1] EXCEPT !.broken = TRUE]
      BY <2>5, <3>4
    <3>5. CASE x = [I[1] EXCEPT !.vector.finite = FALSE]
      <4> DEFINE none == [V(1, TRUE) EXCEPT !.finite = FALSE]
      <4>0. x = [index |-> 0, vector |-> none, fits |-> TRUE, broken |-> FALSE]
        <5>1. x = [first EXCEPT !.vector.finite = FALSE]
          BY <2>5, <3>5
        <5> QED
          BY <5>1
      <4>1. x.index = 0 /\ x.vector = none
        BY <4>0
      <4>2. none = V(1, FALSE)
        <5> DEFINE y == batch[1].index + 1
                   z == call.side
        <5>1. V(1, TRUE) = [text |-> y, side |-> z, finite |-> TRUE] /\ V(1, FALSE) = [text |-> y, side |-> z, finite |-> FALSE]
          BY <2>6
        <5> DEFINE r == V(1, TRUE)
                   w == V(1, FALSE)
        <5>2. r = [text |-> y, side |-> z, finite |-> TRUE] /\ w = [text |-> y, side |-> z, finite |-> FALSE]
              /\ none = [r EXCEPT !.finite = FALSE]
          BY <5>1
        <5> HIDE DEF y, z, r, w, none
        <5>3. [r EXCEPT !.finite = FALSE] = [text |-> y, side |-> z, finite |-> FALSE]
          BY <5>2, VectorSpoiled
        <5>4. none = w
          BY <5>2, <5>3
        <5> QED
          BY <5>4 DEF w
      <4> QED
        BY <4>1, <4>2
    <3> QED
      BY <3>1, <3>2, <3>3, <3>4, <3>5
  <2> HIDE DEF Sound, first
  <2> QED
    BY <2>1, <2>2, <2>3, <2>4, <2>7, <2>8
<1>7. ASSUME NEW k \in 1..n PROVE \E f \in BOOLEAN : taken[k] = V(k, f)
  <2> DEFINE o == LastWith(items, k - 1)
  <2>1. o \in 1..n /\ items[o].index = k - 1
    <3>1. \E j \in DOMAIN items : items[j].index = k - 1
      <4>1. k - 1 \in 0..(n - 1)
        BY <1>1
      <4> QED
        BY <1>5, <4>1
    <3> QED
      BY <1>1, <1>6, <3>1, LastWithIsOne
  <2>2. taken[k] = items[o].vector
    BY <1>5
  <2> HIDE DEF o
  <2>3. items[o].vector = V(k, TRUE) \/ items[o].vector = V(k, FALSE)
    BY <1>6, <2>1
  <2> QED
    BY <2>2, <2>3
<1> DEFINE e == AnswerOf(batch, taken)
<1>8. e = [k \in 1..n |-> [index |-> batch[k].index, vector |-> taken[k]]]
  BY <1>1 DEF AnswerOf
<1> HIDE DEF e
<1>9. \A k \in 1..n : e[k] \in Entries(call.side) /\ e[k].index = batch[k].index
  <2> SUFFICES ASSUME NEW k \in 1..n PROVE e[k] \in Entries(call.side) /\ e[k].index = batch[k].index
    OBVIOUS
  <2>1. PICK f \in BOOLEAN : taken[k] = V(k, f)
    BY <1>7
  <2>2. e[k] = [index |-> batch[k].index, vector |-> Vector(batch[k].index + 1, call.side, f)]
    BY <1>8, <2>1 DEF V
  <2>3. batch[k].index \in Nat
    BY <1>1
  <2>4. \E i \in Nat, g \in BOOLEAN : e[k] = [index |-> i, vector |-> Vector(i + 1, call.side, g)]
    BY <2>2, <2>3
  <2>5. e[k] \in Entries(call.side)
    BY <2>4 DEF Entries
  <2> QED
    BY <2>2, <2>5
<1>10. e \in Seq(Entries(call.side)) /\ Len(e) = n
  <2>1. e \in [1..n -> Entries(call.side)] /\ DOMAIN e = 1..n
    BY <1>8, <1>9
  <2>2. e \in Seq(Entries(call.side))
    BY <1>1, <2>1, SeqDef
  <2> QED
    BY <1>1, <2>1, <2>2, LenProperties
<1> QED
  BY <1>1, <1>9, <1>10 DEF e, n

-----------------------------------------------------------------------------
(* Sums.                                                                   *)

SumUpto(f, S, g) ==
  [s \in SUBSET S |-> IF s = {} THEN 0
                      ELSE f[CHOOSE x \in s : TRUE] + g[s \ {CHOOSE x \in s : TRUE}]]
\* A sum is the one the fold chooses.
LEMMA SumIsChosen ==
  ASSUME NEW f, NEW S
  PROVE  SumFunctionOnSet(f, S) = (CHOOSE g : g = SumUpto(f, S, g))[S]
  BY DEF SumFunctionOnSet, FoldFunctionOnSet, MapThenFoldSet, SumUpto

\* A sum takes the elements in an order that is the same for every function.
SumBy(it, f, S, c) ==
  /\ it \in [SUBSET S -> Int]
  /\ it[S] = SumFunctionOnSet(f, S)
  /\ \A s \in SUBSET S : it[s] = IF s = {} THEN 0 ELSE f[c[s]] + it[s \ {c[s]}]
Order(S) == [s \in SUBSET S |-> CHOOSE x \in s : TRUE]
\* Such a sequence of partial sums exists.
LEMMA SumSteps ==
  ASSUME NEW S, IsFiniteSet(S), NEW f \in [S -> Int]
  PROVE  \E it : SumBy(it, f, S, Order(S))
<1> DEFINE ch(s) == CHOOSE x \in s : TRUE
           c == Order(S)
           G == [i \in S |-> [l \in Int |-> f[i] + l]]
           it == CHOOSE g : g = SumUpto(f, S, g)
<1>1. \A i \in S : f[i] \in Int
  OBVIOUS
<1>2. \A s \in SUBSET S : s # {} => c[s] \in s /\ c[s] = ch(s)
  BY DEF Order
<1>3. \A g : SumUpto(f, S, g) = [s \in SUBSET S |-> IF s = {} THEN 0 ELSE f[c[s]] + g[s \ {c[s]}]]
  <2> SUFFICES ASSUME NEW g
               PROVE  SumUpto(f, S, g) = [s \in SUBSET S |-> IF s = {} THEN 0 ELSE f[c[s]] + g[s \ {c[s]}]]
    OBVIOUS
  <2>1. SumUpto(f, S, g) = [s \in SUBSET S |-> IF s = {} THEN 0 ELSE f[ch(s)] + g[s \ {ch(s)}]]
    BY DEF SumUpto
  <2> HIDE DEF ch, c
  <2> QED
    BY <1>2, <2>1
<1>4. G \in [S -> [Int -> Int]]
  BY <1>1
<1>5. \E g \in [SUBSET S -> Int] : g = SumUpto(f, S, g)
  <2>1. \E g : IsFold(g, S, Int, 0, c, G)
    <3>1. Takes(c, S)
      BY <1>2 DEF Takes
    <3>2. 0 \in Int
      OBVIOUS
    <3> HIDE DEF G, c
    <3> QED
      BY <1>4, <3>1, <3>2, FoldExists
  <2>2. PICK g \in [SUBSET S -> Int] : \A s \in SUBSET S :
           g[s] = IF s = {} THEN 0 ELSE G[c[s]][g[s \ {c[s]}]]
    BY <2>1 DEF IsFold
  <2>3. ASSUME NEW s \in SUBSET S, s # {} PROVE g[s] = f[c[s]] + g[s \ {c[s]}]
    <3>1. c[s] \in S /\ s \ {c[s]} \in SUBSET S
      BY <1>2, <2>3
    <3>2. g[s \ {c[s]}] \in Int
      BY <2>2, <3>1
    <3>3. g[s] = G[c[s]][g[s \ {c[s]}]]
      BY <2>2, <2>3
    <3> HIDE DEF c
    <3> QED
      BY <3>1, <3>2, <3>3
  <2>4. g = [s \in SUBSET S |-> IF s = {} THEN 0 ELSE f[c[s]] + g[s \ {c[s]}]]
    <3> HIDE DEF c
    <3> QED
      BY <2>2, <2>3
  <2>5. SumUpto(f, S, g) = [s \in SUBSET S |-> IF s = {} THEN 0 ELSE f[c[s]] + g[s \ {c[s]}]]
    BY <1>3
  <2> QED
    BY <2>4, <2>5
<1>6. it = [s \in SUBSET S |-> IF s = {} THEN 0 ELSE f[c[s]] + it[s \ {c[s]}]]
  <2>1. it = SumUpto(f, S, it)
    BY <1>5
  <2> HIDE DEF it
  <2> QED
    BY <1>3, <2>1
<1>7. \A g, h : g = SumUpto(f, S, g) /\ h = SumUpto(f, S, h) /\ g \in [SUBSET S -> Int] => h \in [SUBSET S -> Int]
  <2> SUFFICES ASSUME NEW g, NEW h, g = SumUpto(f, S, g), h = SumUpto(f, S, h), g \in [SUBSET S -> Int]
               PROVE  h \in [SUBSET S -> Int]
    OBVIOUS
  <2> HIDE DEF it, G, ch
  <2> DEFINE N == Cardinality(S)
             Bad == {m \in 1..N : \E s \in SUBSET S : Cardinality(s) = m /\ h[s] \notin Int}
  <2>0. h = [s \in SUBSET S |-> IF s = {} THEN 0 ELSE f[c[s]] + h[s \ {c[s]}]]
    BY <1>3
  <2>1. N \in Nat /\ \A s \in SUBSET S : /\ Cardinality(s) \in Nat /\ Cardinality(s) <= N
                                         /\ (s # {} => Cardinality(s) # 0)
                                         /\ (s # {} => Cardinality(s \ {c[s]}) = Cardinality(s) - 1)
    <3>1. N \in Nat
      BY FS_CardinalityType
    <3>2. \A s \in SUBSET S : IsFiniteSet(s) /\ Cardinality(s) \in Nat /\ Cardinality(s) <= N
      BY FS_Subset, FS_CardinalityType
    <3>3. \A s \in SUBSET S : s # {} => Cardinality(s) # 0
      BY <3>2, FS_EmptySet
    <3>4. ASSUME NEW s \in SUBSET S, s # {} PROVE Cardinality(s \ {c[s]}) = Cardinality(s) - 1
      <4>1. IsFiniteSet(s) /\ c[s] \in s
        BY <1>2, <3>2, <3>4
      <4> HIDE DEF c, N
      <4> QED
        BY <4>1, FS_RemoveElement
    <3> QED
      BY <3>1, <3>2, <3>3, <3>4
  <2> HIDE DEF N
  <2>a. \A s \in SUBSET S : s # {} => Cardinality(s) \in 1..N
    <3> SUFFICES ASSUME NEW s \in SUBSET S, s # {} PROVE Cardinality(s) \in 1..N
      OBVIOUS
    <3> DEFINE k == Cardinality(s)
    <3>1. k \in Nat /\ k <= N /\ k # 0
      BY <2>1
    <3> HIDE DEF k
    <3>2. k \in 1..N
      BY <2>1, <3>1
    <3> QED
      BY <3>2 DEF k
  <2>2. Bad = {}
    <3> SUFFICES ASSUME Bad # {} PROVE FALSE
      OBVIOUS
    <3>1. Bad \in SUBSET (1..N)
      OBVIOUS
    <3>2. PICK m \in Bad : \A o \in Bad : m <= o
      <4> HIDE DEF Bad
      <4> QED
        BY <2>1, <3>1, EndPlaces
    <3>3. PICK s \in SUBSET S : Cardinality(s) = m /\ h[s] \notin Int
      BY <3>2
    <3>4. m \in 1..N
      BY <3>2
    <3> DEFINE r == s \ {c[s]}
    <3>5. s # {}
      BY <2>0, <3>3
    <3>6. r \in SUBSET S /\ Cardinality(r) = m - 1 /\ c[s] \in S
      BY <1>2, <2>1, <3>3, <3>5
    <3>7. h[s] = f[c[s]] + h[r]
      BY <2>0, <3>5
    <3> HIDE DEF r, c
    <3>8. h[r] \notin Int
      BY <1>1, <3>3, <3>6, <3>7
    <3>9. r # {}
      BY <2>0, <3>8
    <3>10. m - 1 \in 1..N
      BY <2>a, <3>6, <3>9
    <3>11. m - 1 \in Bad
      <4>1. \E x \in SUBSET S : Cardinality(x) = m - 1 /\ h[x] \notin Int
        BY <3>6, <3>8
      <4> QED
        BY <3>10, <4>1
    <3> HIDE DEF Bad
    <3> QED
      BY <3>2, <3>4, <3>11
  <2>3. \A s \in SUBSET S : h[s] \in Int
    <3> SUFFICES ASSUME NEW s \in SUBSET S, h[s] \notin Int PROVE FALSE
      OBVIOUS
    <3>1. s # {}
      BY <2>0
    <3>2. Cardinality(s) \in 1..N
      BY <2>a, <3>1
    <3>3. Cardinality(s) \in Bad
      <4>1. \E x \in SUBSET S : Cardinality(x) = Cardinality(s) /\ h[x] \notin Int
        OBVIOUS
      <4> QED
        BY <3>2, <4>1
    <3> QED
      BY <2>2, <3>3
  <2> HIDE DEF c
  <2> QED
    BY <2>0, <2>3
<1>8. it \in [SUBSET S -> Int]
  <2>1. it = SumUpto(f, S, it)
    BY <1>5
  <2> HIDE DEF it, c, ch, G
  <2> QED
    BY <1>5, <1>7, <2>1
<1>9. it[S] = SumFunctionOnSet(f, S)
  BY SumIsChosen
<1> HIDE DEF it, ch, G
<1>10. \A s \in SUBSET S : it[s] = IF s = {} THEN 0 ELSE f[c[s]] + it[s \ {c[s]}]
  <2> HIDE DEF c
  <2> QED
    BY <1>6
<1> QED
  BY <1>8, <1>9, <1>10 DEF SumBy

\* Two sums and a third quantity, compared one element at a time.
Apart(f, e, h, k, d, S) ==
  0 <= d[{}] /\ \A s \in SUBSET S : \A x \in s : e * f[x] + d[s \ {x}] <= k * h[x] + d[s]
\* Sums compare as their elements do.
LEMMA SumsCompare ==
  ASSUME NEW S, IsFiniteSet(S), NEW f \in [S -> Int], NEW h \in [S -> Int], NEW d \in [SUBSET S -> Int],
         NEW e \in {0, 1}, NEW k \in {0, 1}, Apart(f, e, h, k, d, S)
  PROVE  /\ SumFunctionOnSet(f, S) \in Int /\ SumFunctionOnSet(h, S) \in Int
         /\ e * SumFunctionOnSet(f, S) <= k * SumFunctionOnSet(h, S) + d[S]
<1> DEFINE c == Order(S)
           N == Cardinality(S)
<1>0. 0 <= d[{}] /\ \A s \in SUBSET S : \A x \in s : e * f[x] + d[s \ {x}] <= k * h[x] + d[s]
  BY DEF Apart
<1>1. PICK F : SumBy(F, f, S, Order(S))
  BY SumSteps
<1>2. PICK H : SumBy(H, h, S, Order(S))
  BY SumSteps
<1>3. /\ F \in [SUBSET S -> Int] /\ H \in [SUBSET S -> Int]
      /\ F[S] = SumFunctionOnSet(f, S) /\ H[S] = SumFunctionOnSet(h, S)
      /\ F[{}] = 0 /\ H[{}] = 0
  BY <1>1, <1>2 DEF SumBy
<1>4. \A s \in SUBSET S : s # {} => c[s] \in s
  BY DEF Order
<1>5. \A s \in SUBSET S : s # {} => F[s] = f[c[s]] + F[s \ {c[s]}] /\ H[s] = h[c[s]] + H[s \ {c[s]}]
  BY <1>1, <1>2 DEF SumBy
<1> HIDE DEF c
<1> DEFINE Good(s) == e * F[s] <= k * H[s] + d[s]
           Bad == {m \in 1..N : \E s \in SUBSET S : Cardinality(s) = m /\ ~ Good(s)}
<1>6. Good({})
  <2>1. d[{}] \in Int
    OBVIOUS
  <2>2. e * 0 = 0 /\ k * 0 = 0
    OBVIOUS
  <2> QED
    BY <1>0, <1>3, <2>1, <2>2
<1>7. ASSUME NEW s \in SUBSET S, s # {}, Good(s \ {c[s]}) PROVE Good(s)
  <2> DEFINE x == c[s]
             r == s \ {x}
  <2>1. x \in s /\ x \in S /\ r \in SUBSET S
    BY <1>4, <1>7
  <2>2. F[s] = f[x] + F[r] /\ H[s] = h[x] + H[r]
    BY <1>5, <1>7
  <2>3. e * f[x] + d[r] <= k * h[x] + d[s]
    BY <1>0, <2>1
  <2>4. e * F[r] <= k * H[r] + d[r]
    BY <1>7
  <2> HIDE DEF x, r
  <2>5. F[s] \in Int /\ H[s] \in Int /\ F[r] \in Int /\ H[r] \in Int /\ d[r] \in Int /\ d[s] \in Int
        /\ f[x] \in Int /\ h[x] \in Int
    BY <1>3, <2>1
  <2> DEFINE Fs == F[s] Hs == H[s] Fr == F[r] Hr == H[r] dr == d[r] ds == d[s] fx == f[x] hx == h[x]
  <2>6. Fs \in Int /\ Hs \in Int /\ Fr \in Int /\ Hr \in Int /\ dr \in Int /\ ds \in Int
        /\ fx \in Int /\ hx \in Int
    BY <2>5
  <2>7. Fs = fx + Fr /\ Hs = hx + Hr /\ e * fx + dr <= k * hx + ds /\ e * Fr <= k * Hr + dr
    BY <2>2, <2>3, <2>4
  <2> HIDE DEF Fs, Hs, Fr, Hr, dr, ds, fx, hx
  <2>8. e * Fs <= k * Hs + ds
    <3>1. CASE e = 0 /\ k = 0
      BY <2>6, <2>7, <3>1
    <3>2. CASE e = 0 /\ k = 1
      BY <2>6, <2>7, <3>2
    <3>3. CASE e = 1 /\ k = 0
      BY <2>6, <2>7, <3>3
    <3>4. CASE e = 1 /\ k = 1
      BY <2>6, <2>7, <3>4
    <3> QED
      BY <3>1, <3>2, <3>3, <3>4
  <2> QED
    BY <2>8 DEF Fs, Hs, ds
<1>8. N \in Nat /\ \A s \in SUBSET S : /\ IsFiniteSet(s) /\ Cardinality(s) \in Nat /\ Cardinality(s) <= N
                                       /\ s # {} => Cardinality(s) # 0
  <2>1. N \in Nat
    BY FS_CardinalityType
  <2>2. \A s \in SUBSET S : IsFiniteSet(s) /\ Cardinality(s) \in Nat /\ Cardinality(s) <= N
    BY FS_Subset, FS_CardinalityType
  <2> QED
    BY <2>1, <2>2, FS_EmptySet
<1> HIDE DEF N, Good
<1>9. \A s \in SUBSET S : s # {} => Cardinality(s) \in 1..N /\ Cardinality(s \ {c[s]}) = Cardinality(s) - 1
  <2> SUFFICES ASSUME NEW s \in SUBSET S, s # {}
               PROVE  Cardinality(s) \in 1..N /\ Cardinality(s \ {c[s]}) = Cardinality(s) - 1
    OBVIOUS
  <2> DEFINE w == Cardinality(s)
  <2>1. w \in Nat /\ w <= N /\ w # 0
    BY <1>8
  <2>2. c[s] \in s /\ IsFiniteSet(s)
    BY <1>4, <1>8
  <2>3. Cardinality(s \ {c[s]}) = w - 1
    BY <2>2, FS_RemoveElement
  <2> HIDE DEF w
  <2>4. w \in 1..N
    BY <1>8, <2>1
  <2> QED
    BY <2>3, <2>4 DEF w
<1>10. Bad = {}
  <2> SUFFICES ASSUME Bad # {} PROVE FALSE
    OBVIOUS
  <2>1. Bad \in SUBSET (1..N)
    OBVIOUS
  <2>2. PICK m \in Bad : \A o \in Bad : m <= o
    <3> HIDE DEF Bad
    <3> QED
      BY <1>8, <2>1, EndPlaces
  <2>3. m \in 1..N /\ \E s \in SUBSET S : Cardinality(s) = m /\ ~ Good(s)
    BY <2>2
  <2>4. PICK s \in SUBSET S : Cardinality(s) = m /\ ~ Good(s)
    BY <2>3
  <2> DEFINE r == s \ {c[s]}
  <2>5. s # {}
    BY <1>6, <2>4
  <2>6. r \in SUBSET S /\ Cardinality(r) = m - 1 /\ ~ Good(r)
    BY <1>7, <1>9, <2>4, <2>5
  <2> HIDE DEF r
  <2>7. r # {}
    BY <1>6, <2>6
  <2>8. m - 1 \in 1..N
    BY <1>9, <2>6, <2>7
  <2>9. m - 1 \in Bad
    <3>1. \E x \in SUBSET S : Cardinality(x) = m - 1 /\ ~ Good(x)
      BY <2>6
    <3> QED
      BY <2>8, <3>1
  <2> HIDE DEF Bad
  <2> QED
    BY <2>2, <2>3, <2>9
<1>11. Good(S)
  <2> SUFFICES ASSUME ~ Good(S) PROVE FALSE
    OBVIOUS
  <2>1. S # {} /\ S \in SUBSET S
    BY <1>6
  <2>2. Cardinality(S) \in 1..N
    BY <1>9, <2>1
  <2>3. \E x \in SUBSET S : Cardinality(x) = Cardinality(S) /\ ~ Good(x)
    BY <2>1
  <2>4. Cardinality(S) \in Bad
    BY <2>2, <2>3
  <2> QED
    BY <1>10, <2>4
<1> QED
  <2>1. e * F[S] <= k * H[S] + d[S]
    BY <1>11 DEF Good
  <2> QED
    BY <1>3, <2>1

\* A sum of numbers that are all at most others is at most theirs; it changes by
\* what one element does; a sum of nothing is nothing.
LEMMA SumGrows ==
  ASSUME NEW S, IsFiniteSet(S), NEW f \in [S -> Int], NEW h \in [S -> Int], \A x \in S : f[x] <= h[x]
  PROVE  /\ SumFunctionOnSet(f, S) \in Int /\ SumFunctionOnSet(h, S) \in Int
         /\ SumFunctionOnSet(f, S) <= SumFunctionOnSet(h, S)
<1> DEFINE d == [s \in SUBSET S |-> 0]
           X == SumFunctionOnSet(f, S)
           Y == SumFunctionOnSet(h, S)
<1>1. d \in [SUBSET S -> Int] /\ d[S] = 0 /\ d[{}] = 0 /\ \A s \in SUBSET S : d[s] = 0
  OBVIOUS
<1> HIDE DEF d
<1>2. \A s \in SUBSET S : \A x \in s : 1 * f[x] + d[s \ {x}] <= 1 * h[x] + d[s]
  <2> SUFFICES ASSUME NEW s \in SUBSET S, NEW x \in s PROVE 1 * f[x] + d[s \ {x}] <= 1 * h[x] + d[s]
    OBVIOUS
  <2>1. x \in S /\ s \ {x} \in SUBSET S
    OBVIOUS
  <2>2. f[x] \in Int /\ h[x] \in Int /\ f[x] <= h[x] /\ d[s] = 0 /\ d[s \ {x}] = 0
    BY <1>1, <2>1
  <2> QED
    BY <2>2
<1>3. Apart(f, 1, h, 1, d, S)
  BY <1>1, <1>2 DEF Apart
<1>4. X \in Int /\ Y \in Int /\ 1 * X <= 1 * Y + d[S]
  <2>1. 1 \in {0, 1}
    OBVIOUS
  <2> QED
    BY <1>1, <1>3, <2>1, SumsCompare
<1> HIDE DEF X, Y
<1>5. X <= Y
  BY <1>1, <1>4
<1> QED
  BY <1>4, <1>5 DEF X, Y

\* A sum of zeros is zero.
LEMMA SumOfNone ==
  ASSUME NEW S, IsFiniteSet(S), NEW f \in [S -> Int], \A x \in S : f[x] = 0
  PROVE  SumFunctionOnSet(f, S) = 0
<1> DEFINE d == [s \in SUBSET S |-> 0]
           X == SumFunctionOnSet(f, S)
<1>1. d \in [SUBSET S -> Int] /\ d[S] = 0 /\ d[{}] = 0 /\ \A s \in SUBSET S : d[s] = 0
  OBVIOUS
<1> HIDE DEF d
<1>2. \A s \in SUBSET S : \A x \in s : f[x] = 0 /\ d[s \ {x}] = 0 /\ d[s] = 0
  <2> SUFFICES ASSUME NEW s \in SUBSET S, NEW x \in s PROVE f[x] = 0 /\ d[s \ {x}] = 0 /\ d[s] = 0
    OBVIOUS
  <2>1. x \in S /\ s \ {x} \in SUBSET S
    OBVIOUS
  <2> QED
    BY <1>1, <2>1
<1>3. Apart(f, 1, f, 0, d, S) /\ Apart(f, 0, f, 1, d, S)
  BY <1>1, <1>2 DEF Apart
<1>4. X \in Int /\ 1 * X <= 0 * X + d[S] /\ 0 * X <= 1 * X + d[S]
  <2>1. 1 \in {0, 1} /\ 0 \in {0, 1}
    OBVIOUS
  <2> QED
    BY <1>1, <1>3, <2>1, SumsCompare
<1> HIDE DEF X
<1>5. X = 0
  BY <1>1, <1>4
<1> QED
  BY <1>5 DEF X

\* A sum changes by what one element does.
LEMMA SumMoves ==
  ASSUME NEW S, IsFiniteSet(S), NEW f \in [S -> Int], NEW h \in [S -> Int], NEW b \in S,
         \A x \in S : x # b => f[x] = h[x]
  PROVE  /\ SumFunctionOnSet(f, S) \in Int /\ SumFunctionOnSet(h, S) \in Int
         /\ SumFunctionOnSet(f, S) = SumFunctionOnSet(h, S) + (f[b] - h[b])
<1> SUFFICES ASSUME NEW v \in [S -> Int], NEW w \in [S -> Int], \A x \in S : x # b => v[x] = w[x]
             PROVE  /\ SumFunctionOnSet(v, S) \in Int /\ SumFunctionOnSet(w, S) \in Int
                    /\ SumFunctionOnSet(v, S) <= SumFunctionOnSet(w, S) + (v[b] - w[b])
  <2> DEFINE X == SumFunctionOnSet(f, S)
             Y == SumFunctionOnSet(h, S)
  <2>1. X \in Int /\ Y \in Int /\ X <= Y + (f[b] - h[b])
    OBVIOUS
  <2>2. Y <= X + (h[b] - f[b])
    OBVIOUS
  <2>3. f[b] \in Int /\ h[b] \in Int
    OBVIOUS
  <2> HIDE DEF X, Y
  <2>4. X = Y + (f[b] - h[b])
    BY <2>1, <2>2, <2>3
  <2> QED
    BY <2>1, <2>4 DEF X, Y
<1> DEFINE z == v[b] - w[b]
           d == [s \in SUBSET S |-> IF b \in s THEN z ELSE 0]
           X == SumFunctionOnSet(v, S)
           Y == SumFunctionOnSet(w, S)
<1>0. z \in Int
  OBVIOUS
<1>1. d \in [SUBSET S -> Int] /\ d[S] = z /\ d[{}] = 0
      /\ \A s \in SUBSET S : d[s] = IF b \in s THEN z ELSE 0
  <2> HIDE DEF z
  <2> QED
    BY <1>0
<1> HIDE DEF d
<1>2. \A s \in SUBSET S : \A x \in s : 1 * v[x] + d[s \ {x}] <= 1 * w[x] + d[s]
  <2> SUFFICES ASSUME NEW s \in SUBSET S, NEW x \in s PROVE 1 * v[x] + d[s \ {x}] <= 1 * w[x] + d[s]
    OBVIOUS
  <2>1. x \in S /\ s \ {x} \in SUBSET S
    OBVIOUS
  <2>2. v[x] \in Int /\ w[x] \in Int
    BY <2>1
  <2>3. CASE x = b
    <3>1. d[s] = z /\ d[s \ {x}] = 0
      BY <1>1, <2>1, <2>3
    <3>2. v[x] = w[x] + z
      BY <2>2, <2>3
    <3> HIDE DEF z
    <3> QED
      BY <1>0, <2>2, <3>1, <3>2
  <2>4. CASE x # b
    <3>1. d[s \ {x}] = d[s] /\ d[s] \in Int
      BY <1>1, <2>1, <2>4
    <3>2. v[x] = w[x]
      BY <2>1, <2>4
    <3> QED
      BY <2>2, <3>1, <3>2
  <2> QED
    BY <2>3, <2>4
<1>3. Apart(v, 1, w, 1, d, S)
  BY <1>1, <1>2 DEF Apart
<1>4. X \in Int /\ Y \in Int /\ 1 * X <= 1 * Y + d[S]
  <2>1. 1 \in {0, 1}
    OBVIOUS
  <2> QED
    BY <1>1, <1>3, <2>1, SumsCompare
<1> HIDE DEF X, Y
<1>5. X <= Y + z
  <2> HIDE DEF z
  <2> QED
    BY <1>0, <1>1, <1>4
<1> QED
  BY <1>4, <1>5 DEF X, Y

-----------------------------------------------------------------------------
(* The invariant.                                                          *)

Meters == {"requests", "retries", "splits", "failed", "vectors"}
Known ==
  /\ call \in Requests /\ config = resolve_openrouter_runtime_config(call.env)
  /\ at \in {"asked", "remote", "local", "ok", "failed"}
  /\ stats \in [Meters -> Nat]
  /\ at = "asked" => /\ batches = <<>> /\ worker = <<>> /\ gathered = <<>> /\ answer = {}
                     /\ stats = NoStats

\* The batches fit and hold each text once, whatever becomes of the call.
Batched ==
  /\ batches \in Seq(Seq(Input)) /\ \A b \in DOMAIN batches : batches[b] # <<>>
  /\ IF call.runtime = "OpenRouter" THEN Packed(batches, config.max_batch_inputs, config.max_batch_tokens)
     ELSE IF call.side = "Queries" THEN Len(batches) <= 1
     ELSE IF is_fastembed_onnx_gpu(call.runtime) THEN Stacked(batches, GpuRows)
     ELSE Packed(batches, AtLeastOne(call.rows), AtLeastOne(call.tokens))
  /\ at \in {"remote", "local"} \/ batches # <<>> => SpreadOver(batches, Count)

\* A worker's batches and what it received share the texts of its batch.
WorkerStages == {"waiting", "sent", "asleep", "done"}
WorkerType(side) == [at : WorkerStages, pending : Seq(Seq(Input)), attempt : 0..MaxRetries, got : Seq(Entries(side))]
WorkerSound(w, batch, rows, tokens, side) ==
  /\ w \in WorkerType(side)
  /\ w.at = "waiting" => w = Waiting
  /\ w.at = "done" => w.pending = <<>> /\ w.got = <<>>
  /\ w.at = "asleep" => w.attempt < MaxRetries
  /\ w.at \in {"sent", "asleep"} =>
       /\ w.pending # <<>>
       /\ \A j \in DOMAIN w.pending : w.pending[j] # <<>> /\ Fits(w.pending[j], rows, tokens)
       /\ Divides(w.pending, w.got, IndexesOf(batch))
Worked ==
  /\ worker = <<>> \/ (call.runtime = "OpenRouter" /\ DOMAIN worker = DOMAIN batches)
  /\ at = "remote" => call.runtime = "OpenRouter" /\ DOMAIN worker = DOMAIN batches
  /\ at = "local" => call.runtime # "OpenRouter" /\ worker = <<>>
  /\ \A b \in DOMAIN worker :
       WorkerSound(worker[b], batches[b], config.max_batch_inputs, config.max_batch_tokens, call.side)

\* The vectors of the call are those of the batches that are done.
Finished == {b \in DOMAIN worker : worker[b].at = "done"}
Collected ==
  /\ gathered \in Seq(Entries(call.side))
  /\ at = "remote" => /\ OneEach(gathered)
                      /\ IndexesOf(gathered) = UNION {IndexesOf(batches[b]) : b \in Finished}
  /\ at = "local" => \A k \in DOMAIN gathered : gathered[k].vector.finite

\* What a worker has asked for at most: every batch but those still pending with
\* all its retries, of the tree the splits make of n texts.
Used(w, n) ==
  IF w.at = "waiting" THEN 0
  ELSE IF w.at = "done" THEN (MaxRetries + 1) * (2 * n - 1)
  ELSE (MaxRetries + 1) * (2 * Len(w.got) + Len(w.pending) - 1) + w.attempt + 1
UsedBy == [b \in DOMAIN worker |-> Used(worker[b], Len(batches[b]))]
ReceivedBy == [b \in DOMAIN worker |-> Len(worker[b].got)]
Metered ==
  /\ Cardinality(InFlight) <= config.concurrency
  /\ stats.requests <= SumFunctionOnSet(UsedBy, DOMAIN UsedBy)
  /\ at = "remote" => /\ stats.failed = stats.retries + stats.splits
                      /\ stats.vectors = Len(gathered) + SumFunctionOnSet(ReceivedBy, DOMAIN ReceivedBy)

CallInv == Known /\ Batched /\ Worked /\ Collected /\ Metered /\ VectorsBelong

\* The settings are ones a request can meet, whatever the environment says.
LEMMA SettingsInBounds ==
  ASSUME Known
  PROVE  config.max_batch_inputs \in 1..3 /\ config.max_batch_tokens \in 1..6 /\ config.concurrency \in 1..3
<1>1. \A e \in {call.env.inputs, call.env.tokens, call.env.concurrency} : e[1] = "n" => e[2] \in Nat
  BY RequestsAssumption DEF Known
<1>2. ASSUME NEW raw, raw[1] = "n" => raw[2] \in Nat, NEW most \in Nat, NEW dflt \in 1..most
      PROVE  positive_usize_from_env(raw, dflt, most) \in 1..most
  <2>1. CASE raw[1] = "n" /\ raw[2] > 0
    <3>1. raw[2] \in Nat
      BY <1>2, <2>1
    <3>2. Fewest(raw[2], most) \in 1..most
      <4> DEFINE x == raw[2]
      <4>1. x \in Nat /\ x > 0
        BY <2>1, <3>1
      <4> HIDE DEF x
      <4>2. Fewest(x, most) \in 1..most
        BY <4>1 DEF Fewest
      <4> QED
        BY <4>2 DEF x
    <3> QED
      BY <2>1, <3>2 DEF positive_usize_from_env
  <2>2. CASE ~ (raw[1] = "n" /\ raw[2] > 0)
    BY <2>2 DEF positive_usize_from_env
  <2> QED
    BY <2>1, <2>2
<1>3. /\ config.max_batch_inputs = positive_usize_from_env(call.env.inputs, 2, 3)
      /\ config.max_batch_tokens = positive_usize_from_env(call.env.tokens, 4, 6)
      /\ config.concurrency = positive_usize_from_env(call.env.concurrency, 2, 3)
  BY DEF Known, resolve_openrouter_runtime_config
<1>4. 2 \in 1..3 /\ 4 \in 1..6 /\ 3 \in Nat /\ 6 \in Nat
  OBVIOUS
<1>5. positive_usize_from_env(call.env.inputs, 2, 3) \in 1..3
  BY <1>1, <1>2, <1>4
<1>6. positive_usize_from_env(call.env.tokens, 4, 6) \in 1..6
  BY <1>1, <1>2, <1>4
<1>7. positive_usize_from_env(call.env.concurrency, 2, 3) \in 1..3
  BY <1>1, <1>2, <1>4
<1> QED
  BY <1>3, <1>5, <1>6, <1>7

\* What a sequence that lists distinct texts holds can be counted.
LEMMA TextsAreCounted ==
  ASSUME NEW X, NEW s \in Seq(X), OneEach(s)
  PROVE  IsFiniteSet(IndexesOf(s)) /\ Cardinality(IndexesOf(s)) = Len(s)
<1> DEFINE n == Len(s)
           f == [k \in 1..n |-> s[k].index]
<1>1. n \in Nat /\ DOMAIN s = 1..n /\ IsFiniteSet(1..n) /\ Cardinality(1..n) = n
  <2>1. n \in Nat /\ DOMAIN s = 1..n
    BY LenProperties
  <2> HIDE DEF n
  <2>2. IsFiniteSet(1..n) /\ Cardinality(1..n) = n
    BY <2>1, FS_Interval
  <2> QED
    BY <2>1, <2>2
<1> HIDE DEF n
<1>2. f \in Bijection(1..n, IndexesOf(s))
  <2>1. f \in [1..n -> IndexesOf(s)]
    BY <1>1 DEF IndexesOf
  <2>2. \A j, k \in 1..n : f[j] = f[k] => j = k
    BY <1>1 DEF OneEach
  <2>3. \A i \in IndexesOf(s) : \E k \in 1..n : f[k] = i
    BY <1>1 DEF IndexesOf
  <2> QED
    BY <2>1, <2>2, <2>3 DEF Bijection, Injection, Surjection, IsInjective
<1>3. ExistsBijection(1..n, IndexesOf(s))
  BY <1>2 DEF ExistsBijection
<1> QED
  BY <1>1, <1>3, FS_Bijection DEF n

\* What a worker received and the batches it still has are no more than its texts.
LEMMA SharesAreFew ==
  ASSUME NEW list \in Seq(Seq(Input)), NEW X, NEW got \in Seq(X), NEW batch \in Seq(Input), OneEach(batch),
         Divides(list, got, IndexesOf(batch)), \A j \in DOMAIN list : list[j] # <<>>
  PROVE  Len(got) + Len(list) <= Len(batch)
<1> DEFINE n == Len(list)
           f == [j \in 1..n |-> list[j][1].index]
           F == {f[j] : j \in 1..n}
           G == IndexesOf(got)
           B == IndexesOf(batch)
<1>1. n \in Nat /\ DOMAIN list = 1..n /\ IsFiniteSet(1..n) /\ Cardinality(1..n) = n
  <2>1. n \in Nat /\ DOMAIN list = 1..n
    BY LenProperties
  <2> HIDE DEF n
  <2>2. IsFiniteSet(1..n) /\ Cardinality(1..n) = n
    BY <2>1, FS_Interval
  <2> QED
    BY <2>1, <2>2
<1> HIDE DEF n
<1>2. /\ OneEach(got)
      /\ \A j \in 1..n : G \cap IndexesOf(list[j]) = {}
      /\ \A j, k \in 1..n : j # k => IndexesOf(list[j]) \cap IndexesOf(list[k]) = {}
      /\ G \subseteq B /\ \A j \in 1..n : IndexesOf(list[j]) \subseteq B
  BY <1>1 DEF Divides
<1>3. \A j \in 1..n : f[j] \in IndexesOf(list[j])
  <2> SUFFICES ASSUME NEW j \in 1..n PROVE f[j] \in IndexesOf(list[j])
    OBVIOUS
  <2>1. list[j] \in Seq(Input) /\ list[j] # <<>>
    BY <1>1, ElementOfSeq DEF n
  <2>2. 1 \in DOMAIN list[j]
    <3> DEFINE l == list[j]
    <3>1. l \in Seq(Input) /\ l # <<>>
      BY <2>1
    <3> HIDE DEF l
    <3>2. Len(l) \in Nat /\ Len(l) # 0 /\ DOMAIN l = 1..Len(l)
      BY <3>1, LenProperties
    <3>3. 1 \in DOMAIN l
      BY <3>2
    <3> QED
      BY <3>3 DEF l
  <2>3. list[j][1].index \in IndexesOf(list[j])
    BY <2>2 DEF IndexesOf
  <2> QED
    BY <2>3
<1>4. /\ IsFiniteSet(G) /\ Cardinality(G) = Len(got) /\ IsFiniteSet(B) /\ Cardinality(B) = Len(batch)
  BY <1>2, TextsAreCounted
<1> HIDE DEF G, B
<1>5. f \in Bijection(1..n, F)
  <2>1. f \in [1..n -> F] /\ \A i \in F : \E k \in 1..n : f[k] = i
    OBVIOUS
  <2>2. \A j, k \in 1..n : f[j] = f[k] => j = k
    <3> SUFFICES ASSUME NEW j \in 1..n, NEW k \in 1..n, f[j] = f[k], j # k PROVE FALSE
      OBVIOUS
    <3> HIDE DEF f
    <3>1. f[j] \in IndexesOf(list[j]) /\ f[k] \in IndexesOf(list[k])
      BY <1>3
    <3>2. IndexesOf(list[j]) \cap IndexesOf(list[k]) = {}
      BY <1>2
    <3> QED
      BY <3>1, <3>2
  <2> QED
    BY <2>1, <2>2 DEF Bijection, Injection, Surjection, IsInjective
<1>6. IsFiniteSet(F) /\ Cardinality(F) = n
  <2>1. ExistsBijection(1..n, F)
    BY <1>5 DEF ExistsBijection
  <2> HIDE DEF F
  <2> QED
    BY <1>1, <2>1, FS_Bijection
<1>7. G \cap F = {} /\ G \cup F \subseteq B
  <2>1. \A i \in F : i \in B /\ i \notin G
    <3> SUFFICES ASSUME NEW j \in 1..n PROVE f[j] \in B /\ f[j] \notin G
      OBVIOUS
    <3> HIDE DEF f
    <3> QED
      BY <1>2, <1>3
  <2> HIDE DEF F
  <2> QED
    BY <1>2, <2>1
<1> HIDE DEF F
<1>8. Cardinality(G \cup F) = Cardinality(G) + Cardinality(F) - 0
  <2>1. Cardinality(G \cup F) = Cardinality(G) + Cardinality(F) - Cardinality(G \cap F)
    BY <1>4, <1>6, FS_Union
  <2>2. Cardinality(G \cap F) = 0
    BY <1>7, FS_EmptySet
  <2> QED
    BY <2>1, <2>2
<1>9. Cardinality(G \cup F) <= Cardinality(B)
  BY <1>4, <1>7, FS_Subset
<1>10. Len(got) \in Nat /\ Len(batch) \in Nat
  BY LenProperties
<1> QED
  BY <1>1, <1>4, <1>6, <1>8, <1>9, <1>10 DEF n

-----------------------------------------------------------------------------
(* One worker moves.                                                       *)

\* There are finitely many workers.
LEMMA WorkersAreMany ==
  ASSUME Batched, Worked
  PROVE  IsFiniteSet(DOMAIN worker) /\ \A b \in DOMAIN worker : Len(batches[b]) \in Nat /\ Len(batches[b]) > 0
<1>1. worker = <<>> \/ DOMAIN worker = DOMAIN batches
  BY DEF Worked
<1>2. DOMAIN batches = 1..Len(batches) /\ Len(batches) \in Nat
  BY LenProperties DEF Batched
<1>3. IsFiniteSet(1..Len(batches)) /\ IsFiniteSet({})
  BY <1>2, FS_Interval, FS_EmptySet
<1>4. worker = <<>> => DOMAIN worker = {}
  OBVIOUS
<1>5. ASSUME NEW b \in DOMAIN batches PROVE Len(batches[b]) \in Nat /\ Len(batches[b]) > 0
  <2> DEFINE l == batches[b]
  <2>1. l \in Seq(Input) /\ l # <<>>
    BY <1>2, ElementOfSeq DEF Batched
  <2> HIDE DEF l
  <2>2. Len(l) \in Nat /\ Len(l) > 0
    BY <2>1, LenProperties
  <2> QED
    BY <2>2 DEF l
<1> QED
  BY <1>1, <1>2, <1>3, <1>4, <1>5

\* What a worker used is a number.
LEMMA UsedIsANumber ==
  ASSUME NEW side, NEW w \in WorkerType(side), NEW n \in Nat
  PROVE  Used(w, n) \in Int /\ Len(w.got) \in Nat /\ Len(w.pending) \in Nat /\ w.attempt \in 0..MaxRetries
<1>1. w.got \in Seq(Entries(side)) /\ w.pending \in Seq(Seq(Input)) /\ w.attempt \in 0..MaxRetries
  BY DEF WorkerType
<1>2. Len(w.got) \in Nat /\ Len(w.pending) \in Nat
  BY <1>1, LenProperties
<1> DEFINE g == Len(w.got) p == Len(w.pending) a == w.attempt
<1>3. g \in Nat /\ p \in Nat /\ a \in Int /\ MaxRetries \in Nat
  BY <1>1, <1>2, RequestsAssumption
<1>4. Used(w, n) = IF w.at = "waiting" THEN 0
                   ELSE IF w.at = "done" THEN (MaxRetries + 1) * (2 * n - 1)
                   ELSE (MaxRetries + 1) * (2 * g + p - 1) + a + 1
  BY DEF Used
<1> HIDE DEF g, p, a
<1>5. (MaxRetries + 1) * (2 * n - 1) \in Int /\ (MaxRetries + 1) * (2 * g + p - 1) + a + 1 \in Int
  BY <1>3
<1> QED
  BY <1>1, <1>2, <1>4, <1>5

\* One worker's move keeps the batches, the workers and what is in flight.
Moves(b, w) == b \in DOMAIN worker /\ worker' = [worker EXCEPT ![b] = w]
\* A step of one worker leaves the others alone.
LEMMA MovesAre ==
  ASSUME NEW b, NEW w, Moves(b, w)
  PROVE  DOMAIN worker' = DOMAIN worker /\ worker'[b] = w /\ \A c \in DOMAIN worker : c # b => worker'[c] = worker[c]
  BY DEF Moves

\* The workers stay sound when the one that moves does.
LEMMA WorkersKept ==
  ASSUME Batched, Worked, at = "remote", at' = "remote", UNCHANGED <<call, config, batches>>,
         NEW b, NEW w, Moves(b, w),
         WorkerSound(w, batches[b], config.max_batch_inputs, config.max_batch_tokens, call.side)
  PROVE  Batched' /\ Worked'
<1>1. Batched'
  BY DEF Batched, Count
<1>2. DOMAIN worker' = DOMAIN worker /\ worker'[b] = w /\ \A c \in DOMAIN worker : c # b => worker'[c] = worker[c]
  BY MovesAre
<1> DEFINE S(v, c) == WorkerSound(v, batches[c], config.max_batch_inputs, config.max_batch_tokens, call.side)
<1>3. \A c \in DOMAIN worker : S(worker[c], c)
  BY DEF Worked
<1>4. S(w, b)
  OBVIOUS
<1> HIDE DEF S
<1>5. \A c \in DOMAIN worker' : S(worker'[c], c)
  BY <1>2, <1>3, <1>4
<1>6. \A c \in DOMAIN worker' : WorkerSound(worker'[c], batches'[c], config'.max_batch_inputs, config'.max_batch_tokens, call'.side)
  BY <1>5 DEF S
<1>7. call'.runtime = "OpenRouter" /\ DOMAIN worker' = DOMAIN batches'
  BY <1>2 DEF Worked
<1> QED
  BY <1>1, <1>6, <1>7 DEF Worked

Flying(w) == w.at \in {"sent", "asleep"}
\* The requests in flight follow the worker that moves.
LEMMA FlightKept ==
  ASSUME Batched, Worked, Known, Cardinality(InFlight) <= config.concurrency, config' = config,
         NEW b, NEW w, Moves(b, w), Flying(w) => Flying(worker[b]) \/ Cardinality(InFlight) < config.concurrency
  PROVE  Cardinality(InFlight') <= config'.concurrency
<1> DEFINE D == DOMAIN worker
           Old == InFlight
           New == InFlight'
<1>1. DOMAIN worker' = D /\ worker'[b] = w /\ b \in D /\ \A c \in D : c # b => worker'[c] = worker[c]
  BY MovesAre DEF Moves
<1>2. Old \in SUBSET D /\ New \in SUBSET D
  BY <1>1 DEF InFlight
<1>3. IsFiniteSet(Old) /\ IsFiniteSet(New) /\ Cardinality(Old) \in Nat /\ Cardinality(New) \in Nat
  <2>1. IsFiniteSet(D)
    BY WorkersAreMany
  <2> HIDE DEF D, Old, New
  <2> QED
    BY <1>2, <2>1, FS_Subset, FS_CardinalityType
<1>4. config.concurrency \in Nat
  BY SettingsInBounds
<1>5. New \subseteq Old \cup {b}
  BY <1>1 DEF InFlight
<1>6. Flying(w) \/ b \notin New
  BY <1>1 DEF InFlight, Flying
<1>7. Flying(worker[b]) => b \in Old
  BY <1>1 DEF InFlight, Flying
<1>a. Cardinality(Old) <= config.concurrency
      /\ (Flying(w) => Flying(worker[b]) \/ Cardinality(Old) < config.concurrency)
  OBVIOUS
<1> HIDE DEF Old, New, D
<1>8. CASE New \subseteq Old
  <2>1. Cardinality(New) <= Cardinality(Old)
    BY <1>3, <1>8, FS_Subset
  <2> QED
    BY <1>3, <1>4, <1>a, <2>1 DEF New
<1>9. CASE ~ (New \subseteq Old)
  <2>1. b \in New /\ b \notin Old
    BY <1>5, <1>9
  <2>2. Cardinality(Old) < config.concurrency
    BY <1>6, <1>7, <1>a, <2>1
  <2>3. IsFiniteSet(Old \cup {b}) /\ Cardinality(Old \cup {b}) = Cardinality(Old) + 1
    BY <1>3, <2>1, FS_AddElement
  <2>4. Cardinality(New) <= Cardinality(Old \cup {b})
    BY <1>5, <2>3, FS_Subset
  <2> QED
    BY <1>3, <1>4, <2>2, <2>3, <2>4 DEF New
<1> QED
  BY <1>8, <1>9

\* The sums over the workers follow the move of one.
LEMMA SumsFollow ==
  ASSUME Batched, Worked, UNCHANGED batches, NEW b, NEW w, Moves(b, w),
         WorkerSound(w, batches[b], config.max_batch_inputs, config.max_batch_tokens, call.side)
  PROVE  /\ SumFunctionOnSet(UsedBy, DOMAIN UsedBy) \in Int
         /\ SumFunctionOnSet(ReceivedBy, DOMAIN ReceivedBy) \in Int
         /\ SumFunctionOnSet(UsedBy, DOMAIN UsedBy)'
              = SumFunctionOnSet(UsedBy, DOMAIN UsedBy) + (Used(w, Len(batches[b])) - Used(worker[b], Len(batches[b])))
         /\ SumFunctionOnSet(ReceivedBy, DOMAIN ReceivedBy)'
              = SumFunctionOnSet(ReceivedBy, DOMAIN ReceivedBy) + (Len(w.got) - Len(worker[b].got))
<1> DEFINE D == DOMAIN worker
           u == UsedBy
           v == UsedBy'
           r == ReceivedBy
           s == ReceivedBy'
<1>1. DOMAIN worker' = D /\ worker'[b] = w /\ b \in D /\ \A c \in D : c # b => worker'[c] = worker[c]
  BY MovesAre DEF Moves
<1>2. IsFiniteSet(D) /\ \A c \in D : Len(batches[c]) \in Nat
  BY WorkersAreMany
<1>3. \A c \in D : worker[c] \in WorkerType(call.side)
  BY DEF Worked, WorkerSound
<1>4. w \in WorkerType(call.side)
  BY DEF WorkerSound
<1>5. \A c \in D : Used(worker[c], Len(batches[c])) \in Int /\ Len(worker[c].got) \in Nat
  BY <1>2, <1>3, UsedIsANumber
<1>6. Used(w, Len(batches[b])) \in Int /\ Len(w.got) \in Nat
  BY <1>1, <1>2, <1>4, UsedIsANumber
<1>7. u = [c \in D |-> Used(worker[c], Len(batches[c]))] /\ r = [c \in D |-> Len(worker[c].got)]
  BY DEF UsedBy, ReceivedBy
<1>8. v = [c \in D |-> Used(worker'[c], Len(batches[c]))] /\ s = [c \in D |-> Len(worker'[c].got)]
  BY <1>1 DEF UsedBy, ReceivedBy
<1> HIDE DEF D, u, v, r, s
<1>9. u \in [D -> Int] /\ r \in [D -> Int] /\ DOMAIN u = D /\ DOMAIN r = D
  BY <1>5, <1>7
<1>10. \A c \in D : c # b => v[c] = u[c] /\ s[c] = r[c]
  BY <1>1, <1>7, <1>8
<1>11. v[b] = Used(w, Len(batches[b])) /\ s[b] = Len(w.got)
       /\ u[b] = Used(worker[b], Len(batches[b])) /\ r[b] = Len(worker[b].got)
  BY <1>1, <1>7, <1>8
<1>12. v \in [D -> Int] /\ s \in [D -> Int] /\ DOMAIN v = D /\ DOMAIN s = D
  <2>1. \A c \in D : v[c] \in Int /\ s[c] \in Int
    <3> SUFFICES ASSUME NEW c \in D PROVE v[c] \in Int /\ s[c] \in Int
      OBVIOUS
    <3>1. CASE c = b
      BY <1>6, <1>11, <3>1
    <3>2. CASE c # b
      BY <1>9, <1>10, <3>2
    <3> QED
      BY <3>1, <3>2
  <2>2. DOMAIN v = D /\ DOMAIN s = D /\ v = [c \in D |-> v[c]] /\ s = [c \in D |-> s[c]]
    BY <1>8
  <2> QED
    BY <2>1, <2>2
<1>13. /\ SumFunctionOnSet(v, D) \in Int /\ SumFunctionOnSet(u, D) \in Int
       /\ SumFunctionOnSet(v, D) = SumFunctionOnSet(u, D) + (v[b] - u[b])
  <2>1. \A c \in D : c # b => v[c] = u[c]
    BY <1>10
  <2>2. v \in [D -> Int] /\ u \in [D -> Int] /\ b \in D /\ IsFiniteSet(D)
    BY <1>1, <1>2, <1>9, <1>12
  <2> QED
    BY <2>1, <2>2, SumMoves
<1>14. /\ SumFunctionOnSet(s, D) \in Int /\ SumFunctionOnSet(r, D) \in Int
       /\ SumFunctionOnSet(s, D) = SumFunctionOnSet(r, D) + (s[b] - r[b])
  <2>1. \A c \in D : c # b => s[c] = r[c]
    BY <1>10
  <2>2. s \in [D -> Int] /\ r \in [D -> Int] /\ b \in D /\ IsFiniteSet(D)
    BY <1>1, <1>2, <1>9, <1>12
  <2> QED
    BY <2>1, <2>2, SumMoves
<1> QED
  BY <1>9, <1>11, <1>12, <1>13, <1>14 DEF u, v, r, s

\* The metrics of a step are numbers again.
LEMMA Bumped ==
  ASSUME stats \in [Meters -> Nat], NEW counts, Bump(counts), \A m \in DOMAIN counts : counts[m] \in Nat
  PROVE  /\ stats' \in [Meters -> Nat]
         /\ \A m \in Meters : stats'[m] = stats[m] + (IF m \in DOMAIN counts THEN counts[m] ELSE 0)
<1>1. DOMAIN stats = Meters /\ \A m \in Meters : stats[m] \in Nat
  OBVIOUS
<1>2. stats' = [m \in Meters |-> stats[m] + (IF m \in DOMAIN counts THEN counts[m] ELSE 0)]
  BY <1>1 DEF Bump
<1>3. \A m \in Meters : stats[m] + (IF m \in DOMAIN counts THEN counts[m] ELSE 0) \in Nat
  BY <1>1
<1> QED
  BY <1>2, <1>3

\* A worker that is not done changes nothing that is collected.
LEMMA CollectedKept ==
  ASSUME Worked, Collected, at = "remote", UNCHANGED <<at, call, batches, gathered>>, NEW b, NEW w, Moves(b, w),
         w.at # "done", worker[b].at # "done"
  PROVE  Collected'
<1>1. DOMAIN worker' = DOMAIN worker /\ worker'[b] = w /\ \A c \in DOMAIN worker : c # b => worker'[c] = worker[c]
  BY MovesAre
<1>2. Finished' = Finished
  BY <1>1 DEF Finished
<1>3. gathered' = gathered /\ batches' = batches /\ call' = call /\ at' = "remote"
  OBVIOUS
<1>4. UNION {IndexesOf(batches'[c]) : c \in Finished'} = UNION {IndexesOf(batches[c]) : c \in Finished}
  BY <1>2, <1>3
<1>5. /\ gathered \in Seq(Entries(call.side)) /\ OneEach(gathered)
      /\ IndexesOf(gathered) = UNION {IndexesOf(batches[c]) : c \in Finished}
  BY DEF Collected
<1> QED
  BY <1>3, <1>4, <1>5 DEF Collected

\* A worker that is done adds its texts to what is collected.
LEMMA CollectedMore ==
  ASSUME Worked, Collected, at = "remote", UNCHANGED <<at, call, batches>>, NEW b, NEW w, Moves(b, w),
         w.at = "done", worker[b].at # "done", gathered' \in Seq(Entries(call.side)), OneEach(gathered'),
         IndexesOf(gathered') = IndexesOf(gathered) \cup IndexesOf(batches[b])
  PROVE  Collected'
<1>1. /\ DOMAIN worker' = DOMAIN worker /\ worker'[b] = w /\ b \in DOMAIN worker
      /\ \A c \in DOMAIN worker : c # b => worker'[c] = worker[c]
  BY MovesAre DEF Moves
<1>2. Finished' = Finished \cup {b}
  BY <1>1 DEF Finished
<1>3. IndexesOf(gathered) = UNION {IndexesOf(batches[c]) : c \in Finished}
  BY DEF Collected
<1>4. IndexesOf(gathered') = UNION {IndexesOf(batches[c]) : c \in Finished'}
  <2> DEFINE I(c) == IndexesOf(batches[c])
             F == Finished
             E == Finished'
  <2>1. IndexesOf(gathered) = UNION {I(c) : c \in F} /\ E = F \cup {b} /\ IndexesOf(gathered') = IndexesOf(gathered) \cup I(b)
    BY <1>2, <1>3
  <2> HIDE DEF I, F, E
  <2>2. IndexesOf(gathered') = UNION {I(c) : c \in E}
    BY <2>1
  <2> QED
    BY <2>2 DEF I, F, E
<1>5. batches' = batches /\ call' = call /\ at' = "remote"
  OBVIOUS
<1>6. \A c \in Finished' : IndexesOf(batches[c]) = IndexesOf(batches'[c])
  BY <1>5
<1>7. IndexesOf(gathered') = UNION {IndexesOf(batches'[c]) : c \in Finished'}
  BY <1>4, <1>6
<1> QED
  BY <1>5, <1>7 DEF Collected

\* A step of one worker keeps the invariant if it keeps the worker sound and pays
\* for the requests it counts.
LEMMA WorkerMoves ==
  ASSUME CallInv, at = "remote", at' = "remote", UNCHANGED <<call, config, batches>>, NEW b, NEW w, Moves(b, w),
         WorkerSound(w, batches[b], config.max_batch_inputs, config.max_batch_tokens, call.side),
         Flying(w) => Flying(worker[b]) \/ Cardinality(InFlight) < config.concurrency,
         stats' \in [Meters -> Nat],
         stats'.requests <= stats.requests + (Used(w, Len(batches[b])) - Used(worker[b], Len(batches[b]))),
         stats'.failed - stats.failed = (stats'.retries - stats.retries) + (stats'.splits - stats.splits),
         stats'.vectors - stats.vectors = (Len(gathered') - Len(gathered)) + (Len(w.got) - Len(worker[b].got)),
         Collected'
  PROVE  CallInv'
<1>1. Known /\ Batched /\ Worked /\ Collected /\ Metered
  BY DEF CallInv
<1>2. Known'
  BY <1>1 DEF Known
<1>3. Batched' /\ Worked'
  BY <1>1, WorkersKept
<1>4. Cardinality(InFlight') <= config'.concurrency
  BY <1>1, FlightKept DEF Metered
<1>5. Metered'
  <2> DEFINE U == SumFunctionOnSet(UsedBy, DOMAIN UsedBy)
             V == SumFunctionOnSet(ReceivedBy, DOMAIN ReceivedBy)
             u == Used(worker[b], Len(batches[b]))
             v == Used(w, Len(batches[b]))
             g == Len(worker[b].got)
             h == Len(w.got)
  <2>1. U \in Int /\ V \in Int /\ U' = U + (v - u) /\ V' = V + (h - g)
    <3>1. Batched /\ Worked /\ UNCHANGED batches
      BY <1>1
    <3> QED
      BY <3>1, SumsFollow
  <2>2. stats.requests <= U /\ stats.failed = stats.retries + stats.splits /\ stats.vectors = Len(gathered) + V
    BY <1>1 DEF Metered
  <2>3. /\ u \in Int /\ v \in Int /\ g \in Nat /\ h \in Nat
    <3>1. w \in WorkerType(call.side) /\ worker[b] \in WorkerType(call.side) /\ b \in DOMAIN worker
      BY <1>1 DEF WorkerSound, Worked, Moves
    <3>2. Len(batches[b]) \in Nat
      BY <1>1, <3>1, WorkersAreMany
    <3> QED
      BY <3>1, <3>2, UsedIsANumber
  <2>4. Len(gathered) \in Nat /\ Len(gathered') \in Nat
    BY <1>1, LenProperties DEF Collected
  <2>5. /\ stats.requests \in Nat /\ stats.failed \in Nat /\ stats.retries \in Nat /\ stats.splits \in Nat
        /\ stats.vectors \in Nat
        /\ stats'.requests \in Nat /\ stats'.failed \in Nat /\ stats'.retries \in Nat /\ stats'.splits \in Nat
        /\ stats'.vectors \in Nat
    BY <1>1 DEF Known, Meters
  <2>6. stats'.requests <= stats.requests + (v - u)
    OBVIOUS
  <2>7. stats'.vectors - stats.vectors = (Len(gathered') - Len(gathered)) + (h - g)
    OBVIOUS
  <2> DEFINE A == U' B == V' l == Len(gathered) m == Len(gathered')
             r0 == stats.requests  r1 == stats'.requests
             f0 == stats.failed    f1 == stats'.failed
             e0 == stats.retries   e1 == stats'.retries
             s0 == stats.splits    s1 == stats'.splits
             v0 == stats.vectors   v1 == stats'.vectors
  <2>8. A = U + (v - u) /\ B = V + (h - g)
    BY <2>1
  <2>9. r0 <= U /\ r1 <= r0 + (v - u) /\ r0 \in Nat /\ r1 \in Nat
    BY <2>2, <2>5, <2>6
  <2>10. f0 = e0 + s0 /\ f1 - f0 = (e1 - e0) + (s1 - s0) /\ f0 \in Nat /\ f1 \in Nat /\ e0 \in Nat /\ e1 \in Nat
         /\ s0 \in Nat /\ s1 \in Nat
    BY <2>2, <2>5
  <2>11. v0 = l + V /\ v1 - v0 = (m - l) + (h - g) /\ v0 \in Nat /\ v1 \in Nat /\ l \in Nat /\ m \in Nat
    BY <2>2, <2>4, <2>5, <2>7
  <2>12. U \in Int /\ V \in Int
    BY <2>1
  <2> HIDE DEF U, V, u, v, g, h, A, B, l, m, r0, r1, f0, f1, e0, e1, s0, s1, v0, v1
  <2>13. r1 <= A
    BY <2>3, <2>8, <2>9, <2>12
  <2>14. f1 = e1 + s1
    BY <2>10
  <2>15. v1 = m + B
    BY <2>3, <2>8, <2>11, <2>12
  <2> QED
    BY <1>4, <2>13, <2>14, <2>15 DEF Metered, A, B, U, V, m, r1, f1, e1, s1, v1
<1>6. VectorsBelong'
  BY DEF VectorsBelong
<1> QED
  BY <1>2, <1>3, <1>5, <1>6 DEF CallInv

\* A failure ends the call and leaves what was gathered where it is.
LEMMA FailuresKeep ==
  ASSUME CallInv, at' = "failed", UNCHANGED <<call, config, batches, worker, gathered, answer>>,
         stats' \in [Meters -> Nat], stats'.requests = stats.requests
  PROVE  CallInv'
<1>1. Known'
  BY DEF CallInv, Known
<1>2. Batched'
  <2>1. Batched /\ (at \in {"remote", "local"} \/ batches # <<>> => SpreadOver(batches, Count))
    BY DEF CallInv, Batched
  <2>2. Count' = Count /\ at' \notin {"remote", "local"}
    BY DEF Count
  <2>3. at' \in {"remote", "local"} \/ batches' # <<>> => SpreadOver(batches', Count')
    BY <2>1, <2>2
  <2> QED
    BY <2>1, <2>3 DEF Batched
<1>3. Worked'
  BY DEF CallInv, Worked
<1>4. Collected'
  BY DEF CallInv, Collected
<1>5. UsedBy' = UsedBy /\ InFlight' = InFlight
  BY DEF UsedBy, InFlight
<1>6. Metered'
  BY <1>5 DEF CallInv, Metered
<1>7. VectorsBelong'
  BY DEF VectorsBelong
<1> QED
  BY <1>1, <1>2, <1>3, <1>4, <1>6, <1>7 DEF CallInv

-----------------------------------------------------------------------------
(* The steps of a worker.                                                  *)

\* What a worker of a call and its batch are.
WorkerFacts(b) ==
  /\ worker[b] \in WorkerType(call.side)
  /\ WorkerSound(worker[b], batches[b], config.max_batch_inputs, config.max_batch_tokens, call.side)
  /\ b \in DOMAIN batches /\ batches[b] \in Seq(Input) /\ batches[b] # <<>> /\ OneEach(batches[b])
  /\ Fits(batches[b], config.max_batch_inputs, config.max_batch_tokens)
\* The invariant says so of every worker.
LEMMA WorkerOf ==
  ASSUME CallInv, at = "remote", NEW b \in DOMAIN worker
  PROVE  WorkerFacts(b)
<1>1. Known /\ Batched /\ Worked
  BY DEF CallInv
<1>2. WorkerSound(worker[b], batches[b], config.max_batch_inputs, config.max_batch_tokens, call.side)
      /\ b \in DOMAIN batches /\ call.runtime = "OpenRouter"
  BY <1>1 DEF Worked
<1>3. worker[b] \in WorkerType(call.side)
  BY <1>2 DEF WorkerSound
<1>4. batches \in Seq(Seq(Input)) /\ batches[b] # <<>> /\ SpreadOver(batches, Count)
      /\ Packed(batches, config.max_batch_inputs, config.max_batch_tokens)
  BY <1>1, <1>2 DEF Batched
<1>5. batches[b] \in Seq(Input)
  <2>1. DOMAIN batches = 1..Len(batches)
    BY <1>4, LenProperties
  <2> QED
    BY <1>2, <1>4, <2>1, ElementOfSeq
<1>6. Fits(batches[b], config.max_batch_inputs, config.max_batch_tokens)
  BY <1>2, <1>4 DEF Packed
<1>7. OneEach(batches[b])
  BY <1>2, <1>4 DEF SpreadOver, OneEach
<1> QED
  BY <1>2, <1>3, <1>4, <1>5, <1>6, <1>7 DEF WorkerFacts

\* Nothing divides nothing.
LEMMA EmptySequences ==
  /\ \A S : <<>> \in Seq(S)
  /\ Len(<<>>) = 0 /\ OneEach(<<>>) /\ IndexesOf(<<>>) = {}
  BY DEF OneEach, IndexesOf

\* A batch alone divides its own texts.
LEMMA OneBatch ==
  ASSUME NEW batch \in Seq(Input)
  PROVE  /\ <<batch>> \in Seq(Seq(Input)) /\ Len(<<batch>>) = 1 /\ <<batch>> # <<>> /\ DOMAIN <<batch>> = 1..1
         /\ <<batch>>[1] = batch
         /\ OneEach(batch) => Divides(<<batch>>, <<>>, IndexesOf(batch))
<1>1. /\ <<batch>> \in Seq(Seq(Input)) /\ Len(<<batch>>) = 1 /\ <<batch>> # <<>> /\ DOMAIN <<batch>> = 1..1
      /\ <<batch>>[1] = batch
  OBVIOUS
<1>2. OneEach(batch) => Divides(<<batch>>, <<>>, IndexesOf(batch))
  <2> DEFINE list == <<batch>> I == IndexesOf(batch)
  <2>1. DOMAIN list = {1} /\ list[1] = batch
    OBVIOUS
  <2>2. OneEach(<<>>) /\ IndexesOf(<<>>) = {}
    BY EmptySequences
  <2> HIDE DEF list
  <2>3. \A j \in DOMAIN list : list[j] = batch /\ IndexesOf(list[j]) = I
    BY <2>1
  <2>4. UNION {IndexesOf(list[j]) : j \in DOMAIN list} = I
    BY <2>1, <2>3
  <2> HIDE DEF I
  <2>5. \A j, k \in DOMAIN list : j = k
    BY <2>1
  <2>6. OneEach(batch) => Divides(list, <<>>, I)
    BY <2>2, <2>3, <2>4, <2>5 DEF Divides
  <2> QED
    BY <2>6 DEF list, I
<1> QED
  BY <1>1, <1>2

\* What a step adds to the metrics.
Ticks(r, f, e, s, v) ==
  /\ stats \in [Meters -> Nat] /\ stats' \in [Meters -> Nat]
  /\ stats'.requests = stats.requests + r /\ stats'.failed = stats.failed + f
  /\ stats'.retries = stats.retries + e /\ stats'.splits = stats.splits + s
  /\ stats'.vectors = stats.vectors + v
\* The metrics after a step.
LEMMA TicksOf ==
  ASSUME stats \in [Meters -> Nat], NEW n \in Nat
  PROVE  /\ Bump([requests |-> 1]) => Ticks(1, 0, 0, 0, 0)
         /\ Bump([failed |-> 1]) => Ticks(0, 1, 0, 0, 0)
         /\ Bump([failed |-> 1, retries |-> 1]) => Ticks(0, 1, 1, 0, 0)
         /\ Bump([failed |-> 1, splits |-> 1, requests |-> 1]) => Ticks(1, 1, 0, 1, 0)
         /\ Bump([vectors |-> n]) => Ticks(0, 0, 0, 0, n)
         /\ Bump([vectors |-> n, requests |-> 1]) => Ticks(1, 0, 0, 0, n)
<1> DEFINE By(counts) == /\ stats' \in [Meters -> Nat]
                         /\ \A m \in Meters : stats'[m] = stats[m] + (IF m \in DOMAIN counts THEN counts[m] ELSE 0)
<1>1. ASSUME NEW counts, Bump(counts), \A m \in DOMAIN counts : counts[m] \in Nat PROVE By(counts)
  BY <1>1, Bumped
<1> HIDE DEF By
<1>2. ASSUME Bump([requests |-> 1]) PROVE Ticks(1, 0, 0, 0, 0)
  <2>1. By([requests |-> 1])
    BY <1>1, <1>2
  <2> QED
    BY <2>1 DEF By, Ticks, Meters
<1>3. ASSUME Bump([failed |-> 1]) PROVE Ticks(0, 1, 0, 0, 0)
  <2>1. By([failed |-> 1])
    BY <1>1, <1>3
  <2> QED
    BY <2>1 DEF By, Ticks, Meters
<1>4. ASSUME Bump([failed |-> 1, retries |-> 1]) PROVE Ticks(0, 1, 1, 0, 0)
  <2>1. By([failed |-> 1, retries |-> 1])
    BY <1>1, <1>4
  <2> QED
    BY <2>1 DEF By, Ticks, Meters
<1>5. ASSUME Bump([failed |-> 1, splits |-> 1, requests |-> 1]) PROVE Ticks(1, 1, 0, 1, 0)
  <2>1. By([failed |-> 1, splits |-> 1, requests |-> 1])
    BY <1>1, <1>5
  <2> QED
    BY <2>1 DEF By, Ticks, Meters
<1>6. ASSUME Bump([vectors |-> n]) PROVE Ticks(0, 0, 0, 0, n)
  <2>1. By([vectors |-> n])
    BY <1>1, <1>6
  <2> QED
    BY <2>1 DEF By, Ticks, Meters
<1>7. ASSUME Bump([vectors |-> n, requests |-> 1]) PROVE Ticks(1, 0, 0, 0, n)
  <2>1. By([vectors |-> n, requests |-> 1])
    BY <1>1, <1>7
  <2> QED
    BY <2>1 DEF By, Ticks, Meters
<1> QED
  BY <1>2, <1>3, <1>4, <1>5, <1>6, <1>7

\* A worker, and one with one or two of its fields set.
AWorker(s, l, n, g) == [at |-> s, pending |-> l, attempt |-> n, got |-> g]
WithAt(w, s) == [w EXCEPT !.at = s]
WithPending(w, l) == [w EXCEPT !.pending = l]
WithAttempt(w, n) == [w EXCEPT !.attempt = n]
\* The fields of a worker.
LEMMA WorkerFields ==
  ASSUME NEW s, NEW l, NEW n, NEW g, NEW x
  PROVE  /\ WithAt(AWorker(s, l, n, g), x) = AWorker(x, l, n, g)
         /\ WithPending(AWorker(s, l, n, g), x) = AWorker(s, x, n, g)
         /\ WithAttempt(AWorker(s, l, n, g), x) = AWorker(s, l, x, g)
  BY DEF AWorker, WithAt, WithPending, WithAttempt

\* The fields of a worker changed one by one.
LEMMA FieldsInTurn ==
  ASSUME NEW w, NEW s, NEW l, NEW n
  PROVE  /\ [w EXCEPT !.at = s, !.pending = l] = WithPending(WithAt(w, s), l)
         /\ [w EXCEPT !.at = s, !.attempt = n] = WithAttempt(WithAt(w, s), n)
         /\ [w EXCEPT !.pending = l, !.attempt = n] = WithAttempt(WithPending(w, l), n)
  BY DEF WithAt, WithPending, WithAttempt

\* A worker is its fields.
LEMMA WorkerHasFields ==
  ASSUME NEW side, NEW w \in WorkerType(side)
  PROVE  w = AWorker(w.at, w.pending, w.attempt, w.got)
  BY DEF AWorker, WorkerType

\* A worker's move keeps the invariant of the call when what it asked for pays for
\* what it adds to the metrics.
LEMMA WorkerTicks ==
  ASSUME CallInv, at = "remote", at' = "remote", UNCHANGED <<call, config, batches>>, NEW b, NEW w, Moves(b, w),
         WorkerSound(w, batches[b], config.max_batch_inputs, config.max_batch_tokens, call.side),
         Flying(w) => Flying(worker[b]) \/ Cardinality(InFlight) < config.concurrency,
         NEW r \in Nat, NEW f \in Nat, NEW e \in Nat, NEW s \in Nat, NEW v \in Nat, Ticks(r, f, e, s, v), f = e + s,
         Used(worker[b], Len(batches[b])) + r <= Used(w, Len(batches[b])),
         Len(gathered) + Len(worker[b].got) + v = Len(gathered') + Len(w.got),
         Collected'
  PROVE  CallInv'
<1>1. Batched /\ Worked /\ Collected
  BY DEF CallInv
<1> DEFINE U == Used(worker[b], Len(batches[b])) V == Used(w, Len(batches[b]))
           g == Len(worker[b].got) h == Len(w.got) l == Len(gathered) m == Len(gathered')
           r0 == stats.requests  r1 == stats'.requests
           f0 == stats.failed    f1 == stats'.failed
           e0 == stats.retries   e1 == stats'.retries
           s0 == stats.splits    s1 == stats'.splits
           v0 == stats.vectors   v1 == stats'.vectors
<1>2. /\ U \in Int /\ V \in Int /\ g \in Nat /\ h \in Nat
  <2>1. w \in WorkerType(call.side) /\ worker[b] \in WorkerType(call.side) /\ b \in DOMAIN worker
    BY <1>1 DEF WorkerSound, Worked, Moves
  <2>2. Len(batches[b]) \in Nat
    BY <1>1, <2>1, WorkersAreMany
  <2> QED
    BY <2>1, <2>2, UsedIsANumber
<1>3. l \in Nat /\ m \in Nat
  BY <1>1, LenProperties DEF Collected
<1>4. r0 \in Nat /\ f0 \in Nat /\ e0 \in Nat /\ s0 \in Nat /\ v0 \in Nat
  BY DEF Ticks, Meters
<1>5. r1 = r0 + r /\ f1 = f0 + f /\ e1 = e0 + e /\ s1 = s0 + s /\ v1 = v0 + v
  BY DEF Ticks
<1>6. U + r <= V /\ l + g + v = m + h
  OBVIOUS
<1>7. stats' \in [Meters -> Nat]
  BY DEF Ticks
<1> HIDE DEF U, V, g, h, l, m, r0, r1, f0, f1, e0, e1, s0, s1, v0, v1
<1>8. r1 <= r0 + (V - U) /\ f1 - f0 = (e1 - e0) + (s1 - s0) /\ v1 - v0 = (m - l) + (h - g)
  <2>1. r1 <= r0 + (V - U)
    BY <1>2, <1>4, <1>5, <1>6
  <2>2. f1 - f0 = (e1 - e0) + (s1 - s0)
    BY <1>4, <1>5
  <2>3. v1 - v0 = (m - l) + (h - g)
    BY <1>2, <1>3, <1>4, <1>5, <1>6
  <2> QED
    BY <2>1, <2>2, <2>3
<1> QED
  BY <1>7, <1>8, WorkerMoves DEF U, V, g, h, l, m, r0, r1, f0, f1, e0, e1, s0, s1, v0, v1

\* A batch is asked for while a slot is free (buffer_unordered).
LEMMA StartsKeeps ==
  ASSUME CallInv, NEW b \in DOMAIN worker, Starts(b)
  PROVE  CallInv'
<1> DEFINE batch == batches[b]
           list == <<batch>>
           w == [at |-> "sent", pending |-> list, attempt |-> 0, got |-> <<>>]
<1>1. at = "remote" /\ worker[b].at = "waiting" /\ Cardinality(InFlight) < config.concurrency
      /\ Bump([requests |-> 1]) /\ UNCHANGED <<call, at, config, batches, gathered, answer>>
  BY DEF Starts
<1>2. WorkerFacts(b)
  BY <1>1, WorkerOf
<1>3. worker[b] = Waiting
  BY <1>1, <1>2 DEF WorkerFacts, WorkerSound
<1>4. Moves(b, w)
  <2>1. worker' = [worker EXCEPT ![b] = WithPending(WithAt(worker[b], "sent"), list)]
    <3>1. worker' = [worker EXCEPT ![b].at = "sent", ![b].pending = <<batches[b]>>]
      BY DEF Starts
    <3> QED
      BY <3>1 DEF WithAt, WithPending
  <2>2. WithPending(WithAt(worker[b], "sent"), list) = w
    <3>2. worker[b] = AWorker("waiting", <<>>, 0, <<>>)
      BY <1>3 DEF Waiting, AWorker
    <3>3. w = AWorker("sent", list, 0, <<>>)
      BY DEF AWorker
    <3> HIDE DEF w, list
    <3>4. WithAt(worker[b], "sent") = AWorker("sent", <<>>, 0, <<>>)
      BY <3>2, WorkerFields
    <3>5. WithPending(AWorker("sent", <<>>, 0, <<>>), list) = w
      BY <3>3, WorkerFields
    <3> QED
      BY <3>4, <3>5
  <2> QED
    BY <2>1, <2>2 DEF Moves
<1>5. batch \in Seq(Input) /\ batch # <<>> /\ OneEach(batch)
      /\ Fits(batch, config.max_batch_inputs, config.max_batch_tokens)
  BY <1>2 DEF WorkerFacts
<1>6. list \in Seq(Seq(Input)) /\ Len(list) = 1 /\ list # <<>> /\ DOMAIN list = 1..1 /\ list[1] = batch
      /\ Divides(list, <<>>, IndexesOf(batch))
  BY <1>5, OneBatch
<1> HIDE DEF list, batch
<1>7. /\ w.at = "sent" /\ w.pending = list /\ w.attempt = 0 /\ w.got = <<>>
      /\ w \in WorkerType(call.side)
  <2>1. 0 \in 0..MaxRetries /\ "sent" \in WorkerStages
    BY RequestsAssumption DEF WorkerStages
  <2>2. <<>> \in Seq(Entries(call.side))
    BY EmptySequences
  <2> QED
    BY <1>6, <2>1, <2>2 DEF WorkerType
<1> HIDE DEF w
<1>8. WorkerSound(w, batches[b], config.max_batch_inputs, config.max_batch_tokens, call.side)
  <2>1. \A j \in DOMAIN list : list[j] # <<>> /\ Fits(list[j], config.max_batch_inputs, config.max_batch_tokens)
    BY <1>5, <1>6
  <2> QED
    BY <1>6, <1>7, <2>1 DEF WorkerSound, batch
<1>9. stats \in [Meters -> Nat] /\ Worked /\ Collected
  BY DEF CallInv, Known
<1>10. Ticks(1, 0, 0, 0, 0)
  BY <1>1, <1>9, TicksOf
<1>11. Used(w, Len(batches[b])) = 1 /\ Used(worker[b], Len(batches[b])) = 0
       /\ Len(w.got) = 0 /\ Len(worker[b].got) = 0
  <2>1. Used(w, Len(batches[b])) = (MaxRetries + 1) * (2 * 0 + 1 - 1) + 0 + 1
    BY <1>6, <1>7, EmptySequences DEF Used
  <2>2. MaxRetries \in Nat
    BY RequestsAssumption
  <2>3. (MaxRetries + 1) * (2 * 0 + 1 - 1) + 0 + 1 = 1
    BY <2>2
  <2> QED
    BY <1>3, <1>7, <2>1, <2>3, EmptySequences DEF Used, Waiting
<1>12. Collected'
  <2>1. w.at # "done" /\ worker[b].at # "done"
    BY <1>1, <1>7
  <2> QED
    BY <1>1, <1>4, <1>9, <2>1, CollectedKept
<1>13. /\ Used(worker[b], Len(batches[b])) + 1 <= Used(w, Len(batches[b]))
       /\ Len(gathered) + Len(worker[b].got) + 0 = Len(gathered') + Len(w.got)
  <2>1. Len(gathered') = Len(gathered) /\ Len(gathered) \in Nat
    BY <1>1, <1>9, LenProperties DEF Collected
  <2> QED
    BY <1>11, <2>1
<1>14. at' = "remote" /\ UNCHANGED <<call, config, batches>>
  BY <1>1
<1> DEFINE one == 1 none == 0
<1>15. /\ one \in Nat /\ none \in Nat /\ none = none + none /\ Ticks(one, none, none, none, none)
       /\ Used(worker[b], Len(batches[b])) + one <= Used(w, Len(batches[b]))
       /\ Len(gathered) + Len(worker[b].got) + none = Len(gathered') + Len(w.got)
  BY <1>10, <1>13
<1> HIDE DEF one, none
<1>16. Flying(w) => Flying(worker[b]) \/ Cardinality(InFlight) < config.concurrency
  BY <1>1
<1> QED
  BY <1>1, <1>4, <1>8, <1>12, <1>14, <1>15, <1>16, WorkerTicks

\* A worker on its way: its batches, its attempts and what it received.
OnItsWay(l, n, g, batch, rows, tokens, side) ==
  /\ l \in Seq(Seq(Input)) /\ l # <<>> /\ g \in Seq(Entries(side)) /\ n \in 0..MaxRetries
  /\ \A j \in DOMAIN l : l[j] # <<>> /\ Fits(l[j], rows, tokens)
  /\ Divides(l, g, IndexesOf(batch))
\* A sound worker that is not waiting or done is on its way.
LEMMA WorkerOnItsWay ==
  ASSUME NEW w, NEW batch, NEW rows, NEW tokens, NEW side,
         WorkerSound(w, batch, rows, tokens, side), Flying(w)
  PROVE  /\ OnItsWay(w.pending, w.attempt, w.got, batch, rows, tokens, side)
         /\ w = AWorker(w.at, w.pending, w.attempt, w.got)
         /\ w.at = "asleep" => w.attempt < MaxRetries
<1>1. w = AWorker(w.at, w.pending, w.attempt, w.got)
  BY WorkerHasFields DEF WorkerSound
<1>2. OnItsWay(w.pending, w.attempt, w.got, batch, rows, tokens, side)
  BY DEF WorkerSound, Flying, OnItsWay, WorkerType
<1> QED
  BY <1>1, <1>2 DEF WorkerSound

\* And such a worker is sound.
LEMMA OnItsWayIsSound ==
  ASSUME NEW s \in {"sent", "asleep"}, NEW l, NEW n, NEW g, NEW batch, NEW rows, NEW tokens, NEW side,
         OnItsWay(l, n, g, batch, rows, tokens, side), s = "asleep" => n < MaxRetries
  PROVE  /\ WorkerSound(AWorker(s, l, n, g), batch, rows, tokens, side)
         /\ AWorker(s, l, n, g).at = s /\ AWorker(s, l, n, g).got = g
         /\ \A m : Used(AWorker(s, l, n, g), m) = (MaxRetries + 1) * (2 * Len(g) + Len(l) - 1) + n + 1
<1> DEFINE w == AWorker(s, l, n, g)
<1>1. w.at = s /\ w.pending = l /\ w.attempt = n /\ w.got = g
  BY DEF AWorker
<1>2. w \in WorkerType(side)
  BY DEF AWorker, WorkerType, OnItsWay, WorkerStages
<1> HIDE DEF w
<1>3. WorkerSound(w, batch, rows, tokens, side)
  BY <1>1, <1>2 DEF WorkerSound, OnItsWay
<1>4. \A m : Used(w, m) = (MaxRetries + 1) * (2 * Len(g) + Len(l) - 1) + n + 1
  BY <1>1 DEF Used
<1> QED
  BY <1>1, <1>3, <1>4 DEF w

\* A worker on its way that goes on in another stage, with other batches or attempts,
\* and receives nothing.
LEMMA GoesOn ==
  ASSUME CallInv, at = "remote", UNCHANGED <<at, call, config, batches, gathered>>,
         NEW b \in DOMAIN worker, Flying(worker[b]),
         NEW s \in {"sent", "asleep"}, NEW l, NEW n,
         OnItsWay(l, n, worker[b].got, batches[b], config.max_batch_inputs, config.max_batch_tokens, call.side),
         s = "asleep" => n < MaxRetries, Moves(b, AWorker(s, l, n, worker[b].got)),
         NEW r \in Nat, NEW f \in Nat, NEW e \in Nat, NEW k \in Nat, Ticks(r, f, e, k, 0), f = e + k,
         (MaxRetries + 1) * Len(worker[b].pending) + worker[b].attempt + r <= (MaxRetries + 1) * Len(l) + n
  PROVE  CallInv'
<1> DEFINE w == AWorker(s, l, n, worker[b].got)
           G == Len(worker[b].got)
           P == Len(worker[b].pending)
           L == Len(l)
           a == worker[b].attempt
           M == MaxRetries + 1
<1>1. Worked /\ Collected /\ WorkerFacts(b)
  BY WorkerOf DEF CallInv
<1>2. /\ WorkerSound(worker[b], batches[b], config.max_batch_inputs, config.max_batch_tokens, call.side)
      /\ worker[b] \in WorkerType(call.side)
  BY <1>1 DEF WorkerFacts
<1>3. /\ WorkerSound(w, batches[b], config.max_batch_inputs, config.max_batch_tokens, call.side)
      /\ w.at = s /\ w.got = worker[b].got /\ Used(w, Len(batches[b])) = M * (2 * G + L - 1) + n + 1
  BY OnItsWayIsSound
<1>4. Used(worker[b], Len(batches[b])) = M * (2 * G + P - 1) + a + 1
  BY DEF Flying, Used
<1>5. G \in Nat /\ P \in Nat /\ a \in Int /\ L \in Nat /\ n \in Int /\ M \in Nat
  <2>1. G \in Nat /\ P \in Nat /\ a \in 0..MaxRetries
    <3>1. 0 \in Nat
      OBVIOUS
    <3> QED
      BY <1>2, <3>1, UsedIsANumber
  <2>2. L \in Nat /\ n \in 0..MaxRetries
    BY LenProperties DEF OnItsWay
  <2>3. MaxRetries \in Nat
    BY RequestsAssumption
  <2> HIDE DEF G, P, L, a
  <2>4. M \in Nat /\ a \in Int /\ n \in Int
    BY <2>1, <2>2, <2>3
  <2> QED
    BY <2>1, <2>2, <2>4
<1>6. M * P + a + r <= M * L + n
  OBVIOUS
<1>7. Moves(b, w)
  OBVIOUS
<1>8. Len(gathered) \in Nat
  BY <1>1, LenProperties DEF Collected
<1> HIDE DEF w, G, P, L, a, M
<1>9. M * (2 * G + P - 1) + a + 1 + r <= M * (2 * G + L - 1) + n + 1
  <2> DEFINE x == M * P y == M * L z == M * (2 * G - 1)
  <2>1. M * (2 * G + P - 1) = z + x /\ M * (2 * G + L - 1) = z + y /\ x \in Int /\ y \in Int /\ z \in Int
    BY <1>5
  <2>2. x + a + r <= y + n
    BY <1>6
  <2> HIDE DEF x, y, z
  <2> QED
    BY <1>5, <2>1, <2>2
<1>10. Used(worker[b], Len(batches[b])) + r <= Used(w, Len(batches[b]))
  BY <1>3, <1>4, <1>9
<1>11. Collected'
  <2>1. w.at # "done" /\ worker[b].at # "done"
    BY <1>3 DEF Flying
  <2> QED
    BY <1>1, <1>7, <2>1, CollectedKept
<1>12. Len(gathered) + Len(worker[b].got) + 0 = Len(gathered') + Len(w.got)
  BY <1>3, <1>5, <1>8 DEF G
<1> QED
  BY <1>3, <1>7, <1>10, <1>11, <1>12, WorkerTicks

\* The first request that fails ends the call.
LEMMA CallFailsKeeps ==
  ASSUME CallInv, NEW b, CallFails(b)
  PROVE  CallInv'
<1>1. stats \in [Meters -> Nat]
  BY DEF CallInv, Known
<1>2. Ticks(0, 1, 0, 0, 0)
  BY <1>1, TicksOf DEF CallFails
<1>3. stats' \in [Meters -> Nat] /\ stats'.requests = stats.requests
  <2>1. stats.requests \in Nat
    BY <1>1 DEF Meters
  <2> QED
    BY <1>2, <2>1 DEF Ticks
<1> QED
  BY <1>3, FailuresKeep DEF CallFails

\* A request is put off while it may be retried.
LEMMA SleepsKeeps ==
  ASSUME CallInv, at = "remote", NEW b \in DOMAIN worker, worker[b].at = "sent", MayRetry(b), Sleeps(b)
  PROVE  CallInv'
<1> DEFINE l == worker[b].pending n == worker[b].attempt g == worker[b].got
<1>1. WorkerFacts(b) /\ stats \in [Meters -> Nat]
  BY WorkerOf DEF CallInv, Known
<1>2. /\ OnItsWay(l, n, g, batches[b], config.max_batch_inputs, config.max_batch_tokens, call.side)
      /\ worker[b] = AWorker("sent", l, n, g)
  BY <1>1, WorkerOnItsWay DEF WorkerFacts, Flying
<1>3. Ticks(0, 1, 1, 0, 0)
  BY <1>1, TicksOf DEF Sleeps
<1>4. worker' = [worker EXCEPT ![b] = WithAt(worker[b], "asleep")]
  BY DEF Sleeps, WithAt
<1>5. WithAt(worker[b], "asleep") = AWorker("asleep", l, n, g)
  <2> HIDE DEF l, n, g
  <2> QED
    BY <1>2, WorkerFields
<1>6. Moves(b, AWorker("asleep", l, n, g))
  BY <1>4, <1>5 DEF Moves
<1>7. n < MaxRetries /\ n \in 0..MaxRetries /\ MaxRetries \in Nat
  BY <1>2, RequestsAssumption DEF MayRetry, OnItsWay
<1>8. (MaxRetries + 1) * Len(l) + n + 0 <= (MaxRetries + 1) * Len(l) + n
  <2>1. Len(l) \in Nat
    BY <1>2, LenProperties DEF OnItsWay
  <2> HIDE DEF l, n
  <2> QED
    BY <1>7, <2>1
<1> QED
  BY <1>2, <1>3, <1>6, <1>7, <1>8, GoesOn DEF Sleeps, Flying

\* A request is sent again.
LEMMA WakesUpKeeps ==
  ASSUME CallInv, NEW b \in DOMAIN worker, WakesUp(b)
  PROVE  CallInv'
<1> DEFINE l == worker[b].pending n == worker[b].attempt g == worker[b].got
<1>0. at = "remote" /\ worker[b].at = "asleep"
  BY DEF WakesUp
<1>1. WorkerFacts(b) /\ stats \in [Meters -> Nat]
  BY <1>0, WorkerOf DEF CallInv, Known
<1>2. /\ OnItsWay(l, n, g, batches[b], config.max_batch_inputs, config.max_batch_tokens, call.side)
      /\ worker[b] = AWorker("asleep", l, n, g) /\ n < MaxRetries
  BY <1>0, <1>1, WorkerOnItsWay DEF WorkerFacts, Flying
<1>3. Ticks(1, 0, 0, 0, 0)
  BY <1>1, TicksOf DEF WakesUp
<1>4. worker' = [worker EXCEPT ![b] = WithAttempt(WithAt(worker[b], "sent"), n + 1)]
  <2>1. worker' = [worker EXCEPT ![b].at = "sent", ![b].attempt = @ + 1]
    BY DEF WakesUp
  <2> QED
    BY <2>1 DEF WithAt, WithAttempt
<1>5. WithAttempt(WithAt(worker[b], "sent"), n + 1) = AWorker("sent", l, n + 1, g)
  <2> HIDE DEF l, n, g
  <2>1. WithAt(worker[b], "sent") = AWorker("sent", l, n, g)
    BY <1>2, WorkerFields
  <2> QED
    BY <2>1, WorkerFields
<1>6. Moves(b, AWorker("sent", l, n + 1, g))
  BY <1>4, <1>5 DEF Moves
<1>7. OnItsWay(l, n + 1, g, batches[b], config.max_batch_inputs, config.max_batch_tokens, call.side)
  <2>1. n + 1 \in 0..MaxRetries
    BY <1>2, RequestsAssumption DEF OnItsWay
  <2> HIDE DEF l, n, g
  <2> QED
    BY <1>2, <2>1 DEF OnItsWay
<1>8. (MaxRetries + 1) * Len(l) + n + 1 <= (MaxRetries + 1) * Len(l) + (n + 1)
  <2>1. Len(l) \in Nat /\ n \in 0..MaxRetries /\ MaxRetries \in Nat
    BY <1>2, LenProperties, RequestsAssumption DEF OnItsWay
  <2> HIDE DEF l, n
  <2> QED
    BY <2>1
<1>9. Flying(worker[b]) /\ UNCHANGED <<at, call, config, batches, gathered>>
  BY <1>0 DEF WakesUp, Flying
<1>10. (MaxRetries + 1) * Len(worker[b].pending) + worker[b].attempt + 1 <= (MaxRetries + 1) * Len(l) + (n + 1)
  BY <1>8
<1> DEFINE n1 == n + 1
<1>11. /\ OnItsWay(l, n1, worker[b].got, batches[b], config.max_batch_inputs, config.max_batch_tokens, call.side)
       /\ Moves(b, AWorker("sent", l, n1, worker[b].got))
       /\ (MaxRetries + 1) * Len(worker[b].pending) + worker[b].attempt + 1 <= (MaxRetries + 1) * Len(l) + n1
  BY <1>6, <1>7, <1>10
<1> HIDE DEF l, n, g, n1
<1> QED
  BY <1>0, <1>3, <1>9, <1>11, GoesOn

\* A batch the service finds too large is asked for in two halves.
LEMMA SplitsKeeps ==
  ASSUME CallInv, at = "remote", NEW b \in DOMAIN worker, worker[b].at = "sent",
         Len(Head(worker[b].pending)) > 1, Splits(b)
  PROVE  CallInv'
<1> DEFINE l == worker[b].pending n == worker[b].attempt g == worker[b].got
           batch == Head(l)
           rows == config.max_batch_inputs
           tokens == config.max_batch_tokens
<1>1. WorkerFacts(b) /\ stats \in [Meters -> Nat] /\ Known
  BY WorkerOf DEF CallInv, Known
<1>2. /\ OnItsWay(l, n, g, batches[b], rows, tokens, call.side)
      /\ worker[b] = AWorker("sent", l, n, g)
  BY <1>1, WorkerOnItsWay DEF WorkerFacts, Flying
<1>3. l \in Seq(Seq(Input)) /\ l # <<>> /\ Divides(l, g, IndexesOf(batches[b])) /\ n \in 0..MaxRetries
      /\ g \in Seq(Entries(call.side))
      /\ \A j \in DOMAIN l : l[j] # <<>> /\ Fits(l[j], rows, tokens)
  BY <1>2 DEF OnItsWay
<1>4. Ticks(1, 1, 0, 1, 0)
  BY <1>1, TicksOf DEF Splits
<1>5. worker' = [worker EXCEPT ![b] = WithAttempt(WithPending(worker[b],
                   split_at(batch, Len(batch) \div 2) \o Tail(l)), 0)]
  <2>1. worker' = [worker EXCEPT ![b].pending = split_at(batch, Len(batch) \div 2) \o Tail(@), ![b].attempt = 0]
    BY DEF Splits
  <2> QED
    BY <2>1 DEF WithAttempt, WithPending
<1>a. batches[b] \in Seq(Input) /\ rows \in Nat /\ tokens \in Nat
  BY <1>1, SettingsInBounds DEF WorkerFacts
<1>b. Len(batch) > 1
  OBVIOUS
<1>c. at' = at /\ UNCHANGED <<call, config, batches, gathered>>
  BY DEF Splits
<1> HIDE DEF l, n, g, batch, rows, tokens
<1>6. batch \in Seq(Input) /\ batch = l[1] /\ 1 \in DOMAIN l /\ DOMAIN l = 1..Len(l) /\ Len(l) \in Nat /\ Len(l) > 0
  <2>1. DOMAIN l = 1..Len(l) /\ Len(l) \in Nat /\ Len(l) > 0
    BY <1>3, LenProperties
  <2>2. l[1] \in Seq(Input)
    BY <1>3, <2>1, ElementOfSeq
  <2>3. batch = l[1]
    BY <1>3 DEF batch
  <2> QED
    BY <2>1, <2>2, <2>3
<1>7. OneEach(batch) /\ Fits(batch, rows, tokens)
  BY <1>3, <1>6 DEF Divides
<1>8. PICK x, y : \E m \in Nat :
           /\ split_at(batch, Len(batch) \div 2) = <<x, y>>
           /\ PartOf(x, batch, 0) /\ PartOf(y, batch, m) /\ Len(x) = m /\ Len(x) + Len(y) = Len(batch)
  BY <1>b, <1>6, HalvesAreParts
<1>9. PICK m \in Nat :
           /\ split_at(batch, Len(batch) \div 2) = <<x, y>>
           /\ PartOf(x, batch, 0) /\ PartOf(y, batch, m) /\ Len(x) = m /\ Len(x) + Len(y) = Len(batch)
  BY <1>8
<1>10. x \in Seq(Input) /\ y \in Seq(Input) /\ x # <<>> /\ y # <<>>
  BY <1>9 DEF PartOf
<1>11. Fits(x, rows, tokens) /\ Fits(y, rows, tokens)
  BY <1>a, <1>6, <1>7, <1>9, PartsFit
<1>12. /\ OneEach(x) /\ OneEach(y) /\ IndexesOf(x) \cap IndexesOf(y) = {}
       /\ IndexesOf(x) \cup IndexesOf(y) = IndexesOf(batch)
  BY <1>6, <1>7, <1>9, HalvesShareTexts
<1> DEFINE k == <<x, y>> \o Tail(l)
<1>13. SplitList(k, l, x, y)
  BY <1>3, <1>10, SplitListIs
<1>14. worker' = [worker EXCEPT ![b] = WithAttempt(WithPending(worker[b], k), 0)]
  BY <1>5, <1>9
<1> HIDE DEF k
<1>15. Divides(k, g, IndexesOf(batches[b]))
  BY <1>3, <1>6, <1>12, <1>13, HalvesDivide
<1>16. k \in Seq(Seq(Input)) /\ Len(k) = Len(l) + 1 /\ DOMAIN k = 1..Len(k) /\ k # <<>>
  <2>1. k \in Seq(Seq(Input)) /\ Len(k) = Len(l) + 1
    BY <1>13 DEF SplitList
  <2>2. DOMAIN k = 1..Len(k)
    BY <2>1, LenProperties
  <2>3. k # <<>>
    BY <1>6, <2>1
  <2> QED
    BY <2>1, <2>2, <2>3
<1>17. \A j \in DOMAIN k : k[j] # <<>> /\ Fits(k[j], rows, tokens)
  <2> SUFFICES ASSUME NEW j \in DOMAIN k PROVE k[j] # <<>> /\ Fits(k[j], rows, tokens)
    OBVIOUS
  <2>1. k[1] = x /\ k[2] = y /\ \A i \in 2..Len(l) : k[i + 1] = l[i]
    BY <1>13 DEF SplitList
  <2>2. CASE j = 1 \/ j = 2
    BY <1>10, <1>11, <2>1, <2>2
  <2>3. CASE j # 1 /\ j # 2
    <3>1. j \in 1..(Len(l) + 1)
      BY <1>16
    <3>2. j - 1 \in 2..Len(l) /\ (j - 1) + 1 = j /\ j - 1 \in 1..Len(l)
      BY <1>6, <2>3, <3>1
    <3>3. k[j] = l[j - 1]
      BY <2>1, <3>2
    <3> QED
      BY <1>3, <1>6, <3>2, <3>3
  <2> QED
    BY <2>2, <2>3
<1>18. OnItsWay(k, 0, g, batches[b], rows, tokens, call.side)
  <2>1. 0 \in 0..MaxRetries
    BY RequestsAssumption
  <2> QED
    BY <1>3, <1>15, <1>16, <1>17, <2>1 DEF OnItsWay
<1>19. WithAttempt(WithPending(worker[b], k), 0) = AWorker("sent", k, 0, g)
  <2>1. WithPending(worker[b], k) = AWorker("sent", k, n, g)
    BY <1>2, WorkerFields
  <2> QED
    BY <2>1, WorkerFields
<1>20. Moves(b, AWorker("sent", k, 0, g))
  BY <1>14, <1>19 DEF Moves
<1>21. (MaxRetries + 1) * Len(l) + n + 1 <= (MaxRetries + 1) * Len(k) + 0
  <2> DEFINE z == Len(l) u == Len(k)
  <2>1. z \in Nat /\ n \in 0..MaxRetries /\ MaxRetries \in Nat /\ u = z + 1
    BY <1>3, <1>6, <1>16, RequestsAssumption
  <2> HIDE DEF z, u
  <2>2. (MaxRetries + 1) * u = (MaxRetries + 1) * z + (MaxRetries + 1)
    BY <2>1
  <2>3. (MaxRetries + 1) * z \in Int
    BY <2>1
  <2>4. (MaxRetries + 1) * z + n + 1 <= (MaxRetries + 1) * u + 0
    BY <2>1, <2>2, <2>3
  <2> QED
    BY <2>4 DEF z, u
<1>22. Flying(worker[b])
  BY DEF Flying
<1> QED
  BY <1>c, <1>4, <1>18, <1>20, <1>21, <1>22, GoesOn DEF l, n, g, rows, tokens

\* Sequences that list the same indexes.
LEMMA SameTexts ==
  ASSUME NEW X, NEW Y, NEW s \in Seq(X), NEW t \in Seq(Y), Len(s) = Len(t),
         \A k \in DOMAIN t : s[k].index = t[k].index
  PROVE  IndexesOf(s) = IndexesOf(t) /\ (OneEach(t) => OneEach(s))
<1>1. DOMAIN s = 1..Len(s) /\ DOMAIN t = 1..Len(t)
  BY LenProperties
<1>2. DOMAIN s = DOMAIN t
  BY <1>1
<1> QED
  BY <1>2 DEF IndexesOf, OneEach

\* What a worker holds once the batch it asked for is answered.
LEMMA AnswerTaken ==
  ASSUME NEW l, NEW n, NEW g, NEW batch, NEW rows, NEW tokens, NEW side,
         OnItsWay(l, n, g, batch, rows, tokens, side),
         NEW more \in Seq(Entries(side)), Len(more) = Len(Head(l)),
         \A k \in DOMAIN Head(l) : more[k].index = Head(l)[k].index
  PROVE  /\ g \o more \in Seq(Entries(side)) /\ Len(g \o more) = Len(g) + Len(Head(l))
         /\ Divides(Tail(l), g \o more, IndexesOf(batch))
         /\ Tail(l) # <<>> => OnItsWay(Tail(l), 0, g \o more, batch, rows, tokens, side)
         /\ Len(Tail(l)) = Len(l) - 1 /\ Len(l) \in Nat /\ Len(Head(l)) \in Nat /\ Len(Head(l)) > 0
<1> DEFINE h == Head(l)
           r == Tail(l)
           e == g \o more
<1>1. l \in Seq(Seq(Input)) /\ l # <<>> /\ g \in Seq(Entries(side)) /\ Divides(l, g, IndexesOf(batch))
      /\ \A j \in DOMAIN l : l[j] # <<>> /\ Fits(l[j], rows, tokens)
  BY DEF OnItsWay
<1>2. DOMAIN l = 1..Len(l) /\ Len(l) \in Nat /\ Len(l) > 0
  BY <1>1, LenProperties
<1>3. h = l[1] /\ h \in Seq(Input) /\ h # <<>> /\ OneEach(h) /\ Len(h) \in Nat /\ Len(h) > 0
  <2>1. h = l[1] /\ 1 \in DOMAIN l
    BY <1>1, <1>2
  <2>2. h \in Seq(Input)
    BY <1>1, <1>2, <2>1, ElementOfSeq
  <2>3. h # <<>> /\ OneEach(h)
    BY <1>1, <2>1 DEF Divides
  <2> HIDE DEF h
  <2>4. Len(h) \in Nat /\ Len(h) > 0
    BY <2>2, <2>3, LenProperties
  <2> QED
    BY <2>1, <2>2, <2>3, <2>4
<1>4. r \in Seq(Seq(Input)) /\ Len(r) = Len(l) - 1 /\ \A j \in 1..Len(r) : r[j] = l[j + 1]
  BY <1>1, HeadTailProperties
<1>5. e \in Seq(Entries(side)) /\ Len(e) = Len(g) + Len(more)
  BY <1>1, ConcatProperties
<1>6. IndexesOf(more) = IndexesOf(h) /\ OneEach(more)
  BY <1>3, SameTexts
<1>7. OneEach(g) /\ IndexesOf(g) \cap IndexesOf(h) = {}
  BY <1>1, <1>2, <1>3 DEF Divides
<1>8. IndexesOf(e) = IndexesOf(g) \cup IndexesOf(h) /\ OneEach(e)
  BY <1>1, <1>6, <1>7, JoinedTexts
<1> HIDE DEF e
<1>9. Divides(r, e, IndexesOf(batch))
  BY <1>1, <1>8, AnswerDivides
<1> HIDE DEF r
<1>10. r # <<>> => OnItsWay(r, 0, e, batch, rows, tokens, side)
  <2>1. 0 \in 0..MaxRetries
    BY RequestsAssumption
  <2>2. \A j \in DOMAIN r : r[j] # <<>> /\ Fits(r[j], rows, tokens)
    <3> SUFFICES ASSUME NEW j \in DOMAIN r PROVE r[j] # <<>> /\ Fits(r[j], rows, tokens)
      OBVIOUS
    <3>1. DOMAIN r = 1..Len(r)
      BY <1>4, LenProperties
    <3>2. r[j] = l[j + 1]
      BY <1>4, <3>1
    <3>3. j + 1 \in DOMAIN l
      BY <1>2, <1>4, <3>1
    <3> QED
      BY <1>1, <3>2, <3>3
  <2> QED
    BY <1>4, <1>5, <1>9, <2>1, <2>2 DEF OnItsWay
<1> QED
  BY <1>2, <1>3, <1>4, <1>5, <1>9, <1>10 DEF h, r, e

\* Retries and splits pay for the next request, and for the batch that is done.
LEMMA AnswersPay ==
  ASSUME NEW M \in Nat, NEW G \in Nat, NEW P \in Nat, NEW a \in Nat, a < M, NEW L \in Nat, L > 0
  PROVE  /\ M * (2 * G + P - 1) + a + 1 + 1 <= M * (2 * (G + L) + (P - 1) - 1) + 0 + 1
         /\ \A n \in Nat : G + P <= n /\ P = 1 => M * (2 * G + P - 1) + a + 1 + 0 <= M * (2 * n - 1)
<1>1. M * (2 * G + P - 1) + a + 1 + 1 <= M * (2 * (G + L) + (P - 1) - 1) + 0 + 1
  <2> DEFINE x == M * (2 * G + P - 1) y == M * (2 * L - 1)
  <2>1. M * (2 * (G + L) + (P - 1) - 1) = x + y /\ x \in Int /\ y \in Int
    BY SMTT(30)
  <2>2. y >= M
    <3>1. 2 * L - 1 >= 1
      OBVIOUS
    <3> QED
      BY <3>1, SMTT(30)
  <2> HIDE DEF x, y
  <2> QED
    BY <2>1, <2>2 DEF x
<1>2. ASSUME NEW n \in Nat, G + P <= n, P = 1
      PROVE  M * (2 * G + P - 1) + a + 1 + 0 <= M * (2 * n - 1)
  <2> DEFINE x == M * (2 * G + P - 1) d == 2 * (n - G) - 1 y == M * d
  <2>1. M * (2 * n - 1) = x + y /\ x \in Int /\ y \in Int
    BY <1>2, SMTT(30)
  <2>2. y >= M
    <3>1. d >= 1 /\ d \in Int
      BY <1>2
    <3> HIDE DEF d
    <3> QED
      BY <3>1, SMTT(30)
  <2> HIDE DEF y
  <2>3. x + a + 1 + 0 <= x + y
    <3> HIDE DEF x
    <3> QED
      BY <2>1, <2>2
  <2> QED
    BY <2>1, <2>3
<1> QED
  BY <1>1, <1>2

\* The worker asks for its next batch.
LEMMA NextBatchKeeps ==
  ASSUME CallInv, at = "remote", NEW b \in DOMAIN worker, worker[b].at = "sent", UNCHANGED <<at, call, config, batches, gathered>>,
         NEW more \in Seq(Entries(call.side)), Len(more) = Len(Head(worker[b].pending)),
         \A k \in DOMAIN Head(worker[b].pending) : more[k].index = Head(worker[b].pending)[k].index,
         Tail(worker[b].pending) # <<>>,
         Moves(b, AWorker("sent", Tail(worker[b].pending), 0, worker[b].got \o more)),
         Bump([vectors |-> Len(Head(worker[b].pending)), requests |-> 1])
  PROVE  CallInv'
<1> DEFINE l == worker[b].pending n == worker[b].attempt g == worker[b].got
           h == Head(l) r == Tail(l) e == g \o more
           rows == config.max_batch_inputs
           tokens == config.max_batch_tokens
           w == AWorker("sent", r, 0, e)
<1>1. WorkerFacts(b) /\ stats \in [Meters -> Nat] /\ Worked /\ Collected
  BY WorkerOf DEF CallInv, Known
<1>2. OnItsWay(l, n, g, batches[b], rows, tokens, call.side)
  BY <1>1, WorkerOnItsWay DEF WorkerFacts, Flying
<1>3. Moves(b, w)
  OBVIOUS
<1>4. Bump([vectors |-> Len(h), requests |-> 1])
  OBVIOUS
<1>5. Flying(worker[b]) /\ worker[b].at = "sent" /\ r # <<>>
  BY DEF Flying
<1>6. Len(more) = Len(h) /\ \A k \in DOMAIN h : more[k].index = h[k].index
  OBVIOUS
<1>7. Used(worker[b], Len(batches[b])) = (MaxRetries + 1) * (2 * Len(g) + Len(l) - 1) + n + 1
  BY DEF Used
<1> HIDE DEF l, n, g, rows, tokens
<1>8. /\ e \in Seq(Entries(call.side)) /\ Len(e) = Len(g) + Len(h)
      /\ OnItsWay(r, 0, e, batches[b], rows, tokens, call.side)
      /\ Len(r) = Len(l) - 1 /\ Len(l) \in Nat /\ Len(h) \in Nat /\ Len(h) > 0
  BY <1>2, <1>5, <1>6, AnswerTaken
<1> HIDE DEF h, r, e
<1>9. /\ WorkerSound(w, batches[b], rows, tokens, call.side)
      /\ w.at = "sent" /\ w.got = e
      /\ Used(w, Len(batches[b])) = (MaxRetries + 1) * (2 * Len(e) + Len(r) - 1) + 0 + 1
  <2>1. "sent" \in {"sent", "asleep"} /\ ("sent" = "asleep" => 0 < MaxRetries)
    OBVIOUS
  <2>2. /\ WorkerSound(AWorker("sent", r, 0, e), batches[b], rows, tokens, call.side)
        /\ AWorker("sent", r, 0, e).at = "sent" /\ AWorker("sent", r, 0, e).got = e
        /\ \A m : Used(AWorker("sent", r, 0, e), m) = (MaxRetries + 1) * (2 * Len(e) + Len(r) - 1) + 0 + 1
    <3> DEFINE s == "sent" z == 0
    <3>1. s \in {"sent", "asleep"} /\ (s = "asleep" => z < MaxRetries) /\ OnItsWay(r, z, e, batches[b], rows, tokens, call.side)
      BY <1>8, <2>1
    <3> HIDE DEF s, z
    <3>2. /\ WorkerSound(AWorker(s, r, z, e), batches[b], rows, tokens, call.side)
          /\ AWorker(s, r, z, e).at = s /\ AWorker(s, r, z, e).got = e
          /\ \A m : Used(AWorker(s, r, z, e), m) = (MaxRetries + 1) * (2 * Len(e) + Len(r) - 1) + z + 1
      BY <3>1, OnItsWayIsSound
    <3> QED
      BY <3>2 DEF s, z
  <2> QED
    BY <2>2
<1> HIDE DEF w
<1>10. Ticks(1, 0, 0, 0, Len(h))
  BY <1>1, <1>4, <1>8, TicksOf
<1>11. Len(g) \in Nat /\ n \in 0..MaxRetries /\ MaxRetries \in Nat
  BY <1>2, LenProperties, RequestsAssumption DEF OnItsWay
<1>12. Used(worker[b], Len(batches[b])) + 1 <= Used(w, Len(batches[b]))
  <2> DEFINE M == MaxRetries + 1 G == Len(g) P == Len(l) L == Len(h)
  <2>1. M \in Nat /\ G \in Nat /\ P \in Nat /\ n \in Nat /\ n < M /\ L \in Nat /\ L > 0
    <3>1. G \in Nat /\ P \in Nat /\ L \in Nat /\ L > 0
      BY <1>8, <1>11
    <3> HIDE DEF G, P, L
    <3> QED
      BY <1>11, <3>1
  <2>2. /\ Used(worker[b], Len(batches[b])) = M * (2 * G + P - 1) + n + 1
        /\ Used(w, Len(batches[b])) = M * (2 * (G + L) + (P - 1) - 1) + 0 + 1
    BY <1>7, <1>8, <1>9
  <2> DEFINE u == Used(worker[b], Len(batches[b])) v == Used(w, Len(batches[b]))
  <2>3. u = M * (2 * G + P - 1) + n + 1 /\ v = M * (2 * (G + L) + (P - 1) - 1) + 0 + 1
    BY <2>2
  <2> HIDE DEF M, G, P, L, u, v
  <2>4. M * (2 * G + P - 1) + n + 1 + 1 <= M * (2 * (G + L) + (P - 1) - 1) + 0 + 1
    BY <2>1, AnswersPay
  <2>5. u + 1 <= v
    BY <2>3, <2>4
  <2> QED
    BY <2>5 DEF u, v
<1>13. Collected'
  <2>1. w.at # "done" /\ worker[b].at # "done"
    BY <1>5, <1>9
  <2> QED
    BY <1>1, <1>3, <2>1, CollectedKept
<1>14. Len(gathered) + Len(worker[b].got) + Len(h) = Len(gathered') + Len(w.got)
  <2>1. Len(gathered) \in Nat
    BY <1>1, LenProperties DEF Collected
  <2>2. Len(w.got) = Len(worker[b].got) + Len(h)
    BY <1>8, <1>9 DEF g
  <2>3. Len(worker[b].got) \in Nat
    BY <1>11 DEF g
  <2> QED
    BY <1>8, <2>1, <2>2, <2>3
<1>15. at' = "remote" /\ UNCHANGED <<call, config, batches>> /\ Flying(worker[b])
  BY <1>5
<1>16. WorkerSound(w, batches[b], config.max_batch_inputs, config.max_batch_tokens, call.side)
  BY <1>9 DEF rows, tokens
<1> DEFINE v == Len(h)
<1>17. Ticks(1, 0, 0, 0, v) /\ v \in Nat /\ Len(gathered) + Len(worker[b].got) + v = Len(gathered') + Len(w.got)
  BY <1>8, <1>10, <1>14
<1> HIDE DEF v
<1> DEFINE one == 1 none == 0
<1>18. one \in Nat /\ none \in Nat /\ none = none + none /\ Ticks(one, none, none, none, v)
       /\ Used(worker[b], Len(batches[b])) + one <= Used(w, Len(batches[b]))
  BY <1>12, <1>17
<1> HIDE DEF one, none
<1> QED
  BY <1>3, <1>13, <1>15, <1>16, <1>17, <1>18, WorkerTicks

\* Two batches share no text.
LEMMA SpreadApart ==
  ASSUME NEW list, NEW n, SpreadOver(list, n), NEW b \in DOMAIN list, NEW c \in DOMAIN list, c # b
  PROVE  IndexesOf(list[c]) \cap IndexesOf(list[b]) = {}
  BY DEF SpreadOver, IndexesOf

\* The worker's last batch is answered: its vectors join those of the call.
LEMMA LastBatchKeeps ==
  ASSUME CallInv, at = "remote", NEW b \in DOMAIN worker, worker[b].at = "sent", UNCHANGED <<at, call, config, batches>>,
         NEW more \in Seq(Entries(call.side)), Len(more) = Len(Head(worker[b].pending)),
         \A k \in DOMAIN Head(worker[b].pending) : more[k].index = Head(worker[b].pending)[k].index,
         Tail(worker[b].pending) = <<>>,
         Moves(b, AWorker("done", <<>>, 0, <<>>)),
         gathered' = gathered \o (worker[b].got \o more),
         Bump([vectors |-> Len(Head(worker[b].pending))])
  PROVE  CallInv'
<1> DEFINE l == worker[b].pending n == worker[b].attempt g == worker[b].got
           h == Head(l) r == Tail(l) e == g \o more
           rows == config.max_batch_inputs
           tokens == config.max_batch_tokens
           w == AWorker("done", <<>>, 0, <<>>)
<1>1. WorkerFacts(b) /\ stats \in [Meters -> Nat] /\ Worked /\ Collected /\ Batched
  BY WorkerOf DEF CallInv, Known
<1>2. OnItsWay(l, n, g, batches[b], rows, tokens, call.side)
  BY <1>1, WorkerOnItsWay DEF WorkerFacts, Flying
<1>3. Moves(b, w)
  OBVIOUS
<1>4. Bump([vectors |-> Len(h)])
  OBVIOUS
<1>5. worker[b].at = "sent" /\ r = <<>> /\ gathered' = gathered \o e
  OBVIOUS
<1>6. Len(more) = Len(h) /\ \A k \in DOMAIN h : more[k].index = h[k].index
  OBVIOUS
<1>7. Used(worker[b], Len(batches[b])) = (MaxRetries + 1) * (2 * Len(g) + Len(l) - 1) + n + 1
  BY DEF Used
<1> HIDE DEF l, n, g, rows, tokens
<1>8. /\ e \in Seq(Entries(call.side)) /\ Len(e) = Len(g) + Len(h)
      /\ Divides(r, e, IndexesOf(batches[b]))
      /\ Len(r) = Len(l) - 1 /\ Len(l) \in Nat /\ Len(h) \in Nat /\ Len(h) > 0
  BY <1>2, <1>6, AnswerTaken
<1> HIDE DEF h, e
<1>9. /\ w.at = "done" /\ w.pending = <<>> /\ w.got = <<>>
      /\ w \in WorkerType(call.side)
  <2>1. 0 \in 0..MaxRetries /\ \A S : <<>> \in Seq(S)
    BY RequestsAssumption, EmptySequences
  <2> QED
    BY <2>1 DEF AWorker, WorkerType, WorkerStages
<1> HIDE DEF w
<1>10. WorkerSound(w, batches[b], rows, tokens, call.side) /\ ~ Flying(w)
  BY <1>9 DEF WorkerSound, Flying
<1>11. Ticks(0, 0, 0, 0, Len(h))
  BY <1>1, <1>4, <1>8, TicksOf
<1>12. Len(g) \in Nat /\ n \in 0..MaxRetries /\ MaxRetries \in Nat
  BY <1>2, LenProperties, RequestsAssumption DEF OnItsWay
<1>13. Len(l) = 1 /\ Len(g) + Len(l) <= Len(batches[b]) /\ Len(batches[b]) \in Nat
  <2>1. Len(g) + Len(l) <= Len(batches[b])
    <3>1. /\ l \in Seq(Seq(Input)) /\ g \in Seq(Entries(call.side)) /\ Divides(l, g, IndexesOf(batches[b]))
          /\ \A j \in DOMAIN l : l[j] # <<>>
      BY <1>2 DEF OnItsWay
    <3>2. batches[b] \in Seq(Input) /\ OneEach(batches[b])
      BY <1>1 DEF WorkerFacts
    <3> QED
      BY <3>1, <3>2, SharesAreFew
  <2>2. Len(r) = 0
    <3> HIDE DEF r
    <3> QED
      BY <1>5, EmptySequences
  <2>3. Len(batches[b]) \in Nat
    BY <1>1, LenProperties DEF WorkerFacts
  <2> QED
    BY <1>8, <2>1, <2>2, <2>3
<1> HIDE DEF r
<1>14. Used(worker[b], Len(batches[b])) + 0 <= Used(w, Len(batches[b]))
  <2> DEFINE M == MaxRetries + 1 G == Len(g) P == Len(l) N == Len(batches[b])
  <2>1. M \in Nat /\ G \in Nat /\ P \in Nat /\ n \in Nat /\ n < M /\ 1 \in Nat /\ 1 > 0
    BY <1>8, <1>12
  <2>2. /\ Used(worker[b], N) = M * (2 * G + P - 1) + n + 1
        /\ Used(w, N) = M * (2 * N - 1)
    BY <1>7, <1>9 DEF Used
  <2>3. N \in Nat /\ G + P <= N /\ P = 1
    BY <1>13
  <2> HIDE DEF M, G, P, N
  <2>4. M * (2 * G + P - 1) + n + 1 + 0 <= M * (2 * N - 1)
    BY <2>1, <2>3, AnswersPay
  <2>5. Used(worker[b], N) + 0 <= Used(w, N)
    BY <2>2, <2>4
  <2> QED
    BY <2>5 DEF N
<1>15. IndexesOf(e) = IndexesOf(batches[b]) /\ OneEach(e)
  <2>1. Divides(<<>>, e, IndexesOf(batches[b]))
    BY <1>5, <1>8
  <2>2. UNION {IndexesOf(<<>>[j]) : j \in DOMAIN <<>>} = {}
    OBVIOUS
  <2> QED
    BY <2>1, <2>2 DEF Divides
<1>16. IndexesOf(gathered) \cap IndexesOf(e) = {}
  <2>1. IndexesOf(gathered) = UNION {IndexesOf(batches[c]) : c \in Finished}
    BY <1>1 DEF Collected
  <2>2. b \notin Finished /\ \A c \in Finished : c \in DOMAIN batches
    BY <1>1, <1>5 DEF Finished, Worked
  <2>3. SpreadOver(batches, Count) /\ b \in DOMAIN batches
    BY <1>1 DEF Batched, WorkerFacts
  <2>4. \A c \in Finished : IndexesOf(batches[c]) \cap IndexesOf(batches[b]) = {}
    <3> SUFFICES ASSUME NEW c \in Finished PROVE IndexesOf(batches[c]) \cap IndexesOf(batches[b]) = {}
      OBVIOUS
    <3>1. c \in DOMAIN batches /\ c # b
      BY <2>2
    <3> QED
      BY <2>3, <3>1, SpreadApart
  <2> QED
    BY <1>15, <2>1, <2>4
<1>17. /\ gathered' \in Seq(Entries(call.side)) /\ OneEach(gathered')
       /\ IndexesOf(gathered') = IndexesOf(gathered) \cup IndexesOf(batches[b])
       /\ Len(gathered') = Len(gathered) + Len(e) /\ Len(gathered) \in Nat
  <2>1. gathered \in Seq(Entries(call.side)) /\ OneEach(gathered)
    BY <1>1 DEF Collected
  <2>2. gathered \o e \in Seq(Entries(call.side)) /\ Len(gathered \o e) = Len(gathered) + Len(e)
    BY <1>8, <2>1, ConcatProperties
  <2>3. IndexesOf(gathered \o e) = IndexesOf(gathered) \cup IndexesOf(e) /\ OneEach(gathered \o e)
    BY <1>8, <1>15, <1>16, <2>1, JoinedTexts
  <2>4. Len(gathered) \in Nat
    BY <2>1, LenProperties
  <2> QED
    BY <1>5, <1>15, <2>2, <2>3, <2>4
<1>18. Collected'
  <2>1. w.at = "done" /\ worker[b].at # "done"
    BY <1>5, <1>9
  <2> QED
    BY <1>1, <1>3, <1>17, <2>1, CollectedMore
<1>19. Len(gathered) + Len(worker[b].got) + Len(h) = Len(gathered') + Len(w.got)
  <2>1. Len(w.got) = 0 /\ Len(worker[b].got) = Len(g)
    BY <1>9, EmptySequences DEF g
  <2> QED
    BY <1>8, <1>12, <1>17, <2>1
<1>20. at' = "remote" /\ UNCHANGED <<call, config, batches>>
  OBVIOUS
<1>21. WorkerSound(w, batches[b], config.max_batch_inputs, config.max_batch_tokens, call.side)
  BY <1>10 DEF rows, tokens
<1> DEFINE v == Len(h)
<1>22. Ticks(0, 0, 0, 0, v) /\ v \in Nat /\ Len(gathered) + Len(worker[b].got) + v = Len(gathered') + Len(w.got)
  BY <1>8, <1>11, <1>19
<1> HIDE DEF v
<1> DEFINE none == 0
<1>23. none \in Nat /\ none = none + none /\ Ticks(none, none, none, none, v)
       /\ Used(worker[b], Len(batches[b])) + none <= Used(w, Len(batches[b]))
  BY <1>14, <1>22
<1> HIDE DEF none
<1> QED
  BY <1>3, <1>10, <1>18, <1>20, <1>21, <1>22, <1>23, WorkerTicks

\* A worker that waits for an answer has a batch it asked for.
LEMMA BatchAsked ==
  ASSUME CallInv, at = "remote", NEW b \in DOMAIN worker, worker[b].at = "sent"
  PROVE  /\ Head(worker[b].pending) \in Seq(Input) /\ Head(worker[b].pending) # <<>>
         /\ Head(worker[b].pending) = worker[b].pending[1] /\ 1 \in DOMAIN worker[b].pending
         /\ Fits(Head(worker[b].pending), config.max_batch_inputs, config.max_batch_tokens)
<1> DEFINE l == worker[b].pending
<1>1. /\ l \in Seq(Seq(Input)) /\ l # <<>>
      /\ \A j \in DOMAIN l : l[j] # <<>> /\ Fits(l[j], config.max_batch_inputs, config.max_batch_tokens)
  <2>1. WorkerSound(worker[b], batches[b], config.max_batch_inputs, config.max_batch_tokens, call.side)
    BY DEF CallInv, Worked
  <2> QED
    BY <2>1 DEF WorkerSound, WorkerType
<1> HIDE DEF l
<1>2. DOMAIN l = 1..Len(l) /\ Len(l) \in Nat /\ Len(l) > 0
  BY <1>1, LenProperties
<1>3. Head(l) = l[1] /\ 1 \in 1..Len(l) /\ l[1] \in Seq(Input)
  BY <1>1, <1>2, ElementOfSeq
<1> QED
  BY <1>1, <1>2, <1>3 DEF l

\* What a response gives a worker keeps the invariant, whatever its order.
LEMMA ReceivedKeeps ==
  ASSUME CallInv, at = "remote", NEW b \in DOMAIN worker, worker[b].at = "sent",
         UNCHANGED <<call, at, config, batches>>,
         NEW items \in Served(Head(worker[b].pending)) \cup Garbled(Head(worker[b].pending)),
         NEW taken \in parse_embeddings_response(items, Len(Head(worker[b].pending))),
         Received(b, taken)
  PROVE  CallInv'
<1> DEFINE h == Head(worker[b].pending)
           more == AnswerOf(h, taken)
<1>1. h \in Seq(Input) /\ h # <<>>
  BY BatchAsked
<1>2. more \in Seq(Entries(call.side)) /\ Len(more) = Len(h) /\ \A k \in DOMAIN h : more[k].index = h[k].index
  <2>1. items \in Served(h) \cup Garbled(h) /\ taken \in parse_embeddings_response(items, Len(h))
    OBVIOUS
  <2> HIDE DEF h
  <2> QED
    BY <1>1, <2>1, AnswersBelong
<1>3. CASE Tail(worker[b].pending) # <<>>
  <2>1. /\ Moves(b, AWorker("sent", Tail(worker[b].pending), 0, worker[b].got \o more))
        /\ Bump([vectors |-> Len(h), requests |-> 1]) /\ UNCHANGED gathered
    BY <1>3 DEF Received, Moves, AWorker, AnswerOf
  <2>2. UNCHANGED <<at, call, config, batches, gathered>>
    BY <2>1
  <2> HIDE DEF more
  <2> QED
    BY <1>2, <1>3, <2>1, <2>2, NextBatchKeeps
<1>4. CASE Tail(worker[b].pending) = <<>>
  <2>1. /\ Moves(b, AWorker("done", <<>>, 0, <<>>))
        /\ gathered' = gathered \o (worker[b].got \o more) /\ Bump([vectors |-> Len(h)])
    BY <1>4 DEF Received, Moves, AWorker, AnswerOf
  <2>2. UNCHANGED <<at, call, config, batches>>
    OBVIOUS
  <2> HIDE DEF more
  <2> QED
    BY <1>2, <1>4, <2>1, <2>2, LastBatchKeeps
<1> QED
  BY <1>3, <1>4

\* An answer: vectors, or what is not what was asked for.
LEMMA RepliedKeeps ==
  ASSUME CallInv, NEW b \in DOMAIN worker, Replied(b)
  PROVE  CallInv'
<1> DEFINE h == Head(worker[b].pending)
<1>1. at = "remote" /\ worker[b].at = "sent"
  BY DEF Replied
<1>2. PICK items \in Served(h) \cup Garbled(h) :
        IF parse_embeddings_response(items, Len(h)) = {} THEN CallFails(b)
        ELSE /\ \E taken \in parse_embeddings_response(items, Len(h)) : Received(b, taken)
             /\ UNCHANGED <<call, at, config, batches, answer>>
  BY DEF Replied
<1>3. CASE parse_embeddings_response(items, Len(h)) = {}
  BY <1>2, <1>3, CallFailsKeeps
<1>4. CASE parse_embeddings_response(items, Len(h)) # {}
  <2>1. PICK taken \in parse_embeddings_response(items, Len(h)) : Received(b, taken)
    BY <1>2, <1>4
  <2>2. UNCHANGED <<call, at, config, batches>>
    BY <1>2, <1>4
  <2> QED
    BY <1>1, <2>1, <2>2, ReceivedKeeps
<1> QED
  BY <1>3, <1>4

\* A refusal: a split, another try or the end of the call.
LEMMA RejectedKeeps ==
  ASSUME CallInv, NEW b \in DOMAIN worker, Rejected(b)
  PROVE  CallInv'
<1>1. at = "remote" /\ worker[b].at = "sent"
  BY DEF Rejected
<1>2. \/ Len(Head(worker[b].pending)) > 1 /\ Splits(b)
      \/ MayRetry(b) /\ Sleeps(b)
      \/ CallFails(b)
  BY DEF Rejected
<1> QED
  BY <1>1, <1>2, SplitsKeeps, SleepsKeeps, CallFailsKeeps

\* No answer: another try or the end of the call.
LEMMA LostKeeps ==
  ASSUME CallInv, NEW b \in DOMAIN worker, Lost(b)
  PROVE  CallInv'
<1>1. at = "remote" /\ worker[b].at = "sent"
  BY DEF Lost
<1>2. (MayRetry(b) /\ Sleeps(b)) \/ CallFails(b)
  BY DEF Lost
<1> QED
  BY <1>1, <1>2, SleepsKeeps, CallFailsKeeps

-----------------------------------------------------------------------------
(* The ends of a call.                                                     *)

\* The lengths the batches are planned by, one for each text.
LEMMA LengthsAreNumbers ==
  ASSUME Known, NEW counted \in BOOLEAN
  PROVE  /\ estimate_token_lengths(call.texts, counted) \in Seq(Nat)
         /\ Len(estimate_token_lengths(call.texts, counted)) = Count
         /\ local_lengths(call.texts, counted) \in Seq(Nat) /\ Len(local_lengths(call.texts, counted)) = Count
         /\ Count \in Nat /\ (call.side = "Queries" => Count > 0)
<1> DEFINE t == call.texts
           n == Len(t)
           T == [raw : Nat, chars : Nat]
           e == estimate_token_lengths(t, counted)
           l == local_lengths(t, counted)
<1>1. t \in Seq(T) /\ (call.side = "Queries" => t # <<>>) /\ MaxLen \in Nat
  BY RequestsAssumption DEF Known
<1> HIDE DEF t
<1>2. n \in Nat /\ DOMAIN t = 1..n /\ (t # <<>> => n > 0)
  BY <1>1, LenProperties
<1>3. \A i \in 1..n : t[i] \in T
  BY <1>1, <1>2, ElementOfSeq
<1> HIDE DEF n
<1>4. \A i \in 1..n : t[i].raw \in Nat /\ t[i].chars \in Nat
  BY <1>3
<1>5. \A i \in 1..n : /\ len_from_raw(t[i].raw) \in Nat
                      /\ fallback_token_estimate(t[i]) \in Nat
  <2> SUFFICES ASSUME NEW i \in 1..n PROVE len_from_raw(t[i].raw) \in Nat /\ fallback_token_estimate(t[i]) \in Nat
    OBVIOUS
  <2>1. len_from_raw(t[i].raw) \in Nat
    BY <1>1, <1>4 DEF len_from_raw, Fewest
  <2>2. fallback_token_estimate(t[i]) \in Nat
    <3> DEFINE c == t[i].chars
    <3>1. c \in Nat
      BY <1>4
    <3>2. fallback_token_estimate(t[i]) = AtLeastOne((c + 3) \div 4)
      BY DEF fallback_token_estimate
    <3> HIDE DEF c
    <3>3. AtLeastOne((c + 3) \div 4) \in Nat
      BY <3>1 DEF AtLeastOne
    <3> QED
      BY <3>2, <3>3
  <2> QED
    BY <2>1, <2>2
<1>6. e = [i \in 1..n |-> AtLeastOne(IF counted THEN len_from_raw(t[i].raw) ELSE fallback_token_estimate(t[i]))]
  BY <1>2 DEF estimate_token_lengths
<1>7. l = [i \in 1..n |-> IF counted THEN len_from_raw(t[i].raw) ELSE t[i].chars]
  BY <1>2 DEF local_lengths
<1> HIDE DEF e, l
<1>8. e \in [1..n -> Nat]
  <2>1. \A x \in Nat : AtLeastOne(x) \in Nat
    BY DEF AtLeastOne
  <2>2. \A i \in 1..n : AtLeastOne(IF counted THEN len_from_raw(t[i].raw) ELSE fallback_token_estimate(t[i])) \in Nat
    BY <1>5, <2>1
  <2> QED
    BY <1>6, <2>2
<1>9. l \in [1..n -> Nat]
  BY <1>4, <1>5, <1>7
<1>10. e \in Seq(Nat) /\ l \in Seq(Nat)
  BY <1>2, <1>8, <1>9, SeqDef
<1>11. Len(e) = n /\ Len(l) = n
  BY <1>2, <1>8, <1>9, <1>10, LenProperties
<1> QED
  BY <1>1, <1>2, <1>10, <1>11 DEF e, l, t, n, Count

\* A call that ends keeps all but its answer.
LEMMA EndsKeep ==
  ASSUME CallInv, UNCHANGED <<call, config, batches, worker, gathered, stats>>, at' \in {"ok", "failed"},
         at' = "ok" => answer' = {[i \in 1..Count |-> Vector(i, call.side, TRUE)]}
  PROVE  CallInv'
<1>1. Known'
  BY DEF CallInv, Known
<1>2. Batched'
  <2>1. Batched /\ (at \in {"remote", "local"} \/ batches # <<>> => SpreadOver(batches, Count))
    BY DEF CallInv, Batched
  <2>2. Count' = Count /\ at' \notin {"remote", "local"}
    BY DEF Count
  <2>3. at' \in {"remote", "local"} \/ batches' # <<>> => SpreadOver(batches', Count')
    BY <2>1, <2>2
  <2> QED
    BY <2>1, <2>3 DEF Batched
<1>3. Worked'
  BY DEF CallInv, Worked
<1>4. Collected'
  BY DEF CallInv, Collected
<1>5. UsedBy' = UsedBy /\ InFlight' = InFlight
  BY DEF UsedBy, InFlight
<1>6. Metered'
  BY <1>5 DEF CallInv, Metered
<1>7. VectorsBelong'
  <2>1. Count' = Count /\ call'.side = call.side
    BY DEF Count
  <2> QED
    BY <2>1 DEF VectorsBelong
<1> QED
  BY <1>1, <1>2, <1>3, <1>4, <1>6, <1>7 DEF CallInv

\* What is put in the order of the texts is theirs when its numbers are finite.
LEMMA RestoredBelong ==
  ASSUME NEW side, NEW g \in Seq(Entries(side)), NEW n \in Nat
  PROVE  LET R == restore_original_embedding_order(n, g) IN
         /\ \A f \in R : AllFinite(f) => f = [i \in 1..n |-> Vector(i, side, TRUE)]
         /\ (\A k \in DOMAIN g : g[k].vector.finite) => \A f \in R : AllFinite(f)
         /\ \A f, h \in R : f = h
<1> DEFINE R == restore_original_embedding_order(n, g)
           F == [i \in 1..n |-> g[LastWith(g, i - 1)].vector]
<1>1. R \in {{}, {F}} /\ (R # {} => \A i \in 0..(n - 1) : \E k \in DOMAIN g : g[k].index = i)
  BY DEF restore_original_embedding_order, LastWith
<1>2. Len(g) \in Nat /\ DOMAIN g = 1..Len(g) /\ \A k \in DOMAIN g : g[k] \in Entries(side)
  BY LenProperties, ElementOfSeq
<1>3. ASSUME R # {}, NEW i \in 1..n
      PROVE  LET o == LastWith(g, i - 1) IN o \in DOMAIN g /\ g[o].index = i - 1 /\ F[i] = g[o].vector
  <2>1. i - 1 \in 0..(n - 1)
    OBVIOUS
  <2>2. \E k \in DOMAIN g : g[k].index = i - 1
    BY <1>1, <1>3, <2>1
  <2>3. LastWith(g, i - 1) \in 1..Len(g) /\ g[LastWith(g, i - 1)].index = i - 1
    BY <1>2, <2>2, LastWithIsOne
  <2> QED
    BY <1>2, <2>3
<1>4. \A k \in DOMAIN g : \E f \in BOOLEAN : g[k].vector = Vector(g[k].index + 1, side, f) /\ g[k].vector.finite = f
  <2> SUFFICES ASSUME NEW k \in DOMAIN g
               PROVE  \E f \in BOOLEAN : g[k].vector = Vector(g[k].index + 1, side, f) /\ g[k].vector.finite = f
    OBVIOUS
  <2>1. g[k] \in Entries(side)
    BY <1>2
  <2>2. PICK i \in Nat, f \in BOOLEAN : g[k] = [index |-> i, vector |-> Vector(i + 1, side, f)]
    BY <2>1 DEF Entries
  <2>3. g[k].index = i /\ g[k].vector = Vector(i + 1, side, f)
    BY <2>2
  <2>4. Vector(i + 1, side, f).finite = f
    BY DEF Vector
  <2> QED
    BY <2>3, <2>4
<1> HIDE DEF R
<1>5. DOMAIN F = 1..n
  OBVIOUS
<1>6. ASSUME R # {}, AllFinite(F) PROVE F = [i \in 1..n |-> Vector(i, side, TRUE)]
  <2>1. \A i \in 1..n : F[i] = Vector(i, side, TRUE)
    <3> SUFFICES ASSUME NEW i \in 1..n PROVE F[i] = Vector(i, side, TRUE)
      OBVIOUS
    <3> DEFINE o == LastWith(g, i - 1)
    <3>1. o \in DOMAIN g /\ g[o].index = i - 1 /\ F[i] = g[o].vector
      BY <1>3, <1>6
    <3>2. F[i].finite
      BY <1>5, <1>6 DEF AllFinite
    <3> HIDE DEF o, F
    <3>3. PICK f \in BOOLEAN : g[o].vector = Vector(g[o].index + 1, side, f) /\ g[o].vector.finite = f
      BY <1>4, <3>1
    <3>4. f = TRUE
      BY <3>1, <3>2, <3>3
    <3>5. g[o].index + 1 = i
      BY <3>1
    <3> QED
      BY <3>1, <3>3, <3>4, <3>5
  <2>2. F = [i \in 1..n |-> F[i]]
    OBVIOUS
  <2> HIDE DEF F
  <2> QED
    BY <2>1, <2>2
<1>7. ASSUME R # {}, \A k \in DOMAIN g : g[k].vector.finite PROVE AllFinite(F)
  <2>1. \A i \in 1..n : F[i].finite
    BY <1>3, <1>7
  <2> HIDE DEF F
  <2> QED
    BY <1>5, <2>1 DEF AllFinite
<1> HIDE DEF F
<1> QED
  BY <1>1, <1>6, <1>7 DEF R

\* The remote call returns when every worker is done.
LEMMA RemoteEndsKeeps ==
  ASSUME CallInv, RemoteEnds
  PROVE  CallInv'
<1> DEFINE R == restore_original_embedding_order(Count, gathered)
           V == UNION {guard_finite(call.runtime, vs, vs) : vs \in R}
<1>1. Known /\ Collected
  BY DEF CallInv
<1>2. Count \in Nat /\ gathered \in Seq(Entries(call.side))
  BY <1>1, LengthsAreNumbers DEF Collected
<1>3. answer' = V /\ at' = (IF V = {} THEN "failed" ELSE "ok") /\ UNCHANGED <<call, config, batches, worker, gathered, stats>>
  BY DEF RemoteEnds, Returns
<1>4. /\ \A f \in R : AllFinite(f) => f = [i \in 1..Count |-> Vector(i, call.side, TRUE)]
      /\ \A f, h \in R : f = h
  BY <1>2, RestoredBelong
<1> DEFINE A == [i \in 1..Count |-> Vector(i, call.side, TRUE)]
<1> HIDE DEF R
<1>5. \A v \in V : v \in R /\ AllFinite(v)
  BY DEF guard_finite
<1> HIDE DEF V, A
<1>6. V # {} => V = {A}
  BY <1>4, <1>5 DEF A
<1>7. at' \in {"ok", "failed"} /\ (at' = "ok" => answer' = {A})
  BY <1>3, <1>6
<1> QED
  BY <1>3, <1>7, EndsKeep DEF A

\* The local call returns when every text has its vector.
LEMMA LocalEndsKeeps ==
  ASSUME CallInv, LocalEnds
  PROVE  CallInv'
<1> DEFINE R == restore_original_embedding_order(Count, gathered)
           A == [i \in 1..Count |-> Vector(i, call.side, TRUE)]
<1>1. Known /\ Collected
  BY DEF CallInv
<1>2. Count \in Nat /\ gathered \in Seq(Entries(call.side)) /\ \A k \in DOMAIN gathered : gathered[k].vector.finite
  BY <1>1, LengthsAreNumbers DEF Collected, LocalEnds
<1>3. answer' = R /\ at' = (IF R = {} THEN "failed" ELSE "ok") /\ UNCHANGED <<call, config, batches, worker, gathered, stats>>
  BY DEF LocalEnds, Returns
<1>4. /\ \A f \in R : AllFinite(f) => f = A
      /\ (\A k \in DOMAIN gathered : gathered[k].vector.finite) => \A f \in R : AllFinite(f)
      /\ \A f, h \in R : f = h
  BY <1>2, RestoredBelong
<1> HIDE DEF R, A
<1>5. R # {} => R = {A}
  BY <1>2, <1>4
<1>6. at' \in {"ok", "failed"} /\ (at' = "ok" => answer' = {A})
  BY <1>3, <1>5
<1> QED
  BY <1>3, <1>6, EndsKeep DEF A

\* A call without a key, a session that fails, and a call that has returned.
LEMMA StopsKeep ==
  ASSUME CallInv, NoKey \/ LocalFails \/ Returned
  PROVE  CallInv'
<1>1. CASE NoKey \/ LocalFails
  <2>1. at' = "failed" /\ UNCHANGED <<call, config, batches, worker, gathered, stats>>
    BY <1>1 DEF NoKey, LocalFails
  <2> QED
    BY <2>1, EndsKeep
<1>2. CASE Returned
  <2>1. at \in {"ok", "failed"} /\ UNCHANGED <<call, at, config, batches, worker, gathered, answer, stats>>
    BY <1>2 DEF Returned, erVars
  <2>2. at' = "ok" => answer' = {[i \in 1..Count |-> Vector(i, call.side, TRUE)]}
    BY <2>1 DEF CallInv, VectorsBelong
  <2> QED
    BY <2>1, <2>2, EndsKeep
<1> QED
  BY <1>1, <1>2

-----------------------------------------------------------------------------
(* How a call starts and plans.                                            *)

\* No worker used nothing.
LEMMA NothingCounted ==
  NoStats \in [Meters -> Nat] /\ NoStats.requests = 0 /\ NoStats.failed = 0 /\ NoStats.retries = 0
  /\ NoStats.splits = 0 /\ NoStats.vectors = 0
<1>1. NoStats = [m \in Meters |-> NoStats[m]] /\ \A m \in Meters : NoStats[m] \in Nat
  BY DEF NoStats, Meters
<1> QED
  BY <1>1 DEF NoStats

\* The invariant holds when a call starts.
LEMMA CallStarts ==
  ASSUME ERInit
  PROVE  CallInv
<1>1. Known
  BY NothingCounted DEF ERInit, Known
<1>2. Batched
  BY EmptySequences DEF ERInit, Batched, Packed, Stacked
<1>3. Worked
  BY DEF ERInit, Worked
<1>4. Collected
  BY EmptySequences DEF ERInit, Collected
<1>5. Metered
  <2>1. DOMAIN worker = {} /\ IsFiniteSet({})
    BY FS_EmptySet DEF ERInit
  <2>2. UsedBy \in [{} -> Int] /\ DOMAIN UsedBy = {} /\ InFlight = {}
    BY <2>1 DEF UsedBy, InFlight
  <2>3. SumFunctionOnSet(UsedBy, {}) = 0
    BY <2>1, <2>2, SumOfNone
  <2>4. stats.requests = 0 /\ at = "asked" /\ config.concurrency \in 1..3
    BY <1>1, NothingCounted, SettingsInBounds DEF ERInit
  <2>6. SumFunctionOnSet(UsedBy, DOMAIN UsedBy) = 0 /\ Cardinality(InFlight) = 0
    BY <2>2, <2>3, FS_EmptySet
  <2> QED
    BY <2>4, <2>6 DEF Metered
<1>6. VectorsBelong
  BY DEF ERInit, VectorsBelong
<1> QED
  BY <1>1, <1>2, <1>3, <1>4, <1>5, <1>6 DEF CallInv

\* A remote call plans its batches.
LEMMA RemotePlansKeep ==
  ASSUME CallInv, plan_remote_batches
  PROVE  CallInv'
<1>1. at = "asked" /\ call.runtime = "OpenRouter" /\ at' = "remote" /\ UNCHANGED <<call, config, gathered, answer, stats>>
      /\ worker' = [b \in DOMAIN batches' |-> Waiting]
  BY DEF plan_remote_batches
<1>2. Known /\ stats = NoStats /\ gathered = <<>>
  BY <1>1 DEF CallInv, Known
<1>3. PICK counted \in {call.counter, FALSE} :
        batches' = plan_remote_input_batches(estimate_token_lengths(call.texts, counted), config)
  BY DEF plan_remote_batches
<1>4. counted \in BOOLEAN
  BY <1>2, RequestsAssumption DEF Known
<1> DEFINE lens == estimate_token_lengths(call.texts, counted)
           R == config.max_batch_inputs
           T == config.max_batch_tokens
<1>5. lens \in Seq(Nat) /\ Len(lens) = Count
  BY <1>2, <1>4, LengthsAreNumbers
<1>6. R \in Nat \ {0} /\ T \in Nat \ {0} /\ config.concurrency \in 1..3
  BY <1>2, SettingsInBounds
<1> HIDE DEF lens
<1>7. SpreadOver(batches', Count) /\ Packed(batches', R, T)
  BY <1>3, <1>5, <1>6, RemotePlanned DEF lens
<1>8. /\ batches' \in Seq(Seq(Input)) /\ \A b \in DOMAIN batches' : batches'[b] # <<>>
  BY <1>7 DEF SpreadOver
<1>9. Known'
  BY <1>1, <1>2 DEF Known
<1>10. Count' = Count /\ call' = call /\ config' = config
  BY <1>1 DEF Count
<1>11. Batched'
  BY <1>1, <1>7, <1>8, <1>10 DEF Batched
<1> DEFINE D == DOMAIN batches'
           N == [b \in D |-> Len(batches'[b])]
<1>12. IsFiniteSet(D)
  <2>1. D = 1..Len(batches') /\ Len(batches') \in Nat
    BY <1>8, LenProperties
  <2> HIDE DEF D
  <2> QED
    BY <2>1, FS_Interval
<1>13. worker' \in [D -> {Waiting}] /\ DOMAIN worker' = D
  BY <1>1
<1>14. Worked'
  <2>1. \A b \in D : worker'[b] = Waiting
    BY <1>13
  <2>2. Waiting \in WorkerType(call.side) /\ Waiting.at = "waiting"
    <3>1. 0 \in 0..MaxRetries /\ "waiting" \in WorkerStages /\ \A S : <<>> \in Seq(S)
      BY RequestsAssumption, EmptySequences DEF WorkerStages
    <3> QED
      BY <3>1 DEF Waiting, WorkerType
  <2>3. ASSUME NEW batch PROVE WorkerSound(Waiting, batch, R, T, call.side)
    <3> HIDE DEF R, T
    <3> QED
      BY <2>2 DEF WorkerSound
  <2>4. \A b \in DOMAIN worker' : WorkerSound(worker'[b], batches'[b], config'.max_batch_inputs, config'.max_batch_tokens, call'.side)
    BY <1>10, <1>13, <2>1, <2>3
  <2>5. call'.runtime = "OpenRouter" /\ DOMAIN worker' = DOMAIN batches' /\ at' = "remote"
    BY <1>1, <1>10, <1>13
  <2> QED
    BY <2>4, <2>5 DEF Worked
<1>15. /\ UsedBy' = [b \in D |-> Used(worker'[b], N[b])] /\ ReceivedBy' = [b \in D |-> Len(worker'[b].got)]
       /\ InFlight' = {b \in D : worker'[b].at \in {"sent", "asleep"}}
       /\ Finished' = {b \in D : worker'[b].at = "done"}
  BY <1>13 DEF UsedBy, ReceivedBy, InFlight, Finished
<1> HIDE DEF D, N, R, T
<1>16. /\ SumFunctionOnSet(UsedBy', D) = 0 /\ SumFunctionOnSet(ReceivedBy', D) = 0
       /\ Cardinality(InFlight') = 0 /\ Finished' = {}
  <2>1. \A b \in D : worker'[b] = Waiting /\ Waiting.at = "waiting" /\ Waiting.got = <<>>
    BY <1>13 DEF Waiting
  <2>2. \A b \in D : Used(worker'[b], N[b]) = 0 /\ Len(worker'[b].got) = 0
    BY <2>1, EmptySequences DEF Used
  <2> DEFINE u == UsedBy' r == ReceivedBy'
  <2>3. \A b \in D : u[b] = 0 /\ r[b] = 0
    BY <1>15, <2>2
  <2>4. u = [b \in D |-> u[b]] /\ r = [b \in D |-> r[b]]
    BY <1>15
  <2> HIDE DEF u, r
  <2>5. u \in [D -> Int] /\ r \in [D -> Int]
    BY <2>3, <2>4
  <2>6. SumFunctionOnSet(u, D) = 0 /\ SumFunctionOnSet(r, D) = 0
    BY <1>12, <2>3, <2>5, SumOfNone
  <2>7. InFlight' = {} /\ Finished' = {}
    BY <1>15, <2>1
  <2> QED
    BY <2>6, <2>7, FS_EmptySet DEF u, r
<1>17. DOMAIN UsedBy' = D /\ DOMAIN ReceivedBy' = D
  BY <1>15
<1>18. Collected'
  <2>1. gathered' = <<>> /\ at' = "remote"
    BY <1>1, <1>2
  <2>2. UNION {IndexesOf(batches'[b]) : b \in Finished'} = {}
    BY <1>16
  <2>3. gathered' \in Seq(Entries(call'.side)) /\ OneEach(gathered') /\ IndexesOf(gathered') = {}
    BY <2>1, EmptySequences
  <2> QED
    BY <2>1, <2>2, <2>3 DEF Collected
<1>19. Metered'
  <2>1. stats' = NoStats /\ gathered' = <<>>
    BY <1>1, <1>2
  <2>2. /\ stats'.requests = 0 /\ stats'.failed = 0 /\ stats'.retries = 0 /\ stats'.splits = 0 /\ stats'.vectors = 0
        /\ Len(gathered') = 0
    BY <2>1, NothingCounted, EmptySequences
  <2>3. SumFunctionOnSet(UsedBy', DOMAIN UsedBy') = 0 /\ SumFunctionOnSet(ReceivedBy', DOMAIN ReceivedBy') = 0
    BY <1>16, <1>17
  <2>4. Cardinality(InFlight') <= config'.concurrency
    BY <1>6, <1>10, <1>16
  <2> QED
    BY <2>2, <2>3, <2>4 DEF Metered
<1>20. VectorsBelong'
  BY <1>1 DEF VectorsBelong
<1> QED
  BY <1>9, <1>11, <1>14, <1>18, <1>19, <1>20 DEF CallInv

\* The one batch of a search is its texts.
LEMMA QueriesPlanned ==
  ASSUME NEW lens \in Seq(Nat), Len(lens) > 0
  PROVE  SpreadOver(<<Inputs(lens)>>, Len(lens))
<1> DEFINE n == Len(lens)
           i == Inputs(lens)
           bs == <<i>>
<1>1. EachIn(i, n) /\ n \in Nat /\ n > 0
  BY InputsAreEach, LenProperties
<1> HIDE DEF i, n
<1>2. i \in Seq(Input) /\ Len(i) = n /\ DOMAIN i = 1..n
  BY <1>1, LenProperties DEF EachIn
<1>3. bs \in Seq(Seq(Input)) /\ DOMAIN bs = {1} /\ bs[1] = i /\ i # <<>>
  <2>1. bs \in Seq(Seq(Input)) /\ DOMAIN bs = 1..1 /\ bs[1] = i
    BY <1>2, OneBatch
  <2>2. i # <<>>
    BY <1>1, <1>2, EmptySequences
  <2> QED
    BY <2>1, <2>2
<1> HIDE DEF bs
<1>4. SpreadOver(bs, n)
  <2>1. \A b \in DOMAIN bs : bs[b] = i /\ b = 1
    BY <1>3
  <2>2. /\ \A k \in 1..n : i[k].index \in 0..(n - 1)
        /\ \A j, k \in 1..n : i[j].index = i[k].index => j = k
        /\ \A x \in 0..(n - 1) : \E k \in 1..n : i[k].index = x
    BY <1>1 DEF EachIn
  <2>3. \A b \in DOMAIN bs : bs[b] # <<>>
    BY <1>3, <2>1
  <2>4. \A b \in DOMAIN bs : \A k \in DOMAIN bs[b] : bs[b][k].index \in 0..(n - 1)
    BY <1>2, <2>1, <2>2
  <2>5. \A b, c \in DOMAIN bs : \A j \in DOMAIN bs[b], k \in DOMAIN bs[c] :
          bs[b][j].index = bs[c][k].index => b = c /\ j = k
    BY <1>2, <2>1, <2>2
  <2>6. \A x \in 0..(n - 1) : \E b \in DOMAIN bs : \E k \in DOMAIN bs[b] : bs[b][k].index = x
    <3> SUFFICES ASSUME NEW x \in 0..(n - 1)
                 PROVE  \E b \in DOMAIN bs : \E k \in DOMAIN bs[b] : bs[b][k].index = x
      OBVIOUS
    <3>1. PICK k \in 1..n : i[k].index = x
      BY <2>2
    <3>2. 1 \in DOMAIN bs /\ k \in DOMAIN bs[1] /\ bs[1][k].index = x
      BY <1>2, <1>3, <3>1
    <3> QED
      BY <3>2
  <2> QED
    BY <1>3, <2>3, <2>4, <2>5, <2>6 DEF SpreadOver
<1> QED
  BY <1>4 DEF bs, i, n

\* A local call plans its batches.
LEMMA LocalPlansKeep ==
  ASSUME CallInv, plan_local_batches
  PROVE  CallInv'
<1>1. at = "asked" /\ call.runtime # "OpenRouter" /\ at' = "local" /\ UNCHANGED <<call, config, worker, gathered, answer, stats>>
  BY DEF plan_local_batches
<1>2. Known /\ stats = NoStats /\ gathered = <<>> /\ worker = <<>>
  BY <1>1 DEF CallInv, Known
<1>3. PICK counted \in {call.counter, FALSE} :
        batches' = IF call.side = "Queries" THEN <<Inputs(local_lengths(call.texts, counted))>>
                   ELSE plan_embedding_batches(local_lengths(call.texts, counted),
                                               BatchingPolicy(call.runtime, call.rows, call.tokens))
  BY DEF plan_local_batches
<1>4. /\ counted \in BOOLEAN /\ call.runtime \in Runtimes /\ call.rows \in Nat /\ call.tokens \in Nat
      /\ GpuRows \in Nat \ {0}
  BY <1>2, RequestsAssumption DEF Known
<1> DEFINE lens == local_lengths(call.texts, counted)
<1>5. lens \in Seq(Nat) /\ Len(lens) = Count /\ (call.side = "Queries" => Count > 0)
  BY <1>2, <1>4, LengthsAreNumbers
<1>6. Count' = Count /\ call' = call /\ config' = config
  BY <1>1 DEF Count
<1>7. Batched'
  <2>1. CASE call.side = "Queries"
    <3>1. batches' = <<Inputs(lens)>>
      BY <1>3, <2>1
    <3> HIDE DEF lens
    <3>2. SpreadOver(batches', Count)
      BY <1>5, <2>1, <3>1, QueriesPlanned
    <3>3. Len(batches') <= 1
      BY <3>1
    <3> QED
      BY <1>1, <1>6, <2>1, <3>2, <3>3 DEF Batched, SpreadOver
  <2>2. CASE call.side # "Queries"
    <3>1. batches' = plan_embedding_batches(lens, BatchingPolicy(call.runtime, call.rows, call.tokens))
      BY <1>3, <2>2
    <3> HIDE DEF lens
    <3>2. /\ SpreadOver(batches', Count)
          /\ IF is_fastembed_onnx_gpu(call.runtime) THEN Stacked(batches', GpuRows)
             ELSE Packed(batches', AtLeastOne(call.rows), AtLeastOne(call.tokens))
      BY <1>4, <1>5, <3>1, LocalPlanned
    <3> QED
      BY <1>1, <1>6, <2>2, <3>2 DEF Batched, SpreadOver
  <2> QED
    BY <2>1, <2>2
<1>8. Known'
  BY <1>1, <1>2 DEF Known
<1>9. Worked'
  BY <1>1, <1>2, <1>6 DEF Worked
<1>10. Collected'
  BY <1>1, <1>2, EmptySequences DEF Collected
<1>11. Metered'
  <2>1. UsedBy' = UsedBy /\ InFlight' = InFlight
    BY <1>1, <1>2 DEF UsedBy, InFlight
  <2> QED
    BY <1>1, <1>6, <2>1 DEF CallInv, Metered
<1>12. VectorsBelong'
  BY <1>1 DEF VectorsBelong
<1> QED
  BY <1>7, <1>8, <1>9, <1>10, <1>11, <1>12 DEF CallInv

\* What a session computes of a batch and the check lets through is finite.
LEMMA ComputedBelongs ==
  ASSUME NEW batch \in Seq(Input), NEW side, NEW bad, NEW worse, NEW runtime,
         NEW taken \in guard_finite(runtime, embed_raw(batch, side, bad), embed_raw(batch, side, worse))
  PROVE  /\ AnswerOf(batch, taken) \in Seq(Entries(side))
         /\ \A k \in DOMAIN AnswerOf(batch, taken) : AnswerOf(batch, taken)[k].vector.finite
<1> DEFINE n == Len(batch)
           e == AnswerOf(batch, taken)
<1>1. n \in Nat /\ DOMAIN batch = 1..n /\ \A k \in 1..n : batch[k].index \in Nat
  <2>1. n \in Nat /\ DOMAIN batch = 1..n /\ \A k \in 1..n : batch[k] \in Input
    BY LenProperties, ElementOfSeq
  <2> QED
    BY <2>1 DEF Input
<1> HIDE DEF n
<1>2. /\ AllFinite(taken) /\ taken \in {embed_raw(batch, side, bad), embed_raw(batch, side, worse)}
  BY DEF guard_finite
<1>3. ASSUME NEW k \in 1..n
      PROVE  taken[k].finite /\ \E f \in BOOLEAN : taken[k] = Vector(batch[k].index + 1, side, f)
  <2>1. PICK B : taken = [j \in 1..n |-> Vector(batch[j].index + 1, side, j \notin B)]
    BY <1>1, <1>2 DEF embed_raw
  <2>2. k \in DOMAIN taken /\ taken[k] = Vector(batch[k].index + 1, side, k \notin B)
    BY <2>1
  <2>3. (k \notin B) \in BOOLEAN
    OBVIOUS
  <2> QED
    BY <1>2, <2>2, <2>3 DEF AllFinite
<1>4. e = [k \in 1..n |-> [index |-> batch[k].index, vector |-> taken[k]]]
  BY <1>1 DEF AnswerOf
<1> HIDE DEF e
<1>5. \A k \in 1..n : e[k] \in Entries(side) /\ e[k].vector.finite
  <2> SUFFICES ASSUME NEW k \in 1..n PROVE e[k] \in Entries(side) /\ e[k].vector.finite
    OBVIOUS
  <2>1. PICK f \in BOOLEAN : taken[k] = Vector(batch[k].index + 1, side, f)
    BY <1>3
  <2>2. e[k] = [index |-> batch[k].index, vector |-> Vector(batch[k].index + 1, side, f)] /\ e[k].vector = taken[k]
    BY <1>4, <2>1
  <2>3. \E i \in Nat, g \in BOOLEAN : e[k] = [index |-> i, vector |-> Vector(i + 1, side, g)]
    BY <1>1, <2>2
  <2> QED
    BY <1>3, <2>2, <2>3 DEF Entries
<1>6. e \in [1..n -> Entries(side)] /\ DOMAIN e = 1..n
  BY <1>4, <1>5
<1>7. e \in Seq(Entries(side))
  BY <1>1, <1>6, SeqDef
<1> QED
  BY <1>5, <1>6, <1>7 DEF e

\* A batch is computed, once more if the GPU spoiled it.
LEMMA LocalKeeps ==
  ASSUME CallInv, NEW b \in DOMAIN batches, Local(b)
  PROVE  CallInv'
<1>1. at = "local" /\ at' \in {"local", "failed"} /\ UNCHANGED <<call, config, batches, worker, answer, stats>>
  BY DEF Local
<1>2. Known /\ Batched /\ Worked /\ Collected /\ Metered
  BY DEF CallInv
<1>3. gathered \in Seq(Entries(call.side)) /\ \A k \in DOMAIN gathered : gathered[k].vector.finite
  BY <1>1, <1>2 DEF Collected
<1>4. batches[b] \in Seq(Input)
  <2>1. batches \in Seq(Seq(Input))
    BY <1>2 DEF Batched
  <2>2. DOMAIN batches = 1..Len(batches)
    BY <2>1, LenProperties
  <2> QED
    BY <2>1, <2>2, ElementOfSeq
<1>5. gathered' \in Seq(Entries(call.side)) /\ \A k \in DOMAIN gathered' : gathered'[k].vector.finite
  <2>1. CASE UNCHANGED gathered
    BY <1>3, <2>1
  <2>2. CASE ~ UNCHANGED gathered
    <3> DEFINE G(bad, worse) == guard_finite(call.runtime, embed_raw(batches[b], call.side, bad),
                                             embed_raw(batches[b], call.side, worse))
    <3>1. PICK bad, worse \in SUBSET DOMAIN batches[b] :
            \E taken \in G(bad, worse) : gathered' = gathered \o AnswerOf(batches[b], taken)
      BY <2>2 DEF Local, AnswerOf
    <3>2. PICK taken \in G(bad, worse) : gathered' = gathered \o AnswerOf(batches[b], taken)
      BY <3>1
    <3> DEFINE e == AnswerOf(batches[b], taken)
    <3>3. e \in Seq(Entries(call.side)) /\ \A k \in DOMAIN e : e[k].vector.finite
      BY <1>4, ComputedBelongs
    <3>4. gathered' = gathered \o e
      BY <3>2
    <3> HIDE DEF e
    <3> DEFINE m == Len(gathered) p == Len(e)
    <3>5. /\ gathered' \in Seq(Entries(call.side)) /\ Len(gathered') = m + p
          /\ \A k \in 1..(m + p) : gathered'[k] = IF k <= m THEN gathered[k] ELSE e[k - m]
      BY <1>3, <3>3, <3>4, ConcatProperties
    <3>6. m \in Nat /\ p \in Nat /\ DOMAIN gathered = 1..m /\ DOMAIN e = 1..p /\ DOMAIN gathered' = 1..Len(gathered')
      BY <1>3, <3>3, <3>5, LenProperties
    <3> HIDE DEF m, p
    <3>7. \A k \in DOMAIN gathered' : gathered'[k].vector.finite
      <4> SUFFICES ASSUME NEW k \in 1..(m + p) PROVE gathered'[k].vector.finite
        BY <3>5, <3>6
      <4>1. CASE k <= m
        <5>1. k \in 1..m
          BY <3>6, <4>1
        <5> QED
          BY <1>3, <3>5, <3>6, <4>1, <5>1
      <4>2. CASE ~ (k <= m)
        <5>1. k - m \in 1..p
          BY <3>6, <4>2
        <5> QED
          BY <3>3, <3>5, <3>6, <4>2, <5>1
      <4> QED
        BY <4>1, <4>2
    <3> QED
      BY <3>5, <3>7
  <2> QED
    BY <2>1, <2>2
<1>6. Known'
  BY <1>1, <1>2 DEF Known
<1>7. Batched'
  <2>1. Count' = Count
    BY <1>1 DEF Count
  <2> QED
    BY <1>1, <1>2, <2>1 DEF Batched
<1>8. Worked'
  BY <1>1, <1>2 DEF Worked
<1>9. Collected'
  BY <1>1, <1>5 DEF Collected
<1>10. UsedBy' = UsedBy /\ InFlight' = InFlight
  BY <1>1 DEF UsedBy, InFlight
<1>11. Metered'
  BY <1>1, <1>2, <1>10 DEF Metered
<1>12. VectorsBelong'
  BY <1>1 DEF VectorsBelong
<1> QED
  BY <1>6, <1>7, <1>8, <1>9, <1>11, <1>12 DEF CallInv

-----------------------------------------------------------------------------
(* What the invariant says of the properties.                              *)

\* What a worker has to answer for: nothing once its vectors have joined the call's.
Share(b) == IF worker[b].at = "done" THEN {} ELSE IndexesOf(batches[b])
\* The shelves of a worker divide what it has to answer for.
LEMMA SharesDivide ==
  ASSUME CallInv, at = "remote", NEW b \in DOMAIN worker
  PROVE  /\ AskedFor(b) \in Seq(Seq(Input)) /\ b \in DOMAIN batches
         /\ Divides(AskedFor(b), worker[b].got, Share(b))
<1>1. WorkerFacts(b)
  BY WorkerOf
<1> DEFINE w == worker[b]
           batch == batches[b]
<1>2. WorkerSound(w, batch, config.max_batch_inputs, config.max_batch_tokens, call.side)
      /\ w \in WorkerType(call.side) /\ batch \in Seq(Input) /\ OneEach(batch) /\ b \in DOMAIN batches
  BY <1>1 DEF WorkerFacts
<1>3. AskedFor(b) = (IF w.at = "waiting" THEN <<batch>> ELSE w.pending)
      /\ Share(b) = (IF w.at = "done" THEN {} ELSE IndexesOf(batch))
  BY DEF AskedFor, Share
<1> HIDE DEF w, batch
<1>4. CASE w.at = "waiting"
  <2>1. w.got = <<>>
    BY <1>2, <1>4 DEF WorkerSound, Waiting
  <2>2. <<batch>> \in Seq(Seq(Input)) /\ Divides(<<batch>>, <<>>, IndexesOf(batch))
    BY <1>2, OneBatch
  <2> QED
    BY <1>2, <1>3, <1>4, <2>1, <2>2 DEF w
<1>5. CASE w.at = "done"
  <2>1. w.got = <<>> /\ w.pending = <<>>
    BY <1>2, <1>5 DEF WorkerSound
  <2>2. Divides(<<>>, <<>>, {}) /\ <<>> \in Seq(Seq(Input))
    BY EmptySequences DEF Divides
  <2> QED
    BY <1>2, <1>3, <1>5, <2>1, <2>2 DEF w
<1>6. CASE w.at \in {"sent", "asleep"}
  <2>1. Divides(w.pending, w.got, IndexesOf(batch)) /\ w.pending \in Seq(Seq(Input))
    BY <1>2, <1>6 DEF WorkerSound, WorkerType
  <2> QED
    BY <1>2, <1>3, <1>6, <2>1 DEF w
<1> QED
  BY <1>2, <1>4, <1>5, <1>6 DEF WorkerType, WorkerStages

\* Where a text may be: with the vectors of the call, or on a shelf of a worker.
Shelf(b, j) == IF j = 0 THEN worker[b].got ELSE AskedFor(b)[j]
\* The shelves are these.
LEMMA ShelvesAre ==
  ASSUME CallInv, at = "remote"
  PROVE  /\ <<0, 0>> \in Shelves /\ ShelvedAt(<<0, 0>>) = gathered
         /\ \A b \in DOMAIN worker : \A j \in 0..Len(AskedFor(b)) : <<b, j>> \in Shelves /\ ShelvedAt(<<b, j>>) = Shelf(b, j)
         /\ \A p \in Shelves : p = <<0, 0>> \/ \E b \in DOMAIN worker : \E j \in 0..Len(AskedFor(b)) : p = <<b, j>>
<1>1. <<0, 0>> \in Shelves /\ ShelvedAt(<<0, 0>>) = gathered
  BY DEF Shelves, ShelvedAt
<1>2. \A b \in DOMAIN worker : b # 0
  <2>1. DOMAIN worker = DOMAIN batches /\ batches \in Seq(Seq(Input))
    BY DEF CallInv, Worked, Batched
  <2>2. DOMAIN batches = 1..Len(batches)
    BY <2>1, LenProperties
  <2> QED
    BY <2>1, <2>2
<1>3. ASSUME NEW b \in DOMAIN worker, NEW j \in 0..Len(AskedFor(b))
      PROVE  <<b, j>> \in Shelves /\ ShelvedAt(<<b, j>>) = Shelf(b, j)
  BY <1>2, <1>3 DEF Shelves, ShelvedAt, Shelf
<1>4. ASSUME NEW p \in Shelves, p # <<0, 0>>
      PROVE  \E b \in DOMAIN worker : \E j \in 0..Len(AskedFor(b)) : p = <<b, j>>
  BY <1>4 DEF Shelves
<1> QED
  BY <1>1, <1>3, <1>4

\* A text on a shelf of a worker is one of its batch.
LEMMA ShelfIsOf ==
  ASSUME CallInv, at = "remote", NEW b \in DOMAIN worker, NEW j \in 0..Len(AskedFor(b))
  PROVE  /\ OneEach(Shelf(b, j)) /\ IndexesOf(Shelf(b, j)) \subseteq Share(b)
         /\ \A k \in 0..Len(AskedFor(b)) : j # k => IndexesOf(Shelf(b, j)) \cap IndexesOf(Shelf(b, k)) = {}
<1> DEFINE l == AskedFor(b) g == worker[b].got
           n == Len(l)
<1>1. l \in Seq(Seq(Input)) /\ Divides(l, g, Share(b))
  BY SharesDivide
<1>2. \A k : Shelf(b, k) = IF k = 0 THEN g ELSE l[k]
  BY DEF Shelf
<1> HIDE DEF l, g
<1>3. DOMAIN l = 1..n /\ n \in Nat
  BY <1>1, LenProperties
<1>4. j \in 0..n
  BY DEF l
<1> HIDE DEF n
<1>5. /\ OneEach(g) /\ IndexesOf(g) \subseteq Share(b)
      /\ \A k \in 1..n : OneEach(l[k]) /\ IndexesOf(l[k]) \subseteq Share(b) /\ IndexesOf(g) \cap IndexesOf(l[k]) = {}
      /\ \A i, k \in 1..n : i # k => IndexesOf(l[i]) \cap IndexesOf(l[k]) = {}
  BY <1>1, <1>3 DEF Divides
<1>6. \A k \in 0..n : k # 0 => k \in 1..n
  BY <1>3
<1>7. OneEach(Shelf(b, j)) /\ IndexesOf(Shelf(b, j)) \subseteq Share(b)
  BY <1>2, <1>4, <1>5, <1>6
<1>8. ASSUME NEW k \in 0..n, j # k PROVE IndexesOf(Shelf(b, j)) \cap IndexesOf(Shelf(b, k)) = {}
  <2>1. CASE j = 0
    BY <1>2, <1>5, <1>6, <1>8, <2>1
  <2>2. CASE k = 0
    BY <1>2, <1>4, <1>5, <1>6, <1>8, <2>2
  <2>3. CASE j # 0 /\ k # 0
    BY <1>2, <1>4, <1>5, <1>6, <1>8, <2>3
  <2> QED
    BY <2>1, <2>2, <2>3
<1> QED
  BY <1>7, <1>8 DEF n, l

\* The invariant keeps every text once.
LEMMA TextsOnce ==
  ASSUME CallInv
  PROVE  EachTextOnce
<1> SUFFICES ASSUME at = "remote"
             PROVE  /\ \A p \in Shelves : OneEach(ShelvedAt(p))
                    /\ \A p, o \in Shelves : p # o => IndexesOf(ShelvedAt(p)) \cap IndexesOf(ShelvedAt(o)) = {}
                    /\ UNION {IndexesOf(ShelvedAt(p)) : p \in Shelves} = 0..(Count - 1)
  BY DEF EachTextOnce
<1>1. /\ OneEach(gathered) /\ IndexesOf(gathered) = UNION {IndexesOf(batches[c]) : c \in Finished}
      /\ SpreadOver(batches, Count) /\ DOMAIN worker = DOMAIN batches
      /\ Finished = {b \in DOMAIN worker : worker[b].at = "done"}
  BY DEF CallInv, Collected, Batched, Worked, Finished
<1>2. \A b \in DOMAIN worker : Share(b) \subseteq IndexesOf(batches[b]) /\ (b \in Finished => Share(b) = {})
                               /\ (b \notin Finished => Share(b) = IndexesOf(batches[b]))
  BY <1>1 DEF Share
<1>3. \A b, c \in DOMAIN worker : b # c => IndexesOf(batches[b]) \cap IndexesOf(batches[c]) = {}
  BY <1>1, SpreadApart
<1>4. \A b \in DOMAIN worker : IndexesOf(gathered) \cap Share(b) = {}
  <2> SUFFICES ASSUME NEW b \in DOMAIN worker, NEW i \in IndexesOf(gathered), i \in Share(b) PROVE FALSE
    OBVIOUS
  <2>1. PICK c \in Finished : i \in IndexesOf(batches[c])
    BY <1>1
  <2>2. c \in DOMAIN worker /\ b \notin Finished /\ c # b
    BY <1>1, <1>2
  <2> QED
    BY <1>2, <1>3, <2>1, <2>2
<1>5. \A b, c \in DOMAIN worker : b # c => Share(b) \cap Share(c) = {}
  BY <1>2, <1>3
<1>6. \A b \in DOMAIN worker : \A j \in 0..Len(AskedFor(b)) :
        /\ OneEach(Shelf(b, j)) /\ IndexesOf(Shelf(b, j)) \subseteq Share(b)
        /\ \A k \in 0..Len(AskedFor(b)) : j # k => IndexesOf(Shelf(b, j)) \cap IndexesOf(Shelf(b, k)) = {}
  BY ShelfIsOf
<1>7. \A p \in Shelves : \/ ShelvedAt(p) = gathered /\ p = <<0, 0>>
                         \/ \E b \in DOMAIN worker : \E j \in 0..Len(AskedFor(b)) : p = <<b, j>> /\ ShelvedAt(p) = Shelf(b, j)
  BY ShelvesAre
<1>8. ASSUME NEW p \in Shelves PROVE OneEach(ShelvedAt(p))
  BY <1>1, <1>6, <1>7
<1>9. ASSUME NEW p \in Shelves, NEW o \in Shelves, p # o
      PROVE  IndexesOf(ShelvedAt(p)) \cap IndexesOf(ShelvedAt(o)) = {}
  <2>1. CASE p = <<0, 0>> /\ o # <<0, 0>>
    <3>1. PICK b \in DOMAIN worker : \E j \in 0..Len(AskedFor(b)) : ShelvedAt(o) = Shelf(b, j)
      BY <1>7, <2>1
    <3>2. IndexesOf(ShelvedAt(o)) \subseteq Share(b) /\ ShelvedAt(p) = gathered
      BY <1>6, <2>1, <3>1, ShelvesAre
    <3> QED
      BY <1>4, <3>2
  <2>2. CASE o = <<0, 0>> /\ p # <<0, 0>>
    <3>1. PICK b \in DOMAIN worker : \E j \in 0..Len(AskedFor(b)) : ShelvedAt(p) = Shelf(b, j)
      BY <1>7, <2>2
    <3>2. IndexesOf(ShelvedAt(p)) \subseteq Share(b) /\ ShelvedAt(o) = gathered
      BY <1>6, <2>2, <3>1, ShelvesAre
    <3> QED
      BY <1>4, <3>2
  <2>3. CASE p # <<0, 0>> /\ o # <<0, 0>>
    <3>1a. PICK b \in DOMAIN worker :
             \E j \in 0..Len(AskedFor(b)) : p = <<b, j>> /\ ShelvedAt(p) = Shelf(b, j)
      BY <1>7, <2>3
    <3>1. PICK j \in 0..Len(AskedFor(b)) : p = <<b, j>> /\ ShelvedAt(p) = Shelf(b, j)
      BY <3>1a
    <3>2a. PICK c \in DOMAIN worker :
             \E k \in 0..Len(AskedFor(c)) : o = <<c, k>> /\ ShelvedAt(o) = Shelf(c, k)
      BY <1>7, <2>3
    <3>2. PICK k \in 0..Len(AskedFor(c)) : o = <<c, k>> /\ ShelvedAt(o) = Shelf(c, k)
      BY <3>2a
    <3>3. CASE b = c
      <4>1. j # k
        BY <1>9, <3>1, <3>2, <3>3
      <4> QED
        BY <1>6, <3>1, <3>2, <3>3, <4>1
    <3>4. CASE b # c
      <4>1. IndexesOf(ShelvedAt(p)) \subseteq Share(b) /\ IndexesOf(ShelvedAt(o)) \subseteq Share(c)
        BY <1>6, <3>1, <3>2
      <4> QED
        BY <1>5, <3>4, <4>1
    <3> QED
      BY <3>3, <3>4
  <2> QED
    BY <1>9, <2>1, <2>2, <2>3
<1>10. UNION {IndexesOf(ShelvedAt(p)) : p \in Shelves} = 0..(Count - 1)
  <2>1. \A b \in DOMAIN worker : IndexesOf(batches[b]) \subseteq 0..(Count - 1)
    BY <1>1 DEF SpreadOver, IndexesOf
  <2>2. ASSUME NEW p \in Shelves PROVE IndexesOf(ShelvedAt(p)) \subseteq 0..(Count - 1)
    <3>1. CASE p = <<0, 0>>
      <4>1. IndexesOf(gathered) \subseteq 0..(Count - 1)
        BY <1>1, <2>1
      <4> QED
        BY <3>1, <4>1, ShelvesAre
    <3>2. CASE p # <<0, 0>>
      <4>1. PICK b \in DOMAIN worker : \E j \in 0..Len(AskedFor(b)) : ShelvedAt(p) = Shelf(b, j)
        BY <1>7, <3>2
      <4>2. IndexesOf(ShelvedAt(p)) \subseteq Share(b)
        BY <1>6, <4>1
      <4> QED
        BY <1>2, <2>1, <4>2
    <3> QED
      BY <3>1, <3>2
  <2>3. ASSUME NEW i \in 0..(Count - 1) PROVE \E p \in Shelves : i \in IndexesOf(ShelvedAt(p))
    <3>1. PICK b \in DOMAIN batches : i \in IndexesOf(batches[b])
      BY <1>1 DEF SpreadOver, IndexesOf
    <3>2. CASE b \in Finished
      <4>1. i \in IndexesOf(gathered)
        BY <1>1, <3>1, <3>2
      <4> QED
        BY <4>1, ShelvesAre
    <3>3. CASE b \notin Finished
      <4> DEFINE l == AskedFor(b)
      <4>1. b \in DOMAIN worker /\ i \in Share(b)
        BY <1>1, <1>2, <3>1, <3>3
      <4>2. l \in Seq(Seq(Input)) /\ Divides(l, worker[b].got, Share(b))
        BY <4>1, SharesDivide
      <4>3. \A j \in 0..Len(l) : <<b, j>> \in Shelves /\ ShelvedAt(<<b, j>>) = (IF j = 0 THEN worker[b].got ELSE l[j])
        BY <4>1, ShelvesAre DEF Shelf
      <4> HIDE DEF l
      <4>4. DOMAIN l = 1..Len(l) /\ Len(l) \in Nat
        BY <4>2, LenProperties
      <4>5. CASE i \in IndexesOf(worker[b].got)
        <5>1. 0 \in 0..Len(l)
          BY <4>4
        <5> QED
          BY <4>3, <4>5, <5>1
      <4>6. CASE i \notin IndexesOf(worker[b].got)
        <5>1. PICK j \in DOMAIN l : i \in IndexesOf(l[j])
          BY <4>1, <4>2, <4>6 DEF Divides
        <5>2. j \in 0..Len(l) /\ j # 0
          BY <4>4, <5>1
        <5> QED
          BY <4>3, <5>1, <5>2
      <4> QED
        BY <4>5, <4>6
    <3> QED
      BY <3>2, <3>3
  <2> QED
    BY <2>2, <2>3
<1> QED
  BY <1>8, <1>9, <1>10

\* The invariant keeps the batches within the settings.
LEMMA BatchesAreAllowed ==
  ASSUME CallInv
  PROVE  BatchesFit
<1>1. Known /\ Batched /\ Worked
  BY DEF CallInv
<1>2. config.max_batch_inputs \in 1..3 /\ config.max_batch_tokens \in 1..6 /\ config.concurrency \in 1..3
  BY <1>1, SettingsInBounds
<1>3. batches \in Seq(Seq(Input)) /\ \A b \in DOMAIN batches : batches[b] # <<>>
  BY <1>1 DEF Batched
<1>4. DOMAIN batches = 1..Len(batches) /\ Len(batches) \in Nat
  BY <1>3, LenProperties
<1>5. \A b \in DOMAIN batches : batches[b] \in Seq(Input)
  BY <1>3, <1>4, ElementOfSeq
<1>6. is_fastembed_onnx_gpu(call.runtime) => call.runtime # "OpenRouter"
  BY DEF is_fastembed_onnx_gpu
<1>7. ASSUME NEW b \in DOMAIN batches, call.side = "Documents" PROVE Allowed(batches[b])
  BY <1>1, <1>6, <1>7 DEF Batched, Packed, Stacked, Allowed
<1>8. ASSUME NEW b \in DOMAIN batches, b > 1 PROVE ~ Allowed(Append(batches[b - 1], Head(batches[b])))
  <2>1. CASE call.runtime # "OpenRouter" /\ call.side = "Queries"
    <3>1. Len(batches) <= 1
      BY <1>1, <2>1 DEF Batched
    <3> QED
      BY <1>4, <1>8, <3>1
  <2>2. CASE is_fastembed_onnx_gpu(call.runtime) /\ call.side # "Queries"
    <3> DEFINE last == batches[b - 1] next == Head(batches[b])
    <3>1. b - 1 \in DOMAIN batches
      BY <1>4, <1>8
    <3>2. last \in Seq(Input) /\ batches[b] \in Seq(Input) /\ batches[b] # <<>>
      BY <1>3, <1>5, <3>1
    <3>3. next \in Input
      BY <3>2, HeadTailProperties
    <3>4. Len(last) = GpuRows
      BY <1>1, <1>6, <1>8, <2>2 DEF Batched, Stacked
    <3> HIDE DEF last, next
    <3>5. Len(Append(last, next)) = Len(last) + 1 /\ Len(last) \in Nat
      BY <3>2, <3>3, AppendProperties, LenProperties
    <3>6. ~ (Len(Append(last, next)) <= GpuRows)
      BY <3>4, <3>5
    <3> QED
      BY <1>6, <2>2, <3>6 DEF Allowed, last, next
  <2>3. CASE \/ call.runtime = "OpenRouter"
             \/ call.runtime # "OpenRouter" /\ call.side # "Queries" /\ ~ is_fastembed_onnx_gpu(call.runtime)
    BY <1>1, <1>6, <1>8, <2>3 DEF Batched, Packed, Allowed
  <2> QED
    BY <2>1, <2>2, <2>3
<1>9. ASSUME NEW b \in InFlight PROVE Allowed(Head(worker[b].pending))
  <2>1. b \in DOMAIN worker /\ worker[b].at \in {"sent", "asleep"} /\ worker # <<>>
    BY DEF InFlight
  <2>2. call.runtime = "OpenRouter"
    BY <1>1, <2>1 DEF Worked
  <2> DEFINE l == worker[b].pending
  <2>3. /\ l \in Seq(Seq(Input)) /\ l # <<>>
        /\ \A j \in DOMAIN l : Fits(l[j], config.max_batch_inputs, config.max_batch_tokens)
    <3>1. WorkerSound(worker[b], batches[b], config.max_batch_inputs, config.max_batch_tokens, call.side)
      BY <1>1, <2>1 DEF Worked
    <3> QED
      BY <2>1, <3>1 DEF WorkerSound, WorkerType
  <2> HIDE DEF l
  <2>4. DOMAIN l = 1..Len(l) /\ Len(l) \in Nat /\ Len(l) > 0 /\ Head(l) = l[1]
    BY <2>3, LenProperties
  <2>5. Fits(Head(l), config.max_batch_inputs, config.max_batch_tokens)
    BY <2>3, <2>4
  <2> QED
    BY <2>2, <2>5 DEF Allowed, l
<1> QED
  BY <1>2, <1>3, <1>7, <1>8, <1>9 DEF BatchesFit

\* What is asked for on the way is within what all the retries and splits allow.
LEMMA WayIsBounded ==
  ASSUME NEW M \in Nat, NEW G \in Nat, NEW P \in Nat, P > 0, NEW a \in Nat, a < M, NEW n \in Nat, G + P <= n
  PROVE  M * (2 * G + P - 1) + a + 1 <= M * (2 * n - 1)
<1> DEFINE x == M * (2 * G + P - 1) d == (2 * n - 1) - (2 * G + P - 1) y == M * d
<1>1. M * (2 * n - 1) = x + y /\ x \in Int /\ y \in Int
  BY SMTT(30)
<1>2. d >= 1 /\ d \in Int
  OBVIOUS
<1>3. y >= M
  <2> HIDE DEF d
  <2> QED
    BY <1>2, SMTT(30)
<1> HIDE DEF x, y
<1>4. x + a + 1 <= x + y
  BY <1>1, <1>3
<1> QED
  BY <1>1, <1>4 DEF x

\* What a worker used is within what retries and splits allow.
LEMMA WorkersAskEnough ==
  ASSUME CallInv, NEW b \in DOMAIN worker
  PROVE  /\ Used(worker[b], Len(batches[b])) \in Int /\ Len(batches[b]) \in Nat
         /\ Used(worker[b], Len(batches[b])) <= (MaxRetries + 1) * (2 * Len(batches[b]) - 1)
         /\ worker[b].attempt \in 0..MaxRetries
<1> DEFINE w == worker[b] batch == batches[b] n == Len(batch) M == MaxRetries + 1
           l == w.pending g == w.got a == w.attempt
<1>1. Known /\ Batched /\ Worked
  BY DEF CallInv
<1>2. WorkerSound(w, batch, config.max_batch_inputs, config.max_batch_tokens, call.side)
      /\ w \in WorkerType(call.side)
  BY <1>1 DEF Worked, WorkerSound
<1>3. b \in DOMAIN batches /\ batches # <<>>
  BY <1>1 DEF Worked
<1>4. batches \in Seq(Seq(Input)) /\ batch # <<>> /\ SpreadOver(batches, Count)
  BY <1>1, <1>3 DEF Batched
<1>5. batch \in Seq(Input)
  <2>1. DOMAIN batches = 1..Len(batches)
    BY <1>4, LenProperties
  <2> QED
    BY <1>3, <1>4, <2>1, ElementOfSeq
<1>6. OneEach(batch)
  BY <1>3, <1>4 DEF SpreadOver, OneEach
<1>7. n \in Nat /\ n > 0 /\ M \in Nat /\ M > 0 /\ MaxRetries \in Nat
  <2> HIDE DEF batch
  <2>1. n \in Nat /\ n > 0
    BY <1>4, <1>5, LenProperties
  <2> QED
    BY <2>1, RequestsAssumption
<1> HIDE DEF batch, w, n
<1>8. Used(w, n) \in Int /\ a \in 0..MaxRetries
  BY <1>2, <1>7, UsedIsANumber
<1>9. Used(w, n) <= M * (2 * n - 1)
  <2>1. CASE w.at = "waiting"
    <3>1. Used(w, n) = 0
      BY <2>1 DEF Used
    <3>2. 2 * n - 1 \in Nat
      BY <1>7
    <3> DEFINE k == 2 * n - 1
    <3>3. k \in Nat
      BY <3>2
    <3> HIDE DEF M, k
    <3>4. 0 <= M * k
      BY <1>7, <3>3, SMTT(30)
    <3> QED
      BY <3>1, <3>4 DEF k
  <2>2. CASE w.at = "done"
    <3>1. Used(w, n) = M * (2 * n - 1)
      BY <2>2 DEF Used
    <3>2. M * (2 * n - 1) \in Int
      BY <1>7
    <3> QED
      BY <3>1, <3>2
  <2>3. CASE w.at \in {"sent", "asleep"}
    <3>1. /\ l \in Seq(Seq(Input)) /\ l # <<>> /\ g \in Seq(Entries(call.side))
          /\ Divides(l, g, IndexesOf(batch)) /\ \A j \in DOMAIN l : l[j] # <<>>
      BY <1>2, <2>3 DEF WorkerSound, WorkerType
    <3>2. Used(w, n) = M * (2 * Len(g) + Len(l) - 1) + a + 1
      BY <2>3 DEF Used
    <3> HIDE DEF l, g, a, M
    <3>3. Len(g) + Len(l) <= n
      BY <1>5, <1>6, <3>1, SharesAreFew DEF n
    <3>4. Len(g) \in Nat /\ Len(l) \in Nat /\ Len(l) > 0
      BY <3>1, LenProperties
    <3>5. a \in Nat /\ a < M
      BY <1>7, <1>8 DEF M
    <3>6. M * (2 * Len(g) + Len(l) - 1) + a + 1 <= M * (2 * n - 1)
      BY <1>7, <3>3, <3>4, <3>5, WayIsBounded
    <3> QED
      BY <3>2, <3>6
  <2> QED
    BY <1>2, <2>1, <2>2, <2>3 DEF WorkerType, WorkerStages
<1> QED
  BY <1>7, <1>8, <1>9 DEF w, n, batch

\* The invariant bounds the requests and adds up the metrics.
LEMMA RequestsAreBounded ==
  ASSUME CallInv
  PROVE  RequestsBounded
<1> DEFINE D == DOMAIN worker
           u == UsedBy
           t == [b \in DOMAIN worker |-> (MaxRetries + 1) * (2 * Len(batches[b]) - 1)]
           U == SumFunctionOnSet(u, D)
           T == SumFunctionOnSet(t, D)
           r == stats.requests
<1>1. Known /\ Batched /\ Worked /\ Metered
  BY DEF CallInv
<1>2. IsFiniteSet(D)
  BY <1>1, WorkersAreMany
<1>3. \A b \in D : /\ Used(worker[b], Len(batches[b])) \in Int /\ Len(batches[b]) \in Nat
                   /\ Used(worker[b], Len(batches[b])) <= (MaxRetries + 1) * (2 * Len(batches[b]) - 1)
                   /\ worker[b].attempt \in 0..MaxRetries
  BY WorkersAskEnough
<1>4. u = [b \in D |-> Used(worker[b], Len(batches[b]))]
  BY DEF UsedBy
<1>5. \A b \in D : u[b] = Used(worker[b], Len(batches[b])) /\ t[b] = (MaxRetries + 1) * (2 * Len(batches[b]) - 1)
  BY <1>4
<1>6. DOMAIN u = D /\ DOMAIN t = D /\ u = [b \in D |-> u[b]] /\ t = [b \in D |-> t[b]]
  BY <1>4
<1>7. \A b \in D : u[b] \in Int /\ t[b] \in Int /\ u[b] <= t[b]
  <2> SUFFICES ASSUME NEW b \in D PROVE u[b] \in Int /\ t[b] \in Int /\ u[b] <= t[b]
    OBVIOUS
  <2> DEFINE n == Len(batches[b])
  <2>1. u[b] \in Int /\ u[b] <= t[b] /\ n \in Nat
    BY <1>3, <1>5
  <2>2. t[b] = (MaxRetries + 1) * (2 * n - 1)
    BY <1>5
  <2> HIDE DEF n, t
  <2>3. t[b] \in Int
    BY <2>1, <2>2, RequestsAssumption
  <2> QED
    BY <2>1, <2>3
<1> HIDE DEF u, t, D
<1>8. u \in [D -> Int] /\ t \in [D -> Int]
  BY <1>6, <1>7
<1>9. U \in Int /\ T \in Int /\ U <= T
  BY <1>2, <1>7, <1>8, SumGrows
<1>10. r <= U /\ r \in Nat
  BY <1>1, <1>6 DEF Metered, Known, Meters, u
<1>11. r <= T
  <2> HIDE DEF r, U, T
  <2> QED
    BY <1>9, <1>10
<1>12. stats.requests <= SumFunctionOnSet(t, DOMAIN t)
  BY <1>6, <1>11
<1>13. \A b \in DOMAIN worker : worker[b].attempt <= MaxRetries
  BY <1>3 DEF D
<1>14. /\ Cardinality(InFlight) <= config.concurrency
       /\ at = "remote" => /\ stats.failed = stats.retries + stats.splits
                           /\ stats.vectors = Len(gathered) + SumFunctionOnSet(ReceivedBy, DOMAIN ReceivedBy)
  BY <1>1 DEF Metered
<1> QED
  BY <1>12, <1>13, <1>14 DEF RequestsBounded, t, ReceivedBy

-----------------------------------------------------------------------------
(* Padding.                                                                *)

\* A sum over texts is at most what the batches that hold them are charged.
OfBatch(s, G, b) == {x \in s : G[x] = b}
\* By taking one text after the other.
LEMMA ChargedByBatch ==
  ASSUME NEW S, IsFiniteSet(S), NEW f \in [S -> Int], NEW B, IsFiniteSet(B), NEW G \in [S -> B],
         NEW L \in [B -> Nat], NEW p \in [B -> Int], \A x \in S : f[x] <= L[G[x]],
         \A b \in B : L[b] * Cardinality(OfBatch(S, G, b)) <= p[b]
  PROVE  SumFunctionOnSet(f, S) <= SumFunctionOnSet(p, B)
<1> DEFINE D(s) == [b \in B |-> L[b] * Cardinality(OfBatch(s, G, b))]
           d == [s \in SUBSET S |-> SumFunctionOnSet(D(s), B)]
           X == SumFunctionOnSet(f, S)
           Y == SumFunctionOnSet(D(S), B)
           Z == SumFunctionOnSet(p, B)
<1>1. ASSUME NEW s \in SUBSET S, NEW b \in B
      PROVE  /\ IsFiniteSet(OfBatch(s, G, b)) /\ Cardinality(OfBatch(s, G, b)) \in Nat
             /\ L[b] * Cardinality(OfBatch(s, G, b)) \in Nat
  <2>1. OfBatch(s, G, b) \in SUBSET S
    BY DEF OfBatch
  <2>2. IsFiniteSet(OfBatch(s, G, b))
    BY <2>1, FS_Subset
  <2>3. Cardinality(OfBatch(s, G, b)) \in Nat
    BY <2>2, FS_CardinalityType
  <2> DEFINE u == Cardinality(OfBatch(s, G, b))
             v == L[b]
  <2>4. u \in Nat /\ v \in Nat
    BY <2>3
  <2> HIDE DEF u, v
  <2>5. v * u \in Nat
    BY <2>4, SMTT(30)
  <2> QED
    BY <2>2, <2>3, <2>5 DEF u, v
<1>2. \A s \in SUBSET S : D(s) \in [B -> Int] /\ \A b \in B : D(s)[b] = L[b] * Cardinality(OfBatch(s, G, b))
  BY <1>1
<1> HIDE DEF D
<1>3. \A s \in SUBSET S : SumFunctionOnSet(D(s), B) \in Int
  <2> SUFFICES ASSUME NEW s \in SUBSET S PROVE SumFunctionOnSet(D(s), B) \in Int
    OBVIOUS
  <2>1. D(s) \in [B -> Int]
    BY <1>2
  <2>2. \A b \in B : D(s)[b] <= D(s)[b]
    BY <2>1
  <2> QED
    BY <2>1, <2>2, SumGrows
<1>4. d \in [SUBSET S -> Int] /\ d[S] = Y /\ \A s \in SUBSET S : d[s] = SumFunctionOnSet(D(s), B)
  BY <1>3
<1> HIDE DEF d
<1>5. d[{}] = 0
  <2>1. {} \in SUBSET S
    OBVIOUS
  <2>2. \A b \in B : D({})[b] = 0
    <3> SUFFICES ASSUME NEW b \in B PROVE D({})[b] = 0
      OBVIOUS
    <3>1. OfBatch({}, G, b) = {}
      BY DEF OfBatch
    <3>2. D({})[b] = L[b] * 0
      BY <1>2, <2>1, <3>1, FS_EmptySet
    <3>3. L[b] \in Nat
      OBVIOUS
    <3> QED
      BY <3>2, <3>3
  <2>3. D({}) \in [B -> Int]
    BY <1>2, <2>1
  <2>4. SumFunctionOnSet(D({}), B) = 0
    BY <2>2, <2>3, SumOfNone
  <2> QED
    BY <1>4, <2>1, <2>4
<1>6. ASSUME NEW s \in SUBSET S, NEW x \in s PROVE f[x] + d[s \ {x}] <= d[s]
  <2> DEFINE r == s \ {x}
             c == G[x]
             more == D(s)
             less == D(r)
  <2>1. x \in S /\ r \in SUBSET S /\ c \in B /\ f[x] \in Int /\ f[x] <= L[c] /\ L[c] \in Nat
    OBVIOUS
  <2>2. more \in [B -> Int] /\ less \in [B -> Int]
    BY <1>2, <2>1
  <2>3. \A b \in B : b # c => more[b] = less[b]
    <3> SUFFICES ASSUME NEW b \in B, b # c PROVE more[b] = less[b]
      OBVIOUS
    <3>1. OfBatch(s, G, b) = OfBatch(r, G, b)
      BY DEF OfBatch
    <3> QED
      BY <1>2, <2>1, <3>1
  <2>4. more[c] = less[c] + L[c]
    <3> DEFINE u == Cardinality(OfBatch(r, G, c))
               v == L[c]
    <3>1. OfBatch(s, G, c) = OfBatch(r, G, c) \cup {x} /\ x \notin OfBatch(r, G, c)
      BY DEF OfBatch
    <3>2. IsFiniteSet(OfBatch(r, G, c)) /\ u \in Nat
      BY <1>1, <2>1
    <3>3. Cardinality(OfBatch(s, G, c)) = u + 1
      BY <3>1, <3>2, FS_AddElement
    <3>4. more[c] = v * (u + 1) /\ less[c] = v * u
      BY <1>2, <2>1, <3>3
    <3>5. v \in Nat
      BY <2>1
    <3> HIDE DEF u, v, more, less
    <3>6. v * (u + 1) = v * u + v
      BY <3>2, <3>5, SMTT(30)
    <3> QED
      BY <3>4, <3>6 DEF v
  <2> DEFINE a == SumFunctionOnSet(more, B)
             o == SumFunctionOnSet(less, B)
  <2> HIDE DEF more, less, c
  <2>5. a \in Int /\ o \in Int /\ a = o + (more[c] - less[c])
    BY <2>1, <2>2, <2>3, SumMoves
  <2>6. less[c] \in Int
    BY <2>1, <2>2
  <2>7. d[s] = a /\ d[r] = o
    BY <1>4, <2>1 DEF more, less
  <2> HIDE DEF a, o
  <2> QED
    BY <2>1, <2>4, <2>5, <2>6, <2>7
<1>7. Apart(f, 1, f, 0, d, S)
  <2>1. \A s \in SUBSET S : \A x \in s : 1 * f[x] + d[s \ {x}] <= 0 * f[x] + d[s]
    <3> SUFFICES ASSUME NEW s \in SUBSET S, NEW x \in s PROVE 1 * f[x] + d[s \ {x}] <= 0 * f[x] + d[s]
      OBVIOUS
    <3>1. f[x] \in Int /\ d[s] \in Int /\ d[s \ {x}] \in Int
      BY <1>4
    <3> QED
      BY <1>6, <3>1
  <2> QED
    BY <1>5, <2>1 DEF Apart
<1>8. X \in Int /\ 1 * X <= 0 * X + d[S]
  <2>1. 1 \in {0, 1} /\ 0 \in {0, 1}
    OBVIOUS
  <2> QED
    BY <1>4, <1>7, <2>1, SumsCompare
<1>9. Y <= Z /\ Y \in Int /\ Z \in Int
  <2> DEFINE all == D(S)
  <2>1. S \in SUBSET S
    OBVIOUS
  <2>2. all \in [B -> Int] /\ \A b \in B : all[b] <= p[b]
    BY <1>2, <2>1
  <2> HIDE DEF all
  <2>3. /\ SumFunctionOnSet(all, B) \in Int /\ SumFunctionOnSet(p, B) \in Int
        /\ SumFunctionOnSet(all, B) <= SumFunctionOnSet(p, B)
    BY <2>2, SumGrows
  <2> QED
    BY <2>3 DEF all
<1> HIDE DEF X, Y, Z
<1>10. X <= Z
  BY <1>4, <1>8, <1>9
<1> QED
  BY <1>10 DEF X, Z

\* The batches that hold each text once are charged for every text.
LEMMA BatchesCharge ==
  ASSUME NEW lens \in Seq(Nat), NEW bs, SpreadOver(bs, Len(lens)),
         NEW L \in [DOMAIN bs -> Nat], NEW p \in [DOMAIN bs -> Int],
         \A b \in DOMAIN bs : \A k \in DOMAIN bs[b] : lens[bs[b][k].index + 1] <= L[b],
         \A b \in DOMAIN bs : L[b] * Len(bs[b]) <= p[b]
  PROVE  SumFunctionOnSet(lens, DOMAIN lens) <= SumFunctionOnSet(p, DOMAIN p)
<1> DEFINE n == Len(lens)
           S == 1..n
           B == DOMAIN bs
           In(b, i) == \E k \in DOMAIN bs[b] : bs[b][k].index = i - 1
           G == [i \in S |-> CHOOSE b \in B : In(b, i)]
<1>1. n \in Nat /\ DOMAIN lens = S /\ lens \in [S -> Int] /\ IsFiniteSet(S)
  <2>1. n \in Nat /\ DOMAIN lens = 1..n /\ lens \in [1..n -> Nat]
    BY LenProperties
  <2> HIDE DEF n
  <2> QED
    BY <2>1, FS_Interval
<1>2. bs \in Seq(Seq(Input)) /\ B = 1..Len(bs) /\ Len(bs) \in Nat /\ DOMAIN p = B
  BY LenProperties DEF SpreadOver
<1>3. IsFiniteSet(B)
  <2> DEFINE m == Len(bs)
  <2>1. m \in Nat /\ B = 1..m
    BY <1>2
  <2> HIDE DEF m, B
  <2> QED
    BY <2>1, FS_Interval
<1>4. /\ \A b \in B : \A k \in DOMAIN bs[b] : bs[b][k].index \in 0..(n - 1)
      /\ \A b, c \in B : \A j \in DOMAIN bs[b], k \in DOMAIN bs[c] :
           bs[b][j].index = bs[c][k].index => b = c /\ j = k
      /\ \A i \in 0..(n - 1) : \E b \in B : \E k \in DOMAIN bs[b] : bs[b][k].index = i
  BY DEF SpreadOver
<1>5. \A b \in B : bs[b] \in Seq(Input)
  BY <1>2, ElementOfSeq
<1> HIDE DEF n, B
<1>6. \A i \in S : \E b \in B : In(b, i)
  <2> SUFFICES ASSUME NEW i \in S PROVE \E b \in B : In(b, i)
    OBVIOUS
  <2>1. i - 1 \in 0..(n - 1)
    BY <1>1
  <2> QED
    BY <1>4, <2>1
<1>7. \A i \in S : \A b, c \in B : In(b, i) /\ In(c, i) => b = c
  BY <1>4
<1> HIDE DEF In
<1>8. \A i \in S : G[i] \in B /\ In(G[i], i)
  BY <1>6
<1>9. \A i \in S : \A b \in B : In(b, i) => G[i] = b
  BY <1>7, <1>8
<1>10. G \in [S -> B]
  BY <1>8
<1> HIDE DEF G
<1>11. \A i \in S : lens[i] <= L[G[i]]
  <2> SUFFICES ASSUME NEW i \in S PROVE lens[i] <= L[G[i]]
    OBVIOUS
  <2>1. PICK k \in DOMAIN bs[G[i]] : bs[G[i]][k].index = i - 1
    BY <1>8 DEF In
  <2>2. lens[(i - 1) + 1] <= L[G[i]]
    BY <1>8, <2>1 DEF B
  <2>3. (i - 1) + 1 = i
    BY <1>1
  <2> QED
    BY <2>2, <2>3
<1>12. \A b \in B : Cardinality(OfBatch(S, G, b)) = Len(bs[b])
  <2> SUFFICES ASSUME NEW b \in B PROVE Cardinality(OfBatch(S, G, b)) = Len(bs[b])
    OBVIOUS
  <2> DEFINE l == bs[b]
             I == IndexesOf(l)
             f == [j \in I |-> j + 1]
  <2>1. l \in Seq(Input) /\ OneEach(l)
    BY <1>4, <1>5 DEF OneEach
  <2>2. IsFiniteSet(I) /\ Cardinality(I) = Len(l)
    BY <2>1, TextsAreCounted
  <2>3. \A j \in I : j \in Int /\ j + 1 \in S /\ (j + 1) - 1 = j
    BY <1>1, <1>4 DEF IndexesOf
  <2>4. \A i \in S : i - 1 \in I <=> G[i] = b
    <3> SUFFICES ASSUME NEW i \in S PROVE i - 1 \in I <=> G[i] = b
      OBVIOUS
    <3>1. i - 1 \in I <=> In(b, i)
      BY DEF IndexesOf, In
    <3> QED
      BY <1>8, <1>9, <3>1
  <2> HIDE DEF I, l
  <2>5. f \in [I -> OfBatch(S, G, b)]
    BY <2>3, <2>4 DEF OfBatch
  <2>6. \A j, k \in I : f[j] = f[k] => j = k
    BY <2>3
  <2>7. \A i \in OfBatch(S, G, b) : \E j \in I : f[j] = i
    <3> SUFFICES ASSUME NEW i \in OfBatch(S, G, b) PROVE \E j \in I : f[j] = i
      OBVIOUS
    <3>1. i \in S /\ G[i] = b /\ (i - 1) + 1 = i
      BY <1>1 DEF OfBatch
    <3> QED
      BY <2>4, <3>1
  <2> HIDE DEF f
  <2>8. f \in Bijection(I, OfBatch(S, G, b))
    BY <2>5, <2>6, <2>7 DEF Bijection, Injection, Surjection, IsInjective
  <2>9. Cardinality(I) = Cardinality(OfBatch(S, G, b))
    BY <2>2, <2>8, FS_Bijection DEF ExistsBijection
  <2> QED
    BY <2>2, <2>9 DEF l
<1>13. L \in [B -> Nat] /\ p \in [B -> Int] /\ \A b \in B : L[b] * Cardinality(OfBatch(S, G, b)) <= p[b]
  BY <1>12 DEF B
<1> HIDE DEF S
<1>14. SumFunctionOnSet(lens, S) <= SumFunctionOnSet(p, B)
  BY <1>1, <1>3, <1>10, <1>11, <1>13, ChargedByBatch
<1> QED
  BY <1>1, <1>2, <1>14

\* The longest text of a batch stands for each of them, and so do the rows of a session.
LEMMA PaddingIsCovered ==
  ASSUME Known
  PROVE  PaddingCovers
<1> DEFINE lens == local_lengths(call.texts, TRUE)
           n == Len(lens)
           runtime == call.runtime
           bs == plan_embedding_batches(lens, BatchingPolicy(runtime, call.rows, call.tokens))
           shape == fixed_input_shape(runtime)
           B == DOMAIN bs
           p == [k \in B |-> IF shape.rows # Unset THEN shape.rows * shape.seq_len ELSE padded_tokens(bs[k])]
           s == summarize_token_lengths(lens, bs, runtime)
<1>1. /\ call.runtime \in Runtimes /\ call.rows \in Nat /\ call.tokens \in Nat
      /\ GpuRows \in Nat \ {0} /\ MaxLen \in Nat \ {0} /\ call.texts \in Seq([raw : Nat, chars : Nat])
  BY RequestsAssumption DEF Known
<1>2. lens \in Seq(Nat) /\ Len(lens) = Count
  BY LengthsAreNumbers
<1>3. \A i \in DOMAIN lens : lens[i] \in Nat /\ lens[i] <= MaxLen
  <2> SUFFICES ASSUME NEW i \in DOMAIN lens PROVE lens[i] \in Nat /\ lens[i] <= MaxLen
    OBVIOUS
  <2> DEFINE t == call.texts
  <2>1. lens[i] = len_from_raw(t[i].raw) /\ i \in DOMAIN t
    BY DEF local_lengths
  <2>2. t[i].raw \in Nat
    <3>1. t \in Seq([raw : Nat, chars : Nat])
      BY <1>1
    <3> HIDE DEF t
    <3>2. t[i] \in [raw : Nat, chars : Nat]
      BY <2>1, <3>1, LenProperties, ElementOfSeq
    <3> QED
      BY <3>2
  <2> HIDE DEF lens, t
  <2>3. len_from_raw(t[i].raw) \in Nat /\ len_from_raw(t[i].raw) <= MaxLen
    BY <1>1, <2>2 DEF len_from_raw, Fewest
  <2> QED
    BY <2>1, <2>3
<1> HIDE DEF lens
<1>4. /\ SpreadOver(bs, n) /\ Drawn(bs, ToSet(Inputs(lens)))
      /\ is_fastembed_onnx_gpu(runtime) => Stacked(bs, GpuRows)
  BY <1>1, <1>2, LocalPlanned
<1> HIDE DEF bs
<1>5. bs \in Seq(Seq(Input)) /\ \A b \in B : bs[b] # <<>>
  BY <1>4 DEF SpreadOver
<1>6. \A b \in B : bs[b] \in Seq(Input) /\ Len(bs[b]) \in Nat
  <2> SUFFICES ASSUME NEW b \in B PROVE bs[b] \in Seq(Input) /\ Len(bs[b]) \in Nat
    OBVIOUS
  <2>1. bs[b] \in Seq(Input)
    BY <1>5, LenProperties, ElementOfSeq
  <2> QED
    BY <2>1, LenProperties
<1>7. \A b \in B : \A k \in DOMAIN bs[b] : bs[b][k].index + 1 \in DOMAIN lens
                                          /\ bs[b][k].len = lens[bs[b][k].index + 1]
  <2> SUFFICES ASSUME NEW b \in B, NEW k \in DOMAIN bs[b]
               PROVE  bs[b][k].index + 1 \in DOMAIN lens /\ bs[b][k].len = lens[bs[b][k].index + 1]
    OBVIOUS
  <2>1. bs[b][k] \in ToSet(Inputs(lens))
    BY <1>4 DEF Drawn
  <2>2. PICK i \in DOMAIN lens : bs[b][k] = [index |-> i - 1, len |-> lens[i]]
    BY <2>1 DEF ToSet, Inputs
  <2>3. DOMAIN lens = 1..Len(lens) /\ Len(lens) \in Nat
    BY <1>2, LenProperties
  <2>4. (i - 1) + 1 = i
    BY <2>3
  <2> QED
    BY <2>2, <2>4
<1>8. s.capped = SumFunctionOnSet(lens, DOMAIN lens) /\ s.padded = SumFunctionOnSet(p, DOMAIN p)
  BY DEF summarize_token_lengths
<1> HIDE DEF s
<1>9. SumFunctionOnSet(lens, DOMAIN lens) <= SumFunctionOnSet(p, DOMAIN p)
  <2>1. CASE is_fastembed_onnx_gpu(runtime)
    <3> DEFINE L == [b \in B |-> MaxLen]
    <3>1. shape.rows = GpuRows /\ shape.seq_len = MaxLen /\ GpuRows # Unset
      BY <1>1, <2>1 DEF fixed_input_shape, is_fastembed_onnx_gpu, Unset
    <3>2. GpuRows * MaxLen \in Nat /\ \A b \in B : p[b] = GpuRows * MaxLen
      BY <1>1, <3>1, SMTT(30)
    <3>3. p \in [B -> Int] /\ DOMAIN p = B
      BY <3>1, <3>2
    <3>4. \A b \in B : MaxLen * Len(bs[b]) <= GpuRows * MaxLen
      <4> SUFFICES ASSUME NEW b \in B PROVE MaxLen * Len(bs[b]) <= GpuRows * MaxLen
        OBVIOUS
      <4> DEFINE u == Len(bs[b])
      <4>1. u \in Nat /\ u <= GpuRows
        BY <1>4, <1>6, <2>1 DEF Stacked
      <4> HIDE DEF u
      <4>2. u * MaxLen <= GpuRows * MaxLen
        BY <1>1, <4>1, TimesKeepsOrder
      <4>3. u * MaxLen = MaxLen * u
        BY <1>1, <4>1, SMTT(30)
      <4> QED
        BY <4>2, <4>3 DEF u
    <3> HIDE DEF p
    <3>5. L \in [B -> Nat] /\ \A b \in B : L[b] = MaxLen
      BY <1>1
    <3> HIDE DEF L
    <3>6. \A b \in B : \A k \in DOMAIN bs[b] : lens[bs[b][k].index + 1] <= L[b]
      BY <1>3, <1>7, <3>5
    <3>7. \A b \in B : L[b] * Len(bs[b]) <= p[b]
      BY <3>2, <3>4, <3>5
    <3> QED
      BY <1>2, <1>4, <3>3, <3>5, <3>6, <3>7, BatchesCharge
  <2>2. CASE ~ is_fastembed_onnx_gpu(runtime)
    <3> DEFINE L == [b \in B |-> LongestOf(bs[b])]
    <3>1. shape.rows = Unset
      BY <2>2 DEF fixed_input_shape, is_fastembed_onnx_gpu
    <3>2. \A b \in B : p[b] = padded_tokens(bs[b])
      BY <3>1
    <3>3. ASSUME NEW b \in B
          PROVE  /\ LongestOf(bs[b]) \in Nat /\ \A k \in DOMAIN bs[b] : bs[b][k].len <= LongestOf(bs[b])
                 /\ padded_tokens(bs[b]) = LongestOf(bs[b]) * Len(bs[b]) /\ padded_tokens(bs[b]) \in Int
      <4> DEFINE l == bs[b]
                 f == LongestOf(l)
      <4>1. l \in Seq(Input) /\ l # <<>> /\ Len(l) \in Nat
        BY <1>5, <1>6
      <4> HIDE DEF l
      <4>2. f \in Nat /\ \A k \in DOMAIN l : l[k].len <= f
        BY <4>1, LongestIsGreatest
      <4>3. padded_tokens(l) = Len(l) * f
        BY DEF padded_tokens, LongestOf
      <4> HIDE DEF f
      <4>4. Len(l) * f = f * Len(l) /\ f * Len(l) \in Int
        BY <4>1, <4>2, SMTT(30)
      <4>5. padded_tokens(l) = f * Len(l) /\ padded_tokens(l) \in Int
        BY <4>3, <4>4
      <4> QED
        BY <4>2, <4>5 DEF f, l
    <3>4. p \in [B -> Int] /\ DOMAIN p = B
      BY <3>1, <3>3
    <3> HIDE DEF p
    <3>5. L \in [B -> Nat] /\ \A b \in B : L[b] = LongestOf(bs[b])
      BY <3>3
    <3> HIDE DEF L
    <3>6. \A b \in B : \A k \in DOMAIN bs[b] : lens[bs[b][k].index + 1] <= L[b]
      BY <1>7, <3>3, <3>5
    <3>7. \A b \in B : L[b] * Len(bs[b]) <= p[b]
      <4> SUFFICES ASSUME NEW b \in B PROVE L[b] * Len(bs[b]) <= p[b]
        OBVIOUS
      <4>1. p[b] = L[b] * Len(bs[b]) /\ p[b] \in Int
        BY <3>2, <3>3, <3>5
      <4> QED
        BY <4>1
    <3> QED
      BY <1>2, <1>4, <3>4, <3>5, <3>6, <3>7, BatchesCharge
  <2> QED
    BY <2>1, <2>2
<1>10. s.capped <= s.padded
  BY <1>8, <1>9
<1> QED
  BY <1>10 DEF PaddingCovers, s, bs, lens

\* How many texts are taken at a time, whatever the machine has.
LEMMA BatchSizesAreSane == BatchesAreSane
<1> SUFFICES ASSUME NEW mb \in {0, 14, 15, 30, 9000}, NEW cores \in {1, 2, 128}
             PROVE  calculate_safe_batch_size(mb, cores) \in 1..100
  BY DEF BatchesAreSane
<1> DEFINE m == AtLeastOne(mb \div 15)
<1>1. mb \div 15 \in Int
  OBVIOUS
<1>2. m \in Nat /\ m >= 1
  BY <1>1 DEF AtLeastOne
<1> HIDE DEF m
<1>3. Fewest(Fewest(m, cores), 100) \in 1..100
  BY <1>2 DEF Fewest
<1> QED
  BY <1>3 DEF calculate_safe_batch_size, m

-----------------------------------------------------------------------------
(* The theorems.                                                           *)

\* A step that changes nothing keeps the invariant.
LEMMA CallStutters ==
  ASSUME CallInv, UNCHANGED erVars
  PROVE  CallInv'
<1>1. UNCHANGED <<call, at, config, batches, worker, gathered, answer, stats>>
  BY DEF erVars
<1>2. Known'
  BY <1>1 DEF CallInv, Known
<1>3. Batched'
  BY <1>1 DEF CallInv, Batched, Count
<1>4. Worked'
  BY <1>1 DEF CallInv, Worked
<1>5. Collected'
  BY <1>1 DEF CallInv, Collected, Finished
<1>6. Metered'
  <2>1. InFlight' = InFlight /\ UsedBy' = UsedBy /\ ReceivedBy' = ReceivedBy
    BY <1>1 DEF InFlight, UsedBy, ReceivedBy
  <2> QED
    BY <1>1, <2>1 DEF CallInv, Metered
<1>7. VectorsBelong'
  BY <1>1 DEF CallInv, VectorsBelong, Count
<1> QED
  BY <1>2, <1>3, <1>4, <1>5, <1>6, <1>7 DEF CallInv

\* A step of the call, of a worker or of a local batch keeps the invariant.
LEMMA CallGoesOn ==
  ASSUME CallInv, [ERNext]_erVars
  PROVE  CallInv'
<1>1. CASE UNCHANGED erVars
  BY <1>1, CallStutters
<1>2. CASE NoKey \/ LocalFails \/ Returned
  BY <1>2, StopsKeep
<1>3. CASE plan_remote_batches
  BY <1>3, RemotePlansKeep
<1>4. CASE plan_local_batches
  BY <1>4, LocalPlansKeep
<1>5. CASE RemoteEnds
  BY <1>5, RemoteEndsKeeps
<1>6. CASE LocalEnds
  BY <1>6, LocalEndsKeeps
<1>7. CASE \E b \in DOMAIN worker : Starts(b) \/ Replied(b) \/ Rejected(b) \/ Lost(b) \/ WakesUp(b)
  BY <1>7, StartsKeeps, RepliedKeeps, RejectedKeeps, LostKeeps, WakesUpKeeps
<1>8. CASE \E b \in DOMAIN batches : Local(b)
  BY <1>8, LocalKeeps
<1> QED
  BY <1>1, <1>2, <1>3, <1>4, <1>5, <1>6, <1>7, <1>8 DEF ERNext

\* What the invariant says of a call.
LEMMA CallIsSound ==
  ASSUME CallInv
  PROVE  EmbeddingsHold
<1>1. Known /\ VectorsBelong
  BY DEF CallInv
<1> QED
  BY <1>1, TextsOnce, BatchesAreAllowed, RequestsAreBounded, PaddingIsCovered, BatchSizesAreSane
  DEF EmbeddingsHold

\* The batches hold each text once and fit the settings; the texts of a batch are
\* shared among what its worker asks for and what it received, through splits,
\* retries and answers in any order; the requests are paid for by the texts they
\* bring (plan_remote_input_batches, embed_batch_with_retry, embed_batch_local).
THEOREM CallInvariant == ERSpec => []CallInv
  BY CallStarts, CallGoesOn, PTL DEF ERSpec

\* A call that returns has the vector of each text in its place; no text is lost or
\* asked for twice; no request is larger than the settings allow, and there are no
\* more of them than the retries and the splits of each batch.
THEOREM EmbeddingsInvariant == ERSpec => []EmbeddingsHold
  BY CallInvariant, CallIsSound, PTL

\* In the composition that is checked, for any requests and any answers of the
\* service, a call that returns has for each text its own finite vector, computed for
\* the side that asked; until then each text is in one place; no request is larger
\* than the settings allow, and there are no more of them than retries and splits
\* account for (openrouter/client.rs, embeddings/mod.rs, batching.rs).
THEOREM EmbeddingsAreTrustworthy == PartsSpec => []EmbeddingsAreSound
<1> DEFINE Inv == component = "embeddings" => CallInv
<1>1. PartsInit => Inv
  BY CallStarts DEF PartsInit
<1>2. Inv /\ [PartsNext]_partsVars => Inv'
  <2> SUFFICES ASSUME Inv, [PartsNext]_partsVars PROVE Inv'
    OBVIOUS
  <2>1. component' = component
    BY DEF PartsNext, partsVars
  <2>2. component = "embeddings" => [ERNext]_erVars
    BY DEF PartsNext, partsVars
  <2> QED
    BY <2>1, <2>2, CallGoesOn
<1>3. Inv => EmbeddingsAreSound
  BY CallIsSound DEF EmbeddingsAreSound
<1> QED
  BY <1>1, <1>2, <1>3, PTL DEF PartsSpec

-----------------------------------------------------------------------------
(* The index and its sync, for any set of paths and contents and any       *)
(* number of failures: the types, and that the snapshot and the cache      *)
(* never vouch for a file the vector store does not have.                  *)

USE DEF Absent

-----------------------------------------------------------------------------
(* Types *)

\* The operators on stores return stores.
LEMMA StoreTypes ==
    ASSUME TypeOK
    PROVE  /\ Nothing \in [Paths -> Held] /\ NoEntries \in [Paths -> Held \X Held]
           /\ Refilled \in [Paths -> Held]
           /\ \A f \in [Paths -> Held] : Put(f) \in [Paths -> Held]
           /\ \A f \in [Paths -> Held] : \A S : Without(f, S) \in [Paths -> Held]
           /\ \A S : Forgotten(S) \in [Paths -> Held \X Held]
           /\ \A f, g \in [Paths -> Held] :
                \A S : SnapshotWithRetries(f, g, S) \in [Paths -> Held]
  <1>1. Absent \in Held BY DEF Held
  <1> QED BY <1>1 DEF TypeOK, Nothing, NoEntries, Refilled, Put, Without, Forgotten,
                      SnapshotWithRetries

\* The initial state is typed.
LEMMA TypeInit == Init => TypeOK
  <1>1. Absent \in Held BY DEF Held
  <1>2. Init => written \subseteq Paths \X Contents BY DEF Init
  <1>3. 0 \in 0..MaxFaults BY CallsAssumption
  <1>4. Nothing \in [Paths -> Held] /\ NoEntries \in [Paths -> Held \X Held]
    BY <1>1 DEF Nothing, NoEntries
  <1> QED BY <1>2, <1>3, <1>4 DEF Init, TypeOK, PCs, Runs

\* Every step keeps the types.
LEMMA TypeNext == TypeOK /\ [Next]_vars => TypeOK'
  <1> SUFFICES ASSUME TypeOK, [Next]_vars PROVE TypeOK'
    OBVIOUS
  <1> USE StoreTypes
  <1>0. Absent \in Held BY DEF Held
  <1> USE DEF snapVars, treeVars, storeVars, runVars, pending
  <1>f. ASSUME NEW f, Fails(f) PROVE faults' \in 0..MaxFaults
    BY <1>f, CallsAssumption DEF Fails, TypeOK
  <1>1. ASSUME NEW p \in Paths, NEW c \in Held, Edit(p, c) PROVE TypeOK'
    BY <1>1 DEF Edit, TypeOK, Held
  <1>2. ASSUME NEW k \in Calls \cap Runs, StartRun(k) PROVE TypeOK'
    BY <1>2 DEF StartRun, TypeOK, PCs
  <1>3. CASE ClearCache BY <1>3 DEF ClearCache, TypeOK, PCs
  <1>4. CASE ClearBm25 BY <1>4 DEF ClearBm25, TypeOK, PCs
  <1>5. CASE ClearVectors BY <1>5 DEF ClearVectors, TypeOK, PCs
  <1>6. CASE CleanSnapshot BY <1>6 DEF CleanSnapshot, TypeOK, PCs
  <1>7. CASE CleanCache BY <1>7 DEF CleanCache, TypeOK, PCs
  <1>8. CASE RepairCache BY <1>8 DEF RepairCache, TypeOK, PCs, StaleSkips
  <1>9. CASE RepairTree BY <1>9, <1>f, SMTT(60) DEF RepairTree, TypeOK, PCs, Present
  <1>10. CASE RepairCommit BY <1>10 DEF RepairCommit, TypeOK, PCs
  <1>11. CASE RepairSnapshot BY <1>11 DEF RepairSnapshot, TypeOK, PCs
  <1>12. CASE Load
    BY <1>12 DEF Load, TypeOK, PCs, Added, Modified, Deleted, Present
  <1>13. CASE FullWalk BY <1>13 DEF FullWalk, TypeOK, PCs, Present
  <1>14. ASSUME NEW p \in Paths, Prepare(p) PROVE TypeOK'
    BY <1>14, <1>f DEF Prepare, TypeOK
  <1>15. CASE StartWrite BY <1>15 DEF StartWrite, TypeOK, PCs
  <1>w. ASSUME FailWrite
        PROVE  /\ pc' \in PCs /\ retry' \subseteq Paths /\ prepared' \in [Paths -> Held]
               /\ gone' \subseteq Paths /\ cleared' \subseteq Paths /\ todo' \subseteq Paths
               /\ recorded' \subseteq Paths /\ kind' \in Runs
               /\ merkle' \in [Paths -> Held] /\ walked' \subseteq Paths
    BY <1>w DEF FailWrite, Stop, NothingPending, AfterWrite, TypeOK, PCs, Runs, Pending,
       Present
  <1>16. CASE DeleteChunks
    BY <1>16, <1>f, <1>w, SMTT(60) DEF DeleteChunks, TypeOK, PCs
  <1>17. CASE InsertChunks
    BY <1>17, <1>f, <1>w DEF InsertChunks, TypeOK, PCs
  <1>18. ASSUME NEW p \in Paths, Record(p) PROVE TypeOK'
    <2>0. <<prepared[p], tree[p]>> \in Held \X Held BY DEF TypeOK
    <2>c. [cache EXCEPT ![p] = <<prepared[p], tree[p]>>] \in [Paths -> Held \X Held]
      BY <2>0 DEF TypeOK
    <2>b. buffer' \in [Paths -> Held] BY <1>18 DEF Record, TypeOK
    <2>1. buffer' \in [Paths -> Held] /\ cache' \in [Paths -> Held \X Held]
      BY <1>18, <2>c, <2>b DEF Record, TypeOK
    <2>2. CASE faults' = faults /\ UNCHANGED <<pc, gone, cleared, todo, retry, runVars>>
               /\ prepared' = [prepared EXCEPT ![p] = Absent] /\ recorded' = recorded \cup {p}
      BY <1>0, <1>18, <2>1, <2>2 DEF Record, TypeOK
    <2>3. CASE FailWrite /\ faults' \in 0..MaxFaults
      BY <1>18, <1>w, <2>1, <2>3 DEF Record, TypeOK
    <2> QED BY <1>18, <1>f, <2>2, <2>3 DEF Record, TypeOK
  <1>19. CASE EndWrite BY <1>19 DEF EndWrite, AfterWrite, TypeOK, PCs
  <1>20. ASSUME NEW p \in Paths, Forget(p) PROVE TypeOK'
    <2>0. <<Absent, Absent>> \in Held \X Held BY <1>0
    <2>1. cache' \in [Paths -> Held \X Held] BY <1>20, <2>0 DEF Forget, TypeOK
    <2>2. pc' \in PCs BY <1>20 DEF Forget, AfterWrite, PCs
    <2>3. faults' \in 0..MaxFaults /\ retry' \subseteq Paths /\ gone' \subseteq Paths
      BY <1>20, <1>f DEF Forget, TypeOK
    <2> QED BY <1>20, <2>1, <2>2, <2>3 DEF Forget, TypeOK
  <1>21. CASE Commit BY <1>21 DEF Commit, TypeOK, PCs
  <1>22. CASE Drop BY <1>22, <1>f, SMTT(60) DEF Drop, TypeOK, PCs, Present
  <1>23. CASE DropCommit BY <1>23 DEF DropCommit, TypeOK, PCs
  <1>24. CASE Save
    <2>0. SnapshotWithRetries(merkle, snapshot, retry) \in [Paths -> Held]
      BY DEF TypeOK
    <2>1. saved' \in BOOLEAN /\ snapshot' \in [Paths -> Held]
      BY <1>24, <2>0 DEF Save, TypeOK
    <2> QED BY <1>24, <2>1 DEF Save, Stop, NothingPending, TypeOK, PCs, Runs
  <1>25. CASE Crash BY <1>25, <1>f DEF Crash, Stop, NothingPending, TypeOK, PCs, Runs
  <1>26. CASE ClearStores BY <1>26 DEF ClearStores, TypeOK, PCs
  <1>27. CASE UNCHANGED vars BY <1>27 DEF vars, TypeOK
  <1>28. CASE RunStep
    BY <1>28, <1>3, <1>4, <1>5, <1>6, <1>7, <1>8, <1>9, <1>10, <1>11, <1>12, <1>13, <1>14,
       <1>15, <1>16, <1>17, <1>18, <1>19, <1>20, <1>21, <1>22, <1>23, <1>24 DEF RunStep
  <1> QED BY <1>1, <1>2, <1>25, <1>26, <1>27, <1>28 DEF Next

\* Change detection presents exactly the files that differ, when no content is
\* found in two files (the roots alone do not tell: a leaf does not hash its path).
LEMMA ChangesFound ==
    ASSUME OwnContents, NEW f \in [Paths -> Held], NEW g \in [Paths -> Held],
           \A p \in Paths : Seen(p, f[p]) /\ Seen(p, g[p])
    PROVE  Changes(f, g) = {p \in Paths : f[p] # g[p]}
  <1>1. CASE HasChanges(f, g)
    BY <1>1 DEF Changes, Added, Modified, Deleted, Present
  <1>2. CASE ~HasChanges(f, g)
    <2>1. ASSUME NEW h \in [Paths -> Held], NEW k \in [Paths -> Held], Leaves(h) = Leaves(k),
                 \A p \in Paths : Seen(p, h[p]) /\ Seen(p, k[p]),
                 NEW p \in Paths, h[p] # Absent
          PROVE  h[p] = k[p]
      <3>1. <<Cardinality({x \in Present(h) : x < p}), h[p]>> \in Leaves(h)
        BY <2>1 DEF Leaves, Present
      <3>2. PICK r \in Present(k) :
                   <<Cardinality({x \in Present(h) : x < p}), h[p]>> =
                   <<Cardinality({x \in Present(k) : x < r}), k[r]>>
        BY <2>1, <3>1 DEF Leaves
      <3>3. r \in Paths /\ k[r] = h[p] BY <3>2 DEF Present
      <3>4. h[p] \in Contents BY <2>1 DEF Held
      <3>5. <<p, h[p]>> \in written /\ <<r, h[p]>> \in written BY <2>1, <3>3 DEF Seen
      <3> QED BY <3>3, <3>4, <3>5 DEF OwnContents
    <2>2. Leaves(f) = Leaves(g) BY <1>2 DEF HasChanges
    <2>3. ASSUME NEW p \in Paths PROVE f[p] = g[p] BY <2>1, <2>2
    <2> QED BY <1>2, <2>3 DEF Changes
  <1> QED BY <1>1, <1>2

\* The initial state satisfies the invariant.
LEMMA InvInit == Init => IInv
  <1> SUFFICES ASSUME Init, Careful PROVE RunInv /\ \A p \in Paths : FileInv(p)
    BY TypeInit DEF IInv
  <1>1. TypeOK BY TypeInit
  <1>2. OwnContents
    <2>1. ASSUME NEW p \in Paths, NEW c \in Contents, <<p, c>> \in written
          PROVE  tree[p] = c /\ c # Absent
      BY <2>1, ContentsAssumption DEF Init
    <2> QED BY <2>1 DEF OwnContents, Init, Careful
  <1>3. RunInv BY <1>2 DEF Init, RunInv, Nothing, NoEntries, BeforeWalk, Walked, Writing
  <1>4. ASSUME NEW p \in Paths PROVE FileInv(p)
    <2>1. Seen(p, tree[p]) BY <1>1 DEF Init, Seen, TypeOK, Held
    <2> QED BY <1>1, <2>1 DEF Init, FileInv, OnceHeld, Seen, Nothing, NoEntries, Code,
              Unchanged, Walked, Writing, TypeOK, SnapshotVouchesFor, CacheVouchesFor,
              WalkVouchesFor, ToBePrepared, ToLoseChunks, OutsideWalk, ToBeWritten, ToBeRecorded
  <1> QED BY <1>3, <1>4

\* A file with chunks is there.
LEMMA CodeNotAbsent == Absent \notin Code
  BY ContentsAssumption DEF Code

USE DEF treeVars, snapVars, storeVars, runVars, pending

\* A force run has no snapshot when its cache goes.
LEMMA ClearCacheFile ==
    ASSUME TypeOK, TypeOK', RunInv, NEW p \in Paths, FileInv(p), ClearCache
    PROVE  FileInv(p)'
  <1> QED
    BY CodeNotAbsent DEF ClearCache, NoEntries, FileInv, OnceHeld, Seen, SnapshotVouchesFor,
       CacheVouchesFor, Unchanged, WalkVouchesFor, Walked, Writing, ToBePrepared,
       ToLoseChunks, OutsideWalk, ToBeWritten, ToBeRecorded

\* The step ClearBm25 keeps the invariant of a file.
LEMMA ClearBm25File ==
    ASSUME TypeOK, TypeOK', RunInv, NEW p \in Paths, FileInv(p), ClearBm25
    PROVE  FileInv(p)'
  <1> QED
    BY DEF ClearBm25, FileInv, OnceHeld, Seen, SnapshotVouchesFor, CacheVouchesFor,
       Unchanged, WalkVouchesFor, Walked, Writing, ToBePrepared, ToLoseChunks, OutsideWalk,
       ToBeWritten, ToBeRecorded

\* Nothing vouches for the vectors a force run clears.
LEMMA ClearVectorsFile ==
    ASSUME TypeOK, TypeOK', RunInv, NEW p \in Paths, FileInv(p), ClearVectors
    PROVE  FileInv(p)'
  <1>1. OnceHeld(p)' /\ WalkVouchesFor(p)' /\ ToBePrepared(p)' /\ ToLoseChunks(p)' /\
        OutsideWalk(p)' /\ ToBeWritten(p)' /\ ToBeRecorded(p)'
    BY DEF ClearVectors, Nothing, FileInv, OnceHeld, Seen, WalkVouchesFor, Walked, Writing,
       ToBePrepared, ToLoseChunks, OutsideWalk, ToBeWritten, ToBeRecorded
  <1>2. SnapshotVouchesFor(p)'
    BY DEF ClearVectors, FileInv, SnapshotVouchesFor, RunInv
  <1>3. CacheVouchesFor(p)'
    BY CodeNotAbsent DEF ClearVectors, NoEntries, FileInv, CacheVouchesFor, Unchanged,
       RunInv
  <1> QED BY <1>1, <1>2, <1>3 DEF FileInv

\* The step CleanSnapshot keeps the invariant of a file.
LEMMA CleanSnapshotFile ==
    ASSUME TypeOK, TypeOK', RunInv, NEW p \in Paths, FileInv(p), CleanSnapshot
    PROVE  FileInv(p)'
  <1>1. SnapshotVouchesFor(p)' /\ CacheVouchesFor(p)' /\ WalkVouchesFor(p)' /\
        ToBePrepared(p)' /\ ToLoseChunks(p)' /\ OutsideWalk(p)' /\ ToBeWritten(p)' /\
        ToBeRecorded(p)'
    BY DEF CleanSnapshot, FileInv, SnapshotVouchesFor, CacheVouchesFor, Unchanged,
       WalkVouchesFor, Walked, Writing, ToBePrepared, ToLoseChunks, OutsideWalk,
       ToBeWritten, ToBeRecorded
  <1>2. OnceHeld(p)'
    BY DEF CleanSnapshot, Nothing, FileInv, OnceHeld, Seen
  <1> QED BY <1>1, <1>2 DEF FileInv

\* The step CleanCache keeps the invariant of a file.
LEMMA CleanCacheFile ==
    ASSUME TypeOK, TypeOK', RunInv, NEW p \in Paths, FileInv(p), CleanCache
    PROVE  FileInv(p)'
  <1> QED
    BY CodeNotAbsent DEF CleanCache, NoEntries, FileInv, OnceHeld, Seen, SnapshotVouchesFor,
       CacheVouchesFor, Unchanged, WalkVouchesFor, Walked, Writing, ToBePrepared,
       ToLoseChunks, OutsideWalk, ToBeWritten, ToBeRecorded

\* The step RepairCache keeps the invariant of a file.
LEMMA RepairCacheFile ==
    ASSUME TypeOK, TypeOK', RunInv, NEW p \in Paths, FileInv(p), RepairCache
    PROVE  FileInv(p)'
  <1>1. OnceHeld(p)' /\ SnapshotVouchesFor(p)' /\ CacheVouchesFor(p)' /\ WalkVouchesFor(p)'
        /\ ToBePrepared(p)' /\ ToLoseChunks(p)' /\ OutsideWalk(p)'
    BY DEF RepairCache, StaleSkips, Forgotten, FileInv, OnceHeld, Seen, SnapshotVouchesFor,
       CacheVouchesFor, Unchanged, WalkVouchesFor, Walked, Writing, ToBePrepared,
       ToLoseChunks, OutsideWalk
  <1>2. ToBeWritten(p)'
    BY DEF RepairCache, StaleSkips, Forgotten, FileInv, ToBeWritten, Writing
  <1>3. ToBeRecorded(p)'
    BY DEF RepairCache, StaleSkips, Forgotten, FileInv, ToBeRecorded
  <1> QED BY <1>1, <1>2, <1>3 DEF FileInv

\* A repair drops files the tree does not have.
LEMMA RepairTreeFile ==
    ASSUME TypeOK, TypeOK', RunInv, NEW p \in Paths, FileInv(p), RepairTree
    PROVE  FileInv(p)'
  <1>1. OnceHeld(p)' /\ SnapshotVouchesFor(p)' /\ WalkVouchesFor(p)' /\ ToBePrepared(p)' /\
        ToLoseChunks(p)' /\ OutsideWalk(p)' /\ ToBeWritten(p)' /\ ToBeRecorded(p)'
    BY DEF RepairTree, Without, Present, FileInv, OnceHeld, Seen, SnapshotVouchesFor,
       WalkVouchesFor, Walked, Writing, ToBePrepared, ToLoseChunks, OutsideWalk,
       ToBeWritten, ToBeRecorded
  <1>2. CacheVouchesFor(p)'
    BY DEF RepairTree, Without, Present, FileInv, CacheVouchesFor, Unchanged
  <1> QED BY <1>1, <1>2 DEF FileInv

\* The step RepairCommit keeps the invariant of a file.
LEMMA RepairCommitFile ==
    ASSUME TypeOK, TypeOK', RunInv, NEW p \in Paths, FileInv(p), RepairCommit
    PROVE  FileInv(p)'
  <1> QED
    BY CodeNotAbsent DEF RepairCommit, Forgotten, FileInv, OnceHeld, Seen,
       SnapshotVouchesFor, CacheVouchesFor, Unchanged, WalkVouchesFor, Walked, Writing,
       ToBePrepared, ToLoseChunks, OutsideWalk, ToBeWritten, ToBeRecorded

\* A file outside a full walk is not there: nothing vouches for it.
LEMMA FullWalkFile ==
    ASSUME TypeOK, TypeOK', RunInv, NEW p \in Paths, FileInv(p), FullWalk
    PROVE  FileInv(p)'
  <1>1. OnceHeld(p)' /\ SnapshotVouchesFor(p)' /\ CacheVouchesFor(p)' /\ WalkVouchesFor(p)'
        /\ ToBeWritten(p)' /\ ToBeRecorded(p)'
    BY CodeNotAbsent DEF FullWalk, Present, FileInv, OnceHeld, Seen, SnapshotVouchesFor,
       CacheVouchesFor, Unchanged, WalkVouchesFor, Writing, ToBeWritten, ToBeRecorded
  <1>2. ToBePrepared(p)'
    BY DEF FullWalk, FileInv, ToBePrepared, RunInv, FullPass
  <1>3. ToLoseChunks(p)'
    BY DEF FullWalk, FileInv, ToLoseChunks, RunInv, BeforeWalk
  <1>4. OutsideWalk(p)'
    BY CodeNotAbsent DEF FullWalk, Present, FileInv, OutsideWalk, Differs, Unvouched,
       ToBeWritten
  <1> QED BY <1>1, <1>2, <1>3, <1>4 DEF FileInv

\* The step Prepare(o) keeps the invariant of a file.
LEMMA PrepareFile ==
    ASSUME TypeOK, TypeOK', RunInv, NEW p \in Paths, FileInv(p), NEW o \in Paths, Prepare(o)
    PROVE  FileInv(p)'
  <1>1. OnceHeld(p)' /\ SnapshotVouchesFor(p)' /\ CacheVouchesFor(p)' /\ ToBePrepared(p)' /\
        OutsideWalk(p)' /\ ToBeRecorded(p)'
    BY DEF Prepare, FileInv, OnceHeld, Seen, TypeOK, SnapshotVouchesFor, CacheVouchesFor,
       Unchanged, ToBePrepared, OutsideWalk, FullPass, Differs, Unvouched, ToBeRecorded
  <1>2. WalkVouchesFor(p)'
    BY CodeNotAbsent DEF Prepare, Code, FileInv, WalkVouchesFor, TypeOK, CacheVouchesFor
  <1>3. ToLoseChunks(p)'
    BY DEF Prepare, Code, FileInv, ToLoseChunks, Differs, Unvouched, Unchanged, TypeOK,
       ToBeWritten
  <1>4. ToBeWritten(p)'
    BY DEF Prepare, FileInv, ToBeWritten, Writing, Unvouched, Unchanged, TypeOK,
       ToBePrepared
  <1> QED BY <1>1, <1>2, <1>3, <1>4 DEF FileInv

\* The step StartWrite keeps the invariant of a file.
LEMMA StartWriteFile ==
    ASSUME TypeOK, TypeOK', RunInv, NEW p \in Paths, FileInv(p), StartWrite
    PROVE  FileInv(p)'
  <1> QED
    BY DEF StartWrite, Pending, Present, FileInv, OnceHeld, Seen, SnapshotVouchesFor,
       CacheVouchesFor, Unchanged, WalkVouchesFor, Walked, Writing, ToBePrepared,
       ToLoseChunks, Differs, Unvouched, OutsideWalk, FullPass, ToBeWritten, ToBeRecorded

\* A failed write leaves its files on the retry list, or ends the run.
LEMMA FailWriteFile ==
    ASSUME TypeOK, TypeOK', RunInv, NEW p \in Paths, FileInv(p), FailWrite,
           pc \in {"delete", "insert", "record"},
           UNCHANGED <<treeVars, snapVars, cache, vectors>>
    PROVE  FileInv(p)'
  <1>1. OnceHeld(p)' /\ SnapshotVouchesFor(p)' /\ CacheVouchesFor(p)'
    BY DEF FailWrite, Stop, Nothing, FileInv, OnceHeld, Seen, SnapshotVouchesFor,
       CacheVouchesFor, Unchanged
  <1>2. WalkVouchesFor(p)'
    BY DEF FailWrite, Pending, Present, Stop, FileInv, WalkVouchesFor, Walked, Writing
  <1>3. ToBePrepared(p)' /\ ToLoseChunks(p)'
    BY DEF FailWrite, Stop, NothingPending, FileInv, ToBePrepared, ToLoseChunks
  <1>4. OutsideWalk(p)' /\ ToBeWritten(p)' /\ ToBeRecorded(p)'
    BY DEF FailWrite, Stop, NothingPending, Nothing, FileInv, OutsideWalk, Walked, Writing,
       FullPass, Differs, Unvouched, Unchanged, ToBeWritten, ToBeRecorded
  <1> QED BY <1>1, <1>2, <1>3, <1>4 DEF FileInv

\* A write deletes chunks of files that nothing vouches for.
LEMMA DeleteChunksFile ==
    ASSUME TypeOK, TypeOK', RunInv, NEW p \in Paths, FileInv(p), DeleteChunks
    PROVE  FileInv(p)'
  <1>1. CASE FailWrite /\ UNCHANGED vectors BY <1>1, FailWriteFile DEF DeleteChunks
  <1>2. CASE pc' = "insert" /\ vectors' = Without(vectors, Pending)
             /\ UNCHANGED <<pending, todo, retry, runVars>>
    <2>1. OnceHeld(p)' /\ ToBePrepared(p)' /\ ToLoseChunks(p)' /\ OutsideWalk(p)' /\
          ToBeWritten(p)' /\ ToBeRecorded(p)'
      BY <1>2 DEF DeleteChunks, Without, Pending, Present, FileInv, OnceHeld, Seen, TypeOK,
         ToBePrepared, ToLoseChunks, Writing, Differs, Unvouched, Unchanged, OutsideWalk,
         Walked, FullPass, ToBeWritten, ToBeRecorded
    <2>2. SnapshotVouchesFor(p)'
      BY <1>2 DEF DeleteChunks, Without, Pending, Present, FileInv, SnapshotVouchesFor,
         Writing, Differs, Unvouched, ToLoseChunks, ToBeWritten
    <2>3. CacheVouchesFor(p)'
      BY <1>2, CodeNotAbsent DEF DeleteChunks, Without, Pending, Present, FileInv,
         CacheVouchesFor, Unchanged, Writing, Differs, Unvouched, OnceHeld,
         SnapshotVouchesFor, WalkVouchesFor, ToBePrepared, ToLoseChunks, OutsideWalk,
         ToBeWritten
    <2>4. WalkVouchesFor(p)'
      BY <1>2 DEF DeleteChunks, Without, Pending, Present, FileInv, WalkVouchesFor, Walked,
         Writing, TypeOK, Differs, ToLoseChunks
    <2> QED BY <2>1, <2>2, <2>3, <2>4 DEF FileInv
  <1> QED BY <1>1, <1>2 DEF DeleteChunks

\* The step InsertChunks keeps the invariant of a file.
LEMMA InsertChunksFile ==
    ASSUME TypeOK, TypeOK', RunInv, NEW p \in Paths, FileInv(p), InsertChunks
    PROVE  FileInv(p)'
  <1>1. CASE FailWrite /\ UNCHANGED vectors BY <1>1, FailWriteFile DEF InsertChunks
  <1>2. CASE pc' = "record" /\ vectors' = Put(vectors)
             /\ UNCHANGED <<pending, todo, retry, runVars>>
    <2>1. WalkVouchesFor(p)' /\ ToBePrepared(p)' /\ ToLoseChunks(p)' /\ OutsideWalk(p)' /\
          ToBeWritten(p)' /\ ToBeRecorded(p)'
      BY <1>2 DEF InsertChunks, Put, FileInv, WalkVouchesFor, Walked, Writing, ToBePrepared,
         ToLoseChunks, Differs, Unvouched, Unchanged, OutsideWalk, FullPass, ToBeWritten,
         ToBeRecorded
    <2>2. OnceHeld(p)'
      BY <1>2 DEF InsertChunks, Put, FileInv, OnceHeld, Seen, ToBeWritten
    <2>3. SnapshotVouchesFor(p)'
      BY <1>2 DEF InsertChunks, Put, FileInv, SnapshotVouchesFor, ToBeWritten
    <2>4. CacheVouchesFor(p)'
      BY <1>2 DEF InsertChunks, Put, FileInv, CacheVouchesFor, Unchanged, ToBeWritten
    <2> QED BY <2>1, <2>2, <2>3, <2>4 DEF FileInv
  <1> QED BY <1>1, <1>2 DEF InsertChunks

\* The cache records what the vector store has.
LEMMA RecordFile ==
    ASSUME TypeOK, TypeOK', RunInv, NEW p \in Paths, FileInv(p), NEW o \in Paths, Record(o)
    PROVE  FileInv(p)'
  <1>1. CASE FailWrite /\ UNCHANGED cache BY <1>1, FailWriteFile DEF Record
  <1>2. CASE cache' = [cache EXCEPT ![o] = <<prepared[o], tree[o]>>]
             /\ prepared' = [prepared EXCEPT ![o] = Absent]
             /\ UNCHANGED <<pc, gone, cleared, todo, retry, runVars>>
    <2>1. SnapshotVouchesFor(p)' /\ ToBePrepared(p)' /\ ToLoseChunks(p)' /\ OutsideWalk(p)'
          /\ ToBeWritten(p)' /\ ToBeRecorded(p)'
      BY <1>2 DEF Record, FileInv, SnapshotVouchesFor, TypeOK, ToBePrepared, ToLoseChunks,
         Differs, Unvouched, Unchanged, OutsideWalk, FullPass, ToBeWritten, ToBeRecorded
    <2>a. UNCHANGED <<tree, written, snapshot, vectors, merkle>> BY <1>2 DEF Record
    <2>b. \/ cache'[p] = cache[p]
          \/ cache'[p] = <<tree[p], tree[p]>> /\ vectors[p] = tree[p]
      <3>1. CASE p # o BY <1>2, <3>1
      <3>2. CASE p = o
        <4>1. prepared[p] = tree[p] /\ vectors[p] = prepared[p]
          BY <3>2 DEF Record, FileInv, ToBeWritten, ToBeRecorded
        <4> QED BY <1>2, <3>2, <4>1
      <3> QED BY <3>1, <3>2
    <2>2. OnceHeld(p)' BY <2>a, <2>b DEF FileInv, OnceHeld, Seen
    <2>3. CacheVouchesFor(p)' BY <2>a, <2>b DEF FileInv, CacheVouchesFor, Unchanged
    <2>4. WalkVouchesFor(p)'
      BY <1>2 DEF Record, FileInv, WalkVouchesFor, ToBeWritten, ToBeRecorded
    <2> QED BY <2>1, <2>2, <2>3, <2>4 DEF FileInv
  <1> QED BY <1>1, <1>2 DEF Record

\* The step EndWrite keeps the invariant of a file.
LEMMA EndWriteFile ==
    ASSUME TypeOK, TypeOK', RunInv, NEW p \in Paths, FileInv(p), EndWrite
    PROVE  FileInv(p)'
  <1> QED
    BY DEF EndWrite, Present, FileInv, OnceHeld, Seen, SnapshotVouchesFor, CacheVouchesFor,
       Unchanged, WalkVouchesFor, Walked, Writing, ToBePrepared, ToLoseChunks, Differs,
       Unvouched, OutsideWalk, FullPass, ToBeWritten, ToBeRecorded

\* The step Forget(o) keeps the invariant of a file.
LEMMA ForgetFile ==
    ASSUME TypeOK, TypeOK', RunInv, NEW p \in Paths, FileInv(p), NEW o \in Paths, Forget(o)
    PROVE  FileInv(p)'
  <1>1. CASE UNCHANGED cache
    <2>1. OnceHeld(p)' /\ SnapshotVouchesFor(p)' /\ CacheVouchesFor(p)' /\
          WalkVouchesFor(p)' /\ ToBePrepared(p)' /\ OutsideWalk(p)' /\ ToBeWritten(p)' /\
          ToBeRecorded(p)'
      BY <1>1 DEF Forget, FileInv, OnceHeld, Seen, SnapshotVouchesFor, CacheVouchesFor,
         Unchanged, WalkVouchesFor, Walked, Writing, ToBePrepared, OutsideWalk, FullPass,
         Differs, Unvouched, ToBeWritten, ToBeRecorded
    <2>2. ToLoseChunks(p)'
      BY <1>1 DEF Forget, FileInv, ToLoseChunks, Writing, RunInv
    <2> QED BY <2>1, <2>2 DEF FileInv
  <1>2. CASE cache' = [cache EXCEPT ![o] = <<Absent, Absent>>] /\ UNCHANGED retry
    <2>1. OnceHeld(p)' /\ SnapshotVouchesFor(p)' /\ CacheVouchesFor(p)' /\
          WalkVouchesFor(p)' /\ ToBePrepared(p)' /\ OutsideWalk(p)' /\ ToBeWritten(p)' /\
          ToBeRecorded(p)'
      BY <1>2, CodeNotAbsent DEF Forget, FileInv, OnceHeld, Seen, SnapshotVouchesFor,
         CacheVouchesFor, Unchanged, WalkVouchesFor, Walked, Writing, ToBePrepared,
         OutsideWalk, FullPass, Differs, Unvouched, ToBeWritten, ToBeRecorded
    <2>2. ToLoseChunks(p)'
      BY <1>2 DEF Forget, FileInv, ToLoseChunks, Writing, RunInv
    <2> QED BY <2>1, <2>2 DEF FileInv
  <1> QED BY <1>1, <1>2 DEF Forget

\* The step Commit keeps the invariant of a file.
LEMMA CommitFile ==
    ASSUME TypeOK, TypeOK', RunInv, NEW p \in Paths, FileInv(p), Commit
    PROVE  FileInv(p)'
  <1>1. OnceHeld(p)' /\ SnapshotVouchesFor(p)' /\ CacheVouchesFor(p)' /\ WalkVouchesFor(p)'
        /\ ToBePrepared(p)' /\ OutsideWalk(p)' /\ ToBeWritten(p)' /\ ToBeRecorded(p)'
    BY DEF Commit, FileInv, OnceHeld, Seen, SnapshotVouchesFor, CacheVouchesFor, Unchanged,
       WalkVouchesFor, Walked, Writing, ToBePrepared, OutsideWalk, FullPass, Differs,
       Unvouched, ToBeWritten, ToBeRecorded
  <1>2. ToLoseChunks(p)'
    BY DEF Commit, FileInv, ToLoseChunks, RunInv
  <1> QED BY <1>1, <1>2 DEF FileInv

\* A full pass drops what its walk did not find.
LEMMA DropFile ==
    ASSUME TypeOK, TypeOK', RunInv, NEW p \in Paths, FileInv(p), Drop
    PROVE  FileInv(p)'
  <1>1. OnceHeld(p)' /\ ToBePrepared(p)' /\ ToLoseChunks(p)' /\ OutsideWalk(p)' /\
        ToBeWritten(p)' /\ ToBeRecorded(p)'
    BY DEF Drop, Without, FileInv, OnceHeld, Seen, ToBePrepared, ToLoseChunks, Writing,
       Differs, Unvouched, Unchanged, OutsideWalk, Walked, FullPass, ToBeWritten,
       ToBeRecorded
  <1>2. SnapshotVouchesFor(p)'
    BY DEF Drop, FileInv, SnapshotVouchesFor, RunInv, FullPass
  <1>3. CacheVouchesFor(p)'
    BY DEF Drop, Without, FileInv, CacheVouchesFor, Unchanged, RunInv, Walked, Differs,
       Unvouched, OutsideWalk
  <1>4. WalkVouchesFor(p)'
    BY DEF Drop, Without, FileInv, WalkVouchesFor, Walked, RunInv, Differs, OutsideWalk
  <1> QED BY <1>1, <1>2, <1>3, <1>4 DEF FileInv

\* The step DropCommit keeps the invariant of a file.
LEMMA DropCommitFile ==
    ASSUME TypeOK, TypeOK', RunInv, NEW p \in Paths, FileInv(p), DropCommit
    PROVE  FileInv(p)'
  <1> QED
    BY CodeNotAbsent DEF DropCommit, Forgotten, FileInv, OnceHeld, Seen, SnapshotVouchesFor,
       CacheVouchesFor, Unchanged, WalkVouchesFor, Walked, Writing, ToBePrepared,
       ToLoseChunks, Differs, Unvouched, OutsideWalk, FullPass, ToBeWritten, ToBeRecorded

\* A crash leaves what the last step left.
LEMMA CrashFile ==
    ASSUME TypeOK, TypeOK', RunInv, NEW p \in Paths, FileInv(p), Crash
    PROVE  FileInv(p)'
  <1> QED
    BY DEF Crash, Stop, NothingPending, Nothing, FileInv, OnceHeld, Seen,
       SnapshotVouchesFor, CacheVouchesFor, Unchanged, WalkVouchesFor, Walked, Writing,
       ToBePrepared, ToLoseChunks, OutsideWalk, ToBeWritten, ToBeRecorded

\* What an edit writes is new: nothing vouches for it.
LEMMA EditFile ==
    ASSUME TypeOK, TypeOK', Careful, RunInv, NEW p \in Paths, FileInv(p),
           NEW o \in Paths, NEW c \in Held, Edit(o, c)
    PROVE  FileInv(p)'
  <1>a. CASE p # o
    <2>1. UNCHANGED tree[p] /\ \A d : <<p, d>> \in written => <<p, d>> \in written'
      BY <1>a DEF Edit
    <2>2. UNCHANGED <<snapVars, storeVars, pc, runVars, todo, pending, retry>> BY DEF Edit
    <2>3. OnceHeld(p)' /\ SnapshotVouchesFor(p)' /\ CacheVouchesFor(p)'
      BY <2>1, <2>2 DEF FileInv, Seen, Unchanged, OnceHeld, SnapshotVouchesFor,
         CacheVouchesFor
    <2>4. WalkVouchesFor(p)' /\ ToBePrepared(p)' /\ ToLoseChunks(p)'
      BY <2>1, <2>2 DEF FileInv, Unchanged, WalkVouchesFor, ToBePrepared, ToLoseChunks,
         Differs, Unvouched
    <2>5. OutsideWalk(p)' /\ ToBeWritten(p)' /\ ToBeRecorded(p)'
      BY <2>1, <2>2 DEF FileInv, Unchanged, FullPass, OutsideWalk, Differs, Unvouched,
         ToBeWritten, ToBeRecorded
    <2> QED BY <2>3, <2>4, <2>5 DEF FileInv
  <1>b. CASE p = o
    <2>1. tree'[p] = c BY <1>b DEF Edit, TypeOK
    <2>2. UNCHANGED <<snapVars, storeVars, pc, runVars, todo, pending, retry>> BY DEF Edit
    <2>3. prepared[p] = Absent
      BY <1>b, CallsAssumption DEF Edit, Careful, EditTimesKinds, FileInv, ToBeWritten,
         Writing
    <2>4. c # Absent => <<p, c>> \notin written /\ <<p, c>> \in written'
      BY <1>b DEF Edit, Careful, Held
    <2>5. \A d : <<p, d>> \in written => <<p, d>> \in written' BY DEF Edit
    <2>6. c # Absent => c \notin {snapshot[p], vectors[p], merkle[p], cache[p][1],
       cache[p][2]}
      BY <2>4 DEF FileInv, OnceHeld, Seen
    <2>7. OnceHeld(p)' /\ SnapshotVouchesFor(p)' /\ CacheVouchesFor(p)'
      BY <2>1, <2>2, <2>3, <2>4, <2>5, <2>6, CodeNotAbsent DEF FileInv, OnceHeld, Seen,
         SnapshotVouchesFor, CacheVouchesFor, Unchanged
    <2>8. WalkVouchesFor(p)' /\ ToBePrepared(p)' /\ ToLoseChunks(p)'
      BY <2>1, <2>2, <2>3, <2>4, <2>5, <2>6, CodeNotAbsent DEF FileInv, WalkVouchesFor,
         ToBePrepared, ToLoseChunks, Differs, Unvouched, Unchanged
    <2>9. OutsideWalk(p)' /\ ToBeWritten(p)' /\ ToBeRecorded(p)'
      BY <2>1, <2>2, <2>3, <2>4, <2>5, <2>6, CodeNotAbsent DEF FileInv, OutsideWalk,
         FullPass, Differs, Unvouched, Unchanged, ToBeWritten, ToBeRecorded
    <2> QED BY <2>7, <2>8, <2>9 DEF FileInv
  <1> QED BY <1>a, <1>b

\* A run starts with nothing pending.
LEMMA StartRunFile ==
    ASSUME TypeOK, TypeOK', RunInv, NEW p \in Paths, FileInv(p), NEW k \in Runs, StartRun(k)
    PROVE  FileInv(p)'
  <1>1. OnceHeld(p)' /\ SnapshotVouchesFor(p)' /\ CacheVouchesFor(p)'
    BY DEF StartRun, Nothing, FileInv, OnceHeld, Seen, SnapshotVouchesFor, CacheVouchesFor,
       Unchanged
  <1>2. WalkVouchesFor(p)' /\ ToBePrepared(p)' /\ ToLoseChunks(p)'
    BY DEF StartRun, FileInv, WalkVouchesFor, Walked, Writing, ToBePrepared, ToLoseChunks
  <1>3. OutsideWalk(p)' /\ ToBeWritten(p)' /\ ToBeRecorded(p)'
    BY DEF StartRun, FileInv, OutsideWalk, Walked, Writing, ToBeWritten, ToBeRecorded
  <1> QED BY <1>1, <1>2, <1>3 DEF FileInv

\* The snapshot a repair deletes vouches for nothing.
LEMMA RepairSnapshotFile ==
    ASSUME TypeOK, TypeOK', RunInv, NEW p \in Paths, FileInv(p), RepairSnapshot
    PROVE  FileInv(p)'
  <1>0. snapshot'[p] = snapshot[p] \/ snapshot'[p] = Absent BY DEF RepairSnapshot, Nothing
  <1>1. OnceHeld(p)' /\ SnapshotVouchesFor(p)' /\ CacheVouchesFor(p)'
    BY <1>0 DEF RepairSnapshot, FileInv, OnceHeld, Seen, SnapshotVouchesFor,
       CacheVouchesFor, Unchanged
  <1>2. WalkVouchesFor(p)' /\ ToBePrepared(p)' /\ ToLoseChunks(p)'
    BY DEF RepairSnapshot, FileInv, WalkVouchesFor, Walked, Writing, ToBePrepared,
       ToLoseChunks
  <1>3. OutsideWalk(p)' /\ ToBeWritten(p)' /\ ToBeRecorded(p)'
    BY DEF RepairSnapshot, FileInv, OutsideWalk, Walked, Writing, ToBeWritten, ToBeRecorded
  <1> QED BY <1>1, <1>2, <1>3 DEF FileInv

\* The walk: the files that changed are prepared or deleted, what did not change
\* is vouched for by the snapshot.
LEMMA LoadFile ==
    ASSUME TypeOK, TypeOK', RunInv, \A o \in Paths : OnceHeld(o),
           NEW p \in Paths, FileInv(p), Load
    PROVE  FileInv(p)'
  <1>a. \A o \in Paths : Seen(o, tree[o]) /\ Seen(o, snapshot[o]) BY DEF OnceHeld
  <1>b. OwnContents /\ tree \in [Paths -> Held] /\ snapshot \in [Paths -> Held]
    BY DEF RunInv, TypeOK
  <1>c. Changes(tree, snapshot) = {o \in Paths : tree[o] # snapshot[o]}
    BY <1>a, <1>b, ChangesFound
  <1>0. Changes(tree, snapshot) = {} => tree[p] = snapshot[p] BY <1>c
  <1>1. OnceHeld(p)'
    BY DEF Load, Added, Modified, Deleted, OnceHeld, Seen, FileInv
  <1>2. SnapshotVouchesFor(p)'
    BY DEF Load, Added, Modified, Deleted, SnapshotVouchesFor, FileInv
  <1>3. CacheVouchesFor(p)'
    BY DEF Load, Added, Modified, Deleted, CacheVouchesFor, Unchanged, FileInv
  <1>4. WalkVouchesFor(p)'
    BY <1>0, CodeNotAbsent DEF Load, Added, Modified, Deleted, Present, SnapshotVouchesFor,
       WalkVouchesFor, Walked, Writing, FileInv
  <1>5. ToBePrepared(p)'
    BY DEF Load, Added, Modified, Deleted, Present, ToBePrepared, FileInv
  <1>6. ToLoseChunks(p)'
    BY CodeNotAbsent DEF Load, Added, Modified, Deleted, Present, ToLoseChunks, ToBeWritten,
       Differs, Unvouched, FileInv, RunInv, BeforeWalk
  <1>7. OutsideWalk(p)'
    BY DEF Load, Added, Modified, Deleted, OutsideWalk, Walked, Writing, FullPass, FileInv,
       RunInv
  <1>8. ToBeWritten(p)'
    BY DEF Load, Added, Modified, Deleted, ToBeWritten, Writing, FileInv
  <1>9. ToBeRecorded(p)'
    BY DEF Load, Added, Modified, Deleted, ToBeRecorded, FileInv
  <1> QED BY <1>1, <1>2, <1>3, <1>4, <1>5, <1>6, <1>7, <1>8, <1>9 DEF FileInv

\* What a run saves: the hashes of its walk for the files that are done, the old
\* ones for the files to retry.
LEMMA SaveFile ==
    ASSUME TypeOK, TypeOK', RunInv, NEW p \in Paths, FileInv(p), Save
    PROVE  FileInv(p)'
  <1>0. \/ UNCHANGED <<saved, snapshot>>
        \/ saved' /\ kind # "build" /\ p \in retry /\ snapshot'[p] = snapshot[p]
        \/ saved' /\ kind # "build" /\ p \notin retry /\ snapshot'[p] = merkle[p]
    BY DEF Save, SnapshotWithRetries
  <1>u. UNCHANGED <<tree, written, cache, vectors>> BY DEF Save
  <1>z. /\ pc = "save" /\ pc' = "idle"
        /\ merkle' = Nothing /\ prepared' = Nothing /\ todo' = {} /\ todo = {}
    BY DEF Save, Stop, NothingPending, RunInv
  <1>y. prepared[p] = Absent BY <1>z DEF FileInv, ToBeWritten, Writing
  <1>1. OnceHeld(p)'
    BY <1>0, <1>u, <1>z DEF FileInv, OnceHeld, Nothing, Seen
  <1>2. SnapshotVouchesFor(p)'
    BY <1>0, <1>u, <1>z, <1>y, CodeNotAbsent DEF FileInv, SnapshotVouchesFor,
       WalkVouchesFor, Nothing, RunInv, Walked
  <1>3. CacheVouchesFor(p)'
    BY <1>u DEF FileInv, CacheVouchesFor, Unchanged
  <1>4. WalkVouchesFor(p)'
    BY <1>z, CodeNotAbsent DEF FileInv, WalkVouchesFor
  <1>5. ToBePrepared(p)'
    BY <1>z DEF FileInv, ToBePrepared
  <1>6. ToLoseChunks(p)'
    BY <1>z DEF FileInv, Writing, ToLoseChunks
  <1>7. OutsideWalk(p)'
    BY <1>z DEF FileInv, Walked, Writing, OutsideWalk
  <1>8. ToBeWritten(p)'
    BY <1>z DEF FileInv, Nothing, ToBeWritten
  <1>9. ToBeRecorded(p)'
    BY <1>z DEF FileInv, ToBeRecorded
  <1> QED BY <1>1, <1>2, <1>3, <1>4, <1>5, <1>6, <1>7, <1>8, <1>9 DEF FileInv

\* Every step keeps the invariant of the run.
LEMMA RunInvNext ==
    ASSUME TypeOK, TypeOK', Careful, RunInv, \A p \in Paths : FileInv(p), [Next]_vars
    PROVE  RunInv'
  <1>o. ASSUME UNCHANGED written PROVE OwnContents'
    BY <1>o DEF RunInv, OwnContents
  <1>1. ASSUME NEW p \in Paths, NEW c \in Held, Edit(p, c) PROVE RunInv'
    <2>1. OwnContents'
      <3> SUFFICES ASSUME NEW o \in Paths, NEW r \in Paths, NEW d \in Contents,
                          <<o, d>> \in written', <<r, d>> \in written'
                   PROVE  o = r
        BY DEF OwnContents
      <3>1. CASE d = c
        BY <1>1, <3>1, ContentsAssumption DEF Edit, Careful
      <3>2. CASE d # c
        BY <1>1, <3>2 DEF Edit, RunInv, OwnContents
      <3> QED BY <3>1, <3>2
    <2> QED BY <1>1, <2>1 DEF Edit, RunInv, FullPass
  <1>2. ASSUME NEW k \in Runs, StartRun(k) PROVE RunInv'
    BY <1>2, <1>o DEF StartRun, RunInv, Walked, Writing
  <1>3. CASE ClearCache
    BY <1>3, <1>o DEF ClearCache, RunInv, BeforeWalk, Walked, Writing
  <1>4. CASE ClearBm25
    BY <1>4, <1>o DEF ClearBm25, RunInv, BeforeWalk, Walked, Writing
  <1>5. CASE ClearVectors
    BY <1>5, <1>o DEF ClearVectors, RunInv, BeforeWalk, Walked, Writing
  <1>6. CASE CleanSnapshot
    BY <1>6, <1>o DEF CleanSnapshot, RunInv, BeforeWalk
  <1>7. CASE CleanCache
    BY <1>7, <1>o DEF CleanCache, RunInv, FullPass, BeforeWalk
  <1>8. CASE RepairCache
    BY <1>8, <1>o DEF RepairCache, RunInv, BeforeWalk, Walked, Writing
  <1>9. CASE RepairTree
    BY <1>9, <1>o DEF RepairTree, RunInv, BeforeWalk, Walked, Writing
  <1>10. CASE RepairCommit
    BY <1>10, <1>o DEF RepairCommit, RunInv, BeforeWalk, Walked, Writing
  <1>11. CASE RepairSnapshot
    BY <1>11, <1>o DEF RepairSnapshot, RunInv, BeforeWalk, Walked, Writing
  <1>12. CASE Load
    BY <1>12, <1>o DEF Load, RunInv, FullPass, BeforeWalk
  <1>13. CASE FullWalk
    BY <1>13, <1>o DEF FullWalk, RunInv, BeforeWalk, Walked, Writing
  <1>14. CASE StartWrite
    BY <1>14, <1>o DEF StartWrite, RunInv, BeforeWalk, Walked, Writing, Pending
  <1>15. CASE DeleteChunks
    BY <1>15, <1>o DEF DeleteChunks, RunInv, BeforeWalk, Walked, Writing, Stop,
       NothingPending, FailWrite, AfterWrite
  <1>16. CASE InsertChunks
    BY <1>16, <1>o DEF InsertChunks, RunInv, BeforeWalk, Walked, Writing, Stop,
       NothingPending, FailWrite, AfterWrite
  <1>17. CASE EndWrite
    BY <1>17, <1>o DEF EndWrite, RunInv, FullPass, BeforeWalk, Walked, Writing, AfterWrite
  <1>18. CASE Commit
    BY <1>18, <1>o DEF Commit, RunInv, FullPass, BeforeWalk, Walked, Writing
  <1>19. CASE Drop
    BY <1>19, <1>o DEF Drop, RunInv, FullPass, BeforeWalk, Walked
  <1>20. CASE DropCommit
    BY <1>20, <1>o DEF DropCommit, RunInv, BeforeWalk, Walked
  <1>21. CASE Save
    BY <1>21, <1>o DEF Save, RunInv, BeforeWalk, Stop, NothingPending
  <1>22. CASE Crash
    BY <1>22, <1>o DEF Crash, RunInv, BeforeWalk, Stop, NothingPending
  <1>23. CASE ClearStores
    BY <1>23, <1>o DEF ClearStores, Careful
  <1>24. ASSUME NEW p \in Paths, Prepare(p) PROVE RunInv'
    BY <1>24, <1>o DEF Prepare, RunInv
  <1>25. ASSUME NEW p \in Paths, Record(p) PROVE RunInv'
    BY <1>25, <1>o DEF Record, RunInv, BeforeWalk, Walked, Writing, Stop, NothingPending,
       FailWrite, AfterWrite
  <1>26. ASSUME NEW p \in Paths, Forget(p) PROVE RunInv'
    BY <1>26, <1>o DEF Forget, RunInv, FullPass, BeforeWalk, Walked, Writing, AfterWrite
  <1>27. CASE UNCHANGED vars BY <1>27 DEF vars, RunInv, OwnContents, FullPass
  <1> QED BY <1>1, <1>2, <1>3, <1>4, <1>5, <1>6, <1>7, <1>8, <1>9, <1>10, <1>11, <1>12,
     <1>13, <1>14, <1>15, <1>16, <1>17, <1>18, <1>19, <1>20, <1>21, <1>22, <1>23, <1>24,
     <1>25, <1>26, <1>27 DEF Next, RunStep

\* Every step keeps the invariant of every file.
LEMMA FileInvNext ==
    ASSUME TypeOK, TypeOK', Careful, RunInv, \A o \in Paths : FileInv(o), [Next]_vars,
           NEW p \in Paths
    PROVE  FileInv(p)'
  <1>0. FileInv(p) OBVIOUS
  <1>1. ASSUME NEW o \in Paths, NEW c \in Held, Edit(o, c) PROVE FileInv(p)'
    BY <1>0, <1>1, EditFile
  <1>2. ASSUME NEW k \in Runs, StartRun(k) PROVE FileInv(p)' BY <1>0, <1>2, StartRunFile
  <1>3. CASE ClearCache BY <1>0, <1>3, ClearCacheFile
  <1>4. CASE ClearBm25 BY <1>0, <1>4, ClearBm25File
  <1>5. CASE ClearVectors BY <1>0, <1>5, ClearVectorsFile
  <1>6. CASE CleanSnapshot BY <1>0, <1>6, CleanSnapshotFile
  <1>7. CASE CleanCache BY <1>0, <1>7, CleanCacheFile
  <1>8. CASE RepairCache BY <1>0, <1>8, RepairCacheFile
  <1>9. CASE RepairTree BY <1>0, <1>9, RepairTreeFile
  <1>10. CASE RepairCommit BY <1>0, <1>10, RepairCommitFile
  <1>11. CASE RepairSnapshot BY <1>0, <1>11, RepairSnapshotFile
  <1>12. CASE Load
    <2>1. \A o \in Paths : OnceHeld(o) BY DEF FileInv
    <2> QED BY <1>0, <1>12, <2>1, LoadFile
  <1>13. CASE FullWalk BY <1>0, <1>13, FullWalkFile
  <1>14. CASE StartWrite BY <1>0, <1>14, StartWriteFile
  <1>15. CASE DeleteChunks BY <1>0, <1>15, DeleteChunksFile
  <1>16. CASE InsertChunks BY <1>0, <1>16, InsertChunksFile
  <1>17. CASE EndWrite BY <1>0, <1>17, EndWriteFile
  <1>18. CASE Commit BY <1>0, <1>18, CommitFile
  <1>19. CASE Drop BY <1>0, <1>19, DropFile
  <1>20. CASE DropCommit BY <1>0, <1>20, DropCommitFile
  <1>21. CASE Save BY <1>0, <1>21, SaveFile
  <1>22. CASE Crash BY <1>0, <1>22, CrashFile
  <1>23. CASE ClearStores BY <1>23 DEF ClearStores, Careful
  <1>24. ASSUME NEW o \in Paths, Prepare(o) PROVE FileInv(p)' BY <1>0, <1>24, PrepareFile
  <1>25. ASSUME NEW o \in Paths, Record(o) PROVE FileInv(p)' BY <1>0, <1>25, RecordFile
  <1>26. ASSUME NEW o \in Paths, Forget(o) PROVE FileInv(p)' BY <1>0, <1>26, ForgetFile
  <1>27. CASE UNCHANGED vars
    BY <1>27 DEF vars, FileInv, FullPass, Seen, Unchanged, Unvouched, Differs, OnceHeld,
       SnapshotVouchesFor, CacheVouchesFor, WalkVouchesFor, ToBePrepared, ToLoseChunks,
       OutsideWalk, ToBeWritten, ToBeRecorded
  <1> QED BY <1>1, <1>2, <1>3, <1>4, <1>5, <1>6, <1>7, <1>8, <1>9, <1>10, <1>11, <1>12,
     <1>13, <1>14, <1>15, <1>16, <1>17, <1>18, <1>19, <1>20, <1>21, <1>22, <1>23, <1>24,
     <1>25, <1>26, <1>27 DEF Next, RunStep

\* Every step keeps the invariant of a run.
LEMMA InvNext == IInv /\ [Next]_vars => IInv'
  <1> SUFFICES ASSUME IInv, [Next]_vars PROVE IInv'
    OBVIOUS
  <1>1. TypeOK' BY TypeNext DEF IInv
  <1>2. CASE ~Careful BY <1>1, <1>2 DEF IInv, Careful
  <1>3. CASE Careful
    <2>1. TypeOK /\ RunInv /\ \A p \in Paths : FileInv(p) BY <1>3 DEF IInv
    <2>2. RunInv' BY <1>1, <1>3, <2>1, RunInvNext
    <2>3. ASSUME NEW p \in Paths PROVE FileInv(p)' BY <1>1, <1>3, <2>1, FileInvNext
    <2> QED BY <1>1, <2>2, <2>3 DEF IInv
  <1> QED BY <1>2, <1>3

-----------------------------------------------------------------------------
(* The two stores *)

\* What the actions below have in common: files are prepared, and written, only
\* while they are on disk.
LEMMA PreparedNext ==
    ASSUME TypeOK, EditTimes # "any", PreparedIsThere, [Next]_vars
    PROVE  PreparedIsThere'
  <1> USE DEF PreparedIsThere, Writing
  <1>0. \A p \in Paths : Nothing[p] = Absent BY DEF Nothing
  <1> USE DEF treeVars, snapVars, storeVars, runVars, pending
  <1>1. ASSUME NEW p \in Paths, NEW c \in Held, Edit(p, c) PROVE PreparedIsThere'
    <2>1. prepared[p] = Absent
      BY <1>1, CallsAssumption DEF Edit, EditTimesKinds
    <2> QED BY <1>1, <2>1 DEF Edit, TypeOK
  <1>2. ASSUME NEW k \in Runs, StartRun(k) PROVE PreparedIsThere'
    BY <1>2 DEF StartRun
  <1>3. CASE ClearCache \/ ClearBm25 \/ ClearVectors \/ CleanSnapshot \/ CleanCache
    BY <1>3 DEF ClearCache, ClearBm25, ClearVectors, CleanSnapshot, CleanCache
  <1>4. CASE RepairCache \/ RepairTree \/ RepairCommit \/ RepairSnapshot \/ Load \/ FullWalk
    BY <1>4 DEF RepairCache, RepairTree, RepairCommit, RepairSnapshot, Load, FullWalk
  <1>5. CASE StartWrite
    BY <1>5 DEF StartWrite, Pending, Present
  <1>6. CASE DeleteChunks
    BY <1>0, <1>6 DEF DeleteChunks, FailWrite, Stop, NothingPending
  <1>7. CASE InsertChunks
    BY <1>0, <1>7 DEF InsertChunks, FailWrite, Stop, NothingPending
  <1>8. CASE EndWrite
    BY <1>8 DEF EndWrite, Present
  <1>9. CASE Commit \/ Drop \/ DropCommit
    BY <1>9 DEF Commit, Drop, DropCommit
  <1>10. CASE Save \/ Crash
    BY <1>0, <1>10 DEF Save, Crash, Stop, NothingPending
  <1>11. CASE ClearStores
    BY <1>11 DEF ClearStores
  <1>12. ASSUME NEW p \in Paths, Prepare(p) PROVE PreparedIsThere'
    BY <1>12, CodeNotAbsent DEF Prepare, TypeOK
  <1>13. ASSUME NEW p \in Paths, Record(p) PROVE PreparedIsThere'
    BY <1>0, <1>13 DEF Record, FailWrite, Stop, NothingPending, TypeOK
  <1>14. ASSUME NEW p \in Paths, Forget(p) PROVE PreparedIsThere'
    BY <1>14 DEF Forget
  <1>15. CASE UNCHANGED vars
    BY <1>15 DEF vars
  <1> QED BY <1>1, <1>2, <1>3, <1>4, <1>5, <1>6, <1>7, <1>8, <1>9, <1>10, <1>11, <1>12,
     <1>13, <1>14, <1>15 DEF Next, RunStep

\* A refilled BM25 index is the vector store, if it is that or empty.
LEMMA RefilledAgrees ==
    ASSUME bm25 = vectors \/ bm25 = Nothing
    PROVE  Refilled = vectors
  <1>1. bm25 = Nothing => Present(bm25) = {} BY DEF Nothing, Present
  <1> QED BY <1>1 DEF Refilled

\* As long as nothing fails, the stores change together.
LEMMA StoresNext ==
    ASSUME TypeOK, PreparedIsThere, StoresInStep, [Next]_vars
    PROVE  StoresInStep'
  <1> SUFFICES ASSUME faults' = 0 PROVE StoresInStep'
    BY DEF StoresInStep
  <1> USE DEF StoresInStep, treeVars, snapVars, storeVars, runVars, pending
  <1>0. \A f : ~ Fails(f)
    BY DEF Fails, TypeOK
  <1>1. ASSUME NEW p \in Paths, NEW c \in Held, Edit(p, c) PROVE StoresInStep'
    BY <1>1 DEF Edit
  <1>2. ASSUME NEW k \in Runs, StartRun(k) PROVE StoresInStep'
    BY <1>2 DEF StartRun
  <1>3. CASE ClearCache
    BY <1>3, RefilledAgrees DEF ClearCache
  <1>4. CASE ClearBm25 \/ ClearVectors \/ CleanSnapshot
    BY <1>4 DEF ClearBm25, ClearVectors, CleanSnapshot
  <1>5. CASE CleanCache
    BY <1>5, RefilledAgrees DEF CleanCache
  <1>6. CASE RepairCache
    BY <1>6, RefilledAgrees DEF RepairCache
  <1>7. CASE RepairTree
    BY <1>0, <1>7 DEF RepairTree
  <1>8. CASE RepairCommit \/ RepairSnapshot
    BY <1>8 DEF RepairCommit, RepairSnapshot
  <1>9. CASE Load
    BY <1>9, RefilledAgrees DEF Load
  <1>10. CASE FullWalk \/ StartWrite
    BY <1>10 DEF FullWalk, StartWrite
  <1>11. CASE DeleteChunks
    BY <1>0, <1>11 DEF DeleteChunks
  <1>12. CASE InsertChunks
    BY <1>0, <1>12 DEF InsertChunks
  <1>13. CASE EndWrite
    BY <1>13 DEF EndWrite, AfterWrite
  <1>14. CASE Commit
    BY <1>14 DEF Commit
  <1>15. CASE Drop
    BY <1>0, <1>15 DEF Drop
  <1>16. CASE DropCommit
    BY <1>16 DEF DropCommit
  <1>17. CASE Save
    BY <1>17 DEF Save, Stop
  <1>18. CASE Crash
    BY <1>0, <1>18 DEF Crash
  <1>19. CASE ClearStores
    BY <1>19 DEF ClearStores
  <1>20. ASSUME NEW p \in Paths, Prepare(p) PROVE StoresInStep'
    BY <1>0, <1>20 DEF Prepare
  <1>21. ASSUME NEW p \in Paths, Record(p) PROVE StoresInStep'
    BY <1>0, <1>21 DEF Record, PreparedIsThere
  <1>22. ASSUME NEW p \in Paths, Forget(p) PROVE StoresInStep'
    BY <1>0, <1>22 DEF Forget, AfterWrite
  <1>23. CASE UNCHANGED vars
    BY <1>23 DEF vars
  <1> QED BY <1>1, <1>2, <1>3, <1>4, <1>5, <1>6, <1>7, <1>8, <1>9, <1>10, <1>11, <1>12,
     <1>13, <1>14, <1>15, <1>16, <1>17, <1>18, <1>19, <1>20, <1>21, <1>22, <1>23
     DEF Next, RunStep

-----------------------------------------------------------------------------
(* The health check *)

\* As long as nothing fails, a cached file keeps its vectors.
LEMMA CachedNext ==
    ASSUME TypeOK, TypeOK', RunInv, \A o \in Paths : FileInv(o), PreparedIsThere,
           CachedHaveVectors, [Next]_vars
    PROVE  CachedHaveVectors'
  <1> SUFFICES ASSUME faults' = 0, Oversize = {} PROVE CachedHaveVectors'
    BY DEF CachedHaveVectors
  <1> USE DEF CachedHaveVectors, CachedPaths
  <1>0. (\A f : ~ Fails(f)) /\ (faults' = faults => faults = 0)
    BY DEF Fails, TypeOK
  <1>n. \A p \in Paths : NoEntries[p] = <<Absent, Absent>> /\ Nothing[p] = Absent
    BY DEF NoEntries, Nothing
  <1>1. ASSUME NEW p \in Paths, NEW c \in Held, Edit(p, c) PROVE CachedHaveVectors'
    BY <1>0, <1>1 DEF Edit
  <1>2. ASSUME NEW k \in Runs, StartRun(k) PROVE CachedHaveVectors'
    BY <1>0, <1>2 DEF StartRun
  <1>3. CASE ClearCache \/ ClearStores \/ CleanCache
    BY <1>0, <1>n, <1>3 DEF ClearCache, ClearStores, CleanCache
  <1>4. CASE ClearBm25 \/ CleanSnapshot
    BY <1>0, <1>4 DEF ClearBm25, CleanSnapshot
  <1>5. CASE ClearVectors
    BY <1>0, <1>n, <1>5 DEF ClearVectors, RunInv
  <1>6. CASE RepairCache
    BY <1>0, <1>6 DEF RepairCache, StaleSkips, Forgotten
  <1>7. CASE RepairTree
    BY <1>0, <1>7 DEF RepairTree, Without
  <1>8. CASE RepairCommit
    BY <1>0, <1>8 DEF RepairCommit, Forgotten
  <1>9. CASE RepairSnapshot
    BY <1>0, <1>9 DEF RepairSnapshot
  <1>10. CASE Load \/ FullWalk
    BY <1>0, <1>10 DEF Load, FullWalk
  <1>11. CASE StartWrite
    BY <1>0, <1>11 DEF StartWrite
  <1>12. CASE DeleteChunks
    BY <1>0, <1>12 DEF DeleteChunks, Without, Pending, Present
  <1>13. CASE InsertChunks
    BY <1>0, <1>13 DEF InsertChunks, Put
  <1>14. CASE EndWrite
    BY <1>0, <1>14 DEF EndWrite, AfterWrite
  <1>15. CASE Commit
    BY <1>0, <1>15 DEF Commit
  <1>16. CASE Drop
    BY <1>0, <1>16 DEF Drop, Without
  <1>17. CASE DropCommit
    BY <1>0, <1>17 DEF DropCommit, Forgotten
  <1>18. CASE Save
    BY <1>0, <1>18 DEF Save, Stop, NothingPending
  <1>19. CASE Crash
    BY <1>0, <1>19 DEF Crash
  <1>20. ASSUME NEW p \in Paths, Prepare(p) PROVE CachedHaveVectors'
    BY <1>0, <1>20 DEF Prepare
  <1>21. ASSUME NEW p \in Paths, Record(p) PROVE CachedHaveVectors'
    <2>1. prepared[p] # Absent /\ pc = "record" /\ tree[p] # Absent
      BY <1>21 DEF Record, PreparedIsThere
    <2>2. vectors[p] # Absent
      BY <2>1 DEF FileInv, ToBeRecorded
    <2>3. /\ cache' = [cache EXCEPT ![p] = <<prepared[p], tree[p]>>]
          /\ UNCHANGED <<pc, gone, cleared, faults, vectors>>
      BY <1>0, <1>21, <2>1 DEF Record
    <2> QED
      BY <1>0, <2>1, <2>2, <2>3 DEF TypeOK
  <1>22. ASSUME NEW p \in Paths, Forget(p) PROVE CachedHaveVectors'
    BY <1>0, <1>22 DEF Forget, TypeOK
  <1>23. CASE UNCHANGED vars
    BY <1>0, <1>23 DEF vars
  <1> QED BY <1>1, <1>2, <1>3, <1>4, <1>5, <1>6, <1>7, <1>8, <1>9, <1>10, <1>11, <1>12,
     <1>13, <1>14, <1>15, <1>16, <1>17, <1>18, <1>19, <1>20, <1>21, <1>22, <1>23
     DEF Next, RunStep

\* What a probe sees and says, over whatever the runs left.
LEMMA ProbeNext ==
    ASSUME TypeOK, probe \in Probes, \A o \in Paths : FileInv(o), CachedHaveVectors,
           ReadingsStand, HealthHolds, health_check
    PROVE  (ReadingsStand /\ HealthHolds)'
  <1>0. UNCHANGED vars
    BY DEF health_check, OpenStores, ReadCache, CompareTree, ListStore
  <1>1. UNCHANGED <<tree, saved, snapshot, cache, vectors, pc, faults>>
    BY <1>0 DEF vars
  <1>2. DiskChanges' = DiskChanges /\ CachedPaths' = CachedPaths /\ NoGhosts' = NoGhosts
    BY <1>1 DEF DiskChanges, Added, Modified, Deleted, Present, CachedPaths, NoGhosts
  <1>3. CASE OpenStores
    <2>1. PICK project \in BOOLEAN :
             probe' = [probe EXCEPT !.at = IF project THEN "opened" ELSE "compared",
                                    !.project = project]
      BY <1>3 DEF OpenStores
    <2>2. probe = NoProbe
      BY <1>3 DEF OpenStores, ReadingsStand
    <2> QED
      BY <2>1, <2>2 DEF NoProbe, ReadingsStand, HealthHolds, HealthyIsIndexed, HealthyHasNoGhosts,
         NoFalseAlarm, Answered
  <1>4. CASE ReadCache
    <2>1. PICK paths \in read_cached_paths(probe.project) :
             probe' = [probe EXCEPT !.at = "cached", !.cached = paths,
                                    !.merkle = check_merkle(probe.project)]
      BY <1>4 DEF ReadCache
    <2>2. /\ probe'.at = "cached" /\ probe'.stale = probe.stale /\ probe'.fresh = probe.fresh
          /\ probe'.vouched = probe.vouched /\ probe'.cached = paths
      BY <2>1 DEF Probes
    <2>3. paths = {} \/ (pc' = "idle" /\ paths = CachedPaths')
      BY <1>1, <1>2, <2>1 DEF read_cached_paths
    <2> QED
      BY <1>4, <2>2, <2>3 DEF ReadCache, ReadingsStand, HealthHolds, HealthyIsIndexed,
         HealthyHasNoGhosts, NoFalseAlarm, Answered
  <1>5. CASE CompareTree
    <2>1. /\ probe'.at = "compared" /\ probe'.fresh = check_freshness(probe.project)
          /\ probe'.vouched = Indexed /\ probe'.stale = probe.stale
          /\ probe'.cached = probe.cached /\ probe'.quiet = probe.quiet /\ probe.at = "cached"
      BY <1>5 DEF CompareTree, Probes
    <2>2. probe'.fresh = "healthy" => saved /\ DiskChanges = {}
      BY <2>1 DEF check_freshness
    <2>3. DiskChanges = {} => \A p \in Paths : snapshot[p] = tree[p]
      BY DEF DiskChanges, Added, Modified, Deleted, Present
    <2>4. saved /\ DiskChanges = {} => Indexed
      BY <2>3 DEF FileInv, SnapshotVouchesFor, Indexed
    <2> QED
      BY <1>1, <1>2, <2>1, <2>2, <2>4 DEF ReadingsStand, HealthHolds, HealthyIsIndexed,
         HealthyHasNoGhosts, NoFalseAlarm, Answered
  <1>6. CASE ListStore
    <2>1. PICK bm25_ \in Statuses, vector \in Statuses, looked \in BOOLEAN :
            LET outside == IF looked THEN OutsideTree(Present(tree)) ELSE {}
                listed == vector = "healthy" /\ probe.cached # {}
                coverage == IF listed THEN check_coverage(probe.cached, outside)
                            ELSE "degraded"
            IN  probe' = [probe EXCEPT
                   !.at = "answered",
                   !.stale = IF listed THEN @ \cup (probe.cached \ Present(vectors)) ELSE @,
                   !.outside = IF listed THEN outside ELSE @,
                   !.looked = looked,
                   !.overall = calculate_overall_status(bm25_, vector,
                                   {probe.merkle, probe.fresh, coverage})]
      BY <1>6 DEF ListStore
    <2> DEFINE outside == IF looked THEN OutsideTree(Present(tree)) ELSE {}
               coverage == IF vector = "healthy" /\ probe.cached # {}
                           THEN check_coverage(probe.cached, outside) ELSE "degraded"
    <2>2. /\ probe'.at = "answered" /\ probe.at = "compared" /\ probe'.looked = looked
          /\ probe'.overall =
               calculate_overall_status(bm25_, vector, {probe.merkle, probe.fresh, coverage})
          /\ probe'.quiet = probe.quiet /\ probe'.vouched = probe.vouched
          /\ probe'.fresh = probe.fresh
          /\ probe'.stale \subseteq probe.stale \cup (probe.cached \ Present(vectors))
      BY <1>6, <2>1 DEF ListStore, Probes
    <2>3. probe'.overall = "healthy" => probe.fresh = "healthy" /\ coverage = "healthy"
      <3> HIDE DEF coverage
      <3> QED
        BY <2>2 DEF calculate_overall_status
    <2>4. HealthyIsIndexed'
      BY <2>2, <2>3 DEF HealthyIsIndexed, ReadingsStand
    <2>5. HealthyHasNoGhosts'
      <3> SUFFICES ASSUME probe.quiet, looked, probe.fresh = "healthy", coverage = "healthy"
                   PROVE  NoGhosts
        BY <1>2, <2>2, <2>3 DEF HealthyHasNoGhosts
      <3>1. OutsideTree(Present(tree)) = {}
        BY DEF check_coverage
      <3>2. Present(snapshot) = Present(tree)
        <4>1. DiskChanges = {}
          BY <2>2 DEF ReadingsStand
        <4> QED
          BY <4>1 DEF DiskChanges, Added, Deleted
      <3> QED
        BY <3>1, <3>2 DEF OutsideTree, NoGhosts
    <2>6. NoFalseAlarm'
      <3> SUFFICES ASSUME probe.quiet, faults = 0, Oversize = {} PROVE probe'.stale = {}
        BY <1>1, <2>2 DEF NoFalseAlarm
      <3>1. probe.cached = {} \/ (pc = "idle" /\ probe.cached = CachedPaths)
        BY <2>2 DEF ReadingsStand
      <3>2. probe.cached \ Present(vectors) = {}
        BY <3>1 DEF CachedHaveVectors, CachedPaths, Present
      <3> QED
        BY <2>2, <3>2 DEF ReadingsStand
    <2>7. ReadingsStand'
      BY <2>2 DEF ReadingsStand
    <2> QED
      BY <2>4, <2>5, <2>6, <2>7 DEF HealthHolds
  <1> QED
    BY <1>3, <1>4, <1>5, <1>6 DEF health_check

\* Whatever goes on beside a probe is not quiet.
LEMMA ProbedNext ==
    ASSUME probe \in Probes, ReadingsStand, HealthHolds, WhileProbed
    PROVE  (ReadingsStand /\ HealthHolds)'
  <1>1. CASE probe.at = "none"
    <2>1. probe' = NoProbe
      BY <1>1 DEF WhileProbed, ReadingsStand
    <2> QED
      BY <2>1 DEF NoProbe, ReadingsStand, HealthHolds, HealthyIsIndexed, HealthyHasNoGhosts,
         NoFalseAlarm, Answered
  <1>2. CASE probe.at # "none"
    <2>1. /\ probe'.at = probe.at /\ probe.at # "answered" /\ ~ probe'.quiet
          /\ probe'.stale = probe.stale /\ probe'.fresh = probe.fresh
          /\ probe'.vouched = probe.vouched
      BY <1>2 DEF WhileProbed, Probes
    <2> QED
      BY <1>2, <2>1 DEF ReadingsStand, HealthHolds, HealthyIsIndexed, HealthyHasNoGhosts,
         NoFalseAlarm, Answered
  <1> QED
    BY <1>1, <1>2

\* Every step keeps the type of a probe.
LEMMA ProbeTypes ==
    ASSUME TypeOK, probe \in Probes, [HealthNext]_healthVars
    PROVE  probe' \in Probes
  <1>1. CASE OpenStores
    BY <1>1 DEF OpenStores, Probes
  <1>2. CASE ReadCache
    <2>1. PICK paths \in read_cached_paths(probe.project) :
             probe' = [probe EXCEPT !.at = "cached", !.cached = paths,
                                    !.merkle = check_merkle(probe.project)]
      BY <1>2 DEF ReadCache
    <2>2. paths \in SUBSET Paths /\ check_merkle(probe.project) \in Statuses
      BY DEF read_cached_paths, CachedPaths, check_merkle, Statuses
    <2> QED
      BY <2>1, <2>2 DEF Probes
  <1>3. CASE CompareTree
    <2>1. check_freshness(probe.project) \in Statuses /\ Indexed \in BOOLEAN
      BY DEF check_freshness, Statuses, Indexed
    <2> QED
      BY <1>3, <2>1 DEF CompareTree, Probes
  <1>4. CASE ListStore
    <2>1. /\ \A S : OutsideTree(S) \in SUBSET Paths
          /\ \A b, v, o : calculate_overall_status(b, v, o) \in Statuses
          /\ \A S : (probe.cached \ S) \in SUBSET Paths /\ probe.stale \in SUBSET Paths
      BY DEF OutsideTree, Present, calculate_overall_status, Statuses, Probes
    <2>2. \E stale \in SUBSET Paths, outside \in SUBSET Paths, looked \in BOOLEAN,
             overall \in Statuses :
            probe' = [probe EXCEPT !.at = "answered", !.stale = stale, !.outside = outside,
                                   !.looked = looked, !.overall = overall]
      <3>1. PICK bm25_ \in Statuses, vector \in Statuses, looked \in BOOLEAN :
            LET outside == IF looked THEN OutsideTree(Present(tree)) ELSE {}
                listed == vector = "healthy" /\ probe.cached # {}
                coverage == IF listed THEN check_coverage(probe.cached, outside)
                            ELSE "degraded"
            IN  probe' = [probe EXCEPT
                   !.at = "answered",
                   !.stale = IF listed THEN @ \cup (probe.cached \ Present(vectors)) ELSE @,
                   !.outside = IF listed THEN outside ELSE @,
                   !.looked = looked,
                   !.overall = calculate_overall_status(bm25_, vector,
                                   {probe.merkle, probe.fresh, coverage})]
        BY <1>4 DEF ListStore
      <3> DEFINE outside == IF looked THEN OutsideTree(Present(tree)) ELSE {}
                 listed == vector = "healthy" /\ probe.cached # {}
                 coverage == IF listed THEN check_coverage(probe.cached, outside)
                             ELSE "degraded"
                 stale2 == IF listed THEN probe.stale \cup (probe.cached \ Present(vectors))
                           ELSE probe.stale
                 outside2 == IF listed THEN outside ELSE probe.outside
                 overall2 == calculate_overall_status(bm25_, vector,
                                   {probe.merkle, probe.fresh, coverage})
      <3>2. stale2 \in SUBSET Paths /\ outside2 \in SUBSET Paths /\ overall2 \in Statuses
        BY <2>1 DEF Probes
      <3>3. probe' = [probe EXCEPT !.at = "answered", !.stale = stale2, !.outside = outside2,
                                   !.looked = looked, !.overall = overall2]
        BY <3>1
      <3> HIDE DEF stale2, outside2, overall2
      <3> QED
        BY <3>2, <3>3
    <2>3. PICK stale \in SUBSET Paths, outside \in SUBSET Paths, looked \in BOOLEAN,
             overall \in Statuses :
            probe' = [probe EXCEPT !.at = "answered", !.stale = stale, !.outside = outside,
                                   !.looked = looked, !.overall = overall]
      BY <2>2
    <2>4. probe' = [at |-> "answered", project |-> probe.project, cached |-> probe.cached,
                    merkle |-> probe.merkle, fresh |-> probe.fresh, stale |-> stale,
                    outside |-> outside, overall |-> overall, looked |-> looked,
                    quiet |-> probe.quiet, vouched |-> probe.vouched]
      BY <2>3, ZenonT(60) DEF Probes
    <2>5. /\ probe.project \in BOOLEAN /\ probe.cached \in SUBSET Paths
          /\ probe.merkle \in Statuses /\ probe.fresh \in Statuses
          /\ probe.quiet \in BOOLEAN /\ probe.vouched \in BOOLEAN
      BY DEF Probes
    <2> QED
      BY <2>4, <2>5 DEF Probes
  <1>5. CASE WhileProbed
    BY <1>5 DEF WhileProbed, Probes
  <1>6. CASE UNCHANGED healthVars
    BY <1>6 DEF healthVars
  <1> QED
    BY <1>1, <1>2, <1>3, <1>4, <1>5, <1>6 DEF HealthNext, health_check

\* A probe has not begun.
LEMMA HealthStarts == HealthInit => HealthInv
  <1> SUFFICES ASSUME HealthInit PROVE HealthInv
    OBVIOUS
  <1>1. IInv
    BY InvInit DEF HealthInit
  <1>2. probe \in Probes
    BY DEF HealthInit, NoProbe, Probes, Statuses
  <1>3. PreparedIsThere /\ CachedHaveVectors
    BY DEF HealthInit, Init, PreparedIsThere, Nothing, NoEntries, CachedHaveVectors, CachedPaths
  <1>4. ReadingsStand /\ HealthHolds
    BY DEF HealthInit, NoProbe, ReadingsStand, HealthHolds, HealthyIsIndexed, HealthyHasNoGhosts,
       NoFalseAlarm, Answered
  <1> QED
    BY <1>1, <1>2, <1>3, <1>4 DEF HealthInv

LEMMA HealthGoesOn == HealthInv /\ [HealthNext]_healthVars => HealthInv'
  <1> SUFFICES ASSUME HealthInv, [HealthNext]_healthVars PROVE HealthInv'
    OBVIOUS
  <1>0. TypeOK /\ IInv /\ probe \in Probes
    BY DEF HealthInv, IInv
  <1>1. [Next]_vars
    BY DEF HealthNext, health_check, OpenStores, ReadCache, CompareTree, ListStore, WhileProbed,
       healthVars
  <1>2. IInv' /\ probe' \in Probes
    BY <1>0, <1>1, InvNext, ProbeTypes
  <1>3. ASSUME Careful
        PROVE  (PreparedIsThere /\ CachedHaveVectors /\ ReadingsStand /\ HealthHolds)'
    <2>1. RunInv /\ (\A p \in Paths : FileInv(p)) /\ EditTimes # "any"
      BY <1>0, <1>3 DEF IInv, Careful
    <2>2. PreparedIsThere /\ CachedHaveVectors /\ ReadingsStand /\ HealthHolds
      BY <1>3 DEF HealthInv
    <2>3. PreparedIsThere' /\ CachedHaveVectors'
      BY <1>0, <1>1, <1>2, <2>1, <2>2, PreparedNext, CachedNext DEF IInv
    <2>4. CASE health_check
      BY <1>0, <2>1, <2>2, <2>3, <2>4, ProbeNext
    <2>5. CASE WhileProbed
      BY <1>0, <2>2, <2>3, <2>5, ProbedNext
    <2>6. CASE UNCHANGED healthVars
      BY <2>2, <2>3, <2>6 DEF healthVars, vars, ReadingsStand, HealthHolds, HealthyIsIndexed,
         HealthyHasNoGhosts, NoFalseAlarm, Answered, NoGhosts, DiskChanges, Added, Modified,
         Deleted, Present, CachedPaths
    <2> QED
      BY <2>3, <2>4, <2>5, <2>6 DEF HealthNext
  <1>4. Careful' = Careful
    BY DEF Careful
  <1> QED
    BY <1>2, <1>3, <1>4 DEF HealthInv

-----------------------------------------------------------------------------
(* Theorems *)

\* The types, for every instance: the steps of every run, failed and crashed ones
\* included.
THEOREM TypeCorrect == Spec => []TypeOK
  BY TypeInit, TypeNext, PTL DEF Spec

\* The inductive invariant of a run holds in every reachable state.
THEOREM InductiveInvariant == Spec => []IInv
  BY InvInit, InvNext, PTL DEF Spec

\* The snapshot never vouches for a file that the vector store does not have as
\* it is on disk: what fails or is cut off in a run of
\* index_with_change_detection, a force reindex, a coverage repair or a search's
\* build is seen by the next run. For any number of files, edits and failures,
\* as long as no content comes back and no file changes while it is being written.
THEOREM SnapshotIsTrustworthy == Spec => [](Careful => SnapshotVouches)
  <1>1. IInv => (Careful => SnapshotVouches) BY DEF IInv, FileInv, SnapshotVouches
  <1> QED BY <1>1, InductiveInvariant, PTL

\* The same of the metadata cache: a file it lets a run skip is in the vector
\* store as it is on disk.
THEOREM CacheIsTrustworthy == Spec => [](Careful => CacheVouches)
  <1>1. IInv => (Careful => CacheVouches) BY DEF IInv, FileInv, CacheVouches
  <1> QED BY <1>1, InductiveInvariant, PTL

\* After a run, comparing the tree it walked with the snapshot it saved presents
\* exactly the paths on its retry list that the last snapshot did not have as they
\* were walked: snapshot_with_retries neither loses a failed path nor repeats one
\* that is done.
THEOREM RetriesAreVisible ==
    ASSUME Careful
    PROVE  Spec => RetriesStayVisible
  <1>1. ASSUME IInv, Save, kind # "build"
        PROVE  Changes(merkle, snapshot') = {p \in retry : snapshot[p] # merkle[p]}
    <2>1. TypeOK /\ OwnContents /\ \A p \in Paths : OnceHeld(p)
      BY <1>1 DEF IInv, RunInv, FileInv
    <2>2. snapshot' = SnapshotWithRetries(merkle, snapshot, retry) BY <1>1 DEF Save
    <2>3. snapshot' \in [Paths -> Held] BY <2>1, <2>2, StoreTypes DEF TypeOK
    <2>4. \A p \in Paths : snapshot'[p] = IF p \in retry THEN snapshot[p] ELSE merkle[p]
      BY <2>2 DEF SnapshotWithRetries
    <2>a. \A p \in Paths : Seen(p, merkle[p]) /\ Seen(p, snapshot'[p])
      BY <2>1, <2>4 DEF OnceHeld
    <2>b. merkle \in [Paths -> Held] BY <2>1 DEF TypeOK
    <2>5. Changes(merkle, snapshot') = {p \in Paths : merkle[p] # snapshot'[p]}
      BY <2>1, <2>a, <2>b, <2>3, ChangesFound
    <2> QED BY <2>1, <2>4, <2>5 DEF TypeOK
  <1>2. ASSUME TypeOK, Next, SavesSnapshot PROVE Save
    <2>1. faults' # faults + 1 BY <1>2 DEF SavesSnapshot, EndsWell, TypeOK
    <2> QED
      BY <1>2, <2>1 DEF SavesSnapshot, EndsWell, Next, RunStep, StartRun, Edit, ClearCache,
         ClearBm25, ClearVectors, CleanSnapshot, CleanCache, RepairCache, RepairTree,
         RepairCommit, RepairSnapshot, Load, FullWalk, Prepare, StartWrite, DeleteChunks,
         InsertChunks, Record, EndWrite, Forget, Commit, Drop, DropCommit, Crash, Fails,
         ClearStores
  <1>3. IInv /\ [Next]_vars => [SavesSnapshot =>
           Changes(merkle, snapshot') = {p \in retry : snapshot[p] # merkle[p]}]_vars
    BY <1>1, <1>2 DEF SavesSnapshot, IInv
  <1> QED BY <1>3, InductiveInvariant, PTL DEF Spec, RetriesStayVisible

\* Between two runs the BM25 index and the vector store have the same files, if
\* nothing fails and no file changes between its reading and its recording: the
\* order of writes, commits and clears in unified.rs and incremental_service.rs
\* brings them together again by the end of every run. Contents may come back,
\* and the stores may be cleared.
THEOREM StoresStayTogether ==
    ASSUME EditTimes # "any"
    PROVE  Spec => []StoresAgree
  <1>1. Init => PreparedIsThere /\ StoresInStep
    BY DEF Init, PreparedIsThere, StoresInStep, Nothing
  <1>2. TypeOK /\ PreparedIsThere /\ StoresInStep /\ [Next]_vars =>
           PreparedIsThere' /\ StoresInStep'
    BY PreparedNext, StoresNext
  <1>3. StoresInStep => StoresAgree
    BY DEF StoresInStep, StoresAgree
  <1> QED BY <1>1, <1>2, <1>3, TypeCorrect, PTL DEF Spec

\* The verdict of health_check, whatever runs, failures, crashes and edits come
\* before it or between its readings: HEALTHY means that every file with chunks
\* was in the vector store as it was on disk, and that a quiet probe whose walk had
\* no errors left no ghost; and without a failure, and with no file too large, no
\* cached file is reported to be without its vectors.
THEOREM VerdictIsTrustworthy == HealthSpec => [](Careful => HealthHolds)
  <1>1. HealthInv => (Careful => HealthHolds)
    BY DEF HealthInv
  <1> QED BY <1>1, HealthStarts, HealthGoesOn, PTL DEF HealthSpec

\* The verdict of health_check means what it says, in the composition that is
\* checked, for any files, contents and failures, as long as no content comes back
\* and no file changes while it is being written (check_freshness, check_coverage).
THEOREM HealthIsTrustworthy ==
  ASSUME Careful
  PROVE  PartsSpec => []HealthIsSound
<1> DEFINE Inv == component = "health" => HealthInv
<1>1. PartsInit => Inv
  BY HealthStarts DEF PartsInit
<1>2. Inv /\ [PartsNext]_partsVars => Inv'
  <2> SUFFICES ASSUME Inv, [PartsNext]_partsVars PROVE Inv'
    OBVIOUS
  <2>1. component' = component
    BY DEF PartsNext, partsVars
  <2>2. component = "health" => [HealthNext]_healthVars
    BY DEF PartsNext, partsVars
  <2> QED
    BY <2>1, <2>2, HealthGoesOn
<1>3. Inv => HealthIsSound
  BY DEF HealthInv, HealthIsSound
<1> QED
  BY <1>1, <1>2, <1>3, PTL DEF PartsSpec
=============================================================================
