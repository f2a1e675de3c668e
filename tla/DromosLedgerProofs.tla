------------------------- MODULE DromosLedgerProofs -------------------------
(***************************************************************************)
(* The ledger, for every number of users, every chain and every menu of    *)
(* transactions: the books balance, and the deals keep to their schedule.  *)
(***************************************************************************)
EXTENDS DromosLedger, WellFoundedInduction, FiniteSetTheorems, TLAPS

-----------------------------------------------------------------------------
(* Loops.                                                                  *)

\* Induction over an interval, for a set of numbers.
LEMMA Induction ==
  ASSUME NEW m \in Nat, NEW n \in Nat, m <= n, NEW B, m \in B,
         \A i \in m + 1 .. n : i - 1 \in B => i \in B
  PROVE  \A i \in m .. n : i \in B
<1> DEFINE C == {i \in m .. n : i \notin B}
           Less == OpToRel(<, Nat)
<1>1. SUFFICES ASSUME C # {} PROVE FALSE
  OBVIOUS
<1>2. C \in SUBSET Nat
  OBVIOUS
<1> HIDE DEF C
<1>3. \E x \in C : \A y \in C : ~(<<y, x>> \in Less)
  BY <1>1, <1>2, NatLessThanWellFounded, WFMin, Zenon
<1>4. \A x, y \in Nat : y < x => <<y, x>> \in Less
  BY DEF OpToRel
<1> HIDE DEF Less
<1>5. PICK x \in C : \A y \in C : ~(<<y, x>> \in Less)
  BY <1>3
<1>6. x \in m + 1 .. n /\ x \notin B /\ x - 1 \in m .. n
  BY DEF C
<1>7. x \in Nat /\ x - 1 \in Nat /\ x - 1 < x
  BY <1>6
<1>8. x - 1 \notin C
  BY <1>4, <1>5, <1>7, Zenon
<1> QED
  BY <1>6, <1>8 DEF C

\* f[i] is what a loop from base has after turn i, whose body is F[i].
IsLoop(lo, hi, base, F, f) == f[lo] = base /\ \A i \in lo + 1 .. hi : f[i] = F[i][f[i - 1]]

\* A loop whose turns keep to Y has a value after each turn.
LEMMA Recursion ==
  ASSUME NEW lo \in Nat, NEW hi \in Nat, lo <= hi, NEW Y, NEW base \in Y,
         NEW F \in [lo + 1 .. hi -> [Y -> Y]]
  PROVE  \E f \in [lo .. hi -> Y] : IsLoop(lo, hi, base, F, f)
<1> DEFINE Upto(n, f) == IsLoop(lo, n, base, F, f)
           B == {n \in Nat : \E f \in [lo .. n -> Y] : Upto(n, f)}
<1>1. lo \in B
  <2>1. [i \in lo .. lo |-> base] \in [lo .. lo -> Y] /\ Upto(lo, [i \in lo .. lo |-> base])
    BY DEF IsLoop
  <2> QED
    BY <2>1, Zenon
<1>2. ASSUME NEW n \in lo + 1 .. hi, n - 1 \in B PROVE n \in B
  <2>1. PICK f \in [lo .. n - 1 -> Y] : Upto(n - 1, f)
    BY <1>2
  <2> DEFINE g == [i \in lo .. n |-> IF i < n THEN f[i] ELSE F[n][f[n - 1]]]
  <2>2. \A i \in lo .. n - 1 : i \in lo .. n /\ g[i] = f[i] /\ f[i] \in Y
    OBVIOUS
  <2>3. n - 1 \in lo .. n - 1 /\ g[n] = F[n][f[n - 1]]
    OBVIOUS
  <2>4. g \in [lo .. n -> Y]
    BY <2>2, <2>3
  <2> HIDE DEF g
  <2>5. \A i \in lo + 1 .. n : g[i] = F[i][g[i - 1]]
    <3>1. ASSUME NEW i \in lo + 1 .. n PROVE g[i] = F[i][g[i - 1]]
      <4>1. i - 1 \in lo .. n - 1
        OBVIOUS
      <4>2. g[i - 1] = f[i - 1]
        BY <2>2, <4>1
      <4>3. CASE i = n
        BY <2>3, <4>2, <4>3
      <4>4. CASE i \in lo + 1 .. n - 1
        <5>1. f[i] = F[i][f[i - 1]] /\ i \in lo .. n - 1
          BY <2>1, <4>4 DEF IsLoop
        <5> QED
          BY <2>2, <4>2, <5>1
      <4> QED
        BY <4>3, <4>4
    <3> QED
      BY <3>1, Zenon
  <2>6. g[lo] = base
    BY <2>1, <2>2 DEF IsLoop
  <2>7. n \in Nat
    OBVIOUS
  <2> QED
    BY <2>4, <2>5, <2>6, <2>7 DEF IsLoop
<1>3. hi \in B
  <2> HIDE DEF B
  <2>1. \A i \in lo .. hi : i \in B
    BY <1>1, <1>2, Induction, Zenon
  <2> QED
    BY <2>1
<1> QED
  BY <1>3, Zenon

-----------------------------------------------------------------------------
(* Folds and sums over a finite set.                                       *)

IsLeast(s, C) == s \in C /\ \A t \in C : t \subseteq s => t = s

\* Among subsets of a finite set there is a least one.
LEMMA LeastSubset ==
  ASSUME NEW S, IsFiniteSet(S), NEW C \in SUBSET (SUBSET S), C # {}
  PROVE  \E s : IsLeast(s, C)
<1> DEFINE Less == StrictSubsetOrdering(S)
<1>1. IsWellFoundedOn(Less, SUBSET S)
  BY FS_FiniteSubsetsOfFinite, FS_StrictSubsetOrderingWellFounded, Zenon
<1>2. \A s, t \in C : t \subseteq s /\ t # s => <<t, s>> \in Less
  BY DEF StrictSubsetOrdering
<1>3. C \subseteq SUBSET S
  OBVIOUS
<1> HIDE DEF Less
<1>4. \E s \in C : \A t \in C : ~(<<t, s>> \in Less)
  BY <1>1, <1>3, WFMin, Zenon
<1> QED
  BY <1>2, <1>4, Zenon DEF IsLeast

\* Induction over the subsets of a finite set.
LEMMA SubsetInduction ==
  ASSUME NEW S, IsFiniteSet(S), NEW B,
         \A s \in SUBSET S : (\A t \in SUBSET s : t # s => t \in B) => s \in B
  PROVE  \A s \in SUBSET S : s \in B
<1> DEFINE C == (SUBSET S) \ B
<1>1. SUFFICES ASSUME C # {} PROVE FALSE
  OBVIOUS
<1>2. C \in SUBSET (SUBSET S)
  OBVIOUS
<1> HIDE DEF C
<1>3. PICK s : IsLeast(s, C)
  BY <1>1, <1>2, LeastSubset, Zenon
<1>4. ASSUME NEW t \in SUBSET s, t # s PROVE t \in B
  <2>1. t \in SUBSET S
    BY <1>2, <1>3 DEF IsLeast
  <2>2. t \notin C
    BY <1>3, <1>4, Zenon DEF IsLeast
  <2> QED
    BY <2>1, <2>2 DEF C
<1>5. s \in SUBSET S /\ s \notin B
  BY <1>3 DEF C, IsLeast
<1> QED
  BY <1>4, <1>5

\* g[s] is what a fold over the set s, taking c[s] last, makes of base.
IsFold(S, base, c, F, g) ==
  \A s \in SUBSET S : g[s] = IF s = {} THEN base ELSE F[c[s]][g[s \ {c[s]}]]

\* A fold over a finite set whose steps keep to Y has a value for each subset.
LEMMA FoldExists ==
  ASSUME NEW S, IsFiniteSet(S), NEW Y, NEW base \in Y,
         NEW c, \A s \in SUBSET S : s # {} => c[s] \in s,
         NEW F \in [S -> [Y -> Y]]
  PROVE  \E g \in [SUBSET S -> Y] : IsFold(S, base, c, F, g)
<1> DEFINE Up(k) == {s \in SUBSET S : Cardinality(s) <= k}
           Value(g, s) == IF s = {} THEN base ELSE F[c[s]][g[s \ {c[s]}]]
           Good(g, k) == g \in [Up(k) -> Y] /\ \A s \in Up(k) : g[s] = Value(g, s)
           B == {k \in Nat : \E g : Good(g, k)}
<1>1. \A s \in SUBSET S : IsFiniteSet(s) /\ Cardinality(s) \in Nat /\ (Cardinality(s) = 0 <=> s = {})
  BY FS_Subset, FS_CardinalityType, FS_EmptySet
<1>2. \A s \in SUBSET S : s # {} => /\ s \ {c[s]} \in SUBSET S
                                    /\ Cardinality(s \ {c[s]}) = Cardinality(s) - 1
                                    /\ c[s] \in S
  BY <1>1, FS_RemoveElement, Zenon
<1>3. 0 \in B
  <2> DEFINE g == [s \in Up(0) |-> base]
  <2>1. \A s \in Up(0) : s = {}
    BY <1>1
  <2>2. Good(g, 0)
    BY <2>1
  <2> QED
    BY <2>2, Zenon
<1>4. ASSUME NEW k \in Nat, k \in B PROVE k + 1 \in B
  <2>1. PICK g : Good(g, k)
    BY <1>4, Zenon
  <2> DEFINE h == [s \in Up(k + 1) |-> Value(g, s)]
  <2>2. \A s \in Up(k + 1) : s # {} => s \ {c[s]} \in Up(k) /\ c[s] \in S
    BY <1>1, <1>2
  <2>3. \A s \in Up(k) : s \in Up(k + 1) /\ h[s] = g[s]
    <3>1. \A s \in Up(k) : s \in Up(k + 1)
      BY <1>1
    <3> QED
      BY <3>1, <2>1, Zenon
  <2>4. \A s \in Up(k + 1) : h[s] \in Y
    <3>1. ASSUME NEW s \in Up(k + 1), s # {} PROVE h[s] \in Y
      <4>1. g[s \ {c[s]}] \in Y /\ c[s] \in S
        BY <2>1, <2>2, <3>1
      <4>2. h[s] = F[c[s]][g[s \ {c[s]}]]
        BY <3>1
      <4> QED
        BY <4>1, <4>2, Zenon
    <3> QED
      BY <3>1, Zenon
  <2>5. \A s \in Up(k + 1) : h[s] = Value(h, s)
    BY <2>2, <2>3, Zenon
  <2>6. Good(h, k + 1)
    BY <2>4, <2>5, Zenon
  <2>7. k + 1 \in Nat
    OBVIOUS
  <2> HIDE DEF h, Up, Value, Good
  <2>8. \E f : Good(f, k + 1)
    BY <2>6, Zenon
  <2> QED
    BY <2>7, <2>8, Zenon
<1>5. Cardinality(S) \in B
  <2>1. Cardinality(S) \in Nat /\ 0 \in Nat /\ 0 <= Cardinality(S)
    BY <1>1
  <2>2. \A k \in 0 + 1 .. Cardinality(S) : k - 1 \in B => k \in B
    <3>1. ASSUME NEW k \in 0 + 1 .. Cardinality(S), k - 1 \in B PROVE k \in B
      <4>1. k - 1 \in Nat /\ (k - 1) + 1 = k
        BY <2>1
      <4> HIDE DEF B
      <4> QED
        BY <1>4, <3>1, <4>1
    <3> QED
      BY <3>1, Zenon
  <2> HIDE DEF B
  <2>3. \A k \in 0 .. Cardinality(S) : k \in B
    BY <1>3, <2>1, <2>2, Induction, Zenon
  <2> QED
    BY <2>1, <2>3
<1>6. Up(Cardinality(S)) = SUBSET S
  BY <1>1, FS_Subset
<1>7. PICK g : Good(g, Cardinality(S))
  BY <1>5, Zenon
<1> QED
  BY <1>6, <1>7, Zenon DEF IsFold

\* g[s] is the sum of f over s, for the subsets s of S.
IsSum(f, S, g) ==
  \A s \in SUBSET S :
    g[s] = IF s = {} THEN 0
           ELSE f[CHOOSE x \in s : TRUE] + g[s \ {CHOOSE x \in s : TRUE}]

\* The sum over a finite set is defined by its recursion.
LEMMA SumExists ==
  ASSUME NEW S, IsFiniteSet(S), NEW f, \A x \in S : f[x] \in Nat
  PROVE  \E g : /\ g \in [SUBSET S -> Nat]
                /\ IsSum(f, S, g)
                /\ SumFunctionOnSet(f, S) = g[S]
<1> DEFINE Pick(s) == CHOOSE x \in s : TRUE
           Eq(g) == g = [s \in SUBSET S |-> IF s = {} THEN 0 ELSE f[Pick(s)] + g[s \ {Pick(s)}]]
<1>1. SumFunctionOnSet(f, S) = (CHOOSE g : Eq(g))[S]
  BY DEF SumFunctionOnSet, FoldFunctionOnSet, MapThenFoldSet
<1>2. \A s \in SUBSET S : s # {} => Pick(s) \in s
  OBVIOUS
<1>3. \E g : Eq(g)
  <2> DEFINE c == [s \in SUBSET S |-> Pick(s)]
             F == [x \in S |-> [y \in Nat |-> f[x] + y]]
  <2>1. \A s \in SUBSET S : s # {} => c[s] \in s
    BY <1>2
  <2>2. F \in [S -> [Nat -> Nat]]
    OBVIOUS
  <2>3. PICK g \in [SUBSET S -> Nat] : IsFold(S, 0, c, F, g)
    <3> HIDE DEF c, F
    <3> QED
      BY <2>1, <2>2, FoldExists, Zenon
  <2>4. ASSUME NEW s \in SUBSET S, s # {}
        PROVE  g[s] = f[Pick(s)] + g[s \ {Pick(s)}]
    <3>1. c[s] = Pick(s) /\ Pick(s) \in S
      BY <1>2, <2>4
    <3>2. g[s \ {Pick(s)}] \in Nat
      BY <2>3
    <3>3. F[Pick(s)][g[s \ {Pick(s)}]] = f[Pick(s)] + g[s \ {Pick(s)}]
      BY <3>1, <3>2
    <3> HIDE DEF c, F, Pick
    <3>4. g[s] = F[c[s]][g[s \ {c[s]}]]
      BY <2>3, <2>4, Zenon DEF IsFold
    <3> QED
      BY <3>1, <3>3, <3>4
  <2>5. g[{}] = 0
    BY <2>3, Zenon DEF IsFold
  <2>6. g = [s \in SUBSET S |-> g[s]]
    BY <2>3
  <2> HIDE DEF Pick
  <2>7. \A s \in SUBSET S : g[s] = IF s = {} THEN 0 ELSE f[Pick(s)] + g[s \ {Pick(s)}]
    BY <2>4, <2>5, Zenon
  <2> QED
    BY <2>6, <2>7, Zenon
<1>4. PICK g : g = (CHOOSE h : Eq(h)) /\ Eq(g)
  BY <1>3, Zenon
<1>5. IsSum(f, S, g)
  BY <1>4, Zenon DEF IsSum
<1>6. g \in [SUBSET S -> Nat]
  <2> DEFINE B == {s \in SUBSET S : g[s] \in Nat}
  <2>1. ASSUME NEW s \in SUBSET S, \A t \in SUBSET s : t # s => t \in B PROVE s \in B
    <3>1. CASE s = {}
      <4>1. g[s] = 0
        BY <1>5, <3>1, Zenon DEF IsSum
      <4> QED
        BY <4>1
    <3>2. CASE s # {}
      <4>1. Pick(s) \in s /\ s \ {Pick(s)} \in B
        BY <1>2, <2>1, <3>2
      <4>2. g[s] = f[Pick(s)] + g[s \ {Pick(s)}]
        BY <1>5, <3>2 DEF IsSum
      <4> QED
        BY <4>1, <4>2
    <3> QED
      BY <3>1, <3>2
  <2> HIDE DEF B
  <2>2. \A s \in SUBSET S : s \in B
    BY <2>1, SubsetInduction
  <2> QED
    BY <1>4, <2>2, Zenon DEF B
<1> QED
  BY <1>1, <1>4, <1>5, <1>6, Zenon

\* Two tables of sums agree where the functions do.
LEMMA SumsAgree ==
  ASSUME NEW S, IsFiniteSet(S), NEW R, S \subseteq R, NEW f, NEW h, \A x \in S : f[x] = h[x],
         NEW g, NEW k, IsSum(f, S, g), IsSum(h, R, k)
  PROVE  g[S] = k[S]
<1> DEFINE B == {s \in SUBSET S : g[s] = k[s]}
           Pick(s) == CHOOSE x \in s : TRUE
<1>1. ASSUME NEW s \in SUBSET S, \A t \in SUBSET s : t # s => t \in B PROVE s \in B
  <2>1. s \in SUBSET R
    OBVIOUS
  <2>2. CASE s = {}
    BY <2>1, <2>2, Zenon DEF IsSum
  <2>3. CASE s # {}
    <3>1. Pick(s) \in s /\ s \ {Pick(s)} \in B
      BY <1>1, <2>3
    <3>2. g[s] = f[Pick(s)] + g[s \ {Pick(s)}] /\ k[s] = h[Pick(s)] + k[s \ {Pick(s)}]
      BY <2>1, <2>3 DEF IsSum
    <3> QED
      BY <3>1, <3>2
  <2> QED
    BY <2>2, <2>3
<1> HIDE DEF B
<1>2. S \in B
  BY SMTT(60), <1>1, SubsetInduction
<1> QED
  BY <1>2 DEF B

\* The sum over a set is the number at one of its elements and the sum over the rest.
LEMMA SumRest ==
  ASSUME NEW S, IsFiniteSet(S), NEW f, \A x \in S : f[x] \in Nat, NEW a \in S
  PROVE  /\ SumFunctionOnSet(f, S) \in Nat
         /\ SumFunctionOnSet(f, S \ {a}) \in Nat
         /\ SumFunctionOnSet(f, S) = f[a] + SumFunctionOnSet(f, S \ {a})
<1> DEFINE Pick(s) == CHOOSE x \in s : TRUE
<1>1. PICK g \in [SUBSET S -> Nat] : IsSum(f, S, g) /\ SumFunctionOnSet(f, S) = g[S]
  BY SumExists, Zenon
<1>2. IsFiniteSet(S \ {a})
  BY FS_RemoveElement
<1>3. PICK h \in [SUBSET (S \ {a}) -> Nat] :
         IsSum(f, S \ {a}, h) /\ SumFunctionOnSet(f, S \ {a}) = h[S \ {a}]
  BY <1>2, SumExists, Zenon
<1>4. h[S \ {a}] = g[S \ {a}]
  BY <1>1, <1>2, <1>3, SumsAgree
<1> DEFINE B == {s \in SUBSET S : \A x \in s : g[s] = f[x] + g[s \ {x}]}
<1>5. ASSUME NEW s \in SUBSET S, \A t \in SUBSET s : t # s => t \in B PROVE s \in B
  <2>1. ASSUME NEW x \in s PROVE g[s] = f[x] + g[s \ {x}]
    <3> DEFINE p == Pick(s)
    <3>1. p \in s
      BY <2>1
    <3>2. g[s] = f[p] + g[s \ {p}]
      BY <2>1, <1>1 DEF IsSum
    <3> HIDE DEF p
    <3>3. CASE x = p
      BY <3>2, <3>3
    <3>4. CASE x # p
      <4>1. s \ {p} \in B /\ s \ {x} \in B
        BY <1>5, <2>1, <3>1, Zenon
      <4>2. g[s \ {p}] = f[x] + g[(s \ {p}) \ {x}] /\ g[s \ {x}] = f[p] + g[(s \ {x}) \ {p}]
        BY <2>1, <3>1, <3>4, <4>1, Zenon
      <4>3. (s \ {p}) \ {x} = (s \ {x}) \ {p}
        OBVIOUS
      <4>4. g[(s \ {x}) \ {p}] \in Nat /\ f[x] \in Nat /\ f[p] \in Nat
        BY <1>1, <3>1
      <4> DEFINE u == f[p]
                 v == f[x]
                 w == g[(s \ {x}) \ {p}]
      <4>5. g[s] = u + (v + w) /\ g[s \ {x}] = u + w
        BY <3>2, <4>2, <4>3, Zenon
      <4> HIDE DEF u, v, w
      <4>6. u + (v + w) = v + (u + w)
        BY <4>4 DEF u, v, w
      <4> QED
        BY <4>5, <4>6, Zenon DEF v
    <3> QED
      BY <3>3, <3>4
  <2> QED
    BY <2>1
<1> HIDE DEF B
<1>6. S \in B
  BY <1>5, SubsetInduction
<1>7. g[S] = f[a] + g[S \ {a}]
  BY <1>6 DEF B
<1>8. g[S] \in Nat /\ g[S \ {a}] \in Nat
  BY <1>1
<1> QED
  BY <1>1, <1>3, <1>4, <1>7, <1>8

\* The sum over a set depends on the function there only, and nothing sums to zero.
LEMMA SumCongruence ==
  ASSUME NEW S, IsFiniteSet(S), NEW f, NEW h, \A x \in S : f[x] \in Nat /\ f[x] = h[x]
  PROVE  /\ SumFunctionOnSet(f, S) \in Nat
         /\ SumFunctionOnSet(f, S) = SumFunctionOnSet(h, S)
         /\ (\A x \in S : f[x] = 0) => SumFunctionOnSet(f, S) = 0
<1>1. PICK g \in [SUBSET S -> Nat] : IsSum(f, S, g) /\ SumFunctionOnSet(f, S) = g[S]
  BY SumExists, Zenon
<1>2. \A x \in S : h[x] \in Nat
  OBVIOUS
<1>3. PICK k \in [SUBSET S -> Nat] : IsSum(h, S, k) /\ SumFunctionOnSet(h, S) = k[S]
  BY <1>2, SumExists, Zenon
<1>4. g[S] = k[S]
  BY <1>1, <1>3, SumsAgree
<1>5. ASSUME \A x \in S : f[x] = 0 PROVE g[S] = 0
  <2> DEFINE Pick(s) == CHOOSE x \in s : TRUE
             B == {s \in SUBSET S : g[s] = 0}
  <2>1. ASSUME NEW s \in SUBSET S, \A t \in SUBSET s : t # s => t \in B PROVE s \in B
    <3>1. CASE s = {}
      BY <1>1, <3>1 DEF IsSum
    <3>2. CASE s # {}
      <4>1. Pick(s) \in s /\ s \ {Pick(s)} \in B
        BY <2>1, <3>2
      <4>2. g[s] = f[Pick(s)] + g[s \ {Pick(s)}]
        BY <1>1, <3>2 DEF IsSum
      <4> QED
        BY <1>5, <4>1, <4>2
    <3> QED
      BY <3>1, <3>2
  <2> HIDE DEF B
  <2>2. S \in B
    BY <2>1, SubsetInduction
  <2> QED
    BY <2>2 DEF B
<1> QED
  BY <1>1, <1>3, <1>4, <1>5

\* What one entry, old or new, changes of a sum.
SumFollows(D, f, a, h) ==
  /\ SumFunction(f) \in Nat
  /\ SumFunction(h) \in Nat
  /\ a \in D => f[a] <= SumFunction(f) /\ SumFunction(h) = (SumFunction(f) - f[a]) + h[a]
  /\ a \notin D => SumFunction(h) = SumFunction(f) + h[a]

\* A sum after one of its entries has changed or been added.
LEMMA SumChanges ==
  ASSUME NEW D, IsFiniteSet(D), NEW f \in [D -> Nat], NEW a, NEW h \in [D \cup {a} -> Nat],
         \A x \in D : x # a => h[x] = f[x]
  PROVE  SumFollows(D, f, a, h)
<1> USE DEF SumFollows
<1> DEFINE R == D \ {a}
           rest == SumFunctionOnSet(f, R)
<1>1. SumFunction(f) = SumFunctionOnSet(f, D) /\ SumFunction(h) = SumFunctionOnSet(h, D \cup {a})
  BY DEF SumFunction
<1>2. IsFiniteSet(R) /\ IsFiniteSet(D \cup {a}) /\ (D \cup {a}) \ {a} = R
  BY FS_RemoveElement, FS_AddElement
<1>3. \A x \in R : f[x] \in Nat /\ f[x] = h[x]
  OBVIOUS
<1>4. rest \in Nat /\ rest = SumFunctionOnSet(h, R)
  BY <1>2, <1>3, SumCongruence, Zenon
<1>5. \A x \in D \cup {a} : h[x] \in Nat
  OBVIOUS
<1>6. SumFunctionOnSet(h, D \cup {a}) = h[a] + SumFunctionOnSet(h, (D \cup {a}) \ {a})
  BY <1>2, <1>5, SumRest, Zenon
<1>7. SumFunction(h) = h[a] + rest
  BY <1>1, <1>2, <1>4, <1>6, Zenon
<1>8. \A x \in D : f[x] \in Nat
  OBVIOUS
<1>9. CASE a \in D
  <2>1. SumFunction(f) = f[a] + rest
    BY <1>1, <1>8, <1>9, SumRest, Zenon
  <2> HIDE DEF rest
  <2> QED
    BY <1>4, <1>5, <1>7, <1>8, <1>9, <2>1
<1>10. CASE a \notin D
  <2>1. R = D
    BY <1>10
  <2>2. SumFunction(f) = rest
    BY <1>1, <2>1, Zenon
  <2> HIDE DEF rest
  <2> QED
    BY <1>4, <1>5, <1>7, <1>10, <2>2
<1> QED
  BY <1>9, <1>10

\* Entries of zero may be left out of a sum.
LEMMA SumDrops ==
  ASSUME NEW D, IsFiniteSet(D), NEW f \in [D -> Nat], NEW E \in SUBSET D, NEW h \in [E -> Nat],
         \A x \in E : h[x] = f[x], \A x \in D \ E : f[x] = 0
  PROVE  SumFunction(h) = SumFunction(f)
<1> DEFINE B == {s \in SUBSET D : SumFunctionOnSet(f, s) = SumFunctionOnSet(f, s \cap E)}
<1>1. ASSUME NEW s \in SUBSET D, \A t \in SUBSET s : t # s => t \in B PROVE s \in B
  <2>1. CASE s \subseteq E
    <3>1. s \cap E = s
      BY <2>1
    <3> QED
      BY <3>1
  <2>2. CASE ~(s \subseteq E)
    <3>1. PICK x \in s : x \notin E
      BY <2>2
    <3>2. IsFiniteSet(s) /\ \A y \in s : f[y] \in Nat
      BY FS_Subset
    <3>3. /\ SumFunctionOnSet(f, s) = f[x] + SumFunctionOnSet(f, s \ {x})
          /\ SumFunctionOnSet(f, s \ {x}) \in Nat
      BY <3>2, SumRest, Zenon
    <3>4. s \ {x} \in B /\ (s \ {x}) \cap E = s \cap E
      BY <1>1, <3>1
    <3>5. SumFunctionOnSet(f, s \ {x}) = SumFunctionOnSet(f, s \cap E)
      BY <3>4, Zenon
    <3>6. f[x] = 0
      BY <3>1
    <3>7. SumFunctionOnSet(f, s) = SumFunctionOnSet(f, s \ {x})
      BY <3>3, <3>6
    <3> QED
      BY <3>5, <3>7, Zenon
  <2> QED
    BY <2>1, <2>2
<1> HIDE DEF B
<1>2. D \in B
  BY <1>1, SubsetInduction
<1>3. D \cap E = E /\ IsFiniteSet(E)
  BY FS_Subset
<1>4. SumFunctionOnSet(f, D) = SumFunctionOnSet(f, E)
  BY <1>2, <1>3, Zenon DEF B
<1>5. \A x \in E : h[x] \in Nat /\ h[x] = f[x]
  OBVIOUS
<1>6. SumFunctionOnSet(h, E) = SumFunctionOnSet(f, E)
  BY <1>3, <1>5, SumCongruence, Zenon
<1>7. SumFunction(h) = SumFunctionOnSet(h, E) /\ SumFunction(f) = SumFunctionOnSet(f, D)
  BY DEF SumFunction
<1> QED
  BY <1>4, <1>6, <1>7, Zenon

-----------------------------------------------------------------------------
(* The invariant of a ledger.                                              *)

Maps(K, V) == UNION {[D -> V] : D \in SUBSET K}

DealIds(P) == DealParams(P) \X Nat
HtlcIds(P) == HtlcTerms(P) \X Nat

HtlcStates == {"locked", "claimed", "refunded"}

Deal == [open : Nat, since : Nat, passed : Nat, released : Nat,
         state : {"active", "completed", "closed"}]

Ledger(P) ==
  [balance : [Accounts -> Nat],
   nonce   : [Users -> Nat],
   bonded  : [Users -> Nat],
   slashed : SUBSET (Users \X Slots),
   deals   : Maps(DealIds(P), Deal),
   htlcs   : Maps(HtlcIds(P), HtlcStates),
   names   : Maps(Names, [owner : Accounts, expiry : Nat]),
   height  : Nat]

\* The accounts that hold tokens for the contracts of one kind, and what they owe.
Escrows == {STAKE_SINK, STORAGE_ESCROW, HTLC_ESCROW}
Owes(l, e) ==
  IF e = STAKE_SINK THEN SumFunction(l.bonded)
  ELSE IF e = STORAGE_ESCROW THEN SumFunction(OwedForDeals(l))
  ELSE SumFunction(OwedForHtlcs(l))

\* An escrow account holds what it owes, and no more than that unless users may pay into
\* it.
Balanced(l, P) ==
  \A e \in Escrows : /\ l.balance[e] >= Owes(l, e)
                     /\ P \cap Escrows = {} => l.balance[e] = Owes(l, e)

\* A deal that is active has been paid for its passed audits, of which at least one is
\* missing; one that has ended has released all of its price.
DealInv(id, deal, height) ==
  /\ id[1].duration > 0
  /\ deal.state = "active" =>
       /\ deal.passed < id[1].duration
       /\ deal.open + deal.passed * AuditPeriod <= deal.since
       /\ deal.since <= height
       /\ deal.released = OwedAfterPasses(id[1], deal.passed)
  /\ deal.state # "active" => deal.released = id[1].price

LedgerInv(l, P) ==
  /\ l \in Ledger(P)
  /\ IsFiniteSet(DOMAIN l.deals) /\ IsFiniteSet(DOMAIN l.htlcs)
  /\ SumFunction(l.balance) = SumFunction(Genesis)
  /\ Balanced(l, P)
  /\ \A id \in DOMAIN l.deals : DealInv(id, l.deals[id], l.height)

-----------------------------------------------------------------------------
(* Maps.                                                                   *)

\* A map with keys in K and values in V.
LEMMA MapsType ==
  ASSUME NEW K, NEW V, NEW f
  PROVE  f \in Maps(K, V) <=> DOMAIN f \subseteq K /\ f \in [DOMAIN f -> V]
BY DEF Maps

\* A map g that has v at k, and else is f.
IsEntered(K, V, f, k, v, g) ==
  /\ g \in Maps(K, V)
  /\ DOMAIN g = DOMAIN f \cup {k}
  /\ g[k] = v
  /\ \A x \in DOMAIN f : x # k => g[x] = f[x]

\* An insertion.
LEMMA MapsInsert ==
  ASSUME NEW K, NEW V, NEW f \in Maps(K, V), NEW k \in K, NEW v \in V
  PROVE  IsEntered(K, V, f, k, v, Insert(f, k, v))
<1>1. DOMAIN f \subseteq K /\ f \in [DOMAIN f -> V]
  BY MapsType
<1>2. Insert(f, k, v) \in [DOMAIN f \cup {k} -> V]
  BY <1>1 DEF Insert
<1>3. Insert(f, k, v) \in Maps(K, V)
  BY <1>1, <1>2, MapsType
<1> QED
  BY <1>3 DEF Insert, IsEntered

\* An update in place.
LEMMA MapsUpdate ==
  ASSUME NEW K, NEW V, NEW f \in Maps(K, V), NEW k \in DOMAIN f, NEW v \in V
  PROVE  IsEntered(K, V, f, k, v, [f EXCEPT ![k] = v]) /\ DOMAIN [f EXCEPT ![k] = v] = DOMAIN f
<1>1. DOMAIN f \subseteq K /\ f \in [DOMAIN f -> V]
  BY MapsType
<1>2. [f EXCEPT ![k] = v] \in [DOMAIN f -> V]
  BY <1>1
<1>3. [f EXCEPT ![k] = v] \in Maps(K, V)
  BY <1>1, <1>2, MapsType
<1> QED
  BY <1>3 DEF IsEntered

\* A removal of keys.
LEMMA MapsRestrict ==
  ASSUME NEW K, NEW V, NEW f \in Maps(K, V), NEW E \in SUBSET DOMAIN f
  PROVE  /\ [x \in E |-> f[x]] \in Maps(K, V)
         /\ DOMAIN [x \in E |-> f[x]] = E
<1>1. DOMAIN f \subseteq K /\ f \in [DOMAIN f -> V]
  BY MapsType
<1>2. [x \in E |-> f[x]] \in [E -> V] /\ E \subseteq K
  BY <1>1
<1> QED
  BY <1>2, MapsType

-----------------------------------------------------------------------------
(* Payments.                                                               *)

\* The balances after amount has gone from one account to another, or to the same.
IsMove(b, c, from, to, amount) ==
  \A a \in Accounts :
    c[a] = (b[a] - IF a = from THEN amount ELSE 0) + IF a = to THEN amount ELSE 0

\* Users, the treasury and the escrow accounts are different accounts.
LEMMA AccountFacts ==
  /\ IsFiniteSet(Accounts) /\ Users \subseteq Accounts /\ Escrows \subseteq Accounts
  /\ TREASURY \in Accounts /\ TREASURY \notin Escrows /\ Users \cap Escrows = {}
  /\ TREASURY \notin Users
<1>1. IsFiniteSet(Users) /\ Users \cap Sinks = {}
  BY LedgerConstants
<1>2. IsFiniteSet(Sinks)
  <2>1. IsFiniteSet({STAKE_SINK}) /\ IsFiniteSet({STORAGE_ESCROW})
        /\ IsFiniteSet({HTLC_ESCROW}) /\ IsFiniteSet({TREASURY})
    BY FS_Singleton, Zenon
  <2>2. IsFiniteSet({STAKE_SINK} \cup {STORAGE_ESCROW}) /\ IsFiniteSet({HTLC_ESCROW} \cup {TREASURY})
    BY <2>1, FS_Union, Zenon
  <2>3. IsFiniteSet(({STAKE_SINK} \cup {STORAGE_ESCROW}) \cup ({HTLC_ESCROW} \cup {TREASURY}))
    BY <2>2, FS_Union, Zenon
  <2>4. Sinks = ({STAKE_SINK} \cup {STORAGE_ESCROW}) \cup ({HTLC_ESCROW} \cup {TREASURY})
    BY DEF Sinks
  <2> QED
    BY <2>3, <2>4, Zenon
<1>3. IsFiniteSet(Accounts)
  BY <1>1, <1>2, FS_Union, Zenon DEF Accounts
<1> QED
  BY <1>1, <1>3, Zenon DEF Accounts, Sinks, Escrows, STAKE_SINK, STORAGE_ESCROW, HTLC_ESCROW, TREASURY

\* What a payment leaves alone: all but the balances, and the nonces.
IsPayment(P, l, m, from, to, amount) ==
  /\ m \in Ledger(P)
  /\ IsMove(l.balance, m.balance, from, to, amount)
  /\ SumFunction(m.balance) = SumFunction(l.balance)
  /\ m.bonded = l.bonded /\ m.slashed = l.slashed /\ m.deals = l.deals
  /\ m.htlcs = l.htlcs /\ m.names = l.names /\ m.height = l.height

\* move_system, when the account is not short.
LEMMA MovedFields ==
  ASSUME NEW P, NEW l \in Ledger(P), NEW from \in Accounts, NEW to \in Accounts,
         NEW amount \in Nat, amount <= l.balance[from]
  PROVE  /\ IsPayment(P, l, Moved(l, from, to, amount), from, to, amount)
         /\ Moved(l, from, to, amount).nonce = l.nonce
<1> DEFINE b == l.balance
           c == [b EXCEPT ![from] = @ - amount]
           d == [c EXCEPT ![to] = @ + amount]
           m == Moved(l, from, to, amount)
<1>1. b \in [Accounts -> Nat]
  BY DEF Ledger
<1>2. m = [l EXCEPT !.balance = d]
  <2>1. ~(l.balance[from] < amount)
    BY <1>1
  <2>2. m = [l EXCEPT !.balance[from] = @ - amount, !.balance[to] = @ + amount]
    BY <2>1, Zenon DEF Moved
  <2>3. m = [l EXCEPT !.balance = [b EXCEPT ![from] = @ - amount, ![to] = @ + amount]]
    BY <2>2, Zenon DEF Ledger
  <2>4. [b EXCEPT ![from] = @ - amount, ![to] = @ + amount] = d
    BY <1>1
  <2> QED
    BY <2>3, <2>4, Zenon
<1>3. m.balance = d
  BY <1>2 DEF Ledger
<1>4. c \in [Accounts -> Nat] /\ c[from] = b[from] - amount /\ \A a \in Accounts : a # from => c[a] = b[a]
  BY <1>1
<1>5. d \in [Accounts -> Nat] /\ d[to] = c[to] + amount /\ \A a \in Accounts : a # to => d[a] = c[a]
  BY <1>4
<1> HIDE DEF b, c, d
<1>6. IsMove(b, d, from, to, amount)
  BY <1>1, <1>4, <1>5 DEF IsMove
<1>7. IsFiniteSet(Accounts) /\ c \in [Accounts \cup {from} -> Nat] /\ d \in [Accounts \cup {to} -> Nat]
  <2>1. Accounts \cup {from} = Accounts /\ Accounts \cup {to} = Accounts
    OBVIOUS
  <2> QED
    BY <1>4, <1>5, <2>1, AccountFacts
<1>8. SumFunction(b) \in Nat /\ SumFunction(c) = (SumFunction(b) - b[from]) + c[from]
  BY <1>1, <1>4, <1>7, SumChanges DEF SumFollows
<1>9. SumFunction(c) \in Nat /\ SumFunction(d) = (SumFunction(c) - c[to]) + d[to]
  BY <1>4, <1>5, <1>7, SumChanges DEF SumFollows
<1>10. b[from] \in Nat /\ c[to] \in Nat
  BY <1>1, <1>4
<1>11. SumFunction(d) = SumFunction(b)
  BY <1>4, <1>5, <1>8, <1>9, <1>10
<1>12. /\ m \in Ledger(P) /\ m.nonce = l.nonce
       /\ m.bonded = l.bonded /\ m.slashed = l.slashed /\ m.deals = l.deals
       /\ m.htlcs = l.htlcs /\ m.names = l.names /\ m.height = l.height
  <2> HIDE DEF m
  <2> QED
    BY <1>2, <1>5 DEF Ledger
<1> QED
  BY <1>3, <1>6, <1>11, <1>12, Zenon DEF b, IsPayment

\* A payment that was signed for: the nonce of its sender is spent.
IsPaid(P, l, m, pay) ==
  /\ IsPayment(P, l, m, pay.from, pay.to, pay.amount)
  /\ \A u \in Users : l.nonce[u] <= m.nonce[u]
  /\ l.nonce[pay.from] < m.nonce[pay.from]

\* TokenLedger::apply, once it accepts.
LEMMA PaidFields ==
  ASSUME NEW P, NEW l \in Ledger(P), NEW pay \in Payment, Payable(l, pay)
  PROVE  IsPaid(P, l, Paid(l, pay), pay)
<1> DEFINE m == Moved(l, pay.from, pay.to, pay.amount)
           p == Paid(l, pay)
<1>1. pay.from \in Users /\ pay.from \in Accounts /\ pay.to \in Accounts /\ pay.amount \in Nat
  BY AccountFacts DEF Payment, PaymentTo
<1>2. pay.amount <= l.balance[pay.from]
  <2>1. l.balance[pay.from] \in Nat
    BY <1>1 DEF Ledger
  <2> QED
    BY <1>1, <2>1 DEF Payable
<1>3. IsPayment(P, l, m, pay.from, pay.to, pay.amount) /\ m.nonce = l.nonce
  BY <1>1, <1>2, MovedFields, SMT
<1> HIDE DEF m
<1>4. p = [m EXCEPT !.nonce[pay.from] = @ + 1]
  BY Zenon DEF Paid, NextNonce, m
<1> HIDE DEF p
<1>5. /\ p \in Ledger(P) /\ p.balance = m.balance
      /\ p.nonce = [m.nonce EXCEPT ![pay.from] = m.nonce[pay.from] + 1]
      /\ p.bonded = m.bonded /\ p.slashed = m.slashed /\ p.deals = m.deals
      /\ p.htlcs = m.htlcs /\ p.names = m.names /\ p.height = m.height
  <2>1. m \in Ledger(P)
    BY <1>3 DEF IsPayment
  <2> QED
    BY SMTT(60), <1>1, <1>4, <2>1 DEF Ledger
<1>6. IsPayment(P, l, p, pay.from, pay.to, pay.amount)
  BY <1>3, <1>5, Zenon DEF IsPayment
<1>7. l.nonce \in [Users -> Nat]
  BY DEF Ledger
<1>8. (\A u \in Users : l.nonce[u] <= p.nonce[u]) /\ l.nonce[pay.from] < p.nonce[pay.from]
  BY <1>1, <1>3, <1>5, <1>7
<1> QED
  BY <1>6, <1>8, Zenon DEF p, IsPaid

-----------------------------------------------------------------------------
(* What is owed.                                                           *)

\* owed_after_passes grows with the passes, from nothing to the price.
LEMMA OwedBounds ==
  ASSUME NEW params, params.price \in Nat, params.duration \in Nat, params.duration > 0,
         NEW k \in Nat
  PROVE  /\ OwedAfterPasses(params, k) \in Nat
         /\ k <= params.duration => OwedAfterPasses(params, k) <= params.price
         /\ OwedAfterPasses(params, k) <= OwedAfterPasses(params, k + 1)
         /\ OwedAfterPasses(params, params.duration) = params.price
         /\ OwedAfterPasses(params, 0) = 0
<1> DEFINE p == params.price
           d == params.duration
<1>1. \A j : OwedAfterPasses(params, j) = (p * j) \div d
  BY DEF OwedAfterPasses
<1>2. p \in Nat /\ d \in Nat /\ d > 0
  OBVIOUS
<1> HIDE DEF p, d
<1>3. /\ \A a \in Nat : a \div d \in Nat
      /\ \A a, c \in Nat : a <= c => a \div d <= c \div d
      /\ (p * d) \div d = p
      /\ 0 \div d = 0
  BY <1>2
<1>4. p * k \in Nat /\ p * d \in Nat /\ p * (k + 1) \in Nat /\ p * k <= p * (k + 1) /\ p * 0 = 0
      /\ (k <= d => p * k <= p * d)
  BY <1>2
<1>5. (p * k) \div d \in Nat /\ (p * k) \div d <= (p * (k + 1)) \div d
      /\ (k <= d => (p * k) \div d <= (p * d) \div d)
  BY <1>3, <1>4
<1> QED
  BY <1>1, <1>3, <1>4, <1>5, Zenon DEF p, d

\* What an active deal has left of its price.
LEMMA RefundableBounds ==
  ASSUME NEW P, NEW id \in DealIds(P), NEW deal \in Deal, NEW height, DealInv(id, deal, height)
  PROVE  /\ deal.released <= id[1].price
         /\ Refundable(id, deal) \in Nat
         /\ id[1].price \in Nat /\ id[1].duration \in Nat /\ id[1].lambda \in Nat
         /\ id[1].consumer \in Users /\ id[1].provider \in P
<1>1. /\ id[1].price \in Nat /\ id[1].duration \in Nat /\ id[1].lambda \in Nat
      /\ id[1].consumer \in Users /\ id[1].provider \in P
  BY DEF DealIds, DealParams
<1>2. deal.passed \in Nat /\ deal.released \in Nat
  BY DEF Deal
<1>3. deal.released <= id[1].price
  <2>1. CASE deal.state = "active"
    BY <1>1, <1>2, <2>1, OwedBounds DEF DealInv
  <2>2. CASE deal.state # "active"
    BY <1>1, <1>2, <2>2 DEF DealInv
  <2> QED
    BY <2>1, <2>2
<1> QED
  BY <1>1, <1>2, <1>3 DEF Refundable

\* What the escrow accounts owe are sums of numbers.
LEMMA OwedTypes ==
  ASSUME NEW P, NEW l, LedgerInv(l, P)
  PROVE  /\ l.bonded \in [Users -> Nat]
         /\ OwedForDeals(l) \in [DOMAIN l.deals -> Nat]
         /\ OwedForHtlcs(l) \in [DOMAIN l.htlcs -> Nat]
         /\ \A e \in Escrows : Owes(l, e) \in Nat /\ l.balance[e] \in Nat
         /\ DOMAIN l.deals \subseteq DealIds(P) /\ \A id \in DOMAIN l.deals : l.deals[id] \in Deal
         /\ DOMAIN l.htlcs \subseteq HtlcIds(P)
<1>1. l.balance \in [Accounts -> Nat] /\ l.bonded \in [Users -> Nat]
      /\ l.deals \in Maps(DealIds(P), Deal) /\ l.htlcs \in Maps(HtlcIds(P), HtlcStates)
  BY DEF LedgerInv, Ledger
<1>2. /\ DOMAIN l.deals \subseteq DealIds(P) /\ l.deals \in [DOMAIN l.deals -> Deal]
      /\ DOMAIN l.htlcs \subseteq HtlcIds(P)
  BY <1>1, MapsType
<1>3. \A id \in DOMAIN l.deals : l.deals[id] \in Deal
  BY <1>2
<1>4. \A id \in DOMAIN l.deals : Refundable(id, l.deals[id]) \in Nat
  BY <1>2, <1>3, RefundableBounds, Zenon DEF LedgerInv
<1>5. \A id \in DOMAIN l.htlcs : id[1].amount \in Nat
  BY <1>2 DEF HtlcIds, HtlcTerms
<1>6. OwedForDeals(l) \in [DOMAIN l.deals -> Nat]
  BY <1>4 DEF OwedForDeals
<1>7. OwedForHtlcs(l) \in [DOMAIN l.htlcs -> Nat]
  BY <1>5 DEF OwedForHtlcs
<1>8. IsFiniteSet(Users) /\ IsFiniteSet(DOMAIN l.deals) /\ IsFiniteSet(DOMAIN l.htlcs)
  BY LedgerConstants DEF LedgerInv
<1>9. ASSUME NEW D, IsFiniteSet(D), NEW f \in [D -> Nat] PROVE SumFunction(f) \in Nat
  <2>1. \A x \in D : f[x] \in Nat /\ f[x] = f[x]
    OBVIOUS
  <2>2. SumFunctionOnSet(f, D) \in Nat
    BY <1>9, <2>1, SumCongruence, Zenon
  <2> QED
    BY <2>2 DEF SumFunction
<1>10. /\ SumFunction(l.bonded) \in Nat
       /\ SumFunction(OwedForDeals(l)) \in Nat /\ SumFunction(OwedForHtlcs(l)) \in Nat
  BY <1>1, <1>6, <1>7, <1>8, <1>9, Zenon
<1>11. \A e \in Escrows : Owes(l, e) \in Nat
  BY <1>10, Zenon DEF Owes
<1>12. \A e \in Escrows : l.balance[e] \in Nat
  BY <1>1, AccountFacts
<1> QED
  BY <1>1, <1>2, <1>3, <1>6, <1>7, <1>11, <1>12, Zenon

-----------------------------------------------------------------------------
(* The books after a payment.                                              *)

\* A payment that no escrow account makes, and that goes into one only if users may name it.
LEMMA PayOver ==
  ASSUME NEW P, NEW l, LedgerInv(l, P), NEW r, NEW from, NEW to, NEW amount \in Nat,
         IsMove(l.balance, r.balance, from, to, amount),
         from \notin Escrows, to \in Escrows => to \in P,
         \A e \in Escrows : Owes(r, e) = Owes(l, e)
  PROVE  Balanced(r, P)
<1> SUFFICES ASSUME NEW e \in Escrows
             PROVE  /\ r.balance[e] >= Owes(r, e)
                    /\ P \cap Escrows = {} => r.balance[e] = Owes(r, e)
  BY DEF Balanced
<1>1. Owes(l, e) \in Nat /\ l.balance[e] \in Nat
  BY OwedTypes
<1>2. l.balance[e] >= Owes(l, e) /\ (P \cap Escrows = {} => l.balance[e] = Owes(l, e))
  BY DEF LedgerInv, Balanced
<1>3. r.balance[e] = (l.balance[e] - IF e = from THEN amount ELSE 0) + IF e = to THEN amount ELSE 0
  BY AccountFacts, Zenon DEF IsMove
<1>4. e # from /\ (e = to => P \cap Escrows # {})
  OBVIOUS
<1> QED
  BY <1>1, <1>2, <1>3, <1>4

\* A payment into an escrow account, which owes as much more.
LEMMA PayIn ==
  ASSUME NEW P, NEW l, LedgerInv(l, P), NEW r, NEW from, NEW to, NEW amount \in Nat,
         IsMove(l.balance, r.balance, from, to, amount),
         from \notin Escrows, to \in Escrows,
         \A e \in Escrows : Owes(r, e) = Owes(l, e) + IF e = to THEN amount ELSE 0
  PROVE  Balanced(r, P)
<1> SUFFICES ASSUME NEW e \in Escrows
             PROVE  /\ r.balance[e] >= Owes(r, e)
                    /\ P \cap Escrows = {} => r.balance[e] = Owes(r, e)
  BY DEF Balanced
<1>1. Owes(l, e) \in Nat /\ l.balance[e] \in Nat
  BY OwedTypes
<1>2. l.balance[e] >= Owes(l, e) /\ (P \cap Escrows = {} => l.balance[e] = Owes(l, e))
  BY DEF LedgerInv, Balanced
<1>3. r.balance[e] = (l.balance[e] - IF e = from THEN amount ELSE 0) + IF e = to THEN amount ELSE 0
  BY AccountFacts, Zenon DEF IsMove
<1> QED
  BY <1>1, <1>2, <1>3

\* A payment out of an escrow account, of what it no longer owes.
LEMMA PayOut ==
  ASSUME NEW P, NEW l, LedgerInv(l, P), NEW r, NEW from \in Escrows, NEW to, NEW amount \in Nat,
         IsMove(l.balance, r.balance, from, to, amount),
         to \in Escrows => to \in P,
         \A e \in Escrows : Owes(r, e) = Owes(l, e) - IF e = from THEN amount ELSE 0
  PROVE  Balanced(r, P)
<1> SUFFICES ASSUME NEW e \in Escrows
             PROVE  /\ r.balance[e] >= Owes(r, e)
                    /\ P \cap Escrows = {} => r.balance[e] = Owes(r, e)
  BY DEF Balanced
<1>1. Owes(l, e) \in Nat /\ l.balance[e] \in Nat
  BY OwedTypes
<1>2. l.balance[e] >= Owes(l, e) /\ (P \cap Escrows = {} => l.balance[e] = Owes(l, e))
  BY DEF LedgerInv, Balanced
<1>3. r.balance[e] = (l.balance[e] - IF e = from THEN amount ELSE 0) + IF e = to THEN amount ELSE 0
  BY AccountFacts, Zenon DEF IsMove
<1>4. e = to => P \cap Escrows # {}
  OBVIOUS
<1> QED
  BY <1>1, <1>2, <1>3, <1>4

\* What one contract changes of what its escrow account owes.
LEMMA BondedSum ==
  ASSUME NEW l, l.bonded \in [Users -> Nat], NEW r, NEW u \in Users, NEW n \in Nat,
         r.bonded = [l.bonded EXCEPT ![u] = n]
  PROVE  /\ l.bonded[u] <= SumFunction(l.bonded)
         /\ SumFunction(r.bonded) = (SumFunction(l.bonded) - l.bonded[u]) + n
<1>1. IsFiniteSet(Users)
  BY LedgerConstants
<1>2. r.bonded \in [Users \cup {u} -> Nat] /\ r.bonded[u] = n
      /\ \A x \in Users : x # u => r.bonded[x] = l.bonded[x]
  <2>1. Users \cup {u} = Users
    OBVIOUS
  <2> QED
    BY <2>1
<1>3. SumFollows(Users, l.bonded, u, r.bonded)
  BY <1>1, <1>2, SumChanges, Zenon
<1> QED
  BY <1>2, <1>3 DEF SumFollows

\* What one deal changes of what STORAGE_ESCROW owes.
DealSumFollows(l, r, id, deal) ==
  LET now == IF deal.state = "active" THEN Refundable(id, deal) ELSE 0
      was == IF l.deals[id].state = "active" THEN Refundable(id, l.deals[id]) ELSE 0
  IN  /\ id \in DOMAIN l.deals =>
           /\ was <= SumFunction(OwedForDeals(l))
           /\ SumFunction(OwedForDeals(r)) = (SumFunction(OwedForDeals(l)) - was) + now
      /\ id \notin DOMAIN l.deals =>
           SumFunction(OwedForDeals(r)) = SumFunction(OwedForDeals(l)) + now

\* The sum follows when one deal is opened or changed.
LEMMA DealSum ==
  ASSUME NEW l, IsFiniteSet(DOMAIN l.deals), OwedForDeals(l) \in [DOMAIN l.deals -> Nat],
         NEW r, NEW id, NEW deal, DOMAIN r.deals = DOMAIN l.deals \cup {id}, r.deals[id] = deal,
         deal.state = "active" => Refundable(id, deal) \in Nat,
         \A x \in DOMAIN l.deals : x # id => r.deals[x] = l.deals[x]
  PROVE  DealSumFollows(l, r, id, deal)
<1> DEFINE f == OwedForDeals(l)
           h == OwedForDeals(r)
           D == DOMAIN l.deals
           now == IF deal.state = "active" THEN Refundable(id, deal) ELSE 0
           was == IF l.deals[id].state = "active" THEN Refundable(id, l.deals[id]) ELSE 0
<1>1. DOMAIN h = D \cup {id} /\ h = [x \in D \cup {id} |-> h[x]]
  BY DEF OwedForDeals
<1>2. \A x \in D : x # id => h[x] = f[x]
  BY DEF OwedForDeals
<1>3. h[id] = now /\ (id \in D => f[id] = was) /\ now \in Nat
  BY DEF OwedForDeals
<1> HIDE DEF f, h, now, was
<1>4. h \in [D \cup {id} -> Nat]
  <2>1. \A x \in D \cup {id} : h[x] \in Nat
    BY <1>2, <1>3 DEF f
  <2> QED
    BY <1>1, <2>1
<1>5. IsFiniteSet(D) /\ f \in [D -> Nat]
  BY DEF f
<1> HIDE DEF D
<1>6. SumFollows(D, f, id, h)
  BY <1>2, <1>4, <1>5, SumChanges, Zenon
<1> QED
  BY <1>3, <1>6, Zenon DEF SumFollows, DealSumFollows, f, h, D, now, was

\* What one contract changes of what HTLC_ESCROW owes.
HtlcSumFollows(l, r, id, s) ==
  LET now == IF s = "locked" THEN id[1].amount ELSE 0
      was == IF l.htlcs[id] = "locked" THEN id[1].amount ELSE 0
  IN  /\ id \in DOMAIN l.htlcs =>
           /\ was <= SumFunction(OwedForHtlcs(l))
           /\ SumFunction(OwedForHtlcs(r)) = (SumFunction(OwedForHtlcs(l)) - was) + now
      /\ id \notin DOMAIN l.htlcs =>
           SumFunction(OwedForHtlcs(r)) = SumFunction(OwedForHtlcs(l)) + now

\* The sum follows when one contract is locked or changed.
LEMMA HtlcSum ==
  ASSUME NEW l, IsFiniteSet(DOMAIN l.htlcs), OwedForHtlcs(l) \in [DOMAIN l.htlcs -> Nat],
         NEW r, NEW id, NEW s, DOMAIN r.htlcs = DOMAIN l.htlcs \cup {id}, r.htlcs[id] = s,
         id[1].amount \in Nat,
         \A x \in DOMAIN l.htlcs : x # id => r.htlcs[x] = l.htlcs[x]
  PROVE  HtlcSumFollows(l, r, id, s)
<1> DEFINE f == OwedForHtlcs(l)
           h == OwedForHtlcs(r)
           D == DOMAIN l.htlcs
           now == IF s = "locked" THEN id[1].amount ELSE 0
           was == IF l.htlcs[id] = "locked" THEN id[1].amount ELSE 0
<1>1. DOMAIN h = D \cup {id} /\ h = [x \in D \cup {id} |-> h[x]]
  BY DEF OwedForHtlcs
<1>2. \A x \in D : x # id => h[x] = f[x]
  BY DEF OwedForHtlcs
<1>3. h[id] = now /\ (id \in D => f[id] = was) /\ now \in Nat
  BY DEF OwedForHtlcs
<1> HIDE DEF f, h, now, was
<1>4. h \in [D \cup {id} -> Nat]
  <2>1. \A x \in D \cup {id} : h[x] \in Nat
    BY <1>2, <1>3 DEF f
  <2> QED
    BY <1>1, <2>1, Zenon
<1>5. IsFiniteSet(D) /\ f \in [D -> Nat]
  BY DEF f
<1> HIDE DEF D
<1>6. SumFollows(D, f, id, h)
  BY <1>2, <1>4, <1>5, SumChanges, Zenon
<1> QED
  BY <1>3, <1>6, Zenon DEF SumFollows, HtlcSumFollows, f, h, D, now, was

-----------------------------------------------------------------------------
(* What holds while a block runs that began at the ledger k.               *)

\* No active deal outlives its term or its provider's silence.
Timely(l) ==
  \A id \in DOMAIN l.deals : l.deals[id].state = "active" =>
    /\ l.height < l.deals[id].open + id[1].duration * AuditPeriod
    /\ \/ l.height < l.deals[id].since + id[1].lambda * AuditPeriod
       \/ id[1].lambda = 0 /\ l.deals[id].open = l.height

\* The ledger l is of the block after k.  No nonce is lower, and a name that was held is as
\* it was, or its owner has signed something.
Follows(k, l) ==
  /\ l.height = k.height + 1
  /\ \A u \in Users : k.nonce[u] <= l.nonce[u]
  /\ \A name \in DOMAIN k.names : l.height <= k.names[name].expiry =>
       /\ name \in DOMAIN l.names
       /\ \/ l.names[name] = k.names[name]
          \/ k.names[name].owner \in Users /\ k.nonce[k.names[name].owner] < l.nonce[k.names[name].owner]

BlockInv(k, l, P) == LedgerInv(l, P) /\ Timely(l) /\ Follows(k, l)

\* The three escrow accounts are different.
LEMMA EscrowsDiffer ==
  STAKE_SINK # STORAGE_ESCROW /\ STAKE_SINK # HTLC_ESCROW /\ STORAGE_ESCROW # HTLC_ESCROW
BY DEF STAKE_SINK, STORAGE_ESCROW, HTLC_ESCROW

\* What an operation leaves alone keeps its part of the invariant.
LEMMA OwesFrame ==
  ASSUME NEW l, NEW r
  PROVE  /\ r.bonded = l.bonded => Owes(r, STAKE_SINK) = Owes(l, STAKE_SINK)
         /\ r.deals = l.deals => Owes(r, STORAGE_ESCROW) = Owes(l, STORAGE_ESCROW)
         /\ r.htlcs = l.htlcs => Owes(r, HTLC_ESCROW) = Owes(l, HTLC_ESCROW)
<1>1. r.deals = l.deals => OwedForDeals(r) = OwedForDeals(l)
  BY Zenon DEF OwedForDeals
<1>2. r.htlcs = l.htlcs => OwedForHtlcs(r) = OwedForHtlcs(l)
  BY Zenon DEF OwedForHtlcs
<1> QED
  BY <1>1, <1>2 DEF Owes, STAKE_SINK, STORAGE_ESCROW, HTLC_ESCROW

\* Deals that are left alone stay in order, and in time.
LEMMA DealsFrame ==
  ASSUME NEW P, NEW l, LedgerInv(l, P), NEW r, r.deals = l.deals, r.height = l.height
  PROVE  /\ IsFiniteSet(DOMAIN r.deals)
         /\ \A id \in DOMAIN r.deals : DealInv(id, r.deals[id], r.height)
         /\ Timely(l) => Timely(r)
<1>1. IsFiniteSet(DOMAIN r.deals) /\ \A id \in DOMAIN r.deals : DealInv(id, r.deals[id], r.height)
  BY Zenon DEF LedgerInv
<1>2. Timely(l) => Timely(r)
  BY Zenon DEF Timely
<1> QED
  BY <1>1, <1>2

\* A ledger still follows k when nonces have gone up.
LEMMA FollowsLater ==
  ASSUME NEW k, NEW l, NEW r, Follows(k, l), r.names = l.names, r.height = l.height,
         k.nonce \in [Users -> Nat], l.nonce \in [Users -> Nat], r.nonce \in [Users -> Nat],
         \A u \in Users : l.nonce[u] <= r.nonce[u]
  PROVE  Follows(k, r)
<1>1. \A u \in Users : /\ k.nonce[u] <= r.nonce[u]
                       /\ k.nonce[u] < l.nonce[u] => k.nonce[u] < r.nonce[u]
  <2>1. ASSUME NEW u \in Users
        PROVE  /\ k.nonce[u] <= r.nonce[u]
               /\ k.nonce[u] < l.nonce[u] => k.nonce[u] < r.nonce[u]
    <3>1. k.nonce[u] \in Nat /\ l.nonce[u] \in Nat /\ r.nonce[u] \in Nat
      OBVIOUS
    <3>2. k.nonce[u] <= l.nonce[u] /\ l.nonce[u] <= r.nonce[u]
      BY DEF Follows
    <3> QED
      BY <3>1, <3>2
  <2> QED
    BY <2>1
<1> QED
  BY <1>1, Zenon DEF Follows

\* The parts of a signed payment; no escrow account signs one.
LEMMA PaymentFields ==
  ASSUME NEW pay \in Payment
  PROVE  /\ pay.from \in Users /\ pay.from \in Accounts /\ pay.from \notin Escrows
         /\ pay.to \in Accounts /\ pay.amount \in Nat /\ pay.nonce \in Nat
BY AccountFacts DEF Payment, PaymentTo

\* The ledger of a result, whatever the outcome.
LEMMA Results ==
  ASSUME NEW l
  PROVE  Applied(l).ledger = l /\ Rejected(l).ledger = l /\ Deferred(l).ledger = l
BY DEF Applied, Rejected, Deferred

IsFunded(l, pay, done, r) == r = l \/ (Payable(l, pay) /\ r = done)

\* An operation that is paid for is not done unless the payment is.
LEMMA FundedResult ==
  ASSUME NEW l, NEW pay, NEW done
  PROVE  IsFunded(l, pay, done, Funded(l, pay, done).ledger)
<1>1. \/ Funded(l, pay, done).ledger = l
      \/ Payable(l, pay) /\ Funded(l, pay, done).ledger = done
  BY DEF Funded, Deferred, Applied, Rejected
<1> DEFINE r == Funded(l, pay, done).ledger
<1> HIDE DEF r
<1>2. IsFunded(l, pay, done, r)
  BY <1>1 DEF IsFunded, r
<1> QED
  BY <1>2, Zenon DEF r

\* A transfer that is paid, and what is common to all that are paid for.
LEMMA PaidKeeps ==
  ASSUME NEW P, NEW k \in Ledger(P), NEW l, BlockInv(k, l, P),
         NEW pay \in Payment, Payable(l, pay)
  PROVE  /\ IsPaid(P, l, Paid(l, pay), pay)
         /\ Follows(k, Paid(l, pay))
         /\ (pay.to \in Escrows => pay.to \in P) => BlockInv(k, Paid(l, pay), P)
<1> DEFINE r == Paid(l, pay)
<1>1. LedgerInv(l, P) /\ l \in Ledger(P)
  BY DEF BlockInv, LedgerInv
<1>2. IsPaid(P, l, r, pay)
  BY <1>1, PaidFields, Zenon
<1> HIDE DEF r
<1>3. /\ pay.from \notin Escrows /\ pay.amount \in Nat
      /\ IsMove(l.balance, r.balance, pay.from, pay.to, pay.amount)
  BY <1>2, PaymentFields, Zenon DEF IsPaid, IsPayment
<1>4. \A e \in Escrows : Owes(r, e) = Owes(l, e)
  BY <1>2, OwesFrame, Zenon DEF IsPaid, IsPayment, Escrows
<1>5. (pay.to \in Escrows => pay.to \in P) => Balanced(r, P)
  BY <1>1, <1>3, <1>4, PayOver, Zenon
<1>6. Follows(k, r)
  <2>1. k.nonce \in [Users -> Nat] /\ l.nonce \in [Users -> Nat]
    BY <1>1 DEF Ledger
  <2>2. r.nonce \in [Users -> Nat]
    BY <1>2 DEF IsPaid, IsPayment, Ledger
  <2> QED
    BY <1>2, <2>1, <2>2, FollowsLater, Zenon DEF BlockInv, IsPaid, IsPayment
<1>7. /\ IsFiniteSet(DOMAIN r.deals) /\ Timely(r)
      /\ \A id \in DOMAIN r.deals : DealInv(id, r.deals[id], r.height)
  BY <1>1, <1>2, DealsFrame, Zenon DEF IsPaid, IsPayment, BlockInv
<1> QED
  BY <1>1, <1>2, <1>5, <1>6, <1>7, Zenon DEF BlockInv, LedgerInv, IsPaid, IsPayment, r

\* What remains to be shown of an operation that leaves the deals alone.
LEMMA KeepsApartFromDeals ==
  ASSUME NEW P, NEW k, NEW l, BlockInv(k, l, P), NEW r \in Ledger(P),
         SumFunction(r.balance) = SumFunction(l.balance), Balanced(r, P),
         r.deals = l.deals, IsFiniteSet(DOMAIN r.htlcs), r.height = l.height, Follows(k, r)
  PROVE  BlockInv(k, r, P)
<1>1. LedgerInv(l, P)
  BY DEF BlockInv
<1>2. /\ IsFiniteSet(DOMAIN r.deals) /\ Timely(r)
      /\ \A id \in DOMAIN r.deals : DealInv(id, r.deals[id], r.height)
  BY <1>1, DealsFrame, Zenon DEF BlockInv
<1> QED
  BY <1>1, <1>2, Zenon DEF BlockInv, LedgerInv

\* Whether a ledger follows k depends on its nonces, names and height only.
LEMMA FollowsFrame ==
  ASSUME NEW k, NEW p, NEW r, Follows(k, p), r.nonce = p.nonce, r.names = p.names, r.height = p.height
  PROVE  Follows(k, r)
BY Zenon DEF Follows

-----------------------------------------------------------------------------
(* Stake.                                                                  *)

\* apply_stake, bonding: STAKE_SINK holds and owes as much more.
LEMMA BondKeeps ==
  ASSUME NEW P, NEW k \in Ledger(P), NEW l, BlockInv(k, l, P),
         NEW tx, tx.pay \in Payment
  PROVE  BlockInv(k, Bond(l, tx).ledger, P)
<1> DEFINE pay == tx.pay
           u == pay.from
           p == Paid(l, pay)
           r == [p EXCEPT !.bonded[u] = @ + pay.amount]
<1>1. Bond(l, tx).ledger = IF pay.to = STAKE_SINK /\ Payable(l, pay) THEN r ELSE l
  BY DEF Bond, Applied, Rejected
<1> SUFFICES ASSUME pay.to = STAKE_SINK, Payable(l, pay)
             PROVE  BlockInv(k, r, P)
  BY <1>1, Zenon
<1>2. IsPaid(P, l, p, pay) /\ Follows(k, p)
  BY PaidKeeps, Zenon
<1>3. u \in Users /\ u \notin Escrows /\ pay.amount \in Nat
  BY PaymentFields, Zenon
<1>4. LedgerInv(l, P)
  BY DEF BlockInv
<1> HIDE DEF p, u, pay
<1>5. p \in Ledger(P) /\ p.bonded = l.bonded
  BY <1>2, Zenon DEF IsPaid, IsPayment
<1>6. /\ r \in Ledger(P)
      /\ r.bonded = [l.bonded EXCEPT ![u] = l.bonded[u] + pay.amount]
      /\ r.balance = p.balance /\ r.nonce = p.nonce /\ r.deals = p.deals
      /\ r.htlcs = p.htlcs /\ r.names = p.names /\ r.height = p.height
  BY SMTT(60), <1>3, <1>5 DEF Ledger
<1> HIDE DEF r
<1>7. l.bonded \in [Users -> Nat] /\ l.bonded[u] + pay.amount \in Nat /\ l.bonded[u] \in Nat
      /\ SumFunction(l.bonded) \in Nat
  BY <1>3, <1>4, OwedTypes DEF Owes, Escrows
<1>8. SumFunction(r.bonded) = (SumFunction(l.bonded) - l.bonded[u]) + (l.bonded[u] + pay.amount)
  BY <1>3, <1>6, <1>7, BondedSum
<1>9. SumFunction(r.bonded) = SumFunction(l.bonded) + pay.amount
  BY <1>3, <1>7, <1>8
<1>10. Owes(r, STORAGE_ESCROW) = Owes(l, STORAGE_ESCROW) /\ Owes(r, HTLC_ESCROW) = Owes(l, HTLC_ESCROW)
  BY <1>2, <1>6, OwesFrame, Zenon DEF IsPaid, IsPayment
<1>11. \A e \in Escrows : Owes(r, e) = Owes(l, e) + IF e = pay.to THEN pay.amount ELSE 0
  <2>1. \A e \in Escrows : Owes(l, e) \in Nat
    BY <1>4, OwedTypes, Zenon
  <2>2. Owes(r, STAKE_SINK) = Owes(l, STAKE_SINK) + pay.amount
    BY <1>9 DEF Owes
  <2> QED
    BY <1>3, <1>10, <2>1, <2>2, EscrowsDiffer DEF Escrows
<1>12. IsMove(l.balance, r.balance, u, pay.to, pay.amount) /\ pay.to \in Escrows
  BY <1>2, <1>6, Zenon DEF IsPaid, IsPayment, Escrows, u
<1>13. Balanced(r, P)
  BY <1>3, <1>4, <1>11, <1>12, PayIn, Zenon
<1>14. Follows(k, r)
  BY <1>2, <1>6, FollowsFrame, Zenon
<1>15. /\ SumFunction(r.balance) = SumFunction(l.balance)
       /\ r.deals = l.deals /\ r.height = l.height /\ IsFiniteSet(DOMAIN r.htlcs)
  BY <1>2, <1>4, <1>6, Zenon DEF IsPaid, IsPayment, LedgerInv
<1> QED
  BY <1>6, <1>13, <1>14, <1>15, KeepsApartFromDeals, Zenon

\* apply_stake, unbonding: it has the amount, for the bonds of all users are there.
LEMMA UnbondKeeps ==
  ASSUME NEW P, NEW k \in Ledger(P), NEW l, BlockInv(k, l, P),
         NEW tx, tx.pay \in Payment
  PROVE  BlockInv(k, Unbond(l, tx).ledger, P)
<1> DEFINE pay == tx.pay
           u == pay.from
           a == pay.amount
           n == NextNonce(l, u)
           m == Moved(n, STAKE_SINK, u, a)
           r == [m EXCEPT !.bonded[u] = @ - a]
<1>1. Unbond(l, tx).ledger
        = IF pay.to = STAKE_SINK /\ l.bonded[u] >= a /\ pay.nonce = l.nonce[u] THEN r ELSE l
  BY DEF Unbond, Applied, Rejected
<1> SUFFICES ASSUME l.bonded[u] >= a
             PROVE  BlockInv(k, r, P)
  BY <1>1, Zenon
<1>2. u \in Users /\ u \in Accounts /\ u \notin Escrows /\ a \in Nat
  BY PaymentFields, Zenon
<1>3. LedgerInv(l, P) /\ l \in Ledger(P) /\ k.nonce \in [Users -> Nat] /\ l.nonce \in [Users -> Nat]
  BY DEF BlockInv, LedgerInv, Ledger
<1> HIDE DEF u, a, pay
<1>4. /\ n \in Ledger(P) /\ n.nonce = [l.nonce EXCEPT ![u] = l.nonce[u] + 1]
      /\ n.balance = l.balance /\ n.bonded = l.bonded /\ n.slashed = l.slashed /\ n.deals = l.deals
      /\ n.htlcs = l.htlcs /\ n.names = l.names /\ n.height = l.height
  BY <1>2, <1>3 DEF NextNonce, Ledger
<1> HIDE DEF n
<1>5. Follows(k, n)
  <2>1. n.nonce \in [Users -> Nat] /\ \A x \in Users : l.nonce[x] <= n.nonce[x]
    BY <1>2, <1>3, <1>4
  <2> QED
    BY <1>3, <1>4, <2>1, FollowsLater, Zenon DEF BlockInv
<1>6. /\ l.bonded \in [Users -> Nat] /\ l.bonded[u] \in Nat /\ l.bonded[u] - a \in Nat
      /\ SumFunction(l.bonded) \in Nat /\ l.balance[STAKE_SINK] \in Nat
  BY <1>2, <1>3, OwedTypes DEF Owes, Escrows
<1>7. l.bonded[u] <= SumFunction(l.bonded)
  <2> DEFINE q == [bonded |-> [l.bonded EXCEPT ![u] = 0]]
  <2>1. q.bonded = [l.bonded EXCEPT ![u] = 0]
    OBVIOUS
  <2> HIDE DEF q
  <2> QED
    BY <1>2, <1>6, <2>1, BondedSum
<1>8. a <= n.balance[STAKE_SINK]
  <2>1. l.balance[STAKE_SINK] >= SumFunction(l.bonded)
    BY <1>3 DEF LedgerInv, Balanced, Escrows, Owes
  <2> QED
    BY <1>2, <1>4, <1>6, <1>7, <2>1
<1>9. STAKE_SINK \in Escrows /\ STAKE_SINK \in Accounts
  BY AccountFacts DEF Escrows
<1>10. IsPayment(P, n, m, STAKE_SINK, u, a) /\ m.nonce = n.nonce
  BY <1>2, <1>4, <1>8, <1>9, MovedFields, SMT
<1> HIDE DEF m
<1>11. m \in Ledger(P) /\ m.bonded = l.bonded
  BY <1>4, <1>10, Zenon DEF IsPayment
<1>12. /\ r \in Ledger(P)
       /\ r.bonded = [l.bonded EXCEPT ![u] = l.bonded[u] - a]
       /\ r.balance = m.balance /\ r.nonce = m.nonce /\ r.deals = m.deals
       /\ r.htlcs = m.htlcs /\ r.names = m.names /\ r.height = m.height
  BY SMTT(60), <1>2, <1>6, <1>11 DEF Ledger
<1> HIDE DEF r
<1>13. SumFunction(r.bonded) = (SumFunction(l.bonded) - l.bonded[u]) + (l.bonded[u] - a)
  BY <1>2, <1>6, <1>12, BondedSum
<1>14. SumFunction(r.bonded) = SumFunction(l.bonded) - a
  BY <1>2, <1>6, <1>13
<1>15. Owes(r, STORAGE_ESCROW) = Owes(l, STORAGE_ESCROW) /\ Owes(r, HTLC_ESCROW) = Owes(l, HTLC_ESCROW)
  BY <1>4, <1>10, <1>12, OwesFrame, Zenon DEF IsPayment
<1>16. \A e \in Escrows : Owes(r, e) = Owes(l, e) - IF e = STAKE_SINK THEN a ELSE 0
  <2>1. \A e \in Escrows : Owes(l, e) \in Nat
    BY <1>3, OwedTypes, Zenon
  <2>2. Owes(r, STAKE_SINK) = Owes(l, STAKE_SINK) - a
    BY <1>14 DEF Owes
  <2> QED
    BY <1>2, <1>15, <2>1, <2>2, EscrowsDiffer DEF Escrows
<1>17. IsMove(l.balance, r.balance, STAKE_SINK, u, a)
  BY <1>4, <1>10, <1>12, Zenon DEF IsPayment
<1>18. Balanced(r, P)
  BY <1>2, <1>3, <1>9, <1>16, <1>17, PayOut, Zenon
<1>19. Follows(k, r)
  BY <1>4, <1>5, <1>10, <1>12, FollowsFrame, Zenon DEF IsPayment
<1>20. /\ SumFunction(r.balance) = SumFunction(l.balance)
       /\ r.deals = l.deals /\ r.height = l.height /\ IsFiniteSet(DOMAIN r.htlcs)
  BY <1>3, <1>4, <1>10, <1>12, Zenon DEF IsPayment, LedgerInv
<1> QED
  BY <1>12, <1>18, <1>19, <1>20, KeepsApartFromDeals, Zenon

\* apply_slash: all that was bonded leaves STAKE_SINK, and is owed no longer.
LEMMA SlashKeeps ==
  ASSUME NEW P, NEW k \in Ledger(P), NEW l, BlockInv(k, l, P),
         NEW tx, tx.who \in Users, tx.slot \in Slots
  PROVE  BlockInv(k, Slash(l, tx).ledger, P)
<1> DEFINE u == tx.who
           a == l.bonded[u]
           m == Moved(l, STAKE_SINK, TREASURY, a)
           r == [m EXCEPT !.bonded[u] = 0, !.slashed = @ \cup {<<u, tx.slot>>}]
<1>1. Slash(l, tx).ledger = l \/ Slash(l, tx).ledger = r
  BY DEF Slash, Applied, Rejected
<1> SUFFICES BlockInv(k, r, P)
  BY <1>1, Zenon
<1>2. LedgerInv(l, P) /\ l \in Ledger(P)
  BY DEF BlockInv, LedgerInv
<1>3. l.bonded \in [Users -> Nat] /\ a \in Nat /\ SumFunction(l.bonded) \in Nat
      /\ l.balance[STAKE_SINK] \in Nat
  BY <1>2, OwedTypes DEF Owes, Escrows
<1>4. u \in Users /\ <<u, tx.slot>> \in Users \X Slots
  OBVIOUS
<1> HIDE DEF u
<1>5. a <= SumFunction(l.bonded)
  <2> DEFINE q == [bonded |-> [l.bonded EXCEPT ![u] = 0]]
  <2>1. q.bonded = [l.bonded EXCEPT ![u] = 0]
    OBVIOUS
  <2> HIDE DEF q
  <2> QED
    BY <1>3, <1>4, <2>1, BondedSum
<1>6. a <= l.balance[STAKE_SINK]
  <2>1. l.balance[STAKE_SINK] >= SumFunction(l.bonded)
    BY <1>2 DEF LedgerInv, Balanced, Escrows, Owes
  <2> QED
    BY <1>3, <1>5, <2>1
<1>7. STAKE_SINK \in Escrows /\ STAKE_SINK \in Accounts /\ TREASURY \in Accounts /\ TREASURY \notin Escrows
  BY AccountFacts DEF Escrows
<1>8. IsPayment(P, l, m, STAKE_SINK, TREASURY, a) /\ m.nonce = l.nonce
  BY <1>2, <1>3, <1>6, <1>7, MovedFields, SMT
<1> HIDE DEF m
<1>9. m \in Ledger(P) /\ m.bonded = l.bonded
  BY <1>8, Zenon DEF IsPayment
<1>10. /\ r \in Ledger(P)
       /\ r.bonded = [l.bonded EXCEPT ![u] = 0]
       /\ r.balance = m.balance /\ r.nonce = m.nonce /\ r.deals = m.deals
       /\ r.htlcs = m.htlcs /\ r.names = m.names /\ r.height = m.height
  BY <1>4, <1>9, Zenon DEF Ledger
<1> HIDE DEF r
<1>11. SumFunction(r.bonded) = (SumFunction(l.bonded) - a) + 0
  BY <1>3, <1>4, <1>10, BondedSum
<1>12. Owes(r, STORAGE_ESCROW) = Owes(l, STORAGE_ESCROW) /\ Owes(r, HTLC_ESCROW) = Owes(l, HTLC_ESCROW)
  BY <1>8, <1>10, OwesFrame, Zenon DEF IsPayment
<1>13. \A e \in Escrows : Owes(r, e) = Owes(l, e) - IF e = STAKE_SINK THEN a ELSE 0
  <2> HIDE DEF a
  <2>1. \A e \in Escrows : Owes(l, e) \in Nat
    BY <1>2, OwedTypes, Zenon
  <2>2. Owes(r, STAKE_SINK) = Owes(l, STAKE_SINK) - a
    BY <1>3, <1>11 DEF Owes
  <2> QED
    BY <1>3, <1>12, <2>1, <2>2, EscrowsDiffer DEF Escrows
<1>14. IsMove(l.balance, r.balance, STAKE_SINK, TREASURY, a)
  BY <1>8, <1>10, Zenon DEF IsPayment
<1> HIDE DEF a
<1>15. Balanced(r, P)
  BY <1>2, <1>3, <1>7, <1>13, <1>14, PayOut, Zenon
<1>16. Follows(k, r)
  BY <1>8, <1>10, FollowsFrame, Zenon DEF IsPayment, BlockInv
<1>17. /\ SumFunction(r.balance) = SumFunction(l.balance)
       /\ r.deals = l.deals /\ r.height = l.height /\ IsFiniteSet(DOMAIN r.htlcs)
  BY <1>2, <1>8, <1>10, Zenon DEF IsPayment, LedgerInv
<1> QED
  BY <1>10, <1>15, <1>16, <1>17, KeepsApartFromDeals, Zenon

-----------------------------------------------------------------------------
(* Hash time-locked contracts.                                             *)

\* Locking: HTLC_ESCROW holds and owes as much more.
LEMMA LockKeeps ==
  ASSUME NEW P, NEW k \in Ledger(P), NEW l, BlockInv(k, l, P),
         NEW tx, tx.pay \in Payment, tx.terms \in HtlcTerms(P)
  PROVE  BlockInv(k, LockHtlc(l, tx).ledger, P)
<1> DEFINE pay == tx.pay
           a == pay.amount
           id == <<tx.terms, pay.nonce>>
           p == Paid(l, pay)
           r == [p EXCEPT !.htlcs = Insert(@, id, "locked")]
<1>1. \/ LockHtlc(l, tx).ledger = l
      \/ /\ pay.to = HTLC_ESCROW /\ a = tx.terms.amount /\ id \notin DOMAIN l.htlcs
         /\ LockHtlc(l, tx).ledger = Funded(l, pay, r).ledger
  BY DEF LockHtlc, Rejected
<1> HIDE DEF r
<1>2. IsFunded(l, pay, r, Funded(l, pay, r).ledger)
  BY FundedResult, Zenon
<1> SUFFICES ASSUME pay.to = HTLC_ESCROW, a = tx.terms.amount, id \notin DOMAIN l.htlcs,
                    Payable(l, pay)
             PROVE  BlockInv(k, r, P)
  BY <1>1, <1>2, Zenon DEF IsFunded
<1>3. IsPaid(P, l, p, pay) /\ Follows(k, p)
  BY PaidKeeps, Zenon
<1>4. pay.from \notin Escrows /\ a \in Nat /\ pay.nonce \in Nat
  BY PaymentFields, Zenon
<1>5. id \in HtlcIds(P) /\ id[1].amount = a
  BY <1>4 DEF HtlcIds
<1>6. LedgerInv(l, P) /\ l \in Ledger(P)
  BY DEF BlockInv, LedgerInv
<1> HIDE DEF p, pay, id, a
<1>7. p \in Ledger(P) /\ p.htlcs = l.htlcs
  BY <1>3, Zenon DEF IsPaid, IsPayment
<1>8. l.htlcs \in Maps(HtlcIds(P), HtlcStates) /\ "locked" \in HtlcStates
  BY <1>6 DEF Ledger, HtlcStates
<1> DEFINE h == Insert(l.htlcs, id, "locked")
<1>9. /\ h \in Maps(HtlcIds(P), HtlcStates)
      /\ DOMAIN h = DOMAIN l.htlcs \cup {id} /\ h[id] = "locked"
      /\ \A x \in DOMAIN l.htlcs : x # id => h[x] = l.htlcs[x]
  <2>1. IsEntered(HtlcIds(P), HtlcStates, l.htlcs, id, "locked", h)
    BY <1>5, <1>8, MapsInsert, Zenon
  <2> QED
    BY <2>1, Zenon DEF IsEntered
<1>10. r = [p EXCEPT !.htlcs = h]
  BY <1>7, Zenon DEF r
<1> HIDE DEF h
<1>11. /\ r \in Ledger(P) /\ r.htlcs = h
       /\ r.balance = p.balance /\ r.nonce = p.nonce /\ r.deals = p.deals
       /\ r.bonded = p.bonded /\ r.names = p.names /\ r.height = p.height
  BY <1>7, <1>9, <1>10 DEF Ledger
<1>12. IsFiniteSet(DOMAIN l.htlcs) /\ OwedForHtlcs(l) \in [DOMAIN l.htlcs -> Nat]
  BY <1>6, OwedTypes, Zenon DEF LedgerInv
<1>13. SumFunction(OwedForHtlcs(r)) = SumFunction(OwedForHtlcs(l)) + a
  <2>1. DOMAIN r.htlcs = DOMAIN l.htlcs \cup {id} /\ r.htlcs[id] = "locked"
        /\ \A x \in DOMAIN l.htlcs : x # id => r.htlcs[x] = l.htlcs[x]
    BY <1>9, <1>11, Zenon
  <2>2. id[1].amount \in Nat
    BY <1>4, <1>5, Zenon
  <2>3. HtlcSumFollows(l, r, id, "locked")
    BY <1>12, <2>1, <2>2, HtlcSum, Zenon
  <2> QED
    BY <1>5, <2>3, Zenon DEF HtlcSumFollows
<1>14. Owes(r, STORAGE_ESCROW) = Owes(l, STORAGE_ESCROW) /\ Owes(r, STAKE_SINK) = Owes(l, STAKE_SINK)
  BY <1>3, <1>11, OwesFrame, Zenon DEF IsPaid, IsPayment
<1>15. \A e \in Escrows : Owes(r, e) = Owes(l, e) + IF e = pay.to THEN a ELSE 0
  <2>1. \A e \in Escrows : Owes(l, e) \in Nat
    BY <1>6, OwedTypes, Zenon
  <2>2. Owes(r, HTLC_ESCROW) = Owes(l, HTLC_ESCROW) + a
    BY <1>13, EscrowsDiffer, Zenon DEF Owes
  <2> QED
    BY <1>4, <1>14, <2>1, <2>2, EscrowsDiffer DEF Escrows
<1>16. IsMove(l.balance, r.balance, pay.from, pay.to, a) /\ pay.to \in Escrows
  BY <1>3, <1>11, Zenon DEF IsPaid, IsPayment, Escrows, a
<1>17. Balanced(r, P)
  BY <1>4, <1>6, <1>15, <1>16, PayIn, Zenon
<1>18. Follows(k, r)
  BY <1>3, <1>11, FollowsFrame, Zenon
<1>19. IsFiniteSet(DOMAIN r.htlcs)
  BY <1>9, <1>11, <1>12, FS_AddElement, Zenon
<1>20. SumFunction(r.balance) = SumFunction(l.balance) /\ r.deals = l.deals /\ r.height = l.height
  BY <1>3, <1>11, Zenon DEF IsPaid, IsPayment
<1> QED
  BY <1>11, <1>17, <1>18, <1>19, <1>20, KeepsApartFromDeals, Zenon

\* A contract that is locked pays what it holds to one account.
LEMMA ResolutionKeeps ==
  ASSUME NEW P \in SUBSET Accounts, NEW k \in Ledger(P), NEW l, BlockInv(k, l, P),
         NEW id \in DOMAIN l.htlcs, l.htlcs[id] = "locked", NEW s \in {"claimed", "refunded"},
         NEW to \in Users \cup P
  PROVE  BlockInv(k, [Moved(l, HTLC_ESCROW, to, id[1].amount) EXCEPT !.htlcs[id] = s], P)
<1> DEFINE a == id[1].amount
           m == Moved(l, HTLC_ESCROW, to, a)
           r == [m EXCEPT !.htlcs[id] = s]
<1>1. LedgerInv(l, P) /\ l \in Ledger(P)
  BY DEF BlockInv, LedgerInv
<1>2. /\ IsFiniteSet(DOMAIN l.htlcs) /\ OwedForHtlcs(l) \in [DOMAIN l.htlcs -> Nat]
      /\ DOMAIN l.htlcs \subseteq HtlcIds(P)
  BY <1>1, OwedTypes, Zenon DEF LedgerInv
<1>3. a \in Nat
  BY <1>2 DEF HtlcIds, HtlcTerms
<1>4. l.htlcs \in Maps(HtlcIds(P), HtlcStates) /\ s \in HtlcStates
  BY <1>1 DEF Ledger, HtlcStates
<1> DEFINE h == [l.htlcs EXCEPT ![id] = s]
<1>5. /\ h \in Maps(HtlcIds(P), HtlcStates)
      /\ DOMAIN h = DOMAIN l.htlcs /\ h[id] = s
      /\ \A x \in DOMAIN l.htlcs : x # id => h[x] = l.htlcs[x]
  <2>1. IsEntered(HtlcIds(P), HtlcStates, l.htlcs, id, s, h) /\ DOMAIN h = DOMAIN l.htlcs
    BY <1>4, MapsUpdate, Zenon
  <2> QED
    BY <2>1, Zenon DEF IsEntered
<1>6. DOMAIN l.htlcs \cup {id} = DOMAIN l.htlcs /\ s # "locked"
  OBVIOUS
<1> HIDE DEF h
<1>7. ASSUME NEW q, q.htlcs = h
      PROVE  /\ a <= SumFunction(OwedForHtlcs(l))
             /\ SumFunction(OwedForHtlcs(q)) = (SumFunction(OwedForHtlcs(l)) - a) + 0
  <2>1. DOMAIN q.htlcs = DOMAIN l.htlcs \cup {id} /\ q.htlcs[id] = s
        /\ \A x \in DOMAIN l.htlcs : x # id => q.htlcs[x] = l.htlcs[x]
    BY <1>5, <1>6, <1>7, Zenon
  <2>2. HtlcSumFollows(l, q, id, s)
    BY <1>2, <1>3, <2>1, HtlcSum, Zenon
  <2> QED
    BY <1>6, <2>2, Zenon DEF HtlcSumFollows
<1>8. Owes(l, HTLC_ESCROW) = SumFunction(OwedForHtlcs(l)) /\ Owes(l, HTLC_ESCROW) \in Nat
      /\ l.balance[HTLC_ESCROW] \in Nat /\ l.balance[HTLC_ESCROW] >= Owes(l, HTLC_ESCROW)
  <2>1. HTLC_ESCROW \in Escrows
    BY DEF Escrows
  <2>2. Owes(l, HTLC_ESCROW) = SumFunction(OwedForHtlcs(l))
    BY EscrowsDiffer DEF Owes
  <2> QED
    BY <1>1, <2>1, <2>2, OwedTypes, Zenon DEF LedgerInv, Balanced
<1>9. a <= l.balance[HTLC_ESCROW]
  <2> DEFINE q == [htlcs |-> h]
  <2>1. q.htlcs = h
    OBVIOUS
  <2> HIDE DEF q, a
  <2>2. a <= SumFunction(OwedForHtlcs(l))
    BY <1>7, <2>1, Zenon
  <2> QED
    BY <1>3, <1>8, <2>2
<1>10. HTLC_ESCROW \in Escrows /\ HTLC_ESCROW \in Accounts /\ to \in Accounts
       /\ (to \in Escrows => to \in P)
  BY AccountFacts DEF Escrows
<1> HIDE DEF a
<1>11. IsPayment(P, l, m, HTLC_ESCROW, to, a) /\ m.nonce = l.nonce
  BY <1>1, <1>3, <1>9, <1>10, MovedFields, SMT
<1> HIDE DEF m
<1>12. m \in Ledger(P) /\ m.htlcs = l.htlcs
  BY <1>11, Zenon DEF IsPayment
<1>13. r = [m EXCEPT !.htlcs = h]
  BY <1>12 DEF h, Ledger
<1> HIDE DEF r
<1>14. /\ r \in Ledger(P) /\ r.htlcs = h
       /\ r.balance = m.balance /\ r.nonce = m.nonce /\ r.deals = m.deals
       /\ r.bonded = m.bonded /\ r.names = m.names /\ r.height = m.height
  BY <1>5, <1>12, <1>13 DEF Ledger
<1>15. SumFunction(OwedForHtlcs(r)) = (SumFunction(OwedForHtlcs(l)) - a) + 0
  BY <1>7, <1>14, Zenon
<1>16. Owes(r, STORAGE_ESCROW) = Owes(l, STORAGE_ESCROW) /\ Owes(r, STAKE_SINK) = Owes(l, STAKE_SINK)
  BY <1>11, <1>14, OwesFrame, Zenon DEF IsPayment
<1>17. \A e \in Escrows : Owes(r, e) = Owes(l, e) - IF e = HTLC_ESCROW THEN a ELSE 0
  <2>1. \A e \in Escrows : Owes(l, e) \in Nat
    BY <1>1, OwedTypes, Zenon
  <2>2. Owes(r, HTLC_ESCROW) = SumFunction(OwedForHtlcs(r))
    BY EscrowsDiffer DEF Owes
  <2>3. Owes(r, HTLC_ESCROW) = Owes(l, HTLC_ESCROW) - a
    BY <1>3, <1>8, <1>15, <2>2
  <2> QED
    BY <1>3, <1>16, <2>1, <2>3, EscrowsDiffer DEF Escrows
<1>18. IsMove(l.balance, r.balance, HTLC_ESCROW, to, a)
  BY <1>11, <1>14, Zenon DEF IsPayment
<1>19. Balanced(r, P)
  BY <1>1, <1>3, <1>10, <1>17, <1>18, PayOut, Zenon
<1>20. Follows(k, r)
  BY <1>11, <1>14, FollowsFrame, Zenon DEF IsPayment, BlockInv
<1>21. /\ SumFunction(r.balance) = SumFunction(l.balance)
       /\ r.deals = l.deals /\ r.height = l.height /\ IsFiniteSet(DOMAIN r.htlcs)
  BY <1>2, <1>5, <1>11, <1>14, Zenon DEF IsPayment
<1>22. BlockInv(k, r, P)
  BY <1>14, <1>19, <1>20, <1>21, KeepsApartFromDeals, Zenon
<1> QED
  BY <1>22, Zenon DEF r, m, a

\* Htlc::claim and Htlc::refund, of a contract that is locked, or of none.
LEMMA ClaimKeeps ==
  ASSUME NEW P \in SUBSET Accounts, NEW k \in Ledger(P), NEW l, BlockInv(k, l, P), NEW tx
  PROVE  BlockInv(k, ClaimHtlc(l, tx).ledger, P) /\ BlockInv(k, RefundHtlc(l, tx).ledger, P)
<1> DEFINE id == tx.id
           c == [Moved(l, HTLC_ESCROW, id[1].recipient, id[1].amount) EXCEPT !.htlcs[id] = "claimed"]
           b == [Moved(l, HTLC_ESCROW, id[1].sender, id[1].amount) EXCEPT !.htlcs[id] = "refunded"]
<1>1. \/ ClaimHtlc(l, tx).ledger = l
      \/ id \in DOMAIN l.htlcs /\ l.htlcs[id] = "locked" /\ ClaimHtlc(l, tx).ledger = c
  <2>1. CASE id \notin DOMAIN l.htlcs
    <3>1. ClaimHtlc(l, tx) = Deferred(l)
      BY <2>1 DEF ClaimHtlc
    <3> QED
      BY <3>1, Results, Zenon
  <2>2. CASE id \in DOMAIN l.htlcs /\ Claimable(l, id)
    <3>1. ClaimHtlc(l, tx) = Applied(c)
      BY <2>2 DEF ClaimHtlc
    <3> QED
      BY <2>2, <3>1, Results, Zenon DEF Claimable
  <2>3. CASE id \in DOMAIN l.htlcs /\ ~Claimable(l, id)
    BY <2>3, Results DEF ClaimHtlc
  <2> QED
    BY <2>1, <2>2, <2>3
<1>2. \/ RefundHtlc(l, tx).ledger = l
      \/ id \in DOMAIN l.htlcs /\ l.htlcs[id] = "locked" /\ RefundHtlc(l, tx).ledger = b
  <2>1. CASE id \notin DOMAIN l.htlcs
    <3>1. RefundHtlc(l, tx) = Deferred(l)
      BY <2>1 DEF RefundHtlc
    <3> QED
      BY <3>1, Results, Zenon
  <2>2. CASE id \in DOMAIN l.htlcs /\ Reclaimable(l, id)
    <3>1. RefundHtlc(l, tx) = Applied(b)
      BY <2>2 DEF RefundHtlc
    <3> QED
      BY <2>2, <3>1, Results, Zenon DEF Reclaimable
  <2>3. CASE id \in DOMAIN l.htlcs /\ ~Reclaimable(l, id)
    BY <2>3, Results DEF RefundHtlc
  <2> QED
    BY <2>1, <2>2, <2>3
<1>3. id \in DOMAIN l.htlcs => id[1].recipient \in P /\ id[1].sender \in Users
  <2>1. DOMAIN l.htlcs \subseteq HtlcIds(P)
    BY OwedTypes, Zenon DEF BlockInv
  <2> QED
    BY <2>1 DEF HtlcIds, HtlcTerms
<1> HIDE DEF id
<1>4. id \in DOMAIN l.htlcs /\ l.htlcs[id] = "locked" => BlockInv(k, c, P)
  BY <1>3, ResolutionKeeps, Zenon
<1>5. id \in DOMAIN l.htlcs /\ l.htlcs[id] = "locked" => BlockInv(k, b, P)
  BY <1>3, ResolutionKeeps
<1> QED
  BY <1>1, <1>2, <1>4, <1>5, Zenon

-----------------------------------------------------------------------------
(* Storage deals.                                                          *)

\* What a change of one deal, and a payment, keep of a ledger.
LEMMA DealStep ==
  ASSUME NEW P, NEW l, LedgerInv(l, P), NEW id \in DealIds(P), NEW deal \in Deal,
         NEW r \in Ledger(P), r.bonded = l.bonded, r.htlcs = l.htlcs, r.height = l.height,
         IsEntered(DealIds(P), Deal, l.deals, id, deal, r.deals),
         DealInv(id, deal, l.height),
         SumFunction(r.balance) = SumFunction(l.balance), Balanced(r, P)
  PROVE  LedgerInv(r, P)
<1>1. IsFiniteSet(DOMAIN r.deals)
  BY FS_AddElement, Zenon DEF LedgerInv, IsEntered
<1>2. \A x \in DOMAIN r.deals : DealInv(x, r.deals[x], r.height)
  <2>1. ASSUME NEW x \in DOMAIN r.deals PROVE DealInv(x, r.deals[x], r.height)
    <3>1. CASE x = id
      BY <3>1, Zenon DEF IsEntered
    <3>2. CASE x # id
      <4>1. x \in DOMAIN l.deals /\ r.deals[x] = l.deals[x]
        BY <3>2, Zenon DEF IsEntered
      <4> QED
        BY <4>1, Zenon DEF LedgerInv
    <3> QED
      BY <3>1, <3>2
  <2> QED
    BY <2>1
<1> QED
  BY <1>1, <1>2, Zenon DEF LedgerInv

\* What the escrow owes for a deal, and that it owes amount less.
StillOwed(id, deal) == IF deal.state = "active" THEN Refundable(id, deal) ELSE 0

OwesLess(l, r, e, amount) == \A x \in Escrows : Owes(r, x) = Owes(l, x) - IF x = e THEN amount ELSE 0

\* Its escrow, for a deal that was there.
LEMMA DealOwes ==
  ASSUME NEW P, NEW l, LedgerInv(l, P), NEW id \in DOMAIN l.deals, NEW deal \in Deal,
         DealInv(id, deal, l.height), NEW r, r.bonded = l.bonded, r.htlcs = l.htlcs,
         IsEntered(DealIds(P), Deal, l.deals, id, deal, r.deals), NEW a \in Nat,
         StillOwed(id, l.deals[id]) = a + StillOwed(id, deal)
  PROVE  a <= l.balance[STORAGE_ESCROW] /\ OwesLess(l, r, STORAGE_ESCROW, a)
<1> DEFINE now == IF deal.state = "active" THEN Refundable(id, deal) ELSE 0
           was == IF l.deals[id].state = "active" THEN Refundable(id, l.deals[id]) ELSE 0
           S == SumFunction(OwedForDeals(l))
<1>1. IsFiniteSet(DOMAIN l.deals) /\ OwedForDeals(l) \in [DOMAIN l.deals -> Nat]
      /\ DOMAIN l.deals \subseteq DealIds(P)
      /\ \A e \in Escrows : Owes(l, e) \in Nat /\ l.balance[e] \in Nat
  BY OwedTypes, Zenon DEF LedgerInv
<1>2. id \in DealIds(P)
  BY <1>1
<1>3. Refundable(id, deal) \in Nat
  BY <1>2, RefundableBounds, Zenon
<1>4. /\ DOMAIN r.deals = DOMAIN l.deals \cup {id} /\ r.deals[id] = deal
      /\ \A x \in DOMAIN l.deals : x # id => r.deals[x] = l.deals[x]
  BY Zenon DEF IsEntered
<1>5. was <= S /\ SumFunction(OwedForDeals(r)) = (S - was) + now
  <2>1. DealSumFollows(l, r, id, deal)
    BY <1>1, <1>3, <1>4, DealSum, Zenon
  <2> QED
    BY <2>1, Zenon DEF DealSumFollows
<1>6. now \in Nat /\ was = a + now
  BY <1>3 DEF StillOwed
<1>7. Owes(l, STORAGE_ESCROW) = S /\ Owes(r, STORAGE_ESCROW) = SumFunction(OwedForDeals(r))
      /\ STORAGE_ESCROW \in Escrows
  BY EscrowsDiffer DEF Owes, Escrows
<1> HIDE DEF now, was, S
<1>8. l.balance[STORAGE_ESCROW] >= S /\ S \in Nat /\ l.balance[STORAGE_ESCROW] \in Nat
  BY <1>1, <1>7, Zenon DEF LedgerInv, Balanced
<1>9. a <= l.balance[STORAGE_ESCROW]
  BY <1>5, <1>6, <1>8
<1>10. Owes(r, STORAGE_ESCROW) = Owes(l, STORAGE_ESCROW) - a
  BY <1>5, <1>6, <1>7, <1>8
<1>11. Owes(r, STAKE_SINK) = Owes(l, STAKE_SINK) /\ Owes(r, HTLC_ESCROW) = Owes(l, HTLC_ESCROW)
  BY OwesFrame, Zenon
<1>12. \A e \in Escrows : Owes(r, e) = Owes(l, e) - IF e = STORAGE_ESCROW THEN a ELSE 0
  BY <1>1, <1>10, <1>11, EscrowsDiffer DEF Escrows
<1> QED
  BY <1>9, <1>12, Zenon DEF OwesLess

\* The ledger r is l with another entry for one deal.
IsDealt(P, l, id, deal, r) ==
  /\ LedgerInv(r, P)
  /\ IsEntered(DealIds(P), Deal, l.deals, id, deal, r.deals)
  /\ DOMAIN r.deals = DOMAIN l.deals
  /\ r.nonce = l.nonce /\ r.names = l.names /\ r.height = l.height

\* A payment out of the escrow with the change of a deal that makes up for it.
LEMMA DealPays ==
  ASSUME NEW P \in SUBSET Accounts, NEW l, LedgerInv(l, P), NEW id \in DOMAIN l.deals, NEW deal \in Deal,
         DealInv(id, deal, l.height), NEW to \in Users \cup P, NEW a \in Nat,
         StillOwed(id, l.deals[id]) = a + StillOwed(id, deal)
  PROVE  IsDealt(P, l, id, deal, [Moved(l, STORAGE_ESCROW, to, a) EXCEPT !.deals[id] = deal])
<1> DEFINE r == [Moved(l, STORAGE_ESCROW, to, a) EXCEPT !.deals[id] = deal]
           m == Moved(l, STORAGE_ESCROW, to, a)
           d == [l.deals EXCEPT ![id] = deal]
           q == [l EXCEPT !.deals = d]
<1>1. l \in Ledger(P) /\ l.deals \in Maps(DealIds(P), Deal) /\ id \in DealIds(P)
  <2>1. l \in Ledger(P)
    BY DEF LedgerInv
  <2>2. DOMAIN l.deals \subseteq DealIds(P)
    BY OwedTypes, Zenon
  <2> QED
    BY <2>1, <2>2 DEF Ledger
<1>2. IsEntered(DealIds(P), Deal, l.deals, id, deal, d) /\ DOMAIN d = DOMAIN l.deals
  BY <1>1, MapsUpdate, Zenon
<1>3. q.bonded = l.bonded /\ q.htlcs = l.htlcs /\ q.deals = d
  <2> HIDE DEF d
  <2> QED
    BY <1>1 DEF Ledger
<1> HIDE DEF q
<1>4. a <= l.balance[STORAGE_ESCROW]
  BY <1>2, <1>3, DealOwes
<1>5. STORAGE_ESCROW \in Escrows /\ STORAGE_ESCROW \in Accounts /\ to \in Accounts
      /\ (to \in Escrows => to \in P)
  BY AccountFacts DEF Escrows
<1>6. IsPayment(P, l, m, STORAGE_ESCROW, to, a) /\ m.nonce = l.nonce
  BY <1>1, <1>4, <1>5, MovedFields, SMT
<1>7. r = [m EXCEPT !.deals[id] = deal]
  BY Zenon
<1> HIDE DEF m, r
<1>8. m \in Ledger(P) /\ m.deals = l.deals
  BY <1>6, Zenon DEF IsPayment
<1>9. r = [m EXCEPT !.deals = d]
  BY <1>7, <1>8 DEF Ledger
<1>10. d \in Maps(DealIds(P), Deal)
  BY <1>2, Zenon DEF IsEntered
<1> HIDE DEF d
<1>11. /\ r \in Ledger(P) /\ r.deals = d
       /\ r.balance = m.balance /\ r.nonce = m.nonce /\ r.htlcs = m.htlcs
       /\ r.bonded = m.bonded /\ r.names = m.names /\ r.height = m.height
  BY <1>8, <1>9, <1>10 DEF Ledger
<1>12. /\ r.bonded = l.bonded /\ r.htlcs = l.htlcs /\ r.height = l.height
       /\ r.names = l.names /\ r.nonce = l.nonce
       /\ SumFunction(r.balance) = SumFunction(l.balance)
       /\ IsMove(l.balance, r.balance, STORAGE_ESCROW, to, a)
  BY <1>6, <1>11, Zenon DEF IsPayment
<1>13. IsEntered(DealIds(P), Deal, l.deals, id, deal, r.deals)
  BY <1>2, <1>11, Zenon
<1>14. OwesLess(l, r, STORAGE_ESCROW, a)
  BY <1>12, <1>13, DealOwes, Zenon
<1>15. Balanced(r, P)
  BY <1>5, <1>12, <1>14, PayOut, Zenon DEF OwesLess
<1>16. LedgerInv(r, P)
  BY <1>1, <1>11, <1>12, <1>13, <1>15, DealStep, Zenon
<1>17. IsDealt(P, l, id, deal, r)
  BY <1>2, <1>11, <1>12, <1>13, <1>16, Zenon DEF IsDealt
<1> QED
  BY <1>17, Zenon DEF r

\* A deal that ends: its consumer has back what it did not release.
LEMMA EndedDeal ==
  ASSUME NEW P \in SUBSET Accounts, NEW l, LedgerInv(l, P), NEW id \in DOMAIN l.deals,
         NEW s \in {"completed", "closed"}
  PROVE  \E deal \in Deal : deal.state = s /\ IsDealt(P, l, id, deal, Ended(l, id, s))
<1> DEFINE was == l.deals[id]
           deal == [was EXCEPT !.released = id[1].price, !.state = s]
           a == Refundable(id, was)
           r == [Moved(l, STORAGE_ESCROW, id[1].consumer, a) EXCEPT !.deals[id] = deal]
<1>1. was \in Deal /\ id \in DealIds(P) /\ DealInv(id, was, l.height)
  BY OwedTypes, Zenon DEF LedgerInv
<1>2. was.released <= id[1].price /\ a \in Nat /\ id[1].price \in Nat /\ id[1].consumer \in Users
  BY <1>1, RefundableBounds, Zenon
<1>3. s # "active"
  OBVIOUS
<1> HIDE DEF was
<1>4. deal \in Deal /\ deal.state = s /\ deal.released = id[1].price
  BY <1>1, <1>2, Zenon DEF Deal
<1>5. was.state # "active" => a = 0
  BY <1>1, <1>2 DEF DealInv, Refundable, Deal
<1> HIDE DEF deal
<1>6. DealInv(id, deal, l.height)
  BY <1>1, <1>3, <1>4, Zenon DEF DealInv
<1>7. Ended(l, id, s) = r
  BY Zenon DEF Ended, deal, was
<1> HIDE DEF r
<1>8. CASE was.state = "active"
  <2>1. StillOwed(id, was) = a + StillOwed(id, deal)
    BY <1>2, <1>3, <1>4, <1>8 DEF StillOwed
  <2> HIDE DEF a
  <2>2. IsDealt(P, l, id, deal, r)
    BY <1>2, <1>4, <1>6, <2>1, DealPays, Zenon DEF was, r, a
  <2> QED
    BY <1>4, <1>7, <2>2, Zenon DEF a
<1>9. CASE was.state # "active"
  <2>1. StillOwed(id, was) = a + StillOwed(id, deal)
    BY <1>3, <1>4, <1>5, <1>9 DEF StillOwed
  <2> HIDE DEF a
  <2>2. IsDealt(P, l, id, deal, r)
    BY <1>2, <1>4, <1>6, <2>1, DealPays, Zenon DEF was, r, a
  <2> QED
    BY <1>4, <1>7, <2>2, Zenon DEF a
<1> QED
  BY <1>8, <1>9

\* A deal that is entered does not outlive its term or its provider's silence.
InTime(id, deal, height) ==
  deal.state = "active" =>
    /\ height < deal.open + id[1].duration * AuditPeriod
    /\ \/ height < deal.since + id[1].lambda * AuditPeriod
       \/ id[1].lambda = 0 /\ deal.open = height

\* Entering one that is in time keeps all in time.
LEMMA EnteredInTime ==
  ASSUME NEW P, NEW l, Timely(l), NEW id, NEW deal, InTime(id, deal, l.height), NEW r, r.height = l.height,
         IsEntered(DealIds(P), Deal, l.deals, id, deal, r.deals)
  PROVE  Timely(r)
<1>1. ASSUME NEW x \in DOMAIN r.deals PROVE InTime(x, r.deals[x], r.height)
  <2>1. CASE x = id
    BY <2>1, Zenon DEF IsEntered
  <2>2. CASE x # id
    <3>1. x \in DOMAIN l.deals /\ r.deals[x] = l.deals[x]
      BY <2>2, Zenon DEF IsEntered
    <3> QED
      BY <3>1, Zenon DEF Timely, InTime
  <2> QED
    BY <2>1, <2>2
<1> QED
  BY <1>1, Zenon DEF Timely, InTime

\* What remains to be shown of an operation on one deal.
LEMMA DealtKeeps ==
  ASSUME NEW P, NEW k, NEW l, BlockInv(k, l, P), NEW id, NEW deal, NEW r,
         IsDealt(P, l, id, deal, r), InTime(id, deal, l.height)
  PROVE  BlockInv(k, r, P)
<1>1. Timely(r)
  BY EnteredInTime, Zenon DEF BlockInv, IsDealt
<1>2. Follows(k, r)
  BY FollowsFrame, Zenon DEF BlockInv, IsDealt
<1> QED
  BY <1>1, <1>2, Zenon DEF BlockInv, IsDealt

\* close_deal.
LEMMA CloseKeeps ==
  ASSUME NEW P \in SUBSET Accounts, NEW k \in Ledger(P), NEW l, BlockInv(k, l, P), NEW tx
  PROVE  BlockInv(k, CloseDeal(l, tx).ledger, P)
<1>1. CASE tx.id \notin DOMAIN l.deals
  <2>1. CloseDeal(l, tx) = Deferred(l)
    BY <1>1, Zenon DEF CloseDeal
  <2> QED
    BY <2>1, Results, Zenon
<1>2. CASE tx.id \in DOMAIN l.deals
  <2>1. CloseDeal(l, tx) = Applied(Ended(l, tx.id, "closed"))
    BY <1>2, Zenon DEF CloseDeal
  <2>2. CloseDeal(l, tx).ledger = Ended(l, tx.id, "closed")
    BY <2>1, Results, Zenon
  <2>3. LedgerInv(l, P) /\ "closed" \in {"completed", "closed"}
    BY Zenon DEF BlockInv
  <2>4. PICK deal \in Deal : deal.state = "closed" /\ IsDealt(P, l, tx.id, deal, Ended(l, tx.id, "closed"))
    BY <1>2, <2>3, EndedDeal, Zenon
  <2>5. deal.state # "active"
    BY <2>4
  <2>6. BlockInv(k, Ended(l, tx.id, "closed"), P)
    BY <2>4, <2>5, DealtKeeps, Zenon DEF InTime
  <2> QED
    BY <2>2, <2>6, Zenon
<1> QED
  BY <1>1, <1>2

\* prove_deal: one more slice of the price for one more period.
LEMMA ProveKeeps ==
  ASSUME NEW P \in SUBSET Accounts, NEW k \in Ledger(P), NEW l, BlockInv(k, l, P), NEW tx
  PROVE  BlockInv(k, ProveDeal(l, tx).ledger, P)
<1> DEFINE id == tx.id
           was == l.deals[id]
           n == was.passed + 1
           owed == OwedAfterPasses(id[1], n)
           deal == Settled(id, was, l.height)
           r == [Moved(l, STORAGE_ESCROW, id[1].provider, deal.released - was.released)
                   EXCEPT !.deals[id] = deal]
<1>1. \/ ProveDeal(l, tx).ledger = l
      \/ /\ id \in DOMAIN l.deals /\ was.state = "active" /\ MaySettle(was, l.height)
         /\ ProveDeal(l, tx).ledger = r
  <2>1. CASE id \notin DOMAIN l.deals
    <3>1. ProveDeal(l, tx) = Deferred(l)
      BY <2>1, Zenon DEF ProveDeal
    <3> QED
      BY <3>1, Results, Zenon
  <2>2. CASE id \in DOMAIN l.deals /\ was.state = "active" /\ MaySettle(was, l.height)
    <3>1. ProveDeal(l, tx) = Applied(r)
      BY <2>2, Zenon DEF ProveDeal
    <3> QED
      BY <2>2, <3>1, Results, Zenon
  <2>3. CASE id \in DOMAIN l.deals /\ ~(was.state = "active" /\ MaySettle(was, l.height))
    <3>1. ProveDeal(l, tx) = Rejected(l)
      BY <2>3, Zenon DEF ProveDeal
    <3> QED
      BY <3>1, Results, Zenon
  <2> QED
    BY <2>1, <2>2, <2>3, Zenon
<1> HIDE DEF r, deal
<1> SUFFICES ASSUME id \in DOMAIN l.deals, was.state = "active", MaySettle(was, l.height)
             PROVE  BlockInv(k, r, P)
  BY <1>1, Zenon
<1>2. LedgerInv(l, P)
  BY DEF BlockInv
<1>3. was \in Deal /\ id \in DealIds(P) /\ DealInv(id, was, l.height) /\ l.height \in Nat
  <2>1. was \in Deal /\ id \in DealIds(P) /\ DealInv(id, was, l.height)
    BY <1>2, OwedTypes, Zenon DEF LedgerInv
  <2> QED
    BY <1>2, <2>1 DEF LedgerInv, Ledger
<1>4. /\ id[1].price \in Nat /\ id[1].duration \in Nat /\ id[1].lambda \in Nat /\ id[1].provider \in P
  BY <1>3, RefundableBounds, Zenon
<1>5. was.open \in Nat /\ was.since \in Nat /\ was.passed \in Nat /\ was.released \in Nat /\ n \in Nat
  BY <1>3 DEF Deal
<1>6. /\ id[1].duration > 0 /\ was.passed < id[1].duration
      /\ was.open + was.passed * AuditPeriod <= was.since /\ was.since <= l.height
      /\ was.released = OwedAfterPasses(id[1], was.passed)
  BY <1>3 DEF DealInv
<1>7. /\ l.height < was.open + id[1].duration * AuditPeriod
      /\ \/ l.height < was.since + id[1].lambda * AuditPeriod
         \/ id[1].lambda = 0 /\ was.open = l.height
  BY Zenon DEF BlockInv, Timely
<1>8. l.height >= was.since + AuditPeriod
  BY DEF MaySettle
<1>9. AuditPeriod \in Nat /\ AuditPeriod > 0
  BY LedgerConstants
<1>10. owed \in Nat /\ was.released <= owed /\ owed <= id[1].price
       /\ (n >= id[1].duration => owed = id[1].price)
  <2> DEFINE c == id[1]
  <2>1. c.price \in Nat /\ c.duration \in Nat /\ c.duration > 0
    BY <1>4, <1>6
  <2> HIDE DEF c
  <2>2. /\ OwedAfterPasses(c, n) \in Nat
        /\ n <= c.duration => OwedAfterPasses(c, n) <= c.price
        /\ OwedAfterPasses(c, was.passed) <= OwedAfterPasses(c, was.passed + 1)
        /\ OwedAfterPasses(c, c.duration) = c.price
    BY <1>5, <2>1, OwedBounds
  <2>3. n <= c.duration /\ (n >= c.duration => n = c.duration)
    BY <1>4, <1>5, <1>6 DEF c
  <2>4. n >= c.duration => OwedAfterPasses(c, n) = c.price
    BY <2>2, <2>3, Zenon
  <2> QED
    BY <1>6, <2>2, <2>3, <2>4, Zenon DEF c
<1>11. was.open + n * AuditPeriod <= l.height
  <2> DEFINE x == was.passed * AuditPeriod
  <2>1. x \in Nat /\ n * AuditPeriod = x + AuditPeriod
    <3>1. \A p, q \in Nat : p * q \in Nat /\ (p + 1) * q = p * q + q
      OBVIOUS
    <3> QED
      BY <1>5, <1>9, <3>1, Zenon
  <2>2. was.open + x <= was.since
    BY <1>6
  <2> HIDE DEF x, n
  <2> QED
    BY <1>3, <1>5, <1>8, <1>9, <2>1, <2>2
<1>12. l.height < l.height + id[1].lambda * AuditPeriod
  <2>1. id[1].lambda > 0
    <3>1. was.passed * AuditPeriod \in Nat /\ 0 * AuditPeriod = 0
      BY <1>5, <1>9
    <3>2. was.open <= was.since /\ was.since < l.height
      BY <1>3, <1>5, <1>6, <1>8, <1>9, <3>1
    <3>3. id[1].lambda # 0
      BY <1>3, <1>5, <1>7, <3>1, <3>2
    <3> QED
      BY <1>4, <3>3
  <2>2. id[1].lambda * AuditPeriod \in Nat /\ id[1].lambda * AuditPeriod > 0
    BY <1>4, <1>9, <2>1
  <2> QED
    BY <1>3, <2>2
<1> HIDE DEF owed, n, was
<1>13. /\ deal \in Deal /\ deal.open = was.open /\ deal.since = l.height /\ deal.passed = n
       /\ deal.released = owed /\ deal.state = IF n >= id[1].duration THEN "completed" ELSE "active"
  <2>1. deal = [was EXCEPT !.since = l.height, !.passed = n, !.released = owed,
                           !.state = IF n >= id[1].duration THEN "completed" ELSE @]
    BY Zenon DEF Settled, owed, n, deal
  <2> QED
    BY <1>3, <1>5, <1>10, <2>1, Zenon DEF Deal
<1>14. deal.state = "active" => n < id[1].duration
  BY <1>4, <1>5, <1>13
<1>15. deal.state # "active" => owed = id[1].price
  BY <1>10, <1>13
<1>16. l.height <= l.height
  BY <1>3
<1>17. DealInv(id, deal, l.height)
  BY <1>6, <1>11, <1>13, <1>14, <1>15, <1>16, Zenon DEF DealInv, owed
<1>18. owed - was.released \in Nat
  BY <1>5, <1>10
<1>19. StillOwed(id, was) = (owed - was.released) + StillOwed(id, deal)
  BY <1>4, <1>5, <1>10, <1>13, <1>15 DEF StillOwed, Refundable
<1> DEFINE a == owed - was.released
<1>20. a \in Nat /\ StillOwed(id, was) = a + StillOwed(id, deal)
  BY <1>18, <1>19, Zenon
<1>21. r = [Moved(l, STORAGE_ESCROW, id[1].provider, a) EXCEPT !.deals[id] = deal]
  BY <1>13, Zenon DEF r
<1> HIDE DEF a, id
<1>22. id[1].provider \in Users \cup P
  BY <1>4
<1>23. IsDealt(P, l, id, deal, [Moved(l, STORAGE_ESCROW, id[1].provider, a) EXCEPT !.deals[id] = deal])
  BY <1>2, <1>13, <1>17, <1>20, <1>22, DealPays, Zenon DEF was
<1>24. IsDealt(P, l, id, deal, r)
  BY <1>21, <1>23, Zenon
<1>25. /\ l.height < deal.open + id[1].duration * AuditPeriod
       /\ l.height < deal.since + id[1].lambda * AuditPeriod
  BY <1>7, <1>12, <1>13, Zenon
<1> QED
  BY <1>24, <1>25, DealtKeeps, Zenon DEF InTime

\* open_deal: the consumer's payment is what the escrow owes for the new deal.
LEMMA OpenKeeps ==
  ASSUME NEW P, NEW k \in Ledger(P), NEW l, BlockInv(k, l, P),
         NEW tx, tx.pay \in Payment, tx.params \in DealParams(P)
  PROVE  BlockInv(k, OpenDeal(l, tx).ledger, P)
<1> DEFINE pay == tx.pay
           a == pay.amount
           id == <<tx.params, pay.nonce>>
           deal == DealOpenedAt(l.height)
           p == Paid(l, pay)
           r == [p EXCEPT !.deals = Insert(@, id, deal)]
<1>1. \/ OpenDeal(l, tx).ledger = l
      \/ /\ pay.to = STORAGE_ESCROW /\ a = tx.params.price /\ id \notin DOMAIN l.deals
         /\ tx.params.duration # 0
         /\ OpenDeal(l, tx).ledger = Funded(l, pay, r).ledger
  BY DEF OpenDeal, Rejected
<1> HIDE DEF r
<1>2. IsFunded(l, pay, r, Funded(l, pay, r).ledger)
  BY FundedResult, Zenon
<1> SUFFICES ASSUME pay.to = STORAGE_ESCROW, a = tx.params.price, id \notin DOMAIN l.deals,
                    tx.params.duration # 0, Payable(l, pay)
             PROVE  BlockInv(k, r, P)
  BY <1>1, <1>2, Zenon DEF IsFunded
<1>3. IsPaid(P, l, p, pay) /\ Follows(k, p)
  BY PaidKeeps, Zenon
<1>4. pay.from \notin Escrows /\ a \in Nat /\ pay.nonce \in Nat
  BY PaymentFields, Zenon
<1>5. /\ id \in DealIds(P) /\ id[1].price = a
      /\ id[1].duration \in Nat /\ id[1].duration > 0 /\ id[1].lambda \in Nat
  BY <1>4 DEF DealIds, DealParams
<1>6. LedgerInv(l, P) /\ l \in Ledger(P) /\ l.height \in Nat
  BY DEF BlockInv, LedgerInv, Ledger
<1> HIDE DEF p, pay, id, a
<1>7. /\ deal \in Deal /\ deal.open = l.height /\ deal.since = l.height /\ deal.passed = 0
      /\ deal.released = 0 /\ deal.state = "active"
  BY <1>6 DEF Deal, DealOpenedAt
<1> HIDE DEF deal
<1>8. AuditPeriod \in Nat /\ AuditPeriod > 0
  BY LedgerConstants
<1>9. DealInv(id, deal, l.height)
  <2>1. OwedAfterPasses(id[1], 0) = 0
    <3> DEFINE c == id[1]
    <3>1. c.price \in Nat /\ c.duration \in Nat /\ c.duration > 0
      BY <1>4, <1>5
    <3> HIDE DEF c
    <3>2. OwedAfterPasses(c, 0) = 0
      BY <3>1, OwedBounds
    <3> QED
      BY <3>2, Zenon DEF c
  <2>2. l.height + 0 * AuditPeriod <= l.height
    BY <1>6, <1>8
  <2> QED
    BY <1>5, <1>6, <1>7, <2>1, <2>2 DEF DealInv
<1>10. InTime(id, deal, l.height)
  <2>1. ASSUME NEW x \in Nat, x > 0 PROVE l.height < l.height + x * AuditPeriod
    <3>1. x * AuditPeriod \in Nat /\ x * AuditPeriod > 0
      BY <1>8, <2>1
    <3> QED
      BY <1>6, <3>1
  <2>2. id[1].lambda > 0 \/ id[1].lambda = 0
    BY <1>5
  <2> QED
    BY <1>5, <1>7, <2>1, <2>2, Zenon DEF InTime
<1>11. p \in Ledger(P) /\ p.deals = l.deals
  BY <1>3, Zenon DEF IsPaid, IsPayment
<1>12. l.deals \in Maps(DealIds(P), Deal)
  BY <1>6 DEF Ledger
<1> DEFINE h == Insert(l.deals, id, deal)
<1>13. IsEntered(DealIds(P), Deal, l.deals, id, deal, h)
  BY <1>5, <1>7, <1>12, MapsInsert, Zenon
<1>14. r = [p EXCEPT !.deals = h]
  BY <1>11, Zenon DEF r
<1> HIDE DEF h
<1>15. h \in Maps(DealIds(P), Deal)
  BY <1>13, Zenon DEF IsEntered
<1>16. /\ r \in Ledger(P) /\ r.deals = h
       /\ r.balance = p.balance /\ r.nonce = p.nonce /\ r.htlcs = p.htlcs
       /\ r.bonded = p.bonded /\ r.names = p.names /\ r.height = p.height
  BY <1>11, <1>14, <1>15 DEF Ledger
<1>17. IsFiniteSet(DOMAIN l.deals) /\ OwedForDeals(l) \in [DOMAIN l.deals -> Nat]
  BY <1>6, OwedTypes, Zenon DEF LedgerInv
<1>18. Refundable(id, deal) = a
  BY <1>4, <1>5, <1>7 DEF Refundable
<1>19. /\ DOMAIN r.deals = DOMAIN l.deals \cup {id} /\ r.deals[id] = deal
       /\ \A x \in DOMAIN l.deals : x # id => r.deals[x] = l.deals[x]
  BY <1>13, <1>16, Zenon DEF IsEntered
<1>20. SumFunction(OwedForDeals(r)) = SumFunction(OwedForDeals(l)) + a
  <2>1. deal.state = "active" /\ id \notin DOMAIN l.deals
    BY <1>4, <1>7, Zenon
  <2>2. Refundable(id, deal) \in Nat
    BY <1>4, <1>18, Zenon
  <2>3. DealSumFollows(l, r, id, deal)
    BY <1>17, <1>19, <2>2, DealSum, Zenon
  <2> QED
    BY <1>18, <2>1, <2>3, Zenon DEF DealSumFollows
<1>21. Owes(r, HTLC_ESCROW) = Owes(l, HTLC_ESCROW) /\ Owes(r, STAKE_SINK) = Owes(l, STAKE_SINK)
  BY <1>3, <1>16, OwesFrame, Zenon DEF IsPaid, IsPayment
<1>22. \A e \in Escrows : Owes(r, e) = Owes(l, e) + IF e = pay.to THEN a ELSE 0
  <2>1. \A e \in Escrows : Owes(l, e) \in Nat
    BY <1>6, OwedTypes, Zenon
  <2>2. Owes(r, STORAGE_ESCROW) = Owes(l, STORAGE_ESCROW) + a
    BY <1>20, EscrowsDiffer, Zenon DEF Owes
  <2> QED
    BY <1>4, <1>21, <2>1, <2>2, EscrowsDiffer DEF Escrows
<1>23. IsMove(l.balance, r.balance, pay.from, pay.to, a) /\ pay.to \in Escrows
  BY <1>3, <1>16, Zenon DEF IsPaid, IsPayment, Escrows, a
<1>24. Balanced(r, P)
  BY <1>4, <1>6, <1>22, <1>23, PayIn, Zenon
<1>25. /\ r.bonded = l.bonded /\ r.htlcs = l.htlcs /\ r.height = l.height
       /\ SumFunction(r.balance) = SumFunction(l.balance)
       /\ IsEntered(DealIds(P), Deal, l.deals, id, deal, r.deals)
  BY <1>3, <1>13, <1>16, Zenon DEF IsPaid, IsPayment
<1>26. LedgerInv(r, P)
  BY <1>5, <1>6, <1>7, <1>9, <1>16, <1>24, <1>25, DealStep, Zenon
<1>27. Timely(r)
  BY <1>10, <1>25, EnteredInTime, Zenon DEF BlockInv
<1>28. Follows(k, r)
  BY <1>3, <1>16, FollowsFrame, Zenon
<1> QED
  BY <1>26, <1>27, <1>28, Zenon DEF BlockInv

-----------------------------------------------------------------------------
(* Transfers and names.                                                    *)

\* A transfer to one of P.
LEMMA TransferKeeps ==
  ASSUME NEW P \in SUBSET Accounts, NEW k \in Ledger(P), NEW l, BlockInv(k, l, P),
         NEW tx, tx.pay \in PaymentTo(P)
  PROVE  BlockInv(k, Transfer(l, tx).ledger, P)
<1> DEFINE pay == tx.pay
           r == Paid(l, pay)
<1>1. pay \in Payment /\ pay.to \in P
  BY DEF Payment, PaymentTo
<1> HIDE DEF pay
<1>2. Payable(l, pay) => BlockInv(k, r, P)
  BY <1>1, PaidKeeps, Zenon
<1> HIDE DEF r
<1>3. IsFunded(l, pay, r, Funded(l, pay, r).ledger)
  BY FundedResult, Zenon
<1>4. BlockInv(k, Funded(l, pay, r).ledger, P)
  BY <1>2, <1>3, Zenon DEF IsFunded
<1> QED
  BY <1>4, Zenon DEF Transfer, pay, r

\* What a name that is entered after a payment has to be.
LEMMA NamesEntered ==
  ASSUME NEW P, NEW k \in Ledger(P), NEW l \in Ledger(P), Follows(k, l),
         NEW p \in Ledger(P), NEW r \in Ledger(P),
         p.names = l.names, p.height = l.height, r.nonce = p.nonce, r.height = p.height,
         \A u \in Users : l.nonce[u] <= p.nonce[u],
         NEW u \in Users, l.nonce[u] < p.nonce[u],
         NEW name, NEW record,
         IsEntered(Names, [owner : Accounts, expiry : Nat], l.names, name, record, r.names),
         Held(l, name) => l.names[name].owner = u
  PROVE  Follows(k, r)
<1> DEFINE Grown(x) == x \in Users /\ k.nonce[x] < r.nonce[x]
<1>1. /\ k.nonce \in [Users -> Nat] /\ l.nonce \in [Users -> Nat] /\ p.nonce \in [Users -> Nat]
  BY DEF Ledger
<1>2. ASSUME NEW x \in Users
      PROVE  k.nonce[x] <= r.nonce[x] /\ (k.nonce[x] < l.nonce[x] => k.nonce[x] < r.nonce[x])
  <2>1. k.nonce[x] \in Nat /\ l.nonce[x] \in Nat /\ p.nonce[x] \in Nat /\ r.nonce[x] = p.nonce[x]
    BY <1>1
  <2>2. k.nonce[x] <= l.nonce[x] /\ l.nonce[x] <= p.nonce[x]
    BY DEF Follows
  <2> QED
    BY <2>1, <2>2
<1>3. k.nonce[u] < r.nonce[u]
  <2>1. k.nonce[u] \in Nat /\ l.nonce[u] \in Nat /\ p.nonce[u] \in Nat /\ r.nonce[u] = p.nonce[u]
    BY <1>1
  <2>2. k.nonce[u] <= l.nonce[u]
    BY DEF Follows
  <2> QED
    BY <2>1, <2>2
<1>4. ASSUME NEW x \in DOMAIN k.names, r.height <= k.names[x].expiry
      PROVE  /\ x \in DOMAIN r.names
             /\ r.names[x] = k.names[x] \/ Grown(k.names[x].owner)
  <2>1. l.height <= k.names[x].expiry
    BY <1>4, Zenon
  <2>2. x \in DOMAIN l.names /\ (l.names[x] = k.names[x] \/ Grown(k.names[x].owner))
    BY <1>2, <2>1, Zenon DEF Follows
  <2>3. x \in DOMAIN r.names
    BY <2>2, Zenon DEF IsEntered
  <2>4. CASE x # name
    <3>1. r.names[x] = l.names[x]
      BY <2>2, <2>4, Zenon DEF IsEntered
    <3> QED
      BY <2>2, <2>3, <3>1, Zenon
  <2>5. CASE x = name /\ l.names[x] = k.names[x]
    <3>1. Held(l, name)
      BY <2>1, <2>2, <2>5, Zenon DEF Held
    <3>2. k.names[x].owner = u
      BY <2>5, <3>1, Zenon
    <3> QED
      BY <1>3, <2>3, <3>2, Zenon
  <2> QED
    BY <2>2, <2>3, <2>4, <2>5, Zenon
<1> QED
  BY <1>2, <1>4, Zenon DEF Follows

\* The larger and the smaller of two numbers.
LEMMA OfTwo ==
  ASSUME NEW a \in Int, NEW b \in Int
  PROVE  /\ Max({a, b}) \in {a, b} /\ Max({a, b}) >= a /\ Max({a, b}) >= b
         /\ Min({a, b}) \in {a, b} /\ Min({a, b}) <= a /\ Min({a, b}) <= b
<1>1. \E x \in {a, b} : \A y \in {a, b} : x >= y
  <2>1. CASE a >= b
    BY <2>1
  <2>2. CASE b >= a
    BY <2>2
  <2> QED
    BY <2>1, <2>2
<1>2. \E x \in {a, b} : \A y \in {a, b} : x <= y
  <2>1. CASE a >= b
    BY <2>1
  <2>2. CASE b >= a
    BY <2>2
  <2> QED
    BY <2>1, <2>2
<1>3. Max({a, b}) \in {a, b} /\ \A y \in {a, b} : Max({a, b}) >= y
  BY <1>1, Zenon DEF Max
<1>4. Min({a, b}) \in {a, b} /\ \A y \in {a, b} : Min({a, b}) <= y
  BY <1>2, Zenon DEF Min
<1> QED
  BY <1>3, <1>4, Zenon

NameRecord == [owner : Accounts, expiry : Nat]

\* NameRegistry::apply: a name that is held changes only for its owner, who has signed.
LEMMA NameKeeps ==
  ASSUME NEW P, NEW k \in Ledger(P), NEW l, BlockInv(k, l, P),
         NEW tx, tx.pay \in Payment, tx.op \in {"register", "renew", "update", "transfer"},
         tx.name \in Names, tx.duration \in Nat, tx.to \in Accounts
  PROVE  BlockInv(k, Name(l, tx).ledger, P)
<1> DEFINE pay == tx.pay
           u == pay.from
           name == tx.name
           owned == Held(l, name) /\ l.names[name].owner = u
           record == CASE tx.op = "register" -> [owner |-> u, expiry |-> l.height + tx.duration]
                       [] tx.op = "renew" ->
                            [l.names[name] EXCEPT !.expiry = Max({@, l.height}) + tx.duration]
                       [] tx.op = "update" -> l.names[name]
                       [] tx.op = "transfer" -> [l.names[name] EXCEPT !.owner = tx.to]
           p == Paid(l, pay)
           r == [p EXCEPT !.names = Insert(@, name, record)]
<1>1. \/ Name(l, tx).ledger = l
      \/ /\ pay.to = TREASURY
         /\ \/ tx.op = "register" /\ ~Held(l, name)
            \/ tx.op # "register" /\ owned
         /\ Name(l, tx).ledger = Funded(l, pay, r).ledger
  <2> DEFINE enough == pay.amount >= NamePrice * Max({tx.duration, 1})
             planned == /\ pay.to = TREASURY
                        /\ \/ tx.op = "register" /\ ~Held(l, name) /\ enough
                           \/ tx.op = "renew" /\ owned /\ enough
                           \/ tx.op \in {"update", "transfer"} /\ owned
  <2>1. Name(l, tx) = IF planned THEN Funded(l, pay, r) ELSE Rejected(l)
    BY Zenon DEF Name
  <2>2. planned => pay.to = TREASURY
                   /\ ((tx.op = "register" /\ ~Held(l, name)) \/ (tx.op # "register" /\ owned))
    <3> HIDE DEF owned, enough
    <3> QED
      OBVIOUS
  <2> HIDE DEF planned, r
  <2> QED
    BY <2>1, <2>2, Results, Zenon
<1> HIDE DEF r
<1>2. IsFunded(l, pay, r, Funded(l, pay, r).ledger)
  BY FundedResult, Zenon
<1> SUFFICES ASSUME pay.to = TREASURY, Payable(l, pay),
                    \/ tx.op = "register" /\ ~Held(l, name)
                    \/ tx.op # "register" /\ owned
             PROVE  BlockInv(k, r, P)
  BY <1>1, <1>2, Zenon DEF IsFunded
<1>3. TREASURY \notin Escrows
  BY AccountFacts, Zenon
<1>4. IsPaid(P, l, p, pay) /\ BlockInv(k, p, P)
  BY <1>3, PaidKeeps, Zenon
<1>5. u \in Users /\ u \in Accounts
  BY PaymentFields, Zenon
<1>6. l \in Ledger(P) /\ l.height \in Nat /\ l.names \in Maps(Names, NameRecord) /\ Follows(k, l)
  BY DEF BlockInv, LedgerInv, Ledger, NameRecord
<1> HIDE DEF p, pay, u
<1>7. record \in NameRecord
  <2>1. CASE tx.op = "register"
    <3>1. record = [owner |-> u, expiry |-> l.height + tx.duration]
      BY <2>1
    <3>2. l.height + tx.duration \in Nat
      BY <1>6
    <3> HIDE DEF record
    <3> QED
      BY <1>5, <3>1, <3>2, Zenon DEF NameRecord
  <2>2. CASE tx.op # "register"
    <3> DEFINE was == l.names[name]
    <3>1. name \in DOMAIN l.names
      BY <2>2, Zenon DEF Held
    <3>2. was \in NameRecord
      <4>1. l.names \in [DOMAIN l.names -> NameRecord]
        BY <1>6, MapsType, Zenon
      <4> QED
        BY <3>1, <4>1, Zenon
    <3>3. was.expiry \in Nat
      BY <3>2 DEF NameRecord
    <3>4. Max({was.expiry, l.height}) \in Nat
      <4>1. was.expiry \in Int /\ l.height \in Int
        BY <1>6, <3>3
      <4>2. Max({was.expiry, l.height}) \in {was.expiry, l.height}
        BY <4>1, OfTwo, Zenon
      <4> QED
        BY <1>6, <3>3, <4>2, Zenon
    <3>5. record \in {[was EXCEPT !.expiry = Max({was.expiry, l.height}) + tx.duration], was,
                      [was EXCEPT !.owner = tx.to]}
      BY <2>2
    <3> HIDE DEF was, record
    <3> QED
      BY <3>2, <3>4, <3>5 DEF NameRecord
  <2> QED
    BY <2>1, <2>2
<1> HIDE DEF record
<1>8. p \in Ledger(P) /\ p.names = l.names /\ p.height = l.height
      /\ l.nonce[u] < p.nonce[u] /\ \A x \in Users : l.nonce[x] <= p.nonce[x]
  BY <1>4, Zenon DEF IsPaid, IsPayment, u
<1> DEFINE h == Insert(l.names, name, record)
<1>9. IsEntered(Names, NameRecord, l.names, name, record, h)
  BY <1>6, <1>7, MapsInsert, Zenon
<1>10. r = [p EXCEPT !.names = h]
  BY <1>8, Zenon DEF r
<1> HIDE DEF h
<1>11. h \in Maps(Names, NameRecord)
  BY <1>9, Zenon DEF IsEntered
<1>12. /\ r \in Ledger(P) /\ r.names = h
       /\ r.balance = p.balance /\ r.nonce = p.nonce /\ r.htlcs = p.htlcs
       /\ r.bonded = p.bonded /\ r.deals = p.deals /\ r.height = p.height
  BY <1>8, <1>10, <1>11 DEF Ledger, NameRecord
<1>13. IsEntered(Names, NameRecord, l.names, name, record, r.names)
  BY <1>9, <1>12, Zenon
<1>14. Held(l, name) => l.names[name].owner = u
  BY Zenon
<1>15. Follows(k, r)
  BY <1>5, <1>6, <1>8, <1>12, <1>13, <1>14, NamesEntered, Zenon DEF NameRecord
<1>16. Balanced(r, P)
  <2>1. \A e \in Escrows : Owes(r, e) = Owes(p, e)
    BY <1>12, OwesFrame, Zenon DEF Escrows
  <2> QED
    BY <1>4, <1>12, <2>1, Zenon DEF BlockInv, LedgerInv, Balanced
<1>17. SumFunction(r.balance) = SumFunction(p.balance) /\ IsFiniteSet(DOMAIN r.htlcs)
  BY <1>4, <1>12, Zenon DEF BlockInv, LedgerInv
<1> QED
  BY <1>4, <1>12, <1>15, <1>16, <1>17, KeepsApartFromDeals, Zenon

-----------------------------------------------------------------------------
(* A block.                                                                *)

\* One transaction, of those in which users name only accounts of P to be paid.
LEMMA ApplyKeeps ==
  ASSUME NEW P \in SUBSET Accounts, NEW k \in Ledger(P), NEW l, BlockInv(k, l, P),
         NEW tx \in Transaction(P)
  PROVE  BlockInv(k, Apply(l, tx).ledger, P)
<1>1. CASE tx \in [kind : {"transfer"}, pay : PaymentTo(P)]
  <2>1. tx.kind = "transfer" /\ tx.pay \in PaymentTo(P)
    BY <1>1
  <2>2. Apply(l, tx) = Transfer(l, tx)
    BY <2>1 DEF Apply
  <2> QED
    BY <2>1, <2>2, TransferKeeps, Zenon
<1>2. CASE tx \in [kind : {"bond", "unbond"}, pay : Payment]
  <2>1. tx.kind \in {"bond", "unbond"} /\ tx.pay \in Payment
    BY <1>2
  <2>2. Apply(l, tx) = Bond(l, tx) \/ Apply(l, tx) = Unbond(l, tx)
    BY <2>1, Zenon DEF Apply
  <2> QED
    BY <2>1, <2>2, BondKeeps, UnbondKeeps, Zenon
<1>3. CASE tx \in [kind : {"slash"}, who : Users, slot : Slots]
  <2>1. tx.kind = "slash" /\ tx.who \in Users /\ tx.slot \in Slots
    BY <1>3
  <2>2. Apply(l, tx) = Slash(l, tx)
    BY <2>1 DEF Apply
  <2> QED
    BY <2>1, <2>2, SlashKeeps, Zenon
<1>4. CASE tx \in [kind : {"lock"}, terms : HtlcTerms(P), pay : Payment]
  <2>1. tx.kind = "lock" /\ tx.terms \in HtlcTerms(P) /\ tx.pay \in Payment
    BY <1>4
  <2>2. Apply(l, tx) = LockHtlc(l, tx)
    BY <2>1 DEF Apply
  <2> QED
    BY <2>1, <2>2, LockKeeps, Zenon
<1>5. CASE tx \in [kind : {"claim", "refund"}, id : HtlcTerms(P) \X Nat]
  <2>1. tx.kind \in {"claim", "refund"}
    BY <1>5
  <2>2. Apply(l, tx) = ClaimHtlc(l, tx) \/ Apply(l, tx) = RefundHtlc(l, tx)
    BY <2>1, Zenon DEF Apply
  <2> QED
    BY <2>2, ClaimKeeps, Zenon
<1>6. CASE tx \in [kind : {"open"}, params : DealParams(P), pay : Payment]
  <2>1. tx.kind = "open" /\ tx.params \in DealParams(P) /\ tx.pay \in Payment
    BY <1>6
  <2>2. Apply(l, tx) = OpenDeal(l, tx)
    BY <2>1 DEF Apply
  <2> QED
    BY <2>1, <2>2, OpenKeeps, Zenon
<1>7. CASE tx \in [kind : {"prove", "close"}, id : DealParams(P) \X Nat]
  <2>1. tx.kind \in {"prove", "close"}
    BY <1>7
  <2>2. Apply(l, tx) = ProveDeal(l, tx) \/ Apply(l, tx) = CloseDeal(l, tx)
    BY <2>1, Zenon DEF Apply
  <2> QED
    BY <2>2, ProveKeeps, CloseKeeps, Zenon
<1>8. CASE tx \in [kind : {"name"}, op : {"register", "renew", "update", "transfer"}, name : Names,
                   duration : Nat, to : Accounts, pay : Payment]
  <2>1. /\ tx.kind = "name" /\ tx.pay \in Payment /\ tx.op \in {"register", "renew", "update", "transfer"}
        /\ tx.name \in Names /\ tx.duration \in Nat /\ tx.to \in Accounts
    BY <1>8
  <2>2. Apply(l, tx) = Name(l, tx)
    BY <2>1 DEF Apply
  <2> QED
    BY <2>1, <2>2, NameKeeps, Zenon
<1> QED
  BY <1>1, <1>2, <1>3, <1>4, <1>5, <1>6, <1>7, <1>8, Zenon DEF Transaction

\* What the loops of execute_block hold: a ledger of the block that began at k, and an
\* outcome for each transaction.
Kept(k, P) == {l \in Ledger(P) : BlockInv(k, l, P)}

Outcomes(k, P, txs) ==
  {"malformed"} \cup UNION {{Apply(l, txs[i]).outcome : l \in Kept(k, P)} : i \in 1 .. Len(txs)}

Progress(k, P, txs) ==
  [ledger : Kept(k, P), outcomes : [1 .. Len(txs) -> Outcomes(k, P, txs)]]

\* One turn of the inner loop.
LEMMA CommitKeeps ==
  ASSUME NEW P \in SUBSET Accounts, NEW k \in Ledger(P), NEW txs \in Seq(Transaction(P)),
         NEW done \in Progress(k, P, txs), NEW i \in 1 .. Len(txs), NEW isTurn
  PROVE  Commit(done, txs, i, isTurn) \in Progress(k, P, txs)
<1> DEFINE l == done.ledger
           O == Outcomes(k, P, txs)
           a == Apply(l, txs[i])
<1>1. l \in Kept(k, P) /\ done.outcomes \in [1 .. Len(txs) -> O]
  BY DEF Progress
<1>2. txs[i] \in Transaction(P)
  OBVIOUS
<1>3. BlockInv(k, l, P)
  BY <1>1 DEF Kept
<1>4. BlockInv(k, a.ledger, P)
  BY <1>2, <1>3, ApplyKeeps, Zenon
<1>5. a.ledger \in Kept(k, P)
  <2> HIDE DEF a
  <2> QED
    BY <1>4, Zenon DEF Kept, BlockInv, LedgerInv
<1>6. a.outcome \in O
  <2>1. a.outcome \in {Apply(x, txs[i]).outcome : x \in Kept(k, P)}
    BY <1>1, Zenon
  <2> HIDE DEF a
  <2> QED
    BY <2>1, Zenon DEF Outcomes
<1> HIDE DEF a, l
<1>7. [done.outcomes EXCEPT ![i] = a.outcome] \in [1 .. Len(txs) -> O]
  <2> HIDE DEF O
  <2> QED
    BY <1>1, <1>6
<1>8. [ledger |-> a.ledger, outcomes |-> [done.outcomes EXCEPT ![i] = a.outcome]] \in Progress(k, P, txs)
  BY <1>5, <1>7, Zenon DEF Progress
<1>9. Commit(done, txs, i, isTurn)
        = IF isTurn THEN [ledger |-> a.ledger, outcomes |-> [done.outcomes EXCEPT ![i] = a.outcome]]
          ELSE done
  BY Zenon DEF Commit, a, l
<1> QED
  BY <1>8, <1>9, Zenon

\* The inner loop.
LEMMA WaveKeeps ==
  ASSUME NEW P \in SUBSET Accounts, NEW k \in Ledger(P), NEW txs \in Seq(Transaction(P)),
         NEW done \in Progress(k, P, txs), NEW wave, NEW w, NEW order \in [1 .. Len(txs) -> 1 .. Len(txs)]
  PROVE  CommitWave(done, txs, wave, w, order) \in Progress(k, P, txs)
<1> DEFINE n == Len(txs)
           Y == Progress(k, P, txs)
           Step(y, i) == Commit(y, txs, order[i], wave[order[i]] = w)
           F == [i \in 0 + 1 .. n |-> [y \in Y |-> Step(y, i)]]
           Eq(f) == f = [i \in 0 .. n |-> IF i = 0 THEN done ELSE Step(f[i - 1], i)]
           g == CHOOSE f : Eq(f)
<1>1. 0 \in Nat /\ n \in Nat /\ 0 <= n
  OBVIOUS
<1>2. ASSUME NEW i \in 0 + 1 .. n, NEW y \in Y PROVE Step(y, i) \in Y
  <2>1. order[i] \in 1 .. n
    OBVIOUS
  <2> QED
    BY <2>1, CommitKeeps, Zenon
<1>3. CommitWave(done, txs, wave, w, order) = g[n]
  BY Zenon DEF CommitWave
<1> HIDE DEF n, Y, Step
<1>4. F \in [0 + 1 .. n -> [Y -> Y]]
  BY <1>2
<1>5. \A i \in 0 + 1 .. n, y \in Y : F[i][y] = Step(y, i)
  OBVIOUS
<1> HIDE DEF F
<1>6. PICK f \in [0 .. n -> Y] : IsLoop(0, n, done, F, f)
  BY <1>1, <1>4, Recursion, Zenon DEF Y
<1>7. Eq(f)
  <2>1. ASSUME NEW i \in 0 .. n PROVE f[i] = IF i = 0 THEN done ELSE Step(f[i - 1], i)
    <3>1. CASE i = 0
      BY <1>6, <3>1, Zenon DEF IsLoop
    <3>2. CASE i # 0
      <4>1. i \in 0 + 1 .. n /\ i - 1 \in 0 .. n
        BY <1>1, <3>2
      <4>2. f[i - 1] \in Y /\ f[i] = F[i][f[i - 1]]
        BY <1>6, <4>1 DEF IsLoop
      <4> QED
        BY <1>5, <3>2, <4>1, <4>2, Zenon
    <3> QED
      BY <3>1, <3>2
  <2> QED
    BY <2>1
<1>8. Eq(g)
  BY <1>7, Zenon
<1> HIDE DEF g
<1>9. g[0] = done /\ \A i \in 0 + 1 .. n : g[i] = Step(g[i - 1], i)
  BY <1>1, <1>8
<1> DEFINE C == {i \in 0 .. n : g[i] \in Y}
<1>10. 0 \in C
  BY <1>1, <1>9 DEF Y
<1>11. ASSUME NEW i \in 0 + 1 .. n, i - 1 \in C PROVE i \in C
  BY <1>1, <1>2, <1>9, <1>11
<1> HIDE DEF C
<1>12. \A i \in 0 .. n : i \in C
  BY <1>1, <1>10, <1>11, Induction, Zenon
<1>13. n \in C
  BY <1>1, <1>12
<1> QED
  BY <1>3, <1>13 DEF C, Y

\* execute_block.
LEMMA BlockKeeps ==
  ASSUME NEW P \in SUBSET Accounts, NEW k \in Ledger(P), NEW l, BlockInv(k, l, P),
         NEW txs \in Seq(Transaction(P))
  PROVE  BlockInv(k, ExecuteBlock(l, txs).ledger, P)
<1> DEFINE n == Len(txs)
           Y == Progress(k, P, txs)
           wave == WaveOf(l, txs)
           order == InIndexOrder(txs)
           base == Untouched(l, txs)
           Step(y, i) == CommitWave(y, txs, wave, i - 1, order)
           F == [i \in 0 + 1 .. n |-> [y \in Y |-> Step(y, i)]]
           Eq(f) == f = [i \in 0 .. n |-> IF i = 0 THEN base ELSE Step(f[i - 1], i)]
           g == CHOOSE f : Eq(f)
<1>1. 0 \in Nat /\ n \in Nat /\ 0 <= n /\ DOMAIN txs = 1 .. n
  OBVIOUS
<1>2. order \in [1 .. n -> 1 .. n]
  BY DEF InIndexOrder
<1>3. base \in Y
  <2>1. l \in Kept(k, P)
    BY Zenon DEF Kept, BlockInv, LedgerInv
  <2>2. [i \in DOMAIN txs |-> "malformed"]
          \in [1 .. n -> Outcomes(k, P, txs)]
    <3>1. "malformed" \in Outcomes(k, P, txs)
      BY Zenon DEF Outcomes
    <3> QED
      BY <1>1, <3>1
  <2> QED
    BY <2>1, <2>2, Zenon DEF Progress, Untouched
<1>4. ASSUME NEW i \in 0 + 1 .. n, NEW y \in Y PROVE Step(y, i) \in Y
  <2> HIDE DEF wave, order
  <2> QED
    BY <1>2, WaveKeeps, Zenon
<1>5. ExecuteBlock(l, txs) = g[n]
  BY Zenon DEF ExecuteBlock, CommitWaves
<1> HIDE DEF n, Y, Step, base
<1>6. F \in [0 + 1 .. n -> [Y -> Y]]
  BY <1>4
<1>7. \A i \in 0 + 1 .. n, y \in Y : F[i][y] = Step(y, i)
  OBVIOUS
<1> HIDE DEF F
<1>8. PICK f \in [0 .. n -> Y] : IsLoop(0, n, base, F, f)
  BY <1>1, <1>3, <1>6, Recursion, Zenon
<1>9. Eq(f)
  <2>1. ASSUME NEW i \in 0 .. n PROVE f[i] = IF i = 0 THEN base ELSE Step(f[i - 1], i)
    <3>1. CASE i = 0
      BY <1>8, <3>1, Zenon DEF IsLoop
    <3>2. CASE i # 0
      <4>1. i \in 0 + 1 .. n /\ i - 1 \in 0 .. n
        BY <1>1, <3>2
      <4>2. f[i - 1] \in Y /\ f[i] = F[i][f[i - 1]]
        BY <1>8, <4>1 DEF IsLoop
      <4> QED
        BY <1>7, <3>2, <4>1, <4>2, Zenon
    <3> QED
      BY <3>1, <3>2
  <2> QED
    BY <2>1
<1>10. Eq(g)
  BY <1>9, Zenon
<1> HIDE DEF g
<1>11. g[0] = base /\ \A i \in 0 + 1 .. n : g[i] = Step(g[i - 1], i)
  BY <1>1, <1>10
<1> DEFINE C == {i \in 0 .. n : g[i] \in Y}
<1>12. 0 \in C
  BY <1>1, <1>3, <1>11
<1>13. ASSUME NEW i \in 0 + 1 .. n, i - 1 \in C PROVE i \in C
  BY <1>1, <1>4, <1>11, <1>13
<1> HIDE DEF C
<1>14. \A i \in 0 .. n : i \in C
  BY <1>1, <1>12, <1>13, Induction, Zenon
<1>15. n \in C
  BY <1>1, <1>14
<1>16. ExecuteBlock(l, txs) \in Progress(k, P, txs)
  BY <1>5, <1>15 DEF C, Y
<1>17. ExecuteBlock(l, txs).ledger \in Kept(k, P)
  BY <1>16 DEF Progress
<1> QED
  BY <1>17, Zenon DEF Kept

-----------------------------------------------------------------------------
(* The beginning of a block.                                               *)

\* A ledger like l but for its deals, which are of the same ids, and its balances.
Swept(l, P) ==
  {m \in Ledger(P) : /\ LedgerInv(m, P)
                     /\ DOMAIN m.deals = DOMAIN l.deals
                     /\ m.nonce = l.nonce /\ m.names = l.names /\ m.height = l.height}

\* The deals of s have ended, and the others are as they were.
HaveEnded(l, s, m) ==
  /\ \A id \in s : m.deals[id].state # "active"
  /\ \A id \in DOMAIN l.deals \ s : m.deals[id] = l.deals[id]

\* One turn of the loop of finalize_lapsed_deals.
LEMMA SweepStep ==
  ASSUME NEW P \in SUBSET Accounts, NEW l, NEW m \in Swept(l, P), NEW id \in DOMAIN l.deals
  PROVE  /\ Ended(m, id, "completed") \in Swept(l, P)
         /\ \A s \in SUBSET DOMAIN l.deals : HaveEnded(l, s, m) =>
                HaveEnded(l, s \cup {id}, Ended(m, id, "completed"))
<1> DEFINE r == Ended(m, id, "completed")
<1>1. LedgerInv(m, P) /\ DOMAIN m.deals = DOMAIN l.deals /\ id \in DOMAIN m.deals
      /\ m.nonce = l.nonce /\ m.names = l.names /\ m.height = l.height
      /\ "completed" \in {"completed", "closed"}
  BY DEF Swept
<1>2. PICK deal \in Deal : deal.state = "completed" /\ IsDealt(P, m, id, deal, r)
  BY <1>1, EndedDeal, Zenon
<1>3. deal.state # "active"
  BY <1>2
<1> HIDE DEF r
<1>4. r \in Swept(l, P)
  BY <1>1, <1>2, Zenon DEF IsDealt, Swept, LedgerInv
<1>5. ASSUME NEW s \in SUBSET DOMAIN l.deals, HaveEnded(l, s, m) PROVE HaveEnded(l, s \cup {id}, r)
  <2>1. /\ r.deals[id] = deal /\ \A x \in DOMAIN l.deals : x # id => r.deals[x] = m.deals[x]
    BY <1>1, <1>2, Zenon DEF IsDealt, IsEntered
  <2>2. ASSUME NEW x \in s \cup {id} PROVE r.deals[x].state # "active"
    <3>1. CASE x = id
      BY <1>3, <2>1, <3>1, Zenon
    <3>2. CASE x # id /\ x \in DOMAIN l.deals
      BY <1>5, <2>1, <2>2, <3>2, Zenon DEF HaveEnded
    <3> QED
      BY <3>1, <3>2
  <2>3. ASSUME NEW x \in DOMAIN l.deals \ (s \cup {id}) PROVE r.deals[x] = l.deals[x]
    BY <1>5, <2>1, <2>3, Zenon DEF HaveEnded
  <2> QED
    BY <2>2, <2>3, Zenon DEF HaveEnded
<1> QED
  BY <1>4, <1>5, Zenon DEF r

\* The loop: what is to end has ended, and nothing else.
LEMMA SweepLoop ==
  ASSUME NEW P \in SUBSET Accounts, NEW l, LedgerInv(l, P), NEW S \in SUBSET DOMAIN l.deals
  PROVE  LET m == FoldSet(LAMBDA id, acc : Ended(acc, id, "completed"), l, S)
         IN  m \in Swept(l, P) /\ HaveEnded(l, S, m)
<1> DEFINE Pick(s) == CHOOSE x \in s : TRUE
           Y == Swept(l, P)
           Eq(g) == g = [s \in SUBSET S |-> IF s = {} THEN l
                                           ELSE Ended(g[s \ {Pick(s)}], Pick(s), "completed")]
           Good(s, m) == m \in Y /\ HaveEnded(l, s, m)
<1>1. FoldSet(LAMBDA id, acc : Ended(acc, id, "completed"), l, S) = (CHOOSE g : Eq(g))[S]
  BY DEF FoldSet, MapThenFoldSet
<1>2. \A s \in SUBSET S : s # {} => Pick(s) \in s
  OBVIOUS
<1>3. IsFiniteSet(S)
  BY FS_Subset, Zenon DEF LedgerInv
<1>4. l \in Y
  BY Zenon DEF Swept, LedgerInv
<1>5. \E g : Eq(g)
  <2> DEFINE c == [s \in SUBSET S |-> Pick(s)]
             F == [x \in S |-> [y \in Y |-> Ended(y, x, "completed")]]
  <2>1. \A s \in SUBSET S : s # {} => c[s] \in s
    BY <1>2
  <2>2. F \in [S -> [Y -> Y]]
    <3>1. \A x \in S, y \in Y : Ended(y, x, "completed") \in Y
      BY SweepStep, Zenon
    <3> HIDE DEF Y
    <3> QED
      BY <3>1
  <2>3. PICK g \in [SUBSET S -> Y] : IsFold(S, l, c, F, g)
    <3> HIDE DEF c, F, Y
    <3> QED
      BY <1>3, <1>4, <2>1, <2>2, FoldExists, Zenon
  <2> HIDE DEF Y
  <2>4. ASSUME NEW s \in SUBSET S, s # {}
        PROVE  g[s] = Ended(g[s \ {Pick(s)}], Pick(s), "completed")
    <3>1. c[s] = Pick(s) /\ Pick(s) \in S
      BY <1>2, <2>4
    <3>2. g[s \ {Pick(s)}] \in Y
      BY <2>3
    <3>3. F[Pick(s)][g[s \ {Pick(s)}]] = Ended(g[s \ {Pick(s)}], Pick(s), "completed")
      BY <3>1, <3>2
    <3> HIDE DEF c, F, Pick
    <3>4. g[s] = F[c[s]][g[s \ {c[s]}]]
      BY <2>3, <2>4, Zenon DEF IsFold
    <3> QED
      BY <3>1, <3>3, <3>4
  <2>5. g[{}] = l
    BY <2>3, Zenon DEF IsFold
  <2>6. g = [s \in SUBSET S |-> g[s]]
    BY <2>3
  <2> HIDE DEF Pick
  <2>7. \A s \in SUBSET S : g[s] = IF s = {} THEN l ELSE Ended(g[s \ {Pick(s)}], Pick(s), "completed")
    BY <2>4, <2>5, Zenon
  <2> QED
    BY <2>6, <2>7, Zenon
<1>6. PICK g : g = (CHOOSE h : Eq(h)) /\ Eq(g)
  BY <1>5, Zenon
<1> DEFINE B == {s \in SUBSET S : Good(s, g[s])}
<1>7. ASSUME NEW s \in SUBSET S, \A t \in SUBSET s : t # s => t \in B PROVE s \in B
  <2>1. CASE s = {}
    <3>1. g[s] = l
      BY <1>6, <2>1, Zenon
    <3>2. HaveEnded(l, s, l)
      BY <2>1, Zenon DEF HaveEnded
    <3> QED
      BY <1>4, <3>1, <3>2, Zenon
  <2>2. CASE s # {}
    <3> DEFINE x == Pick(s)
               t == s \ {x}
    <3>1. x \in s /\ t \in SUBSET s /\ t # s
      BY <1>2, <2>2
    <3>2. g[s] = Ended(g[t], x, "completed")
      BY <1>6, <2>2, Zenon
    <3>3. s = t \cup {x} /\ t \in SUBSET DOMAIN l.deals /\ x \in DOMAIN l.deals
      BY <3>1
    <3> HIDE DEF x, t
    <3>4. Good(t, g[t])
      BY <1>7, <3>1, Zenon
    <3>5. Ended(g[t], x, "completed") \in Y /\ HaveEnded(l, t \cup {x}, Ended(g[t], x, "completed"))
      BY <3>3, <3>4, SweepStep, Zenon
    <3> QED
      BY <3>2, <3>3, <3>5, Zenon
  <2> QED
    BY <2>1, <2>2
<1> HIDE DEF B
<1>8. S \in B
  BY <1>3, <1>7, SubsetInduction
<1>9. Good(S, g[S])
  BY <1>8, Zenon DEF B
<1> QED
  BY <1>1, <1>6, <1>9, Zenon

\* A map with some of its entries, all that the escrow owes for among them.
LEMMA DropDeals ==
  ASSUME NEW P, NEW m, LedgerInv(m, P), NEW r \in Ledger(P), NEW E \in SUBSET DOMAIN m.deals,
         r.deals = [id \in E |-> m.deals[id]],
         \A id \in DOMAIN m.deals \ E : m.deals[id].state # "active",
         r.balance = m.balance, r.bonded = m.bonded, r.htlcs = m.htlcs, r.height = m.height
  PROVE  LedgerInv(r, P)
<1>1. IsFiniteSet(DOMAIN m.deals) /\ OwedForDeals(m) \in [DOMAIN m.deals -> Nat]
  BY OwedTypes, Zenon DEF LedgerInv
<1>2. DOMAIN r.deals = E /\ \A id \in E : r.deals[id] = m.deals[id]
  OBVIOUS
<1>3. /\ OwedForDeals(r) = [id \in E |-> OwedForDeals(m)[id]]
      /\ \A id \in DOMAIN m.deals \ E : OwedForDeals(m)[id] = 0
  BY <1>2 DEF OwedForDeals
<1>4. SumFunction(OwedForDeals(r)) = SumFunction(OwedForDeals(m))
  <2> DEFINE f == OwedForDeals(m)
             h == OwedForDeals(r)
             D == DOMAIN m.deals
  <2>1. h \in [E -> Nat] /\ (\A x \in E : h[x] = f[x]) /\ \A x \in D \ E : f[x] = 0
    BY <1>1, <1>3
  <2>2. IsFiniteSet(D) /\ f \in [D -> Nat] /\ E \in SUBSET D
    BY <1>1
  <2> HIDE DEF f, h, D
  <2>3. SumFunction(h) = SumFunction(f)
    BY <2>1, <2>2, SumDrops, SMT
  <2> QED
    BY <2>3, Zenon DEF f, h
<1>5. Owes(r, STORAGE_ESCROW) = Owes(m, STORAGE_ESCROW)
  BY <1>4, EscrowsDiffer, Zenon DEF Owes
<1>6. Owes(r, STAKE_SINK) = Owes(m, STAKE_SINK) /\ Owes(r, HTLC_ESCROW) = Owes(m, HTLC_ESCROW)
  BY OwesFrame, Zenon
<1>7. \A e \in Escrows : Owes(r, e) = Owes(m, e)
  BY <1>5, <1>6, Zenon DEF Escrows
<1>8. Balanced(r, P)
  BY <1>7, Zenon DEF LedgerInv, Balanced
<1>9. IsFiniteSet(DOMAIN r.deals)
  BY <1>1, <1>2, FS_Subset, Zenon
<1>10. \A id \in DOMAIN r.deals : DealInv(id, r.deals[id], r.height)
  BY <1>2, Zenon DEF LedgerInv
<1> QED
  BY <1>8, <1>9, <1>10, Zenon DEF LedgerInv

\* The same for the time-locked contracts.
LEMMA DropHtlcs ==
  ASSUME NEW P, NEW m, LedgerInv(m, P), NEW r \in Ledger(P), NEW E \in SUBSET DOMAIN m.htlcs,
         r.htlcs = [id \in E |-> m.htlcs[id]],
         \A id \in DOMAIN m.htlcs \ E : m.htlcs[id] # "locked",
         r.balance = m.balance, r.bonded = m.bonded, r.deals = m.deals, r.height = m.height
  PROVE  LedgerInv(r, P)
<1>1. IsFiniteSet(DOMAIN m.htlcs) /\ OwedForHtlcs(m) \in [DOMAIN m.htlcs -> Nat]
  BY OwedTypes, Zenon DEF LedgerInv
<1>2. DOMAIN r.htlcs = E /\ \A id \in E : r.htlcs[id] = m.htlcs[id]
  OBVIOUS
<1>3. /\ OwedForHtlcs(r) = [id \in E |-> OwedForHtlcs(m)[id]]
      /\ \A id \in DOMAIN m.htlcs \ E : OwedForHtlcs(m)[id] = 0
  BY <1>2 DEF OwedForHtlcs
<1>4. SumFunction(OwedForHtlcs(r)) = SumFunction(OwedForHtlcs(m))
  <2> DEFINE f == OwedForHtlcs(m)
             h == OwedForHtlcs(r)
             D == DOMAIN m.htlcs
  <2>1. h \in [E -> Nat] /\ (\A x \in E : h[x] = f[x]) /\ \A x \in D \ E : f[x] = 0
    BY <1>1, <1>3
  <2>2. IsFiniteSet(D) /\ f \in [D -> Nat] /\ E \in SUBSET D
    BY <1>1
  <2> HIDE DEF f, h, D
  <2>3. SumFunction(h) = SumFunction(f)
    BY <2>1, <2>2, SumDrops, SMT
  <2> QED
    BY <2>3, Zenon DEF f, h
<1>5. Owes(r, HTLC_ESCROW) = Owes(m, HTLC_ESCROW)
  BY <1>4, EscrowsDiffer, Zenon DEF Owes
<1>6. Owes(r, STAKE_SINK) = Owes(m, STAKE_SINK) /\ Owes(r, STORAGE_ESCROW) = Owes(m, STORAGE_ESCROW)
  BY OwesFrame, Zenon
<1>7. \A e \in Escrows : Owes(r, e) = Owes(m, e)
  BY <1>5, <1>6, Zenon DEF Escrows
<1>8. Balanced(r, P)
  BY <1>7, Zenon DEF LedgerInv, Balanced
<1>9. IsFiniteSet(DOMAIN r.htlcs)
  BY <1>1, <1>2, FS_Subset, Zenon
<1>10. IsFiniteSet(DOMAIN r.deals) /\ \A id \in DOMAIN r.deals : DealInv(id, r.deals[id], r.height)
  BY Zenon DEF LedgerInv
<1> QED
  BY <1>8, <1>9, <1>10, Zenon DEF LedgerInv

\* What the sweep leaves active is in time.
LEMMA LeftInTime ==
  ASSUME NEW P, NEW id \in DealIds(P), NEW deal \in Deal, NEW height \in Nat, DealInv(id, deal, height),
         ~IsAbandoned(id, deal, height), ~HasLapsed(id, deal, height)
  PROVE  InTime(id, deal, height)
<1> SUFFICES ASSUME deal.state = "active" PROVE InTime(id, deal, height)
  BY Zenon DEF InTime
<1>1. /\ id[1].duration \in Nat /\ id[1].lambda \in Nat
      /\ deal.open \in Nat /\ deal.since \in Nat /\ deal.passed \in Nat
  BY RefundableBounds DEF Deal
<1>2. deal.open + deal.passed * AuditPeriod <= deal.since /\ deal.since <= height
  BY DEF DealInv
<1>3. AuditPeriod \in Nat /\ AuditPeriod > 0
  BY LedgerConstants
<1> DEFINE d == id[1].duration
           silent == height - deal.since
           x == silent \div AuditPeriod
<1>4. height < deal.open + d * AuditPeriod
  <2>1. d * AuditPeriod \in Nat
    BY <1>1, <1>3
  <2> HIDE DEF d
  <2> QED
    BY <1>1, <2>1 DEF HasLapsed, d
<1>5. silent \in Nat
  BY <1>1, <1>2
<1>6. \A a \in Nat : a \div AuditPeriod \in Nat /\ (a \div AuditPeriod) * AuditPeriod <= a
                     /\ a < ((a \div AuditPeriod) + 1) * AuditPeriod
  BY <1>3
<1> HIDE DEF silent
<1>7. x \in Nat /\ x * AuditPeriod <= silent /\ silent < (x + 1) * AuditPeriod
  BY <1>5, <1>6
<1>8. ~(Min({x, d}) >= id[1].lambda)
  BY Zenon DEF IsAbandoned, silent
<1> HIDE DEF x
<1>9. x < d
  <2>1. ASSUME d <= x PROVE FALSE
    <3>1. d * AuditPeriod <= x * AuditPeriod
      BY <1>1, <1>3, <1>7, <2>1
    <3>2. deal.passed * AuditPeriod \in Nat /\ d * AuditPeriod \in Nat /\ x * AuditPeriod \in Nat
      BY <1>1, <1>3, <1>7
    <3> HIDE DEF d
    <3> QED
      BY <1>1, <1>2, <1>4, <1>5, <1>7, <3>1, <3>2 DEF silent
  <2> QED
    BY <1>1, <1>7, <2>1
<1>10. x < id[1].lambda
  <2>1. x \in Int /\ d \in Int
    BY <1>1, <1>7
  <2> HIDE DEF d
  <2>2. Min({x, d}) \in {x, d} /\ Min({x, d}) <= x
    BY <2>1, OfTwo, Zenon
  <2>3. Min({x, d}) = x
    BY <1>9, <2>1, <2>2
  <2> QED
    BY <1>1, <1>7, <1>8, <2>3
<1>11. (x + 1) * AuditPeriod <= id[1].lambda * AuditPeriod
  BY <1>1, <1>3, <1>7, <1>10
<1>12. height < deal.since + id[1].lambda * AuditPeriod
  <2>1. (x + 1) * AuditPeriod \in Nat /\ id[1].lambda * AuditPeriod \in Nat
    BY <1>1, <1>3, <1>7
  <2> QED
    BY <1>1, <1>5, <1>7, <1>11, <2>1 DEF silent
<1> QED
  BY <1>4, <1>12, Zenon DEF InTime

\* finalize_lapsed_deals.
LEMMA SweepKeeps ==
  ASSUME NEW P \in SUBSET Accounts, NEW l, LedgerInv(l, P)
  PROVE  LET r == FinalizeLapsedDeals(l)
         IN  /\ LedgerInv(r, P) /\ Timely(r)
             /\ r.nonce = l.nonce /\ r.names = l.names /\ r.height = l.height
<1> DEFINE S == {id \in DOMAIN l.deals : /\ l.deals[id].state = "active"
                                         /\ \/ IsAbandoned(id, l.deals[id], l.height)
                                            \/ HasLapsed(id, l.deals[id], l.height)}
           m == FoldSet(LAMBDA id, acc : Ended(acc, id, "completed"), l, S)
           E == {id \in DOMAIN m.deals : m.deals[id].state = "active"}
           d == [id \in E |-> m.deals[id]]
           r == FinalizeLapsedDeals(l)
<1>1. S \in SUBSET DOMAIN l.deals
  OBVIOUS
<1>2. r = [m EXCEPT !.deals = d]
  BY DEF FinalizeLapsedDeals, RestrictValues, Restrict
<1>3. m \in Swept(l, P) /\ HaveEnded(l, S, m)
  <2> HIDE DEF S
  <2> QED
    BY <1>1, SweepLoop, Zenon
<1> HIDE DEF m, r
<1>4. /\ m \in Ledger(P) /\ LedgerInv(m, P) /\ DOMAIN m.deals = DOMAIN l.deals
      /\ m.nonce = l.nonce /\ m.names = l.names /\ m.height = l.height
  BY <1>3 DEF Swept
<1>5. m.deals \in Maps(DealIds(P), Deal) /\ E \in SUBSET DOMAIN m.deals
  BY <1>4 DEF Ledger
<1>6. d \in Maps(DealIds(P), Deal) /\ DOMAIN d = E
  <2> HIDE DEF E
  <2> QED
    BY <1>5, MapsRestrict, Zenon
<1>7. \A id \in DOMAIN m.deals \ E : m.deals[id].state # "active"
  OBVIOUS
<1>8. \A id \in E : d[id] = m.deals[id]
  OBVIOUS
<1> HIDE DEF d
<1>9. /\ r \in Ledger(P) /\ r.deals = d
      /\ r.balance = m.balance /\ r.nonce = m.nonce /\ r.htlcs = m.htlcs
      /\ r.bonded = m.bonded /\ r.names = m.names /\ r.height = m.height
  BY <1>2, <1>4, <1>6 DEF Ledger
<1>10. LedgerInv(r, P)
  <2> HIDE DEF E
  <2> QED
    BY <1>4, <1>5, <1>7, <1>9, DropDeals, Zenon DEF d
<1>11. ASSUME NEW id \in DOMAIN r.deals PROVE InTime(id, r.deals[id], r.height)
  <2>1. id \in DOMAIN m.deals /\ m.deals[id].state = "active" /\ r.deals[id] = m.deals[id]
    BY <1>6, <1>8, <1>9
  <2>2. id \in DOMAIN l.deals /\ id \notin S /\ m.deals[id] = l.deals[id]
    <3> HIDE DEF S
    <3> QED
      BY <1>3, <1>4, <2>1, Zenon DEF HaveEnded
  <2>3. ~IsAbandoned(id, l.deals[id], l.height) /\ ~HasLapsed(id, l.deals[id], l.height)
    BY <2>1, <2>2, Zenon
  <2>4. id \in DealIds(P) /\ l.deals[id] \in Deal /\ DealInv(id, l.deals[id], l.height)
    BY <2>2, OwedTypes, Zenon DEF LedgerInv
  <2>5. l.height \in Nat
    BY DEF LedgerInv, Ledger
  <2>6. InTime(id, l.deals[id], l.height)
    BY <2>3, <2>4, <2>5, LeftInTime, Zenon
  <2> QED
    BY <1>4, <1>9, <2>1, <2>2, <2>6, Zenon
<1>12. Timely(r)
  BY <1>11, Zenon DEF Timely, InTime
<1> QED
  BY <1>4, <1>9, <1>10, <1>12, Zenon DEF r

\* begin_block, for a ledger k of the chain.
LEMMA BeginKeeps ==
  ASSUME NEW P \in SUBSET Accounts, NEW k, LedgerInv(k, P)
  PROVE  BlockInv(k, BeginBlock(k), P)
<1> DEFINE l == [k EXCEPT !.height = @ + 1]
           m == FinalizeLapsedDeals(l)
           E == {id \in DOMAIN m.htlcs : m.htlcs[id] = "locked"}
           h == [id \in E |-> m.htlcs[id]]
           r == BeginBlock(k)
<1>1. k \in Ledger(P) /\ k.height \in Nat /\ k.nonce \in [Users -> Nat]
  BY DEF LedgerInv, Ledger
<1>2. /\ l \in Ledger(P) /\ l.height = k.height + 1 /\ l.deals = k.deals
      /\ l.balance = k.balance /\ l.nonce = k.nonce /\ l.htlcs = k.htlcs
      /\ l.bonded = k.bonded /\ l.names = k.names
  BY <1>1 DEF Ledger
<1>3. r = [m EXCEPT !.htlcs = h]
  BY DEF BeginBlock, RestrictValues, Restrict
<1> HIDE DEF l
<1>4. LedgerInv(l, P)
  <2>1. ASSUME NEW id \in DOMAIN k.deals PROVE DealInv(id, k.deals[id], l.height)
    <3>1. DealInv(id, k.deals[id], k.height) /\ k.deals[id] \in Deal
      BY OwedTypes, Zenon DEF LedgerInv
    <3>2. k.deals[id].since \in Nat
      BY <3>1 DEF Deal
    <3>3. k.deals[id].since <= k.height => k.deals[id].since <= l.height
      BY <1>1, <1>2, <3>2
    <3> QED
      BY <3>1, <3>3, Zenon DEF DealInv
  <2>2. \A e \in Escrows : Owes(l, e) = Owes(k, e)
    BY <1>2, OwesFrame, Zenon DEF Escrows
  <2>3. Balanced(l, P)
    BY <1>2, <2>2, Zenon DEF LedgerInv, Balanced
  <2> QED
    BY <1>2, <2>1, <2>3, Zenon DEF LedgerInv
<1>5. /\ LedgerInv(m, P) /\ Timely(m)
      /\ m.nonce = l.nonce /\ m.names = l.names /\ m.height = l.height
  BY <1>4, SweepKeeps, Zenon
<1> HIDE DEF m, r
<1>6. m \in Ledger(P) /\ m.htlcs \in Maps(HtlcIds(P), HtlcStates) /\ E \in SUBSET DOMAIN m.htlcs
  BY <1>5 DEF LedgerInv, Ledger
<1>7. h \in Maps(HtlcIds(P), HtlcStates)
  <2> HIDE DEF E
  <2> QED
    BY <1>6, MapsRestrict, Zenon
<1>8. \A id \in DOMAIN m.htlcs \ E : m.htlcs[id] # "locked"
  OBVIOUS
<1> HIDE DEF h
<1>9. /\ r \in Ledger(P) /\ r.htlcs = h
      /\ r.balance = m.balance /\ r.nonce = m.nonce /\ r.deals = m.deals
      /\ r.bonded = m.bonded /\ r.names = m.names /\ r.height = m.height
  BY <1>3, <1>6, <1>7 DEF Ledger
<1>10. LedgerInv(r, P)
  <2> HIDE DEF E
  <2> QED
    BY <1>5, <1>6, <1>8, <1>9, DropHtlcs, Zenon DEF h
<1>11. Timely(r)
  BY <1>5, <1>9, Zenon DEF Timely
<1>12. r.names = k.names /\ r.nonce = k.nonce /\ r.height = k.height + 1
  BY <1>2, <1>5, <1>9, Zenon
<1>13. Follows(k, r)
  <2>1. \A u \in Users : k.nonce[u] <= k.nonce[u]
    BY <1>1
  <2> QED
    BY <1>12, <2>1, Zenon DEF Follows
<1> QED
  BY <1>10, <1>11, <1>13, Zenon DEF BlockInv, r

\* One validator's share.
LEMMA RewardStep ==
  ASSUME NEW P, NEW k \in Ledger(P), NEW l, BlockInv(k, l, P), NEW v \in Users, NEW share \in Nat
  PROVE  BlockInv(k, Moved(l, TREASURY, v, share), P)
<1> DEFINE r == Moved(l, TREASURY, v, share)
<1>1. LedgerInv(l, P) /\ l \in Ledger(P) /\ l.balance \in [Accounts -> Nat]
  BY DEF BlockInv, LedgerInv, Ledger
<1>2. TREASURY \in Accounts /\ TREASURY \notin Escrows /\ v \in Accounts /\ v \notin Escrows
  BY AccountFacts
<1>3. l.balance[TREASURY] \in Nat
  BY <1>1, <1>2
<1>4. CASE l.balance[TREASURY] < share
  BY <1>4, Zenon DEF Moved
<1>5. CASE share <= l.balance[TREASURY]
  <2>1. IsPayment(P, l, r, TREASURY, v, share) /\ r.nonce = l.nonce
    BY <1>1, <1>2, <1>5, MovedFields, SMT
  <2> HIDE DEF r
  <2>2. \A e \in Escrows : Owes(r, e) = Owes(l, e)
    BY <2>1, OwesFrame, Zenon DEF IsPayment, Escrows
  <2>3. Balanced(r, P)
    BY <1>1, <1>2, <2>1, <2>2, PayOver, Zenon DEF IsPayment
  <2>4. Follows(k, r)
    BY <2>1, FollowsFrame, Zenon DEF IsPayment, BlockInv
  <2>5. /\ r \in Ledger(P) /\ SumFunction(r.balance) = SumFunction(l.balance)
        /\ r.deals = l.deals /\ r.height = l.height /\ IsFiniteSet(DOMAIN r.htlcs)
    BY <1>1, <2>1, Zenon DEF IsPayment, LedgerInv
  <2>6. BlockInv(k, r, P)
    BY <2>3, <2>4, <2>5, KeepsApartFromDeals, Zenon
  <2> QED
    BY <2>6, Zenon DEF r
<1> QED
  BY <1>3, <1>4, <1>5

\* apply_block_reward.
LEMMA RewardKeeps ==
  ASSUME NEW P, NEW k \in Ledger(P), NEW l, BlockInv(k, l, P), NEW S \in SUBSET Validators
  PROVE  BlockInv(k, ApplyBlockReward(l, S), P)
<1> DEFINE Pick(s) == CHOOSE x \in s : TRUE
           pot == Min({Reward, l.balance[TREASURY]})
           share == IF S = {} THEN 0 ELSE pot \div Cardinality(S)
           Y == {m \in Ledger(P) : BlockInv(k, m, P)}
           Eq(g) == g = [s \in SUBSET S |-> IF s = {} THEN l
                                           ELSE Moved(g[s \ {Pick(s)}], TREASURY, Pick(s), share)]
<1>1. ApplyBlockReward(l, S) = (CHOOSE g : Eq(g))[S]
  BY DEF ApplyBlockReward, FoldSet, MapThenFoldSet
<1>2. \A s \in SUBSET S : s # {} => Pick(s) \in s
  OBVIOUS
<1>3. S \in SUBSET Users /\ IsFiniteSet(S)
  BY LedgerConstants, FS_Subset
<1>4. share \in Nat
  <2>1. l.balance[TREASURY] \in Nat /\ Reward \in Nat
    BY AccountFacts, LedgerConstants DEF BlockInv, LedgerInv, Ledger
  <2>2. pot \in Nat
    <3>1. pot \in {Reward, l.balance[TREASURY]}
      <4>1. Reward \in Int /\ l.balance[TREASURY] \in Int
        BY <2>1
      <4> QED
        BY <4>1, OfTwo, Zenon
    <3> QED
      BY <2>1, <3>1, Zenon
  <2>3. S # {} => Cardinality(S) \in Nat /\ Cardinality(S) > 0
    BY <1>3, FS_CardinalityType, FS_EmptySet
  <2> HIDE DEF pot
  <2> QED
    BY <2>2, <2>3
<1> HIDE DEF share
<1>5. l \in Y
  BY Zenon DEF BlockInv, LedgerInv
<1>6. \A x \in S, y \in Y : Moved(y, TREASURY, x, share) \in Y
  <2>1. ASSUME NEW x \in S, NEW y \in Y PROVE Moved(y, TREASURY, x, share) \in Y
    <3>1. BlockInv(k, y, P) /\ x \in Users
      BY <1>3
    <3>2. BlockInv(k, Moved(y, TREASURY, x, share), P)
      BY <1>4, <3>1, RewardStep, Zenon
    <3> QED
      BY <3>2, Zenon DEF BlockInv, LedgerInv
  <2> QED
    BY <2>1
<1> HIDE DEF Y
<1>7. \E g : Eq(g)
  <2> DEFINE c == [s \in SUBSET S |-> Pick(s)]
             F == [x \in S |-> [y \in Y |-> Moved(y, TREASURY, x, share)]]
  <2>1. \A s \in SUBSET S : s # {} => c[s] \in s
    BY <1>2
  <2>2. F \in [S -> [Y -> Y]]
    BY <1>6
  <2>3. PICK g \in [SUBSET S -> Y] : IsFold(S, l, c, F, g)
    <3> HIDE DEF c, F
    <3> QED
      BY <1>3, <1>5, <2>1, <2>2, FoldExists, Zenon
  <2>4. ASSUME NEW s \in SUBSET S, s # {}
        PROVE  g[s] = Moved(g[s \ {Pick(s)}], TREASURY, Pick(s), share)
    <3>1. c[s] = Pick(s) /\ Pick(s) \in S
      BY <1>2, <2>4
    <3>2. g[s \ {Pick(s)}] \in Y
      BY <2>3
    <3>3. F[Pick(s)][g[s \ {Pick(s)}]] = Moved(g[s \ {Pick(s)}], TREASURY, Pick(s), share)
      BY <3>1, <3>2
    <3> HIDE DEF c, F, Pick
    <3>4. g[s] = F[c[s]][g[s \ {c[s]}]]
      BY <2>3, <2>4, Zenon DEF IsFold
    <3> QED
      BY <3>1, <3>3, <3>4
  <2>5. g[{}] = l
    BY <2>3, Zenon DEF IsFold
  <2>6. g = [s \in SUBSET S |-> g[s]]
    BY <2>3
  <2> HIDE DEF Pick
  <2>7. \A s \in SUBSET S : g[s] = IF s = {} THEN l ELSE Moved(g[s \ {Pick(s)}], TREASURY, Pick(s), share)
    BY <2>4, <2>5, Zenon
  <2> QED
    BY <2>6, <2>7, Zenon
<1>8. PICK g : g = (CHOOSE h : Eq(h)) /\ Eq(g)
  BY <1>7, Zenon
<1> DEFINE B == {s \in SUBSET S : g[s] \in Y}
<1>9. ASSUME NEW s \in SUBSET S, \A t \in SUBSET s : t # s => t \in B PROVE s \in B
  <2>1. CASE s = {}
    BY <1>5, <1>8, <2>1, Zenon
  <2>2. CASE s # {}
    <3>1. Pick(s) \in S /\ s \ {Pick(s)} \in B
      BY <1>2, <1>9, <2>2
    <3>2. g[s] = Moved(g[s \ {Pick(s)}], TREASURY, Pick(s), share)
      BY <1>8, <2>2, Zenon
    <3> QED
      BY <1>6, <3>1, <3>2, Zenon
  <2> QED
    BY <2>1, <2>2
<1> HIDE DEF B
<1>10. S \in B
  BY <1>3, <1>9, SubsetInduction, Zenon
<1>11. ApplyBlockReward(l, S) \in Y
  BY <1>1, <1>8, <1>10, Zenon DEF B
<1> QED
  BY <1>11 DEF Y

-----------------------------------------------------------------------------
(* The ledgers of the chain.                                               *)

\* Users submit transactions in which they name only accounts of P to be paid.
Submits(P) == \A l \in Ledger(P) : Menu(l) \subseteq Transaction(P)

\* A sum of zeros.
LEMMA SumOfZeros ==
  ASSUME NEW D, IsFiniteSet(D), NEW f, DOMAIN f = D, f \in [D -> {0}]
  PROVE  SumFunction(f) = 0
<1> DEFINE h == [x \in {} |-> 0]
<1>1. SumFunction(h) = SumFunctionOnSet(h, {})
  BY DEF SumFunction
<1>2. h \in [{} -> Nat] /\ (\A x \in {} : h[x] \in Nat) /\ \A x \in {} : h[x] = f[x]
  OBVIOUS
<1>3. IsFiniteSet({})
  BY FS_EmptySet, Zenon
<1> HIDE DEF h
<1>4. PICK g : IsSum(h, {}, g) /\ SumFunctionOnSet(h, {}) = g[{}]
  BY <1>2, <1>3, SumExists, Zenon
<1>5. g[{}] = 0
  BY <1>4 DEF IsSum
<1>6. f \in [D -> Nat] /\ {} \in SUBSET D /\ \A x \in D \ {} : f[x] = 0
  OBVIOUS
<1>7. SumFunction(h) = SumFunction(f)
  <2> DEFINE E == {}
  <2>1. E \in SUBSET D /\ h \in [E -> Nat] /\ (\A x \in E : h[x] = f[x]) /\ \A x \in D \ E : f[x] = 0
    BY <1>2, <1>6, Zenon
  <2> HIDE DEF E
  <2> QED
    BY <1>6, <2>1, SumDrops, SMT
<1> QED
  BY <1>1, <1>4, <1>5, <1>7, Zenon

\* The invariant of the chain.
LInv(P) == LedgerInv(ledger, P) /\ Timely(ledger) /\ ledger.height <= MaxHeight

\* The genesis ledger owes nothing and holds what it was given.
LEMMA GenesisInv ==
  ASSUME NEW P, Init
  PROVE  LInv(P)
<1> DEFINE b == [a \in Accounts |-> IF a \in Users THEN Genesis[a] ELSE 0]
           z == [u \in Users |-> 0]
<1>1. /\ ledger.balance = b /\ ledger.nonce = z /\ ledger.bonded = z /\ ledger.slashed = {}
      /\ ledger.deals = Empty /\ ledger.htlcs = Empty /\ ledger.names = Empty /\ ledger.height = 0
      /\ DOMAIN Empty = {}
  BY DEF Init, Empty
<1>2. b \in [Accounts -> Nat] /\ z \in [Users -> Nat] /\ z \in [Users -> {0}] /\ DOMAIN z = Users
      /\ Genesis \in [Users -> Nat]
      /\ (\A a \in Users : Genesis[a] = b[a]) /\ \A a \in Accounts \ Users : b[a] = 0
  BY LedgerConstants DEF Accounts
<1>3. \A K, V : Empty \in Maps(K, V)
  <2>1. \A V : Empty \in [{} -> V]
    BY DEF Empty
  <2> QED
    BY <1>1, <2>1, MapsType, Zenon
<1>4. IsFiniteSet(Accounts) /\ IsFiniteSet(Users) /\ Users \in SUBSET Accounts
      /\ \A e \in Escrows : e \in Accounts /\ e \notin Users
  BY AccountFacts, LedgerConstants
<1>5. \A e \in Escrows : b[e] = 0
  BY <1>4
<1>6. ledger = [balance |-> b, nonce |-> z, bonded |-> z, slashed |-> {}, deals |-> Empty,
                htlcs |-> Empty, names |-> Empty, height |-> 0]
  BY Zenon DEF Init
<1> HIDE DEF b, z
<1>7. ledger \in Ledger(P)
  BY <1>2, <1>3, <1>6 DEF Ledger
<1>8. SumFunction(ledger.balance) = SumFunction(Genesis)
  <2>1. SumFunction(Genesis) = SumFunction(b)
    BY <1>2, <1>4, SumDrops, SMT
  <2> QED
    BY <1>1, <2>1, Zenon
<1>9. SumFunction(ledger.bonded) = 0
  <2>1. SumFunction(z) = 0
    BY <1>2, <1>4, SumOfZeros, Zenon
  <2> QED
    BY <1>1, <2>1, Zenon
<1>10. IsFiniteSet({})
  BY FS_EmptySet, Zenon
<1>11. SumFunction(OwedForDeals(ledger)) = 0 /\ SumFunction(OwedForHtlcs(ledger)) = 0
  <2> DEFINE f == OwedForDeals(ledger)
             h == OwedForHtlcs(ledger)
  <2>1. DOMAIN f = {} /\ f \in [{} -> {0}] /\ DOMAIN h = {} /\ h \in [{} -> {0}]
    BY <1>1 DEF OwedForDeals, OwedForHtlcs
  <2> HIDE DEF f, h
  <2>2. SumFunction(f) = 0 /\ SumFunction(h) = 0
    BY <1>10, <2>1, SumOfZeros, Zenon
  <2> QED
    BY <2>2, Zenon DEF f, h
<1>12. \A e \in Escrows : Owes(ledger, e) = 0
  BY <1>9, <1>11, Zenon DEF Owes
<1>13. Balanced(ledger, P)
  BY <1>1, <1>5, <1>12 DEF Balanced
<1>14. \A id \in DOMAIN ledger.deals : DealInv(id, ledger.deals[id], ledger.height)
  BY <1>1, Zenon
<1>15. Timely(ledger)
  BY <1>1, Zenon DEF Timely
<1>16. ledger.height <= MaxHeight
  BY <1>1, LedgerConstants
<1>17. IsFiniteSet(DOMAIN ledger.deals) /\ IsFiniteSet(DOMAIN ledger.htlcs)
  BY <1>1, <1>10, Zenon
<1> QED
  BY <1>7, <1>8, <1>13, <1>14, <1>15, <1>16, <1>17, Zenon DEF LInv, LedgerInv

\* A block, from its beginning to its last transaction.
LEMMA ExecuteKeeps ==
  ASSUME NEW P \in SUBSET Accounts, Submits(P), LInv(P), Next
  PROVE  BlockInv(ledger, ledger', P) /\ ledger'.height <= MaxHeight
<1>1. PICK S \in SUBSET Validators : \E txs \in Blocks(Begun(ledger, S)) : Execute(S, txs)
  BY Zenon DEF Next
<1> DEFINE l == Begun(ledger, S)
<1>2. PICK txs \in Blocks(l) : Execute(S, txs)
  BY <1>1, Zenon
<1>3. ledger \in Ledger(P) /\ LedgerInv(ledger, P)
  BY Zenon DEF LInv, LedgerInv
<1>4. BlockInv(ledger, BeginBlock(ledger), P)
  BY <1>3, BeginKeeps, Zenon
<1>5. BlockInv(ledger, l, P)
  BY <1>3, <1>4, RewardKeeps, Zenon DEF Begun
<1>6. l \in Ledger(P)
  BY <1>5, Zenon DEF BlockInv, LedgerInv
<1>7. Menu(l) \subseteq Transaction(P)
  BY <1>6, Zenon DEF Submits
<1> HIDE DEF l
<1>8. txs \in Seq(Transaction(P))
  <2>1. PICK n \in 0 .. MaxBlock : txs \in [1 .. n -> Menu(l)]
    BY <1>2, Zenon DEF Blocks
  <2>2. n \in Nat /\ txs \in [1 .. n -> Transaction(P)]
    <3>1. n \in Nat
      BY LedgerConstants
    <3>2. txs = [i \in 1 .. n |-> txs[i]] /\ \A i \in 1 .. n : txs[i] \in Menu(l)
      BY <2>1, Zenon
    <3> QED
      BY <1>7, <3>1, <3>2
  <2> QED
    BY <2>2
<1>9. ledger' = ExecuteBlock(l, txs).ledger /\ ledger.height < MaxHeight
  BY <1>2, Zenon DEF Execute, l
<1>10. BlockInv(ledger, ledger', P)
  <2>1. BlockInv(ledger, ExecuteBlock(l, txs).ledger, P)
    BY <1>3, <1>5, <1>8, BlockKeeps, Zenon
  <2> QED
    BY <1>9, <2>1, Zenon
<1>11. ledger'.height = ledger.height + 1 /\ ledger.height \in Nat
  BY <1>3, <1>10 DEF BlockInv, Follows, Ledger
<1> QED
  BY <1>9, <1>10, <1>11, LedgerConstants

\* Every block keeps it.
LEMMA ChainStep ==
  ASSUME NEW P \in SUBSET Accounts, Submits(P)
  PROVE  LInv(P) /\ [Next]_vars => LInv(P)'
<1>1. ASSUME LInv(P), Next PROVE LInv(P)'
  BY <1>1, ExecuteKeeps, Zenon DEF LInv, BlockInv
<1>2. ASSUME LInv(P), UNCHANGED vars PROVE LInv(P)'
  BY <1>2, Zenon DEF LInv, vars
<1> QED
  BY <1>1, <1>2

\* So it holds of the chain, whatever users submit.
LEMMA ChainInv ==
  ASSUME Submits(Accounts)
  PROVE  Spec => []LInv(Accounts)
<1>1. Init => LInv(Accounts)
  BY GenesisInv
<1>2. LInv(Accounts) /\ [Next]_vars => LInv(Accounts)'
  BY ChainStep
<1> QED
  BY <1>1, <1>2, PTL DEF Spec

\* No balance and no bond of HybridLedger goes below zero, and its contracts are in one of
\* their states, whatever transactions users submit.
THEOREM LedgerTypeCorrect ==
  ASSUME Submits(Accounts)
  PROVE  Spec => []TypeOK
<1>1. LInv(Accounts) => TypeOK
  <2> SUFFICES ASSUME LInv(Accounts) PROVE TypeOK
    OBVIOUS
  <2>1. ledger \in Ledger(Accounts) /\ ledger.height <= MaxHeight /\ LedgerInv(ledger, Accounts)
    BY DEF LInv, LedgerInv
  <2>2. /\ ledger.balance \in [Accounts -> Nat] /\ ledger.nonce \in [Users -> Nat]
        /\ ledger.bonded \in [Users -> Nat] /\ ledger.slashed \subseteq Users \X Slots
        /\ ledger.height \in Nat /\ ledger.htlcs \in Maps(HtlcIds(Accounts), HtlcStates)
        /\ ledger.names \in Maps(Names, [owner : Accounts, expiry : Nat])
    BY <2>1 DEF Ledger
  <2>3. \A id \in DOMAIN ledger.deals : ledger.deals[id].state \in {"active", "completed", "closed"}
    <3>1. \A id \in DOMAIN ledger.deals : ledger.deals[id] \in Deal
      BY <2>1, OwedTypes, Zenon
    <3> QED
      BY <3>1 DEF Deal
  <2>4. \A id \in DOMAIN ledger.htlcs : ledger.htlcs[id] \in {"locked", "claimed", "refunded"}
    <3>1. ledger.htlcs \in [DOMAIN ledger.htlcs -> HtlcStates]
      BY <2>2, MapsType, Zenon
    <3> QED
      BY <3>1 DEF HtlcStates
  <2>5. DOMAIN ledger.names \subseteq Names
    BY <2>2, MapsType
  <2>6. ledger.height \in 0 .. MaxHeight
    BY <2>1, <2>2, LedgerConstants
  <2>7. Menu(ledger) \subseteq Transaction(Accounts)
    BY <2>1, Zenon DEF Submits
  <2> QED
    BY <2>2, <2>3, <2>4, <2>5, <2>6, <2>7, Zenon DEF TypeOK
<1> QED
  BY <1>1, ChainInv, PTL

\* No operation of the ledger, no sweep and no reward makes or destroys a token, whatever
\* transactions users submit.
THEOREM SupplyNeverChanges ==
  ASSUME Submits(Accounts)
  PROVE  Spec => []SupplyIsFixed
<1>1. LInv(Accounts) => SupplyIsFixed
  BY DEF LInv, LedgerInv, SupplyIsFixed
<1> QED
  BY <1>1, ChainInv, PTL

\* An active deal has one slice of its price and one period behind it for each passed audit
\* (settle_epoch), and ends with its term or its provider's silence (finalize_lapsed_deals),
\* whatever transactions users submit.
THEOREM DealsKeepToSchedule ==
  ASSUME Submits(Accounts)
  PROVE  Spec => []DealKeepsToSchedule
<1>1. LInv(Accounts) => DealKeepsToSchedule
  BY Zenon DEF LInv, LedgerInv, DealInv, Timely, DealKeepsToSchedule
<1> QED
  BY <1>1, ChainInv, PTL

\* Each keyless account holds at least what its sub-ledger owes.
Solvent == \A e \in Escrows : ledger.balance[e] >= Owes(ledger, e)

\* Every bond, every active deal and every locked contract of HybridLedger can be paid out,
\* in whatever order they end and whatever users submit, transfers to the keyless accounts
\* among it.
THEOREM EscrowIsSolvent ==
  ASSUME Submits(Accounts)
  PROVE  Spec => []Solvent
<1>1. LInv(Accounts) => Solvent
  BY Zenon DEF LInv, LedgerInv, Balanced, Solvent
<1> QED
  BY <1>1, ChainInv, PTL

\* Each escrow account holds exactly what its sub-ledger owes, if no user names one as the
\* payee of a transfer, a contract or a deal: nothing is left behind by bonds, slashes,
\* proofs, closings, sweeps and refunds.
THEOREM EscrowIsExact ==
  ASSUME Submits(Users \cup {TREASURY})
  PROVE  Spec => []Conservation
<1> DEFINE P == Users \cup {TREASURY}
<1>1. P \in SUBSET Accounts /\ P \cap Escrows = {}
  BY AccountFacts
<1>2. LInv(P) /\ [Next]_vars => LInv(P)'
  <2>1. Submits(P)
    BY DEF P
  <2> HIDE DEF P
  <2> QED
    BY <1>1, <2>1, ChainStep
<1>3. Init => LInv(P)
  <2> HIDE DEF P
  <2> QED
    BY GenesisInv
<1>4. LInv(P) => Conservation
  <2> SUFFICES ASSUME LInv(P) PROVE Conservation
    OBVIOUS
  <2> HIDE DEF P
  <2>1. \A e \in Escrows : ledger.balance[e] = Owes(ledger, e)
    BY <1>1, Zenon DEF LInv, LedgerInv, Balanced
  <2> QED
    BY <2>1, EscrowsDiffer DEF Owes, Escrows, Conservation
<1> QED
  BY <1>2, <1>3, <1>4, PTL DEF Spec

\* Whoever holds a name keeps it through a block in which they sign nothing, whatever others
\* submit (plan and owned of the name registry).
THEOREM NamesAreKept ==
  ASSUME Submits(Accounts)
  PROVE  Spec => NameIsKept
<1> DEFINE Keeps == \A name \in DOMAIN ledger.names :
                      LET record == ledger.names[name]
                      IN  /\ ledger'.height <= record.expiry
                          /\ ledger'.nonce[record.owner] = ledger.nonce[record.owner]
                          => ledger'.names[name] = record
<1>1. LInv(Accounts) /\ [Next]_vars => [Keeps]_vars
  <2> SUFFICES ASSUME LInv(Accounts), Next PROVE Keeps
    OBVIOUS
  <2>1. Follows(ledger, ledger') /\ ledger \in Ledger(Accounts)
    BY ExecuteKeeps, Zenon DEF LInv, LedgerInv, BlockInv
  <2>2. \A u \in Users : ledger.nonce[u] \in Nat
    BY <2>1 DEF Ledger
  <2>3. \A u \in Users : ~(ledger.nonce[u] < ledger.nonce[u])
    BY <2>2
  <2> QED
    BY <2>1, <2>3, Zenon DEF Follows
<1> QED
  BY <1>1, ChainInv, PTL DEF Spec, NameIsKept

=============================================================================
