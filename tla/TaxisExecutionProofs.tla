------------------------ MODULE TaxisExecutionProofs ------------------------
(***************************************************************************)
(* What a validator executes is a function of the chain, for every chain,  *)
(* window and number of validators: what a block opens to, when, and whom  *)
(* it pays are fixed by the part of the chain that decides them, and the   *)
(* loop of try_execute runs through the blocks in their order.             *)
(***************************************************************************)
EXTENDS TaxisExecution, WellFoundedInduction, FiniteSetTheorems, TLAPS

\* Two chains with the same blocks below height n.
SameBelow(c, d, n) == \A h \in 0 .. n - 1 : BlockAt(c, h) = BlockAt(d, h)

\* A set of heights has a least one, so the loop of execution_height, which tries
\* them in ascending order, stops at Min.
LEMMA MinIsLeast ==
  ASSUME NEW S \in SUBSET Nat, S # {}
  PROVE  /\ Min(S) \in S
         /\ \A h \in S : Min(S) <= h
<1> DEFINE Less == OpToRel(<, Nat)
<1>1. \E x \in S : \A y \in S : ~(<<y, x>> \in Less)
  BY Zenon, NatLessThanWellFounded, WFMin
<1>2. \A x, y \in Nat : y < x => <<y, x>> \in Less
  BY DEF OpToRel
<1> HIDE DEF Less
<1>3. PICK x \in S : \A y \in S : ~(<<y, x>> \in Less)
  BY <1>1
<1>4. \A y \in S : x <= y
  <2>1. ASSUME NEW y \in S PROVE x <= y
    <3>1. x \in Nat /\ y \in Nat /\ ~(y < x)
      BY Zenon, <1>2, <1>3
    <3>2. QED
      BY <3>1
  <2>2. QED
    BY <2>1
<1>5. QED
  BY Zenon, <1>4 DEF Min

\* Induction over an interval, for a set of numbers.
LEMMA Induction ==
  ASSUME NEW m \in Nat, NEW n \in Nat, m <= n, NEW B, m \in B,
         \A i \in m + 1 .. n : i - 1 \in B => i \in B
  PROVE  \A i \in m .. n : i \in B
<1> DEFINE C == {i \in m .. n : i \notin B}
<1>1. SUFFICES ASSUME C # {} PROVE FALSE
  OBVIOUS
<1>2. C \in SUBSET Nat
  OBVIOUS
<1> HIDE DEF C
<1>3. Min(C) \in C /\ \A i \in C : Min(C) <= i
  BY <1>1, <1>2, MinIsLeast
<1> USE DEF C
<1>4. Min(C) \in m + 1 .. n /\ Min(C) \notin B
  BY <1>3
<1>5. Min(C) - 1 \in m .. n /\ ~(Min(C) <= Min(C) - 1)
  BY <1>4
<1>6. Min(C) - 1 \in B
  BY <1>3, <1>5
<1> QED
  BY <1>4, <1>6

\* openings_in reads only the interval it is asked about.
LEMMA OpeningsAreLocal ==
  ASSUME NEW c, NEW d, NEW n \in Nat, SameBelow(c, d, n),
         NEW h0 \in Nat, NEW h \in Nat, h < n, NEW x, NEW m
  PROVE  OpeningsIn(c, h0, h, x, m) = OpeningsIn(d, h0, h, x, m)
<1> DEFINE HC == {g \in h0 + 1 .. h : BlockAt(c, g).reveals[x][m] # None}
           HD == {g \in h0 + 1 .. h : BlockAt(d, g).reveals[x][m] # None}
<1>1. \A g \in h0 + 1 .. h : BlockAt(c, g) = BlockAt(d, g)
  BY DEF SameBelow
<1>2. HC = HD
  BY <1>1
<1>3. HC # {} => Min(HC) \in HC
  <2>1. HC \in SUBSET Nat
    OBVIOUS
  <2>2. QED
    BY <2>1, MinIsLeast
<1>4. HC # {} => BlockAt(c, Min(HC)) = BlockAt(d, Min(HC))
  BY <1>1, <1>3
<1>5. QED
  BY Zenon, <1>2, <1>4 DEF OpeningsIn

\* So does the question whether a block's transactions open.
LEMMA OpeningIsLocal ==
  ASSUME NEW c, NEW d, NEW n \in Nat, SameBelow(c, d, n),
         NEW h0 \in Nat, NEW h \in Nat, h0 < h, h < n
  PROVE  /\ TxsAt(c, h0) = TxsAt(d, h0)
         /\ AllOpen(c, h0, h) <=> AllOpen(d, h0, h)
         /\ Opened(c, h0, h) = Opened(d, h0, h)
         /\ Paid(c, h0, h) = Paid(d, h0, h)
<1>1. BlockAt(c, h0) = BlockAt(d, h0)
  BY DEF SameBelow
<1>2. TxsAt(c, h0) = TxsAt(d, h0)
  BY <1>1 DEF TxsAt
<1>3. \A x, m : OpeningsIn(c, h0, h, x, m) = OpeningsIn(d, h0, h, x, m)
  BY OpeningsAreLocal
<1>4. ASSUME NEW x PROVE Opens(c, h0, h, x) <=> Opens(d, h0, h, x)
  <2>1. {m \in Members : OpeningsIn(c, h0, h, x, m) = "genuine"}
          = {m \in Members : OpeningsIn(d, h0, h, x, m) = "genuine"}
    BY <1>3
  <2>2. QED
    BY <2>1 DEF Opens
<1>5. AllOpen(c, h0, h) <=> AllOpen(d, h0, h)
  BY <1>2, <1>4 DEF AllOpen
<1>6. Opened(c, h0, h) = Opened(d, h0, h)
  BY <1>2, <1>4 DEF Opened
<1>7. Paid(c, h0, h) = Paid(d, h0, h)
  <2>1. Revealers(c, h0, h) = Revealers(d, h0, h)
    BY <1>3 DEF Revealers
  <2>2. QED
    BY <1>2, <2>1 DEF Paid
<1>8. QED
  BY <1>2, <1>5, <1>6, <1>7

\* execution_height answers within the window, and always once the window is final:
\* no finalized block can be kept from executing.
THEOREM WindowCloses ==
  ASSUME NEW c, NEW n \in Nat, NEW h0 \in Nat
  PROVE  /\ h0 + Window < n => ExecutionHeight(c, n, h0) # None
         /\ ExecutionHeight(c, n, h0) # None =>
              /\ ExecutionHeight(c, n, h0) \in h0 + 1 .. h0 + Window
              /\ ExecutionHeight(c, n, h0) < n
<1> DEFINE O == {h \in h0 + 1 .. h0 + Window : h < n /\ AllOpen(c, h0, h)}
<1>1. Window \in Nat /\ Window > 0 /\ None \notin Nat
  BY RevealConstants
<1>2. O \in SUBSET Nat
  BY <1>1
<1>3. O # {} => Min(O) \in O
  BY <1>2, MinIsLeast
<1>4. ExecutionHeight(c, n, h0)
        = IF O # {} THEN Min(O) ELSE IF h0 + Window < n THEN h0 + Window ELSE None
  BY DEF ExecutionHeight
<1> HIDE DEF O
<1>5. O # {} => Min(O) \in h0 + 1 .. h0 + Window /\ Min(O) < n /\ Min(O) \in Nat
  BY <1>1, <1>3 DEF O
<1>6. QED
  BY <1>1, <1>4, <1>5

\* "two validators reach the same verdict ... however far past E(H) either has run":
\* once the execution height of a block is decided at next height n, a validator at any
\* later height, on a chain with those blocks, decides the same height, opens the same
\* transactions and pays the same members.
THEOREM ExecutionIsDecidedOnce ==
  ASSUME NEW c, NEW d, NEW n \in Nat, NEW later \in Nat, n <= later,
         SameBelow(c, d, n), NEW h0 \in Nat, ExecutionHeight(c, n, h0) # None
  PROVE  LET at == ExecutionHeight(c, n, h0)
         IN /\ ExecutionHeight(d, later, h0) = at
            /\ Opened(d, h0, at) = Opened(c, h0, at)
            /\ Paid(d, h0, at) = Paid(c, h0, at)
<1> DEFINE O == {h \in h0 + 1 .. h0 + Window : h < n /\ AllOpen(c, h0, h)}
           L == {h \in h0 + 1 .. h0 + Window : h < later /\ AllOpen(d, h0, h)}
           at == ExecutionHeight(c, n, h0)
<1>1. Window \in Nat /\ Window > 0 /\ None \notin Nat
  BY RevealConstants
<1>2. \A h \in h0 + 1 .. h0 + Window : h < n => (AllOpen(c, h0, h) <=> AllOpen(d, h0, h))
  BY <1>1, OpeningIsLocal
<1>3. \A h \in h0 + 1 .. h0 + Window : h < n => (h \in O <=> h \in L)
  BY <1>1, <1>2
<1>4. at \in h0 + 1 .. h0 + Window /\ at < n /\ at \in Nat
  BY <1>1, WindowCloses
<1>5. /\ at = IF O # {} THEN Min(O) ELSE IF h0 + Window < n THEN h0 + Window ELSE None
      /\ ExecutionHeight(d, later, h0)
           = IF L # {} THEN Min(L) ELSE IF h0 + Window < later THEN h0 + Window ELSE None
  BY DEF ExecutionHeight
<1>6. /\ O \in SUBSET Nat /\ L \in SUBSET Nat
      /\ \A h \in O : h \in h0 + 1 .. h0 + Window /\ h < n
      /\ \A h \in L : h \in h0 + 1 .. h0 + Window
  BY <1>1
<1> HIDE DEF O, L, at
<1>7. ASSUME O # {} PROVE ExecutionHeight(d, later, h0) = at
  <2>1. at = Min(O) /\ at \in O /\ \A h \in O : at <= h
    BY <1>5, <1>6, <1>7, MinIsLeast
  <2>2. at \in L
    BY <1>3, <1>4, <2>1
  <2>3. Min(L) \in L /\ \A h \in L : Min(L) <= h
    BY <1>6, <2>2, MinIsLeast
  <2>4. Min(L) <= at /\ Min(L) \in Nat /\ Min(L) \in h0 + 1 .. h0 + Window
    BY Zenon, <1>6, <2>2, <2>3
  <2>5. Min(L) < n
    BY <1>4, <2>4
  <2>6. Min(L) \in O
    BY <1>3, <2>3, <2>4, <2>5
  <2>7. at <= Min(L)
    BY <2>1, <2>6
  <2>8. Min(L) = at
    BY <1>4, <2>4, <2>7
  <2>9. QED
    BY <1>5, <2>2, <2>8
<1>8. ASSUME O = {} PROVE ExecutionHeight(d, later, h0) = at
  <2>1. at = h0 + Window /\ h0 + Window < n
    BY Zenon, <1>1, <1>4, <1>5, <1>8
  <2>2. L = {}
    <3>1. ASSUME NEW h \in L PROVE FALSE
      <4>1. h \in h0 + 1 .. h0 + Window
        BY <1>6
      <4>2. h < n
        BY <1>1, <2>1, <4>1
      <4>3. QED
        BY <1>3, <1>8, <4>1, <4>2
    <3>2. QED
      BY <3>1
  <2>3. QED
    <3>1. h0 + Window < later
      BY <1>1, <2>1
    <3>2. QED
      BY <1>5, <2>1, <2>2, <3>1
<1>9. ExecutionHeight(d, later, h0) = at
  BY <1>7, <1>8
<1>10. Opened(d, h0, at) = Opened(c, h0, at) /\ Paid(d, h0, at) = Paid(c, h0, at)
  <2>1. h0 < at
    BY <1>1, <1>4
  <2>2. at \in Nat /\ at < n
    BY <1>4
  <2>3. QED
    BY <2>1, <2>2, OpeningIsLocal
<1>11. QED
  BY <1>9, <1>10, Zenon DEF at

-----------------------------------------------------------------------------
(* The loops.                                                               *)

\* f[i] is what a loop from base has after turn i, whose body is F[i].
IsLoop(lo, hi, base, F, f) == f[lo] = base /\ \A i \in lo + 1 .. hi : f[i] = F[i][f[i - 1]]

\* A loop whose turns keep to Y has a value after each turn.
LEMMA Recursion ==
  ASSUME NEW lo \in Nat, NEW hi \in Nat, lo <= hi, NEW Y, NEW base \in Y,
         NEW F \in [lo + 1 .. hi -> [Y -> Y]]
  PROVE  \E f \in [lo .. hi -> Y] : IsLoop(lo, hi, base, F, f)
<1> DEFINE Upto(n, f) == IsLoop(lo, n, base, F, f)
           B == {n \in Nat : \E f \in [lo .. n -> Y] : Upto(n, f)}
<1>1. lo \in B
  <2>1. [i \in lo .. lo |-> base] \in [lo .. lo -> Y] /\ Upto(lo, [i \in lo .. lo |-> base])
    BY DEF IsLoop
  <2> QED
    BY <2>1, Zenon
<1>2. ASSUME NEW n \in lo + 1 .. hi, n - 1 \in B PROVE n \in B
  <2>1. PICK f \in [lo .. n - 1 -> Y] : Upto(n - 1, f)
    BY <1>2
  <2> DEFINE g == [i \in lo .. n |-> IF i < n THEN f[i] ELSE F[n][f[n - 1]]]
  <2>2. \A i \in lo .. n - 1 : i \in lo .. n /\ g[i] = f[i] /\ f[i] \in Y
    OBVIOUS
  <2>3. n - 1 \in lo .. n - 1 /\ g[n] = F[n][f[n - 1]]
    OBVIOUS
  <2>4. g \in [lo .. n -> Y]
    BY <2>2, <2>3
  <2> HIDE DEF g
  <2>5. \A i \in lo + 1 .. n : g[i] = F[i][g[i - 1]]
    <3>1. ASSUME NEW i \in lo + 1 .. n PROVE g[i] = F[i][g[i - 1]]
      <4>1. i - 1 \in lo .. n - 1
        OBVIOUS
      <4>2. g[i - 1] = f[i - 1]
        BY <2>2, <4>1
      <4>3. CASE i = n
        BY <2>3, <4>2, <4>3
      <4>4. CASE i \in lo + 1 .. n - 1
        <5>1. f[i] = F[i][f[i - 1]] /\ i \in lo .. n - 1
          BY <2>1, <4>4 DEF IsLoop
        <5> QED
          BY <2>2, <4>2, <5>1
      <4> QED
        BY <4>3, <4>4
    <3> QED
      BY <3>1, Zenon
  <2>6. g[lo] = base
    BY <2>1, <2>2 DEF IsLoop
  <2>7. n \in Nat
    OBVIOUS
  <2> QED
    BY <2>4, <2>5, <2>6, <2>7 DEF IsLoop
<1>3. hi \in B
  <2> HIDE DEF B
  <2>1. \A i \in lo .. hi : i \in B
    BY <1>1, <1>2, Induction, Zenon
  <2> QED
    BY <2>1
<1> QED
  BY <1>3, Zenon

\* f[i] is what Filtered(s, S) keeps of the first i elements of s.
Keeps(s, S, f) ==
  /\ f[0] = <<>>
  /\ \A i \in 0 + 1 .. Len(s) : f[i] = IF s[i] \in S THEN Append(f[i - 1], s[i]) ELSE f[i - 1]
  /\ Filtered(s, S) = f[Len(s)]

\* Filtered is such a loop, over sequences of elements of s that are in S.
LEMMA FilteredLoop ==
  ASSUME NEW T, NEW s \in Seq(T), NEW S
  PROVE  \E f \in [0 .. Len(s) -> Seq(T \cap S)] : Keeps(s, S, f)
<1> DEFINE Y == Seq(T \cap S)
           Base == <<>>
           Step(y, i) == IF s[i] \in S THEN Append(y, s[i]) ELSE y
           F == [i \in 0 + 1 .. Len(s) |-> [y \in Y |-> Step(y, i)]]
           Eq(f) == f = [i \in 0 .. Len(s) |-> IF i = 0 THEN Base ELSE Step(f[i - 1], i)]
           g == CHOOSE f : Eq(f)
<1>1. 0 \in Nat /\ Len(s) \in Nat /\ 0 <= Len(s) /\ Base \in Y
  OBVIOUS
<1>2. ASSUME NEW i \in 0 + 1 .. Len(s), NEW y \in Y PROVE Step(y, i) \in Y
  <2>1. s[i] \in T
    OBVIOUS
  <2> QED
    BY <2>1
<1> HIDE DEF Y, Base, Step
<1>3. F \in [0 + 1 .. Len(s) -> [Y -> Y]]
  BY <1>2
<1>4. \A i \in 0 + 1 .. Len(s), y \in Y : F[i][y] = Step(y, i)
  OBVIOUS
<1> HIDE DEF F
<1>5. PICK f \in [0 .. Len(s) -> Y] : IsLoop(0, Len(s), Base, F, f)
  BY <1>1, <1>3, Recursion, Zenon
<1>6. Eq(f)
  <2>1. ASSUME NEW i \in 0 .. Len(s) PROVE f[i] = IF i = 0 THEN Base ELSE Step(f[i - 1], i)
    <3>1. CASE i = 0
      BY <1>5, <3>1 DEF IsLoop
    <3>2. CASE i # 0
      <4>1. i \in 0 + 1 .. Len(s) /\ i - 1 \in 0 .. Len(s)
        BY <1>1, <3>2
      <4>2. f[i - 1] \in Y /\ f[i] = F[i][f[i - 1]]
        BY <1>5, <4>1 DEF IsLoop
      <4> QED
        BY <1>4, <3>2, <4>1, <4>2
    <3> QED
      BY <3>1, <3>2
  <2> QED
    BY <2>1
<1>7. Eq(g)
  BY <1>6, Zenon
<1>8. Filtered(s, S) = g[Len(s)]
  BY DEF Filtered, Step, Base
<1> HIDE DEF g
<1>9. DOMAIN g = 0 .. Len(s) /\ g[0] = Base /\ \A i \in 0 + 1 .. Len(s) : g[i] = Step(g[i - 1], i)
  BY <1>1, <1>7
<1>10. \A i \in 0 .. Len(s) : g[i] \in Y
  <2> DEFINE C == {i \in 0 .. Len(s) : g[i] \in Y}
  <2>1. 0 \in C
    BY <1>1, <1>9
  <2>2. ASSUME NEW i \in 0 + 1 .. Len(s), i - 1 \in C PROVE i \in C
    BY <1>1, <1>2, <1>9, <2>2
  <2> HIDE DEF C
  <2>3. \A i \in 0 .. Len(s) : i \in C
    BY <1>1, <2>1, <2>2, Induction, Zenon
  <2> QED
    BY <2>3 DEF C
<1>11. g \in [0 .. Len(s) -> Y]
  BY <1>7, <1>10
<1> QED
  BY <1>8, <1>9, <1>11, Zenon DEF Y, Base, Step, Keeps

\* So Filtered returns a sequence of the kind it was given.
LEMMA FilteredType ==
  ASSUME NEW T, NEW s \in Seq(T), NEW S
  PROVE  Filtered(s, S) \in Seq(T)
<1>1. Filtered(s, S) \in Seq(T \cap S)
  <2>1. PICK f \in [0 .. Len(s) -> Seq(T \cap S)] : Keeps(s, S, f)
    BY FilteredLoop, Zenon
  <2>2. Len(s) \in 0 .. Len(s)
    OBVIOUS
  <2> QED
    BY <2>1, <2>2 DEF Keeps
<1> QED
  BY <1>1

\* What apply_block and note_deferrals work on, and a run of try_execute.
Ledger == [applied : SUBSET Txs, deferred : SUBSET Txs]
Deferral == [tries : [Txs -> 0 .. Window], mempool : SUBSET Txs]
Running == [log : Seq(Entry), tries : [Txs -> 0 .. Window], mempool : SUBSET Txs]

\* f[i] is what apply_block has after the first i of txs.
Applies(applied, txs, f) ==
  /\ f[0] = [applied |-> applied, deferred |-> {}]
  /\ \A i \in 0 + 1 .. Len(txs) : f[i] = ApplyTx(f[i - 1], txs[i])
  /\ ApplyBlock(applied, txs) = f[Len(txs)]

\* apply_block is such a loop.
LEMMA ApplyBlockLoop ==
  ASSUME NEW applied \in SUBSET Txs, NEW txs \in Seq(Txs)
  PROVE  \E f \in [0 .. Len(txs) -> Ledger] : Applies(applied, txs, f)
<1> DEFINE Y == Ledger
           Base == [applied |-> applied, deferred |-> {}]
           Step(y, i) == ApplyTx(y, txs[i])
           F == [i \in 0 + 1 .. Len(txs) |-> [y \in Y |-> Step(y, i)]]
           Eq(f) == f = [i \in 0 .. Len(txs) |-> IF i = 0 THEN Base ELSE Step(f[i - 1], i)]
           g == CHOOSE f : Eq(f)
<1>1. 0 \in Nat /\ Len(txs) \in Nat /\ 0 <= Len(txs) /\ Base \in Y
  BY DEF Ledger
<1>2. ASSUME NEW i \in 0 + 1 .. Len(txs), NEW y \in Y PROVE Step(y, i) \in Y
  <2>1. txs[i] \in Txs
    OBVIOUS
  <2> QED
    BY <2>1 DEF ApplyTx, Ledger
<1> HIDE DEF Y, Base, Step
<1>3. F \in [0 + 1 .. Len(txs) -> [Y -> Y]]
  BY <1>2
<1>4. \A i \in 0 + 1 .. Len(txs), y \in Y : F[i][y] = Step(y, i)
  OBVIOUS
<1> HIDE DEF F
<1>5. PICK f \in [0 .. Len(txs) -> Y] : IsLoop(0, Len(txs), Base, F, f)
  BY <1>1, <1>3, Recursion, Zenon
<1>6. Eq(f)
  <2>1. ASSUME NEW i \in 0 .. Len(txs) PROVE f[i] = IF i = 0 THEN Base ELSE Step(f[i - 1], i)
    <3>1. CASE i = 0
      BY <1>5, <3>1 DEF IsLoop
    <3>2. CASE i # 0
      <4>1. i \in 0 + 1 .. Len(txs) /\ i - 1 \in 0 .. Len(txs)
        BY <1>1, <3>2
      <4>2. f[i - 1] \in Y /\ f[i] = F[i][f[i - 1]]
        BY <1>5, <4>1 DEF IsLoop
      <4> QED
        BY <1>4, <3>2, <4>1, <4>2
    <3> QED
      BY <3>1, <3>2
  <2> QED
    BY <2>1
<1>7. Eq(g)
  BY <1>6, Zenon
<1>8. ApplyBlock(applied, txs) = g[Len(txs)]
  BY DEF ApplyBlock, Step, Base
<1> HIDE DEF g
<1>9. DOMAIN g = 0 .. Len(txs) /\ g[0] = Base /\ \A i \in 0 + 1 .. Len(txs) : g[i] = Step(g[i - 1], i)
  BY <1>1, <1>7
<1>10. \A i \in 0 .. Len(txs) : g[i] \in Y
  <2> DEFINE C == {i \in 0 .. Len(txs) : g[i] \in Y}
  <2>1. 0 \in C
    BY <1>1, <1>9
  <2>2. ASSUME NEW i \in 0 + 1 .. Len(txs), i - 1 \in C PROVE i \in C
    BY <1>1, <1>2, <1>9, <2>2
  <2> HIDE DEF C
  <2>3. \A i \in 0 .. Len(txs) : i \in C
    BY <1>1, <2>1, <2>2, Induction, Zenon
  <2> QED
    BY <2>3 DEF C
<1>11. g \in [0 .. Len(txs) -> Y]
  BY <1>7, <1>10
<1> QED
  BY <1>8, <1>9, <1>11, Zenon DEF Y, Base, Step, Applies

\* A clock runs for at most Window retries.
LEMMA NoteDeferralType ==
  ASSUME NEW a \in Deferral, NEW x \in Txs, NEW deferred
  PROVE  NoteDeferral(a, x, deferred) \in Deferral
<1> DEFINE t == IF deferred THEN Ages(a.tries, x) ELSE [a.tries EXCEPT ![x] = 0]
<1>1. Window \in Nat /\ a.tries \in [Txs -> 0 .. Window] /\ a.mempool \in SUBSET Txs
  BY RevealConstants DEF Deferral
<1>2. a.tries[x] \in 0 .. Window
  BY <1>1
<1>3. Ages(a.tries, x) \in [Txs -> 0 .. Window]
  <2>1. ~(a.tries[x] >= Window) => a.tries[x] + 1 \in 0 .. Window
    BY <1>1, <1>2
  <2>2. 0 \in 0 .. Window
    BY <1>1
  <2> QED
    BY <1>1, <2>1, <2>2 DEF Ages
<1>4. t \in [Txs -> 0 .. Window]
  BY <1>1, <1>3
<1> HIDE DEF t
<1>5. [tries |-> t, mempool |-> IF t[x] > 0 THEN a.mempool \cup {x} ELSE a.mempool] \in Deferral
  BY <1>1, <1>4 DEF Deferral
<1> QED
  BY <1>5, Zenon DEF NoteDeferral, t

\* f[i] has the clocks and the mempool after note_deferrals has seen the first i of txs.
Notes(a, txs, deferred, f) ==
  /\ f[0] = a
  /\ \A i \in 0 + 1 .. Len(txs) : f[i] = NoteDeferral(f[i - 1], txs[i], txs[i] \in deferred)
  /\ NoteDeferrals(a, txs, deferred) = f[Len(txs)]

\* note_deferrals is such a loop.
LEMMA NoteDeferralsLoop ==
  ASSUME NEW a \in Deferral, NEW txs \in Seq(Txs), NEW deferred
  PROVE  \E f \in [0 .. Len(txs) -> Deferral] : Notes(a, txs, deferred, f)
<1> DEFINE Y == Deferral
           Base == a
           Step(y, i) == NoteDeferral(y, txs[i], txs[i] \in deferred)
           F == [i \in 0 + 1 .. Len(txs) |-> [y \in Y |-> Step(y, i)]]
           Eq(f) == f = [i \in 0 .. Len(txs) |-> IF i = 0 THEN Base ELSE Step(f[i - 1], i)]
           g == CHOOSE f : Eq(f)
<1>1. 0 \in Nat /\ Len(txs) \in Nat /\ 0 <= Len(txs) /\ Base \in Y
  OBVIOUS
<1>2. ASSUME NEW i \in 0 + 1 .. Len(txs), NEW y \in Y PROVE Step(y, i) \in Y
  <2>1. txs[i] \in Txs
    OBVIOUS
  <2> QED
    BY <2>1, NoteDeferralType
<1> HIDE DEF Y, Base, Step
<1>3. F \in [0 + 1 .. Len(txs) -> [Y -> Y]]
  BY <1>2
<1>4. \A i \in 0 + 1 .. Len(txs), y \in Y : F[i][y] = Step(y, i)
  OBVIOUS
<1> HIDE DEF F
<1>5. PICK f \in [0 .. Len(txs) -> Y] : IsLoop(0, Len(txs), Base, F, f)
  BY <1>1, <1>3, Recursion, Zenon
<1>6. Eq(f)
  <2>1. ASSUME NEW i \in 0 .. Len(txs) PROVE f[i] = IF i = 0 THEN Base ELSE Step(f[i - 1], i)
    <3>1. CASE i = 0
      BY <1>5, <3>1 DEF IsLoop
    <3>2. CASE i # 0
      <4>1. i \in 0 + 1 .. Len(txs) /\ i - 1 \in 0 .. Len(txs)
        BY <1>1, <3>2
      <4>2. f[i - 1] \in Y /\ f[i] = F[i][f[i - 1]]
        BY <1>5, <4>1 DEF IsLoop
      <4> QED
        BY <1>4, <3>2, <4>1, <4>2
    <3> QED
      BY <3>1, <3>2
  <2> QED
    BY <2>1
<1>7. Eq(g)
  BY <1>6, Zenon
<1>8. NoteDeferrals(a, txs, deferred) = g[Len(txs)]
  BY DEF NoteDeferrals, Step, Base
<1> HIDE DEF g
<1>9. DOMAIN g = 0 .. Len(txs) /\ g[0] = Base /\ \A i \in 0 + 1 .. Len(txs) : g[i] = Step(g[i - 1], i)
  BY <1>1, <1>7
<1>10. \A i \in 0 .. Len(txs) : g[i] \in Y
  <2> DEFINE C == {i \in 0 .. Len(txs) : g[i] \in Y}
  <2>1. 0 \in C
    BY <1>1, <1>9
  <2>2. ASSUME NEW i \in 0 + 1 .. Len(txs), i - 1 \in C PROVE i \in C
    BY <1>1, <1>2, <1>9, <2>2
  <2> HIDE DEF C
  <2>3. \A i \in 0 .. Len(txs) : i \in C
    BY <1>1, <2>1, <2>2, Induction, Zenon
  <2> QED
    BY <2>3 DEF C
<1>11. g \in [0 .. Len(txs) -> Y]
  BY <1>7, <1>10
<1> QED
  BY <1>8, <1>9, <1>11, Zenon DEF Y, Base, Step, Notes

\* apply_block defers only what it was given.
LEMMA DeferredAreOpened ==
  ASSUME NEW applied \in SUBSET Txs, NEW txs \in Seq(Txs)
  PROVE  /\ ApplyBlock(applied, txs) \in Ledger
         /\ \A x \in ApplyBlock(applied, txs).deferred : \E i \in 1 .. Len(txs) : x = txs[i]
<1>1. PICK f \in [0 .. Len(txs) -> Ledger] : Applies(applied, txs, f)
  BY ApplyBlockLoop, Zenon
<1> DEFINE C == {i \in 0 .. Len(txs) : \A x \in f[i].deferred : \E j \in 1 .. Len(txs) : x = txs[j]}
<1>2. 0 \in Nat /\ Len(txs) \in Nat /\ 0 <= Len(txs)
  OBVIOUS
<1>3. 0 \in C
  BY <1>1, <1>2 DEF Applies
<1>4. ASSUME NEW i \in 0 + 1 .. Len(txs), i - 1 \in C PROVE i \in C
  <2>1. i \in 1 .. Len(txs) /\ i \in 0 .. Len(txs) /\ i - 1 \in 0 .. Len(txs)
    BY <1>2
  <2>2. f[i] = ApplyTx(f[i - 1], txs[i]) /\ f[i - 1] \in Ledger
    BY <1>1, <2>1 DEF Applies
  <2>3. f[i].deferred \subseteq f[i - 1].deferred \cup {txs[i]}
    BY <2>2 DEF ApplyTx, Ledger
  <2>4. \A x \in f[i].deferred : \E j \in 1 .. Len(txs) : x = txs[j]
    BY <1>4, <2>1, <2>3
  <2> QED
    BY <2>1, <2>4
<1>5. Len(txs) \in C
  <2> HIDE DEF C
  <2>1. \A i \in 0 .. Len(txs) : i \in C
    BY <1>2, <1>3, <1>4, Induction, Zenon
  <2> QED
    BY <1>2, <2>1
<1> QED
  BY <1>1, <1>2, <1>5 DEF Applies

\* note_deferrals readmits what still has a clock, and takes nothing from the mempool.
LEMMA DeferralsAreReadmitted ==
  ASSUME NEW a \in Deferral, NEW txs \in Seq(Txs), NEW deferred
  PROVE  LET r == NoteDeferrals(a, txs, deferred)
         IN /\ r \in Deferral
            /\ a.mempool \subseteq r.mempool
            /\ \A i \in 1 .. Len(txs) : r.tries[txs[i]] > 0 => txs[i] \in r.mempool
<1>1. PICK f \in [0 .. Len(txs) -> Deferral] : Notes(a, txs, deferred, f)
  BY NoteDeferralsLoop, Zenon
<1> DEFINE Kept(i) == /\ a.mempool \subseteq f[i].mempool
                      /\ \A j \in 1 .. i : f[i].tries[txs[j]] > 0 => txs[j] \in f[i].mempool
           C == {i \in 0 .. Len(txs) : Kept(i)}
<1>2. 0 \in Nat /\ Len(txs) \in Nat /\ 0 <= Len(txs)
  OBVIOUS
<1>3. 0 \in C
  BY <1>1, <1>2 DEF Notes
<1>4. ASSUME NEW i \in 0 + 1 .. Len(txs), i - 1 \in C PROVE i \in C
  <2>1. i \in 1 .. Len(txs) /\ i \in 0 .. Len(txs) /\ i - 1 \in 0 .. Len(txs)
    BY <1>2
  <2> DEFINE p == f[i - 1]
             x == txs[i]
             t == IF x \in deferred THEN Ages(p.tries, x) ELSE [p.tries EXCEPT ![x] = 0]
  <2>2. f[i] = NoteDeferral(p, x, x \in deferred) /\ p \in Deferral /\ x \in Txs
    BY <1>1, <2>1 DEF Notes
  <2>3. f[i] = [tries |-> t, mempool |-> IF t[x] > 0 THEN p.mempool \cup {x} ELSE p.mempool]
    BY <2>2, Zenon DEF NoteDeferral
  <2>4. \A y \in Txs : y # x => t[y] = p.tries[y]
    BY <2>2 DEF Ages, Deferral
  <2>5. Kept(i - 1)
    BY <1>4
  <2> HIDE DEF t, p
  <2>6. p.mempool \subseteq f[i].mempool /\ (f[i].tries[x] > 0 => x \in f[i].mempool)
    BY <2>3
  <2>7. a.mempool \subseteq f[i].mempool
    BY <2>5, <2>6 DEF p
  <2>8. ASSUME NEW j \in 1 .. i, f[i].tries[txs[j]] > 0 PROVE txs[j] \in f[i].mempool
    <3>1. CASE txs[j] = x
      BY <2>6, <2>8, <3>1
    <3>2. CASE txs[j] # x
      <4>1. j \in 1 .. i - 1 /\ txs[j] \in Txs
        BY <2>1, <3>2
      <4>2. f[i].tries = t
        BY <2>3
      <4>3. p.tries[txs[j]] > 0
        BY <2>4, <2>8, <3>2, <4>1, <4>2
      <4>4. txs[j] \in p.mempool
        BY <2>5, <4>1, <4>3 DEF p
      <4> QED
        BY <2>6, <4>4
    <3> QED
      BY <3>1, <3>2
  <2> QED
    BY <2>1, <2>7, <2>8
<1>5. Len(txs) \in C
  <2> HIDE DEF C
  <2>1. \A i \in 0 .. Len(txs) : i \in C
    BY <1>2, <1>3, <1>4, Induction, Zenon
  <2> QED
    BY <1>2, <2>1
<1> QED
  BY <1>1, <1>2, <1>5 DEF Notes

\* What note_deferrals does to the clocks does not depend on the mempool.
LEMMA ClocksIgnoreTheMempool ==
  ASSUME NEW a \in Deferral, NEW b \in Deferral, a.tries = b.tries, NEW txs \in Seq(Txs), NEW deferred
  PROVE  NoteDeferrals(a, txs, deferred).tries = NoteDeferrals(b, txs, deferred).tries
<1>1. PICK f \in [0 .. Len(txs) -> Deferral] : Notes(a, txs, deferred, f)
  BY NoteDeferralsLoop, Zenon
<1>2. PICK g \in [0 .. Len(txs) -> Deferral] : Notes(b, txs, deferred, g)
  BY NoteDeferralsLoop, Zenon
<1> DEFINE C == {i \in 0 .. Len(txs) : f[i].tries = g[i].tries}
<1>3. 0 \in Nat /\ Len(txs) \in Nat /\ 0 <= Len(txs)
  OBVIOUS
<1>4. 0 \in C
  BY <1>1, <1>2, <1>3 DEF Notes
<1>5. ASSUME NEW i \in 0 + 1 .. Len(txs), i - 1 \in C PROVE i \in C
  <2>1. f[i] = NoteDeferral(f[i - 1], txs[i], txs[i] \in deferred)
    BY <1>1 DEF Notes
  <2>2. g[i] = NoteDeferral(g[i - 1], txs[i], txs[i] \in deferred)
    BY <1>2 DEF Notes
  <2>3. f[i - 1].tries = g[i - 1].tries /\ i \in 0 .. Len(txs)
    BY <1>5
  <2>4. f[i].tries = IF txs[i] \in deferred THEN Ages(f[i - 1].tries, txs[i])
                     ELSE [f[i - 1].tries EXCEPT ![txs[i]] = 0]
    BY <2>1 DEF NoteDeferral
  <2>5. g[i].tries = IF txs[i] \in deferred THEN Ages(g[i - 1].tries, txs[i])
                     ELSE [g[i - 1].tries EXCEPT ![txs[i]] = 0]
    BY <2>2 DEF NoteDeferral
  <2>6. f[i].tries = g[i].tries
    BY <2>3, <2>4, <2>5, Zenon
  <2> QED
    BY <2>3, <2>6
<1>6. Len(txs) \in C
  <2> HIDE DEF C
  <2>1. \A i \in 0 .. Len(txs) : i \in C
    BY <1>3, <1>4, <1>5, Induction, Zenon
  <2> QED
    BY <1>3, <2>1
<1> QED
  BY <1>1, <1>2, <1>6 DEF Notes

-----------------------------------------------------------------------------
(* One block.                                                               *)

\* What is applied when a run comes to its next block, and the run's clocks and mempool.
Before(s) == IF s.log = <<>> THEN {} ELSE s.log[Len(s.log)].applied
Clocks(s) == [tries |-> s.tries, mempool |-> s.mempool]

\* Executing a block adds one entry to the log; what it defers and does not drop is in the
\* mempool, which loses nothing.
LEMMA ExecuteBlockEffect ==
  ASSUME NEW c \in Seq(Block), NEW s \in Running, NEW h \in 0 .. Len(c) - 1, NEW at \in Nat,
         NEW opens \in SUBSET Txs
  PROVE  LET r == ExecuteBlock(c, s, h, at, opens)
         IN /\ r \in Running
            /\ \E e \in Entry : /\ r.log = Append(s.log, e)
                                /\ e.deferred \ e.dropped \subseteq r.mempool
            /\ s.mempool \subseteq r.mempool
<1> DEFINE opened == Filtered(BlockAt(c, h).txs, opens)
           ran == ApplyBlock(Before(s), opened)
           after == NoteDeferrals(Clocks(s), opened, ran.deferred)
           e == [at |-> at, opened |-> opens, paid |-> Paid(c, h, at),
                 applied |-> ran.applied, deferred |-> ran.deferred,
                 dropped |-> {x \in ran.deferred : after.tries[x] = 0}]
<1>1. ExecuteBlock(c, s, h, at, opens)
        = [log |-> Append(s.log, e), tries |-> after.tries, mempool |-> after.mempool]
  BY DEF ExecuteBlock, Before, Clocks
<1>2. BlockAt(c, h).txs \in Seq(Txs)
  <2>1. c[h + 1] \in Block
    OBVIOUS
  <2> QED
    BY <2>1 DEF BlockAt, Block
<1>3. opened \in Seq(Txs)
  BY <1>2, FilteredType
<1>4. Before(s) \in SUBSET Txs
  <2>1. s.log \in Seq(Entry)
    BY DEF Running
  <2>2. s.log # <<>> => s.log[Len(s.log)] \in Entry
    BY <2>1
  <2> QED
    BY <2>2 DEF Before, Entry
<1>5. Clocks(s) \in Deferral /\ Clocks(s).mempool = s.mempool
  BY DEF Clocks, Running, Deferral
<1> HIDE DEF opened
<1>6. ran \in Ledger /\ \A x \in ran.deferred : \E i \in 1 .. Len(opened) : x = opened[i]
  BY <1>3, <1>4, DeferredAreOpened, Zenon
<1> HIDE DEF ran
<1>7. /\ after \in Deferral
      /\ s.mempool \subseteq after.mempool
      /\ \A i \in 1 .. Len(opened) : after.tries[opened[i]] > 0 => opened[i] \in after.mempool
  BY <1>3, <1>5, DeferralsAreReadmitted
<1> HIDE DEF after
<1>8. Paid(c, h, at) \in SUBSET Members
  BY DEF Paid, Revealers
<1>9. e \in Entry
  BY <1>6, <1>8 DEF Entry, Ledger
<1>10. ASSUME NEW x \in ran.deferred, after.tries[x] # 0 PROVE x \in after.mempool
  <2>1. x \in Txs
    BY <1>6 DEF Ledger
  <2>2. after.tries[x] \in Nat
    BY <1>7, <2>1, RevealConstants DEF Deferral
  <2>3. after.tries[x] > 0
    BY <1>10, <2>2
  <2> QED
    BY <1>6, <1>7, <2>3
<1>11. e.deferred \ e.dropped \subseteq after.mempool
  BY <1>10
<1> HIDE DEF e
<1>12. /\ s.log \in Seq(Entry)
       /\ after.tries \in [Txs -> 0 .. Window] /\ after.mempool \in SUBSET Txs
  BY <1>7 DEF Running, Deferral
<1>13. Append(s.log, e) \in Seq(Entry)
  BY <1>9, <1>12
<1>14. [log |-> Append(s.log, e), tries |-> after.tries, mempool |-> after.mempool] \in Running
  BY <1>12, <1>13 DEF Running
<1> QED
  BY <1>1, <1>7, <1>9, <1>11, <1>14

\* What executing a block writes to the log and does to the clocks does not depend on the
\* mempool, nor on the chain beyond the block's own transactions and whom it pays.
LEMMA ExecutionIgnoresTheMempool ==
  ASSUME NEW c \in Seq(Block), NEW d, NEW s \in Running, NEW t \in Running,
         s.log = t.log, s.tries = t.tries,
         NEW h \in 0 .. Len(c) - 1, NEW at, NEW opens,
         BlockAt(d, h) = BlockAt(c, h), Paid(d, h, at) = Paid(c, h, at)
  PROVE  /\ ExecuteBlock(c, s, h, at, opens).log = ExecuteBlock(d, t, h, at, opens).log
         /\ ExecuteBlock(c, s, h, at, opens).tries = ExecuteBlock(d, t, h, at, opens).tries
<1> DEFINE opened == Filtered(BlockAt(c, h).txs, opens)
           ran == ApplyBlock(Before(s), opened)
           Entered(after) == [at |-> at, opened |-> opens, paid |-> Paid(c, h, at),
                 applied |-> ran.applied, deferred |-> ran.deferred,
                 dropped |-> {x \in ran.deferred : after[x] = 0}]
           Done1(l, a) == [log |-> Append(l, Entered(a.tries)), tries |-> a.tries, mempool |-> a.mempool]
           as == NoteDeferrals(Clocks(s), opened, ran.deferred)
           bs == NoteDeferrals(Clocks(t), opened, ran.deferred)
<1>1. ExecuteBlock(c, s, h, at, opens) = Done1(s.log, as)
  BY DEF ExecuteBlock, Before, Clocks
<1>2. ExecuteBlock(d, t, h, at, opens) = Done1(t.log, bs)
  BY DEF ExecuteBlock, Before, Clocks
<1>3. BlockAt(c, h).txs \in Seq(Txs)
  <2>1. c[h + 1] \in Block
    OBVIOUS
  <2> QED
    BY <2>1 DEF BlockAt, Block
<1>4. opened \in Seq(Txs)
  BY <1>3, FilteredType
<1>5. /\ Clocks(s) \in Deferral /\ Clocks(t) \in Deferral
      /\ Clocks(s).tries = Clocks(t).tries
  BY DEF Clocks, Running, Deferral
<1>6. as.tries = bs.tries
  <2> HIDE DEF opened, ran
  <2> QED
    BY <1>4, <1>5, ClocksIgnoreTheMempool
<1> HIDE DEF as, bs, Entered
<1>7. Done1(s.log, as).log = Done1(t.log, bs).log /\ Done1(s.log, as).tries = Done1(t.log, bs).tries
  BY <1>6
<1> HIDE DEF Done1
<1> QED
  BY <1>1, <1>2, <1>7, Zenon

\* Block h has one execution, which c decides by height n and d confirms by any later one.
SameExecution(c, n, d, later, h) ==
  LET at == ExecutionHeight(c, n, h)
  IN /\ ExecutionHeight(d, later, h) = at
     /\ Opened(d, h, at) = Opened(c, h, at)
     /\ Paid(d, h, at) = Paid(c, h, at)

COROLLARY DecidedOnce ==
  ASSUME NEW c, NEW d, NEW n \in Nat, NEW later \in Nat, n <= later,
         SameBelow(c, d, n), NEW h \in Nat, ExecutionHeight(c, n, h) # None
  PROVE  SameExecution(c, n, d, later, h)
BY ExecutionIsDecidedOnce DEF SameExecution

\* Two executions that leave the same log and the same clocks.
SameEffect(r, q) == r.log = q.log /\ r.tries = q.tries

COROLLARY SameBlockSameEffect ==
  ASSUME NEW c \in Seq(Block), NEW d, NEW s \in Running, NEW h \in 0 .. Len(c) - 1, NEW at, NEW opens,
         BlockAt(d, h) = BlockAt(c, h), Paid(d, h, at) = Paid(c, h, at)
  PROVE  SameEffect(ExecuteBlock(c, s, h, at, opens), ExecuteBlock(d, s, h, at, opens))
BY ExecutionIgnoresTheMempool DEF SameEffect

-----------------------------------------------------------------------------
(* The loop of try_execute.                                                 *)

First(l, k) == [i \in 1 .. k |-> l[i]]

\* Entry k of the log l, and the clocks t[k] it leaves, are what the chain c makes of
\* block k - 1, from the entries and the clocks before.
Outcome(c, l, t, k) ==
  LET at == ExecutionHeight(c, Len(c), k - 1)
      r == ExecuteBlock(c, [log |-> First(l, k - 1), tries |-> t[k - 1], mempool |-> {}],
                        k - 1, at, Opened(c, k - 1, at))
  IN at # None /\ r.log = First(l, k) /\ r.tries = t[k]

\* The log l and the clocks tr are what the chain c makes of its blocks, through clocks t.
Accounted(c, l, tr, t) ==
  /\ t \in [Nat -> [Txs -> 0 .. Window]]
  /\ t[0] = [x \in Txs |-> 0] /\ t[Len(l)] = tr
  /\ \A k \in 1 .. Len(l) : Outcome(c, l, t, k)

\* A run s that has come to block h, from the log l and the mempool mine.
Good(c, n, l, mine, h, s) ==
  /\ s \in Running
  /\ Len(l) <= Len(s.log) /\ Len(s.log) <= h
  /\ Len(s.log) < h => ExecutionHeight(c, n, Len(s.log)) = None
  /\ \A k \in 1 .. Len(l) : s.log[k] = l[k]
  /\ mine \subseteq s.mempool
  /\ \A k \in Len(l) + 1 .. Len(s.log) : s.log[k].deferred \ s.log[k].dropped \subseteq s.mempool
  /\ \E t : Accounted(c, s.log, s.tries, t)

\* A block that executes extends what the chain accounts for.
LEMMA ExecutionIsAccounted ==
  ASSUME NEW c \in Seq(Block), NEW n \in 0 .. Len(c), NEW h \in 0 .. n - 1,
         NEW s \in Running, Len(s.log) = h, ExecutionHeight(c, n, h) # None,
         NEW t, Accounted(c, s.log, s.tries, t),
         NEW at, at = ExecutionHeight(c, n, h),
         NEW r \in Running, r = ExecuteBlock(c, s, h, at, Opened(c, h, at)),
         NEW e, r.log = Append(s.log, e)
  PROVE  \E u : Accounted(c, r.log, r.tries, u)
<1> DEFINE u == [t EXCEPT ![h + 1] = r.tries]
<1>1. /\ n \in Nat /\ Len(c) \in Nat /\ n <= Len(c) /\ h \in Nat /\ h + 1 \in Nat
      /\ h \in 0 .. Len(c) - 1 /\ (h + 1) - 1 = h
  OBVIOUS
<1>2. ExecutionHeight(c, Len(c), h) = at
  <2>1. SameBelow(c, c, n)
    BY DEF SameBelow
  <2> QED
    BY <1>1, <2>1, ExecutionIsDecidedOnce
<1>3. s.log \in Seq(Entry) /\ s.tries \in [Txs -> 0 .. Window] /\ r.tries \in [Txs -> 0 .. Window]
  BY DEF Running
<1>4. /\ Len(r.log) = h + 1
      /\ \A k \in 1 .. h : r.log[k] = s.log[k]
      /\ First(r.log, h) = s.log
      /\ First(r.log, h + 1) = r.log
  <2>1. Len(r.log) = h + 1 /\ \A k \in 1 .. h : r.log[k] = s.log[k]
    BY <1>3
  <2>2. First(r.log, h) = s.log
    <3>1. s.log = [i \in 1 .. h |-> s.log[i]]
      BY <1>3
    <3>2. First(r.log, h) = [i \in 1 .. h |-> s.log[i]]
      BY <2>1 DEF First
    <3> QED
      BY <3>1, <3>2
  <2>3. First(r.log, h + 1) = r.log
    <3>1. r.log \in Seq(Entry)
      BY DEF Running
    <3> QED
      BY <2>1, <3>1 DEF First
  <2> QED
    BY <2>1, <2>2, <2>3
<1>5. /\ u \in [Nat -> [Txs -> 0 .. Window]]
      /\ u[h + 1] = r.tries /\ \A k \in 0 .. h : u[k] = t[k]
  BY <1>1, <1>3 DEF Accounted
<1> HIDE DEF u
<1>6. u[0] = [x \in Txs |-> 0]
  BY <1>1, <1>5 DEF Accounted
<1>7. ASSUME NEW k \in 1 .. h PROVE Outcome(c, r.log, u, k)
  <2>1. Outcome(c, s.log, t, k)
    BY <1>7 DEF Accounted
  <2>2. First(r.log, k) = First(s.log, k) /\ First(r.log, k - 1) = First(s.log, k - 1)
    BY <1>4 DEF First
  <2>3. u[k] = t[k] /\ u[k - 1] = t[k - 1]
    <3>1. k \in 0 .. h /\ k - 1 \in 0 .. h
      BY <1>1
    <3> QED
      BY <1>5, <3>1, Zenon
  <2> QED
    BY <2>1, <2>2, <2>3, Zenon DEF Outcome
<1>8. Outcome(c, r.log, u, h + 1)
  <2> DEFINE q == [log |-> s.log, tries |-> s.tries, mempool |-> {}]
  <2>1. q \in Running /\ q.log = s.log /\ q.tries = s.tries
    BY <1>3 DEF Running
  <2> HIDE DEF q
  <2>2. /\ ExecuteBlock(c, q, h, at, Opened(c, h, at)).log = r.log
        /\ ExecuteBlock(c, q, h, at, Opened(c, h, at)).tries = r.tries
    BY <1>1, <2>1, ExecutionIgnoresTheMempool
  <2>3. u[h] = s.tries
    BY <1>1, <1>5 DEF Accounted
  <2>4. q = [log |-> First(r.log, h), tries |-> u[h], mempool |-> {}]
    BY <1>4, <2>3 DEF q
  <2> QED
    BY <1>1, <1>2, <1>4, <1>5, <2>2, <2>4, ZenonT(20) DEF Outcome
<1>9. \A k \in 1 .. Len(r.log) : Outcome(c, r.log, u, k)
  <2>1. \A k \in 1 .. Len(r.log) : k \in 1 .. h \/ k = h + 1
    BY <1>1, <1>4
  <2> QED
    BY <1>7, <1>8, <2>1, Zenon
<1> QED
  BY <1>4, <1>5, <1>6, <1>9, Zenon DEF Accounted

\* So each turn of the loop keeps a run good.
LEMMA TurnIsGood ==
  ASSUME NEW c \in Seq(Block), NEW n \in 0 .. Len(c), NEW h \in 0 .. n - 1,
         NEW l \in Seq(Entry), NEW mine, NEW s, Good(c, n, l, mine, h, s)
  PROVE  Good(c, n, l, mine, h + 1, Turn(c, s, n, h))
<1> DEFINE at == ExecutionHeight(c, n, h)
           r == ExecuteBlock(c, s, h, at, Opened(c, h, at))
<1>1. /\ n \in Nat /\ Len(c) \in Nat /\ h \in Nat /\ h \in 0 .. Len(c) - 1
      /\ Len(l) \in Nat /\ s \in Running /\ s.log \in Seq(Entry) /\ Len(s.log) \in Nat
  BY DEF Good, Running
<1>2. CASE Len(s.log) = h /\ at # None
  <2>1. Turn(c, s, n, h) = r
    BY <1>2, Zenon DEF Turn
  <2>2. at \in Nat
    BY <1>1, <1>2, WindowCloses
  <2>3. Opened(c, h, at) \in SUBSET Txs
    <3>1. c[h + 1] \in Block
      BY <1>1
    <3> QED
      BY <3>1 DEF Opened, TxsAt, BlockAt, Block
  <2> HIDE DEF at, r
  <2>4. /\ r \in Running
        /\ \E e \in Entry : r.log = Append(s.log, e) /\ e.deferred \ e.dropped \subseteq r.mempool
        /\ s.mempool \subseteq r.mempool
    BY <1>1, <2>2, <2>3, ExecuteBlockEffect DEF r
  <2>5. PICK e \in Entry : r.log = Append(s.log, e) /\ e.deferred \ e.dropped \subseteq r.mempool
    BY <2>4
  <2>6. Len(r.log) = h + 1 /\ r.log[h + 1] = e /\ \A k \in 1 .. h : r.log[k] = s.log[k]
    <3>1. s.log \in Seq(Entry) /\ Len(s.log) = h /\ r.log = Append(s.log, e)
      BY <1>1, <1>2, <2>5
    <3> QED
      BY <3>1
  <2>7. \E u : Accounted(c, r.log, r.tries, u)
    <3>1. PICK t : Accounted(c, s.log, s.tries, t)
      BY DEF Good
    <3> QED
      BY <1>1, <1>2, <2>4, <2>5, <3>1, ExecutionIsAccounted, Zenon DEF r, at
  <2>8. \A k \in 1 .. Len(l) : r.log[k] = l[k]
    <3>1. \A k \in 1 .. Len(l) : k \in 1 .. h /\ s.log[k] = l[k]
      BY <1>1, <1>2 DEF Good
    <3> QED
      BY <2>6, <3>1
  <2>9. mine \subseteq r.mempool
    BY <2>4 DEF Good
  <2>10. ASSUME NEW k \in Len(l) + 1 .. Len(r.log)
         PROVE  r.log[k].deferred \ r.log[k].dropped \subseteq r.mempool
    <3>1. CASE k = h + 1
      BY <2>5, <2>6, <3>1
    <3>2. CASE k # h + 1
      <4>1. k \in Len(l) + 1 .. Len(s.log) /\ k \in 1 .. h
        BY <1>1, <1>2, <2>6, <3>2
      <4>2. s.log[k].deferred \ s.log[k].dropped \subseteq s.mempool
        BY <4>1 DEF Good
      <4> QED
        BY <2>4, <2>6, <4>1, <4>2
    <3> QED
      BY <3>1, <3>2
  <2>11. Len(l) <= Len(r.log) /\ Len(r.log) <= h + 1 /\ ~(Len(r.log) < h + 1)
    BY <1>1, <1>2, <2>6 DEF Good
  <2> QED
    BY <2>1, <2>4, <2>7, <2>8, <2>9, <2>10, <2>11 DEF Good
<1>3. CASE ~(Len(s.log) = h /\ at # None)
  <2>1. Turn(c, s, n, h) = s
    BY <1>3, Zenon DEF Turn
  <2>2. Len(s.log) < h + 1 => ExecutionHeight(c, n, Len(s.log)) = None
    BY <1>1, <1>3 DEF Good
  <2>3. Len(s.log) <= h + 1
    BY <1>1 DEF Good
  <2> QED
    BY <2>1, <2>2, <2>3 DEF Good
<1> QED
  BY <1>2, <1>3

\* A turn leads from a run to a run.
LEMMA TurnType ==
  ASSUME NEW c \in Seq(Block), NEW n \in 0 .. Len(c), NEW h \in 0 .. n - 1, NEW s \in Running
  PROVE  Turn(c, s, n, h) \in Running
<1> DEFINE at == ExecutionHeight(c, n, h)
<1>1. n \in Nat /\ h \in Nat /\ h \in 0 .. Len(c) - 1 /\ c[h + 1] \in Block
  OBVIOUS
<1>2. CASE at # None
  <2>1. at \in Nat
    BY <1>1, <1>2, WindowCloses
  <2>2. Opened(c, h, at) \in SUBSET Txs
    BY <1>1 DEF Opened, TxsAt, BlockAt, Block
  <2> HIDE DEF at
  <2>3. ExecuteBlock(c, s, h, at, Opened(c, h, at)) \in Running
    BY <1>1, <2>1, <2>2, ExecuteBlockEffect
  <2> QED
    BY <2>3, Zenon DEF Turn, at
<1>3. CASE at = None
  BY <1>3, Zenon DEF Turn
<1> QED
  BY <1>2, <1>3

\* f[i] is what try_execute has when it comes to block i.
Executes(v, first, n, mine, s, f) ==
  /\ f[first] = s
  /\ \A i \in first + 1 .. n : f[i] = Turn(chain, f[i - 1], n, i - 1)
  /\ TryExecute(v, n, mine) = f[n]

\* try_execute is such a loop.
LEMMA TryExecuteLoop ==
  ASSUME NEW v, NEW first \in Nat, first = Done(v), chain \in Seq(Block),
         NEW n \in 0 .. Len(chain), first <= n, NEW mine,
         NEW s \in Running, s = [log |-> log[v], tries |-> tries[v], mempool |-> mine]
  PROVE  \E f \in [first .. n -> Running] : Executes(v, first, n, mine, s, f)
<1> DEFINE Y == Running
           Base == s
           Step(y, i) == Turn(chain, y, n, i - 1)
           F == [i \in first + 1 .. n |-> [y \in Y |-> Step(y, i)]]
           Eq(f) == f = [i \in first .. n |-> IF i = first THEN Base ELSE Step(f[i - 1], i)]
           g == CHOOSE f : Eq(f)
<1>1. first \in Nat /\ n \in Nat /\ first <= n /\ Base \in Y
  OBVIOUS
<1>2. ASSUME NEW i \in first + 1 .. n, NEW y \in Y PROVE Step(y, i) \in Y
  <2>1. i - 1 \in 0 .. n - 1
    OBVIOUS
  <2> QED
    BY <2>1, TurnType
<1> HIDE DEF Y, Base, Step
<1>3. F \in [first + 1 .. n -> [Y -> Y]]
  BY <1>2
<1>4. \A i \in first + 1 .. n, y \in Y : F[i][y] = Step(y, i)
  OBVIOUS
<1> HIDE DEF F
<1>5. PICK f \in [first .. n -> Y] : IsLoop(first, n, Base, F, f)
  BY <1>1, <1>3, Recursion, Zenon
<1>6. Eq(f)
  <2>1. ASSUME NEW i \in first .. n PROVE f[i] = IF i = first THEN Base ELSE Step(f[i - 1], i)
    <3>1. CASE i = first
      BY <1>5, <3>1 DEF IsLoop
    <3>2. CASE i # first
      <4>1. i \in first + 1 .. n /\ i - 1 \in first .. n
        BY <1>1, <3>2
      <4>2. f[i - 1] \in Y /\ f[i] = F[i][f[i - 1]]
        BY <1>5, <4>1 DEF IsLoop
      <4> QED
        BY <1>4, <3>2, <4>1, <4>2
    <3> QED
      BY <3>1, <3>2
  <2> QED
    BY Zenon, <2>1
<1>7. Eq(g)
  BY <1>6, Zenon
<1>8. TryExecute(v, n, mine) = g[n]
  BY DEF TryExecute, Step, Base
<1> HIDE DEF g
<1>9. DOMAIN g = first .. n /\ g[first] = Base /\ \A i \in first + 1 .. n : g[i] = Step(g[i - 1], i)
  BY <1>1, <1>7
<1>10. \A i \in first .. n : g[i] \in Y
  <2> DEFINE C == {i \in first .. n : g[i] \in Y}
  <2>1. first \in C
    BY <1>1, <1>9
  <2>2. ASSUME NEW i \in first + 1 .. n, i - 1 \in C PROVE i \in C
    BY <1>1, <1>2, <1>9, <2>2
  <2> HIDE DEF C
  <2>3. \A i \in first .. n : i \in C
    BY <1>1, <2>1, <2>2, Induction, Zenon
  <2> QED
    BY <2>3 DEF C
<1>11. g \in [first .. n -> Y]
  BY <1>7, <1>10
<1> QED
  BY <1>8, <1>9, <1>11, Zenon DEF Y, Base, Step, Executes

\* try_execute, from a log and clocks that the chain accounts for, is a good run that has
\* come to the next height.
LEMMA TryExecuteIsGood ==
  ASSUME NEW v, chain \in Seq(Block), log[v] \in Seq(Entry), tries[v] \in [Txs -> 0 .. Window],
         NEW n \in 0 .. Len(chain), Done(v) <= n, NEW mine \in SUBSET Txs,
         \E t : Accounted(chain, log[v], tries[v], t)
  PROVE  Good(chain, n, log[v], mine, n, TryExecute(v, n, mine))
<1> DEFINE first == Done(v)
           s == [log |-> log[v], tries |-> tries[v], mempool |-> mine]
<1>1. first \in Nat /\ n \in Nat /\ first <= n /\ first = Len(log[v])
  BY DEF Done
<1>2. s \in Running
  BY DEF Running
<1>3. PICK f \in [first .. n -> Running] : Executes(v, first, n, mine, s, f)
  <2> HIDE DEF first, s
  <2> QED
    BY <1>1, <1>2, TryExecuteLoop DEF first, s
<1> DEFINE C == {i \in first .. n : Good(chain, n, log[v], mine, i, f[i])}
<1>4. first \in C
  <2>1. Good(chain, n, log[v], mine, first, s)
    BY <1>1, <1>2 DEF Good
  <2> QED
    BY <1>1, <1>3, <2>1 DEF Executes
<1>5. ASSUME NEW i \in first + 1 .. n, i - 1 \in C PROVE i \in C
  <2>1. i - 1 \in 0 .. n - 1 /\ (i - 1) + 1 = i /\ i \in first .. n
    BY <1>1
  <2>2. Good(chain, n, log[v], mine, i - 1, f[i - 1])
    BY <1>5
  <2>3. Good(chain, n, log[v], mine, (i - 1) + 1, Turn(chain, f[i - 1], n, i - 1))
    BY <2>1, <2>2, TurnIsGood
  <2>4. f[i] = Turn(chain, f[i - 1], n, i - 1)
    BY <1>3 DEF Executes
  <2> QED
    BY <2>1, <2>3, <2>4
<1>6. n \in C
  <2> HIDE DEF C, first
  <2>1. \A i \in first .. n : i \in C
    BY <1>1, <1>4, <1>5, Induction, Zenon
  <2> QED
    BY <1>1, <2>1
<1> QED
  BY <1>3, <1>6, Zenon DEF Executes

-----------------------------------------------------------------------------
(* The inductive invariant.                                                 *)

\* Every log is what the chain makes of its blocks; no validator lags, no reveal is
\* stranded and no deferral is lost.
EInv ==
  /\ ETypeOK
  /\ \A v \in Honest : \E t : Accounted(chain, log[v], tries[v], t)
  /\ ExecutionKeepsUp /\ NoRevealStranded /\ DeferredNotLost

\* What ETypeOK says of one validator.
LEMMA ValidatorType ==
  ASSUME ETypeOK, NEW v \in Honest
  PROVE  /\ chain \in Seq(Block) /\ Len(chain) \in Nat
         /\ next[v] \in Nat /\ next[v] <= Len(chain)
         /\ log[v] \in Seq(Entry) /\ Done(v) \in Nat /\ Done(v) <= next[v] /\ Done(v) = Len(log[v])
         /\ pool[v] \in Openings /\ early[v] \in SUBSET Reveal /\ mempool[v] \in SUBSET Txs
         /\ tries[v] \in [Txs -> 0 .. Window]
BY DEF ETypeOK, Done

\* The transactions of a block are transactions.
LEMMA TxsAtType ==
  ASSUME NEW c \in Seq(Block), NEW h \in 0 .. Len(c) - 1
  PROVE  TxsAt(c, h) \in SUBSET Txs
<1>1. c[h + 1] \in Block
  OBVIOUS
<1> QED
  BY <1>1 DEF TxsAt, BlockAt, Block

\* A longer chain has the blocks it had.
LEMMA ChainKeepsBlocks ==
  ASSUME NEW c \in Seq(Block), NEW b \in Block
  PROVE  /\ Append(c, b) \in Seq(Block) /\ Len(Append(c, b)) = Len(c) + 1
         /\ SameBelow(c, Append(c, b), Len(c))
         /\ \A h \in 0 .. Len(c) - 1 : /\ BlockAt(Append(c, b), h) = BlockAt(c, h)
                                       /\ TxsAt(Append(c, b), h) = TxsAt(c, h)
<1>1. \A h \in 0 .. Len(c) - 1 : BlockAt(Append(c, b), h) = BlockAt(c, h)
  <2>1. ASSUME NEW h \in 0 .. Len(c) - 1 PROVE BlockAt(Append(c, b), h) = BlockAt(c, h)
    <3>1. h + 1 \in 1 .. Len(c)
      OBVIOUS
    <3>2. Append(c, b)[h + 1] = c[h + 1]
      BY <3>1
    <3> QED
      BY <3>2 DEF BlockAt
  <2> QED
    BY <2>1
<1>2. \A h \in 0 .. Len(c) - 1 : TxsAt(Append(c, b), h) = TxsAt(c, h)
  BY <1>1 DEF TxsAt
<1>3. SameBelow(c, Append(c, b), Len(c))
  BY <1>1, Zenon DEF SameBelow
<1>4. Append(c, b) \in Seq(Block) /\ Len(Append(c, b)) = Len(c) + 1
  OBVIOUS
<1> QED
  BY <1>1, <1>2, <1>3, <1>4

\* What a chain accounts for, a longer one accounts for in the same way.
LEMMA AccountsStand ==
  ASSUME NEW c \in Seq(Block), NEW b \in Block, NEW d, d = Append(c, b),
         NEW l \in Seq(Entry), NEW tr, NEW t, Accounted(c, l, tr, t)
  PROVE  Accounted(d, l, tr, t)
<1>1. /\ d \in Seq(Block) /\ Len(d) = Len(c) + 1 /\ Len(c) \in Nat
      /\ SameBelow(c, d, Len(c)) /\ \A h \in 0 .. Len(c) - 1 : BlockAt(d, h) = BlockAt(c, h)
  BY ChainKeepsBlocks
<1>2. ASSUME NEW k \in 1 .. Len(l) PROVE Outcome(d, l, t, k)
  <2> DEFINE at == ExecutionHeight(c, Len(c), k - 1)
             opens == Opened(c, k - 1, at)
             q == [log |-> First(l, k - 1), tries |-> t[k - 1], mempool |-> {}]
  <2>1. k \in Nat /\ k - 1 \in Nat /\ Len(l) \in Nat
    OBVIOUS
  <2>2. /\ at # None
        /\ ExecuteBlock(c, q, k - 1, at, opens).log = First(l, k)
        /\ ExecuteBlock(c, q, k - 1, at, opens).tries = t[k]
    BY Zenon DEF Accounted, Outcome
  <2>3. k - 1 \in 0 .. Len(c) - 1 /\ at \in Nat
    <3>1. at \in (k - 1) + 1 .. (k - 1) + Window /\ at < Len(c)
      BY Zenon, <1>1, <2>1, <2>2, WindowCloses
    <3> QED
      BY <1>1, <2>1, <3>1, RevealConstants
  <2>4. /\ ExecutionHeight(d, Len(d), k - 1) = at
        /\ Opened(d, k - 1, at) = opens
        /\ Paid(d, k - 1, at) = Paid(c, k - 1, at)
    <3>1. Len(d) \in Nat /\ Len(c) \in Nat /\ Len(c) <= Len(d) /\ k - 1 \in Nat
      BY <1>1, <2>1
    <3>2. SameBelow(c, d, Len(c)) /\ ExecutionHeight(c, Len(c), k - 1) # None
      BY <1>1, <2>2, Zenon
    <3>3. SameExecution(c, Len(c), d, Len(d), k - 1)
      BY <3>1, <3>2, DecidedOnce, Zenon
    <3> QED
      BY <3>3, Zenon DEF SameExecution
  <2>5. q \in Running
    <3>1. First(l, k - 1) \in Seq(Entry)
      BY <2>1 DEF First
    <3>2. t[k - 1] \in [Txs -> 0 .. Window]
      BY SMTT(60), <2>1 DEF Accounted
    <3> QED
      BY <3>1, <3>2 DEF Running
  <2> HIDE DEF at, opens, q
  <2>6. /\ ExecuteBlock(d, q, k - 1, at, opens).log = First(l, k)
        /\ ExecuteBlock(d, q, k - 1, at, opens).tries = t[k]
    <3>1. BlockAt(d, k - 1) = BlockAt(c, k - 1)
      BY <1>1, <2>3
    <3>2. Paid(d, k - 1, at) = Paid(c, k - 1, at) /\ k - 1 \in 0 .. Len(c) - 1
      BY <2>3, <2>4, Zenon
    <3>3. SameEffect(ExecuteBlock(c, q, k - 1, at, opens), ExecuteBlock(d, q, k - 1, at, opens))
      BY <2>5, <3>1, <3>2, SameBlockSameEffect, Zenon
    <3> QED
      BY <2>2, <3>3, Zenon DEF SameEffect
  <2> QED
    BY <2>2, <2>4, <2>6, Zenon DEF Outcome, q
<1> QED
  BY <1>2, Zenon DEF Accounted

\* An honest proposer's block is a block.
LEMMA FreshBlockType ==
  ASSUME ETypeOK, NEW v \in Honest
  PROVE  FreshBlock(v) \in Block
<1>1. ByCommit \in Seq(Txs)
  <2>1. Cardinality(Txs) \in Nat
    BY ExecutionConstants, FS_CardinalityType
  <2>2. ByCommit \in [1 .. Cardinality(Txs) -> Txs]
    BY ExecutionConstants
  <2> QED
    BY <2>1, <2>2
<1>2. Filtered(ByCommit, mempool[v]) \in Seq(Txs)
  BY <1>1, FilteredType
<1>3. pool[v] \in [Txs -> [Members -> Shares \cup {None}]]
  BY ValidatorType DEF Openings
<1>4. RevealsToCommit(chain, pool[v], Done(v), next[v]) \in [Txs -> [Members -> Shares \cup {None}]]
  BY <1>3 DEF RevealsToCommit
<1> QED
  BY <1>2, <1>4 DEF FreshBlock, Block, Openings

\* A pool with reveals recorded is a pool.
LEMMA RecordType ==
  ASSUME NEW p \in Openings, NEW rs \in SUBSET Reveal
  PROVE  Record(p, rs) \in Openings
<1>1. p \in [Txs -> [Members -> Shares \cup {None}]]
  BY DEF Openings
<1>2. ASSUME NEW x \in Txs, NEW m \in Members, \E r \in rs : r.tx = x /\ r.member = m
      PROVE  (CHOOSE r \in rs : r.tx = x /\ r.member = m).share \in Shares
  <2>1. (CHOOSE r \in rs : r.tx = x /\ r.member = m) \in rs
    BY <1>2
  <2> QED
    BY <2>1 DEF Reveal
<1> QED
  BY <1>1, <1>2 DEF Record, Openings

\* A new block, whoever proposed it, leaves every validator's accounts as they are.
LEMMA NewBlockKeepsEInv ==
  ASSUME EInv, NEW b \in Block, chain' = Append(chain, b),
         UNCHANGED <<next, pool, early, mempool, tries, log, gossip>>
  PROVE  EInv'
<1>1. ETypeOK /\ chain \in Seq(Block) /\ Len(chain) \in Nat
  BY DEF EInv, ETypeOK
<1>2. /\ chain' \in Seq(Block) /\ Len(chain') = Len(chain) + 1
      /\ \A h \in 0 .. Len(chain) - 1 : TxsAt(chain', h) = TxsAt(chain, h)
  BY <1>1, ChainKeepsBlocks
<1>3. ETypeOK'
  <2>1. next \in [Honest -> 0 .. Len(chain')]
    <3>1. next \in [Honest -> 0 .. Len(chain)] /\ 0 .. Len(chain) \subseteq 0 .. Len(chain')
      BY <1>1, <1>2 DEF ETypeOK
    <3> QED
      BY <3>1
  <2> QED
    BY <1>1, <1>2, <2>1 DEF ETypeOK, Done
<1>4. ASSUME NEW v \in Honest
      PROVE  /\ Queued(v, next[v])' = Queued(v, next[v])
             /\ \E t : Accounted(chain', log[v], tries[v], t)
  <2>1. /\ Done(v) \in Nat /\ next[v] \in Nat /\ next[v] <= Len(chain)
        /\ log[v] \in Seq(Entry) /\ Done(v)' = Done(v)
    BY <1>1, ValidatorType DEF Done
  <2>2. \A h \in Done(v) .. next[v] - 1 : TxsAt(chain', h) = TxsAt(chain, h)
    BY <1>1, <1>2, <2>1
  <2>3. Queued(v, next[v])' = Queued(v, next[v])
    BY <2>1, <2>2 DEF Queued
  <2>4. PICK t : Accounted(chain, log[v], tries[v], t)
    BY DEF EInv
  <2>5. Accounted(chain', log[v], tries[v], t)
    BY <1>1, <2>1, <2>4, AccountsStand, Zenon
  <2> QED
    BY <2>3, <2>5
<1>5. ExecutionKeepsUp'
  BY DEF EInv, ExecutionKeepsUp, Done
<1>6. NoRevealStranded'
  BY <1>4 DEF EInv, NoRevealStranded
<1>7. DeferredNotLost'
  <2>1. ASSUME NEW v \in Honest, NEW k \in DOMAIN log[v], NEW x \in log[v][k].deferred \ log[v][k].dropped
        PROVE  x \in mempool[v] \/ \E h \in k .. next[v] - 1 : x \in TxsAt(chain', h)
    <3>1. x \in mempool[v] \/ \E h \in k .. next[v] - 1 : x \in TxsAt(chain, h)
      BY <2>1 DEF EInv, DeferredNotLost
    <3>2. /\ next[v] \in Nat /\ next[v] <= Len(chain) /\ k \in Nat
          /\ \A h \in k .. next[v] - 1 : h \in 0 .. Len(chain) - 1
      <4>1. log[v] \in Seq(Entry) /\ next[v] \in Nat /\ next[v] <= Len(chain)
        BY <1>1, ValidatorType
      <4>2. k \in 1 .. Len(log[v]) /\ Len(log[v]) \in Nat
        BY <4>1
      <4> QED
        BY <1>1, <4>1, <4>2
    <3> QED
      BY <1>2, <3>1, <3>2
  <2> QED
    BY <2>1 DEF DeferredNotLost
<1> QED
  BY <1>3, <1>4, <1>5, <1>6, <1>7 DEF EInv

\* finalize at one validator: what it executes is what the chain makes of the blocks, it
\* lags by no more than the window, and drops neither a reveal nor a deferral.
LEMMA FinalizeKeepsEInv ==
  ASSUME EInv, NEW v \in Honest, Finalize(v)
  PROVE  EInv'
<1> DEFINE n == next[v] + 1
           included == TxsAt(chain, next[v])
           mine == {[tx |-> x, member |-> v, share |-> "genuine"] : x \in Queued(v, n)}
           drained == Drained(v, included)
           rest == mempool[v] \ included
           ran == TryExecute(v, n, rest)
<1>1. ETypeOK
  BY DEF EInv
<1>2. /\ chain \in Seq(Block) /\ Len(chain) \in Nat
      /\ next[v] \in Nat /\ next[v] < Len(chain) /\ n \in Nat /\ n \in 0 .. Len(chain)
      /\ log[v] \in Seq(Entry) /\ Done(v) \in Nat /\ Done(v) <= next[v] /\ Done(v) = Len(log[v])
      /\ pool[v] \in Openings /\ early[v] \in SUBSET Reveal /\ mempool[v] \in SUBSET Txs
      /\ tries[v] \in [Txs -> 0 .. Window]
  <2>1. next[v] < Len(chain)
    BY Zenon DEF Finalize
  <2>2. /\ chain \in Seq(Block) /\ Len(chain) \in Nat /\ next[v] \in Nat
        /\ log[v] \in Seq(Entry) /\ Done(v) \in Nat /\ Done(v) <= next[v] /\ Done(v) = Len(log[v])
        /\ pool[v] \in Openings /\ early[v] \in SUBSET Reveal /\ mempool[v] \in SUBSET Txs
        /\ tries[v] \in [Txs -> 0 .. Window]
    BY <1>1, ValidatorType, Zenon
  <2>3. n \in Nat /\ n \in 0 .. Len(chain)
    BY <2>1, <2>2
  <2> QED
    BY <2>1, <2>2, <2>3, Zenon
<1>3. /\ next' = [next EXCEPT ![v] = n]
      /\ gossip' = gossip \cup mine
      /\ pool' = [pool EXCEPT ![v] = Record(Record(@, mine), drained)]
      /\ early' = [early EXCEPT ![v] = @ \ drained]
      /\ log' = [log EXCEPT ![v] = ran.log]
      /\ tries' = [tries EXCEPT ![v] = ran.tries]
      /\ mempool' = [mempool EXCEPT ![v] = ran.mempool]
      /\ chain' = chain
  BY Zenon DEF Finalize
<1>4. Good(chain, n, log[v], rest, n, ran)
  <2>1. \E t : Accounted(chain, log[v], tries[v], t)
    BY Zenon DEF EInv
  <2>2. Done(v) <= n /\ rest \in SUBSET Txs
    BY <1>2
  <2> HIDE DEF n, rest
  <2> QED
    BY <1>2, <2>1, <2>2, TryExecuteIsGood, Zenon
<1> HIDE DEF ran
<1>5. /\ ran.log \in Seq(Entry) /\ Len(ran.log) \in Nat
      /\ ran.tries \in [Txs -> 0 .. Window] /\ ran.mempool \in SUBSET Txs
  BY <1>4 DEF Good, Running
<1>6. \A h \in Done(v) .. n - 1 : h \in 0 .. Len(chain) - 1
  BY <1>2
<1>7. mine \in SUBSET Reveal /\ drained \in SUBSET Reveal
  <2>1. \A h \in Done(v) .. n - 1 : TxsAt(chain, h) \in SUBSET Txs
    BY <1>2, <1>6, TxsAtType
  <2>2. Queued(v, n) \in SUBSET Txs
    BY <2>1 DEF Queued
  <2>3. v \in Members
    BY DEF Honest
  <2>4. drained \in SUBSET Reveal
    BY <1>2 DEF Drained
  <2>5. mine \in SUBSET Reveal
    BY <2>2, <2>3 DEF Reveal, Shares
  <2> QED
    BY <2>4, <2>5
<1> HIDE DEF n, included, mine, drained, rest
<1>8. /\ next'[v] = n /\ log'[v] = ran.log /\ tries'[v] = ran.tries /\ mempool'[v] = ran.mempool
      /\ early'[v] = early[v] \ drained /\ Done(v)' = Len(ran.log)
  BY <1>1, <1>3 DEF ETypeOK, Done
<1>9. ASSUME NEW w \in Honest, w # v
      PROVE  /\ next'[w] = next[w] /\ log'[w] = log[w] /\ tries'[w] = tries[w]
             /\ mempool'[w] = mempool[w] /\ early'[w] = early[w] /\ Done(w)' = Done(w)
  BY <1>1, <1>3, <1>9 DEF ETypeOK, Done
<1>10. Done(v)' <= n /\ Done(v) <= Done(v)'
  BY <1>2, <1>4, <1>8 DEF Good
<1>11. ETypeOK'
  <2>1. next' \in [Honest -> 0 .. Len(chain)]
    BY <1>1, <1>2, <1>3 DEF ETypeOK
  <2>2. pool' \in [Honest -> Openings]
    <3>1. Record(Record(pool[v], mine), drained) \in Openings
      BY <1>2, <1>7, RecordType
    <3> QED
      BY <1>1, <1>3, <3>1 DEF ETypeOK
  <2>3. early' \in [Honest -> SUBSET Reveal]
    BY <1>1, <1>2, <1>3 DEF ETypeOK
  <2>4. mempool' \in [Honest -> SUBSET Txs] /\ tries' \in [Honest -> [Txs -> 0 .. Window]]
    BY <1>1, <1>3, <1>5 DEF ETypeOK
  <2>5. log' \in [Honest -> Seq(Entry)]
    BY <1>1, <1>3, <1>5 DEF ETypeOK
  <2>6. gossip' \subseteq Reveal
    BY <1>1, <1>3, <1>7 DEF ETypeOK
  <2>7. ASSUME NEW w \in Honest PROVE Done(w)' <= next'[w]
    <3>1. CASE w = v
      BY <1>8, <1>10, <3>1
    <3>2. CASE w # v
      BY <1>1, <1>9, <3>2, ValidatorType
    <3> QED
      BY <3>1, <3>2
  <2> QED
    BY <1>2, <1>3, <2>1, <2>2, <2>3, <2>4, <2>5, <2>6, <2>7 DEF ETypeOK
<1>12. ASSUME NEW w \in Honest PROVE \E t : Accounted(chain', log'[w], tries'[w], t)
  <2>1. CASE w = v
    BY Zenon, <1>3, <1>4, <1>8, <2>1 DEF Good
  <2>2. CASE w # v
    BY <1>3, <1>9, <2>2 DEF EInv
  <2> QED
    BY <2>1, <2>2
<1>13. ExecutionKeepsUp'
  <2>1. n - Done(v)' <= Window
    <3>1. Window \in Nat \ {0}
      BY RevealConstants
    <3>2. CASE Len(ran.log) < n
      <4>1. ExecutionHeight(chain, n, Len(ran.log)) = None
        BY <1>4, <3>2 DEF Good
      <4>2. ~(Len(ran.log) + Window < n)
        BY <1>2, <1>5, <4>1, WindowCloses
      <4> QED
        BY <1>2, <1>5, <1>8, <3>1, <4>2
    <3>3. CASE ~(Len(ran.log) < n)
      BY <1>2, <1>5, <1>8, <3>1, <3>3
    <3> QED
      BY <3>2, <3>3
  <2>2. ASSUME NEW w \in Honest PROVE next'[w] - Done(w)' <= Window
    <3>1. CASE w = v
      BY <1>8, <2>1, <3>1
    <3>2. CASE w # v
      BY <1>9, <3>2 DEF EInv, ExecutionKeepsUp
    <3> QED
      BY <3>1, <3>2
  <2> QED
    BY <2>2 DEF ExecutionKeepsUp
<1>14. NoRevealStranded'
  <2>1. ASSUME NEW r \in early[v] \ drained PROVE r.tx \notin Queued(v, next[v])'
    <3>1. r.tx \notin Queued(v, next[v]) /\ r.tx \notin included
      BY <2>1 DEF EInv, NoRevealStranded, drained, Drained
    <3>2. ASSUME NEW h \in Done(v)' .. n - 1 PROVE r.tx \notin TxsAt(chain, h)
      <4>1. Done(v)' \in Nat
        BY <1>5, <1>8
      <4>2. h = next[v] \/ h \in Done(v) .. next[v] - 1
        BY <1>2, <1>10, <4>1 DEF n
      <4> QED
        BY <3>1, <4>2 DEF Queued, included
    <3> QED
      BY <1>3, <1>8, <3>2 DEF Queued
  <2>2. ASSUME NEW w \in Honest, NEW r \in early'[w] PROVE r.tx \notin Queued(w, next[w])'
    <3>1. CASE w = v
      BY <1>8, <2>1, <2>2, <3>1
    <3>2. CASE w # v
      <4>1. Queued(w, next[w])' = Queued(w, next[w]) /\ r \in early[w]
        BY <1>3, <1>9, <2>2, <3>2 DEF Queued
      <4> QED
        BY <4>1 DEF EInv, NoRevealStranded
    <3> QED
      BY <3>1, <3>2
  <2> QED
    BY <2>2 DEF NoRevealStranded
<1>15. DeferredNotLost'
  <2>1. ASSUME NEW k \in DOMAIN ran.log, NEW x \in ran.log[k].deferred \ ran.log[k].dropped
        PROVE  x \in ran.mempool \/ \E h \in k .. n - 1 : x \in TxsAt(chain, h)
    <3>1. k \in 1 .. Len(ran.log)
      BY <1>5
    <3>2. CASE k \in 1 .. Len(log[v])
      <4>1. ran.log[k] = log[v][k] /\ k \in DOMAIN log[v]
        BY <1>2, <1>4, <3>2 DEF Good
      <4>2. x \in mempool[v] \/ \E h \in k .. next[v] - 1 : x \in TxsAt(chain, h)
        BY <2>1, <4>1 DEF EInv, DeferredNotLost
      <4>3. next[v] \in k .. n - 1 /\ \A h \in k .. next[v] - 1 : h \in k .. n - 1
        BY <1>2, <3>2 DEF n
      <4>4. x \in mempool[v] => x \in included \/ x \in ran.mempool
        BY <1>4 DEF Good, rest
      <4> QED
        BY <4>2, <4>3, <4>4 DEF included
    <3>3. CASE k \in Len(log[v]) + 1 .. Len(ran.log)
      BY <1>4, <2>1, <3>3 DEF Good
    <3> QED
      BY <1>2, <1>5, <3>1, <3>2, <3>3
  <2>2. ASSUME NEW w \in Honest, NEW k \in DOMAIN log'[w],
               NEW x \in log'[w][k].deferred \ log'[w][k].dropped
        PROVE  x \in mempool'[w] \/ \E h \in k .. next'[w] - 1 : x \in TxsAt(chain', h)
    <3>1. CASE w = v
      BY Zenon, <1>3, <1>8, <2>1, <2>2, <3>1
    <3>2. CASE w # v
      BY Zenon, <1>3, <1>9, <2>2, <3>2 DEF EInv, DeferredNotLost
    <3> QED
      BY <3>1, <3>2
  <2> QED
    BY <2>2 DEF DeferredNotLost
<1> QED
  BY Zenon, <1>11, <1>12, <1>13, <1>14, <1>15 DEF EInv

\* Nothing but a new block and finalize touches the chain, a log, a clock or a height; a
\* submission adds to a mempool, and a reveal for a block in the queue goes to the pool.
LEMMA QuietStepKeepsEInv ==
  ASSUME EInv, NEW v \in Honest,
         (\E x \in Txs : Submit(v, x)) \/ (\E r \in Reveal : OnReveal(v, r))
  PROVE  EInv'
<1>1. ETypeOK
  BY DEF EInv
<1>2. UNCHANGED <<chain, next, tries, log, gossip>>
  BY Zenon DEF Submit, OnReveal
<1>3. /\ pool' \in [Honest -> Openings]
      /\ early' \in [Honest -> SUBSET Reveal]
      /\ mempool' \in [Honest -> SUBSET Txs]
      /\ \A w \in Honest : mempool[w] \subseteq mempool'[w]
      /\ \A w \in Honest : \A r \in early'[w] : r \in early[w] \/ r.tx \notin Queued(w, next[w])
  <2>1. /\ pool \in [Honest -> Openings]
        /\ early \in [Honest -> SUBSET Reveal]
        /\ mempool \in [Honest -> SUBSET Txs]
    BY <1>1 DEF ETypeOK
  <2>2. ASSUME NEW x \in Txs, Submit(v, x)
        PROVE  /\ mempool' = [mempool EXCEPT ![v] = mempool[v] \cup {x}]
               /\ UNCHANGED <<pool, early>>
    BY <2>2 DEF Submit
  <2>3. ASSUME NEW r \in Reveal, OnReveal(v, r)
        PROVE  /\ UNCHANGED mempool
               /\ \/ pool' = [pool EXCEPT ![v] = Record(pool[v], {r})] /\ UNCHANGED early
                  \/ /\ r.tx \notin Queued(v, next[v])
                     /\ early' = [early EXCEPT ![v] = early[v] \cup {r}]
                     /\ UNCHANGED pool
    BY Zenon, <2>3 DEF OnReveal
  <2>4. ASSUME NEW r \in Reveal PROVE Record(pool[v], {r}) \in Openings
    BY <2>1, RecordType
  <2>5. CASE \E x \in Txs : Submit(v, x)
    BY <2>1, <2>2, <2>5
  <2>6. CASE \E r \in Reveal : OnReveal(v, r)
    <3>1. PICK r \in Reveal : OnReveal(v, r)
      BY <2>6
    <3>2. mempool' = mempool
      BY <2>3, <3>1, Zenon
    <3>3. CASE pool' = [pool EXCEPT ![v] = Record(pool[v], {r})] /\ UNCHANGED early
      <4>1. pool' \in [Honest -> Openings]
        BY <2>1, <2>4, <3>3
      <4> QED
        BY <2>1, <3>2, <3>3, <4>1
    <3>4. CASE /\ r.tx \notin Queued(v, next[v])
               /\ early' = [early EXCEPT ![v] = early[v] \cup {r}]
               /\ UNCHANGED pool
      <4>1. early' \in [Honest -> SUBSET Reveal]
        BY <2>1, <3>4
      <4>2. \A w \in Honest : \A e \in early'[w] : e \in early[w] \/ e.tx \notin Queued(w, next[w])
        BY <2>1, <3>4
      <4> QED
        BY <2>1, <3>2, <3>4, <4>1, <4>2
    <3> QED
      BY <2>3, <3>1, <3>3, <3>4
  <2> QED
    BY Zenon, <2>5, <2>6
<1>4. \A w \in Honest : Done(w)' = Done(w) /\ Queued(w, next[w])' = Queued(w, next[w])
  BY <1>2 DEF Done, Queued
<1>5. ETypeOK'
  BY <1>1, <1>2, <1>3, <1>4 DEF ETypeOK
<1>6. \A w \in Honest : \E t : Accounted(chain', log'[w], tries'[w], t)
  BY <1>2 DEF EInv
<1>7. ExecutionKeepsUp'
  BY Zenon, <1>2, <1>4 DEF EInv, ExecutionKeepsUp
<1>8. NoRevealStranded'
  BY Zenon, <1>3, <1>4 DEF EInv, NoRevealStranded
<1>9. DeferredNotLost'
  BY Zenon, <1>2, <1>3 DEF EInv, DeferredNotLost
<1> QED
  BY <1>5, <1>6, <1>7, <1>8, <1>9 DEF EInv

\* The invariant holds at the start.
LEMMA EInitGivesEInv ==
  ASSUME EInit
  PROVE  EInv
<1>1. chain = <<>> /\ \A v \in Honest : next[v] = 0 /\ log[v] = <<>> /\ early[v] = {} /\ Done(v) = 0
  BY DEF EInit, Done
<1>2. Window \in Nat /\ Len(chain) = 0
  BY <1>1, RevealConstants
<1>3. ETypeOK
  <2>1. NoOpenings \in Openings
    BY DEF NoOpenings, Openings
  <2>2. ByzReveals \subseteq Reveal
    BY ExecutionConstants DEF Reveal
  <2>3. next \in [Honest -> 0 .. Len(chain)] /\ tries \in [Honest -> [Txs -> 0 .. Window]]
    BY <1>2 DEF EInit
  <2>4. log \in [Honest -> Seq(Entry)] /\ chain \in Seq(Block)
    BY DEF EInit
  <2>5. \A v \in Honest : Done(v) <= next[v]
    BY <1>1
  <2> QED
    BY <2>1, <2>2, <2>3, <2>4, <2>5 DEF EInit, ETypeOK
<1>4. ASSUME NEW v \in Honest PROVE \E t : Accounted(chain, log[v], tries[v], t)
  <2> DEFINE t == [k \in Nat |-> [x \in Txs |-> 0]]
  <2>1. t \in [Nat -> [Txs -> 0 .. Window]] /\ t[0] = [x \in Txs |-> 0]
    BY <1>2
  <2>2. t[Len(log[v])] = tries[v] /\ 1 .. Len(log[v]) = {}
    BY <1>1 DEF EInit
  <2> HIDE DEF t
  <2>3. Accounted(chain, log[v], tries[v], t)
    BY <2>1, <2>2, Zenon DEF Accounted
  <2> QED
    BY <2>3
<1>5. ExecutionKeepsUp
  BY <1>1, <1>2 DEF ExecutionKeepsUp
<1>6. NoRevealStranded /\ DeferredNotLost
  BY <1>1 DEF NoRevealStranded, DeferredNotLost
<1> QED
  BY <1>3, <1>4, <1>5, <1>6 DEF EInv

\* Every step keeps it.
LEMMA ENextKeepsEInv ==
  ASSUME EInv, [ENext]_evars
  PROVE  EInv'
<1>1. ASSUME NEW b \in ByzBlocks, ByzantinePropose(b) PROVE EInv'
  <2>1. b \in Block
    BY ExecutionConstants
  <2> QED
    BY <1>1, <2>1, NewBlockKeepsEInv DEF ByzantinePropose
<1>2. ASSUME NEW v \in Honest, Propose(v) PROVE EInv'
  <2>1. FreshBlock(v) \in Block
    BY FreshBlockType DEF EInv
  <2> QED
    BY <1>2, <2>1, NewBlockKeepsEInv DEF Propose
<1>3. ASSUME UNCHANGED evars PROVE EInv'
  <2>1. UNCHANGED <<chain, next, pool, early, mempool, tries, log, gossip>>
    BY <1>3 DEF evars
  <2>2. ETypeOK'
    BY <2>1 DEF EInv, ETypeOK, Done
  <2>3. \A v \in Honest : \E t : Accounted(chain', log'[v], tries'[v], t)
    BY <2>1 DEF EInv
  <2>4. ExecutionKeepsUp'
    BY <2>1 DEF EInv, ExecutionKeepsUp, Done
  <2>5. NoRevealStranded'
    BY ZenonT(60), <2>1 DEF EInv, NoRevealStranded, Queued, Done
  <2>6. DeferredNotLost'
    BY <2>1 DEF EInv, DeferredNotLost
  <2> QED
    BY <2>2, <2>3, <2>4, <2>5, <2>6 DEF EInv
<1> QED
  BY <1>1, <1>2, <1>3, FinalizeKeepsEInv, QuietStepKeepsEInv, Zenon DEF ENext

\* Two logs that one chain accounts for agree wherever both have an entry.
LEMMA AccountsAgree ==
  ASSUME NEW c, NEW l \in Seq(Entry), NEW m \in Seq(Entry), NEW tl, NEW tm, NEW t, NEW u,
         Accounted(c, l, tl, t), Accounted(c, m, tm, u), NEW n \in Nat, n <= Len(l), n <= Len(m)
  PROVE  \A k \in 1 .. n : l[k] = m[k]
<1> DEFINE C == {k \in 0 .. n : First(l, k) = First(m, k) /\ t[k] = u[k]}
<1>1. 0 \in Nat /\ 0 <= n
  OBVIOUS
<1>2. 0 \in C
  BY DEF First, Accounted
<1>3. ASSUME NEW k \in 0 + 1 .. n, k - 1 \in C PROVE k \in C
  <2>1. k \in 1 .. Len(l) /\ k \in 1 .. Len(m) /\ k \in 0 .. n
    OBVIOUS
  <2>2. First(l, k - 1) = First(m, k - 1) /\ t[k - 1] = u[k - 1]
    BY <1>3
  <2>3. Outcome(c, l, t, k) /\ Outcome(c, m, u, k)
    BY <2>1, Zenon DEF Accounted
  <2>4. First(l, k) = First(m, k) /\ t[k] = u[k]
    BY <2>2, <2>3, Zenon DEF Outcome
  <2> QED
    BY <2>1, <2>4
<1>4. \A k \in 0 .. n : k \in C
  <2> HIDE DEF C
  <2> QED
    BY <1>1, <1>2, <1>3, Induction, Zenon
<1>5. First(l, n) = First(m, n)
  BY <1>4
<1>6. ASSUME NEW k \in 1 .. n PROVE l[k] = m[k]
  <2>1. First(l, n)[k] = l[k] /\ First(m, n)[k] = m[k]
    BY DEF First
  <2> QED
    BY <1>5, <2>1
<1> QED
  BY <1>6

\* So any two validators agree on what they have both executed.
LEMMA EInvGivesAgreement ==
  ASSUME EInv
  PROVE  ExecutedAlike
<1>1. ASSUME NEW v \in Honest, NEW w \in Honest, NEW k \in DOMAIN log[v] \cap DOMAIN log[w]
      PROVE  log[v][k] = log[w][k]
  <2>1. log[v] \in Seq(Entry) /\ log[w] \in Seq(Entry)
    BY ValidatorType DEF EInv
  <2>2. k \in Nat /\ k <= Len(log[v]) /\ k <= Len(log[w]) /\ k \in 1 .. k
    BY <2>1
  <2>3. PICK t : Accounted(chain, log[v], tries[v], t)
    BY DEF EInv
  <2>4. PICK u : Accounted(chain, log[w], tries[w], u)
    BY DEF EInv
  <2> QED
    BY <2>1, <2>2, <2>3, <2>4, AccountsAgree, Zenon
<1> QED
  BY <1>1 DEF ExecutedAlike

\* The state of every validator is well typed, and none has executed a block it has not
\* finalized.
THEOREM ExecutionTypeCorrect == ESpec => []ETypeOK
<1>1. EInv => ETypeOK
  BY DEF EInv
<1> QED
  BY <1>1, EInitGivesEInv, ENextKeepsEInv, PTL DEF ESpec

\* "every validator executes a height identically": whatever reveals reached them and
\* however far each has run, two validators that have executed a block did so at the same
\* height, to the same transactions, the same rewards and the same state.
THEOREM ExecutionAgreement == ESpec => []ExecutedAlike
BY EInitGivesEInv, ENextKeepsEInv, EInvGivesAgreement, PTL DEF ESpec

\* Withholding cannot stop execution: a validator is never more than the window behind its
\* finalized blocks.
THEOREM ExecutionLagBounded == ESpec => []ExecutionKeepsUp
<1>1. EInv => ExecutionKeepsUp
  BY DEF EInv
<1> QED
  BY <1>1, EInitGivesEInv, ENextKeepsEInv, PTL DEF ESpec

\* drain_pending_reveals leaves no reveal behind for a block that awaits execution.
THEOREM EarlyRevealsReleased == ESpec => []NoRevealStranded
<1>1. EInv => NoRevealStranded
  BY DEF EInv
<1> QED
  BY <1>1, EInitGivesEInv, ENextKeepsEInv, PTL DEF ESpec

\* What execution defers and does not give up stays to come.
THEOREM DeferralsKept == ESpec => []DeferredNotLost
<1>1. EInv => DeferredNotLost
  BY DEF EInv
<1> QED
  BY <1>1, EInitGivesEInv, ENextKeepsEInv, PTL DEF ESpec
=============================================================================
