------------------------- MODULE DiaulosConnProofs -------------------------
(***************************************************************************)
(* A connection, for every cap on its streams and every number of ids: an  *)
(* id names one stream, and what is retired has been received.             *)
(***************************************************************************)
EXTENDS DiaulosConn, WellFoundedInduction, FiniteSetTheorems, TLAPS

\* The ids an end has held: its own lie below the next it will give out, and the peer's
\* are held still or lie below the frontier.
IdInv ==
  \A e \in Ends :
    /\ Held(e) \subseteq seen[e]
    /\ \A id \in seen[e] : Opener(id) = e => id < next_local_id[e]
    /\ \A id \in seen[e] : Opener(id) # e => id \in Held(e) \/ id < peer_closed_below[e]

\* An end that has a stream to its end has got it, an acknowledgement on its way was sent
\* by such an end, and so what is complete was got.
GotInv ==
  /\ \A e \in Ends : \A id \in Held(e) : streams[e][id].receiver = "finished" => id \in got[e]
  /\ \A c \in late : c.type = "ack" => c.id \in got[Peer(c.to)]
  /\ CompleteMeansGot

ConnInv == TypeOK /\ IdInv /\ GotInv

-----------------------------------------------------------------------------
(* Loops.                                                                  *)

\* Induction over an interval, for a set of numbers.
LEMMA Induction ==
  ASSUME NEW m \in Nat, NEW n \in Nat, m <= n, NEW B, m \in B,
         \A i \in m + 1 .. n : i - 1 \in B => i \in B
  PROVE  \A i \in m .. n : i \in B
<1> DEFINE C == {i \in m .. n : i \notin B}
           Less == OpToRel(<, Nat)
<1>1. SUFFICES ASSUME C # {} PROVE FALSE
  OBVIOUS
<1>2. C \in SUBSET Nat
  OBVIOUS
<1> HIDE DEF C
<1>3. \E x \in C : \A y \in C : ~(<<y, x>> \in Less)
  BY <1>1, <1>2, NatLessThanWellFounded, WFMin, Zenon
<1>4. \A x, y \in Nat : y < x => <<y, x>> \in Less
  BY DEF OpToRel
<1> HIDE DEF Less
<1>5. PICK x \in C : \A y \in C : ~(<<y, x>> \in Less)
  BY <1>3
<1>6. x \in m + 1 .. n /\ x \notin B /\ x - 1 \in m .. n
  BY DEF C
<1>7. x \in Nat /\ x - 1 \in Nat /\ x - 1 < x
  BY <1>6
<1>8. x - 1 \notin C
  BY <1>4, <1>5, <1>7, Zenon
<1> QED
  BY <1>6, <1>8 DEF C

\* f[i] is what a loop from base has after turn i, whose body is F[i].
IsLoop(lo, hi, base, F, f) == f[lo] = base /\ \A i \in lo + 1 .. hi : f[i] = F[i][f[i - 1]]

\* A loop whose turns keep to Y has a value after each turn.
LEMMA Recursion ==
  ASSUME NEW lo \in Nat, NEW hi \in Nat, lo <= hi, NEW Y, NEW base \in Y,
         NEW F \in [lo + 1 .. hi -> [Y -> Y]]
  PROVE  \E f \in [lo .. hi -> Y] : IsLoop(lo, hi, base, F, f)
<1> DEFINE Upto(n, f) == IsLoop(lo, n, base, F, f)
           B == {n \in Nat : \E f \in [lo .. n -> Y] : Upto(n, f)}
<1>1. lo \in B
  <2>1. [i \in lo .. lo |-> base] \in [lo .. lo -> Y] /\ Upto(lo, [i \in lo .. lo |-> base])
    BY DEF IsLoop
  <2> QED
    BY <2>1, Zenon
<1>2. ASSUME NEW n \in lo + 1 .. hi, n - 1 \in B PROVE n \in B
  <2>1. PICK f \in [lo .. n - 1 -> Y] : Upto(n - 1, f)
    BY <1>2
  <2> DEFINE g == [i \in lo .. n |-> IF i < n THEN f[i] ELSE F[n][f[n - 1]]]
  <2>2. \A i \in lo .. n - 1 : i \in lo .. n /\ g[i] = f[i] /\ f[i] \in Y
    OBVIOUS
  <2>3. n - 1 \in lo .. n - 1 /\ g[n] = F[n][f[n - 1]]
    OBVIOUS
  <2>4. g \in [lo .. n -> Y]
    BY <2>2, <2>3
  <2> HIDE DEF g
  <2>5. \A i \in lo + 1 .. n : g[i] = F[i][g[i - 1]]
    <3>1. ASSUME NEW i \in lo + 1 .. n PROVE g[i] = F[i][g[i - 1]]
      <4>1. i - 1 \in lo .. n - 1
        OBVIOUS
      <4>2. g[i - 1] = f[i - 1]
        BY <2>2, <4>1
      <4>3. CASE i = n
        BY <2>3, <4>2, <4>3
      <4>4. CASE i \in lo + 1 .. n - 1
        <5>1. f[i] = F[i][f[i - 1]] /\ i \in lo .. n - 1
          BY <2>1, <4>4 DEF IsLoop
        <5> QED
          BY <2>2, <4>2, <5>1
      <4> QED
        BY <4>3, <4>4
    <3> QED
      BY <3>1, Zenon
  <2>6. g[lo] = base
    BY <2>1, <2>2 DEF IsLoop
  <2>7. n \in Nat
    OBVIOUS
  <2> QED
    BY <2>4, <2>5, <2>6, <2>7 DEF IsLoop
<1>3. hi \in B
  <2> HIDE DEF B
  <2>1. \A i \in lo .. hi : i \in B
    BY <1>1, <1>2, Induction, Zenon
  <2> QED
    BY <2>1
<1> QED
  BY <1>3, Zenon

\* f[i] is what Retain(q, id) has kept of the first i elements of q.
Retains(q, id, f) ==
  /\ f[0] = <<>>
  /\ \A i \in 0 + 1 .. Len(q) : f[i] = IF q[i] # id THEN Append(f[i - 1], q[i]) ELSE f[i - 1]
  /\ Retain(q, id) = f[Len(q)]

\* VecDeque::retain is such a loop.
LEMMA RetainLoop ==
  ASSUME NEW S, NEW q \in Seq(S), NEW id
  PROVE  \E f \in [0 .. Len(q) -> Seq(S)] : Retains(q, id, f)
<1> DEFINE Y == Seq(S)
           Base == <<>>
           Step(y, i) == IF q[i] # id THEN Append(y, q[i]) ELSE y
           F == [i \in 0 + 1 .. Len(q) |-> [y \in Y |-> Step(y, i)]]
           Eq(f) == f = [i \in 0 .. Len(q) |-> IF i = 0 THEN Base ELSE Step(f[i - 1], i)]
           g == CHOOSE f : Eq(f)
<1>1. 0 \in Nat /\ Len(q) \in Nat /\ 0 <= Len(q) /\ Base \in Y
  OBVIOUS
<1>2. ASSUME NEW i \in 0 + 1 .. Len(q), NEW y \in Y PROVE Step(y, i) \in Y
  <2>1. q[i] \in S
    OBVIOUS
  <2> QED
    BY <2>1
<1> HIDE DEF Y, Base, Step
<1>3. F \in [0 + 1 .. Len(q) -> [Y -> Y]]
  BY <1>2
<1>4. \A i \in 0 + 1 .. Len(q), y \in Y : F[i][y] = Step(y, i)
  OBVIOUS
<1> HIDE DEF F
<1>5. PICK f \in [0 .. Len(q) -> Y] : IsLoop(0, Len(q), Base, F, f)
  BY <1>1, <1>3, Recursion, Zenon
<1>6. Eq(f)
  <2>1. ASSUME NEW i \in 0 .. Len(q) PROVE f[i] = IF i = 0 THEN Base ELSE Step(f[i - 1], i)
    <3>1. CASE i = 0
      BY <1>5, <3>1 DEF IsLoop
    <3>2. CASE i # 0
      <4>1. i \in 0 + 1 .. Len(q) /\ i - 1 \in 0 .. Len(q)
        BY <1>1, <3>2
      <4>2. f[i - 1] \in Y /\ f[i] = F[i][f[i - 1]]
        BY <1>5, <4>1 DEF IsLoop
      <4> QED
        BY <1>4, <3>2, <4>1, <4>2
    <3> QED
      BY <3>1, <3>2
  <2> QED
    BY <2>1
<1>7. Eq(g)
  BY <1>6, Zenon
<1>8. Retain(q, id) = g[Len(q)]
  BY DEF Retain, Step, Base
<1> HIDE DEF g
<1>9. DOMAIN g = 0 .. Len(q) /\ g[0] = Base /\ \A i \in 0 + 1 .. Len(q) : g[i] = Step(g[i - 1], i)
  BY <1>1, <1>7
<1>10. \A i \in 0 .. Len(q) : g[i] \in Y
  <2> DEFINE C == {i \in 0 .. Len(q) : g[i] \in Y}
  <2>1. 0 \in C
    BY <1>1, <1>9
  <2>2. ASSUME NEW i \in 0 + 1 .. Len(q), i - 1 \in C PROVE i \in C
    BY <1>1, <1>2, <1>9, <2>2
  <2> HIDE DEF C
  <2>3. \A i \in 0 .. Len(q) : i \in C
    BY <1>1, <2>1, <2>2, Induction, Zenon
  <2> QED
    BY <2>3 DEF C
<1>11. g \in [0 .. Len(q) -> Y]
  BY <1>7, <1>10
<1> QED
  BY <1>8, <1>9, <1>11, Zenon DEF Y, Base, Step, Retains

\* p has no element twice, and only elements other than id among the first i of q.
Sifted(p, q, id, i) ==
  /\ \A k, l \in 1 .. Len(p) : p[k] = p[l] => k = l
  /\ \A k \in 1 .. Len(p) : p[k] # id /\ \E j \in 1 .. i : p[k] = q[j]

\* Of a queue without repetitions retain keeps one of that kind, without the id.
LEMMA RetainSifts ==
  ASSUME NEW S, NEW q \in Seq(S), NEW id, \A k, l \in 1 .. Len(q) : q[k] = q[l] => k = l
  PROVE  Retain(q, id) \in Seq(S) /\ Sifted(Retain(q, id), q, id, Len(q))
<1>1. PICK f \in [0 .. Len(q) -> Seq(S)] : Retains(q, id, f)
  BY RetainLoop, Zenon
<1> DEFINE B == {i \in 0 .. Len(q) : Sifted(f[i], q, id, i)}
<1>2. Len(q) \in Nat /\ 0 <= Len(q) /\ 0 \in Nat
  OBVIOUS
<1>3. 0 \in B
  BY <1>1 DEF Retains, Sifted
<1>4. ASSUME NEW i \in 0 + 1 .. Len(q), i - 1 \in B PROVE i \in B
  <2> DEFINE p == f[i - 1]
             r == f[i]
  <2>1. p \in Seq(S) /\ r \in Seq(S) /\ Sifted(p, q, id, i - 1) /\ q[i] \in S
    BY <1>4
  <2>2. r = IF q[i] # id THEN Append(p, q[i]) ELSE p
    BY <1>1 DEF Retains
  <2> HIDE DEF p, r
  <2>3. CASE q[i] = id
    BY <2>1, <2>2, <2>3 DEF Sifted, r
  <2>4. CASE q[i] # id
    <3>1. /\ Len(r) = Len(p) + 1 /\ r[Len(p) + 1] = q[i]
          /\ \A k \in 1 .. Len(p) : r[k] = p[k]
      BY <2>1, <2>2, <2>4
    <3>2. \A k \in 1 .. Len(p) : p[k] # q[i]
      <4>1. ASSUME NEW k \in 1 .. Len(p) PROVE p[k] # q[i]
        <5>1. PICK j \in 1 .. i - 1 : p[k] = q[j]
          BY <2>1 DEF Sifted
        <5>2. j \in 1 .. Len(q) /\ i \in 1 .. Len(q) /\ j # i
          BY <1>2
        <5> QED
          BY <5>1, <5>2
      <4> QED
        BY <4>1
    <3>3. \A k, l \in 1 .. Len(r) : r[k] = r[l] => k = l
      <4>1. \A k, l \in 1 .. Len(p) : p[k] = p[l] => k = l
        BY <2>1 DEF Sifted
      <4>2. Len(p) \in Nat /\ \A k \in 1 .. Len(r) : k = Len(p) + 1 \/ k \in 1 .. Len(p)
        BY <2>1, <3>1
      <4> QED
        BY <3>1, <3>2, <4>1, <4>2
    <3>4. \A k \in 1 .. Len(r) : r[k] # id /\ \E j \in 1 .. i : r[k] = q[j]
      <4>1. ASSUME NEW k \in 1 .. Len(r) PROVE r[k] # id /\ \E j \in 1 .. i : r[k] = q[j]
        <5>1. CASE k = Len(p) + 1
          BY <1>2, <2>4, <3>1, <5>1
        <5>2. CASE k \in 1 .. Len(p)
          <6>1. r[k] = p[k]
            BY <3>1, <5>2
          <6>2. p[k] # id /\ \E j \in 1 .. i - 1 : p[k] = q[j]
            BY <2>1, <5>2, Zenon DEF Sifted
          <6> QED
            BY <6>1, <6>2
        <5> QED
          BY <2>1, <3>1, <5>1, <5>2
      <4> QED
        BY <4>1
    <3> QED
      BY <3>3, <3>4 DEF Sifted, r
  <2> QED
    BY <2>3, <2>4
<1> HIDE DEF B
<1>5. \A i \in 0 .. Len(q) : i \in B
  BY <1>2, <1>3, <1>4, Induction, Zenon
<1>6. Len(q) \in 0 .. Len(q)
  BY <1>2
<1> QED
  BY <1>1, <1>5, <1>6 DEF B, Retains

-----------------------------------------------------------------------------
(* What an operation does to the streams of an end.                        *)

\* The stream id of e becomes s, and no other changes.
Put(e, id, s) ==
  /\ DOMAIN streams' = Ends
  /\ \A o \in Ends : o # e => Held(o)' = Held(o) /\ \A i \in Held(o) : streams'[o][i] = streams[o][i]
  /\ Held(e)' = Held(e) \cup {id}
  /\ streams'[e][id] = s
  /\ \A i \in Held(e) : i # id => streams'[e][i] = streams[e][i]

\* The stream id of e is gone, and no other changes.
Gone(e, id) ==
  /\ DOMAIN streams' = Ends
  /\ \A o \in Ends : o # e => Held(o)' = Held(o) /\ \A i \in Held(o) : streams'[o][i] = streams[o][i]
  /\ Held(e)' = Held(e) \ {id}
  /\ \A i \in Held(e) : i # id => streams'[e][i] = streams[e][i]

\* Inserting into the stream table changes one entry of one end.
LEMMA WithPuts ==
  ASSUME DOMAIN streams = Ends, NEW e \in Ends, NEW id, NEW s,
         streams' = [streams EXCEPT ![e] = With(e, id, s)]
  PROVE  Put(e, id, s)
BY DEF Put, With, Held

\* Removing from the stream table takes out one entry of one end.
LEMMA WithoutIsGone ==
  ASSUME DOMAIN streams = Ends, NEW e \in Ends, NEW id,
         streams' = [streams EXCEPT ![e] = Without(e, id)]
  PROVE  Gone(e, id)
BY DEF Gone, Without, Held

\* Updating a stream's sending half is inserting the stream with that half.
LEMMA SenderPuts ==
  ASSUME TypeOK, NEW e \in Ends, NEW id \in Held(e), NEW w,
         streams' = [streams EXCEPT ![e][id].sender = w]
  PROVE  Put(e, id, [sender |-> w, receiver |-> streams[e][id].receiver])
<1>1. streams[e][id] = [sender |-> streams[e][id].sender, receiver |-> streams[e][id].receiver]
  BY DEF TypeOK, Stream
<1>2. streams'[e] = [streams[e] EXCEPT ![id].sender = w] /\ DOMAIN streams' = Ends
      /\ \A o \in Ends : o # e => streams'[o] = streams[o]
  BY DEF TypeOK
<1>3. streams'[e][id] = [streams[e][id] EXCEPT !.sender = w]
  BY <1>2 DEF Held
<1>4. streams'[e][id] = [sender |-> w, receiver |-> streams[e][id].receiver]
  BY <1>1, <1>3
<1> QED
  BY <1>2, <1>4 DEF Put, Held

\* Whatever is put, the streams of an end stay within the cap (open_stream, on_cell).
LEMMA PutTypes ==
  ASSUME TypeOK, NEW e \in Ends, NEW id \in Ids, NEW s \in Stream, Put(e, id, s),
         id \in Held(e) \/ Room(e)
  PROVE  /\ DOMAIN streams' = Ends
         /\ \A o \in Ends : /\ Held(o)' \subseteq Ids /\ Cardinality(Held(o)') <= MaxStreams
                            /\ \A i \in Held(o)' : streams'[o][i] \in Stream
<1>1. IsFiniteSet(Ids)
  BY FS_Interval, ConnConstants DEF Ids
<1>2. IsFiniteSet(Held(e)) /\ Cardinality(Held(e)) \in Nat
  BY <1>1, FS_Subset, FS_CardinalityType DEF TypeOK
<1>3. Cardinality(Held(e) \cup {id}) <= MaxStreams
  <2>1. Cardinality(Held(e) \cup {id}) = IF id \in Held(e) THEN Cardinality(Held(e)) ELSE Cardinality(Held(e)) + 1
    BY SMTT(60), <1>2, FS_AddElement
  <2> QED
    BY <1>2, <2>1, ConnConstants DEF Room, TypeOK
<1> QED
  BY SMTT(60), <1>3 DEF Put, TypeOK

\* An end that gives up a stream still holds streams only, and no more than the cap.
LEMMA GoneTypes ==
  ASSUME TypeOK, NEW e \in Ends, NEW id, Gone(e, id)
  PROVE  /\ DOMAIN streams' = Ends
         /\ \A o \in Ends : /\ Held(o)' \subseteq Ids /\ Cardinality(Held(o)') <= MaxStreams
                            /\ \A i \in Held(o)' : streams'[o][i] \in Stream
<1>1. IsFiniteSet(Ids)
  BY FS_Interval, ConnConstants DEF Ids
<1>2. IsFiniteSet(Held(e)) /\ Cardinality(Held(e)) \in Nat
  BY <1>1, FS_Subset, FS_CardinalityType DEF TypeOK
<1>3. IsFiniteSet(Held(e) \ {id}) /\ Cardinality(Held(e) \ {id}) <= Cardinality(Held(e))
      /\ Cardinality(Held(e) \ {id}) \in Nat
  BY <1>2, FS_Subset, FS_CardinalityType
<1>4. Cardinality(Held(e) \ {id}) <= MaxStreams
  BY <1>2, <1>3, ConnConstants DEF TypeOK
<1> QED
  BY ZenonT(60), <1>4 DEF Gone, TypeOK

-----------------------------------------------------------------------------
(* The invariant, for what comes of each kind of operation.                *)

\* No id comes back (what IdsAreNotReused says of a step).
NoReturn == \A e \in Ends : (Held(e)' \ Held(e)) \cap seen[e] = {}

\* A stream is opened or goes on: its id is one the end holds, or has never held.
LEMMA PutStep ==
  ASSUME ConnInv, NEW e \in Ends, NEW id \in Ids, NEW s \in Stream, Put(e, id, s),
         id \in Held(e) \/ (Room(e) /\ id \notin seen[e]),
         s.receiver = "finished" => id \in got'[e],
         s.sender = "complete" => id \in got[Peer(e)],
         next_local_id' \in [Ends -> Ids],
         \A o \in Ends : Opener(next_local_id'[o]) = o /\ next_local_id[o] <= next_local_id'[o],
         Opener(id) = e => id < next_local_id'[e],
         seen' = [seen EXCEPT ![e] = @ \cup {id}],
         got' \in [Ends -> SUBSET Ids], \A o \in Ends : got[o] \subseteq got'[o],
         DOMAIN accept_queue' = Ends, UNCHANGED <<peer_closed_below, late>>
  PROVE  ConnInv' /\ NoReturn
<1>0. TypeOK /\ IdInv /\ GotInv
  BY DEF ConnInv
<1>1. TypeOK'
  <2>1. seen' \in [Ends -> SUBSET Ids]
    BY <1>0 DEF TypeOK
  <2> QED
    BY <1>0, <2>1, PutTypes DEF TypeOK
<1>2. NoReturn
  BY <1>0 DEF NoReturn, Put, IdInv
<1>3. IdInv'
  <2> SUFFICES ASSUME NEW o \in Ends
               PROVE  /\ Held(o)' \subseteq seen'[o]
                      /\ \A i \in seen'[o] : Opener(i) = o => i < next_local_id'[o]
                      /\ \A i \in seen'[o] : Opener(i) # o => i \in Held(o)' \/ i < peer_closed_below[o]
    BY DEF IdInv
  <2>1. seen'[o] = IF o = e THEN seen[o] \cup {id} ELSE seen[o]
    BY Zenon, <1>0 DEF TypeOK
  <2>2. Held(o)' = IF o = e THEN Held(o) \cup {id} ELSE Held(o)
    BY DEF Put
  <2>3. \A i \in seen[o] : Opener(i) = o => i < next_local_id'[o]
    <3>1. \A i \in seen[o] : i \in Int
      BY <1>0, ConnConstants DEF TypeOK, Ids
    <3>2. next_local_id[o] \in Int /\ next_local_id'[o] \in Int
      BY <1>0, ConnConstants DEF TypeOK, Ids
    <3> QED
      BY <1>0, <3>1, <3>2 DEF IdInv
  <2> QED
    BY <1>0, <2>1, <2>2, <2>3 DEF IdInv
<1>4. GotInv'
  <2>1. \A o \in Ends : Peer(o) \in Ends
    BY DEF Ends, Peer
  <2>2. \A c \in late : Peer(c.to) \in Ends
    BY <1>0, <2>1 DEF TypeOK, Cell
  <2>3. \A o \in Ends : \A i \in Held(o)' : streams'[o][i].receiver = "finished" => i \in got'[o]
    BY <1>0 DEF Put, GotInv
  <2>4. CompleteMeansGot'
    BY <1>0, <2>1 DEF Put, GotInv, CompleteMeansGot
  <2> QED
    BY <1>0, <2>2, <2>3, <2>4 DEF GotInv
<1> QED
  BY <1>1, <1>2, <1>3, <1>4 DEF ConnInv

\* A stream is retired or reset: the frontier passes the peer's ids that go.
LEMMA GoneStep ==
  ASSUME ConnInv, NEW e \in Ends, NEW id \in Ids, Gone(e, id),
         peer_closed_below' = Closing(e, id), DOMAIN accept_queue' = Ends,
         late' \subseteq Cell, Cardinality(late') <= LateCap,
         \A c \in late' : c.type = "ack" => c.id \in got[Peer(c.to)],
         UNCHANGED <<next_local_id, seen, got>>
  PROVE  ConnInv' /\ NoReturn
<1>0. TypeOK /\ IdInv /\ GotInv
  BY DEF ConnInv
<1>1. /\ peer_closed_below' \in [Ends -> 0 .. MaxId + 1]
      /\ \A o \in Ends : peer_closed_below[o] <= peer_closed_below'[o]
      /\ Opener(id) # e => id < peer_closed_below'[e]
  BY <1>0, ConnConstants DEF Closing, TypeOK, Ids
<1>2. TypeOK'
  BY <1>0, <1>1, GoneTypes DEF TypeOK
<1>3. NoReturn
  BY DEF NoReturn, Gone
<1>4. IdInv'
  <2> SUFFICES ASSUME NEW o \in Ends
               PROVE  /\ Held(o)' \subseteq seen[o]
                      /\ \A i \in seen[o] : Opener(i) # o => i \in Held(o)' \/ i < peer_closed_below'[o]
    BY <1>0 DEF IdInv
  <2>1. Held(o)' = IF o = e THEN Held(o) \ {id} ELSE Held(o)
    BY DEF Gone
  <2>2. \A i \in seen[o] : i \in Int
    BY <1>0, ConnConstants DEF TypeOK, Ids
  <2>3. peer_closed_below[o] \in Int /\ peer_closed_below'[o] \in Int
    BY <1>0, <1>1, ConnConstants DEF TypeOK
  <2> QED
    BY <1>0, <1>1, <2>1, <2>2, <2>3 DEF IdInv
<1>5. GotInv'
  BY <1>0 DEF Gone, GotInv, CompleteMeansGot
<1> QED
  BY <1>2, <1>3, <1>4, <1>5 DEF ConnInv

-----------------------------------------------------------------------------
(* The operations.                                                         *)

\* open_stream takes the next local id, which the end has never held, and leaves what it
\* has been sent as it is.
LEMMA OpenStreamStep ==
  ASSUME ConnInv, NEW e \in Ends, OpenStream(e)
  PROVE  ConnInv' /\ NoReturn
<1> DEFINE id == next_local_id[e]
<1>0. TypeOK /\ IdInv /\ GotInv
  BY DEF ConnInv
<1>1. PICK n \in NextId(id) : next_local_id' = [next_local_id EXCEPT ![e] = n]
  BY Zenon DEF OpenStream
<1>2. id \in Ids /\ id \in Nat /\ Opener(id) = e /\ n \in Ids /\ n = id + 2
  BY <1>0, ConnConstants DEF TypeOK, NextId, Ids
<1>3. Opener(n) = e
  BY <1>2 DEF Opener, Ends
<1>4. id \notin seen[e]
  BY <1>0, <1>2 DEF IdInv
<1>5. Put(e, id, NewStream) /\ NewStream \in Stream
      /\ NewStream.receiver = "waiting" /\ NewStream.sender = "open"
  BY Zenon, <1>0, WithPuts DEF OpenStream, TypeOK, NewStream, Stream
<1>6. /\ next_local_id' \in [Ends -> Ids]
      /\ \A o \in Ends : Opener(next_local_id'[o]) = o /\ next_local_id[o] <= next_local_id'[o]
      /\ id < next_local_id'[e]
  BY <1>0, <1>1, <1>2, <1>3, ConnConstants DEF TypeOK, Ids
<1>7. /\ seen' = [seen EXCEPT ![e] = @ \cup {id}] /\ Room(e)
      /\ UNCHANGED <<peer_closed_below, accept_queue, late, got>>
  BY DEF OpenStream
<1> HIDE DEF id
<1> QED
  BY Zenon, <1>0, <1>2, <1>4, <1>5, <1>6, <1>7, PutStep DEF TypeOK

\* finish, and on_cell of an acknowledgement: the sender's side of a stream moves on.
LEMMA SenderStep ==
  ASSUME ConnInv, NEW e \in Ends, NEW id \in Held(e), NEW w \in {"open", "finished", "complete"},
         w = "complete" => id \in got[Peer(e)],
         streams' = [streams EXCEPT ![e][id].sender = w],
         UNCHANGED <<next_local_id, peer_closed_below, accept_queue, late, seen, got>>
  PROVE  ConnInv' /\ NoReturn
<1> DEFINE s == [sender |-> w, receiver |-> streams[e][id].receiver]
<1>0. TypeOK /\ IdInv /\ GotInv
  BY DEF ConnInv
<1>1. Put(e, id, s)
  BY Zenon, <1>0, SenderPuts
<1>2. id \in Ids /\ s \in Stream /\ s.receiver = streams[e][id].receiver /\ s.sender = w
  BY <1>0 DEF TypeOK, Stream
<1> HIDE DEF s
<1>3. seen' = [seen EXCEPT ![e] = @ \cup {id}]
  BY <1>0 DEF TypeOK, IdInv
<1>4. Opener(id) = e => id < next_local_id'[e]
  BY <1>0 DEF IdInv
<1>5. \A o \in Ends : Opener(next_local_id'[o]) = o /\ next_local_id[o] <= next_local_id'[o]
  BY <1>0, ConnConstants DEF TypeOK, Ids
<1>6. s.receiver = "finished" => id \in got'[e]
  BY Zenon, <1>0, <1>2 DEF GotInv
<1> QED
  BY Zenon, <1>0, <1>1, <1>2, <1>3, <1>4, <1>5, <1>6, PutStep DEF TypeOK

\* A cell that may arrive: an acknowledgement was sent by an end that has everything.
Sound(c) == c \in Cell /\ (c.type = "ack" => c.id \in got[Peer(c.to)])

\* What outbound and outbound_new send is sound.
LEMMA OutboundIsSound ==
  ASSUME ConnInv, NEW e \in Ends, NEW c \in Outbound(e)
  PROVE  Sound(c)
<1>1. TypeOK /\ GotInv
  BY DEF ConnInv
<1>2. Peer(e) \in Ends /\ Peer(Peer(e)) = e
  BY DEF Ends, Peer
<1>3. CASE c \in Acks(e)
  <2>1. PICK id \in Held(e) : streams[e][id].receiver = "finished" /\ c = [to |-> Peer(e), type |-> "ack", id |-> id]
    BY <1>3 DEF Acks
  <2> QED
    BY <1>1, <1>2, <2>1 DEF Sound, Cell, TypeOK, GotInv
<1>4. CASE c \notin Acks(e)
  <2>1. PICK id \in Held(e), t \in {"data", "fin"} : c = [to |-> Peer(e), type |-> t, id |-> id]
    BY <1>4 DEF Outbound
  <2> QED
    BY <1>1, <1>2, <2>1 DEF Sound, Cell, TypeOK
<1> QED
  BY <1>3, <1>4

\* A cell that was delayed is sound too: what an end has got it never loses.
LEMMA LateIsSound == ASSUME ConnInv, NEW c \in late PROVE Sound(c)
BY DEF ConnInv, TypeOK, GotInv, Sound

\* on_cell of data: a cell opens a stream only at or above the frontier, where the end has
\* held no id of the peer's that it does not hold now.
LEMMA OnDataStep ==
  ASSUME ConnInv, NEW c, Sound(c), OnData(c.to, c), UNCHANGED late
  PROVE  ConnInv' /\ NoReturn
<1> DEFINE e == c.to
           id == c.id
           s == IF id \in Held(e) THEN streams[e][id] ELSE NewStream
           t == IF c.type = "fin" THEN [s EXCEPT !.receiver = "finished"] ELSE s
<1>0. TypeOK /\ IdInv /\ GotInv /\ e \in Ends /\ id \in Ids
  BY DEF ConnInv, Sound, Cell
<1>1. s \in Stream /\ (s.receiver = "finished" => id \in got[e]) /\ (s.sender = "complete" => id \in got[Peer(e)])
  <2>1. CASE id \in Held(e)
    BY <1>0, <2>1 DEF TypeOK, GotInv, CompleteMeansGot
  <2>2. CASE id \notin Held(e)
    BY <2>2 DEF NewStream, Stream
  <2> QED
    BY <2>1, <2>2
<1>2. /\ streams' = [streams EXCEPT ![e] = With(e, id, t)]
      /\ id \in Held(e) \/ Admissible(e, id)
      /\ accept_queue' = [accept_queue EXCEPT ![e] = IF id \in Held(e) THEN @ ELSE Append(@, id)]
      /\ seen' = [seen EXCEPT ![e] = @ \cup {id}]
      /\ got' = [got EXCEPT ![e] = IF c.type = "fin" THEN @ \cup {id} ELSE @]
      /\ UNCHANGED <<next_local_id, peer_closed_below>>
  BY DEF OnData
<1> HIDE DEF s
<1>3. t \in Stream /\ t.sender = s.sender /\ t.receiver = IF c.type = "fin" THEN "finished" ELSE s.receiver
  BY <1>1 DEF Stream
<1> HIDE DEF t, e, id
<1>4. Put(e, id, t)
  BY Zenon, <1>0, <1>2, WithPuts DEF TypeOK
<1>5. /\ got' \in [Ends -> SUBSET Ids] /\ \A o \in Ends : got[o] \subseteq got'[o]
      /\ t.receiver = "finished" => id \in got'[e]
  BY <1>0, <1>1, <1>2, <1>3 DEF TypeOK
<1>6. id \in Held(e) \/ (Room(e) /\ id \notin seen[e])
  <2> SUFFICES ASSUME id \notin Held(e) PROVE Room(e) /\ id \notin seen[e]
    OBVIOUS
  <2>1. Room(e) /\ Opener(id) # e /\ id >= peer_closed_below[e]
    BY <1>2 DEF Admissible
  <2>2. id \in Int /\ peer_closed_below[e] \in Int
    BY <1>0, ConnConstants DEF TypeOK, Ids
  <2> QED
    BY <1>0, <2>1, <2>2 DEF IdInv
<1>7. Opener(id) = e => id < next_local_id'[e]
  BY <1>0, <1>2 DEF Admissible, IdInv
<1>8. \A o \in Ends : Opener(next_local_id'[o]) = o /\ next_local_id[o] <= next_local_id'[o]
  BY <1>0, <1>2, ConnConstants DEF TypeOK, Ids
<1>9. DOMAIN accept_queue' = Ends /\ next_local_id' \in [Ends -> Ids]
  BY <1>0, <1>2 DEF TypeOK
<1> QED
  BY Zenon, <1>0, <1>1, <1>2, <1>3, <1>4, <1>5, <1>6, <1>7, <1>8, <1>9, PutStep

\* on_cell of an acknowledgement: a stream completes only when its data has been got.
LEMMA OnAckStep ==
  ASSUME ConnInv, NEW c, Sound(c), OnAck(c.to, c), UNCHANGED late
  PROVE  ConnInv' /\ NoReturn
<1> DEFINE e == c.to
           id == c.id
           old == streams[e][id].sender
           w == IF old = "finished" THEN "complete" ELSE old
<1>0. TypeOK /\ GotInv /\ e \in Ends /\ id \in Held(e)
  BY DEF ConnInv, Sound, Cell, OnAck
<1>1. id \in got[Peer(e)]
  BY DEF Sound, OnAck
<1>2. streams' = [streams EXCEPT ![e][id].sender = w]
  BY <1>0 DEF OnAck, TypeOK, Held
<1>3. w \in {"open", "finished", "complete"}
  BY <1>0 DEF TypeOK, Stream
<1>4. UNCHANGED <<next_local_id, peer_closed_below, accept_queue, seen, got>>
  BY DEF OnAck
<1> HIDE DEF e, id, w
<1> QED
  BY Zenon, <1>0, <1>1, <1>2, <1>3, <1>4, SenderStep

\* on_cell of a reset gives up the stream, and opens none.
LEMMA OnResetStep ==
  ASSUME ConnInv, NEW c, Sound(c), OnReset(c.to, c), UNCHANGED late
  PROVE  ConnInv' /\ NoReturn
<1>0. TypeOK /\ GotInv /\ c.to \in Ends /\ c.id \in Ids
  BY DEF ConnInv, Sound, Cell
<1>1. Gone(c.to, c.id)
  BY Zenon, <1>0, WithoutIsGone DEF OnReset, TypeOK
<1>2. DOMAIN accept_queue' = Ends
  BY <1>0 DEF OnReset, Unqueued, TypeOK
<1>3. /\ late' \subseteq Cell /\ Cardinality(late') <= LateCap
      /\ \A b \in late' : b.type = "ack" => b.id \in got[Peer(b.to)]
  BY <1>0 DEF TypeOK, GotInv
<1>4. peer_closed_below' = Closing(c.to, c.id) /\ UNCHANGED <<next_local_id, seen, got>>
  BY DEF OnReset
<1> QED
  BY <1>0, <1>1, <1>2, <1>3, <1>4, GoneStep

\* Whatever its kind, a cell that arrives keeps the invariant and brings no id back.
LEMMA OnCellStep ==
  ASSUME ConnInv, NEW c, Sound(c), OnCell(c), UNCHANGED late
  PROVE  ConnInv' /\ NoReturn
BY OnDataStep, OnAckStep, OnResetStep DEF OnCell

\* retire_stream and reset_stream give up the stream, and open none.
LEMMA RetireOrResetStep ==
  ASSUME ConnInv, NEW e \in Ends, NEW id \in Ids, RetireStream(e, id) \/ ResetStream(e, id)
  PROVE  ConnInv' /\ NoReturn
<1>0. TypeOK /\ GotInv /\ Peer(e) \in Ends
  BY DEF ConnInv, Ends, Peer
<1>1. Gone(e, id)
  BY <1>0, WithoutIsGone DEF RetireStream, ResetStream, TypeOK
<1>2. DOMAIN accept_queue' = Ends
  BY <1>0 DEF RetireStream, ResetStream, Unqueued, TypeOK
<1>3. peer_closed_below' = Closing(e, id) /\ UNCHANGED <<next_local_id, seen, got>>
  BY DEF RetireStream, ResetStream
<1>4. late' \subseteq late \cup {[to |-> Peer(e), type |-> "reset", id |-> id]} /\ Cardinality(late') <= LateCap
  BY <1>0 DEF RetireStream, ResetStream, Sent, TypeOK
<1>5. late' \subseteq Cell /\ \A c \in late' : c.type = "ack" => c.id \in got[Peer(c.to)]
  BY <1>0, <1>4 DEF TypeOK, Cell, GotInv
<1> QED
  BY <1>1, <1>2, <1>3, <1>4, <1>5, GoneStep

\* A step that touches only the accept queue and the cells under way keeps the invariant.
LEMMA QuietStep ==
  ASSUME ConnInv, DOMAIN accept_queue' = Ends,
         late' \subseteq Cell, Cardinality(late') <= LateCap, \A c \in late' : Sound(c),
         UNCHANGED <<next_local_id, peer_closed_below, streams, seen, got>>
  PROVE  ConnInv' /\ NoReturn
BY DEF ConnInv, TypeOK, IdInv, GotInv, CompleteMeansGot, NoReturn, Held, Sound

\* Every step keeps the invariant, and opens no id that was held before.
LEMMA Step == ASSUME ConnInv, [Next]_vars PROVE ConnInv' /\ NoReturn
<1>0. TypeOK /\ \A c \in late : Sound(c)
  BY LateIsSound DEF ConnInv
<1>1. ASSUME NEW e \in Ends, Accept(e) PROVE ConnInv' /\ NoReturn
  <2>1. DOMAIN accept_queue' = Ends /\ UNCHANGED <<next_local_id, peer_closed_below, streams, late, seen, got>>
    BY <1>0, <1>1 DEF Accept, TypeOK
  <2> QED
    BY <1>0, <2>1, QuietStep DEF TypeOK
<1>2. ASSUME NEW e \in Ends, NEW id \in Ids, Finish(e, id) PROVE ConnInv' /\ NoReturn
  BY Zenon, <1>2, SenderStep DEF Finish, Known
<1>3. ASSUME NEW e \in Ends, Delay(e) PROVE ConnInv' /\ NoReturn
  <2>1. late' \subseteq late \cup Outbound(e) /\ Cardinality(late') <= LateCap
    BY <1>3 DEF Delay, Sent
  <2>2. \A c \in late' : Sound(c)
    BY <1>0, <2>1, OutboundIsSound
  <2>3. late' \subseteq Cell
    BY <2>2 DEF Sound
  <2> QED
    BY <1>0, <1>3, <2>1, <2>2, <2>3, QuietStep DEF Delay, TypeOK
<1>4. ASSUME NEW e \in Ends, Arrive(e) PROVE ConnInv' /\ NoReturn
  BY <1>4, OutboundIsSound, OnCellStep DEF Arrive
<1>5. CASE ArriveLate
  BY <1>0, <1>5, OnCellStep DEF ArriveLate
<1>6. CASE UNCHANGED vars
  BY <1>0, <1>6, QuietStep DEF vars, TypeOK
<1> QED
  BY <1>1, <1>2, <1>3, <1>4, <1>5, <1>6, OpenStreamStep, RetireOrResetStep DEF Next

-----------------------------------------------------------------------------
(* The accept queue.                                                       *)

\* What QueuedIsHeld says of one end: a queue q of streams in S, each once.
Queue(q, S) == q \in Seq(S) /\ IsInjective(q)

\* A queue of streams is one of more streams.
LEMMA QueueGrows ==
  ASSUME NEW S, NEW T, S \subseteq T, NEW q, Queue(q, S)
  PROVE  Queue(q, T)
<1>1. q \in Seq(S) /\ IsInjective(q)
  BY DEF Queue
<1>2. q \in Seq(T)
  BY <1>1
<1> QED
  BY <1>1, <1>2 DEF Queue

\* The streams of a queue without the stream id are the others.
LEMMA QueueShrinks ==
  ASSUME NEW S, NEW id, NEW q, Queue(q, S), \A k \in 1 .. Len(q) : q[k] # id
  PROVE  Queue(q, S \ {id})
<1>1. q \in Seq(S) /\ IsInjective(q)
  BY DEF Queue
<1>2. q \in Seq(S \ {id})
  BY <1>1
<1> QED
  BY <1>1, <1>2 DEF Queue

\* accept takes the first of a queue.
LEMMA QueueTail ==
  ASSUME NEW S, NEW q, Queue(q, S), q # <<>>
  PROVE  Queue(Tail(q), S)
<1>1. q \in Seq(S) /\ \A k, l \in 1 .. Len(q) : q[k] = q[l] => k = l
  BY DEF Queue, IsInjective
<1>2. /\ Tail(q) \in Seq(S) /\ Len(Tail(q)) = Len(q) - 1 /\ Len(q) \in Nat
      /\ \A k \in 1 .. Len(q) - 1 : Tail(q)[k] = q[k + 1] /\ k + 1 \in 1 .. Len(q)
  BY <1>1
<1>3. DOMAIN Tail(q) = 1 .. Len(q) - 1
  BY <1>2
<1>4. \A k, l \in 1 .. Len(q) - 1 : Tail(q)[k] = Tail(q)[l] => k = l
  <2>1. ASSUME NEW k \in 1 .. Len(q) - 1, NEW l \in 1 .. Len(q) - 1, Tail(q)[k] = Tail(q)[l] PROVE k = l
    <3>1. k + 1 = l + 1
      BY <1>1, <1>2, <2>1
    <3> QED
      BY <3>1
  <2> QED
    BY <2>1
<1> QED
  BY <1>2, <1>3, <1>4, Zenon DEF Queue, IsInjective

\* on_cell puts a stream that is new in the queue once.
LEMMA QueueAppend ==
  ASSUME NEW S, NEW id, id \notin S, NEW q, Queue(q, S)
  PROVE  Queue(Append(q, id), S \cup {id})
<1> DEFINE r == Append(q, id)
<1>1. q \in Seq(S) /\ \A k, l \in 1 .. Len(q) : q[k] = q[l] => k = l
  BY DEF Queue, IsInjective
<1>2. /\ r \in Seq(S \cup {id}) /\ DOMAIN r = 1 .. Len(q) + 1 /\ Len(q) \in Nat
      /\ r[Len(q) + 1] = id
      /\ \A k \in 1 .. Len(q) : r[k] = q[k] /\ r[k] # id
  BY <1>1
<1>3. \A k \in 1 .. Len(q) + 1 : k = Len(q) + 1 \/ k \in 1 .. Len(q)
  BY <1>2
<1> HIDE DEF r
<1>4. \A k, l \in 1 .. Len(q) + 1 : r[k] = r[l] => k = l
  BY <1>1, <1>2, <1>3
<1>5. Queue(r, S \cup {id})
  BY <1>2, <1>4, Zenon DEF Queue, IsInjective
<1> QED
  BY <1>5 DEF r

\* retain takes the stream that is gone out of the queue (reset_stream, on_cell).
LEMMA QueueRetain ==
  ASSUME NEW S, NEW id, NEW q, Queue(q, S)
  PROVE  Queue(Retain(q, id), S \ {id})
<1>1. q \in Seq(S) /\ \A k, l \in 1 .. Len(q) : q[k] = q[l] => k = l
  BY DEF Queue, IsInjective
<1>2. Retain(q, id) \in Seq(S) /\ Sifted(Retain(q, id), q, id, Len(q))
  BY <1>1, RetainSifts, Zenon
<1>3. DOMAIN Retain(q, id) = 1 .. Len(Retain(q, id))
  BY <1>2
<1>4. Queue(Retain(q, id), S) /\ \A k \in 1 .. Len(Retain(q, id)) : Retain(q, id)[k] # id
  BY <1>2, <1>3, Zenon DEF Queue, IsInjective, Sifted
<1> QED
  BY <1>4, QueueShrinks, Zenon

\* An end that holds no fewer streams, and has the queue it had.
LEMMA QueueStays ==
  ASSUME QueuedIsHeld, \A o \in Ends : Held(o) \subseteq Held(o)', UNCHANGED accept_queue
  PROVE  QueuedIsHeld'
<1>1. ASSUME NEW o \in Ends PROVE Queue(accept_queue'[o], Held(o)')
  <2>1. Queue(accept_queue[o], Held(o))
    BY DEF QueuedIsHeld, Queue
  <2> QED
    BY <2>1, QueueGrows
<1> QED
  BY <1>1 DEF QueuedIsHeld, Queue

\* A stream of an end is gone, and out of its queue.
LEMMA QueueLoses ==
  ASSUME QueuedIsHeld, NEW e \in Ends, NEW id, Gone(e, id), Queue(accept_queue'[e], Held(e) \ {id}),
         \A o \in Ends : o # e => accept_queue'[o] = accept_queue[o]
  PROVE  QueuedIsHeld'
<1>1. ASSUME NEW o \in Ends PROVE Queue(accept_queue'[o], Held(o)')
  <2>1. Held(o)' = IF o = e THEN Held(o) \ {id} ELSE Held(o)
    BY DEF Gone
  <2>2. Queue(accept_queue[o], Held(o))
    BY DEF QueuedIsHeld, Queue
  <2> QED
    BY <2>1, <2>2
<1> QED
  BY <1>1 DEF QueuedIsHeld, Queue

\* A cell that arrives: data appends to the queue the stream it opens, a reset takes its
\* stream out (on_cell).
LEMMA OnCellQueue ==
  ASSUME ConnInv, QueuedIsHeld, NEW c, Sound(c), OnCell(c)
  PROVE  QueuedIsHeld'
<1>0. TypeOK /\ c.to \in Ends
  BY DEF ConnInv, Sound, Cell
<1>1. CASE OnData(c.to, c)
  <2>1. PICK t : streams' = [streams EXCEPT ![c.to] = With(c.to, c.id, t)]
    BY Zenon, <1>1 DEF OnData
  <2>2. Put(c.to, c.id, t)
    BY Zenon, <1>0, <2>1, WithPuts DEF TypeOK
  <2>3. \A o \in Ends : Held(o)' = IF o = c.to THEN Held(o) \cup {c.id} ELSE Held(o)
    BY <2>2 DEF Put
  <2>4. accept_queue' = [accept_queue EXCEPT ![c.to] = IF c.id \in Held(c.to) THEN @ ELSE Append(@, c.id)]
    BY <1>1 DEF OnData
  <2>5. ASSUME NEW o \in Ends PROVE Queue(accept_queue'[o], Held(o)')
    <3>1. Queue(accept_queue[o], Held(o))
      BY DEF QueuedIsHeld, Queue
    <3>2. CASE o = c.to /\ c.id \notin Held(o)
      <4>1. accept_queue'[o] = Append(accept_queue[o], c.id) /\ Held(o)' = Held(o) \cup {c.id}
        BY <1>0, <2>3, <2>4, <3>2 DEF TypeOK
      <4> QED
        BY <3>1, <3>2, <4>1, QueueAppend
    <3>3. CASE ~(o = c.to /\ c.id \notin Held(o))
      <4>1. accept_queue'[o] = accept_queue[o] /\ Held(o)' = Held(o)
        BY Zenon, <1>0, <2>3, <2>4, <3>3 DEF TypeOK
      <4> QED
        BY <3>1, <4>1
    <3> QED
      BY <3>2, <3>3
  <2> QED
    BY <2>5 DEF QueuedIsHeld, Queue
<1>2. CASE OnAck(c.to, c)
  <2> DEFINE old == streams[c.to][c.id].sender
             w == IF old = "finished" THEN "complete" ELSE old
  <2>1. c.id \in Held(c.to) /\ streams' = [streams EXCEPT ![c.to][c.id].sender = w] /\ UNCHANGED accept_queue
    BY <1>0, <1>2 DEF OnAck, TypeOK, Held
  <2> HIDE DEF w
  <2>2. Put(c.to, c.id, [sender |-> w, receiver |-> streams[c.to][c.id].receiver])
    BY Zenon, <1>0, <2>1, SenderPuts
  <2>3. \A o \in Ends : Held(o) \subseteq Held(o)'
    BY <2>2 DEF Put
  <2> QED
    BY <2>1, <2>3, QueueStays
<1>3. CASE OnReset(c.to, c)
  <2>1. Gone(c.to, c.id)
    BY Zenon, <1>0, <1>3, WithoutIsGone DEF OnReset, TypeOK
  <2>2. /\ accept_queue'[c.to] = Retain(accept_queue[c.to], c.id)
        /\ \A o \in Ends : o # c.to => accept_queue'[o] = accept_queue[o]
    BY <1>0, <1>3 DEF OnReset, Unqueued, TypeOK
  <2>3. Queue(accept_queue[c.to], Held(c.to))
    BY <1>0 DEF QueuedIsHeld, Queue
  <2>4. Queue(Retain(accept_queue[c.to], c.id), Held(c.to) \ {c.id})
    BY <2>3, QueueRetain, Zenon
  <2> QED
    BY Zenon, <1>0, <2>1, <2>2, <2>4, QueueLoses
<1> QED
  BY <1>1, <1>2, <1>3 DEF OnCell

\* retire_stream is for accepted streams; reset_stream takes its stream out of the queue.
LEMMA RetireOrResetQueue ==
  ASSUME ConnInv, QueuedIsHeld, NEW e \in Ends, NEW id \in Ids, RetireStream(e, id) \/ ResetStream(e, id)
  PROVE  QueuedIsHeld'
<1>0. TypeOK
  BY DEF ConnInv
<1>1. Gone(e, id)
  BY <1>0, WithoutIsGone DEF RetireStream, ResetStream, TypeOK
<1>2. Queue(accept_queue[e], Held(e))
  BY DEF QueuedIsHeld, Queue
<1>3. CASE RetireStream(e, id)
  <2>1. accept_queue' = accept_queue
    BY <1>3 DEF RetireStream
  <2>2. \A k \in 1 .. Len(accept_queue[e]) : accept_queue[e][k] # id
    <3>1. id \notin Range(accept_queue[e]) /\ accept_queue[e] \in Seq(Held(e))
      BY <1>2, <1>3 DEF RetireStream, Known, Queue
    <3> QED
      BY <3>1 DEF Range
  <2> QED
    BY <1>1, <1>2, <2>1, <2>2, QueueShrinks, QueueLoses, Zenon
<1>4. CASE ResetStream(e, id)
  <2>1. /\ accept_queue'[e] = Retain(accept_queue[e], id)
        /\ \A o \in Ends : o # e => accept_queue'[o] = accept_queue[o]
    BY <1>0, <1>4 DEF ResetStream, Unqueued, TypeOK
  <2>2. Queue(Retain(accept_queue[e], id), Held(e) \ {id})
    BY <1>2, QueueRetain, Zenon
  <2> QED
    BY Zenon, <1>0, <1>1, <2>1, <2>2, QueueLoses
<1> QED
  BY <1>3, <1>4

\* Every step keeps what is queued held.
LEMMA QueueStep == ASSUME ConnInv, QueuedIsHeld, [Next]_vars PROVE QueuedIsHeld'
<1>0. TypeOK /\ \A c \in late : Sound(c)
  BY LateIsSound DEF ConnInv
<1>1. ASSUME NEW e \in Ends, OpenStream(e) PROVE QueuedIsHeld'
  <2>1. Put(e, next_local_id[e], NewStream) /\ UNCHANGED accept_queue
    BY Zenon, <1>0, <1>1, WithPuts DEF OpenStream, TypeOK
  <2> QED
    BY <2>1, QueueStays DEF Put
<1>2. ASSUME NEW e \in Ends, Accept(e) PROVE QueuedIsHeld'
  <2>1. accept_queue[e] # <<>> /\ accept_queue' = [accept_queue EXCEPT ![e] = Tail(accept_queue[e])]
    BY <1>2 DEF Accept
  <2>2. ASSUME NEW o \in Ends PROVE Queue(accept_queue'[o], Held(o)')
    <3>1. Queue(accept_queue[o], Held(o)) /\ Held(o)' = Held(o)
      BY <1>2 DEF QueuedIsHeld, Queue, Accept, Held
    <3>2. accept_queue'[o] = IF o = e THEN Tail(accept_queue[o]) ELSE accept_queue[o]
      BY <1>0, <2>1 DEF TypeOK
    <3> QED
      BY <2>1, <3>1, <3>2, QueueTail
  <2> QED
    BY <2>2 DEF QueuedIsHeld, Queue
<1>3. ASSUME NEW e \in Ends, NEW id \in Ids, Finish(e, id) PROVE QueuedIsHeld'
  <2>1. /\ id \in Held(e) /\ UNCHANGED accept_queue
        /\ streams' = [streams EXCEPT ![e][id].sender = "finished"]
    BY <1>3 DEF Finish, Known
  <2>2. Put(e, id, [sender |-> "finished", receiver |-> streams[e][id].receiver])
    BY Zenon, <1>0, <2>1, SenderPuts
  <2> QED
    BY <2>1, <2>2, QueueStays DEF Put
<1>4. ASSUME NEW e \in Ends, Arrive(e) PROVE QueuedIsHeld'
  BY <1>4, OutboundIsSound, OnCellQueue DEF Arrive
<1>5. CASE ArriveLate
  BY <1>0, <1>5, OnCellQueue DEF ArriveLate
<1>6. ASSUME (\E e \in Ends : Delay(e)) \/ UNCHANGED vars PROVE QueuedIsHeld'
  <2>1. UNCHANGED <<streams, accept_queue>>
    BY <1>6 DEF Delay, vars
  <2> QED
    BY <2>1, QueueStays DEF Held
<1> QED
  BY <1>1, <1>2, <1>3, <1>4, <1>5, <1>6, RetireOrResetQueue DEF Next

-----------------------------------------------------------------------------
\* A new connection holds no stream.
LEMMA Initially == Init => ConnInv
<1> SUFFICES ASSUME Init PROVE ConnInv
  OBVIOUS
<1> USE DEF Init
<1>1. \A e \in Ends : Held(e) = {}
  BY DEF Held
<1>2. Cardinality({}) = 0
  BY FS_EmptySet
<1>3. TypeOK
  <2>1. /\ next_local_id \in [Ends -> Ids] /\ peer_closed_below \in [Ends -> 0 .. MaxId + 1]
        /\ \A e \in Ends : Opener(next_local_id[e]) = e
    BY ConnConstants DEF Ends, Ids, Opener
  <2>2. /\ seen \in [Ends -> SUBSET Ids] /\ got \in [Ends -> SUBSET Ids]
        /\ DOMAIN streams = Ends /\ DOMAIN accept_queue = Ends
    OBVIOUS
  <2>3. /\ \A e \in Ends : Held(e) \subseteq Ids /\ \A id \in Held(e) : streams[e][id] \in Stream
        /\ late \subseteq Cell
    BY <1>1
  <2>4. Cardinality(late) <= LateCap /\ \A e \in Ends : Cardinality(Held(e)) <= MaxStreams
    <3> HIDE DEF Init
    <3>1. late = {}
      BY DEF Init
    <3> QED
      BY <1>1, <1>2, <3>1, ConnConstants
  <2> HIDE DEF Init
  <2> QED
    BY <2>1, <2>2, <2>3, <2>4 DEF TypeOK
<1>4. IdInv /\ GotInv
  BY <1>1 DEF IdInv, GotInv, CompleteMeansGot
<1> QED
  BY <1>3, <1>4 DEF ConnInv

\* The inductive invariant holds for the life of a connection.
LEMMA Invariance == Spec => []ConnInv
<1>1. ConnInv /\ [Next]_vars => ConnInv'
  BY Step
<1> QED
  BY Initially, <1>1, PTL DEF Spec

\* The state stays in its types: ids are numbered by their opener and no end ever holds
\* more streams than its cap (open_stream, on_cell).
THEOREM TypeCorrect == Spec => []TypeOK
<1>1. ConnInv => TypeOK
  BY DEF ConnInv
<1> QED
  BY Invariance, <1>1, PTL

\* A stream an end takes for complete, and may retire, has reached the peer to its end,
\* whatever cells were lost, repeated or overtaken (sender_complete, retire_stream).
THEOREM CompleteWasGot == Spec => []CompleteMeansGot
<1>1. ConnInv => CompleteMeansGot
  BY DEF ConnInv, GotInv
<1> QED
  BY Invariance, <1>1, PTL

\* An id that an end has held and given up never names a stream of that end again
\* (peer_closed_below, and the counter of open_stream).
THEOREM IdsNameOneStream == Spec => IdsAreNotReused
<1>1. ConnInv /\ [Next]_vars
        => [\A e \in Ends : (DOMAIN streams'[e] \ DOMAIN streams[e]) \cap seen[e] = {}]_vars
  BY Step DEF NoReturn, Held
<1> QED
  BY Invariance, <1>1, PTL DEF Spec, IdsAreNotReused

\* What accept hands out is a stream the end holds, and no stream is handed out twice,
\* whatever is reset or retired meanwhile (on_cell, reset_stream, accept).
THEOREM AcceptedIsHeld == Spec => []QueuedIsHeld
<1>1. Init => QueuedIsHeld
  BY DEF Init, QueuedIsHeld, IsInjective
<1>2. ConnInv /\ QueuedIsHeld /\ [Next]_vars => QueuedIsHeld'
  BY QueueStep
<1> QED
  BY Invariance, <1>1, <1>2, PTL DEF Spec
=============================================================================
