-------------------------- MODULE StreamArqProofs --------------------------
(***************************************************************************)
(* One direction of a stream, for every window, buffer and number of       *)
(* segments: what the sender and the receiver know of each other, and that *)
(* together they are a ReliableStream.                                     *)
(***************************************************************************)
EXTENDS StreamArq, FiniteSetTheorems, SequenceTheorems, WellFoundedInduction, TLAPS

\* The receiver has handed over the segment s or holds it.
Arrived(s) == s < delivered \/ s \in Held

\* The sender has reclaimed what is acknowledged and holds the rest of what was written.
SenderInv ==
  /\ base = acked /\ Len(written) = Total
  /\ \A k \in 1 .. Len(segments) : segments[k] = Payload[base + k - 1]
  /\ \A k \in 1 .. Total : written[k] = Payload[k - 1]
  /\ \A s \in sacked : s < Total /\ Arrived(s)
  /\ acked <= next

\* A datagram is a segment that was written, and marks the end only if it is the last.
DataInv ==
  \A m \in data : /\ m.seq < Total /\ m.datum = Payload[m.seq]
                  /\ m.fin => finished /\ m.seq = Total - 1

\* An acknowledgement, however old, reports what has arrived.
AckInv ==
  \A a \in acks : a.cumulative <= next /\ \A i \in a.sack : Arrived(a.cumulative + i)

\* The receiver holds written segments within its window, all that precede next, and not
\* next itself; it has handed over what precedes them.
ReceiverInv ==
  /\ next <= Total
  /\ next < MaxSegments => received[next] = None
  /\ \A s \in Held : /\ s \in delivered .. delivered + RecvWindow - 1
                     /\ s < Total /\ received[s] = Payload[s]
  /\ \A s \in delivered .. next - 1 : s \in Held
  /\ finSeq # None => finished /\ finSeq = Total - 1
  /\ Len(got) = delivered
  /\ \A k \in 1 .. delivered : got[k] = Payload[k - 1]

AInv == TypeOK /\ SenderInv /\ DataInv /\ AckInv /\ ReceiverInv

-----------------------------------------------------------------------------
\* The loops that advance the two cumulative points stop at the least number that is
\* missing (on_ack, on_segment).
LEMMA MinIsLeast ==
  ASSUME NEW S \in SUBSET Nat, S # {}
  PROVE  Min(S) \in S /\ \A n \in S : Min(S) <= n
<1> DEFINE Less == OpToRel(<, Nat)
<1>1. PICK x \in S : \A y \in S : <<y, x>> \notin Less
  BY NatLessThanWellFounded, WFMin
<1>2. \A y \in S : x <= y
  <2>1. ASSUME NEW y \in S, ~(x <= y) PROVE FALSE
    <3>1. y < x /\ x \in Nat /\ y \in Nat
      BY <2>1
    <3>2. <<y, x>> \in Less
      BY <3>1 DEF OpToRel
    <3> QED
      BY <1>1, <3>2
  <2> QED
    BY <2>1
<1> QED
  BY Zenon, <1>2 DEF Min

\* The least and the greatest of two numbers.
LEMMA MinMaxOfTwo ==
  ASSUME NEW a \in Int, NEW b \in Int
  PROVE  /\ Min({a, b}) = IF a <= b THEN a ELSE b
         /\ Max({a, b}) = IF a <= b THEN b ELSE a
<1>1. \E x \in {a, b} : \A y \in {a, b} : x <= y
  OBVIOUS
<1>2. \E x \in {a, b} : \A y \in {a, b} : x >= y
  OBVIOUS
<1>3. Min({a, b}) \in {a, b} /\ \A y \in {a, b} : Min({a, b}) <= y
  BY <1>1 DEF Min
<1>4. Max({a, b}) \in {a, b} /\ \A y \in {a, b} : Max({a, b}) >= y
  BY <1>2 DEF Max
<1> QED
  BY <1>3, <1>4

\* The members of a half-open interval of sequence numbers.
LEMMA BelowInterval ==
  ASSUME NEW a \in Int, NEW b \in Int
  PROVE  \A s \in a .. b - 1 : s \in Int /\ a <= s /\ s < b
OBVIOUS

\* What the constants and the types say of the numbers in the state.
Bounds ==
  /\ MaxSegments \in Nat \ {0} /\ RecvWindow \in Nat \ {0} /\ Window \in Nat \ {0}
  /\ SackWidth \in Nat /\ RecvWindow <= SackWidth
  /\ Len(segments) \in Nat /\ base \in Nat /\ Total \in Nat /\ Total <= MaxSegments
  /\ Total = base + Len(segments)
  /\ acked \in Nat /\ next \in Nat /\ delivered \in Nat /\ delivered <= next /\ acked <= Total
  /\ \A n \in Nat : n < MaxSegments => n \in Seqs /\ Payload[n] \in Data
  /\ \A s \in Seqs : s \in Nat /\ s < MaxSegments /\ Payload[s] \in Data /\ s # None

\* The types bound every number of the state.
LEMMA Bounded == ASSUME TypeOK PROVE Bounds
<1>1. Len(segments) \in Nat
  BY DEF TypeOK
<1>2. MaxSegments \in Nat \ {0} /\ RecvWindow \in Nat \ {0} /\ Window \in Nat \ {0}
      /\ SackWidth \in Nat /\ RecvWindow <= SackWidth
  BY StreamConstants
<1>3. \A n \in Nat : n < MaxSegments => n \in Seqs /\ Payload[n] \in Data
  BY StreamConstants, <1>2 DEF Seqs
<1>4. \A s \in Seqs : s \in Nat /\ s < MaxSegments /\ Payload[s] \in Data /\ s # None
  BY StreamConstants, <1>2 DEF Seqs
<1>5. Total \in Nat /\ Total <= MaxSegments /\ acked \in Nat /\ next \in Nat /\ delivered \in Nat
      /\ delivered <= next /\ base \in Nat /\ Total = base + Len(segments) /\ acked <= Total
  BY <1>1, <1>2 DEF TypeOK, Total
<1> QED
  BY <1>1, <1>2, <1>3, <1>4, <1>5 DEF Bounds

\* The window never opens past what has been sealed (send_window).
LEMMA InFlightIsSealed ==
  ASSUME TypeOK, NEW s \in InFlight
  PROVE  s \in Int /\ acked <= s /\ s < Total
<1> DEFINE credit == Max({peerRwnd, 1})
           win == Min({Window, credit})
<1>1. Bounds /\ peerRwnd \in Int
  BY Bounded, StreamConstants DEF TypeOK
<1>2. credit = IF peerRwnd <= 1 THEN 1 ELSE peerRwnd
  BY <1>1, MinMaxOfTwo
<1>3. credit \in Int
  BY <1>1, <1>2
<1> HIDE DEF credit
<1>4. win = IF Window <= credit THEN Window ELSE credit
  BY <1>1, <1>3, MinMaxOfTwo DEF Bounds
<1>5. win \in Int
  BY <1>1, <1>3, <1>4 DEF Bounds
<1>6. s \in acked .. Min({acked + win, Total}) - 1
  BY DEF InFlight, credit
<1> HIDE DEF win
<1>7. Min({acked + win, Total}) = IF acked + win <= Total THEN acked + win ELSE Total
  BY <1>1, <1>5, MinMaxOfTwo DEF Bounds
<1> QED
  BY <1>1, <1>5, <1>6, <1>7 DEF Bounds

-----------------------------------------------------------------------------
\* push, flush and finish: one more segment is sealed, at the end.
LEMMA SealStep ==
  ASSUME AInv, ~finished, Total < MaxSegments, finished' \in BOOLEAN,
         segments' = Append(segments, Payload[Total]),
         written' = Append(written, Payload[Total]),
         UNCHANGED <<base, acked, sacked, peerRwnd, due, lastCum, dupAcks, receiver, data, acks, got>>
  PROVE  AInv'
<1> USE DEF receiver
<1>0. TypeOK /\ Bounds
  BY Bounded DEF AInv
<1>1. Payload[Total] \in Data
  BY <1>0 DEF Bounds
<1>2. /\ segments' \in Seq(Data) /\ Len(segments') = Len(segments) + 1
      /\ \A k \in 1 .. Len(segments) : segments'[k] = segments[k]
      /\ segments'[Len(segments) + 1] = Payload[Total]
  BY <1>0, <1>1, AppendProperties DEF TypeOK
<1>3. /\ written' \in Seq(Data) /\ Len(written') = Len(written) + 1
      /\ \A k \in 1 .. Len(written) : written'[k] = written[k]
      /\ written'[Len(written) + 1] = Payload[Total]
  BY <1>0, <1>1, AppendProperties DEF TypeOK
<1>4. Total' = Total + 1
  BY <1>0, <1>2 DEF Total, Bounds
<1>5. TypeOK'
  <2>1. Total' <= MaxSegments /\ acked \in 0 .. Total'
    BY SMTT(60), <1>0, <1>4 DEF TypeOK, Bounds
  <2> QED
    BY <1>0, <1>2, <1>3, <2>1 DEF TypeOK
<1>6. SenderInv'
  <2>1. \A k \in 1 .. Len(segments') : segments'[k] = Payload[base + k - 1]
    <3>1. ASSUME NEW k \in 1 .. Len(segments) PROVE segments'[k] = Payload[base + k - 1]
      BY <1>2 DEF AInv, SenderInv
    <3>2. segments'[Len(segments) + 1] = Payload[base + (Len(segments) + 1) - 1]
      BY <1>0, <1>2 DEF Bounds
    <3>3. \A k \in 1 .. Len(segments') : k \in 1 .. Len(segments) \/ k = Len(segments) + 1
      BY <1>0, <1>2 DEF Bounds
    <3> QED
      BY <3>1, <3>2, <3>3
  <2>2. \A k \in 1 .. Total' : written'[k] = Payload[k - 1]
    BY <1>0, <1>3, <1>4 DEF AInv, SenderInv, Bounds
  <2>3. \A s \in sacked : s < Total' /\ Arrived(s)'
    BY SMTT(60), <1>0, <1>4 DEF AInv, SenderInv, Arrived, Held, TypeOK, Bounds
  <2> QED
    BY SMTT(60), <1>0, <1>3, <1>4, <2>1, <2>2, <2>3 DEF AInv, SenderInv, Bounds
<1>7. DataInv'
  BY SMTT(60), <1>0, <1>4 DEF AInv, DataInv, TypeOK, Segment, Bounds
<1>8. AckInv'
  BY DEF AInv, AckInv, Arrived, Held
<1>9. ReceiverInv'
  BY SMTT(60), <1>0, <1>4 DEF AInv, ReceiverInv, Held, Bounds
<1> QED
  BY <1>5, <1>6, <1>7, <1>8, <1>9 DEF AInv

\* outbound and poll_new: what is sent is what was written, and the last segment says so.
LEMMA WireStep ==
  ASSUME AInv, NEW send \in SUBSET InFlight,
         due' \in [Seqs -> Nat \cup {None}], data' \subseteq data \cup {Wire(s) : s \in send},
         UNCHANGED <<segments, base, finished, acked, sacked, peerRwnd, lastCum, dupAcks, receiver, acks, written, got>>
  PROVE  AInv'
<1> USE DEF receiver
<1>0. TypeOK /\ Bounds /\ Total' = Total
  BY Bounded DEF AInv, Total
<1>1. ASSUME NEW s \in send
      PROVE  /\ Wire(s) \in Segment /\ s < Total /\ Wire(s).seq = s /\ Wire(s).datum = Payload[s]
             /\ Wire(s).fin => finished /\ s = Total - 1
  <2>1. s \in Int /\ acked <= s /\ s < Total
    BY <1>0, InFlightIsSealed
  <2>2. s \in Seqs /\ s - base + 1 \in 1 .. Len(segments) /\ Payload[s] \in Data
    BY <1>0, <2>1 DEF AInv, SenderInv, Bounds
  <2>3. segments[s - base + 1] = Payload[s]
    BY <1>0, <2>1, <2>2 DEF AInv, SenderInv, Bounds
  <2> QED
    BY Zenon, <1>0, <2>1, <2>2, <2>3 DEF Wire, Segment, TypeOK
<1>2. data' \subseteq Segment
  BY <1>0, <1>1 DEF TypeOK
<1>3. TypeOK'
  BY <1>0, <1>2 DEF TypeOK
<1>4. DataInv'
  BY <1>0, <1>1 DEF AInv, DataInv
<1>5. SenderInv' /\ AckInv' /\ ReceiverInv'
  BY <1>0 DEF AInv, SenderInv, AckInv, ReceiverInv, Arrived, Held
<1> QED
  BY <1>3, <1>4, <1>5 DEF AInv

\* on_tick sends again segments the sender still holds, so what travels stays true.
LEMMA TickStep == ASSUME AInv, Tick PROVE AInv'
<1> DEFINE ticked == [s \in Seqs |-> IF due[s] = None THEN None ELSE Max({due[s] - 1, 0})]
           send == {s \in InFlight \ sacked : ticked[s] \in {None, 0}}
<1>1. ticked \in [Seqs -> Nat \cup {None}]
  <2>1. ASSUME NEW s \in Seqs, due[s] # None PROVE Max({due[s] - 1, 0}) \in Nat
    <3>1. due[s] \in Nat
      BY <2>1 DEF AInv, TypeOK
    <3>2. Max({due[s] - 1, 0}) = IF due[s] - 1 <= 0 THEN 0 ELSE due[s] - 1
      BY SMTT(60), <3>1, MinMaxOfTwo
    <3> QED
      BY <3>1, <3>2
  <2> QED
    BY <2>1
<1>2. PICK interval \in [send -> Intervals] :
        due' = [s \in Seqs |-> IF s \in send THEN interval[s] ELSE ticked[s]]
  BY Zenon DEF Tick
<1>3. data' \subseteq data \cup {Wire(s) : s \in send}
  BY Zenon DEF Tick
<1>4. send \in SUBSET InFlight
  OBVIOUS
<1> HIDE DEF ticked, send
<1>5. due' \in [Seqs -> Nat \cup {None}]
  BY Zenon, <1>1, <1>2, StreamConstants
<1> QED
  BY Zenon, <1>3, <1>4, <1>5, WireStep DEF Tick

\* poll_transmit sends segments the sender holds.
LEMMA PollNewStep == ASSUME AInv, PollNew PROVE AInv'
<1> DEFINE send == {s \in InFlight : due[s] = None}
<1>1. PICK interval \in [send -> Intervals] :
        due' = [s \in Seqs |-> IF s \in send THEN interval[s] ELSE due[s]]
  BY DEF PollNew
<1>2. data' \subseteq data \cup {Wire(s) : s \in send}
  BY DEF PollNew
<1>3. send \in SUBSET InFlight
  OBVIOUS
<1> HIDE DEF send
<1>4. due' \in [Seqs -> Nat \cup {None}]
  BY Zenon, <1>1, StreamConstants DEF AInv, TypeOK
<1> QED
  BY <1>2, <1>3, <1>4, WireStep DEF PollNew

-----------------------------------------------------------------------------
\* The cumulative point on_ack moves to: no lower than it was, and no higher than what
\* has arrived, whichever acknowledgement is read.
AckedAll(a) == sacked \cup Sacks(a, Total)
AckedPoint(a) == Min({n \in Min({Max({acked, a.cumulative}), Total}) .. Total : n \notin AckedAll(a)})

\* An acknowledgement under way names only segments that have arrived, and moves the
\* acknowledged point no further than the receiver has come.
LEMMA PointHasArrived ==
  ASSUME AInv, NEW a \in acks
  PROVE  /\ AckedPoint(a) \in acked .. Total /\ AckedPoint(a) <= next
         /\ \A s \in AckedAll(a) : s \in Seqs /\ s < Total /\ Arrived(s)
<1> DEFINE start == Min({Max({acked, a.cumulative}), Total})
           S == {n \in start .. Total : n \notin AckedAll(a)}
<1>1. TypeOK /\ Bounds /\ a.cumulative \in Nat /\ a.cumulative <= next /\ next <= Total /\ acked <= next
  <2>1. a \in Ack
    BY DEF AInv, TypeOK
  <2>2. a.cumulative \in Nat
    BY <2>1, StreamConstants DEF Ack
  <2> QED
    BY <2>2, Bounded DEF AInv, AckInv, ReceiverInv, SenderInv
<1>2. start \in Nat /\ acked <= start /\ start <= next
  <2>0. acked \in Int /\ a.cumulative \in Int /\ Total \in Int
    BY <1>1 DEF Bounds
  <2>1. Max({acked, a.cumulative}) = IF acked <= a.cumulative THEN a.cumulative ELSE acked
    BY <2>0, MinMaxOfTwo, Zenon
  <2>2. Max({acked, a.cumulative}) \in Int
    BY <2>0, <2>1
  <2>3. start = IF Max({acked, a.cumulative}) <= Total THEN Max({acked, a.cumulative}) ELSE Total
    BY <2>0, <2>2, MinMaxOfTwo, Zenon
  <2> QED
    BY <1>1, <2>1, <2>3 DEF Bounds
<1>3. ASSUME NEW s \in AckedAll(a) PROVE s \in Seqs /\ s < Total /\ Arrived(s)
  <2>1. CASE s \in sacked
    BY <1>1, <2>1 DEF AInv, SenderInv, TypeOK
  <2>2. CASE s \in Sacks(a, Total)
    <3>1. s \in Seqs /\ s < Total /\ Arrived(a.cumulative + (s - a.cumulative))
      BY <2>2 DEF Sacks, AInv, AckInv
    <3>2. a.cumulative + (s - a.cumulative) = s
      BY <1>1, <3>1 DEF Bounds
    <3> QED
      BY <3>1, <3>2
  <2> QED
    BY <2>1, <2>2 DEF AckedAll
<1> HIDE DEF start
<1>4. Total \in S /\ S \in SUBSET Nat
  BY <1>1, <1>2, <1>3 DEF Bounds
<1>5. AckedPoint(a) \in S /\ \A n \in S : AckedPoint(a) <= n
  BY Zenon, <1>4, MinIsLeast DEF AckedPoint, start
<1>6. AckedPoint(a) <= next
  <2> SUFFICES ASSUME next < AckedPoint(a) PROVE FALSE
    BY <1>1, <1>2, <1>5 DEF Bounds
  <2>1. next \in AckedAll(a)
    BY <1>1, <1>2, <1>5 DEF Bounds
  <2>2. next \in Held /\ next < MaxSegments
    BY <1>1, <1>3, <2>1 DEF Arrived, Bounds
  <2> QED
    BY <2>2 DEF AInv, ReceiverInv, Held
<1> QED
  BY <1>1, <1>2, <1>3, <1>5, <1>6 DEF Bounds

\* on_ack releases only what has arrived, a stale or repeated acknowledgement included.
LEMMA OnAckStep == ASSUME AInv, NEW a \in acks, OnAck(a) PROVE AInv'
<1> DEFINE point == AckedPoint(a)
<1>0. TypeOK /\ Bounds
  BY Bounded DEF AInv
<1>1. /\ acked' = point /\ base' = point
      /\ sacked' = {s \in AckedAll(a) : s >= point}
      /\ segments' = SubSeq(segments, point - base + 1, Len(segments))
      /\ peerRwnd' = a.rwnd /\ lastCum' = Max({lastCum, a.cumulative})
      /\ dupAcks' = IF Repeats(a) THEN IF Fires(a) THEN 0 ELSE dupAcks + 1
                    ELSE IF a.cumulative > lastCum THEN 0 ELSE dupAcks
      /\ \E delay \in FastDelays :
           due' = [s \in Seqs |-> IF s < point THEN None
                                  ELSE IF Fires(a) /\ s = a.cumulative THEN Hastened(s, delay)
                                  ELSE due[s]]
      /\ UNCHANGED <<finished, received, next, delivered, finSeq, data, acks, written, got>>
  BY DEF OnAck, AckedPoint, AckedAll, receiver
<1>2. /\ point \in acked .. Total /\ point <= next
      /\ \A s \in AckedAll(a) : s \in Seqs /\ s < Total /\ Arrived(s)
  BY PointHasArrived
<1> HIDE DEF point
<1>3. point \in Nat /\ base <= point /\ point <= Total
  BY <1>0, <1>2 DEF Bounds, AInv, SenderInv
<1>4. /\ segments' \in Seq(Data) /\ Len(segments') = Len(segments) - (point - base)
      /\ \A k \in 1 .. Len(segments') : segments'[k] = segments[point - base + k]
  <2>1. \A k \in point - base + 1 .. Len(segments) : segments[k] \in Data
    BY <1>0, <1>3, ElementOfSeq DEF TypeOK, Bounds
  <2>2. point - base + 1 \in Int /\ Len(segments) \in Int
    BY <1>0, <1>3 DEF Bounds
  <2>3. /\ segments' \in Seq(Data)
        /\ Len(segments') = IF point - base + 1 <= Len(segments)
                            THEN Len(segments) - (point - base + 1) + 1 ELSE 0
        /\ \A k \in 1 .. Len(segments) - (point - base + 1) + 1 :
             segments'[k] = segments[(point - base + 1) + k - 1]
    BY <1>1, <2>1, <2>2, SubSeqProperties
  <2>4. Len(segments') = Len(segments) - (point - base)
    BY <1>0, <1>3, <2>3 DEF Bounds
  <2>5. ASSUME NEW k \in 1 .. Len(segments') PROVE segments'[k] = segments[point - base + k]
    <3>1. k \in 1 .. Len(segments) - (point - base + 1) + 1
          /\ (point - base + 1) + k - 1 = point - base + k
      BY <1>0, <1>3, <2>4 DEF Bounds
    <3> QED
      BY <2>3, <3>1
  <2> QED
    BY <2>3, <2>4, <2>5
<1>5. Total' = Total
  BY <1>0, <1>1, <1>3, <1>4 DEF Total, Bounds
<1>6. TypeOK'
  <2>1. a \in Ack
    BY <1>0 DEF TypeOK
  <2>2. peerRwnd' \in 0 .. SackWidth
    BY <1>0, <1>1, <2>1 DEF Ack, Bounds
  <2>3. lastCum' \in Nat
    <3>1. lastCum \in Nat /\ a.cumulative \in Nat
      BY <1>0, <2>1, StreamConstants DEF TypeOK, Ack
    <3>2. lastCum \in Int /\ a.cumulative \in Int
      BY <3>1
    <3>3. Max({lastCum, a.cumulative}) = IF lastCum <= a.cumulative THEN a.cumulative ELSE lastCum
      BY <3>2, MinMaxOfTwo, Zenon
    <3> QED
      BY <1>1, <3>1, <3>3
  <2>4. dupAcks' \in 0 .. DupThreshold - 1
    BY <1>0, <1>1, StreamConstants DEF TypeOK, Fires
  <2>5. due' \in [Seqs -> Nat \cup {None}]
    <3>1. PICK delay \in FastDelays :
            due' = [s \in Seqs |-> IF s < point THEN None
                                   ELSE IF Fires(a) /\ s = a.cumulative THEN Hastened(s, delay)
                                   ELSE due[s]]
      BY <1>1
    <3>2. delay \in Nat
      BY StreamConstants
    <3>3. ASSUME NEW s \in Seqs PROVE Hastened(s, delay) \in Nat \cup {None}
      <4>1. CASE due[s] = None
        BY <3>2, <4>1 DEF Hastened
      <4>2. CASE due[s] # None
        <5>1. due[s] \in Nat
          BY <1>0, <4>2 DEF TypeOK
        <5>2. Min({due[s], delay}) = IF due[s] <= delay THEN due[s] ELSE delay
          BY <3>2, <5>1, MinMaxOfTwo
        <5> QED
          BY <3>2, <4>2, <5>1, <5>2 DEF Hastened
      <4> QED
        BY <4>1, <4>2
    <3> QED
      BY <1>0, <3>1, <3>3 DEF TypeOK
  <2>6. acked' \in 0 .. Total' /\ base' \in Nat /\ sacked' \subseteq Seqs /\ Total' <= MaxSegments
    BY <1>0, <1>1, <1>2, <1>3, <1>5 DEF Bounds
  <2> QED
    BY SMTT(60), <1>0, <1>1, <1>4, <2>2, <2>3, <2>4, <2>5, <2>6 DEF TypeOK
<1>7. SenderInv'
  <2>1. ASSUME NEW k \in 1 .. Len(segments') PROVE segments'[k] = Payload[base' + k - 1]
    <3>1. point - base + k \in 1 .. Len(segments) /\ base + (point - base + k) - 1 = base' + k - 1
      BY SMTT(60), <1>0, <1>1, <1>3, <1>4 DEF Bounds
    <3>2. segments[point - base + k] = Payload[base + (point - base + k) - 1]
      BY <3>1 DEF AInv, SenderInv
    <3> QED
      BY <1>4, <3>1, <3>2
  <2>2. \A s \in sacked' : s < Total' /\ Arrived(s)'
    BY <1>1, <1>2, <1>5 DEF Arrived, Held
  <2> QED
    BY Zenon, <1>1, <1>2, <1>5, <2>1, <2>2 DEF AInv, SenderInv
<1>8. DataInv' /\ AckInv' /\ ReceiverInv'
  BY <1>1, <1>5 DEF AInv, DataInv, AckInv, ReceiverInv, Arrived, Held
<1> QED
  BY <1>6, <1>7, <1>8 DEF AInv

-----------------------------------------------------------------------------
\* on_segment: a segment within the window is held, and next moves past all that is held.
LEMMA OnSegmentStep ==
  ASSUME AInv, NEW m \in data, OnSegment(m)
  PROVE  AInv' /\ next' \in next .. Total
<1> DEFINE held == IF received[m.seq] = None THEN [received EXCEPT ![m.seq] = m.datum] ELSE received
           S == {n \in next .. MaxSegments : n = MaxSegments \/ held[n] = None}
<1>0. TypeOK /\ Bounds /\ Total' = Total
  BY Bounded DEF AInv, OnSegment, sender, Total
<1>1. /\ received' = held /\ next' = Min(S)
      /\ finSeq' = IF m.fin THEN m.seq ELSE finSeq
      /\ Admits(m.seq)
      /\ UNCHANGED <<segments, base, finished, acked, sacked, peerRwnd, due, lastCum, dupAcks>>
      /\ UNCHANGED <<delivered, data, acks, written, got>>
  BY DEF OnSegment, sender
<1>2. /\ m.seq \in Seqs /\ m.seq < Total /\ m.datum = Payload[m.seq] /\ m.datum \in Data
      /\ m.fin => finished /\ m.seq = Total - 1
  BY <1>0 DEF AInv, DataInv, TypeOK, Segment
<1>3. None \notin Data
  BY StreamConstants
<1>4. /\ held \in [Seqs -> Data \cup {None}]
      /\ \A s \in Seqs : s # m.seq => held[s] = received[s]
      /\ \A s \in Seqs : received[s] # None => held[s] = received[s]
      /\ held[m.seq] # None
      /\ received[m.seq] = None => held[m.seq] = Payload[m.seq]
  BY <1>0, <1>2, <1>3 DEF TypeOK
<1> HIDE DEF held
<1>5. Held' = Held \cup {m.seq}
  BY <1>1, <1>2, <1>4 DEF Held
<1>6. \A s \in Held' : /\ s \in Seqs /\ s \in delivered .. delivered + RecvWindow - 1
                       /\ s < Total /\ held[s] = Payload[s]
  <2>1. m.seq \in delivered .. delivered + RecvWindow - 1
    BY <1>0, <1>1, <1>2 DEF Admits, Bounds
  <2>2. held[m.seq] = Payload[m.seq]
    BY <1>2, <1>4 DEF AInv, ReceiverInv, Held
  <2> QED
    BY <1>2, <1>4, <1>5, <2>1, <2>2 DEF AInv, ReceiverInv, Held
<1>7. MaxSegments \in S /\ S \in SUBSET Nat
  BY <1>0 DEF TypeOK, Bounds
<1>8. next' \in S /\ \A n \in S : next' <= n
  BY <1>1, <1>7, MinIsLeast
<1>9. next' \in next .. MaxSegments /\ next' <= Total
  <2> SUFFICES ASSUME Total < next' PROVE FALSE
    BY <1>0, <1>8 DEF Bounds
  <2>1. Total \notin S /\ Total \in next .. MaxSegments /\ Total < MaxSegments
    BY <1>0, <1>8 DEF AInv, ReceiverInv, Bounds
  <2>2. Total \in Held'
    BY <1>0, <1>1, <2>1 DEF Held, Bounds
  <2> QED
    BY <1>0, <1>6, <2>2 DEF Bounds
<1>10. \A s \in delivered .. next' - 1 : s \in Held'
  <2>a. next' \in Int /\ delivered \in Int
    BY <1>0, <1>9 DEF Bounds
  <2>0. SUFFICES ASSUME NEW s \in Int, delivered <= s, s < next' PROVE s \in Held'
    BY <2>a, BelowInterval, Zenon
  <2>1. CASE s < next
    BY <1>0, <1>5, <2>0, <2>1 DEF AInv, ReceiverInv, Bounds
  <2>2. CASE ~(s < next)
    <3>0. next \in Nat /\ delivered \in Nat /\ MaxSegments \in Nat
      BY <1>0 DEF Bounds
    <3>1. s \in Nat /\ next <= s /\ s < next' /\ next' <= MaxSegments
      BY <1>9, <2>0, <2>2, <3>0
    <3>2. s \in next .. MaxSegments /\ s \in Seqs /\ s # MaxSegments
      BY <1>9, <3>0, <3>1 DEF Seqs
    <3>3. s \notin S
      BY <1>8, <1>9, <3>1
    <3>4. held[s] # None
      BY <3>2, <3>3
    <3> QED
      BY <1>1, <3>2, <3>4 DEF Held
  <2> QED
    BY <2>1, <2>2
<1>11. TypeOK'
  BY SMTT(60), <1>0, <1>1, <1>2, <1>4, <1>9 DEF TypeOK, Bounds
<1>12. ReceiverInv'
  <2>1. next' < MaxSegments => received'[next'] = None
    BY <1>0, <1>1, <1>8 DEF Bounds
  <2>2. finSeq' # None => finished' /\ finSeq' = Total' - 1
    BY <1>0, <1>1, <1>2 DEF AInv, ReceiverInv
  <2> QED
    BY <1>0, <1>1, <1>6, <1>9, <1>10, <2>1, <2>2 DEF AInv, ReceiverInv
<1>13. \A s : Arrived(s) => Arrived(s)'
  BY <1>1, <1>5 DEF Arrived
<1>14. next <= next'
  BY <1>0, <1>9 DEF Bounds
<1>15. SenderInv'
  <2>1. acked' <= next'
    BY <1>0, <1>1, <1>9 DEF AInv, SenderInv, Bounds
  <2> QED
    BY <1>0, <1>1, <1>13, <2>1 DEF AInv, SenderInv
<1>16. AckInv'
  <2>1. \A a \in acks : a.cumulative \in Nat
    BY <1>0 DEF TypeOK, Ack, Bounds
  <2> QED
    BY <1>0, <1>1, <1>9, <1>13, <2>1 DEF AInv, AckInv, Bounds
<1>17. DataInv'
  BY <1>0, <1>1 DEF AInv, DataInv
<1>18. next' \in next .. Total
  BY <1>0, <1>9 DEF Bounds
<1> QED
  BY <1>11, <1>12, <1>15, <1>16, <1>17, <1>18 DEF AInv

\* ack: what is reported is what is held, and the credit is within the window.
LEMMA EmitAckStep == ASSUME AInv, EmitAck PROVE AInv'
<1>0. TypeOK /\ Bounds /\ Total' = Total
  BY Bounded DEF AInv, EmitAck, sender, Total
<1>1. /\ acks' \subseteq acks \cup {CurrentAck}
      /\ UNCHANGED <<segments, base, finished, acked, sacked, peerRwnd, due, lastCum, dupAcks>>
      /\ UNCHANGED <<received, next, delivered, finSeq, data, written, got>>
  BY DEF EmitAck, sender, receiver
<1>2. CurrentAck \in Ack
  <2>1. IsFiniteSet(Seqs)
    BY <1>0, FS_Interval DEF Seqs, Bounds
  <2>2. Cardinality(Held) \in Nat
    BY <2>1, FS_Subset, FS_CardinalityType DEF Held
  <2>3. RecvWindow - Cardinality(Held) \in Int /\ 0 \in Int
    BY <1>0, <2>2 DEF Bounds
  <2>4. Max({RecvWindow - Cardinality(Held), 0})
          = IF RecvWindow - Cardinality(Held) <= 0 THEN 0 ELSE RecvWindow - Cardinality(Held)
    BY <2>3, MinMaxOfTwo, Zenon
  <2>5. Max({RecvWindow - Cardinality(Held), 0}) \in 0 .. RecvWindow
    BY <1>0, <2>2, <2>4 DEF Bounds
  <2> QED
    BY <1>0, <2>5 DEF CurrentAck, Ack, TypeOK
<1>3. CurrentAck.cumulative = next /\ \A i \in CurrentAck.sack : Arrived(next + i)
  BY DEF CurrentAck, Arrived
<1>4. TypeOK'
  BY <1>0, <1>1, <1>2 DEF TypeOK
<1>5. AckInv'
  BY <1>0, <1>1, <1>3 DEF AInv, AckInv, Arrived, Held, Bounds
<1>6. SenderInv' /\ DataInv' /\ ReceiverInv'
  BY <1>0, <1>1 DEF AInv, SenderInv, DataInv, ReceiverInv, Arrived, Held
<1> QED
  BY <1>4, <1>5, <1>6 DEF AInv

\* take: what is handed over follows what was handed over before.
LEMMA TakeStep == ASSUME AInv, Take PROVE AInv' /\ got' = SubSeq(written, 1, next)
<1> DEFINE fresh == [i \in 1 .. next - delivered |-> received[delivered + i - 1]]
<1>0. TypeOK /\ Bounds /\ Total' = Total
  BY Bounded DEF AInv, Take, sender, Total
<1>1. /\ delivered < next /\ got' = got \o fresh /\ delivered' = next
      /\ received' = [s \in Seqs |-> IF s < next THEN None ELSE received[s]]
      /\ UNCHANGED <<segments, base, finished, acked, sacked, peerRwnd, due, lastCum, dupAcks>>
      /\ UNCHANGED <<next, finSeq, data, acks, written>>
  BY DEF Take, sender
<1>2. ASSUME NEW i \in 1 .. next - delivered
      PROVE  received[delivered + i - 1] = Payload[delivered + i - 1] /\ Payload[delivered + i - 1] \in Data
  <2>1. delivered + i - 1 \in delivered .. next - 1
    BY <1>0 DEF Bounds
  <2>2. delivered + i - 1 \in Held
    BY <2>1 DEF AInv, ReceiverInv
  <2> QED
    BY <1>0, <2>2 DEF AInv, ReceiverInv, Held, Bounds
<1>3. fresh \in Seq(Data) /\ Len(fresh) = next - delivered
  <2>1. next - delivered \in Nat
    BY <1>0, <1>1 DEF Bounds
  <2>2. fresh \in [1 .. next - delivered -> Data]
    BY <1>2
  <2> HIDE DEF fresh
  <2> QED
    BY <2>1, <2>2
<1>4. \A i \in 1 .. next - delivered : fresh[i] = Payload[delivered + i - 1]
  BY <1>2
<1> HIDE DEF fresh
<1>5. got \in Seq(Data) /\ Len(got) = delivered /\ \A k \in 1 .. delivered : got[k] = Payload[k - 1]
  BY <1>0 DEF TypeOK, AInv, ReceiverInv
<1>6. /\ got' \in Seq(Data) /\ Len(got') = Len(got) + Len(fresh)
      /\ \A k \in 1 .. Len(got) + Len(fresh) :
           got'[k] = IF k <= Len(got) THEN got[k] ELSE fresh[k - Len(got)]
  BY Zenon, <1>1, <1>3, <1>5, ConcatProperties
<1>7. Len(got') = next
  BY SMTT(60), <1>0, <1>3, <1>5, <1>6 DEF Bounds
<1>8. \A k \in 1 .. next : got'[k] = Payload[k - 1]
  <2> SUFFICES ASSUME NEW k \in 1 .. next PROVE got'[k] = Payload[k - 1]
    OBVIOUS
  <2>1. got'[k] = IF k <= delivered THEN got[k] ELSE fresh[k - delivered]
    BY <1>0, <1>3, <1>5, <1>6 DEF Bounds
  <2>2. CASE k <= delivered
    BY <1>0, <1>5, <2>1, <2>2 DEF Bounds
  <2>3. CASE ~(k <= delivered)
    <3>1. k - delivered \in 1 .. next - delivered /\ delivered + (k - delivered) - 1 = k - 1
      BY <1>0, <2>3 DEF Bounds
    <3> QED
      BY <1>4, <2>1, <2>3, <3>1
  <2> QED
    BY <2>2, <2>3
<1>9. got' = SubSeq(written, 1, next)
  <2>1. written \in Seq(Data) /\ Len(written) = Total /\ next <= Total
        /\ \A k \in 1 .. Total : written[k] = Payload[k - 1]
    BY <1>0 DEF TypeOK, AInv, SenderInv, ReceiverInv
  <2>2. \A k \in 1 .. next : written[k] \in Data /\ written[k] = Payload[k - 1]
    BY <1>0, <2>1 DEF Bounds
  <2>3. /\ SubSeq(written, 1, next) \in Seq(Data)
        /\ Len(SubSeq(written, 1, next)) = IF 1 <= next THEN next - 1 + 1 ELSE 0
        /\ \A k \in 1 .. next - 1 + 1 : SubSeq(written, 1, next)[k] = written[1 + k - 1]
    BY <1>0, <2>2, SubSeqProperties DEF Bounds
  <2>4. Len(SubSeq(written, 1, next)) = next /\ \A k \in 1 .. next : SubSeq(written, 1, next)[k] = written[k]
    BY <1>0, <2>3 DEF Bounds
  <2> QED
    BY <1>6, <1>7, <1>8, <2>2, <2>3, <2>4, SeqEqual
<1>10. Held' = {s \in Held : next <= s}
  BY <1>0, <1>1 DEF Held, Bounds
<1>11. \A s \in Seqs : next <= s => received'[s] = received[s]
  BY <1>0, <1>1 DEF Bounds
<1>12. TypeOK'
  BY SMTT(60), <1>0, <1>1, <1>6 DEF TypeOK, Bounds
<1>13. ReceiverInv'
  <2>1. next' < MaxSegments => received'[next'] = None
    BY <1>0, <1>1, <1>11 DEF AInv, ReceiverInv, Bounds
  <2>2. \A s \in Held' : /\ s \in delivered' .. delivered' + RecvWindow - 1
                         /\ s < Total /\ received'[s] = Payload[s]
    <3> SUFFICES ASSUME NEW s \in Held'
                 PROVE  /\ s \in delivered' .. delivered' + RecvWindow - 1
                        /\ s < Total /\ received'[s] = Payload[s]
      OBVIOUS
    <3>1. s \in Held /\ next <= s /\ s \in Seqs
      BY <1>10 DEF Held
    <3>2. /\ s \in delivered .. delivered + RecvWindow - 1
          /\ s < Total /\ received[s] = Payload[s]
      BY <3>1 DEF AInv, ReceiverInv
    <3>3. s \in delivered' .. delivered' + RecvWindow - 1
      BY <1>0, <1>1, <3>1, <3>2 DEF Bounds
    <3> QED
      BY <1>11, <3>1, <3>2, <3>3
  <2>3. \A s \in delivered' .. next' - 1 : s \in Held'
    BY <1>0, <1>1 DEF Bounds
  <2> QED
    BY <1>0, <1>1, <1>7, <1>8, <2>1, <2>2, <2>3 DEF AInv, ReceiverInv
<1>14. \A s \in Int : Arrived(s) => Arrived(s)'
  BY <1>0, <1>1, <1>10 DEF Arrived, Bounds
<1>15. SenderInv'
  BY SMTT(60), <1>0, <1>1, <1>14 DEF AInv, SenderInv, TypeOK, Bounds
<1>16. AckInv'
  <2>1. ASSUME NEW a \in acks, NEW i \in a.sack PROVE a.cumulative + i \in Int
    <3>1. a.cumulative \in 0 .. MaxSegments /\ i \in 1 .. SackWidth - 1
      BY <1>0 DEF TypeOK, Ack
    <3> QED
      BY <1>0, <3>1 DEF Bounds
  <2>2. ASSUME NEW a \in acks, NEW i \in a.sack PROVE Arrived(a.cumulative + i)'
    BY <1>14, <2>1 DEF AInv, AckInv
  <2> QED
    BY <1>1, <2>2 DEF AInv, AckInv
<1>17. DataInv'
  BY <1>0, <1>1 DEF AInv, DataInv
<1> QED
  BY <1>9, <1>12, <1>13, <1>15, <1>16, <1>17 DEF AInv

-----------------------------------------------------------------------------
\* A new stream holds nothing and has sent nothing.
LEMMA Initially == Init => AInv
<1> SUFFICES ASSUME Init PROVE AInv
  OBVIOUS
<1> USE DEF Init
<1>1. Total = 0 /\ Held = {}
  BY DEF Total, Held
<1>2. TypeOK
  <2>1. MaxSegments \in Nat /\ SackWidth \in Nat /\ DupThreshold \in Nat \ {0}
    BY StreamConstants
  <2>2. segments \in Seq(Data) /\ written \in Seq(Data) /\ got \in Seq(Data)
    BY EmptySeq
  <2>3. due \in [Seqs -> Nat \cup {None}] /\ received \in [Seqs -> Data \cup {None}]
    OBVIOUS
  <2>4. /\ base \in Nat /\ Total <= MaxSegments /\ acked \in 0 .. Total /\ peerRwnd \in 0 .. SackWidth
        /\ lastCum \in Nat /\ dupAcks \in 0 .. DupThreshold - 1
        /\ next \in 0 .. MaxSegments /\ delivered \in 0 .. next
    BY <1>1, <2>1
  <2> QED
    BY Zenon, <2>2, <2>3, <2>4 DEF TypeOK
<1>3. SenderInv /\ DataInv /\ AckInv
  BY <1>1 DEF SenderInv, DataInv, AckInv
<1>4. ReceiverInv
  BY <1>1, <1>2, Bounded DEF ReceiverInv, Bounds
<1> QED
  BY <1>2, <1>3, <1>4 DEF AInv

\* push and finish add a segment at the end, or seal the stream, and disturb no other.
LEMMA SealSteps == ASSUME AInv, Push \/ Finish PROVE AInv'
<1>1. finished' \in BOOLEAN
  BY Zenon DEF Push, Finish, AInv, TypeOK
<1> QED
  BY <1>1, SealStep DEF Push, Finish

\* A step that changes nothing keeps the invariant.
LEMMA Stutter == ASSUME AInv, UNCHANGED vars PROVE AInv'
BY DEF vars, sender, receiver, AInv, TypeOK, SenderInv, DataInv, AckInv, ReceiverInv, Total, Arrived, Held

\* The inductive invariant holds at every moment of a stream.
LEMMA Invariance == Spec => []AInv
<1>1. AInv /\ [Next]_vars => AInv'
  BY SealSteps, TickStep, PollNewStep, OnAckStep, OnSegmentStep, EmitAckStep, TakeStep, Stutter DEF Next
<1> QED
  BY Initially, <1>1, PTL DEF Spec

\* However acknowledgements are lost, repeated or overtaken, the sender takes for
\* acknowledged only what has arrived, so what on_ack reclaims is never needed again.
THEOREM AcknowledgedArrived == Spec => []AcknowledgedHasArrived
<1>1. AInv => AcknowledgedHasArrived
  BY DEF AInv, SenderInv, Arrived, AcknowledgedHasArrived
<1> QED
  BY Invariance, <1>1, PTL

\* The receiver never holds more than recv_window segments (on_segment).
THEOREM BufferIsBounded == Spec => []BufferBounded
<1>1. ASSUME AInv PROVE BufferBounded
  <2> DEFINE W == delivered .. delivered + RecvWindow - 1
  <2>1. Bounds
    BY <1>1, Bounded DEF AInv
  <2>2. IsFiniteSet(W) /\ Cardinality(W) = RecvWindow
    <3>1. delivered \in Int /\ delivered + RecvWindow - 1 \in Int
          /\ ~(delivered > delivered + RecvWindow - 1)
          /\ (delivered + RecvWindow - 1) - delivered + 1 = RecvWindow
      BY <2>1 DEF Bounds
    <3> QED
      BY <3>1, FS_Interval
  <2>3. Held \in SUBSET W
    BY <1>1 DEF AInv, ReceiverInv
  <2> QED
    BY Zenon, <2>2, <2>3, FS_Subset DEF BufferBounded
<1> QED
  BY Invariance, <1>1, PTL

\* The reader is told of the end only when it has all that was written and the writer has
\* finished (is_finished).
THEOREM EndIsReached == Spec => []EndIsTheEnd
<1>1. ASSUME AInv PROVE EndIsTheEnd
  <2>1. Bounds
    BY <1>1, Bounded DEF AInv
  <2> QED
    BY <1>1, <2>1 DEF AInv, TypeOK, ReceiverInv, EndIsTheEnd, IsFinished, Bounds
<1> QED
  BY Invariance, <1>1, PTL

\* Every step of the two ends is one that a reliable stream may take, or none: sealing
\* writes, on_segment lets segments arrive, on_ack learns of them, take reads.
LEMMA StepRefines == ASSUME AInv, [Next]_vars PROVE [Stream!RNext]_Stream!rvars
<1>0. TypeOK /\ Bounds /\ next <= Total /\ Len(written) = Total /\ Len(got) = delivered
  BY Bounded DEF AInv, SenderInv, ReceiverInv
<1> USE DEF Stream!rvars
<1>1. CASE Push \/ Finish
  <2>1. Payload[Total] \in Data
    BY <1>0, <1>1 DEF Push, Finish, Bounds
  <2>2. \E last \in BOOLEAN : Stream!RWrite(Payload[Total], last)
    <3>1. CASE Push
      BY <1>0, <3>1 DEF Push, receiver, Stream!RWrite, TypeOK
    <3>2. CASE Finish
      BY Zenon, <3>2 DEF Finish, receiver, Stream!RWrite
    <3> QED
      BY <1>1, <3>1, <3>2
  <2> QED
    BY <2>1, <2>2 DEF Stream!RNext
<1>2. CASE Tick \/ PollNew \/ EmitAck
  BY <1>2 DEF Tick, PollNew, EmitAck, sender, receiver
<1>3. ASSUME NEW a \in acks, OnAck(a) PROVE Stream!RNext
  <2>1. acked' = AckedPoint(a) /\ UNCHANGED <<written, finished, next, got>>
    BY <1>3 DEF OnAck, AckedPoint, AckedAll, receiver
  <2>2. acked' \in acked .. next
    BY <1>0, <2>1, PointHasArrived DEF Bounds
  <2> QED
    BY <2>1, <2>2 DEF Stream!RNext, Stream!RLearn
<1>4. ASSUME NEW m \in data, OnSegment(m) PROVE Stream!RNext
  <2>1. UNCHANGED <<written, finished, acked, got>> /\ Total' = Total
    BY <1>4 DEF OnSegment, sender, Total
  <2>2. next' \in next .. Len(written)
    BY <1>0, <1>4, OnSegmentStep
  <2> QED
    BY <2>1, <2>2 DEF Stream!RNext, Stream!RArrive
<1>5. CASE Take
  <2>1. got' = SubSeq(written, 1, next) /\ UNCHANGED <<written, finished, next, acked>>
    BY Zenon, <1>5, TakeStep DEF Take, sender
  <2>2. next \in Len(got) .. next
    BY <1>0 DEF Bounds
  <2> QED
    BY <2>1, <2>2 DEF Stream!RNext, Stream!RRead
<1>6. CASE UNCHANGED vars
  BY <1>6 DEF vars, sender, receiver
<1> QED
  BY <1>1, <1>2, <1>3, <1>4, <1>5, <1>6 DEF Next

\* Over datagrams that are lost, repeated and overtaken the two ends are a reliable
\* stream: what is read is a prefix of what was written, and what is known has arrived.
THEOREM Implements == Spec => ImplementsReliableStream
<1>1. Init => Stream!RInit
  BY DEF Init, Stream!RInit
<1>2. AInv /\ [Next]_vars => [Stream!RNext]_Stream!rvars
  BY StepRefines
<1> QED
  BY <1>1, <1>2, Invariance, PTL DEF Spec, ImplementsReliableStream, Stream!RSpec
=============================================================================
