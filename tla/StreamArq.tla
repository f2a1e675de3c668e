----------------------------- MODULE StreamArq -----------------------------
(***************************************************************************)
(* One direction of a stream (fanos-stream): a selective-repeat sender, a  *)
(* receiver with a bounded buffer, and the datagrams between them, which   *)
(* are lost, repeated and overtaken.                                       *)
(*                                                                         *)
(* Segments are numbered from 0 and hold an abstract datum.  due_at is     *)
(* kept as the ticks still to go, and how long an interval is (the round   *)
(* trip estimate, its back-off and the jitter) is left open.               *)
(***************************************************************************)
EXTENDS Integers, Sequences, FiniteSets, FiniteSetsExt

CONSTANTS Data,           \* what a segment can hold
          Payload,        \* Payload[s]: what the writer has for segment s
          Window,         \* the sender's window
          RecvWindow,     \* the receiver's recv_window
          SackWidth,      \* SACK_WIDTH
          DupThreshold,   \* DUP_ACK_THRESHOLD
          Intervals,      \* the ticks from a send to the next (rto and its jitter)
          FastDelays,     \* the ticks to a fast retransmit (its jitter)
          MaxSegments,    \* bound: the segments written
          AckCap,         \* bound: the acknowledgements in flight
          None

Seqs == 0 .. MaxSegments - 1

ASSUME StreamConstants ==
  /\ Window \in 1 .. SackWidth /\ RecvWindow \in 1 .. SackWidth
  /\ SackWidth \in Nat /\ DupThreshold \in Nat \ {0} /\ MaxSegments \in Nat \ {0}
  /\ Intervals \subseteq Nat \ {0} /\ FastDelays \subseteq Nat /\ AckCap \in Nat \ {0}
  /\ Payload \in [Seqs -> Data] /\ None \notin Data \cup Nat

VARIABLES
  \* the sender
  segments,   \* the sealed segments from base on
  base,       \* how many have been reclaimed
  finished,   \* finish() has sealed the last one
  acked,      \* every sequence number below is acknowledged
  sacked,     \* those at or above acked that are
  peerRwnd,   \* peer_rwnd, the credit last advertised
  due,        \* due[s]: ticks until s may be sent again; None if never sent
  lastCum,    \* last_cumulative
  dupAcks,    \* dup_acks
  \* the receiver
  received,   \* received[s]: the datum held, or None
  next,       \* the first sequence number it has not got
  delivered,  \* the first it has not handed over
  finSeq,     \* fin_seq, or None
  \* the network, and the two applications
  data, acks, written, got

sender == <<segments, base, finished, acked, sacked, peerRwnd, due, lastCum, dupAcks>>
receiver == <<received, next, delivered, finSeq>>
vars == <<sender, receiver, data, acks, written, got>>

Segment == [seq : Seqs, fin : BOOLEAN, datum : Data]
Ack == [cumulative : 0 .. MaxSegments, sack : SUBSET (1 .. SackWidth - 1), rwnd : 0 .. RecvWindow]

-----------------------------------------------------------------------------
(* The sender.                                                             *)

Total == base + Len(segments)

\* push with seal_full, and flush: a segment is sealed.
Push ==
  /\ ~finished /\ Total < MaxSegments
  /\ segments' = Append(segments, Payload[Total])
  /\ written' = Append(written, Payload[Total])
  /\ UNCHANGED <<base, finished, acked, sacked, peerRwnd, due, lastCum, dupAcks, receiver, data, acks, got>>

\* finish: the rest, also if there is none, is the last segment.
Finish ==
  /\ ~finished /\ Total < MaxSegments
  /\ segments' = Append(segments, Payload[Total])
  /\ written' = Append(written, Payload[Total])
  /\ finished' = TRUE
  /\ UNCHANGED <<base, acked, sacked, peerRwnd, due, lastCum, dupAcks, receiver, data, acks, got>>

\* The sequence numbers that may be in flight; a closed window is probed.
InFlight ==
  LET win == Min({Window, Max({peerRwnd, 1})}) IN acked .. Min({acked + win, Total}) - 1

\* Mutant of Wire: once the stream is finished every segment says so.
Wire_FinAnywhere(s) == [seq |-> s, fin |-> finished, datum |-> segments[s - base + 1]]

\* Mutant of Wire: the acknowledged segments are not counted out.
Wire_FromStart(s) == [seq |-> s, fin |-> finished /\ s = Total - 1, datum |-> segments[Min({s + 1, Len(segments)})]]

\* The segment s as it is sent now.
Wire(s) == [seq |-> s, fin |-> finished /\ s = Total - 1, datum |-> segments[s - base + 1]]

\* outbound: one tick of the clock.  Of what is still in flight the network may have lost
\* any part by then; it delivers the rest as often and in whatever order it likes.
Tick ==
  LET ticked == [s \in Seqs |-> IF due[s] = None THEN None ELSE Max({due[s] - 1, 0})]
      send == {s \in InFlight \ sacked : ticked[s] \in {None, 0}} IN
  /\ \E interval \in [send -> Intervals] :
       due' = [s \in Seqs |-> IF s \in send THEN interval[s] ELSE ticked[s]]
  /\ \E kept \in SUBSET data : data' = kept \cup {Wire(s) : s \in send}
  /\ UNCHANGED <<segments, base, finished, acked, sacked, peerRwnd, lastCum, dupAcks, receiver, acks, written, got>>

\* poll_new: what has never been sent, between ticks.
PollNew ==
  LET send == {s \in InFlight : due[s] = None} IN
  /\ send # {}
  /\ \E interval \in [send -> Intervals] :
       due' = [s \in Seqs |-> IF s \in send THEN interval[s] ELSE due[s]]
  /\ data' = data \cup {Wire(s) : s \in send}
  /\ UNCHANGED <<segments, base, finished, acked, sacked, peerRwnd, lastCum, dupAcks, receiver, acks, written, got>>

\* Mutant of Hastened: each burst sets the time anew.
Hastened_Reset(s, delay) == delay

\* A fast retransmit only ever brings the time forward.
Hastened(s, delay) == IF due[s] = None THEN delay ELSE Min({due[s], delay})

\* Mutant of Sacks: bit i is read as one number lower.
Sacks_OffByOne(a, total) == {s \in Seqs : s < total /\ s - a.cumulative + 1 \in a.sack}

\* The sequence numbers the bitmap reports, those that exist.
Sacks(a, total) == {s \in Seqs : s < total /\ s - a.cumulative \in a.sack}

\* An acknowledgement that repeats the last cumulative point above a gap.
Repeats(a) == a.cumulative = lastCum /\ a.sack # {} /\ a.cumulative < Total

\* Enough repetitions in a row mean that the segment at the gap was lost.
Fires(a) == Repeats(a) /\ dupAcks + 1 >= DupThreshold

\* on_ack.
OnAck(a) ==
  LET all == sacked \cup Sacks(a, Total)
      point == Min({n \in Min({Max({acked, a.cumulative}), Total}) .. Total : n \notin all}) IN
  /\ a \in acks
  /\ peerRwnd' = a.rwnd
  /\ lastCum' = Max({lastCum, a.cumulative})
  /\ dupAcks' = IF Repeats(a) THEN IF Fires(a) THEN 0 ELSE dupAcks + 1
                ELSE IF a.cumulative > lastCum THEN 0 ELSE dupAcks
  /\ acked' = point
  /\ sacked' = {s \in all : s >= point}
  /\ \E delay \in FastDelays :
       due' = [s \in Seqs |-> IF s < point THEN None
                              ELSE IF Fires(a) /\ s = a.cumulative THEN Hastened(s, delay)
                              ELSE due[s]]
  /\ base' = point
  /\ segments' = SubSeq(segments, point - base + 1, Len(segments))
  /\ UNCHANGED <<finished, receiver, data, acks, written, got>>

IsComplete == finished /\ acked >= Total

-----------------------------------------------------------------------------
(* The receiver.                                                           *)

Held == {s \in Seqs : received[s] # None}

\* Mutant of Admits: the window starts at what has arrived, not at what was taken.
Admits_FromNext(s) == delivered <= s /\ s < next + RecvWindow

\* The window starts at what the reader has taken.
Admits(s) == delivered <= s /\ s < delivered + RecvWindow

\* What contradicts the declared end: a segment past it, or an end below what is held.
Contradicts(m) ==
  \/ finSeq # None /\ m.seq > finSeq
  \/ m.fin /\ \E s \in Held : s > m.seq

\* on_segment.
OnSegment(m) ==
  LET held == IF received[m.seq] = None THEN [received EXCEPT ![m.seq] = m.datum] ELSE received IN
  /\ m \in data
  /\ Admits(m.seq) /\ ~Contradicts(m)
  /\ received' = held
  /\ finSeq' = IF m.fin THEN m.seq ELSE finSeq
  /\ next' = Min({n \in next .. MaxSegments : n = MaxSegments \/ held[n] = None})
  /\ UNCHANGED <<sender, delivered, data, acks, written, got>>

\* ack.
CurrentAck ==
  [cumulative |-> next,
   sack |-> {i \in 1 .. SackWidth - 1 : next + i \in Held},
   rwnd |-> Max({RecvWindow - Cardinality(Held), 0})]

\* The driver's emit: an acknowledgement at every tick and after every delivery.
EmitAck ==
  /\ \E kept \in SUBSET acks :
       /\ Cardinality(kept) < AckCap
       /\ acks' = kept \cup {CurrentAck}
  /\ UNCHANGED <<sender, receiver, data, written, got>>

\* take.
Take ==
  /\ delivered < next
  /\ got' = got \o [i \in 1 .. next - delivered |-> received[delivered + i - 1]]
  /\ received' = [s \in Seqs |-> IF s < next THEN None ELSE received[s]]
  /\ delivered' = next
  /\ UNCHANGED <<sender, next, finSeq, data, acks, written>>

IsFinished == finSeq # None /\ next > finSeq

-----------------------------------------------------------------------------
Init ==
  /\ segments = <<>> /\ base = 0 /\ finished = FALSE
  /\ acked = 0 /\ sacked = {} /\ peerRwnd = SackWidth
  /\ due = [s \in Seqs |-> None] /\ lastCum = 0 /\ dupAcks = 0
  /\ received = [s \in Seqs |-> None] /\ next = 0 /\ delivered = 0 /\ finSeq = None
  /\ data = {} /\ acks = {} /\ written = <<>> /\ got = <<>>

Next ==
  \/ Push \/ Finish
  \/ Tick \/ PollNew
  \/ \E a \in acks : OnAck(a)
  \/ \E m \in data : OnSegment(m)
  \/ EmitAck \/ Take

Spec == Init /\ [][Next]_vars

\* The driver ticks and acknowledges for ever and hands over what it has; the network
\* does not lose every copy of the segment needed next, nor every acknowledgement that
\* is up to date.
FairSpec ==
  /\ Spec
  /\ WF_vars(Tick) /\ WF_vars(EmitAck) /\ WF_vars(Take)
  /\ SF_vars(\E m \in data : m.seq = next /\ OnSegment(m))
  /\ SF_vars(CurrentAck \in acks /\ OnAck(CurrentAck))

-----------------------------------------------------------------------------
TypeOK ==
  /\ segments \in Seq(Data) /\ base \in Nat /\ Total <= MaxSegments /\ finished \in BOOLEAN
  /\ acked \in 0 .. Total /\ sacked \subseteq Seqs /\ peerRwnd \in 0 .. SackWidth
  /\ due \in [Seqs -> Nat \cup {None}] /\ lastCum \in Nat /\ dupAcks \in 0 .. DupThreshold - 1
  /\ received \in [Seqs -> Data \cup {None}] /\ next \in 0 .. MaxSegments
  /\ delivered \in 0 .. next /\ finSeq \in Seqs \cup {None}
  /\ data \subseteq Segment /\ acks \subseteq Ack
  /\ written \in Seq(Data) /\ got \in Seq(Data)

\* The sender never takes for acknowledged what the receiver has not got, so what it
\* reclaims is never needed again (on_ack, whatever order acknowledgements come in).
AcknowledgedHasArrived ==
  /\ acked <= next
  /\ \A s \in sacked : s < delivered \/ s \in Held

\* However many segments a peer sends ahead of its credit, the receiver holds no more
\* than its window (on_segment).
BufferBounded == Cardinality(Held) <= RecvWindow

\* The reader is told of the end only when it has everything up to the writer's own end
\* (is_finished, against the FIN flag of outbound and poll_new).
EndIsTheEnd == IsFinished => finished /\ next = Total

Stream == INSTANCE ReliableStream WITH closed <- finished, arrived <- next, known <- acked

\* The stream keeps its promise, over datagrams that do not (outbound, on_segment,
\* on_ack, take).
ImplementsReliableStream == Stream!RSpec

\* Once the writer has finished, the reader gets everything and the writer knows,
\* whichever retransmissions the acknowledgements bring forward (outbound, on_ack).
Completes == finished ~> (IsComplete /\ got = written)
=============================================================================
