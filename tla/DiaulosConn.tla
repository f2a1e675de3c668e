---------------------------- MODULE DiaulosConn ----------------------------
(***************************************************************************)
(* A connection of many streams (fanos-diaulos, conn.rs): how its two ends *)
(* number, open, accept, retire and reset them over cells that are lost,   *)
(* repeated and overtaken.                                                 *)
(*                                                                         *)
(* What a stream does with its bytes is the matter of StreamArq.  Here a   *)
(* stream is what it promises: its sender is complete once the peer has    *)
(* everything up to the end, and the peer acknowledges as soon as it has.  *)
(* Whoever has a stream writes to it at once.                              *)
(***************************************************************************)
EXTENDS Integers, Sequences, FiniteSets, Functions

CONSTANTS MaxStreams,   \* MAX_CONCURRENT_STREAMS
          MaxId,        \* the largest stream id (u32::MAX)
          LateCap       \* bound: the delayed cells on their way

\* The initiator opens even ids, the responder odd ones.
Ends == {0, 1}
Ids == 0 .. MaxId
Peer(e) == 1 - e
Opener(id) == id % 2

ASSUME ConnConstants == MaxStreams \in Nat /\ MaxId \in Nat \ {0} /\ LateCap \in Nat

VARIABLES
  next_local_id,      \* the next id an end would open
  peer_closed_below,  \* the peer's ids below it are closed
  streams,            \* streams[e]: the streams held, by id
  accept_queue,       \* those the peer opened and the application has not accepted
  late,               \* cells on their way that others have overtaken, with the end they go to
  seen,               \* history: the ids e has ever held
  got                 \* history: the ids of which e has got everything

vars == <<next_local_id, peer_closed_below, streams, accept_queue, late, seen, got>>

Stream == [sender : {"open", "finished", "complete"}, receiver : {"waiting", "finished"}]
Cell == [to : Ends, type : {"data", "fin", "ack", "reset"}, id : Ids]

NewStream == [sender |-> "open", receiver |-> "waiting"]
Held(e) == DOMAIN streams[e]
With(e, id, s) == [i \in Held(e) \cup {id} |-> IF i = id THEN s ELSE streams[e][i]]
Without(e, id) == [i \in Held(e) \ {id} |-> streams[e][i]]

\* The streams the application of e knows of: its own, and those it has accepted.
Known(e) == Held(e) \ Range(accept_queue[e])

\* Of the cells on their way and those sent now, the network keeps any few for later.
Sent(cells) ==
  \E kept \in SUBSET (late \cup cells) : Cardinality(kept) <= LateCap /\ late' = kept

-----------------------------------------------------------------------------
(* What the application does.                                              *)

\* The id after id, if there is one (checked_add).
NextId(id) == {n \in Ids : n = id + 2}

\* Mutant of Room: only the peer's streams count.
Room_PeersOnly(e) == Cardinality({id \in Held(e) : Opener(id) # e}) < MaxStreams

\* There is room for one more stream.
Room(e) == Cardinality(Held(e)) < MaxStreams

\* open_stream; otherwise it returns None.
OpenStream(e) ==
  LET id == next_local_id[e] IN
  /\ Room(e)
  /\ \E n \in NextId(id) : next_local_id' = [next_local_id EXCEPT ![e] = n]
  /\ streams' = [streams EXCEPT ![e] = With(e, id, NewStream)]
  /\ seen' = [seen EXCEPT ![e] = @ \cup {id}]
  /\ UNCHANGED <<peer_closed_below, accept_queue, late, got>>

\* accept.
Accept(e) ==
  /\ accept_queue[e] # <<>>
  /\ accept_queue' = [accept_queue EXCEPT ![e] = Tail(@)]
  /\ UNCHANGED <<next_local_id, peer_closed_below, streams, late, seen, got>>

\* finish.
Finish(e, id) ==
  /\ id \in Known(e) /\ streams[e][id].sender = "open"
  /\ streams' = [streams EXCEPT ![e][id].sender = "finished"]
  /\ UNCHANGED <<next_local_id, peer_closed_below, accept_queue, late, seen, got>>

\* The frontier after the stream id is gone: a peer's id closes all up to it.
Closing(e, id) ==
  IF Opener(id) = e THEN peer_closed_below
  ELSE [peer_closed_below EXCEPT ![e] = IF @ > id THEN @ ELSE id + 1]

\* is_stream_done.
IsStreamDone(e, id) == streams[e][id] = [sender |-> "complete", receiver |-> "finished"]

\* retire_stream; otherwise it returns false.
RetireStream(e, id) ==
  /\ id \in Known(e) /\ IsStreamDone(e, id)
  /\ streams' = [streams EXCEPT ![e] = Without(e, id)]
  /\ peer_closed_below' = Closing(e, id)
  /\ UNCHANGED <<next_local_id, accept_queue, late, seen, got>>

\* VecDeque::retain of the ids other than id, in their order.
Retain(q, id) ==
  LET kept[i \in 0 .. Len(q)] ==
        IF i = 0 THEN <<>> ELSE IF q[i] # id THEN Append(kept[i - 1], q[i]) ELSE kept[i - 1]
  IN kept[Len(q)]

\* Mutant of Unqueued: the stream stays queued.
Unqueued_Kept(e, id) == accept_queue

\* The queue without the stream id.
Unqueued(e, id) == [accept_queue EXCEPT ![e] = Retain(@, id)]

\* reset_stream, also of a stream not accepted yet.  Its cell arrives late or never.
ResetStream(e, id) ==
  /\ id \in Held(e)
  /\ streams' = [streams EXCEPT ![e] = Without(e, id)]
  /\ accept_queue' = Unqueued(e, id)
  /\ peer_closed_below' = Closing(e, id)
  /\ Sent({[to |-> Peer(e), type |-> "reset", id |-> id]})
  /\ UNCHANGED <<next_local_id, seen, got>>

-----------------------------------------------------------------------------
(* Cells.                                                                  *)

\* Mutant of Acks: every stream is acknowledged to its end.
Acks_Always(e) == {[to |-> Peer(e), type |-> "ack", id |-> id] : id \in Held(e)}

\* Mutant of Acks: an end that has done its part falls silent.
Acks_WhileSending(e) ==
  {[to |-> Peer(e), type |-> "ack", id |-> id] :
     id \in {i \in Held(e) : streams[e][i].receiver = "finished" /\ streams[e][i].sender # "complete"}}

\* The acknowledgements outbound and outbound_new send that say something.
Acks(e) ==
  {[to |-> Peer(e), type |-> "ack", id |-> id] : id \in {i \in Held(e) : streams[e][i].receiver = "finished"}}

\* outbound and outbound_new: what an end sends again and again, stream by stream.
Outbound(e) ==
  Acks(e) \cup
  {[to |-> Peer(e), type |-> "data", id |-> id] : id \in {i \in Held(e) : streams[e][i].sender = "open"}} \cup
  {[to |-> Peer(e), type |-> "fin", id |-> id] : id \in {i \in Held(e) : streams[e][i].sender = "finished"}}

\* Mutant of Admissible: the frontier is not consulted.
Admissible_Reopening(e, id) == Opener(id) # e /\ Room(e)

\* A cell may open the stream id at e.
Admissible(e, id) == Opener(id) # e /\ id >= peer_closed_below[e] /\ Room(e)

\* on_cell, DATA: it may open the stream, and is for nothing if there is none.
OnData(e, c) ==
  LET id == c.id
      s == IF id \in Held(e) THEN streams[e][id] ELSE NewStream IN
  /\ c.type \in {"data", "fin"}
  /\ id \in Held(e) \/ Admissible(e, id)
  /\ streams' = [streams EXCEPT ![e] =
       With(e, id, IF c.type = "fin" THEN [s EXCEPT !.receiver = "finished"] ELSE s)]
  /\ accept_queue' = [accept_queue EXCEPT ![e] = IF id \in Held(e) THEN @ ELSE Append(@, id)]
  /\ seen' = [seen EXCEPT ![e] = @ \cup {id}]
  /\ got' = [got EXCEPT ![e] = IF c.type = "fin" THEN @ \cup {id} ELSE @]
  /\ UNCHANGED <<next_local_id, peer_closed_below>>

\* on_cell, ACK.
OnAck(e, c) ==
  /\ c.type = "ack" /\ c.id \in Held(e)
  /\ streams' = [streams EXCEPT ![e][c.id].sender = IF @ = "finished" THEN "complete" ELSE @]
  /\ UNCHANGED <<next_local_id, peer_closed_below, accept_queue, seen, got>>

\* on_cell, RESET.
OnReset(e, c) ==
  /\ c.type = "reset"
  /\ streams' = [streams EXCEPT ![e] = Without(e, c.id)]
  /\ accept_queue' = Unqueued(e, c.id)
  /\ peer_closed_below' = Closing(e, c.id)
  /\ UNCHANGED <<next_local_id, seen, got>>

\* on_cell of the end c goes to.
OnCell(c) == OnData(c.to, c) \/ OnAck(c.to, c) \/ OnReset(c.to, c)

\* A cell arrives before any other; one of those outbound repeats arrives in the end.
Arrive(e) == \E c \in Outbound(e) : OnCell(c) /\ UNCHANGED late

\* A cell is overtaken.
Delay(e) ==
  /\ Outbound(e) # {} /\ Sent(Outbound(e))
  /\ UNCHANGED <<next_local_id, peer_closed_below, streams, accept_queue, seen, got>>

\* A delayed cell arrives, perhaps not for the last time.
ArriveLate == \E c \in late : OnCell(c) /\ UNCHANGED late

-----------------------------------------------------------------------------
Init ==
  /\ next_local_id = [e \in Ends |-> e]
  /\ peer_closed_below = [e \in Ends |-> 0]
  /\ streams = [e \in Ends |-> <<>>]
  /\ accept_queue = [e \in Ends |-> <<>>]
  /\ late = {}
  /\ seen = [e \in Ends |-> {}] /\ got = [e \in Ends |-> {}]

Next ==
  \/ \E e \in Ends :
       \/ OpenStream(e) \/ Accept(e)
       \/ \E id \in Ids : Finish(e, id) \/ RetireStream(e, id) \/ ResetStream(e, id)
       \/ Arrive(e) \/ Delay(e)
  \/ ArriveLate

Spec == Init /\ [][Next]_vars

\* What is sent at every tick until it is acknowledged arrives in the end.
FairSpec == Spec /\ WF_vars(\E e \in Ends : Arrive(e))

-----------------------------------------------------------------------------
\* Streams are numbered by their opener, and an end never holds more than its cap,
\* whichever end opened them (open_stream, on_cell).
TypeOK ==
  /\ next_local_id \in [Ends -> Ids] /\ peer_closed_below \in [Ends -> 0 .. MaxId + 1]
  /\ seen \in [Ends -> SUBSET Ids] /\ got \in [Ends -> SUBSET Ids]
  /\ DOMAIN streams = Ends /\ DOMAIN accept_queue = Ends
  /\ \A e \in Ends :
       /\ Opener(next_local_id[e]) = e
       /\ Held(e) \subseteq Ids /\ Cardinality(Held(e)) <= MaxStreams
       /\ \A id \in Held(e) : streams[e][id] \in Stream
  /\ late \subseteq Cell /\ Cardinality(late) <= LateCap

\* An id names one stream for the life of the connection: what is retired or reset never
\* comes back, whatever is still on its way, and no id is given out twice
\* (peer_closed_below, and checked_add in open_stream).
IdsAreNotReused ==
  [][\A e \in Ends : (DOMAIN streams'[e] \ DOMAIN streams[e]) \cap seen[e] = {}]_vars

\* What accept hands out is there, and is handed out once (on_cell, reset_stream).
QueuedIsHeld ==
  \A e \in Ends : accept_queue[e] \in Seq(Held(e)) /\ IsInjective(accept_queue[e])

\* A stream is retired only when the peer has got all of it, so what is discarded is not
\* needed (retire_stream, sender_complete).
CompleteMeansGot ==
  \A e \in Ends : \A id \in Held(e) : streams[e][id].sender = "complete" => id \in got[Peer(e)]

\* The end e refuses the stream id for good or for want of room.
Refuses(e, id) ==
  /\ id \notin Held(e)
  /\ Opener(id) = e \/ id < peer_closed_below[e] \/ ~Room(e)

\* In the end every finished stream is complete, unless one end gave it up or the peer
\* refuses it: no order of cells leaves one hanging (outbound, on_cell).
FinishedSettles ==
  <>[](\A e \in Ends : \A id \in Held(e) :
         streams[e][id].sender = "finished" => Refuses(Peer(e), id))

\* A stream that its opener still holds is not refused for being old: nothing legitimate
\* lives below a retired one (the comments on peer_closed_below and retire_stream).
NothingNewBelowFrontier ==
  \A e \in Ends : \A id \in Held(Peer(e)) :
    Opener(id) # e /\ id < peer_closed_below[e] => id \in seen[e]

\* The ends are never both full of streams that the other refuses, with nothing left that
\* could complete (the comment on retire_stream: a connection stays within the cap without
\* ever refusing a fresh stream).
NoStandoff == ~ \A e \in Ends : ~Room(e) /\ Held(e) \cap Held(Peer(e)) = {}
=============================================================================
