--------------------------- MODULE ReliableStream ---------------------------
(***************************************************************************)
(* What a stream promises its two applications, and nothing of how: the    *)
(* reader gets what the writer wrote, in order, once, and the writer is    *)
(* told only of what has arrived.                                          *)
(***************************************************************************)
EXTENDS Integers, Sequences

CONSTANT Data

VARIABLES written,   \* the segments the writer has sealed
          closed,    \* the writer has sealed its last one
          arrived,   \* how many of them the receiving end holds or has handed over
          known,     \* how many of them the writer knows to have arrived
          got        \* what the reader has been handed

rvars == <<written, closed, arrived, known, got>>

RInit == written = <<>> /\ ~closed /\ arrived = 0 /\ known = 0 /\ got = <<>>

RWrite(d, last) ==
  /\ ~closed
  /\ written' = Append(written, d)
  /\ closed' = last
  /\ UNCHANGED <<arrived, known, got>>

RArrive(n) ==
  /\ arrived' = n
  /\ UNCHANGED <<written, closed, known, got>>

RLearn(n) ==
  /\ known' = n
  /\ UNCHANGED <<written, closed, arrived, got>>

RRead(n) ==
  /\ got' = SubSeq(written, 1, n)
  /\ UNCHANGED <<written, closed, arrived, known>>

RNext ==
  \/ \E d \in Data, last \in BOOLEAN : RWrite(d, last)
  \/ \E n \in arrived .. Len(written) : RArrive(n)
  \/ \E n \in known .. arrived : RLearn(n)
  \/ \E n \in Len(got) .. arrived : RRead(n)

RSpec == RInit /\ [][RNext]_rvars
=============================================================================
