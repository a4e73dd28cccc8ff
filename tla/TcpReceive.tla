----------------------------- MODULE TcpReceive -----------------------------
(***************************************************************************)
(* An established TCPSocket that receives a stream of Length bytes whose   *)
(* segments arrive in any order, any number of times, cut and overlapping  *)
(* in any way.  The stream's first sequence number is Start, so that the   *)
(* numbers may wrap around on the way; the k-th byte of the stream is k.   *)
(***************************************************************************)
EXTENDS TcpSocket

CONSTANTS Start, Length

ASSUME StreamAssumption == Start \in 0 .. SeqSpace - 1 /\ Length \in Nat

VARIABLE socket

NumberOf(k) == SEQ_INC(Start, k)

\* What the connection looks like after the handshake.
ReceiveInit ==
  socket = [NewSocket(0) EXCEPT !.state = "ESTABLISHED", !.rxEdge = Start,
                                !.txSize = RxWindow]

Received == Len(socket.data)

\* A segment with the bytes between from and to; the last one may carry the FIN.
Segment(from, to, fin) ==
  [seq |-> NumberOf(from), ack |-> socket.txPos, wnd |-> RxWindow, u8 |-> Bytes(from, to),
   flags |-> IF fin THEN {"ACK", "FIN"} ELSE {"ACK"}]

\* A segment arrives before its sequence numbers are used again: packets do not
\* live as long as it takes to send SeqSpace bytes.
Timely(from, to) ==
  from + SeqSpace > Received + 2 * RxWindow /\ to < Received + SeqSpace

Arrive(from, to, fin) ==
  /\ Timely(from, to)
  /\ socket' = _receive([socket EXCEPT !.out = <<>>], Segment(from, to, fin))
  /\ Len(socket'.receiveQueue) <= MaxQueue

ReceiveNext ==
  \E from \in 0 .. Length : \E to \in from .. Length :
    \/ from < to /\ Arrive(from, to, FALSE)
    \/ to = Length /\ Arrive(from, to, TRUE)

ReceiveSpec == ReceiveInit /\ [][ReceiveNext]_socket

-----------------------------------------------------------------------------
Queued == {socket.receiveQueue[i] : i \in DOMAIN socket.receiveQueue}

\* The application receives the bytes of the stream in order, each one once,
\* however the segments were cut, duplicated or reordered (_insertReceiveQueue
\* and _processReceiveQueue, lines 498-588).
InOrderOnce == Received <= Length /\ socket.data = Bytes(0, Received)

\* What is acknowledged is what was delivered, and the FIN when all of it was:
\* a byte that is acknowledged will never be sent again (lines 505, 584).
AckedIsDelivered ==
  \/ socket.rxEdge = NumberOf(Received)
  \/ socket.rxEdge = NumberOf(Length + 1) /\ Received = Length

\* The queue keeps only what cannot be delivered yet: every item starts after
\* the edge of the window and within it, so no data that is there waits for a
\* retransmission that will never come (lines 524-573).
QueueWaitsForGap ==
  \A q \in Queued : (q.seq - socket.rxEdge) % SeqSpace \in 1 .. RxWindow - 1

=============================================================================
