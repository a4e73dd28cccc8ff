----------------------------- MODULE TcpSocket ------------------------------
(***************************************************************************)
(* js/core/net/tcp-socket.js: one TCP socket.  A socket is a record and    *)
(* every method of the class is an operator from the socket before the     *)
(* call to the socket after it; the packets it transmits are appended to   *)
(* .out, the bytes it passes to ondata to .data, and its other callbacks   *)
(* to .events.  Packets travel in TcpReceive and TcpConnection.            *)
(*                                                                         *)
(* A buffer is a sequence of bytes; a packet or an item without one (null) *)
(* has the empty sequence.  Sequence numbers count modulo SeqSpace.  Time  *)
(* is abstract: which items of the transmit queue are due for retransmission  *)
(* is an argument of the timer's tick.  Statistics, debug output and the   *)
(* callback ondrain are left out, and ondata, onopen, onend and onclose    *)
(* are assumed to be set.                                                  *)
(***************************************************************************)
EXTENDS Integers, Sequences, FiniteSetsExt, Functions

CONSTANTS SeqSpace,        \* 2^32 in the code
          MSS,             \* 536
          RxWindow,        \* _receiveWindowSize, 8192
          MaxRetransmits,  \* 7
          MaxQueue         \* bound: length of a receive queue, which has none

ASSUME SocketAssumption ==
  /\ {SeqSpace, MSS, RxWindow, MaxRetransmits} \subseteq Nat \ {0}
  /\ SeqSpace % 2 = 0 /\ 2 * RxWindow < SeqSpace

SEQ_INC(seq, n) == (seq + n) % SeqSpace

\* a - b | 0
SEQ_OFFSET(a, b) == ((a - b + SeqSpace \div 2) % SeqSpace) - SeqSpace \div 2

\* The bytes of a stream after the first from, up to the to-th; the k-th is k.
Bytes(from, to) == [i \in 1 .. to - from |-> from + i]

\* u8.subarray(from, to): a negative end counts from the end.
Subarray(u8, from, to) ==
  LET At(k) == IF k < 0 THEN Max({0, Len(u8) + k}) ELSE Min({k, Len(u8)})
  IN  SubSeq(u8, At(from) + 1, At(to))

\* The constructor; iss is the 19999 of the code.
NewSocket(iss) ==
  [state |-> "CLOSED",
   txEdge |-> iss, txSize |-> 0, txPos |-> iss,   \* the transmit window
   rxEdge |-> 0,                                  \* the receive window
   queueTx |-> <<>>, transmitQueue |-> <<>>, receiveQueue |-> <<>>,
   ackRequired |-> FALSE, bufferedAmount |-> 0,
   timed |-> FALSE,                               \* in the set of tcp-timer.js
   out |-> <<>>, data |-> <<>>, events |-> <<>>]

Buffer(u8) == [fin |-> FALSE, u8 |-> u8]

FIN == [fin |-> TRUE, u8 |-> <<>>]   \* the null that close pushes on _queueTx

Emit(s, event) == [s EXCEPT !.events = Append(@, event)]

Packet(s, seq, flags, u8) ==
  [seq |-> seq, ack |-> s.rxEdge, flags |-> flags, wnd |-> RxWindow, u8 |-> u8]

-----------------------------------------------------------------------------
(* Transmission *)

_destroy(s) == [s EXCEPT !.timed = FALSE, !.transmitQueue = <<>>,
                         !.receiveQueue = <<>>, !.queueTx = <<>>]

_resetConnection(s) == _destroy([s EXCEPT !.state = "CLOSED"])

\* Lines 387-391: item i of the transmit queue goes out.
Transmitted(s, i) ==
  LET item == s.transmitQueue[i]
  IN  [s EXCEPT !.out = Append(@, Packet(s, item.seq, item.flags, item.u8)),
                !.ackRequired = FALSE,
                !.transmitQueue[i].retransmits = @ + 1]

\* The socket after the first i rounds of the loop of lines 375-394: an item
\* goes out if it is new or due.
SendRounds(s, due) ==
  LET after[i \in 0 .. Len(s.transmitQueue)] ==
        IF i = 0 THEN s
        ELSE IF s.transmitQueue[i].retransmits = 0 \/ i \in due
        THEN Transmitted(after[i - 1], i) ELSE after[i - 1]
  IN  after

\* The loop stops at the first item that was sent too often, and the connection
\* is reset; otherwise an acknowledgement that no item carried is sent alone.
_sendTransmitQueue(s, due) ==
  LET q == s.transmitQueue
      tired == {i \in DOMAIN q : q[i].retransmits > MaxRetransmits}
      sent == SendRounds(s, due)[Len(q)]
  IN  IF tired # {} THEN _resetConnection(SendRounds(s, due)[Min(tired) - 1])
      ELSE IF ~sent.ackRequired THEN sent
      ELSE [sent EXCEPT !.ackRequired = FALSE,
              !.out = Append(@, Packet(sent, sent.txPos, {"ACK"}, <<>>))]

Item(seq, len, u8, flags) ==
  [retransmits |-> 0, seq |-> seq, len |-> len, u8 |-> u8, flags |-> flags]

\* configured is the result of _configure: there is a route and a port.
_sendSYN(s, flags, configured) ==
  LET pushed == [s EXCEPT
        !.transmitQueue = Append(@, Item(s.txPos, 1, <<>>, flags)),
        !.txPos = SEQ_INC(@, 1)]
  IN  IF configured THEN _sendTransmitQueue(pushed, {}) ELSE pushed

\* _allocTransmitPosition, lines 266-268
Reserved(s, length) ==
  Min({SEQ_OFFSET(SEQ_INC(s.txEdge, s.txSize), s.txPos), length, MSS})

\* Lines 320 and 326
Unbuffered(s, n) == [s EXCEPT !.bufferedAmount = @ - n]

\* n sequence numbers are taken by a new item of the transmit queue.
Moved(s, n, u8, flags) ==
  [s EXCEPT !.txPos = SEQ_INC(@, n),
            !.transmitQueue = Append(@, Item(s.txPos, n, u8, flags))]

\* One round of the loop of lines 305-337, for the first buffer that is left;
\* .going says whether the loop goes on.
FillOne(acc) ==
  LET s == acc.s
      buf == Head(s.queueTx)
      reserved == Reserved(s, Len(buf.u8))
      moved == Unbuffered(
        Moved(s, reserved, Subarray(buf.u8, 0, reserved), {"ACK", "PSH"}), reserved)
  IN  IF buf.fin
      THEN [s |-> [Moved(s, 1, <<>>, {"ACK", "FIN"}) EXCEPT !.queueTx = Tail(@)],
            going |-> TRUE]
      ELSE IF reserved = 0 THEN [s |-> s, going |-> FALSE]
      ELSE IF reserved = Len(buf.u8)
      THEN [s |-> [moved EXCEPT !.queueTx = Tail(@)], going |-> TRUE]
      ELSE [s |-> [moved EXCEPT !.queueTx =
                     <<Buffer(Subarray(buf.u8, reserved, Len(buf.u8)))>> \o Tail(@)],
            going |-> FALSE]

FillRounds(s) ==
  LET after[i \in 0 .. Len(s.queueTx)] ==
        IF i = 0 THEN [s |-> s, going |-> TRUE]
        ELSE IF after[i - 1].going THEN FillOne(after[i - 1]) ELSE after[i - 1]
  IN  after

_fillTransmitQueue(s) == _sendTransmitQueue(FillRounds(s)[Len(s.queueTx)].s, {})

_isTransmittedUnacked(s, seq) ==
  IF s.txEdge = s.txPos THEN FALSE
  ELSE IF s.txEdge < s.txPos THEN seq > s.txEdge /\ seq <= s.txPos
  ELSE seq > s.txEdge \/ seq <= s.txPos

\* The longest prefix of items whose end is acknowledged is dropped.
_cleanupTransmitQueue(s) ==
  LET q == s.transmitQueue
      Acked(i) == ~_isTransmittedUnacked(s, SEQ_INC(q[i].seq, q[i].len))
      n == CHOOSE k \in 0 .. Len(q) :
             /\ \A i \in 1 .. k : Acked(i)
             /\ k = Len(q) \/ ~Acked(k + 1)
  IN  [s EXCEPT !.transmitQueue = SubSeq(q, n + 1, Len(q))]

\* Mutant: any acknowledgement is taken, old ones too.
_acceptACK_Any(s, ack, wnd) ==
  _fillTransmitQueue(_cleanupTransmitQueue([s EXCEPT !.txSize = wnd, !.txEdge = ack]))

\* Mutant: an acknowledgement is taken for one of all that was sent.
_acceptACK_All(s, ack, wnd) ==
  IF s.txEdge # ack /\ _isTransmittedUnacked(s, ack)
  THEN _fillTransmitQueue([s EXCEPT !.txSize = wnd, !.txEdge = s.txPos, !.transmitQueue = <<>>])
  ELSE [s EXCEPT !.txSize = wnd]

\* Mutant: the room an acknowledgement makes is not used.
_acceptACK_NoFill(s, ack, wnd) ==
  LET sized == [s EXCEPT !.txSize = wnd] IN
  IF s.txEdge # ack /\ _isTransmittedUnacked(s, ack)
  THEN _cleanupTransmitQueue([sized EXCEPT !.txEdge = ack])
  ELSE sized

_acceptACK(s, ack, wnd) ==
  LET sized == [s EXCEPT !.txSize = wnd] IN
  IF s.txEdge # ack /\ _isTransmittedUnacked(s, ack)
  THEN _fillTransmitQueue(_cleanupTransmitQueue([sized EXCEPT !.txEdge = ack]))
  ELSE sized

-----------------------------------------------------------------------------
(* Reception *)

_receiveWindowIsWithin(seq, edge) ==
  LET right == SEQ_INC(edge, RxWindow) IN
  IF edge < right THEN seq >= edge /\ seq < right
                  ELSE seq >= edge \/ seq < right

\* Mutant: data that was received in part is delivered as it came.
Fresh_Whole(item, lastAck) == item.u8

\* What is delivered of an item taken from the queue, lines 537-553: the part
\* from lastAck on, nothing if there is none.
Fresh(item, lastAck) ==
  LET diff == (lastAck - item.seq) % SeqSpace
  IN  IF diff < item.len THEN SubSeq(item.u8, diff + 1, Len(item.u8)) ELSE <<>>

\* Mutant: an item that is all old sets the edge back to its end.
AckAfter_Back(item, lastAck) == SEQ_INC(item.seq, item.len)

AckAfter(item, lastAck) ==
  LET diff == (lastAck - item.seq) % SeqSpace
  IN  IF diff < item.len THEN SEQ_INC(item.seq, item.len) ELSE lastAck

\* Mutant: only items that start exactly at the edge are taken.
Takes_Exact(item, lastAck) == item.len # 0 /\ item.seq = lastAck

\* An item is taken when it starts at lastAck or not within the window there.
Takes(item, lastAck) ==
  /\ item.len # 0
  /\ item.seq = lastAck \/ ~_receiveWindowIsWithin(item.seq, lastAck)

\* One round of the loop of lines 524-573: the first item that can be taken is
\* exchanged with the last one and removed.
TakeOne(acc) ==
  LET q == acc.queue
      takeable == {i \in DOMAIN q : Takes(q[i], acc.lastAck)}
      i == Min(takeable)
  IN  IF takeable = {} THEN acc
      ELSE [queue |-> SubSeq([q EXCEPT ![i] = q[Len(q)]], 1, Len(q) - 1),
            lastAck |-> AckAfter(q[i], acc.lastAck),
            data |-> acc.data \o Fresh(q[i], acc.lastAck)]

TakeRounds(s) ==
  LET after[j \in 0 .. Len(s.receiveQueue)] ==
        IF j = 0 THEN [queue |-> s.receiveQueue, lastAck |-> s.rxEdge, data |-> <<>>]
        ELSE TakeOne(after[j - 1])
  IN  after

_processReceiveQueue(s) ==
  LET n == Len(s.receiveQueue)
      end == TakeRounds(s)[n]
  IN  IF Len(end.queue) = n THEN s
      ELSE _sendTransmitQueue(
             [s EXCEPT !.receiveQueue = end.queue, !.rxEdge = end.lastAck,
                       !.data = @ \o end.data, !.ackRequired = TRUE], {})

_insertReceiveQueue(s, seq, len, u8) ==
  IF seq = s.rxEdge
  THEN LET slid == _sendTransmitQueue(
             [s EXCEPT !.data = @ \o u8, !.rxEdge = SEQ_INC(seq, len),
                       !.ackRequired = TRUE], {})
       IN  IF slid.receiveQueue = <<>> THEN slid ELSE _processReceiveQueue(slid)
  ELSE _processReceiveQueue([s EXCEPT
         !.receiveQueue = Append(@, [seq |-> seq, len |-> len, u8 |-> u8])])

\* Line 693-696, in the states that receive data
ReceiveData(s, p) ==
  LET accepted == _acceptACK(s, p.ack, p.wnd)
      n == Len(p.u8)
  IN  IF n > 0 /\ _receiveWindowIsWithin(SEQ_INC(p.seq, n - 1), accepted.rxEdge)
      THEN _insertReceiveQueue(accepted, p.seq, n, p.u8) ELSE accepted

\* The switch of lines 622-700, for every state but LISTEN
ReceiveByState(s, p) ==
  LET acked == _acceptACK(s, p.ack, p.wnd)
      finAcked == acked.txPos = p.ack
  IN
  CASE s.state = "SYN_SENT" ->
         IF p.flags \cap {"SYN", "ACK"} = {} THEN acked
         ELSE Emit([_sendTransmitQueue(
                      [acked EXCEPT !.rxEdge = SEQ_INC(p.seq, 1), !.ackRequired = TRUE], {})
                    EXCEPT !.state = "ESTABLISHED"], "open")
    [] s.state = "SYN_RECEIVED" ->
         IF "ACK" \notin p.flags THEN acked
         ELSE Emit([acked EXCEPT !.state = "ESTABLISHED"], "open")
    [] s.state = "LAST_ACK" ->
         IF finAcked THEN _destroy(Emit([acked EXCEPT !.state = "CLOSED"], "close"))
         ELSE acked
    [] s.state = "FIN_WAIT_1" ->
         ReceiveData(IF finAcked THEN [acked EXCEPT !.state = "FIN_WAIT_2"] ELSE acked, p)
    [] s.state \in {"FIN_WAIT_2", "ESTABLISHED"} -> ReceiveData(s, p)
    [] OTHER -> s

\* Mutant: the end of the stream is announced whatever the state.
FinMoves_Always(s) == Emit([s EXCEPT !.state = "CLOSE_WAIT"], "end")

\* Lines 705-721
FinMoves(s) ==
  CASE s.state = "FIN_WAIT_2" ->
         Emit(Emit([s EXCEPT !.state = "TIME_WAIT"], "end"), "close")
    [] s.state = "ESTABLISHED" -> Emit([s EXCEPT !.state = "CLOSE_WAIT"], "end")
    [] OTHER -> s

_receive(s, p) ==
  LET received == ReceiveByState(s, p) IN
  IF "FIN" \in p.flags
  THEN FinMoves(_insertReceiveQueue(received, SEQ_INC(p.seq, Len(p.u8)), 1, <<>>))
  ELSE received

-----------------------------------------------------------------------------
(* The calls of the application and of the timer *)

open(s, configured) ==
  [_sendSYN([s EXCEPT !.state = "SYN_SENT"], {"SYN"}, configured) EXCEPT !.timed = TRUE]

\* A listening socket answers a SYN with a new socket (lines 633-648).
Accepted(iss, p) ==
  [_sendSYN([NewSocket(iss) EXCEPT !.rxEdge = SEQ_INC(p.seq, 1), !.state = "SYN_RECEIVED"],
            {"SYN", "ACK"}, TRUE) EXCEPT !.timed = TRUE]

CanSend(s) == s.state \in {"ESTABLISHED", "CLOSE_WAIT"}

send(s, u8) ==
  _fillTransmitQueue([s EXCEPT !.bufferedAmount = @ + Len(u8), !.queueTx = Append(@, Buffer(u8))])

CanClose(s) == s.state \in {"ESTABLISHED", "CLOSE_WAIT"}

\* close, of a socket that does not listen, and halfclose
close(s) ==
  _fillTransmitQueue([s EXCEPT
    !.state = IF @ = "ESTABLISHED" THEN "FIN_WAIT_1" ELSE "LAST_ACK",
    !.queueTx = Append(@, FIN)])

\* Mutant: a socket in TIME_WAIT is never destroyed.
_timerTick_Waits(s, due, configured, expired) ==
  IF s.state = "TIME_WAIT" \/ ~configured THEN s ELSE _sendTransmitQueue(s, due)

\* expired: 2 MSL have passed since the socket went to TIME_WAIT.
_timerTick(s, due, configured, expired) ==
  CASE s.state = "TIME_WAIT" ->
         IF expired THEN _destroy([s EXCEPT !.state = "CLOSED"]) ELSE s
    [] s.state \in {"SYN_SENT", "SYN_RECEIVED"} ->
         IF configured THEN _sendTransmitQueue(s, due) ELSE s
    [] s.state \in {"ESTABLISHED", "FIN_WAIT_1"} -> _sendTransmitQueue(s, due)
    [] OTHER -> s
=============================================================================
