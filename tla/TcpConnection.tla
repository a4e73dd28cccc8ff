--------------------------- MODULE TcpConnection ----------------------------
(***************************************************************************)
(* A client and a server of js/core/net/tcp-socket.js connected by a       *)
(* network: tcp.js hands a packet to the listening socket's connection for *)
(* its sender, or to the listening socket itself, which answers a SYN with *)
(* a new connection.  An unreliable network loses, duplicates and reorders *)
(* packets: it is the set of all packets ever sent, any of which may still *)
(* arrive.  A reliable one is a queue in each direction.                   *)
(*                                                                         *)
(* Byte k of what an application sends is k.                               *)
(***************************************************************************)
EXTENDS TcpSocket

CONSTANTS Reliable,        \* the network delivers every packet once, in order
          Timeouts,        \* packets may be overdue and retransmitted
          ActiveClosers,   \* the sides that may close before the other one
          ListenerCloses,  \* the server may close its listening socket
          Senders,         \* the sides that send data
          MaxSends,        \* bound: buffers each of the senders sends
          BufferSize,      \* bytes in each of them
          ISS              \* 19999 in the code

ASSUME ActiveClosers \cup Senders \subseteq {"client", "server"}

VARIABLES sock,        \* the sockets of the two sides
          listening,   \* the listening socket is in state LISTEN
          accepted,    \* the server has a connection, in its map if timed
          net,         \* packets on their way to each side
          sends,       \* how many buffers each side has sent
          routed       \* the client has a route to the server

vars == <<sock, listening, accepted, net, sends, routed>>

Side == {"client", "server"}

Other(side) == IF side = "client" THEN "server" ELSE "client"

-----------------------------------------------------------------------------
Put(packets, new) ==
  IF Reliable THEN packets \o new ELSE packets \cup Range(new)

Arriving(packets) ==
  IF ~Reliable THEN packets
  ELSE IF packets = <<>> THEN {} ELSE {Head(packets)}

Gone(packets) == IF Reliable THEN Tail(packets) ELSE packets

\* The socket of side becomes s; what it transmitted is on its way, and what
\* arrived, if anything did, is gone.
Becomes(side, after, arrived) ==
  \E s \in {after} :
    /\ sock' = [sock EXCEPT ![side] = [s EXCEPT !.out = <<>>]]
    /\ Len(s.receiveQueue) <= MaxQueue
    /\ net' = [net EXCEPT ![Other(side)] = Put(@, s.out),
                          ![side] = IF arrived THEN Gone(@) ELSE @]

Init ==
  /\ sock = [side \in Side |-> NewSocket(ISS)]
  /\ listening = TRUE /\ accepted = FALSE
  /\ net = [side \in Side |-> IF Reliable THEN <<>> ELSE {}]
  /\ sends = [side \in Side |-> 0]
  /\ routed \in BOOLEAN

RouteAdded == ~routed /\ routed' = TRUE /\ UNCHANGED <<sock, listening, accepted, net, sends>>

CanOpen == sock["client"].state = "CLOSED" /\ sock["client"].txPos = ISS

ClientOpens ==
  /\ CanOpen
  /\ Becomes("client", open(sock["client"], routed), FALSE)
  /\ UNCHANGED <<listening, accepted, sends, routed>>

ClientReceives(p) ==
  /\ ~CanOpen
  /\ p \in Arriving(net["client"])
  /\ Becomes("client", _receive(sock["client"], p), TRUE)
  /\ UNCHANGED <<listening, accepted, sends, routed>>

\* tcp.js 27-45 and tcp-socket.js 623-651.  The connection is one only: once
\* it is gone from the map, further packets of the client are not followed.
ServerReceives(p) ==
  /\ p \in Arriving(net["server"])
  /\ \/ /\ listening /\ accepted /\ sock["server"].timed
        /\ Becomes("server", _receive(sock["server"], p), TRUE)
        /\ UNCHANGED accepted
     \/ /\ listening /\ ~accepted /\ "SYN" \in p.flags
        /\ Becomes("server", Accepted(ISS, p), TRUE)
        /\ accepted' = TRUE
     \/ /\ ~listening \/ (~accepted /\ "SYN" \notin p.flags)
                      \/ (accepted /\ ~sock["server"].timed)
        /\ net' = [net EXCEPT !["server"] = Gone(@)]
        /\ UNCHANGED <<sock, accepted>>
  /\ UNCHANGED <<listening, sends, routed>>

Send(side) ==
  /\ CanSend(sock[side])
  /\ side \in Senders /\ sends[side] < MaxSends
  /\ sends' = [sends EXCEPT ![side] = @ + 1]
  /\ LET first == sends[side] * BufferSize
     IN  Becomes(side, send(sock[side], Bytes(first, first + BufferSize)), FALSE)
  /\ UNCHANGED <<listening, accepted, routed>>

MayClose(side) ==
  /\ CanClose(sock[side])
  /\ sock[side].state = "ESTABLISHED" => side \in ActiveClosers

Close(side) ==
  /\ MayClose(side)
  /\ Becomes(side, close(sock[side]), FALSE)
  /\ UNCHANGED <<listening, accepted, sends, routed>>

\* Lines 471-481: the port is freed, the connections are left alone.
ListenerClose ==
  /\ ListenerCloses
  /\ listening
  /\ listening' = FALSE
  /\ UNCHANGED <<sock, accepted, net, sends, routed>>

\* tcp-timer.js calls _timerTick of the sockets in its set.
Tick(side) ==
  /\ sock[side].timed
  /\ \E due \in SUBSET (IF Timeouts THEN DOMAIN sock[side].transmitQueue ELSE {}) :
       Becomes(side, _timerTick(sock[side], due, side = "server" \/ routed, TRUE), FALSE)
  /\ UNCHANGED <<listening, accepted, sends, routed>>

Next ==
  \/ RouteAdded \/ ClientOpens \/ ListenerClose
  \/ \E p \in Arriving(net["client"]) : ClientReceives(p)
  \/ \E p \in Arriving(net["server"]) : ServerReceives(p)
  \/ \E side \in Side : Send(side) \/ Close(side) \/ Tick(side)

SafeSpec == Init /\ [][Next]_vars

TickChanges(side) ==
  sock[side].timed /\ _timerTick(sock[side], {}, side = "server" \/ routed, TRUE) # sock[side]

\* Packets arrive, the timer ticks, a route is found, and the applications
\* close what they may close: weak fairness of each, with the condition under
\* which the action is enabled written out.
Spec ==
  /\ SafeSpec
  /\ WF_vars(RouteAdded)
  /\ []<>~CanOpen \/ []<><<ClientOpens>>_vars
  /\ \/ []<>(net["client"] = <<>>)
     \/ []<><<\E p \in Arriving(net["client"]) : ClientReceives(p)>>_vars
  /\ \/ []<>(net["server"] = <<>>)
     \/ []<><<\E p \in Arriving(net["server"]) : ServerReceives(p)>>_vars
  /\ \A side \in Side : []<>~TickChanges(side) \/ []<><<Tick(side)>>_vars
  /\ \A side \in Side : []<>~MayClose(side) \/ []<><<Close(side)>>_vars

-----------------------------------------------------------------------------
Sent(side) == sends[side] * BufferSize

\* Position of a sequence number in the stream of a side; SYN is 0, byte k is k.
Position(seq) == (seq - ISS) % SeqSpace

Synchronised(side) ==
  sock[side].state \notin {"CLOSED", "LISTEN", "SYN_SENT", "SYN_RECEIVED"}

\* What one application receives is a prefix of what the other one sent,
\* whatever the network and the retransmissions did.
StreamsArePrefixes ==
  \A side \in Side :
    LET data == sock[side].data
    IN  Len(data) <= Sent(Other(side)) /\ data = Bytes(0, Len(data))

\* Between two synchronised sockets: what the sender takes as acknowledged
\* was received, and what was received was sent.  An acknowledgement that runs
\* ahead would drop data from the transmit queue that can never be sent again
\* (_acceptACK, _cleanupTransmitQueue).
AcknowledgedWasReceived ==
  \A side \in Side : (Synchronised(side) /\ Synchronised(Other(side))) =>
    LET s == sock[side]  r == sock[Other(side)] IN
    /\ Position(s.txEdge) <= Position(r.rxEdge)
    /\ Position(r.rxEdge) <= Position(s.txPos)

\* The transmit queue covers exactly what was sent and not acknowledged, in
\* order and without a gap, so that every such byte can be retransmitted.
TransmitQueueCovers ==
  \A side \in Side : sock[side].timed =>
    LET q == sock[side].transmitQueue IN
    /\ \A i \in 1 .. Len(q) - 1 : q[i + 1].seq = SEQ_INC(q[i].seq, q[i].len)
    /\ q # <<>> => /\ SEQ_INC(q[Len(q)].seq, q[Len(q)].len) = sock[side].txPos
                   /\ Position(q[1].seq) <= Position(sock[side].txEdge)
    /\ q = <<>> => sock[side].txEdge = sock[side].txPos

\* Each socket opens at most once, ends its stream at most once and closes at
\* most once, in that order.
EventsInOrder ==
  \A side \in Side :
    LET events == sock[side].events
    IN  Len(events) <= 3 /\ events = SubSeq(<<"open", "end", "close">>, 1, Len(events))

\* On a reliable network every byte sent arrives.
EverythingArrives ==
  \A side \in Side, n \in 1 .. MaxSends :
    (sends[side] = n) ~> (Len(sock[Other(side)].data) >= n * BufferSize)

\* On a reliable network, when one side closes first and the other closes after
\* it, both sockets get to CLOSED and leave the timer.
BothClose == <>[](\A side \in Side : sock[side].state = "CLOSED" /\ ~sock[side].timed)
=============================================================================
