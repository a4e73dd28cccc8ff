----------------------------- MODULE UdpSocket ------------------------------
(***************************************************************************)
(* js/core/net/udp-socket.js: UDP sockets over the port allocator they     *)
(* share.  A socket knows its port by number only; the allocator knows the *)
(* socket that owns a port.  Packets leave no state behind, so a send that *)
(* finds no route, or a socket that has a port, is no step.                *)
(*                                                                         *)
(* close does not forget the port.  Two uses of the interface therefore    *)
(* break the agreement of the two sides, and misused records them: binding *)
(* a socket that holds a port, and closing a socket twice.                 *)
(***************************************************************************)
EXTENDS PortAllocator

VARIABLES boundPort,  \* _port of each socket, 0 for none
          closed,     \* history: the sockets closed with the port they still name
          misused     \* history: see above

udpVars == <<vars, boundPort, closed, misused>>

UdpInit ==
  /\ Init
  /\ boundPort = [s \in Socket |-> 0]
  /\ closed = {}
  /\ misused = FALSE

\* A new socket in the place of one that was closed and that the allocator does
\* not know any more.
constructor(s) ==
  /\ s \in closed
  /\ \A p \in Port : lookup(p) # s
  /\ boundPort' = [boundPort EXCEPT ![s] = 0]
  /\ closed' = closed \ {s}
  /\ UNCHANGED <<vars, misused>>

\* The first send of a socket that is not bound; 0 of the allocator is the
\* exception E_NO_FREE_PORT.
send(s) ==
  /\ boundPort[s] = 0
  /\ allocEphemeral(s)
  /\ boundPort' = [boundPort EXCEPT ![s] = reply'.port]
  /\ UNCHANGED <<closed, misused>>

\* Mutant: the socket notes the port before it knows that it got it.
bind_NotesFirst(s, p) ==
  /\ allocPort(p, s)
  /\ boundPort' = [boundPort EXCEPT ![s] = p]
  /\ closed' = closed \ {s}
  /\ misused' = (misused \/ (boundPort[s] # 0 /\ s \notin closed))

bind(s, p) ==
  /\ allocPort(p, s)
  /\ \/ /\ reply'.port = 0        \* E_ADDRESS_IN_USE
        /\ UNCHANGED <<boundPort, closed, misused>>
     \/ /\ reply'.port # 0
        /\ boundPort' = [boundPort EXCEPT ![s] = p]
        /\ closed' = closed \ {s}
        /\ misused' = (misused \/ (boundPort[s] # 0 /\ s \notin closed))

close(s) ==
  /\ boundPort[s] # 0
  /\ free(boundPort[s])
  /\ closed' = closed \cup {s}
  /\ misused' = (misused \/ s \in closed)
  /\ UNCHANGED boundPort

UdpNext ==
  \E s \in Socket :
    \/ constructor(s) \/ send(s) \/ close(s)
    \/ \E p \in Port : bind(s, p)

UdpSpec == UdpInit /\ [][UdpNext]_udpVars

-----------------------------------------------------------------------------
\* As long as the interface is not misused, a port is owned by a socket exactly
\* while that socket is open and names it: no packet goes to a socket that has
\* given the port up, an open socket is never cut off by another one's close,
\* also when its bind failed, and no port is lost (udp-socket.js 36-99).
PortsAgree ==
  ~misused => \A s \in Socket, p \in Port :
                lookup(p) = s <=> (boundPort[s] = p /\ s \notin closed)
=============================================================================
