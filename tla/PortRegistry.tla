---------------------------- MODULE PortRegistry ----------------------------
(***************************************************************************)
(* What a port allocator promises to the sockets that use it: a table that *)
(* gives every port at most one owner, a way to take a named port if it is *)
(* free, a way to take any free ephemeral port, and a refusal only when    *)
(* the ephemeral range really is exhausted.  How a free port is found, and *)
(* which one, is left open.                                                *)
(***************************************************************************)
EXTENDS Integers

CONSTANTS Socket,    \* the objects that may own a port
          NULL,      \* no socket
          Port,      \* the usable port numbers, 0 is not one of them
          Ephemeral  \* the ports handed out on demand

VARIABLES owner,     \* owner[p] is the socket that owns p, or NULL
          reply      \* the last call: who asked for what (0: any
                     \* ephemeral port), and the port or 0 it was given

vars == <<owner, reply>>

Answer(s, asked, port) == [to |-> s, asked |-> asked, port |-> port]

Init == /\ owner = [p \in Port |-> NULL]
        /\ reply = Answer(NULL, 0, 0)

Grant(s, asked, port) ==
  /\ owner[port] = NULL
  /\ owner' = [owner EXCEPT ![port] = s]
  /\ reply' = Answer(s, asked, port)

Refuse(s, asked) == reply' = Answer(s, asked, 0) /\ UNCHANGED owner

TakeEphemeral(s) ==
  \/ \E port \in Ephemeral : Grant(s, 0, port)
  \/ (\A port \in Ephemeral : owner[port] # NULL) /\ Refuse(s, 0)

TakePort(s, port) ==
  \/ Grant(s, port, port)
  \/ owner[port] # NULL /\ Refuse(s, port)

Release(port) ==
  /\ owner' = [owner EXCEPT ![port] = NULL]
  /\ reply' = Answer(NULL, port, port)

Next ==
  \/ \E s \in Socket : TakeEphemeral(s)
  \/ \E s \in Socket, port \in Port : TakePort(s, port)
  \/ \E port \in Port : Release(port)

Spec == Init /\ [][Next]_vars
=============================================================================
