--------------------------- MODULE PortAllocator ----------------------------
(***************************************************************************)
(* js/core/net/port-allocator.js: the table that hands out UDP and TCP     *)
(* port numbers.  Ports taken by number live in a Map; ports taken on      *)
(* demand live in an array that grows up to the ephemeral range and is     *)
(* searched for holes from a cursor.                                       *)
(*                                                                         *)
(* The array _sockets is its length and a function over all the slots it   *)
(* may ever have.  A Map that does not exist yet (null) behaves as an      *)
(* empty one, and a port absent from the Map is mapped to NULL.            *)
(***************************************************************************)
EXTENDS Integers, FiniteSets

CONSTANTS Socket, NULL,
          EPHEMERAL_PORT_FIRST,
          EPHEMERAL_PORT_COUNT,
          MaxPort               \* the largest port number, 65535 in the code

ASSUME PortAssumption ==
  /\ NULL \notin Socket
  /\ EPHEMERAL_PORT_FIRST \in Nat \ {0}
  /\ EPHEMERAL_PORT_COUNT \in Nat
  /\ MaxPort \in Nat
  /\ EPHEMERAL_PORT_FIRST + EPHEMERAL_PORT_COUNT <= MaxPort

VARIABLES searchStart,  \* _searchStart, where the search for a hole begins
          allocated,    \* _allocated
          length,       \* _sockets.length
          sockets,      \* _sockets
          map,          \* _map
          reply         \* the last call: who asked for what, and the value returned

vars == <<searchStart, allocated, length, sockets, map, reply>>

Port == 1 .. MaxPort

Slot == 0 .. EPHEMERAL_PORT_COUNT - 1

PortOf(i) == EPHEMERAL_PORT_FIRST + i

SlotOf(port) == port - EPHEMERAL_PORT_FIRST

isEphemeralRange(port) ==
  /\ port >= EPHEMERAL_PORT_FIRST
  /\ port < EPHEMERAL_PORT_FIRST + EPHEMERAL_PORT_COUNT

InMap(port) == map[port] # NULL

lookup(port) ==
  IF InMap(port) THEN map[port]
  ELSE IF isEphemeralRange(port) /\ SlotOf(port) < length
       THEN sockets[SlotOf(port)]
       ELSE NULL

\* asked is 0 for a request for any ephemeral port.
Answer(s, asked, port) == [to |-> s, asked |-> asked, port |-> port]

-----------------------------------------------------------------------------
Init ==
  /\ searchStart = 0
  /\ allocated = 0
  /\ length = 0
  /\ sockets = [i \in Slot |-> NULL]
  /\ map = [p \in Port |-> NULL]
  /\ reply = Answer(NULL, 0, 0)

\* Mutant: the Map is not consulted.
IsHole_IgnoresMap(i) == sockets[i] = NULL

IsHole(i) == sockets[i] = NULL /\ ~InMap(PortOf(i))

NoHoleIn(from, below) == \A i \in from .. below - 1 : ~IsHole(i)

\* Lines 43-53: the first hole at or after the cursor.
FillHole(s) ==
  \E i \in searchStart .. length - 1 :
    /\ IsHole(i)
    /\ NoHoleIn(searchStart, i)
    /\ sockets' = [sockets EXCEPT ![i] = s]
    /\ searchStart' = i + 1
    /\ allocated' = allocated + 1
    /\ reply' = Answer(s, 0, PortOf(i))
    /\ UNCHANGED <<length, map>>

\* Lines 55-66: no hole; push null for every port the Map holds, then the
\* socket.
PushSocket(s) ==
  /\ NoHoleIn(searchStart, length)
  /\ \E i \in length .. EPHEMERAL_PORT_COUNT - 1 :
       /\ ~InMap(PortOf(i))
       /\ \A j \in length .. i - 1 : InMap(PortOf(j))
       /\ sockets' = [sockets EXCEPT ![i] = s]
       /\ length' = i + 1
       /\ searchStart' = i + 1
       /\ allocated' = allocated + 1
       /\ reply' = Answer(s, 0, PortOf(i))
       /\ UNCHANGED map

\* Lines 55-59 and 68: the array is filled up with nulls and 0 is returned.
Exhausted(s) ==
  /\ NoHoleIn(searchStart, length)
  /\ \A j \in length .. EPHEMERAL_PORT_COUNT - 1 : InMap(PortOf(j))
  /\ length' = EPHEMERAL_PORT_COUNT
  /\ reply' = Answer(s, 0, 0)
  /\ UNCHANGED <<searchStart, allocated, sockets, map>>

allocEphemeral(s) == FillHole(s) \/ PushSocket(s) \/ Exhausted(s)

\* FALSE of the code is the answer 0, TRUE is the port asked for.
allocPort(port, s) ==
  \/ /\ lookup(port) # NULL
     /\ reply' = Answer(s, port, 0)
     /\ UNCHANGED <<searchStart, allocated, length, sockets, map>>
  \/ /\ lookup(port) = NULL
     /\ map' = [map EXCEPT ![port] = s]
     /\ allocated' = allocated + 1
     /\ reply' = Answer(s, port, port)
     /\ UNCHANGED <<searchStart, length, sockets>>

\* Mutant: freeing a port never moves the cursor back.
LoweredTo_Never(i) == searchStart

\* The cursor after the slot of a freed port: it may only move back.
LoweredTo(i) == IF i < searchStart THEN i ELSE searchStart

\* Mutant: the count is not given back.
FreeMapped_Uncounted(port) ==
  /\ InMap(port)
  /\ map' = [map EXCEPT ![port] = NULL]
  /\ searchStart' = IF isEphemeralRange(port)
                    THEN LoweredTo(SlotOf(port)) ELSE searchStart
  /\ UNCHANGED <<length, sockets, allocated>>

\* Lines 89-99
FreeMapped(port) ==
  /\ InMap(port)
  /\ map' = [map EXCEPT ![port] = NULL]
  /\ allocated' = allocated - 1
  /\ searchStart' = IF isEphemeralRange(port)
                    THEN LoweredTo(SlotOf(port)) ELSE searchStart
  /\ UNCHANGED <<length, sockets>>

\* Lines 101-121
FreeSlot(port) ==
  /\ ~InMap(port)
  /\ isEphemeralRange(port)
  /\ SlotOf(port) < length
  /\ sockets[SlotOf(port)] # NULL
  /\ allocated' = allocated - 1
  /\ \/ /\ allocated' = 0
        /\ sockets' = [i \in Slot |-> NULL]
        /\ length' = 0
        /\ searchStart' = 0
     \/ /\ allocated' # 0
        /\ sockets' = [sockets EXCEPT ![SlotOf(port)] = NULL]
        /\ searchStart' = LoweredTo(SlotOf(port))
        /\ UNCHANGED length
  /\ UNCHANGED map

\* Lines 101-110: nobody owns the port, nothing happens.
FreeNothing(port) ==
  /\ lookup(port) = NULL
  /\ UNCHANGED <<searchStart, allocated, length, sockets, map>>

free(port) ==
  /\ FreeMapped(port) \/ FreeSlot(port) \/ FreeNothing(port)
  /\ reply' = Answer(NULL, port, port)

Next ==
  \/ \E s \in Socket : allocEphemeral(s)
  \/ \E s \in Socket, port \in Port : allocPort(port, s)
  \/ \E port \in Port : free(port)

Spec == Init /\ [][Next]_vars

-----------------------------------------------------------------------------
Owned == {p \in Port : lookup(p) # NULL}

\* Every field of the allocator keeps its type (port-allocator.js 27-32): the
\* array stays within the ephemeral range and holds nothing past its length,
\* the cursor stays within the array.
TypeOK ==
  /\ searchStart \in 0 .. length
  /\ allocated \in Nat
  /\ length \in 0 .. EPHEMERAL_PORT_COUNT
  /\ sockets \in [Slot -> Socket \cup {NULL}]
  /\ map \in [Port -> Socket \cup {NULL}]
  /\ reply \in [to : Socket \cup {NULL}, asked : Port \cup {0}, port : Port \cup {0}]
  /\ \A i \in Slot : i >= length => sockets[i] = NULL

\* No hole is ever left behind the cursor: every slot that allocEphemeral will
\* not look at is taken, in the array or in the Map.  Lost otherwise: ports
\* nobody owns and nobody can be given (lines 43-48, 93-95, 113-115).
SearchStartSound == \A i \in Slot : i < searchStart => ~IsHole(i)

\* No port is owned twice, once by number in the Map and once on demand in
\* the array, where the Map's owner would hide the other one from lookup
\* (lines 45, 56, 73).
OneOwner == \A i \in Slot : sockets[i] = NULL \/ ~InMap(PortOf(i))

\* allocatedCount is the number of ports that have an owner, whatever the
\* order of allocations, frees and double frees (lines 47, 62, 81, 91, 116);
\* the array is thrown away when it reaches zero, so an inexact count would
\* forget live sockets.
AllocatedExact == allocated = Cardinality(Owned)

\* The allocator implements the abstract table: a port is granted only if it
\* had no owner, a grant or a release changes no other port, and 0 is
\* answered only when every ephemeral port is owned.
Registry == INSTANCE PortRegistry WITH
  owner <- [p \in Port |-> lookup(p)],
  Ephemeral <- {p \in Port : isEphemeralRange(p)}

\* See Registry: every behaviour of port-allocator.js is one of the table's.
RegistrySpec == Registry!Spec
=============================================================================
