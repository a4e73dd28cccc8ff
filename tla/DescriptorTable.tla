-------------------------- MODULE DescriptorTable ---------------------------
(***************************************************************************)
(* js/driver/virtio/vring/descriptor-table.js: the table of descriptors    *)
(* that a virtio driver and its device share.  Free descriptors form a     *)
(* list threaded through the same "next" fields that link the buffers of a *)
(* request, and a request is given back by splicing its whole chain in     *)
(* front of that list.  The device gives chains back in any order.         *)
(*                                                                         *)
(* Addresses and lengths are left out: a descriptor is told from another   *)
(* by the buffer it was set to.                                            *)
(***************************************************************************)
EXTENDS Integers, Sequences

CONSTANTS ringSize,
          Buffer,      \* the buffers of the drivers
          NULL,
          Garbage,     \* what uninitialised memory may hold
          Request      \* the arguments of placeBuffers that are tried: the
                       \* buffers, and the write flags

ASSUME TableAssumption ==
  /\ ringSize \in Nat \ {0}
  /\ Garbage # {} /\ Garbage \subseteq 0 .. ringSize - 1
  /\ NULL \notin Buffer
  /\ Request \subseteq [bufs : Seq(Buffer), flags : Seq(BOOLEAN)]
  /\ \A r \in Request : r.bufs # <<>>

VARIABLES next,                  \* the next field of each descriptor
          flagNext, flagWrite,   \* VRING_DESC_F_NEXT and VRING_DESC_F_WRITE
          freeDescriptorHead,
          descriptorsAvailable,
          descriptorsBuffers,
          lent                   \* history: the chains placed and not yet
                                 \* given back, with what they were made of

tableVars == <<next, flagNext, flagWrite, freeDescriptorHead,
               descriptorsAvailable, descriptorsBuffers, lent>>

Descriptor == 0 .. ringSize - 1

TableInit ==
  /\ freeDescriptorHead = 0
  /\ descriptorsAvailable = ringSize
  /\ descriptorsBuffers = [d \in Descriptor |-> NULL]
  /\ \E last \in Garbage :   \* the last one is not initialised
       next = [d \in Descriptor |-> IF d < ringSize - 1 THEN d + 1 ELSE last]
  /\ flagNext = [d \in Descriptor |-> FALSE]
  /\ flagWrite = [d \in Descriptor |-> FALSE]
  /\ lent = {}

-----------------------------------------------------------------------------
\* w is the path of n descriptors that starts at d.
IsPath(w, n, d) ==
  /\ w \in [1 .. n -> Descriptor]
  /\ w[1] = d
  /\ \A i \in 1 .. n - 1 : w[i + 1] = next[w[i]]

\* f after a loop that stores v[1], v[2], ... at w[1], w[2], ...
StoreAlong(f, w, v) ==
  [d \in Descriptor |->
     IF \E i \in DOMAIN w : w[i] = d
     THEN v[CHOOSE i \in DOMAIN w :
              w[i] = d /\ \A j \in DOMAIN w : w[j] = d => j <= i]
     ELSE f[d]]

\* Mutant: every descriptor of a request but the last two is linked.
Linked_Short(i, n) == i + 1 < n

\* Line 113
Linked(i, n) == i # n

\* Mutant: the descriptors are taken but not counted.
Taken_Uncounted(n) == descriptorsAvailable

\* Line 125
Taken(n) == descriptorsAvailable - n

\* placeBuffers when there is room: the first descriptors of the free list
\* are set one by one, and the list goes on after them.
placeBuffers(bufs, flags) ==
  LET n == Len(bufs) IN
  /\ descriptorsAvailable >= n
  /\ \E w \in [1 .. n -> Descriptor] :
       /\ IsPath(w, n, freeDescriptorHead)
       /\ flagNext' = StoreAlong(flagNext, w, [i \in 1 .. n |-> Linked(i, n)])
       /\ flagWrite' = StoreAlong(flagWrite, w,
            [i \in 1 .. n |-> i <= Len(flags) /\ flags[i]])
       /\ descriptorsBuffers' = StoreAlong(descriptorsBuffers, w, bufs)
       /\ descriptorsAvailable' = Taken(n)
       /\ freeDescriptorHead' = next[w[n]]
       /\ lent' = lent \cup {[ids |-> w, bufs |-> bufs]}
       /\ UNCHANGED next

\* The chain that getBuffer walks: NEXT is set on all but its last descriptor.
IsChain(w, n, d) ==
  /\ IsPath(w, n, d)
  /\ \A i \in 1 .. n : flagNext[w[i]] <=> i # n

\* Mutant: the free list is hung on the first descriptor of the chain.
LastOf_First(w, n) == w[1]

\* Line 145
LastOf(w, n) == w[n]

getBuffer(d) ==
  \E n \in 1 .. ringSize : \E w \in [1 .. n -> Descriptor] :
    /\ IsChain(w, n, d)
    /\ next' = [next EXCEPT ![LastOf(w, n)] = freeDescriptorHead]
    /\ freeDescriptorHead' = d
    /\ descriptorsAvailable' = descriptorsAvailable + n
    /\ descriptorsBuffers' = [descriptorsBuffers EXCEPT ![d] = NULL]
    /\ lent' = {c \in lent : c.ids[1] # d}
    /\ UNCHANGED <<flagNext, flagWrite>>

TableNext ==
  \/ \E r \in Request : placeBuffers(r.bufs, r.flags)
  \/ \E c \in lent : getBuffer(c.ids[1])

TableSpec == TableInit /\ [][TableNext]_tableVars

-----------------------------------------------------------------------------
IdsOf(c) == {c.ids[i] : i \in DOMAIN c.ids}

InUse == UNION {IdsOf(c) : c \in lent}

\* The first descriptorsAvailable descriptors from freeDescriptorHead on are
\* distinct and are exactly the ones the device does not have: placeBuffers
\* (lines 99-126) never overwrites a descriptor in flight, and no descriptor
\* is ever lost, in whatever order the chains come back.
FreeListSound ==
  \E w \in [1 .. descriptorsAvailable -> Descriptor] :
    /\ \A i, j \in 1 .. descriptorsAvailable : w[i] = w[j] => i = j
    /\ descriptorsAvailable > 0 => IsPath(w, descriptorsAvailable, freeDescriptorHead)
    /\ {w[i] : i \in 1 .. descriptorsAvailable} = Descriptor \ InUse

\* As long as a request is in flight its chain can be walked as it was built,
\* and getBuffer (lines 131-150) will find its first buffer: no other call
\* changes its links, its flags or its buffers.
ChainsIntact ==
  \A c \in lent :
    /\ IsChain(c.ids, Len(c.bufs), c.ids[1])
    /\ \A i \in 1 .. Len(c.bufs) : descriptorsBuffers[c.ids[i]] = c.bufs[i]
=============================================================================
