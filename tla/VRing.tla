------------------------------- MODULE VRing --------------------------------
(***************************************************************************)
(* js/driver/virtio/vring: the queue through which a virtio driver and its *)
(* device exchange buffers.  The driver offers chains of descriptors in    *)
(* the available ring, the device gives them back in the used ring; each   *)
(* side may tell the other not to signal it while it is busy.  The device  *)
(* runs concurrently with every line of the driver's code, so each access  *)
(* of the driver to memory that the device writes, and each write that the *)
(* device looks at, is a step of its own.                                  *)
(*                                                                         *)
(* The 16-bit indices of the rings count modulo IdxMod.  The event index   *)
(* is left out: no driver negotiates VIRTIO_RING_F_EVENT_IDX.              *)
(***************************************************************************)
EXTENDS DescriptorTable, Folds

CONSTANTS IdxMod,              \* 2^16 in the code
          Call,                \* the calls of placeBuffers that drivers make, with
                               \* the kinds of queues they make them on
          Kinds                \* of queues: "interrupts"; "suppressed", a transmit
                               \* queue; "polled", a receive queue of net.js, whose
                               \* interrupts may be lost before the handler

ASSUME RingAssumption ==
  /\ IdxMod \in Nat /\ IdxMod > ringSize /\ IdxMod % ringSize = 0
  /\ Kinds \subseteq {"interrupts", "suppressed", "polled"}

VARIABLES kind,                               \* of this queue; never changes
          availIdx, availRing, noInterrupt,   \* written by the driver
          usedIdx, usedRing, noNotify,        \* written by the device
          lastUsedIndex,                      \* usedRing.lastUsedIndex
          pc,                                 \* where the driver is
          placing,                            \* the call it is in, or NULL
          devicePc, taken, held, unsignalled, \* the device's own state
          notified,                           \* queueNotify was called
          isr, irq                            \* ISR_STATUS; handler to be run

ringVars == <<kind, availIdx, availRing, noInterrupt, usedIdx, usedRing, noNotify,
              lastUsedIndex>>
deviceVars == <<devicePc, taken, held, unsignalled>>
signalVars == <<notified, isr, irq>>
vars == <<tableVars, ringVars, deviceVars, signalVars, pc, placing>>

\* suppressUsedBuffers was called.
suppressInterrupts == kind = "suppressed"

Inc(idx) == (idx + 1) % IdxMod

SlotOf(idx) == idx % ringSize

Init ==
  /\ TableInit
  /\ kind \in Kinds
  /\ availIdx = 0 /\ usedIdx = 0 /\ lastUsedIndex = 0 /\ taken = 0
  /\ availRing = [i \in Descriptor |-> 0]
  /\ usedRing = [i \in Descriptor |-> 0]
  /\ noInterrupt = suppressInterrupts
  /\ noNotify = FALSE
  /\ devicePc = "asleep" /\ held = {} /\ unsignalled = FALSE
  /\ notified = FALSE /\ isr = FALSE /\ irq = FALSE
  /\ pc = "idle" /\ placing = NULL

-----------------------------------------------------------------------------
(* The driver *)

\* A buffer over two pages takes two descriptors (vring/index.js 94-114).
\* The array of write flags is passed on as it is; without one, every
\* descriptor has the same flag (descriptor-table.js 104-110).
Pieces(c) ==
  LET bufs == MapThenFoldSet(\o, <<>>,
                LAMBDA i : IF c.pages[i] = 1 THEN <<c.bufs[i]>> ELSE <<c.bufs[i], c.bufs[i]>>,
                LAMBDA S : CHOOSE i \in S : \A j \in S : i <= j,
                DOMAIN c.bufs)
  IN  [bufs  |-> bufs,
       flags |-> IF c.isWriteOnlyArray # <<>> THEN c.isWriteOnlyArray
                 ELSE [i \in DOMAIN bufs |-> c.isWriteOnly]]

ASSUME CallAssumption == \A c \in Call : Pieces(c) \in Request

\* Mutant: what the driver has offered is taken for what the device has used.
hasUnprocessedBuffers_OwnIndex == lastUsedIndex # availIdx

hasUnprocessedBuffers == lastUsedIndex # usedIdx

\* Mutant: the index is published before the slot is written, and the slot
\* that is written is the one after it.
placeDescriptor_IndexFirst(first) ==
  /\ availIdx' = Inc(availIdx)
  /\ availRing' = [availRing EXCEPT ![SlotOf(availIdx')] = first]

\* available-ring.js 46-51
placeDescriptor(first) ==
  /\ availRing' = [availRing EXCEPT ![SlotOf(availIdx)] = first]
  /\ availIdx' = Inc(availIdx)

\* A driver calls placeBuffers.  With interrupts suppressed the used buffers
\* are fetched first (lines 90-92).
CallPlaceBuffers(c) ==
  /\ pc = "idle"
  /\ kind \in c.kinds
  /\ placing' = c
  /\ pc' = IF suppressInterrupts THEN "disable" ELSE "place"
  /\ UNCHANGED <<tableVars, ringVars, deviceVars, signalVars>>

\* Lines 94-136.  The device looks at nothing of it before the index moves.
\* Without enough descriptors the call returns false, and the drivers go on
\* to isNotificationNeeded all the same.
PlaceBuffers ==
  /\ pc = "place"
  /\ \/ /\ placeBuffers(Pieces(placing).bufs, Pieces(placing).flags)
        /\ placeDescriptor(freeDescriptorHead)
     \/ /\ descriptorsAvailable < Len(Pieces(placing).bufs)
        /\ UNCHANGED <<tableVars, kind, availIdx, availRing>>
  /\ pc' = "notify"
  /\ placing' = NULL
  /\ UNCHANGED <<kind, noInterrupt, usedIdx, usedRing, noNotify, lastUsedIndex,
                 deviceVars, signalVars>>

\* isNotificationNeeded and queueNotify
Notify ==
  /\ pc = "notify"
  /\ notified' = (notified \/ ~noNotify)
  /\ pc' = "idle"
  /\ UNCHANGED <<tableVars, ringVars, deviceVars, isr, irq, placing>>

\* The interrupt handler; reading ISR_STATUS clears it.
HandleIRQ ==
  /\ pc = "idle"
  /\ irq
  /\ irq' = FALSE
  /\ isr' = FALSE
  /\ pc' = IF isr THEN "disable" ELSE "idle"
  /\ UNCHANGED <<tableVars, ringVars, deviceVars, notified, placing>>

\* net.js 162-166
Poll ==
  /\ kind = "polled"
  /\ pc = "idle"
  /\ isr' = FALSE
  /\ pc' = "disable"
  /\ UNCHANGED <<tableVars, ringVars, deviceVars, notified, irq, placing>>

\* fetchBuffers, lines 51-53
DisableInterrupts ==
  /\ pc = "disable"
  /\ noInterrupt' = TRUE
  /\ pc' = "drain"
  /\ UNCHANGED <<tableVars, kind, availIdx, availRing, usedIdx, usedRing, noNotify,
                 lastUsedIndex, deviceVars, signalVars, placing>>

\* fetchBuffers, lines 55-64: one getBuffer.  It returns null, and the loop
\* ends, when nothing is left or when there is no buffer (157-165).
GetBuffer ==
  /\ pc = "drain"
  /\ \/ /\ ~hasUnprocessedBuffers
        /\ pc' = "enable"
        /\ UNCHANGED <<tableVars, lastUsedIndex>>
     \/ /\ hasUnprocessedBuffers
        /\ LET id == usedRing[SlotOf(lastUsedIndex)] IN
           /\ getBuffer(id)
           /\ pc' = IF descriptorsBuffers[id] = NULL THEN "enable" ELSE "drain"
        /\ lastUsedIndex' = Inc(lastUsedIndex)
  /\ UNCHANGED <<kind, availIdx, availRing, noInterrupt, usedIdx, usedRing, noNotify,
                 deviceVars, signalVars, placing>>

\* fetchBuffers, lines 66-72; the barrier orders it before Recheck.
EnableInterrupts ==
  /\ pc = "enable"
  /\ noInterrupt' = suppressInterrupts
  /\ pc' = "recheck"
  /\ UNCHANGED <<tableVars, kind, availIdx, availRing, usedIdx, usedRing, noNotify,
                 lastUsedIndex, deviceVars, signalVars, placing>>

\* Mutant: the queue is not looked at again after interrupts are enabled.
Recheck_Never ==
  /\ pc = "recheck"
  /\ pc' = IF placing # NULL THEN "place" ELSE "idle"
  /\ UNCHANGED <<tableVars, ringVars, deviceVars, signalVars, placing>>

\* fetchBuffers, lines 74-76
Recheck ==
  /\ pc = "recheck"
  /\ pc' = IF hasUnprocessedBuffers THEN "disable"
           ELSE IF placing # NULL THEN "place" ELSE "idle"
  /\ UNCHANGED <<tableVars, ringVars, deviceVars, signalVars, placing>>

DriverStep ==
  \/ PlaceBuffers \/ Notify \/ DisableInterrupts \/ GetBuffer
  \/ EnableInterrupts \/ Recheck

-----------------------------------------------------------------------------
(* The device *)

DeviceWakes ==
  /\ devicePc = "asleep"
  /\ notified
  /\ notified' = FALSE
  /\ noNotify' = TRUE
  /\ devicePc' = "awake"
  /\ UNCHANGED <<tableVars, kind, availIdx, availRing, noInterrupt, usedIdx, usedRing,
                 lastUsedIndex, taken, held, unsignalled, isr, irq, pc, placing>>

DeviceTakes ==
  /\ devicePc = "awake"
  /\ taken # availIdx
  /\ held' = held \cup {availRing[SlotOf(taken)]}
  /\ taken' = Inc(taken)
  /\ UNCHANGED <<tableVars, ringVars, devicePc, unsignalled, signalVars, pc, placing>>

\* Nothing left to take: ask to be notified, look once more, then sleep.
DeviceRests ==
  /\ \/ /\ devicePc = "awake" /\ taken = availIdx
        /\ noNotify' = FALSE
        /\ devicePc' = "rechecks"
     \/ /\ devicePc = "rechecks"
        /\ noNotify' = (taken # availIdx)
        /\ devicePc' = IF taken # availIdx THEN "awake" ELSE "asleep"
  /\ UNCHANGED <<tableVars, kind, availIdx, availRing, noInterrupt, usedIdx, usedRing,
                 lastUsedIndex, taken, held, unsignalled, signalVars, pc, placing>>

\* Requests are completed in any order.
DeviceCompletes(d) ==
  /\ d \in held
  /\ held' = held \ {d}
  /\ usedRing' = [usedRing EXCEPT ![SlotOf(usedIdx)] = d]
  /\ usedIdx' = Inc(usedIdx)
  /\ unsignalled' = TRUE
  /\ UNCHANGED <<tableVars, kind, availIdx, availRing, noInterrupt, noNotify,
                 lastUsedIndex, devicePc, taken, signalVars, pc, placing>>

DeviceSignals ==
  /\ unsignalled
  /\ unsignalled' = FALSE
  /\ isr' = (isr \/ ~noInterrupt)
  /\ irq' = (irq \/ ~noInterrupt)
  /\ UNCHANGED <<tableVars, ringVars, devicePc, taken, held, notified, pc, placing>>

\* The kernel drops an interrupt when the queue of the engine is full (engine.h 193).
\* It does so for every device; here only for one that is polled, see
\* EveryRequestReturns.
LoseIRQ ==
  /\ kind = "polled"
  /\ irq
  /\ irq' = FALSE
  /\ UNCHANGED <<tableVars, ringVars, deviceVars, notified, isr, pc, placing>>

Device ==
  \/ DeviceWakes \/ DeviceTakes \/ DeviceRests \/ DeviceSignals
  \/ \E d \in Descriptor : DeviceCompletes(d)

Next ==
  \/ \E c \in Call : CallPlaceBuffers(c)
  \/ DriverStep \/ HandleIRQ \/ Poll \/ Device \/ LoseIRQ

\* The driver's code runs to its end once it has started; the engine serves its
\* messages in order, so a handler whose interrupt is pending is run however
\* often the driver is called in between, and the timer of net.js fires; the
\* device completes every request it has taken.  That a driver places more buffers
\* is only assumed of a transmit queue, which is looked at by no one else.  The
\* subscripts name what each of the steps always changes.
Fairness ==
  /\ WF_<<pc, lastUsedIndex>>(DriverStep) /\ SF_<<pc, irq>>(HandleIRQ \/ Poll)
  /\ WF_<<devicePc, taken>>(DeviceWakes \/ DeviceTakes \/ DeviceRests)
  /\ WF_unsignalled(DeviceSignals)
  /\ \A d \in Descriptor : WF_held(DeviceCompletes(d))
  /\ WF_pc(suppressInterrupts /\ \E c \in Call : CallPlaceBuffers(c))

SafeSpec == Init /\ [][Next]_vars

Spec == SafeSpec /\ Fairness

-----------------------------------------------------------------------------
Distance(from, to) == (to - from) % IdxMod

\* The heads the driver has offered and the device has not taken yet.
Offered == {availRing[SlotOf((taken + i) % IdxMod)] : i \in 0 .. Distance(taken, availIdx) - 1}

\* The heads the device has given back and the driver has not fetched yet.
Used == {usedRing[SlotOf((lastUsedIndex + i) % IdxMod)] :
           i \in 0 .. Distance(lastUsedIndex, usedIdx) - 1}

Heads == {c.ids[1] : c \in lent}

\* Every request in flight is at exactly one place: offered, held by the device
\* or waiting in the used ring; neither ring overwrites an entry that was not
\* read, also when the indices wrap around (available-ring.js 46-51,
\* used-ring.js 55-66).
NoRequestLost ==
  /\ Heads = Offered \cup held \cup Used
  /\ Offered \cap held = {} /\ Offered \cap Used = {} /\ held \cap Used = {}
  /\ Distance(taken, availIdx) + Distance(lastUsedIndex, usedIdx) <= ringSize

Sized(d) == [token |-> d, size |-> Len((CHOOSE c \in lent : c.ids[1] = d).ids)]

\* The requests the device has to complete, and those it has completed, in order
AtDevice == {Sized(d) : d \in Offered \cup held}

Completed ==
  [i \in 1 .. Distance(lastUsedIndex, usedIdx) |->
     Sized(usedRing[SlotOf((lastUsedIndex + i - 1) % IdxMod)])]

Queue == INSTANCE VirtQueue WITH
  Token <- Descriptor,
  Capacity <- ringSize,
  free <- descriptorsAvailable,
  atDevice <- AtDevice,
  completed <- Completed

\* To the driver the two rings and the table are one queue (VirtQueue): a
\* request is given back exactly once, after the device completed it, in the
\* order of completion, and frees exactly the descriptors it took.
ImplementsQueue == Queue!QueueSpec

\* The ring uses its table by the table's rules: every step that touches it is one
\* whole call of placeBuffers or of getBuffer on a chain that is in flight, whatever
\* the device does in between (vring/index.js 47-80, 116-128).
UsesTable == TableSpec

\* Every request placed is given back to the driver: no order of writing the
\* used ring, reading the flags, suppressing and enabling interrupts and
\* rechecking (fetchBuffers, lines 47-80, and isNotificationNeeded) leaves
\* both sides waiting for each other.  Interrupts are lost only on the queue that is
\* polled.  The queues of block and entropy devices are not: after the drop of
\* engine.h 193, which is excluded here, theirs would stop (VirtioBlk has it).
EveryRequestReturns ==
  \A d \in Descriptor : d \in Heads ~> d \notin Heads

\* The write flag of a descriptor is the one the caller gave for its buffer
\* (vring/index.js 87: "optional array of 'isWriteOnly's, one for each buffer").
FlagsOfBuffers ==
  \A c \in lent : \A i \in DOMAIN c.ids : \A r \in Call :
    (Pieces(r).bufs = c.bufs /\ r.isWriteOnlyArray # <<>>) =>
      \A k \in DOMAIN r.bufs :
        r.bufs[k] = c.bufs[i] => flagWrite[c.ids[i]] = r.isWriteOnlyArray[k]
=============================================================================
