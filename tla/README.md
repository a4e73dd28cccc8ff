# A verification project for JsOS

JsOS is an operating system whose kernel (C++) runs a JavaScript engine on the
bare machine and whose drivers, network stack, file system and shell are
JavaScript. This directory holds TLA+ models of the parts of it that carry state
between events, the TLC configurations that check them on small instances, and
TLAPS proofs, for every instance, of the port allocator, the UDP sockets, the virtio
rings, the block driver, the event loop, interrupts and memory. `PROJECT.json` lists the
components, the runs, which definition models which lines, the hazards the
properties were written for, what was found, and the theorems.

Run a configuration with `tlc -workers 2 -config X.cfg M`, check the proofs of a module with
`tlapm M.tla`; the modules with proofs are `SequenceLemmas` and the ones named `...Proofs`.

## 1. The system

| Part | State it keeps | Operations | Talks to |
|---|---|---|---|
| Kernel event loop (`src/kernel`) | message queue per thread, pool of timer data, pool of callbacks, queue of timeouts | take messages, run a callback, set and clear timers, immediates, raise interrupts, preempt, halt | everything in JavaScript, by callbacks |
| Port allocator (`js/core/net/port-allocator.js`) | array of ephemeral ports, map of other ports, search hint, count | allocEphemeral, allocPort, free, lookup | UDP and TCP sockets |
| TCP (`js/core/net/tcp*.js`) | state, windows, transmit and receive queues, retransmission times | open, listen, send, close, receive, timer tick | IP below, applications above, port allocator |
| UDP (`js/core/net/udp*.js`) | port of each socket | bind, send, close, receive | port allocator, IP |
| IP fragments (`js/core/net/ip4-fragments.js`) | queue of fragments per datagram | addFragment, tick | IP reception |
| ARP, routes, interfaces, ICMP, ping | caches and tables | resolve, add, look up, send, receive | network drivers, sockets |
| DHCP and DNS clients | client state, requests under way | discover, request, answer | UDP, interfaces |
| virtio rings (`js/driver/virtio/vring`) | descriptor table with its free list, two rings of indices, interrupt flags | placeBuffers, getBuffer, fetchBuffers, notify | the device, through shared memory |
| virtio devices (`blk.js`, `net.js`, `rng.js`) | queue of promises, buffers | read, write, transmit, interrupt handler, poll | rings, block and network layers |
| Memory manager (`mem-manager`, `multiboot`, `x64/address-space-x64`) | page stacks, page status, page tables | take the boot loader's map, page fault, thread stack, DMA page, physical address of a buffer | heap, threads, drivers |
| Heap (`dlmalloc.cc`) | chunks, small bins, trees, dv, top | malloc, calloc, memalign, realloc, free | all of the kernel and V8 |
| Interrupts (`irqs`, `irq-dispatcher`, `x64/ioapic-x64`, `x64/irqs-x64`) | vectors that wait, bindings, message queue, locks, mask | bind, assert, gate, dispatch, end of interrupt, lock, mask | devices, event loop |
| Thread library, transport (`src/kernel`) | locks, serialised values | lock, wait, signal; send | V8, isolates |
| FAT file system (`js/core/fs`) | FAT and cluster chains, open files, lock | open, read, write, close | block devices |
| Terminal, keyboard, mouse, PCI, shell, applications | input and screen state | key and mouse events, drawing, commands | users |

What is hard in it:

- **Interleaving with the device.** A virtio device reads and writes the rings
  between any two lines of the driver. Index before entry, a missed recheck after
  enabling interrupts, or a descriptor given to two requests are errors no unit
  test of the driver alone can see.
- **An unreliable network.** TCP and IP get packets late, twice, cut and out of
  order, with sequence numbers that wrap around and acknowledgements that are
  old; retransmission races acknowledgement; either side closes at any time.
- **Delayed callbacks.** `setImmediate` and timers run after the state they were
  made for may have gone; slots and identifiers are used again.
- **Lost interrupts and halting.** The kernel drops an interrupt when the message
  queue is full, and halts the CPU after a check that an interrupt may overtake.
- **Long histories.** The port allocator and the descriptor table keep redundant
  state (hint, count, free list) that must agree after any history of calls; so do the
  heap, where each free chunk is in exactly one of four structures, and the memory
  manager, where a page is in a stack, in a table or in use.
- **Handlers on top of a thread.** On one processor an interrupt handler that finds a
  lock taken waits for the thread below it for ever, so every lock that both take needs
  interrupts to be off around it.

What makes each part correct:

- *event loop*: every callback that is set and not cleared is called, cleared ones are
  not, immediates keep their order, the CPU never sleeps on work;
- *ports, UDP*: a port has one owner, exactly while its socket is open; a request is
  refused only when nothing is free;
- *TCP*: the stream arrives in order and once, nothing acknowledged is missing, what is
  not acknowledged can be sent again, both sides reach CLOSED;
- *IP fragments*: a datagram is passed on as it was sent, and as soon as it is complete;
- *virtio rings and devices*: a descriptor belongs to one request, every request comes
  back once, and its completion settles its own promise;
- *ARP, DHCP, DNS, ping*: an answer is matched with its question, late and repeated
  answers change nothing, a lost one is asked for again;
- *memory manager*: no page has two users, only usable memory is given out, a page walk
  finds what was mapped, a device is told the addresses of the buffer it was given;
- *heap*: free chunks are merged and each is where the search will find it, blocks are
  apart, aligned and large enough, a request is refused only when nothing fits;
- *interrupts*: no handler spins, an interrupt reaches its driver unless the queue is
  full;
- *FAT file system*: cluster chains are disjoint and end, free space is what no chain
  holds, operations on one volume do not interleave;
- *terminal, keyboard, mouse*: the line shown is the line edited, packets are never
  assembled from parts of two.

The line where each hazard bites is under `hazards` in `PROJECT.json`.

## 2. Plan

Modelled in this order, the most central state first:

1. `PortRegistry`, `PortAllocator`: the abstract registry,
   the allocator, its inductive invariant and the refinement; `UdpSocket` and
   `NetProofs`: UDP sockets composed with it. *Done, but for the delayed
   `onmessage` of UDP.*
2. `DescriptorTable`, `VirtQueue`, `VRing`, `VirtioBlk`: the table, the abstract
   queue, the rings that implement it, the block driver on the abstract queue.
   *Done.*
3. `TcpSocket`, `TcpReceive`, `TcpConnection`: the socket as operators, its
   receiving side alone, two sockets and a network. *Done for one connection.*
4. `EventLoop`: the kernel's loop that runs all of the above. *Done.*
5. `Ip4Fragments`. *Done.*
6. `Memory`, `Heap`: what the kernel gives memory from. *Done.*
7. `Interrupts`: the way from a device's line to `EventLoop`'s message queue. *Done for
   lines that are not shared.*
8. Next: the delayed `onmessage` of UDP sockets, the DHCP and DNS clients over UDP,
   ARP resolution, a second connection with the same ports in `TcpConnection`, the FAT
   allocation with its lock, the mouse packets.
9. Theorems: every safety property of the ports, UDP, the rings and their table, the block
   driver, the event loop, interrupts, memory, the fragments and the receiving half of a
   TCP socket is proved. Next: the sending half, and two sockets with a network between.

## 3. Modules and the code

**PortAllocator** — `searchStart`, `allocated`, `length`/`sockets` and `map` are the
fields of the class. `allocEphemeral` is the disjunction of its three outcomes
(`FillHole`, `PushSocket`, `Exhausted`), `free` of its three; `reply` records the
call and what it returned. `PortRegistry` is what sockets rely on: any free port may
be granted, and a request is refused only when none is free. The refinement maps
`owner` to `lookup`.

**UdpSocket** — extends the allocator, which only UDP sockets share (TCP has its own).
`boundPort` is `_port`. `send` is the first send of a socket without a port, `bind` is
also `bindToInterface`; `constructor` puts a new socket in the place of one that is closed
and gone from the allocator. `close` leaves `_port` as it is, so that closing twice frees
the port of whoever has it by then, and binding a bound socket leaks a port: `misused`
records that this happened, and the behaviours go on.

**DescriptorTable** — the fields `next`, the flags, the head of the free list, the
count and the array of buffers; `lent` is a history variable with the chains that
are in flight. `placeBuffers` and `getBuffer` are the two methods; the path they
walk is a sequence chosen by the links it follows. The next field of the last
descriptor is never initialised by the code: it holds any member of `Garbage`.

**VRing** — extends the table with the two rings. Each access of the driver to memory
that the device reads or writes is an action: `DisableInterrupts`, `GetBuffer`,
`EnableInterrupts`, `Recheck` are the steps of `fetchBuffers`; `CallPlaceBuffers`,
`PlaceBuffers`, `Notify` those of placing. The device (external, from the virtio
rules the driver relies on) takes, completes in any order and signals. `kind` tells
a queue with interrupts from a transmit queue, whose interrupts are suppressed for
good, and from the receive queue of `net.js`, which is polled because interrupts get
lost. `VirtQueue` is the abstract queue; the refinement maps the entries between two
indices to a set and a sequence. The kernel drops interrupts of every device, but a queue
with interrupts and no poll keeps them here; what a drop does to it is in `VirtioBlk`.
Slot and index of the available ring are written in one step.

**VirtioBlk** — `read`, `write`, the interrupt handler and the two rounds of
`setImmediate` over `VirtQueue`; `promiseQueue` is the code's. A request takes three
descriptors, or four when its data lies over two pages. What placing returns is
ignored, as in the code. `irq` is the device's line together with its message: a completion
raises it (`RaiseIRQ`) and the message finds room or is lost, for good, since the line then
stays up; `HandleIRQ`, `FetchBuffer` and `HandlerReturns` are the handler and `fetchBuffers`. `MCVirtioBlk` puts the descriptor table beside it: a behaviour is
one of the driver or one of the table by itself, and `vring` shows (`UsesTable`) that the
ring makes no other use of its table than this one.

**TcpSocket** — a socket is a record, every method an operator from the socket before
to the socket after; transmitted packets, delivered bytes and callbacks are appended
to `.out`, `.data` and `.events`. It has no variables: `TcpReceive` drives one
established socket with every cut of a stream, `TcpConnection` puts a client and a
server on a network that is a set (loss, duplication, reordering: any packet ever
sent may still arrive, or not) or a pair of queues. Actions are the calls of the
application, the arrival of a packet and the timer's tick, in which any of the
unacknowledged items may be due.

**EventLoop** — two threads on one CPU, main and idle, with the program counter of the
one that runs. `TakeMessages`, `Process`, `RunEnds` are `Thread::Run`; `TimeoutElapses`
and `Preempt` are `ThreadManager::Preempt`; `IdleRun`, `Halt`, `TimerInterrupt`, `IRQ`
are the idle thread and interrupts. JavaScript is any sequence of `setTimeout`,
`setInterval`, `setImmediate` and clears, also of timers that are over or were never set:
such a clear flags whichever timer has the slot, and `status` records it as struck.

**Ip4Fragments** — `addFragment` in its order: capacity, trimming against every stored
fragment, removal of those inside the new one, accounting, the last fragment, and
assembly. A stored fragment remembers where in its packet's buffer its units start, so
that a wrong offset shows up as wrong units. `tick` drops any set of queues. `MCReassembly`
joins it with `TcpReceive`, which asks the same question one layer up: a behaviour is one
of the two, never a mixture.

**Memory** — starts with any memory map of the boot loader. `NextAvailableMemory` goes to
the next zone (and ends at an empty one, as the enumerator does), `InsertPage` puts one of
its pages on one of the two page stacks (below and above 4 GiB) and `RangeInserted` ends
with its last; `TooLittleMemory` and `InitSubsystems` end the boot, and `Configure` maps the
kernel's own pages one by one. `free` is the page status, `cursor` the page at which a
loop is. Then `Touch` is the page fault at a new address,
`AllocStack` a thread's stack with the page behind it that stays unmapped, `AllocDMA` is
`AllocPage32`, and `OutOfMemory` the assertion that fails in any of them. `MapPage`
walks and builds the page tables, which come from a zone of their own; a table is a
function of its entries. `BufferAddress` is what `native-object.cc` tells a program of a
buffer: `PBoundary` splits it where the code does. `space` is the history of what was
mapped where, which `WalkAgrees` compares with the walk.

**Heap** — `Alloc`, `AllocAligned`, `Calloc`, `Realloc` and `Free` are the calls of
`MallocAllocator`, each one step under its lock, which is what the code has.
`mspace_malloc` and the rest are operators from the `mspace` before to the one after, with the helpers
named as in `dlmalloc.cc`: small bins are rings in the order of the list, a tree bin is a
function from positions to rings of chunks of one size, `tmalloc_large` goes down one
path and remembers the last right subtree it did not take. Data, footers of chunks in
use, and the links inside nodes are abstracted; what a wrong link would do shows as a
chunk in a wrong bin.

**Interrupts** — a device asserts its line (`AssertLine`) until its status is read
(`Process`, `Poll`); the edge sets the vector of the redirection entry at the local APIC.
`InterruptStep` is the handler on top of the thread: `Interrupt` the gate,
`irq_timer_event` the timer, `RaiseBegins`, `PushMessageIRQ`, `RaiseEnds` the dispatcher,
which takes the lock of the bindings and pushes a message for each. The thread enters an
operation, takes its locks one by one (`Lock`) and leaves it (`Leave`, with what the
operation does to bindings and messages); `Masking` says in which operations interrupts
are off. A handler that needs a lock the thread holds makes no further step.

## 4. Runs

| Run | Instance | Shows |
|---|---|---|
| `udp_ports` | 3 ports, 2 of them ephemeral, 3 sockets, symmetric | hint, map, array and count agree, also when sockets are misused; `PortRegistry` is implemented; without misuse sockets and allocator agree on who has which port |
| `vring` | 2 descriptors, indices modulo 4, three kinds of queue, requests of 1 and 2, fairness | no request lost or doubled across wrap-around; the table is used by its rules (`UsesTable`); implements `VirtQueue`; interrupt suppression, recheck, poll and lost interrupts never leave both sides waiting |
| `vring_flags` (violation) | 4 descriptors, block requests over one and two pages | a buffer over two pages shifts the write flags |
| `virtio_blk` | 3 requests of 3 or 4 descriptors, room for 2; or a table of 4 descriptors, requests of 1, 2 and 3 | promises and completions agree while the device keeps the order and nothing is refused; never too many; all settle unless one was refused or an interrupt was lost. Free list and chains partition the table, chains stay as built |
| `tcp_unreliable` | 2 buffers of 2 bytes, segments of 1, both sides close, listener closes | the stream is a prefix; acknowledgements never run ahead; the transmit queue covers what is unacknowledged; events come in order |
| `tcp_reliable` | 4 buffers of 2 bytes, window 3, wraps | everything arrives and both sockets close |
| `event_loop` | a timeout, an interval, 2 immediates, a message queue with room for 1 | slots that are used again never mix up callbacks; order of immediates; cleared timeouts are not called; everything else is, unless a stale clear strikes it |
| `event_loop_clear` (violation) | a timeout, an interval that may be cleared, 1 immediate, room for 2 | a cleared interval is called |
| `reassembly` | 2 datagrams of up to 5 units, room for 1 queue, one identification used again; or a TCP stream of 14 bytes, window 4, sequence space 12 from 10 (wraps twice) | a datagram passed on is what was sent, as soon as it is complete, unless its identification was used again; the accounting is exact in every case. However the segments are cut, bytes arrive in order, once, acknowledged exactly, and none is left waiting |
| `memory` | 7 pages, maps of up to 2 zones, stacks of 2 pages, 6 tables | no page has two users, only whole usable pages are given out, none disappears but at a full stack, page walks agree with what was mapped, buffers' physical segments are exact |
| `heap` | 22 units, up to 4 blocks, sizes for small bins and for trees | dlmalloc's own consistency checks, blocks apart and large enough (also when calloc overflows), no refusal of what would fit |
| `interrupts` | 2 IO APICs, 2 devices, 1 of them polled, the timer, a queue that reserves 2 | no handler spins, interrupts get lost at a full queue and nowhere else, every interrupt of a polled device is served |

**Bounds.** Rings of two slots with indices modulo four wrap after every fourth
request, which is what the 16-bit indices do, and two requests are enough for
completion out of order; longer chains are the matter of the table in `virtio_blk`, where
four descriptors hold requests of one and three, two and two, and the uninitialised field
takes every value. In `vring` that field is 0, and only the transmit queue has requests of
two descriptors. Three sockets compete for two ephemeral
ports, so that the range runs out, and for one port outside it; any port may also be bound by number, so the array grows past
mapped ports and is searched around them. What larger ranges add is left to the proof.
A TCP window of three or four units with segments
smaller than it has segments in flight, gaps, overlaps and a full window; sequence
spaces of 16 and 12 are more than twice the window, as the comparisons need, and the stream
of `reassembly` is longer than the numbers, so that they wrap around twice. The receive queue of
TCP has no limit in the code and duplicates make it grow; `MaxQueue` cuts it. In
`tcp_unreliable` sequence numbers start at 1 and do not wrap: the code reads the
acknowledgement field also when the ACK flag is off, and a duplicated SYN's 0 would
fall inside the window after a wrap (a hazard in the list). A message queue with room
for one is full at once, so interrupts do get lost. One connection is followed: once it
has left the map, packets for it are dropped.

In `memory` a page holds two addresses, so that zones and buffers start and end inside
pages; zones overlap, reach below the first page that may be given out and above 4 GiB
(page 3), a stack has room for two pages, and pages, tables and stacks all run out.
`heap` counts in the unit of alignment: sizes below eight units go to small bins, larger
ones to two-level trees, and four blocks on 22 units leave free chunks on both sides of
each other, in rings and in trees, with dv and top in use and used up. A product of calloc
wraps in 12 bits where the code has 64. Trees in which a removed node has grandchildren
are not reached (the deep case of `Replacement`). `interrupts` has lines 11 and 27, one per
IO APIC, and a queue that fills while both devices and the thread push to it.

**Fairness.** `vring`: the driver's code runs to its end; a pending handler is
served, because the engine takes its messages in order, or the poll timer fires; the
device takes and completes what it was given; a transmit queue is used again.
`tcp_reliable`: packets arrive, the timer ticks, a route is found, applications close
what they may close; the condition under which each action is enabled is written out
in place of ENABLED. `event_loop`: callbacks return, threads run on, the periodic timer
interrupts, and a timeout that is queued has elapsed at one of the next preemptions
(strong fairness, because preemption comes and goes). `virtio_blk`: the device
completes, a handler whose message is in the queue runs, to its end, and so do immediates
(which `event_loop` shows); that the message gets into the queue is not assumed. `interrupts`: handlers run on; the thread, although interrupted again
and again, leaves an operation it has entered, takes messages and processes them (strong
fairness, because interrupts come and go), and a polled device is polled while its line is
up. Nothing is assumed of devices that are not polled.

**Findings.** `vring_flags`: `placeBuffers` splits a buffer over two pages into two
descriptors and passes the array of write flags on unchanged. `event_loop_clear`: when
an interval fires, its data is put back in the first empty slot, and the identifier
that `setInterval` returned no longer names it. Met while modelling:
a socket in CLOSE_WAIT handles no acknowledgement, closing a listening socket
leaves its connections behind (a TODO at `tcp-socket.js:475`), the initial sequence number
is a constant, two sides that close at once stay in FIN_WAIT_2, and a read of the sector
just past the end passes the check of `blk.js`. An interrupt that finds the queue of
messages full is dropped while its line stays asserted, and an edge-triggered entry sees
no further edge: `net.js` polls for this reason ("Under high load we're missing
interrupts", `net.js:160`), the block and entropy drivers do not, and for them
`LostOnlyWhenFull` is all that holds; `EveryPromiseSettles` names the lost interrupt and the
refused request as the two ways in which a promise of `blk.js` waits for ever. A clear with
an identifier that is out of date clears the timer that has the slot by then
(`FlagTimeoutCleared` looks at the slot alone): `EveryCallbackRuns` excepts the timers that
are struck so.

## 5. Proofs

`NetProofs` proves of the ports, for every set of sockets, every first ephemeral port and
every number of ports (`PortAssumption`: the range lies within the ports, the first
ephemeral port is positive, NULL is no socket):

- `Invariance`: `Spec => [](TypeOK /\ SearchStartSound /\ OneOwner /\ AllocatedExact)`.
  The inductive invariant is the conjunction. Its parts lean on each other: `free`
  throws the array away when the count reaches zero, and that this loses no socket needs
  `AllocatedExact`; `SearchStartSound` needs `OneOwner` and the shape of the array that
  `TypeOK` states (nothing past its length, the hint within it). The
  proof has one lemma per outcome of each method, saying which port changes hands
  (`FillHoleStep`, `PushSocketStep`, `ExhaustedStep`, `AllocPortStep`, `FreeMappedStep`,
  `FreeSlotStep`), and two on counting (`CountUp`, `CountDown`), which rest on the
  cardinality of a set with one element more or less.
- `HintSound`: `SearchStartSound` by itself, on which the search for a free port relies.
- `Refinement`: `Spec => RegistrySpec`, from the invariant and the same lemmas. That
  `Exhausted` refuses only when all ephemeral ports are owned is where
  `SearchStartSound` is needed.

- `Ownership`: `UdpSpec => [](IInv /\ PortsAgree)`. The inductive invariant adds to the
  allocator's `IInv` the types and that a closed socket still names a port. The proof
  sees the allocator only through what its lemmas say a call does to `lookup` (a port is
  granted, released, or nothing changes): `GrantAgrees`, `RefusalAgrees` and
  `CloseAgrees` are the three cases, and `SendAgrees`, `BindAgrees` and
  `ConstructorAgrees` reduce the methods to them.

`SequenceLemmas` holds what the others share: what appending, taking the first, taking out
of the middle and joining do to a sequence and its members, that a set of naturals that is
not empty has a least element (which stands in for induction: the least counterexample of a
claim about lengths leads to a smaller one), and that an injection bounds a cardinality.

`VRingProofs` proves, for a table of any size and any requests (`TableAssumption`: a request
has a buffer, the uninitialised field holds some descriptor; `RingAssumption`: the modulus
of the indices is a multiple of the ring's size and greater than it; `CallAssumption`: what
a call is split into is a request of the table):

- `TableSound`: `TableSpec => [](FreeListSound /\ ChainsIntact)`. The inductive invariant
  adds the types and that no descriptor is in two chains. The free list is a path that the
  links determine (`PathUnique`), `PlaceEffect` says that placing takes its first members
  as a chain, `GetEffect` that giving back puts a whole chain in front of it.
- `RequestsKept` (`NoRequestLost`), `RingUsesTable` (`UsesTable`) and `RingIsQueue`
  (`ImplementsQueue`), each for the specification without fairness. The
  invariant is the table's, the types of the indices, and `Once`: the entries between two
  indices, the device and the used ring hold each request in flight exactly once, between
  them. That the entries between two indices are a sequence that grows at one end and
  shrinks at the other, across the wrap-around, is arithmetic (`Slots`, `Distances`,
  `WindowAppend`, `WindowTail`); that there is room for one more is counting (`Room`: the
  requests in flight have different first descriptors). The refinement to `VirtQueue` and
  the steps of the table come out of the same lemma per action.
- `RingTableSound` puts the two together: under a ring, too, the table is sound.

`VirtioBlkProofs` proves `OwnCompletion` (`SettledByOwnCompletion`) and `PromiseWaits`
(`NeverAheadOfDevice`), for any requests, any ring, any device. The invariant adds `Stages`
(a promise is queued once, then about to be settled once, then settled) and
`QueueEndsWithPlaced` (while nothing was refused or overtaken, what the device has is the
end of `promiseQueue`); `NeverAheadOfDevice` is needed in the same induction, since
`recvBuffer` takes a promise without looking whether there is one.

`EventLoopProofs` proves, for any timers, immediates and size of the message queue
(`LoopAssumption`: finitely many of them, kinds of callbacks differ, there is room for one
message at least):

- `TimersKept` (`OneEventPerTimer`) and `ImmediatesKept` (`ImmediatesInOrder`). The invariant says of
  the batch and the messages behind it, as one sequence, that each slot in use has one
  event and an empty slot none (`EventInv`), that no two slots hold one timer (`PoolInv`)
  and where in the sequence each waiting immediate is (`ImmediateInv`). That a pool always
  has an empty slot for one callback more follows from `PoolInv` by counting (`Hole`).
- `ClearedTimeouts`: `~ClearsIntervals => (SafeSpec => ClearedNeverCalled)`, with `ClearInv`:
  a timeout stays in the slot whose number `setTimeout` returned. The assumption is what
  `event_loop_clear` shows to be needed, since an interval does not stay there.

`InterruptsProofs` proves `HandlersNeverSpin` (`NoSpin`) and `InterruptsKept`
(`LostOnlyWhenFull`) for any devices, IO APICs and bindings (`InterruptsAssumption`: each device has a pin, and none
has line 0 or 2). The invariant says which locks a thread can hold with interrupts on
(`Below`), that a handler pushes what is bound and nothing else (`OneByOne`), and that only
a bound device asserts its line (`Bound`); `EntryOfDevice` follows a line through the
redirection entry and the gate back to the number the driver gave.

`MemoryProofs` proves, for every memory map, however zones overlap, for pages, stacks and
tables of every size (`MemoryAssumption`: memory ends where the page stacks' numbering
does, the kernel's area is below 4 GiB, the stacks' and the heap's addresses are above it,
apart, and within reach of the tables):

- `PagesNotShared` (`PagesExclusive`), `OnlyUsableGiven` (`UsableOnly`), `CountersExact`
  (`PagesAccounted`) and `WalkFinds` (`WalkAgrees`). The inductive invariant has five parts: how far the boot is (`BootInv`); the stacks hold
  different pages, all of them free, above a 0 (`PoolInv`); what is mapped above 4 GiB is
  usable, not free and mapped once (`SpaceInv`); the tables are a tree, and its walk finds
  what was mapped (`TableInv`); the counters, and that a free page is on its stack unless
  the stack was full (`CountInv`). `MapPageExtends` is the heart of it: in a tree of three
  levels, `MapPage` changes the walk at its own page and nowhere else, whether it makes no
  table, one or two.
- `BuffersExact`: `Spec => []BufferSegmentsExact`, from that invariant and the arithmetic
  of the boundary (`BoundaryIs`): the byte behind the buffer is in the same page or in the
  next, and one or two runs cover it.

Of fragments, `NetProofs` proves, for every set of datagrams, every set of lengths up to the
65535 bytes the code lets through and every capacity (`NullAssumption`: null is no
fragment): `LengthsExact` (`ReceivedLengthExact`), `IntactDelivery` (`DeliveredIntact`) and
`NoneWaitsComplete` (`NoCompleteQueueWaits`). The invariant says of each queue that its
fragments are apart, each a part of the buffer it points into, and that `receivedLength` is
the number of bytes they cover; of a queue whose hash is not reused that each fragment has
the bytes of its datagram and that some are missing. The two loops of `addFragment` are
recursive functions; `TrimLoop` and its analogue for the removal show that the loop has the
values its rounds say, and what a round keeps then holds at its end by the least
counterexample.

`TcpReceiveProofs` proves, for every size of the sequence numbers, of the window and of
segments, every first number, every length of the stream and of the receive queue
(`SocketAssumption`: sizes are positive, the numbers are more than twice the window;
`StreamAssumption`: the first number is one), with numbers that wrap around any number of times:
`StreamInOrder` (`InOrderOnce`), `AckedDelivered` (`AckedIsDelivered`) and `QueueWaits`
(`QueueWaitsForGap`). The inductive invariant `ReceiveInv` speaks of positions in the stream
and not of numbers: there is a position `e` up to which everything was delivered, the edge is
its number, each item of the receive queue is a part of the stream within the window
after `e` (or the FIN at its end) that starts behind a gap, and nothing waits to be sent. The
argument:

- a comparison of numbers is a comparison of positions when these are less than a window
  apart (`WithinIs`, `DistanceIs`); the bytes of a number range are those of the positions
  (`BytesAre`, `BytesJoin`);
- each round of `_processReceiveQueue` takes an item that starts at or before the edge, or
  drops it, or leaves it waiting (`ItemTaken`, `TakeStep`); the loop, a recursive function,
  has the values its rounds say (`TakeLoop`), and `TakenAll` is what holds at its end;
- `_insertReceiveQueue` runs `_sendTransmitQueue`, whose loop leaves the receiving half alone
  and puts the current acknowledgement in every packet (`SendEffect`, `SendKeeps`); items
  are processed again after it (`TookTwice`, `InsertEffect`);
- a segment within the window, cut anywhere, is such an item (`DataFits`, `FinFits`), so that
  `DataArrives` and `FinArrives` keep the invariant.

Every theorem module starts with `USE SMTT(30), SMTT(60)`: a leaf is given up to 30 seconds, and
a second attempt. No leaf needs more than a few; the room is for slow machines.

What stays with TLC: liveness and fairness (`EveryRequestReturns`, `EveryPromiseSettles`,
`EveryCallbackRuns`, `EveryInterruptServed`, `EverythingArrives`, `BothClose`), which are out
of the prover's reach; the invariants of `TcpConnection`, whose induction has to follow the
transmit queue, the packets in flight and the states of two sockets at once, of which the
proof so far covers the receiving half and the loop of `_sendTransmitQueue`; and `Heap`, whose
trees are of any depth, because what a recursive descent finds needs an induction over data
that the prover cannot be given.

## 6. What is not modelled

The bytes of packet headers and checksums, the registers of devices, boot and ACPI, the V8
engine, drawing, tables of key codes, and the shell's commands. They are listed, with the
reasons, as components of status `not_modelled`, together with the parts the plan comes to
next.

Most of the C++ text is out of reach for a reason of its own:

- `gen/snapshot.cc` is generated: a byte array with the snapshot of V8's heap, half of all
  lines, and no code.
- `dlmalloc.cc` is a vendored library of which more than half is comments and branches that
  the kernel's settings (lines 580-585: no mmap, no morecore, no locks, alignment 32) take
  out. `Heap` has what remains reachable from `MallocAllocator`: not the functions nobody
  calls (bulk allocation, independent arrays, inspection, statistics), and not the growth of
  an mspace, since its one segment is given to it at the start.
- `transport.cc`, `transport.h` and most of `native-object.cc` convert and copy JavaScript
  values by the V8 API; what they do is what V8 does.
- `threadlib` is used by V8 alone, and on one thread.
- Exceptions other than the page fault print and stop the machine.

In `Memory`, `PhysicalAllocator::free` has no caller and is left out; buffers larger than a
page are excluded from `BufferSegmentsExact`, as the comment at `native-object.cc:422` says,
and so are buffers that were never touched, for which the code answers 0. In `Interrupts`
no line is shared, and the keyboard, which may assert its line before its handler is
bound, is left out; IRQ 2 is too, whose vector 34 has the timer's gate.
