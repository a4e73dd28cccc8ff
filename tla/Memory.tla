------------------------------- MODULE Memory -------------------------------
(***************************************************************************)
(* Physical pages and the address space of the kernel: the boot loader's   *)
(* memory map (src/kernel/multiboot.cc), PhysicalAllocator and MemManager  *)
(* (src/kernel/mem-manager.h and .cc), the page tables                     *)
(* (src/kernel/x64/address-space-x64.cc) and the natives of                *)
(* src/kernel/native-object.cc that show programs physical addresses.      *)
(*                                                                         *)
(* An address is a number; a page holds PageSize of them and page p starts *)
(* at p * PageSize.  There is one processor and exceptions enter through   *)
(* interrupt gates, so that a page fault is one step.                      *)
(***************************************************************************)
EXTENDS Integers, Sequences, FiniteSets, Functions

CONSTANTS PageSize,        \* 2 MiB in the code
          MaxPage,         \* bound: the highest physical page
          AllocStart,      \* first page to allocate, kAllocStartAddress
          Last32,          \* last page below 4 GiB
          MinPages,        \* pages the system requires, 94 MiB
          StackSlots,      \* entries of a PagesStack, the guard included
          Fan,             \* entries of a page table, 512
          MaxTables,       \* tables that fit into page_directory_zone
          StacksPage,      \* first page of the thread stacks, kStacks
          MaxStacks,       \* bound: stacks allocated
          Space,           \* virtual pages of the heap
          Bases, Lengths,  \* of the zones in the memory map
          MaxZones         \* bound: zones in the memory map

ASSUME MemoryAssumption ==
  /\ {PageSize, MaxPage, AllocStart, Last32, StackSlots, Fan, MaxTables} \subseteq Nat \ {0}
  /\ AllocStart <= Last32 /\ Last32 < StacksPage
  /\ MaxStacks \in Nat
  /\ StacksPage \in Nat /\ StacksPage + 2 * MaxStacks <= Fan * Fan * Fan
  /\ Space \subseteq StacksPage + 2 * MaxStacks .. Fan * Fan * Fan - 1
  /\ Bases \subseteq Nat /\ Lengths \subseteq Nat
  /\ \A b \in Bases, l \in Lengths : b + l <= (MaxPage + 1) * PageSize
  /\ {MinPages, MaxZones} \subseteq Nat

VARIABLES mmap,       \* the zones that the boot loader reports
          zone,       \* MultibootMemoryMapEnumerator: the next zone
          cursor,     \* the page at which a loop over pages is
          free,       \* pages_status_: the pages that are not in use
          stack_32, stack_64,
          available,  \* available_phys_memory_, in pages
          used,       \* used_phys_memory_, in pages
          table,      \* the page tables, in the order they were taken; 1 is PML4
          nextStack,  \* stack_alloc_next_, in pages
          dma,        \* the pages that AllocDMA gave to programs
          space,      \* history: the page that each fault decided to map
          phase       \* "boot", "insert", "configure", "running" or "halted"

vars == <<mmap, zone, cursor, free, stack_32, stack_64, available, used, table, nextStack, dma, space, phase>>

-----------------------------------------------------------------------------
(* PagesStack *)

\* Mutant: the last slot is never used.
push_Early(s, page) == IF Len(s) + 1 = StackSlots THEN s ELSE Append(s, page)

push(s, page) == IF Len(s) = StackSlots THEN s ELSE Append(s, page)

\* What pop returns, and what is left
Popped(s) == IF s = <<>> THEN 0 ELSE s[Len(s)]
Rest(s) == IF s = <<>> THEN s ELSE SubSeq(s, 1, Len(s) - 1)

-----------------------------------------------------------------------------
(* Page tables.  An entry of the lowest level is a page, an entry above it is *)
(* the number of a table; None is an entry that is not present.               *)

None == -1

Pml4Offset(v) == ((v \div Fan) \div Fan) % Fan
PdpOffset(v) == (v \div Fan) % Fan
PdOffset(v) == v % Fan

AllocTable(t) == Append(t, [i \in 0 .. Fan - 1 |-> None])

Entry(t, tab, offset) == IF tab = None THEN None ELSE t[tab][offset]

\* The table of the lowest level on the way to virtual page v
PdpTable(t, v) == Entry(t, 1, Pml4Offset(v))
PdTable(t, v) == Entry(t, PdpTable(t, v), PdpOffset(v))

\* VirtualToPhysical, for whole pages
VirtualPage(t, v) == Entry(t, PdTable(t, v), PdOffset(v))

\* Mutant: an existing table is not noticed below a new entry.
MapPage_NewTable(t, v, page) ==
  LET t1 == AllocTable(t)
      t2 == [t1 EXCEPT ![Len(t1)][PdOffset(v)] = page]
      t3 == IF PdpTable(t, v) = None THEN AllocTable(t2) ELSE t2
      pdp == IF PdpTable(t, v) = None THEN Len(t3) ELSE PdpTable(t, v)
      t4 == [t3 EXCEPT ![pdp][PdpOffset(v)] = Len(t1)]
  IN  IF VirtualPage(t, v) # None THEN t ELSE [t4 EXCEPT ![1][Pml4Offset(v)] = pdp]

\* From the lowest level up; a page that is mapped keeps its mapping.
MapPage(t, v, page) ==
  LET newPd == PdTable(t, v) = None
      t1 == IF newPd THEN AllocTable(t) ELSE t
      pd == IF newPd THEN Len(t1) ELSE PdTable(t, v)
      t2 == [t1 EXCEPT ![pd][PdOffset(v)] = page]
      newPdp == PdpTable(t, v) = None
      t3 == IF newPdp THEN AllocTable(t2) ELSE t2
      pdp == IF newPdp THEN Len(t3) ELSE PdpTable(t, v)
      t4 == IF newPd THEN [t3 EXCEPT ![pdp][PdpOffset(v)] = pd] ELSE t3
  IN  IF VirtualPage(t, v) # None THEN t
      ELSE IF newPdp THEN [t4 EXCEPT ![1][Pml4Offset(v)] = pdp] ELSE t4

-----------------------------------------------------------------------------
(* Boot *)

Zones == [type : {1, 2}, base : Bases, length : Lengths]

Init ==
  /\ mmap \in UNION {[1 .. n -> Zones] : n \in 1 .. MaxZones}
  /\ zone = 1 /\ cursor = 0
  /\ free = {}
  /\ stack_32 = push(<<>>, 0) /\ stack_64 = push(<<>>, 0)
  /\ available = 0 /\ used = 0
  /\ table = AllocTable(<<>>)
  /\ nextStack = StacksPage
  /\ dma = {}
  /\ space = <<>>
  /\ phase = "boot"

\* Mutant: the zone is widened to whole pages.
FirstPage_Widened(z) == z.base \div PageSize

\* The pages that lie inside a zone
FirstPage(z) == (z.base + PageSize - 1) \div PageSize
EndPage(z) == (z.base + z.length) \div PageSize

\* MemoryZone::empty(), which is also how the enumerator says that it is done
Empty(z) == z.base = 0 /\ z.length = 0

\* One turn of the loop in PhysicalAllocator's constructor, which ends at an empty
\* zone
NextAvailableMemory ==
  /\ phase = "boot"
  /\ zone <= Len(mmap)
  /\ zone' = IF mmap[zone].type = 1 /\ Empty(mmap[zone]) THEN Len(mmap) + 1 ELSE zone + 1
  /\ IF mmap[zone].type = 1 /\ ~ Empty(mmap[zone])
     THEN /\ phase' = "insert"
          /\ cursor' = IF FirstPage(mmap[zone]) < AllocStart THEN AllocStart ELSE FirstPage(mmap[zone])
     ELSE UNCHANGED <<phase, cursor>>
  /\ UNCHANGED <<mmap, free, stack_32, stack_64, available, used, table, nextStack, dma, space>>

\* Mutant: a page of two zones is inserted twice.
Inserted_Never(p) == FALSE

Inserted(p) == p \in free

\* One turn of the loop of _insert_pages_range; double inserts are skipped.
InsertPage ==
  /\ phase = "insert"
  /\ cursor < EndPage(mmap[zone - 1])
  /\ cursor' = cursor + 1
  /\ IF Inserted(cursor)
     THEN UNCHANGED <<free, stack_32, stack_64, available>>
     ELSE /\ free' = free \cup {cursor}
          /\ stack_32' = IF cursor <= Last32 THEN push(stack_32, cursor) ELSE stack_32
          /\ stack_64' = IF cursor <= Last32 THEN stack_64 ELSE push(stack_64, cursor)
          /\ available' = available + 1
  /\ UNCHANGED <<mmap, zone, used, table, nextStack, dma, space, phase>>

RangeInserted ==
  /\ phase = "insert"
  /\ cursor >= EndPage(mmap[zone - 1])
  /\ phase' = "boot"
  /\ UNCHANGED <<mmap, zone, cursor, free, stack_32, stack_64, available, used, table, nextStack,
                 dma, space>>

Halt ==
  /\ phase' = "halted"
  /\ UNCHANGED <<mmap, zone, cursor, free, stack_32, stack_64, available, used, table, nextStack,
                 dma, space>>

TooLittleMemory ==
  /\ phase = "boot" /\ zone > Len(mmap)
  /\ available < MinPages
  /\ Halt

InitSubsystems ==
  /\ phase = "boot" /\ zone > Len(mmap)
  /\ available >= MinPages
  /\ phase' = "configure"
  /\ cursor' = 0
  /\ UNCHANGED <<mmap, zone, free, stack_32, stack_64, available, used, table, nextStack, dma,
                 space>>

-----------------------------------------------------------------------------
(* The address space *)

\* Virtual page v gets page p.
Map(v, page) ==
  /\ table' = MapPage(table, v, page)
  /\ space' = [w \in DOMAIN space \cup {v} |-> IF w = v THEN page ELSE space[w]]

\* Configure: the pages below AllocStart are mapped to themselves.
Configure ==
  /\ phase = "configure"
  /\ IF cursor < AllocStart
     THEN Map(cursor, cursor) /\ cursor' = cursor + 1 /\ UNCHANGED phase
     ELSE phase' = "running" /\ UNCHANGED <<table, space, cursor>>
  /\ UNCHANGED <<mmap, zone, free, stack_32, stack_64, available, used, nextStack, dma>>

\* alloc(): pages above 4 GiB are taken first.
Alloc == IF Popped(stack_64) # 0 THEN Popped(stack_64) ELSE Popped(stack_32)

Take(page) ==
  /\ free' = free \ {page}
  /\ used' = used + 1

\* The page fault at a virtual page that is not mapped: identity below 4 GiB, a
\* new page above.  An assertion fails when there are no pages or tables left.
PageFault(v) ==
  /\ VirtualPage(table, v) = None
  /\ IF v <= Last32
     THEN /\ Map(v, v)
          /\ UNCHANGED <<free, used, stack_32, stack_64>>
     ELSE /\ Alloc # 0
          /\ Take(Alloc)
          /\ stack_64' = Rest(stack_64)
          /\ stack_32' = IF Popped(stack_64) # 0 THEN stack_32 ELSE Rest(stack_32)
          /\ Map(v, Alloc)
  /\ Len(table') <= MaxTables

FaultFails(v) ==
  /\ VirtualPage(table, v) = None
  /\ (v > Last32 /\ Alloc = 0) \/ Len(MapPage(table, v, 0)) > MaxTables

\* A program, or the kernel, uses an address for the first time.
Touch(v) ==
  /\ phase = "running"
  /\ PageFault(v)
  /\ UNCHANGED <<mmap, zone, cursor, available, nextStack, dma, phase>>

\* The page is cleared, which maps it before the thread runs on it; the page
\* behind it is never touched.
AllocStack ==
  /\ phase = "running"
  /\ nextStack < StacksPage + 2 * MaxStacks
  /\ nextStack' = nextStack + 2
  /\ PageFault(nextStack)
  /\ UNCHANGED <<mmap, zone, cursor, available, dma, phase>>

\* Clearing the page maps it to itself, unless it is mapped already.
AllocDMA ==
  LET page == Popped(stack_32) IN
  /\ phase = "running"
  /\ page # 0
  /\ Take(page)
  /\ stack_32' = Rest(stack_32)
  /\ IF VirtualPage(table, page) = None THEN Map(page, page) ELSE UNCHANGED <<table, space>>
  /\ Len(table') <= MaxTables
  /\ dma' = dma \cup {page}
  /\ UNCHANGED <<mmap, zone, cursor, stack_64, available, nextStack, phase>>

\* An assertion fails in one of them.
OutOfMemory ==
  /\ phase = "running"
  /\ \/ \E v \in 0 .. Last32 \cup Space \cup {nextStack} : FaultFails(v)
     \/ Popped(stack_32) = 0
     \/ FaultFails(Popped(stack_32))
  /\ Halt

Next ==
  \/ NextAvailableMemory \/ InsertPage \/ RangeInserted \/ TooLittleMemory
  \/ InitSubsystems \/ Configure
  \/ \E v \in 0 .. Last32 \cup Space : Touch(v)
  \/ AllocStack \/ AllocDMA \/ OutOfMemory

Spec == Init /\ [][Next]_vars

-----------------------------------------------------------------------------
(* The native bufferAddress *)

Physical(a) ==
  LET page == VirtualPage(table, a \div PageSize)
  IN  IF page = None THEN 0 ELSE page * PageSize + (a % PageSize)

\* Mutant: a buffer that ends in the next page is not split.
PBoundary_Start(pstart, length) == (pstart \div PageSize) * PageSize

PBoundary(pstart, length) == ((pstart + length) \div PageSize) * PageSize

\* Up to two runs of physical addresses
BufferAddress(a, length) ==
  LET pstart == Physical(a)
      len1 == PBoundary(pstart, length) - pstart
  IN  IF len1 > 0
      THEN <<[from |-> pstart, len |-> len1], [from |-> Physical(a + len1), len |-> length - len1]>>
      ELSE <<[from |-> pstart, len |-> length], [from |-> 0, len |-> 0]>>

-----------------------------------------------------------------------------
(* Properties *)

\* The pages given to the heap and the stacks
Frames == {space[v] : v \in {w \in DOMAIN space : w > Last32}}

\* No page of memory has two users: every page of the heap and of the stacks has
\* a page of its own, and none of them is one that a device writes to, although
\* a page fault takes pages without the lock that AllocPage32 takes.
PagesExclusive ==
  /\ \A v, w \in DOMAIN space : v > Last32 /\ w > Last32 /\ v # w => space[v] # space[w]
  /\ Frames \cap dma = {}

\* Whatever the boot loader reports, what is given out is memory that lies inside
\* one usable zone and above the area of the kernel.
UsableOnly ==
  \A p \in Frames \cup dma :
    /\ p >= AllocStart
    /\ \E z \in Range(mmap) : z.type = 1 /\ z.base <= p * PageSize
                              /\ (p + 1) * PageSize <= z.base + z.length

\* The free pages of S are on the stack, or there were more than it takes.
KeptUnlessFull(stack, S) ==
  \/ free \cap S \subseteq Range(stack)
  \/ Cardinality((free \cup Frames \cup dma) \cap S) >= StackSlots

\* physical_memory_used counts each page that is in use and no other, and a page
\* that is neither in use nor on its stack was reported when the stack was full.
PagesAccounted ==
  /\ used = Cardinality(Frames) + Cardinality(dma)
  /\ available = used + Cardinality(free)
  /\ KeptUnlessFull(stack_32, 0 .. Last32)
  /\ KeptUnlessFull(stack_64, Last32 + 1 .. MaxPage)

\* The walk through the tables finds for every page what its fault decided,
\* tables that were made for other pages since then included; a page given to a
\* device is at its own address.
WalkAgrees ==
  /\ \A v \in DOMAIN space : VirtualPage(table, v) = space[v]
  /\ \A v \in (0 .. Fan * Fan * Fan - 1) \ DOMAIN space : VirtualPage(table, v) = None
  /\ \A p \in dma : VirtualPage(table, p) = p

\* The addresses of a run
Bytes(r) == [i \in 1 .. r.len |-> r.from + i - 1]

\* For a buffer of mapped pages that is no longer than a page, bufferAddress gives
\* the device exactly the bytes of the buffer, in order, wherever it lies.
BufferSegmentsExact ==
  \A v \in DOMAIN space, o \in 0 .. PageSize - 1, length \in 1 .. PageSize :
    LET a == v * PageSize + o
        s == BufferAddress(a, length)
    IN  (a + length - 1) \div PageSize \in DOMAIN space =>
          Bytes(s[1]) \o Bytes(s[2]) = [i \in 1 .. length |-> Physical(a + i - 1)]
=============================================================================
