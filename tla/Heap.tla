-------------------------------- MODULE Heap --------------------------------
(***************************************************************************)
(* The heap of the kernel: MallocAllocator (src/kernel/mem-manager.h) on   *)
(* an mspace of src/kernel/dlmalloc.cc, as the kernel configures it: one   *)
(* segment given at the start, no mmap, no morecore, no footers, and the   *)
(* lock of MallocAllocator around every call.                              *)
(*                                                                         *)
(* Sizes and addresses are counted in units of MALLOC_ALIGNMENT, which is  *)
(* also MIN_CHUNK_SIZE; the address of a chunk is that of its memory.      *)
(* head has an entry where a chunk starts.  What lies inside a chunk is    *)
(* data of its user or left over, so is the prev_foot of a chunk whose     *)
(* predecessor is in use: neither is kept.  A treebin is a function from   *)
(* positions, sequences of 0 and 1, to the ring of chunks of one size      *)
(* there; a ring starts with the chunk that is linked into the tree.       *)
(***************************************************************************)
EXTENDS Integers, Sequences, FiniteSets, SequencesExt

CONSTANTS Capacity,        \* units of the segment but for TOP_FOOT_SIZE
          TREEBIN_SHIFT,   \* 3 units in the code: small means below 8 units
          NTREEBINS,       \* 32 in the code
          Width,           \* bits of a size_t, 64 in the code
          TrimThreshold,   \* units, 2 MiB in the code
          Request,         \* the sizes programs ask for, in bytes
          Counts, Sizes,   \* what calloc is given, in bytes
          Alignments,      \* in units
          MaxLive          \* bound: blocks that programs hold at once

ASSUME HeapAssumption ==
  /\ Capacity \in Nat /\ Capacity > 2
  /\ TREEBIN_SHIFT \in Nat \ {0} /\ NTREEBINS \in Nat \ {0}
  /\ Width \in Nat /\ 32 * Capacity < 2^Width
  /\ Request \cup Counts \cup Sizes \subseteq 0 .. 2^Width - 1
  /\ Alignments \subseteq Nat \ {0}

VARIABLES ms,    \* the mspace: struct malloc_state and the chunks
          live   \* what programs hold: from address to [bytes, align]

vars == <<ms, live>>

-----------------------------------------------------------------------------
(* Sizes and bins *)

Unit == 32
CHUNK_OVERHEAD == 8
MAX_SIZE_T == 2^Width - 1
MAX_REQUEST == 2^Width - 4 * Unit

pad_request(bytes) == (bytes + CHUNK_OVERHEAD + Unit - 1) \div Unit

request2size(bytes) == IF bytes < Unit - CHUNK_OVERHEAD - 1 THEN 1 ELSE pad_request(bytes)

is_small(s) == s < 2^TREEBIN_SHIFT

Bit(s, k) == IF k < 0 THEN 0 ELSE (s \div 2^k) % 2

\* The position of the highest bit that is on
HighestBit(x) == CHOOSE k \in 0 .. Width : 2^k <= x /\ x < 2^(k + 1)

compute_tree_index(s) ==
  LET x == s \div 2^TREEBIN_SHIFT
      k == HighestBit(x)
  IN  IF x = 0 THEN 0
      ELSE IF x >= 2^(NTREEBINS \div 2) THEN NTREEBINS - 1
      ELSE 2 * k + Bit(s, k + TREEBIN_SHIFT - 1)

bit_for_tree_index(i) ==
  IF i = NTREEBINS - 1 THEN Width - 6 ELSE (i \div 2) + TREEBIN_SHIFT - 2

minsize_for_tree_index(i) ==
  2^((i \div 2) + TREEBIN_SHIFT) + (i % 2) * 2^((i \div 2) + TREEBIN_SHIFT - 1)

\* The turns that lead to a size in its tree
Turns(s) ==
  LET b == bit_for_tree_index(compute_tree_index(s))
  IN  [j \in 1 .. b + 1 |-> Bit(s, b + 1 - j)]

TreeBin == 0 .. NTREEBINS - 1

-----------------------------------------------------------------------------
(* Heads and feet of chunks *)

chunksize(m, p) == m.head[p].size
next_chunk(m, p) == p + m.head[p].size
cinuse(m, p) == m.head[p].cinuse
pinuse(m, p) == m.head[p].pinuse

PrevFoot(m, p) == IF p \in DOMAIN m.head THEN m.head[p].prev_foot ELSE 0

\* The head of p is written, and what was inside p is no chunk any more.
SetHead(m, p, s, c, pin) ==
  [m EXCEPT !.head =
     [a \in (DOMAIN m.head \ (p + 1 .. p + s - 1)) \cup {p} |->
        IF a = p
        THEN [size |-> s, cinuse |-> c, pinuse |-> pin,
              prev_foot |-> IF pin THEN 0 ELSE PrevFoot(m, p)]
        ELSE m.head[a]]]

\* head |= PINUSE_BIT, also where no chunk has been made yet
MarkPinuse(m, p) ==
  IF p \in DOMAIN m.head
  THEN SetHead(m, p, chunksize(m, p), cinuse(m, p), TRUE)
  ELSE SetHead(m, p, 1, FALSE, TRUE)

clear_pinuse(m, p) == [m EXCEPT !.head[p].pinuse = FALSE]

set_foot(m, p, s) == [m EXCEPT !.head[p + s].prev_foot = s]

set_inuse(m, p, s) ==
  MarkPinuse(SetHead(m, p, s, TRUE, p \in DOMAIN m.head /\ pinuse(m, p)), p + s)

set_inuse_and_pinuse(m, p, s) == MarkPinuse(SetHead(m, p, s, TRUE, TRUE), p + s)

set_size_and_pinuse_of_inuse_chunk(m, p, s) == SetHead(m, p, s, TRUE, TRUE)

set_size_and_pinuse_of_free_chunk(m, p, s) ==
  set_foot(SetHead(m, p, s, FALSE, TRUE), p, s)

set_free_with_pinuse(m, p, s, n) ==
  set_size_and_pinuse_of_free_chunk(clear_pinuse(m, n), p, s)

-----------------------------------------------------------------------------
(* Small bins: rings, used as stacks *)

insert_small_chunk(m, p, s) ==
  [m EXCEPT !.smallbin[s] = <<p>> \o (IF s \in m.smallmap THEN @ ELSE <<>>),
            !.smallmap = @ \cup {s}]

\* Also unlink_first_small_chunk.
unlink_small_chunk(m, p, s) ==
  LET bin == Remove(m.smallbin[s], p)
  IN  [m EXCEPT !.smallbin[s] = bin,
                !.smallmap = IF bin = <<>> THEN @ \ {s} ELSE @]

\* dvsize is known to be small here.
replace_dv(m, p, s) ==
  LET binned == IF m.dvsize = 0 THEN m ELSE insert_small_chunk(m, m.dv, m.dvsize)
  IN  [binned EXCEPT !.dv = p, !.dvsize = s]

-----------------------------------------------------------------------------
(* Tree bins: tries over the bits of the size *)

\* The first place on the way of size s that is empty or holds chunks of that size
InsertPlace(m, t, s) ==
  LET Here(k) == SubSeq(Turns(s), 1, k)
      Stops(k) == Here(k) \notin DOMAIN t \/ chunksize(m, Head(t[Here(k)])) = s
  IN  Here(CHOOSE k \in 0 .. Len(Turns(s)) : Stops(k) /\ \A j \in 0 .. k - 1 : ~Stops(j))

\* Chunk x comes to place q of tree i.
PutAt(m, i, q, x) ==
  LET t == m.treebin[i]
      ring == IF q \in DOMAIN t THEN InsertAt(t[q], 2, x) ELSE <<x>>
  IN  [m EXCEPT !.treebin[i] = [r \in DOMAIN t \cup {q} |-> IF r = q THEN ring ELSE t[r]],
                !.treemap = @ \cup {i}]

insert_large_chunk(m, x, s) ==
  LET i == compute_tree_index(s) IN PutAt(m, i, InsertPlace(m, m.treebin[i], s), x)

\* The nodes met on the way down from q that takes the turn d where it can
Descent(t, q, d) ==
  {r \in DOMAIN t :
     /\ IsPrefix(q, r)
     /\ \A k \in Len(q) + 1 .. Len(r) :
          r[k] = d \/ Append(SubSeq(r, 1, k - 1), d) \notin DOMAIN t}

Deepest(S) == CHOOSE r \in S : \A q \in S : Len(q) <= Len(r)

\* The rightmost descendent, which is a leaf
Replacement(t, q) == Deepest(Descent(t, q, 1))

unlink_large_chunk(m, x) ==
  LET i == CHOOSE j \in TreeBin : \E q \in DOMAIN m.treebin[j] : x \in ToSet(m.treebin[j][q])
      t == m.treebin[i]
      q == CHOOSE r \in DOMAIN t : x \in ToSet(t[r])
      ring == IF x = Head(t[q]) THEN <<Last(t[q])>> \o Front(Tail(t[q])) ELSE Remove(t[q], x)
      leaf == \A d \in {0, 1} : Append(q, d) \notin DOMAIN t
      r == IF leaf THEN q ELSE Replacement(t, q)
      rest == IF Len(t[q]) > 1 THEN [t EXCEPT ![q] = ring]
              ELSE [p \in DOMAIN t \ {r} |-> IF p = q THEN t[r] ELSE t[p]]
  IN  [m EXCEPT !.treebin[i] = rest,
                !.treemap = IF DOMAIN rest = {} THEN @ \ {i} ELSE @]

insert_chunk(m, p, s) ==
  IF is_small(s) THEN insert_small_chunk(m, p, s) ELSE insert_large_chunk(m, p, s)

unlink_chunk(m, p, s) ==
  IF is_small(s) THEN unlink_small_chunk(m, p, s) ELSE unlink_large_chunk(m, p)

-----------------------------------------------------------------------------
(* mspace_malloc.  A result is the mspace after the call and the address, 0 *)
(* when there is none; the memory of malloc_state is at 0.                  *)

Result(m, mem) == [m |-> m, mem |-> mem]

\* The first of two results, unless it is none
OrElse(r, other) == IF r.mem # 0 THEN r ELSE other

\* No mmap and no morecore: there is nothing more to get.
sys_alloc(m, nb) == Result(m, 0)

set_dv(m, p, s) == [m EXCEPT !.dv = p, !.dvsize = s]

\* The remainder r of a chunk becomes dv, in place of dv or of nothing, or is binned.
Keep(m, r, rsize, as) ==
  CASE as = "dv" -> set_dv(m, r, rsize)
    [] as = "next dv" -> replace_dv(m, r, rsize)
    [] as = "free" -> insert_chunk(m, r, rsize)

\* v is cut, and the remainder kept.
Split(m, v, vsize, nb, as) ==
  LET rsize == vsize - nb
      r == v + nb
      cut == set_size_and_pinuse_of_free_chunk(
               set_size_and_pinuse_of_inuse_chunk(m, v, nb), r, rsize)
  IN  IF rsize < 1 THEN set_inuse_and_pinuse(m, v, vsize) ELSE Keep(cut, r, rsize, as)

\* The chunk of the least size among the nodes S of tree t, 0 if there is none
BestOf(m, t, S) ==
  IF S = {} THEN 0
  ELSE LET q == CHOOSE r \in S : \A p \in S : chunksize(m, Head(t[r])) <= chunksize(m, Head(t[p]))
       IN  Head(t[q])

tmalloc_small(m, nb) ==
  LET t == m.treebin[Min(m.treemap)]
      v == BestOf(m, t, Descent(t, <<>>, 0))
  IN  Result(Split(unlink_large_chunk(m, v), v, chunksize(m, v), nb, "next dv"), v)

\* The nodes on the way of size nb through tree t, up to one of that size
Visited(m, t, nb) ==
  LET Way(k) == SubSeq(Turns(nb), 1, k)
  IN  {q \in DOMAIN t :
         /\ IsPrefix(q, Turns(nb))
         /\ \A k \in 0 .. Len(q) - 1 : chunksize(m, Head(t[Way(k)])) # nb}

\* Mutant: the right subtrees that were passed by are forgotten.
Untaken_None(m, t, nb) == {}

\* The deepest right subtree that the way passed by, as the way down its left
Untaken(m, t, nb) ==
  LET passed == {q \in Visited(m, t, nb) :
                   Len(q) < Len(Turns(nb)) /\ Turns(nb)[Len(q) + 1] = 0
                   /\ Append(q, 1) \in DOMAIN t}
  IN  IF passed = {} THEN {} ELSE Descent(t, Append(Deepest(passed), 1), 0)

\* The best chunk of the tree where nb belongs, 0 if none fits
BestInTree(m, t, nb) ==
  BestOf(m, t, {q \in Visited(m, t, nb) \cup Untaken(m, t, nb) : chunksize(m, Head(t[q])) >= nb})

\* The best chunk of the next tree that is not empty, 0 if there is none
BestInLarger(m, i) ==
  LET left == {j \in m.treemap : j > i}
      u == m.treebin[Min(left)]
  IN  IF left = {} THEN 0 ELSE BestOf(m, u, Descent(u, <<>>, 0))

\* v is used unless there is none or dv fits better.
UseBest(m, v, nb) ==
  IF v # 0 /\ chunksize(m, v) - nb < (m.dvsize - nb) % 2^Width
  THEN Result(Split(unlink_large_chunk(m, v), v, chunksize(m, v), nb, "free"), v)
  ELSE Result(m, 0)

tmalloc_large(m, nb) ==
  LET i == compute_tree_index(nb)
      First(v, w) == IF v # 0 THEN v ELSE w
  IN  UseBest(m, First(BestInTree(m, m.treebin[i], nb), BestInLarger(m, i)), nb)

MAX_SMALL_REQUEST == Unit * 2^TREEBIN_SHIFT - Unit - CHUNK_OVERHEAD

set_top(m, p, s) == [SetHead(m, p, s, FALSE, TRUE) EXCEPT !.top = p, !.topsize = s]

malloc_from_dv(m, nb) ==
  Result(Split(set_dv(m, 0, 0), m.dv, m.dvsize, nb, "dv"), m.dv)

malloc_from_top(m, nb) ==
  Result(set_top(set_size_and_pinuse_of_inuse_chunk(m, m.top, nb),
                 m.top + nb, m.topsize - nb), m.top)

\* A small request: a chunk of its size, else one of the next small bin that is
\* not empty, else the best one of the trees; dv comes before these two.
malloc_small(m, nb) ==
  LET bins == {s \in m.smallmap : s >= nb}
      s == Min(bins)
      p == Head(m.smallbin[s])
      taken == unlink_small_chunk(m, p, s)
  IN  IF nb \in bins THEN Result(set_inuse_and_pinuse(taken, p, s), p)
      ELSE IF nb <= m.dvsize THEN Result(m, 0)
      ELSE IF bins # {} THEN Result(Split(taken, p, s, nb, "next dv"), p)
      ELSE IF m.treemap # {} THEN tmalloc_small(m, nb)
      ELSE Result(m, 0)

malloc_large(m, nb) == IF m.treemap # {} THEN tmalloc_large(m, nb) ELSE Result(m, 0)

mspace_malloc(m, bytes) ==
  LET small == bytes <= MAX_SMALL_REQUEST
      nb == IF small THEN request2size(bytes)
            ELSE IF bytes >= MAX_REQUEST THEN MAX_SIZE_T
            ELSE pad_request(bytes)
      binned == IF small THEN malloc_small(m, nb)
                ELSE IF bytes >= MAX_REQUEST THEN Result(m, 0)
                ELSE malloc_large(m, nb)
  IN  OrElse(binned,
        IF nb <= m.dvsize THEN malloc_from_dv(m, nb)
        ELSE IF nb < m.topsize THEN malloc_from_top(m, nb)
        ELSE sys_alloc(m, nb))

-----------------------------------------------------------------------------
(* mspace_free, and dispose_chunk, which differs in that the chunk need not *)
(* be marked as in use                                                      *)

\* The segment is not the heap's own: nothing is given back, and no more tries.
\* It is called when the chunk that is freed, from mspace old, has reached the top.
sys_trim(old, m) ==
  IF m.top # old.top /\ m.topsize > m.trim_check THEN [m EXCEPT !.trim_check = MAX_SIZE_T] ELSE m

\* Mutant: a chunk that reaches the top through dv stays dv.
ConsolidateTop_KeepsDv(m, p, s) == set_top(m, p, m.topsize + s)

ConsolidateTop(m, p, s) ==
  LET merged == set_top(m, p, m.topsize + s)
  IN  IF p = m.dv THEN set_dv(merged, 0, 0) ELSE merged

\* Consolidation with the next chunk and binning; whatever was free before p is
\* part of p by now.
FreeForward(m, p, s, next) ==
  IF cinuse(m, next) THEN insert_chunk(set_free_with_pinuse(m, p, s, next), p, s)
  ELSE IF next = m.top THEN ConsolidateTop(m, p, s)
  ELSE IF next = m.dv
       THEN set_dv(set_size_and_pinuse_of_free_chunk(m, p, s + m.dvsize), p, s + m.dvsize)
  ELSE LET nsize == chunksize(m, next)
           merged == set_size_and_pinuse_of_free_chunk(unlink_chunk(m, next, nsize), p, s + nsize)
       IN  IF p = m.dv THEN set_dv(merged, p, s + nsize) ELSE insert_chunk(merged, p, s + nsize)

dispose_chunk(m, p, s) ==
  LET next == p + s
      prevsize == m.head[p].prev_foot
      prev == p - prevsize
  IN  IF pinuse(m, p) THEN FreeForward(m, p, s, next)
      ELSE IF prev # m.dv THEN FreeForward(unlink_chunk(m, prev, prevsize), prev, prevsize + s, next)
      ELSE IF cinuse(m, next) /\ pinuse(m, next)
           THEN set_dv(set_free_with_pinuse(m, prev, prevsize + s, next), prev, prevsize + s)
      ELSE FreeForward(m, prev, prevsize + s, next)

mspace_free(m, mem) == sys_trim(m, dispose_chunk(m, mem, chunksize(m, mem)))

-----------------------------------------------------------------------------
(* mspace_calloc, mspace_realloc, mspace_memalign *)

\* Mutant: the product is not checked for overflow.
calloc_request_Wraps(n, size) == (n * size) % 2^Width

\* Numbers of a quarter of the width have a product that fits.
calloc_request(n, size) ==
  LET req == (n * size) % 2^Width
      large == 2^(Width \div 4)
  IN  IF (n >= large \/ size >= large) /\ n # 0 /\ req \div n # size THEN MAX_SIZE_T ELSE req

mspace_calloc(m, n, size) == mspace_malloc(m, calloc_request(n, size))

\* What is beyond nb units of p, which is in use, is freed.
GiveBack(m, p, nb, rsize) ==
  dispose_chunk(set_inuse(set_inuse(m, p, nb), p + nb, rsize), p + nb, rsize)

try_realloc_chunk(m, p, nb) ==
  LET oldsize == chunksize(m, p)
      next == p + oldsize
      free == IF next = m.top THEN m.topsize ELSE IF next = m.dv THEN m.dvsize ELSE chunksize(m, next)
      rsize == oldsize + free - nb
      grown == set_inuse(m, p, nb)
  IN  IF oldsize >= nb
      THEN Result(IF oldsize - nb >= 1 THEN GiveBack(m, p, nb, oldsize - nb) ELSE m, p)
      ELSE IF next = m.top
           THEN IF rsize > 0 THEN Result(set_top(grown, p + nb, rsize), p) ELSE Result(m, 0)
      ELSE IF cinuse(m, next) \/ rsize < 0 THEN Result(m, 0)
      ELSE IF next = m.dv
           THEN Result(IF rsize >= 1
                       THEN set_dv(clear_pinuse(set_size_and_pinuse_of_free_chunk(grown, p + nb, rsize),
                                                p + nb + rsize), p + nb, rsize)
                       ELSE set_dv(set_inuse(m, p, oldsize + free), 0, 0), p)
      ELSE LET taken == unlink_chunk(m, next, free)
           IN  Result(IF rsize < 1 THEN set_inuse(taken, p, oldsize + free)
                      ELSE GiveBack(taken, p, nb, rsize), p)

mspace_realloc(m, oldmem, bytes) ==
  LET Moved(new) == IF new.mem # 0 THEN Result(mspace_free(new.m, oldmem), new.mem) ELSE new
  IN  IF bytes >= MAX_REQUEST THEN Result(m, 0)
      ELSE OrElse(try_realloc_chunk(m, oldmem, request2size(bytes)),
                  Moved(mspace_malloc(m, bytes)))

\* Alignments are rounded up to a power of two.
PowerOfTwo(a) == Min({2^k : k \in 0 .. Width} \cap (a .. 2^Width))

\* Room for the alignment is asked for too; the leading part is freed, then
\* what is left at the end.
internal_memalign(m, alignment, bytes) ==
  LET a == PowerOfTwo(alignment)
      nb == request2size(bytes)
      Led(got, p, size, lead) ==
        IF lead = 0 THEN got
        ELSE dispose_chunk(set_inuse(set_inuse(got, p + lead, size - lead), p, lead), p, lead)
      Ended(aligned, p, spare) ==
        Result(IF spare > 1 THEN GiveBack(aligned, p, nb, spare) ELSE aligned, p)
      Cut(got, p, size, lead) ==
        Ended(Led(got, p, size, lead), p + lead, size - lead - nb)
      Aligned(got) ==
        IF got.mem = 0 THEN Result(m, 0)
        ELSE Cut(got.m, got.mem, chunksize(got.m, got.mem), (-got.mem) % a)
  IN  IF bytes >= MAX_REQUEST - Unit * a THEN Result(m, 0)
      ELSE Aligned(mspace_malloc(m, Unit * (nb + a + 1) - CHUNK_OVERHEAD))

mspace_memalign(m, alignment, bytes) ==
  IF alignment <= 1 THEN mspace_malloc(m, bytes) ELSE internal_memalign(m, alignment, bytes)

-----------------------------------------------------------------------------
(* MallocAllocator *)

\* malloc_state is the first chunk, taken to be one unit; the rest is top, and a
\* fake chunk is behind it.
create_mspace_with_base ==
  [head |-> [a \in {0, 1, Capacity} |->
               [size |-> CASE a = 0 -> 1 [] a = 1 -> Capacity - 1 [] OTHER -> 0,
                cinuse |-> a = 0, pinuse |-> a # Capacity, prev_foot |-> 0]],
   top |-> 1, topsize |-> Capacity - 1, dv |-> 0, dvsize |-> 0,
   smallbin |-> [s \in 1 .. 2^TREEBIN_SHIFT - 1 |-> <<>>], smallmap |-> {},
   treebin |-> [i \in TreeBin |-> <<>>], treemap |-> {},
   trim_check |-> TrimThreshold]

Init ==
  /\ ms = create_mspace_with_base
  /\ live = <<>>

\* The call returns r, to a program that gave block old up for it.
Return(r, old, bytes, align) ==
  /\ ms' = r.m
  /\ live' = IF r.mem = 0 THEN live
             ELSE [a \in (DOMAIN live \ old) \cup {r.mem} |->
                     IF a = r.mem THEN [bytes |-> bytes, align |-> align] ELSE live[a]]

Room == Cardinality(DOMAIN live) < MaxLive

Alloc(bytes) == Room /\ Return(mspace_malloc(ms, bytes), {}, bytes, 1)

AllocAligned(a, bytes) ==
  Room /\ Return(mspace_memalign(ms, a, bytes), {}, bytes, PowerOfTwo(a))

Calloc(n, size) == Room /\ Return(mspace_calloc(ms, n, size), {}, n * size, 1)

\* When there is no room the old block stays.
Realloc(p, bytes) == Return(mspace_realloc(ms, p, bytes), {p}, bytes, 1)

Free(p) ==
  /\ ms' = mspace_free(ms, p)
  /\ live' = [a \in DOMAIN live \ {p} |-> live[a]]

Next ==
  \/ \E b \in Request : Alloc(b)
  \/ \E b \in Request, a \in Alignments : AllocAligned(a, b)
  \/ \E n \in Counts, size \in Sizes : Calloc(n, size)
  \/ \E p \in DOMAIN live : Free(p) \/ \E b \in Request : Realloc(p, b)

Spec == Init /\ [][Next]_vars

-----------------------------------------------------------------------------
(* The checks that a debugging build makes *)

do_check_top_chunk(m) ==
  LET p == m.top IN
  /\ p \in DOMAIN m.head
  /\ chunksize(m, p) = m.topsize
  /\ m.topsize > 0
  /\ p + m.topsize = Capacity
  /\ pinuse(m, p)
  /\ ~pinuse(m, Capacity)

do_check_inuse_chunk(m, p) ==
  /\ cinuse(m, p)
  /\ next_chunk(m, p) \in DOMAIN m.head
  /\ pinuse(m, next_chunk(m, p))
  /\ \/ pinuse(m, p)
     \/ LET prev == p - m.head[p].prev_foot
        IN  prev \in DOMAIN m.head /\ next_chunk(m, prev) = p

do_check_free_chunk(m, p) ==
  LET next == next_chunk(m, p) IN
  /\ ~cinuse(m, p)
  /\ next \in DOMAIN m.head
  /\ ~pinuse(m, next)
  /\ p \notin {m.dv, m.top} =>
       /\ m.head[next].prev_foot = chunksize(m, p)
       /\ pinuse(m, p)
       /\ next = m.top \/ cinuse(m, next)

\* Node q of tree t in bin i: its ring holds chunks of one size that are free
\* and belong here.
do_check_tree(m, i, t, q) ==
  LET s == chunksize(m, Head(t[q])) IN
  /\ compute_tree_index(s) = i
  /\ s >= minsize_for_tree_index(i)
  /\ i = NTREEBINS - 1 \/ s < minsize_for_tree_index(i + 1)
  /\ \A u \in ToSet(t[q]) : chunksize(m, u) = s /\ do_check_free_chunk(m, u)
  /\ q # <<>> => Front(q) \in DOMAIN t
  /\ {Append(q, 0), Append(q, 1)} \subseteq DOMAIN t =>
       chunksize(m, Head(t[Append(q, 0)])) < chunksize(m, Head(t[Append(q, 1)]))

do_check_treebin(m, i) ==
  /\ DOMAIN m.treebin[i] = {} <=> i \notin m.treemap
  /\ \A q \in DOMAIN m.treebin[i] : do_check_tree(m, i, m.treebin[i], q)

do_check_smallbin(m, s) ==
  /\ m.smallbin[s] = <<>> => s \notin m.smallmap
  /\ s \in m.smallmap =>
       \A p \in ToSet(m.smallbin[s]) :
         /\ p \in DOMAIN m.head
         /\ do_check_free_chunk(m, p)
         /\ chunksize(m, p) = s
         /\ do_check_inuse_chunk(m, next_chunk(m, p))

\* A large chunk is found by the way that its size leads through the tree.
bin_find(m, x) ==
  LET s == chunksize(m, x)
      i == compute_tree_index(s)
      found == {q \in Visited(m, m.treebin[i], s) : chunksize(m, Head(m.treebin[i][q])) = s}
  IN  IF is_small(s) THEN s \in m.smallmap /\ x \in ToSet(m.smallbin[s])
      ELSE i \in m.treemap /\ \E q \in found : x \in ToSet(m.treebin[i][q])

\* The chunks fill the segment, and no two neighbours are free.
traverse_and_check(m) ==
  \A q \in DOMAIN m.head \ {m.top, Capacity} :
    /\ next_chunk(m, q) \in DOMAIN m.head
    /\ IF cinuse(m, q) THEN ~bin_find(m, q) /\ do_check_inuse_chunk(m, q)
       ELSE /\ q = m.dv \/ bin_find(m, q)
            /\ do_check_free_chunk(m, q)
            /\ cinuse(m, next_chunk(m, q))

-----------------------------------------------------------------------------
(* Properties *)

\* What do_check_malloc_state asserts in a debugging build holds between any two
\* calls: every bin and tree holds what its mark, its sizes and the way to it
\* say, dv and top are in no bin, and the chunks fill the segment with never two
\* free ones side by side.
HeapSound ==
  /\ \A i \in TreeBin : do_check_treebin(ms, i)
  /\ \A s \in DOMAIN ms.smallbin : do_check_smallbin(ms, s)
  /\ ms.dvsize # 0 => /\ ms.dv \in DOMAIN ms.head
                      /\ ms.dvsize = chunksize(ms, ms.dv)
                      /\ ~bin_find(ms, ms.dv)
  /\ do_check_top_chunk(ms)
  /\ ~bin_find(ms, ms.top)
  /\ traverse_and_check(ms)

\* A block that a program holds keeps its chunk, with the bytes and at the
\* alignment asked for, through whatever other blocks are allocated, resized and
\* freed, and no chunk is in use that nobody holds.
BlocksHeld ==
  /\ DOMAIN live \cup {0} = {p \in DOMAIN ms.head : cinuse(ms, p)}
  /\ \A p \in DOMAIN live :
       /\ live[p].bytes <= Unit * chunksize(ms, p) - CHUNK_OVERHEAD
       /\ p % live[p].align = 0

\* A request is refused only when no free chunk could hold it: the search of the
\* bins misses none, whatever freed and split chunks they have collected.
RefusesOnlyWhenFull ==
  \A b \in Request :
    mspace_malloc(ms, b).mem = 0 =>
      /\ \A p \in DOMAIN ms.head \ {ms.top, Capacity} : cinuse(ms, p) \/ chunksize(ms, p) < request2size(b)
      /\ ms.topsize <= request2size(b)
=============================================================================
