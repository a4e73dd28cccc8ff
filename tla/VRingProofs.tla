---------------------------- MODULE VRingProofs -----------------------------
(***************************************************************************)
(* The descriptor table keeps its free list and the chains in flight, and  *)
(* the ring on top of it is a queue that loses no request, for every size  *)
(* of the ring, every modulus of its indices and every set of calls.       *)
(***************************************************************************)
EXTENDS VRing, SequenceLemmas

\* The time a leaf may take, and a second attempt with more
USE SMTT(30), SMTT(60)

-----------------------------------------------------------------------------
(* The descriptor table *)

\* The fields of the table that links and chains are made of keep their types
\* (constructor, lines 27-39).
TableType ==
  /\ next \in [Descriptor -> Descriptor]
  /\ freeDescriptorHead \in Descriptor
  /\ descriptorsAvailable \in 0 .. ringSize
  /\ descriptorsBuffers \in [Descriptor -> Buffer \cup {NULL}]

\* A chain in flight has a descriptor for every buffer, and none twice.
ChainsTyped ==
  \A c \in lent :
    /\ c.bufs \in Seq(Buffer) /\ Len(c.bufs) >= 1
    /\ c.ids \in [1 .. Len(c.bufs) -> Descriptor]
    /\ \A i, j \in 1 .. Len(c.bufs) : c.ids[i] = c.ids[j] => i = j

\* No descriptor is in two chains.
ChainsApart ==
  \A c, e \in lent : IdsOf(c) \cap IdsOf(e) # {} => c = e

\* The inductive invariant of the table
TableInv ==
  TableType /\ ChainsTyped /\ ChainsApart /\ ChainsIntact /\ FreeListSound

\* Two paths from one descriptor are the same as far as both go.
LEMMA PathUnique ==
  ASSUME NEW m \in Nat, NEW n \in Nat
  PROVE  \A d, v, w : IsPath(v, m, d) /\ IsPath(w, n, d) =>
           \A i \in 1 .. n : i <= m => v[i] = w[i]
<1>. SUFFICES ASSUME NEW d, NEW v, NEW w, IsPath(v, m, d), IsPath(w, n, d)
              PROVE  \A i \in 1 .. n : i <= m => v[i] = w[i]
  OBVIOUS
<1>. DEFINE T == {i \in 1 .. n : i <= m /\ v[i] # w[i]}
<1>. SUFFICES ASSUME T # {} PROVE FALSE
  OBVIOUS
<1>1. PICK k \in T : \A i \in T : k <= i
  <2>1. T \subseteq Nat
    OBVIOUS
  <2>. HIDE DEF T
  <2>. QED
    BY <2>1, LeastOf, ZenonT(60)
<1>2. k \in 1 .. n /\ k <= m /\ v[k] # w[k]
  OBVIOUS
<1>3. k # 1
  BY <1>2 DEF IsPath
<1>4. k - 1 \in 1 .. n - 1 /\ k - 1 \in 1 .. m - 1 /\ (k - 1) + 1 = k
  BY <1>2, <1>3
<1>5. v[k - 1] = w[k - 1]
  <2>1. k - 1 \notin T
    BY <1>1, <1>2
  <2>. QED
    BY <1>4, <2>1
<1>6. v[k] = next[v[k - 1]] /\ w[k] = next[w[k - 1]]
  BY <1>4 DEF IsPath
<1>. QED
  BY <1>2, <1>5, <1>6

\* A loop that stores at different places leaves each of its values at its place.
LEMMA StoredAlong ==
  ASSUME NEW n \in Nat, NEW w \in [1 .. n -> Descriptor],
         \A i, j \in 1 .. n : w[i] = w[j] => i = j
  PROVE  \A f, v :
           /\ \A i \in 1 .. n : StoreAlong(f, w, v)[w[i]] = v[i]
           /\ \A d \in Descriptor : (\A i \in 1 .. n : w[i] # d) => StoreAlong(f, w, v)[d] = f[d]
<1>. TAKE f, v
<1>1. DOMAIN w = 1 .. n
  OBVIOUS
<1>2. ASSUME NEW i \in 1 .. n
      PROVE  (CHOOSE k \in DOMAIN w : w[k] = w[i] /\ \A j \in DOMAIN w : w[j] = w[i] => j <= k) = i
  <2>1. i \in DOMAIN w /\ w[i] = w[i] /\ \A j \in DOMAIN w : w[j] = w[i] => j <= i
    BY <1>1
  <2>. QED
    BY <1>1, <2>1
<1>3. \A i \in 1 .. n : StoreAlong(f, w, v)[w[i]] = v[i]
  BY <1>1, <1>2 DEF StoreAlong
<1>4. \A d \in Descriptor : (\A i \in 1 .. n : w[i] # d) => StoreAlong(f, w, v)[d] = f[d]
  BY <1>1 DEF StoreAlong
<1>. QED
  BY <1>3, <1>4

\* The constructor: all descriptors are free, in the order of their numbers.
LEMMA TableInitInv == TableInit => TableInv
<1>. SUFFICES ASSUME TableInit PROVE TableInv
  OBVIOUS
<1>1. ringSize \in Nat /\ ringSize > 0 /\ Garbage \subseteq Descriptor
  BY TableAssumption DEF Descriptor
<1>2. PICK last \in Garbage :
        next = [d \in Descriptor |-> IF d < ringSize - 1 THEN d + 1 ELSE last]
  BY DEF TableInit
<1>3. TableType
  BY <1>1, <1>2 DEF TableInit, TableType, Descriptor
<1>4. ChainsTyped /\ ChainsApart /\ ChainsIntact /\ InUse = {}
  BY DEF TableInit, ChainsTyped, ChainsApart, ChainsIntact, InUse
<1>5. FreeListSound
  <2>. DEFINE w == [i \in 1 .. ringSize |-> i - 1]
  <2>1. w \in [1 .. ringSize -> Descriptor]
    BY <1>1 DEF Descriptor
  <2>2. \A i, j \in 1 .. ringSize : w[i] = w[j] => i = j
    BY <1>1
  <2>3. w[1] = 0 /\ \A i \in 1 .. ringSize - 1 : w[i + 1] = next[w[i]]
    <3>1. w[1] = 0
      BY <1>1
    <3>2. ASSUME NEW i \in 1 .. ringSize - 1 PROVE w[i + 1] = next[w[i]]
      <4>1. /\ w[i] = i - 1 /\ w[i + 1] = i
            /\ i - 1 \in Descriptor /\ i - 1 < ringSize - 1 /\ (i - 1) + 1 = i
        BY <1>1 DEF Descriptor
      <4>. QED
        BY <1>2, <4>1
    <3>. QED
      BY <3>1, <3>2, ZenonT(60)
  <2>4. {w[i] : i \in 1 .. ringSize} = Descriptor
    <3>1. \A d \in Descriptor : d + 1 \in 1 .. ringSize /\ w[d + 1] = d
      BY <1>1 DEF Descriptor
    <3>. QED
      BY <2>1, <3>1, ZenonT(60)
  <2>. HIDE DEF w
  <2>. QED
    <3>1. descriptorsAvailable = ringSize /\ freeDescriptorHead = 0
      BY DEF TableInit
    <3>2. IsPath(w, ringSize, 0)
      BY <2>1, <2>3 DEF IsPath
    <3>. QED
      BY <1>4, <2>1, <2>2, <2>4, <3>1, <3>2, ZenonT(60) DEF FreeListSound
<1>. QED
  BY <1>3, <1>4, <1>5 DEF TableInv

\* What placeBuffers takes is the front of the free list.
LEMMA PlaceTakesFree ==
  ASSUME TableInv, NEW n \in Nat, n >= 1, descriptorsAvailable >= n,
         NEW f \in [1 .. descriptorsAvailable -> Descriptor],
         \A i, j \in 1 .. descriptorsAvailable : f[i] = f[j] => i = j,
         IsPath(f, descriptorsAvailable, freeDescriptorHead),
         {f[i] : i \in 1 .. descriptorsAvailable} = Descriptor \ InUse,
         NEW w \in [1 .. n -> Descriptor], IsPath(w, n, freeDescriptorHead)
  PROVE  /\ \A i \in 1 .. n : w[i] = f[i] /\ w[i] \notin InUse
         /\ \A i, j \in 1 .. n : w[i] = w[j] => i = j
<1>1. descriptorsAvailable \in Nat
  BY DEF TableInv, TableType
<1>2. \A i \in 1 .. n : i \in 1 .. descriptorsAvailable
  BY <1>1
<1>3. \A i \in 1 .. n : f[i] = w[i]
  BY <1>1, <1>2, PathUnique
<1>. QED
  BY <1>2, <1>3

\* placeBuffers takes descriptors that no chain has and leaves the others alone.
LEMMA PlaceEffect ==
  ASSUME TableInv, NEW bufs \in Seq(Buffer), bufs # <<>>, NEW flags, placeBuffers(bufs, flags)
  PROVE  \E w \in [1 .. Len(bufs) -> Descriptor] :
           /\ w[1] = freeDescriptorHead
           /\ \A i, j \in 1 .. Len(bufs) : w[i] = w[j] => i = j
           /\ \A i \in 1 .. Len(bufs) : w[i] \notin InUse
           /\ lent' = lent \cup {[ids |-> w, bufs |-> bufs]}
           /\ descriptorsAvailable' = descriptorsAvailable - Len(bufs)
           /\ Len(bufs) <= descriptorsAvailable
           /\ TableInv'
<1>. DEFINE n == Len(bufs)
            avail == descriptorsAvailable
<1>1. /\ n \in Nat /\ n >= 1 /\ avail >= n /\ avail \in 0 .. ringSize /\ ringSize \in Nat
  BY TableAssumption DEF TableInv, TableType, placeBuffers
<1>2. PICK f \in [1 .. avail -> Descriptor] :
        /\ \A i, j \in 1 .. avail : f[i] = f[j] => i = j
        /\ IsPath(f, avail, freeDescriptorHead)
        /\ {f[i] : i \in 1 .. avail} = Descriptor \ InUse
  BY <1>1 DEF TableInv, FreeListSound
<1>3. PICK w \in [1 .. n -> Descriptor] :
        /\ IsPath(w, n, freeDescriptorHead)
        /\ flagNext' = StoreAlong(flagNext, w, [i \in 1 .. n |-> Linked(i, n)])
        /\ descriptorsBuffers' = StoreAlong(descriptorsBuffers, w, bufs)
        /\ descriptorsAvailable' = avail - n
        /\ freeDescriptorHead' = next[w[n]]
        /\ lent' = lent \cup {[ids |-> w, bufs |-> bufs]}
        /\ UNCHANGED next
  BY ZenonT(60) DEF placeBuffers, Taken
<1>. HIDE DEF n, avail
<1>4. /\ \A i \in 1 .. n : w[i] = f[i] /\ w[i] \notin InUse
      /\ \A i, j \in 1 .. n : w[i] = w[j] => i = j
  BY <1>1, <1>2, <1>3, PlaceTakesFree, ZenonT(60) DEF avail
<1>5. w[1] = freeDescriptorHead
  BY <1>3 DEF IsPath
<1>. DEFINE new == [ids |-> w, bufs |-> bufs]
<1>6. new.ids = w /\ new.bufs = bufs /\ IdsOf(new) = {w[i] : i \in 1 .. n}
  BY DEF IdsOf
<1>. HIDE DEF new
<1>7. lent' = lent \cup {new}
  BY <1>3 DEF new
<1>8. InUse' = InUse \cup IdsOf(new)
  BY <1>7 DEF InUse, IdsOf
<1>20. \A h, v :
         /\ \A i \in 1 .. n : StoreAlong(h, w, v)[w[i]] = v[i]
         /\ \A d \in Descriptor : (\A i \in 1 .. n : w[i] # d) => StoreAlong(h, w, v)[d] = h[d]
  <2>1. n \in Nat /\ w \in [1 .. n -> Descriptor] /\ \A i, j \in 1 .. n : w[i] = w[j] => i = j
    BY <1>1, <1>4
  <2>. QED
    BY <2>1, StoredAlong
<1>21. \A d \in InUse : \A i \in 1 .. n : w[i] # d
  BY <1>4
<1>9. \A d \in InUse : d \in Descriptor => descriptorsBuffers'[d] = descriptorsBuffers[d]
  BY <1>3, <1>20, <1>21
<1>10. \A d \in InUse : d \in Descriptor => (flagNext'[d] <=> flagNext[d])
  <2>1. \A d \in InUse : d \in Descriptor => flagNext'[d] = flagNext[d]
    BY <1>3, <1>20, <1>21
  <2>. QED
    BY <2>1
<1>11. \A i \in 1 .. n : descriptorsBuffers'[w[i]] = bufs[i]
  BY <1>3, <1>20
<1>12. \A i \in 1 .. n : flagNext'[w[i]] <=> i # n
  <2>. DEFINE v == [j \in 1 .. n |-> Linked(j, n)]
  <2>1. flagNext' = StoreAlong(flagNext, w, v) /\ \A i \in 1 .. n : v[i] = Linked(i, n)
    BY <1>3
  <2>. HIDE DEF v
  <2>2. \A i \in 1 .. n : flagNext'[w[i]] = Linked(i, n)
    BY <1>20, <2>1
  <2>. QED
    BY <2>2, ZenonT(60) DEF Linked
<1>13. TableType'
  <2>1. descriptorsBuffers' \in [Descriptor -> Buffer \cup {NULL}]
    <3>1. descriptorsBuffers' = [d \in Descriptor |-> descriptorsBuffers'[d]]
      BY <1>3 DEF StoreAlong
    <3>2. ASSUME NEW d \in Descriptor PROVE descriptorsBuffers'[d] \in Buffer \cup {NULL}
      <4>1. CASE \E i \in 1 .. n : w[i] = d
        BY <1>11, <4>1 DEF n
      <4>2. CASE ~ \E i \in 1 .. n : w[i] = d
        <5>1. descriptorsBuffers'[d] = descriptorsBuffers[d]
          BY <1>3, <1>20, <4>2
        <5>. QED
          BY <5>1 DEF TableInv, TableType
      <4>. QED
        BY <4>1, <4>2
    <3>. QED
      BY <3>1, <3>2
  <2>2. n \in 1 .. n /\ next[w[n]] \in Descriptor
    BY <1>1 DEF TableInv, TableType
  <2>3. descriptorsAvailable' \in 0 .. ringSize
    BY <1>1, <1>3
  <2>. QED
    BY <1>3, <2>1, <2>2, <2>3 DEF TableInv, TableType
<1>14. ChainsTyped'
  <2>1. n = Len(bufs)
    BY DEF n
  <2>. QED
    BY <1>1, <1>4, <1>6, <1>7, <2>1 DEF TableInv, ChainsTyped
<1>15. ChainsApart'
  <2>1. \A c \in lent : IdsOf(c) \subseteq InUse
    BY DEF InUse
  <2>2. \A c \in lent : IdsOf(c) \cap IdsOf(new) = {}
    BY <1>4, <1>6, <2>1
  <2>. QED
    BY <1>7, <2>2 DEF TableInv, ChainsApart
<1>16. ChainsIntact'
  <2>1. ASSUME NEW c \in lent
        PROVE  /\ IsChain(c.ids, Len(c.bufs), c.ids[1])'
               /\ \A i \in 1 .. Len(c.bufs) : descriptorsBuffers'[c.ids[i]] = c.bufs[i]
    <3>1. \A i \in 1 .. Len(c.bufs) : c.ids[i] \in InUse /\ c.ids[i] \in Descriptor
      BY DEF InUse, IdsOf, TableInv, ChainsTyped
    <3>2. /\ IsChain(c.ids, Len(c.bufs), c.ids[1])
          /\ \A i \in 1 .. Len(c.bufs) : descriptorsBuffers[c.ids[i]] = c.bufs[i]
      BY DEF TableInv, ChainsIntact
    <3>3. IsPath(c.ids, Len(c.bufs), c.ids[1])'
      BY <1>3, <3>2 DEF IsChain, IsPath
    <3>4. \A i \in 1 .. Len(c.bufs) : flagNext'[c.ids[i]] <=> i # Len(c.bufs)
      BY <1>10, <3>1, <3>2 DEF IsChain
    <3>. QED
      BY <1>9, <3>1, <3>2, <3>3, <3>4 DEF IsChain
  <2>2. IsPath(w, n, w[1])'
    BY <1>3, <1>5 DEF IsPath
  <2>3. IsChain(w, n, w[1])'
    BY <1>12, <2>2 DEF IsChain
  <2>4. /\ IsChain(new.ids, Len(new.bufs), new.ids[1])'
        /\ \A i \in 1 .. Len(new.bufs) : descriptorsBuffers'[new.ids[i]] = new.bufs[i]
    BY <1>6, <1>11, <2>3 DEF n
  <2>. QED
    BY <1>7, <2>1, <2>4 DEF ChainsIntact
<1>17. FreeListSound'
  <2>. DEFINE m == avail - n
              g == [i \in 1 .. m |-> f[i + n]]
  <2>1. m \in Nat /\ \A i \in 1 .. m : i + n \in 1 .. avail
    BY <1>1
  <2>2. g \in [1 .. m -> Descriptor] /\ \A i \in 1 .. m : g[i] = f[i + n]
    BY <2>1
  <2>3. \A i, j \in 1 .. m : g[i] = g[j] => i = j
    BY <1>1, <1>2, <2>1, <2>2
  <2>4. {g[i] : i \in 1 .. m} = Descriptor \ InUse'
    <3>1. \A i \in 1 .. avail : i \in 1 .. n \/ (i - n \in 1 .. m /\ f[i] = g[i - n])
      BY <1>1, <2>2
    <3>2. \A i \in 1 .. m : g[i] \in Descriptor \ InUse /\ g[i] \notin IdsOf(new)
      BY <1>1, <1>2, <1>4, <1>6, <2>1, <2>2
    <3>3. \A d \in Descriptor \ InUse : d \in IdsOf(new) \/ \E i \in 1 .. m : g[i] = d
      <4>. SUFFICES ASSUME NEW d \in Descriptor \ InUse, d \notin IdsOf(new)
                    PROVE  \E i \in 1 .. m : g[i] = d
        OBVIOUS
      <4>1. PICK i \in 1 .. avail : f[i] = d
        BY <1>2
      <4>2. i \notin 1 .. n
        BY <1>4, <1>6, <4>1
      <4>. HIDE DEF g, m
      <4>. QED
        BY <3>1, <4>1, <4>2
    <3>. HIDE DEF g, m
    <3>. QED
      BY <1>8, <3>2, <3>3
  <2>5. m > 0 => g[1] = freeDescriptorHead' /\ \A i \in 1 .. m - 1 : g[i + 1] = next'[g[i]]
    <3>. SUFFICES ASSUME m > 0
                  PROVE  g[1] = freeDescriptorHead' /\ \A i \in 1 .. m - 1 : g[i + 1] = next'[g[i]]
      BY ZenonT(60)
    <3>1. n \in 1 .. avail - 1 /\ n \in 1 .. n /\ 1 \in 1 .. m /\ 1 + n = n + 1
      BY <1>1
    <3>2. g[1] = freeDescriptorHead'
      BY <1>2, <1>3, <1>4, <2>2, <3>1 DEF IsPath
    <3>3. ASSUME NEW i \in 1 .. m - 1 PROVE g[i + 1] = next[g[i]]
      <4>1. i + n \in 1 .. avail - 1 /\ (i + 1) + n = (i + n) + 1 /\ i \in 1 .. m /\ i + 1 \in 1 .. m
        BY <1>1
      <4>2. f[(i + n) + 1] = next[f[i + n]]
        BY <1>2, <4>1 DEF IsPath
      <4>. QED
        BY <2>2, <4>1, <4>2
    <3>. HIDE DEF g, m
    <3>. QED
      BY <1>3, <3>2, <3>3
  <2>6. descriptorsAvailable' = m
    BY <1>3
  <2>. HIDE DEF g, m
  <2>. QED
    BY <2>2, <2>3, <2>4, <2>5, <2>6, ZenonT(60) DEF FreeListSound, IsPath
<1>18. TableInv'
  BY <1>13, <1>14, <1>15, <1>16, <1>17 DEF TableInv
<1>. QED
  BY <1>1, <1>3, <1>4, <1>5, <1>18, ZenonT(60) DEF n, avail

\* The chain that getBuffer walks is the one that was placed.
LEMMA ChainFound ==
  ASSUME TableInv, NEW c \in lent, NEW n \in Nat, n >= 1, NEW w, IsChain(w, n, c.ids[1])
  PROVE  n = Len(c.bufs) /\ w = c.ids
<1>. DEFINE m == Len(c.bufs)
            v == c.ids
            d == c.ids[1]
<1>1. /\ m \in Nat /\ m >= 1 /\ v \in [1 .. m -> Descriptor]
      /\ IsChain(v, m, d) /\ IsChain(w, n, d)
  BY DEF TableInv, ChainsTyped, ChainsIntact
<1>. HIDE DEF m, v, d
<1>2. IsPath(v, m, d) /\ IsPath(w, n, d) /\ w \in [1 .. n -> Descriptor]
  BY <1>1 DEF IsChain, IsPath
<1>3. \A i \in 1 .. n : i <= m => v[i] = w[i]
  BY <1>1, <1>2, PathUnique
<1>4. (\A i \in 1 .. m : flagNext[v[i]] <=> i # m) /\ (\A i \in 1 .. n : flagNext[w[i]] <=> i # n)
  BY <1>1 DEF IsChain
<1>5. ~ (n < m)
  <2>. SUFFICES ASSUME n < m PROVE FALSE
    OBVIOUS
  <2>1. n \in 1 .. m /\ n \in 1 .. n /\ n # m /\ v[n] = w[n]
    BY <1>1, <1>3
  <2>. QED
    BY <1>4, <2>1
<1>6. ~ (m < n)
  <2>. SUFFICES ASSUME m < n PROVE FALSE
    OBVIOUS
  <2>1. m \in 1 .. m /\ m \in 1 .. n /\ n # m /\ v[m] = w[m]
    BY <1>1, <1>3
  <2>. QED
    BY <1>4, <2>1
<1>7. n = m
  BY <1>1, <1>5, <1>6
<1>8. w = v
  BY <1>1, <1>2, <1>3, <1>7
<1>. QED
  BY <1>7, <1>8 DEF m, v

\* getBuffer puts the whole chain in front of the free list.
LEMMA GetEffect ==
  ASSUME TableInv, NEW c \in lent, getBuffer(c.ids[1])
  PROVE  /\ lent' = lent \ {c}
         /\ descriptorsAvailable' = descriptorsAvailable + Len(c.bufs)
         /\ TableInv'
<1>. DEFINE n == Len(c.bufs)
            w == c.ids
<1>1. /\ n \in Nat /\ n >= 1 /\ w \in [1 .. n -> Descriptor]
      /\ \A i, j \in 1 .. n : w[i] = w[j] => i = j
      /\ IsChain(w, n, w[1])
  BY DEF TableInv, ChainsTyped, ChainsIntact
<1>2. /\ next' = [next EXCEPT ![w[n]] = freeDescriptorHead]
      /\ freeDescriptorHead' = w[1]
      /\ descriptorsAvailable' = descriptorsAvailable + n
      /\ descriptorsBuffers' = [descriptorsBuffers EXCEPT ![w[1]] = NULL]
      /\ lent' = {e \in lent : e.ids[1] # w[1]}
  <2>1. PICK k \in 1 .. ringSize : \E u \in [1 .. k -> Descriptor] :
          /\ IsChain(u, k, c.ids[1])
          /\ next' = [next EXCEPT ![LastOf(u, k)] = freeDescriptorHead]
          /\ freeDescriptorHead' = c.ids[1]
          /\ descriptorsAvailable' = descriptorsAvailable + k
          /\ descriptorsBuffers' = [descriptorsBuffers EXCEPT ![c.ids[1]] = NULL]
          /\ lent' = {e \in lent : e.ids[1] # c.ids[1]}
    BY ZenonT(60) DEF getBuffer
  <2>2. PICK u \in [1 .. k -> Descriptor] :
          /\ IsChain(u, k, c.ids[1])
          /\ next' = [next EXCEPT ![LastOf(u, k)] = freeDescriptorHead]
          /\ freeDescriptorHead' = c.ids[1]
          /\ descriptorsAvailable' = descriptorsAvailable + k
          /\ descriptorsBuffers' = [descriptorsBuffers EXCEPT ![c.ids[1]] = NULL]
          /\ lent' = {e \in lent : e.ids[1] # c.ids[1]}
    BY <2>1, ZenonT(60)
  <2>3. k \in Nat /\ k >= 1
    BY TableAssumption
  <2>4. k = n /\ u = w
    BY <2>2, <2>3, ChainFound, ZenonT(60)
  <2>. QED
    BY <2>2, <2>4 DEF LastOf
<1>3. UNCHANGED flagNext
  BY DEF getBuffer
<1>. HIDE DEF n
<1>4. IdsOf(c) = {w[i] : i \in 1 .. n} /\ w[1] \in IdsOf(c) /\ w[n] \in IdsOf(c)
  <2>1. 1 \in 1 .. n /\ n \in 1 .. n
    BY <1>1
  <2>. QED
    BY <1>1, <2>1 DEF IdsOf
<1>5. \A e \in lent : e.ids[1] \in IdsOf(e)
  <2>. SUFFICES ASSUME NEW e \in lent PROVE e.ids[1] \in IdsOf(e)
    OBVIOUS
  <2>1. e.ids \in [1 .. Len(e.bufs) -> Descriptor] /\ 1 \in 1 .. Len(e.bufs)
    BY DEF TableInv, ChainsTyped
  <2>. QED
    BY <2>1 DEF IdsOf
<1>6. lent' = lent \ {c}
  BY <1>2, <1>4, <1>5 DEF TableInv, ChainsApart
<1>7. \A e \in lent' : e \in lent /\ IdsOf(e) \cap IdsOf(c) = {}
  BY <1>6 DEF TableInv, ChainsApart
<1>8. InUse' = InUse \ IdsOf(c) /\ IdsOf(c) \subseteq InUse
  BY <1>6, <1>7 DEF InUse, IdsOf
<1>9. \A d \in Descriptor : /\ d # w[n] => next'[d] = next[d]
                            /\ d # w[1] => descriptorsBuffers'[d] = descriptorsBuffers[d]
  BY <1>2 DEF TableInv, TableType
<1>10. next'[w[n]] = freeDescriptorHead /\ w[1] \in Descriptor /\ w[n] \in Descriptor
  <2>1. w[1] \in Descriptor /\ w[n] \in Descriptor
    BY <1>1
  <2>. QED
    BY <1>2, <2>1 DEF TableInv, TableType
<1>11. ChainsTyped' /\ ChainsApart'
  BY <1>6, ZenonT(60) DEF TableInv, ChainsTyped, ChainsApart, IdsOf
<1>12. ChainsIntact'
  <2>. SUFFICES ASSUME NEW e \in lent'
                PROVE  /\ IsChain(e.ids, Len(e.bufs), e.ids[1])'
                       /\ \A i \in 1 .. Len(e.bufs) : descriptorsBuffers'[e.ids[i]] = e.bufs[i]
    BY DEF ChainsIntact
  <2>1. e \in lent /\ IdsOf(e) \cap IdsOf(c) = {}
    BY <1>7
  <2>2. /\ IsChain(e.ids, Len(e.bufs), e.ids[1])
        /\ \A i \in 1 .. Len(e.bufs) : descriptorsBuffers[e.ids[i]] = e.bufs[i]
        /\ e.ids \in [1 .. Len(e.bufs) -> Descriptor]
    BY <2>1 DEF TableInv, ChainsIntact, ChainsTyped
  <2>3. \A i \in 1 .. Len(e.bufs) : e.ids[i] \in Descriptor /\ e.ids[i] # w[1] /\ e.ids[i] # w[n]
    BY <1>4, <2>1, <2>2, ZenonT(60) DEF IdsOf
  <2>4. \A i \in 1 .. Len(e.bufs) - 1 : i \in 1 .. Len(e.bufs)
    BY <2>1 DEF TableInv, ChainsTyped
  <2>5. IsPath(e.ids, Len(e.bufs), e.ids[1])'
    BY <1>9, <2>2, <2>3, <2>4 DEF IsChain, IsPath
  <2>6. \A i \in 1 .. Len(e.bufs) : flagNext'[e.ids[i]] <=> i # Len(e.bufs)
    BY <1>3, <2>2 DEF IsChain
  <2>. QED
    BY <1>9, <2>2, <2>3, <2>5, <2>6 DEF IsChain
<1>. DEFINE avail == descriptorsAvailable
            m == avail + n
<1>13. PICK f \in [1 .. avail -> Descriptor] :
        /\ \A i, j \in 1 .. avail : f[i] = f[j] => i = j
        /\ avail > 0 => IsPath(f, avail, freeDescriptorHead)
        /\ {f[i] : i \in 1 .. avail} = Descriptor \ InUse
  BY ZenonT(60) DEF TableInv, FreeListSound
<1>14. avail \in Nat /\ m \in Nat /\ m >= 1 /\ ringSize \in Nat
  BY <1>1, TableAssumption DEF TableInv, TableType
<1>. DEFINE g == [i \in 1 .. m |-> IF i <= n THEN w[i] ELSE f[i - n]]
<1>. HIDE DEF avail, w
<1>15. /\ \A i \in 1 .. n : i \in 1 .. m /\ g[i] = w[i]
       /\ \A i \in 1 .. avail : i + n \in 1 .. m /\ g[i + n] = f[i]
       /\ \A i \in 1 .. m : i \in 1 .. n \/ (i > n /\ i - n \in 1 .. avail /\ g[i] = f[i - n])
  BY <1>1, <1>14
<1>. HIDE DEF g
<1>16. g \in [1 .. m -> Descriptor]
  <2>1. \A i \in 1 .. m : g[i] \in Descriptor
    BY <1>1, <1>13, <1>15
  <2>. QED
    BY <2>1 DEF g
<1>17. \A i, j \in 1 .. m : g[i] = g[j] => i = j
  <2>1. \A i \in 1 .. n, j \in 1 .. avail : w[i] # f[j]
    BY <1>4, <1>8, <1>13
  <2>. SUFFICES ASSUME NEW i \in 1 .. m, NEW j \in 1 .. m, g[i] = g[j] PROVE i = j
    OBVIOUS
  <2>2. CASE i \in 1 .. n /\ j \in 1 .. n
    BY <1>1, <1>15, <2>2
  <2>3. CASE i \notin 1 .. n /\ j \notin 1 .. n
    <3>1. i - n \in 1 .. avail /\ j - n \in 1 .. avail /\ f[i - n] = f[j - n]
      BY <1>15, <2>3
    <3>2. i - n = j - n
      BY <1>13, <3>1
    <3>. QED
      BY <1>1, <1>14, <3>2
  <2>. QED
    BY <1>15, <2>1, <2>2, <2>3
<1>18. {g[i] : i \in 1 .. m} = Descriptor \ InUse'
  <2>1. \A i \in 1 .. m : g[i] \in Descriptor \ InUse'
    BY <1>1, <1>4, <1>8, <1>13, <1>15, <1>16
  <2>2. \A d \in Descriptor \ InUse' : \E i \in 1 .. m : g[i] = d
    <3>. SUFFICES ASSUME NEW d \in Descriptor \ InUse' PROVE \E i \in 1 .. m : g[i] = d
      OBVIOUS
    <3>1. CASE d \in IdsOf(c)
      BY <1>4, <1>15, <3>1
    <3>2. CASE d \notin IdsOf(c)
      <4>1. PICK i \in 1 .. avail : f[i] = d
        BY <1>8, <1>13, <3>2
      <4>. QED
        BY <1>15, <4>1
    <3>. QED
      BY <3>1, <3>2
  <2>. QED
    BY <2>1, <2>2
<1>19. g[1] = w[1] /\ \A i \in 1 .. m - 1 : g[i + 1] = next'[g[i]]
  <2>1. 1 \in 1 .. n
    BY <1>1
  <2>2. ASSUME NEW i \in 1 .. m - 1 PROVE g[i + 1] = next'[g[i]]
    <3>1. CASE i < n
      <4>1. i \in 1 .. n - 1 /\ i \in 1 .. n /\ i + 1 \in 1 .. n /\ i # n /\ n \in 1 .. n
        BY <1>1, <1>14, <3>1
      <4>2. w[i + 1] = next[w[i]] /\ w[i] # w[n] /\ w[i] \in Descriptor
        BY <1>1, <4>1 DEF IsChain, IsPath
      <4>. QED
        BY <1>9, <1>15, <4>1, <4>2
    <3>2. CASE i = n
      <4>1. n \in 1 .. n /\ 1 \in 1 .. avail /\ avail > 0 /\ 1 + n = i + 1
        BY <1>1, <1>14, <3>2
      <4>2. f[1] = freeDescriptorHead
        BY <1>13, <4>1 DEF IsPath
      <4>. QED
        BY <1>10, <1>15, <3>2, <4>1, <4>2
    <3>3. CASE i > n
      <4>1. /\ i - n \in 1 .. avail - 1 /\ i - n \in 1 .. avail /\ avail > 0
            /\ (i - n) + 1 \in 1 .. avail /\ ((i - n) + 1) + n = i + 1 /\ (i - n) + n = i
        BY <1>1, <1>14, <3>3
      <4>2. f[(i - n) + 1] = next[f[i - n]]
        BY <1>13, <4>1 DEF IsPath
      <4>3. g[i] = f[i - n] /\ g[i + 1] = f[(i - n) + 1]
        BY <1>15, <4>1
      <4>4. f[i - n] # w[n] /\ f[i - n] \in Descriptor
        BY <1>4, <1>8, <1>13, <4>1
      <4>. QED
        BY <1>9, <4>2, <4>3, <4>4
    <3>. QED
      BY <1>1, <1>14, <3>1, <3>2, <3>3
  <2>. QED
    BY <1>15, <2>1, <2>2
<1>20. m <= ringSize
  BY <1>14, <1>16, <1>17, AtMost, ZenonT(60) DEF Descriptor
<1>21. TableType'
  <2>1. m \in 0 .. ringSize
    BY <1>14, <1>20
  <2>2. freeDescriptorHead' \in Descriptor /\ next' \in [Descriptor -> Descriptor]
    BY <1>2, <1>10 DEF TableInv, TableType, w
  <2>3. descriptorsBuffers' \in [Descriptor -> Buffer \cup {NULL}]
    BY <1>2, ZenonT(60) DEF TableInv, TableType, w
  <2>. QED
    BY <1>2, <2>1, <2>2, <2>3 DEF TableType, avail, n
<1>22. FreeListSound'
  <2>1. descriptorsAvailable' = m /\ freeDescriptorHead' = w[1]
    BY <1>2 DEF avail, w
  <2>. HIDE DEF m
  <2>. QED
    BY <1>16, <1>17, <1>18, <1>19, <2>1, ZenonT(60) DEF FreeListSound, IsPath
<1>23. TableInv'
  BY <1>11, <1>12, <1>21, <1>22 DEF TableInv
<1>. QED
  BY <1>2, <1>6, <1>23 DEF n

\* Every call of the driver keeps the table sound.
LEMMA TableNextInv == TableInv /\ [TableNext]_tableVars => TableInv'
<1>. SUFFICES ASSUME TableInv, [TableNext]_tableVars PROVE TableInv'
  OBVIOUS
<1>1. ASSUME NEW r \in Request, placeBuffers(r.bufs, r.flags) PROVE TableInv'
  <2>1. r.bufs \in Seq(Buffer) /\ r.bufs # <<>>
    BY TableAssumption
  <2>. QED
    BY <1>1, <2>1, PlaceEffect
<1>2. ASSUME NEW c \in lent, getBuffer(c.ids[1]) PROVE TableInv'
  BY <1>2, GetEffect
<1>3. CASE UNCHANGED tableVars
  <2>1. UNCHANGED <<next, freeDescriptorHead, descriptorsAvailable, descriptorsBuffers, lent>>
    BY <1>3 DEF tableVars
  <2>2. flagNext' = flagNext
    BY <1>3 DEF tableVars
  <2>3. TableType' /\ ChainsTyped' /\ ChainsApart'
    BY <2>1, ZenonT(60) DEF TableInv, TableType, ChainsTyped, ChainsApart, IdsOf
  <2>4. ChainsIntact'
    BY <2>1, <2>2 DEF TableInv, ChainsIntact, IsChain, IsPath
  <2>5. InUse' = InUse
    BY <2>1 DEF InUse, IdsOf
  <2>6. FreeListSound'
    <3>1. ASSUME NEW w, NEW n, NEW d, IsPath(w, n, d) PROVE IsPath(w, n, d)'
      BY <2>1, <3>1 DEF IsPath
    <3>. QED
      BY <2>1, <2>5, <3>1, ZenonT(60) DEF TableInv, FreeListSound
  <2>. QED
    BY <2>3, <2>4, <2>6 DEF TableInv
<1>. QED
  BY <1>1, <1>2, <1>3 DEF TableNext

\* In whatever order chains are placed and given back, the free list and the chains
\* partition the descriptors, and a chain in flight stays as it was built
\* (descriptor-table.js 92-150), in a table of any size and with any requests.
THEOREM TableSound == TableSpec => [](FreeListSound /\ ChainsIntact)
<1>1. TableInv => FreeListSound /\ ChainsIntact
  BY DEF TableInv
<1>. QED
  BY <1>1, TableInitInv, TableNextInv, PTL DEF TableSpec

-----------------------------------------------------------------------------
(* Rings of slots, and indices that wrap around *)

\* The slots of fewer than ringSize indices in a row are different, also across the
\* end of the indices.
LEMMA Slots ==
  ASSUME NEW x \in Nat
  PROVE  /\ SlotOf(x % IdxMod) \in Descriptor
         /\ SlotOf(x % IdxMod) = x % ringSize
         /\ \A y \in Nat : x < y /\ y < x + ringSize =>
              SlotOf(x % IdxMod) # SlotOf(y % IdxMod)
<1>1. ringSize \in Nat /\ ringSize > 0 /\ IdxMod \in Nat /\ IdxMod > 0 /\ IdxMod % ringSize = 0
  BY TableAssumption, RingAssumption
<1>2. ASSUME NEW z \in Nat PROVE (z % IdxMod) % ringSize = z % ringSize
  <2>. DEFINE k == IdxMod \div ringSize
              q == z \div IdxMod
              u == z % IdxMod
              s == u \div ringSize
              t == u % ringSize
  <2>1. k \in Int /\ IdxMod = ringSize * k
    BY <1>1, Remainder
  <2>2. q \in Int /\ u \in Int /\ u = z - IdxMod * q
    BY <1>1, Remainder
  <2>3. s \in Int /\ t \in 0 .. ringSize - 1 /\ t = u - ringSize * s
    BY <1>1, <2>2, Remainder
  <2>. HIDE DEF k, q, u, s, t
  <2>4. z = (k * q + s) * ringSize + t
    <3>1. IdxMod * q = (k * q) * ringSize
      BY <1>1, <2>1, <2>2
    <3>. DEFINE p == k * q
    <3>2. p \in Int /\ IdxMod * q = p * ringSize
      BY <2>1, <2>2, <3>1
    <3>. HIDE DEF p
    <3>3. (p + s) * ringSize = p * ringSize + ringSize * s
      BY <1>1, <2>3, <3>2
    <3>4. p * ringSize \in Int /\ ringSize * s \in Int /\ IdxMod * q \in Int /\ t \in Int
      BY <1>1, <2>2, <2>3, <3>2
    <3>6. z = IdxMod * q + ringSize * s + t
      BY <2>2, <2>3, <3>4
    <3>5. z = (p + s) * ringSize + t
      BY <3>2, <3>3, <3>4, <3>6
    <3>. QED
      BY <3>5 DEF p
  <2>5. k * q + s \in Int
    BY <2>1, <2>2, <2>3
  <2>6. z % ringSize = t
    <3>. DEFINE p == k * q + s
    <3>1. p \in Int /\ z = p * ringSize + t
      BY <2>4, <2>5
    <3>. HIDE DEF p
    <3>2. ringSize \in Nat /\ ringSize > 0 /\ z \in Int /\ t \in 0 .. ringSize - 1
      BY <1>1, <2>3
    <3>. QED
      BY <3>1, <3>2
  <2>. QED
    BY <2>6 DEF t, u
<1>3. \A z \in Nat : SlotOf(z % IdxMod) = z % ringSize /\ z % ringSize \in Descriptor
  BY <1>1, <1>2, Remainder DEF SlotOf, Descriptor
<1>4. ASSUME NEW y \in Nat, x < y, y < x + ringSize, x % ringSize = y % ringSize PROVE FALSE
  <2>. DEFINE a == x \div ringSize
              b == y \div ringSize
  <2>1. /\ a \in Int /\ b \in Int /\ x % ringSize \in Int
        /\ x % ringSize = x - ringSize * a /\ y % ringSize = y - ringSize * b
    BY <1>1, Remainder
  <2>. HIDE DEF a, b
  <2>2. y - x = (b - a) * ringSize
    BY <1>1, <1>4, <2>1
  <2>. DEFINE c == b - a
  <2>3. c \in Int /\ y - x = c * ringSize
    BY <2>1, <2>2
  <2>. HIDE DEF c
  <2>4. c >= 1 => c * ringSize >= ringSize
    BY <1>1, <2>3
  <2>5. c <= 0 => c * ringSize <= 0
    BY <1>1, <2>3
  <2>. QED
    BY <1>1, <1>4, <2>3, <2>4, <2>5
<1>. QED
  BY <1>3, <1>4

Index == 0 .. IdxMod - 1

\* What a ring holds from an index up to another one
Window(ring, from, to) ==
  [i \in 1 .. Distance(from, to) |-> ring[SlotOf((from + i - 1) % IdxMod)]]

\* How far an index is ahead of another one, and when it moves on
LEMMA Distances ==
  ASSUME NEW a \in Index, NEW b \in Index
  PROVE  /\ Distance(a, b) \in 0 .. IdxMod - 1
         /\ Distance(a, b) = 0 <=> a = b
         /\ b = (a + Distance(a, b)) % IdxMod
         /\ Inc(a) \in Index
         /\ Distance(a, b) < IdxMod - 1 => Distance(a, Inc(b)) = Distance(a, b) + 1
         /\ a # b => Distance(Inc(a), b) = Distance(a, b) - 1
<1>1. IdxMod \in Nat /\ IdxMod > 0
  BY TableAssumption, RingAssumption
<1>2. \A x, y \in Index : Distance(x, y) = IF y >= x THEN y - x ELSE y - x + IdxMod
  BY <1>1 DEF Index, Distance
<1>3. \A x \in Index : Inc(x) = IF x + 1 = IdxMod THEN 0 ELSE x + 1
  BY <1>1 DEF Index, Inc
<1>4. b = (a + Distance(a, b)) % IdxMod
  <2>1. CASE b >= a
    <3>1. a + Distance(a, b) = b
      BY <1>1, <1>2, <2>1 DEF Index
    <3>. QED
      BY <1>1, <3>1 DEF Index
  <2>2. CASE b < a
    <3>1. a + Distance(a, b) = 1 * IdxMod + b
      BY <1>1, <1>2, <2>2 DEF Index
    <3>. QED
      BY <1>1, <3>1, Remainder DEF Index
  <2>. QED
    BY <1>1, <2>1, <2>2 DEF Index
<1>5. Inc(a) \in Index /\ Inc(b) \in Index
  BY <1>1, <1>3 DEF Index
<1>6. Distance(a, b) \in 0 .. IdxMod - 1 /\ (Distance(a, b) = 0 <=> a = b)
  BY <1>1, <1>2 DEF Index
<1>7. Distance(a, b) < IdxMod - 1 => Distance(a, Inc(b)) = Distance(a, b) + 1
  <2>1. Distance(a, Inc(b)) = IF Inc(b) >= a THEN Inc(b) - a ELSE Inc(b) - a + IdxMod
    BY <1>2, <1>5
  <2>2. CASE b + 1 = IdxMod
    <3>1. Inc(b) = 0 /\ b >= a
      BY <1>1, <1>3, <2>2 DEF Index
    <3>. QED
      BY <1>1, <1>2, <2>1, <2>2, <3>1 DEF Index
  <2>3. CASE b + 1 # IdxMod
    <3>1. Inc(b) = b + 1
      BY <1>1, <1>3, <2>3 DEF Index
    <3>. QED
      BY <1>1, <1>2, <2>1, <2>3, <3>1 DEF Index
  <2>. QED
    BY <2>2, <2>3
<1>8. a # b => Distance(Inc(a), b) = Distance(a, b) - 1
  <2>1. Distance(Inc(a), b) = IF b >= Inc(a) THEN b - Inc(a) ELSE b - Inc(a) + IdxMod
    BY <1>2, <1>5
  <2>. QED
    BY <1>1, <1>2, <1>3, <2>1 DEF Index
<1>. QED
  BY <1>4, <1>5, <1>6, <1>7, <1>8

\* available-ring.js 46-51 and what the device does with the used ring: an entry
\* is written behind the last one, and none that is still to be read is overwritten.
LEMMA WindowAppend ==
  ASSUME NEW ring \in [Descriptor -> Descriptor], NEW r \in [Descriptor -> Descriptor],
         NEW a \in Index, NEW b \in Index, Distance(a, b) < ringSize,
         \A i \in Descriptor : i # SlotOf(b) => r[i] = ring[i]
  PROVE  Window(r, a, Inc(b)) = Append(Window(ring, a, b), r[SlotOf(b)])
<1>1. ringSize \in Nat /\ ringSize > 0 /\ IdxMod \in Nat /\ IdxMod > ringSize
  BY TableAssumption, RingAssumption
<1>. DEFINE D == Distance(a, b)
            d == r[SlotOf(b)]
<1>2. D \in Nat /\ D < ringSize /\ Distance(a, Inc(b)) = D + 1 /\ b = (a + D) % IdxMod /\ a \in Nat
  BY <1>1, Distances DEF Index
<1>3. SlotOf(b) \in Descriptor
  BY <1>2, Slots
<1>4. d \in Descriptor /\ r[SlotOf(b)] = d
  BY <1>3
<1>5. ASSUME NEW i \in 1 .. D
      PROVE  r[SlotOf((a + i - 1) % IdxMod)] = ring[SlotOf((a + i - 1) % IdxMod)]
  <2>1. a + i - 1 \in Nat /\ a + i - 1 < a + D /\ a + D < (a + i - 1) + ringSize /\ a + D \in Nat
    BY <1>1, <1>2
  <2>2. SlotOf((a + i - 1) % IdxMod) # SlotOf(b) /\ SlotOf((a + i - 1) % IdxMod) \in Descriptor
    BY <1>2, <2>1, Slots
  <2>. QED
    BY <2>2
<1>6. a + (D + 1) - 1 = a + D
  BY <1>2
<1>. HIDE DEF D, d
<1>7. Window(r, a, Inc(b)) = [i \in 1 .. D + 1 |-> r[SlotOf((a + i - 1) % IdxMod)]]
  BY <1>2 DEF Window
<1>8. Window(ring, a, b) = [i \in 1 .. D |-> ring[SlotOf((a + i - 1) % IdxMod)]]
  BY DEF Window, D
<1>9. Window(ring, a, b) \in Seq(Descriptor) /\ Len(Window(ring, a, b)) = D
  <2>1. \A i \in 1 .. D : ring[SlotOf((a + i - 1) % IdxMod)] \in Descriptor
    <3>. SUFFICES ASSUME NEW i \in 1 .. D PROVE ring[SlotOf((a + i - 1) % IdxMod)] \in Descriptor
      OBVIOUS
    <3>1. a + i - 1 \in Nat
      BY <1>2
    <3>. QED
      BY <3>1, Slots
  <2>. DEFINE u == Window(ring, a, b)
  <2>. HIDE DEF u
  <2>2. u = [i \in 1 .. D |-> ring[SlotOf((a + i - 1) % IdxMod)]]
    BY <1>8 DEF u
  <2>3. u \in Seq(Descriptor) /\ Len(u) = D
    BY <1>2, <2>1, <2>2
  <2>. QED
    BY <2>3 DEF u
<1>. DEFINE v == Window(r, a, Inc(b))
            w == Append(Window(ring, a, b), d)
<1>10. DOMAIN v = 1 .. D + 1 /\ DOMAIN w = 1 .. D + 1
  BY <1>2, <1>7, <1>9
<1>11. ASSUME NEW i \in 1 .. D + 1 PROVE v[i] = w[i]
  <2>1. CASE i = D + 1
    <3>1. v[i] = r[SlotOf((a + D) % IdxMod)]
      BY <1>2, <1>6, <1>7, <2>1
    <3>. QED
      BY <1>2, <1>4, <1>9, <2>1, <3>1
  <2>2. CASE i # D + 1
    <3>1. i \in 1 .. D
      BY <1>2, <2>2
    <3>2. v[i] = r[SlotOf((a + i - 1) % IdxMod)] /\ Window(ring, a, b)[i] = ring[SlotOf((a + i - 1) % IdxMod)]
      BY <1>7, <1>8, <3>1
    <3>3. w[i] = Window(ring, a, b)[i]
      BY <1>9, <3>1
    <3>. QED
      BY <1>5, <3>1, <3>2, <3>3
  <2>. QED
    BY <2>1, <2>2, ZenonT(60)
<1>12. v = w
  <2>1. v = [i \in 1 .. D + 1 |-> v[i]] /\ w \in Seq(Descriptor)
    BY <1>4, <1>7, <1>9
  <2>. HIDE DEF v, w
  <2>. QED
    BY <1>10, <1>11, <2>1
<1>. QED
  BY <1>12 DEF d

\* The next entry is read, and the index moves on.
LEMMA WindowTail ==
  ASSUME NEW ring \in [Descriptor -> Descriptor], NEW a \in Index, NEW b \in Index
  PROVE  /\ Window(ring, a, b) \in Seq(Descriptor) /\ Len(Window(ring, a, b)) = Distance(a, b)
         /\ a # b => /\ Window(ring, a, b) # <<>>
                     /\ Head(Window(ring, a, b)) = ring[SlotOf(a)]
                     /\ Window(ring, Inc(a), b) = Tail(Window(ring, a, b))
         /\ a = b => Window(ring, a, b) = <<>>
<1>1. ringSize \in Nat /\ ringSize > 0 /\ IdxMod \in Nat /\ IdxMod > ringSize
  BY TableAssumption, RingAssumption
<1>. DEFINE D == Distance(a, b)
            w == Window(ring, a, b)
<1>2. D \in Nat /\ (D = 0 <=> a = b) /\ a \in Nat /\ a < IdxMod
  BY <1>1, Distances DEF Index
<1>3. \A i \in 1 .. D : ring[SlotOf((a + i - 1) % IdxMod)] \in Descriptor
  <2>. SUFFICES ASSUME NEW i \in 1 .. D PROVE ring[SlotOf((a + i - 1) % IdxMod)] \in Descriptor
    OBVIOUS
  <2>1. a + i - 1 \in Nat
    BY <1>2
  <2>. QED
    BY <2>1, Slots
<1>. HIDE DEF D
<1>4. w = [i \in 1 .. D |-> ring[SlotOf((a + i - 1) % IdxMod)]]
  BY DEF Window, D
<1>. HIDE DEF w
<1>5. w \in Seq(Descriptor) /\ Len(w) = D
  BY <1>2, <1>3, <1>4
<1>6. ASSUME a # b
      PROVE  w # <<>> /\ Head(w) = ring[SlotOf(a)] /\ Window(ring, Inc(a), b) = Tail(w)
  <2>1. D >= 1 /\ w # <<>> /\ Head(w) = w[1] /\ 1 \in 1 .. D
    BY <1>2, <1>5, <1>6
  <2>2. a + 1 - 1 = a /\ a % IdxMod = a
    BY <1>1, <1>2
  <2>3. Head(w) = ring[SlotOf(a)]
    BY <1>4, <2>1, <2>2
  <2>4. Distance(Inc(a), b) = D - 1
    BY <1>6, Distances DEF D
  <2>. DEFINE v == Window(ring, Inc(a), b)
  <2>5. v = [i \in 1 .. D - 1 |-> ring[SlotOf((Inc(a) + i - 1) % IdxMod)]]
    BY <2>4 DEF Window
  <2>6. /\ Tail(w) \in Seq(Descriptor) /\ Len(Tail(w)) = D - 1
        /\ \A i \in 1 .. D - 1 : Tail(w)[i] = w[i + 1] /\ i + 1 \in 1 .. D
    BY <1>2, <1>5, <2>1
  <2>7. ASSUME NEW i \in 1 .. D - 1 PROVE (Inc(a) + i - 1) % IdxMod = (a + (i + 1) - 1) % IdxMod
    <3>1. CASE a + 1 < IdxMod
      <4>1. Inc(a) = a + 1
        BY <1>1, <1>2, <3>1 DEF Inc
      <4>2. a + 1 + i - 1 = a + (i + 1) - 1
        BY <1>2
      <4>. QED
        BY <4>1, <4>2
    <3>2. CASE a + 1 = IdxMod
      <4>1. Inc(a) = 0
        BY <1>1, <1>2, <3>2 DEF Inc
      <4>2. i - 1 \in 0 .. IdxMod - 1
        BY <1>1, <1>2, <3>2, Distances DEF D, Index
      <4>3. a + (i + 1) - 1 = 1 * IdxMod + (i - 1)
        BY <1>1, <1>2, <3>2
      <4>4. (a + (i + 1) - 1) % IdxMod = i - 1
        BY <1>1, <1>2, <4>2, <4>3, Remainder
      <4>5. (Inc(a) + i - 1) % IdxMod = i - 1
        BY <1>1, <4>1, <4>2
      <4>. QED
        BY <4>4, <4>5
    <3>. QED
      BY <1>1, <1>2, <3>1, <3>2
  <2>8. \A i \in 1 .. D - 1 : v[i] = Tail(w)[i]
    BY <1>4, <2>5, <2>6, <2>7, ZenonT(60)
  <2>9. v = Tail(w)
    <3>1. DOMAIN v = 1 .. D - 1 /\ v = [i \in DOMAIN v |-> v[i]]
      BY <2>5
    <3>. DEFINE u == Tail(w)
    <3>2. u \in Seq(Descriptor) /\ Len(u) = D - 1 /\ \A i \in 1 .. D - 1 : v[i] = u[i]
      BY <2>6, <2>8
    <3>. HIDE DEF u, v
    <3>3. DOMAIN u = 1 .. D - 1 /\ u = [i \in DOMAIN u |-> u[i]]
      BY <3>2
    <3>4. v = u
      BY <3>1, <3>2, <3>3
    <3>. QED
      BY <3>4 DEF u, v
  <2>. QED
    BY <2>1, <2>3, <2>9
<1>7. a = b => w = <<>>
  BY <1>2, <1>5
<1>. QED
  BY <1>5, <1>6, <1>7 DEF w, D

-----------------------------------------------------------------------------
(* The queue *)

\* What the driver has offered and the device not taken, in order; what the device
\* has given back and the driver not fetched
offers == Window(availRing, taken, availIdx)
uses == Window(usedRing, lastUsedIndex, usedIdx)

Distinct(q) == \A i, j \in DOMAIN q : q[i] = q[j] => i = j

\* Indices, rings and the call of the driver keep their types.
RingType ==
  /\ availIdx \in Index /\ taken \in Index /\ usedIdx \in Index /\ lastUsedIndex \in Index
  /\ availRing \in [Descriptor -> Descriptor] /\ usedRing \in [Descriptor -> Descriptor]
  /\ held \subseteq Descriptor
  /\ placing \in Call \cup {NULL}
  /\ pc = "place" => placing \in Call

\* Every request in flight is in one place, and there once.
Once ==
  /\ Distinct(offers) /\ Distinct(uses)
  /\ Heads = Range(offers) \cup held \cup Range(uses)
  /\ Range(offers) \cap held = {} /\ Range(offers) \cap Range(uses) = {}
  /\ held \cap Range(uses) = {}

\* The inductive invariant of the ring
IInv == TableInv /\ RingType /\ Once

\* The sequences are what the entries between two indices are.
LEMMA Views ==
  RingType => /\ offers \in Seq(Descriptor) /\ Len(offers) = Distance(taken, availIdx)
              /\ uses \in Seq(Descriptor) /\ Len(uses) = Distance(lastUsedIndex, usedIdx)
              /\ Offered = Range(offers) /\ Used = Range(uses)
              /\ Completed = [i \in 1 .. Len(uses) |-> Sized(uses[i])]
<1>. SUFFICES ASSUME RingType
              PROVE  /\ offers \in Seq(Descriptor) /\ Len(offers) = Distance(taken, availIdx)
                     /\ uses \in Seq(Descriptor) /\ Len(uses) = Distance(lastUsedIndex, usedIdx)
                     /\ Offered = Range(offers) /\ Used = Range(uses)
                     /\ Completed = [i \in 1 .. Len(uses) |-> Sized(uses[i])]
  OBVIOUS
<1>1. /\ offers \in Seq(Descriptor) /\ Len(offers) = Distance(taken, availIdx)
      /\ uses \in Seq(Descriptor) /\ Len(uses) = Distance(lastUsedIndex, usedIdx)
  BY WindowTail, ZenonT(60) DEF RingType, offers, uses
<1>2. ASSUME NEW ring, NEW a \in Index, NEW b \in Index
      PROVE  {ring[SlotOf((a + i) % IdxMod)] : i \in 0 .. Distance(a, b) - 1}
               = Range(Window(ring, a, b))
  <2>. DEFINE D == Distance(a, b)
              w == Window(ring, a, b)
  <2>1. D \in Nat /\ a \in Nat
    BY Distances, RingAssumption DEF Index
  <2>2. w = [i \in 1 .. D |-> ring[SlotOf((a + i - 1) % IdxMod)]]
    BY DEF Window
  <2>. HIDE DEF D, w
  <2>3. \A i \in 0 .. D - 1 : i + 1 \in 1 .. D /\ a + (i + 1) - 1 = a + i
    BY <2>1
  <2>4. \A i \in 1 .. D : i - 1 \in 0 .. D - 1 /\ a + i - 1 = a + (i - 1)
    BY <2>1
  <2>5. \A i \in 0 .. D - 1 : w[i + 1] = ring[SlotOf((a + i) % IdxMod)]
    BY <2>2, <2>3
  <2>6. \A i \in 1 .. D : w[i] = ring[SlotOf((a + (i - 1)) % IdxMod)]
    BY <2>2, <2>4
  <2>7. DOMAIN w = 1 .. D
    BY <2>2
  <2>8. {ring[SlotOf((a + i) % IdxMod)] : i \in 0 .. D - 1} = Range(w)
    BY <2>3, <2>4, <2>5, <2>6, <2>7 DEF Range
  <2>. QED
    BY <2>8 DEF D, w
<1>3. Offered = Range(offers) /\ Used = Range(uses)
  BY <1>2 DEF RingType, Offered, Used, offers, uses
<1>4. Completed = [i \in 1 .. Len(uses) |-> Sized(uses[i])]
  BY <1>1, ZenonT(60) DEF Completed, uses, Window
<1>. QED
  BY <1>1, <1>3, <1>4

\* A new member keeps a queue without repetitions.
LEMMA AppendDistinct ==
  ASSUME NEW q \in Seq(Descriptor), NEW d \in Descriptor, Distinct(q), d \notin Range(q)
  PROVE  /\ Append(q, d) \in Seq(Descriptor) /\ Len(Append(q, d)) = Len(q) + 1
         /\ Range(Append(q, d)) = Range(q) \cup {d}
         /\ Distinct(Append(q, d))
<1>1. /\ DOMAIN Append(q, d) = DOMAIN q \cup {Len(q) + 1}
      /\ Append(q, d)[Len(q) + 1] = d
      /\ \A i \in DOMAIN q : Append(q, d)[i] = q[i] /\ q[i] # d
  BY DEF Range
<1>2. Distinct(Append(q, d))
  BY <1>1 DEF Distinct
<1>. QED
  BY <1>2, Members

\* Without its first member it has all the others.
LEMMA TailDistinct ==
  ASSUME NEW q \in Seq(Descriptor), Distinct(q), q # <<>>
  PROVE  /\ Tail(q) \in Seq(Descriptor) /\ Len(Tail(q)) = Len(q) - 1
         /\ Head(q) \in Descriptor /\ Head(q) \in Range(q)
         /\ Range(Tail(q)) = Range(q) \ {Head(q)}
         /\ Distinct(Tail(q))
<1>1. /\ Head(q) = q[1] /\ 1 \in DOMAIN q
      /\ \A i \in DOMAIN Tail(q) : i \in Int /\ i + 1 # 1 /\ i + 1 \in DOMAIN q /\ Tail(q)[i] = q[i + 1]
  OBVIOUS
<1>2. Distinct(Tail(q)) /\ \A i \in DOMAIN Tail(q) : Tail(q)[i] # Head(q)
  BY <1>1 DEF Distinct
<1>3. Head(q) \notin Range(Tail(q))
  BY <1>2 DEF Range
<1>4. /\ Tail(q) \in Seq(Descriptor) /\ Len(Tail(q)) = Len(q) - 1 /\ Head(q) \in Descriptor
      /\ Range(q) = {Head(q)} \cup Range(Tail(q))
  <2>1. Head(q) \in Descriptor
    BY <1>1
  <2>. QED
    BY <2>1, Members
<1>. QED
  BY <1>2, <1>3, <1>4

\* The rings have room for all descriptors that are in them.
LEMMA Room ==
  ASSUME NEW p \in Seq(Descriptor), NEW q \in Seq(Descriptor), Distinct(p), Distinct(q),
         Range(p) \cap Range(q) = {}
  PROVE  Len(p) + Len(q) <= ringSize
<1>. DEFINE f == p \o q
            n == Len(p) + Len(q)
<1>1. /\ n \in Nat /\ Len(p) \in Nat /\ Len(q) \in Nat
      /\ f \in [1 .. n -> Descriptor]
      /\ DOMAIN p = 1 .. Len(p) /\ DOMAIN q = 1 .. Len(q)
      /\ \A i \in 1 .. n : \/ i \in DOMAIN p /\ f[i] = p[i]
                           \/ i > Len(p) /\ i - Len(p) \in DOMAIN q /\ f[i] = q[i - Len(p)]
  <2>1. \A i \in 1 .. n : \/ i \in DOMAIN p /\ f[i] = p[i]
                          \/ i > Len(p) /\ i - Len(p) \in DOMAIN q /\ f[i] = q[i - Len(p)]
    <3>1. \A i \in 1 .. n : f[i] = IF i <= Len(p) THEN p[i] ELSE q[i - Len(p)]
      OBVIOUS
    <3>. HIDE DEF f
    <3>. QED
      BY <3>1
  <2>2. n \in Nat /\ Len(p) \in Nat /\ Len(q) \in Nat /\ DOMAIN p = 1 .. Len(p) /\ DOMAIN q = 1 .. Len(q)
    OBVIOUS
  <2>3. f \in Seq(Descriptor) /\ Len(f) = n
    OBVIOUS
  <2>. HIDE DEF f, n
  <2>4. f \in [1 .. n -> Descriptor]
    BY <2>3
  <2>. QED
    BY <2>1, <2>2, <2>4
<1>. HIDE DEF f, n
<1>2. \A i \in DOMAIN p, j \in DOMAIN q : p[i] # q[j]
  BY DEF Range
<1>3. \A i, j \in 1 .. n : f[i] = f[j] => i = j
  <2>. SUFFICES ASSUME NEW i \in 1 .. n, NEW j \in 1 .. n, f[i] = f[j] PROVE i = j
    OBVIOUS
  <2>1. CASE i \in DOMAIN p /\ f[i] = p[i] /\ j \in DOMAIN p /\ f[j] = p[j]
    BY <2>1, ZenonT(60) DEF Distinct
  <2>2. CASE /\ i > Len(p) /\ i - Len(p) \in DOMAIN q /\ f[i] = q[i - Len(p)]
             /\ j > Len(p) /\ j - Len(p) \in DOMAIN q /\ f[j] = q[j - Len(p)]
    <3>1. i - Len(p) = j - Len(p)
      BY <2>2, ZenonT(60) DEF Distinct
    <3>. QED
      BY <1>1, <3>1
  <2>. QED
    BY <1>1, <1>2, <2>1, <2>2, ZenonT(60)
<1>4. ringSize \in Nat
  BY TableAssumption
<1>5. n <= ringSize
  BY <1>1, <1>3, <1>4, AtMost, ZenonT(60) DEF Descriptor
<1>. QED
  BY <1>5 DEF n

\* The inductive invariant says what is to be shown.
LEMMA InvNoRequestLost == IInv => NoRequestLost
<1>. SUFFICES ASSUME IInv PROVE NoRequestLost
  OBVIOUS
<1>1. Len(offers) + Len(uses) <= ringSize
  BY Views, Room DEF IInv, Once
<1>. QED
  BY <1>1, Views DEF IInv, Once, NoRequestLost

\* A request with its size, as Sized gives it, when the requests in flight are L
SizeIn(L, d) == [token |-> d, size |-> Len((CHOOSE c \in L : c.ids[1] = d).ids)]

SizedAll(L, q) == [i \in 1 .. Len(q) |-> SizeIn(L, q[i])]

\* The size of a request is the number of its descriptors.
SizesRight == \A c \in lent : SizeIn(lent, c.ids[1]) = [token |-> c.ids[1], size |-> Len(c.bufs)]

\* The queue, seen through the sequences
QueueView ==
  /\ AtDevice = {SizeIn(lent, d) : d \in Range(offers) \cup held}
  /\ Completed = SizedAll(lent, uses)

\* The first descriptor tells a request from every other: no two share one.
LEMMA Sizes == TableInv => SizesRight
<1>. SUFFICES ASSUME TableInv, NEW c \in lent
              PROVE  SizeIn(lent, c.ids[1]) = [token |-> c.ids[1], size |-> Len(c.bufs)]
  BY ZenonT(60) DEF SizesRight
<1>1. \A e \in lent : /\ Len(e.bufs) \in Nat /\ e.ids \in [1 .. Len(e.bufs) -> Descriptor]
                      /\ 1 \in DOMAIN e.ids
  BY DEF TableInv, ChainsTyped
<1>2. \A e \in lent : e.ids[1] \in IdsOf(e)
  BY <1>1 DEF IdsOf
<1>3. (CHOOSE e \in lent : e.ids[1] = c.ids[1]) = c
  <2>1. \A e \in lent : e.ids[1] = c.ids[1] => e = c
    BY <1>2 DEF TableInv, ChainsApart
  <2>. QED
    BY <2>1
<1>4. Len(c.ids) = Len(c.bufs)
  <2>. DEFINE v == c.ids
              n == Len(c.bufs)
  <2>1. n \in Nat /\ v \in [1 .. n -> Descriptor]
    BY <1>1
  <2>. HIDE DEF v, n
  <2>2. Len(v) = n
    BY <2>1
  <2>. QED
    BY <2>2 DEF v, n
<1>. QED
  BY <1>3, <1>4, ZenonT(60) DEF SizeIn

\* A request in flight that stays in flight keeps its size.
LEMMA SizeKept ==
  ASSUME TableInv, TableInv', NEW d, d \in Heads, \A c \in lent : c.ids[1] = d => c \in lent'
  PROVE  SizeIn(lent', d) = SizeIn(lent, d)
<1>1. SizesRight /\ SizesRight'
  <2>1. TableInv' => SizesRight'
    BY Sizes, PTL
  <2>. QED
    BY <2>1, Sizes
<1>2. PICK c \in lent : c.ids[1] = d
  BY DEF Heads
<1>. QED
  BY <1>1, <1>2, ZenonT(60) DEF SizesRight

\* What the queue shows is what its sequences hold.
LEMMA ViewIs == RingType => QueueView
<1>. SUFFICES ASSUME RingType PROVE QueueView
  OBVIOUS
<1>1. \A d : Sized(d) = SizeIn(lent, d)
  BY DEF Sized, SizeIn
<1>2. Offered = Range(offers) /\ Completed = [i \in 1 .. Len(uses) |-> Sized(uses[i])]
  BY Views
<1>. QED
  BY <1>1, <1>2 DEF QueueView, AtDevice, SizedAll

\* The queue before and after a step
LEMMA ViewNext ==
  ASSUME RingType, RingType'
  PROVE  /\ AtDevice = {SizeIn(lent, d) : d \in Range(offers) \cup held}
         /\ Completed = SizedAll(lent, uses)
         /\ AtDevice' = {SizeIn(lent', d) : d \in Range(offers') \cup held'}
         /\ Completed' = SizedAll(lent', uses')
<1>1. RingType' => QueueView'
  BY ViewIs, PTL
<1>. QED
  BY <1>1, ViewIs DEF QueueView

\* Completions that come and go, with sizes
LEMMA SizedSequence ==
  ASSUME NEW L, NEW q \in Seq(Descriptor), NEW d \in Descriptor
  PROVE  /\ SizedAll(L, Append(q, d)) = Append(SizedAll(L, q), SizeIn(L, d))
         /\ q # <<>> => /\ SizedAll(L, q) # <<>>
                        /\ Head(SizedAll(L, q)) = SizeIn(L, Head(q))
                        /\ Tail(SizedAll(L, q)) = SizedAll(L, Tail(q))
<1>. DEFINE S == {SizeIn(L, q[i]) : i \in 1 .. Len(q)} \cup {SizeIn(L, d)}
            a == SizedAll(L, q)
            x == SizeIn(L, d)
            b == SizedAll(L, Append(q, d))
            c == SizedAll(L, Tail(q))
<1>0. Len(q) \in Nat
  OBVIOUS
<1>1. a \in Seq(S) /\ Len(a) = Len(q) /\ \A i \in 1 .. Len(q) : a[i] = SizeIn(L, q[i])
  <2>1. a = [i \in 1 .. Len(q) |-> SizeIn(L, q[i])] /\ \A i \in 1 .. Len(q) : SizeIn(L, q[i]) \in S
    BY DEF SizedAll
  <2>. HIDE DEF a, S
  <2>. QED
    BY <1>0, <2>1
<1>2. x \in S
  OBVIOUS
<1>3. b = [i \in 1 .. Len(q) + 1 |-> IF i = Len(q) + 1 THEN x ELSE SizeIn(L, q[i])]
  BY DEF SizedAll
<1>4. q # <<>> => c = [i \in 1 .. Len(q) - 1 |-> SizeIn(L, q[i + 1])]
  BY DEF SizedAll
<1>. HIDE DEF S, a, x, b, c
<1>5. b = Append(a, x)
  <2>. DEFINE z == Append(a, x)
  <2>1. z \in Seq(S) /\ Len(z) = Len(q) + 1 /\ z[Len(q) + 1] = x
    BY <1>1, <1>2
  <2>2. \A i \in 1 .. Len(q) : z[i] = SizeIn(L, q[i])
    BY <1>1
  <2>. HIDE DEF z
  <2>3. \A i \in 1 .. Len(q) + 1 : z[i] = IF i = Len(q) + 1 THEN x ELSE SizeIn(L, q[i])
    BY <1>0, <2>1, <2>2
  <2>4. z = [i \in 1 .. Len(q) + 1 |-> z[i]]
    BY <2>1
  <2>. QED
    BY <1>3, <2>3, <2>4 DEF z
<1>6. ASSUME q # <<>> PROVE a # <<>> /\ Head(a) = SizeIn(L, Head(q)) /\ Tail(a) = c
  <2>1. a # <<>> /\ Head(a) = SizeIn(L, Head(q))
    BY <1>1, <1>6
  <2>2. Tail(a) = [i \in 1 .. Len(q) - 1 |-> a[i + 1]]
    <3>. DEFINE t == Tail(a)
    <3>1. t \in Seq(S) /\ Len(t) = Len(q) - 1 /\ \A i \in 1 .. Len(q) - 1 : t[i] = a[i + 1]
      BY <1>1, <2>1
    <3>. HIDE DEF t
    <3>2. t = [i \in 1 .. Len(q) - 1 |-> t[i]]
      BY <3>1
    <3>. QED
      BY <3>1, <3>2 DEF t
  <2>3. \A i \in 1 .. Len(q) - 1 : a[i + 1] = SizeIn(L, q[i + 1])
    BY <1>0, <1>1
  <2>. QED
    BY <1>4, <1>6, <2>1, <2>2, <2>3
<1>. QED
  BY <1>5, <1>6 DEF a, b, c, x

\* What every step of the ring does: it keeps the invariant, it is a call of the
\* table or leaves the table alone, and it is a step of the queue or leaves the
\* queue alone.
StepOK == IInv' /\ [TableNext]_tableVars /\ [Queue!QueueNext]_(Queue!queueVars)

\* Steps of both sides that touch neither the table nor the entries of the rings
LEMMA QuietStep ==
  ASSUME IInv, UNCHANGED tableVars,
         UNCHANGED <<availIdx, availRing, usedIdx, usedRing, lastUsedIndex, taken, held>>,
         placing' \in Call \cup {NULL}, pc' = "place" => placing' \in Call
  PROVE  StepOK
<1>1. [TableNext]_tableVars /\ TableInv'
  BY TableNextInv DEF IInv
<1>2. RingType'
  BY DEF IInv, RingType
<1>3. offers' = offers /\ uses' = uses /\ lent' = lent
  BY DEF offers, uses, Window, Distance, tableVars
<1>4. Once'
  BY <1>3 DEF IInv, Once, Heads
<1>5. UNCHANGED <<descriptorsAvailable, AtDevice, Completed>>
  <2>1. Offered' = Offered
    BY DEF Offered, Distance
  <2>2. \A d : Sized(d)' = Sized(d)
    BY <1>3 DEF Sized
  <2>3. Completed' = Completed
    BY <2>2 DEF Completed, Distance
  <2>4. AtDevice' = AtDevice
    BY <2>1, <2>2 DEF AtDevice
  <2>. QED
    BY <2>3, <2>4 DEF tableVars
<1>. QED
  BY <1>1, <1>2, <1>4, <1>5 DEF StepOK, IInv, Queue!queueVars

\* In all states the heads are descriptors in use, and the requests of the queue
\* are named by them.
LEMMA HeadsInUse ==
  ASSUME IInv
  PROVE  /\ Heads \subseteq InUse /\ Heads \subseteq Descriptor
         /\ offers \in Seq(Descriptor) /\ uses \in Seq(Descriptor)
<1>1. \A e \in lent : e.ids[1] \in IdsOf(e) /\ e.ids[1] \in Descriptor
  <2>. SUFFICES ASSUME NEW e \in lent PROVE e.ids[1] \in IdsOf(e) /\ e.ids[1] \in Descriptor
    OBVIOUS
  <2>1. e.ids \in [1 .. Len(e.bufs) -> Descriptor] /\ 1 \in 1 .. Len(e.bufs)
    BY DEF IInv, TableInv, ChainsTyped
  <2>. QED
    BY <2>1 DEF IdsOf
<1>2. Heads \subseteq InUse /\ Heads \subseteq Descriptor
  BY <1>1 DEF Heads, InUse
<1>. QED
  BY <1>2, Views DEF IInv

\* The entry of an index is in the ring.
LEMMA SlotIn == \A x \in Index : x \in Nat /\ SlotOf(x) \in Descriptor
<1>1. ringSize \in Nat /\ ringSize > 0 /\ IdxMod \in Nat /\ IdxMod > 0
  BY TableAssumption, RingAssumption
<1>2. \A x \in Index : x \in Nat
  BY <1>1 DEF Index
<1>3. \A x \in Nat : x % ringSize \in 0 .. ringSize - 1
  BY <1>1
<1>. QED
  BY <1>2, <1>3 DEF SlotOf, Descriptor

\* One more entry in either ring
LEMMA RingsAppend ==
  ASSUME RingType
  PROVE  \A d \in Descriptor :
           /\ Distance(taken, availIdx) < ringSize =>
                /\ [availRing EXCEPT ![SlotOf(availIdx)] = d] \in [Descriptor -> Descriptor]
                /\ Window([availRing EXCEPT ![SlotOf(availIdx)] = d], taken, Inc(availIdx))
                     = Append(offers, d)
                /\ Inc(availIdx) \in Index
           /\ Distance(lastUsedIndex, usedIdx) < ringSize =>
                /\ [usedRing EXCEPT ![SlotOf(usedIdx)] = d] \in [Descriptor -> Descriptor]
                /\ Window([usedRing EXCEPT ![SlotOf(usedIdx)] = d], lastUsedIndex, Inc(usedIdx))
                     = Append(uses, d)
                /\ Inc(usedIdx) \in Index
<1>1. Inc(availIdx) \in Index /\ Inc(usedIdx) \in Index
  BY Distances DEF RingType
<1>2. ASSUME NEW d \in Descriptor, Distance(taken, availIdx) < ringSize
      PROVE  /\ [availRing EXCEPT ![SlotOf(availIdx)] = d] \in [Descriptor -> Descriptor]
             /\ Window([availRing EXCEPT ![SlotOf(availIdx)] = d], taken, Inc(availIdx))
                  = Append(Window(availRing, taken, availIdx), d)
  <2>. DEFINE r == [availRing EXCEPT ![SlotOf(availIdx)] = d]
  <2>1. availIdx \in Nat /\ SlotOf(availIdx) \in Descriptor
    BY SlotIn DEF RingType
  <2>2. /\ r \in [Descriptor -> Descriptor] /\ r[SlotOf(availIdx)] = d
        /\ \A i \in Descriptor : i # SlotOf(availIdx) => r[i] = availRing[i]
    BY <2>1 DEF RingType
  <2>. HIDE DEF r
  <2>3. Window(r, taken, Inc(availIdx)) = Append(Window(availRing, taken, availIdx), r[SlotOf(availIdx)])
    BY <1>2, <2>2, WindowAppend DEF RingType
  <2>. QED
    BY <2>2, <2>3, ZenonT(60) DEF r
<1>3. ASSUME NEW d \in Descriptor, Distance(lastUsedIndex, usedIdx) < ringSize
      PROVE  /\ [usedRing EXCEPT ![SlotOf(usedIdx)] = d] \in [Descriptor -> Descriptor]
             /\ Window([usedRing EXCEPT ![SlotOf(usedIdx)] = d], lastUsedIndex, Inc(usedIdx))
                  = Append(Window(usedRing, lastUsedIndex, usedIdx), d)
  <2>. DEFINE r == [usedRing EXCEPT ![SlotOf(usedIdx)] = d]
  <2>1. usedIdx \in Nat /\ SlotOf(usedIdx) \in Descriptor
    BY SlotIn DEF RingType
  <2>2. /\ r \in [Descriptor -> Descriptor] /\ r[SlotOf(usedIdx)] = d
        /\ \A i \in Descriptor : i # SlotOf(usedIdx) => r[i] = usedRing[i]
    BY <2>1 DEF RingType
  <2>. HIDE DEF r
  <2>3. Window(r, lastUsedIndex, Inc(usedIdx)) = Append(Window(usedRing, lastUsedIndex, usedIdx), r[SlotOf(usedIdx)])
    BY <1>3, <2>2, WindowAppend DEF RingType
  <2>. QED
    BY <2>2, <2>3, ZenonT(60) DEF r
<1>. QED
  BY <1>1, <1>2, <1>3, ZenonT(60) DEF offers, uses

\* The first entry of either ring, and the ring without it
LEMMA RingsTail ==
  ASSUME RingType
  PROVE  /\ taken # availIdx => /\ offers # <<>> /\ Head(offers) = availRing[SlotOf(taken)]
                                /\ Window(availRing, Inc(taken), availIdx) = Tail(offers)
                                /\ Inc(taken) \in Index
         /\ lastUsedIndex # usedIdx =>
              /\ uses # <<>> /\ Head(uses) = usedRing[SlotOf(lastUsedIndex)]
              /\ Window(usedRing, Inc(lastUsedIndex), usedIdx) = Tail(uses)
              /\ Inc(lastUsedIndex) \in Index
<1>1. Inc(taken) \in Index /\ Inc(lastUsedIndex) \in Index
  BY Distances DEF RingType
<1>2. taken # availIdx => /\ offers # <<>> /\ Head(offers) = availRing[SlotOf(taken)]
                          /\ Window(availRing, Inc(taken), availIdx) = Tail(offers)
  BY WindowTail, ZenonT(60) DEF RingType, offers
<1>3. lastUsedIndex # usedIdx =>
        /\ uses # <<>> /\ Head(uses) = usedRing[SlotOf(lastUsedIndex)]
        /\ Window(usedRing, Inc(lastUsedIndex), usedIdx) = Tail(uses)
  BY WindowTail, ZenonT(60) DEF RingType, uses
<1>. QED
  BY <1>1, <1>2, <1>3

\* placeBuffers of vring/index.js, when there are descriptors: one more request is
\* offered, under a name that no request in flight has.
LEMMA PlaceStep ==
  ASSUME IInv, pc = "place", pc' = "notify", placing' = NULL,
         placeBuffers(Pieces(placing).bufs, Pieces(placing).flags),
         placeDescriptor(freeDescriptorHead),
         UNCHANGED <<usedIdx, usedRing, lastUsedIndex, taken, held>>
  PROVE  StepOK
<1>. DEFINE bufs == Pieces(placing).bufs
            n == Len(bufs)
<1>. PICK d : d = freeDescriptorHead
  OBVIOUS
<1>1. Pieces(placing) \in Request /\ bufs \in Seq(Buffer) /\ bufs # <<>>
  <2>1. Pieces(placing) \in Request
    BY CallAssumption DEF IInv, RingType
  <2>. QED
    BY <2>1, TableAssumption
<1>2. PICK w \in [1 .. Len(bufs) -> Descriptor] :
        /\ w[1] = freeDescriptorHead
        /\ \A i \in 1 .. Len(bufs) : w[i] \notin InUse
        /\ lent' = lent \cup {[ids |-> w, bufs |-> bufs]}
        /\ descriptorsAvailable' = descriptorsAvailable - Len(bufs)
        /\ Len(bufs) <= descriptorsAvailable
        /\ TableInv'
  BY <1>1, PlaceEffect, ZenonT(60) DEF IInv
<1>3. TableNext
  BY <1>1, ZenonT(60) DEF TableNext
<1>. HIDE DEF bufs
<1>4. n \in Nat /\ n >= 1 /\ 1 \in 1 .. n /\ n <= ringSize
  <2>1. n \in Nat /\ n >= 1
    BY <1>1
  <2>2. descriptorsAvailable \in 0 .. ringSize /\ ringSize \in Nat
    BY TableAssumption DEF IInv, TableInv, TableType
  <2>. QED
    BY <1>2, <2>1, <2>2
<1>5. d \in Descriptor /\ d \notin InUse
  BY <1>2, <1>4
<1>6. Heads' = Heads \cup {d} /\ d \notin Heads
  <2>1. d \notin Heads
    BY <1>5, HeadsInUse
  <2>2. [ids |-> w, bufs |-> bufs].ids[1] = d
    BY <1>2
  <2>. QED
    BY <1>2, <2>1, <2>2, ZenonT(60) DEF Heads
<1>7. RingType /\ Once /\ offers \in Seq(Descriptor) /\ uses \in Seq(Descriptor)
  BY HeadsInUse DEF IInv
<1>8. d \notin Range(offers) /\ d \notin held /\ d \notin Range(uses)
  BY <1>6, <1>7 DEF Once
<1>9. Distinct(Append(offers, d)) /\ Range(Append(offers, d)) = Range(offers) \cup {d}
      /\ Append(offers, d) \in Seq(Descriptor) /\ Len(Append(offers, d)) = Len(offers) + 1
  BY <1>5, <1>7, <1>8, AppendDistinct DEF Once
<1>10. Distance(taken, availIdx) < ringSize
  <2>1. <<>> \in Seq(Descriptor) /\ Distinct(<<>>) /\ Range(<<>>) = {} /\ Len(<<>>) = 0
    BY DEF Distinct, Range
  <2>2. Len(Append(offers, d)) + 0 <= ringSize
    BY <1>9, <2>1, Room, ZenonT(60)
  <2>3. Len(offers) = Distance(taken, availIdx) /\ Len(offers) \in Nat /\ ringSize \in Nat
    BY <1>7, Views, TableAssumption
  <2>. QED
    BY <1>9, <2>2, <2>3
<1>11. /\ availRing' = [availRing EXCEPT ![SlotOf(availIdx)] = d] /\ availIdx' = Inc(availIdx)
  BY DEF placeDescriptor
<1>12. availRing' \in [Descriptor -> Descriptor] /\ offers' = Append(offers, d) /\ availIdx' \in Index
  <2>1. offers' = Window(availRing', taken, availIdx')
    BY DEF offers, Window, Distance
  <2>. QED
    BY <1>5, <1>7, <1>10, <1>11, <2>1, RingsAppend, ZenonT(60)
<1>13. uses' = uses
  BY DEF uses, Window, Distance
<1>14. RingType'
  BY <1>7, <1>12 DEF RingType
<1>15. Once'
  BY <1>6, <1>7, <1>8, <1>9, <1>12, <1>13 DEF Once
<1>16. IInv'
  BY <1>2, <1>14, <1>15 DEF IInv
<1>17. \A e \in Heads : SizeIn(lent', e) = SizeIn(lent, e)
  BY <1>2, SizeKept, ZenonT(60) DEF IInv
<1>18. SizeIn(lent', d) = [token |-> d, size |-> n]
  <2>1. SizesRight'
    <3>1. TableInv' => SizesRight'
      BY Sizes, PTL
    <3>. QED
      BY <1>2, <3>1
  <2>2. [ids |-> w, bufs |-> bufs].ids[1] = d /\ [ids |-> w, bufs |-> bufs].bufs = bufs
    BY <1>2
  <2>. QED
    BY <1>2, <2>1, <2>2, ZenonT(60) DEF SizesRight
<1>19. AtDevice' = AtDevice \cup {[token |-> d, size |-> n]} /\ Completed' = Completed
  <2>1. Range(offers) \cup held \subseteq Heads /\ \A i \in 1 .. Len(uses) : uses[i] \in Heads
    BY <1>7 DEF Once, Range
  <2>2. AtDevice' = AtDevice \cup {[token |-> d, size |-> n]}
    <3>1. Range(offers') \cup held' = (Range(offers) \cup held) \cup {d}
      BY <1>9, <1>12
    <3>2. /\ AtDevice = {SizeIn(lent, e) : e \in Range(offers) \cup held}
          /\ AtDevice' = {SizeIn(lent', e) : e \in Range(offers') \cup held'}
      BY <1>7, <1>14, ViewNext
    <3>3. AtDevice' = {SizeIn(lent', e) : e \in Range(offers) \cup held} \cup {SizeIn(lent', d)}
      BY <3>1, <3>2
    <3>4. {SizeIn(lent', e) : e \in Range(offers) \cup held} = AtDevice
      BY <1>17, <2>1, <3>2
    <3>. QED
      BY <1>18, <3>3, <3>4
  <2>3. Completed' = Completed
    BY <1>7, <1>13, <1>14, <1>17, <2>1, ViewNext DEF SizedAll
  <2>. QED
    BY <2>2, <2>3
<1>20. \A r \in AtDevice \cup {Completed[i] : i \in DOMAIN Completed} : r.token # d
  <2>1. \A e : SizeIn(lent, e).token = e
    BY DEF SizeIn
  <2>. QED
    BY <1>7, <1>8, <1>14, <2>1, ViewNext DEF Range, SizedAll
<1>21. Queue!Place(d, n)
  BY <1>2, <1>19, <1>20, ZenonT(60) DEF Queue!Place, Queue!InFlight
<1>22. Queue!QueueNext
  BY <1>4, <1>5, <1>21 DEF Queue!QueueNext
<1>. QED
  BY <1>3, <1>16, <1>22 DEF StepOK

\* The device takes the next request that is offered: to the queue nothing happens.
LEMMA TakeStep ==
  ASSUME IInv, DeviceTakes
  PROVE  StepOK
<1>. PICK d : d = availRing[SlotOf(taken)]
  OBVIOUS
<1>1. /\ taken # availIdx /\ held' = held \cup {d} /\ taken' = Inc(taken)
      /\ UNCHANGED <<tableVars, ringVars, pc, placing>>
  BY DEF DeviceTakes
<1>2. RingType /\ Once /\ TableInv /\ offers \in Seq(Descriptor) /\ uses \in Seq(Descriptor)
  BY HeadsInUse DEF IInv
<1>3. [TableNext]_tableVars /\ TableInv' /\ lent' = lent /\ descriptorsAvailable' = descriptorsAvailable
  BY <1>1, <1>2, TableNextInv DEF tableVars
<1>4. /\ offers # <<>> /\ Head(offers) = d
      /\ Window(availRing, Inc(taken), availIdx) = Tail(offers) /\ Inc(taken) \in Index
  BY <1>1, <1>2, RingsTail
<1>5. offers' = Tail(offers) /\ uses' = uses
  BY <1>1, <1>4, ZenonT(60) DEF offers, uses, Window, Distance, ringVars
<1>6. /\ d \in Descriptor /\ d \in Range(offers)
      /\ Range(Tail(offers)) = Range(offers) \ {d} /\ Distinct(Tail(offers))
  BY <1>2, <1>4, TailDistinct, ZenonT(60) DEF Once
<1>7. RingType'
  BY <1>1, <1>2, <1>4, <1>6 DEF RingType, ringVars
<1>8. Once'
  <2>1. Heads' = Heads
    BY ONLY <1>3, ZenonT(60) DEF Heads
  <2>2. /\ Distinct(uses) /\ Heads = Range(offers) \cup held \cup Range(uses)
        /\ Range(offers) \cap held = {} /\ Range(offers) \cap Range(uses) = {}
        /\ held \cap Range(uses) = {}
    BY ONLY <1>2, SMTT(60) DEF Once
  <2>3. Range(offers') = Range(offers) \ {d} /\ Range(uses') = Range(uses) /\ held' = held \cup {d}
    BY ONLY <1>1, <1>5, <1>6, SMTT(60)
  <2>4. Distinct(offers') /\ Distinct(uses')
    BY ONLY <1>5, <1>6, <2>2
  <2>5. Heads' = Range(offers') \cup held' \cup Range(uses')
    BY ONLY <1>6, <2>1, <2>2, <2>3, SMTT(60)
  <2>6. /\ Range(offers') \cap held' = {} /\ Range(offers') \cap Range(uses') = {}
        /\ held' \cap Range(uses') = {}
    BY ONLY <1>6, <2>2, <2>3
  <2>. QED
    BY ONLY <2>4, <2>5, <2>6, SMTT(60) DEF Once
<1>9. UNCHANGED <<descriptorsAvailable, AtDevice, Completed>>
  <2>1. Range(offers') \cup held' = Range(offers) \cup held
    BY <1>1, <1>5, <1>6
  <2>. QED
    BY <1>2, <1>3, <1>5, <1>7, <2>1, ViewNext, ZenonT(60)
<1>. QED
  BY <1>2, <1>3, <1>7, <1>8, <1>9 DEF StepOK, IInv, Queue!queueVars

\* The device completes a request it holds, in any order.
LEMMA CompleteStep ==
  ASSUME IInv, NEW d \in Descriptor, DeviceCompletes(d)
  PROVE  StepOK
<1>1. /\ d \in held /\ held' = held \ {d} /\ usedIdx' = Inc(usedIdx)
      /\ usedRing' = [usedRing EXCEPT ![SlotOf(usedIdx)] = d]
      /\ UNCHANGED <<tableVars, availIdx, availRing, lastUsedIndex, taken, pc, placing>>
  BY DEF DeviceCompletes
<1>2. RingType /\ Once /\ TableInv /\ offers \in Seq(Descriptor) /\ uses \in Seq(Descriptor)
  BY HeadsInUse DEF IInv
<1>3. [TableNext]_tableVars /\ TableInv' /\ lent' = lent /\ descriptorsAvailable' = descriptorsAvailable
  BY <1>1, <1>2, TableNextInv DEF tableVars
<1>4. d \notin Range(offers) /\ d \notin Range(uses) /\ Distinct(uses)
  BY <1>1, <1>2 DEF Once
<1>5. /\ Distinct(Append(uses, d)) /\ Range(Append(uses, d)) = Range(uses) \cup {d}
      /\ Append(uses, d) \in Seq(Descriptor) /\ Len(Append(uses, d)) = Len(uses) + 1
  BY <1>2, <1>4, AppendDistinct
<1>6. Distance(lastUsedIndex, usedIdx) < ringSize
  <2>1. <<>> \in Seq(Descriptor) /\ Distinct(<<>>) /\ Range(<<>>) = {} /\ Len(<<>>) = 0
    BY DEF Distinct, Range
  <2>2. Len(Append(uses, d)) + 0 <= ringSize
    BY <1>5, <2>1, Room, ZenonT(60)
  <2>3. Len(uses) = Distance(lastUsedIndex, usedIdx) /\ Len(uses) \in Nat /\ ringSize \in Nat
    BY <1>2, Views, TableAssumption
  <2>. QED
    BY <1>5, <2>2, <2>3
<1>7. usedRing' \in [Descriptor -> Descriptor] /\ uses' = Append(uses, d) /\ usedIdx' \in Index
  <2>1. uses' = Window(usedRing', lastUsedIndex, usedIdx')
    BY <1>1 DEF uses, Window, Distance
  <2>. QED
    BY <1>1, <1>2, <1>6, <2>1, RingsAppend, ZenonT(60)
<1>8. offers' = offers
  BY <1>1 DEF offers, Window, Distance
<1>9. RingType'
  BY <1>1, <1>2, <1>7 DEF RingType
<1>10. Once'
  <2>1. Heads' = Heads
    BY ONLY <1>3, ZenonT(60) DEF Heads
  <2>2. /\ Distinct(offers) /\ Heads = Range(offers) \cup held \cup Range(uses)
        /\ Range(offers) \cap held = {} /\ Range(offers) \cap Range(uses) = {}
        /\ held \cap Range(uses) = {}
    BY ONLY <1>2, SMTT(60) DEF Once
  <2>3. Range(offers') = Range(offers) /\ Range(uses') = Range(uses) \cup {d} /\ held' = held \ {d}
    BY ONLY <1>1, <1>5, <1>7, <1>8
  <2>4. Distinct(offers') /\ Distinct(uses')
    BY ONLY <1>5, <1>7, <1>8, <2>2
  <2>5. Heads' = Range(offers') \cup held' \cup Range(uses')
    <3>1. d \in held
      BY ONLY <1>1, SMTT(60)
    <3>. QED
      BY ONLY <2>1, <2>2, <2>3, <3>1, SMTT(60)
  <2>6. /\ Range(offers') \cap held' = {} /\ Range(offers') \cap Range(uses') = {}
        /\ held' \cap Range(uses') = {}
    BY ONLY <1>4, <2>2, <2>3, SMTT(60)
  <2>. QED
    BY ONLY <2>4, <2>5, <2>6, SMTT(60) DEF Once
<1>11. AtDevice' = AtDevice \ {SizeIn(lent, d)} /\ SizeIn(lent, d) \in AtDevice
  <2>1. \A e, g : SizeIn(lent, e) = SizeIn(lent, g) => e = g
    <3>1. \A e : SizeIn(lent, e).token = e
      BY DEF SizeIn
    <3>. QED
      BY <3>1
  <2>2. Range(offers') \cup held' = (Range(offers) \cup held) \ {d}
    BY <1>1, <1>4, <1>8
  <2>3. /\ AtDevice = {SizeIn(lent, e) : e \in Range(offers) \cup held}
        /\ AtDevice' = {SizeIn(lent, e) : e \in (Range(offers) \cup held) \ {d}}
    BY <1>2, <1>3, <1>9, <2>2, ViewNext
  <2>. QED
    BY <1>1, <2>1, <2>3
<1>12. Completed' = Append(Completed, SizeIn(lent, d))
  BY <1>2, <1>3, <1>7, <1>9, ViewNext, SizedSequence
<1>13. Queue!QueueNext
  BY <1>3, <1>11, <1>12 DEF Queue!QueueNext, Queue!Complete
<1>. QED
  BY <1>3, <1>9, <1>10, <1>13 DEF StepOK, IInv

\* getBuffer of vring/index.js, when a completed request waits: the first one is
\* given back, with its descriptors.
LEMMA FetchStep ==
  ASSUME IInv, lastUsedIndex # usedIdx, getBuffer(usedRing[SlotOf(lastUsedIndex)]),
         lastUsedIndex' = Inc(lastUsedIndex), pc' # "place",
         UNCHANGED <<availIdx, availRing, usedIdx, usedRing, taken, held, placing>>
  PROVE  StepOK
<1>. PICK d : d = usedRing[SlotOf(lastUsedIndex)]
  OBVIOUS
<1>1. RingType /\ Once /\ TableInv /\ offers \in Seq(Descriptor) /\ uses \in Seq(Descriptor)
  BY HeadsInUse DEF IInv
<1>2. /\ uses # <<>> /\ Head(uses) = d /\ Inc(lastUsedIndex) \in Index
      /\ Window(usedRing, Inc(lastUsedIndex), usedIdx) = Tail(uses)
  BY <1>1, RingsTail
<1>3. /\ d \in Descriptor /\ d \in Range(uses) /\ Tail(uses) \in Seq(Descriptor)
      /\ Range(Tail(uses)) = Range(uses) \ {d} /\ Distinct(Tail(uses))
  BY <1>1, <1>2, TailDistinct DEF Once
<1>4. PICK c \in lent : c.ids[1] = d
  BY <1>1, <1>3, ZenonT(60) DEF Once, Heads
<1>5. TableNext
  BY <1>4, ZenonT(60) DEF TableNext
<1>6. /\ lent' = lent \ {c} /\ TableInv'
      /\ descriptorsAvailable' = descriptorsAvailable + Len(c.bufs)
  BY <1>1, <1>4, GetEffect
<1>7. Heads' = Heads \ {d}
  <2>1. \A e \in lent : e.ids[1] = d => e = c
    <3>1. \A e \in lent : e.ids[1] \in IdsOf(e)
      <4>. TAKE e \in lent
      <4>1. /\ e.bufs \in Seq(Buffer) /\ Len(e.bufs) >= 1
            /\ e.ids \in [1 .. Len(e.bufs) -> Descriptor]
        BY <1>1, ZenonT(60) DEF TableInv, ChainsTyped
      <4>2. 1 \in DOMAIN e.ids
        BY ONLY <4>1
      <4>. QED
        BY <4>2 DEF IdsOf
    <3>. QED
      BY <1>1, <1>4, <3>1 DEF TableInv, ChainsApart
  <2>. QED
    BY <1>4, <1>6, <2>1 DEF Heads
<1>8. uses' = Tail(uses) /\ offers' = offers
  BY <1>2, ZenonT(60) DEF offers, uses, Window, Distance
<1>9. RingType'
  BY <1>1, <1>2 DEF RingType
<1>10. Once'
  BY <1>1, <1>3, <1>7, <1>8 DEF Once
<1>11. \A e \in Heads \ {d} : SizeIn(lent', e) = SizeIn(lent, e)
  BY <1>1, <1>4, <1>6, SizeKept, ZenonT(60)
<1>12. AtDevice' = AtDevice
  <2>1. Range(offers) \cup held \subseteq Heads \ {d}
    BY <1>1, <1>3 DEF Once
  <2>2. \A e \in Range(offers) \cup held : SizeIn(lent', e) = SizeIn(lent, e)
    BY <1>11, <2>1
  <2>3. /\ AtDevice = {SizeIn(lent, e) : e \in Range(offers) \cup held}
        /\ AtDevice' = {SizeIn(lent', e) : e \in Range(offers) \cup held}
    BY <1>1, <1>8, <1>9, ViewNext
  <2>. QED
    BY <2>2, <2>3
<1>13. Completed # <<>> /\ Completed' = Tail(Completed)
  <2>1. \A i \in 1 .. Len(Tail(uses)) : Tail(uses)[i] \in Heads \ {d}
    <3>. DEFINE t == Tail(uses)
    <3>0. t \in Seq(Descriptor)
      BY <1>3
    <3>. HIDE DEF t
    <3>1. \A i \in 1 .. Len(t) : t[i] \in Range(t)
      BY <3>0 DEF Range
    <3>. QED
      BY <1>1, <1>3, <3>1, ZenonT(60) DEF Once, t
  <2>2. SizedAll(lent', Tail(uses)) = SizedAll(lent, Tail(uses))
    BY <1>11, <2>1 DEF SizedAll
  <2>3. Completed = SizedAll(lent, uses) /\ Completed' = SizedAll(lent', Tail(uses))
    BY <1>1, <1>8, <1>9, ViewNext
  <2>. QED
    BY <1>1, <1>2, <1>3, <2>2, <2>3, SizedSequence
<1>14. Head(Completed).size = Len(c.bufs)
  <2>1. Head(Completed) = SizeIn(lent, d)
    BY <1>1, <1>2, <1>3, <1>9, ViewNext, SizedSequence
  <2>2. SizeIn(lent, d) = [token |-> d, size |-> Len(c.bufs)]
    BY <1>1, <1>4, Sizes DEF SizesRight
  <2>. QED
    BY <2>1, <2>2
<1>15. Queue!QueueNext
  BY <1>6, <1>12, <1>13, <1>14 DEF Queue!QueueNext, Queue!Fetch
<1>. QED
  BY <1>5, <1>6, <1>9, <1>10, <1>15 DEF StepOK, IInv

\* An empty ring is an empty queue.
LEMMA InitInv == Init => IInv /\ TableInit /\ Queue!QueueInit
<1>. SUFFICES ASSUME Init PROVE IInv /\ TableInit /\ Queue!QueueInit
  OBVIOUS
<1>1. TableInit /\ TableInv /\ lent = {} /\ descriptorsAvailable = ringSize
  BY TableInitInv DEF Init, TableInit
<1>2. 0 \in Descriptor /\ 0 \in Index
  BY TableAssumption, RingAssumption DEF Descriptor, Index
<1>3. RingType
  BY <1>2 DEF Init, RingType
<1>4. offers = <<>> /\ uses = <<>>
  BY <1>3, WindowTail DEF Init, RingType, offers, uses
<1>5. Range(offers) = {} /\ Range(uses) = {} /\ Distinct(offers) /\ Distinct(uses) /\ held = {}
  BY <1>4 DEF Range, Distinct, Init
<1>6. Once
  BY <1>1, <1>5 DEF Once, Heads
<1>7. AtDevice = {} /\ Completed = <<>>
  <2>1. SizedAll(lent, <<>>) = <<>>
    BY DEF SizedAll
  <2>. QED
    BY <1>3, <1>4, <1>5, <2>1, ViewIs DEF QueueView
<1>. QED
  BY <1>1, <1>3, <1>6, <1>7 DEF IInv, Queue!QueueInit

\* One step for each action
LEMMA NextOK == IInv /\ [Next]_vars => StepOK
<1>. SUFFICES ASSUME IInv, [Next]_vars PROVE StepOK
  OBVIOUS
<1>0. placing \in Call \cup {NULL} /\ (pc = "place" => placing \in Call)
  BY DEF IInv, RingType
<1>1. ASSUME NEW c \in Call, CallPlaceBuffers(c) PROVE StepOK
  BY <1>1, QuietStep DEF CallPlaceBuffers, ringVars, deviceVars
<1>2. CASE PlaceBuffers
  <2>1. CASE placeBuffers(Pieces(placing).bufs, Pieces(placing).flags) /\ placeDescriptor(freeDescriptorHead)
    BY <1>2, <2>1, PlaceStep DEF PlaceBuffers, deviceVars
  <2>2. CASE UNCHANGED <<tableVars, kind, availIdx, availRing>>
    <3>1. UNCHANGED tableVars /\ UNCHANGED <<availIdx, availRing, usedIdx, usedRing, lastUsedIndex, taken, held>>
          /\ placing' = NULL /\ pc' = "notify"
      BY <1>2, <2>2 DEF PlaceBuffers, deviceVars
    <3>. QED
      BY <3>1, QuietStep
  <2>. QED
    BY <1>2, <2>1, <2>2 DEF PlaceBuffers
<1>3. CASE GetBuffer
  <2>1. CASE hasUnprocessedBuffers
    BY <1>3, <2>1, FetchStep DEF GetBuffer, hasUnprocessedBuffers, deviceVars
  <2>2. CASE ~hasUnprocessedBuffers
    <3>1. UNCHANGED tableVars /\ UNCHANGED <<availIdx, availRing, usedIdx, usedRing, lastUsedIndex, taken, held>>
          /\ placing' = placing /\ pc' = "enable"
      BY <1>3, <2>2 DEF GetBuffer, deviceVars
    <3>. QED
      BY <1>0, <3>1, QuietStep
  <2>. QED
    BY <2>1, <2>2
<1>4. CASE DeviceTakes
  BY <1>4, TakeStep
<1>5. ASSUME NEW d \in Descriptor, DeviceCompletes(d) PROVE StepOK
  BY <1>5, CompleteStep
<1>6. CASE Notify \/ DisableInterrupts \/ EnableInterrupts \/ Recheck \/ HandleIRQ \/ Poll \/ LoseIRQ
  <2>1. UNCHANGED tableVars /\ UNCHANGED <<availIdx, availRing, usedIdx, usedRing, lastUsedIndex, taken, held, placing>>
    BY <1>6, ZenonT(60) DEF Notify, DisableInterrupts, EnableInterrupts, Recheck, HandleIRQ, Poll, LoseIRQ,
                ringVars, deviceVars
  <2>2. pc' = "place" => pc = "place" \/ placing # NULL
    BY <1>6 DEF Notify, DisableInterrupts, EnableInterrupts, Recheck, HandleIRQ, Poll, LoseIRQ
  <2>. QED
    BY <1>0, <2>1, <2>2, QuietStep
<1>7. CASE DeviceWakes \/ DeviceRests \/ DeviceSignals \/ UNCHANGED vars
  <2>1. UNCHANGED tableVars /\ UNCHANGED <<availIdx, availRing, usedIdx, usedRing, lastUsedIndex, taken, held, pc, placing>>
    BY <1>7 DEF DeviceWakes, DeviceRests, DeviceSignals, vars, ringVars, deviceVars
  <2>. QED
    BY <1>0, <2>1, QuietStep
<1>. QED
  BY <1>1, <1>2, <1>3, <1>4, <1>5, <1>6, <1>7 DEF Next, DriverStep, Device

\* Neither ring overwrites an entry that was not read, and no request in flight is
\* lost or in two places, also when the indices wrap around (available-ring.js
\* 46-51, used-ring.js 55-66).
THEOREM RequestsKept == SafeSpec => []NoRequestLost
<1>1. IInv /\ [Next]_vars => IInv'
  BY NextOK DEF StepOK
<1>. QED
  BY <1>1, InitInv, InvNoRequestLost, PTL DEF SafeSpec

\* Every access of the ring to its table is a whole call by the table's rules, so
\* what TableSound says of the table is true of the table of every ring
\* (vring/index.js 47-80, 116-128).
THEOREM RingUsesTable == SafeSpec => UsesTable
<1>1. IInv /\ [Next]_vars => IInv' /\ [TableNext]_tableVars
  BY NextOK DEF StepOK
<1>2. Init => IInv /\ TableInit
  BY InitInv
<1>. QED
  BY <1>1, <1>2, PTL DEF SafeSpec, UsesTable, TableSpec

\* The rings and the table are one queue to the driver: a request is given back
\* once, after the device completed it, in the order of completion, and frees the
\* descriptors it took (vring/index.js 47-165).
THEOREM RingIsQueue == SafeSpec => ImplementsQueue
<1>1. IInv /\ [Next]_vars => IInv' /\ [Queue!QueueNext]_(Queue!queueVars)
  BY NextOK DEF StepOK
<1>2. Init => IInv /\ Queue!QueueInit
  BY InitInv
<1>. QED
  BY <1>1, <1>2, PTL DEF SafeSpec, ImplementsQueue, Queue!QueueSpec

\* What the table promises on its own, it keeps under a ring.
THEOREM RingTableSound == SafeSpec => [](FreeListSound /\ ChainsIntact)
BY RingUsesTable, TableSound, PTL DEF UsesTable
=============================================================================
