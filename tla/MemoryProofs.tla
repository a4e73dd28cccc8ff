---------------------------- MODULE MemoryProofs ----------------------------
(***************************************************************************)
(* Physical pages, page tables and the addresses shown to devices, proved  *)
(* for every memory map, every size of the stacks and of the tables.       *)
(***************************************************************************)
EXTENDS Memory, FiniteSetTheorems, TLAPS

\* The time a leaf may take, and a second attempt with more
USE SMTT(30), SMTT(60)

-----------------------------------------------------------------------------
(* Arithmetic *)

\* A number is its quotient and its remainder.
LEMMA Division ==
  ASSUME NEW F \in Nat \ {0}, NEW v \in Nat
  PROVE  /\ v \div F \in Nat /\ v % F \in 0 .. F - 1
         /\ v = F * (v \div F) + (v % F)
<1>1. v % F \in 0 .. F - 1
  OBVIOUS
<1>2. v \div F \in Nat
  OBVIOUS
<1>3. v = F * (v \div F) + (v % F)
  OBVIOUS
<1>. QED
  BY <1>1, <1>2, <1>3

\* The quotient and the remainder of what was put together from them
LEMMA Recombined ==
  ASSUME NEW F \in Nat \ {0}, NEW q \in Nat, NEW r \in 0 .. F - 1
  PROVE  (q * F + r) \div F = q /\ (q * F + r) % F = r
<1>. DEFINE v == q * F + r
            d == v \div F
            m == v % F
<1>1. v \in Nat /\ v = q * F + r
  OBVIOUS
<1>2. d \in Nat /\ m \in 0 .. F - 1 /\ v = F * d + m
  BY <1>1, Division, ZenonT(60)
<1>. HIDE DEF v, d, m
<1>3. ASSUME NEW a \in Nat, NEW b \in Nat, a < b
      PROVE  b * F >= a * F + F
  <2>1. PICK k \in Nat : b = a + 1 + k
    BY <1>3
  <2>2. b * F = a * F + F + k * F /\ k * F >= 0
    BY <2>1
  <2>. QED
    BY <2>2
<1>4. d * F = F * d
  BY <1>2
<1>5. ~ (d < q)
  BY <1>1, <1>2, <1>3, <1>4
<1>6. ~ (q < d)
  BY <1>1, <1>2, <1>3, <1>4
<1>7. d = q
  BY <1>2, <1>5, <1>6
<1>. QED
  BY <1>1, <1>2, <1>4, <1>7 DEF v, d, m

\* The quotient of a number below a * F is below a.
LEMMA Below ==
  ASSUME NEW F \in Nat \ {0}, NEW a \in Nat, NEW v \in Nat, v < a * F
  PROVE  v \div F < a
  OBVIOUS

\* Virtual pages
Page == 0 .. Fan * Fan * Fan - 1

\* The three offsets of a page are entries of a table.
LEMMA OffsetsType ==
  ASSUME NEW v \in Nat
  PROVE  Pml4Offset(v) \in 0 .. Fan - 1 /\ PdpOffset(v) \in 0 .. Fan - 1 /\ PdOffset(v) \in 0 .. Fan - 1
<1>1. Fan \in Nat \ {0}
  BY MemoryAssumption
<1>2. v \div Fan \in Nat /\ (v \div Fan) \div Fan \in Nat
  BY <1>1, Division
<1>. QED
  BY <1>1, <1>2, Division DEF Pml4Offset, PdpOffset, PdOffset

\* Different pages have different offsets.
LEMMA OffsetsDiffer ==
  ASSUME NEW v \in Page, NEW w \in Page,
         Pml4Offset(v) = Pml4Offset(w), PdpOffset(v) = PdpOffset(w), PdOffset(v) = PdOffset(w)
  PROVE  v = w
<1>1. Fan \in Nat \ {0}
  BY MemoryAssumption
<1>2. ASSUME NEW u \in Page
      PROVE  /\ u \in Nat /\ u \div Fan \in Nat /\ (u \div Fan) \div Fan \in Nat
             /\ ((u \div Fan) \div Fan) % Fan = (u \div Fan) \div Fan
  <2>1. u \in Nat /\ u < (Fan * Fan) * Fan /\ Fan * Fan \in Nat
    BY <1>1 DEF Page
  <2>2. u \div Fan \in Nat /\ u \div Fan < Fan * Fan
    BY <1>1, <2>1, Division, Below, ZenonT(60)
  <2>3. (u \div Fan) \div Fan \in Nat /\ (u \div Fan) \div Fan < Fan
    BY <1>1, <2>2, Division, Below, ZenonT(60)
  <2>4. \A x \in Nat : x < Fan => x % Fan = x
    BY <1>1
  <2>. QED
    BY <2>1, <2>2, <2>3, <2>4
<1>3. (v \div Fan) \div Fan = (w \div Fan) \div Fan
  BY <1>2 DEF Pml4Offset
<1>4. ASSUME NEW x \in Nat, NEW y \in Nat, x \div Fan = y \div Fan, x % Fan = y % Fan
      PROVE  x = y
  <2>1. x = Fan * (x \div Fan) + (x % Fan) /\ y = Fan * (y \div Fan) + (y % Fan)
    BY <1>1, Division
  <2>. QED
    BY <1>4, <2>1
<1>5. v \div Fan = w \div Fan
  BY <1>2, <1>3, <1>4 DEF PdpOffset
<1>. QED
  BY <1>2, <1>4, <1>5 DEF PdOffset

-----------------------------------------------------------------------------
(* Page tables *)

Offset == 0 .. Fan - 1

\* The tables that the entries of the two upper levels name
Pdp(t, i) == t[1][i]
Pd(t, i, j) == Entry(t, Pdp(t, i), j)
Walk(t, i, j, k) == Entry(t, Pd(t, i, j), k)

TablesType(t) == t \in Seq([Offset -> Int]) /\ Len(t) >= 1

PdpSound(t) ==
  /\ \A i \in Offset : Pdp(t, i) # None => Pdp(t, i) \in 2 .. Len(t)
  /\ \A i, k \in Offset : Pdp(t, i) # None /\ Pdp(t, i) = Pdp(t, k) => i = k

PdSound(t) ==
  /\ \A i, j \in Offset : Pd(t, i, j) # None =>
       Pd(t, i, j) \in 2 .. Len(t) /\ \A k \in Offset : Pdp(t, k) # Pd(t, i, j)
  /\ \A i, j, k, l \in Offset : Pd(t, i, j) # None /\ Pd(t, i, j) = Pd(t, k, l) => i = k /\ j = l

\* The tables are a tree: no table hangs on two entries, or on two levels.
Tree(t) == TablesType(t) /\ PdpSound(t) /\ PdSound(t)

\* u is t with one page more.
Extends(t, u, a, b, c, page) ==
  /\ Tree(u)
  /\ \A i, j, k \in Offset :
       Walk(u, i, j, k) = IF i = a /\ j = b /\ k = c THEN page ELSE Walk(t, i, j, k)

\* u is t with one entry set.
IsSet(t, u, d, c, x) ==
  /\ u \in Seq([Offset -> Int]) /\ Len(u) = Len(t)
  /\ \A m \in 1 .. Len(t), n \in Offset : u[m][n] = IF m = d /\ n = c THEN x ELSE t[m][n]

\* u is t with a table more.
IsGrown(t, u) ==
  /\ u \in Seq([Offset -> Int]) /\ Len(u) = Len(t) + 1
  /\ \A m \in 1 .. Len(t), n \in Offset : u[m][n] = t[m][n]
  /\ \A n \in Offset : u[Len(t) + 1][n] = None

\* u is t with a new table of the lowest level.
NewPd(t, u, a, b, c, page) ==
  /\ \A n \in Offset : u[Len(t) + 1][n] = IF n = c THEN page ELSE None
  /\ \A m \in 1 .. Len(t), n \in Offset :
       u[m][n] = IF m = Pdp(t, a) /\ n = b THEN Len(t) + 1 ELSE t[m][n]

\* u is t with new tables of both levels.
NewPdp(t, u, a, b, c, page) ==
  /\ \A n \in Offset : u[Len(t) + 1][n] = IF n = c THEN page ELSE None
  /\ \A n \in Offset : u[Len(t) + 2][n] = IF n = b THEN Len(t) + 1 ELSE None
  /\ \A m \in 1 .. Len(t), n \in Offset :
       u[m][n] = IF m = 1 /\ n = a THEN Len(t) + 2 ELSE t[m][n]

\* Both tables are there: an entry of the lowest one is set.
LEMMA MapLow ==
  ASSUME NEW t, Tree(t), NEW u, NEW a \in Offset, NEW b \in Offset, NEW c \in Offset,
         NEW page \in Nat, Pd(t, a, b) # None,
         IsSet(t, u, Pd(t, a, b), c, page)
  PROVE  Extends(t, u, a, b, c, page)
<1>0. /\ TablesType(u) /\ Len(u) = Len(t)
      /\ \A m \in 1 .. Len(t), n \in Offset :
           u[m][n] = IF m = Pd(t, a, b) /\ n = c THEN page ELSE t[m][n]
  BY ZenonT(60) DEF IsSet, Tree, TablesType
<1>1. /\ Len(t) \in Nat /\ Len(t) >= 1 /\ Pd(t, a, b) \in 2 .. Len(t)
      /\ \A k \in Offset : Pdp(t, k) # Pd(t, a, b)
  BY DEF Tree, TablesType, PdSound
<1>2. \A i \in Offset : Pdp(u, i) = Pdp(t, i)
  BY <1>0, <1>1 DEF Pdp
<1>3. \A i, j \in Offset : Pd(u, i, j) = Pd(t, i, j)
  <2>. SUFFICES ASSUME NEW i \in Offset, NEW j \in Offset PROVE Pd(u, i, j) = Pd(t, i, j)
    OBVIOUS
  <2>1. Pdp(u, i) = Pdp(t, i) /\ Pdp(t, i) # Pd(t, a, b)
    BY <1>1, <1>2
  <2>2. CASE Pdp(t, i) = None
    BY <2>1, <2>2 DEF Pd, Entry
  <2>3. CASE Pdp(t, i) # None
    <3>1. Pdp(t, i) \in 1 .. Len(t)
      BY <1>1, <2>3 DEF Tree, PdpSound
    <3>. QED
      BY <1>0, <2>1, <2>3, <3>1 DEF Pd, Entry
  <2>. QED
    BY <2>2, <2>3
<1>4. \A i, j, k \in Offset :
        Walk(u, i, j, k) = IF i = a /\ j = b /\ k = c THEN page ELSE Walk(t, i, j, k)
  <2>. SUFFICES ASSUME NEW i \in Offset, NEW j \in Offset, NEW k \in Offset
                PROVE  Walk(u, i, j, k) = IF i = a /\ j = b /\ k = c THEN page ELSE Walk(t, i, j, k)
    OBVIOUS
  <2>1. Pd(u, i, j) = Pd(t, i, j)
    BY <1>3
  <2>2. CASE Pd(t, i, j) = None
    BY <2>1, <2>2 DEF Walk, Entry
  <2>3. CASE Pd(t, i, j) # None
    <3>1. Pd(t, i, j) \in 1 .. Len(t) /\ (Pd(t, i, j) = Pd(t, a, b) <=> i = a /\ j = b)
      BY <1>1, <2>3 DEF Tree, PdSound
    <3>. QED
      BY <1>0, <2>1, <2>3, <3>1 DEF Walk, Entry
  <2>. QED
    BY <2>2, <2>3
<1>5. PdpSound(u)
  BY <1>0, <1>2 DEF Tree, PdpSound
<1>6. PdSound(u)
  BY <1>0, <1>2, <1>3 DEF Tree, PdSound
<1>. QED
  BY <1>0, <1>4, <1>5, <1>6 DEF Extends, Tree

\* The lowest table is new.
LEMMA MapMiddle ==
  ASSUME NEW t, Tree(t), NEW u, NEW a \in Offset, NEW b \in Offset, NEW c \in Offset,
         NEW page \in Nat, Pdp(t, a) # None, Pd(t, a, b) = None,
         TablesType(u), Len(u) = Len(t) + 1,
         NewPd(t, u, a, b, c, page)
  PROVE  Extends(t, u, a, b, c, page)
<1>0. /\ \A n \in Offset : u[Len(t) + 1][n] = IF n = c THEN page ELSE None
      /\ \A m \in 1 .. Len(t), n \in Offset :
           u[m][n] = IF m = Pdp(t, a) /\ n = b THEN Len(t) + 1 ELSE t[m][n]
  BY DEF NewPd
<1>1. /\ Len(t) \in Nat /\ Len(t) >= 1 /\ Pdp(t, a) \in 2 .. Len(t) /\ None \notin Nat
      /\ \A i \in Offset : Pdp(t, i) # None => Pdp(t, i) \in 2 .. Len(t)
      /\ \A i \in Offset : Pdp(t, i) = Pdp(t, a) => i = a
  <2>1. Len(t) \in Nat /\ Len(t) >= 1 /\ None \notin Nat
    BY DEF Tree, TablesType, None
  <2>2. \A i \in Offset : Pdp(t, i) # None => Pdp(t, i) \in 2 .. Len(t)
    BY DEF Tree, PdpSound
  <2>3. \A i \in Offset : Pdp(t, i) = Pdp(t, a) => i = a
    BY DEF Tree, PdpSound
  <2>. QED
    BY <2>1, <2>2, <2>3
<1>2. \A i \in Offset : Pdp(u, i) = Pdp(t, i)
  BY <1>0, <1>1 DEF Pdp
<1>3. \A i, j \in Offset : Pd(u, i, j) = IF i = a /\ j = b THEN Len(t) + 1 ELSE Pd(t, i, j)
  <2>. SUFFICES ASSUME NEW i \in Offset, NEW j \in Offset
                PROVE  Pd(u, i, j) = IF i = a /\ j = b THEN Len(t) + 1 ELSE Pd(t, i, j)
    OBVIOUS
  <2>1. Pdp(u, i) = Pdp(t, i) /\ (Pdp(t, i) = Pdp(t, a) <=> i = a)
    BY <1>1, <1>2
  <2>2. CASE Pdp(t, i) = None
    BY <2>1, <2>2 DEF Pd, Entry
  <2>3. CASE Pdp(t, i) # None
    <3>1. Pdp(t, i) \in 1 .. Len(t)
      BY <1>1, <2>3
    <3>. QED
      BY <1>0, <2>1, <2>3, <3>1 DEF Pd, Entry
  <2>. QED
    BY <2>2, <2>3
<1>4. \A i, j \in Offset : Pd(t, i, j) # None =>
        Pd(t, i, j) \in 2 .. Len(t) /\ \A k \in Offset : Pdp(t, k) # Pd(t, i, j)
  BY DEF Tree, PdSound
<1>5. \A i, j, k \in Offset :
        Walk(u, i, j, k) = IF i = a /\ j = b /\ k = c THEN page ELSE Walk(t, i, j, k)
  <2>. SUFFICES ASSUME NEW i \in Offset, NEW j \in Offset, NEW k \in Offset
                PROVE  Walk(u, i, j, k) = IF i = a /\ j = b /\ k = c THEN page ELSE Walk(t, i, j, k)
    OBVIOUS
  <2>1. CASE i = a /\ j = b
    <3>1. Pd(u, i, j) = Len(t) + 1 /\ Len(t) + 1 # None
      BY <1>1, <1>3, <2>1 DEF None
    <3>2. Walk(t, i, j, k) = None
      BY <2>1 DEF Walk, Entry
    <3>. QED
      BY <1>0, <2>1, <3>1, <3>2 DEF Walk, Entry
  <2>2. CASE ~ (i = a /\ j = b) /\ Pd(t, i, j) = None
    BY <1>3, <2>2 DEF Walk, Entry
  <2>3. CASE ~ (i = a /\ j = b) /\ Pd(t, i, j) # None
    <3>1. Pd(u, i, j) = Pd(t, i, j) /\ Pd(t, i, j) \in 1 .. Len(t) /\ Pd(t, i, j) # Pdp(t, a)
      BY <1>1, <1>3, <1>4, <2>3
    <3>. QED
      BY <1>0, <2>3, <3>1 DEF Walk, Entry
  <2>. QED
    BY <2>1, <2>2, <2>3
<1>6. PdpSound(u)
  BY <1>1, <1>2 DEF Tree, PdpSound
<1>7. PdSound(u)
  <2>1. \A i, j \in Offset : Pd(u, i, j) # None =>
          Pd(u, i, j) \in 2 .. Len(u) /\ \A k \in Offset : Pdp(u, k) # Pd(u, i, j)
    BY <1>1, <1>2, <1>3, <1>4
  <2>2. \A i, j, k, l \in Offset : Pd(u, i, j) # None /\ Pd(u, i, j) = Pd(u, k, l) => i = k /\ j = l
    <3>. SUFFICES ASSUME NEW i \in Offset, NEW j \in Offset, NEW k \in Offset, NEW l \in Offset,
                         Pd(u, i, j) # None, Pd(u, i, j) = Pd(u, k, l)
                  PROVE  i = k /\ j = l
      OBVIOUS
    <3>1. \A x, y \in Offset : Pd(t, x, y) # Len(t) + 1
      <4>1. Len(t) + 1 # None /\ Len(t) + 1 \notin 2 .. Len(t)
        BY <1>1
      <4>. QED
        BY <1>4, <4>1
    <3>2. \A x, y, z, w \in Offset : Pd(t, x, y) # None /\ Pd(t, x, y) = Pd(t, z, w) => x = z /\ y = w
      BY DEF Tree, PdSound
    <3>. QED
      BY <1>3, <3>1, <3>2
  <2>. QED
    BY <2>1, <2>2 DEF PdSound
<1>. QED
  BY <1>5, <1>6, <1>7 DEF Extends, Tree

\* Both tables are new.
LEMMA MapHigh ==
  ASSUME NEW t, Tree(t), NEW u, NEW a \in Offset, NEW b \in Offset, NEW c \in Offset,
         NEW page \in Nat, Pdp(t, a) = None,
         TablesType(u), Len(u) = Len(t) + 2,
         NewPdp(t, u, a, b, c, page)
  PROVE  Extends(t, u, a, b, c, page)
<1>0. /\ \A n \in Offset : u[Len(t) + 1][n] = IF n = c THEN page ELSE None
      /\ \A n \in Offset : u[Len(t) + 2][n] = IF n = b THEN Len(t) + 1 ELSE None
      /\ \A m \in 1 .. Len(t), n \in Offset :
           u[m][n] = IF m = 1 /\ n = a THEN Len(t) + 2 ELSE t[m][n]
  BY DEF NewPdp
<1>1. /\ Len(t) \in Nat /\ Len(t) >= 1 /\ Len(t) + 1 # None /\ Len(t) + 2 # None
      /\ Len(t) + 1 \notin 2 .. Len(t) /\ Len(t) + 2 \notin 2 .. Len(t)
  <2>1. Len(t) \in Nat /\ Len(t) >= 1
    BY DEF Tree, TablesType
  <2>. QED
    BY <2>1 DEF None
<1>2. /\ \A i \in Offset : Pdp(t, i) # None => Pdp(t, i) \in 2 .. Len(t)
      /\ \A i, j \in Offset : Pd(t, i, j) # None =>
           Pd(t, i, j) \in 2 .. Len(t) /\ \A k \in Offset : Pdp(t, k) # Pd(t, i, j)
  BY DEF Tree, PdpSound, PdSound
<1>3. \A i \in Offset : Pdp(u, i) = IF i = a THEN Len(t) + 2 ELSE Pdp(t, i)
  BY <1>0, <1>1 DEF Pdp
<1>4. \A i, j \in Offset : Pd(u, i, j) = IF i = a THEN IF j = b THEN Len(t) + 1 ELSE None
                                       ELSE Pd(t, i, j)
  <2>. SUFFICES ASSUME NEW i \in Offset, NEW j \in Offset
                PROVE  Pd(u, i, j) = IF i = a THEN IF j = b THEN Len(t) + 1 ELSE None ELSE Pd(t, i, j)
    OBVIOUS
  <2>1. CASE i = a
    <3>1. Pdp(u, i) = Len(t) + 2
      BY <1>3, <2>1
    <3>. QED
      BY <1>0, <1>1, <2>1, <3>1 DEF Pd, Entry
  <2>2. CASE i # a /\ Pdp(t, i) = None
    BY <1>3, <2>2 DEF Pd, Entry
  <2>3. CASE i # a /\ Pdp(t, i) # None
    <3>1. Pdp(u, i) = Pdp(t, i) /\ Pdp(t, i) \in 1 .. Len(t) /\ Pdp(t, i) # 1
      BY <1>1, <1>2, <1>3, <2>3
    <3>. QED
      BY <1>0, <2>3, <3>1 DEF Pd, Entry
  <2>. QED
    BY <2>1, <2>2, <2>3
<1>5. \A i, j, k \in Offset :
        Walk(u, i, j, k) = IF i = a /\ j = b /\ k = c THEN page ELSE Walk(t, i, j, k)
  <2>. SUFFICES ASSUME NEW i \in Offset, NEW j \in Offset, NEW k \in Offset
                PROVE  Walk(u, i, j, k) = IF i = a /\ j = b /\ k = c THEN page ELSE Walk(t, i, j, k)
    OBVIOUS
  <2>1. CASE i = a
    <3>1. Walk(t, i, j, k) = None
      BY <2>1 DEF Walk, Pd, Entry
    <3>2. CASE j = b
      <4>1. Pd(u, i, j) = Len(t) + 1
        BY <1>4, <2>1, <3>2
      <4>. QED
        BY <1>0, <1>1, <2>1, <3>1, <3>2, <4>1 DEF Walk, Entry
    <3>3. CASE j # b
      <4>1. Pd(u, i, j) = None
        BY <1>4, <2>1, <3>3
      <4>. QED
        BY <3>1, <3>3, <4>1 DEF Walk, Entry
    <3>. QED
      BY <3>2, <3>3
  <2>2. CASE i # a /\ Pd(t, i, j) = None
    BY <1>4, <2>2 DEF Walk, Entry
  <2>3. CASE i # a /\ Pd(t, i, j) # None
    <3>1. Pd(u, i, j) = Pd(t, i, j) /\ Pd(t, i, j) \in 1 .. Len(t) /\ Pd(t, i, j) # 1
      BY <1>1, <1>2, <1>4, <2>3
    <3>. QED
      BY <1>0, <2>3, <3>1 DEF Walk, Entry
  <2>. QED
    BY <2>1, <2>2, <2>3
<1>6. PdpSound(u)
  <2>1. \A i \in Offset : Pdp(u, i) # None => Pdp(u, i) \in 2 .. Len(u)
    BY <1>1, <1>2, <1>3
  <2>2. \A i, k \in Offset : Pdp(t, i) # None /\ Pdp(t, i) = Pdp(t, k) => i = k
    BY DEF Tree, PdpSound
  <2>3. \A i, k \in Offset : Pdp(u, i) # None /\ Pdp(u, i) = Pdp(u, k) => i = k
    BY <1>1, <1>2, <1>3, <2>2
  <2>. QED
    BY <2>1, <2>3 DEF PdpSound
<1>7. PdSound(u)
  <2>1. ASSUME NEW i \in Offset, NEW j \in Offset, Pd(u, i, j) # None
        PROVE  Pd(u, i, j) \in 2 .. Len(u) /\ \A k \in Offset : Pdp(u, k) # Pd(u, i, j)
    <3>1. CASE i = a
      <4>1. Pd(u, i, j) = Len(t) + 1
        BY <1>4, <2>1, <3>1
      <4>2. \A k \in Offset : Pdp(u, k) # Len(t) + 1
        BY <1>1, <1>2, <1>3
      <4>. QED
        BY <1>1, <4>1, <4>2
    <3>2. CASE i # a
      <4>1. Pd(u, i, j) = Pd(t, i, j)
        BY <1>4, <3>2
      <4>2. Pd(u, i, j) \in 2 .. Len(t) /\ \A k \in Offset : Pdp(t, k) # Pd(u, i, j)
        BY <1>2, <2>1, <4>1
      <4>. QED
        BY <1>1, <1>3, <4>2
    <3>. QED
      BY <3>1, <3>2
  <2>2. \A i, j, k, l \in Offset : Pd(u, i, j) # None /\ Pd(u, i, j) = Pd(u, k, l) => i = k /\ j = l
    <3>. SUFFICES ASSUME NEW i \in Offset, NEW j \in Offset, NEW k \in Offset, NEW l \in Offset,
                         Pd(u, i, j) # None, Pd(u, i, j) = Pd(u, k, l)
                  PROVE  i = k /\ j = l
      OBVIOUS
    <3>1. \A x, y \in Offset : Pd(t, x, y) # Len(t) + 1
      BY <1>1, <1>2
    <3>2. \A x, y, z, w \in Offset : Pd(t, x, y) # None /\ Pd(t, x, y) = Pd(t, z, w) => x = z /\ y = w
      BY DEF Tree, PdSound
    <3>. QED
      BY <1>4, <3>1, <3>2
  <2>. QED
    BY <2>1, <2>2 DEF PdSound
<1>. QED
  BY <1>5, <1>6, <1>7 DEF Extends, Tree

SetEntry(t, d, c, x) == [t EXCEPT ![d][c] = x]

\* Setting one entry of one table
LEMMA SetEntryIs ==
  ASSUME NEW t \in Seq([Offset -> Int]), NEW d \in 1 .. Len(t), NEW c \in Offset, NEW x \in Int
  PROVE  IsSet(t, SetEntry(t, d, c, x), d, c, x)
<1>. DEFINE row == [t[d] EXCEPT ![c] = x]
            u == SetEntry(t, d, c, x)
<1>1. Len(t) \in Nat /\ t[d] \in [Offset -> Int]
  OBVIOUS
<1>2. row \in [Offset -> Int] /\ \A n \in Offset : row[n] = IF n = c THEN x ELSE t[d][n]
  BY <1>1
<1>3. u = [t EXCEPT ![d] = row]
  BY DEF SetEntry
<1>. HIDE DEF row, u
<1>4. u \in Seq([Offset -> Int]) /\ Len(u) = Len(t)
  BY <1>1, <1>2, <1>3
<1>5. \A m \in 1 .. Len(t) : u[m] = IF m = d THEN row ELSE t[m]
  BY <1>1, <1>2, <1>3
<1>6. \A m \in 1 .. Len(t), n \in Offset : u[m][n] = IF m = d /\ n = c THEN x ELSE t[m][n]
  BY <1>2, <1>5
<1>. QED
  BY <1>4, <1>6, ZenonT(60) DEF u, IsSet

\* A table more
LEMMA AllocTableIs ==
  ASSUME NEW t \in Seq([Offset -> Int])
  PROVE  IsGrown(t, AllocTable(t))
<1>. DEFINE new == [i \in Offset |-> None]
<1>1. new \in [Offset -> Int] /\ \A n \in Offset : new[n] = None
  BY DEF None
<1>2. AllocTable(t) = Append(t, new)
  BY DEF AllocTable, Offset
<1>. HIDE DEF new
<1>3. Len(t) \in Nat
  OBVIOUS
<1>4. /\ Append(t, new) \in Seq([Offset -> Int]) /\ Len(Append(t, new)) = Len(t) + 1
      /\ \A m \in 1 .. Len(t) : Append(t, new)[m] = t[m]
      /\ Append(t, new)[Len(t) + 1] = new
  BY <1>1, <1>3
<1>. QED
  BY <1>1, <1>2, <1>4 DEF IsGrown

\* MapPage: the page is found afterwards, every other one is what it was, and the
\* tables are a tree again.
LEMMA MapPageExtends ==
  ASSUME NEW t, Tree(t), NEW v \in Nat, NEW page \in Nat, VirtualPage(t, v) = None
  PROVE  Extends(t, MapPage(t, v, page), Pml4Offset(v), PdpOffset(v), PdOffset(v), page)
<1>a. PICK a : a = Pml4Offset(v)
  OBVIOUS
<1>b. PICK b : b = PdpOffset(v)
  OBVIOUS
<1>c. PICK c : c = PdOffset(v)
  OBVIOUS
<1>1. a \in Offset /\ b \in Offset /\ c \in Offset
  BY <1>a, <1>b, <1>c, OffsetsType DEF Offset
<1>2. PdpTable(t, v) = Pdp(t, a) /\ PdTable(t, v) = Pd(t, a, b)
  BY <1>a, <1>b DEF PdpTable, PdTable, Pdp, Pd, Entry, None
<1>3. t \in Seq([Offset -> Int]) /\ Len(t) \in Nat /\ Len(t) >= 1 /\ page \in Int
  BY DEF Tree, TablesType
<1>u. PICK u : u = MapPage(t, v, page)
  OBVIOUS
<1>4. SUFFICES Extends(t, u, a, b, c, page)
  BY <1>a, <1>b, <1>c, <1>u
<1>5. CASE Pd(t, a, b) # None
  <2>1. Pdp(t, a) # None
    BY <1>5 DEF Pd, Entry
  <2>2. u = SetEntry(t, Pd(t, a, b), c, page)
    BY <1>u, <1>c, <1>2, <1>5, <2>1, ZenonT(60) DEF MapPage, SetEntry
  <2>3. Pd(t, a, b) \in 1 .. Len(t)
    BY <1>1, <1>3, <1>5 DEF Tree, PdSound
  <2>4. IsSet(t, u, Pd(t, a, b), c, page)
    BY ONLY <1>1, <1>3, <2>2, <2>3, SetEntryIs, ZenonT(60)
  <2>. QED
    BY <1>1, <1>5, <2>4, MapLow
<1>6. CASE Pd(t, a, b) = None /\ Pdp(t, a) # None
  <2>1. PICK t1 : t1 = AllocTable(t) /\ IsGrown(t, t1)
    BY <1>3, AllocTableIs
  <2>2. /\ t1 \in Seq([Offset -> Int]) /\ Len(t1) = Len(t) + 1 /\ Len(t) + 1 \in 1 .. Len(t1)
        /\ Len(t) + 1 \in Int
    BY <1>3, <2>1 DEF IsGrown
  <2>3. PICK t2 : t2 = SetEntry(t1, Len(t) + 1, c, page) /\ IsSet(t1, t2, Len(t) + 1, c, page)
    BY <1>1, <1>3, <2>2, SetEntryIs, ZenonT(60)
  <2>4. t2 \in Seq([Offset -> Int]) /\ Len(t2) = Len(t) + 1 /\ Pdp(t, a) \in 1 .. Len(t2) /\ Pdp(t, a) # Len(t) + 1
    <3>1. Pdp(t, a) \in 2 .. Len(t)
      BY <1>1, <1>6 DEF Tree, PdpSound
    <3>. QED
      BY <1>3, <2>2, <2>3, <3>1 DEF IsSet
  <2>5. u = SetEntry(t2, Pdp(t, a), b, Len(t) + 1)
    BY <1>u, <1>b, <1>c, <1>2, <1>6, <2>1, <2>2, <2>3, ZenonT(60) DEF MapPage, SetEntry
  <2>6. IsSet(t2, u, Pdp(t, a), b, Len(t) + 1)
    BY <1>1, <2>2, <2>4, <2>5, SetEntryIs, ZenonT(60)
  <2>7. TablesType(u) /\ Len(u) = Len(t) + 1
    BY <1>3, <2>4, <2>6 DEF IsSet, TablesType
  <2>8. NewPd(t, u, a, b, c, page)
    <3>1. \A m \in 1 .. Len(t) : m \in 1 .. Len(t1) /\ m \in 1 .. Len(t2) /\ m # Len(t) + 1
      BY <1>3, <2>2, <2>4
    <3>2. Len(t) + 1 \in 1 .. Len(t2)
      BY <2>2, <2>4
    <3>3. \A n \in Offset : u[Len(t) + 1][n] = IF n = c THEN page ELSE None
      BY <2>1, <2>2, <2>3, <2>4, <2>6, <3>2 DEF IsSet, IsGrown
    <3>4. \A m \in 1 .. Len(t), n \in Offset :
            u[m][n] = IF m = Pdp(t, a) /\ n = b THEN Len(t) + 1 ELSE t[m][n]
      <4>. TAKE m \in 1 .. Len(t), n \in Offset
      <4>1. t1[m][n] = t[m][n]
        BY ONLY <2>1, n \in Offset, m \in 1 .. Len(t), SMTT(60) DEF IsGrown
      <4>2. t2[m][n] = t1[m][n]
        BY ONLY <2>3, <3>1, n \in Offset, m \in 1 .. Len(t) DEF IsSet
      <4>3. u[m][n] = IF m = Pdp(t, a) /\ n = b THEN Len(t) + 1 ELSE t2[m][n]
        BY ONLY <2>6, <3>1, n \in Offset, m \in 1 .. Len(t) DEF IsSet
      <4>. QED
        BY ONLY <4>1, <4>2, <4>3
    <3>. QED
      BY <3>3, <3>4 DEF NewPd
  <2>. QED
    BY <1>1, <1>6, <2>7, <2>8, MapMiddle
<1>7. CASE Pdp(t, a) = None
  <2>0. Pd(t, a, b) = None
    BY <1>7 DEF Pd, Entry
  <2>1. PICK t1 : t1 = AllocTable(t) /\ IsGrown(t, t1)
    BY <1>3, AllocTableIs
  <2>2. t1 \in Seq([Offset -> Int]) /\ Len(t1) = Len(t) + 1 /\ Len(t) + 1 \in 1 .. Len(t1)
    BY <1>3, <2>1 DEF IsGrown
  <2>3. PICK t2 : t2 = SetEntry(t1, Len(t) + 1, c, page) /\ IsSet(t1, t2, Len(t) + 1, c, page)
    BY <1>1, <1>3, <2>2, SetEntryIs, ZenonT(60)
  <2>4. t2 \in Seq([Offset -> Int]) /\ Len(t2) = Len(t) + 1
    BY <2>2, <2>3 DEF IsSet
  <2>5. PICK t3 : t3 = AllocTable(t2) /\ IsGrown(t2, t3)
    BY <2>4, AllocTableIs
  <2>6. /\ t3 \in Seq([Offset -> Int]) /\ Len(t3) = Len(t) + 2 /\ Len(t) + 2 \in 1 .. Len(t3)
        /\ Len(t) + 1 \in Int /\ Len(t) + 2 \in Int /\ Len(t2) + 1 = Len(t) + 2
    BY <1>3, <2>4, <2>5 DEF IsGrown
  <2>7. PICK t4 : t4 = SetEntry(t3, Len(t) + 2, b, Len(t) + 1) /\ IsSet(t3, t4, Len(t) + 2, b, Len(t) + 1)
    BY <1>1, <2>6, SetEntryIs, ZenonT(60)
  <2>8. t4 \in Seq([Offset -> Int]) /\ Len(t4) = Len(t) + 2 /\ 1 \in 1 .. Len(t4)
    BY <1>3, <2>6, <2>7 DEF IsSet
  <2>9. u = SetEntry(t4, 1, a, Len(t) + 2)
    <3>1. PdpTable(t, v) = None /\ PdTable(t, v) = None
      BY <1>2, <1>7, <2>0
    <3>. QED
      BY <1>u, <1>a, <1>b, <1>c, <2>1, <2>2, <2>3, <2>5, <2>6, <2>7, <3>1, ZenonT(60) DEF MapPage, SetEntry
  <2>10. IsSet(t4, u, 1, a, Len(t) + 2)
    BY <1>1, <2>6, <2>8, <2>9, SetEntryIs, ZenonT(60)
  <2>11. TablesType(u) /\ Len(u) = Len(t) + 2
    BY <1>3, <2>8, <2>10 DEF IsSet, TablesType
  <2>12. NewPdp(t, u, a, b, c, page)
    <3>1. /\ \A m \in 1 .. Len(t) : /\ m \in 1 .. Len(t1) /\ m \in 1 .. Len(t2) /\ m \in 1 .. Len(t3)
                                    /\ m \in 1 .. Len(t4) /\ m # Len(t) + 1 /\ m # Len(t) + 2
          /\ Len(t) + 1 \in 1 .. Len(t2) /\ Len(t) + 1 \in 1 .. Len(t3) /\ Len(t) + 1 \in 1 .. Len(t4)
          /\ Len(t) + 2 \in 1 .. Len(t4) /\ Len(t) + 1 # Len(t) + 2 /\ Len(t) + 1 # 1 /\ Len(t) + 2 # 1
      BY <1>3, <2>2, <2>4, <2>6, <2>8
    <3>2. \A m \in 1 .. Len(t), n \in Offset : t2[m][n] = t[m][n]
      <4>. TAKE m \in 1 .. Len(t), n \in Offset
      <4>1. t1[m][n] = t[m][n]
        BY ONLY <2>1, n \in Offset, m \in 1 .. Len(t) DEF IsGrown
      <4>2. t2[m][n] = t1[m][n]
        BY ONLY <2>3, <3>1, n \in Offset, m \in 1 .. Len(t), SMTT(60) DEF IsSet
      <4>. QED
        BY ONLY <4>1, <4>2
    <3>3. \A m \in 1 .. Len(t), n \in Offset : t4[m][n] = t[m][n]
      <4>. TAKE m \in 1 .. Len(t), n \in Offset
      <4>1. t3[m][n] = t2[m][n]
        BY ONLY <2>5, <3>1, n \in Offset, m \in 1 .. Len(t) DEF IsGrown
      <4>2. t4[m][n] = t3[m][n]
        BY ONLY <2>7, <3>1, n \in Offset, m \in 1 .. Len(t), SMTT(60) DEF IsSet
      <4>. QED
        BY <3>2, <4>1, <4>2
    <3>4. \A m \in 1 .. Len(t), n \in Offset :
            u[m][n] = IF m = 1 /\ n = a THEN Len(t) + 2 ELSE t[m][n]
      BY <2>10, <3>1, <3>3 DEF IsSet
    <3>5. \A n \in Offset : t2[Len(t) + 1][n] = IF n = c THEN page ELSE None
      BY <2>1, <2>2, <2>3 DEF IsSet, IsGrown
    <3>6. \A n \in Offset : u[Len(t) + 1][n] = IF n = c THEN page ELSE None
      <4>. TAKE n \in Offset
      <4>1. t3[Len(t) + 1][n] = t2[Len(t) + 1][n]
        BY ONLY <2>5, <3>1, n \in Offset DEF IsGrown
      <4>2. t4[Len(t) + 1][n] = t3[Len(t) + 1][n]
        BY ONLY <2>7, <3>1, n \in Offset DEF IsSet
      <4>3. u[Len(t) + 1][n] = t4[Len(t) + 1][n]
        BY ONLY <2>10, <3>1, n \in Offset, SMTT(60) DEF IsSet
      <4>. QED
        BY <3>5, <4>1, <4>2, <4>3
    <3>7. \A n \in Offset : t3[Len(t) + 2][n] = None
      BY <2>5, <2>6 DEF IsGrown
    <3>8. \A n \in Offset : u[Len(t) + 2][n] = IF n = b THEN Len(t) + 1 ELSE None
      <4>. TAKE n \in Offset
      <4>1. t4[Len(t) + 2][n] = IF n = b THEN Len(t) + 1 ELSE t3[Len(t) + 2][n]
        BY ONLY <2>6, <2>7, n \in Offset, ZenonT(60) DEF IsSet
      <4>2. u[Len(t) + 2][n] = t4[Len(t) + 2][n]
        BY ONLY <2>10, <3>1, n \in Offset DEF IsSet
      <4>. QED
        BY <3>7, <4>1, <4>2
    <3>. QED
      BY <3>4, <3>6, <3>8 DEF NewPdp
  <2>. QED
    BY <1>1, <1>7, <2>11, <2>12, MapHigh
<1>. QED
  BY <1>5, <1>6, <1>7

-----------------------------------------------------------------------------
(* The inductive invariant *)

\* A page that may be given out
Usable(m, p) ==
  /\ p \in AllocStart .. MaxPage
  /\ \E z \in Range(m) : z.type = 1 /\ z.base <= p * PageSize
                            /\ (p + 1) * PageSize <= z.base + z.length

Low == 0 .. Last32
High == Last32 + 1 .. MaxPage

\* Above the guard, stack s holds different pages of S, all of them in F.
Stacked(s, S, F) ==
  /\ s \in Seq(Nat) /\ Len(s) <= StackSlots
  /\ \A i, j \in 1 .. Len(s) : s[i] = s[j] => i = j
  /\ \A i \in 1 .. Len(s) : s[i] # 0 => s[i] \in F /\ s[i] \in S

\* KeptUnlessFull, with A for all pages there are
Kept(s, S, F, A) == F \cap S \subseteq Range(s) \/ Cardinality(A \cap S) >= StackSlots

BootInv ==
  /\ mmap \in Seq(Zones) /\ zone \in 1 .. Len(mmap) + 1 /\ cursor \in Nat
  /\ phase \in {"boot", "insert"} => DOMAIN space = {} /\ dma = {}
  /\ phase = "insert" => /\ zone > 1 /\ mmap[zone - 1].type = 1
                         /\ cursor >= AllocStart /\ cursor >= FirstPage(mmap[zone - 1])
  /\ phase = "configure" => dma = {} /\ cursor <= AllocStart /\ DOMAIN space = 0 .. cursor - 1
  /\ nextStack \in Nat /\ nextStack >= StacksPage

PoolInv ==
  /\ \A p \in free : Usable(mmap, p)
  /\ Stacked(stack_32, Low, free)
  /\ Stacked(stack_64, High, free)

SpaceInv ==
  /\ DOMAIN space \subseteq Page
  /\ \A v \in DOMAIN space : v <= Last32 => space[v] = v
  /\ \A v \in DOMAIN space : v > Last32 => /\ Usable(mmap, space[v])
                                           /\ space[v] \notin free /\ space[v] \notin dma
  /\ \A v, w \in DOMAIN space : v > Last32 /\ w > Last32 /\ space[v] = space[w] => v = w
  /\ \A p \in dma : Usable(mmap, p) /\ p \notin free /\ p <= Last32 /\ p \in DOMAIN space

TableInv ==
  /\ Tree(table)
  /\ \A v \in Page : VirtualPage(table, v) = IF v \in DOMAIN space THEN space[v] ELSE None

CountInv ==
  /\ IsFiniteSet(free) /\ IsFiniteSet(Frames) /\ IsFiniteSet(dma)
  /\ used = Cardinality(Frames) + Cardinality(dma)
  /\ available = used + Cardinality(free)
  /\ Kept(stack_32, Low, free, free \cup Frames \cup dma)
  /\ Kept(stack_64, High, free, free \cup Frames \cup dma)

Inv == BootInv /\ PoolInv /\ SpaceInv /\ TableInv /\ CountInv

-----------------------------------------------------------------------------
(* The stacks *)

\* What pop returns is free and of S unless it is the guard, and is not on the
\* stack any more.
LEMMA Pop ==
  ASSUME NEW S, NEW F, NEW A, NEW s, Stacked(s, S, F), Kept(s, S, F, A),
         NEW p, p = Popped(s), NEW r, r = Rest(s)
  PROVE  /\ p \in Nat /\ (p # 0 => p \in F /\ p \in S)
         /\ Stacked(r, S, F \ {p}) /\ Kept(r, S, F \ {p}, A)
<1>1. CASE s = <<>>
  <2>1. p = 0 /\ r = s /\ Len(s) = 0 /\ s \in Seq(Nat) /\ Range(s) = {} /\ 0 <= StackSlots
    BY <1>1, MemoryAssumption DEF Popped, Rest, Range
  <2>. QED
    BY <2>1 DEF Stacked, Kept
<1>2. CASE s # <<>>
  <2>1. s \in Seq(Nat) /\ Len(s) \in Nat /\ Len(s) >= 1 /\ StackSlots \in Nat /\ Len(s) <= StackSlots
    BY <1>2, MemoryAssumption DEF Stacked
  <2>2. PICK n : n = Len(s)
    BY ZenonT(60)
  <2>3. n \in Nat /\ n >= 1 /\ n <= StackSlots
    BY <2>1, <2>2
  <2>4. p = s[n] /\ r = SubSeq(s, 1, n - 1)
    BY <1>2, <2>2 DEF Popped, Rest
  <2>5. r \in Seq(Nat) /\ Len(r) = n - 1 /\ \A i \in 1 .. n - 1 : r[i] = s[i]
    BY <2>1, <2>2, <2>3, <2>4
  <2>6. /\ \A i, j \in 1 .. n : s[i] = s[j] => i = j
        /\ \A i \in 1 .. n : s[i] # 0 => s[i] \in F /\ s[i] \in S
    BY <2>2 DEF Stacked
  <2>7. n \in 1 .. n /\ \A i \in 1 .. n - 1 : i \in 1 .. n /\ i # n
    BY <2>3
  <2>8. p \in Nat /\ (p # 0 => p \in F /\ p \in S)
    BY <2>1, <2>2, <2>4, <2>6, <2>7
  <2>9. Stacked(r, S, F \ {p})
    <3>1. Len(r) <= StackSlots
      BY <2>1, <2>3, <2>5
    <3>2. \A i \in 1 .. n - 1 : r[i] # p
      BY <2>4, <2>5, <2>6, <2>7
    <3>3. \A i \in 1 .. n - 1 : r[i] # 0 => r[i] \in F \ {p} /\ r[i] \in S
      BY <2>5, <2>6, <2>7, <3>2
    <3>4. \A i, j \in 1 .. n - 1 : r[i] = r[j] => i = j
      BY <2>5, <2>6, <2>7
    <3>. QED
      BY <2>5, <3>1, <3>3, <3>4 DEF Stacked
  <2>10. Kept(r, S, F \ {p}, A)
    <3>1. SUFFICES ASSUME F \cap S \subseteq Range(s)
                   PROVE  (F \ {p}) \cap S \subseteq Range(r)
      BY DEF Kept
    <3>2. SUFFICES ASSUME NEW q \in F, q \in S, q # p
                   PROVE  q \in Range(r)
      OBVIOUS
    <3>3. q \in Range(s)
      BY <3>1, <3>2
    <3>4. PICK i \in 1 .. n : s[i] = q
      BY <2>1, <2>2, <3>3 DEF Range
    <3>5. i \in 1 .. n - 1
      BY <2>3, <2>4, <3>2, <3>4
    <3>. QED
      BY <2>5, <3>4, <3>5 DEF Range
  <2>. QED
    BY <2>8, <2>9, <2>10
<1>. QED
  BY <1>1, <1>2

\* A page that is not of S leaves the stack of S alone.
LEMMA OtherStack ==
  ASSUME NEW S, NEW F, NEW A, NEW s, Stacked(s, S, F), Kept(s, S, F, A), NEW p,
         p \notin S \/ p = 0
  PROVE  Stacked(s, S, F \ {p}) /\ Kept(s, S, F \ {p}, A)
<1>1. Stacked(s, S, F \ {p})
  BY DEF Stacked
<1>2. Kept(s, S, F \ {p}, A)
  BY DEF Kept
<1>. QED
  BY <1>1, <1>2

\* So does a page that is added.
LEMMA OtherAdded ==
  ASSUME NEW S, NEW F, NEW A, NEW s, Stacked(s, S, F), Kept(s, S, F, A), NEW p, p \notin S
  PROVE  Stacked(s, S, F \cup {p}) /\ Kept(s, S, F \cup {p}, A \cup {p})
<1>1. Stacked(s, S, F \cup {p})
  BY DEF Stacked
<1>2. (F \cup {p}) \cap S = F \cap S /\ (A \cup {p}) \cap S = A \cap S
  OBVIOUS
<1>3. Kept(s, S, F \cup {p}, A \cup {p})
  BY <1>2 DEF Kept
<1>. QED
  BY <1>1, <1>3

\* A stack of n different pages: there are that many, the guard aside.
LEMMA StackedMany ==
  ASSUME NEW S, NEW A, NEW s, Stacked(s, S, A), IsFiniteSet(A)
  PROVE  Cardinality(A \cap S) + 1 >= Len(s)
<1>. DEFINE B == (A \cap S) \cup {0}
<1>1. s \in Seq(Nat) /\ Len(s) \in Nat
  BY DEF Stacked
<1>2. IsFiniteSet(A \cap S)
  BY FS_Intersection
<1>3. IsFiniteSet(B) /\ Cardinality(B) <= Cardinality(A \cap S) + 1
  <2>1. Cardinality(A \cap S) \in Nat
    BY <1>2, FS_CardinalityType
  <2>2. IsFiniteSet(B) /\ (Cardinality(B) = Cardinality(A \cap S) \/ Cardinality(B) = Cardinality(A \cap S) + 1)
    BY ONLY <1>2, FS_AddElement DEF B
  <2>. QED
    BY ONLY <2>1, <2>2
<1>4. s \in Injection(1 .. Len(s), B)
  BY <1>1 DEF Stacked, Injection, IsInjective
<1>5. IsFiniteSet(1 .. Len(s)) /\ Cardinality(1 .. Len(s)) = Len(s)
  <2>1. PICK n : n = Len(s)
    BY ZenonT(60)
  <2>2. n \in Nat
    BY <1>1, <2>1
  <2>3. IsFiniteSet(1 .. n) /\ Cardinality(1 .. n) = n
    BY ONLY <2>2, FS_Interval
  <2>. QED
    BY ONLY <2>1, <2>3
<1>6. Cardinality(1 .. Len(s)) <= Cardinality(B)
  BY <1>3, <1>4, FS_Injection
<1>7. Cardinality(B) \in Nat /\ Cardinality(A \cap S) \in Nat
  BY <1>2, <1>3, FS_CardinalityType
<1>. HIDE DEF B
<1>. QED
  BY <1>1, <1>3, <1>5, <1>6, <1>7

\* A page of S is pushed, or the stack was full.
LEMMA Push ==
  ASSUME NEW S, NEW A, NEW s, Stacked(s, S, A), Kept(s, S, A, A), IsFiniteSet(A),
         NEW p \in Nat, p # 0, p \in S, p \notin A, NEW r, r = push(s, p)
  PROVE  Stacked(r, S, A \cup {p}) /\ Kept(r, S, A \cup {p}, A \cup {p})
<1>1. s \in Seq(Nat) /\ Len(s) \in Nat /\ StackSlots \in Nat /\ Len(s) <= StackSlots
  BY MemoryAssumption DEF Stacked
<1>2. IsFiniteSet(A \cap S) /\ Cardinality(A \cap S) \in Nat
  BY FS_Intersection, FS_CardinalityType
<1>3. (A \cup {p}) \cap S = (A \cap S) \cup {p} /\ p \notin A \cap S
  OBVIOUS
<1>4. Cardinality((A \cup {p}) \cap S) = Cardinality(A \cap S) + 1
  BY <1>2, <1>3, FS_AddElement, ZenonT(60)
<1>5. CASE Len(s) = StackSlots
  <2>1. r = s
    BY <1>5 DEF push
  <2>2. Cardinality(A \cap S) + 1 >= StackSlots
    BY <1>5, StackedMany
  <2>3. Kept(r, S, A \cup {p}, A \cup {p})
    BY <1>4, <2>2 DEF Kept
  <2>4. Stacked(r, S, A \cup {p})
    BY <2>1 DEF Stacked
  <2>. QED
    BY <2>3, <2>4
<1>6. CASE Len(s) # StackSlots
  <2>1. r = Append(s, p)
    BY <1>6 DEF push
  <2>2. PICK n : n = Len(s)
    BY ZenonT(60)
  <2>3. n \in Nat /\ n + 1 <= StackSlots
    BY <1>1, <1>6, <2>2
  <2>4. /\ r \in Seq(Nat) /\ Len(r) = n + 1 /\ r[n + 1] = p
        /\ \A i \in 1 .. n : r[i] = s[i]
    BY <1>1, <2>1, <2>2
  <2>5. Range(r) = Range(s) \cup {p}
    BY <2>2, <2>3, <2>4 DEF Range
  <2>6. /\ \A i, j \in 1 .. n : s[i] = s[j] => i = j
        /\ \A i \in 1 .. n : s[i] # 0 => s[i] \in A /\ s[i] \in S
    BY <2>2 DEF Stacked
  <2>7. \A i \in 1 .. n + 1 : i \in 1 .. n \/ i = n + 1
    BY <2>3
  <2>8. \A i \in 1 .. n : r[i] # p
    BY <2>4, <2>6
  <2>9. \A i, j \in 1 .. n + 1 : r[i] = r[j] => i = j
    BY <2>4, <2>6, <2>7, <2>8
  <2>10. \A i \in 1 .. n + 1 : r[i] # 0 => r[i] \in A \cup {p} /\ r[i] \in S
    BY <2>4, <2>6, <2>7
  <2>11. Stacked(r, S, A \cup {p})
    BY <2>3, <2>4, <2>9, <2>10 DEF Stacked
  <2>12. Cardinality(A \cap S) >= StackSlots => Cardinality((A \cup {p}) \cap S) >= StackSlots
    BY <1>1, <1>2, <1>4
  <2>13. Kept(r, S, A \cup {p}, A \cup {p})
    BY <2>5, <2>12 DEF Kept
  <2>. QED
    BY <2>11, <2>13
<1>. QED
  BY <1>5, <1>6

-----------------------------------------------------------------------------
(* Initial states and boot *)

\* The sizes and the order of the areas
LEMMA Sizes ==
  /\ PageSize \in Nat \ {0} /\ AllocStart \in Nat \ {0} /\ MaxPage \in Nat /\ Last32 \in Nat
  /\ AllocStart <= Last32 /\ StacksPage \in Nat /\ Last32 < StacksPage /\ MaxStacks \in Nat
  BY MemoryAssumption

\* The first page of a zone is a number.
LEMMA FirstPageType ==
  ASSUME NEW z \in Zones
  PROVE  FirstPage(z) \in Nat
<1>1. z.base \in Bases
  BY ONLY z \in Zones, SMTT(60) DEF Zones
<1>2. z.base \in Nat
  BY <1>1, MemoryAssumption, ZenonT(60)
<1>3. z.base + PageSize - 1 \in Nat
  BY <1>2, Sizes
<1>. QED
  BY <1>3, Sizes, Division DEF FirstPage

\* The walk of VirtualToPhysical
LEMMA WalkIs ==
  ASSUME NEW t, NEW v
  PROVE  VirtualPage(t, v) = Walk(t, Pml4Offset(v), PdpOffset(v), PdOffset(v))
  BY DEF VirtualPage, PdTable, PdpTable, Walk, Pd, Pdp, Entry, None

\* Before boot nothing is inserted, mapped or taken.
LEMMA InitInv == Init => Inv
<1>. SUFFICES ASSUME Init PROVE Inv
  OBVIOUS
<1>1. mmap \in Seq(Zones)
  <2>1. PICK n \in 1 .. MaxZones : mmap \in [1 .. n -> Zones]
    BY DEF Init
  <2>2. n \in Nat
    BY MemoryAssumption
  <2>. QED
    BY <2>1, <2>2
<1>2. DOMAIN space = {} /\ dma = {} /\ free = {} /\ zone = 1 /\ cursor = 0 /\ phase = "boot"
  BY DEF Init
<1>3. BootInv
  BY <1>1, <1>2, MemoryAssumption DEF Init, BootInv
<1>4. stack_32 = <<0>> /\ stack_64 = <<0>>
  <2>1. StackSlots # 0
    BY MemoryAssumption
  <2>. QED
    BY <2>1 DEF Init, push
<1>5. ASSUME NEW S PROVE Stacked(<<0>>, S, {})
  <2>1. <<0>> \in Seq(Nat) /\ Len(<<0>>) = 1 /\ <<0>>[1] = 0 /\ 1 <= StackSlots
    BY MemoryAssumption
  <2>. QED
    BY <2>1 DEF Stacked
<1>6. PoolInv
  BY <1>2, <1>4, <1>5 DEF PoolInv
<1>7. SpaceInv
  BY <1>2 DEF SpaceInv
<1>8. TableInv
  <2>1. /\ table \in Seq([Offset -> Int]) /\ Len(table) = 1
        /\ \A n \in Offset : table[1][n] = None
    <3>1. PICK e : e = <<>>
      OBVIOUS
    <3>2. e \in Seq([Offset -> Int]) /\ Len(e) = 0
      BY <3>1
    <3>3. table = AllocTable(e)
      BY <3>1 DEF Init
    <3>4. IsGrown(e, table)
      BY <3>2, <3>3, AllocTableIs, ZenonT(60)
    <3>. QED
      BY <3>2, <3>4 DEF IsGrown
  <2>2. \A i, j \in Offset : Pdp(table, i) = None /\ Pd(table, i, j) = None
    BY <2>1 DEF Pdp, Pd, Entry
  <2>3. Tree(table)
    BY <2>1, <2>2 DEF Tree, TablesType, PdpSound, PdSound
  <2>4. ASSUME NEW v \in Page PROVE VirtualPage(table, v) = None
    <3>1. v \in Nat
      BY DEF Page
    <3>. QED
      BY <2>2, <3>1, OffsetsType, WalkIs DEF Walk, Entry, Offset
  <2>. QED
    BY <1>2, <2>3, <2>4 DEF TableInv
<1>9. CountInv
  <2>1. Frames = {}
    BY <1>2 DEF Frames
  <2>2. IsFiniteSet({}) /\ Cardinality({}) = 0
    BY FS_EmptySet
  <2>3. used = 0 /\ available = 0
    BY DEF Init
  <2>. QED
    BY <1>2, <2>1, <2>2, <2>3 DEF CountInv, Kept
<1>. QED
  BY <1>3, <1>6, <1>7, <1>8, <1>9 DEF Inv

\* What is the same in every state that differs in the loops of boot only
LEMMA Same ==
  ASSUME Inv, UNCHANGED <<mmap, free, stack_32, stack_64, available, used, table, dma, space>>
  PROVE  PoolInv' /\ SpaceInv' /\ TableInv' /\ CountInv'
<1>1. PoolInv'
  BY DEF Inv, PoolInv
<1>2. SpaceInv'
  BY DEF Inv, SpaceInv
<1>3. TableInv'
  BY DEF Inv, TableInv
<1>4. Frames' = Frames
  BY DEF Frames
<1>5. CountInv'
  BY <1>4 DEF Inv, CountInv
<1>. QED
  BY <1>1, <1>2, <1>3, <1>5

\* The loop over the pages of a zone sees pages that lie inside it.
LEMMA InsertedUsable ==
  ASSUME NEW m \in Seq(Zones), NEW i \in 1 .. Len(m), m[i].type = 1, NEW p \in Nat,
         p >= AllocStart, p >= FirstPage(m[i]), p < EndPage(m[i])
  PROVE  Usable(m, p)
<1>1. PICK z : z = m[i]
  OBVIOUS
<1>2. z \in Range(m) /\ z.base \in Bases /\ z.length \in Lengths /\ z.type = 1
  <2>1. z \in Zones
    BY <1>1
  <2>2. z \in Range(m)
    BY <1>1 DEF Range
  <2>3. z.base \in Bases /\ z.length \in Lengths
    BY ONLY <2>1 DEF Zones
  <2>. QED
    BY <1>1, <2>2, <2>3
<1>3. PICK b : b = z.base
  OBVIOUS
<1>4. PICK l : l = z.length
  OBVIOUS
<1>5. PICK P : P = PageSize
  OBVIOUS
<1>6. /\ b \in Nat /\ l \in Nat /\ P \in Nat \ {0} /\ MaxPage \in Nat /\ AllocStart \in Nat
      /\ b + l <= (MaxPage + 1) * P
  BY <1>2, <1>3, <1>4, <1>5, MemoryAssumption, ZenonT(60)
<1>7. b <= p * P
  <2>1. PICK q : q = (b + P - 1) \div P
    OBVIOUS
  <2>2. PICK r : r = (b + P - 1) % P
    OBVIOUS
  <2>3. b + P - 1 \in Nat
    BY <1>6
  <2>4. q \in Nat /\ r \in 0 .. P - 1 /\ b + P - 1 = P * q + r
    BY <1>6, <2>1, <2>2, <2>3, Division, ZenonT(60)
  <2>5. b <= P * q
    BY <1>6, <2>4
  <2>6. q <= p
    BY <1>1, <1>3, <1>5, <2>1 DEF FirstPage
  <2>7. PICK k \in Nat : p = q + k
    BY <2>4, <2>6
  <2>8. p * P = P * q + k * P /\ k * P >= 0
    BY <1>6, <2>4, <2>7
  <2>. QED
    BY <1>6, <2>4, <2>5, <2>8
<1>8. (p + 1) * P <= b + l
  <2>1. PICK q : q = (b + l) \div P
    OBVIOUS
  <2>2. PICK r : r = (b + l) % P
    OBVIOUS
  <2>3. b + l \in Nat
    BY <1>6
  <2>4. q \in Nat /\ r \in 0 .. P - 1 /\ b + l = P * q + r
    BY <1>6, <2>1, <2>2, <2>3, Division, ZenonT(60)
  <2>5. p < q
    BY <1>1, <1>3, <1>4, <1>5, <2>1 DEF EndPage
  <2>6. PICK k \in Nat : q = p + 1 + k
    BY <2>4, <2>5
  <2>7. P * q = (p + 1) * P + k * P /\ k * P >= 0
    BY <1>6, <2>4, <2>6
  <2>. QED
    BY <1>6, <2>4, <2>7
<1>9. p <= MaxPage
  <2>1. (p + 1) * P <= (MaxPage + 1) * P
    BY <1>6, <1>8
  <2>2. SUFFICES ASSUME p > MaxPage PROVE FALSE
    BY <1>6
  <2>3. PICK k \in Nat : p = MaxPage + 1 + k
    BY <1>6, <2>2
  <2>4. (p + 1) * P = (MaxPage + 1) * P + P + k * P /\ k * P >= 0
    BY <1>6, <2>3
  <2>. QED
    BY <1>6, <2>1, <2>4
<1>. QED
  BY <1>2, <1>3, <1>4, <1>5, <1>6, <1>7, <1>8, <1>9 DEF Usable

\* Going to the next zone of the memory map keeps the invariant.
LEMMA ZoneStep == Inv /\ NextAvailableMemory => Inv'
<1>. SUFFICES ASSUME Inv, NextAvailableMemory PROVE Inv'
  OBVIOUS
<1>1. PoolInv' /\ SpaceInv' /\ TableInv' /\ CountInv'
  BY Same DEF NextAvailableMemory
<1>2. /\ mmap \in Seq(Zones) /\ zone \in 1 .. Len(mmap) + 1 /\ Len(mmap) \in Nat /\ zone <= Len(mmap)
      /\ phase = "boot"
  BY DEF Inv, BootInv, NextAvailableMemory
<1>3. zone \in 1 .. Len(mmap)
  BY <1>2
<1>4. FirstPage(mmap[zone]) \in Nat /\ AllocStart \in Nat
  <2>1. mmap[zone] \in Zones
    BY <1>2, <1>3
  <2>. QED
    BY <2>1, Sizes, FirstPageType
<1>5. DOMAIN space = {} /\ dma = {} /\ nextStack \in Nat /\ nextStack >= StacksPage /\ cursor \in Nat
  BY <1>2 DEF Inv, BootInv
<1>6. mmap' = mmap /\ space' = space /\ dma' = dma /\ nextStack' = nextStack
  BY DEF NextAvailableMemory
<1>7. CASE mmap[zone].type = 1 /\ ~ Empty(mmap[zone])
  <2>1. phase' = "insert" /\ cursor' \in Nat /\ cursor' >= AllocStart /\ cursor' >= FirstPage(mmap[zone])
    BY <1>4, <1>7 DEF NextAvailableMemory
  <2>2. zone' = zone + 1
    BY <1>7 DEF NextAvailableMemory
  <2>3. zone' \in 1 .. Len(mmap) + 1 /\ zone' > 1 /\ zone' - 1 = zone
    BY <1>2, <2>2
  <2>4. BootInv'
    BY <1>2, <1>5, <1>6, <1>7, <2>1, <2>3, ZenonT(60) DEF BootInv, FirstPage
  <2>. QED
    BY <1>1, <2>4 DEF Inv
<1>8. CASE ~ (mmap[zone].type = 1 /\ ~ Empty(mmap[zone]))
  <2>1. phase' = "boot" /\ cursor' = cursor
    BY <1>2, <1>8 DEF NextAvailableMemory
  <2>2. zone' = Len(mmap) + 1 \/ zone' = zone + 1
    BY DEF NextAvailableMemory
  <2>3. zone' \in 1 .. Len(mmap) + 1
    BY <1>2, <2>2
  <2>4. BootInv'
    BY <1>2, <1>5, <1>6, <2>1, <2>3 DEF BootInv
  <2>. QED
    BY <1>1, <2>4 DEF Inv
<1>. QED
  BY <1>7, <1>8

\* So does putting a page of a usable zone on its stack.
LEMMA InsertStep == Inv /\ InsertPage => Inv'
<1>. SUFFICES ASSUME Inv, InsertPage PROVE Inv'
  OBVIOUS
<1>1. /\ mmap \in Seq(Zones) /\ zone \in 1 .. Len(mmap) + 1 /\ Len(mmap) \in Nat /\ cursor \in Nat
      /\ phase = "insert" /\ zone > 1 /\ mmap[zone - 1].type = 1
      /\ cursor >= AllocStart /\ cursor >= FirstPage(mmap[zone - 1])
      /\ DOMAIN space = {} /\ dma = {} /\ nextStack \in Nat /\ nextStack >= StacksPage
  BY DEF Inv, BootInv, InsertPage
<1>2. /\ mmap' = mmap /\ zone' = zone /\ phase' = phase /\ space' = space /\ dma' = dma
      /\ nextStack' = nextStack /\ cursor' = cursor + 1 /\ table' = table /\ used' = used
  BY DEF InsertPage
<1>3. zone - 1 \in 1 .. Len(mmap)
  BY <1>1
<1>4. Usable(mmap, cursor)
  <2>1. cursor < EndPage(mmap[zone - 1])
    BY DEF InsertPage
  <2>. QED
    BY <1>1, <1>3, <2>1, InsertedUsable
<1>5. BootInv'
  <2>1. cursor + 1 \in Nat /\ cursor + 1 >= AllocStart /\ cursor + 1 >= FirstPage(mmap[zone - 1])
    <3>1. mmap[zone - 1] \in Zones
      BY <1>1, <1>3
    <3>2. FirstPage(mmap[zone - 1]) \in Nat
      BY <3>1, FirstPageType
    <3>. QED
      BY <1>1, <3>2, Sizes
  <2>. QED
    BY <1>1, <1>2, <2>1 DEF BootInv, FirstPage
<1>6. TableInv'
  BY <1>2 DEF Inv, TableInv
<1>7. CASE cursor \in free
  <2>1. UNCHANGED <<mmap, free, stack_32, stack_64, available, used, table, dma, space>>
    BY <1>2, <1>7 DEF InsertPage, Inserted
  <2>. QED
    BY <1>5, <2>1, Same DEF Inv
<1>8. CASE cursor \notin free
  <2>1. /\ free' = free \cup {cursor}
        /\ stack_32' = IF cursor <= Last32 THEN push(stack_32, cursor) ELSE stack_32
        /\ stack_64' = IF cursor <= Last32 THEN stack_64 ELSE push(stack_64, cursor)
        /\ available' = available + 1
    BY <1>8 DEF InsertPage, Inserted
  <2>2. Frames = {} /\ Frames' = {}
    BY <1>1, <1>2 DEF Frames
  <2>3. cursor # 0 /\ (cursor <= Last32 => cursor \in Low /\ cursor \notin High)
        /\ (~ (cursor <= Last32) => cursor \notin Low /\ cursor \in High)
    <3>1. cursor \in AllocStart .. MaxPage
      BY <1>4 DEF Usable
    <3>. QED
      BY <3>1, Sizes DEF Low, High
  <2>4. /\ IsFiniteSet(free) /\ Stacked(stack_32, Low, free) /\ Stacked(stack_64, High, free)
        /\ Kept(stack_32, Low, free, free) /\ Kept(stack_64, High, free, free)
    <3>1. free \cup Frames \cup dma = free
      BY <1>1, <2>2
    <3>. QED
      BY <3>1, ZenonT(60) DEF Inv, PoolInv, CountInv
  <2>5. /\ Stacked(stack_32', Low, free \cup {cursor})
        /\ Kept(stack_32', Low, free \cup {cursor}, free \cup {cursor})
    BY <1>1, <1>8, <2>1, <2>3, <2>4, Push, OtherAdded
  <2>6. /\ Stacked(stack_64', High, free \cup {cursor})
        /\ Kept(stack_64', High, free \cup {cursor}, free \cup {cursor})
    BY <1>1, <1>8, <2>1, <2>3, <2>4, Push, OtherAdded, ZenonT(60)
  <2>7. PoolInv'
    <3>1. \A p \in free : Usable(mmap, p)
      BY DEF Inv, PoolInv
    <3>2. \A p \in free' : Usable(mmap', p)
      BY <1>2, <1>4, <2>1, <3>1
    <3>. QED
      BY <2>1, <2>5, <2>6, <3>2 DEF PoolInv, Low, High
  <2>8. SpaceInv'
    BY <1>1, <1>2 DEF SpaceInv
  <2>9. CountInv'
    <3>1. IsFiniteSet(free \cup {cursor}) /\ Cardinality(free \cup {cursor}) = Cardinality(free) + 1
      BY <1>8, <2>4, FS_AddElement
    <3>2. Cardinality(free) \in Nat
      BY <2>4, FS_CardinalityType
    <3>3. IsFiniteSet({}) /\ Cardinality({}) = 0
      BY FS_EmptySet
    <3>4. used = Cardinality(Frames) + Cardinality(dma) /\ available = used + Cardinality(free)
      BY DEF Inv, CountInv
    <3>5. used' = Cardinality(Frames') + Cardinality(dma') /\ available' = used' + Cardinality(free')
      BY <1>1, <1>2, <2>1, <2>2, <3>1, <3>2, <3>3, <3>4
    <3>6. IsFiniteSet(free') /\ IsFiniteSet(Frames') /\ IsFiniteSet(dma')
      BY <1>1, <1>2, <2>1, <2>2, <3>1, <3>3
    <3>7. free' \cup Frames' \cup dma' = free \cup {cursor}
      BY <1>1, <1>2, <2>1, <2>2
    <3>8. Kept(stack_32', Low, free', free' \cup Frames' \cup dma')
      BY <2>1, <2>5, <3>7
    <3>9. Kept(stack_64', High, free', free' \cup Frames' \cup dma')
      BY <2>1, <2>6, <3>7
    <3>. QED
      BY <3>5, <3>6, <3>8, <3>9 DEF CountInv, Low, High
  <2>. QED
    BY <1>5, <1>6, <2>7, <2>8, <2>9 DEF Inv
<1>. QED
  BY <1>7, <1>8

\* The steps that only go on to the next phase
LEMMA PhaseSteps == Inv /\ (RangeInserted \/ TooLittleMemory \/ InitSubsystems \/ OutOfMemory) => Inv'
<1>. SUFFICES ASSUME Inv, RangeInserted \/ TooLittleMemory \/ InitSubsystems \/ OutOfMemory PROVE Inv'
  OBVIOUS
<1>1. UNCHANGED <<mmap, zone, free, stack_32, stack_64, available, used, table, nextStack, dma, space>>
  BY DEF RangeInserted, TooLittleMemory, InitSubsystems, OutOfMemory, Halt
<1>2. PoolInv' /\ SpaceInv' /\ TableInv' /\ CountInv'
  BY <1>1, Same
<1>3. \/ phase' = "boot" /\ phase = "insert" /\ cursor' = cursor
      \/ phase' = "halted" /\ cursor' = cursor
      \/ phase' = "configure" /\ phase = "boot" /\ cursor' = 0
  BY DEF RangeInserted, TooLittleMemory, InitSubsystems, OutOfMemory, Halt
<1>4. BootInv'
  <2>1. CASE phase' = "boot" /\ phase = "insert" /\ cursor' = cursor
    BY <1>1, <2>1 DEF Inv, BootInv
  <2>2. CASE phase' = "halted" /\ cursor' = cursor
    BY <1>1, <2>2 DEF Inv, BootInv
  <2>3. CASE phase' = "configure" /\ phase = "boot" /\ cursor' = 0
    <3>1. DOMAIN space = {} /\ dma = {}
      BY <2>3 DEF Inv, BootInv
    <3>2. 0 \in Nat /\ 0 <= AllocStart /\ 0 .. 0 - 1 = {}
      BY Sizes
    <3>. QED
      BY <1>1, <2>3, <3>1, <3>2 DEF Inv, BootInv
  <2>. QED
    BY <1>3, <2>1, <2>2, <2>3
<1>. QED
  BY <1>2, <1>4 DEF Inv

-----------------------------------------------------------------------------
(* The address space *)

\* space with one page more
SpaceWith(v, page) ==
  /\ DOMAIN space' = DOMAIN space \cup {v} /\ space'[v] = page
  /\ \A w \in DOMAIN space : space'[w] = space[w]

\* Map keeps the walk and the history together.
LEMMA Mapped ==
  ASSUME TableInv, NEW v \in Page, v \notin DOMAIN space, NEW page \in Nat, Map(v, page)
  PROVE  TableInv' /\ SpaceWith(v, page)
<1>1. SpaceWith(v, page)
  BY DEF Map, SpaceWith
<1>2. v \in Nat /\ VirtualPage(table, v) = None /\ Tree(table) /\ table' = MapPage(table, v, page)
  BY DEF TableInv, Map, Page
<1>3. Extends(table, table', Pml4Offset(v), PdpOffset(v), PdOffset(v), page)
  BY <1>2, MapPageExtends
<1>4. ASSUME NEW w \in Page
      PROVE  VirtualPage(table', w) = IF w = v THEN page ELSE VirtualPage(table, w)
  <2>1. w \in Nat
    BY DEF Page
  <2>2. Pml4Offset(w) \in Offset /\ PdpOffset(w) \in Offset /\ PdOffset(w) \in Offset
    BY <2>1, OffsetsType DEF Offset
  <2>3. VirtualPage(table', w) =
          IF Pml4Offset(w) = Pml4Offset(v) /\ PdpOffset(w) = PdpOffset(v) /\ PdOffset(w) = PdOffset(v)
          THEN page ELSE VirtualPage(table, w)
    BY <1>3, <2>2, WalkIs DEF Extends
  <2>. QED
    BY <2>3, OffsetsDiffer
<1>5. ASSUME NEW w \in Page
      PROVE  VirtualPage(table', w) = IF w \in DOMAIN space' THEN space'[w] ELSE None
  <2>1. VirtualPage(table, w) = IF w \in DOMAIN space THEN space[w] ELSE None
    BY DEF TableInv
  <2>. QED
    BY <1>1, <1>4, <2>1 DEF SpaceWith
<1>6. Tree(table')
  BY <1>3 DEF Extends
<1>7. TableInv'
  BY <1>5, <1>6 DEF TableInv, Page
<1>. QED
  BY <1>1, <1>7

\* The pages in use by the heap and the stacks after a page was mapped
LEMMA FramesWith ==
  ASSUME NEW v, NEW page, SpaceWith(v, page)
  PROVE  /\ ~ (v > Last32) => Frames' = Frames
         /\ v > Last32 /\ v \notin DOMAIN space => Frames' = Frames \cup {page}
<1>1. \A w \in DOMAIN space' : w \in DOMAIN space \/ w = v
  BY DEF SpaceWith
<1>2. ASSUME ~ (v > Last32) PROVE Frames' = Frames
  BY <1>1, <1>2 DEF SpaceWith, Frames
<1>3. ASSUME v > Last32, v \notin DOMAIN space PROVE Frames' = Frames \cup {page}
  BY <1>1, <1>3 DEF SpaceWith, Frames
<1>. QED
  BY <1>2, <1>3

\* A page whose walk finds nothing was not mapped.
LEMMA NotMapped ==
  ASSUME SpaceInv, TableInv, NEW v \in Page
  PROVE  VirtualPage(table, v) = None <=> v \notin DOMAIN space
<1>1. VirtualPage(table, v) = IF v \in DOMAIN space THEN space[v] ELSE None
  BY DEF TableInv
<1>2. v \in Nat
  BY DEF Page
<1>3. ASSUME v \in DOMAIN space PROVE space[v] \in Nat
  <2>1. CASE v <= Last32
    BY <1>2, <1>3, <2>1 DEF SpaceInv
  <2>2. CASE v > Last32
    <3>1. Usable(mmap, space[v])
      BY <1>3, <2>2 DEF SpaceInv
    <3>2. space[v] \in AllocStart .. MaxPage
      BY ONLY <3>1 DEF Usable
    <3>. QED
      BY <3>2, Sizes
  <2>. QED
    BY <1>2, <2>1, <2>2, Sizes
<1>. QED
  BY <1>1, <1>3 DEF None

\* A page below 4 GiB is mapped to itself.
LEMMA LowMapped ==
  ASSUME SpaceInv, NEW v \in Page, v <= Last32, v \notin DOMAIN space, SpaceWith(v, v),
         UNCHANGED <<mmap, free, dma>>
  PROVE  SpaceInv'
<1>1. ~ (v > Last32)
  BY Sizes DEF Page
<1>2. \A w \in DOMAIN space' : w = v \/ (w \in DOMAIN space /\ space'[w] = space[w])
  BY DEF SpaceWith
<1>3. DOMAIN space' \subseteq Page /\ \A w \in DOMAIN space : w \in DOMAIN space'
  BY DEF SpaceWith, SpaceInv
<1>4. \A w \in DOMAIN space' : w <= Last32 => space'[w] = w
  BY <1>2 DEF SpaceWith, SpaceInv
<1>5. \A w \in DOMAIN space' : w > Last32 => /\ Usable(mmap, space'[w])
                                            /\ space'[w] \notin free /\ space'[w] \notin dma
  BY <1>1, <1>2 DEF SpaceInv
<1>6. \A x, w \in DOMAIN space' : x > Last32 /\ w > Last32 /\ space'[x] = space'[w] => x = w
  BY <1>1, <1>2 DEF SpaceInv
<1>7. \A p \in dma : Usable(mmap, p) /\ p \notin free /\ p <= Last32 /\ p \in DOMAIN space'
  BY <1>3 DEF SpaceInv
<1>. QED
  BY <1>3, <1>4, <1>5, <1>6, <1>7 DEF SpaceInv, Page

\* A page above gets one that was free.
LEMMA HighMapped ==
  ASSUME SpaceInv, NEW v \in Page, v > Last32, v \notin DOMAIN space,
         NEW page \in free, Usable(mmap, page), SpaceWith(v, page),
         free' = free \ {page}, UNCHANGED <<mmap, dma>>
  PROVE  SpaceInv'
<1>1. ~ (v <= Last32)
  BY Sizes DEF Page
<1>2. /\ \A w \in DOMAIN space' : w = v \/ (w \in DOMAIN space /\ space'[w] = space[w])
      /\ space'[v] = page
  BY DEF SpaceWith
<1>3. DOMAIN space' \subseteq Page /\ \A w \in DOMAIN space : w \in DOMAIN space'
  BY DEF SpaceWith, SpaceInv
<1>4. \A w \in DOMAIN space' : w <= Last32 => space'[w] = w
  BY <1>1, <1>2 DEF SpaceInv
<1>5. page \notin dma
  BY DEF SpaceInv
<1>6. \A w \in DOMAIN space' : w > Last32 => /\ Usable(mmap, space'[w])
                                            /\ space'[w] \notin free' /\ space'[w] \notin dma
  BY <1>2, <1>5 DEF SpaceInv
<1>7. \A w \in DOMAIN space : w > Last32 => space[w] # page
  BY DEF SpaceInv
<1>8. \A x, w \in DOMAIN space' : x > Last32 /\ w > Last32 /\ space'[x] = space'[w] => x = w
  BY <1>2, <1>7 DEF SpaceInv
<1>9. \A p \in dma : Usable(mmap, p) /\ p \notin free' /\ p <= Last32 /\ p \in DOMAIN space'
  BY <1>3 DEF SpaceInv
<1>. QED
  BY <1>3, <1>4, <1>6, <1>8, <1>9 DEF SpaceInv, Page

\* The counts when a free page is given out
LEMMA Counted ==
  ASSUME NEW F, IsFiniteSet(F), NEW U, IsFiniteSet(U), NEW page \in F, page \notin U
  PROVE  /\ IsFiniteSet(F \ {page}) /\ IsFiniteSet(U \cup {page})
         /\ Cardinality(F) \in Nat /\ Cardinality(U) \in Nat
         /\ Cardinality(F \ {page}) = Cardinality(F) - 1
         /\ Cardinality(U \cup {page}) = Cardinality(U) + 1
  BY FS_AddElement, FS_RemoveElement, FS_CardinalityType

\* What alloc() does to the stacks
LEMMA AllocStacks ==
  ASSUME Inv, NEW page, page = Alloc, page # 0,
         free' = free \ {page}, mmap' = mmap, stack_64' = Rest(stack_64),
         stack_32' = IF Popped(stack_64) # 0 THEN stack_32 ELSE Rest(stack_32),
         NEW A, A = free \cup Frames \cup dma
  PROVE  /\ page \in free /\ Usable(mmap, page) /\ PoolInv'
         /\ Kept(stack_32', Low, free', A) /\ Kept(stack_64', High, free', A)
<1>1. /\ Stacked(stack_32, Low, free) /\ Stacked(stack_64, High, free)
      /\ Kept(stack_32, Low, free, A) /\ Kept(stack_64, High, free, A)
      /\ \A p \in free : Usable(mmap, p)
  BY ZenonT(60) DEF Inv, PoolInv, CountInv
<1>2. PICK p64 : p64 = Popped(stack_64)
  OBVIOUS
<1>3. PICK p32 : p32 = Popped(stack_32)
  OBVIOUS
<1>4. /\ p64 \in Nat /\ (p64 # 0 => p64 \in free /\ p64 \in High)
      /\ Stacked(stack_64', High, free \ {p64}) /\ Kept(stack_64', High, free \ {p64}, A)
  BY <1>1, <1>2, Pop
<1>5. CASE p64 # 0
  <2>1. page = p64 /\ stack_32' = stack_32
    BY <1>2, <1>5 DEF Alloc
  <2>2. page \notin Low
    BY <1>4, <1>5, <2>1, Sizes DEF Low, High
  <2>3. Stacked(stack_32', Low, free \ {page}) /\ Kept(stack_32', Low, free \ {page}, A)
    BY <1>1, <2>1, <2>2, OtherStack
  <2>4. \A p \in free' : Usable(mmap', p)
    BY <1>1
  <2>5. PoolInv'
    BY <1>4, <2>1, <2>3, <2>4 DEF PoolInv, Low, High
  <2>. QED
    BY <1>1, <1>4, <1>5, <2>1, <2>3, <2>5
<1>6. CASE p64 = 0
  <2>1. page = p32 /\ stack_32' = Rest(stack_32)
    BY <1>2, <1>3, <1>6 DEF Alloc
  <2>2. /\ page \in free /\ page \in Low
        /\ Stacked(stack_32', Low, free \ {page}) /\ Kept(stack_32', Low, free \ {page}, A)
    BY <1>1, <1>3, <2>1, Pop
  <2>3. page \notin High
    BY <2>2, Sizes DEF Low, High
  <2>4. 0 \notin free
    <3>1. \A p \in free : p \in AllocStart .. MaxPage
      BY <1>1 DEF Usable
    <3>. QED
      BY <3>1, Sizes
  <2>5. free \ {p64} = free
    BY <1>6, <2>4
  <2>6. Stacked(stack_64', High, free) /\ Kept(stack_64', High, free, A)
    BY <1>4, <2>5
  <2>7. Stacked(stack_64', High, free \ {page}) /\ Kept(stack_64', High, free \ {page}, A)
    BY <2>3, <2>6, OtherStack
  <2>8. \A p \in free' : Usable(mmap', p)
    BY <1>1
  <2>9. PoolInv'
    BY <2>2, <2>7, <2>8 DEF PoolInv, Low, High
  <2>. QED
    BY <1>1, <2>2, <2>7, <2>9
<1>. QED
  BY <1>5, <1>6

-----------------------------------------------------------------------------
(* Page faults and the two allocators *)

\* A page below 4 GiB is mapped: at boot, by a fault, or when it is cleared.
LEMMA LowStep ==
  ASSUME Inv, NEW v \in Page, v <= Last32, v \notin DOMAIN space, Map(v, v),
         UNCHANGED <<mmap, free, used, available, stack_32, stack_64, dma>>
  PROVE  PoolInv' /\ SpaceInv' /\ TableInv' /\ CountInv' /\ DOMAIN space' = DOMAIN space \cup {v}
<1>1. TableInv' /\ SpaceWith(v, v)
  <2>1. v \in Nat
    BY DEF Page
  <2>. QED
    BY <2>1, Mapped DEF Inv
<1>2. SpaceInv'
  BY <1>1, LowMapped DEF Inv
<1>3. PoolInv'
  BY DEF Inv, PoolInv
<1>4. ~ (v > Last32)
  BY Sizes DEF Page
<1>5. Frames' = Frames
  BY <1>1, <1>4, FramesWith
<1>6. CountInv'
  BY <1>5 DEF Inv, CountInv
<1>. QED
  BY <1>1, <1>2, <1>3, <1>6 DEF SpaceWith

\* A page fault above 4 GiB takes a page that was free, one below maps the page to
\* itself; either way the walk finds it and every earlier page.
LEMMA FaultStep ==
  ASSUME Inv, NEW v \in Page, PageFault(v), UNCHANGED <<mmap, available, dma>>
  PROVE  PoolInv' /\ SpaceInv' /\ TableInv' /\ CountInv'
<1>1. v \notin DOMAIN space
  BY NotMapped DEF PageFault, Inv
<1>2. CASE v <= Last32
  <2>1. Map(v, v) /\ UNCHANGED <<free, used, stack_32, stack_64>>
    BY <1>2 DEF PageFault
  <2>. QED
    BY <1>1, <1>2, <2>1, LowStep, ZenonT(60)
<1>3. CASE ~ (v <= Last32)
  <2>1. PICK page : page = Alloc
    OBVIOUS
  <2>2. /\ page # 0 /\ free' = free \ {page} /\ used' = used + 1
        /\ stack_64' = Rest(stack_64)
        /\ stack_32' = IF Popped(stack_64) # 0 THEN stack_32 ELSE Rest(stack_32)
        /\ Map(v, page)
    BY <1>3, <2>1 DEF PageFault, Take
  <2>3. PICK A : A = free \cup Frames \cup dma
    BY ZenonT(60)
  <2>4. /\ page \in free /\ Usable(mmap, page) /\ PoolInv'
        /\ Kept(stack_32', Low, free', A) /\ Kept(stack_64', High, free', A)
    BY <2>1, <2>2, <2>3, AllocStacks
  <2>5. page \in Nat
    BY <2>4, Sizes DEF Usable
  <2>6. TableInv' /\ SpaceWith(v, page)
    BY <1>1, <2>2, <2>5, Mapped DEF Inv
  <2>7. v > Last32
    BY <1>3, Sizes DEF Page
  <2>8. SpaceInv'
    BY <1>1, <2>2, <2>4, <2>6, <2>7, HighMapped DEF Inv
  <2>9. Frames' = Frames \cup {page}
    BY <1>1, <2>6, <2>7, FramesWith
  <2>10. page \notin Frames
    BY <2>4 DEF Frames, Inv, SpaceInv
  <2>11. CountInv'
    <3>1. /\ IsFiniteSet(free) /\ IsFiniteSet(Frames) /\ IsFiniteSet(dma)
          /\ used = Cardinality(Frames) + Cardinality(dma)
          /\ available = used + Cardinality(free)
      BY DEF Inv, CountInv
    <3>2. /\ IsFiniteSet(free') /\ IsFiniteSet(Frames')
          /\ Cardinality(free) \in Nat /\ Cardinality(Frames) \in Nat
          /\ Cardinality(free') = Cardinality(free) - 1
          /\ Cardinality(Frames') = Cardinality(Frames) + 1
      BY <2>2, <2>4, <2>9, <2>10, <3>1, Counted, ZenonT(60)
    <3>3. Cardinality(dma) \in Nat
      BY <3>1, FS_CardinalityType
    <3>4. used' = Cardinality(Frames') + Cardinality(dma') /\ available' = used' + Cardinality(free')
      BY <2>2, <3>1, <3>2, <3>3
    <3>5. free' \cup Frames' \cup dma' = A
      BY <2>2, <2>3, <2>4, <2>9
    <3>6. Kept(stack_32', Low, free', free' \cup Frames' \cup dma')
      BY <2>4, <3>5
    <3>7. Kept(stack_64', High, free', free' \cup Frames' \cup dma')
      BY <2>4, <3>5
    <3>. QED
      BY <3>1, <3>2, <3>4, <3>6, <3>7 DEF CountInv, Low, High
  <2>. QED
    BY <2>4, <2>6, <2>8, <2>11
<1>. QED
  BY <1>2, <1>3

\* The pages below 4 GiB are virtual pages, too, and so are the heap and the stacks.
LEMMA PageOf ==
  /\ \A v \in 0 .. Last32 : v \in Page
  /\ \A v \in Space : v \in Page
  /\ \A v \in Nat : v < StacksPage + 2 * MaxStacks => v \in Page
<1>1. StacksPage + 2 * MaxStacks <= Fan * Fan * Fan /\ Fan \in Nat
  BY MemoryAssumption
<1>2. PICK F : F = Fan * Fan * Fan
  OBVIOUS
<1>3. F \in Nat /\ Page = 0 .. F - 1 /\ StacksPage + 2 * MaxStacks <= F
  BY <1>1, <1>2 DEF Page
<1>4. Space \subseteq StacksPage + 2 * MaxStacks .. F - 1
  BY <1>2, MemoryAssumption
<1>5. PICK M : M = 2 * MaxStacks
  OBVIOUS
<1>6. M \in Nat
  BY <1>5, Sizes
<1>. QED
  BY <1>3, <1>4, <1>5, <1>6, Sizes

\* Configure maps the pages of the kernel to themselves and takes none.
LEMMA ConfigureStep == Inv /\ Configure => Inv'
<1>. SUFFICES ASSUME Inv, Configure PROVE Inv'
  OBVIOUS
<1>1. /\ phase = "configure" /\ dma = {} /\ cursor \in Nat /\ cursor <= AllocStart
      /\ DOMAIN space = 0 .. cursor - 1
      /\ mmap \in Seq(Zones) /\ zone \in 1 .. Len(mmap) + 1
      /\ nextStack \in Nat /\ nextStack >= StacksPage
  BY DEF Inv, BootInv, Configure
<1>2. UNCHANGED <<mmap, zone, free, stack_32, stack_64, available, used, nextStack, dma>>
  BY DEF Configure
<1>3. CASE cursor < AllocStart
  <2>1. Map(cursor, cursor) /\ cursor' = cursor + 1 /\ phase' = phase
    BY <1>3 DEF Configure
  <2>2. cursor \in 0 .. Last32 /\ cursor <= Last32 /\ cursor \notin DOMAIN space
    BY <1>1, <1>3, Sizes
  <2>3. PoolInv' /\ SpaceInv' /\ TableInv' /\ CountInv' /\ DOMAIN space' = DOMAIN space \cup {cursor}
    BY <1>2, <2>1, <2>2, PageOf, LowStep
  <2>4. DOMAIN space' = 0 .. cursor' - 1 /\ cursor' \in Nat /\ cursor' <= AllocStart
    BY <1>1, <1>3, <2>1, <2>3, Sizes
  <2>5. BootInv'
    BY <1>1, <1>2, <2>1, <2>4 DEF BootInv
  <2>. QED
    BY <2>3, <2>5 DEF Inv
<1>4. CASE ~ (cursor < AllocStart)
  <2>1. phase' = "running" /\ UNCHANGED <<table, space, cursor>>
    BY <1>4 DEF Configure
  <2>2. PoolInv' /\ SpaceInv' /\ TableInv' /\ CountInv'
    BY <1>2, <2>1, Same
  <2>3. BootInv'
    BY <1>1, <1>2, <2>1 DEF BootInv
  <2>. QED
    BY <2>2, <2>3 DEF Inv
<1>. QED
  BY <1>3, <1>4

\* The first use of an address is a page fault.
LEMMA TouchStep ==
  ASSUME Inv, NEW v \in 0 .. Last32 \cup Space, Touch(v)
  PROVE  Inv'
<1>1. v \in Page
  BY PageOf
<1>2. PoolInv' /\ SpaceInv' /\ TableInv' /\ CountInv'
  BY <1>1, FaultStep DEF Touch
<1>3. BootInv'
  BY DEF Inv, BootInv, Touch
<1>. QED
  BY <1>2, <1>3 DEF Inv

\* Clearing a new stack is one too, at an address no stack has had.
LEMMA StackStep == Inv /\ AllocStack => Inv'
<1>. SUFFICES ASSUME Inv, AllocStack PROVE Inv'
  OBVIOUS
<1>1. nextStack \in Nat /\ nextStack >= StacksPage
  BY DEF Inv, BootInv
<1>2. nextStack \in Page
  BY <1>1, PageOf DEF AllocStack
<1>3. PoolInv' /\ SpaceInv' /\ TableInv' /\ CountInv'
  BY <1>2, FaultStep DEF AllocStack
<1>4. nextStack' \in Nat /\ nextStack' >= StacksPage
  BY <1>1, Sizes DEF AllocStack
<1>5. BootInv'
  BY <1>4 DEF Inv, BootInv, AllocStack
<1>. QED
  BY <1>3, <1>5 DEF Inv

\* A page that a device gets
LEMMA DmaGiven ==
  ASSUME SpaceInv, NEW page \in free, page <= Last32, page \in Page, Usable(mmap, page),
         SpaceWith(page, page), free' = free \ {page}, dma' = dma \cup {page}, mmap' = mmap
  PROVE  SpaceInv'
<1>1. ~ (page > Last32)
  BY Sizes DEF Page
<1>2. /\ \A w \in DOMAIN space' : w = page \/ (w \in DOMAIN space /\ space'[w] = space[w])
      /\ page \in DOMAIN space'
  BY DEF SpaceWith
<1>3. DOMAIN space' \subseteq Page /\ \A w \in DOMAIN space : w \in DOMAIN space'
  BY DEF SpaceWith, SpaceInv
<1>4. \A w \in DOMAIN space' : w <= Last32 => space'[w] = w
  BY <1>2 DEF SpaceWith, SpaceInv
<1>5. \A w \in DOMAIN space' : w > Last32 => /\ Usable(mmap, space'[w])
                                            /\ space'[w] \notin free' /\ space'[w] \notin dma'
  BY <1>1, <1>2 DEF SpaceInv
<1>6. \A x, w \in DOMAIN space' : x > Last32 /\ w > Last32 /\ space'[x] = space'[w] => x = w
  BY <1>1, <1>2 DEF SpaceInv
<1>7. \A p \in dma' : Usable(mmap, p) /\ p \notin free' /\ p <= Last32 /\ p \in DOMAIN space'
  BY <1>2, <1>3 DEF SpaceInv
<1>. QED
  BY <1>3, <1>4, <1>5, <1>6, <1>7 DEF SpaceInv, Page

\* A page for DMA leaves the stack below 4 GiB and is mapped to itself.
LEMMA DmaStep == Inv /\ AllocDMA => Inv'
<1>. SUFFICES ASSUME Inv, AllocDMA PROVE Inv'
  OBVIOUS
<1>1. PICK page : page = Popped(stack_32)
  OBVIOUS
<1>2. /\ page # 0 /\ free' = free \ {page} /\ used' = used + 1 /\ stack_32' = Rest(stack_32)
      /\ dma' = dma \cup {page} /\ phase = "running"
      /\ UNCHANGED <<mmap, zone, cursor, stack_64, available, nextStack, phase>>
  BY <1>1 DEF AllocDMA, Take
<1>3. PICK A : A = free \cup Frames \cup dma
  BY ZenonT(60)
<1>4. /\ Stacked(stack_32, Low, free) /\ Stacked(stack_64, High, free)
      /\ Kept(stack_32, Low, free, A) /\ Kept(stack_64, High, free, A)
      /\ \A p \in free : Usable(mmap, p)
  BY <1>3 DEF Inv, PoolInv, CountInv
<1>5. /\ page \in free /\ page \in Low
      /\ Stacked(stack_32', Low, free') /\ Kept(stack_32', Low, free', A)
  BY <1>1, <1>2, <1>4, Pop
<1>6. page \notin High /\ page <= Last32 /\ page \in Nat
  BY <1>5, Sizes DEF Low, High
<1>7. Stacked(stack_64', High, free') /\ Kept(stack_64', High, free', A)
  BY <1>2, <1>4, <1>6, OtherStack
<1>8. PoolInv'
  <2>1. \A p \in free' : Usable(mmap', p)
    BY <1>2, <1>4
  <2>. QED
    BY <1>5, <1>7, <2>1 DEF PoolInv, Low, High
<1>9. page \in Page
  BY <1>5, PageOf DEF Low
<1>10. TableInv' /\ SpaceWith(page, page)
  <2>1. CASE VirtualPage(table, page) = None
    <3>1. Map(page, page)
      BY <1>1, <2>1 DEF AllocDMA
    <3>2. page \notin DOMAIN space
      BY <1>9, <2>1, NotMapped DEF Inv
    <3>. QED
      BY <1>6, <1>9, <3>1, <3>2, Mapped DEF Inv
  <2>2. CASE VirtualPage(table, page) # None
    <3>1. UNCHANGED <<table, space>>
      BY <1>1, <2>2 DEF AllocDMA
    <3>2. page \in DOMAIN space
      BY <1>9, <2>2, NotMapped DEF Inv
    <3>3. space[page] = page
      BY <1>6, <3>2 DEF Inv, SpaceInv
    <3>4. SpaceWith(page, page)
      BY <3>1, <3>2, <3>3 DEF SpaceWith
    <3>5. TableInv'
      BY <3>1 DEF Inv, TableInv
    <3>. QED
      BY <3>4, <3>5
  <2>. QED
    BY <2>1, <2>2
<1>11. SpaceInv'
  BY <1>2, <1>4, <1>5, <1>6, <1>9, <1>10, DmaGiven DEF Inv
<1>12. Frames' = Frames
  <2>1. ~ (page > Last32)
    BY <1>6, Sizes
  <2>. QED
    BY <1>10, <2>1, FramesWith
<1>13. page \notin dma
  BY <1>5 DEF Inv, SpaceInv
<1>14. CountInv'
  <2>1. /\ IsFiniteSet(free) /\ IsFiniteSet(Frames) /\ IsFiniteSet(dma)
        /\ used = Cardinality(Frames) + Cardinality(dma)
        /\ available = used + Cardinality(free)
    BY DEF Inv, CountInv
  <2>2. /\ IsFiniteSet(free') /\ IsFiniteSet(dma')
        /\ Cardinality(free) \in Nat /\ Cardinality(dma) \in Nat
        /\ Cardinality(free') = Cardinality(free) - 1
        /\ Cardinality(dma') = Cardinality(dma) + 1
    BY <1>2, <1>5, <1>13, <2>1, Counted, ZenonT(60)
  <2>3. Cardinality(Frames) \in Nat
    BY <2>1, FS_CardinalityType
  <2>4. used' = Cardinality(Frames') + Cardinality(dma') /\ available' = used' + Cardinality(free')
    BY <1>2, <1>12, <2>1, <2>2, <2>3
  <2>5. free' \cup Frames' \cup dma' = A
    BY <1>2, <1>3, <1>5, <1>12
  <2>6. Kept(stack_32', Low, free', free' \cup Frames' \cup dma')
    BY <1>5, <2>5
  <2>7. Kept(stack_64', High, free', free' \cup Frames' \cup dma')
    BY <1>7, <2>5
  <2>. QED
    BY <1>12, <2>1, <2>2, <2>4, <2>6, <2>7 DEF CountInv, Low, High
<1>15. BootInv'
  BY <1>2 DEF Inv, BootInv
<1>. QED
  BY <1>8, <1>10, <1>11, <1>14, <1>15 DEF Inv

\* One step for each action
LEMMA NextInv == Inv /\ [Next]_vars => Inv'
<1>. SUFFICES ASSUME Inv, [Next]_vars PROVE Inv'
  OBVIOUS
<1>1. CASE NextAvailableMemory
  BY <1>1, ZoneStep
<1>2. CASE InsertPage
  BY <1>2, InsertStep
<1>3. CASE RangeInserted \/ TooLittleMemory \/ InitSubsystems \/ OutOfMemory
  BY <1>3, PhaseSteps
<1>4. CASE Configure
  BY <1>4, ConfigureStep
<1>5. CASE \E v \in 0 .. Last32 \cup Space : Touch(v)
  BY <1>5, TouchStep
<1>6. CASE AllocStack
  BY <1>6, StackStep
<1>7. CASE AllocDMA
  BY <1>7, DmaStep
<1>8. CASE UNCHANGED vars
  <2>1. PoolInv' /\ SpaceInv' /\ TableInv' /\ CountInv'
    BY <1>8, Same DEF vars
  <2>2. BootInv'
    BY <1>8 DEF Inv, BootInv, vars
  <2>. QED
    BY <2>1, <2>2 DEF Inv
<1>. QED
  BY <1>1, <1>2, <1>3, <1>4, <1>5, <1>6, <1>7, <1>8 DEF Next

\* The inductive invariant holds in every reachable state.
LEMMA Invariance == Spec => []Inv
  BY InitInv, NextInv, PTL DEF Spec

-----------------------------------------------------------------------------
(* What the invariant says *)

\* No page of memory has two users.
LEMMA Exclusive == Inv => PagesExclusive
<1>. SUFFICES ASSUME Inv PROVE PagesExclusive
  OBVIOUS
<1>1. \A v, w \in DOMAIN space : v > Last32 /\ w > Last32 /\ v # w => space[v] # space[w]
  BY DEF Inv, SpaceInv
<1>2. Frames \cap dma = {}
  BY DEF Inv, SpaceInv, Frames
<1>. QED
  BY <1>1, <1>2 DEF PagesExclusive

\* Every page given out lies in a usable zone.
LEMMA UsableGiven == Inv => UsableOnly
<1>. SUFFICES ASSUME Inv, NEW p \in Frames \cup dma
              PROVE  /\ p >= AllocStart
                     /\ \E z \in Range(mmap) : z.type = 1 /\ z.base <= p * PageSize
                                               /\ (p + 1) * PageSize <= z.base + z.length
  BY DEF UsableOnly
<1>1. Usable(mmap, p)
  BY DEF Inv, SpaceInv, Frames
<1>2. p >= AllocStart
  BY ONLY <1>1, Sizes DEF Usable
<1>. QED
  BY ONLY <1>1, <1>2, SMTT(60) DEF Usable

\* The counters are exact and no page is forgotten but at a full stack.
LEMMA Accounted == Inv => PagesAccounted
  BY DEF Inv, CountInv, PagesAccounted, Kept, KeptUnlessFull, Low, High

\* The tables hold exactly the pages that were mapped.
LEMMA Agrees == Inv => WalkAgrees
<1>. SUFFICES ASSUME Inv PROVE WalkAgrees
  OBVIOUS
<1>1. /\ DOMAIN space \subseteq Page
      /\ \A v \in Page : VirtualPage(table, v) = IF v \in DOMAIN space THEN space[v] ELSE None
      /\ \A p \in dma : p \in DOMAIN space /\ space[p] = p
  BY DEF Inv, SpaceInv, TableInv
<1>. QED
  BY <1>1 DEF WalkAgrees, Page

\* For every memory map, however its zones overlap, and for stacks and tables of
\* every size: page faults, thread stacks and DMA never share a page.
THEOREM PagesNotShared == Spec => []PagesExclusive
  BY Invariance, Exclusive, PTL

\* What they get is memory of one usable zone, above the kernel's.
THEOREM OnlyUsableGiven == Spec => []UsableOnly
  BY Invariance, UsableGiven, PTL

\* The counters of pages are exact, and a page is neither used nor on its stack only
\* if the stack was full.
THEOREM CountersExact == Spec => []PagesAccounted
  BY Invariance, Accounted, PTL

\* The walk through the page tables finds what every fault decided and nothing
\* else, however the tables were made.
THEOREM WalkFinds == Spec => []WalkAgrees
  BY Invariance, Agrees, PTL

-----------------------------------------------------------------------------
(* bufferAddress *)

\* The address that VirtualToPhysical gives for a byte of a mapped page
LEMMA PhysicalIs ==
  ASSUME Inv, NEW v \in DOMAIN space, NEW o \in 0 .. PageSize - 1
  PROVE  /\ v \in Nat /\ space[v] \in Nat
         /\ (v * PageSize + o) \div PageSize = v
         /\ Physical(v * PageSize + o) = space[v] * PageSize + o
<1>1. v \in Page /\ v \in Nat
  BY DEF Inv, SpaceInv, Page
<1>2. space[v] \in Nat
  <2>1. CASE v <= Last32
    BY <1>1, <2>1 DEF Inv, SpaceInv
  <2>2. CASE v > Last32
    <3>1. Usable(mmap, space[v])
      BY <2>2 DEF Inv, SpaceInv
    <3>2. space[v] \in AllocStart .. MaxPage
      BY ONLY <3>1 DEF Usable
    <3>. QED
      BY <3>2, Sizes
  <2>. QED
    BY <1>1, <2>1, <2>2, Sizes
<1>3. VirtualPage(table, v) = space[v]
  BY <1>1 DEF Inv, TableInv
<1>4. (v * PageSize + o) \div PageSize = v /\ (v * PageSize + o) % PageSize = o
  BY <1>1, Sizes, Recombined
<1>5. space[v] # None
  BY <1>2 DEF None
<1>. QED
  BY <1>1, <1>2, <1>3, <1>4, <1>5 DEF Physical

\* The bytes of a run are a sequence.
LEMMA BytesType ==
  ASSUME NEW r, r.from \in Int, r.len \in Nat
  PROVE  /\ Bytes(r) \in Seq(Int) /\ Len(Bytes(r)) = r.len
         /\ \A i \in 1 .. r.len : Bytes(r)[i] = r.from + i - 1
  BY DEF Bytes

\* An empty run has no bytes.
LEMMA BytesNone ==
  ASSUME NEW r, r.len = 0
  PROVE  Bytes(r) = <<>>
  BY DEF Bytes

\* g is a sequence of length n.
Listed(g, n) == g = [i \in 1 .. n |-> g[i]]

\* The bytes of g from position k on are at x, x + 1 and so on.
RunAt(g, k, n, x) == \A i \in 1 .. n : g[k + i] = x + i - 1

\* The run r is n bytes long and begins at x.
IsRun(r, x, n) == r.from = x /\ r.len = n

\* One run is the bytes of the buffer.
LEMMA OneRun ==
  ASSUME NEW n \in Nat, NEW g, NEW x \in Int, NEW r, IsRun(r, x, n), NEW e, e.len = 0,
         RunAt(g, 0, n, x), Listed(g, n)
  PROVE  Bytes(r) \o Bytes(e) = g
<1>1. Bytes(r) \in Seq(Int) /\ Bytes(e) = <<>>
  BY BytesType, BytesNone DEF IsRun
<1>2. Bytes(r) \o Bytes(e) = Bytes(r)
  BY <1>1
<1>3. \A i \in 1 .. n : g[i] = x + i - 1
  BY DEF RunAt
<1>4. Bytes(r) = g
  BY <1>3 DEF Bytes, Listed, IsRun
<1>. QED
  BY <1>2, <1>4

\* Two runs are.
LEMMA TwoRuns ==
  ASSUME NEW n \in Nat, NEW m \in Nat, NEW g, NEW x \in Int, NEW y \in Int,
         NEW r, IsRun(r, x, n), NEW q, IsRun(q, y, m),
         RunAt(g, 0, n, x), RunAt(g, n, m, y), Listed(g, n + m)
  PROVE  Bytes(r) \o Bytes(q) = g
<1>b. PICK b : b = Bytes(r)
  OBVIOUS
<1>d. PICK d : d = Bytes(q)
  OBVIOUS
<1>1. /\ b \in Seq(Int) /\ Len(b) = n /\ \A i \in 1 .. n : b[i] = x + i - 1
      /\ d \in Seq(Int) /\ Len(d) = m /\ \A i \in 1 .. m : d[i] = y + i - 1
  BY <1>b, <1>d, BytesType, ZenonT(60) DEF IsRun
<1>2. PICK c : c = b \o d
  BY ZenonT(60)
<1>3. /\ c \in Seq(Int) /\ Len(c) = n + m
      /\ \A i \in 1 .. n + m : c[i] = IF i <= n THEN b[i] ELSE d[i - n]
  <2>1. c \in Seq(Int)
    BY ONLY <1>1, <1>2
  <2>2. Len(c) = n + m
    BY ONLY <1>1, <1>2
  <2>3. \A i \in 1 .. Len(b) + Len(d) : c[i] = IF i <= Len(b) THEN b[i] ELSE d[i - Len(b)]
    BY ONLY <1>1, <1>2, SMTT(60)
  <2>. QED
    BY ONLY <1>1, <2>1, <2>2, <2>3
<1>4. ASSUME NEW i \in 1 .. n + m PROVE c[i] = g[i]
  <2>1. CASE i <= n
    <3>1. i \in 1 .. n
      BY ONLY <2>1, i \in 1 .. n + m, n \in Nat, m \in Nat, SMTT(60)
    <3>2. c[i] = b[i]
      BY ONLY <1>3, <2>1, i \in 1 .. n + m, SMTT(60)
    <3>. QED
      BY <1>1, <3>1, <3>2 DEF RunAt
  <2>2. CASE ~ (i <= n)
    <3>1. PICK k \in 1 .. m : i = n + k
      <4>1. i - n \in 1 .. m /\ i = n + (i - n)
        BY <2>2
      <4>. QED
        BY <4>1
    <3>2. i - n = k
      BY <3>1
    <3>3. c[i] = d[k]
      BY ONLY <1>3, <2>2, <3>2, i \in 1 .. n + m
    <3>4. g[i] = y + k - 1
      BY <3>1 DEF RunAt
    <3>. QED
      BY <1>1, <3>3, <3>4
  <2>. QED
    BY <2>1, <2>2
<1>5. c = [i \in 1 .. n + m |-> c[i]]
  BY ONLY <1>3
<1>6. c = g
  BY <1>4, <1>5 DEF Listed
<1>. QED
  BY <1>b, <1>d, <1>2, <1>6

\* The boundary that the code computes: the start of the page that the byte behind
\* the buffer is in
LEMMA BoundaryIs ==
  ASSUME NEW P \in Nat \ {0}, P = PageSize, NEW page \in Nat, NEW o \in 0 .. P - 1, NEW length \in 1 .. P
  PROVE  /\ o + length < P => PBoundary(page * P + o, length) = page * P
         /\ o + length >= P => PBoundary(page * P + o, length) = page * P + P
<1>1. PICK X : X = page * P
  OBVIOUS
<1>2. X \in Nat
  BY <1>1
<1>3. ASSUME o + length < P PROVE PBoundary(page * P + o, length) = page * P
  <2>1. page * P + o + length = page * P + (o + length)
    BY <1>1, <1>2
  <2>2. o + length \in 0 .. P - 1
    BY <1>3
  <2>3. (page * P + (o + length)) \div P = page
    BY <2>2, Recombined
  <2>. QED
    BY <2>1, <2>3 DEF PBoundary
<1>4. ASSUME o + length >= P PROVE PBoundary(page * P + o, length) = page * P + P
  <2>1. PICK k : k = o + length - P
    OBVIOUS
  <2>2. k \in 0 .. P - 1 /\ o + length = P + k
    BY <1>4, <2>1
  <2>3. (page + 1) * P = page * P + P /\ page + 1 \in Nat
    OBVIOUS
  <2>4. page * P + o + length = (page + 1) * P + k
    BY <1>1, <1>2, <2>2, <2>3
  <2>5. ((page + 1) * P + k) \div P = page + 1
    BY <2>2, <2>3, Recombined
  <2>. QED
    BY <2>3, <2>4, <2>5 DEF PBoundary
<1>. QED
  BY <1>3, <1>4

\* Whichever side of the page boundary the buffer ends on, its runs are its bytes.
LEMMA BufferExact == Inv => BufferSegmentsExact
<1>. SUFFICES ASSUME Inv, NEW v \in DOMAIN space, NEW o \in 0 .. PageSize - 1, NEW length \in 1 .. PageSize,
                     (v * PageSize + o + length - 1) \div PageSize \in DOMAIN space
              PROVE  Bytes(BufferAddress(v * PageSize + o, length)[1])
                       \o Bytes(BufferAddress(v * PageSize + o, length)[2])
                     = [i \in 1 .. length |-> Physical(v * PageSize + o + i - 1)]
  BY ZenonT(60) DEF BufferSegmentsExact
<1>P. PICK P : P = PageSize
  OBVIOUS
<1>a. PICK a : a = v * P + o
  OBVIOUS
<1>g. PICK g : g = [i \in 1 .. length |-> Physical(a + i - 1)]
  BY ZenonT(60)
<1>s. PICK s : s = BufferAddress(a, length)
  OBVIOUS
<1>0. SUFFICES Bytes(s[1]) \o Bytes(s[2]) = g
  BY <1>P, <1>a, <1>g, <1>s, ZenonT(60)
<1>1. P \in Nat \ {0} /\ o \in 0 .. P - 1 /\ length \in 1 .. P /\ length \in Nat
  BY <1>P, Sizes
<1>2. v \in Nat /\ space[v] \in Nat
  BY PhysicalIs
<1>3. PICK V : V = v * P
  OBVIOUS
<1>4. PICK X : X = space[v] * P
  OBVIOUS
<1>5. V \in Nat /\ X \in Nat /\ a = V + o
  BY <1>a, <1>1, <1>2, <1>3, <1>4
<1>6. ASSUME NEW k \in 0 .. P - 1 PROVE Physical(V + k) = X + k
  BY <1>P, <1>3, <1>4, PhysicalIs
<1>7. Physical(a) = X + o
  BY <1>1, <1>5, <1>6
<1>8. Listed(g, length) /\ \A i \in 1 .. length : g[i] = Physical(a + i - 1)
  BY ONLY <1>g DEF Listed
<1>9. CASE o + length < P
  <2>1. PBoundary(Physical(a), length) = X
    <3>1. PBoundary(space[v] * P + o, length) = space[v] * P
      BY ONLY <1>P, <1>1, <1>2, <1>9, BoundaryIs, ZenonT(60)
    <3>. QED
      BY ONLY <1>4, <1>7, <3>1
  <2>2. ~ (X - (X + o) > 0)
    BY <1>1, <1>5
  <2>3. s = <<[from |-> X + o, len |-> length], [from |-> 0, len |-> 0]>>
    BY <1>s, <1>7, <2>1, <2>2 DEF BufferAddress
  <2>4. IsRun(s[1], X + o, length) /\ s[2].len = 0
    BY ONLY <2>3 DEF IsRun
  <2>5. ASSUME NEW i \in 1 .. length PROVE g[i] = (X + o) + i - 1
    <3>1. o + i - 1 \in 0 .. P - 1 /\ a + i - 1 = V + (o + i - 1) /\ X + (o + i - 1) = (X + o) + i - 1
      BY <1>1, <1>5, <1>9
    <3>. QED
      BY <1>6, <1>8, <3>1
  <2>6. X + o \in Int
    BY <1>1, <1>5
  <2>7. RunAt(g, 0, length, X + o)
    BY <2>5 DEF RunAt
  <2>. QED
    BY ONLY <1>1, <1>8, <2>4, <2>6, <2>7, OneRun, SMTT(60)
<1>10. CASE o + length >= P
  <2>1. PBoundary(Physical(a), length) = X + P
    <3>1. PBoundary(space[v] * P + o, length) = space[v] * P + P
      BY ONLY <1>P, <1>1, <1>2, <1>10, BoundaryIs, ZenonT(60)
    <3>. QED
      BY ONLY <1>4, <1>7, <3>1
  <2>2. PICK n : n = P - o
    OBVIOUS
  <2>3. PICK m : m = length - n
    OBVIOUS
  <2>4. n \in Nat /\ n > 0 /\ m \in Nat /\ length = n + m /\ (X + P) - (X + o) = n /\ m <= P - 1
    BY <1>1, <1>5, <1>10, <2>2, <2>3
  <2>5. PICK y : y = Physical(a + n)
    OBVIOUS
  <2>6. s = <<[from |-> X + o, len |-> n], [from |-> y, len |-> m]>>
    BY <1>s, <1>7, <2>1, <2>3, <2>4, <2>5 DEF BufferAddress
  <2>7. IsRun(s[1], X + o, n) /\ IsRun(s[2], y, m) /\ s[2].len = m
    BY ONLY <2>6, SMTT(60) DEF IsRun
  <2>8. ASSUME NEW i \in 1 .. n PROVE g[i] = (X + o) + i - 1
    <3>1. /\ o + i - 1 \in 0 .. P - 1 /\ a + i - 1 = V + (o + i - 1) /\ X + (o + i - 1) = (X + o) + i - 1
          /\ i \in 1 .. length
      BY <1>1, <1>5, <2>2, <2>4
    <3>. QED
      BY <1>6, <1>8, <3>1
  <2>9. X + o \in Int /\ RunAt(g, 0, n, X + o)
    BY <1>1, <1>5, <2>8 DEF RunAt
  <2>10. CASE m = 0
    <3>1. length = n
      BY <2>4, <2>10
    <3>. QED
      BY ONLY <1>8, <2>4, <2>7, <2>9, <2>10, <3>1, OneRun, SMTT(60)
  <2>11. CASE m # 0
    <3>1. (v + 1) * P = V + P /\ v + 1 \in Nat
      BY <1>1, <1>2, <1>3
    <3>2. a + length - 1 = (v + 1) * P + (m - 1) /\ m - 1 \in 0 .. P - 1
      BY <1>1, <1>5, <2>2, <2>3, <2>4, <2>11, <3>1
    <3>3. ((v + 1) * P + (m - 1)) \div P = v + 1
      BY <1>1, <3>1, <3>2, Recombined
    <3>4. v + 1 \in DOMAIN space
      BY <1>P, <1>a, <3>2, <3>3
    <3>5. PICK Y : Y = space[v + 1] * P
      OBVIOUS
    <3>6. space[v + 1] \in Nat
      BY <3>4, PhysicalIs, <1>P, <1>1
    <3>7. Y \in Nat
      BY <1>1, <3>5, <3>6
    <3>8. ASSUME NEW k \in 0 .. P - 1 PROVE Physical((v + 1) * P + k) = Y + k
      BY <1>P, <3>4, <3>5, PhysicalIs
    <3>9. y = Y
      <4>1. a + n = (v + 1) * P + 0 /\ 0 \in 0 .. P - 1
        BY <1>1, <1>5, <2>2, <3>1
      <4>. QED
        BY <2>5, <3>7, <3>8, <4>1
    <3>10. ASSUME NEW i \in 1 .. m PROVE g[n + i] = y + i - 1
      <4>1. /\ a + (n + i) - 1 = (v + 1) * P + (i - 1) /\ i - 1 \in 0 .. P - 1 /\ Y + (i - 1) = Y + i - 1
            /\ n + i \in 1 .. length
        BY <1>1, <1>5, <2>2, <2>4, <3>1, <3>7
      <4>. QED
        BY <1>8, <3>8, <3>9, <4>1
    <3>11. y \in Int
      BY <3>7, <3>9
    <3>12. Listed(g, n + m) /\ RunAt(g, n, m, y)
      BY <1>8, <2>4, <3>10 DEF RunAt
    <3>. QED
      BY ONLY <2>4, <2>7, <2>9, <3>11, <3>12, TwoRuns, SMTT(60)
  <2>. QED
    BY <2>10, <2>11
<1>. QED
  BY <1>1, <1>9, <1>10

\* For pages of every size, a buffer of at most a page: the runs that
\* bufferAddress gives are the bytes of the buffer, in order, wherever it lies and
\* whichever pages the faults took.
THEOREM BuffersExact == Spec => []BufferSegmentsExact
  BY Invariance, BufferExact, PTL
=============================================================================
