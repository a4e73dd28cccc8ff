----------------------------- MODULE NetProofs ------------------------------
(***************************************************************************)
(* The port allocator, its inductive invariant and the abstract port table *)
(* it implements; then that UDP sockets and the allocator agree on who has *)
(* which port, for every set of sockets and every range of ports.  This    *)
(* part sees the allocator only through what the first says a call does to *)
(* lookup: Granted, Released or Untouched.                                 *)
(*                                                                         *)
(* Then the reassembly of datagrams, for every set of datagrams, every     *)
(* length of them and every number of queues.  The two loops of            *)
(* addFragment are recursive functions; that each meets its equation is    *)
(* proved first, and then what its rounds preserve.                        *)
(***************************************************************************)
EXTENDS UdpSocket, Ip4Fragments, SequenceLemmas

\* The time a leaf may take, and a second attempt with more
USE SMTT(30), SMTT(60)

-----------------------------------------------------------------------------
(* Lines 75-102: the new fragment is cut *)

\* The largest end of a fragment, as a number
LEMMA MaxEndType == MaxEnd \in Nat
  BY SMT DEF MaxEnd

\* g has the new fragment after each of the first n rounds.
IsTrim(g, new, fragments, n) ==
  /\ g = [i \in 0 .. n |-> g[i]]
  /\ g[0] = new
  /\ \A i \in 1 .. n : g[i] = Trim(g[i - 1], fragments[i])

\* One round more of the loop of lines 75-102
LEMMA TrimExtends ==
  ASSUME NEW new, NEW fragments, NEW n \in Nat, NEW g, IsTrim(g, new, fragments, n)
  PROVE  \E h : IsTrim(h, new, fragments, n + 1)
<1>. DEFINE h == [i \in 0 .. n + 1 |-> IF i <= n THEN g[i] ELSE Trim(g[n], fragments[n + 1])]
<1>1. h = [i \in 0 .. n + 1 |-> h[i]]
  OBVIOUS
<1>2. h[0] = new
  BY DEF IsTrim
<1>3. ASSUME NEW i \in 1 .. n + 1 PROVE h[i] = Trim(h[i - 1], fragments[i])
  <2>1. CASE i \in 1 .. n
    <3>1. h[i] = g[i] /\ h[i - 1] = g[i - 1]
      BY <2>1
    <3>. QED
      BY <2>1, <3>1, ZenonT(60) DEF IsTrim
  <2>2. CASE i = n + 1
    <3>1. h[i] = Trim(g[n], fragments[n + 1]) /\ h[i - 1] = g[n]
      BY <2>2
    <3>. QED
      BY <2>2, <3>1
  <2>. QED
    BY <2>1, <2>2
<1>. HIDE DEF h
<1>. QED
  BY <1>1, <1>2, <1>3, ZenonT(60) DEF IsTrim

\* The rounds of that loop exist, however many fragments there are.
LEMMA TrimExists ==
  ASSUME NEW new, NEW fragments, NEW n \in Nat
  PROVE  \E g : IsTrim(g, new, fragments, n)
<1>. DEFINE T == {m \in Nat : ~ \E g : IsTrim(g, new, fragments, m)}
<1>. SUFFICES ASSUME T # {} PROVE FALSE
  OBVIOUS
<1>1. PICK m \in T : \A k \in T : m <= k
  BY LeastOf, ZenonT(60)
<1>2. m # 0
  <2>. DEFINE g == [i \in 0 .. 0 |-> new]
  <2>1. IsTrim(g, new, fragments, 0)
    BY DEF IsTrim
  <2>. QED
    BY <2>1
<1>3. m - 1 \in Nat /\ m - 1 \notin T
  BY <1>1, <1>2
<1>4. PICK g : IsTrim(g, new, fragments, m - 1)
  BY <1>3
<1>5. \E h : IsTrim(h, new, fragments, (m - 1) + 1)
  BY <1>3, <1>4, TrimExtends
<1>6. (m - 1) + 1 = m
  BY <1>3
<1>. QED
  BY <1>1, <1>5, <1>6

\* The recursive function of TrimRounds meets its equation.
LEMMA TrimLoop ==
  ASSUME NEW new, NEW fragments, Len(fragments) \in Nat
  PROVE  IsTrim(TrimRounds(new, fragments), new, fragments, Len(fragments))
<1>. DEFINE n == Len(fragments)
            after == TrimRounds(new, fragments)
            Body(g) == [i \in 0 .. n |-> IF i = 0 THEN new ELSE Trim(g[i - 1], fragments[i])]
<1>1. PICK g : IsTrim(g, new, fragments, n)
  BY TrimExists, ZenonT(60)
<1>2. g = Body(g)
  BY <1>1 DEF IsTrim
<1>3. after = CHOOSE h : h = Body(h)
  BY DEF TrimRounds
<1>4. after = Body(after)
  BY <1>2, <1>3
<1>. QED
  BY <1>4 DEF IsTrim

-----------------------------------------------------------------------------
\* A fragment that covers something
Real(f) == f \in Fragment /\ 0 <= f.begin /\ 0 < f.len /\ End(f) <= MaxEnd

\* The limits of a fragment are numbers.
LEMMA RealType ==
  ASSUME NEW f, Real(f)
  PROVE  f.begin \in Int /\ End(f) \in Int
  BY DEF Real, Fragment, End

\* Two fragments have no unit in common.
Apart(f, g) == End(f) <= g.begin \/ End(g) <= f.begin

Piece(new) == new \in Part /\ 0 <= new.offset /\ new.offset < new.end

\* A fragment is beside the new one, or within it.
Settled(new, f) ==
  \/ End(f) <= new.offset \/ new.end <= f.begin
  \/ new.offset <= f.begin /\ End(f) <= new.end

\* t is a part of new.
PartOf(t, new) ==
  /\ Piece(t) /\ new.offset <= t.offset /\ t.end <= new.end
  /\ t.next - t.offset = new.next - new.offset

\* A round cuts the new fragment so that it is beside the fragment of the round,
\* or around it, and undoes this for no other fragment (lines 75-102).
LEMMA TrimStep ==
  ASSUME NEW new, Piece(new), NEW f, Real(f), NEW t, t = Trim(new, f), t # NONE
  PROVE  /\ PartOf(t, new) /\ Settled(t, f)
         /\ \A g : Real(g) /\ Apart(f, g) /\ Settled(new, g) => Settled(t, g)
<1>1. f # NONE /\ new # NONE
  BY NullAssumption DEF Real, Piece
<1>2. PICK b \in Int, e \in Int, o \in Int, n \in Int, x \in Int :
        /\ b = f.begin /\ e = End(f) /\ o = new.offset /\ n = new.end /\ x = new.next
        /\ 0 <= b /\ b < e /\ 0 <= o /\ o < n
  BY DEF Real, Piece, End, Fragment, Part
<1>3. /\ t \in Part
      /\ ~ (o >= b /\ o <= e /\ n >= b /\ n <= e)
      /\ t.offset = IF o >= b /\ o < e THEN e ELSE o
      /\ t.next = IF o >= b /\ o < e THEN x + (e - o) ELSE x
      /\ t.end = IF n > b /\ n <= e THEN b ELSE n
  <2>. DEFINE front == IF o >= b /\ o <= e /\ o < e THEN CutFront(new, e) ELSE new
  <2>1. /\ front \in Part /\ front.end = n
        /\ front.offset = IF o >= b /\ o < e THEN e ELSE o
        /\ front.next = IF o >= b /\ o < e THEN x + (e - o) ELSE x
    <3>1. new \in Part
      BY DEF Piece
    <3>2. CASE o >= b /\ o < e
      <4>1. front = CutFront(new, e)
        BY <1>2, <3>2
      <4>2. CutFront(new, e) = [offset |-> e, end |-> n, next |-> x + (e - o)]
        <5>1. new = [offset |-> o, end |-> n, next |-> x]
          BY <1>2, <3>1 DEF Part
        <5>2. CutFront(new, e) = [new EXCEPT !.offset = e, !.next = x + (e - o)]
          BY ONLY <1>2, <5>1 DEF CutFront
        <5>. QED
          BY ONLY <5>1, <5>2, ZenonT(60)
      <4>. HIDE DEF front
      <4>. QED
        BY <3>2, <4>1, <4>2 DEF Part
    <3>3. CASE ~ (o >= b /\ o < e)
      <4>1. front = new
        BY <1>2, <3>3
      <4>. HIDE DEF front
      <4>. QED
        BY <1>2, <3>1, <3>3, <4>1
    <3>. QED
      BY <3>2, <3>3
  <2>2. /\ ~ (o >= b /\ o <= e /\ n >= b /\ n <= e)
        /\ t = IF n >= b /\ n <= e /\ n > b THEN [front EXCEPT !.end = b] ELSE front
    BY <1>1, <1>2 DEF Trim
  <2>. HIDE DEF front
  <2>. QED
    BY <1>2, <2>1, <2>2 DEF Part
<1>4. PartOf(t, new) /\ Settled(t, f)
  BY <1>2, <1>3 DEF PartOf, Piece, Settled
<1>5. ASSUME NEW g, Real(g), Apart(f, g), Settled(new, g)
      PROVE  Settled(t, g)
  <2>1. PICK gb \in Int, ge \in Int : gb = g.begin /\ ge = End(g) /\ gb < ge
    BY <1>5 DEF Real, End, Fragment
  <2>. QED
    BY <1>2, <1>3, <1>5, <2>1 DEF Apart, Settled
<1>. QED
  BY <1>4, <1>5

Fragments == Seq(Fragment \cup {NONE})

\* The fragments of a queue are apart.
AllApart(fs) ==
  /\ \A i \in DOMAIN fs : fs[i] # NONE => Real(fs[i])
  /\ \A i, j \in DOMAIN fs : i # j /\ fs[i] # NONE /\ fs[j] # NONE => Apart(fs[i], fs[j])

\* What the loop over the fragments up to the n-th has made of the new one
TrimmedTo(t, new, fs, n) ==
  t # NONE => /\ PartOf(t, new)
              /\ \A k \in 1 .. n : fs[k] # NONE => Settled(t, fs[k])

\* The round after the n-th one settles the next fragment too.
LEMMA TrimInvariant ==
  ASSUME NEW new, Piece(new), NEW fs \in Fragments, AllApart(fs),
         NEW n \in Nat, n < Len(fs), NEW t, TrimmedTo(t, new, fs, n)
  PROVE  TrimmedTo(Trim(t, fs[n + 1]), new, fs, n + 1)
<1>. DEFINE f == fs[n + 1]
            u == Trim(t, f)
<1>1. Len(fs) \in Nat /\ DOMAIN fs = 1 .. Len(fs) /\ n + 1 \in DOMAIN fs
  BY DEF Fragments
<1>2. CASE t = NONE
  BY <1>2 DEF Trim, TrimmedTo
<1>3. CASE t # NONE /\ f = NONE
  <2>1. u = t
    BY <1>3 DEF Trim
  <2>2. \A k \in 1 .. n + 1 : k \in 1 .. n \/ k = n + 1
    OBVIOUS
  <2>. HIDE DEF u
  <2>. QED
    BY <1>3, <2>1, <2>2 DEF TrimmedTo, u
<1>4. CASE t # NONE /\ f # NONE
  <2>1. Piece(t) /\ PartOf(t, new) /\ Real(f)
    BY <1>1, <1>4 DEF TrimmedTo, PartOf, AllApart
  <2>. SUFFICES ASSUME u # NONE
                PROVE  /\ PartOf(u, new)
                       /\ \A k \in 1 .. n + 1 : fs[k] # NONE => Settled(u, fs[k])
    BY DEF TrimmedTo
  <2>2. /\ PartOf(u, t) /\ Settled(u, f)
        /\ \A g : Real(g) /\ Apart(f, g) /\ Settled(t, g) => Settled(u, g)
    BY <2>1, TrimStep
  <2>. HIDE DEF u
  <2>3. PartOf(u, new)
    <3>1. /\ u.offset \in Int /\ u.end \in Int /\ u.next \in Int
          /\ t.offset \in Int /\ t.end \in Int /\ t.next \in Int
          /\ new.offset \in Int /\ new.end \in Int /\ new.next \in Int
      BY <2>1, <2>2 DEF PartOf, Piece, Part
    <3>. QED
      BY ONLY <2>1, <2>2, <3>1 DEF PartOf
  <2>4. ASSUME NEW k \in 1 .. n + 1, fs[k] # NONE PROVE Settled(u, fs[k])
    <3>1. CASE k = n + 1
      BY <2>2, <3>1
    <3>2. CASE k \in 1 .. n
      <4>1. k \in DOMAIN fs /\ k # n + 1
        BY <1>1, <3>2
      <4>2. Real(fs[k]) /\ Apart(f, fs[k]) /\ Settled(t, fs[k])
        BY <1>1, <1>4, <2>4, <3>2, <4>1 DEF AllApart, TrimmedTo
      <4>. QED
        BY <2>2, <4>2
    <3>. QED
      BY <3>1, <3>2
  <2>. QED
    BY <2>3, <2>4
<1>. QED
  BY <1>2, <1>3, <1>4

\* After the loop the new fragment is beside or around every fragment.
LEMMA TrimmedAll ==
  ASSUME NEW new, Piece(new), NEW fs \in Fragments, AllApart(fs)
  PROVE  TrimmedTo(TrimRounds(new, fs)[Len(fs)], new, fs, Len(fs))
<1>. DEFINE after == TrimRounds(new, fs)
            T == {m \in Nat : m <= Len(fs) /\ ~ TrimmedTo(after[m], new, fs, m)}
<1>1. Len(fs) \in Nat
  BY DEF Fragments
<1>2. IsTrim(after, new, fs, Len(fs))
  BY <1>1, TrimLoop
<1>. HIDE DEF after
<1>. SUFFICES ASSUME T # {} PROVE FALSE
  BY <1>1 DEF after
<1>3. PICK m \in T : \A k \in T : m <= k
  BY LeastOf, ZenonT(60)
<1>4. m # 0
  <2>1. TrimmedTo(new, new, fs, 0)
    BY DEF TrimmedTo, PartOf, Piece, Part
  <2>. QED
    BY <1>2, <2>1 DEF IsTrim
<1>5. m - 1 \in Nat /\ m - 1 < Len(fs) /\ m \in 1 .. Len(fs) /\ m - 1 \notin T /\ (m - 1) + 1 = m
  BY <1>1, <1>3, <1>4
<1>6. TrimmedTo(after[m - 1], new, fs, m - 1)
  BY <1>1, <1>5
<1>7. TrimmedTo(Trim(after[m - 1], fs[(m - 1) + 1]), new, fs, (m - 1) + 1)
  BY <1>5, <1>6, TrimInvariant
<1>8. after[m] = Trim(after[m - 1], fs[m])
  BY <1>2, <1>5, ZenonT(60) DEF IsTrim
<1>. QED
  BY <1>3, <1>5, <1>7, <1>8

-----------------------------------------------------------------------------
\* The units that the fragments hold
Cov(fs) == {u \in 0 .. MaxEnd : \E i \in DOMAIN fs : fs[i] # NONE /\ u \in UnitsOf(fs[i])}

\* gs has one fragment more than fs, f at place i.
Adds(gs, fs, f, i) ==
  /\ i \in DOMAIN gs /\ gs[i] = f
  /\ i \in DOMAIN fs => fs[i] = NONE
  /\ DOMAIN fs \subseteq DOMAIN gs
  /\ \A k \in DOMAIN gs : k # i => k \in DOMAIN fs /\ gs[k] = fs[k]

\* The units of a queue are finitely many.
LEMMA CovFinite ==
  ASSUME NEW fs
  PROVE  IsFiniteSet(Cov(fs)) /\ Cardinality(Cov(fs)) \in Nat
<1>1. IsFiniteSet(0 .. MaxEnd)
  BY MaxEndType, FS_Interval
<1>2. IsFiniteSet(Cov(fs))
  BY <1>1, FS_Subset, ZenonT(60) DEF Cov
<1>. QED
  BY <1>2, FS_CardinalityType

\* A fragment has as many units as its size says.
LEMMA UnitsCount ==
  ASSUME NEW f, Real(f)
  PROVE  /\ UnitsOf(f) \subseteq 0 .. MaxEnd /\ IsFiniteSet(UnitsOf(f))
         /\ Cardinality(UnitsOf(f)) = f.len /\ f.begin \in UnitsOf(f)
<1>1. PICK b \in Int, e \in Int : b = f.begin /\ e = End(f) /\ 0 <= b /\ b < e /\ e <= MaxEnd /\ f.len = e - b
  BY DEF Real, Fragment, End
<1>2. UnitsOf(f) = b .. e - 1
  BY <1>1 DEF UnitsOf
<1>3. IsFiniteSet(b .. e - 1) /\ Cardinality(b .. e - 1) = e - b
  <2>1. e - 1 \in Int
    OBVIOUS
  <2>2. IsFiniteSet(b .. e - 1) /\ Cardinality(b .. e - 1) = IF b > e - 1 THEN 0 ELSE (e - 1) - b + 1
    BY <2>1, FS_Interval
  <2>. QED
    BY <1>1, <2>2
<1>. QED
  BY <1>1, <1>2, <1>3, MaxEndType

\* A fragment that is apart from the others adds its size (lines 121, 137).
LEMMA AddsCounts ==
  ASSUME NEW fs, NEW gs, NEW f, Real(f), NEW i, Adds(gs, fs, f, i), AllApart(fs),
         \A k \in DOMAIN fs : fs[k] # NONE => Apart(f, fs[k])
  PROVE  /\ AllApart(gs)
         /\ Cov(gs) = Cov(fs) \cup UnitsOf(f)
         /\ Cardinality(Cov(gs)) = Cardinality(Cov(fs)) + f.len
<1>1. f # NONE
  BY NullAssumption DEF Real
<1>2. UnitsOf(f) \subseteq 0 .. MaxEnd /\ IsFiniteSet(UnitsOf(f)) /\ Cardinality(UnitsOf(f)) = f.len
  BY UnitsCount
<1>3. AllApart(gs)
  <2>1. \A k \in DOMAIN gs : gs[k] # NONE => Real(gs[k])
    BY DEF Adds, AllApart
  <2>2. \A k \in DOMAIN gs : k # i /\ gs[k] # NONE => Apart(f, gs[k]) /\ Apart(gs[k], f)
    BY DEF Adds, Apart
  <2>3. \A k, j \in DOMAIN gs : k # j /\ gs[k] # NONE /\ gs[j] # NONE => Apart(gs[k], gs[j])
    BY <2>2 DEF Adds, AllApart
  <2>. QED
    BY <2>1, <2>3 DEF AllApart
<1>4. Cov(gs) = Cov(fs) \cup UnitsOf(f)
  <2>1. ASSUME NEW u \in Cov(gs) PROVE u \in Cov(fs) \cup UnitsOf(f)
    <3>1. PICK k \in DOMAIN gs : gs[k] # NONE /\ u \in UnitsOf(gs[k])
      BY <2>1 DEF Cov
    <3>. QED
      BY <2>1, <3>1, ZenonT(60) DEF Cov, Adds
  <2>2. ASSUME NEW u \in Cov(fs) PROVE u \in Cov(gs)
    <3>1. PICK k \in DOMAIN fs : fs[k] # NONE /\ u \in UnitsOf(fs[k])
      BY <2>2 DEF Cov
    <3>2. k # i /\ k \in DOMAIN gs /\ gs[k] = fs[k]
      BY <3>1, ZenonT(60) DEF Adds
    <3>. QED
      BY <2>2, <3>1, <3>2, ZenonT(60) DEF Cov
  <2>3. UnitsOf(f) \subseteq Cov(gs)
    BY <1>1, <1>2, ZenonT(60) DEF Cov, Adds
  <2>. QED
    BY <2>1, <2>2, <2>3
<1>5. Cov(fs) \cap UnitsOf(f) = {}
  <2>. SUFFICES ASSUME NEW u \in Cov(fs), u \in UnitsOf(f) PROVE FALSE
    OBVIOUS
  <2>1. PICK k \in DOMAIN fs : fs[k] # NONE /\ u \in UnitsOf(fs[k])
    BY DEF Cov
  <2>2. Real(fs[k]) /\ Apart(f, fs[k])
    BY <2>1 DEF AllApart
  <2>3. /\ f.begin \in Int /\ End(f) \in Int /\ fs[k].begin \in Int /\ End(fs[k]) \in Int
    BY <2>2 DEF Real, Fragment, End
  <2>. QED
    BY <2>1, <2>2, <2>3 DEF Apart, UnitsOf
<1>6. Cardinality(Cov(fs) \cup UnitsOf(f))
        = Cardinality(Cov(fs)) + Cardinality(UnitsOf(f)) - Cardinality(Cov(fs) \cap UnitsOf(f))
  BY <1>2, CovFinite, FS_Union
<1>7. Cardinality(Cov(fs) \cap UnitsOf(f)) = 0
  BY <1>5, FS_EmptySet
<1>8. f.len \in Int /\ Cardinality(Cov(fs)) \in Nat
  BY CovFinite DEF Real, Fragment
<1>. QED
  BY <1>2, <1>3, <1>4, <1>6, <1>7, <1>8

-----------------------------------------------------------------------------
\* The queue before the first round
Unmoved(q) == [q |-> q, removedIndex |-> 0]

\* g has the queue after each of the first n rounds.
IsRemove(g, q, new, n) ==
  /\ g = [i \in 0 .. n |-> g[i]]
  /\ g[0] = Unmoved(q)
  /\ \A i \in 1 .. n : g[i] = RemoveOne(g[i - 1], new, i)

\* One round more of the loop of lines 109-125
LEMMA RemoveExtends ==
  ASSUME NEW q, NEW new, NEW n \in Nat, NEW g, IsRemove(g, q, new, n)
  PROVE  \E h : IsRemove(h, q, new, n + 1)
<1>. DEFINE h == [i \in 0 .. n + 1 |-> IF i <= n THEN g[i] ELSE RemoveOne(g[n], new, n + 1)]
<1>1. h = [i \in 0 .. n + 1 |-> h[i]]
  OBVIOUS
<1>2. h[0] = Unmoved(q)
  BY DEF IsRemove
<1>3. ASSUME NEW i \in 1 .. n + 1 PROVE h[i] = RemoveOne(h[i - 1], new, i)
  <2>1. CASE i \in 1 .. n
    <3>1. h[i] = g[i] /\ h[i - 1] = g[i - 1]
      BY <2>1
    <3>. QED
      BY <2>1, <3>1, ZenonT(60) DEF IsRemove
  <2>2. CASE i = n + 1
    <3>1. h[i] = RemoveOne(g[n], new, n + 1) /\ h[i - 1] = g[n]
      BY <2>2
    <3>. QED
      BY <2>2, <3>1
  <2>. QED
    BY <2>1, <2>2
<1>. HIDE DEF h
<1>. QED
  BY <1>1, <1>2, <1>3, ZenonT(60) DEF IsRemove

\* The rounds of that loop exist, however many fragments there are.
LEMMA RemoveExists ==
  ASSUME NEW q, NEW new, NEW n \in Nat
  PROVE  \E g : IsRemove(g, q, new, n)
<1>. DEFINE T == {m \in Nat : ~ \E g : IsRemove(g, q, new, m)}
<1>. SUFFICES ASSUME T # {} PROVE FALSE
  OBVIOUS
<1>1. PICK m \in T : \A k \in T : m <= k
  BY LeastOf, ZenonT(60)
<1>2. m # 0
  <2>. DEFINE g == [i \in 0 .. 0 |-> Unmoved(q)]
  <2>1. IsRemove(g, q, new, 0)
    BY DEF IsRemove
  <2>. QED
    BY <2>1
<1>3. m - 1 \in Nat /\ m - 1 \notin T
  BY <1>1, <1>2
<1>4. PICK g : IsRemove(g, q, new, m - 1)
  BY <1>3
<1>5. \E h : IsRemove(h, q, new, (m - 1) + 1)
  BY <1>3, <1>4, RemoveExtends
<1>6. (m - 1) + 1 = m
  BY <1>3
<1>. QED
  BY <1>1, <1>5, <1>6

\* The recursive function of RemoveRounds meets its equation.
LEMMA RemoveLoop ==
  ASSUME NEW q, NEW new, Len(q.fragments) \in Nat
  PROVE  IsRemove(RemoveRounds(q, new), q, new, Len(q.fragments))
<1>. DEFINE n == Len(q.fragments)
            after == RemoveRounds(q, new)
            Body(g) == [i \in 0 .. n |-> IF i = 0 THEN Unmoved(q)
                                         ELSE RemoveOne(g[i - 1], new, i)]
<1>1. PICK g : IsRemove(g, q, new, n)
  BY RemoveExists, ZenonT(60)
<1>2. g = Body(g)
  <2>1. n \in Nat
    OBVIOUS
  <2>. HIDE DEF n
  <2>2. g = [i \in 0 .. n |-> g[i]]
    BY <1>1 DEF IsRemove
  <2>3. \A i \in 0 .. n : g[i] = IF i = 0 THEN Unmoved(q) ELSE RemoveOne(g[i - 1], new, i)
    <3>1. \A i \in 0 .. n : i = 0 \/ i \in 1 .. n
      BY <2>1
    <3>. QED
      BY <1>1, <3>1, ZenonT(60) DEF IsRemove
  <2>. QED
    BY <2>2, <2>3, ZenonT(60)
<1>3. after = CHOOSE h : h = Body(h)
  BY DEF RemoveRounds, Unmoved
<1>4. after = Body(after)
  BY <1>2, <1>3, ZenonT(60)
<1>. QED
  BY <1>4 DEF IsRemove

-----------------------------------------------------------------------------
\* What the loop over the fragments up to the i-th has left of the queue
RestOf(r, q, new, i) ==
  /\ r.q \in FragmentQueue /\ Len(r.q.fragments) = Len(q.fragments)
  /\ \A k \in DOMAIN q.fragments :
       r.q.fragments[k] = IF k <= i /\ Covers(new, q.fragments[k]) THEN NONE ELSE q.fragments[k]
  /\ r.q.totalLength = q.totalLength
  /\ r.q.receivedLength = Cardinality(Cov(r.q.fragments))
  /\ r.removedIndex \in 0 .. i
  /\ r.removedIndex # 0 => Covers(new, q.fragments[r.removedIndex])

\* The fragments that the loop leaves are apart.
LEMMA RestApart ==
  ASSUME NEW q \in FragmentQueue, AllApart(q.fragments), NEW r, NEW new, NEW i,
         RestOf(r, q, new, i)
  PROVE  AllApart(r.q.fragments) /\ DOMAIN r.q.fragments = DOMAIN q.fragments
<1>1. DOMAIN r.q.fragments = DOMAIN q.fragments
  BY DEF RestOf, FragmentQueue
<1>2. \A k \in DOMAIN q.fragments : r.q.fragments[k] \in {NONE, q.fragments[k]}
  BY DEF RestOf
<1>. QED
  BY <1>1, <1>2 DEF AllApart

\* A round keeps receivedLength equal to what is covered (lines 109-125).
LEMMA RemoveStep ==
  ASSUME NEW q \in FragmentQueue, AllApart(q.fragments), NEW r, NEW new, NEW i \in Nat,
         i < Len(q.fragments), RestOf(r, q, new, i)
  PROVE  RestOf(RemoveOne(r, new, i + 1), q, new, i + 1)
<1>. DEFINE t == RemoveOne(r, new, i + 1)
            fs == r.q.fragments
            f == q.fragments[i + 1]
<1>1. /\ q.fragments \in Fragments /\ fs \in Fragments /\ r.q \in FragmentQueue
      /\ DOMAIN fs = DOMAIN q.fragments /\ i + 1 \in DOMAIN fs /\ AllApart(fs)
      /\ \A k \in DOMAIN fs : k \in Int
  <2>1. q.fragments \in Fragments /\ fs \in Fragments /\ r.q \in FragmentQueue
    BY DEF RestOf, FragmentQueue, Fragments
  <2>2. DOMAIN fs = DOMAIN q.fragments /\ AllApart(fs)
    BY RestApart
  <2>3. DOMAIN q.fragments = 1 .. Len(q.fragments) /\ Len(q.fragments) \in Nat
    BY <2>1 DEF Fragments
  <2>. HIDE DEF fs
  <2>. QED
    BY <2>1, <2>2, <2>3
<1>2. fs[i + 1] = f
  BY <1>1 DEF RestOf
<1>3. CASE ~ Covers(new, f)
  <2>1. t = r
    BY <1>2, <1>3 DEF RemoveOne
  <2>2. \A k \in DOMAIN q.fragments :
          fs[k] = IF k <= i + 1 /\ Covers(new, q.fragments[k]) THEN NONE ELSE q.fragments[k]
    BY <1>1, <1>3 DEF RestOf
  <2>3. r.removedIndex \in 0 .. i + 1
    BY DEF RestOf
  <2>. HIDE DEF t
  <2>. QED
    BY <2>1, <2>2, <2>3 DEF RestOf, t
<1>4. CASE Covers(new, f)
  <2>. DEFINE gs == [fs EXCEPT ![i + 1] = NONE]
              u == [r.q EXCEPT !.fragments[i + 1] = NONE, !.receivedLength = @ - f.len]
  <2>1. t = [q |-> u, removedIndex |-> i + 1]
    BY <1>2, <1>4 DEF RemoveOne
  <2>2. f # NONE /\ Real(f)
    BY <1>1, <1>2, <1>4 DEF Covers, AllApart
  <2>3. gs \in Fragments /\ DOMAIN gs = DOMAIN fs /\ Len(gs) = Len(q.fragments)
    BY <1>1 DEF RestOf, Fragments
  <2>4. Adds(fs, gs, f, i + 1)
    BY <1>1, <1>2, <2>3 DEF Adds
  <2>5. AllApart(gs) /\ \A k \in DOMAIN gs : gs[k] # NONE => Apart(f, gs[k])
    <3>1. \A k \in DOMAIN gs : gs[k] # NONE => k # i + 1 /\ gs[k] = fs[k]
      BY <1>1, <2>3
    <3>. HIDE DEF gs
    <3>. QED
      BY <1>1, <1>2, <2>2, <2>3, <3>1 DEF AllApart
  <2>6. Cardinality(Cov(fs)) = Cardinality(Cov(gs)) + f.len
    BY <2>2, <2>4, <2>5, AddsCounts, ZenonT(60)
  <2>7. /\ u \in FragmentQueue /\ u.fragments = gs /\ u.totalLength = r.q.totalLength
        /\ u.receivedLength = r.q.receivedLength - f.len
    <3>1. f.len \in Int /\ gs \in Seq(Fragment \cup {NONE})
      BY <2>2, <2>3 DEF Real, Fragment, Fragments
    <3>2. u.fragments = gs /\ u.totalLength = r.q.totalLength
          /\ u.receivedLength = r.q.receivedLength - f.len
          /\ u = [receivedLength |-> r.q.receivedLength - f.len,
                  totalLength |-> r.q.totalLength, fragments |-> gs]
      <4>1. PICK rq \in FragmentQueue : rq = r.q
        BY <1>1
      <4>2. rq = [receivedLength |-> rq.receivedLength, totalLength |-> rq.totalLength,
                  fragments |-> rq.fragments]
        BY DEF FragmentQueue
      <4>3. u = [rq EXCEPT !.fragments = gs, !.receivedLength = rq.receivedLength - f.len]
        BY ONLY <4>1, <4>2
      <4>. HIDE DEF u, gs
      <4>4. u = [receivedLength |-> rq.receivedLength - f.len,
                 totalLength |-> rq.totalLength, fragments |-> gs]
        BY ONLY <4>2, <4>3, ZenonT(60)
      <4>. QED
        BY ONLY <4>1, <4>4
    <3>3. r.q.receivedLength \in Int /\ r.q.totalLength \in Int
      BY <1>1 DEF FragmentQueue
    <3>. HIDE DEF u, gs
    <3>. QED
      BY <3>1, <3>2, <3>3 DEF FragmentQueue
  <2>8. u.receivedLength = Cardinality(Cov(gs))
    <3>1. f.len \in Int /\ Cardinality(Cov(gs)) \in Nat /\ r.q.receivedLength = Cardinality(Cov(fs))
      BY <2>2, CovFinite DEF Real, Fragment, RestOf
    <3>. QED
      BY <2>6, <2>7, <3>1
  <2>9. \A k \in DOMAIN q.fragments :
          gs[k] = IF k <= i + 1 /\ Covers(new, q.fragments[k]) THEN NONE ELSE q.fragments[k]
    BY <1>1, <1>4 DEF RestOf
  <2>10. t.q = u /\ t.removedIndex = i + 1 /\ i + 1 \in 0 .. i + 1
    BY <2>1
  <2>. HIDE DEF t, u, gs
  <2>. QED
    BY <1>4, <2>3, <2>7, <2>8, <2>9, <2>10 DEF RestOf, t
<1>. QED
  BY <1>3, <1>4

\* So does the loop.
LEMMA RemovedAll ==
  ASSUME NEW q \in FragmentQueue, AllApart(q.fragments), NEW new,
         q.receivedLength = Cardinality(Cov(q.fragments))
  PROVE  RestOf(RemoveRounds(q, new)[Len(q.fragments)], q, new, Len(q.fragments))
<1>. DEFINE after == RemoveRounds(q, new)
            T == {m \in Nat : m <= Len(q.fragments) /\ ~ RestOf(after[m], q, new, m)}
<1>1. Len(q.fragments) \in Nat /\ \A k \in DOMAIN q.fragments : k \in Int /\ 1 <= k
  BY DEF FragmentQueue
<1>2. IsRemove(after, q, new, Len(q.fragments))
  BY <1>1, RemoveLoop
<1>. HIDE DEF after
<1>. SUFFICES ASSUME T # {} PROVE FALSE
  BY <1>1 DEF after
<1>3. PICK m \in T : \A k \in T : m <= k
  BY LeastOf, ZenonT(60)
<1>4. m # 0
  <2>1. Unmoved(q).q = q /\ Unmoved(q).removedIndex = 0
    BY DEF Unmoved
  <2>2. RestOf(Unmoved(q), q, new, 0)
    BY <1>1, <2>1 DEF RestOf
  <2>. QED
    BY <1>2, <2>2 DEF IsRemove
<1>5. /\ m - 1 \in Nat /\ m - 1 < Len(q.fragments) /\ m \in 1 .. Len(q.fragments)
      /\ m - 1 \notin T /\ (m - 1) + 1 = m
  BY <1>1, <1>3, <1>4
<1>6. RestOf(after[m - 1], q, new, m - 1)
  BY <1>1, <1>5
<1>7. RestOf(RemoveOne(after[m - 1], new, (m - 1) + 1), q, new, (m - 1) + 1)
  BY <1>5, <1>6, RemoveStep
<1>8. after[m] = RemoveOne(after[m - 1], new, m)
  BY <1>2, <1>5, ZenonT(60) DEF IsRemove
<1>. QED
  BY <1>3, <1>5, <1>7, <1>8

-----------------------------------------------------------------------------
\* What the size check of line 153 relies on
QueueSound(q) ==
  /\ q \in FragmentQueue /\ AllApart(q.fragments)
  /\ q.receivedLength = Cardinality(Cov(q.fragments))

NewFragment(new, first) ==
  [begin |-> new.offset, len |-> new.end - new.offset, next |-> new.next, first |-> first]

\* s is q after a part new of what arrived is stored.
IsStored(s, q, new, first) ==
  /\ QueueSound(s) /\ s.totalLength = q.totalLength
  /\ \A k \in DOMAIN s.fragments : s.fragments[k] # NONE =>
       \/ s.fragments[k] = NewFragment(new, first)
       \/ \E j \in DOMAIN q.fragments : q.fragments[j] # NONE /\ s.fragments[k] = q.fragments[j]
  /\ new.offset \in Cov(s.fragments)

\* What lines 107-138 make of a queue is a queue whose fragments are apart and
\* whose receivedLength is exact.
LEMMA StoredSound ==
  ASSUME NEW q, QueueSound(q), NEW whole, Piece(whole), whole.end <= MaxEnd,
         NEW new, new # NONE, TrimmedTo(new, whole, q.fragments, Len(q.fragments)),
         NEW first \in Int
  PROVE  IsStored(Stored(q, new, first), q, new, first)
<1>. DEFINE n == Len(q.fragments)
            rest == RemoveRounds(q, new)[n]
            f == NewFragment(new, first)
            fs == rest.q.fragments
            i == IF rest.removedIndex = 0 THEN n + 1 ELSE rest.removedIndex
            gs == IF rest.removedIndex = 0 THEN Append(fs, f)
                  ELSE [fs EXCEPT ![rest.removedIndex] = f]
            s == Stored(q, new, first)
<1>1. q \in FragmentQueue /\ AllApart(q.fragments) /\ n \in Nat /\ DOMAIN q.fragments = 1 .. n
  BY DEF QueueSound, FragmentQueue
<1>2. RestOf(rest, q, new, n)
  BY RemovedAll DEF QueueSound
<1>3. PartOf(new, whole) /\ Piece(new)
  BY DEF TrimmedTo, PartOf
<1>4. Real(f)
  <2>1. /\ new.offset \in Int /\ new.end \in Int /\ new.next \in Int
        /\ 0 <= new.offset /\ new.offset < new.end /\ new.end <= whole.end /\ whole.end \in Int
    BY <1>3 DEF PartOf, Piece, Part
  <2>2. f \in Fragment /\ f.begin = new.offset /\ f.len = new.end - new.offset
    BY <2>1 DEF NewFragment, Fragment
  <2>. HIDE DEF f
  <2>. QED
    BY <2>1, <2>2, MaxEndType DEF Real, End
<1>5. f.begin = new.offset /\ End(f) = new.end
  BY <1>3 DEF NewFragment, End, Piece, Part
<1>. HIDE DEF rest, f
<1>6. rest.q \in FragmentQueue /\ fs \in Fragments /\ Len(fs) = n /\ AllApart(fs) /\ DOMAIN fs = 1 .. n
  <2>1. rest.q \in FragmentQueue /\ Len(fs) = n
    BY <1>2 DEF RestOf
  <2>2. fs \in Fragments
    BY <2>1 DEF FragmentQueue, Fragments
  <2>3. AllApart(fs) /\ DOMAIN fs = DOMAIN q.fragments
    BY <1>1, <1>2, RestApart
  <2>. QED
    BY <1>1, <2>1, <2>2, <2>3
<1>7. ASSUME NEW k \in DOMAIN fs, fs[k] # NONE
      PROVE  fs[k] = q.fragments[k] /\ q.fragments[k] # NONE /\ Apart(f, fs[k])
  <2>1. k \in 1 .. n /\ k \in DOMAIN q.fragments
    BY <1>1, <1>6
  <2>2. fs[k] = q.fragments[k] /\ ~ Covers(new, q.fragments[k])
    BY <1>2, <1>7, <2>1 DEF RestOf
  <2>3. Settled(new, q.fragments[k]) /\ Real(q.fragments[k])
    BY <1>1, <1>7, <2>1, <2>2 DEF TrimmedTo, AllApart
  <2>4. PICK b \in Int, e \in Int : b = fs[k].begin /\ e = End(fs[k]) /\ b < e
    BY <2>2, <2>3 DEF Real, Fragment, End
  <2>5. new.offset \in Int /\ new.end \in Int /\ new.offset < new.end
    BY <1>3 DEF Piece, Part
  <2>. QED
    BY <1>5, <1>7, <2>2, <2>3, <2>4, <2>5 DEF Apart, Covers, Settled
<1>8. /\ gs \in Fragments /\ Adds(gs, fs, f, i)
  <2>1. f \in Fragment \cup {NONE}
    BY <1>4 DEF Real
  <2>2. CASE rest.removedIndex = 0
    <3>1. /\ gs = Append(fs, f) /\ i = n + 1
      BY <2>2
    <3>2. /\ gs \in Fragments /\ DOMAIN gs = 1 .. n + 1 /\ gs[n + 1] = f
          /\ \A k \in 1 .. n : gs[k] = fs[k]
      BY <1>1, <1>6, <2>1, <3>1 DEF Fragments
    <3>. HIDE DEF gs, i, fs
    <3>. QED
      BY <1>1, <1>6, <3>1, <3>2 DEF Adds
  <2>3. CASE rest.removedIndex # 0
    <3>1. gs = [fs EXCEPT ![i] = f] /\ i = rest.removedIndex
      BY <2>3
    <3>2. i \in 1 .. n /\ fs[i] = NONE
      BY <1>1, <1>2, <2>3 DEF RestOf
    <3>. HIDE DEF gs, i, fs
    <3>3. /\ gs \in Fragments /\ DOMAIN gs = 1 .. n /\ gs[i] = f
          /\ \A k \in 1 .. n : k # i => gs[k] = fs[k]
      BY <1>1, <1>6, <2>1, <3>1, <3>2 DEF Fragments
    <3>. QED
      BY <1>1, <1>6, <3>2, <3>3 DEF Adds
  <2>. QED
    BY <2>2, <2>3
<1>9. /\ AllApart(gs) /\ Cov(gs) = Cov(fs) \cup UnitsOf(f)
      /\ Cardinality(Cov(gs)) = Cardinality(Cov(fs)) + f.len
  <2>. HIDE DEF gs, fs, i
  <2>. QED
    BY <1>4, <1>6, <1>7, <1>8, AddsCounts, ZenonT(60)
<1>10. /\ s = [rest.q EXCEPT !.fragments = gs, !.receivedLength = @ + f.len]
  BY DEF Stored, NewFragment, rest, f
<1>11. /\ s \in FragmentQueue /\ s.fragments = gs /\ s.totalLength = q.totalLength
       /\ s.receivedLength = rest.q.receivedLength + f.len
  <2>1. gs \in Seq(Fragment \cup {NONE}) /\ f.len \in Int
    BY <1>4, <1>8 DEF Fragments, Real, Fragment
  <2>. HIDE DEF s, gs, fs
  <2>2. PICK rq \in FragmentQueue : rq = rest.q
    BY <1>6
  <2>3. rq.totalLength = q.totalLength /\ rq.totalLength \in Int /\ rq.receivedLength \in Int
    BY <1>2, <2>2 DEF RestOf, FragmentQueue
  <2>4. rq = [receivedLength |-> rq.receivedLength, totalLength |-> rq.totalLength,
              fragments |-> rq.fragments]
    BY DEF FragmentQueue
  <2>5. s = [receivedLength |-> rq.receivedLength + f.len, totalLength |-> rq.totalLength,
             fragments |-> gs]
    BY ONLY <1>10, <2>2, <2>4, ZenonT(60)
  <2>. QED
    BY <2>1, <2>2, <2>3, <2>5 DEF FragmentQueue
<1>12. QueueSound(s)
  <2>1. rest.q.receivedLength = Cardinality(Cov(fs))
    BY <1>2 DEF RestOf
  <2>. HIDE DEF s, gs, fs
  <2>. QED
    BY <1>9, <1>11, <2>1, ZenonT(60) DEF QueueSound
<1>13. new.offset \in Cov(gs)
  BY <1>4, <1>5, <1>9, UnitsCount
<1>14. ASSUME NEW k \in DOMAIN gs, gs[k] # NONE
       PROVE  gs[k] = f \/ \E j \in DOMAIN q.fragments : q.fragments[j] # NONE /\ gs[k] = q.fragments[j]
  <2>1. CASE k = i
    BY <1>8, <2>1 DEF Adds
  <2>2. CASE k # i
    <3>1. k \in DOMAIN fs /\ gs[k] = fs[k]
      BY <1>8, <2>2 DEF Adds
    <3>. HIDE DEF gs, fs, i
    <3>. QED
      BY <1>1, <1>6, <1>7, <1>14, <3>1
  <2>. QED
    BY <2>1, <2>2
<1>. HIDE DEF s, gs, fs
<1>. QED
  BY <1>11, <1>12, <1>13, <1>14 DEF IsStored, s, f

-----------------------------------------------------------------------------
Longest == Max(Lengths)

\* There is a longest payload, and it fits.
LEMMA LongestType == Longest \in Lengths /\ Longest \in 1 .. MaxEnd /\ Longest \in Nat
<1>. DEFINE T == {m \in Nat : \E l \in Lengths : m = MaxEnd - l}
<1>1. Lengths \subseteq 1 .. MaxEnd /\ Lengths # {}
  BY FragmentAssumption
<1>2. T # {}
  <2>1. PICK l \in Lengths : l \in 1 .. MaxEnd
    BY <1>1, ZenonT(60)
  <2>2. MaxEnd - l \in T
    BY <2>1, MaxEndType
  <2>. QED
    BY <2>2
<1>3. PICK m \in T : \A k \in T : m <= k
  BY <1>2, LeastOf, ZenonT(60)
<1>4. PICK l \in Lengths : m = MaxEnd - l
  BY <1>3
<1>5. \A k \in Lengths : l >= k
  <2>. SUFFICES ASSUME NEW k \in Lengths PROVE l >= k
    OBVIOUS
  <2>1. MaxEnd - k \in T /\ k \in Int /\ l \in Int
    BY <1>1, MaxEndType
  <2>2. MaxEnd - l <= MaxEnd - k
    BY <1>3, <1>4, <2>1, ZenonT(60)
  <2>. QED
    BY ONLY <2>1, <2>2, MaxEndType
<1>6. Longest \in Lengths
  BY <1>5 DEF Longest, Max
<1>. QED
  BY <1>1, <1>6, MaxEndType

\* The queue of a datagram whose identification is not used again
Intact(q) ==
  /\ q.totalLength \in {0, Longest}
  /\ \A k \in DOMAIN q.fragments : q.fragments[k] # NONE =>
       /\ q.fragments[k].first + q.fragments[k].next = q.fragments[k].begin
       /\ End(q.fragments[k]) <= Longest
  /\ q.totalLength = Longest \/ Longest - 1 \notin Cov(q.fragments)

\* A queue holds all units of its datagram exactly if receivedLength is the
\* size of the datagram.
LEMMA CovBelow ==
  ASSUME NEW q, QueueSound(q), Intact(q)
  PROVE  /\ Cov(q.fragments) \subseteq 0 .. Longest - 1
         /\ Cov(q.fragments) = 0 .. Longest - 1 <=> q.receivedLength = Longest
<1>1. Cov(q.fragments) \subseteq 0 .. Longest - 1
  <2>. SUFFICES ASSUME NEW u \in Cov(q.fragments) PROVE u \in 0 .. Longest - 1
    OBVIOUS
  <2>1. PICK k \in DOMAIN q.fragments : q.fragments[k] # NONE /\ u \in UnitsOf(q.fragments[k])
    BY DEF Cov
  <2>2. Real(q.fragments[k]) /\ End(q.fragments[k]) <= Longest
    BY <2>1 DEF QueueSound, AllApart, Intact
  <2>3. u \in Int /\ 0 <= u /\ u <= End(q.fragments[k]) - 1 /\ End(q.fragments[k]) \in Int
    BY <2>1, <2>2 DEF Real, UnitsOf, Fragment, End
  <2>. QED
    BY <2>2, <2>3, LongestType
<1>2. IsFiniteSet(0 .. Longest - 1) /\ Cardinality(0 .. Longest - 1) = Longest
  <2>1. 0 \in Int /\ Longest - 1 \in Int
    BY LongestType
  <2>2. IsFiniteSet(0 .. Longest - 1)
        /\ Cardinality(0 .. Longest - 1) = IF 0 > Longest - 1 THEN 0 ELSE Longest - 1 - 0 + 1
    BY <2>1, FS_Interval
  <2>. QED
    BY <2>2, LongestType
<1>3. Cardinality(Cov(q.fragments)) = Longest => Cov(q.fragments) = 0 .. Longest - 1
  BY <1>1, <1>2, FS_Subset, ZenonT(60)
<1>. QED
  BY <1>1, <1>2, <1>3 DEF QueueSound

\* A complete queue is put together as the datagram that was sent (lines 154-167).
LEMMA AssembledIntact ==
  ASSUME NEW q, QueueSound(q), Intact(q), q.totalLength = Longest,
         Cov(q.fragments) = 0 .. Longest - 1
  PROVE  Assembled(q) = [k \in 0 .. Longest - 1 |-> k]
<1>. SUFFICES ASSUME NEW u \in 0 .. Longest - 1 PROVE Assembled(q)[u] = u
  BY ZenonT(60) DEF Assembled
<1>. DEFINE covering == {i \in DOMAIN q.fragments :
                           /\ q.fragments[i] # NONE
                           /\ u \in q.fragments[i].begin .. End(q.fragments[i]) - 1}
            m == Max(covering)
            f == q.fragments[m]
<1>1. PICK i \in DOMAIN q.fragments : q.fragments[i] # NONE /\ u \in UnitsOf(q.fragments[i])
  BY DEF Cov
<1>2. i \in covering /\ i \in Int
  BY <1>1 DEF UnitsOf, QueueSound, FragmentQueue
<1>3. ASSUME NEW j \in covering PROVE j = i
  <2>. SUFFICES ASSUME j # i PROVE FALSE
    OBVIOUS
  <2>1. j \in DOMAIN q.fragments /\ q.fragments[j] # NONE /\ u \in UnitsOf(q.fragments[j])
    BY <1>3 DEF UnitsOf
  <2>2. /\ Real(q.fragments[i]) /\ Real(q.fragments[j])
        /\ Apart(q.fragments[i], q.fragments[j])
    BY <1>1, <2>1 DEF QueueSound, AllApart
  <2>3. /\ q.fragments[i].begin \in Int /\ End(q.fragments[i]) \in Int
        /\ q.fragments[j].begin \in Int /\ End(q.fragments[j]) \in Int
    BY <2>2, RealType
  <2>. QED
    BY <1>1, <2>1, <2>2, <2>3 DEF Apart, UnitsOf
<1>4. covering = {i}
  BY <1>2, <1>3
<1>5. m = i
  <2>. HIDE DEF covering
  <2>. QED
    BY <1>2, <1>4 DEF Max
<1>6. Assembled(q)[u] = f.first + f.next + (u - f.begin)
  BY <1>2 DEF Assembled
<1>7. /\ Real(q.fragments[i])
      /\ q.fragments[i].first + q.fragments[i].next = q.fragments[i].begin
  BY <1>1 DEF QueueSound, AllApart, Intact
<1>8. /\ q.fragments[i].first \in Int /\ q.fragments[i].next \in Int
      /\ q.fragments[i].begin \in Int /\ u \in Int
  BY <1>7, LongestType DEF Real, Fragment
<1>. HIDE DEF m
<1>. QED
  BY <1>5, <1>6, <1>7, <1>8

-----------------------------------------------------------------------------
\* The inductive invariant.  That a unit of the last place is only there when the
\* total size is known is what makes the check of line 153 find a complete queue.
Inv ==
  /\ queue \in [Datagram -> FragmentQueue \cup {NONE}]
  /\ \A d \in Queues : QueueSound(queue[d])
  /\ \A d \in Queues \ Reused :
       Intact(queue[d]) /\ Cov(queue[d].fragments) # 0 .. Longest - 1
  /\ DeliveredIntact

\* A new queue (lines 50-55)
LEMMA EmptySound == QueueSound(EmptyQueue) /\ Intact(EmptyQueue)
<1>1. /\ EmptyQueue \in FragmentQueue /\ EmptyQueue.receivedLength = 0
      /\ EmptyQueue.totalLength = 0 /\ EmptyQueue.fragments = <<>>
  BY DEF EmptyQueue, FragmentQueue
<1>2. Cov(<<>>) = {} /\ AllApart(<<>>)
  BY DEF Cov, AllApart
<1>3. Cardinality({}) = 0
  BY FS_EmptySet
<1>4. \A k \in DOMAIN <<>> : FALSE
  OBVIOUS
<1>5. QueueSound(EmptyQueue)
  BY <1>1, <1>2, <1>3, ZenonT(60) DEF QueueSound
<1>6. Intact(EmptyQueue)
  BY <1>1, <1>2, <1>4, ZenonT(60) DEF Intact
<1>. QED
  BY <1>5, <1>6

\* What is stored keeps every unit at its place (lines 107-138).
LEMMA StoredIntact ==
  ASSUME NEW q, QueueSound(q), Intact(q), NEW whole, Piece(whole), whole.end <= Longest,
         whole.next = 0, NEW new, PartOf(new, whole),
         NEW s, IsStored(s, q, new, whole.offset)
  PROVE  /\ s.totalLength \in {0, Longest}
         /\ \A k \in DOMAIN s.fragments : s.fragments[k] # NONE =>
              /\ s.fragments[k].first + s.fragments[k].next = s.fragments[k].begin
              /\ End(s.fragments[k]) <= Longest
         /\ whole.end = Longest \/ s.totalLength = Longest \/ Longest - 1 \notin Cov(s.fragments)
<1>. DEFINE f == NewFragment(new, whole.offset)
<1>1. /\ whole.offset \in Int /\ whole.end \in Int
      /\ new.offset \in Int /\ new.end \in Int /\ new.next \in Int
      /\ new.end <= whole.end /\ new.next - new.offset = 0 - whole.offset
  BY DEF PartOf, Piece, Part
<1>2. /\ f.first = whole.offset /\ f.next = new.next /\ f.begin = new.offset
      /\ f.len = new.end - new.offset
  BY DEF NewFragment
<1>. HIDE DEF f
<1>3. f.first + f.next = f.begin /\ End(f) <= Longest /\ End(f) = new.end
  BY <1>1, <1>2, LongestType DEF End
<1>4. ASSUME NEW k \in DOMAIN s.fragments, s.fragments[k] # NONE
      PROVE  /\ s.fragments[k].first + s.fragments[k].next = s.fragments[k].begin
             /\ End(s.fragments[k]) <= Longest
  BY <1>3, <1>4 DEF IsStored, Intact, f
<1>5. ASSUME whole.end # Longest, q.totalLength # Longest, Longest - 1 \in Cov(s.fragments)
      PROVE  FALSE
  <2>1. PICK k \in DOMAIN s.fragments :
          s.fragments[k] # NONE /\ Longest - 1 \in UnitsOf(s.fragments[k])
    BY <1>5 DEF Cov
  <2>2. s.fragments[k] # f
    <3>. SUFFICES ASSUME s.fragments[k] = f PROVE FALSE
      OBVIOUS
    <3>1. Longest - 1 \in f.begin .. End(f) - 1
      BY <2>1 DEF UnitsOf
    <3>2. Longest - 1 <= new.end - 1
      BY <1>1, <1>2, <1>3, <3>1
    <3>. QED
      BY <1>1, <1>5, <3>2, LongestType
  <2>3. PICK j \in DOMAIN q.fragments : q.fragments[j] # NONE /\ s.fragments[k] = q.fragments[j]
    BY <2>1, <2>2 DEF IsStored, f
  <2>4. Longest - 1 \in 0 .. MaxEnd
    BY LongestType, MaxEndType
  <2>5. Longest - 1 \in Cov(q.fragments)
    BY <2>1, <2>3, <2>4 DEF Cov
  <2>. QED
    BY <1>5, <2>5 DEF Intact
<1>6. s.totalLength = q.totalLength /\ q.totalLength \in {0, Longest}
  BY DEF IsStored, Intact
<1>. QED
  BY <1>4, <1>5, <1>6

\* The queue of one datagram changes, and nothing is passed on that is not intact.
\* A step that changes one queue preserves the invariant if the queue is sound.
LEMMA OneQueue ==
  ASSUME Inv, NEW d \in Datagram, NEW q,
         queue' = [queue EXCEPT ![d] = q],
         q # NONE => /\ QueueSound(q)
                     /\ d \notin Reused => Intact(q) /\ Cov(q.fragments) # 0 .. Longest - 1,
         DeliveredIntact'
  PROVE  Inv'
<1>1. queue' \in [Datagram -> FragmentQueue \cup {NONE}]
  BY DEF Inv, QueueSound
<1>2. ASSUME NEW c \in Queues' PROVE c \in Datagram /\ (c # d => c \in Queues /\ queue'[c] = queue[c])
                                     /\ (c = d => queue'[c] = q /\ q # NONE)
  BY <1>2 DEF Queues, Inv
<1>3. \A c \in Queues' : QueueSound(queue'[c])
  BY <1>2 DEF Inv
<1>4. \A c \in Queues' \ Reused :
        Intact(queue'[c]) /\ Cov(queue'[c].fragments) # 0 .. Longest - 1
  BY <1>2 DEF Inv
<1>. QED
  BY <1>1, <1>3, <1>4, ZenonT(60) DEF Inv

\* The end of addFragment, from line 140 on, preserves the invariant.
LEMMA FinishSound ==
  ASSUME Inv, NEW d \in Datagram, NEW q, QueueSound(q), d \notin Reused => Intact(q),
         NEW whole, Piece(whole), whole.next = 0, NEW size \in Lengths,
         d \notin Reused => size = Longest, whole.end <= size,
         NEW new, PartOf(new, whole), NEW s, IsStored(s, q, new, whole.offset),
         queue[d] = NONE => q.totalLength = 0,
         Finish(d, s, whole.end, whole.end # size)
  PROVE  Inv'
<1>. DEFINE more == whole.end # size
            sized == IF more THEN s ELSE [s EXCEPT !.totalLength = whole.end]
<1>1. QueueSound(s) /\ s.totalLength = q.totalLength /\ s \in FragmentQueue /\ s # NONE
  BY NullAssumption DEF IsStored, QueueSound
<1>2. /\ whole.end \in Int /\ 0 < whole.end /\ size \in Int
  <2>1. size \in Int
    BY FragmentAssumption, MaxEndType
  <2>. QED
    BY <2>1 DEF Piece, Part
<1>3. /\ sized \in FragmentQueue /\ sized.fragments = s.fragments
      /\ sized.receivedLength = s.receivedLength
      /\ sized.totalLength = IF more THEN s.totalLength ELSE whole.end
  BY <1>1, <1>2 DEF FragmentQueue
<1>4. QueueSound(sized)
  <2>. HIDE DEF sized
  <2>. QED
    BY <1>1, <1>3 DEF QueueSound
<1>5. d \notin Reused => Intact(sized)
  <2>. SUFFICES ASSUME d \notin Reused PROVE Intact(sized)
    OBVIOUS
  <2>1. /\ s.totalLength \in {0, Longest}
        /\ \A k \in DOMAIN s.fragments : s.fragments[k] # NONE =>
              /\ s.fragments[k].first + s.fragments[k].next = s.fragments[k].begin
              /\ End(s.fragments[k]) <= Longest
        /\ whole.end = Longest \/ s.totalLength = Longest \/ Longest - 1 \notin Cov(s.fragments)
    BY StoredIntact
  <2>2. sized.totalLength = IF whole.end # Longest THEN s.totalLength ELSE Longest
    BY <1>3
  <2>. HIDE DEF sized
  <2>. QED
    BY <1>3, <2>1, <2>2 DEF Intact
<1>. HIDE DEF sized
<1>6. sized # NONE
  BY <1>3, NullAssumption
<1>7. CASE ~ more /\ s.totalLength > whole.end
  <2>1. d \in Reused
    <3>. SUFFICES ASSUME d \notin Reused PROVE FALSE
      OBVIOUS
    <3>. QED
      BY <1>1, <1>2, <1>7, LongestType DEF Intact
  <2>2. queue[d] # NONE
    BY <1>1, <1>2, <1>7
  <2>3. queue' = [queue EXCEPT ![d] = s] /\ delivered' = NONE
    BY <1>7, <2>2 DEF Finish
  <2>4. DeliveredIntact'
    BY <2>3 DEF DeliveredIntact
  <2>. QED
    BY <1>1, <2>1, <2>3, <2>4, OneQueue, ZenonT(60)
<1>8. CASE ~ (~ more /\ s.totalLength > whole.end) /\ Complete(sized) /\ ~ Throws(sized)
  <2>1. /\ queue' = [queue EXCEPT ![d] = NONE]
        /\ delivered' = [datagram |-> d, units |-> Assembled(sized)]
    BY <1>8 DEF Finish, sized
  <2>2. ASSUME d \notin Reused PROVE Assembled(sized) = [k \in 0 .. Longest - 1 |-> k]
    <3>1. new.offset \in Cov(sized.fragments)
      BY <1>3 DEF IsStored
    <3>2. sized.receivedLength # 0
      <4>1. IsFiniteSet(Cov(sized.fragments))
        BY CovFinite
      <4>2. Cardinality(Cov(sized.fragments)) # 0
        BY <3>1, <4>1, FS_EmptySet
      <4>. QED
        BY <1>4, <4>2 DEF QueueSound
    <3>3. sized.totalLength = Longest /\ sized.receivedLength = Longest
      BY <1>5, <1>8, <2>2, <3>2 DEF Complete, Intact
    <3>. QED
      BY <1>4, <1>5, <2>2, <3>3, CovBelow, AssembledIntact
  <2>3. DeliveredIntact'
    BY <2>1, <2>2 DEF DeliveredIntact, Longest
  <2>. QED
    BY <2>1, <2>3, OneQueue, ZenonT(60)
<1>9. CASE ~ (~ more /\ s.totalLength > whole.end) /\ ~ (Complete(sized) /\ ~ Throws(sized))
  <2>1. queue' = [queue EXCEPT ![d] = sized] /\ delivered' = NONE
    BY <1>9 DEF Finish, sized
  <2>2. ASSUME d \notin Reused PROVE Cov(sized.fragments) # 0 .. Longest - 1
    <3>. SUFFICES ASSUME Cov(sized.fragments) = 0 .. Longest - 1 PROVE FALSE
      OBVIOUS
    <3>1. Longest - 1 \in Cov(sized.fragments)
      BY LongestType
    <3>2. sized.totalLength = Longest
      BY <1>5, <2>2, <3>1 DEF Intact
    <3>3. sized.receivedLength = Longest
      BY <1>4, <1>5, <2>2, CovBelow
    <3>4. Throws(sized)
      BY <1>9, <3>2, <3>3 DEF Complete
    <3>5. PICK i \in DOMAIN sized.fragments :
            sized.fragments[i] # NONE /\ End(sized.fragments[i]) > sized.totalLength
      BY <3>4 DEF Throws
    <3>6. End(sized.fragments[i]) <= Longest /\ Real(sized.fragments[i])
      BY <1>4, <1>5, <2>2, <3>5, ZenonT(60) DEF Intact, QueueSound, AllApart
    <3>. QED
      BY <3>2, <3>5, <3>6, RealType, LongestType
  <2>3. DeliveredIntact'
    BY <2>1 DEF DeliveredIntact
  <2>. QED
    BY <1>4, <1>5, <2>1, <2>2, <2>3, OneQueue, ZenonT(60)
<1>. QED
  BY <1>7, <1>8, <1>9

\* addFragment preserves the invariant.
LEMMA ArrivalSound ==
  ASSUME Inv, NEW d \in Datagram, NEW size \in LengthsOf(d),
         NEW from \in 0 .. size - 1, NEW to \in from + 1 .. size,
         addFragment(d, from, to, to # size)
  PROVE  Inv'
<1>. DEFINE q == IF queue[d] = NONE THEN EmptyQueue ELSE queue[d]
            whole == [offset |-> from, end |-> to, next |-> 0]
            new == TrimRounds(whole, q.fragments)[Len(q.fragments)]
            s == Stored(q, new, from)
<1>1. size \in Lengths /\ size \in 1 .. MaxEnd /\ (d \notin Reused => size = Longest)
  BY LongestType, FragmentAssumption DEF LengthsOf, Longest
<1>2. from \in Int /\ to \in Int /\ size \in Int /\ 0 <= from /\ from < to /\ to <= size /\ size <= MaxEnd
  BY <1>1, MaxEndType
<1>3. /\ Piece(whole) /\ whole.offset = from /\ whole.end = to /\ whole.next = 0
  BY <1>2 DEF Piece, Part
<1>4. QueueSound(q) /\ (d \notin Reused => Intact(q)) /\ (queue[d] = NONE => q.totalLength = 0)
  <2>1. CASE queue[d] = NONE
    <3>1. q = EmptyQueue /\ EmptyQueue.totalLength = 0
      BY <2>1 DEF EmptyQueue
    <3>. HIDE DEF q
    <3>. QED
      BY <3>1, EmptySound
  <2>2. CASE queue[d] # NONE
    <3>1. q = queue[d] /\ d \in Queues
      BY <2>2 DEF Queues
    <3>. HIDE DEF q
    <3>. QED
      BY <2>2, <3>1 DEF Inv
  <2>. QED
    BY <2>1, <2>2
<1>5. q.fragments \in Fragments /\ AllApart(q.fragments)
  BY <1>4 DEF QueueSound, FragmentQueue, Fragments
<1>6. CASE queue' = queue /\ delivered' = NONE
  <2>1. DeliveredIntact'
    BY <1>6 DEF DeliveredIntact
  <2>. QED
    BY <1>6, <2>1, ZenonT(60) DEF Inv, Queues
<1>7. CASE new # NONE /\ Finish(d, s, to, to # size)
  <2>. HIDE DEF q, whole
  <2>1. TrimmedTo(new, whole, q.fragments, Len(q.fragments))
    BY <1>3, <1>5, TrimmedAll
  <2>. HIDE DEF new
  <2>2. PartOf(new, whole)
    BY <1>7, <2>1 DEF TrimmedTo
  <2>3. whole.end <= MaxEnd
    BY <1>2, <1>3, MaxEndType
  <2>4. IsStored(s, q, new, from)
    BY <1>2, <1>3, <1>4, <1>7, <2>1, <2>3, StoredSound
  <2>. HIDE DEF s
  <2>. QED
    BY <1>1, <1>2, <1>3, <1>4, <1>7, <2>2, <2>4, FinishSound
<1>. QED
  BY <1>6, <1>7 DEF addFragment

\* The timer, which drops queues, preserves the invariant.
LEMMA TickSound ==
  ASSUME Inv, NEW old \in SUBSET Queues, tick(old)
  PROVE  Inv'
<1>1. queue' = [d \in Datagram |-> IF d \in old THEN NONE ELSE queue[d]] /\ delivered' = NONE
  BY DEF tick
<1>2. \A d \in Queues' : d \in Queues /\ queue'[d] = queue[d]
  BY <1>1 DEF Queues
<1>3. queue' \in [Datagram -> FragmentQueue \cup {NONE}]
  BY <1>1 DEF Inv
<1>4. DeliveredIntact'
  BY <1>1 DEF DeliveredIntact
<1>. QED
  BY <1>2, <1>3, <1>4, ZenonT(60) DEF Inv

\* The invariant is inductive.
LEMMA InvHolds == FragmentsSpec => []Inv
<1>1. FragmentsInit => Inv
  BY DEF FragmentsInit, Inv, Queues, DeliveredIntact
<1>2. Inv /\ [FragmentsNext]_fragmentVars => Inv'
  <2>. SUFFICES ASSUME Inv, [FragmentsNext]_fragmentVars PROVE Inv'
    OBVIOUS
  <2>1. CASE UNCHANGED fragmentVars
    BY <2>1, ZenonT(60) DEF Inv, Queues, DeliveredIntact, fragmentVars
  <2>2. CASE FragmentsNext
    BY <2>2, ArrivalSound, TickSound, ZenonT(60) DEF FragmentsNext
  <2>. QED
    BY <2>1, <2>2
<1>. QED
  BY <1>1, <1>2, PTL DEF FragmentsSpec

\* The units of a queue, as the properties and as the proofs name them
LEMMA CoveredIs ==
  ASSUME Inv, NEW d \in Queues
  PROVE  Covered(d) = Cov(queue[d].fragments)
<1>1. QueueSound(queue[d])
  BY DEF Inv
<1>2. ASSUME NEW u \in Covered(d) PROVE u \in Cov(queue[d].fragments)
  <2>1. PICK i \in DOMAIN queue[d].fragments :
          queue[d].fragments[i] # NONE /\ u \in UnitsOf(queue[d].fragments[i])
    BY <1>2 DEF Covered, Held
  <2>2. Real(queue[d].fragments[i])
    BY <1>1, <2>1 DEF QueueSound, AllApart
  <2>. QED
    BY <2>1, <2>2, UnitsCount DEF Cov
<1>3. Cov(queue[d].fragments) \subseteq Covered(d)
  BY DEF Cov, Covered, Held
<1>. QED
  BY <1>2, <1>3, ZenonT(60)

\* For every number of datagrams, of queues and every size: the fragments kept
\* for a datagram never overlap and receivedLength counts what they cover, also
\* when datagrams of different lengths meet in a queue (lines 75-138).
THEOREM LengthsExact == FragmentsSpec => []ReceivedLengthExact
<1>1. Inv => ReceivedLengthExact
  <2>. SUFFICES ASSUME Inv, NEW d \in Queues
                PROVE  /\ \A f, g \in Held(d) : f # g => UnitsOf(f) \cap UnitsOf(g) = {}
                       /\ queue[d].receivedLength = Cardinality(Covered(d))
    BY DEF ReceivedLengthExact
  <2>1. QueueSound(queue[d])
    BY DEF Inv
  <2>2. queue[d].receivedLength = Cardinality(Covered(d))
    BY <2>1, CoveredIs DEF QueueSound
  <2>3. ASSUME NEW f \in Held(d), NEW g \in Held(d), f # g
        PROVE  UnitsOf(f) \cap UnitsOf(g) = {}
    <3>1. Real(f) /\ Real(g) /\ Apart(f, g)
      BY <2>1, <2>3 DEF Held, QueueSound, AllApart
    <3>2. f.begin \in Int /\ End(f) \in Int /\ g.begin \in Int /\ End(g) \in Int
      BY <3>1, RealType
    <3>. QED
      BY <3>1, <3>2 DEF Apart, UnitsOf
  <2>. QED
    BY <2>2, <2>3
<1>. QED
  BY <1>1, InvHolds, PTL

\* For every number of datagrams and every size: a datagram that is passed on
\* is the one that was sent, unless its identification is used again (lines
\* 140-171).
THEOREM IntactDelivery == FragmentsSpec => []DeliveredIntact
<1>1. Inv => DeliveredIntact
  BY DEF Inv
<1>. QED
  BY <1>1, InvHolds, PTL

\* For every number of datagrams and every size: no datagram waits although all
\* of it has arrived, unless its identification is used again (line 153).
THEOREM NoneWaitsComplete == FragmentsSpec => []NoCompleteQueueWaits
<1>1. Inv => NoCompleteQueueWaits
  BY CoveredIs DEF Inv, NoCompleteQueueWaits, Longest
<1>. QED
  BY <1>1, InvHolds, PTL

\* The inductive invariant.  SearchStartSound needs OneOwner and the shape of
\* the array; the reset of the array in free needs AllocatedExact: the count
\* reaching zero must mean that nobody owns anything.
IInv ==
  /\ TypeOK
  /\ SearchStartSound
  /\ OneOwner
  /\ AllocatedExact

-----------------------------------------------------------------------------
\* Slots and ephemeral ports correspond one to one (isEphemeralRange and the
\* additions and subtractions of EPHEMERAL_PORT_FIRST).
LEMMA SlotPort ==
  /\ \A i \in Slot : /\ PortOf(i) \in Port
                     /\ isEphemeralRange(PortOf(i))
                     /\ SlotOf(PortOf(i)) = i
  /\ \A p \in Port : isEphemeralRange(p) => /\ SlotOf(p) \in Slot
                                            /\ PortOf(SlotOf(p)) = p
BY PortAssumption DEF Slot, Port, PortOf, SlotOf, isEphemeralRange

\* What lookup returns, without the test on the array's length.
LEMMA LookupValue ==
  ASSUME TypeOK, NEW p \in Port
  PROVE  /\ lookup(p) = IF map[p] # NULL THEN map[p]
                        ELSE IF isEphemeralRange(p) THEN sockets[SlotOf(p)]
                        ELSE NULL
         /\ lookup(p) \in Socket \cup {NULL}
BY SlotPort, PortAssumption DEF TypeOK, lookup, InMap, Slot

\* Only finitely many ports can be owned.
LEMMA OwnedFinite == IsFiniteSet(Owned) /\ IsFiniteSet(Owned')
<1>1. IsFiniteSet(Port)
  BY FS_Interval, PortAssumption DEF Port
<1>2. Owned \in SUBSET Port /\ Owned' \in SUBSET Port
  BY DEF Owned, Port
<1>. QED
  BY <1>1, <1>2, FS_Subset

\* Allocating one more port that nobody owned keeps the count exact.
LEMMA CountUp ==
  ASSUME IInv, NEW p \in Port, p \notin Owned, Owned' = Owned \cup {p},
         allocated' = allocated + 1
  PROVE  AllocatedExact'
BY OwnedFinite, FS_AddElement DEF IInv, AllocatedExact

\* Freeing one port that somebody owned keeps the count exact.
LEMMA CountDown ==
  ASSUME IInv, NEW p \in Port, p \in Owned, Owned' = Owned \ {p},
         allocated' = allocated - 1
  PROVE  AllocatedExact' /\ allocated' \in Nat
<1>1. AllocatedExact'
  BY OwnedFinite, FS_RemoveElement DEF IInv, AllocatedExact
<1>2. Cardinality(Owned') \in Nat
  BY OwnedFinite, FS_CardinalityType
<1>. QED
  BY <1>1, <1>2 DEF AllocatedExact

-----------------------------------------------------------------------------
\* A new allocator (constructor, lines 27-32) satisfies the invariant.
LEMMA InitInv == Init => IInv
<1>. SUFFICES ASSUME Init PROVE IInv
  OBVIOUS
<1>1. TypeOK
  BY PortAssumption DEF Init, TypeOK, Answer, Slot, Port
<1>2. SearchStartSound /\ OneOwner
  BY DEF Init, SearchStartSound, OneOwner, Slot
<1>3. Owned = {}
  BY <1>1, LookupValue, SlotPort DEF Init, Owned
<1>4. AllocatedExact
  BY <1>3, FS_EmptySet DEF AllocatedExact, Init
<1>. QED
  BY <1>1, <1>2, <1>4 DEF IInv

-----------------------------------------------------------------------------
(***************************************************************************)
(* What a call does, seen through lookup.  Every action is one of these;   *)
(* the count and the refinement follow from them alone.                    *)
(***************************************************************************)
Granted(s, asked, p) ==
  /\ lookup(p) = NULL
  /\ \A q \in Port : lookup(q)' = IF q = p THEN s ELSE lookup(q)
  /\ allocated' = allocated + 1
  /\ reply' = Answer(s, asked, p)

Released(p) ==
  /\ lookup(p) # NULL
  /\ \A q \in Port : lookup(q)' = IF q = p THEN NULL ELSE lookup(q)
  /\ allocated' = allocated - 1

Untouched ==
  /\ \A q \in Port : lookup(q)' = lookup(q)
  /\ allocated' = allocated

\* The part of the invariant that is not about the count.
Shape == TypeOK /\ SearchStartSound /\ OneOwner

\* A port placed in a free slot i becomes the caller's and no other port
\* changes hands.
LEMMA PlaceEffect ==
  ASSUME IInv, NEW s \in Socket, NEW i \in Slot, IsHole(i),
         sockets' = [sockets EXCEPT ![i] = s], map' = map,
         TypeOK', allocated' = allocated + 1, reply' = Answer(s, 0, PortOf(i))
  PROVE  Granted(s, 0, PortOf(i))
<1>1. PortOf(i) \in Port /\ isEphemeralRange(PortOf(i)) /\ SlotOf(PortOf(i)) = i
  BY SlotPort
<1>2. lookup(PortOf(i)) = NULL
  BY <1>1, LookupValue DEF IInv, IsHole, InMap
<1>3. ASSUME NEW q \in Port
      PROVE  lookup(q)' = IF q = PortOf(i) THEN s ELSE lookup(q)
  <2>1. lookup(q) = IF map[q] # NULL THEN map[q]
                    ELSE IF isEphemeralRange(q) THEN sockets[SlotOf(q)] ELSE NULL
    BY LookupValue DEF IInv
  <2>2. lookup(q)' = IF map'[q] # NULL THEN map'[q]
                     ELSE IF isEphemeralRange(q) THEN sockets'[SlotOf(q)] ELSE NULL
    BY SlotPort, PortAssumption DEF TypeOK, lookup, InMap, Slot
  <2>3. isEphemeralRange(q) => SlotOf(q) \in Slot /\ (SlotOf(q) = i => q = PortOf(i))
    BY SlotPort
  <2>. QED
    BY <1>1, <2>1, <2>2, <2>3 DEF IInv, TypeOK, IsHole, InMap
<1>. QED
  BY <1>2, <1>3 DEF Granted

\* Taking the first hole (allocEphemeral, lines 43-53) grants an ephemeral port
\* nobody owned, and skips no hole.
LEMMA FillHoleStep ==
  ASSUME IInv, NEW s \in Socket, FillHole(s)
  PROVE  Shape' /\ \E p \in Port : isEphemeralRange(p) /\ Granted(s, 0, p)
<1>1. PICK i \in searchStart .. length - 1 :
        /\ IsHole(i)
        /\ NoHoleIn(searchStart, i)
        /\ sockets' = [sockets EXCEPT ![i] = s]
        /\ searchStart' = i + 1
        /\ allocated' = allocated + 1
        /\ reply' = Answer(s, 0, PortOf(i))
        /\ UNCHANGED <<length, map>>
  BY ZenonT(60) DEF FillHole
<1>2. i \in Slot /\ i < length /\ 0 <= i
  BY <1>1, PortAssumption DEF IInv, TypeOK, Slot
<1>3. TypeOK'
  BY <1>1, <1>2, SlotPort, PortAssumption DEF IInv, TypeOK, Slot, Answer
<1>4. SearchStartSound'
  <2>. SUFFICES ASSUME NEW j \in Slot, j <= i PROVE ~IsHole(j)'
    BY <1>1, <1>2 DEF SearchStartSound, Slot
  <2>1. CASE j = i
    BY <1>1, <1>2, <2>1, PortAssumption DEF IsHole, IInv, TypeOK
  <2>2. CASE j # i
    <3>1. ~IsHole(j)
      BY <1>1, <1>2, <2>2
         DEF IInv, SearchStartSound, NoHoleIn, TypeOK, Slot
    <3>. QED
      BY <1>1, <1>2, <2>2, <3>1 DEF IsHole, InMap, IInv, TypeOK
  <2>. QED
    BY <2>1, <2>2
<1>5. OneOwner'
  BY <1>1, <1>2 DEF IInv, TypeOK, OneOwner, IsHole, InMap
<1>6. Granted(s, 0, PortOf(i))
  BY <1>1, <1>2, <1>3, PlaceEffect, ZenonT(60)
<1>. QED
  BY <1>2, <1>3, <1>4, <1>5, <1>6, SlotPort DEF Shape

\* Growing the array (allocEphemeral, lines 55-66) grants an ephemeral port
\* nobody owned, and skips no hole.
LEMMA PushSocketStep ==
  ASSUME IInv, NEW s \in Socket, PushSocket(s)
  PROVE  Shape' /\ \E p \in Port : isEphemeralRange(p) /\ Granted(s, 0, p)
<1>1. PICK i \in length .. EPHEMERAL_PORT_COUNT - 1 :
        /\ ~InMap(PortOf(i))
        /\ \A j \in length .. i - 1 : InMap(PortOf(j))
        /\ sockets' = [sockets EXCEPT ![i] = s]
        /\ length' = i + 1
        /\ searchStart' = i + 1
        /\ allocated' = allocated + 1
        /\ reply' = Answer(s, 0, PortOf(i))
        /\ UNCHANGED map
  BY ZenonT(60) DEF PushSocket
<1>2. i \in Slot /\ length <= i /\ IsHole(i)
  BY <1>1, PortAssumption DEF IInv, TypeOK, Slot, IsHole
<1>3. TypeOK'
  BY <1>1, <1>2, SlotPort, PortAssumption DEF IInv, TypeOK, Slot, Answer
<1>4. SearchStartSound'
  <2>. SUFFICES ASSUME NEW j \in Slot, j <= i PROVE ~IsHole(j)'
    BY <1>1, <1>2 DEF SearchStartSound, Slot
  <2>1. CASE j = i
    BY <1>1, <1>2, <2>1, PortAssumption DEF IsHole, IInv, TypeOK
  <2>2. CASE j # i
    <3>1. ~IsHole(j)
      <4>1. CASE j < searchStart
        BY <4>1, <1>2 DEF IInv, SearchStartSound, TypeOK, Slot
      <4>2. CASE searchStart <= j /\ j < length
        BY <4>2, <1>2 DEF PushSocket, NoHoleIn, IInv, TypeOK, Slot
      <4>3. CASE length <= j
        BY <4>3, <1>1, <1>2, <2>2 DEF IsHole, IInv, TypeOK, Slot
      <4>. QED
        BY <4>1, <4>2, <4>3, PortAssumption DEF IInv, TypeOK, Slot
    <3>. QED
      BY <1>1, <1>2, <2>2, <3>1 DEF IsHole, InMap, IInv, TypeOK
  <2>. QED
    BY <2>1, <2>2
<1>5. OneOwner'
  BY <1>1, <1>2 DEF IInv, TypeOK, OneOwner, IsHole, InMap
<1>6. Granted(s, 0, PortOf(i))
  BY <1>1, <1>2, <1>3, PlaceEffect, ZenonT(60)
<1>. QED
  BY <1>2, <1>3, <1>4, <1>5, <1>6, SlotPort DEF Shape

\* allocEphemeral returns 0 (line 68) only when every ephemeral port is owned,
\* and then it changes the owner of none.
LEMMA ExhaustedStep ==
  ASSUME IInv, NEW s \in Socket, Exhausted(s)
  PROVE  /\ Shape'
         /\ Untouched
         /\ reply' = Answer(s, 0, 0)
         /\ \A p \in Port : isEphemeralRange(p) => lookup(p) # NULL
<1>1. TypeOK'
  BY PortAssumption DEF IInv, TypeOK, Exhausted, Slot, Answer
<1>2. SearchStartSound' /\ OneOwner'
  BY DEF IInv, SearchStartSound, IsHole, InMap, OneOwner, Exhausted
<1>3. ASSUME NEW q \in Port PROVE lookup(q)' = lookup(q)
  <2>1. lookup(q) = IF map[q] # NULL THEN map[q]
                    ELSE IF isEphemeralRange(q) THEN sockets[SlotOf(q)] ELSE NULL
    BY LookupValue DEF IInv
  <2>2. lookup(q)' = IF map'[q] # NULL THEN map'[q]
                     ELSE IF isEphemeralRange(q) THEN sockets'[SlotOf(q)] ELSE NULL
    BY <1>1, SlotPort, PortAssumption DEF TypeOK, lookup, InMap, Slot
  <2>. QED
    BY <2>1, <2>2 DEF Exhausted
<1>4. ASSUME NEW p \in Port, isEphemeralRange(p) PROVE lookup(p) # NULL
  <2>. DEFINE i == SlotOf(p)
  <2>1. i \in Slot /\ PortOf(i) = p
    BY <1>4, SlotPort
  <2>2. ~IsHole(i)
    <3>1. CASE i < searchStart
      BY <2>1, <3>1 DEF IInv, SearchStartSound, TypeOK, Slot
    <3>2. CASE searchStart <= i /\ i < length
      BY <2>1, <3>2 DEF Exhausted, NoHoleIn, IInv, TypeOK, Slot
    <3>3. CASE length <= i
      BY <2>1, <3>3, PortAssumption DEF Exhausted, IsHole, IInv, TypeOK, Slot
    <3>. QED
      BY <2>1, <3>1, <3>2, <3>3 DEF IInv, TypeOK, Slot
  <2>. QED
    BY <1>4, <2>1, <2>2, LookupValue DEF IsHole, InMap, IInv
<1>. QED
  BY <1>1, <1>2, <1>3, <1>4 DEF Shape, Untouched, Exhausted

\* allocPort grants the port asked for, or refuses it because it is owned.
LEMMA AllocPortStep ==
  ASSUME IInv, NEW s \in Socket, NEW p \in Port, allocPort(p, s)
  PROVE  /\ Shape'
         /\ \/ Granted(s, p, p)
            \/ Untouched /\ reply' = Answer(s, p, 0) /\ lookup(p) # NULL
<1>1. CASE lookup(p) # NULL
  <2>1. /\ UNCHANGED <<searchStart, allocated, length, sockets, map>>
        /\ reply' = Answer(s, p, 0)
    BY <1>1 DEF allocPort
  <2>2. Shape'
    BY <2>1 DEF IInv, Shape, TypeOK, SearchStartSound, IsHole, InMap,
                OneOwner, Answer
  <2>3. Untouched
    BY <2>1 DEF Untouched, lookup, InMap
  <2>. QED
    BY <1>1, <2>1, <2>2, <2>3
<1>2. CASE lookup(p) = NULL
  <2>1. /\ map' = [map EXCEPT ![p] = s]
        /\ allocated' = allocated + 1
        /\ reply' = Answer(s, p, p)
        /\ UNCHANGED <<searchStart, length, sockets>>
    BY <1>2 DEF allocPort
  <2>2. map[p] = NULL /\ (isEphemeralRange(p) => sockets[SlotOf(p)] = NULL)
    BY <1>2, LookupValue, PortAssumption DEF IInv, TypeOK
  <2>3. TypeOK'
    BY <2>1 DEF IInv, TypeOK, Answer
  <2>4. SearchStartSound'
    <3>. SUFFICES ASSUME NEW j \in Slot, j < searchStart PROVE ~IsHole(j)'
      BY <2>1 DEF SearchStartSound
    <3>1. ~IsHole(j)
      BY DEF IInv, SearchStartSound
    <3>. QED
      BY <2>1, <3>1, SlotPort, PortAssumption DEF IsHole, InMap, IInv, TypeOK
  <2>5. OneOwner'
    <3>. SUFFICES ASSUME NEW i \in Slot, sockets[i] # NULL
                  PROVE  map'[PortOf(i)] = NULL
      BY <2>1 DEF OneOwner, InMap
    <3>1. PortOf(i) # p
      BY <2>2, SlotPort
    <3>. QED
      BY <2>1, <3>1, SlotPort DEF IInv, OneOwner, InMap, TypeOK
  <2>6. ASSUME NEW q \in Port
        PROVE  lookup(q)' = IF q = p THEN s ELSE lookup(q)
    <3>. QED
      BY <2>1, PortAssumption DEF lookup, InMap, IInv, TypeOK
  <2>. QED
    BY <1>2, <2>1, <2>3, <2>4, <2>5, <2>6 DEF Shape, Granted
<1>. QED
  BY <1>1, <1>2

\* free of a port in the Map (lines 89-99) releases that port and no other.
LEMMA FreeMappedStep ==
  ASSUME IInv, NEW p \in Port, FreeMapped(p), reply' = Answer(NULL, p, p)
  PROVE  SearchStartSound' /\ OneOwner' /\ Released(p)
         /\ (allocated' \in Nat => TypeOK')
<1>1. /\ map[p] # NULL
      /\ map' = [map EXCEPT ![p] = NULL]
      /\ allocated' = allocated - 1
      /\ searchStart' = IF isEphemeralRange(p) THEN LoweredTo(SlotOf(p))
                        ELSE searchStart
      /\ UNCHANGED <<length, sockets>>
  BY DEF FreeMapped, InMap
<1>2. isEphemeralRange(p) => sockets[SlotOf(p)] = NULL
  BY <1>1, SlotPort DEF IInv, OneOwner, InMap
<1>3. searchStart' \in Int /\ searchStart \in Int /\ searchStart' <= searchStart
      /\ 0 <= searchStart'
  BY <1>1, SlotPort, PortAssumption DEF LoweredTo, IInv, TypeOK, Slot
<1>4. isEphemeralRange(p) => searchStart' <= SlotOf(p)
  BY <1>1, SlotPort, PortAssumption DEF LoweredTo, IInv, TypeOK, Slot
<1>5. allocated' \in Nat => TypeOK'
  BY <1>1, <1>3 DEF IInv, TypeOK, Answer
<1>6. SearchStartSound'
  <2>. SUFFICES ASSUME NEW j \in Slot, j < searchStart' PROVE ~IsHole(j)'
    BY DEF SearchStartSound
  <2>1. ~IsHole(j)
    BY <1>3 DEF IInv, SearchStartSound, Slot
  <2>2. PortOf(j) # p /\ PortOf(j) \in Port
    BY <1>4, <1>3, <2>1, SlotPort DEF Slot
  <2>. QED
    BY <1>1, <2>1, <2>2 DEF IsHole, InMap, IInv, TypeOK
<1>7. OneOwner'
  BY <1>1, SlotPort DEF IInv, OneOwner, InMap, TypeOK
<1>8. lookup(p) # NULL
  BY <1>1 DEF lookup, InMap
<1>9. ASSUME NEW q \in Port
      PROVE  lookup(q)' = IF q = p THEN NULL ELSE lookup(q)
  BY <1>1, <1>2 DEF lookup, InMap, IInv, TypeOK
<1>. QED
  BY <1>1, <1>5, <1>6, <1>7, <1>8, <1>9 DEF Released

\* free of a port in the array (lines 101-121) releases that port and no other,
\* also when the count reaches zero and the whole array is dropped.
LEMMA FreeSlotStep ==
  ASSUME IInv, NEW p \in Port, FreeSlot(p), reply' = Answer(NULL, p, p)
  PROVE  SearchStartSound' /\ OneOwner' /\ Released(p)
         /\ (allocated' \in Nat => TypeOK')
<1>. DEFINE i == SlotOf(p)
<1>1. /\ map[p] = NULL
      /\ isEphemeralRange(p)
      /\ i < length
      /\ sockets[i] # NULL
      /\ allocated' = allocated - 1
      /\ map' = map
  BY DEF FreeSlot, InMap
<1>2. i \in Slot /\ PortOf(i) = p
  BY <1>1, SlotPort
<1>3. lookup(p) # NULL /\ p \in Owned
  BY <1>1 DEF lookup, InMap, Owned
<1>4. CASE allocated' = 0
  <2>1. /\ sockets' = [j \in Slot |-> NULL]
        /\ length' = 0
        /\ searchStart' = 0
    BY <1>4, ZenonT(60) DEF FreeSlot
  <2>2. Owned = {p}
    <3>1. Cardinality(Owned) = 1
      BY <1>1, <1>4 DEF IInv, AllocatedExact, TypeOK
    <3>. QED
      BY <1>3, <3>1, OwnedFinite, FS_Singleton
  <2>3. \A q \in Port : q # p => lookup(q) = NULL
    BY <2>2 DEF Owned
  <2>4. \A q \in Port : map[q] = NULL
    BY <1>1, <2>3 DEF lookup, InMap
  <2>5. \A q \in Port : lookup(q)' = NULL
    BY <1>1, <2>1, <2>4, SlotPort DEF lookup, InMap, Slot
  <2>6. Released(p)
    BY <1>1, <1>3, <2>3, <2>5 DEF Released
  <2>7. SearchStartSound' /\ OneOwner'
    BY <2>1 DEF SearchStartSound, OneOwner, Slot
  <2>8. allocated' \in Nat => TypeOK'
    BY <1>1, <2>1, PortAssumption DEF TypeOK, IInv, Answer
  <2>. QED
    BY <2>6, <2>7, <2>8
<1>5. CASE allocated' # 0
  <2>1. /\ sockets' = [sockets EXCEPT ![i] = NULL]
        /\ searchStart' = LoweredTo(i)
        /\ length' = length
    BY <1>5 DEF FreeSlot
  <2>2. /\ searchStart' \in Int /\ searchStart \in Int /\ searchStart' <= searchStart
        /\ 0 <= searchStart' /\ searchStart' <= i
    BY <1>2, <2>1, PortAssumption DEF LoweredTo, IInv, TypeOK, Slot
  <2>3. allocated' \in Nat => TypeOK'
    BY <1>1, <1>2, <2>1, <2>2 DEF TypeOK, IInv, Answer
  <2>4. SearchStartSound'
    <3>. SUFFICES ASSUME NEW j \in Slot, j < searchStart' PROVE ~IsHole(j)'
      BY DEF SearchStartSound
    <3>1. ~IsHole(j) /\ j # i
      BY <2>2, <1>2 DEF IInv, SearchStartSound, Slot
    <3>. QED
      BY <1>1, <1>2, <2>1, <3>1 DEF IsHole, InMap, IInv, TypeOK
  <2>5. OneOwner'
    BY <1>1, <1>2, <2>1 DEF IInv, TypeOK, OneOwner, InMap
  <2>6. ASSUME NEW q \in Port
        PROVE  lookup(q)' = IF q = p THEN NULL ELSE lookup(q)
    <3>1. isEphemeralRange(q) => SlotOf(q) \in Slot /\ (SlotOf(q) = i => q = p)
      BY <1>2, SlotPort
    <3>. QED
      BY <1>1, <1>2, <2>1, <3>1 DEF lookup, InMap, IInv, TypeOK
  <2>. QED
    BY <1>1, <1>3, <2>3, <2>4, <2>5, <2>6, ZenonT(60) DEF Released
<1>. QED
  BY <1>4, <1>5

\* free, in all its cases, releases the port or finds that nobody owns it.
LEMMA FreeStep ==
  ASSUME IInv, NEW p \in Port, free(p)
  PROVE  /\ SearchStartSound' /\ OneOwner'
         /\ allocated' \in Nat => TypeOK'
         /\ Released(p) \/ (Untouched /\ lookup(p) = NULL)
         /\ reply' = Answer(NULL, p, p)
<1>1. CASE FreeMapped(p)
  BY <1>1, FreeMappedStep DEF free
<1>2. CASE FreeSlot(p)
  BY <1>2, FreeSlotStep DEF free
<1>3. CASE FreeNothing(p)
  <2>1. SearchStartSound' /\ OneOwner' /\ TypeOK'
    BY <1>3 DEF IInv, TypeOK, SearchStartSound, IsHole, InMap,
                OneOwner, Answer, FreeNothing, free
  <2>2. Untouched
    BY <1>3 DEF FreeNothing, Untouched, lookup, InMap
  <2>. QED
    BY <1>3, <2>1, <2>2 DEF FreeNothing, free
<1>. QED
  BY <1>1, <1>2, <1>3 DEF free

-----------------------------------------------------------------------------
\* The count follows from what the call did to lookup.
LEMMA CountFromEffect ==
  ASSUME IInv
  PROVE  /\ \A s \in Socket, a \in Port \cup {0}, p \in Port : Granted(s, a, p) => AllocatedExact'
         /\ \A p \in Port : Released(p) => AllocatedExact' /\ allocated' \in Nat
         /\ Untouched => AllocatedExact' /\ allocated' \in Nat
<1>1. ASSUME NEW s \in Socket, NEW a \in Port \cup {0}, NEW p \in Port, Granted(s, a, p)
      PROVE  AllocatedExact'
  <2>1. p \notin Owned /\ Owned' = Owned \cup {p} /\ allocated' = allocated + 1
    BY <1>1, PortAssumption DEF Granted, Owned, Port
  <2>. QED
    BY <2>1, CountUp
<1>2. ASSUME NEW p \in Port, Released(p)
      PROVE  AllocatedExact' /\ allocated' \in Nat
  <2>1. p \in Owned /\ Owned' = Owned \ {p} /\ allocated' = allocated - 1
    BY <1>2 DEF Released, Owned, Port
  <2>. QED
    BY <2>1, CountDown
<1>3. ASSUME Untouched PROVE AllocatedExact' /\ allocated' \in Nat
  <2>1. Owned' = Owned
    BY <1>3 DEF Untouched, Owned, Port
  <2>. QED
    BY <1>3, <2>1 DEF Untouched, AllocatedExact, IInv, TypeOK
<1>. QED
  BY <1>1, <1>2, <1>3

\* Every call, and every step that changes nothing, preserves the invariant.
LEMMA NextInv == IInv /\ [Next]_vars => IInv'
<1>. SUFFICES ASSUME IInv, [Next]_vars PROVE IInv'
  OBVIOUS
<1>1. ASSUME NEW s \in Socket, allocEphemeral(s) PROVE IInv'
  <2>1. CASE FillHole(s)
    BY <2>1, FillHoleStep, CountFromEffect DEF IInv, Shape
  <2>2. CASE PushSocket(s)
    BY <2>2, PushSocketStep, CountFromEffect DEF IInv, Shape
  <2>3. CASE Exhausted(s)
    BY <2>3, ExhaustedStep, CountFromEffect DEF IInv, Shape
  <2>. QED
    BY <1>1, <2>1, <2>2, <2>3 DEF allocEphemeral
<1>2. ASSUME NEW s \in Socket, NEW p \in Port, allocPort(p, s) PROVE IInv'
  BY <1>2, AllocPortStep, CountFromEffect DEF IInv, Shape
<1>3. ASSUME NEW p \in Port, free(p) PROVE IInv'
  BY <1>3, FreeStep, CountFromEffect DEF IInv
<1>4. CASE UNCHANGED vars
  <2>1. Untouched
    BY <1>4 DEF vars, Untouched, lookup, InMap
  <2>2. Shape'
    BY <1>4 DEF vars, IInv, Shape, TypeOK, SearchStartSound, IsHole, InMap, OneOwner
  <2>. QED
    BY <2>1, <2>2, CountFromEffect DEF IInv, Shape
<1>. QED
  BY <1>1, <1>2, <1>3, <1>4 DEF Next

\* In every reachable state of port-allocator.js the fields have their types,
\* no hole is left behind the search cursor, no port has two owners and the
\* count of allocated ports is exact.
THEOREM Invariance == Spec => [](TypeOK /\ SearchStartSound /\ OneOwner /\ AllocatedExact)
<1>1. IInv => TypeOK /\ SearchStartSound /\ OneOwner /\ AllocatedExact
  BY DEF IInv
<1>. QED
  BY InitInv, NextInv, <1>1, PTL DEF Spec

\* The search for a free port may start at searchStart (lines 43-46): whichever ports
\* are freed, in whichever order, no hole lies before it.
THEOREM HintSound == Spec => []SearchStartSound
  BY Invariance, PTL

-----------------------------------------------------------------------------
\* A call of the allocator is a call of the abstract table.
LEMMA StepRefines == IInv /\ [Next]_vars => [Registry!Next]_(Registry!vars)
<1>. SUFFICES ASSUME IInv, [Next]_vars PROVE [Registry!Next]_(Registry!vars)
  OBVIOUS
<1>. DEFINE own == [p \in Port |-> lookup(p)]
            eph == {p \in Port : isEphemeralRange(p)}
<1>. USE DEF Registry!Answer, Answer
<1>1. ASSUME NEW s, NEW a, NEW p \in Port, Granted(s, a, p) PROVE Registry!Grant(s, a, p)
  <2>1. own' = [own EXCEPT ![p] = s]
    BY <1>1, ZenonT(60) DEF Granted, Port
  <2>. QED
    BY <1>1, <2>1 DEF Granted, Registry!Grant
<1>2. Untouched => own' = own
  BY DEF Untouched, Port
<1>3. ASSUME NEW s \in Socket, allocEphemeral(s) PROVE Registry!TakeEphemeral(s)
  <2>1. CASE FillHole(s) \/ PushSocket(s)
    <3>1. PICK p \in Port : isEphemeralRange(p) /\ Granted(s, 0, p)
      BY <2>1, FillHoleStep, PushSocketStep
    <3>. QED
      BY <1>1, <3>1 DEF Registry!TakeEphemeral
  <2>2. CASE Exhausted(s)
    BY <1>2, <2>2, ExhaustedStep DEF Registry!TakeEphemeral, Registry!Refuse
  <2>. QED
    BY <1>3, <2>1, <2>2 DEF allocEphemeral
<1>4. ASSUME NEW s \in Socket, NEW p \in Port, allocPort(p, s)
      PROVE  Registry!TakePort(s, p)
  BY <1>1, <1>2, <1>4, AllocPortStep DEF Registry!TakePort, Registry!Refuse
<1>5. ASSUME NEW p \in Port, free(p) PROVE Registry!Release(p)
  <2>1. own' = [own EXCEPT ![p] = NULL]
    <3>1. CASE Released(p)
      BY <3>1, ZenonT(60) DEF Released, Port
    <3>2. CASE Untouched /\ lookup(p) = NULL
      BY <3>2, ZenonT(60) DEF Untouched, Port
    <3>. QED
      BY <1>5, <3>1, <3>2, FreeStep
  <2>. QED
    BY <1>5, <2>1, FreeStep DEF Registry!Release
<1>6. CASE UNCHANGED vars
  BY <1>6 DEF vars, Registry!vars, lookup, InMap, Port
<1>. QED
  BY <1>3, <1>4, <1>5, <1>6 DEF Next, Registry!Next

\* port-allocator.js implements the abstract port table: it grants only ports
\* nobody owns, never takes a port from its owner without a free, and refuses
\* an ephemeral port only when the whole range is owned.
THEOREM Refinement == Spec => RegistrySpec
<1>1. Init => Registry!Init
  <2>. SUFFICES ASSUME Init PROVE Registry!Init
    OBVIOUS
  <2>1. \A p \in Port : lookup(p) = NULL
    BY InitInv, LookupValue, SlotPort DEF Init, IInv
  <2>. QED
    BY <2>1 DEF Init, Registry!Init, Answer, Registry!Answer
<1>. QED
  BY <1>1, InitInv, NextInv, StepRefines, PTL DEF Spec, RegistrySpec, Registry!Spec

-----------------------------------------------------------------------------
(* The sockets *)

\* A closed socket still names its port.
UdpTypeOK ==
  /\ boundPort \in [Socket -> Port \cup {0}]
  /\ closed \in SUBSET Socket
  /\ misused \in BOOLEAN
  /\ \A s \in closed : boundPort[s] # 0

\* The inductive invariant: the allocator's, the types and the agreement.
UInv == IInv /\ UdpTypeOK /\ PortsAgree

-----------------------------------------------------------------------------
\* The sockets' calls are calls of the allocator or leave it alone, so they
\* preserve its invariant.
LEMMA AllocatorInv == UInv /\ [UdpNext]_udpVars => IInv'
<1>. SUFFICES ASSUME UInv, [UdpNext]_udpVars PROVE [Next]_vars
  BY NextInv DEF UInv
<1>1. ASSUME NEW s \in Socket, constructor(s) PROVE UNCHANGED vars
  BY <1>1 DEF constructor
<1>2. ASSUME NEW s \in Socket, send(s) PROVE Next
  BY <1>2 DEF send, Next
<1>3. ASSUME NEW s \in Socket, NEW p \in Port, bind(s, p) PROVE Next
  BY <1>3 DEF bind, Next
<1>4. ASSUME NEW s \in Socket, close(s) PROVE Next
  <2>1. boundPort[s] \in Port
    BY <1>4 DEF UInv, UdpTypeOK, close
  <2>. QED
    BY <1>4, <2>1 DEF close, Next
<1>5. CASE UNCHANGED udpVars
  BY <1>5 DEF udpVars
<1>. QED
  BY <1>1, <1>2, <1>3, <1>4, <1>5 DEF UdpNext

\* A socket that gets a port it did not have (send, bind), and had none before,
\* owns exactly that port.
LEMMA GrantAgrees ==
  ASSUME UInv, NEW s \in Socket, NEW asked, NEW p \in Port, Granted(s, asked, p),
         boundPort' = [boundPort EXCEPT ![s] = p], closed' = closed \ {s},
         misused' = (misused \/ (boundPort[s] # 0 /\ s \notin closed))
  PROVE  UdpTypeOK' /\ PortsAgree'
<1>1. UdpTypeOK'
  BY DEF UInv, UdpTypeOK, Port
<1>2. ASSUME ~misused', NEW t \in Socket, NEW q \in Port
      PROVE  lookup(q)' = t <=> (boundPort'[t] = q /\ t \notin closed')
  <2>1. ~misused /\ (boundPort[s] = 0 \/ s \in closed)
    BY <1>2, ZenonT(60)
  <2>2. lookup(q) = t <=> (boundPort[t] = q /\ t \notin closed)
    BY <2>1 DEF UInv, PortsAgree
  <2>3. lookup(q)' = IF q = p THEN s ELSE lookup(q)
    BY DEF Granted
  <2>4. lookup(p) = NULL /\ NULL # t
    BY PortAssumption DEF Granted
  <2>5. CASE t = s
    <3>1. boundPort'[t] = p /\ t \notin closed'
      BY <2>5 DEF UInv, UdpTypeOK
    <3>2. lookup(q) # s
      BY <2>1, <2>2, <2>5 DEF Port
    <3>. QED
      BY <2>3, <2>5, <3>1, <3>2
  <2>6. CASE t # s
    <3>1. boundPort'[t] = boundPort[t] /\ (t \in closed' <=> t \in closed)
      BY <2>6 DEF UInv, UdpTypeOK
    <3>. QED
      BY <2>2, <2>3, <2>4, <2>6, <3>1
  <2>. QED
    BY <2>5, <2>6
<1>. QED
  BY <1>1, <1>2 DEF PortsAgree

\* A call that changes nothing keeps the agreement: a refused bind, a send that
\* finds no free port.
LEMMA RefusalAgrees ==
  ASSUME UInv, Untouched, boundPort' = boundPort, closed' = closed, misused' = misused
  PROVE  UdpTypeOK' /\ PortsAgree'
<1>1. UdpTypeOK'
  BY DEF UInv, UdpTypeOK
<1>2. PortsAgree'
  BY DEF UInv, PortsAgree, Untouched
<1>. QED
  BY <1>1, <1>2

\* The close of an open socket gives back its own port and no other.
LEMMA CloseAgrees ==
  ASSUME UInv, NEW s \in Socket, close(s)
  PROVE  UdpTypeOK' /\ PortsAgree'
<1>1. /\ boundPort[s] # 0 /\ free(boundPort[s]) /\ closed' = closed \cup {s}
      /\ misused' = (misused \/ s \in closed) /\ boundPort' = boundPort
  BY DEF close
<1>2. UdpTypeOK'
  BY <1>1 DEF UInv, UdpTypeOK
<1>3. boundPort[s] \in Port
  BY <1>1 DEF UInv, UdpTypeOK
<1>4. ASSUME ~misused', NEW t \in Socket, NEW q \in Port
      PROVE  lookup(q)' = t <=> (boundPort'[t] = q /\ t \notin closed')
  <2>1. ~misused /\ s \notin closed
    BY <1>1, <1>4, ZenonT(60)
  <2>2. \A u \in Socket, p \in Port :
          lookup(p) = u <=> (boundPort[u] = p /\ u \notin closed)
    BY <2>1 DEF UInv, PortsAgree
  <2>3. lookup(boundPort[s]) = s /\ NULL \notin Socket
    BY <1>3, <2>1, <2>2, PortAssumption
  <2>4. Released(boundPort[s])
    BY <1>1, <1>3, <2>3, FreeStep DEF UInv
  <2>5. lookup(q)' = IF q = boundPort[s] THEN NULL ELSE lookup(q)
    BY <2>4 DEF Released
  <2>. QED
    BY <1>1, <1>3, <2>1, <2>2, <2>3, <2>5
<1>. QED
  BY <1>2, <1>4 DEF PortsAgree

\* The first send of a socket (lines 62-67) gets it a port of its own or throws.
LEMMA SendAgrees ==
  ASSUME UInv, NEW s \in Socket, send(s)
  PROVE  UdpTypeOK' /\ PortsAgree'
<1>1. /\ boundPort[s] = 0 /\ s \notin closed /\ allocEphemeral(s)
      /\ boundPort' = [boundPort EXCEPT ![s] = reply'.port]
      /\ closed' = closed /\ misused' = misused
  BY DEF send, UInv, UdpTypeOK
<1>2. CASE FillHole(s) \/ PushSocket(s)
  <2>1. PICK p \in Port : Granted(s, 0, p)
    BY <1>2, FillHoleStep, PushSocketStep DEF UInv
  <2>2. boundPort' = [boundPort EXCEPT ![s] = p]
    BY <1>1, <2>1 DEF Granted, Answer
  <2>3. closed' = closed \ {s}
    BY <1>1
  <2>4. misused' = (misused \/ (boundPort[s] # 0 /\ s \notin closed))
    BY <1>1 DEF UInv, UdpTypeOK
  <2>. QED
    BY <2>1, <2>2, <2>3, <2>4, GrantAgrees, ZenonT(60)
<1>3. CASE Exhausted(s)
  <2>1. Untouched /\ reply'.port = 0
    BY <1>3, ExhaustedStep DEF UInv, Answer
  <2>2. boundPort' = boundPort
    BY <1>1, <2>1 DEF UInv, UdpTypeOK
  <2>. QED
    BY <1>1, <2>1, <2>2, RefusalAgrees
<1>. QED
  BY <1>1, <1>2, <1>3 DEF allocEphemeral

\* bind (lines 74-82) gets the socket the port it asked for, or leaves both the
\* socket and the owner of that port as they were.
LEMMA BindAgrees ==
  ASSUME UInv, NEW s \in Socket, NEW p \in Port, bind(s, p)
  PROVE  UdpTypeOK' /\ PortsAgree'
<1>1. Granted(s, p, p) \/ (Untouched /\ reply' = Answer(s, p, 0))
  BY AllocPortStep DEF bind, UInv
<1>2. CASE Granted(s, p, p)
  <2>1. reply'.port # 0
    BY <1>2 DEF Granted, Answer, Port
  <2>2. /\ boundPort' = [boundPort EXCEPT ![s] = p] /\ closed' = closed \ {s}
        /\ misused' = (misused \/ (boundPort[s] # 0 /\ s \notin closed))
    BY <2>1 DEF bind
  <2>. QED
    BY <1>2, <2>2, GrantAgrees, ZenonT(60)
<1>3. CASE Untouched /\ reply' = Answer(s, p, 0)
  <2>1. reply'.port = 0
    BY <1>3 DEF Answer
  <2>. QED
    BY <1>3, <2>1, RefusalAgrees DEF bind
<1>. QED
  BY <1>1, <1>2, <1>3

\* A new socket (lines 29-34) names no port and owns none.
LEMMA ConstructorAgrees ==
  ASSUME UInv, NEW s \in Socket, constructor(s)
  PROVE  UdpTypeOK' /\ PortsAgree'
<1>1. /\ boundPort' = [boundPort EXCEPT ![s] = 0] /\ closed' = closed \ {s}
      /\ misused' = misused /\ \A p \in Port : lookup(p) # s
      /\ \A p \in Port : lookup(p)' = lookup(p)
  BY DEF constructor, vars, lookup, InMap
<1>2. UdpTypeOK'
  BY <1>1 DEF UInv, UdpTypeOK
<1>3. ASSUME ~misused', NEW t \in Socket, NEW q \in Port
      PROVE  lookup(q)' = t <=> (boundPort'[t] = q /\ t \notin closed')
  <2>1. lookup(q) = t <=> (boundPort[t] = q /\ t \notin closed)
    BY <1>1, <1>3 DEF UInv, PortsAgree
  <2>2. boundPort'[t] = IF t = s THEN 0 ELSE boundPort[t]
    BY <1>1 DEF UInv, UdpTypeOK
  <2>3. q # 0
    BY DEF Port
  <2>. QED
    BY <1>1, <2>1, <2>2, <2>3
<1>. QED
  BY <1>2, <1>3 DEF PortsAgree

\* Every call of a socket preserves the agreement.
LEMMA UdpStep == UInv /\ [UdpNext]_udpVars => UInv'
<1>. SUFFICES ASSUME UInv, [UdpNext]_udpVars PROVE UdpTypeOK' /\ PortsAgree'
  BY AllocatorInv DEF UInv
<1>1. CASE UdpNext
  BY <1>1, ConstructorAgrees, SendAgrees, BindAgrees, CloseAgrees DEF UdpNext
<1>2. CASE UNCHANGED udpVars
  <2>1. Untouched
    BY <1>2 DEF udpVars, vars, Untouched, lookup, InMap
  <2>. QED
    BY <1>2, <2>1, RefusalAgrees DEF udpVars
<1>. QED
  BY <1>1, <1>2

\* In every reachable state of udp-socket.js, as long as no socket was bound or
\* closed twice, a port is owned by a socket exactly while that socket is open
\* and names it; the allocator's own invariants hold whatever the calls.
THEOREM Ownership == UdpSpec => [](IInv /\ PortsAgree)
<1>1. UdpInit => UInv
  <2>. SUFFICES ASSUME UdpInit PROVE UInv
    OBVIOUS
  <2>1. IInv
    BY InitInv DEF UdpInit
  <2>2. UdpTypeOK
    BY ZenonT(60) DEF UdpInit, UdpTypeOK
  <2>3. \A p \in Port : lookup(p) = NULL
    BY <2>1, LookupValue, SlotPort DEF UdpInit, Init, IInv
  <2>4. PortsAgree
    BY <2>3, PortAssumption DEF UdpInit, PortsAgree, Port
  <2>. QED
    BY <2>1, <2>2, <2>4 DEF UInv
<1>2. UInv => IInv /\ PortsAgree
  BY DEF UInv
<1>. QED
  BY <1>1, <1>2, UdpStep, PTL DEF UdpSpec
=============================================================================
