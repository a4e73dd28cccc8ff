--------------------------- MODULE SequenceLemmas ---------------------------
(***************************************************************************)
(* What the operations on arrays, queues and vectors that the models use   *)
(* do to their members; least elements and injections.                     *)
(***************************************************************************)
EXTENDS Integers, Sequences, Functions, FiniteSetTheorems, WellFoundedInduction, TLAPS

\* The time a leaf may take, and a second attempt with more
USE SMTT(30), SMTT(60)

\* What push and shift do to the members of a queue
LEMMA Members ==
  ASSUME NEW S, NEW q \in Seq(S), NEW e \in S
  PROVE  /\ Range(q) \subseteq S
         /\ Append(q, e) \in Seq(S) /\ Len(Append(q, e)) = Len(q) + 1
         /\ Range(Append(q, e)) = Range(q) \cup {e}
         /\ q # <<>> => /\ Tail(q) \in Seq(S) /\ Len(Tail(q)) = Len(q) - 1
                        /\ Head(q) \in S /\ Range(q) = {Head(q)} \cup Range(Tail(q))
<1>1. Range(q) \subseteq S
  BY DEF Range
<1>2. /\ Append(q, e) \in Seq(S) /\ Len(Append(q, e)) = Len(q) + 1
      /\ Range(Append(q, e)) = Range(q) \cup {e}
  <2>1. /\ Append(q, e) \in Seq(S) /\ Len(Append(q, e)) = Len(q) + 1
        /\ DOMAIN Append(q, e) = DOMAIN q \cup {Len(q) + 1}
        /\ \A i \in DOMAIN q : Append(q, e)[i] = q[i]
        /\ Append(q, e)[Len(q) + 1] = e
    OBVIOUS
  <2>. QED
    BY <2>1 DEF Range
<1>3. ASSUME q # <<>>
      PROVE  /\ Tail(q) \in Seq(S) /\ Len(Tail(q)) = Len(q) - 1 /\ Head(q) \in S
             /\ Range(q) = {Head(q)} \cup Range(Tail(q))
  <2>1. /\ Tail(q) \in Seq(S) /\ Len(Tail(q)) = Len(q) - 1 /\ Head(q) \in S
        /\ \A i \in 1 .. Len(Tail(q)) : Tail(q)[i] = q[i + 1]
        /\ Len(q) \in Nat /\ Len(q) >= 1 /\ DOMAIN q = 1 .. Len(q) /\ Head(q) = q[1]
        /\ DOMAIN Tail(q) = 1 .. Len(q) - 1
    BY <1>3
  <2>2. \A i \in DOMAIN q : i = 1 \/ (i - 1 \in DOMAIN Tail(q) /\ Tail(q)[i - 1] = q[i])
    BY <2>1
  <2>3. Range(q) \subseteq {Head(q)} \cup Range(Tail(q))
    <3>. SUFFICES ASSUME NEW i \in DOMAIN q PROVE q[i] = Head(q) \/ q[i] \in Range(Tail(q))
      BY DEF Range
    <3>. QED
      BY <2>1, <2>2, ZenonT(60) DEF Range
  <2>4. {Head(q)} \cup Range(Tail(q)) \subseteq Range(q)
    BY <2>1 DEF Range
  <2>. QED
    BY <2>1, <2>3, <2>4
<1>. QED
  BY <1>1, <1>2, <1>3

\* The queue without its i-th member
Without(q, i) == SubSeq(q, 1, i - 1) \o SubSeq(q, i + 1, Len(q))

\* What taking one member out of the middle of a queue leaves
LEMMA RemovedAt ==
  ASSUME NEW S, NEW q \in Seq(S), NEW i \in DOMAIN q, NEW r, r = Without(q, i)
  PROVE  /\ r \in Seq(S) /\ Len(r) = Len(q) - 1
         /\ \A k \in 1 .. Len(q) - 1 : r[k] = IF k < i THEN q[k] ELSE q[k + 1]
         /\ Range(r) \subseteq Range(q)
<1>. DEFINE a == SubSeq(q, 1, i - 1)
            b == SubSeq(q, i + 1, Len(q))
<1>1. i \in 1 .. Len(q) /\ Len(q) \in Nat
  OBVIOUS
<1>2. a \in Seq(S) /\ Len(a) = i - 1 /\ \A k \in 1 .. i - 1 : a[k] = q[k]
  BY <1>1
<1>3. b \in Seq(S) /\ Len(b) = Len(q) - i /\ \A k \in 1 .. Len(q) - i : b[k] = q[i + k]
  <2>1. /\ i + 1 \in Int /\ Len(q) \in Int
        /\ \A k \in i + 1 .. Len(q) : q[k] \in S
    BY <1>1
  <2>2. /\ b \in Seq(S)
        /\ Len(b) = IF i + 1 <= Len(q) THEN Len(q) - (i + 1) + 1 ELSE 0
        /\ \A k \in 1 .. Len(q) - (i + 1) + 1 : b[k] = q[i + 1 + k - 1]
    BY ONLY <2>1, SMTT(60)
  <2>. HIDE DEF b
  <2>. QED
    BY ONLY <1>1, <2>2
<1>4. r = a \o b
  BY DEF Without
<1>. HIDE DEF a, b
<1>5. r \in Seq(S) /\ Len(r) = Len(q) - 1
  BY ONLY <1>1, <1>2, <1>3, <1>4, SMTT(60)
<1>6. \A k \in 1 .. Len(q) - 1 : r[k] = IF k < i THEN q[k] ELSE q[k + 1]
  <2>1. \A k \in 1 .. Len(a) + Len(b) : r[k] = IF k <= Len(a) THEN a[k] ELSE b[k - Len(a)]
    <3>1. a \in Seq(S) /\ b \in Seq(S) /\ r = a \o b
      BY <1>2, <1>3, <1>4
    <3>. QED
      BY ONLY <3>1
  <2>. SUFFICES ASSUME NEW k \in 1 .. Len(q) - 1
                PROVE  r[k] = IF k < i THEN q[k] ELSE q[k + 1]
    OBVIOUS
  <2>2. CASE k < i
    <3>1. k \in 1 .. Len(a) + Len(b) /\ k <= Len(a) /\ k \in 1 .. i - 1
      BY ONLY <1>1, <1>2, <1>3, <2>2, k \in 1 .. Len(q) - 1, SMTT(60)
    <3>2. r[k] = a[k] /\ a[k] = q[k]
      BY ONLY <1>2, <2>1, <3>1
    <3>. QED
      BY <2>2, <3>2
  <2>3. CASE ~ (k < i)
    <3>1. PICK n \in Nat : n = Len(q)
      BY <1>1
    <3>2. i \in Int /\ k \in Int /\ 1 <= i /\ i <= n /\ i <= k /\ k <= n - 1
      BY <1>1, <2>3, <3>1
    <3>3. Len(a) = i - 1 /\ Len(b) = n - i
      BY <1>2, <1>3, <3>1
    <3>4. k \in 1 .. Len(a) + Len(b) /\ ~ (k <= Len(a))
      BY ONLY <3>2, <3>3, n \in Nat, SMTT(60)
    <3>5. k - Len(a) \in 1 .. n - i /\ i + (k - Len(a)) = k + 1
      BY ONLY <3>2, <3>3, n \in Nat, SMTT(60)
    <3>6. r[k] = b[k - Len(a)]
      BY ONLY <2>1, <3>4
    <3>7. b[k - Len(a)] = q[i + (k - Len(a))]
      BY <1>3, <3>1, <3>5
    <3>. QED
      BY <2>3, <3>5, <3>6, <3>7
  <2>. QED
    BY <2>2, <2>3
<1>7. Range(r) \subseteq Range(q)
  <2>. SUFFICES ASSUME NEW k \in DOMAIN r PROVE r[k] \in Range(q)
    BY DEF Range
  <2>1. k \in 1 .. Len(q) - 1 /\ DOMAIN q = 1 .. Len(q)
    BY ONLY <1>1, <1>5, q \in Seq(S), k \in DOMAIN r
  <2>2. k \in DOMAIN q /\ k + 1 \in DOMAIN q
    BY ONLY <1>1, <2>1
  <2>3. r[k] = q[k] \/ r[k] = q[k + 1]
    BY ONLY <1>6, <2>1
  <2>. QED
    BY ONLY <2>2, <2>3 DEF Range
<1>. QED
  BY <1>5, <1>6, <1>7

\* One queue after another
LEMMA ConcatMembers ==
  ASSUME NEW S, NEW p \in Seq(S), NEW q \in Seq(S)
  PROVE  p \o q \in Seq(S) /\ Range(p \o q) = Range(p) \cup Range(q)
<1>1. /\ p \o q \in Seq(S) /\ DOMAIN (p \o q) = 1 .. Len(p) + Len(q)
      /\ DOMAIN p = 1 .. Len(p) /\ DOMAIN q = 1 .. Len(q) /\ Len(p) \in Nat /\ Len(q) \in Nat
      /\ \A i \in DOMAIN (p \o q) : (p \o q)[i] = IF i <= Len(p) THEN p[i] ELSE q[i - Len(p)]
  OBVIOUS
<1>2. \A i \in DOMAIN p : i \in DOMAIN (p \o q) /\ (p \o q)[i] = p[i]
  BY <1>1
<1>3. \A i \in DOMAIN q : i + Len(p) \in DOMAIN (p \o q) /\ (p \o q)[i + Len(p)] = q[i]
  BY <1>1
<1>4. \A i \in DOMAIN (p \o q) : i \in DOMAIN p \/ i - Len(p) \in DOMAIN q
  BY <1>1
<1>5. Range(p) \subseteq Range(p \o q) /\ Range(q) \subseteq Range(p \o q)
  BY <1>2, <1>3, ZenonT(60) DEF Range
<1>6. Range(p \o q) \subseteq Range(p) \cup Range(q)
  BY <1>1, <1>4 DEF Range
<1>. QED
  BY <1>1, <1>5, <1>6

\* What holds nowhere below a least counterexample and is inherited has none.
LEMMA LeastOf ==
  ASSUME NEW T, T \subseteq Nat, T # {}
  PROVE  \E m \in T : \A k \in T : m <= k
<1>1. PICK m \in T : \A k \in T : ~ (<<k, m>> \in OpToRel(<, Nat))
  BY NatLessThanWellFounded, WFMin, ZenonT(60)
<1>2. \A k, n \in Nat : <<k, n>> \in OpToRel(<, Nat) <=> k < n
  BY DEF OpToRel
<1>3. \A k \in T : m <= k
  <2>. SUFFICES ASSUME NEW k \in T PROVE m <= k
    OBVIOUS
  <2>1. k \in Nat /\ m \in Nat /\ ~ (k < m)
    BY <1>1, <1>2, ZenonT(60)
  <2>. QED
    BY <2>1
<1>. QED
  BY <1>3

\* n different members of a set of size numbers: n is at most size.
LEMMA AtMost ==
  ASSUME NEW n \in Nat, NEW size \in Nat, NEW f \in [1 .. n -> 0 .. size - 1],
         \A i, j \in 1 .. n : f[i] = f[j] => i = j
  PROVE  n <= size
<1>1. f \in Injection(1 .. n, 0 .. size - 1)
  BY DEF Injection, IsInjective
<1>2. IsFiniteSet(0 .. size - 1) /\ Cardinality(0 .. size - 1) = size
  BY FS_Interval
<1>3. Cardinality(1 .. n) = n
  BY FS_Interval
<1>. QED
  BY <1>1, <1>2, <1>3, FS_Injection

\* Remainders, from quotients
LEMMA Remainder ==
  ASSUME NEW m \in Nat, m > 0
  PROVE  /\ \A x \in Int : /\ x % m \in 0 .. m - 1 /\ x \div m \in Int
                           /\ x % m = x - m * (x \div m)
         /\ \A x, q \in Int : \A r \in 0 .. m - 1 : x = q * m + r => x % m = r
<1>1. \A x \in Int : x % m \in 0 .. m - 1 /\ x \div m \in Int
  OBVIOUS
<1>2. \A x \in Int : x % m = x - m * (x \div m)
  OBVIOUS
<1>3. ASSUME NEW x \in Int, NEW q \in Int, NEW r \in 0 .. m - 1, x = q * m + r PROVE x % m = r
  BY <1>3
<1>. QED
  BY <1>1, <1>2, <1>3
=============================================================================
