-------------------------- MODULE TcpReceiveProofs --------------------------
(***************************************************************************)
(* The receiving half of a TCP socket (js/core/net/tcp-socket.js), and that*)
(* a stream arrives in order and once, for every size of the sequence      *)
(* numbers, of the window and of the queues, and every stream.             *)
(*                                                                         *)
(* Numbers come first, then the loop of _processReceiveQueue: every round  *)
(* takes an item that starts at the edge or before it, and an item that    *)
(* cannot be taken waits behind a gap.  Then the loop of                   *)
(* _sendTransmitQueue, which reception runs and which leaves the receiving *)
(* half alone; then insertion; then TcpReceive.                            *)
(***************************************************************************)
EXTENDS TcpReceive, SequenceLemmas

\* The time a leaf may take, and a second attempt with more
USE SMTT(30), SMTT(60)

-----------------------------------------------------------------------------
(* Sequence numbers, buffers and the loops *)

\* The sizes are positive, and twice the window fits into the sequence numbers.
LEMMA SizeTypes ==
  /\ SeqSpace \in Nat /\ SeqSpace > 0 /\ RxWindow \in Nat /\ RxWindow > 0
  /\ MSS \in Nat /\ MSS > 0 /\ MaxRetransmits \in Nat /\ 2 * RxWindow < SeqSpace
  BY SocketAssumption

\* The number of a position d further on, when the numbers wrap around at most
\* once between the two
LEMMA NumberStep ==
  ASSUME NEW x \in Int, NEW d \in 0 .. SeqSpace - 1
  PROVE  /\ x % SeqSpace \in 0 .. SeqSpace - 1
         /\ (x + d) % SeqSpace = IF (x % SeqSpace) + d < SeqSpace THEN (x % SeqSpace) + d
                                 ELSE (x % SeqSpace) + d - SeqSpace
<1>. DEFINE q == x \div SeqSpace
            r == x % SeqSpace
<1>1. SeqSpace \in Nat /\ SeqSpace > 0
  BY SizeTypes
<1>2. /\ q \in Int /\ r \in 0 .. SeqSpace - 1 /\ r = x - SeqSpace * q
      /\ \A y, p \in Int : \A t \in 0 .. SeqSpace - 1 : y = p * SeqSpace + t => y % SeqSpace = t
  BY <1>1, Remainder
<1>. HIDE DEF q, r
<1>3. CASE r + d < SeqSpace
  <2>1. x + d \in Int /\ r + d \in 0 .. SeqSpace - 1 /\ x + d = q * SeqSpace + (r + d)
    BY <1>1, <1>2, <1>3
  <2>2. (x + d) % SeqSpace = r + d
    BY ONLY <1>2, <2>1
  <2>. QED
    BY <1>2, <1>3, <2>2 DEF r
<1>4. CASE ~ (r + d < SeqSpace)
  <2>1. /\ x + d \in Int /\ r + d - SeqSpace \in 0 .. SeqSpace - 1 /\ q + 1 \in Int
        /\ x + d = (q + 1) * SeqSpace + (r + d - SeqSpace)
    BY <1>1, <1>2, <1>4
  <2>2. (x + d) % SeqSpace = r + d - SeqSpace
    BY ONLY <1>2, <2>1
  <2>. QED
    BY <1>2, <1>4, <2>2 DEF r
<1>. QED
  BY <1>3, <1>4

\* A number is its own remainder.
LEMMA Small == \A x \in 0 .. SeqSpace - 1 : x % SeqSpace = x
  BY SizeTypes, Remainder

\* Which of two numbers is within the window at the other, when their positions
\* are known
LEMMA WithinIs ==
  ASSUME NEW e \in Int, NEW k \in Int, k < e + SeqSpace, e <= k + (SeqSpace - RxWindow)
  PROVE  /\ _receiveWindowIsWithin(k % SeqSpace, e % SeqSpace) <=> (e <= k /\ k < e + RxWindow)
         /\ k % SeqSpace = e % SeqSpace <=> k = e
<1>. DEFINE a == e % SeqSpace
            b == k % SeqSpace
<1>1. /\ SeqSpace \in Nat /\ RxWindow \in Nat /\ RxWindow > 0 /\ 2 * RxWindow < SeqSpace
  BY SizeTypes
<1>2. a \in 0 .. SeqSpace - 1 /\ b \in 0 .. SeqSpace - 1
  BY <1>1, Remainder
<1>3. a + RxWindow \in Nat /\ SEQ_INC(a, RxWindow) = IF a + RxWindow < SeqSpace THEN a + RxWindow ELSE a + RxWindow - SeqSpace
  <2>1. a % SeqSpace = a
    BY <1>2, Small
  <2>2. a \in Int /\ RxWindow \in 0 .. SeqSpace - 1 /\ a + RxWindow \in Nat
    BY <1>1, <1>2
  <2>. HIDE DEF a
  <2>. QED
    BY <2>1, <2>2, NumberStep, ZenonT(60) DEF SEQ_INC
<1>4. e <= k => b = IF a + (k - e) < SeqSpace THEN a + (k - e) ELSE a + (k - e) - SeqSpace
  <2>. SUFFICES ASSUME e <= k PROVE b = IF a + (k - e) < SeqSpace THEN a + (k - e) ELSE a + (k - e) - SeqSpace
    OBVIOUS
  <2>1. k - e \in 0 .. SeqSpace - 1 /\ e + (k - e) = k
    BY <1>1
  <2>. QED
    BY ONLY <2>1, NumberStep, e \in Int
<1>5. k < e => a = IF b + (e - k) < SeqSpace THEN b + (e - k) ELSE b + (e - k) - SeqSpace
  <2>. SUFFICES ASSUME k < e PROVE a = IF b + (e - k) < SeqSpace THEN b + (e - k) ELSE b + (e - k) - SeqSpace
    OBVIOUS
  <2>1. e - k \in 0 .. SeqSpace - 1 /\ k + (e - k) = e
    BY <1>1
  <2>. QED
    BY ONLY <2>1, NumberStep, k \in Int
<1>. HIDE DEF a, b
<1>6. a = b <=> k = e
  BY <1>1, <1>2, <1>4, <1>5
<1>7. _receiveWindowIsWithin(b, a) <=> (e <= k /\ k < e + RxWindow)
  <2>. DEFINE r == SEQ_INC(a, RxWindow)
  <2>1. _receiveWindowIsWithin(b, a) <=> IF a < r THEN b >= a /\ b < r ELSE b >= a \/ b < r
    BY DEF _receiveWindowIsWithin
  <2>2. r = IF a + RxWindow < SeqSpace THEN a + RxWindow ELSE a + RxWindow - SeqSpace
    BY <1>3
  <2>. HIDE DEF r
  <2>. QED
    BY <1>1, <1>2, <1>4, <1>5, <2>1, <2>2
<1>. QED
  BY <1>6, <1>7 DEF a, b

\* The distance between two numbers whose positions are known
LEMMA DistanceIs ==
  ASSUME NEW e \in Int, NEW k \in Int
  PROVE  /\ k <= e /\ e < k + SeqSpace => ((e % SeqSpace) - (k % SeqSpace)) % SeqSpace = e - k
         /\ e < k /\ k < e + SeqSpace =>
              ((e % SeqSpace) - (k % SeqSpace)) % SeqSpace = SeqSpace - (k - e)
<1>. DEFINE a == e % SeqSpace
            b == k % SeqSpace
<1>1. SeqSpace \in Nat /\ SeqSpace > 0
  BY SizeTypes
<1>2. a \in 0 .. SeqSpace - 1 /\ b \in 0 .. SeqSpace - 1
  BY <1>1, Remainder
<1>0. \A y, p \in Int : \A t \in 0 .. SeqSpace - 1 : y = p * SeqSpace + t => y % SeqSpace = t
  BY <1>1, Remainder
<1>3. ASSUME k <= e, e < k + SeqSpace PROVE (a - b) % SeqSpace = e - k
  <2>1. e - k \in 0 .. SeqSpace - 1 /\ k + (e - k) = e
    BY <1>1, <1>3
  <2>2. a = IF b + (e - k) < SeqSpace THEN b + (e - k) ELSE b + (e - k) - SeqSpace
    BY ONLY <2>1, NumberStep, k \in Int
  <2>. HIDE DEF a, b
  <2>3. a - b \in Int /\ (a - b = 0 * SeqSpace + (e - k) \/ a - b = (-1) * SeqSpace + (e - k))
    BY <1>1, <1>2, <2>1, <2>2
  <2>. QED
    BY <1>0, <2>1, <2>3
<1>4. ASSUME e < k, k < e + SeqSpace PROVE (a - b) % SeqSpace = SeqSpace - (k - e)
  <2>1. k - e \in 0 .. SeqSpace - 1 /\ e + (k - e) = k /\ SeqSpace - (k - e) \in 0 .. SeqSpace - 1
    BY <1>1, <1>4
  <2>2. b = IF a + (k - e) < SeqSpace THEN a + (k - e) ELSE a + (k - e) - SeqSpace
    BY ONLY <2>1, NumberStep, e \in Int, SMTT(60)
  <2>. HIDE DEF a, b
  <2>3. /\ a - b \in Int
        /\ \/ a - b = 0 * SeqSpace + (SeqSpace - (k - e))
           \/ a - b = (-1) * SeqSpace + (SeqSpace - (k - e))
    BY <1>1, <1>2, <2>1, <2>2
  <2>. QED
    BY <1>0, <2>1, <2>3
<1>. QED
  BY <1>3, <1>4, ZenonT(60) DEF a, b

\* Numbers count on
LEMMA NumberAdds ==
  ASSUME NEW x \in Int, NEW n \in Int
  PROVE  SEQ_INC(x % SeqSpace, n) = (x + n) % SeqSpace
<1>1. SeqSpace \in Nat /\ SeqSpace > 0
  BY SizeTypes
<1>2. /\ \A y \in Int : /\ y % SeqSpace \in 0 .. SeqSpace - 1 /\ y \div SeqSpace \in Int
                        /\ y % SeqSpace = y - SeqSpace * (y \div SeqSpace)
      /\ \A y, p \in Int : \A t \in 0 .. SeqSpace - 1 : y = p * SeqSpace + t => y % SeqSpace = t
  BY <1>1, Remainder
<1>3. PICK q \in Int, r \in 0 .. SeqSpace - 1 : x % SeqSpace = r /\ r = x - SeqSpace * q
  BY <1>2
<1>4. PICK p \in Int, t \in 0 .. SeqSpace - 1 : (r + n) % SeqSpace = t /\ t = (r + n) - SeqSpace * p
  BY <1>2
<1>5. x + n \in Int /\ p + q \in Int /\ x + n = (p + q) * SeqSpace + t
  BY <1>1, <1>3, <1>4
<1>6. (x + n) % SeqSpace = t
  BY <1>2, <1>5
<1>. QED
  BY <1>3, <1>4, <1>6 DEF SEQ_INC

\* The bytes of a stream as a sequence
LEMMA BytesAre ==
  ASSUME NEW a \in Int, NEW c \in Int, a <= c
  PROVE  /\ Bytes(a, c) \in Seq(Int) /\ Len(Bytes(a, c)) = c - a
         /\ \A i \in 1 .. c - a : Bytes(a, c)[i] = a + i
         /\ a = c => Bytes(a, c) = <<>>
<1>1. c - a \in Nat
  OBVIOUS
<1>2. Bytes(a, c) = [i \in 1 .. c - a |-> a + i]
  BY DEF Bytes
<1>3. Bytes(a, c) \in Seq(Int) /\ Len(Bytes(a, c)) = c - a
  BY <1>1, <1>2
<1>4. a = c => Bytes(a, c) = <<>>
  BY <1>3
<1>. QED
  BY <1>2, <1>3, <1>4

\* A part of the bytes of a stream
LEMMA BytesPart ==
  ASSUME NEW a \in Int, NEW c \in Int, NEW x \in Int, NEW y \in Int, a <= x, x <= y, y <= c
  PROVE  SubSeq(Bytes(a, c), (x - a) + 1, y - a) = Bytes(x, y)
<1>. DEFINE i == (x - a) + 1
            j == y - a
            u == Bytes(a, c)
            v == SubSeq(u, i, j)
            w == Bytes(x, y)
<1>0. a <= c /\ i \in Nat /\ i >= 1 /\ j \in Nat /\ j <= c - a 
  OBVIOUS
<1>1. u \in Seq(Int) /\ Len(u) = c - a /\ \A k \in 1 .. c - a : u[k] = a + k
  BY <1>0, BytesAre
<1>2. w \in Seq(Int) /\ Len(w) = y - x /\ \A k \in 1 .. y - x : w[k] = x + k
  BY BytesAre
<1>. HIDE DEF i, j, u, w
<1>3. v \in Seq(Int) /\ Len(v) = y - x /\ \A k \in 1 .. y - x : v[k] = u[(x - a) + k]
  <2>1. \A k \in i .. j : u[k] \in Int
    BY <1>0, <1>1
  <2>2. /\ v \in Seq(Int)
        /\ Len(v) = IF i <= j THEN j - i + 1 ELSE 0
        /\ \A k \in 1 .. j - i + 1 : v[k] = u[i + k - 1]
    BY ONLY <1>0, <1>1, <2>1
  <2>. HIDE DEF v
  <2>3. j - i + 1 = y - x /\ (i <= j \/ y - x = 0)
    BY DEF i, j
  <2>4. Len(v) = y - x
    BY <1>0, <2>2, <2>3
  <2>5. ASSUME NEW k \in 1 .. y - x PROVE v[k] = u[(x - a) + k]
    <3>1. k \in 1 .. j - i + 1 /\ i + k - 1 = (x - a) + k
      BY DEF i, j
    <3>. QED
      BY <2>2, <3>1
  <2>. QED
    BY <2>2, <2>4, <2>5
<1>. HIDE DEF v
<1>4. \A k \in 1 .. y - x : v[k] = w[k]
  BY <1>1, <1>2, <1>3
<1>5. v = w
  BY <1>2, <1>3, <1>4
<1>. QED
  BY <1>5 DEF i, j, u, v, w

\* Bytes that follow each other
LEMMA BytesJoin ==
  ASSUME NEW a \in Int, NEW b \in Int, NEW c \in Int, a <= b, b <= c
  PROVE  Bytes(a, b) \o Bytes(b, c) = Bytes(a, c)
<1>. DEFINE u == Bytes(a, b)
            v == Bytes(b, c)
            w == Bytes(a, c)
<1>0. a <= c
  OBVIOUS
<1>1. /\ u \in Seq(Int) /\ Len(u) = b - a /\ \A i \in 1 .. b - a : u[i] = a + i
      /\ v \in Seq(Int) /\ Len(v) = c - b /\ \A i \in 1 .. c - b : v[i] = b + i
      /\ w \in Seq(Int) /\ Len(w) = c - a /\ \A i \in 1 .. c - a : w[i] = a + i
  BY <1>0, BytesAre, ZenonT(60)
<1>. HIDE DEF u, v, w
<1>2. /\ u \o v \in Seq(Int) /\ Len(u \o v) = c - a
      /\ \A i \in 1 .. c - a : (u \o v)[i] = IF i <= b - a THEN u[i] ELSE v[i - (b - a)]
  <2>1. /\ u \o v \in Seq(Int) /\ Len(u \o v) = Len(u) + Len(v)
        /\ \A i \in 1 .. Len(u) + Len(v) :
             (u \o v)[i] = IF i <= Len(u) THEN u[i] ELSE v[i - Len(u)]
    <3>1. u \in Seq(Int) /\ v \in Seq(Int)
      BY <1>1
    <3>. QED
      BY ONLY <3>1
  <2>2. Len(u) + Len(v) = c - a
    BY <1>1
  <2>. QED
    BY <1>1, <2>1, <2>2, ZenonT(60)
<1>3. ASSUME NEW i \in 1 .. c - a PROVE (u \o v)[i] = w[i]
  <2>1. CASE i <= b - a
    BY <1>1, <1>2, <2>1
  <2>2. CASE ~ (i <= b - a)
    <3>1. i - (b - a) \in 1 .. c - b /\ b + (i - (b - a)) = a + i
      BY <2>2
    <3>. QED
      BY <1>1, <1>2, <2>2, <3>1, ZenonT(60)
  <2>. QED
    BY <2>1, <2>2, ZenonT(60)
<1>4. u \o v = w
  <2>. DEFINE t == u \o v
  <2>1. t \in Seq(Int) /\ w \in Seq(Int) /\ Len(t) = Len(w) /\ \A i \in 1 .. Len(w) : t[i] = w[i]
    BY <1>1, <1>2, <1>3
  <2>. HIDE DEF t
  <2>2. t = [i \in 1 .. Len(t) |-> t[i]] /\ w = [i \in 1 .. Len(w) |-> w[i]]
    <3>1. t \in Seq(Int) /\ w \in Seq(Int)
      BY <2>1
    <3>. QED
      BY ONLY <3>1
  <2>3. t = w
    BY ONLY <2>1, <2>2, SMTT(60)
  <2>. QED
    BY <2>3 DEF t
<1>. QED
  BY <1>4 DEF u, v, w

\* The least of a set of numbers
LEMMA MinOf ==
  ASSUME NEW T, T \subseteq Nat, T # {}
  PROVE  Min(T) \in T /\ \A k \in T : Min(T) <= k
  BY LeastOf, ZenonT(60) DEF Min

-----------------------------------------------------------------------------
(* The receive queue *)

RItem == [seq : Int, len : Int, u8 : Seq(Int)]

\* The item of the bytes between from and to, and the one of the FIN after n bytes,
\* of a stream that starts at the number st
DataItem(st, from, to) ==
  [seq |-> (st + from) % SeqSpace, len |-> to - from, u8 |-> Bytes(from, to)]

FinItem(st, n) == [seq |-> (st + n) % SeqSpace, len |-> 1, u8 |-> <<>>]

\* x is an item of a stream of n bytes of which nothing is after position c; when
\* all before e was received and e will stay below b, its number tells its position.
Fits(x, st, n, c, b, e) ==
  \/ \E from, to \in Nat :
       /\ from < to /\ to <= n /\ to <= c /\ to < b
       /\ from < e + RxWindow /\ b <= from + (SeqSpace - RxWindow)
       /\ x = DataItem(st, from, to)
  \/ /\ n < c /\ n < e + SeqSpace /\ b <= n + (SeqSpace - RxWindow)
     /\ x = FinItem(st, n)

\* How far the bytes go that come before a position, the FIN included
Cut(e, n) == IF e <= n THEN e ELSE n

\* Where the edge of the window may be
EdgeIn(e, n, c, b) == e \in Nat /\ e <= n + 1 /\ e <= c /\ e <= b /\ (e <= n => e < b)

\* Items after the edge and within the window
Waits(x, edge) == (x.seq - edge) % SeqSpace \in 1 .. RxWindow - 1

\* An item, as the loop of lines 524-573 sees it with the edge at e: left alone if it
\* waits, otherwise taken with what is new of it.
LEMMA ItemTaken ==
  ASSUME NEW st \in Int, NEW n \in Nat, NEW c \in Int, NEW b \in Int, NEW e,
         EdgeIn(e, n, c, b), NEW x, Fits(x, st, n, c, b, e),
         NEW lastAck, lastAck = (st + e) % SeqSpace
  PROVE  /\ ~ Takes(x, lastAck) => Waits(x, lastAck)
         /\ Takes(x, lastAck) => \E f :
              /\ EdgeIn(f, n, c, b) /\ e <= f
              /\ AckAfter(x, lastAck) = (st + f) % SeqSpace
              /\ Fresh(x, lastAck) = Bytes(Cut(e, n), Cut(f, n))
<1>0. /\ SeqSpace \in Nat /\ RxWindow \in Nat /\ RxWindow > 0 /\ 2 * RxWindow < SeqSpace
  BY SizeTypes
<1>1. e \in Nat /\ e <= n + 1 /\ e <= c /\ e <= b /\ (e <= n => e < b)
  BY DEF EdgeIn
<1>2. ASSUME NEW k \in Nat, k < e + SeqSpace, b <= k + (SeqSpace - RxWindow),
             x.seq = (st + k) % SeqSpace, x.len \in Nat, x.len > 0
      PROVE  /\ Takes(x, lastAck) <=> ~ (e < k /\ k < e + RxWindow)
             /\ k <= e => (lastAck - x.seq) % SeqSpace = e - k
             /\ e < k => (lastAck - x.seq) % SeqSpace = SeqSpace - (k - e)
             /\ ~ Takes(x, lastAck) => Waits(x, lastAck)
  <2>1. /\ st + e \in Int /\ st + k \in Int /\ st + k < (st + e) + SeqSpace
        /\ st + e <= (st + k) + (SeqSpace - RxWindow)
    BY <1>0, <1>1, <1>2
  <2>2. /\ _receiveWindowIsWithin(x.seq, lastAck) <=> (st + e <= st + k /\ st + k < st + e + RxWindow)
        /\ x.seq = lastAck <=> st + k = st + e
    BY <1>2, <2>1, WithinIs
  <2>3. Takes(x, lastAck) <=> ~ (e < k /\ k < e + RxWindow)
    <3>1. Takes(x, lastAck) <=> x.seq = lastAck \/ ~_receiveWindowIsWithin(x.seq, lastAck)
      BY <1>2 DEF Takes
    <3>. QED
      BY <1>0, <1>1, <2>2, <3>1
  <2>4. k <= e => (lastAck - x.seq) % SeqSpace = e - k
    <3>. SUFFICES ASSUME k <= e PROVE (lastAck - x.seq) % SeqSpace = e - k
      OBVIOUS
    <3>1. st + k <= st + e /\ st + e < (st + k) + SeqSpace /\ (st + e) - (st + k) = e - k
      BY <1>0, <1>1, <2>1
    <3>. QED
      BY <1>2, <2>1, <3>1, DistanceIs
  <2>5. e < k => (lastAck - x.seq) % SeqSpace = SeqSpace - (k - e)
    <3>. SUFFICES ASSUME e < k PROVE (lastAck - x.seq) % SeqSpace = SeqSpace - (k - e)
      OBVIOUS
    <3>1. st + e < st + k /\ (st + k) - (st + e) = k - e
      BY <1>0, <1>1, <2>1
    <3>. QED
      BY <1>2, <2>1, <3>1, DistanceIs
  <2>6. ~ Takes(x, lastAck) => Waits(x, lastAck)
    <3>. SUFFICES ASSUME e < k, k < e + RxWindow PROVE Waits(x, lastAck)
      BY <2>3
    <3>1. st + e <= st + k /\ st + k < (st + e) + SeqSpace /\ (st + k) - (st + e) = k - e
      BY <1>0, <1>1, <2>1
    <3>2. (x.seq - lastAck) % SeqSpace = k - e
      BY <1>2, <2>1, <3>1, DistanceIs
    <3>. QED
      BY <1>0, <1>1, <3>2 DEF Waits
  <2>. QED
    BY <2>3, <2>4, <2>5, <2>6
<1>3. CASE \E from, to \in Nat :
             /\ from < to /\ to <= n /\ to <= c /\ to < b
             /\ from < e + RxWindow /\ b <= from + (SeqSpace - RxWindow)
             /\ x = DataItem(st, from, to)
  <2>1. PICK from, to \in Nat :
             /\ from < to /\ to <= n /\ to <= c /\ to < b
             /\ from < e + RxWindow /\ b <= from + (SeqSpace - RxWindow)
             /\ x = DataItem(st, from, to)
    BY <1>3
  <2>2. x.seq = (st + from) % SeqSpace /\ x.len = to - from /\ x.u8 = Bytes(from, to)
    BY <2>1 DEF DataItem
  <2>3. from < e + SeqSpace /\ x.len \in Nat /\ x.len > 0
    BY <1>0, <1>1, <2>1, <2>2
  <2>4. /\ Takes(x, lastAck) <=> ~ (e < from /\ from < e + RxWindow)
        /\ from <= e => (lastAck - x.seq) % SeqSpace = e - from
        /\ ~ Takes(x, lastAck) => Waits(x, lastAck)
    BY <1>2, <2>1, <2>2, <2>3
  <2>5. ASSUME Takes(x, lastAck)
        PROVE  \E f : /\ EdgeIn(f, n, c, b) /\ e <= f
                      /\ AckAfter(x, lastAck) = (st + f) % SeqSpace
                      /\ Fresh(x, lastAck) = Bytes(Cut(e, n), Cut(f, n))
    <3>1. from <= e /\ (lastAck - x.seq) % SeqSpace = e - from
      BY <1>0, <1>1, <2>1, <2>4, <2>5
    <3>2. CASE e < to
      <4>1. EdgeIn(to, n, c, b) /\ e <= to
        BY <1>0, <1>1, <2>1, <3>2 DEF EdgeIn
      <4>2. (lastAck - x.seq) % SeqSpace < x.len
        BY <1>1, <2>2, <3>1, <3>2
      <4>3. AckAfter(x, lastAck) = (st + to) % SeqSpace
        <5>1. AckAfter(x, lastAck) = SEQ_INC(x.seq, x.len)
          BY <4>2 DEF AckAfter
        <5>2. st + from \in Int /\ to - from \in Int /\ (st + from) + (to - from) = st + to
          OBVIOUS
        <5>. QED
          BY <2>2, <5>1, <5>2, NumberAdds
      <4>4. Fresh(x, lastAck) = Bytes(e, to)
        <5>1. Fresh(x, lastAck) = SubSeq(x.u8, (e - from) + 1, Len(x.u8))
          BY <3>1, <4>2, ZenonT(60) DEF Fresh
        <5>2. Len(x.u8) = to - from
          BY <2>1, <2>2, BytesAre
        <5>3. from <= e /\ e <= to
          BY <1>1, <3>1, <3>2
        <5>4. SubSeq(Bytes(from, to), (e - from) + 1, to - from) = Bytes(e, to)
          <6>1. from \in Int /\ to \in Int /\ e \in Int /\ to <= to
            BY <1>1
          <6>. QED
            BY ONLY <5>3, <6>1, BytesPart, SMT
        <5>. QED
          BY <2>2, <5>1, <5>2, <5>4, ZenonT(60)
      <4>5. Cut(e, n) = e /\ Cut(to, n) = to
        BY <1>1, <2>1, <3>2 DEF Cut
      <4>. QED
        BY <4>1, <4>3, <4>4, <4>5
    <3>3. CASE ~ (e < to)
      <4>1. ~ ((lastAck - x.seq) % SeqSpace < x.len)
        BY <1>1, <2>2, <3>1, <3>3
      <4>2. AckAfter(x, lastAck) = (st + e) % SeqSpace /\ Fresh(x, lastAck) = <<>>
        BY <4>1 DEF AckAfter, Fresh
      <4>3. Cut(e, n) \in Int
        BY <1>1 DEF Cut
      <4>4. Bytes(Cut(e, n), Cut(e, n)) = <<>>
        BY <4>3, BytesAre
      <4>. QED
        BY <1>1, <4>2, <4>4
    <3>. QED
      BY <3>2, <3>3
  <2>. QED
    BY <2>4, <2>5
<1>4. CASE /\ n < c /\ n < e + SeqSpace /\ b <= n + (SeqSpace - RxWindow)
           /\ x = FinItem(st, n)
  <2>1. x.seq = (st + n) % SeqSpace /\ x.len = 1 /\ x.u8 = <<>>
    BY <1>4 DEF FinItem
  <2>2. x.len \in Nat /\ x.len > 0
    BY <2>1
  <2>3. /\ Takes(x, lastAck) <=> ~ (e < n /\ n < e + RxWindow)
        /\ n <= e => (lastAck - x.seq) % SeqSpace = e - n
        /\ e < n => (lastAck - x.seq) % SeqSpace = SeqSpace - (n - e)
        /\ ~ Takes(x, lastAck) => Waits(x, lastAck)
    BY <1>2, <1>4, <2>1, <2>2
  <2>4. Cut(e, n) \in Int /\ Bytes(Cut(e, n), Cut(e, n)) = <<>>
    <3>1. Cut(e, n) \in Int
      BY <1>1 DEF Cut
    <3>. QED
      BY <3>1, BytesAre
  <2>5. CASE e = n
    <3>1. (lastAck - x.seq) % SeqSpace = 0
      BY <1>1, <2>3, <2>5
    <3>2. AckAfter(x, lastAck) = SEQ_INC(x.seq, 1) /\ Fresh(x, lastAck) = SubSeq(x.u8, 0 + 1, Len(x.u8))
      BY <2>1, <3>1 DEF AckAfter, Fresh
    <3>3. AckAfter(x, lastAck) = (st + (n + 1)) % SeqSpace
      <4>1. st + n \in Int /\ (st + n) + 1 = st + (n + 1)
        OBVIOUS
      <4>. QED
        BY <2>1, <3>2, <4>1, NumberAdds
    <3>4. Fresh(x, lastAck) = <<>>
      BY <2>1, <3>2
    <3>5. EdgeIn(n + 1, n, c, b) /\ e <= n + 1
      BY <1>0, <1>1, <1>4, <2>5 DEF EdgeIn
    <3>6. Cut(n + 1, n) = Cut(e, n)
      BY <2>5 DEF Cut
    <3>. QED
      BY <2>3, <2>4, <3>3, <3>4, <3>5, <3>6
  <2>6. CASE e # n
    <3>1. ~ ((lastAck - x.seq) % SeqSpace < 1)
      BY <1>0, <1>1, <1>4, <2>3, <2>6
    <3>2. AckAfter(x, lastAck) = (st + e) % SeqSpace /\ Fresh(x, lastAck) = <<>>
      BY <2>1, <3>1 DEF AckAfter, Fresh
    <3>. QED
      BY <1>1, <2>3, <2>4, <3>2
  <2>. QED
    BY <2>5, <2>6
<1>. QED
  BY <1>3, <1>4 DEF Fits

\* An item fits also when more was received.
LEMMA FitsLater ==
  ASSUME NEW st, NEW n \in Nat, NEW c, NEW b, NEW e \in Nat, NEW f \in Nat, e <= f,
         NEW x, Fits(x, st, n, c, b, e)
  PROVE  Fits(x, st, n, c, b, f)
<1>0. SeqSpace \in Nat /\ RxWindow \in Nat
  BY SizeTypes
<1>1. CASE \E from, to \in Nat :
             /\ from < to /\ to <= n /\ to <= c /\ to < b
             /\ from < e + RxWindow /\ b <= from + (SeqSpace - RxWindow)
             /\ x = DataItem(st, from, to)
  <2>1. PICK from, to \in Nat :
             /\ from < to /\ to <= n /\ to <= c /\ to < b
             /\ from < e + RxWindow /\ b <= from + (SeqSpace - RxWindow)
             /\ x = DataItem(st, from, to)
    BY <1>1
  <2>2. from < f + RxWindow
    BY <1>0, <2>1
  <2>. QED
    BY <2>1, <2>2, ZenonT(60) DEF Fits
<1>2. CASE /\ n < c /\ n < e + SeqSpace /\ b <= n + (SeqSpace - RxWindow)
           /\ x = FinItem(st, n)
  <2>1. n < f + SeqSpace
    BY <1>0, <1>2
  <2>. QED
    BY <1>2, <2>1, ZenonT(60) DEF Fits
<1>. QED
  BY <1>1, <1>2, ZenonT(60) DEF Fits

\* The i-th item exchanged with the last one and taken out
Shorter(q, i) == SubSeq([q EXCEPT ![i] = q[Len(q)]], 1, Len(q) - 1)

\* What lines 556-562 and 577-583 leave of the queue
LEMMA ShorterIs ==
  ASSUME NEW S, NEW q \in Seq(S), NEW i \in DOMAIN q
  PROVE  /\ Shorter(q, i) \in Seq(S) /\ Len(Shorter(q, i)) = Len(q) - 1
         /\ Range(Shorter(q, i)) \subseteq Range(q)
<1>. DEFINE r == [q EXCEPT ![i] = q[Len(q)]]
            v == SubSeq(r, 1, Len(q) - 1)
<1>1. Len(q) \in Nat /\ Len(q) >= 1 /\ DOMAIN q = 1 .. Len(q) /\ i \in 1 .. Len(q)
  OBVIOUS
<1>2. /\ r \in Seq(S) /\ Len(r) = Len(q)
      /\ \A k \in 1 .. Len(q) : r[k] = q[k] \/ r[k] = q[Len(q)]
  BY <1>1
<1>. HIDE DEF r
<1>3. PICK m \in Nat : m = Len(q) - 1 /\ m <= Len(r)
  <2>1. Len(q) - 1 \in Nat /\ Len(q) - 1 <= Len(r)
    BY <1>1, <1>2
  <2>. QED
    BY <2>1, ZenonT(60)
<1>4. SubSeq(r, 1, m) \in Seq(S) /\ Len(SubSeq(r, 1, m)) = m /\ \A k \in 1 .. m : SubSeq(r, 1, m)[k] = r[k]
  <2>1. r \in Seq(S) /\ m \in Nat /\ m <= Len(r)
    BY <1>2, <1>3
  <2>. QED
    BY ONLY <2>1
<1>5. v \in Seq(S) /\ Len(v) = Len(q) - 1 /\ DOMAIN v = 1 .. m /\ \A k \in 1 .. m : v[k] = r[k]
  BY <1>3, <1>4
<1>. HIDE DEF v
<1>6. Range(v) \subseteq Range(q)
  <2>. SUFFICES ASSUME NEW k \in DOMAIN v PROVE v[k] \in Range(q)
    BY DEF Range
  <2>1. k \in 1 .. Len(q) /\ Len(q) \in DOMAIN q /\ k \in DOMAIN q
    BY <1>1, <1>3, <1>5
  <2>2. v[k] = q[k] \/ v[k] = q[Len(q)]
    BY <1>2, <1>5, <2>1
  <2>. QED
    BY <2>1, <2>2 DEF Range
<1>. QED
  BY <1>5, <1>6, ZenonT(60) DEF Shorter, r, v

\* What the loop of lines 524-573 starts from
TakeStart(s) == [queue |-> s.receiveQueue, lastAck |-> s.rxEdge, data |-> <<>>]

\* g has the rest of the queue after each of the first m rounds.
IsTake(g, s, m) ==
  /\ g = [j \in 0 .. m |-> g[j]]
  /\ g[0] = TakeStart(s)
  /\ \A j \in 1 .. m : g[j] = TakeOne(g[j - 1])

\* One round more of the loop of lines 524-573
LEMMA TakeExtends ==
  ASSUME NEW s, NEW m \in Nat, NEW g, IsTake(g, s, m)
  PROVE  \E h : IsTake(h, s, m + 1)
<1>. DEFINE h == [j \in 0 .. m + 1 |-> IF j <= m THEN g[j] ELSE TakeOne(g[m])]
<1>1. h = [j \in 0 .. m + 1 |-> h[j]]
  OBVIOUS
<1>2. h[0] = TakeStart(s)
  BY DEF IsTake
<1>3. ASSUME NEW j \in 1 .. m + 1 PROVE h[j] = TakeOne(h[j - 1])
  <2>1. CASE j \in 1 .. m
    <3>1. h[j] = g[j] /\ h[j - 1] = g[j - 1]
      BY <2>1
    <3>. QED
      BY <2>1, <3>1, ZenonT(60) DEF IsTake
  <2>2. CASE j = m + 1
    <3>1. h[j] = TakeOne(g[m]) /\ h[j - 1] = g[m]
      BY <2>2
    <3>. QED
      BY <2>2, <3>1
  <2>. QED
    BY <2>1, <2>2
<1>. HIDE DEF h
<1>. QED
  BY <1>1, <1>2, <1>3, ZenonT(60) DEF IsTake

\* The rounds of that loop exist, however long the queue is.
LEMMA TakeExists ==
  ASSUME NEW s, NEW n \in Nat
  PROVE  \E g : IsTake(g, s, n)
<1>. DEFINE T == {m \in Nat : ~ \E g : IsTake(g, s, m)}
<1>. SUFFICES ASSUME T # {} PROVE FALSE
  OBVIOUS
<1>1. PICK m \in T : \A k \in T : m <= k
  BY LeastOf, ZenonT(60)
<1>2. m # 0
  <2>. DEFINE g == [j \in 0 .. 0 |-> TakeStart(s)]
  <2>1. IsTake(g, s, 0)
    BY DEF IsTake
  <2>. QED
    BY <2>1
<1>3. m - 1 \in Nat /\ m - 1 \notin T
  BY <1>1, <1>2
<1>4. PICK g : IsTake(g, s, m - 1)
  BY <1>3
<1>5. \E h : IsTake(h, s, (m - 1) + 1)
  BY <1>3, <1>4, TakeExtends
<1>6. (m - 1) + 1 = m
  BY <1>3
<1>. QED
  BY <1>1, <1>5, <1>6

\* The recursive function of TakeRounds meets its equation.
LEMMA TakeLoop ==
  ASSUME NEW s, NEW n, n = Len(s.receiveQueue), n \in Nat
  PROVE  IsTake(TakeRounds(s), s, n)
<1>. DEFINE after == TakeRounds(s)
            Body(g) == [j \in 0 .. n |-> IF j = 0 THEN TakeStart(s) ELSE TakeOne(g[j - 1])]
<1>1. PICK g : IsTake(g, s, n)
  BY TakeExists, ZenonT(60)
<1>2. g = Body(g)
  <2>1. g = [j \in 0 .. n |-> g[j]]
    BY <1>1 DEF IsTake
  <2>2. ASSUME NEW j \in 0 .. n
        PROVE  g[j] = IF j = 0 THEN TakeStart(s) ELSE TakeOne(g[j - 1])
    <3>1. j = 0 \/ j \in 1 .. n
      OBVIOUS
    <3>. QED
      BY <1>1, <3>1, ZenonT(60) DEF IsTake
  <2>. QED
    BY ONLY <2>1, <2>2
<1>3. after = CHOOSE h : h = Body(h)
  BY DEF TakeRounds, TakeStart
<1>4. after = Body(after)
  BY <1>2, <1>3
<1>. QED
  BY <1>4 DEF IsTake

\* acc is what j rounds made of the queue q whose edge was at e: the edge has moved
\* on, the bytes between are delivered, and if fewer than j items were taken none can
\* be taken any more.
TakenTo(acc, s, st, n, c, b, e, j) ==
  /\ acc.queue \in Seq(RItem) /\ Range(acc.queue) \subseteq Range(s.receiveQueue)
  /\ \E f : /\ EdgeIn(f, n, c, b) /\ e <= f /\ acc.lastAck = (st + f) % SeqSpace
            /\ acc.data = Bytes(Cut(e, n), Cut(f, n))
  /\ \/ Len(acc.queue) = Len(s.receiveQueue) - j
     \/ \A i \in DOMAIN acc.queue : ~ Takes(acc.queue[i], acc.lastAck)
  /\ Len(acc.queue) <= Len(s.receiveQueue)
  /\ Len(acc.queue) = Len(s.receiveQueue) => acc = TakeStart(s)

\* A round of the loop keeps that.
LEMMA TakeStep ==
  ASSUME NEW s, s.receiveQueue \in Seq(RItem), NEW st \in Int, NEW n \in Nat, NEW c \in Int,
         NEW b \in Int, NEW e, EdgeIn(e, n, c, b),
         \A x \in Range(s.receiveQueue) : Fits(x, st, n, c, b, e),
         NEW j \in Nat, NEW acc, TakenTo(acc, s, st, n, c, b, e, j)
  PROVE  TakenTo(TakeOne(acc), s, st, n, c, b, e, j + 1)
<1>. DEFINE q == acc.queue
            takeable == {i \in DOMAIN q : Takes(q[i], acc.lastAck)}
            i == Min(takeable)
            new == TakeOne(acc)
<1>1. PICK f : /\ EdgeIn(f, n, c, b) /\ e <= f /\ acc.lastAck = (st + f) % SeqSpace
               /\ acc.data = Bytes(Cut(e, n), Cut(f, n))
  BY DEF TakenTo
<1>2. e \in Nat /\ f \in Nat
  BY <1>1 DEF EdgeIn
<1>3. /\ q \in Seq(RItem) /\ Range(q) \subseteq Range(s.receiveQueue) /\ Len(q) <= Len(s.receiveQueue)
      /\ Len(q) \in Nat /\ Len(s.receiveQueue) \in Nat /\ DOMAIN q = 1 .. Len(q)
  BY DEF TakenTo
<1>4. CASE takeable = {}
  <2>1. new = acc
    BY <1>4 DEF TakeOne
  <2>2. \A k \in DOMAIN q : ~ Takes(q[k], acc.lastAck)
    BY <1>4
  <2>. QED
    BY <2>1, <2>2 DEF TakenTo
<1>5. CASE takeable # {}
  <2>1. i \in DOMAIN q /\ Takes(q[i], acc.lastAck)
    <3>1. takeable \subseteq Nat
      BY <1>3
    <3>2. i \in takeable
      BY <1>5, <3>1, MinOf, ZenonT(60)
    <3>. QED
      BY <3>2
  <2>2. /\ new.queue = Shorter(q, i) /\ new.lastAck = AckAfter(q[i], acc.lastAck)
        /\ new.data = acc.data \o Fresh(q[i], acc.lastAck)
    BY <1>5, ZenonT(60) DEF TakeOne, Shorter
  <2>. HIDE DEF new, i, takeable
  <2>3. /\ new.queue \in Seq(RItem) /\ Len(new.queue) = Len(q) - 1
        /\ Range(new.queue) \subseteq Range(q)
    BY <1>3, <2>1, <2>2, ShorterIs, ZenonT(60)
  <2>4. Fits(q[i], st, n, c, b, f)
    <3>1. q[i] \in Range(q)
      BY <2>1 DEF Range
    <3>2. Fits(q[i], st, n, c, b, e)
      BY <1>3, <3>1
    <3>. QED
      BY <1>1, <1>2, <3>2, FitsLater
  <2>5. PICK g : /\ EdgeIn(g, n, c, b) /\ f <= g
                 /\ AckAfter(q[i], acc.lastAck) = (st + g) % SeqSpace
                 /\ Fresh(q[i], acc.lastAck) = Bytes(Cut(f, n), Cut(g, n))
    BY <1>1, <2>1, <2>4, ItemTaken
  <2>6. new.data = Bytes(Cut(e, n), Cut(g, n)) /\ e <= g
    <3>1. g \in Nat
      BY <2>5 DEF EdgeIn
    <3>2. /\ Cut(e, n) \in Int /\ Cut(f, n) \in Int /\ Cut(g, n) \in Int
          /\ Cut(e, n) <= Cut(f, n) /\ Cut(f, n) <= Cut(g, n) /\ e <= g
      BY <1>1, <1>2, <2>5, <3>1 DEF Cut
    <3>3. Bytes(Cut(e, n), Cut(f, n)) \o Bytes(Cut(f, n), Cut(g, n)) = Bytes(Cut(e, n), Cut(g, n))
      BY <3>2, BytesJoin, ZenonT(60)
    <3>. QED
      BY <1>1, <2>2, <2>5, <3>2, <3>3, ZenonT(60)
  <2>7. \/ Len(new.queue) = Len(s.receiveQueue) - (j + 1)
        \/ \A k \in DOMAIN new.queue : ~ Takes(new.queue[k], new.lastAck)
    <3>1. Len(q) = Len(s.receiveQueue) - j
      BY <2>1 DEF TakenTo
    <3>. QED
      BY <1>3, <2>3, <3>1
  <2>8. /\ Len(new.queue) <= Len(s.receiveQueue)
        /\ Len(new.queue) # Len(s.receiveQueue)
    BY <1>3, <2>3
  <2>9. Range(new.queue) \subseteq Range(s.receiveQueue)
    BY <1>3, <2>3
  <2>10. \E h : /\ EdgeIn(h, n, c, b) /\ e <= h /\ new.lastAck = (st + h) % SeqSpace
                /\ new.data = Bytes(Cut(e, n), Cut(h, n))
    BY <2>2, <2>5, <2>6
  <2>. QED
    BY <2>3, <2>7, <2>8, <2>9, <2>10, ZenonT(60) DEF TakenTo, new
<1>. QED
  BY <1>4, <1>5

\* At the end of the loop every item that is left waits.
LEMMA TakenAll ==
  ASSUME NEW s, s.receiveQueue \in Seq(RItem), NEW st \in Int, NEW n \in Nat, NEW c \in Int,
         NEW b \in Int, NEW e, EdgeIn(e, n, c, b), s.rxEdge = (st + e) % SeqSpace,
         \A x \in Range(s.receiveQueue) : Fits(x, st, n, c, b, e),
         NEW end, end = TakeRounds(s)[Len(s.receiveQueue)]
  PROVE  /\ end.queue \in Seq(RItem) /\ Range(end.queue) \subseteq Range(s.receiveQueue)
         /\ \E f : /\ EdgeIn(f, n, c, b) /\ e <= f /\ end.lastAck = (st + f) % SeqSpace
                   /\ end.data = Bytes(Cut(e, n), Cut(f, n))
         /\ \A x \in Range(end.queue) : Waits(x, end.lastAck)
         /\ Len(end.queue) = Len(s.receiveQueue) => end = TakeStart(s)
<1>. DEFINE after == TakeRounds(s)
            l == Len(s.receiveQueue)
            T == {m \in Nat : m <= l /\ ~ TakenTo(after[m], s, st, n, c, b, e, m)}
<1>1. l \in Nat
  OBVIOUS
<1>2. IsTake(after, s, l)
  BY <1>1, TakeLoop
<1>. HIDE DEF after
<1>3. T = {}
  <2>. SUFFICES ASSUME T # {} PROVE FALSE
    OBVIOUS
  <2>1. PICK m \in T : \A k \in T : m <= k
    BY LeastOf, ZenonT(60)
  <2>2. m # 0
    <3>1. after[0] = TakeStart(s)
      BY <1>2 DEF IsTake
    <3>2. /\ TakeStart(s).queue = s.receiveQueue /\ TakeStart(s).lastAck = s.rxEdge
          /\ TakeStart(s).data = <<>>
      BY DEF TakeStart
    <3>3. Bytes(Cut(e, n), Cut(e, n)) = <<>> /\ e <= e
      <4>1. Cut(e, n) \in Int /\ e \in Nat
        BY DEF Cut, EdgeIn
      <4>2. Cut(e, n) <= Cut(e, n) /\ e <= e
        BY ONLY <4>1
      <4>3. Bytes(Cut(e, n), Cut(e, n)) \in Seq(Int) /\ Len(Bytes(Cut(e, n), Cut(e, n))) = Cut(e, n) - Cut(e, n)
        BY ONLY <4>1, <4>2, BytesAre, ZenonT(60)
      <4>4. Bytes(Cut(e, n), Cut(e, n)) = <<>>
        BY ONLY <4>1, <4>3, SMTT(60)
      <4>. QED
        BY ONLY <4>2, <4>4
    <3>4. Len(s.receiveQueue) = Len(s.receiveQueue) - 0 /\ Len(s.receiveQueue) <= Len(s.receiveQueue)
      BY <1>1
    <3>5. TakenTo(TakeStart(s), s, st, n, c, b, e, 0)
      BY <3>2, <3>3, <3>4 DEF TakenTo
    <3>. QED
      BY <3>1, <3>5
  <2>3. m - 1 \in Nat /\ m - 1 \notin T /\ (m - 1) + 1 = m /\ m \in 1 .. l /\ m - 1 <= l
    BY <1>1, <2>1, <2>2
  <2>4. TakenTo(after[m - 1], s, st, n, c, b, e, m - 1)
    BY <2>3
  <2>5. TakenTo(TakeOne(after[m - 1]), s, st, n, c, b, e, (m - 1) + 1)
    BY <2>3, <2>4, TakeStep
  <2>6. after[m] = TakeOne(after[m - 1])
    BY <1>2, <2>3, ZenonT(60) DEF IsTake
  <2>. QED
    BY <2>1, <2>3, <2>5, <2>6
<1>4. TakenTo(end, s, st, n, c, b, e, l)
  <2>1. l \notin T /\ l <= l
    BY <1>1, <1>3
  <2>. QED
    BY <1>1, <2>1 DEF after
<1>5. PICK f : /\ EdgeIn(f, n, c, b) /\ e <= f /\ end.lastAck = (st + f) % SeqSpace
               /\ end.data = Bytes(Cut(e, n), Cut(f, n))
  BY <1>4 DEF TakenTo
<1>6. end.queue \in Seq(RItem) /\ Range(end.queue) \subseteq Range(s.receiveQueue)
  BY <1>4 DEF TakenTo
<1>7. ASSUME NEW x \in Range(end.queue) PROVE Waits(x, end.lastAck)
  <2>1. PICK k \in DOMAIN end.queue : x = end.queue[k]
    BY DEF Range
  <2>2. ~ Takes(x, end.lastAck)
    <3>1. Len(end.queue) \in Nat /\ Len(end.queue) # 0
      BY <1>6, <2>1
    <3>2. Len(end.queue) # l - l
      BY <1>1, <3>1
    <3>. QED
      BY <1>4, <2>1, <3>2 DEF TakenTo
  <2>3. e \in Nat /\ f \in Nat
    BY <1>5 DEF EdgeIn
  <2>4. Fits(x, st, n, c, b, f)
    BY <1>5, <1>6, <2>3, FitsLater
  <2>5. st \in Int /\ n \in Nat /\ c \in Int /\ b \in Int
    OBVIOUS
  <2>6. ~ Takes(x, end.lastAck) => Waits(x, end.lastAck)
    BY ONLY <1>5, <2>4, <2>5, ItemTaken, SMTT(60)
  <2>. QED
    BY <2>2, <2>6
<1>. QED
  BY <1>4, <1>5, <1>6, <1>7 DEF TakenTo

-----------------------------------------------------------------------------
(* The transmit queue *)

Flags == {"SYN", "ACK", "FIN", "PSH"}

TItem == [retransmits : Nat, seq : Int, len : Int, u8 : Seq(Int), flags : SUBSET Flags]

PacketSet == [seq : Int, ack : Int, flags : SUBSET Flags, wnd : Int, u8 : Seq(Int)]

BufferSet == [fin : BOOLEAN, u8 : Seq(Int)]

Fields ==
  {"state", "txEdge", "txSize", "txPos", "rxEdge", "queueTx", "transmitQueue", "receiveQueue",
   "ackRequired", "bufferedAmount", "timed", "out", "data", "events"}

\* The types of the fields of a socket
Typed(s) ==
  /\ DOMAIN s = Fields
  /\ s.txEdge \in Int /\ s.txSize \in Int /\ s.txPos \in Int /\ s.rxEdge \in Int
  /\ s.queueTx \in Seq(BufferSet) /\ s.transmitQueue \in Seq(TItem)
  /\ s.receiveQueue \in Seq(RItem) /\ s.out \in Seq(PacketSet)
  /\ s.data \in Seq(Int) /\ s.events \in Seq({"open", "end", "close"})

\* What transmission leaves alone in every case
SameEdges(t, s) ==
  /\ t.txEdge = s.txEdge /\ t.txSize = s.txSize /\ t.txPos = s.txPos
  /\ t.rxEdge = s.rxEdge /\ t.data = s.data /\ t.events = s.events

\* and unless the connection is reset
SameQueues(t, s) ==
  /\ t.state = s.state /\ t.timed = s.timed
  /\ t.queueTx = s.queueTx /\ t.receiveQueue = s.receiveQueue

SameItem(x, y) == x.seq = y.seq /\ x.len = y.len /\ x.u8 = y.u8 /\ x.flags = y.flags

SameItems(q, r) == Len(q) = Len(r) /\ \A i \in 1 .. Len(r) : SameItem(q[i], r[i])

ItemPacket(s, x) == Packet(s, x.seq, x.flags, x.u8)

\* What is transmitted is an item of the transmit queue
OutItems(t, s) ==
  \A p \in Range(t.out) :
    p \in Range(s.out) \/ \E x \in Range(s.transmitQueue) : p = ItemPacket(s, x)

\* or an acknowledgement that is required.
OutFrom(t, s) ==
  \A p \in Range(t.out) :
    \/ p \in Range(s.out)
    \/ \E x \in Range(s.transmitQueue) : p = ItemPacket(s, x)
    \/ p = Packet(s, s.txPos, {"ACK"}, <<>>) /\ s.ackRequired # FALSE

Lowered(t, s) == t.ackRequired = FALSE \/ t.ackRequired = s.ackRequired

\* x is s in the middle of sending its items.
Sending(x, s) ==
  /\ Typed(x) /\ SameEdges(x, s) /\ SameQueues(x, s) /\ Lowered(x, s)
  /\ SameItems(x.transmitQueue, s.transmitQueue) /\ OutItems(x, s)

\* A round of the loop of lines 375-394
SendStep(s, due, x, i) ==
  IF s.transmitQueue[i].retransmits = 0 \/ i \in due THEN Transmitted(x, i) ELSE x

\* g has the socket after each of the first m rounds.
IsSend(g, s, due, m) ==
  /\ g = [i \in 0 .. m |-> g[i]]
  /\ g[0] = s
  /\ \A i \in 1 .. m : g[i] = SendStep(s, due, g[i - 1], i)

\* One round more of that loop
LEMMA SendExtends ==
  ASSUME NEW s, NEW due, NEW m \in Nat, NEW g, IsSend(g, s, due, m)
  PROVE  \E h : IsSend(h, s, due, m + 1)
<1>. DEFINE h == [i \in 0 .. m + 1 |-> IF i <= m THEN g[i] ELSE SendStep(s, due, g[m], m + 1)]
<1>1. h = [i \in 0 .. m + 1 |-> h[i]]
  OBVIOUS
<1>2. h[0] = s
  BY DEF IsSend
<1>3. ASSUME NEW i \in 1 .. m + 1 PROVE h[i] = SendStep(s, due, h[i - 1], i)
  <2>1. CASE i \in 1 .. m
    <3>1. h[i] = g[i] /\ h[i - 1] = g[i - 1]
      BY <2>1
    <3>. QED
      BY <2>1, <3>1, ZenonT(60) DEF IsSend
  <2>2. CASE i = m + 1
    <3>1. h[i] = SendStep(s, due, g[m], m + 1) /\ h[i - 1] = g[m]
      BY <2>2
    <3>. QED
      BY <2>2, <3>1
  <2>. QED
    BY <2>1, <2>2
<1>. HIDE DEF h
<1>. QED
  BY <1>1, <1>2, <1>3, ZenonT(60) DEF IsSend

\* The rounds of that loop exist, however long the queue is.
LEMMA SendExists ==
  ASSUME NEW s, NEW due, NEW n \in Nat
  PROVE  \E g : IsSend(g, s, due, n)
<1>. DEFINE T == {m \in Nat : ~ \E g : IsSend(g, s, due, m)}
<1>. SUFFICES ASSUME T # {} PROVE FALSE
  OBVIOUS
<1>1. PICK m \in T : \A k \in T : m <= k
  BY LeastOf, ZenonT(60)
<1>2. m # 0
  <2>. DEFINE g == [i \in 0 .. 0 |-> s]
  <2>1. IsSend(g, s, due, 0)
    BY DEF IsSend
  <2>. QED
    BY <2>1
<1>3. m - 1 \in Nat /\ m - 1 \notin T
  BY <1>1, <1>2
<1>4. PICK g : IsSend(g, s, due, m - 1)
  BY <1>3
<1>5. \E h : IsSend(h, s, due, (m - 1) + 1)
  BY <1>3, <1>4, SendExtends
<1>6. (m - 1) + 1 = m
  BY <1>3
<1>. QED
  BY <1>1, <1>5, <1>6

\* The recursive function of SendRounds meets its equation.
LEMMA SendLoop ==
  ASSUME NEW s, NEW due, NEW n, n = Len(s.transmitQueue), n \in Nat
  PROVE  IsSend(SendRounds(s, due), s, due, n)
<1>. DEFINE after == SendRounds(s, due)
            Body(g) == [i \in 0 .. n |-> IF i = 0 THEN s ELSE SendStep(s, due, g[i - 1], i)]
<1>1. PICK g : IsSend(g, s, due, n)
  BY SendExists, ZenonT(60)
<1>2. g = Body(g)
  <2>1. g = [i \in 0 .. n |-> g[i]]
    BY <1>1 DEF IsSend
  <2>2. ASSUME NEW i \in 0 .. n PROVE g[i] = IF i = 0 THEN s ELSE SendStep(s, due, g[i - 1], i)
    <3>1. i = 0 \/ i \in 1 .. n
      OBVIOUS
    <3>. QED
      BY <1>1, <3>1, ZenonT(60) DEF IsSend
  <2>. QED
    BY ONLY <2>1, <2>2
<1>3. after = CHOOSE h : h = Body(h)
  BY DEF SendRounds, SendStep
<1>4. after = Body(after)
  BY <1>2, <1>3
<1>. QED
  BY <1>4 DEF IsSend

\* An item with one transmission more
LEMMA ItemAgain ==
  ASSUME NEW x \in TItem, NEW y, y = [x EXCEPT !.retransmits = @ + 1]
  PROVE  y \in TItem /\ SameItem(y, x)
  BY DEF TItem, SameItem

\* A round transmits an item or leaves it.
LEMMA SendStepOK ==
  ASSUME NEW s, Typed(s), NEW due, NEW x, Sending(x, s), NEW i \in 1 .. Len(s.transmitQueue)
  PROVE  Sending(SendStep(s, due, x, i), s)
<1>. DEFINE t == Transmitted(x, i)
            q == x.transmitQueue
            y == [q[i] EXCEPT !.retransmits = @ + 1]
            p == ItemPacket(x, q[i])
<1>. SUFFICES Sending(t, s)
  BY DEF SendStep
<1>1. /\ q \in Seq(TItem) /\ Len(q) = Len(s.transmitQueue) /\ i \in 1 .. Len(q) /\ q[i] \in TItem
      /\ s.transmitQueue \in Seq(TItem) /\ Len(q) \in Nat
  <2>1. q \in Seq(TItem) /\ s.transmitQueue \in Seq(TItem) /\ Len(q) = Len(s.transmitQueue)
    BY ZenonT(60) DEF Sending, Typed, SameItems
  <2>. QED
    BY ONLY <2>1, i \in 1 .. Len(s.transmitQueue)
<1>2. y \in TItem /\ SameItem(y, q[i])
  BY <1>1, ItemAgain
<1>3. t = [x EXCEPT !.out = Append(@, p), !.ackRequired = FALSE,
                    !.transmitQueue = [q EXCEPT ![i] = y]]
  BY DEF Transmitted, ItemPacket
<1>. HIDE DEF t, y, p
<1>4. /\ DOMAIN t = Fields /\ SameEdges(t, x) /\ SameQueues(t, x) /\ t.ackRequired = FALSE
      /\ t.out = Append(x.out, p) /\ t.transmitQueue = [q EXCEPT ![i] = y]
  BY <1>3 DEF Sending, Typed, Fields, SameEdges, SameQueues
<1>. HIDE DEF q
<1>5. t.transmitQueue \in Seq(TItem) /\ SameItems(t.transmitQueue, s.transmitQueue)
  <2>1. /\ t.transmitQueue \in Seq(TItem) /\ Len(t.transmitQueue) = Len(q)
        /\ \A k \in 1 .. Len(q) : t.transmitQueue[k] = IF k = i THEN y ELSE q[k]
    BY <1>1, <1>2, <1>4
  <2>2. \A k \in 1 .. Len(q) : SameItem(q[k], s.transmitQueue[k])
    BY <1>1 DEF Sending, SameItems, q
  <2>3. ASSUME NEW k \in 1 .. Len(q) PROVE SameItem(t.transmitQueue[k], s.transmitQueue[k])
    BY <1>2, <2>1, <2>2 DEF SameItem
  <2>. QED
    BY <1>1, <2>1, <2>3 DEF SameItems
<1>6. p = ItemPacket(s, s.transmitQueue[i]) /\ p \in PacketSet
  <2>1. SameItem(q[i], s.transmitQueue[i]) /\ x.rxEdge = s.rxEdge /\ x.rxEdge \in Int
    BY <1>1 DEF Sending, SameItems, SameEdges, Typed, q
  <2>2. p = ItemPacket(s, s.transmitQueue[i])
    BY <2>1 DEF p, ItemPacket, Packet, SameItem
  <2>3. p \in PacketSet
    <3>1. RxWindow \in Int
      BY SizeTypes
    <3>2. p = [seq |-> q[i].seq, ack |-> x.rxEdge, flags |-> q[i].flags, wnd |-> RxWindow, u8 |-> q[i].u8]
      BY DEF p, ItemPacket, Packet
    <3>3. q[i].seq \in Int /\ q[i].flags \in SUBSET Flags /\ q[i].u8 \in Seq(Int)
      BY <1>1, ZenonT(60) DEF TItem
    <3>. QED
      BY <2>1, <3>1, <3>2, <3>3 DEF PacketSet
  <2>. QED
    BY <2>2, <2>3
<1>7. t.out \in Seq(PacketSet) /\ Range(t.out) = Range(x.out) \cup {p}
  BY <1>4, <1>6, Members DEF Sending, Typed
<1>8. OutItems(t, s)
  <2>1. s.transmitQueue[i] \in Range(s.transmitQueue)
    BY <1>1 DEF Range
  <2>2. OutItems(x, s)
    BY DEF Sending
  <2>. QED
    BY <1>6, <1>7, <2>1, <2>2, ZenonT(60) DEF OutItems
<1>9. Typed(t) /\ SameEdges(t, s) /\ SameQueues(t, s) /\ Lowered(t, s)
  BY <1>4, <1>5, <1>7 DEF Sending, Typed, SameEdges, SameQueues, Lowered
<1>. QED
  BY <1>5, <1>8, <1>9 DEF Sending

\* The whole loop
LEMMA SendAll ==
  ASSUME NEW s, Typed(s), NEW due, NEW n \in 0 .. Len(s.transmitQueue)
  PROVE  Sending(SendRounds(s, due)[n], s)
<1>. DEFINE after == SendRounds(s, due)
            l == Len(s.transmitQueue)
            T == {m \in Nat : m <= l /\ ~ Sending(after[m], s)}
<1>1. l \in Nat
  BY DEF Typed
<1>2. IsSend(after, s, due, l)
  BY <1>1, SendLoop
<1>. HIDE DEF after
<1>. SUFFICES ASSUME T # {} PROVE FALSE
  BY <1>1 DEF after
<1>3. PICK m \in T : \A k \in T : m <= k
  BY LeastOf, ZenonT(60)
<1>4. m # 0
  <2>1. after[0] = s
    BY <1>2 DEF IsSend
  <2>2. Sending(s, s)
    BY DEF Sending, SameEdges, SameQueues, Lowered, SameItems, SameItem, OutItems
  <2>. QED
    BY <2>1, <2>2
<1>5. m - 1 \in Nat /\ m - 1 \notin T /\ m \in 1 .. l /\ m - 1 <= l
  BY <1>1, <1>3, <1>4
<1>6. Sending(after[m - 1], s)
  BY <1>5
<1>7. Sending(SendStep(s, due, after[m - 1], m), s)
  BY <1>5, <1>6, SendStepOK
<1>8. after[m] = SendStep(s, due, after[m - 1], m)
  BY <1>2, <1>5, ZenonT(60) DEF IsSend
<1>. QED
  BY <1>3, <1>7, <1>8

\* The connection is as _resetConnection leaves it.
TxReset(t) ==
  t.state = "CLOSED" /\ t.timed = FALSE /\ t.queueTx = <<>> /\ t.transmitQueue = <<>>

Reset(t) == TxReset(t) /\ t.receiveQueue = <<>>

\* What _sendTransmitQueue makes of s
Sent1(t, s) ==
  /\ Typed(t) /\ SameEdges(t, s) /\ Lowered(t, s) /\ OutFrom(t, s)
  /\ \/ /\ SameQueues(t, s) /\ SameItems(t.transmitQueue, s.transmitQueue)
        /\ t.ackRequired = FALSE
     \/ Reset(t) /\ \E x \in Range(s.transmitQueue) : x.retransmits > MaxRetransmits

\* _sendTransmitQueue (lines 371-402) transmits items and acknowledgements, and
\* otherwise changes nothing or resets the connection.
LEMMA SendEffect ==
  ASSUME NEW s, Typed(s), s.ackRequired \in BOOLEAN, NEW due, NEW t, t = _sendTransmitQueue(s, due)
  PROVE  Sent1(t, s)
<1>. DEFINE q == s.transmitQueue
            tired == {i \in DOMAIN q : q[i].retransmits > MaxRetransmits}
<1>1. q \in Seq(TItem) /\ Len(q) \in Nat /\ DOMAIN q = 1 .. Len(q)
  BY DEF Typed
<1>2. CASE tired # {}
  <2>. DEFINE sent == SendRounds(s, due)[Min(tired) - 1]
  <2>1. Min(tired) \in tired
    <3>1. tired \subseteq Nat
      BY <1>1
    <3>. QED
      BY <1>2, <3>1, MinOf, ZenonT(60)
  <2>2. Min(tired) - 1 \in 0 .. Len(q)
    BY <1>1, <2>1
  <2>3. Sending(sent, s)
    BY <2>2, SendAll
  <2>4. t = _resetConnection(sent)
    BY <1>2 DEF _sendTransmitQueue
  <2>. HIDE DEF sent
  <2>5. /\ DOMAIN t = Fields /\ SameEdges(t, sent) /\ Reset(t)
        /\ t.out = sent.out /\ t.ackRequired = sent.ackRequired
    BY <2>3, <2>4 DEF Sending, Typed, Fields, SameEdges, Reset, TxReset, _resetConnection, _destroy
  <2>6. Typed(t)
    BY <2>3, <2>5 DEF Sending, Typed, SameEdges, Reset, TxReset
  <2>7. SameEdges(t, s) /\ Lowered(t, s) /\ OutFrom(t, s)
    BY <2>3, <2>5, ZenonT(60) DEF Sending, SameEdges, Lowered, OutFrom, OutItems
  <2>8. \E x \in Range(q) : x.retransmits > MaxRetransmits
    BY <2>1, ZenonT(60) DEF Range
  <2>. QED
    BY <2>5, <2>6, <2>7, <2>8 DEF Sent1
<1>3. CASE tired = {}
  <2>. DEFINE sent == SendRounds(s, due)[Len(q)]
  <2>1. Sending(sent, s)
    BY <1>1, SendAll
  <2>2. t = IF ~sent.ackRequired THEN sent
            ELSE [sent EXCEPT !.ackRequired = FALSE,
                    !.out = Append(@, Packet(sent, sent.txPos, {"ACK"}, <<>>))]
    BY <1>3, ZenonT(60) DEF _sendTransmitQueue
  <2>. HIDE DEF sent
  <2>3. sent.ackRequired \in BOOLEAN
    BY <2>1, ZenonT(60) DEF Sending, Lowered
  <2>4. CASE sent.ackRequired = FALSE
    <3>1. t = sent
      BY <2>2, <2>4, ZenonT(60)
    <3>. QED
      BY <2>1, <2>4, <3>1, ZenonT(60) DEF Sent1, Sending, OutFrom, OutItems
  <2>5. CASE sent.ackRequired = TRUE
    <3>. DEFINE p == Packet(sent, sent.txPos, {"ACK"}, <<>>)
    <3>1. t = [sent EXCEPT !.ackRequired = FALSE, !.out = Append(@, p)]
      BY <2>2, <2>5, ZenonT(60)
    <3>2. p = Packet(s, s.txPos, {"ACK"}, <<>>) /\ p \in PacketSet
      <4>1. RxWindow \in Int
        BY SizeTypes
      <4>2. /\ sent.txPos = s.txPos /\ sent.rxEdge = s.rxEdge /\ s.txPos \in Int /\ s.rxEdge \in Int
        BY <2>1 DEF Sending, SameEdges, Typed
      <4>3. p = [seq |-> s.txPos, ack |-> s.rxEdge, flags |-> {"ACK"}, wnd |-> RxWindow, u8 |-> <<>>]
        BY <4>2 DEF Packet
      <4>4. {"ACK"} \in SUBSET Flags
        BY DEF Flags
      <4>5. <<>> \in Seq(Int)
        BY ONLY TRUE, SMTT(60)
      <4>. QED
        BY <4>1, <4>2, <4>3, <4>4, <4>5 DEF Packet, PacketSet
    <3>. HIDE DEF p
    <3>3. /\ DOMAIN t = Fields /\ SameEdges(t, sent) /\ SameQueues(t, sent) /\ t.ackRequired = FALSE
          /\ t.transmitQueue = sent.transmitQueue /\ t.out = Append(sent.out, p)
      BY <2>1, <3>1 DEF Sending, Typed, Fields, SameEdges, SameQueues
    <3>4. t.out \in Seq(PacketSet) /\ Range(t.out) = Range(sent.out) \cup {p}
      <4>1. sent.out \in Seq(PacketSet)
        BY <2>1, ZenonT(60) DEF Sending, Typed
      <4>. QED
        BY ONLY <3>2, <3>3, <4>1, Members, SMT
    <3>5. Typed(t)
      BY <2>1, <3>3, <3>4 DEF Sending, Typed, SameEdges, SameQueues
    <3>6. s.ackRequired # FALSE
      BY <2>1, <2>5, ZenonT(60) DEF Sending, Lowered
    <3>7. OutFrom(t, s)
      BY <2>1, <3>2, <3>4, <3>6, ZenonT(60) DEF Sending, OutFrom, OutItems
    <3>8. SameEdges(t, s) /\ SameQueues(t, s) /\ SameItems(t.transmitQueue, s.transmitQueue)
      BY <2>1, <3>3, ZenonT(60) DEF Sending, SameEdges, SameQueues
    <3>. QED
      BY <3>3, <3>5, <3>7, <3>8, ZenonT(60) DEF Sent1, Lowered
  <2>. QED
    BY <2>3, <2>4, <2>5, ZenonT(60)
<1>. QED
  BY <1>2, <1>3

-----------------------------------------------------------------------------
(* Insertion into the receive queue *)

AckFlag(s) == s.ackRequired \in BOOLEAN

\* p carries an item of the transmit queue of s, or nothing.
Carries(p, s) ==
  \/ \E x \in Range(s.transmitQueue) : p.seq = x.seq /\ p.flags = x.flags /\ p.u8 = x.u8
  \/ p.seq = s.txPos /\ p.flags = {"ACK"} /\ p.u8 = <<>>

\* p acknowledges a position between e and f.
Acks(p, st, e, f) ==
  p.wnd = RxWindow /\ \E g \in Nat : e <= g /\ g <= f /\ p.ack = (st + g) % SeqSpace

\* What s transmits while its edge goes from e to f
OutAcks(t, s, st, e, f) ==
  \A p \in Range(t.out) : p \in Range(s.out) \/ (Carries(p, s) /\ Acks(p, st, e, f))

\* What reception does to the sending half of a socket
TxKept(t, s) ==
  /\ t.txEdge = s.txEdge /\ t.txSize = s.txSize /\ t.txPos = s.txPos /\ t.events = s.events
  /\ \/ /\ t.state = s.state /\ t.timed = s.timed /\ t.queueTx = s.queueTx
        /\ SameItems(t.transmitQueue, s.transmitQueue)
     \/ TxReset(t) /\ s.transmitQueue # <<>>

\* The receiving half of s, with the edge at position e
RxAt(s, st, n, c, b, e) ==
  /\ EdgeIn(e, n, c, b) /\ s.rxEdge = (st + e) % SeqSpace /\ s.data = Bytes(0, Cut(e, n))
  /\ \A x \in Range(s.receiveQueue) : Fits(x, st, n, c, b, e)

\* Packets carry the same before and after the queue was sent.
LEMMA CarriesSame ==
  ASSUME NEW s, NEW t, NEW p, s.transmitQueue \in Seq(TItem), t.transmitQueue \in Seq(TItem),
         t.txPos = s.txPos, SameItems(t.transmitQueue, s.transmitQueue) \/ t.transmitQueue = <<>>,
         Carries(p, t)
  PROVE  Carries(p, s)
<1>1. CASE p.seq = t.txPos /\ p.flags = {"ACK"} /\ p.u8 = <<>>
  BY <1>1, ZenonT(60) DEF Carries
<1>2. CASE \E x \in Range(t.transmitQueue) : p.seq = x.seq /\ p.flags = x.flags /\ p.u8 = x.u8
  <2>1. PICK i \in DOMAIN t.transmitQueue :
          LET x == t.transmitQueue[i] IN p.seq = x.seq /\ p.flags = x.flags /\ p.u8 = x.u8
    BY <1>2, ZenonT(60) DEF Range
  <2>2. /\ i \in DOMAIN s.transmitQueue /\ SameItem(t.transmitQueue[i], s.transmitQueue[i])
    <3>1. t.transmitQueue # <<>>
      BY <2>1
    <3>. QED
      BY <3>1 DEF SameItems
  <2>3. s.transmitQueue[i] \in Range(s.transmitQueue)
    BY <2>2, ZenonT(60) DEF Range
  <2>. QED
    BY <2>1, <2>2, <2>3, ZenonT(60) DEF Carries, SameItem
<1>. QED
  BY <1>1, <1>2, ZenonT(60) DEF Carries

\* One transmission, as the receiving half sees it
LEMMA SendKeeps ==
  ASSUME NEW s, Typed(s), AckFlag(s), NEW due, NEW t, t = _sendTransmitQueue(s, due),
         NEW st \in Int, NEW e \in Nat, s.rxEdge = (st + e) % SeqSpace
  PROVE  /\ Typed(t) /\ AckFlag(t) /\ TxKept(t, s) /\ OutAcks(t, s, st, e, e)
         /\ t.rxEdge = s.rxEdge /\ t.data = s.data
         /\ t.receiveQueue = s.receiveQueue \/ t.receiveQueue = <<>>
<1>1. Sent1(t, s)
  BY SendEffect, ZenonT(60) DEF AckFlag
<1>2. AckFlag(t)
  BY <1>1, ZenonT(60) DEF Sent1, Lowered, AckFlag
<1>3. TxKept(t, s)
  <2>1. CASE SameQueues(t, s) /\ SameItems(t.transmitQueue, s.transmitQueue)
    BY <1>1, <2>1, ZenonT(60) DEF Sent1, SameEdges, SameQueues, TxKept
  <2>2. CASE Reset(t) /\ \E x \in Range(s.transmitQueue) : x.retransmits > MaxRetransmits
    <3>1. s.transmitQueue # <<>>
      BY <2>2 DEF Range
    <3>. QED
      BY <1>1, <2>2, <3>1, ZenonT(60) DEF Sent1, SameEdges, TxKept, Reset
  <2>. QED
    BY <1>1, <2>1, <2>2, ZenonT(60) DEF Sent1
<1>4. OutAcks(t, s, st, e, e)
  <2>. SUFFICES ASSUME NEW p \in Range(t.out), p \notin Range(s.out)
                PROVE  Carries(p, s) /\ Acks(p, st, e, e)
    BY ZenonT(60) DEF OutAcks
  <2>1. \/ \E x \in Range(s.transmitQueue) : p = ItemPacket(s, x)
        \/ p = Packet(s, s.txPos, {"ACK"}, <<>>)
    BY <1>1, ZenonT(60) DEF Sent1, OutFrom
  <2>2. CASE p = Packet(s, s.txPos, {"ACK"}, <<>>)
    <3>1. p.seq = s.txPos /\ p.flags = {"ACK"} /\ p.u8 = <<>> /\ p.wnd = RxWindow /\ p.ack = s.rxEdge
      BY <2>2 DEF Packet
    <3>. QED
      BY <3>1 DEF Carries, Acks
  <2>3. CASE \E x \in Range(s.transmitQueue) : p = ItemPacket(s, x)
    <3>1. PICK x \in Range(s.transmitQueue) : p = ItemPacket(s, x)
      BY <2>3
    <3>2. p.seq = x.seq /\ p.flags = x.flags /\ p.u8 = x.u8 /\ p.wnd = RxWindow /\ p.ack = s.rxEdge
      BY <3>1 DEF ItemPacket, Packet
    <3>3. Acks(p, st, e, e)
      BY <3>2 DEF Acks
    <3>4. Carries(p, s)
      BY <3>2, ZenonT(60) DEF Carries
    <3>. QED
      BY <3>3, <3>4
  <2>. QED
    BY <2>1, <2>2, <2>3, ZenonT(60)
<1>5. t.receiveQueue = s.receiveQueue \/ t.receiveQueue = <<>>
  BY <1>1, ZenonT(60) DEF Sent1, SameQueues, Reset
<1>. QED
  BY <1>1, <1>2, <1>3, <1>4, <1>5, ZenonT(60) DEF Sent1, SameEdges

\* What reception makes of s: the edge goes on from e to f, and what is left in the
\* queue waits.
Took(t, s, st, n, c, b, e, f) ==
  /\ Typed(t) /\ AckFlag(t) /\ TxKept(t, s) /\ OutAcks(t, s, st, e, f)
  /\ e <= f /\ RxAt(t, st, n, c, b, f)

AllWait(t) == \A x \in Range(t.receiveQueue) : Waits(x, t.rxEdge)

\* The transmit half of t is that of s when only reception fields differ.
SameTx(t, s) ==
  /\ t.txEdge = s.txEdge /\ t.txSize = s.txSize /\ t.txPos = s.txPos /\ t.events = s.events
  /\ t.state = s.state /\ t.timed = s.timed /\ t.queueTx = s.queueTx
  /\ t.transmitQueue = s.transmitQueue /\ t.out = s.out

\* One thing after another, when the first leaves the sending half alone
LEMMA TookAfterSame ==
  ASSUME NEW s, NEW m, NEW t, NEW st, NEW n, NEW c, NEW b, NEW e \in Nat, NEW g \in Nat, NEW f,
         Typed(s), SameTx(m, s), e <= g, Took(t, m, st, n, c, b, g, f)
  PROVE  Took(t, s, st, n, c, b, e, f)
<1>1. f \in Nat /\ e <= f
  BY DEF Took, RxAt, EdgeIn
<1>2. TxKept(t, s)
  BY ZenonT(60) DEF Took, TxKept, SameTx
<1>3. OutAcks(t, s, st, e, f)
  <2>. SUFFICES ASSUME NEW p \in Range(t.out), p \notin Range(s.out)
                PROVE  Carries(p, s) /\ Acks(p, st, e, f)
    BY ZenonT(60) DEF OutAcks
  <2>1. Carries(p, m) /\ Acks(p, st, g, f)
    BY ZenonT(60) DEF Took, OutAcks, SameTx
  <2>2. Carries(p, s)
    BY <2>1, ZenonT(60) DEF Carries, SameTx
  <2>3. Acks(p, st, e, f)
    BY <1>1, <2>1 DEF Acks
  <2>. QED
    BY <2>2, <2>3
<1>. QED
  BY <1>1, <1>2, <1>3, ZenonT(60) DEF Took

\* One thing after another
LEMMA TookTwice ==
  ASSUME NEW s, NEW m, NEW t, NEW st, NEW n, NEW c, NEW b, NEW e \in Nat, NEW g, NEW f,
         Typed(s), Took(m, s, st, n, c, b, e, g), Took(t, m, st, n, c, b, g, f)
  PROVE  Took(t, s, st, n, c, b, e, f)
<1>1. f \in Nat /\ g \in Nat /\ e <= g /\ g <= f /\ e <= f
  BY DEF Took, RxAt, EdgeIn
<1>2. /\ m.transmitQueue \in Seq(TItem) /\ s.transmitQueue \in Seq(TItem)
      /\ m.txPos = s.txPos
      /\ SameItems(m.transmitQueue, s.transmitQueue) \/ m.transmitQueue = <<>>
  BY ZenonT(60) DEF Took, Typed, TxKept, TxReset
<1>3. TxKept(t, s)
  <2>1. TxKept(t, m) /\ TxKept(m, s)
    BY ZenonT(60) DEF Took
  <2>2. CASE TxReset(t) /\ m.transmitQueue # <<>>
    <3>1. SameItems(m.transmitQueue, s.transmitQueue)
      BY <1>2, <2>2, ZenonT(60)
    <3>2. s.transmitQueue # <<>>
      BY <1>2, <2>2, <3>1 DEF SameItems
    <3>. QED
      BY <2>1, <2>2, <3>2, ZenonT(60) DEF TxKept
  <2>3. CASE /\ t.state = m.state /\ t.timed = m.timed /\ t.queueTx = m.queueTx
             /\ SameItems(t.transmitQueue, m.transmitQueue)
    <3>1. CASE TxReset(m) /\ s.transmitQueue # <<>>
      <4>1. t.transmitQueue = <<>>
        <5>1. t.transmitQueue \in Seq(TItem) /\ m.transmitQueue = <<>>
          BY <3>1, ZenonT(60) DEF Took, Typed, TxReset
        <5>. QED
          BY <2>3, <5>1 DEF SameItems
      <4>. QED
        BY <2>1, <2>3, <3>1, <4>1, ZenonT(60) DEF TxKept, TxReset
    <3>2. CASE /\ m.state = s.state /\ m.timed = s.timed /\ m.queueTx = s.queueTx
               /\ SameItems(m.transmitQueue, s.transmitQueue)
      <4>1. SameItems(t.transmitQueue, s.transmitQueue)
        BY <2>3, <3>2 DEF SameItems, SameItem
      <4>. QED
        BY <2>1, <2>3, <3>2, <4>1, ZenonT(60) DEF TxKept
    <3>. QED
      BY <2>1, <3>1, <3>2, ZenonT(60) DEF TxKept
  <2>. QED
    BY <2>1, <2>2, <2>3, ZenonT(60) DEF TxKept
<1>4. OutAcks(t, s, st, e, f)
  <2>. SUFFICES ASSUME NEW p \in Range(t.out), p \notin Range(s.out)
                PROVE  Carries(p, s) /\ Acks(p, st, e, f)
    BY ZenonT(60) DEF OutAcks
  <2>1. CASE p \in Range(m.out)
    <3>1. Carries(p, s) /\ Acks(p, st, e, g)
      BY <2>1, ZenonT(60) DEF Took, OutAcks
    <3>2. Acks(p, st, e, f)
      BY <1>1, <3>1 DEF Acks
    <3>. QED
      BY <3>1, <3>2
  <2>2. CASE p \notin Range(m.out)
    <3>1. Carries(p, m) /\ Acks(p, st, g, f)
      BY <2>2, ZenonT(60) DEF Took, OutAcks
    <3>2. Carries(p, s)
      BY <1>2, <3>1, CarriesSame, ZenonT(60)
    <3>3. Acks(p, st, e, f)
      BY <1>1, <3>1 DEF Acks
    <3>. QED
      BY <3>2, <3>3
  <2>. QED
    BY <2>1, <2>2
<1>. QED
  BY <1>1, <1>3, <1>4, ZenonT(60) DEF Took

\* A transmission after the receiving half has changed
LEMMA SendTook ==
  ASSUME NEW s, Typed(s), NEW m, Typed(m), AckFlag(m), SameTx(m, s), NEW due,
         NEW t, t = _sendTransmitQueue(m, due),
         NEW st \in Int, NEW n \in Nat, NEW c, NEW b, NEW e \in Nat, NEW f, e <= f,
         RxAt(m, st, n, c, b, f)
  PROVE  /\ Took(t, s, st, n, c, b, e, f) /\ t.rxEdge = m.rxEdge
         /\ t.receiveQueue = m.receiveQueue \/ t.receiveQueue = <<>>
<1>1. f \in Nat /\ m.rxEdge = (st + f) % SeqSpace
  BY ZenonT(60) DEF RxAt, EdgeIn
<1>2. /\ Typed(t) /\ AckFlag(t) /\ TxKept(t, m) /\ OutAcks(t, m, st, f, f)
      /\ t.rxEdge = m.rxEdge /\ t.data = m.data
      /\ t.receiveQueue = m.receiveQueue \/ t.receiveQueue = <<>>
  BY <1>1, SendKeeps, ZenonT(60)
<1>3. Range(<<>>) = {}
  BY DEF Range
<1>4. RxAt(t, st, n, c, b, f)
  BY <1>2, <1>3, ZenonT(60) DEF RxAt
<1>5. f <= f
  BY <1>1
<1>6. Took(t, m, st, n, c, b, f, f)
  BY <1>2, <1>4, <1>5, ZenonT(60) DEF Took
<1>7. Took(t, s, st, n, c, b, e, f)
  BY ONLY <1>1, <1>6, TookAfterSame, Typed(s), SameTx(m, s), e \in Nat, e <= f, ZenonT(60)
<1>. QED
  BY <1>2, <1>7

\* _processReceiveQueue (lines 520-588) delivers what follows the edge, in order,
\* and leaves in the queue what waits.
LEMMA ProcessEffect ==
  ASSUME NEW s, Typed(s), AckFlag(s), NEW st \in Int, NEW n \in Nat, NEW c \in Int, NEW b \in Int,
         NEW e, RxAt(s, st, n, c, b, e), NEW t, t = _processReceiveQueue(s)
  PROVE  \E f : Took(t, s, st, n, c, b, e, f) /\ AllWait(t)
<1>. DEFINE l == Len(s.receiveQueue)
            end == TakeRounds(s)[l]
            m == [s EXCEPT !.receiveQueue = end.queue, !.rxEdge = end.lastAck,
                           !.data = @ \o end.data, !.ackRequired = TRUE]
<1>1. /\ e \in Nat /\ EdgeIn(e, n, c, b) /\ s.rxEdge = (st + e) % SeqSpace
      /\ s.data = Bytes(0, Cut(e, n)) /\ s.receiveQueue \in Seq(RItem)
      /\ \A x \in Range(s.receiveQueue) : Fits(x, st, n, c, b, e)
  BY ZenonT(60) DEF RxAt, EdgeIn, Typed
<1>2. /\ end.queue \in Seq(RItem) /\ Range(end.queue) \subseteq Range(s.receiveQueue)
      /\ \E f : /\ EdgeIn(f, n, c, b) /\ e <= f /\ end.lastAck = (st + f) % SeqSpace
                /\ end.data = Bytes(Cut(e, n), Cut(f, n))
      /\ \A x \in Range(end.queue) : Waits(x, end.lastAck)
      /\ Len(end.queue) = Len(s.receiveQueue) => end = TakeStart(s)
  BY <1>1, TakenAll, ZenonT(60)
<1>3. t = IF Len(end.queue) = l THEN s ELSE _sendTransmitQueue(m, {})
  BY DEF _processReceiveQueue
<1>. HIDE DEF end
<1>4. CASE Len(end.queue) = l
  <2>1. t = s /\ end.queue = s.receiveQueue /\ end.lastAck = s.rxEdge
    BY <1>2, <1>3, <1>4 DEF TakeStart
  <2>2. AllWait(t)
    BY <1>2, <2>1, ZenonT(60) DEF AllWait
  <2>3. e <= e
    BY <1>1
  <2>4. TxKept(s, s)
    BY DEF TxKept, SameItems, SameItem
  <2>5. OutAcks(s, s, st, e, e)
    BY ZenonT(60) DEF OutAcks
  <2>6. Took(s, s, st, n, c, b, e, e)
    BY <2>3, <2>4, <2>5, ZenonT(60) DEF Took
  <2>. QED
    BY <2>1, <2>2, <2>6, ZenonT(60)
<1>5. CASE Len(end.queue) # l
  <2>1. PICK f : /\ EdgeIn(f, n, c, b) /\ e <= f /\ end.lastAck = (st + f) % SeqSpace
                 /\ end.data = Bytes(Cut(e, n), Cut(f, n))
    BY <1>2
  <2>2. f \in Nat
    BY <2>1 DEF EdgeIn
  <2>3. /\ DOMAIN m = Fields /\ SameTx(m, s) /\ m.rxEdge = end.lastAck
        /\ m.receiveQueue = end.queue /\ m.data = s.data \o end.data /\ m.ackRequired = TRUE
    BY ZenonT(60) DEF Typed, Fields, SameTx
  <2>4. t = _sendTransmitQueue(m, {})
    BY <1>3, <1>5
  <2>. HIDE DEF m, l
  <2>5. 0 <= Cut(e, n) /\ Cut(e, n) <= Cut(f, n) /\ Cut(e, n) \in Int /\ Cut(f, n) \in Int
    BY <1>1, <2>1, <2>2 DEF Cut
  <2>6. m.data = Bytes(0, Cut(f, n))
    <3>1. 0 \in Int
      OBVIOUS
    <3>2. Bytes(0, Cut(e, n)) \o Bytes(Cut(e, n), Cut(f, n)) = Bytes(0, Cut(f, n))
      BY ONLY <2>5, <3>1, BytesJoin, ZenonT(60)
    <3>. QED
      BY <1>1, <2>1, <2>3, <3>2, ZenonT(60)
  <2>7. m.data \in Seq(Int)
    <3>1. 0 \in Int /\ 0 <= Cut(f, n)
      BY <2>5
    <3>. QED
      BY <2>5, <2>6, <3>1, BytesAre
  <2>8. m.rxEdge \in Int
    <3>1. st + f \in Int
      BY <2>2
    <3>2. SeqSpace \in Nat /\ SeqSpace > 0
      BY SizeTypes
    <3>3. (st + f) % SeqSpace \in Int
      BY <3>1, <3>2, Remainder
    <3>. QED
      BY <2>1, <2>3, <3>3
  <2>9. Typed(m)
    BY <1>2, <2>3, <2>7, <2>8 DEF Typed, SameTx
  <2>10. AckFlag(m)
    BY <2>3, ZenonT(60) DEF AckFlag
  <2>11. RxAt(m, st, n, c, b, f)
    <3>1. \A x \in Range(m.receiveQueue) : Fits(x, st, n, c, b, f)
      BY <1>1, <1>2, <2>1, <2>2, <2>3, FitsLater, ZenonT(60)
    <3>. QED
      BY <2>1, <2>3, <2>6, <3>1, ZenonT(60) DEF RxAt
  <2>12. /\ Took(t, s, st, n, c, b, e, f) /\ t.rxEdge = m.rxEdge
         /\ t.receiveQueue = m.receiveQueue \/ t.receiveQueue = <<>>
    <3>1. SameTx(m, s) /\ e \in Nat /\ e <= f
      BY <1>1, <2>1, <2>3, ZenonT(60)
    <3>. QED
      BY ONLY <2>4, <2>9, <2>10, <2>11, <3>1, SendTook, Typed(s), st \in Int, n \in Nat, SMTT(60)
  <2>13. AllWait(t)
    <3>1. Range(<<>>) = {}
      BY DEF Range
    <3>. QED
      BY <1>2, <2>3, <2>12, <3>1, ZenonT(60) DEF AllWait
  <2>. QED
    BY <2>12, <2>13, ZenonT(60)
<1>. QED
  BY <1>4, <1>5

\* An item whose number is that of the edge is at the edge.
LEMMA AtEdge ==
  ASSUME NEW st \in Int, NEW n \in Nat, NEW c \in Int, NEW b \in Int, NEW e,
         EdgeIn(e, n, c, b), NEW x, Fits(x, st, n, c, b, e), x.seq = (st + e) % SeqSpace
  PROVE  \E f : /\ EdgeIn(f, n, c, b) /\ e <= f /\ SEQ_INC(x.seq, x.len) = (st + f) % SeqSpace
                /\ x.u8 = Bytes(Cut(e, n), Cut(f, n))
<1>0. /\ SeqSpace \in Nat /\ RxWindow \in Nat /\ RxWindow > 0 /\ 2 * RxWindow < SeqSpace
  BY SizeTypes
<1>1. e \in Nat /\ e <= n + 1 /\ e <= c /\ e <= b /\ (e <= n => e < b)
  BY DEF EdgeIn
<1>2. ASSUME NEW k \in Nat, k < e + SeqSpace, b <= k + (SeqSpace - RxWindow),
             x.seq = (st + k) % SeqSpace
      PROVE  k = e
  <2>1. /\ st + e \in Int /\ st + k \in Int /\ st + k < (st + e) + SeqSpace
        /\ st + e <= (st + k) + (SeqSpace - RxWindow)
    BY <1>0, <1>1, <1>2
  <2>2. (st + k) % SeqSpace = (st + e) % SeqSpace <=> st + k = st + e
    BY ONLY <2>1, WithinIs, SMT
  <2>3. (st + k) % SeqSpace = (st + e) % SeqSpace
    BY <1>2
  <2>. QED
    BY <1>1, <2>2, <2>3
<1>3. CASE \E from, to \in Nat :
             /\ from < to /\ to <= n /\ to <= c /\ to < b
             /\ from < e + RxWindow /\ b <= from + (SeqSpace - RxWindow)
             /\ x = DataItem(st, from, to)
  <2>1. PICK from, to \in Nat :
             /\ from < to /\ to <= n /\ to <= c /\ to < b
             /\ from < e + RxWindow /\ b <= from + (SeqSpace - RxWindow)
             /\ x = DataItem(st, from, to)
    BY <1>3
  <2>2. x.seq = (st + from) % SeqSpace /\ x.len = to - from /\ x.u8 = Bytes(from, to)
    BY <2>1 DEF DataItem
  <2>3. from = e
    BY <1>0, <1>1, <1>2, <2>1, <2>2
  <2>4. EdgeIn(to, n, c, b) /\ e <= to /\ Cut(e, n) = from /\ Cut(to, n) = to
    BY <1>1, <2>1, <2>3 DEF EdgeIn, Cut
  <2>5. SEQ_INC(x.seq, x.len) = (st + to) % SeqSpace
    <3>1. st + from \in Int /\ to - from \in Int /\ (st + from) + (to - from) = st + to
      OBVIOUS
    <3>. QED
      BY <2>2, <3>1, NumberAdds
  <2>. QED
    BY <2>2, <2>4, <2>5, ZenonT(60)
<1>4. CASE /\ n < c /\ n < e + SeqSpace /\ b <= n + (SeqSpace - RxWindow)
           /\ x = FinItem(st, n)
  <2>1. x.seq = (st + n) % SeqSpace /\ x.len = 1 /\ x.u8 = <<>>
    BY <1>4 DEF FinItem
  <2>2. n = e
    BY <1>2, <1>4, <2>1
  <2>3. EdgeIn(n + 1, n, c, b) /\ e <= n + 1 /\ Cut(e, n) = n /\ Cut(n + 1, n) = n
    BY <1>1, <1>4, <2>2 DEF EdgeIn, Cut
  <2>4. SEQ_INC(x.seq, x.len) = (st + (n + 1)) % SeqSpace
    <3>1. st + n \in Int /\ (st + n) + 1 = st + (n + 1) /\ 1 \in Int
      OBVIOUS
    <3>. QED
      BY <2>1, <3>1, NumberAdds
  <2>5. Bytes(n, n) = <<>>
    <3>1. n \in Int /\ n <= n
      OBVIOUS
    <3>. QED
      BY <3>1, BytesAre
  <2>. QED
    BY <2>1, <2>3, <2>4, <2>5, ZenonT(60)
<1>. QED
  BY <1>3, <1>4 DEF Fits

\* _insertReceiveQueue (lines 498-518)
LEMMA InsertEffect ==
  ASSUME NEW s, Typed(s), AckFlag(s), NEW st \in Int, NEW n \in Nat, NEW c \in Int, NEW b \in Int,
         NEW e, RxAt(s, st, n, c, b, e),
         NEW x \in RItem, Fits(x, st, n, c, b, e), x = [seq |-> x.seq, len |-> x.len, u8 |-> x.u8],
         NEW t, t = _insertReceiveQueue(s, x.seq, x.len, x.u8)
  PROVE  \E f : Took(t, s, st, n, c, b, e, f) /\ AllWait(t)
<1>1. /\ e \in Nat /\ EdgeIn(e, n, c, b) /\ s.rxEdge = (st + e) % SeqSpace
      /\ s.data = Bytes(0, Cut(e, n)) /\ s.receiveQueue \in Seq(RItem)
      /\ \A y \in Range(s.receiveQueue) : Fits(y, st, n, c, b, e)
      /\ x.seq \in Int /\ x.len \in Int /\ x.u8 \in Seq(Int)
  BY DEF RxAt, EdgeIn, Typed, RItem
<1>2. CASE x.seq = s.rxEdge
  <2>. DEFINE m == [s EXCEPT !.data = @ \o x.u8, !.rxEdge = SEQ_INC(x.seq, x.len), !.ackRequired = TRUE]
              slid == _sendTransmitQueue(m, {})
  <2>1. PICK g : /\ EdgeIn(g, n, c, b) /\ e <= g /\ SEQ_INC(x.seq, x.len) = (st + g) % SeqSpace
                 /\ x.u8 = Bytes(Cut(e, n), Cut(g, n))
    BY <1>1, <1>2, AtEdge
  <2>2. g \in Nat
    BY <2>1 DEF EdgeIn
  <2>3. /\ DOMAIN m = Fields /\ SameTx(m, s) /\ m.rxEdge = SEQ_INC(x.seq, x.len)
        /\ m.receiveQueue = s.receiveQueue /\ m.data = s.data \o x.u8 /\ m.ackRequired = TRUE
    BY ZenonT(60) DEF Typed, Fields, SameTx
  <2>4. t = IF slid.receiveQueue = <<>> THEN slid ELSE _processReceiveQueue(slid)
    BY <1>2 DEF _insertReceiveQueue
  <2>. HIDE DEF m
  <2>5. 0 <= Cut(e, n) /\ Cut(e, n) <= Cut(g, n) /\ Cut(e, n) \in Int /\ Cut(g, n) \in Int
    BY <1>1, <2>1, <2>2 DEF Cut
  <2>6. m.data = Bytes(0, Cut(g, n))
    <3>1. 0 \in Int
      OBVIOUS
    <3>2. Bytes(0, Cut(e, n)) \o Bytes(Cut(e, n), Cut(g, n)) = Bytes(0, Cut(g, n))
      BY ONLY <2>5, <3>1, BytesJoin, ZenonT(60)
    <3>. QED
      BY <1>1, <2>1, <2>3, <3>2, ZenonT(60)
  <2>7. m.data \in Seq(Int)
    <3>1. 0 \in Int /\ 0 <= Cut(g, n)
      BY <2>5
    <3>. QED
      BY <2>5, <2>6, <3>1, BytesAre
  <2>8. m.rxEdge \in Int
    <3>1. st + g \in Int
      BY <2>2
    <3>2. SeqSpace \in Nat /\ SeqSpace > 0
      BY SizeTypes
    <3>3. (st + g) % SeqSpace \in Int
      BY <3>1, <3>2, Remainder
    <3>. QED
      BY <2>1, <2>3, <3>3
  <2>9. Typed(m)
    BY <1>1, <2>3, <2>7, <2>8 DEF Typed, SameTx
  <2>10. AckFlag(m)
    BY <2>3, ZenonT(60) DEF AckFlag
  <2>11. RxAt(m, st, n, c, b, g)
    <3>1. \A y \in Range(m.receiveQueue) : Fits(y, st, n, c, b, g)
      BY <1>1, <2>1, <2>2, <2>3, FitsLater, ZenonT(60)
    <3>. QED
      BY <2>1, <2>3, <2>6, <3>1, ZenonT(60) DEF RxAt
  <2>12. Took(slid, s, st, n, c, b, e, g)
    BY ONLY <1>1, <2>1, <2>3, <2>9, <2>10, <2>11, SendTook, Typed(s), st \in Int, n \in Nat, ZenonT(60)
  <2>. HIDE DEF slid
  <2>13. CASE slid.receiveQueue = <<>>
    <3>1. t = slid
      BY <2>4, <2>13
    <3>2. Range(<<>>) = {}
      BY DEF Range
    <3>3. AllWait(t)
      BY <2>13, <3>1, <3>2, ZenonT(60) DEF AllWait
    <3>. QED
      BY <2>12, <3>1, <3>3, ZenonT(60)
  <2>14. CASE slid.receiveQueue # <<>>
    <3>1. t = _processReceiveQueue(slid)
      BY <2>4, <2>14
    <3>2. PICK f : Took(t, slid, st, n, c, b, g, f) /\ AllWait(t)
      <4>1. Typed(slid) /\ AckFlag(slid) /\ RxAt(slid, st, n, c, b, g)
        BY <2>12, ZenonT(60) DEF Took
      <4>. QED
        BY <3>1, <4>1, ProcessEffect, ZenonT(60)
    <3>3. Took(t, s, st, n, c, b, e, f)
      BY <1>1, <2>12, <3>2, TookTwice, ZenonT(60)
    <3>. QED
      BY <3>2, <3>3, ZenonT(60)
  <2>. QED
    BY <2>13, <2>14
<1>3. CASE x.seq # s.rxEdge
  <2>. DEFINE m == [s EXCEPT !.receiveQueue = Append(@, x)]
  <2>1. t = _processReceiveQueue(m)
    BY <1>3, ZenonT(60) DEF _insertReceiveQueue
  <2>2. /\ DOMAIN m = Fields /\ SameTx(m, s) /\ m.rxEdge = s.rxEdge
        /\ m.receiveQueue = Append(s.receiveQueue, x) /\ m.data = s.data
        /\ m.ackRequired = s.ackRequired
    BY DEF Typed, Fields, SameTx
  <2>. HIDE DEF m
  <2>3. m.receiveQueue \in Seq(RItem) /\ Range(m.receiveQueue) = Range(s.receiveQueue) \cup {x}
    BY ONLY <1>1, <2>2, Members, x \in RItem, SMTT(60)
  <2>4. Typed(m)
    BY <2>2, <2>3 DEF Typed, SameTx
  <2>5. AckFlag(m)
    BY <2>2, ZenonT(60) DEF AckFlag
  <2>6. RxAt(m, st, n, c, b, e)
    BY <1>1, <2>2, <2>3, ZenonT(60) DEF RxAt
  <2>7. PICK f : Took(t, m, st, n, c, b, e, f) /\ AllWait(t)
    BY <2>1, <2>4, <2>5, <2>6, ProcessEffect, ZenonT(60)
  <2>8. e <= e
    BY <1>1
  <2>9. Took(t, s, st, n, c, b, e, f)
    BY <1>1, <2>2, <2>7, <2>8, TookAfterSame, ZenonT(60)
  <2>. QED
    BY <2>7, <2>9, ZenonT(60)
<1>. QED
  BY <1>2, <1>3

\* x is an item that waits, all of it within the window, when the edge is at e.
RxWaits(x, st, n, c, e) ==
  \/ \E from, to \in Nat :
       /\ e < from /\ from < to /\ to <= n /\ to <= c /\ to <= e + RxWindow
       /\ x = DataItem(st, from, to)
  \/ e < n /\ n < e + RxWindow /\ n < c /\ x = FinItem(st, n)

\* The receiving half of s between two packets
ReceivedTo(s, st, n, c, e) ==
  /\ e \in Nat /\ e <= n + 1 /\ e <= c
  /\ s.rxEdge = (st + e) % SeqSpace /\ s.data = Bytes(0, Cut(e, n))
  /\ \A x \in Range(s.receiveQueue) : RxWaits(x, st, n, c, e)

\* How far the edge may go with what fits into the window at e
Bound(e, n) == IF e <= n THEN e + RxWindow + 1 ELSE n + 1

\* The receiving half is ready for an item.
LEMMA ReadyToTake ==
  ASSUME NEW s, NEW st, NEW n \in Nat, NEW c \in Int, NEW e, ReceivedTo(s, st, n, c, e)
  PROVE  RxAt(s, st, n, c, Bound(e, n), e) /\ Bound(e, n) \in Int
<1>0. /\ SeqSpace \in Nat /\ RxWindow \in Nat /\ RxWindow > 0 /\ 2 * RxWindow < SeqSpace
  BY SizeTypes
<1>. DEFINE b == Bound(e, n)
<1>1. /\ e \in Nat /\ e <= n + 1 /\ e <= c
      /\ s.rxEdge = (st + e) % SeqSpace /\ s.data = Bytes(0, Cut(e, n))
      /\ \A x \in Range(s.receiveQueue) : RxWaits(x, st, n, c, e)
  BY ZenonT(60) DEF ReceivedTo
<1>2. b \in Int /\ EdgeIn(e, n, c, b) /\ (e <= n => b = e + RxWindow + 1)
  BY <1>0, <1>1 DEF Bound, EdgeIn
<1>. HIDE DEF b
<1>3. ASSUME NEW x \in Range(s.receiveQueue) PROVE Fits(x, st, n, c, b, e)
  <2>1. RxWaits(x, st, n, c, e)
    BY <1>1
  <2>2. CASE \E from, to \in Nat :
               /\ e < from /\ from < to /\ to <= n /\ to <= c /\ to <= e + RxWindow
               /\ x = DataItem(st, from, to)
    <3>1. PICK from, to \in Nat :
               /\ e < from /\ from < to /\ to <= n /\ to <= c /\ to <= e + RxWindow
               /\ x = DataItem(st, from, to)
      BY <2>2
    <3>2. e <= n
      BY <1>1, <3>1
    <3>3. to < b /\ from < e + RxWindow /\ b <= from + (SeqSpace - RxWindow)
      BY <1>0, <1>1, <1>2, <3>1, <3>2
    <3>. QED
      BY <3>1, <3>3, ZenonT(60) DEF Fits
  <2>3. CASE e < n /\ n < e + RxWindow /\ n < c /\ x = FinItem(st, n)
    <3>1. n < e + SeqSpace /\ b <= n + (SeqSpace - RxWindow)
      BY <1>0, <1>1, <1>2, <2>3
    <3>. QED
      BY <2>3, <3>1, ZenonT(60) DEF Fits
  <2>. QED
    BY <2>1, <2>2, <2>3, ZenonT(60) DEF RxWaits
<1>. QED
  BY <1>1, <1>2, <1>3, ZenonT(60) DEF RxAt, b

\* What waits by its number waits by its position.
LEMMA WaitsIs ==
  ASSUME NEW st \in Int, NEW n \in Nat, NEW c \in Int, NEW b \in Int, NEW f, EdgeIn(f, n, c, b),
         NEW x, Fits(x, st, n, c, b, f), Waits(x, (st + f) % SeqSpace), b <= f + RxWindow + 1
  PROVE  RxWaits(x, st, n, c, f)
<1>0. /\ SeqSpace \in Nat /\ RxWindow \in Nat /\ RxWindow > 0 /\ 2 * RxWindow < SeqSpace
  BY SizeTypes
<1>1. f \in Nat /\ f <= n + 1 /\ f <= c /\ f <= b
  BY DEF EdgeIn
<1>2. ASSUME NEW k \in Nat, k < f + SeqSpace, b <= k + (SeqSpace - RxWindow),
             x.seq = (st + k) % SeqSpace
      PROVE  f < k /\ k < f + RxWindow
  <2>1. /\ st + k \in Int /\ st + f \in Int
        /\ st + f <= st + k => (st + k < (st + f) + SeqSpace /\ (st + k) - (st + f) = k - f)
        /\ st + k < st + f => (st + f < (st + k) + SeqSpace /\ (st + f) - (st + k) = f - k)
        /\ st + f <= st + k \/ st + k < st + f
    BY <1>0, <1>1, <1>2
  <2>2. (x.seq - ((st + f) % SeqSpace)) % SeqSpace \in 1 .. RxWindow - 1
    BY DEF Waits
  <2>3. CASE st + f <= st + k
    <3>1. (x.seq - ((st + f) % SeqSpace)) % SeqSpace = k - f
      BY <1>2, <2>1, <2>3, DistanceIs
    <3>. QED
      BY <1>0, <1>1, <2>2, <3>1
  <2>4. CASE st + k < st + f
    <3>1. (x.seq - ((st + f) % SeqSpace)) % SeqSpace = SeqSpace - (f - k)
      BY <1>2, <2>1, <2>4, DistanceIs
    <3>. QED
      BY <1>0, <1>1, <1>2, <2>2, <3>1
  <2>. QED
    BY <2>1, <2>3, <2>4
<1>3. CASE \E from, to \in Nat :
             /\ from < to /\ to <= n /\ to <= c /\ to < b
             /\ from < f + RxWindow /\ b <= from + (SeqSpace - RxWindow)
             /\ x = DataItem(st, from, to)
  <2>1. PICK from, to \in Nat :
             /\ from < to /\ to <= n /\ to <= c /\ to < b
             /\ from < f + RxWindow /\ b <= from + (SeqSpace - RxWindow)
             /\ x = DataItem(st, from, to)
    BY <1>3
  <2>2. x.seq = (st + from) % SeqSpace /\ from < f + SeqSpace
    BY <1>0, <1>1, <2>1 DEF DataItem
  <2>3. f < from
    BY <1>2, <2>1, <2>2
  <2>4. to <= f + RxWindow
    BY <1>0, <1>1, <2>1
  <2>. QED
    BY <2>1, <2>3, <2>4, ZenonT(60) DEF RxWaits
<1>4. CASE /\ n < c /\ n < f + SeqSpace /\ b <= n + (SeqSpace - RxWindow)
           /\ x = FinItem(st, n)
  <2>1. x.seq = (st + n) % SeqSpace
    BY <1>4 DEF FinItem
  <2>2. f < n /\ n < f + RxWindow
    BY <1>2, <1>4, <2>1
  <2>. QED
    BY <1>4, <2>2, ZenonT(60) DEF RxWaits
<1>. QED
  BY <1>3, <1>4 DEF Fits

\* The receiving half after an item was inserted
LEMMA InsertReceives ==
  ASSUME NEW s, Typed(s), AckFlag(s), NEW st \in Int, NEW n \in Nat, NEW c \in Int,
         NEW e, ReceivedTo(s, st, n, c, e),
         NEW x \in RItem, Fits(x, st, n, c, Bound(e, n), e),
         x = [seq |-> x.seq, len |-> x.len, u8 |-> x.u8],
         NEW t, t = _insertReceiveQueue(s, x.seq, x.len, x.u8)
  PROVE  \E f : /\ ReceivedTo(t, st, n, c, f) /\ Took(t, s, st, n, c, Bound(e, n), e, f)
<1>. DEFINE b == Bound(e, n)
<1>1. RxAt(s, st, n, c, b, e) /\ b \in Int
  BY ReadyToTake, ZenonT(60)
<1>2. PICK f : Took(t, s, st, n, c, b, e, f) /\ AllWait(t)
  BY <1>1, InsertEffect, ZenonT(60)
<1>3. /\ e <= f /\ RxAt(t, st, n, c, b, f) /\ EdgeIn(f, n, c, b)
      /\ \A y \in Range(t.receiveQueue) : Waits(y, t.rxEdge)
  BY <1>2, ZenonT(60) DEF Took, RxAt, AllWait
<1>4. f \in Nat /\ f <= n + 1 /\ f <= c /\ b <= f + RxWindow + 1
  <2>1. RxWindow \in Nat /\ e \in Nat /\ e <= n + 1
    BY SizeTypes DEF ReceivedTo
  <2>. QED
    BY <1>3, <2>1 DEF EdgeIn, Bound
<1>. HIDE DEF b
<1>5. ASSUME NEW y \in Range(t.receiveQueue) PROVE RxWaits(y, st, n, c, f)
  <2>1. Fits(y, st, n, c, b, f) /\ Waits(y, (st + f) % SeqSpace)
    BY <1>3, ZenonT(60) DEF RxAt
  <2>. QED
    BY <1>1, <1>3, <1>4, <2>1, WaitsIs, ZenonT(60)
<1>6. ReceivedTo(t, st, n, c, f)
  BY <1>3, <1>4, <1>5, ZenonT(60) DEF ReceivedTo, RxAt
<1>. QED
  BY <1>2, <1>6, ZenonT(60) DEF b

\* Data whose last byte is within the window fits, if its numbers are not older than
\* the sequence space.
LEMMA DataFits ==
  ASSUME NEW st \in Int, NEW n \in Nat, NEW c \in Int, NEW e \in Nat, e <= n,
         NEW from \in Nat, NEW to \in Nat, from < to, to <= n, to <= c,
         e + 2 * RxWindow < from + SeqSpace, to < e + SeqSpace,
         _receiveWindowIsWithin(SEQ_INC((st + from) % SeqSpace, (to - from) - 1), (st + e) % SeqSpace)
  PROVE  /\ e < to /\ to <= e + RxWindow
         /\ Fits(DataItem(st, from, to), st, n, c, Bound(e, n), e)
<1>0. /\ SeqSpace \in Nat /\ RxWindow \in Nat /\ RxWindow > 0 /\ 2 * RxWindow < SeqSpace
  BY SizeTypes
<1>1. SEQ_INC((st + from) % SeqSpace, (to - from) - 1) = (st + (to - 1)) % SeqSpace
  <2>1. /\ st + from \in Int /\ (to - from) - 1 \in Int
        /\ (st + from) + ((to - from) - 1) = st + (to - 1)
    OBVIOUS
  <2>. QED
    BY <2>1, NumberAdds
<1>2. /\ st + e \in Int /\ st + (to - 1) \in Int /\ st + (to - 1) < (st + e) + SeqSpace
      /\ st + e <= (st + (to - 1)) + (SeqSpace - RxWindow)
  BY <1>0
<1>3. st + e <= st + (to - 1) /\ st + (to - 1) < (st + e) + RxWindow
  BY ONLY <1>1, <1>2, WithinIs,
     _receiveWindowIsWithin(SEQ_INC((st + from) % SeqSpace, (to - from) - 1), (st + e) % SeqSpace)
<1>4. e < to /\ to <= e + RxWindow
  BY <1>0, <1>3
<1>5. /\ to < Bound(e, n) /\ from < e + RxWindow /\ Bound(e, n) <= from + (SeqSpace - RxWindow)
  BY <1>0, <1>4 DEF Bound
<1>. QED
  BY <1>4, <1>5 DEF Fits

\* The FIN fits, if it is not a whole sequence space ahead.
LEMMA FinFits ==
  ASSUME NEW st \in Int, NEW n \in Nat, NEW c \in Int, NEW e \in Nat, n < c, n < e + SeqSpace
  PROVE  Fits(FinItem(st, n), st, n, c, Bound(e, n), e)
<1>0. /\ SeqSpace \in Nat /\ RxWindow \in Nat /\ RxWindow > 0 /\ 2 * RxWindow < SeqSpace
  BY SizeTypes
<1>1. Bound(e, n) <= n + (SeqSpace - RxWindow)
  BY <1>0 DEF Bound
<1>. QED
  BY <1>1 DEF Fits

\* The items are items.
LEMMA ItemTypes ==
  ASSUME NEW st \in Int, NEW from \in Nat, NEW to \in Nat
  PROVE  /\ FinItem(st, from) \in RItem
         /\ from <= to => DataItem(st, from, to) \in RItem
<1>1. SeqSpace \in Nat /\ SeqSpace > 0
  BY SizeTypes
<1>2. (st + from) % SeqSpace \in Int
  <2>1. st + from \in Int
    OBVIOUS
  <2>. QED
    BY <1>1, <2>1, Remainder
<1>3. from <= to => Bytes(from, to) \in Seq(Int)
  BY BytesAre
<1>. QED
  BY <1>2, <1>3 DEF FinItem, DataItem, RItem

-----------------------------------------------------------------------------
(* A stream whose segments arrive in any order: TcpReceive *)

\* The socket sends no data.
Idle(s) ==
  Typed(s) /\ AckFlag(s) /\ s.transmitQueue = <<>> /\ s.txEdge = s.txPos

\* s has received a part of the stream, without the FIN or with it.
Receiving(s) ==
  /\ Idle(s)
  /\ \/ s.state = "ESTABLISHED" /\ \E e : ReceivedTo(s, Start, Length, Length, e)
     \/ s.state = "CLOSE_WAIT" /\ \E e : ReceivedTo(s, Start, Length, Length + 1, e)

ReceiveInv == Receiving(socket)

\* Insertion leaves an idle socket idle.
LEMMA TookIdle ==
  ASSUME NEW s, Idle(s), NEW t, NEW st, NEW n, NEW c, NEW b, NEW e, NEW f,
         Took(t, s, st, n, c, b, e, f)
  PROVE  Idle(t) /\ t.state = s.state
<1>1. /\ Typed(t) /\ AckFlag(t) /\ t.txEdge = t.txPos /\ t.state = s.state
      /\ SameItems(t.transmitQueue, s.transmitQueue)
  BY ZenonT(60) DEF Took, TxKept, Idle
<1>2. t.transmitQueue = <<>>
  <2>1. t.transmitQueue \in Seq(TItem) /\ s.transmitQueue = <<>>
    BY <1>1, ZenonT(60) DEF Typed, Idle
  <2>. QED
    BY <1>1, <2>1 DEF SameItems
<1>. QED
  BY <1>1, <1>2, ZenonT(60) DEF Idle

\* What is received so far is known of the FIN too.
LEMMA WithFin ==
  ASSUME NEW s, NEW e, ReceivedTo(s, Start, Length, Length, e)
  PROVE  ReceivedTo(s, Start, Length, Length + 1, e)
<1>0. Length \in Nat
  BY StreamAssumption
<1>1. ASSUME NEW x, RxWaits(x, Start, Length, Length, e)
      PROVE  RxWaits(x, Start, Length, Length + 1, e)
  <2>1. PICK from, to \in Nat :
          /\ e < from /\ from < to /\ to <= Length /\ to <= e + RxWindow
          /\ x = DataItem(Start, from, to)
    BY <1>0, <1>1 DEF RxWaits
  <2>2. to <= Length + 1
    BY <1>0, <2>1
  <2>. QED
    BY <2>1, <2>2, ZenonT(60) DEF RxWaits
<1>2. e \in Nat /\ e <= Length + 1
  BY DEF ReceivedTo
<1>. QED
  BY <1>1, <1>2, ZenonT(60) DEF ReceivedTo

\* An acknowledgement of nothing new only sets the size of the transmit window.
LEMMA IdleAck ==
  ASSUME NEW s, Receiving(s), NEW wnd \in Int, NEW t, t = _acceptACK(s, s.txPos, wnd)
  PROVE  Receiving(t) /\ t.rxEdge = s.rxEdge /\ t.data = s.data /\ t.state = s.state
<1>1. t = [s EXCEPT !.txSize = wnd]
  BY ZenonT(60) DEF Receiving, Idle, _acceptACK
<1>2. /\ Idle(t) /\ t.rxEdge = s.rxEdge /\ t.data = s.data /\ t.state = s.state
      /\ t.receiveQueue = s.receiveQueue
  <2>1. /\ DOMAIN t = Fields /\ t.txEdge = s.txEdge /\ t.txPos = s.txPos /\ t.txSize = wnd
        /\ t.rxEdge = s.rxEdge /\ t.data = s.data /\ t.state = s.state /\ t.events = s.events
        /\ t.queueTx = s.queueTx /\ t.transmitQueue = s.transmitQueue /\ t.out = s.out
        /\ t.receiveQueue = s.receiveQueue /\ t.ackRequired = s.ackRequired
    BY <1>1 DEF Receiving, Idle, Typed, Fields
  <2>2. Typed(t)
    BY <2>1 DEF Receiving, Idle, Typed
  <2>. QED
    BY <2>1, <2>2, ZenonT(60) DEF Receiving, Idle, AckFlag
<1>. QED
  BY <1>2, ZenonT(60) DEF Receiving, ReceivedTo

\* The FIN moves on from where it is received.
LEMMA FinArrives ==
  ASSUME NEW s, Receiving(s), Length < Len(s.data) + SeqSpace,
         NEW t, t = FinMoves(_insertReceiveQueue(s, (Start + Length) % SeqSpace, 1, <<>>))
  PROVE  Receiving(t)
<1>. DEFINE x == FinItem(Start, Length)
            m == _insertReceiveQueue(s, x.seq, x.len, x.u8)
<1>0. Start \in Int /\ Length \in Nat /\ Length + 1 \in Int /\ Length < Length + 1 /\ SeqSpace \in Nat
  BY StreamAssumption, SizeTypes
<1>1. t = FinMoves(m)
  BY DEF FinItem
<1>2. PICK e : ReceivedTo(s, Start, Length, Length + 1, e)
  BY WithFin, ZenonT(60) DEF Receiving
<1>3. e \in Nat /\ Length < e + SeqSpace
  <2>1. e \in Nat /\ s.data = Bytes(0, Cut(e, Length))
    BY <1>2 DEF ReceivedTo
  <2>2. Cut(e, Length) \in Int /\ 0 <= Cut(e, Length) /\ Cut(e, Length) <= e
    BY <1>0, <2>1 DEF Cut
  <2>3. Len(s.data) = Cut(e, Length) - 0
    <3>1. 0 \in Int
      OBVIOUS
    <3>2. Len(Bytes(0, Cut(e, Length))) = Cut(e, Length) - 0
      BY ONLY <2>2, <3>1, BytesAre, ZenonT(60)
    <3>. QED
      BY <2>1, <3>2
  <2>. QED
    BY <1>0, <2>1, <2>2, <2>3
<1>4. /\ x \in RItem /\ Fits(x, Start, Length, Length + 1, Bound(e, Length), e)
      /\ x = [seq |-> x.seq, len |-> x.len, u8 |-> x.u8]
  <2>1. x \in RItem
    BY <1>0, ItemTypes
  <2>2. Fits(x, Start, Length, Length + 1, Bound(e, Length), e)
    BY <1>0, <1>3, FinFits, ZenonT(60)
  <2>. QED
    BY <2>1, <2>2 DEF FinItem
<1>. HIDE DEF x
<1>5. PICK f : /\ ReceivedTo(m, Start, Length, Length + 1, f)
               /\ Took(m, s, Start, Length, Length + 1, Bound(e, Length), e, f)
  <2>1. Typed(s) /\ AckFlag(s)
    BY ZenonT(60) DEF Receiving, Idle
  <2>. QED
    BY ONLY <1>0, <1>2, <1>4, <2>1, InsertReceives, ZenonT(60)
<1>6. Idle(m) /\ m.state = s.state
  <2>1. Idle(s)
    BY ZenonT(60) DEF Receiving
  <2>. QED
    BY <1>5, <2>1, TookIdle, ZenonT(60)
<1>. HIDE DEF m
<1>7. CASE m.state = "ESTABLISHED"
  <2>1. t = [[m EXCEPT !.state = "CLOSE_WAIT"] EXCEPT !.events = Append(@, "end")]
    BY <1>1, <1>7 DEF FinMoves, Emit
  <2>2. /\ DOMAIN t = Fields /\ t.txEdge = m.txEdge /\ t.txPos = m.txPos /\ t.txSize = m.txSize
        /\ t.rxEdge = m.rxEdge /\ t.data = m.data /\ t.state = "CLOSE_WAIT"
        /\ t.events = Append(m.events, "end")
        /\ t.queueTx = m.queueTx /\ t.transmitQueue = m.transmitQueue /\ t.out = m.out
        /\ t.receiveQueue = m.receiveQueue /\ t.ackRequired = m.ackRequired
    BY <1>6, <2>1, ZenonT(60) DEF Idle, Typed, Fields
  <2>3. Typed(t)
    <3>1. Typed(m)
      BY <1>6, ZenonT(60) DEF Idle
    <3>2. t.events \in Seq({"open", "end", "close"})
      <4>1. m.events \in Seq({"open", "end", "close"})
        BY <3>1, ZenonT(60) DEF Typed
      <4>. QED
        BY ONLY <2>2, <4>1
    <3>. QED
      BY <2>2, <3>1, <3>2, ZenonT(60) DEF Typed
  <2>4. Idle(t)
    BY <1>6, <2>2, <2>3, ZenonT(60) DEF Idle, AckFlag
  <2>5. ReceivedTo(t, Start, Length, Length + 1, f)
    BY <1>5, <2>2, ZenonT(60) DEF ReceivedTo
  <2>. QED
    BY <2>2, <2>4, <2>5, ZenonT(60) DEF Receiving
<1>8. CASE m.state = "CLOSE_WAIT"
  <2>1. t = m
    BY <1>1, <1>8 DEF FinMoves
  <2>. QED
    BY <1>5, <1>6, <1>8, <2>1, ZenonT(60) DEF Receiving
<1>. QED
  BY <1>6, <1>7, <1>8, ZenonT(60) DEF Receiving

\* A segment of the stream arrives.
LEMMA DataArrives ==
  ASSUME NEW s, Receiving(s), s.state = "ESTABLISHED", NEW from \in Nat, NEW to \in Nat,
         from <= to, to <= Length,
         Len(s.data) + 2 * RxWindow < from + SeqSpace, to < Len(s.data) + SeqSpace,
         NEW p, p.seq = (Start + from) % SeqSpace, p.u8 = Bytes(from, to), p.ack = s.txPos,
         p.wnd = RxWindow, NEW t, t = ReceiveData(s, p)
  PROVE  Receiving(t) /\ t.state = "ESTABLISHED" /\ Len(s.data) <= Len(t.data)
<1>. DEFINE a == _acceptACK(s, p.ack, p.wnd)
            x == DataItem(Start, from, to)
<1>0. Start \in Int /\ Length \in Nat /\ Length \in Int /\ Length <= Length /\ SeqSpace \in Nat /\ RxWindow \in Int
  BY StreamAssumption, SizeTypes
<1>1. Receiving(a) /\ a.rxEdge = s.rxEdge /\ a.data = s.data /\ a.state = "ESTABLISHED"
  BY <1>0, IdleAck, ZenonT(60)
<1>2. Len(p.u8) = to - from
  BY BytesAre
<1>3. t = IF /\ to - from > 0
             /\ _receiveWindowIsWithin(SEQ_INC((Start + from) % SeqSpace, (to - from) - 1), a.rxEdge)
          THEN _insertReceiveQueue(a, x.seq, x.len, x.u8) ELSE a
  BY <1>2 DEF ReceiveData, DataItem
<1>. HIDE DEF a
<1>4. PICK e : ReceivedTo(a, Start, Length, Length, e)
  BY <1>1 DEF Receiving
<1>5. /\ e \in Nat /\ e <= Length /\ a.rxEdge = (Start + e) % SeqSpace /\ Len(a.data) = e
      /\ Cut(e, Length) = e
  <2>1. /\ e \in Nat /\ e <= Length /\ a.rxEdge = (Start + e) % SeqSpace
        /\ a.data = Bytes(0, Cut(e, Length))
    BY <1>4, ZenonT(60) DEF ReceivedTo
  <2>2. Cut(e, Length) = e
    BY <2>1 DEF Cut
  <2>3. Len(a.data) = e - 0
    BY <2>1, <2>2, BytesAre
  <2>. QED
    BY <2>1, <2>2, <2>3
<1>6. CASE /\ to - from > 0
           /\ _receiveWindowIsWithin(SEQ_INC((Start + from) % SeqSpace, (to - from) - 1), a.rxEdge)
  <2>1. t = _insertReceiveQueue(a, x.seq, x.len, x.u8)
    BY <1>3, <1>6
  <2>2. Fits(x, Start, Length, Length, Bound(e, Length), e)
    <3>1. /\ from < to /\ e + 2 * RxWindow < from + SeqSpace /\ to < e + SeqSpace
          /\ _receiveWindowIsWithin(SEQ_INC((Start + from) % SeqSpace, (to - from) - 1), (Start + e) % SeqSpace)
      BY <1>1, <1>5, <1>6
    <3>. QED
      BY <1>0, <1>5, <3>1, DataFits, ZenonT(60)
  <2>3. x \in RItem /\ x = [seq |-> x.seq, len |-> x.len, u8 |-> x.u8]
    <3>1. x \in RItem
      BY <1>0, ItemTypes, ZenonT(60)
    <3>. QED
      BY <3>1 DEF DataItem
  <2>. HIDE DEF x
  <2>4. PICK f : /\ ReceivedTo(t, Start, Length, Length, f)
                 /\ Took(t, a, Start, Length, Length, Bound(e, Length), e, f)
    <3>1. Typed(a) /\ AckFlag(a)
      BY <1>1, ZenonT(60) DEF Receiving, Idle
    <3>. QED
      BY ONLY <1>0, <1>4, <2>1, <2>2, <2>3, <3>1, InsertReceives, ZenonT(60)
  <2>5. Idle(t) /\ t.state = a.state
    BY <1>1, <2>4, TookIdle, ZenonT(60) DEF Receiving
  <2>6. Len(t.data) >= Len(a.data)
    <3>1. f \in Nat /\ f <= Length /\ e <= f /\ t.data = Bytes(0, Cut(f, Length))
      BY <2>4, ZenonT(60) DEF ReceivedTo, Took
    <3>2. Cut(f, Length) = f
      BY <3>1 DEF Cut
    <3>3. Len(t.data) = f - 0
      BY <3>1, <3>2, BytesAre
    <3>. QED
      BY <1>5, <3>1, <3>3
  <2>7. Receiving(t)
    BY <1>1, <2>4, <2>5, ZenonT(60) DEF Receiving
  <2>. QED
    BY <1>1, <1>5, <2>5, <2>6, <2>7
<1>7. CASE ~ (/\ to - from > 0
              /\ _receiveWindowIsWithin(SEQ_INC((Start + from) % SeqSpace, (to - from) - 1), a.rxEdge))
  <2>1. t = a
    BY <1>3, <1>7
  <2>. QED
    BY <1>1, <1>5, <2>1
<1>. QED
  BY <1>6, <1>7

\* A step of TcpReceive
LEMMA ArriveKeeps ==
  ASSUME ReceiveInv, NEW from \in Nat, NEW to \in Nat, from <= to, to <= Length,
         NEW fin \in BOOLEAN, fin => to = Length, Arrive(from, to, fin)
  PROVE  ReceiveInv'
<1>. DEFINE s == [socket EXCEPT !.out = <<>>]
            p == Segment(from, to, fin)
            r == ReceiveByState(s, p)
<1>1. Receiving(s) /\ s.data = socket.data /\ s.state = socket.state /\ s.txPos = socket.txPos
  <2>1. /\ DOMAIN s = Fields /\ s.txEdge = socket.txEdge /\ s.txPos = socket.txPos
        /\ s.txSize = socket.txSize /\ s.rxEdge = socket.rxEdge /\ s.data = socket.data
        /\ s.state = socket.state /\ s.events = socket.events /\ s.queueTx = socket.queueTx
        /\ s.transmitQueue = socket.transmitQueue /\ s.out = <<>>
        /\ s.receiveQueue = socket.receiveQueue /\ s.ackRequired = socket.ackRequired
    BY DEF ReceiveInv, Receiving, Idle, Typed, Fields
  <2>2. Typed(s)
    <3>1. s.out \in Seq(PacketSet)
      BY ONLY <2>1
    <3>. QED
      BY <2>1, <3>1, ZenonT(60) DEF ReceiveInv, Receiving, Idle, Typed
  <2>. QED
    BY <2>1, <2>2, ZenonT(60) DEF ReceiveInv, Receiving, Idle, AckFlag, ReceivedTo
<1>2. /\ p.seq = (Start + from) % SeqSpace /\ p.u8 = Bytes(from, to) /\ p.ack = s.txPos
      /\ p.wnd = RxWindow /\ p.flags = IF fin THEN {"ACK", "FIN"} ELSE {"ACK"}
  BY <1>1 DEF Segment, NumberOf, SEQ_INC
<1>3. /\ Len(s.data) + 2 * RxWindow < from + SeqSpace /\ to < Len(s.data) + SeqSpace
      /\ Len(s.data) \in Nat
  <2>1. s.data \in Seq(Int)
    BY <1>1 DEF Receiving, Idle, Typed
  <2>. QED
    BY <1>1, <2>1, SizeTypes DEF Arrive, Timely, Received
<1>4. socket' = _receive(s, p)
  BY DEF Arrive
<1>. HIDE DEF s, p
<1>5. Receiving(r) /\ Len(s.data) <= Len(r.data)
  <2>1. CASE s.state = "ESTABLISHED"
    <3>1. r = ReceiveData(s, p)
      BY <2>1 DEF ReceiveByState
    <3>. QED
      BY ONLY <1>1, <1>2, <1>3, <2>1, <3>1, DataArrives, from \in Nat, to \in Nat, from <= to, to <= Length
  <2>2. CASE s.state = "CLOSE_WAIT"
    <3>1. r = s
      BY <2>2 DEF ReceiveByState
    <3>. QED
      BY <1>1, <1>3, <3>1
  <2>. QED
    BY <1>1, <2>1, <2>2, ZenonT(60) DEF Receiving
<1>. HIDE DEF r
<1>6. CASE fin = TRUE
  <2>1. to = Length /\ "FIN" \in p.flags
    BY <1>2, <1>6
  <2>2. SEQ_INC(p.seq, Len(p.u8)) = (Start + Length) % SeqSpace
    <3>1. Len(p.u8) = to - from
      BY <1>2, BytesAre
    <3>2. /\ Start \in Int /\ Start + from \in Int /\ to - from \in Int
          /\ (Start + from) + (to - from) = Start + Length
      BY <2>1, StreamAssumption
    <3>. QED
      BY <1>2, <3>1, <3>2, NumberAdds
  <2>3. socket' = FinMoves(_insertReceiveQueue(r, (Start + Length) % SeqSpace, 1, <<>>))
    BY <1>4, <2>1, <2>2 DEF _receive, r
  <2>4. Length < Len(r.data) + SeqSpace
    <3>1. r.data \in Seq(Int)
      BY <1>5, ZenonT(60) DEF Receiving, Idle, Typed
    <3>. QED
      BY <1>3, <1>5, <2>1, <3>1, SizeTypes, StreamAssumption
  <2>5. Receiving(socket')
    BY <1>5, <2>3, <2>4, FinArrives, ZenonT(60)
  <2>. QED
    BY <2>5 DEF ReceiveInv, Receiving, Idle, ReceivedTo
<1>7. CASE fin = FALSE
  <2>1. "FIN" \notin p.flags
    BY <1>2, <1>7
  <2>2. socket' = r
    BY <1>4, <2>1 DEF _receive, r
  <2>3. Receiving(socket')
    BY <1>5, <2>2
  <2>. QED
    BY <2>3 DEF ReceiveInv, Receiving, Idle, ReceivedTo
<1>. QED
  BY <1>6, <1>7, ZenonT(60)

\* The socket after the handshake
LEMMA ReceiveInitInv == ReceiveInit => ReceiveInv
<1>. SUFFICES ASSUME ReceiveInit PROVE ReceiveInv
  OBVIOUS
<1>0. Start \in 0 .. SeqSpace - 1 /\ Length \in Nat /\ RxWindow \in Int /\ SeqSpace \in Nat
  BY StreamAssumption, SizeTypes
<1>1. /\ DOMAIN socket = Fields /\ socket.txEdge = 0 /\ socket.txPos = 0
      /\ socket.txSize = RxWindow /\ socket.rxEdge = Start /\ socket.data = <<>>
      /\ socket.state = "ESTABLISHED" /\ socket.events = <<>> /\ socket.queueTx = <<>>
      /\ socket.transmitQueue = <<>> /\ socket.out = <<>>
      /\ socket.receiveQueue = <<>> /\ socket.ackRequired = FALSE
  BY DEF ReceiveInit, NewSocket, Fields
<1>2. Typed(socket)
  BY <1>0, <1>1 DEF Typed
<1>3. ReceivedTo(socket, Start, Length, Length, 0)
  <2>1. Start + 0 = Start /\ Start % SeqSpace = Start
    BY <1>0, Small
  <2>2. Cut(0, Length) = 0 /\ Bytes(0, 0) = <<>>
    BY <1>0, BytesAre DEF Cut
  <2>3. Range(<<>>) = {}
    BY DEF Range
  <2>4. 0 \in Nat /\ 0 <= Length + 1 /\ 0 <= Length
    BY <1>0
  <2>. QED
    BY <1>1, <2>1, <2>2, <2>3, <2>4, ZenonT(60) DEF ReceivedTo
<1>. QED
  BY <1>1, <1>2, <1>3, ZenonT(60) DEF ReceiveInv, Receiving, Idle, AckFlag

\* What the invariant says
LEMMA ReceiveInvImplies == ReceiveInv => InOrderOnce /\ AckedIsDelivered /\ QueueWaitsForGap
<1>. SUFFICES ASSUME ReceiveInv PROVE InOrderOnce /\ AckedIsDelivered /\ QueueWaitsForGap
  OBVIOUS
<1>0. /\ Start \in Int /\ Length \in Nat /\ SeqSpace \in Nat /\ RxWindow \in Nat
      /\ 2 * RxWindow < SeqSpace /\ RxWindow > 0
  BY StreamAssumption, SizeTypes
<1>1. PICK e : ReceivedTo(socket, Start, Length, Length + 1, e)
  BY WithFin, ZenonT(60) DEF ReceiveInv, Receiving
<1>2. /\ e \in Nat /\ e <= Length + 1 /\ socket.rxEdge = (Start + e) % SeqSpace
      /\ socket.data = Bytes(0, Cut(e, Length))
      /\ \A x \in Range(socket.receiveQueue) : RxWaits(x, Start, Length, Length + 1, e)
  BY <1>1, ZenonT(60) DEF ReceivedTo
<1>3. /\ Cut(e, Length) \in Int /\ 0 <= Cut(e, Length) /\ Cut(e, Length) <= Length
      /\ e = Cut(e, Length) \/ (e = Length + 1 /\ Cut(e, Length) = Length)
  BY <1>0, <1>2 DEF Cut
<1>4. Received = Cut(e, Length)
  <2>1. Len(socket.data) = Cut(e, Length) - 0
    BY <1>2, <1>3, BytesAre
  <2>. QED
    BY <1>3, <2>1 DEF Received
<1>5. InOrderOnce
  BY <1>2, <1>3, <1>4 DEF InOrderOnce
<1>6. AckedIsDelivered
  BY <1>2, <1>3, <1>4 DEF AckedIsDelivered, NumberOf, SEQ_INC
<1>7. QueueWaitsForGap
  <2>. SUFFICES ASSUME NEW x \in Range(socket.receiveQueue)
                PROVE  (x.seq - socket.rxEdge) % SeqSpace \in 1 .. RxWindow - 1
    BY ZenonT(60) DEF QueueWaitsForGap, Queued, Range
  <2>1. PICK k \in Nat : e < k /\ k < e + RxWindow /\ x.seq = (Start + k) % SeqSpace
    <3>1. RxWaits(x, Start, Length, Length + 1, e)
      BY <1>2
    <3>2. CASE \E from, to \in Nat :
                 /\ e < from /\ from < to /\ to <= Length /\ to <= Length + 1 /\ to <= e + RxWindow
                 /\ x = DataItem(Start, from, to)
      <4>1. PICK from, to \in Nat :
                 /\ e < from /\ from < to /\ to <= Length /\ to <= Length + 1 /\ to <= e + RxWindow
                 /\ x = DataItem(Start, from, to)
        BY <3>2
      <4>2. x.seq = (Start + from) % SeqSpace
        BY <4>1 DEF DataItem
      <4>3. from < e + RxWindow
        BY <1>0, <1>2, <4>1
      <4>. QED
        BY <4>1, <4>2, <4>3
    <3>3. CASE e < Length /\ Length < e + RxWindow /\ Length < Length + 1 /\ x = FinItem(Start, Length)
      BY <1>0, <3>3 DEF FinItem
    <3>. QED
      BY <3>1, <3>2, <3>3, ZenonT(60) DEF RxWaits
  <2>2. /\ Start + e \in Int /\ Start + k \in Int /\ Start + e <= Start + k
        /\ Start + k < (Start + e) + SeqSpace /\ (Start + k) - (Start + e) = k - e
    BY <1>0, <1>2, <2>1
  <2>3. (x.seq - socket.rxEdge) % SeqSpace = k - e
    BY <1>2, <2>1, <2>2, DistanceIs
  <2>. QED
    BY <1>0, <1>2, <2>1, <2>3
<1>. QED
  BY <1>5, <1>6, <1>7

\* Every step of TcpReceive keeps the invariant.
LEMMA ReceiveStep == ReceiveInv /\ [ReceiveNext]_socket => ReceiveInv'
<1>. SUFFICES ASSUME ReceiveInv, [ReceiveNext]_socket PROVE ReceiveInv'
  OBVIOUS
<1>1. CASE UNCHANGED socket
  BY <1>1, ZenonT(60) DEF ReceiveInv, Receiving, Idle, ReceivedTo, Typed, AckFlag
<1>2. CASE ReceiveNext
  <2>0. PICK from \in 0 .. Length : \E to \in from .. Length :
          \/ from < to /\ Arrive(from, to, FALSE)
          \/ to = Length /\ Arrive(from, to, TRUE)
    BY <1>2, ZenonT(60) DEF ReceiveNext
  <2>1. PICK to \in from .. Length :
          \/ from < to /\ Arrive(from, to, FALSE)
          \/ to = Length /\ Arrive(from, to, TRUE)
    BY <2>0, ZenonT(60)
  <2>2. from \in Nat /\ to \in Nat /\ from <= to /\ to <= Length
    BY <2>1, StreamAssumption
  <2>. QED
    BY <2>1, <2>2, ArriveKeeps, ZenonT(60)
<1>. QED
  BY <1>1, <1>2

\* However the segments of a stream are cut, duplicated and reordered: what
\* _insertReceiveQueue and _processReceiveQueue pass to ondata is a prefix of
\* the stream, in order and each byte once, for every size of the sequence
\* numbers and of the window, every start and every length of the stream.
THEOREM StreamInOrder == ReceiveSpec => []InOrderOnce
  BY ReceiveInitInv, ReceiveStep, ReceiveInvImplies, PTL DEF ReceiveSpec

\* The edge of the receive window, which is what the socket acknowledges, is
\* always where the delivered bytes end, or after the FIN when all of them are:
\* no byte is acknowledged that the application has not got.
THEOREM AckedDelivered == ReceiveSpec => []AckedIsDelivered
  BY ReceiveInitInv, ReceiveStep, ReceiveInvImplies, PTL DEF ReceiveSpec

\* After every packet the receive queue has only items that start behind a gap
\* and within the window: the loop of _processReceiveQueue, which restarts its
\* search after every item it takes, leaves none that could be delivered.
THEOREM QueueWaits == ReceiveSpec => []QueueWaitsForGap
  BY ReceiveInitInv, ReceiveStep, ReceiveInvImplies, PTL DEF ReceiveSpec
=============================================================================
