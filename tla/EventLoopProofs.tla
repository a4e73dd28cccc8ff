--------------------------- MODULE EventLoopProofs ---------------------------
(***************************************************************************)
(* Proofs about EventLoop: every slot of timeout_data_ that is in use has  *)
(* one event under way, callbacks given to setImmediate run once and in    *)
(* order, and a timer that was cleared is not called if it is none of      *)
(* setInterval.  The invariant says of the queued messages, as one         *)
(* sequence, which slot each of them was made for, and of the slots that   *)
(* no two hold the same callback, which also shows that a pool with one    *)
(* slot for each callback always has an empty one.                         *)
(***************************************************************************)
EXTENDS EventLoop, SequenceLemmas

\* The time a leaf may take, and a second attempt with more
USE SMTT(30), SMTT(60)

TimeoutOf(i) == Message("TIMEOUT_EVENT", i)

Msg == {Message("TIMEOUT_EVENT", i) : i \in Slot}
         \cup {Message("SET_IMMEDIATE", i) : i \in Place} \cup {Message("IRQ_RAISE", 0)}

Status == {"idle", "set", "cleared", "struck"}

LoopType ==
  /\ messages \in Seq(Msg) /\ batch \in Seq(Msg)
  /\ pc \notin {"js", "loop"} => batch = <<>>
  /\ pool \in [Slot -> Data \cup {NULL}]
  /\ objects \in [Place -> Immediate \cup {NULL}]
  /\ timeouts \in [Slot -> Nat]
  /\ handle \in [Timer -> Slot \cup {1}]
  /\ status \in [Timer -> Status]
  /\ waiting \in Seq(Immediate)

NoEvent(q, i) == \A k \in DOMAIN q : q[k] # TimeoutOf(i)
OnlyAt(q, i, k) == \A n \in DOMAIN q : q[n] = TimeoutOf(i) <=> n = k
OneEvent(q, i) == \E k \in DOMAIN q : OnlyAt(q, i, k)

\* Each slot in use has one event, either in timeouts_ or in a queue.
EventInv ==
  \A i \in Slot :
    /\ pool[i] = NULL => timeouts[i] = 0 /\ NoEvent(Queued, i)
    /\ pool[i] # NULL => \/ timeouts[i] = 1 /\ NoEvent(Queued, i)
                         \/ timeouts[i] = 0 /\ OneEvent(Queued, i)

\* The slots in use are those of different timers, and of timers that are not over.
PoolInv ==
  /\ \A i, j \in Slot : (pool[i] # NULL /\ pool[j] # NULL /\ pool[i].timer = pool[j].timer) => i = j
  /\ \A i \in Slot : pool[i] # NULL => status[pool[i].timer] # "idle"

IsImmediate(m) == m.type = "SET_IMMEDIATE"

\* at says where in q the messages of w are, when o is object_handles_.
Located(q, w, o, at) ==
  /\ at \in [DOMAIN w -> DOMAIN q]
  /\ \A j, k \in DOMAIN w : j < k => at[j] < at[k]
  /\ \A n \in DOMAIN q : IsImmediate(q[n]) <=> \E k \in DOMAIN w : at[k] = n
  /\ \A k \in DOMAIN w : w[k] = o[q[at[k]].index]

InOrder(q, w, o) == \E at : Located(q, w, o, at)

\* The immediates that wait are where the queued messages find them.
ImmediateInv ==
  /\ InOrder(Queued, waiting, objects)
  /\ \A j, k \in DOMAIN waiting : waiting[j] = waiting[k] => j = k
  /\ \A i, j \in Place : (objects[i] # NULL /\ objects[i] = objects[j]) => i = j
  /\ \A i \in Place : objects[i] # NULL => objects[i] \in Range(waiting)

IInv == LoopType /\ EventInv /\ PoolInv /\ ImmediateInv

\* A timeout stays in the slot that clearTimeout is given, and is flagged there.
ClearInv ==
  /\ \A t \in Timer \ Intervals :
       status[t] # "idle" => /\ handle[t] \in Slot /\ pool[handle[t]] # NULL
                             /\ pool[handle[t]].timer = t
  /\ \A t \in Intervals : status[t] # "cleared"
  /\ \A i \in Slot : (pool[i] # NULL /\ status[pool[i].timer] = "cleared") => pool[i].state = "cleared"

-----------------------------------------------------------------------------
(* Pools *)

\* As many slots as callbacks, and no two with the same one: each callback has one.
LEMMA Hole ==
  ASSUME NEW T, IsFiniteSet(T), NEW f \in [1 .. Cardinality(T) -> T],
         \A i, j \in 1 .. Cardinality(T) : f[i] = f[j] => i = j
  PROVE  \A t \in T : \E i \in 1 .. Cardinality(T) : f[i] = t
<1>. SUFFICES ASSUME NEW t \in T, \A i \in 1 .. Cardinality(T) : f[i] # t
              PROVE  FALSE
  OBVIOUS
<1>. DEFINE n == Cardinality(T)
            U == T \ {t}
<1>1. n \in Nat /\ IsFiniteSet(U) /\ Cardinality(U) = n - 1
  BY FS_CardinalityType, FS_RemoveElement
<1>2. f \in Injection(1 .. n, U)
  BY DEF Injection, IsInjective
<1>3. Cardinality(1 .. n) = n
  BY <1>1, FS_Interval
<1>. HIDE DEF n, U
<1>4. Cardinality(1 .. n) <= Cardinality(U)
  BY <1>1, <1>2, FS_Injection DEF ExistsInjection
<1>. QED
  BY <1>1, <1>3, <1>4

\* IndexedPool::Push finds an empty slot if there is one.
LEMMA FirstEmptyIs ==
  ASSUME NEW n \in Nat, NEW p, DOMAIN p = 1 .. n, \E i \in 1 .. n : p[i] = NULL
  PROVE  FirstEmpty(p) \in 1 .. n /\ p[FirstEmpty(p)] = NULL
<1>. DEFINE S == {i \in DOMAIN p : p[i] = NULL}
<1>1. S \subseteq Nat /\ S # {}
  OBVIOUS
<1>2. \E m \in S : \A k \in S : m <= k
  BY <1>1, LeastOf, ZenonT(60)
<1>3. Min(S) \in S
  BY <1>2 DEF Min
<1>. QED
  BY <1>3 DEF FirstEmpty

-----------------------------------------------------------------------------
(* The events of a slot in a queue *)

\* post puts a message at the end: only the slot it names gets one event more.
LEMMA EventAppended ==
  ASSUME NEW q \in Seq(Msg), NEW m \in Msg, NEW i
  PROVE  /\ m # TimeoutOf(i) /\ NoEvent(q, i) => NoEvent(Append(q, m), i)
         /\ m # TimeoutOf(i) /\ OneEvent(q, i) => OneEvent(Append(q, m), i)
         /\ m = TimeoutOf(i) /\ NoEvent(q, i) => OneEvent(Append(q, m), i)
<1>. DEFINE a == Append(q, m)
            n == Len(q)
            e == TimeoutOf(i)
<1>1. n \in Nat /\ DOMAIN q = 1 .. n /\ DOMAIN a = 1 .. n + 1 /\ a[n + 1] = m /\ \A k \in 1 .. n : a[k] = q[k]
  OBVIOUS
<1>. HIDE DEF a, n, e
<1>2. ASSUME m # e, NoEvent(q, i) PROVE NoEvent(a, i)
  BY <1>1, <1>2 DEF NoEvent, e
<1>3. ASSUME m # e, OneEvent(q, i) PROVE OneEvent(a, i)
  <2>0. PICK k \in DOMAIN q : OnlyAt(q, i, k)
    BY <1>3 DEF OneEvent
  <2>1. k \in 1 .. n /\ \A h \in 1 .. n : q[h] = e <=> h = k
    BY <1>1, <2>0 DEF OnlyAt, e
  <2>2. \A h \in 1 .. n + 1 : a[h] = e <=> h = k
    BY <1>1, <1>3, <2>1
  <2>. QED
    <3>1. k \in 1 .. n + 1
      BY <1>1, <2>1
    <3>2. OnlyAt(a, i, k)
      BY <1>1, <2>2 DEF OnlyAt, e
    <3>. QED
      BY <1>1, <3>1, <3>2 DEF OneEvent
<1>4. ASSUME m = e, NoEvent(q, i) PROVE OneEvent(a, i)
  <2>1. \A h \in 1 .. n + 1 : a[h] = e <=> h = n + 1
    BY <1>1, <1>4 DEF NoEvent, e
  <2>. QED
    <3>1. n + 1 \in 1 .. n + 1
      BY <1>1
    <3>2. OnlyAt(a, i, n + 1)
      BY <1>1, <2>1 DEF OnlyAt, e
    <3>. QED
      BY <1>1, <3>1, <3>2 DEF OneEvent
<1>. QED
  BY <1>2, <1>3, <1>4 DEF a, e

\* Taking the first message takes the event of the slot it names, and no other.
LEMMA EventTaken ==
  ASSUME NEW q \in Seq(Msg), q # <<>>, NEW i
  PROVE  /\ NoEvent(q, i) => NoEvent(Tail(q), i) /\ Head(q) # TimeoutOf(i)
         /\ Head(q) = TimeoutOf(i) /\ OneEvent(q, i) => NoEvent(Tail(q), i)
         /\ Head(q) # TimeoutOf(i) /\ OneEvent(q, i) => OneEvent(Tail(q), i)
<1>. DEFINE a == Tail(q)
            n == Len(q)
            e == TimeoutOf(i)
<1>1. /\ n \in Nat /\ n >= 1 /\ DOMAIN q = 1 .. n /\ DOMAIN a = 1 .. n - 1
      /\ Head(q) = q[1] /\ \A k \in 1 .. n - 1 : a[k] = q[k + 1]
  OBVIOUS
<1>. HIDE DEF a, n, e
<1>2. ASSUME NoEvent(q, i) PROVE NoEvent(a, i) /\ Head(q) # e
  <2>1. \A k \in 1 .. n : q[k] # e
    BY <1>1, <1>2 DEF NoEvent, e
  <2>2. 1 \in 1 .. n /\ \A k \in 1 .. n - 1 : k + 1 \in 1 .. n
    BY <1>1
  <2>. QED
    BY <1>1, <2>1, <2>2 DEF NoEvent, e
<1>3. ASSUME Head(q) = e, OneEvent(q, i) PROVE NoEvent(a, i)
  <2>0. PICK k \in DOMAIN q : OnlyAt(q, i, k)
    BY <1>3 DEF OneEvent
  <2>1. k \in 1 .. n /\ \A h \in 1 .. n : q[h] = e <=> h = k
    BY <1>1, <2>0 DEF OnlyAt, e
  <2>2. k = 1
    BY <1>1, <1>3, <2>1
  <2>3. \A h \in 1 .. n - 1 : a[h] # e
    BY <1>1, <2>1, <2>2
  <2>. QED
    BY <1>1, <2>3 DEF NoEvent, e
<1>4. ASSUME Head(q) # e, OneEvent(q, i) PROVE OneEvent(a, i)
  <2>0. PICK k \in DOMAIN q : OnlyAt(q, i, k)
    BY <1>4 DEF OneEvent
  <2>1. k \in 1 .. n /\ \A h \in 1 .. n : q[h] = e <=> h = k
    BY <1>1, <2>0 DEF OnlyAt, e
  <2>2. k # 1 /\ k - 1 \in 1 .. n - 1
    BY <1>1, <1>4, <2>1
  <2>3. \A h \in 1 .. n - 1 : a[h] = e <=> h = k - 1
    BY <1>1, <2>1
  <2>. QED
    <3>1. OnlyAt(a, i, k - 1)
      BY <1>1, <2>3 DEF OnlyAt, e
    <3>. QED
      BY <1>1, <2>2, <3>1 DEF OneEvent
<1>. QED
  BY <1>2, <1>3, <1>4 DEF a, e

-----------------------------------------------------------------------------
(* The order of immediates in a queue *)

\* ImmediatesInOrder, said of any queue, any list of waiting immediates and any slots
LEMMA InOrderIs == ImmediatesInOrder <=> InOrder(Queued, waiting, objects)
<1>1. ASSUME NEW at \in [DOMAIN waiting -> DOMAIN Queued]
      PROVE  ({at[k] : k \in DOMAIN waiting} = {n \in DOMAIN Queued : Queued[n].type = "SET_IMMEDIATE"})
             <=> (\A n \in DOMAIN Queued : IsImmediate(Queued[n]) <=> \E k \in DOMAIN waiting : at[k] = n)
  BY DEF IsImmediate
<1>. QED
  BY <1>1 DEF ImmediatesInOrder, InOrder, Located

\* post keeps the immediates in order: a new one is the last of the queue and of the
\* list, any other message changes neither.
LEMMA OrderAppended ==
  ASSUME NEW q \in Seq(Msg), NEW m \in Msg, NEW w \in Seq(Immediate),
         NEW o \in [Place -> Immediate \cup {NULL}], InOrder(q, w, o)
  PROVE  /\ ~ IsImmediate(m) => InOrder(Append(q, m), w, o)
         /\ IsImmediate(m) => \A c \in Immediate, o1 \in [Place -> Immediate \cup {NULL}] :
              (/\ o1[m.index] = c
               /\ \A n \in DOMAIN q : IsImmediate(q[n]) => o1[q[n].index] = o[q[n].index])
              => InOrder(Append(q, m), Append(w, c), o1)
<1>. DEFINE a == Append(q, m)
            n == Len(q)
            l == Len(w)
<1>1. n \in Nat /\ DOMAIN q = 1 .. n /\ DOMAIN a = 1 .. n + 1 /\ a[n + 1] = m /\ \A k \in 1 .. n : a[k] = q[k]
  OBVIOUS
<1>2. l \in Nat /\ DOMAIN w = 1 .. l
  OBVIOUS
<1>3. PICK at : Located(q, w, o, at)
  BY DEF InOrder
<1>4. /\ at \in [1 .. l -> 1 .. n]
      /\ \A j, k \in 1 .. l : j < k => at[j] < at[k]
      /\ \A h \in 1 .. n : IsImmediate(q[h]) <=> \E k \in 1 .. l : at[k] = h
      /\ \A k \in 1 .. l : w[k] = o[q[at[k]].index]
  BY <1>1, <1>2, <1>3, ZenonT(60) DEF Located
<1>. HIDE DEF a, n, l
<1>5. ASSUME ~ IsImmediate(m) PROVE InOrder(a, w, o)
  <2>1. \A k \in 1 .. l : at[k] \in 1 .. n /\ at[k] # n + 1 /\ a[at[k]] = q[at[k]]
    BY <1>1, <1>4
  <2>2. at \in [1 .. l -> 1 .. n + 1]
    BY <1>1, <1>4
  <2>3. \A h \in 1 .. n + 1 : IsImmediate(a[h]) <=> \E k \in 1 .. l : at[k] = h
    <3>1. \A h \in 1 .. n : IsImmediate(a[h]) <=> \E k \in 1 .. l : at[k] = h
      BY <1>1, <1>4
    <3>2. IsImmediate(a[n + 1]) <=> \E k \in 1 .. l : at[k] = n + 1
      BY <1>1, <1>5, <2>1
    <3>3. \A h \in 1 .. n + 1 : h \in 1 .. n \/ h = n + 1
      BY <1>1
    <3>. QED
      BY <3>1, <3>2, <3>3
  <2>4. \A k \in 1 .. l : w[k] = o[a[at[k]].index]
    BY <1>4, <2>1
  <2>5. Located(a, w, o, at)
    BY <1>1, <1>2, <1>4, <2>2, <2>3, <2>4, ZenonT(60) DEF Located
  <2>. QED
    BY <2>5 DEF InOrder
<1>6. ASSUME IsImmediate(m), NEW c \in Immediate, NEW o1 \in [Place -> Immediate \cup {NULL}],
             o1[m.index] = c, \A h \in DOMAIN q : IsImmediate(q[h]) => o1[q[h].index] = o[q[h].index]
      PROVE  InOrder(a, Append(w, c), o1)
  <2>. DEFINE b == [k \in 1 .. l + 1 |-> IF k = l + 1 THEN n + 1 ELSE at[k]]
              v == Append(w, c)
  <2>1. DOMAIN v = 1 .. l + 1 /\ v[l + 1] = c /\ \A k \in 1 .. l : v[k] = w[k]
    BY DEF l
  <2>2. b[l + 1] = n + 1 /\ \A k \in 1 .. l : b[k] = at[k] /\ at[k] \in 1 .. n /\ a[at[k]] = q[at[k]]
    BY <1>1, <1>2, <1>4
  <2>3. b \in [1 .. l + 1 -> 1 .. n + 1]
    BY <1>1, <1>2, <1>4
  <2>. HIDE DEF b, v
  <2>4. \A k \in 1 .. l + 1 : k \in 1 .. l \/ k = l + 1
    BY <1>2
  <2>5. \A j, k \in 1 .. l + 1 : j < k => b[j] < b[k]
    <3>. SUFFICES ASSUME NEW j \in 1 .. l + 1, NEW k \in 1 .. l + 1, j < k PROVE b[j] < b[k]
      OBVIOUS
    <3>1. j \in 1 .. l
      BY <1>2
    <3>. QED
      BY <1>1, <1>4, <2>2, <2>4, <3>1
  <2>6. \A h \in 1 .. n + 1 : IsImmediate(a[h]) <=> \E k \in 1 .. l + 1 : b[k] = h
    <3>1. IsImmediate(a[n + 1]) /\ \E k \in 1 .. l + 1 : b[k] = n + 1
      BY <1>1, <1>2, <1>6, <2>2
    <3>2. ASSUME NEW h \in 1 .. n PROVE IsImmediate(a[h]) <=> \E k \in 1 .. l + 1 : b[k] = h
      <4>1. h # n + 1 /\ a[h] = q[h] /\ (IsImmediate(q[h]) <=> \E k \in 1 .. l : at[k] = h)
        BY <1>1, <1>4
      <4>2. (\E k \in 1 .. l : at[k] = h) <=> \E k \in 1 .. l + 1 : b[k] = h
        <5>1. \A k \in 1 .. l : k \in 1 .. l + 1 /\ b[k] = at[k]
          BY <1>2, <2>2
        <5>. QED
          BY <2>2, <2>4, <4>1, <5>1, ZenonT(60)
      <4>. QED
        BY <4>1, <4>2
    <3>3. \A h \in 1 .. n + 1 : h \in 1 .. n \/ h = n + 1
      BY <1>1
    <3>. QED
      BY <3>1, <3>2, <3>3
  <2>7. \A k \in 1 .. l + 1 : v[k] = o1[a[b[k]].index]
    <3>1. v[l + 1] = o1[a[b[l + 1]].index]
      BY <1>1, <1>6, <2>1, <2>2
    <3>2. ASSUME NEW k \in 1 .. l PROVE v[k] = o1[a[b[k]].index]
      <4>1. IsImmediate(q[at[k]]) /\ at[k] \in DOMAIN q
        BY <1>1, <1>4
      <4>. QED
        BY <1>4, <1>6, <2>1, <2>2, <4>1
    <3>. QED
      BY <2>4, <3>1, <3>2
  <2>8. Located(a, v, o1, b)
    BY <1>1, <2>1, <2>3, <2>5, <2>6, <2>7, ZenonT(60) DEF Located
  <2>. QED
    BY <2>8 DEF InOrder, v
<1>. QED
  BY <1>5, <1>6 DEF a

\* Taking the first message keeps them in order: if it is an immediate, it is the
\* first of the list.
LEMMA OrderTaken ==
  ASSUME NEW q \in Seq(Msg), q # <<>>, NEW w \in Seq(Immediate),
         NEW o \in [Place -> Immediate \cup {NULL}], InOrder(q, w, o)
  PROVE  /\ ~ IsImmediate(Head(q)) => InOrder(Tail(q), w, o)
         /\ IsImmediate(Head(q)) =>
              /\ w # <<>> /\ w[1] = o[Head(q).index]
              /\ \A o1 \in [Place -> Immediate \cup {NULL}] :
                   (\A n \in DOMAIN Tail(q) : IsImmediate(Tail(q)[n]) =>
                      o1[Tail(q)[n].index] = o[Tail(q)[n].index])
                   => InOrder(Tail(q), Tail(w), o1)
<1>. DEFINE a == Tail(q)
            n == Len(q)
            l == Len(w)
<1>1. /\ n \in Nat /\ n >= 1 /\ DOMAIN q = 1 .. n /\ DOMAIN a = 1 .. n - 1
      /\ Head(q) = q[1] /\ \A k \in 1 .. n - 1 : a[k] = q[k + 1]
  OBVIOUS
<1>2. l \in Nat /\ DOMAIN w = 1 .. l
  OBVIOUS
<1>3. PICK at : Located(q, w, o, at)
  BY DEF InOrder
<1>4. /\ at \in [1 .. l -> 1 .. n]
      /\ \A j, k \in 1 .. l : j < k => at[j] < at[k]
      /\ \A h \in 1 .. n : IsImmediate(q[h]) <=> \E k \in 1 .. l : at[k] = h
      /\ \A k \in 1 .. l : w[k] = o[q[at[k]].index]
  BY <1>1, <1>2, <1>3, ZenonT(60) DEF Located
<1>. HIDE DEF a, n, l
<1>5. \A h \in 1 .. n - 1 : h + 1 \in 1 .. n /\ h + 1 # 1 /\ a[h] = q[h + 1]
  BY <1>1
<1>6. ASSUME ~ IsImmediate(Head(q)) PROVE InOrder(a, w, o)
  <2>. DEFINE b == [k \in 1 .. l |-> at[k] - 1]
  <2>1. \A k \in 1 .. l : at[k] \in 1 .. n /\ at[k] # 1 /\ at[k] - 1 \in 1 .. n - 1 /\ (at[k] - 1) + 1 = at[k]
    <3>1. \A k \in 1 .. l : at[k] \in 1 .. n /\ at[k] # 1
      BY <1>1, <1>4, <1>6
    <3>. QED
      BY <1>1, <3>1
  <2>2. b \in [1 .. l -> 1 .. n - 1] /\ \A k \in 1 .. l : b[k] = at[k] - 1
    BY <2>1
  <2>. HIDE DEF b
  <2>3. \A j, k \in 1 .. l : j < k => b[j] < b[k]
    BY <1>1, <1>4, <2>1, <2>2
  <2>4. \A h \in 1 .. n - 1 : IsImmediate(a[h]) <=> \E k \in 1 .. l : b[k] = h
    <3>. SUFFICES ASSUME NEW h \in 1 .. n - 1 PROVE IsImmediate(a[h]) <=> \E k \in 1 .. l : b[k] = h
      OBVIOUS
    <3>1. IsImmediate(a[h]) <=> \E k \in 1 .. l : at[k] = h + 1
      BY <1>4, <1>5
    <3>2. \A k \in 1 .. l : at[k] = h + 1 <=> b[k] = h
      BY <1>1, <2>1, <2>2
    <3>. QED
      BY <3>1, <3>2
  <2>5. \A k \in 1 .. l : w[k] = o[a[b[k]].index]
    BY <1>4, <1>5, <2>1, <2>2
  <2>6. Located(a, w, o, b)
    BY <1>1, <1>2, <2>2, <2>3, <2>4, <2>5, ZenonT(60) DEF Located
  <2>. QED
    BY <2>6 DEF InOrder
<1>7. ASSUME IsImmediate(Head(q)) PROVE l >= 1 /\ at[1] = 1 /\ w[1] = o[Head(q).index]
  <2>1. PICK k \in 1 .. l : at[k] = 1
    BY <1>1, <1>4, <1>7
  <2>2. l >= 1 /\ 1 \in 1 .. l
    BY <1>2, <2>1
  <2>3. at[1] \in Int /\ at[1] >= 1
    <3>1. at[1] \in 1 .. n
      BY <1>4, <2>2
    <3>. QED
      BY <1>1, <3>1
  <2>4. k = 1
    <3>1. k > 1 => at[1] < at[k]
      BY <1>4, <2>2
    <3>. QED
      BY <1>2, <2>1, <2>3, <3>1
  <2>. QED
    BY <1>1, <1>4, <2>1, <2>2, <2>4
<1>8. ASSUME IsImmediate(Head(q)), NEW o1 \in [Place -> Immediate \cup {NULL}],
             \A h \in DOMAIN a : IsImmediate(a[h]) => o1[a[h].index] = o[a[h].index]
      PROVE  InOrder(a, Tail(w), o1)
  <2>. DEFINE b == [k \in 1 .. l - 1 |-> at[k + 1] - 1]
              v == Tail(w)
  <2>0. l >= 1 /\ at[1] = 1 /\ 1 \in 1 .. l /\ w # <<>>
    BY <1>2, <1>7, <1>8 DEF l
  <2>1. \A k \in 1 .. l - 1 : k + 1 \in 1 .. l /\ k + 1 > 1
    BY <1>2
  <2>2. \A k \in 1 .. l - 1 : /\ at[k + 1] \in 1 .. n /\ at[k + 1] - 1 \in 1 .. n - 1
                              /\ (at[k + 1] - 1) + 1 = at[k + 1]
    <3>. SUFFICES ASSUME NEW k \in 1 .. l - 1
                  PROVE  /\ at[k + 1] \in 1 .. n /\ at[k + 1] - 1 \in 1 .. n - 1
                         /\ (at[k + 1] - 1) + 1 = at[k + 1]
      OBVIOUS
    <3>1. at[k + 1] \in 1 .. n /\ at[1] < at[k + 1]
      BY <1>4, <2>0, <2>1
    <3>. QED
      BY <1>1, <2>0, <3>1
  <2>3. b \in [1 .. l - 1 -> 1 .. n - 1] /\ \A k \in 1 .. l - 1 : b[k] = at[k + 1] - 1
    BY <2>2
  <2>4. DOMAIN v = 1 .. l - 1 /\ \A k \in 1 .. l - 1 : v[k] = w[k + 1]
    BY <2>0 DEF l
  <2>. HIDE DEF b, v
  <2>5. \A j, k \in 1 .. l - 1 : j < k => b[j] < b[k]
    <3>. SUFFICES ASSUME NEW j \in 1 .. l - 1, NEW k \in 1 .. l - 1, j < k PROVE b[j] < b[k]
      OBVIOUS
    <3>1. at[j + 1] < at[k + 1]
      <4>1. j + 1 < k + 1
        BY <1>2
      <4>. QED
        BY <1>4, <2>1, <4>1
    <3>. QED
      BY <1>1, <2>2, <2>3, <3>1
  <2>6. \A h \in 1 .. n - 1 : IsImmediate(a[h]) <=> \E k \in 1 .. l - 1 : b[k] = h
    <3>. SUFFICES ASSUME NEW h \in 1 .. n - 1 PROVE IsImmediate(a[h]) <=> \E k \in 1 .. l - 1 : b[k] = h
      OBVIOUS
    <3>1. IsImmediate(a[h]) <=> \E k \in 1 .. l : at[k] = h + 1
      BY <1>4, <1>5
    <3>2. ASSUME NEW k \in 1 .. l, at[k] = h + 1 PROVE \E j \in 1 .. l - 1 : b[j] = h
      <4>1. k # 1
        BY <1>5, <2>0, <3>2
      <4>2. k - 1 \in 1 .. l - 1 /\ (k - 1) + 1 = k
        BY <1>2, <4>1
      <4>3. b[k - 1] = h
        BY <1>1, <2>3, <3>2, <4>2
      <4>. QED
        BY <4>2, <4>3
    <3>3. ASSUME NEW k \in 1 .. l - 1, b[k] = h PROVE \E j \in 1 .. l : at[j] = h + 1
      <4>1. at[k + 1] = h + 1
        BY <2>2, <2>3, <3>3
      <4>. QED
        BY <2>1, <4>1
    <3>. QED
      BY <3>1, <3>2, <3>3
  <2>7. \A k \in 1 .. l - 1 : v[k] = o1[a[b[k]].index]
    <3>. SUFFICES ASSUME NEW k \in 1 .. l - 1 PROVE v[k] = o1[a[b[k]].index]
      OBVIOUS
    <3>1. b[k] \in 1 .. n - 1 /\ a[b[k]] = q[at[k + 1]]
      BY <1>5, <2>2, <2>3
    <3>2. IsImmediate(a[b[k]])
      BY <2>6, <3>1, ZenonT(60)
    <3>3. o1[a[b[k]].index] = o[a[b[k]].index]
      BY <1>1, <1>8, <3>1, <3>2
    <3>. QED
      BY <1>4, <2>1, <2>4, <3>1, <3>3
  <2>8. Located(a, v, o1, b)
    BY <1>1, <2>3, <2>4, <2>5, <2>6, <2>7, ZenonT(60) DEF Located
  <2>. QED
    BY <2>8 DEF InOrder, v
<1>9. l >= 1 => w # <<>>
  BY DEF l
<1>. QED
  BY <1>6, <1>7, <1>8, <1>9 DEF a

\* Messages of different immediates have different slots.
LEMMA Elsewhere ==
  ASSUME NEW q \in Seq(Msg), NEW w \in Seq(Immediate),
         NEW o \in [Place -> Immediate \cup {NULL}], InOrder(q, w, o),
         \A j, k \in DOMAIN w : w[j] = w[k] => j = k
  PROVE  \A n \in DOMAIN q : IsImmediate(q[n]) =>
           /\ q[n].index \in Place /\ o[q[n].index] \in Immediate
           /\ \A h \in DOMAIN q : (IsImmediate(q[h]) /\ q[h].index = q[n].index) => h = n
<1>1. PICK at : Located(q, w, o, at)
  BY DEF InOrder
<1>2. \A n \in DOMAIN q : IsImmediate(q[n]) => \E k \in DOMAIN w : at[k] = n /\ w[k] = o[q[n].index]
  BY <1>1 DEF Located
<1>3. \A k \in DOMAIN w : w[k] \in Immediate
  OBVIOUS
<1>4. \A n \in DOMAIN q : IsImmediate(q[n]) => q[n].index \in Place
  <2>1. \A m \in Msg : m.type = "SET_IMMEDIATE" => m.index \in Place
    BY DEF Msg, Message
  <2>. QED
    BY <2>1 DEF IsImmediate
<1>. QED
  BY <1>2, <1>3, <1>4

-----------------------------------------------------------------------------
(* The batch and the messages behind it are one queue. *)

\* What post, the swap of the queues and the loop over the batch do to that queue
LEMMA QueueSteps ==
  ASSUME messages \in Seq(Msg), batch \in Seq(Msg)
  PROVE  /\ Queued \in Seq(Msg)
         /\ \A m \in Msg : batch \o Append(messages, m) = Append(Queued, m)
         /\ batch = <<>> => Queued = messages
         /\ messages \o <<>> = messages
         /\ batch # <<>> => /\ Queued # <<>> /\ Head(Queued) = Head(batch)
                            /\ Tail(batch) \o messages = Tail(Queued)
                            /\ Tail(batch) \in Seq(Msg) /\ Head(batch) \in Msg
<1>. DEFINE b == batch
            s == messages
<1>0. b \in Seq(Msg) /\ s \in Seq(Msg)
  OBVIOUS
<1>. HIDE DEF b, s
<1>1. b \o s \in Seq(Msg)
  BY <1>0
<1>2. \A m \in Msg : b \o Append(s, m) = Append(b \o s, m)
  BY <1>0
<1>3. s \o <<>> = s /\ <<>> \o s = s
  BY <1>0
<1>4. ASSUME b # <<>>
      PROVE  /\ b \o s # <<>> /\ Head(b \o s) = Head(b) /\ Tail(b) \o s = Tail(b \o s)
             /\ Tail(b) \in Seq(Msg) /\ Head(b) \in Msg
  <2>1. /\ Tail(b) \in Seq(Msg) /\ Head(b) \in Msg /\ Len(b) \in Nat \ {0} /\ Len(s) \in Nat
        /\ Len(Tail(b)) = Len(b) - 1 /\ Head(b) = b[1]
        /\ \A i \in 1 .. Len(b) - 1 : Tail(b)[i] = b[i + 1]
    BY <1>0, <1>4
  <2>2. PICK c : c = b \o s
    BY ZenonT(60)
  <2>3. /\ c \in Seq(Msg) /\ Len(c) = Len(b) + Len(s)
        /\ \A i \in 1 .. Len(b) + Len(s) : c[i] = IF i <= Len(b) THEN b[i] ELSE s[i - Len(b)]
    BY ONLY <1>0, <2>2
  <2>4. c # <<>> /\ Head(c) = Head(b)
    BY ONLY <2>1, <2>3
  <2>5. /\ Tail(c) \in Seq(Msg) /\ Len(Tail(c)) = Len(c) - 1
        /\ \A i \in 1 .. Len(c) - 1 : Tail(c)[i] = c[i + 1]
    BY ONLY <2>3, <2>4
  <2>6. PICK t : t = Tail(b)
    BY ZenonT(60)
  <2>7. PICK d : d = t \o s
    BY ZenonT(60)
  <2>8. /\ d \in Seq(Msg) /\ Len(d) = Len(t) + Len(s)
        /\ \A i \in 1 .. Len(t) + Len(s) : d[i] = IF i <= Len(t) THEN t[i] ELSE s[i - Len(t)]
    BY ONLY <1>0, <2>1, <2>6, <2>7, SMTT(60)
  <2>9. Len(d) = Len(Tail(c))
    BY ONLY <2>1, <2>3, <2>5, <2>6, <2>8, SMTT(60)
  <2>10. ASSUME NEW i \in 1 .. Len(d) PROVE d[i] = Tail(c)[i]
    <3>1. i \in 1 .. Len(b) + Len(s) - 1
      BY <2>1, <2>6, <2>8
    <3>2. d[i] = IF i <= Len(b) - 1 THEN b[i + 1] ELSE s[i - (Len(b) - 1)]
      BY ONLY <2>1, <2>6, <2>8, <3>1, SMTT(60)
    <3>3. Tail(c)[i] = IF i + 1 <= Len(b) THEN b[i + 1] ELSE s[i + 1 - Len(b)]
      BY ONLY <2>1, <2>3, <2>5, <3>1
    <3>4. CASE i <= Len(b) - 1
      <4>1. i + 1 <= Len(b)
        BY ONLY <2>1, <3>1, <3>4
      <4>. QED
        BY <3>2, <3>3, <3>4, <4>1, ZenonT(60)
    <3>5. CASE ~ (i <= Len(b) - 1)
      <4>1. ~ (i + 1 <= Len(b)) /\ i + 1 - Len(b) = i - (Len(b) - 1)
        BY ONLY <2>1, <3>1, <3>5, SMTT(60)
      <4>. QED
        BY <3>2, <3>3, <3>5, <4>1, ZenonT(60)
    <3>. QED
      BY <3>4, <3>5, ZenonT(60)
  <2>11. d = Tail(c)
    <3>1. PICK e : e = Tail(c)
      BY ZenonT(60)
    <3>2. d \in Seq(Msg) /\ e \in Seq(Msg) /\ Len(e) = Len(d)
      BY <2>5, <2>8, <2>9, <3>1, ZenonT(60)
    <3>3. \A i \in 1 .. Len(d) : d[i] = e[i]
      BY <2>10, <3>1, ZenonT(60)
    <3>. QED
      BY ONLY <3>1, <3>2, <3>3, SMTT(60)
  <2>. QED
    BY <2>1, <2>2, <2>4, <2>6, <2>7, <2>11
<1>. QED
  BY <1>1, <1>2, <1>3, <1>4, ZenonT(60) DEF Queued, b, s

-----------------------------------------------------------------------------
(* Steps *)

\* The sizes of the pools
LEMMA Sizes ==
  /\ Cardinality(Timer) \in Nat /\ Slot \subseteq Nat /\ 0 \notin Slot
  /\ Cardinality(Immediate) \in Nat /\ Place \subseteq Nat
<1>1. Cardinality(Timer) \in Nat /\ Cardinality(Immediate) \in Nat
  BY LoopAssumption, FS_CardinalityType
<1>. QED
  BY <1>1 DEF Slot, Place

\* Messages of different kinds, or for different slots, are different.
LEMMA Messages ==
  /\ \A i, j : TimeoutOf(i) = TimeoutOf(j) => i = j
  /\ \A i \in Slot : TimeoutOf(i) \in Msg /\ ~ IsImmediate(TimeoutOf(i))
  /\ \A i \in Place : Message("SET_IMMEDIATE", i) \in Msg /\ IsImmediate(Message("SET_IMMEDIATE", i))
  /\ Message("IRQ_RAISE", 0) \in Msg /\ ~ IsImmediate(Message("IRQ_RAISE", 0))
  /\ \A m \in Msg : /\ m.type = "TIMEOUT_EVENT" => m.index \in Slot /\ m = TimeoutOf(m.index)
                    /\ m.type # "TIMEOUT_EVENT" => \A i : m # TimeoutOf(i)
                    /\ m.type = "SET_IMMEDIATE" => m.index \in Place
<1>1. \A i, j : TimeoutOf(i) = TimeoutOf(j) => i = j
  BY DEF Message, TimeoutOf
<1>2. \A i \in Slot : TimeoutOf(i) \in Msg /\ ~ IsImmediate(TimeoutOf(i))
  BY DEF Message, TimeoutOf, Msg, IsImmediate
<1>3. \A i \in Place : Message("SET_IMMEDIATE", i) \in Msg /\ IsImmediate(Message("SET_IMMEDIATE", i))
  BY ZenonT(60) DEF Message, Msg, IsImmediate
<1>4. Message("IRQ_RAISE", 0) \in Msg /\ ~ IsImmediate(Message("IRQ_RAISE", 0))
  BY DEF Message, Msg, IsImmediate
<1>5. ASSUME NEW m \in Msg
      PROVE  /\ m.type = "TIMEOUT_EVENT" => m.index \in Slot /\ m = TimeoutOf(m.index)
             /\ m.type # "TIMEOUT_EVENT" => \A i : m # TimeoutOf(i)
             /\ m.type = "SET_IMMEDIATE" => m.index \in Place
  <2>1. CASE \E i \in Slot : m = Message("TIMEOUT_EVENT", i)
    BY <2>1 DEF Message, TimeoutOf
  <2>2. CASE \E i \in Place : m = Message("SET_IMMEDIATE", i)
    BY <2>2 DEF Message, TimeoutOf
  <2>3. CASE m = Message("IRQ_RAISE", 0)
    BY <2>3 DEF Message, TimeoutOf
  <2>. QED
    BY <2>1, <2>2, <2>3 DEF Msg
<1>. QED
  BY <1>1, <1>2, <1>3, <1>4, <1>5

\* setTimeout finds an empty slot: the slots in use are those of other timers.
LEMMA FreeSlot ==
  ASSUME LoopType, PoolInv, NEW t \in Timer, status[t] = "idle"
  PROVE  FirstEmpty(pool) \in Slot /\ pool[FirstEmpty(pool)] = NULL
<1>. DEFINE f == [i \in Slot |-> pool[i].timer]
<1>1. DOMAIN pool = Slot
  BY DEF LoopType
<1>2. \E i \in Slot : pool[i] = NULL
  <2>. SUFFICES ASSUME \A i \in Slot : pool[i] # NULL PROVE FALSE
    OBVIOUS
  <2>1. \A i \in Slot : pool[i] \in Data
    BY DEF LoopType
  <2>2. f \in [Slot -> Timer] /\ \A i \in Slot : f[i] = pool[i].timer
    BY <2>1 DEF Data
  <2>3. \A i, j \in Slot : f[i] = f[j] => i = j
    BY <2>2 DEF PoolInv
  <2>4. \A i \in Slot : f[i] # t
    BY <2>2 DEF PoolInv
  <2>5. IsFiniteSet(Timer)
    BY LoopAssumption
  <2>. HIDE DEF f
  <2>6. \A u \in Timer : \E i \in Slot : f[i] = u
    <3>1. f \in [Slot -> Timer]
      BY <2>2
    <3>. QED
      BY ONLY <2>3, <2>5, <3>1, Hole, ZenonT(60) DEF Slot
  <2>. QED
    BY <2>4, <2>6
<1>. QED
  BY <1>1, <1>2, Sizes, FirstEmptyIs DEF Slot

\* And setImmediate
LEMMA FreePlace ==
  ASSUME LoopType, ImmediateInv, NEW c \in Immediate, c \notin Range(waiting)
  PROVE  FirstEmpty(objects) \in Place /\ objects[FirstEmpty(objects)] = NULL
<1>1. DOMAIN objects = Place
  BY DEF LoopType
<1>2. \E i \in Place : objects[i] = NULL
  <2>. SUFFICES ASSUME \A i \in Place : objects[i] # NULL PROVE FALSE
    OBVIOUS
  <2>1. objects \in [Place -> Immediate]
    BY DEF LoopType
  <2>2. \A i, j \in Place : objects[i] = objects[j] => i = j
    BY DEF ImmediateInv
  <2>3. \A i \in Place : objects[i] # c
    BY DEF ImmediateInv
  <2>4. IsFiniteSet(Immediate)
    BY LoopAssumption
  <2>5. \A u \in Immediate : \E i \in Place : objects[i] = u
    BY <2>1, <2>2, <2>4, Hole, ZenonT(60) DEF Place
  <2>. QED
    BY <2>3, <2>5
<1>. QED
  BY <1>1, <1>2, Sizes, FirstEmptyIs DEF Place

\* Steps that move the program counter, or move messages from one queue to the other
LEMMA QuietStep ==
  ASSUME IInv, UNCHANGED <<pool, objects, timeouts, handle, status, waiting>>,
         messages' \in Seq(Msg), batch' \in Seq(Msg), Queued' = Queued,
         pc' \notin {"js", "loop"} => batch' = <<>>
  PROVE  IInv' /\ (ClearInv => ClearInv')
<1>1. LoopType'
  BY DEF IInv, LoopType
<1>2. EventInv' /\ PoolInv' /\ ImmediateInv'
  BY ZenonT(60) DEF IInv, EventInv, PoolInv, ImmediateInv
<1>3. ClearInv => ClearInv'
  BY DEF ClearInv
<1>. QED
  BY <1>1, <1>2, <1>3 DEF IInv

\* An interrupt leaves a message.
LEMMA IrqStep ==
  ASSUME IInv, UNCHANGED <<pool, objects, timeouts, handle, status, waiting, batch>>,
         messages' = Append(messages, Message("IRQ_RAISE", 0)),
         pc' \notin {"js", "loop"} => batch' = <<>>
  PROVE  IInv' /\ (ClearInv => ClearInv')
<1>. DEFINE m == Message("IRQ_RAISE", 0)
<1>1. m \in Msg /\ ~ IsImmediate(m) /\ \A i : m # TimeoutOf(i)
  BY Messages DEF Message, TimeoutOf
<1>. HIDE DEF m
<1>2. messages \in Seq(Msg) /\ batch \in Seq(Msg) /\ Queued \in Seq(Msg) /\ messages' = Append(messages, m)
  BY QueueSteps DEF IInv, LoopType, m
<1>3. Queued' = Append(Queued, m) /\ messages' \in Seq(Msg)
  BY <1>1, <1>2, QueueSteps DEF Queued
<1>4. LoopType'
  BY <1>3 DEF IInv, LoopType
<1>5. EventInv'
  BY <1>1, <1>2, <1>3, EventAppended DEF IInv, EventInv
<1>6. PoolInv'
  BY DEF IInv, PoolInv
<1>7. ImmediateInv'
  <2>1. InOrder(Append(Queued, m), waiting, objects)
    BY <1>1, <1>2, OrderAppended, ZenonT(60) DEF IInv, LoopType, ImmediateInv
  <2>. QED
    BY <1>3, <2>1 DEF IInv, ImmediateInv
<1>8. ClearInv => ClearInv'
  BY DEF ClearInv
<1>. QED
  BY <1>4, <1>5, <1>6, <1>7, <1>8 DEF IInv

\* setTimeout and setInterval
LEMMA SetTimerStep ==
  ASSUME IInv, NEW t \in Timer, CallSetTimer(t)
  PROVE  IInv' /\ (ClearInv => ClearInv')
<1>. PICK i : i = FirstEmpty(pool)
  OBVIOUS
<1>. DEFINE d == [timer |-> t, state |-> "live"]
<1>1. /\ status[t] = "idle" /\ pool' = [pool EXCEPT ![i] = d]
      /\ timeouts' = [timeouts EXCEPT ![i] = timeouts[i] + 1]
      /\ handle' = [handle EXCEPT ![t] = i] /\ status' = [status EXCEPT ![t] = "set"]
      /\ UNCHANGED <<pc, messages, batch, objects, waiting>>
  BY DEF CallSetTimer, SetTimer, queueVars
<1>2. d \in Data /\ d # NULL /\ d.timer = t /\ d.state = "live"
  BY LoopAssumption DEF Data
<1>. HIDE DEF d
<1>3. i \in Slot /\ pool[i] = NULL
  BY <1>1, FreeSlot DEF IInv
<1>4. /\ pool \in [Slot -> Data \cup {NULL}] /\ timeouts \in [Slot -> Nat]
      /\ handle \in [Timer -> Slot \cup {1}] /\ status \in [Timer -> Status]
  BY DEF IInv, LoopType
<1>5. Queued' = Queued /\ timeouts[i] = 0 /\ NoEvent(Queued, i)
  BY <1>1, <1>3 DEF Queued, IInv, EventInv
<1>6. LoopType'
  BY <1>1, <1>2, <1>3, <1>4 DEF IInv, LoopType, Status
<1>7. EventInv'
  BY <1>1, <1>2, <1>3, <1>4, <1>5 DEF IInv, EventInv
<1>8. \A k \in Slot : pool[k] # NULL => pool[k] \in Data /\ pool[k].timer \in Timer /\ pool[k].timer # t
  BY <1>1, <1>4 DEF IInv, PoolInv, Data
<1>9. PoolInv'
  <2>1. \A k \in Slot : pool'[k] = IF k = i THEN d ELSE pool[k]
    BY <1>1, <1>4
  <2>2. \A u \in Timer : status'[u] = IF u = t THEN "set" ELSE status[u]
    BY <1>1, <1>4
  <2>. QED
    BY <1>2, <1>8, <2>1, <2>2 DEF IInv, PoolInv
<1>10. ImmediateInv'
  BY <1>1, <1>5 DEF IInv, ImmediateInv
<1>11. ASSUME ClearInv PROVE ClearInv'
  <2>1. \A k \in Slot : pool'[k] = IF k = i THEN d ELSE pool[k]
    BY <1>1, <1>4
  <2>2. \A u \in Timer : /\ status'[u] = IF u = t THEN "set" ELSE status[u]
                         /\ handle'[u] = IF u = t THEN i ELSE handle[u]
    BY <1>1, <1>4
  <2>3. \A u \in Timer \ Intervals :
          status'[u] # "idle" => /\ handle'[u] \in Slot /\ pool'[handle'[u]] # NULL
                                 /\ pool'[handle'[u]].timer = u
    BY <1>2, <1>3, <1>11, <2>1, <2>2 DEF ClearInv
  <2>4. \A u \in Intervals : status'[u] # "cleared"
    BY <1>11, <2>2, LoopAssumption DEF ClearInv
  <2>5. \A k \in Slot : (pool'[k] # NULL /\ status'[pool'[k].timer] = "cleared") => pool'[k].state = "cleared"
    BY <1>2, <1>8, <1>11, <2>1, <2>2 DEF ClearInv
  <2>. QED
    BY <2>3, <2>4, <2>5 DEF ClearInv
<1>. QED
  BY <1>6, <1>7, <1>9, <1>10, <1>11 DEF IInv

\* clearTimeout and clearInterval, of a timer that is set or of one that is over
LEMMA ClearTimerStep ==
  ASSUME IInv, NEW t \in Timer, CallClearTimer(t)
  PROVE  IInv' /\ (ClearInv /\ ~ ClearsIntervals => ClearInv')
<1>. PICK i : i = handle[t]
  OBVIOUS
<1>1. /\ t \in Intervals => ClearsIntervals
      /\ pool' = [pool EXCEPT ![i] = IF pool[i] = NULL THEN NULL ELSE [pool[i] EXCEPT !.state = "cleared"]]
      /\ UNCHANGED <<pc, messages, batch, objects, waiting, timeouts, handle>>
  BY DEF CallClearTimer, FlagTimeoutCleared, queueVars
<1>2. /\ pool \in [Slot -> Data \cup {NULL}] /\ timeouts \in [Slot -> Nat]
      /\ handle \in [Timer -> Slot \cup {1}] /\ status \in [Timer -> Status]
  BY DEF IInv, LoopType
<1>3. \A d \in Data : /\ [d EXCEPT !.state = "cleared"] \in Data
                      /\ [d EXCEPT !.state = "cleared"] # NULL
                      /\ [d EXCEPT !.state = "cleared"].timer = d.timer
                      /\ [d EXCEPT !.state = "cleared"].state = "cleared"
                      /\ d.timer \in Timer
  BY LoopAssumption DEF Data
<1>4. \A k \in Slot :
        /\ pool'[k] \in Data \cup {NULL} /\ (pool'[k] = NULL <=> pool[k] = NULL)
        /\ k # i => pool'[k] = pool[k]
        /\ pool[k] # NULL => /\ pool'[k].timer = pool[k].timer /\ pool[k].timer \in Timer
                             /\ k = i \/ pool[k].state = "cleared" => pool'[k].state = "cleared"
  <2>. SUFFICES ASSUME NEW k \in Slot
                PROVE /\ pool'[k] \in Data \cup {NULL} /\ (pool'[k] = NULL <=> pool[k] = NULL)
                      /\ k # i => pool'[k] = pool[k]
                      /\ pool[k] # NULL => /\ pool'[k].timer = pool[k].timer /\ pool[k].timer \in Timer
                                           /\ k = i \/ pool[k].state = "cleared" => pool'[k].state = "cleared"
    OBVIOUS
  <2>1. pool[k] = NULL \/ pool[k] \in Data
    BY <1>2
  <2>2. CASE k = i /\ pool[k] # NULL
    BY <1>1, <1>2, <1>3, <2>1, <2>2
  <2>3. CASE ~ (k = i /\ pool[k] # NULL)
    <3>1. pool'[k] = pool[k]
      BY <1>1, <1>2, <2>3
    <3>. QED
      BY <1>3, <2>1, <2>3, <3>1, ZenonT(60)
  <2>. QED
    BY <2>2, <2>3
<1>5. pool' \in [Slot -> Data \cup {NULL}]
  <2>1. pool' = [k \in Slot |-> pool'[k]]
    BY <1>1, <1>2, ZenonT(60)
  <2>. QED
    BY <1>4, <2>1
<1>6. Queued' = Queued
  BY <1>1 DEF Queued
<1>9. /\ status' \in [Timer -> Status]
      /\ \A u \in Timer : /\ status'[u] = "idle" <=> status[u] = "idle"
                          /\ status'[u] = "cleared" => status[u] = "cleared" \/ (u = t /\ status[t] # "idle")
  BY <1>2 DEF CallClearTimer, Status
<1>7. LoopType'
  BY <1>1, <1>5, <1>9 DEF IInv, LoopType
<1>8. EventInv'
  BY <1>1, <1>4, <1>6 DEF IInv, EventInv
<1>10. PoolInv'
  BY <1>4, <1>9 DEF IInv, PoolInv
<1>11. ImmediateInv'
  BY <1>1, <1>6 DEF IInv, ImmediateInv
<1>12. ASSUME ClearInv, ~ ClearsIntervals PROVE ClearInv'
  <2>1. t \in Timer \ Intervals
    BY <1>1, <1>12
  <2>2. status[t] # "idle" => i \in Slot /\ pool[i] # NULL /\ pool[i].timer = t
    BY <1>12, <2>1 DEF ClearInv
  <2>3. \A u \in Timer \ Intervals :
          status'[u] # "idle" => /\ handle'[u] \in Slot /\ pool'[handle'[u]] # NULL
                                 /\ pool'[handle'[u]].timer = u
    BY <1>1, <1>4, <1>9, <1>12 DEF ClearInv
  <2>4. \A u \in Intervals : status'[u] # "cleared"
    BY <1>9, <1>12, <2>1, LoopAssumption DEF ClearInv
  <2>5. \A k \in Slot : (pool'[k] # NULL /\ status'[pool'[k].timer] = "cleared") => pool'[k].state = "cleared"
    BY <1>4, <1>9, <1>12, <2>2 DEF ClearInv, IInv, PoolInv
  <2>. QED
    BY <2>3, <2>4, <2>5 DEF ClearInv
<1>. QED
  BY <1>7, <1>8, <1>10, <1>11, <1>12 DEF IInv

\* ProcessTimeouts of thread-manager.cc
LEMMA ElapseStep ==
  ASSUME IInv, NEW i \in Slot, TimeoutElapses(i)
  PROVE  IInv' /\ (ClearInv => ClearInv')
<1>. DEFINE m == TimeoutOf(i)
<1>1. /\ timeouts[i] > 0 /\ timeouts' = [timeouts EXCEPT ![i] = timeouts[i] - 1]
      /\ messages' = Append(messages, m)
      /\ UNCHANGED <<pc, batch, objects, waiting, pool, handle, status>>
  BY DEF TimeoutElapses, PushMessage, TimeoutOf
<1>2. m \in Msg /\ ~ IsImmediate(m) /\ \A k : k # i => m # TimeoutOf(k)
  BY Messages
<1>3. messages \in Seq(Msg) /\ batch \in Seq(Msg) /\ Queued \in Seq(Msg) /\ timeouts \in [Slot -> Nat]
  BY QueueSteps DEF IInv, LoopType
<1>. HIDE DEF m
<1>4. Queued' = Append(Queued, m) /\ messages' \in Seq(Msg)
  BY <1>1, <1>2, <1>3, QueueSteps DEF Queued
<1>5. pool[i] # NULL /\ timeouts[i] = 1 /\ NoEvent(Queued, i)
  BY <1>1 DEF IInv, EventInv
<1>6. timeouts' \in [Slot -> Nat] /\ timeouts'[i] = 0 /\ \A k \in Slot : k # i => timeouts'[k] = timeouts[k]
  BY <1>1, <1>3, <1>5
<1>7. LoopType'
  BY <1>1, <1>4, <1>6 DEF IInv, LoopType
<1>8. EventInv'
  <2>1. OneEvent(Queued', i)
    BY <1>2, <1>3, <1>4, <1>5, EventAppended DEF m
  <2>2. \A k \in Slot : k # i => /\ NoEvent(Queued, k) => NoEvent(Queued', k)
                                 /\ OneEvent(Queued, k) => OneEvent(Queued', k)
    BY <1>2, <1>3, <1>4, EventAppended
  <2>. QED
    BY <1>1, <1>5, <1>6, <2>1, <2>2 DEF IInv, EventInv
<1>9. PoolInv'
  BY <1>1 DEF IInv, PoolInv
<1>10. ImmediateInv'
  <2>1. InOrder(Append(Queued, m), waiting, objects)
    BY <1>2, <1>3, OrderAppended, ZenonT(60) DEF IInv, LoopType, ImmediateInv
  <2>. QED
    BY <1>1, <1>4, <2>1 DEF IInv, ImmediateInv
<1>11. ClearInv => ClearInv'
  BY <1>1 DEF ClearInv
<1>. QED
  BY <1>7, <1>8, <1>9, <1>10, <1>11 DEF IInv

\* setImmediate
LEMMA SetImmediateStep ==
  ASSUME IInv, NEW c \in Immediate, CallSetImmediate(c)
  PROVE  IInv' /\ (ClearInv => ClearInv')
<1>. PICK i : i = FirstEmpty(objects)
  OBVIOUS
<1>. DEFINE m == Message("SET_IMMEDIATE", i)
<1>1. /\ c \notin Range(waiting) /\ objects' = [objects EXCEPT ![i] = c]
      /\ messages' = Append(messages, m) /\ waiting' = Append(waiting, c)
      /\ UNCHANGED <<pc, batch, pool, timeouts, handle, status>>
  BY DEF CallSetImmediate, PushMessage, timerVars
<1>2. i \in Place /\ objects[i] = NULL
  BY <1>1, FreePlace DEF IInv
<1>3. m \in Msg /\ IsImmediate(m) /\ m.index = i /\ \A k : m # TimeoutOf(k)
  BY <1>2, Messages DEF Message, TimeoutOf
<1>. HIDE DEF m
<1>4. /\ messages \in Seq(Msg) /\ batch \in Seq(Msg) /\ Queued \in Seq(Msg)
      /\ objects \in [Place -> Immediate \cup {NULL}] /\ waiting \in Seq(Immediate)
  BY QueueSteps DEF IInv, LoopType
<1>5. Queued' = Append(Queued, m) /\ messages' \in Seq(Msg)
  BY <1>1, <1>3, <1>4, QueueSteps DEF Queued
<1>6. /\ objects' \in [Place -> Immediate \cup {NULL}] /\ objects'[i] = c
      /\ \A k \in Place : k # i => objects'[k] = objects[k]
  BY <1>1, <1>2, <1>4
<1>7. waiting' \in Seq(Immediate) /\ Range(waiting') = Range(waiting) \cup {c}
  BY <1>1, <1>4, Members
<1>8. LoopType'
  BY <1>1, <1>5, <1>6, <1>7 DEF IInv, LoopType
<1>9. EventInv'
  BY <1>1, <1>3, <1>4, <1>5, EventAppended, ZenonT(60) DEF IInv, EventInv
<1>10. PoolInv'
  BY <1>1 DEF IInv, PoolInv
<1>11. ImmediateInv'
  <2>1. InOrder(Append(Queued, m), Append(waiting, c), objects')
    <3>1. InOrder(Queued, waiting, objects) /\ \A j, k \in DOMAIN waiting : waiting[j] = waiting[k] => j = k
      BY DEF IInv, ImmediateInv
    <3>2. \A n \in DOMAIN Queued : IsImmediate(Queued[n]) =>
             Queued[n].index \in Place /\ objects[Queued[n].index] \in Immediate
      BY <1>4, <3>1, Elsewhere, ZenonT(60)
    <3>3. \A n \in DOMAIN Queued : IsImmediate(Queued[n]) => Queued[n].index # i
      BY <1>2, <3>2, LoopAssumption
    <3>4. \A n \in DOMAIN Queued : IsImmediate(Queued[n]) =>
             objects'[Queued[n].index] = objects[Queued[n].index]
      BY <1>6, <3>2, <3>3
    <3>. QED
      BY <1>3, <1>4, <1>6, <3>1, <3>4, OrderAppended, ZenonT(60)
  <2>2. \A j, k \in DOMAIN waiting' : waiting'[j] = waiting'[k] => j = k
    <3>. DEFINE w == Append(waiting, c)
                l == Len(waiting)
    <3>1. /\ l \in Nat /\ DOMAIN w = 1 .. l + 1 /\ w[l + 1] = c
          /\ \A k \in 1 .. l : w[k] = waiting[k] /\ k \in DOMAIN waiting /\ waiting[k] # c
      BY <1>1, <1>4 DEF Range
    <3>. HIDE DEF w, l
    <3>2. \A j, k \in DOMAIN w : w[j] = w[k] => j = k
      BY <3>1 DEF IInv, ImmediateInv
    <3>. QED
      BY <1>1, <3>2 DEF w
  <2>3. \A j, k \in Place : (objects'[j] # NULL /\ objects'[j] = objects'[k]) => j = k
    <3>1. \A k \in Place : objects[k] # c
      <4>1. c # NULL
        BY LoopAssumption
      <4>. QED
        BY <1>1, <4>1 DEF IInv, ImmediateInv
    <3>. QED
      BY <1>6, <3>1 DEF IInv, ImmediateInv
  <2>4. \A k \in Place : objects'[k] # NULL => objects'[k] \in Range(waiting')
    BY <1>6, <1>7 DEF IInv, ImmediateInv
  <2>. QED
    BY <1>1, <1>5, <2>1, <2>2, <2>3, <2>4 DEF ImmediateInv
<1>12. ClearInv => ClearInv'
  BY <1>1 DEF ClearInv
<1>. QED
  BY <1>8, <1>9, <1>10, <1>11, <1>12 DEF IInv

\* Run takes m from its batch.
Pops(m) == batch # <<>> /\ Head(batch) = m /\ batch' = Tail(batch) /\ messages' = messages

\* What Run knows of the next message of its batch
LEMMA NextMessage ==
  ASSUME IInv, NEW m, Pops(m)
  PROVE  /\ Queued \in Seq(Msg) /\ Queued # <<>> /\ Head(Queued) = m
         /\ Queued' = Tail(Queued) /\ messages' \in Seq(Msg) /\ batch' \in Seq(Msg) /\ m \in Msg
         /\ \A k : /\ NoEvent(Queued, k) => NoEvent(Queued', k) /\ m # TimeoutOf(k)
                   /\ m # TimeoutOf(k) /\ OneEvent(Queued, k) => OneEvent(Queued', k)
                   /\ m = TimeoutOf(k) /\ OneEvent(Queued, k) => NoEvent(Queued', k)
<1>1. messages \in Seq(Msg) /\ batch \in Seq(Msg)
  BY DEF IInv, LoopType
<1>2. /\ Queued \in Seq(Msg) /\ Queued # <<>> /\ Head(Queued) = m
      /\ Queued' = Tail(Queued) /\ messages' \in Seq(Msg) /\ batch' \in Seq(Msg) /\ m \in Msg
  BY <1>1, QueueSteps DEF Queued, Pops
<1>. QED
  BY <1>2, EventTaken

\* TIMEOUT_EVENT: the data is there, and at most one timer runs again.
LEMMA TimeoutStep ==
  ASSUME IInv, NEW i \in Slot, Pops(TimeoutOf(i)), TimeoutEvent(i), pc' \in {"js", "loop"}
  PROVE  /\ IInv' /\ (ClearInv => ClearInv')
         /\ pool[i] \in Data
<1>a. PICK data : data = pool[i]
  OBVIOUS
<1>b. PICK taken : taken = [pool EXCEPT ![i] = NULL]
  BY ZenonT(60)
<1>c. PICK j : j = FirstEmpty(taken)
  OBVIOUS
<1>. DEFINE again == data.state # "cleared" /\ data.timer \in Intervals
<1>1. /\ again => pool' = [taken EXCEPT ![j] = data] /\ timeouts' = [timeouts EXCEPT ![j] = timeouts[j] + 1] /\ status' = status
      /\ ~ again => pool' = taken /\ timeouts' = timeouts /\ status' = [status EXCEPT ![data.timer] = "idle"]
      /\ UNCHANGED <<handle, objects, waiting>>
  BY <1>a, <1>b, <1>c DEF TimeoutEvent, Skips
<1>2. /\ pool \in [Slot -> Data \cup {NULL}] /\ timeouts \in [Slot -> Nat]
      /\ handle \in [Timer -> Slot \cup {1}] /\ status \in [Timer -> Status]
  BY DEF IInv, LoopType
<1>3. pool[i] # NULL /\ timeouts[i] = 0 /\ OneEvent(Queued, i)
  BY NextMessage DEF IInv, EventInv
<1>4. data \in Data /\ data # NULL /\ data.timer \in Timer
  <2>1. data \in Data /\ data # NULL
    BY <1>a, <1>2, <1>3
  <2>. QED
    BY <2>1 DEF Data
<1>5. taken \in [Slot -> Data \cup {NULL}] /\ taken[i] = NULL /\ \A k \in Slot : k # i => taken[k] = pool[k]
  BY <1>b, <1>2
<1>6. j \in Slot /\ taken[j] = NULL
  BY <1>c, <1>5, Sizes, FirstEmptyIs DEF Slot
<1>. HIDE DEF again
<1>7. timeouts[j] = 0 /\ (j # i => pool[j] = NULL)
  BY <1>3, <1>5, <1>6, ZenonT(60) DEF IInv, EventInv
<1>8. \A k \in Slot : /\ again => /\ pool'[k] = IF k = j THEN data ELSE IF k = i THEN NULL ELSE pool[k]
                                  /\ timeouts'[k] = IF k = j THEN 1 ELSE timeouts[k]
                      /\ ~ again => /\ pool'[k] = IF k = i THEN NULL ELSE pool[k]
                                    /\ timeouts'[k] = timeouts[k]
  <2>1. CASE again
    <3>1. pool' = [taken EXCEPT ![j] = data] /\ timeouts' = [timeouts EXCEPT ![j] = timeouts[j] + 1]
      BY <1>1, <2>1
    <3>2. \A k \in Slot : /\ pool'[k] = IF k = j THEN data ELSE IF k = i THEN NULL ELSE pool[k]
                          /\ timeouts'[k] = IF k = j THEN 1 ELSE timeouts[k]
      BY <1>2, <1>5, <1>6, <1>7, <3>1
    <3>. QED
      BY <2>1, <3>2, ZenonT(60)
  <2>2. CASE ~ again
    <3>1. pool' = taken /\ timeouts' = timeouts
      BY <1>1, <2>2
    <3>2. \A k \in Slot : /\ pool'[k] = IF k = i THEN NULL ELSE pool[k]
                          /\ timeouts'[k] = timeouts[k]
      BY <1>5, <3>1
    <3>. QED
      BY <2>2, <3>2
  <2>. QED
    BY <2>1, <2>2
<1>9. \A u \in Timer : status'[u] = IF ~ again /\ u = data.timer THEN "idle" ELSE status[u]
  BY <1>1, <1>2, <1>4
<1>10. NoEvent(Queued', i) /\ \A k \in Slot : k # i => /\ NoEvent(Queued, k) => NoEvent(Queued', k)
                                                       /\ OneEvent(Queued, k) => OneEvent(Queued', k)
  BY <1>3, NextMessage, Messages
<1>11. LoopType'
  <2>1. messages' \in Seq(Msg) /\ batch' \in Seq(Msg)
    BY NextMessage
  <2>2. pool' \in [Slot -> Data \cup {NULL}] /\ timeouts' \in [Slot -> Nat]
    <3>1. CASE again
      <4>1. pool' = [taken EXCEPT ![j] = data] /\ timeouts' = [timeouts EXCEPT ![j] = timeouts[j] + 1]
        BY <1>1, <3>1
      <4>. QED
        BY <1>2, <1>4, <1>5, <1>6, <4>1
    <3>2. CASE ~ again
      BY <1>1, <1>2, <1>5, <3>2
    <3>. QED
      BY <3>1, <3>2
  <2>3. status' \in [Timer -> Status]
    BY <1>1, <1>2 DEF Status
  <2>. QED
    BY <1>1, <2>1, <2>2, <2>3 DEF IInv, LoopType
<1>12. EventInv'
  <2>. SUFFICES ASSUME NEW k \in Slot
                PROVE  /\ pool'[k] = NULL => timeouts'[k] = 0 /\ NoEvent(Queued', k)
                       /\ pool'[k] # NULL => \/ timeouts'[k] = 1 /\ NoEvent(Queued', k)
                                             \/ timeouts'[k] = 0 /\ OneEvent(Queued', k)
    BY ZenonT(60) DEF EventInv
  <2>1. CASE k = j /\ again
    <3>1. NoEvent(Queued', k)
      BY <1>7, <1>10, <2>1 DEF IInv, EventInv
    <3>. QED
      BY <1>4, <1>8, <2>1, <3>1
  <2>2. CASE k = i /\ ~ (k = j /\ again)
    BY <1>3, <1>8, <1>10, <2>2, ZenonT(60)
  <2>3. CASE k # i /\ ~ (k = j /\ again)
    BY <1>8, <1>10, <2>3, ZenonT(60) DEF IInv, EventInv
  <2>. QED
    BY <2>1, <2>2, <2>3
<1>13. \A k \in Slot : /\ k # i /\ pool[k] # NULL => pool[k].timer # data.timer /\ pool[k].timer \in Timer
                       /\ pool'[k] # NULL => \/ again /\ k = j /\ pool'[k] = data
                                             \/ k # i /\ pool[k] # NULL /\ pool'[k] = pool[k]
  <2>1. \A k \in Slot : k # i /\ pool[k] # NULL => pool[k].timer # data.timer
    BY <1>a, <1>3, ZenonT(60) DEF IInv, PoolInv
  <2>2. \A k \in Slot : pool[k] # NULL => pool[k].timer \in Timer
    BY <1>2 DEF Data
  <2>3. \A k \in Slot : pool'[k] # NULL => \/ again /\ k = j /\ pool'[k] = data
                                           \/ k # i /\ pool[k] # NULL /\ pool'[k] = pool[k]
    <3>. SUFFICES ASSUME NEW k \in Slot, pool'[k] # NULL
                  PROVE  \/ again /\ k = j /\ pool'[k] = data
                         \/ k # i /\ pool[k] # NULL /\ pool'[k] = pool[k]
      OBVIOUS
    <3>1. CASE again
      <4>1. pool'[k] = IF k = j THEN data ELSE IF k = i THEN NULL ELSE pool[k]
        BY <1>8, <3>1
      <4>. QED
        BY <3>1, <4>1
    <3>2. CASE ~ again
      <4>1. pool'[k] = IF k = i THEN NULL ELSE pool[k]
        BY <1>8, <3>2
      <4>. QED
        BY <3>2, <4>1
    <3>. QED
      BY <3>1, <3>2
  <2>. QED
    BY <2>1, <2>2, <2>3
<1>14. PoolInv'
  <2>1. \A k, n \in Slot : (pool'[k] # NULL /\ pool'[n] # NULL /\ pool'[k].timer = pool'[n].timer) => k = n
    BY <1>13 DEF IInv, PoolInv
  <2>2. \A k \in Slot : pool'[k] # NULL => status'[pool'[k].timer] # "idle"
    BY <1>a, <1>3, <1>4, <1>9, <1>13 DEF IInv, PoolInv
  <2>. QED
    BY <2>1, <2>2 DEF PoolInv
<1>15. ImmediateInv'
  <2>1. ~ IsImmediate(Head(Queued))
    BY NextMessage, Messages
  <2>2. InOrder(Tail(Queued), waiting, objects)
    BY <2>1, NextMessage, OrderTaken, ZenonT(60) DEF IInv, LoopType, ImmediateInv
  <2>. QED
    BY <1>1, <2>2, NextMessage, ZenonT(60) DEF IInv, ImmediateInv
<1>16. ASSUME ClearInv PROVE ClearInv'
  <2>1. ASSUME NEW u \in Timer \ Intervals, status'[u] # "idle"
        PROVE  handle'[u] \in Slot /\ pool'[handle'[u]] # NULL /\ pool'[handle'[u]].timer = u
    <3>1. u # data.timer \/ again
      BY <1>9, <2>1
    <3>2. u # data.timer
      BY <2>1, <3>1 DEF again
    <3>3. status[u] # "idle"
      BY <1>9, <2>1, <3>2
    <3>4. handle[u] \in Slot /\ pool[handle[u]] # NULL /\ pool[handle[u]].timer = u
      BY <1>16, <2>1, <3>3 DEF ClearInv
    <3>5. handle[u] # i /\ (handle[u] = j => j = i)
      BY <1>a, <1>7, <3>2, <3>4
    <3>. QED
      BY <1>1, <1>8, <3>4, <3>5
  <2>2. \A u \in Intervals : status'[u] # "cleared"
    BY <1>9, <1>16, LoopAssumption DEF ClearInv
  <2>3. \A k \in Slot : (pool'[k] # NULL /\ status'[pool'[k].timer] = "cleared") => pool'[k].state = "cleared"
    BY <1>a, <1>3, <1>4, <1>9, <1>13, <1>16 DEF ClearInv
  <2>. QED
    BY <2>1, <2>2, <2>3, ZenonT(60) DEF ClearInv
<1>. QED
  BY <1>a, <1>4, <1>11, <1>12, <1>14, <1>15, <1>16 DEF IInv

\* SET_IMMEDIATE: the callback is there, and it is the one that waits longest.
LEMMA ImmediateStep ==
  ASSUME IInv, NEW m, IsImmediate(m), Pops(m), SetImmediateEvent(m.index), pc' \in {"js", "loop"}
  PROVE  /\ IInv' /\ (ClearInv => ClearInv')
         /\ objects[m.index] \in Immediate
<1>i. PICK i : i = m.index
  OBVIOUS
<1>1. /\ objects' = [objects EXCEPT ![i] = NULL]
      /\ \E k \in DOMAIN waiting :
           /\ waiting[k] = objects[i]
           /\ waiting' = SubSeq(waiting, 1, k - 1) \o SubSeq(waiting, k + 1, Len(waiting))
      /\ UNCHANGED <<pool, timeouts, handle, status>>
  BY <1>i, ZenonT(60) DEF SetImmediateEvent, timerVars
<1>2. /\ objects \in [Place -> Immediate \cup {NULL}] /\ waiting \in Seq(Immediate)
      /\ Queued \in Seq(Msg) /\ Queued # <<>> /\ Head(Queued) = m /\ Queued' = Tail(Queued)
      /\ InOrder(Queued, waiting, objects)
      /\ \A j, k \in DOMAIN waiting : waiting[j] = waiting[k] => j = k
  BY NextMessage, ZenonT(60) DEF IInv, LoopType, ImmediateInv
<1>. DEFINE q == Queued
            n == Len(q)
            a == Tail(q)
<1>3. /\ n \in Nat /\ n >= 1 /\ DOMAIN q = 1 .. n /\ 1 \in DOMAIN q /\ Head(q) = q[1]
      /\ DOMAIN a = 1 .. n - 1 /\ \A k \in DOMAIN a : k + 1 \in DOMAIN q /\ k + 1 # 1 /\ a[k] = q[k + 1]
  BY <1>2
<1>. HIDE DEF q, n, a
<1>4. /\ i \in Place /\ objects[i] \in Immediate
      /\ \A h \in DOMAIN q : (IsImmediate(q[h]) /\ q[h].index = i) => h = 1
      /\ \A h \in DOMAIN q : IsImmediate(q[h]) => q[h].index \in Place
  <2>1. IsImmediate(q[1]) /\ q[1].index = i
    BY <1>i, <1>2, <1>3 DEF q
  <2>2. \A h \in DOMAIN q : IsImmediate(q[h]) =>
           /\ q[h].index \in Place /\ objects[q[h].index] \in Immediate
           /\ \A g \in DOMAIN q : (IsImmediate(q[g]) /\ q[g].index = q[h].index) => g = h
    BY <1>2, Elsewhere DEF q
  <2>. QED
    BY <1>3, <2>1, <2>2, ZenonT(60)
<1>5. waiting # <<>> /\ waiting[1] = objects[i]
  BY <1>i, <1>2, OrderTaken, ZenonT(60)
<1>6. waiting' = Tail(waiting)
  <2>1. PICK k \in DOMAIN waiting :
          /\ waiting[k] = objects[i]
          /\ waiting' = SubSeq(waiting, 1, k - 1) \o SubSeq(waiting, k + 1, Len(waiting))
    BY <1>1, ZenonT(60)
  <2>2. 1 \in DOMAIN waiting /\ k = 1
    BY <1>2, <1>5, <2>1
  <2>3. waiting' = Tail(waiting)
    <3>. DEFINE w == waiting
                r == waiting'
                t == Tail(w)
    <3>0. /\ w \in Seq(Immediate) /\ 1 \in DOMAIN w
          /\ r = Without(w, 1)
      BY <1>2, <2>1, <2>2 DEF Without
    <3>. HIDE DEF w, r
    <3>1. /\ r \in Seq(Immediate) /\ Len(r) = Len(w) - 1
          /\ \A h \in 1 .. Len(w) - 1 : r[h] = IF h < 1 THEN w[h] ELSE w[h + 1]
      BY <3>0, RemovedAt
    <3>2. /\ t \in Seq(Immediate) /\ Len(t) = Len(w) - 1 /\ \A h \in 1 .. Len(w) - 1 : t[h] = w[h + 1]
      BY <3>0
    <3>3. Len(w) \in Nat
      BY <3>0
    <3>. HIDE DEF t
    <3>4. r = t
      BY <3>1, <3>2, <3>3
    <3>. QED
      BY <3>4 DEF r, t, w
  <2>. QED
    BY <2>3
<1>7. /\ objects' \in [Place -> Immediate \cup {NULL}] /\ objects'[i] = NULL
      /\ \A k \in Place : k # i => objects'[k] = objects[k]
  BY <1>1, <1>2, <1>4, ZenonT(60)
<1>8. waiting' \in Seq(Immediate) /\ Range(waiting) = Range(waiting') \cup {objects[i]}
  <2>1. Head(waiting) = objects[i]
    BY <1>2, <1>5
  <2>. QED
    BY <1>2, <1>4, <1>5, <1>6, <2>1, Members
<1>9. LoopType'
  <2>1. messages' \in Seq(Msg) /\ batch' \in Seq(Msg)
    BY NextMessage
  <2>. QED
    BY <1>1, <1>7, <1>8, <2>1, ZenonT(60) DEF IInv, LoopType
<1>10. EventInv'
  <2>1. \A k \in Slot : m # TimeoutOf(k)
    BY Messages
  <2>. QED
    BY <1>1, <2>1, NextMessage, ZenonT(60) DEF IInv, EventInv
<1>11. PoolInv'
  BY <1>1, ZenonT(60) DEF IInv, PoolInv
<1>12. ImmediateInv'
  <2>1. \A h \in DOMAIN a : IsImmediate(a[h]) => objects'[a[h].index] = objects[a[h].index]
    BY <1>3, <1>4, <1>7
  <2>2. InOrder(Tail(Queued), Tail(waiting), objects')
    BY <1>2, <1>7, <2>1, OrderTaken, ZenonT(60) DEF a, q
  <2>3. \A j, k \in DOMAIN waiting' : waiting'[j] = waiting'[k] => j = k
    <3>1. \A k \in DOMAIN Tail(waiting) : k \in Int /\ k + 1 \in DOMAIN waiting /\ Tail(waiting)[k] = waiting[k + 1]
      BY <1>2, <1>5
    <3>. QED
      BY <1>2, <1>6, <3>1
  <2>4. \A j, k \in Place : (objects'[j] # NULL /\ objects'[j] = objects'[k]) => j = k
    BY <1>7 DEF IInv, ImmediateInv
  <2>5. \A k \in Place : objects'[k] # NULL => objects'[k] \in Range(waiting')
    <3>. SUFFICES ASSUME NEW k \in Place, objects'[k] # NULL PROVE objects'[k] \in Range(waiting')
      OBVIOUS
    <3>1. k # i /\ objects'[k] = objects[k]
      BY <1>7
    <3>2. objects[k] \in Range(waiting) /\ objects[k] # objects[i]
      BY <1>4, <3>1, ZenonT(60) DEF IInv, ImmediateInv
    <3>. QED
      BY <1>8, <3>1, <3>2
  <2>. QED
    BY <1>2, <1>6, <2>2, <2>3, <2>4, <2>5 DEF ImmediateInv
<1>13. ClearInv => ClearInv'
  BY <1>1, ZenonT(60) DEF ClearInv
<1>. QED
  BY <1>i, <1>4, <1>9, <1>10, <1>11, <1>12, <1>13 DEF IInv

\* IRQ_RAISE
LEMMA RaiseStep ==
  ASSUME IInv, NEW m, Pops(m), m.type = "IRQ_RAISE",
         UNCHANGED <<pool, objects, timeouts, handle, status, waiting>>,
         pc' \in {"js", "loop"}
  PROVE  IInv' /\ (ClearInv => ClearInv')
<1>1. \A k \in Slot : m # TimeoutOf(k)
  BY DEF TimeoutOf, Message
<1>2. ~ IsImmediate(m)
  BY DEF IsImmediate
<1>3. LoopType'
  BY NextMessage DEF IInv, LoopType
<1>4. EventInv'
  BY <1>1, NextMessage, ZenonT(60) DEF IInv, EventInv
<1>5. PoolInv'
  BY ZenonT(60) DEF IInv, PoolInv
<1>6. ImmediateInv'
  <2>1. /\ Queued \in Seq(Msg) /\ Queued # <<>> /\ Head(Queued) = m /\ Queued' = Tail(Queued)
        /\ waiting \in Seq(Immediate) /\ objects \in [Place -> Immediate \cup {NULL}]
        /\ InOrder(Queued, waiting, objects)
    BY NextMessage DEF IInv, LoopType, ImmediateInv
  <2>2. InOrder(Tail(Queued), waiting, objects)
    BY ONLY <1>2, <2>1, OrderTaken, ZenonT(60)
  <2>. QED
    BY <2>1, <2>2 DEF IInv, ImmediateInv
<1>7. ClearInv => ClearInv'
  BY DEF ClearInv
<1>. QED
  BY <1>3, <1>4, <1>5, <1>6, <1>7 DEF IInv

-----------------------------------------------------------------------------
(* The invariant *)

\* The script has started, and nothing is set.
LEMMA InitInv == Init => IInv /\ ClearInv
<1>. SUFFICES ASSUME Init PROVE IInv /\ ClearInv
  OBVIOUS
<1>1. /\ pc = "js" /\ messages = <<>> /\ batch = <<>> /\ waiting = <<>>
      /\ pool = [i \in Slot |-> NULL] /\ objects = [i \in Place |-> NULL]
      /\ timeouts = [i \in Slot |-> 0] /\ handle = [t \in Timer |-> 1]
      /\ status = [t \in Timer |-> "idle"]
  BY DEF Init
<1>2. messages \in Seq(Msg) /\ batch \in Seq(Msg) /\ waiting \in Seq(Immediate)
  BY <1>1
<1>3. Queued = <<>>
  BY <1>1, <1>2, QueueSteps
<1>4. LoopType
  BY <1>1, <1>2 DEF LoopType, Status
<1>5. EventInv
  BY <1>1, <1>3 DEF EventInv, NoEvent
<1>6. PoolInv
  BY <1>1 DEF PoolInv
<1>7. ImmediateInv
  <2>1. Located(Queued, waiting, objects, <<>>)
    BY <1>1, <1>3 DEF Located
  <2>2. InOrder(Queued, waiting, objects)
    BY <2>1 DEF InOrder
  <2>. QED
    BY <1>1, <2>2 DEF ImmediateInv
<1>8. ClearInv
  BY <1>1, LoopAssumption DEF ClearInv
<1>. QED
  BY <1>4, <1>5, <1>6, <1>7, <1>8 DEF IInv

\* What a round of the loop of Run does, whatever the message is
LEMMA ProcessStep ==
  ASSUME IInv, Process
  PROVE  /\ IInv' /\ (ClearInv => ClearInv')
         /\ \A t \in Timer : ClearInv /\ status[t] = "cleared" => running' # t
<1>a. PICK m : m = Head(batch)
  OBVIOUS
<1>1. Pops(m) /\ pc' \in {"js", "loop"}
  BY <1>a DEF Process, Pops
<1>2. m \in Msg
  BY <1>1, NextMessage
<1>3. CASE m.type = "TIMEOUT_EVENT" /\ TimeoutEvent(m.index)
  <2>1. m.index \in Slot /\ m = TimeoutOf(m.index)
    BY <1>2, <1>3, Messages
  <2>2. PICK i \in Slot : i = m.index
    BY <2>1
  <2>3. Pops(TimeoutOf(i)) /\ TimeoutEvent(i)
    BY <1>1, <1>3, <2>1, <2>2
  <2>4. /\ IInv' /\ (ClearInv => ClearInv')
        /\ pool[i] \in Data
    BY ONLY IInv, i \in Slot, <1>1, <2>3, TimeoutStep, SMTT(60)
  <2>5. ASSUME NEW t \in Timer, ClearInv, status[t] = "cleared"
        PROVE  running' # t
    <3>1. running' = IF pool[i].state = "cleared" THEN NULL ELSE pool[i].timer
      BY <2>3 DEF TimeoutEvent, Skips
    <3>2. t # NULL /\ pool[i] # NULL
      BY <2>4, LoopAssumption
    <3>3. pool[i].timer = t => pool[i].state = "cleared"
      BY <2>5, <3>2 DEF ClearInv
    <3>. QED
      BY <3>1, <3>2, <3>3
  <2>. QED
    BY <2>4, <2>5
<1>4. CASE m.type = "SET_IMMEDIATE" /\ SetImmediateEvent(m.index)
  <2>1. /\ IInv' /\ (ClearInv => ClearInv')
        /\ objects[m.index] \in Immediate
    BY <1>1, <1>4, ImmediateStep DEF IsImmediate
  <2>2. running' = objects[m.index]
    BY <1>4 DEF SetImmediateEvent
  <2>. QED
    BY <2>1, <2>2, LoopAssumption
<1>5. CASE m.type = "IRQ_RAISE" /\ running' = "irq" /\ UNCHANGED <<objects, waiting, timerVars>>
  <2>1. UNCHANGED <<pool, objects, timeouts, handle, status, waiting>>
    BY <1>5 DEF timerVars
  <2>2. IInv' /\ (ClearInv => ClearInv')
    BY <1>1, <1>5, <2>1, RaiseStep
  <2>3. \A t \in Timer : running' # t
    BY <1>5, LoopAssumption
  <2>. QED
    BY <2>2, <2>3
<1>. QED
  BY <1>a, <1>3, <1>4, <1>5 DEF Process

\* The steps that leave the timers, the immediates and the queued messages alone
LEMMA OtherSteps ==
  ASSUME IInv,
         \/ TakeMessages \/ RunEnds \/ IdleStep \/ Preempt \/ Return \/ IRQ
         \/ UNCHANGED vars
  PROVE  IInv' /\ (ClearInv => ClearInv')
<1>1. /\ messages \in Seq(Msg) /\ batch \in Seq(Msg)
      /\ pc \notin {"js", "loop"} => batch = <<>>
  BY DEF IInv, LoopType
<1>2. UNCHANGED <<pool, objects, timeouts, handle, status, waiting>>
  BY ZenonT(60) DEF TakeMessages, RunEnds, IdleStep, IdleRun, Halt, TimerInterrupt, Preempt, Return, IRQ,
         vars, timerVars
<1>3. CASE TakeMessages
  <2>1. batch = <<>> /\ Queued = messages
    BY <1>1, <1>3, QueueSteps DEF TakeMessages
  <2>2. CASE messages = <<>> /\ pc' = "preempt" /\ UNCHANGED queueVars
    <3>1. messages' = messages /\ batch' = batch /\ Queued' = Queued
      BY <2>2 DEF queueVars, Queued
    <3>. QED
      BY <1>1, <1>2, <2>1, <3>1, QuietStep
  <2>3. CASE batch' = messages /\ messages' = <<>> /\ pc' = "loop"
    <3>1. Queued' = Queued
      BY <1>1, <2>1, <2>3, QueueSteps DEF Queued
    <3>2. messages' \in Seq(Msg) /\ batch' \in Seq(Msg)
      BY <1>1, <2>3
    <3>. QED
      BY <1>2, <2>3, <3>1, <3>2, QuietStep
  <2>. QED
    BY <1>3, <2>2, <2>3 DEF TakeMessages
<1>4. CASE RunEnds \/ IdleStep \/ Preempt \/ Return \/ UNCHANGED vars
  <2>1. messages' = messages /\ batch' = batch
    BY <1>4, ZenonT(60) DEF RunEnds, IdleStep, IdleRun, Halt, TimerInterrupt, Preempt, Return, vars, queueVars
  <2>2. Queued' = Queued
    BY <2>1 DEF Queued
  <2>3. pc' \notin {"js", "loop"} => batch' = <<>>
    BY <1>1, <1>4, <2>1 DEF RunEnds, IdleStep, IdleRun, Halt, TimerInterrupt, Wakes, Preempt, Return, vars
  <2>. QED
    BY <1>1, <1>2, <2>1, <2>2, <2>3, QuietStep
<1>5. CASE IRQ
  <2>1. batch' = batch /\ (pc' \notin {"js", "loop"} => batch' = <<>>)
    BY <1>1, <1>5 DEF IRQ, Wakes, PushMessage, queueVars
  <2>2. CASE messages' = Append(messages, Message("IRQ_RAISE", 0))
    BY <1>2, <2>1, <2>2, IrqStep
  <2>3. CASE messages' = messages
    <3>1. Queued' = Queued
      BY <2>1, <2>3 DEF Queued
    <3>. QED
      BY <1>1, <1>2, <2>1, <2>3, <3>1, QuietStep
  <2>. QED
    BY <1>5, <2>2, <2>3 DEF IRQ, PushMessage, queueVars
<1>. QED
  BY <1>3, <1>4, <1>5

\* Every step keeps the invariant; that of clearTimeout needs a program that does
\* not clear intervals.
LEMMA NextOK ==
  ASSUME IInv, [Next]_vars
  PROVE  /\ IInv' /\ (ClearInv /\ ~ ClearsIntervals => ClearInv')
         /\ ClearInv => \A t \in Timer : (status[t] = "cleared" /\ running # t) => running' # t
<1>1. CASE Process
  BY <1>1, ProcessStep
<1>2. CASE \/ TakeMessages \/ RunEnds \/ IdleStep \/ Preempt \/ Return \/ IRQ
           \/ UNCHANGED vars
  <2>1. running' = running \/ running' = NULL
    BY <1>2 DEF TakeMessages, RunEnds, IdleStep, IdleRun, Halt, TimerInterrupt, Preempt, Return,
                IRQ, vars
  <2>. QED
    BY <1>2, <2>1, OtherSteps, LoopAssumption
<1>3. CASE \E i \in Slot : TimeoutElapses(i)
  <2>1. running' = running
    BY <1>3 DEF TimeoutElapses
  <2>. QED
    BY <1>3, <2>1, ElapseStep
<1>4. CASE JavaScript
  <2>1. running' = running
    BY <1>4, ZenonT(60) DEF JavaScript, CallSetTimer, CallClearTimer, CallSetImmediate
  <2>. QED
    BY <1>4, <2>1, SetTimerStep, ClearTimerStep, SetImmediateStep DEF JavaScript
<1>. QED
  BY <1>1, <1>2, <1>3, <1>4 DEF Next, MainStep

\* The events of a slot, counted
LEMMA Counted ==
  ASSUME NEW q, NEW i
  PROVE  /\ NoEvent(q, i) => Cardinality({k \in DOMAIN q : q[k] = Message("TIMEOUT_EVENT", i)}) = 0
         /\ OneEvent(q, i) => Cardinality({k \in DOMAIN q : q[k] = Message("TIMEOUT_EVENT", i)}) = 1
<1>. DEFINE S == {k \in DOMAIN q : q[k] = Message("TIMEOUT_EVENT", i)}
<1>1. ASSUME NoEvent(q, i) PROVE Cardinality(S) = 0
  <2>1. S = {}
    BY <1>1 DEF NoEvent, TimeoutOf
  <2>. QED
    BY <2>1, FS_EmptySet
<1>2. ASSUME OneEvent(q, i) PROVE Cardinality(S) = 1
  <2>1. PICK k \in DOMAIN q : OnlyAt(q, i, k)
    BY <1>2 DEF OneEvent
  <2>2. S = {k}
    BY <2>1 DEF OnlyAt, TimeoutOf
  <2>. QED
    BY <2>2, FS_Singleton, ZenonT(60)
<1>. QED
  BY <1>1, <1>2

\* The invariant says what the runs check.
LEMMA InvImplies == IInv => OneEventPerTimer /\ ImmediatesInOrder
<1>. SUFFICES ASSUME IInv PROVE OneEventPerTimer /\ ImmediatesInOrder
  OBVIOUS
<1>1. ImmediatesInOrder
  BY InOrderIs DEF IInv, ImmediateInv
<1>2. ASSUME NEW i \in Slot
      PROVE  timeouts[i] + EventsOf(i) = IF pool[i] = NULL THEN 0 ELSE 1
  <2>1. /\ NoEvent(Queued, i) => EventsOf(i) = 0
        /\ OneEvent(Queued, i) => EventsOf(i) = 1
    BY Counted DEF EventsOf
  <2>2. /\ pool[i] = NULL => timeouts[i] = 0 /\ NoEvent(Queued, i)
        /\ pool[i] # NULL => \/ timeouts[i] = 1 /\ NoEvent(Queued, i)
                             \/ timeouts[i] = 0 /\ OneEvent(Queued, i)
    BY DEF IInv, EventInv
  <2>. QED
    BY ONLY <2>1, <2>2
<1>. QED
  BY <1>1, <1>2 DEF OneEventPerTimer

-----------------------------------------------------------------------------
(* What the event loop keeps *)

\* The inductive invariant holds in every reachable state.
LEMMA Invariance == SafeSpec => []IInv
<1>1. IInv /\ [Next]_vars => IInv'
  BY NextOK
<1>2. Init => IInv
  BY InitInv
<1>. QED
  BY <1>1, <1>2, PTL DEF SafeSpec

\* However many timers a program uses, whatever it clears and however interrupts fill
\* the queue: every timer that is set has exactly one event under way, and every event
\* finds its data (thread.cc 294-296).
THEOREM TimersKept == SafeSpec => []OneEventPerTimer
  BY Invariance, InvImplies, PTL

\* Callbacks given to setImmediate are found in the order of the calls, in
\* whichever slots they are.
THEOREM ImmediatesKept == SafeSpec => []ImmediatesInOrder
  BY Invariance, InvImplies, PTL

\* A program that clears timeouts and no intervals: no timeout is called once it is
\* cleared (thread.cc 290-292), whichever slots are used again in the meantime.
THEOREM ClearedTimeouts ==
  ASSUME ~ ClearsIntervals
  PROVE  SafeSpec => ClearedNeverCalled
<1>1. IInv /\ ClearInv /\ [Next]_vars => IInv' /\ ClearInv'
  BY NextOK
<1>2. IInv /\ ClearInv /\ [Next]_vars
      => [\A t \in Timer : (status[t] = "cleared" /\ running # t) => running' # t]_vars
  BY NextOK
<1>. QED
  BY <1>1, <1>2, InitInv, PTL DEF SafeSpec, ClearedNeverCalled
=============================================================================
