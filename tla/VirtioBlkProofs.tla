-------------------------- MODULE VirtioBlkProofs ---------------------------
(***************************************************************************)
(* The promises of blk.js are settled by the right completions, for every  *)
(* set of requests, every size of the ring and of the disk.                *)
(***************************************************************************)
EXTENDS VirtioBlk, SequenceLemmas

\* The time a leaf may take, and a second attempt with more
USE SMTT(30), SMTT(60)

Callback == [fn : {"recvBuffer"}] \cup [fn : {"settle"}, of : Token]

Request == [token : Token, size : BUFFERS]

\* The fields of the driver and the history keep their types.
TypeOK ==
  /\ completed \in Seq(Request)
  /\ promiseQueue \in Seq(Token)
  /\ immediates \in Seq(Callback)
  /\ called \subseteq Token
  /\ status \in [Token -> {0, 1}]
  /\ outcome \in [Token -> {"none", "RangeError", "resolved", "rejected"}]
  /\ placed \in Seq(Token)

\* A promise is in promiseQueue once, then about to be settled once, then settled.
Stages ==
  /\ \A i, j \in DOMAIN promiseQueue : promiseQueue[i] = promiseQueue[j] => i = j
  /\ \A i, j \in DOMAIN immediates :
       immediates[i] = immediates[j] /\ immediates[i].fn = "settle" => i = j
  /\ \A r \in Waiting \cup AboutToSettle : outcome[r] = "none" /\ r \in called
  /\ \A r \in Token : outcome[r] # "none" => r \in called
  /\ Waiting \cap AboutToSettle = {}

\* As long as nothing was refused or overtaken, what the device has is the end of
\* promiseQueue.
QueueEndsWithPlaced ==
  (inOrder /\ ~refused) =>
    \A i \in DOMAIN placed : promiseQueue[Len(promiseQueue) - Len(placed) + i] = placed[i]

\* The inductive invariant
IInv ==
  /\ TypeOK
  /\ Stages
  /\ QueueEndsWithPlaced
  /\ SettledByOwnCompletion
  /\ NeverAheadOfDevice

-----------------------------------------------------------------------------
\* A callback given to setImmediate is one more in the queue.
LEMMA ReceivesAppend ==
  ASSUME NEW q \in Seq(Callback), NEW e \in Callback
  PROVE  /\ IsFiniteSet(Receives(q)) /\ Cardinality(Receives(q)) \in Nat
         /\ Cardinality(Receives(Append(q, e)))
              = Cardinality(Receives(q)) + IF e.fn = "recvBuffer" THEN 1 ELSE 0
<1>1. IsFiniteSet(Receives(q)) /\ Cardinality(Receives(q)) \in Nat
  <2>1. IsFiniteSet(1 .. Len(q)) /\ Receives(q) \in SUBSET (1 .. Len(q))
    BY FS_Interval DEF Receives
  <2>. QED
    BY <2>1, FS_Subset, FS_CardinalityType
<1>2. Receives(Append(q, e))
        = IF e.fn = "recvBuffer" THEN Receives(q) \cup {Len(q) + 1} ELSE Receives(q)
  BY DEF Receives
<1>3. Len(q) + 1 \notin Receives(q)
  BY DEF Receives
<1>4. Cardinality(Receives(q) \cup {Len(q) + 1}) = Cardinality(Receives(q)) + 1
  BY <1>1, <1>3, FS_AddElement, ZenonT(60)
<1>. QED
  BY <1>1, <1>2, <1>4

\* The event loop takes the first callback.
LEMMA ReceivesTail ==
  ASSUME NEW q \in Seq(Callback), q # <<>>
  PROVE  Cardinality(Receives(Tail(q)))
           = Cardinality(Receives(q)) - IF Head(q).fn = "recvBuffer" THEN 1 ELSE 0
<1>. DEFINE rest == Receives(q) \ {1}
            shift == [i \in Receives(Tail(q)) |-> i + 1]
<1>1. IsFiniteSet(Receives(q)) /\ IsFiniteSet(Receives(Tail(q)))
  <2>1. Tail(q) \in Seq(Callback)
    OBVIOUS
  <2>2. \E e : e \in Callback
    BY DEF Callback
  <2>. QED
    BY <2>1, <2>2, ReceivesAppend, ZenonT(60)
<1>2. shift \in Bijection(Receives(Tail(q)), rest)
  <2>1. \A i \in Receives(Tail(q)) : i \in Int /\ i + 1 \in rest
    BY DEF Receives
  <2>2. \A j \in rest : j - 1 \in Receives(Tail(q)) /\ shift[j - 1] = j
    BY DEF Receives
  <2>3. shift \in [Receives(Tail(q)) -> rest]
    BY <2>1
  <2>4. \A i, j \in Receives(Tail(q)) : shift[i] = shift[j] => i = j
    BY <2>1
  <2>. QED
    BY <2>2, <2>3, <2>4, ZenonT(60) DEF Bijection, Injection, Surjection, IsInjective
<1>3. Cardinality(rest) = Cardinality(Receives(Tail(q)))
  BY <1>1, <1>2, FS_Bijection DEF ExistsBijection
<1>4. 1 \in Receives(q) <=> Head(q).fn = "recvBuffer"
  BY DEF Receives
<1>5. Cardinality(rest)
        = IF 1 \in Receives(q) THEN Cardinality(Receives(q)) - 1 ELSE Cardinality(Receives(q))
  BY <1>1, FS_RemoveElement, ZenonT(60)
<1>6. Cardinality(Receives(q)) \in Nat
  BY <1>1, FS_CardinalityType
<1>. QED
  BY <1>3, <1>4, <1>5, <1>6

\* promiseQueue is never shorter than what will be taken from it.
LEMMA Ahead ==
  ASSUME IInv
  PROVE  /\ Cardinality(Receives(immediates)) \in Nat
         /\ Len(promiseQueue) >= Len(placed) + Len(completed) + Cardinality(Receives(immediates))
         /\ Len(promiseQueue) >= Len(placed)
<1>1. [fn |-> "recvBuffer"] \in Callback
  BY DEF Callback
<1>2. Cardinality(Receives(immediates)) \in Nat
  BY <1>1, ReceivesAppend DEF IInv, TypeOK
<1>. QED
  BY <1>2 DEF IInv, NeverAheadOfDevice, TypeOK

-----------------------------------------------------------------------------
\* A new disk driver has no promise anywhere (blk.js 57-66).
LEMMA InitInv == Init => IInv
<1>. SUFFICES ASSUME Init PROVE IInv
  OBVIOUS
<1>1. TypeOK
  BY DEF Init, QueueInit, TypeOK
<1>2. Stages /\ QueueEndsWithPlaced /\ SettledByOwnCompletion
  BY DEF Init, Stages, Waiting, AboutToSettle, QueueEndsWithPlaced,
         SettledByOwnCompletion, Settled, Range
<1>3. Receives(immediates) = {}
  BY DEF Init, Receives
<1>4. NeverAheadOfDevice
  BY <1>3, FS_EmptySet DEF Init, QueueInit, NeverAheadOfDevice, Settled
<1>. QED
  BY <1>1, <1>2, <1>4 DEF IInv

\* read and write of a sector within range: the promise goes to the end of
\* promiseQueue, and the request to the device unless the ring is full.
LEMMA IssueStep ==
  ASSUME IInv, NEW r \in Token, r \notin called, called' = called \cup {r},
         Enqueue(r), PlaceRequest(r),
         UNCHANGED <<immediates, status, outcome>>
  PROVE  IInv'
<1>. USE DEF IInv
<1>1. /\ promiseQueue' = Append(promiseQueue, r) /\ completed' = completed
      /\ placed' = Append(placed, r) \/ placed' = placed
  BY DEF Enqueue, PlaceRequest, Place, queueVars
<1>10. (inOrder' /\ ~refused') => (inOrder /\ ~refused /\ placed' = Append(placed, r))
  BY ZenonT(60) DEF PlaceRequest
<1>2. TypeOK'
  <2>1. promiseQueue' \in Seq(Token) /\ placed' \in Seq(Token)
    <3>1. promiseQueue \in Seq(Token) /\ placed \in Seq(Token)
      BY DEF TypeOK
    <3>2. Append(promiseQueue, r) \in Seq(Token) /\ Append(placed, r) \in Seq(Token)
      BY <3>1, Members
    <3>. QED
      BY ONLY <1>1, <3>1, <3>2, ZenonT(60)
  <2>. QED
    BY <1>1, <2>1 DEF TypeOK
<1>3. r \notin Waiting \cup AboutToSettle /\ outcome[r] = "none"
  BY DEF Stages, TypeOK
<1>4. Waiting' = Waiting \cup {r} /\ AboutToSettle' = AboutToSettle
  <2>1. Waiting' = Waiting \cup {r}
    BY <1>1, Members DEF Waiting, TypeOK
  <2>. QED
    BY <2>1 DEF AboutToSettle
<1>5. Stages'
  <2>1. \A i, j \in DOMAIN promiseQueue' : promiseQueue'[i] = promiseQueue'[j] => i = j
    <3>1. \A i \in DOMAIN promiseQueue : promiseQueue[i] # r
      BY <1>3 DEF Waiting, Range
    <3>. QED
      BY <1>1, <3>1 DEF Stages, TypeOK
  <2>2. called \subseteq called'
    OBVIOUS
  <2>3. Waiting \cup AboutToSettle \subseteq Token
    BY DEF Waiting, Range, AboutToSettle, TypeOK
  <2>4. r \in called'
    OBVIOUS
  <2>. QED
    BY <1>3, <1>4, <2>1, <2>2, <2>3, <2>4 DEF Stages
<1>6. QueueEndsWithPlaced'
  <2>. SUFFICES ASSUME inOrder' /\ ~refused', NEW i \in DOMAIN placed'
                PROVE  promiseQueue'[Len(promiseQueue') - Len(placed') + i] = placed'[i]
    BY DEF QueueEndsWithPlaced
  <2>1. placed' = Append(placed, r) /\ promiseQueue' = Append(promiseQueue, r)
    BY <1>1, <1>10
  <2>2. \A k \in DOMAIN placed : promiseQueue[Len(promiseQueue) - Len(placed) + k] = placed[k]
    BY <1>10 DEF QueueEndsWithPlaced
  <2>3. /\ Len(promiseQueue) >= Len(placed)
        /\ promiseQueue \in Seq(Token) /\ placed \in Seq(Token)
    BY Ahead DEF TypeOK
  <2>4. i \in 1 .. Len(placed) + 1
    BY <2>1, <2>3
  <2>5. /\ Len(promiseQueue') = Len(promiseQueue) + 1 /\ Len(placed') = Len(placed) + 1
        /\ Len(promiseQueue) \in Nat /\ Len(placed) \in Nat
    BY ONLY <2>1, <2>3
  <2>6. CASE i = Len(placed) + 1
    <3>1. placed'[i] = r /\ promiseQueue'[Len(promiseQueue) + 1] = r
      BY ONLY <2>1, <2>3, <2>6
    <3>2. Len(promiseQueue') - Len(placed') + i = Len(promiseQueue) + 1
      BY ONLY <2>5, <2>6
    <3>. QED
      BY <3>1, <3>2
  <2>7. CASE i # Len(placed) + 1
    <3>1. i \in DOMAIN placed /\ i \in 1 .. Len(placed)
      BY <2>3, <2>4, <2>7
    <3>2. /\ Len(promiseQueue') - Len(placed') + i = Len(promiseQueue) - Len(placed) + i
          /\ Len(promiseQueue) - Len(placed) + i \in 1 .. Len(promiseQueue)
      BY ONLY <2>3, <2>5, <3>1
    <3>3. /\ placed'[i] = placed[i]
          /\ promiseQueue'[Len(promiseQueue) - Len(placed) + i]
               = promiseQueue[Len(promiseQueue) - Len(placed) + i]
      BY ONLY <2>1, <2>3, <3>1, <3>2
    <3>. QED
      BY <2>2, <3>1, <3>2, <3>3
  <2>. QED
    BY <2>6, <2>7
<1>7. SettledByOwnCompletion'
  <2>. SUFFICES ASSUME inOrder' /\ ~refused', NEW q \in Token,
                       (Settled(q) \/ q \in AboutToSettle)'
                PROVE  (q \notin Range(placed) /\ (Settled(q) => outcome[q] = Verdict(q)))'
    BY DEF SettledByOwnCompletion
  <2>1. Settled(q) \/ q \in AboutToSettle
    BY <1>4 DEF Settled
  <2>2. q # r
    BY <1>3, <2>1 DEF Settled
  <2>3. q \notin Range(placed) /\ (Settled(q) => outcome[q] = Verdict(q))
    BY <1>10, <2>1 DEF SettledByOwnCompletion
  <2>4. Range(placed') = Range(placed) \cup {r}
    <3>1. placed' = Append(placed, r) /\ placed \in Seq(Token)
      BY <1>10 DEF TypeOK
    <3>. QED
      BY <3>1, Members
  <2>. QED
    BY <2>2, <2>3, <2>4 DEF Settled, Verdict
<1>8. NeverAheadOfDevice'
  <2>1. Cardinality(Receives(immediates)) \in Nat
    BY Ahead
  <2>2. Len(promiseQueue') = Len(promiseQueue) + 1 /\ Len(placed') <= Len(placed) + 1
    BY <1>1 DEF TypeOK
  <2>3. \A q \in Token : Settled(q)' <=> Settled(q)
    BY DEF Settled
  <2>4. ~Settled(r)
    BY <1>3 DEF Settled
  <2>. QED
    BY <1>1, <1>4, <2>1, <2>2, <2>3, <2>4 DEF NeverAheadOfDevice, TypeOK, Receives
<1>. QED
  BY <1>2, <1>5, <1>6, <1>7, <1>8

\* read of a sector behind the end (lines 84-87) rejects a promise that is in no queue.
LEMMA RangeErrorStep ==
  ASSUME IInv, NEW r \in Token, r \notin called, called' = called \cup {r},
        
         outcome' = [outcome EXCEPT ![r] = "RangeError"],
         UNCHANGED <<queueVars, promiseQueue, historyVars, immediates, status>>
  PROVE  IInv'
<1>. USE DEF IInv
<1>1. UNCHANGED <<completed, promiseQueue, immediates, status, placed>>
  BY DEF queueVars, historyVars
<1>2. UNCHANGED <<inOrder, refused>>
  BY DEF historyVars
<1>3. TypeOK'
  BY <1>1 DEF TypeOK
<1>4. Waiting' = Waiting /\ AboutToSettle' = AboutToSettle
  BY <1>1 DEF Waiting, AboutToSettle
<1>5. r \notin Waiting \cup AboutToSettle /\ outcome[r] = "none"
  BY DEF Stages, TypeOK
<1>6. Waiting \cup AboutToSettle \subseteq Token
  BY DEF Waiting, Range, AboutToSettle, TypeOK
<1>7. \A q \in Token : (Settled(q)' <=> Settled(q)) /\ (Settled(q) => outcome'[q] = outcome[q])
  BY <1>5 DEF Settled, TypeOK
<1>8. Stages'
  BY <1>1, <1>4, <1>5, <1>6 DEF Stages, TypeOK
<1>9. QueueEndsWithPlaced'
  BY <1>1, <1>2 DEF QueueEndsWithPlaced
<1>10. SettledByOwnCompletion'
  BY <1>1, <1>2, <1>4, <1>7 DEF SettledByOwnCompletion, Verdict
<1>11. NeverAheadOfDevice'
  BY <1>1, <1>4, <1>7 DEF NeverAheadOfDevice, Receives
<1>. QED
  BY <1>3, <1>8, <1>9, <1>10, <1>11

\* A completion by the device takes a request from placed to completed.
LEMMA CompleteStep ==
  ASSUME IInv, NEW r \in Token, NEW result \in {0, 1}, DeviceCompletes(r, result)
  PROVE  IInv'
<1>. USE DEF IInv
<1>1. PICK i \in DOMAIN placed : /\ placed[i] = r
                                 /\ placed' = SubSeq(placed, 1, i - 1) \o SubSeq(placed, i + 1, Len(placed))
                                 /\ inOrder' = (inOrder /\ i = 1)
  BY ZenonT(60) DEF DeviceCompletes
<1>20. PICK n \in BUFFERS : completed' = Append(completed, [token |-> r, size |-> n])
  BY DEF DeviceCompletes, Complete
<1>2. /\ completed' = Append(completed, [token |-> r, size |-> n])
      /\ status' = [status EXCEPT ![r] = result]
      /\ UNCHANGED <<promiseQueue, immediates, called, outcome>>
  BY <1>20 DEF DeviceCompletes, promiseVars
<1>3. placed \in Seq(Token) /\ completed \in Seq(Request) /\ promiseQueue \in Seq(Token)
  BY DEF TypeOK
<1>4. /\ placed' \in Seq(Token) /\ Len(placed') = Len(placed) - 1
      /\ \A k \in 1 .. Len(placed) - 1 : placed'[k] = IF k < i THEN placed[k] ELSE placed[k + 1]
      /\ Range(placed') \subseteq Range(placed)
  <2>1. placed' = Without(placed, i)
    BY <1>1 DEF Without
  <2>. QED
    BY ONLY <1>3, <2>1, i \in DOMAIN placed, RemovedAt
<1>5. completed' \in Seq(Request) /\ Len(completed') = Len(completed) + 1
  BY <1>2, <1>3 DEF Request
<1>6. TypeOK'
  BY <1>2, <1>4, <1>5 DEF TypeOK
<1>7. (inOrder' /\ ~refused') => inOrder /\ ~refused /\ i = 1
  BY <1>1, ZenonT(60) DEF DeviceCompletes
<1>8. Waiting' = Waiting /\ AboutToSettle' = AboutToSettle
  BY <1>2 DEF Waiting, AboutToSettle
<1>9. Stages'
  BY <1>2, <1>8 DEF Stages
<1>10. QueueEndsWithPlaced'
  <2>. SUFFICES ASSUME inOrder' /\ ~refused', NEW k \in DOMAIN placed'
                PROVE  promiseQueue'[Len(promiseQueue') - Len(placed') + k] = placed'[k]
    BY DEF QueueEndsWithPlaced
  <2>1. \A j \in DOMAIN placed : promiseQueue[Len(promiseQueue) - Len(placed) + j] = placed[j]
    BY <1>7 DEF QueueEndsWithPlaced
  <2>2. i = 1
    BY <1>7
  <2>3. k \in 1 .. Len(placed) - 1 /\ placed'[k] = placed[k + 1] /\ k + 1 \in DOMAIN placed
    BY <1>3, <1>4, <2>2
  <2>4. promiseQueue[Len(promiseQueue) - Len(placed) + (k + 1)] = placed[k + 1]
    BY <2>1, <2>3
  <2>5. Len(promiseQueue') - Len(placed') + k = Len(promiseQueue) - Len(placed) + (k + 1)
    BY <1>2, <1>3, <1>4, <2>3
  <2>. QED
    BY <1>2, <2>3, <2>4, <2>5
<1>11. SettledByOwnCompletion'
  <2>. SUFFICES ASSUME inOrder' /\ ~refused', NEW q \in Token,
                       (Settled(q) \/ q \in AboutToSettle)'
                PROVE  (q \notin Range(placed) /\ (Settled(q) => outcome[q] = Verdict(q)))'
    BY DEF SettledByOwnCompletion
  <2>1. Settled(q) \/ q \in AboutToSettle
    BY <1>2, <1>8 DEF Settled
  <2>2. q \notin Range(placed) /\ (Settled(q) => outcome[q] = Verdict(q))
    BY <1>7, <2>1 DEF SettledByOwnCompletion
  <2>3. status'[q] = status[q]
    BY <1>1, <1>2, <2>2 DEF Range, TypeOK
  <2>. QED
    BY <1>2, <1>4, <2>2, <2>3 DEF Settled, Verdict
<1>12. NeverAheadOfDevice'
  <2>1. Len(placed) \in Nat /\ Len(completed) \in Nat /\ Len(promiseQueue) \in Nat
    BY <1>3
  <2>2. \A q \in Token : Settled(q)' <=> Settled(q)
    BY <1>2 DEF Settled
  <2>3. Len(promiseQueue') >= Len(placed') + Len(completed') + Cardinality(Receives(immediates'))
    BY <1>2, <1>4, <1>5, <2>1, Ahead
  <2>. QED
    BY <1>8, <2>2, <2>3 DEF NeverAheadOfDevice
<1>. QED
  BY <1>6, <1>9, <1>10, <1>11, <1>12

\* What setImmediate and the event loop do to the callbacks about to settle
LEMMA SettlesOnce ==
  ASSUME IInv
  PROVE  /\ AboutToSettle = {r \in Token : [fn |-> "settle", of |-> r] \in Range(immediates)}
         /\ immediates # <<>> =>
              \A k \in 1 .. Len(immediates) - 1 :
                Head(immediates).fn = "settle" => Tail(immediates)[k] # Head(immediates)
<1>1. immediates \in Seq(Callback)
  BY DEF IInv, TypeOK
<1>2. AboutToSettle = {r \in Token : [fn |-> "settle", of |-> r] \in Range(immediates)}
  BY DEF AboutToSettle, Range
<1>3. ASSUME immediates # <<>>, NEW k \in 1 .. Len(immediates) - 1,
             Head(immediates).fn = "settle"
      PROVE  Tail(immediates)[k] # Head(immediates)
  <2>1. /\ Tail(immediates)[k] = immediates[k + 1] /\ Head(immediates) = immediates[1]
        /\ k + 1 \in DOMAIN immediates /\ 1 \in DOMAIN immediates /\ k + 1 # 1
    BY <1>1, <1>3
  <2>. QED
    BY <1>3, <2>1 DEF IInv, Stages
<1>. QED
  BY <1>2, <1>3

\* The interrupt handler asks for one more call of recvBuffer.
LEMMA FetchStep ==
  ASSUME IInv, FetchBuffer
  PROVE  IInv'
<1>. USE DEF IInv
<1>. DEFINE e == [fn |-> "recvBuffer"]
<1>1. /\ completed # <<>> /\ completed' = Tail(completed)
      /\ immediates' = Append(immediates, e)
      /\ UNCHANGED <<promiseQueue, called, outcome, status, placed>>
  BY DEF FetchBuffer, Fetch, historyVars
<1>2. UNCHANGED <<inOrder, refused>>
  BY DEF FetchBuffer, historyVars
<1>3. /\ placed \in Seq(Token) /\ completed \in Seq(Request) /\ promiseQueue \in Seq(Token)
      /\ immediates \in Seq(Callback) /\ e \in Callback
  BY DEF TypeOK, Callback
<1>4. completed' \in Seq(Request) /\ Len(completed') = Len(completed) - 1
  BY <1>1, <1>3
<1>5. immediates' \in Seq(Callback) /\ Range(immediates') = Range(immediates) \cup {e}
  BY <1>1, <1>3, Members
<1>6. TypeOK'
  BY <1>1, <1>4, <1>5 DEF TypeOK
<1>7. Waiting' = Waiting /\ AboutToSettle' = AboutToSettle
  <2>1. \A r \in Token : [fn |-> "settle", of |-> r] # e
    BY DEF Callback
  <2>2. AboutToSettle' = {r \in Token : [fn |-> "settle", of |-> r] \in Range(immediates')}
    BY DEF AboutToSettle, Range
  <2>. QED
    BY <1>1, <1>3, <1>5, <2>1, <2>2, SettlesOnce DEF Waiting
<1>8. \A q \in Token : (Settled(q)' <=> Settled(q)) /\ (Verdict(q)' = Verdict(q))
  BY <1>1 DEF Settled, Verdict
<1>9. \A i, j \in DOMAIN immediates' :
         immediates'[i] = immediates'[j] /\ immediates'[i].fn = "settle" => i = j
  <2>1. /\ DOMAIN immediates' = DOMAIN immediates \cup {Len(immediates) + 1}
        /\ immediates'[Len(immediates) + 1] = e
        /\ \A i \in DOMAIN immediates : immediates'[i] = immediates[i]
    BY <1>1, <1>3
  <2>2. e.fn # "settle"
    OBVIOUS
  <2>. HIDE DEF e
  <2>. QED
    BY <2>1, <2>2 DEF Stages
<1>10. Stages'
  BY <1>1, <1>7, <1>9 DEF Stages
<1>11. QueueEndsWithPlaced'
  BY <1>1, <1>2 DEF QueueEndsWithPlaced
<1>12. SettledByOwnCompletion'
  BY <1>1, <1>2, <1>7, <1>8 DEF SettledByOwnCompletion
<1>13. NeverAheadOfDevice'
  <2>1. Cardinality(Receives(immediates')) = Cardinality(Receives(immediates)) + 1
    BY <1>1, <1>3, ReceivesAppend
  <2>2. Len(placed) \in Nat /\ Len(completed) \in Nat /\ Len(promiseQueue) \in Nat
    BY <1>3
  <2>3. Len(promiseQueue') >= Len(placed') + Len(completed') + Cardinality(Receives(immediates'))
    BY <1>1, <1>4, <2>1, <2>2, Ahead
  <2>. QED
    BY <1>7, <1>8, <2>3 DEF NeverAheadOfDevice
<1>. QED
  BY <1>6, <1>10, <1>11, <1>12, <1>13

\* recvBuffer takes the front of promiseQueue, which is not empty, and arranges for
\* it to be settled.
LEMMA RecvStep ==
  ASSUME IInv, recvBuffer
  PROVE  IInv'
<1>. USE DEF IInv
<1>. DEFINE h == Head(promiseQueue)
            e == [fn |-> "settle", of |-> h]
            rest == Tail(immediates)
<1>1. /\ immediates # <<>> /\ Head(immediates).fn = "recvBuffer"
      /\ UNCHANGED <<completed, called, outcome, status, placed>>
  BY DEF recvBuffer, queueVars, historyVars
<1>2. UNCHANGED <<inOrder, refused>>
  BY DEF recvBuffer, historyVars
<1>3. /\ placed \in Seq(Token) /\ completed \in Seq(Request) /\ promiseQueue \in Seq(Token)
      /\ immediates \in Seq(Callback)
  BY DEF TypeOK
<1>4. /\ rest \in Seq(Callback) /\ Len(rest) = Len(immediates) - 1
      /\ Range(immediates) = {Head(immediates)} \cup Range(rest) /\ Head(immediates) \in Callback
  BY <1>1, <1>3, Members
<1>5. /\ Cardinality(Receives(rest)) = Cardinality(Receives(immediates)) - 1
      /\ Cardinality(Receives(rest)) \in Nat
  BY <1>1, <1>3, <1>4, ReceivesTail, ReceivesAppend, ZenonT(60)
<1>6. promiseQueue # <<>>
  <2>1. Len(placed) \in Nat /\ Len(completed) \in Nat /\ Len(promiseQueue) \in Nat
    BY <1>3
  <2>2. Len(promiseQueue) > 0
    BY <1>5, <2>1, Ahead
  <2>. QED
    BY <2>2
<1>7. immediates' = Append(rest, e) /\ promiseQueue' = Tail(promiseQueue)
  BY <1>6 DEF recvBuffer
<1>8. /\ promiseQueue' \in Seq(Token) /\ Len(promiseQueue') = Len(promiseQueue) - 1
      /\ h \in Token /\ Waiting = {h} \cup Waiting'
      /\ \A i \in 1 .. Len(promiseQueue) - 1 : promiseQueue'[i] = promiseQueue[i + 1]
  <2>1. \A i \in 1 .. Len(promiseQueue) - 1 : promiseQueue'[i] = promiseQueue[i + 1]
    BY <1>3, <1>6, <1>7
  <2>. QED
    BY <1>3, <1>6, <1>7, <2>1, Members DEF Waiting
<1>9. h \notin Waiting' /\ \A i, j \in DOMAIN promiseQueue' : promiseQueue'[i] = promiseQueue'[j] => i = j
  <2>1. \A i, j \in DOMAIN promiseQueue : promiseQueue[i] = promiseQueue[j] => i = j
    BY DEF Stages
  <2>2. h = promiseQueue[1] /\ 1 \in DOMAIN promiseQueue
    BY <1>3, <1>6
  <2>3. /\ DOMAIN promiseQueue' = 1 .. Len(promiseQueue) - 1
        /\ \A i \in DOMAIN promiseQueue' :
              i \in Int /\ i + 1 # 1 /\ i + 1 \in DOMAIN promiseQueue
    BY <1>3, <1>8
  <2>4. \A i \in DOMAIN promiseQueue' : promiseQueue'[i] # h
    BY <1>8, <2>1, <2>2, <2>3
  <2>5. \A i, j \in DOMAIN promiseQueue' : promiseQueue'[i] = promiseQueue'[j] => i = j
    BY <1>8, <2>1, <2>3
  <2>. HIDE DEF h
  <2>. QED
    BY <2>4, <2>5 DEF Waiting, Range
<1>10. /\ e \in Callback /\ immediates' \in Seq(Callback)
       /\ Range(immediates') = Range(rest) \cup {e} /\ Len(immediates') = Len(rest) + 1
  <2>1. e \in Callback
    BY <1>8 DEF Callback
  <2>. HIDE DEF e, rest
  <2>. QED
    BY <1>4, <1>7, <2>1, Members
<1>11. TypeOK'
  BY <1>1, <1>8, <1>10 DEF TypeOK
<1>12. AboutToSettle' = AboutToSettle \cup {h}
  <2>1. AboutToSettle' = {r \in Token : [fn |-> "settle", of |-> r] \in Range(immediates')}
    BY DEF AboutToSettle, Range
  <2>2. \A r \in Token : [fn |-> "settle", of |-> r] # Head(immediates)
    BY <1>1
  <2>3. \A r \in Token : [fn |-> "settle", of |-> r] = e <=> r = h
    OBVIOUS
  <2>4. \A r \in Token : [fn |-> "settle", of |-> r] \in Range(immediates')
                           <=> [fn |-> "settle", of |-> r] \in Range(immediates) \/ r = h
    BY <1>4, <1>10, <2>2, <2>3, ZenonT(60)
  <2>. HIDE DEF h
  <2>. QED
    BY <1>8, <2>1, <2>4, SettlesOnce
<1>13. h \in Waiting /\ outcome[h] = "none" /\ h \notin AboutToSettle
  BY <1>8 DEF Stages
<1>14. \A i, j \in DOMAIN immediates' :
         immediates'[i] = immediates'[j] /\ immediates'[i].fn = "settle" => i = j
  <2>1. /\ DOMAIN immediates' = DOMAIN rest \cup {Len(rest) + 1}
        /\ immediates'[Len(rest) + 1] = e
        /\ \A i \in DOMAIN rest : immediates'[i] = rest[i]
    <3>. HIDE DEF rest, e
    <3>. QED
      BY <1>4, <1>7
  <2>2. \A i \in DOMAIN rest : rest[i] # e
    <3>1. e \notin Range(immediates)
      BY <1>8, <1>13, SettlesOnce
    <3>. HIDE DEF rest, e
    <3>. QED
      BY <1>4, <3>1 DEF Range
  <2>3. \A i \in DOMAIN rest : i \in Int /\ i + 1 \in DOMAIN immediates /\ rest[i] = immediates[i + 1]
    BY <1>1, <1>3
  <2>4. \A i, j \in DOMAIN rest : rest[i] = rest[j] /\ rest[i].fn = "settle" => i = j
    <3>. HIDE DEF rest, e
    <3>. QED
      BY <2>3 DEF Stages
  <2>. HIDE DEF rest, e
  <2>. QED
    BY <2>1, <2>2, <2>4
<1>15. Stages'
  BY <1>1, <1>8, <1>9, <1>12, <1>13, <1>14 DEF Stages
<1>16. QueueEndsWithPlaced' /\ ((inOrder /\ ~refused) => h \notin Range(placed))
  <2>1. Len(promiseQueue) - 1 >= Len(placed)
    <3>1. Len(placed) \in Nat /\ Len(completed) \in Nat /\ Len(promiseQueue) \in Nat
      BY <1>3
    <3>. QED
      BY <1>5, <3>1, Ahead
  <2>2. ASSUME inOrder, ~refused, NEW i \in DOMAIN placed
        PROVE  promiseQueue'[Len(promiseQueue') - Len(placed) + i] = placed[i] /\ placed[i] # h
    <3>1. promiseQueue[Len(promiseQueue) - Len(placed) + i] = placed[i]
      BY <2>2 DEF QueueEndsWithPlaced
    <3>2. Len(promiseQueue') - Len(placed) + i \in DOMAIN promiseQueue'
      BY <1>3, <1>8, <2>1
    <3>3. promiseQueue'[Len(promiseQueue') - Len(placed) + i]
            = promiseQueue[Len(promiseQueue) - Len(placed) + i]
      BY <1>3, <1>8, <3>2
    <3>4. promiseQueue'[Len(promiseQueue') - Len(placed) + i] \in Waiting'
      BY <3>2 DEF Waiting, Range
    <3>. QED
      BY <1>9, <3>1, <3>3, <3>4
  <2>3. QueueEndsWithPlaced'
    BY <1>1, <1>2, <2>2 DEF QueueEndsWithPlaced
  <2>. QED
    BY <2>2, <2>3 DEF Range
<1>17. \A q \in Token : (Settled(q)' <=> Settled(q)) /\ (Verdict(q)' = Verdict(q))
  BY <1>1 DEF Settled, Verdict
<1>18. SettledByOwnCompletion'
  BY <1>1, <1>2, <1>12, <1>13, <1>16, <1>17 DEF SettledByOwnCompletion, Settled
<1>19. NeverAheadOfDevice'
  <2>1. Cardinality(Receives(immediates')) = Cardinality(Receives(immediates)) - 1
    <3>1. Cardinality(Receives(immediates')) = Cardinality(Receives(rest))
      <4>1. e.fn # "recvBuffer"
        OBVIOUS
      <4>. HIDE DEF e, rest
      <4>. QED
        BY <1>4, <1>5, <1>7, <1>10, <4>1, ReceivesAppend
    <3>. QED
      BY <1>5, <3>1
  <2>2. Len(placed) \in Nat /\ Len(completed) \in Nat /\ Len(promiseQueue) \in Nat
    BY <1>3
  <2>3. Len(promiseQueue') >= Len(placed') + Len(completed') + Cardinality(Receives(immediates'))
    BY <1>1, <1>8, <2>1, <2>2, Ahead
  <2>. QED
    BY <1>8, <1>12, <1>13, <1>17, <2>3 DEF NeverAheadOfDevice, Settled
<1>. QED
  BY <1>11, <1>15, <1>16, <1>18, <1>19

\* The callback of the second setImmediate settles a promise that was in no queue
\* any more.
LEMMA SettleStep ==
  ASSUME IInv, Settle
  PROVE  IInv'
<1>. USE DEF IInv
<1>. DEFINE r == Head(immediates).of
            rest == Tail(immediates)
<1>1. /\ immediates # <<>> /\ Head(immediates).fn = "settle"
      /\ outcome' = [outcome EXCEPT ![r] = Verdict(r)] /\ immediates' = rest
      /\ UNCHANGED <<completed, promiseQueue, called, status, placed>>
  BY DEF Settle, queueVars, historyVars
<1>2. UNCHANGED <<inOrder, refused>>
  BY DEF Settle, historyVars
<1>3. /\ placed \in Seq(Token) /\ completed \in Seq(Request) /\ promiseQueue \in Seq(Token)
      /\ immediates \in Seq(Callback)
      /\ outcome \in [Token -> {"none", "RangeError", "resolved", "rejected"}]
  BY DEF TypeOK
<1>4. /\ rest \in Seq(Callback) /\ Len(rest) = Len(immediates) - 1
      /\ Range(immediates) = {Head(immediates)} \cup Range(rest) /\ Head(immediates) \in Callback
  BY <1>1, <1>3, Members
<1>5. r \in Token /\ Head(immediates) = [fn |-> "settle", of |-> r]
  BY <1>1, <1>4 DEF Callback
<1>6. AboutToSettle = AboutToSettle' \cup {r} /\ r \notin AboutToSettle'
  <2>1. AboutToSettle' = {q \in Token : [fn |-> "settle", of |-> q] \in Range(immediates')}
    BY DEF AboutToSettle, Range
  <2>2. \A k \in DOMAIN rest : rest[k] # Head(immediates)
    BY <1>1, <1>4, SettlesOnce
  <2>3. Head(immediates) \notin Range(rest)
    <3>. HIDE DEF rest, r
    <3>. QED
      BY <2>2 DEF Range
  <2>4. \A q \in Token : [fn |-> "settle", of |-> q] = Head(immediates) <=> q = r
    <3>. HIDE DEF r
    <3>. QED
      BY <1>5
  <2>. HIDE DEF rest, r
  <2>. QED
    BY <1>1, <1>4, <1>5, <2>1, <2>3, <2>4, SettlesOnce
<1>. HIDE DEF r
<1>7. /\ outcome' \in [Token -> {"none", "RangeError", "resolved", "rejected"}]
      /\ \A q \in Token : q # r => outcome'[q] = outcome[q]
      /\ outcome'[r] = Verdict(r) /\ outcome'[r] # "none"
  BY <1>1, <1>3, <1>5 DEF Verdict
<1>8. TypeOK'
  BY <1>1, <1>4, <1>7 DEF TypeOK
<1>9. Waiting' = Waiting /\ r \notin Waiting /\ Waiting \subseteq Token /\ AboutToSettle \subseteq Token
  <2>1. Waiting' = Waiting
    BY <1>1 DEF Waiting
  <2>2. r \notin Waiting
    BY <1>6 DEF Stages
  <2>3. Waiting \subseteq Token
    BY <1>3 DEF Waiting, Range
  <2>4. AboutToSettle \subseteq Token
    BY DEF AboutToSettle
  <2>. QED
    BY <2>1, <2>2, <2>3, <2>4
<1>10. \A i, j \in DOMAIN rest : rest[i] = rest[j] /\ rest[i].fn = "settle" => i = j
  <2>1. \A i \in DOMAIN rest : i \in Int /\ i + 1 \in DOMAIN immediates /\ rest[i] = immediates[i + 1]
    BY <1>1, <1>3
  <2>. HIDE DEF rest
  <2>. QED
    BY <2>1 DEF Stages
<1>. HIDE DEF rest
<1>11. Stages'
  <2>1. \A q \in Waiting' \cup AboutToSettle' : outcome'[q] = "none" /\ q \in called'
    BY <1>1, <1>6, <1>7, <1>9 DEF Stages
  <2>2. \A q \in Token : outcome'[q] # "none" => q \in called'
    BY <1>1, <1>6, <1>7, <1>9 DEF Stages
  <2>3. Waiting' \cap AboutToSettle' = {}
    BY <1>6, <1>9 DEF Stages
  <2>. QED
    BY <1>1, <1>10, <2>1, <2>2, <2>3 DEF Stages
<1>12. QueueEndsWithPlaced'
  BY <1>1, <1>2 DEF QueueEndsWithPlaced
<1>13. \A q \in Token : /\ Verdict(q)' = Verdict(q)
                        /\ (Settled(q)' <=> Settled(q) \/ q = r)
                        /\ q # r => outcome'[q] = outcome[q]
  BY <1>1, <1>7 DEF Settled, Verdict
<1>14. SettledByOwnCompletion'
  BY <1>1, <1>2, <1>6, <1>7, <1>13 DEF SettledByOwnCompletion
<1>15. NeverAheadOfDevice'
  <2>1. Cardinality(Receives(immediates')) = Cardinality(Receives(immediates))
    BY <1>1, <1>3, Ahead, ReceivesTail DEF rest
  <2>2. Len(promiseQueue') >= Len(placed') + Len(completed') + Cardinality(Receives(immediates'))
    BY <1>1, <2>1, Ahead
  <2>3. \A q \in Token : ~ (Settled(q)' /\ q \in Waiting' \cup AboutToSettle')
    BY <1>6, <1>9, <1>13 DEF NeverAheadOfDevice
  <2>. QED
    BY <2>2, <2>3 DEF NeverAheadOfDevice
<1>. QED
  BY <1>8, <1>11, <1>12, <1>14, <1>15

\* Every step of the driver, the event loop and the device keeps the invariant.
LEMMA NextInv == IInv /\ [Next]_vars => IInv'
<1>. SUFFICES ASSUME IInv, [Next]_vars PROVE IInv'
  OBVIOUS
<1>1. ASSUME NEW r \in Token, NEW s \in 0 .. Sectors + 1, read(r, s) PROVE IInv'
  <2>1. CASE s > Sectors
    <3>1. ~ (s <= Sectors)
      BY <2>1, BlkAssumption
    <3>. QED
      BY <1>1, <3>1, RangeErrorStep, ZenonT(60) DEF read
  <2>2. CASE ~ (s > Sectors)
    BY <1>1, <2>2, IssueStep, ZenonT(60) DEF read
  <2>. QED
    BY <2>1, <2>2
<1>2. ASSUME NEW r \in Token, NEW s \in 0 .. Sectors + 1, write(r, s) PROVE IInv'
  BY <1>2, IssueStep, ZenonT(60) DEF write
<1>3. ASSUME UNCHANGED vars \/ HandleIRQ \/ HandlerReturns PROVE IInv'
  <2>0. UNCHANGED <<queueVars, promiseVars, status, historyVars>>
    BY <1>3 DEF vars, HandleIRQ, HandlerReturns
  <2>1. UNCHANGED <<completed, promiseQueue, immediates, called, outcome, status, placed>>
    BY <2>0 DEF queueVars, promiseVars, historyVars
  <2>2. UNCHANGED <<inOrder, refused>>
    BY <2>0 DEF historyVars
  <2>3. TypeOK' /\ Stages' /\ NeverAheadOfDevice'
    BY <2>1 DEF IInv, TypeOK, Stages, NeverAheadOfDevice, Waiting, AboutToSettle, Settled,
                Receives
  <2>4. AboutToSettle' = AboutToSettle /\ \A q \in Token : Verdict(q)' = Verdict(q)
    BY <2>1 DEF AboutToSettle, Verdict
  <2>5. QueueEndsWithPlaced' /\ SettledByOwnCompletion'
    BY <2>1, <2>2, <2>4 DEF IInv, QueueEndsWithPlaced, SettledByOwnCompletion, Settled
  <2>. QED
    BY <2>3, <2>5 DEF IInv
<1>. QED
  BY <1>1, <1>2, <1>3, CompleteStep, FetchStep, RecvStep, SettleStep DEF Next

\* While the device completes in order and no request was refused, the promise that
\* recvBuffer (lines 135-149) takes from the front is the one of the request that was
\* completed, and it is settled with that request's status.
THEOREM OwnCompletion == Spec => []SettledByOwnCompletion
<1>1. IInv => SettledByOwnCompletion
  BY DEF IInv
<1>. QED
  BY <1>1, InitInv, NextInv, PTL DEF Spec

\* recvBuffer never finds promiseQueue empty and no promise is settled twice, for
\* every device, every order of completion and every size of the ring.
THEOREM PromiseWaits == Spec => []NeverAheadOfDevice
<1>1. IInv => NeverAheadOfDevice
  BY DEF IInv
<1>. QED
  BY <1>1, InitInv, NextInv, PTL DEF Spec
=============================================================================
