----------------------------- MODULE VirtioBlk ------------------------------
(***************************************************************************)
(* js/driver/virtio/blk.js on top of a virtio queue: every read or write   *)
(* pushes its promise on promiseQueue and places three buffers; for every  *)
(* buffer the queue gives back, the promise at the front of promiseQueue   *)
(* is settled, whichever request the buffer belongs to.  Callbacks given   *)
(* to setImmediate run later, in order.  The interrupt of the device leads *)
(* to a message, which is dropped when the queue of messages is full       *)
(* (engine.h 193); the line then stays up and no further edge is seen.     *)
(*                                                                         *)
(* A request is named by its promise.  totalSectorCount is the constant    *)
(* Sectors; what is on the disk is left out.                               *)
(***************************************************************************)
EXTENDS VirtQueue, FiniteSets, Functions

CONSTANT Sectors

ASSUME BlkAssumption == Sectors \in Nat

VARIABLES promiseQueue,
          immediates,  \* callbacks waiting in the event loop
          called,      \* the requests made so far
          status,      \* of each request: its status byte
          outcome,     \* of each promise
          irq,         \* the device's line: low, raised with a message, or lost
          handler,     \* whether the interrupt handler runs
          placed,      \* history: the requests given to the device, in order
          inOrder,     \* history: the device has completed requests in order
          refused      \* history: a request found no descriptors

promiseVars == <<promiseQueue, immediates, called, outcome>>
irqVars == <<irq, handler>>
historyVars == <<placed, inOrder, refused>>
vars == <<queueVars, promiseVars, status, irqVars, historyVars>>

\* Descriptors of a request: header, status, and data in one page or over two
BUFFERS == {3, 4}

Init ==
  /\ QueueInit
  /\ promiseQueue = <<>> /\ immediates = <<>>
  /\ called = {}
  /\ status = [r \in Token |-> 0]   \* new Uint8Array(1)
  /\ outcome = [r \in Token |-> "none"]
  /\ irq = "low" /\ handler = "idle"
  /\ placed = <<>> /\ inOrder = TRUE /\ refused = FALSE

\* reqQueue.placeBuffers; its result is not looked at.
PlaceRequest(r) ==
  \E n \in BUFFERS :
    \/ /\ Place(r, n)
       /\ placed' = Append(placed, r)
       /\ UNCHANGED <<inOrder, refused>>
    \/ /\ free < n
       /\ refused' = TRUE
       /\ UNCHANGED <<queueVars, placed, inOrder>>

\* Mutant: the newest promise is put in front.
Enqueue_Front(r) == promiseQueue' = <<r>> \o promiseQueue

\* promiseQueue.push (lines 95, 111), always before placeBuffers
Enqueue(r) == promiseQueue' = Append(promiseQueue, r)

read(r, s) ==
  /\ r \notin called
  /\ called' = called \cup {r}
  /\ \/ /\ s > Sectors
        /\ outcome' = [outcome EXCEPT ![r] = "RangeError"]
        /\ UNCHANGED <<queueVars, promiseQueue, historyVars>>
     \/ /\ s <= Sectors
        /\ Enqueue(r)
        /\ PlaceRequest(r)
        /\ UNCHANGED outcome
  /\ UNCHANGED <<immediates, status, irqVars>>

\* write does not look at the sector.
write(r, s) ==
  /\ r \notin called
  /\ called' = called \cup {r}
  /\ Enqueue(r)
  /\ PlaceRequest(r)
  /\ UNCHANGED <<immediates, status, outcome, irqVars>>

\* The edge of the line finds room for its message or not; while the handler runs
\* the device may also be told not to interrupt (disableInterrupts).
RaiseIRQ ==
  irq' \in IF irq # "low" THEN {irq}
           ELSE {"raised", "lost"} \cup IF handler = "running" THEN {"low"} ELSE {}

\* The device completes a request, whichever it likes, and writes its status.
DeviceCompletes(r, result) ==
  /\ \E n \in BUFFERS : Complete([token |-> r, size |-> n])
  /\ status' = [status EXCEPT ![r] = result]
  /\ \E i \in DOMAIN placed :
       /\ placed[i] = r
       /\ placed' = SubSeq(placed, 1, i - 1) \o SubSeq(placed, i + 1, Len(placed))
       /\ inOrder' = (inOrder /\ i = 1)
  /\ RaiseIRQ
  /\ UNCHANGED <<promiseVars, handler, refused>>

\* The message of the interrupt is processed: hasPendingIRQ (152) lowers the line.
HandleIRQ ==
  /\ handler = "idle" /\ irq = "raised"
  /\ irq' = "low" /\ handler' = "running"
  /\ UNCHANGED <<queueVars, promiseVars, status, historyVars>>

\* fetchBuffers (155) finds one more buffer; recvBuffer will be called for it.
FetchBuffer ==
  /\ handler = "running"
  /\ Fetch
  /\ immediates' = Append(immediates, [fn |-> "recvBuffer"])
  /\ UNCHANGED <<promiseQueue, called, outcome, status, irqVars, historyVars>>

\* Mutant: the handler ends with the first buffer.
HandlerReturns_Early ==
  /\ handler = "running"
  /\ handler' = "idle"
  /\ UNCHANGED <<queueVars, promiseVars, status, irq, historyVars>>

\* fetchBuffers ends when a last look, with interrupts on again, finds nothing.
HandlerReturns ==
  /\ handler = "running" /\ completed = <<>>
  /\ handler' = "idle"
  /\ UNCHANGED <<queueVars, promiseVars, status, irq, historyVars>>

\* Mutant: the promise stays in the queue.
recvBuffer_Keeps ==
  /\ immediates # <<>> /\ Head(immediates).fn = "recvBuffer"
  /\ promiseQueue # <<>>
  /\ immediates' = Append(Tail(immediates), [fn |-> "settle", of |-> Head(promiseQueue)])
  /\ UNCHANGED <<queueVars, promiseQueue, called, outcome, status, irqVars, historyVars>>

\* Lines 135-149
recvBuffer ==
  /\ immediates # <<>> /\ Head(immediates).fn = "recvBuffer"
  /\ \/ /\ promiseQueue = <<>>
        /\ immediates' = Tail(immediates)
        /\ UNCHANGED promiseQueue
     \/ /\ promiseQueue # <<>>
        /\ immediates' = Append(Tail(immediates),
                                [fn |-> "settle", of |-> Head(promiseQueue)])
        /\ promiseQueue' = Tail(promiseQueue)
  /\ UNCHANGED <<queueVars, called, outcome, status, irqVars, historyVars>>

\* Lines 142-147
Verdict(r) == IF status[r] # 0 THEN "rejected" ELSE "resolved"

Settle ==
  /\ immediates # <<>> /\ Head(immediates).fn = "settle"
  /\ LET r == Head(immediates).of IN outcome' = [outcome EXCEPT ![r] = Verdict(r)]
  /\ immediates' = Tail(immediates)
  /\ UNCHANGED <<queueVars, promiseQueue, called, status, irqVars, historyVars>>

Next ==
  \/ \E r \in Token, s \in 0 .. Sectors + 1 : read(r, s) \/ write(r, s)
  \/ \E r \in Token, result \in {0, 1} : DeviceCompletes(r, result)
  \/ HandleIRQ \/ FetchBuffer \/ HandlerReturns \/ recvBuffer \/ Settle

\* The device completes what it took; the event loop runs its callbacks, the handler
\* among them once its message is in the queue, and the handler runs to its end.
\* That the message gets there is not assumed.
Fairness ==
  /\ \A r \in Token : WF_vars(\E result \in {0, 1} : DeviceCompletes(r, result))
  /\ WF_vars(HandleIRQ) /\ WF_vars(FetchBuffer) /\ WF_vars(HandlerReturns)
  /\ WF_vars(recvBuffer) /\ WF_vars(Settle)

Spec == Init /\ [][Next]_vars /\ Fairness

-----------------------------------------------------------------------------
Settled(r) == outcome[r] \in {"resolved", "rejected"}

Waiting == Range(promiseQueue)

AboutToSettle == {r \in Token : \E i \in DOMAIN immediates :
                    immediates[i] = [fn |-> "settle", of |-> r]}

\* Where in a queue of callbacks the ones of recvBuffer are
Receives(q) == {i \in DOMAIN q : q[i].fn = "recvBuffer"}

\* As long as the device completes requests in order and none was refused for
\* lack of descriptors, a promise is settled only after the device completed
\* its own request, and with that request's status: taking the front of
\* promiseQueue (139) then finds the right request, through two rounds of
\* setImmediate.
SettledByOwnCompletion ==
  (inOrder /\ ~refused) =>
    \A r \in Token : (Settled(r) \/ r \in AboutToSettle) =>
      /\ r \notin Range(placed)
      /\ Settled(r) => outcome[r] = Verdict(r)

\* Whatever the order of completions and however often the ring was full, no
\* more promises are taken from promiseQueue than requests were completed, so a
\* completion never finds the queue empty, and none is settled twice.
NeverAheadOfDevice ==
  /\ Len(promiseQueue) >= Len(placed) + Len(completed) + Cardinality(Receives(immediates))
  /\ \A r \in Token : ~ (Settled(r) /\ r \in Waiting \cup AboutToSettle)

\* Every promise is settled in the end, in whatever order the device completes,
\* unless a request was refused (its promise stays in the queue for good, because
\* read and write ignore what placeBuffers returns) or an interrupt was lost (nothing
\* polls a block device, as net.js 160 does the network's, so that what is completed
\* from then on is never fetched).
EveryPromiseSettles ==
  \A r \in Token : r \in Waiting ~> (Settled(r) \/ refused \/ irq = "lost")
=============================================================================
