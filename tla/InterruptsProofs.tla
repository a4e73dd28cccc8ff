-------------------------- MODULE InterruptsProofs --------------------------
(***************************************************************************)
(* No interrupt handler waits for the thread below it, and no interrupt is *)
(* lost on its way to the driver but in a full queue, for every set of IO  *)
(* APICs, devices and capacities.                                          *)
(***************************************************************************)
EXTENDS Interrupts, SequenceLemmas

\* The time a leaf may take, and a second attempt with more
USE SMTT(30), SMTT(60)

Message == Devices \cup {0}

Handler == [kind : {"none", "timer", "irq", "raise"}, irq : Message, todo : Seq(Message)]

Operation == {"script", "bind", "take", "push", "malloc", "print"}

\* What waits, runs and is queued has its type: the vectors are those of the timer
\* and of the devices, a gate knows its device, and the bindings of a number are
\* those of its device.
TypeOK ==
  /\ irr \subseteq {32} \cup {32 + d : d \in Devices}
  /\ handler \in Handler
  /\ bindings \in [Devices -> Seq(Message)]
  /\ queue \in Seq(Message)
  /\ taken \in Seq(Message)
  /\ thread \in [op : Operation, device : Message, locks : Nat]

\* With interrupts on the thread has only locks of the operation it is in, which
\* no handler takes.
Below ==
  /\ Masking(thread.op) => masked
  /\ Masking(thread.op) => handler.kind = "none"
  /\ ~Masking(thread.op) => thread.locks <= Len(Locks(thread.op))

\* Only a handler in Raise has messages left to push, the thread takes messages when
\* it has processed all, and only a device whose driver is bound asserts its line.
OneByOne ==
  /\ handler.kind = "irq" => handler.irq \in Devices
  /\ handler.kind # "raise" => handler.todo = <<>>
  /\ thread.op = "take" => taken = <<>>
  /\ thread.op = "bind" => thread.device \in Devices
  /\ \A d \in Devices : Range(bindings[d]) \subseteq {d}

\* Only a device whose driver called on() asserts its line.
Bound == \A d \in Devices : line[d] => bindings[d] # <<>>

LineType == line = [d \in Devices |-> line[d]]

\* The inductive invariant
IInv ==
  TypeOK /\ LineType /\ Below /\ OneByOne /\ Bound /\ LostOnlyWhenFull

-----------------------------------------------------------------------------
\* ioapic-x64.cc 91-104: whichever IO APIC has the line of a device, its entry is not
\* masked and sends the vector whose gate calls the dispatcher with the line again.
LEMMA EntryOfDevice ==
  ASSUME NEW d \in Devices
  PROVE  /\ d \in Nat /\ EntryOf(d).vector = 32 + d /\ ~EntryOf(d).masked
         /\ 32 + d \notin TimerVectors
         /\ Gate(32 + d) = [kind |-> "irq", irq |-> d, todo |-> <<>>]
<1>1. PICK b \in IoApicBases, i \in 0 .. Pins - 1 : d = b + i
  BY InterruptsAssumption
<1>2. d \in Nat /\ d # 0 /\ d # 2 /\ b \in Nat /\ d \in b .. b + Pins - 1
  BY <1>1, InterruptsAssumption
<1>. DEFINE c == CHOOSE a \in IoApicBases : d \in a .. a + Pins - 1
<1>3. c \in IoApicBases /\ d \in c .. c + Pins - 1
  BY <1>2
<1>4. c \in Nat
  <2>. HIDE DEF c
  <2>. QED
    BY <1>3, InterruptsAssumption
<1>5. EntryOf(d) = [vector |-> 32 + (d - c) + c, masked |-> c = 0 /\ d - c = 0]
  BY DEF EntryOf, Redirection, kIRQOffset
<1>. HIDE DEF c
<1>6. EntryOf(d).vector = 32 + d
  BY <1>2, <1>4, <1>5
<1>7. EntryOf(d).masked <=> c = 0 /\ d - c = 0
  <2>1. \A v, m : [vector |-> v, masked |-> m].masked = m
    OBVIOUS
  <2>2. EntryOf(d).masked = (c = 0 /\ d - c = 0)
    BY <1>5, <2>1, ZenonT(60)
  <2>. QED
    BY <2>2, ZenonT(60)
<1>8. ~ (c = 0 /\ d - c = 0)
  BY <1>2, <1>4
<1>9. 32 + d \notin TimerVectors
  BY <1>2 DEF TimerVectors
<1>10. 32 + d - 32 = d
  BY <1>2
<1>. QED
  BY <1>2, <1>6, <1>7, <1>8, <1>9, <1>10 DEF Gate, IrqOfGate, kIRQOffset

\* Where a message is
LEMMA OnTheWay ==
  ASSUME NEW a \in Seq(Message), NEW b \in Seq(Message), NEW c \in Seq(Message)
  PROVE  Range(a \o b \o c) = Range(a) \cup Range(b) \cup Range(c)
<1>. DEFINE ab == a \o b
<1>1. ab \in Seq(Message) /\ Range(ab) = Range(a) \cup Range(b)
  BY ConcatMembers
<1>. HIDE DEF ab
<1>2. Range(ab \o c) = Range(ab) \cup Range(c)
  BY <1>1, ConcatMembers
<1>. QED
  BY <1>1, <1>2 DEF ab

\* What LostOnlyWhenFull says of one device
Delivered(d) ==
  \/ 32 + d \in irr
  \/ handler.kind = "irq" /\ handler.irq = d
  \/ d \in Range(handler.todo) \/ d \in Range(queue) \/ d \in Range(taken)
  \/ d \in dropped

Deliveries == \A d \in Devices : line[d] => Delivered(d)

\* LostOnlyWhenFull with the vector, and the places of a message, spelt out
LEMMA LostOnly ==
  TypeOK => (LostOnlyWhenFull <=> Deliveries)
<1>. SUFFICES ASSUME TypeOK PROVE LostOnlyWhenFull <=> Deliveries
  OBVIOUS
<1>1. handler.todo \in Seq(Message) /\ queue \in Seq(Message) /\ taken \in Seq(Message)
  BY DEF TypeOK, Handler
<1>2. Range(handler.todo \o queue \o taken)
        = Range(handler.todo) \cup Range(queue) \cup Range(taken)
  BY <1>1, OnTheWay
<1>3. \A d \in Devices : EntryOf(d).vector = 32 + d
  BY EntryOfDevice, ZenonT(60)
<1>. QED
  BY <1>2, <1>3 DEF LostOnlyWhenFull, Deliveries, Delivered

\* The same after a step
LEMMA LostOnlyNext ==
  ASSUME TypeOK', \A d \in Devices : line'[d] => Delivered(d)'
  PROVE  LostOnlyWhenFull'
<1>1. Deliveries'
  BY DEF Deliveries
<1>2. TypeOK' => (LostOnlyWhenFull' <=> Deliveries')
  BY LostOnly, PTL
<1>. QED
  BY <1>1, <1>2

\* Before the first interrupt nothing is asserted, bound or queued.
LEMMA InitInv == Init => IInv
<1>. SUFFICES ASSUME Init PROVE IInv
  OBVIOUS
<1>1. TypeOK
  BY DEF Init, TypeOK, Handler, NoHandler, Idle, Message, Operation
<1>2. OneByOne
  BY DEF Init, OneByOne, NoHandler, Idle, Range
<1>3. Below
  BY DEF Init, Below, Masking, Locks, NoHandler, Idle
<1>4. LineType /\ \A d \in Devices : ~line[d]
  BY DEF Init, LineType
<1>. QED
  BY <1>1, <1>2, <1>3, <1>4, LostOnly DEF IInv, Bound, Deliveries

\* A device that asserts its line is in irr.
LEMMA AssertLineStep ==
  ASSUME IInv, NEW d \in Devices, AssertLine(d)
  PROVE  IInv'
<1>. USE DEF IInv
<1>1. UNCHANGED <<handler, queue, taken, thread, bindings, dropped>> /\ bindings[d] # <<>>
  BY DEF AssertLine, thread_vars
<1>2. irr' = irr \cup {32 + d}
  BY EntryOfDevice, ZenonT(60) DEF AssertLine
<1>3. TypeOK'
  BY <1>1, <1>2, ZenonT(60) DEF TypeOK
<1>4. OneByOne'
  BY <1>1 DEF OneByOne
<1>5. Below'
  BY <1>1 DEF Below, AssertLine, Locks
<1>6. LineType' /\ \A e \in Devices : e # d => (line'[e] <=> line[e])
  BY ZenonT(60) DEF AssertLine, LineType
<1>7. Bound'
  BY <1>1, <1>6 DEF Bound
<1>8. \A e \in Devices : line'[e] => Delivered(e)'
  <2>1. \A e \in Devices : line[e] => Delivered(e)
    BY LostOnly DEF Deliveries
  <2>. QED
    BY <1>1, <1>2, <1>6, <2>1 DEF Delivered
<1>. QED
  BY <1>3, <1>4, <1>5, <1>6, <1>7, <1>8, LostOnlyNext

\* The timer only adds its own vector.
LEMMA TickStep ==
  ASSUME IInv, Tick
  PROVE  IInv'
<1>. USE DEF IInv
<1>1. UNCHANGED <<handler, queue, taken, thread, bindings, dropped>> /\ irr' = irr \cup {32}
  BY DEF Tick, thread_vars
<1>2. TypeOK'
  BY <1>1 DEF TypeOK
<1>3. OneByOne'
  BY <1>1 DEF OneByOne
<1>4. Below'
  BY <1>1 DEF Below, Tick, Locks
<1>5. LineType' /\ Bound' /\ \A e \in Devices : line'[e] <=> line[e]
  BY <1>1 DEF Tick, LineType, Bound
<1>6. \A e \in Devices : line'[e] => Delivered(e)'
  <2>1. \A e \in Devices : line[e] => Delivered(e)
    BY LostOnly DEF Deliveries
  <2>. QED
    BY <1>1, <1>5, <2>1 DEF Delivered
<1>. QED
  BY <1>2, <1>3, <1>4, <1>5, <1>6, LostOnlyNext

\* Outside of the operations that mask interrupts, nothing but the thread changes what
\* it has locked.
LEMMA BelowKept ==
  ASSUME TypeOK, Below, thread' = thread, ~Masking(thread.op)
  PROVE  Below'
<1>1. thread.op \in {"script", "malloc", "print"}
  BY DEF TypeOK, Operation, Masking
<1>2. Locks(thread.op)' = Locks(thread.op)
  BY <1>1 DEF Locks
<1>. QED
  BY <1>2 DEF Below

\* A handler found interrupts on, and holds them off until its end.
LEMMA HandlerBelow ==
  ASSUME Below, handler.kind # "none"
  PROVE  ~Masking(thread.op)
BY DEF Below

\* A vector that leaves irr has its handler running; interrupts were on, so the
\* thread is in no operation that masks them.
LEMMA InterruptBegins ==
  ASSUME IInv, Interrupt
  PROVE  IInv'
<1>. USE DEF IInv
<1>1. PICK v \in Offered : irr' = irr \ {v} /\ handler' = Gate(v)
  BY DEF Interrupt
<1>2. UNCHANGED <<queue, taken, thread, bindings, dropped>> /\ handler.kind = "none"
  BY DEF Interrupt, thread_vars
<1>3. handler.todo = <<>>
  BY <1>2 DEF OneByOne
<1>4. v = 32 \/ \E d \in Devices : v = 32 + d
  BY DEF Offered, TypeOK
<1>5. Below'
  <2>1. ~Masking(thread.op)
    BY DEF Below, Interrupt
  <2>. QED
    BY <1>2, <2>1, BelowKept
<1>6. LineType' /\ Bound' /\ \A e \in Devices : line'[e] <=> line[e]
  BY <1>2 DEF Interrupt, LineType, Bound
<1>7. ASSUME handler' \in Handler, handler'.todo = <<>>, handler'.kind # "none",
             handler'.kind # "raise",
             handler'.kind = "irq" => handler'.irq \in Devices,
             \A e \in Devices : 32 + e = v => handler'.kind = "irq" /\ handler'.irq = e
      PROVE  IInv'
  <2>1. TypeOK'
    BY <1>1, <1>2, <1>7, ZenonT(60) DEF TypeOK
  <2>2. OneByOne'
    BY <1>2, <1>7 DEF OneByOne
  <2>3. \A e \in Devices : Delivered(e) => Delivered(e)'
    BY <1>1, <1>2, <1>3, <1>7 DEF Delivered, Range
  <2>4. \A e \in Devices : line'[e] => Delivered(e)'
    BY <1>6, <2>3, LostOnly DEF Deliveries
  <2>. QED
    BY <1>5, <1>6, <2>1, <2>2, <2>4, LostOnlyNext
<1>8. CASE \E d \in Devices : v = 32 + d
  <2>1. PICK d \in Devices : v = 32 + d
    BY <1>8
  <2>2. handler' = [kind |-> "irq", irq |-> d, todo |-> <<>>]
    BY <1>1, <2>1, EntryOfDevice
  <2>3. handler' \in Handler /\ handler'.kind = "irq" /\ handler'.irq = d /\ handler'.todo = <<>>
    BY <2>2 DEF Handler, Message
  <2>4. \A e \in Devices : 32 + e = v => e = d
    <3>1. \A e \in Devices : e \in Nat
      BY EntryOfDevice, ZenonT(60)
    <3>. QED
      BY <2>1, <3>1
  <2>. QED
    BY <1>7, <2>3, <2>4
<1>9. CASE v = 32
  <2>1. handler' = [kind |-> "timer", irq |-> 0, todo |-> <<>>]
    BY <1>1, <1>9 DEF Gate, TimerVectors
  <2>2. handler' \in Handler /\ handler'.kind = "timer" /\ handler'.todo = <<>>
    BY <2>1 DEF Handler, Message
  <2>3. \A e \in Devices : 32 + e # v
    BY <1>9, EntryOfDevice, ZenonT(60) DEF TimerVectors
  <2>. QED
    BY <1>7, <2>2, <2>3
<1>. QED
  BY <1>4, <1>8, <1>9

\* A handler ends when it has no message left to push.
LEMMA HandlerEnds ==
  ASSUME IInv, irq_timer_event \/ RaiseEnds
  PROVE  IInv'
<1>. USE DEF IInv
<1>1. /\ UNCHANGED <<irr, queue, taken, thread, bindings, dropped>>
      /\ handler.kind \in {"timer", "raise"} /\ handler' = NoHandler
  BY DEF irq_timer_event, RaiseEnds, EndOfInterrupt, thread_vars
<1>2. handler.todo = <<>>
  BY DEF OneByOne, irq_timer_event, RaiseEnds
<1>3. /\ handler' \in Handler /\ handler'.kind = "none" /\ handler'.todo = <<>>
  BY <1>1 DEF NoHandler, Handler, Message
<1>4. TypeOK'
  BY <1>1, <1>3 DEF TypeOK
<1>5. OneByOne'
  BY <1>1, <1>3 DEF OneByOne
<1>6. Below'
  BY <1>1, HandlerBelow, BelowKept
<1>7. LineType' /\ Bound' /\ \A e \in Devices : line'[e] <=> line[e]
  BY <1>1 DEF irq_timer_event, RaiseEnds, LineType, Bound
<1>8. \A e \in Devices : Delivered(e) => Delivered(e)'
  BY <1>1, <1>2, <1>3 DEF Delivered, Range
<1>9. \A e \in Devices : line'[e] => Delivered(e)'
  BY <1>7, <1>8, LostOnly DEF Deliveries
<1>. QED
  BY <1>4, <1>5, <1>6, <1>7, <1>9, LostOnlyNext

\* Raise has a message for every binding of the number, so one for the device if
\* its line is asserted.
LEMMA RaiseBeginsStep ==
  ASSUME IInv, RaiseBegins
  PROVE  IInv'
<1>. USE DEF IInv
<1>1. /\ UNCHANGED <<irr, queue, taken, thread, bindings, dropped>>
      /\ handler.kind = "irq" /\ handler.irq \in Devices /\ handler.todo = <<>>
      /\ handler' = [handler EXCEPT !.kind = "raise", !.todo = bindings[handler.irq]]
  BY ZenonT(60) DEF RaiseBegins, OneByOne, thread_vars
<1>2. handler \in Handler /\ bindings[handler.irq] \in Seq(Message)
  BY <1>1 DEF TypeOK
<1>3. /\ handler' \in Handler /\ handler'.kind = "raise" /\ handler'.todo = bindings[handler.irq]
  BY <1>1, <1>2, ZenonT(60) DEF Handler
<1>4. TypeOK'
  BY <1>1, <1>3 DEF TypeOK
<1>5. OneByOne'
  BY <1>1, <1>3 DEF OneByOne
<1>6. Below'
  BY <1>1, HandlerBelow, BelowKept
<1>7. LineType' /\ Bound' /\ \A e \in Devices : line'[e] <=> line[e]
  BY <1>1 DEF RaiseBegins, LineType, Bound
<1>8. ASSUME NEW e \in Devices, line[e] PROVE Delivered(e)'
  <2>1. Delivered(e)
    BY <1>8, LostOnly DEF Deliveries
  <2>2. CASE e = handler.irq
    <3>1. bindings[e] # <<>> /\ bindings[e] \in Seq(Message) /\ Range(bindings[e]) \subseteq {e}
      BY <1>8 DEF Bound, TypeOK, OneByOne
    <3>2. Head(bindings[e]) \in Range(bindings[e])
      BY <3>1 DEF Range
    <3>. QED
      BY <1>3, <2>2, <3>1, <3>2 DEF Delivered
  <2>3. CASE e # handler.irq
    BY <1>1, <2>1, <2>3 DEF Delivered, Range
  <2>. QED
    BY <2>2, <2>3
<1>9. \A e \in Devices : line'[e] => Delivered(e)'
  BY <1>7, <1>8
<1>. QED
  BY <1>4, <1>5, <1>6, <1>7, <1>9, LostOnlyNext

\* PushMessageIRQ moves a message to the queue, or drops it.
LEMMA PushMessageIRQStep ==
  ASSUME IInv, PushMessageIRQ
  PROVE  IInv'
<1>. USE DEF IInv
<1>. DEFINE todo == handler.todo
<1>1. /\ UNCHANGED <<irr, taken, thread, bindings>>
      /\ handler.kind = "raise" /\ todo # <<>>
      /\ handler' = [handler EXCEPT !.todo = Tail(todo)]
      /\ \/ queue' = Append(queue, Head(todo)) /\ dropped' = dropped
         \/ queue' = queue /\ dropped' = dropped \cup {Head(todo)}
  BY DEF PushMessageIRQ, thread_vars
<1>2. handler \in Handler /\ todo \in Seq(Message) /\ queue \in Seq(Message)
  BY DEF TypeOK, Handler
<1>. HIDE DEF todo
<1>4. /\ Head(todo) \in Message /\ Tail(todo) \in Seq(Message)
      /\ Range(todo) = {Head(todo)} \cup Range(Tail(todo))
  BY <1>1, <1>2, Members DEF Message
<1>3. /\ handler' \in Handler /\ handler'.kind = "raise" /\ handler'.todo = Tail(todo)
  BY <1>1, <1>2, <1>4, ZenonT(60) DEF Handler
<1>5. /\ queue' \in Seq(Message)
      /\ \/ Range(queue') = Range(queue) \cup {Head(todo)} /\ dropped' = dropped
         \/ queue' = queue /\ dropped' = dropped \cup {Head(todo)}
  <2>1. /\ Append(queue, Head(todo)) \in Seq(Message)
        /\ Range(Append(queue, Head(todo))) = Range(queue) \cup {Head(todo)}
    BY <1>2, <1>4, Members
  <2>. QED
    BY <1>1, <1>2, <2>1, ZenonT(60)
<1>6. TypeOK'
  BY <1>1, <1>3, <1>5 DEF TypeOK
<1>7. OneByOne'
  BY <1>1, <1>3, ZenonT(60) DEF OneByOne
<1>8. Below'
  BY <1>1, HandlerBelow, BelowKept
<1>9. LineType' /\ Bound' /\ \A e \in Devices : line'[e] <=> line[e]
  BY <1>1 DEF PushMessageIRQ, LineType, Bound
<1>10. \A e \in Devices : Delivered(e) => Delivered(e)'
  BY <1>1, <1>3, <1>4, <1>5 DEF Delivered, todo
<1>11. \A e \in Devices : line'[e] => Delivered(e)'
  BY <1>9, <1>10, LostOnly DEF Deliveries
<1>. QED
  BY <1>6, <1>7, <1>8, <1>9, <1>11, LostOnlyNext

\* The thread enters: it has no lock yet, and an operation that needs it masks
\* interrupts.
LEMMA EnterStep ==
  ASSUME IInv, NEW op \in Operation, NEW d \in Message, Enter(op, d),
         op = "bind" => d \in Devices
  PROVE  IInv'
<1>. USE DEF IInv
<1>1. /\ UNCHANGED <<irr, handler, queue, taken, bindings, dropped>>
      /\ thread' = [op |-> op, device |-> d, locks |-> 0] /\ handler.kind = "none"
      /\ op = "take" => taken = <<>>
  BY DEF Enter, Running
<1>2. thread'.op = op /\ thread'.device = d /\ thread'.locks = 0
  BY <1>1
<1>3. TypeOK'
  BY <1>1 DEF TypeOK
<1>4. OneByOne'
  BY <1>1, <1>2, ZenonT(60) DEF OneByOne
<1>5. Below'
  <2>1. Masking(op) => masked'
    BY DEF Enter
  <2>2. ~Masking(op) => 0 <= Len(Locks(op)')
    BY DEF Operation, Masking, Locks
  <2>. QED
    BY <1>1, <1>2, <2>1, <2>2 DEF Below
<1>6. LineType' /\ Bound' /\ \A e \in Devices : line'[e] <=> line[e]
  BY <1>1 DEF Enter, LineType, Bound
<1>7. \A e \in Devices : Delivered(e) => Delivered(e)'
  BY <1>1 DEF Delivered
<1>8. \A e \in Devices : line'[e] => Delivered(e)'
  BY <1>6, <1>7, LostOnly DEF Deliveries
<1>. QED
  BY <1>3, <1>4, <1>5, <1>6, <1>8, LostOnlyNext

\* One lock more, as long as the operation has one.
LEMMA LockStep ==
  ASSUME IInv, Lock
  PROVE  IInv'
<1>. USE DEF IInv
<1>1. /\ UNCHANGED <<irr, handler, queue, capacity, taken, bindings, dropped>>
      /\ thread' = [thread EXCEPT !.locks = @ + 1] /\ handler.kind = "none"
      /\ thread.locks < Len(Locks(thread.op))
  BY DEF Lock, Running
<1>2. thread \in [op : Operation, device : Message, locks : Nat]
  BY DEF TypeOK
<1>3. /\ thread'.op = thread.op /\ thread'.device = thread.device
      /\ thread'.locks = thread.locks + 1
      /\ thread' \in [op : Operation, device : Message, locks : Nat]
  BY <1>1, <1>2
<1>4. TypeOK'
  BY <1>1, <1>3 DEF TypeOK
<1>5. OneByOne'
  BY <1>1, <1>3, ZenonT(60) DEF OneByOne
<1>6. Below'
  <2>1. Masking(thread.op) => masked'
    BY DEF Lock, Below
  <2>2. Locks(thread.op)' = Locks(thread.op)
    BY <1>1, <1>3 DEF Locks
  <2>3. Len(Locks(thread.op)) \in Nat
    BY DEF Locks
  <2>4. thread.locks + 1 <= Len(Locks(thread.op))
    BY <1>1, <1>2, <2>3
  <2>. QED
    BY <1>1, <1>3, <2>1, <2>2, <2>4 DEF Below
<1>7. LineType' /\ Bound' /\ \A e \in Devices : line'[e] <=> line[e]
  BY <1>1 DEF Lock, LineType, Bound
<1>8. \A e \in Devices : Delivered(e) => Delivered(e)'
  BY <1>1 DEF Delivered
<1>9. \A e \in Devices : line'[e] => Delivered(e)'
  BY <1>7, <1>8, LostOnly DEF Deliveries
<1>. QED
  BY <1>4, <1>5, <1>6, <1>7, <1>9, LostOnlyNext

\* The thread leaves: on() has bound its device, TakeMessages has moved the queue to
\* taken, which was empty, and PushMessage only adds to the queue.
LEMMA LeaveStep ==
  ASSUME IInv, Leave
  PROVE  IInv'
<1>. USE DEF IInv
<1>1. /\ UNCHANGED <<irr, handler, dropped>> /\ handler.kind = "none" /\ thread' = Idle
  BY DEF Leave, Running
<1>2. /\ thread'.op = "script" /\ thread'.locks = 0
      /\ thread' \in [op : Operation, device : Message, locks : Nat]
  BY <1>1 DEF Idle, Operation, Message
<1>3. Below'
  <2>1. ~Masking(thread'.op) /\ Len(Locks(thread.op)') = 0
    BY <1>2 DEF Masking, Locks
  <2>. QED
    BY <1>2, <2>1 DEF Below
<1>4. line' = line
  BY DEF Leave
<1>5. CASE Bind
  <2>1. /\ UNCHANGED <<queue, taken>> /\ thread.device \in Devices
        /\ bindings' = [bindings EXCEPT ![thread.device] = Append(bindings[thread.device], thread.device)]
    BY <1>5 DEF Bind, OneByOne
  <2>. DEFINE d == thread.device
  <2>2. bindings \in [Devices -> Seq(Message)] /\ d \in Devices /\ d \in Message
    BY <2>1 DEF TypeOK, Message
  <2>3. /\ Append(bindings[d], d) \in Seq(Message) /\ Append(bindings[d], d) # <<>>
        /\ Range(Append(bindings[d], d)) = Range(bindings[d]) \cup {d}
    <3>. HIDE DEF d
    <3>1. bindings[d] \in Seq(Message)
      BY <2>2
    <3>2. Append(bindings[d], d) # <<>>
      BY <2>2, <3>1
    <3>. QED
      BY <2>2, <3>1, <3>2, Members
  <2>4. /\ bindings' \in [Devices -> Seq(Message)] /\ bindings'[d] = Append(bindings[d], d)
        /\ \A e \in Devices : e # d => bindings'[e] = bindings[e]
    BY <2>1, <2>2, <2>3
  <2>. HIDE DEF d
  <2>5. TypeOK'
    BY <1>1, <1>2, <2>1, <2>4 DEF TypeOK
  <2>6. OneByOne'
    BY <1>1, <1>2, <2>1, <2>2, <2>3, <2>4 DEF OneByOne
  <2>7. LineType' /\ Bound' /\ \A e \in Devices : line'[e] <=> line[e]
    BY <1>4, <2>3, <2>4 DEF LineType, Bound
  <2>8. \A e \in Devices : Delivered(e) => Delivered(e)'
    BY <1>1, <2>1 DEF Delivered
  <2>9. \A e \in Devices : line'[e] => Delivered(e)'
    BY <2>7, <2>8, LostOnly DEF Deliveries
  <2>. QED
    BY <1>3, <2>5, <2>6, <2>7, <2>9, LostOnlyNext
<1>6. ASSUME bindings' = bindings, queue' \in Seq(Message), taken' \in Seq(Message),
             Range(queue) \cup Range(taken) \subseteq Range(queue') \cup Range(taken')
      PROVE  IInv'
  <2>1. TypeOK'
    BY <1>1, <1>2, <1>6 DEF TypeOK
  <2>2. OneByOne'
    BY <1>1, <1>2, <1>6, ZenonT(60) DEF OneByOne
  <2>3. LineType' /\ Bound' /\ \A e \in Devices : line'[e] <=> line[e]
    BY <1>4, <1>6 DEF LineType, Bound
  <2>4. \A e \in Devices : Delivered(e) => Delivered(e)'
    BY <1>1, <1>6 DEF Delivered
  <2>5. \A e \in Devices : line'[e] => Delivered(e)'
    BY <2>3, <2>4, LostOnly DEF Deliveries
  <2>. QED
    BY <1>3, <2>1, <2>2, <2>3, <2>5, LostOnlyNext
<1>7. queue \in Seq(Message) /\ taken \in Seq(Message) /\ <<>> \in Seq(Message)
  BY DEF TypeOK
<1>8. CASE TakeMessages
  <2>1. taken' = queue /\ queue' = <<>> /\ bindings' = bindings /\ taken = <<>>
    BY <1>8 DEF TakeMessages, OneByOne
  <2>2. Range(taken) = {}
    BY <2>1 DEF Range
  <2>. QED
    BY <1>6, <1>7, <2>1, <2>2
<1>9. CASE PushMessage
  <2>1. queue' = Append(queue, 0) /\ taken' = taken /\ bindings' = bindings /\ 0 \in Message
    BY <1>9 DEF PushMessage, Message
  <2>2. queue' \in Seq(Message) /\ Range(queue) \subseteq Range(queue')
    BY <1>7, <2>1, Members
  <2>. QED
    BY <1>6, <1>7, <2>1, <2>2
<1>10. CASE Other
  BY <1>6, <1>7, <1>10 DEF Other
<1>. QED
  BY <1>5, <1>8, <1>9, <1>10 DEF Leave

\* What was served is asserted no more; the message that is gone was of a device that
\* was served.
LEMMA ServeStep ==
  ASSUME IInv, NEW S, Serve(S), thread = Idle, UNCHANGED <<irr, bindings, queue, thread, handler>>,
         taken' \in Seq(Message), Range(taken) \subseteq Range(taken') \cup S
  PROVE  IInv'
<1>. USE DEF IInv
<1>1. thread.op = "script"
  BY DEF Idle
<1>2. ~Masking(thread.op)
  BY <1>1 DEF Masking
<1>3. TypeOK'
  BY DEF TypeOK
<1>4. OneByOne'
  BY <1>1, ZenonT(60) DEF OneByOne
<1>5. Below'
  BY <1>2, BelowKept
<1>6. LineType' /\ \A e \in Devices : line'[e] => line[e] /\ e \notin S
  BY ZenonT(60) DEF Serve, LineType
<1>7. Bound'
  BY <1>6 DEF Bound
<1>8. \A e \in Devices : Delivered(e) /\ e \notin S => Delivered(e)'
  BY DEF Delivered, Serve
<1>9. \A e \in Devices : line'[e] => Delivered(e)'
  BY <1>6, <1>8, LostOnly DEF Deliveries
<1>. QED
  BY <1>3, <1>4, <1>5, <1>6, <1>7, <1>9, LostOnlyNext

\* Every step of the devices, the processor and the thread keeps the invariant.
LEMMA NextInv == IInv /\ [Next]_vars => IInv'
<1>. SUFFICES ASSUME IInv, [Next]_vars PROVE IInv'
  OBVIOUS
<1>1. ASSUME NEW d \in Devices, Enter("bind", d) PROVE IInv'
  BY <1>1, EnterStep DEF Operation, Message
<1>2. ASSUME NEW op \in {"take", "push", "malloc", "print"}, Enter(op, 0) PROVE IInv'
  BY <1>2, EnterStep DEF Operation, Message
<1>3. CASE Process
  <2>1. /\ Serve({Head(taken)}) /\ thread = Idle /\ taken # <<>> /\ taken' = Tail(taken)
        /\ UNCHANGED <<irr, bindings, queue, thread, handler>>
    BY <1>3 DEF Process
  <2>2. taken \in Seq(Message)
    BY DEF IInv, TypeOK
  <2>3. taken' \in Seq(Message) /\ Range(taken) = {Head(taken)} \cup Range(taken')
    BY <2>1, <2>2, Members DEF Message
  <2>. QED
    BY <2>1, <2>3, ServeStep
<1>4. ASSUME NEW d \in Polled, Poll(d) PROVE IInv'
  <2>1. taken' = taken /\ taken \in Seq(Message)
    BY <1>4 DEF Poll, IInv, TypeOK
  <2>. QED
    BY <1>4, <2>1, ServeStep DEF Poll
<1>5. ASSUME UNCHANGED vars PROVE IInv'
  <2>1. UNCHANGED <<irr, bindings, queue, capacity, taken, thread, handler, dropped>>
    BY <1>5 DEF vars
  <2>2. TypeOK' /\ OneByOne'
    BY <2>1 DEF IInv, TypeOK, OneByOne
  <2>3. Below'
    BY <1>5, <2>1 DEF IInv, Below, Locks, vars
  <2>4. LineType' /\ Bound' /\ \A e \in Devices : line'[e] <=> line[e]
    BY <1>5 DEF IInv, LineType, Bound, vars
  <2>5. \A e \in Devices : line'[e] => Delivered(e)'
    BY <2>1, <2>4, LostOnly DEF IInv, Deliveries, Delivered
  <2>. QED
    BY <2>2, <2>3, <2>4, <2>5, LostOnlyNext DEF IInv
<1>. QED
  BY <1>1, <1>2, <1>3, <1>4, <1>5, AssertLineStep, TickStep, InterruptBegins, HandlerEnds,
     RaiseBeginsStep, PushMessageIRQStep, LockStep, LeaveStep
     DEF Next, InterruptStep

\* What a handler needs is not among the locks of an operation that leaves interrupts
\* on.
LEMMA InvNoSpin == IInv => NoSpin
<1>. SUFFICES ASSUME IInv, handler.kind # "none"
              PROVE  "bindings" \notin Held /\ "messages" \notin Held
  BY DEF NoSpin
<1>1. ~Masking(thread.op) /\ thread.op \in Operation /\ thread.locks \in Nat
  BY HandlerBelow DEF IInv, TypeOK
<1>2. thread.locks <= Len(Locks(thread.op))
  BY <1>1 DEF IInv, Below
<1>3. CASE thread.op = "script"
  BY <1>1, <1>2, <1>3 DEF Locks, Held
<1>4. CASE thread.op = "malloc"
  BY <1>1, <1>2, <1>4 DEF Locks, Held
<1>5. CASE thread.op = "print"
  BY <1>1, <1>2, <1>5 DEF Locks, Held
<1>. QED
  BY <1>1, <1>3, <1>4, <1>5 DEF Operation, Masking

\* No handler ever spins on a lock of the thread it interrupted (irqs-x64.cc,
\* irq-dispatcher.h, engine.h), whichever operation the thread is in.
THEOREM HandlersNeverSpin == Spec => []NoSpin
  BY InitInv, NextInv, InvNoSpin, PTL DEF Spec

\* The interrupt of a device gets lost only in a message queue filled to its capacity
\* (engine.h), however many devices, IO APICs and bindings there are.
THEOREM InterruptsKept == Spec => []LostOnlyWhenFull
<1>1. IInv => LostOnlyWhenFull
  BY DEF IInv
<1>. QED
  BY <1>1, InitInv, NextInv, PTL DEF Spec
=============================================================================
