----------------------------- MODULE Interrupts -----------------------------
(***************************************************************************)
(* The way of a device interrupt to the driver: IO APIC                    *)
(* (src/kernel/x64/ioapic-x64.cc), gate (src/kernel/x64/irqs-x64.cc),      *)
(* dispatcher (src/kernel/irq-dispatcher.h), message queue of the thread   *)
(* (src/kernel/engine.h) and handler, with the locks that the thread and   *)
(* the interrupt handlers take and the times when interrupts are masked.   *)
(* There is one processor: a handler runs on top of the thread, and a lock *)
(* that it finds taken is never released.                                  *)
(***************************************************************************)
EXTENDS Integers, Sequences, FiniteSets, Functions

CONSTANTS IoApicBases,   \* globalSystemInterrupt of the IO APICs
          Pins,          \* redirection entries of an IO APIC, VER + 1
          Devices,       \* the devices, by the line each has for itself
          Polled,        \* those whose driver also checks at an interval
          Reserved,      \* capacity that TakeMessages reserves, 128
          MaxQueue       \* bound: messages from the thread itself stop here

ASSUME InterruptsAssumption ==
  /\ IoApicBases \subseteq Nat /\ Pins \in Nat
  /\ Reserved \in Nat \ {0} /\ MaxQueue \in Nat
  /\ Polled \subseteq Devices
  /\ Devices \subseteq {b + i : b \in IoApicBases, i \in 0 .. Pins - 1} \ {0, 2}

VARIABLES line,      \* a device asserts its line until its status is read
          irr, isr,  \* vectors that wait at the local APIC, and that it serves
          masked,    \* interrupts are off
          bindings,  \* the devices whose drivers have called on(), by IRQ number
          queue, capacity,  \* messages_: a device, or 0 for other messages
          taken,     \* the messages that Thread::Run has yet to process
          thread,    \* what the thread does, and how many locks it has for it
          handler,   \* the handler on top: kind, IRQ number, bindings to raise
          dropped    \* history: the devices whose last message was dropped

vars == <<line, irr, isr, masked, bindings, queue, capacity, taken, thread, handler, dropped>>

-----------------------------------------------------------------------------
(* Vectors *)

kIRQOffset == 32

\* Entry i of the IO APIC with base b; the timer does not go through it.
Redirection(b, i) == [vector |-> kIRQOffset + i + b, masked |-> b = 0 /\ i = 0]

EntryOf(l) ==
  LET b == CHOOSE b \in IoApicBases : l \in b .. b + Pins - 1
  IN  Redirection(b, l - b)

TimerVectors == {32, 34}

\* Mutant: the gates behind the second timer gate have moved by one.
IrqOfGate_Shifted(v) == IF v > 34 THEN v - kIRQOffset - 1 ELSE v - kIRQOffset

\* The number with which the gate of a vector calls irq_handler_any
IrqOfGate(v) == v - kIRQOffset

\* What is entered at a vector that the timer or a line has
Gate(v) ==
  IF v \in TimerVectors THEN [kind |-> "timer", irq |-> 0, todo |-> <<>>]
  ELSE [kind |-> "irq", irq |-> IrqOfGate(v), todo |-> <<>>]

NoHandler == [kind |-> "none", irq |-> 0, todo |-> <<>>]

\* The local APIC offers a vector of a higher class than those it serves.
Offered == {v \in irr : \A w \in isr : v \div 16 > w \div 16}

-----------------------------------------------------------------------------
(* Locks of the thread.  malloc takes the one of the heap. *)

\* Mutant: bindings are changed with interrupts on.
Masking_NotBind(op) == op \in {"take", "push"}

\* The operations in a NoInterrupsScope
Masking(op) == op \in {"bind", "take", "push"}

\* In the order they are taken
Locks(op) ==
  CASE op = "bind" -> <<"bindings", "heap">>
    [] op = "take" -> IF queue = <<>> THEN <<"messages">> ELSE <<"messages", "heap">>
    [] op = "push" -> IF Len(queue) < capacity THEN <<"messages">> ELSE <<"messages", "heap">>
    [] op = "malloc" -> <<"heap">>
    [] op = "print" -> <<"video", "serial">>
    [] OTHER -> <<>>

Held == {Locks(thread.op)[k] : k \in 1 .. thread.locks}

Idle == [op |-> "script", device |-> 0, locks |-> 0]

-----------------------------------------------------------------------------

Init ==
  /\ line = [d \in Devices |-> FALSE]
  /\ irr = {} /\ isr = {}
  /\ masked = FALSE
  /\ bindings = [d \in Devices |-> <<>>]
  /\ queue = <<>> /\ capacity = 0
  /\ taken = <<>>
  /\ thread = Idle
  /\ handler = NoHandler
  /\ dropped = {}

thread_vars == <<bindings, taken, thread>>

\* A device asserts its line; the entries of the IO APIC wait for the edge.  The
\* virtio drivers call on() before they tell the device that they are ready.
AssertLine(d) ==
  /\ bindings[d] # <<>>
  /\ ~line[d]
  /\ line' = [line EXCEPT ![d] = TRUE]
  /\ irr' = IF EntryOf(d).masked THEN irr ELSE irr \cup {EntryOf(d).vector}
  /\ UNCHANGED <<isr, masked, queue, capacity, handler, dropped, thread_vars>>

\* The timer of the local APIC; a period is longer than its handler.
Tick ==
  /\ 32 \notin irr \cup isr
  /\ irr' = irr \cup {32}
  /\ UNCHANGED <<line, isr, masked, queue, capacity, handler, dropped, thread_vars>>

\* All gates are interrupt gates: interrupts are off in the handler.
Interrupt ==
  /\ handler.kind = "none"
  /\ ~masked
  /\ \E v \in Offered :
       /\ \A w \in Offered : w <= v
       /\ irr' = irr \ {v}
       /\ isr' = isr \cup {v}
       /\ handler' = Gate(v)
  /\ masked' = TRUE
  /\ UNCHANGED <<line, queue, capacity, dropped, thread_vars>>

\* EOI and IRETQ; interrupts were on where the thread was interrupted.
EndOfInterrupt ==
  /\ isr' = isr \ {CHOOSE v \in isr : \A w \in isr : w <= v}
  /\ masked' = FALSE
  /\ handler' = NoHandler

\* Mutant: the timer does not signal the end of the interrupt.
irq_timer_event_NoEOI ==
  /\ handler.kind = "timer"
  /\ masked' = FALSE
  /\ handler' = NoHandler
  /\ UNCHANGED <<line, irr, isr, queue, capacity, dropped, thread_vars>>

irq_timer_event ==
  /\ handler.kind = "timer"
  /\ EndOfInterrupt
  /\ UNCHANGED <<line, irr, queue, capacity, dropped, thread_vars>>

\* IrqDispatcher::Raise takes its lock.
RaiseBegins ==
  /\ handler.kind = "irq"
  /\ "bindings" \notin Held
  /\ handler' = [handler EXCEPT !.kind = "raise",
                                !.todo = IF handler.irq \in Devices THEN bindings[handler.irq] ELSE <<>>]
  /\ UNCHANGED <<line, irr, isr, masked, queue, capacity, dropped, thread_vars>>

\* The next binding: there is no allocation, a message without room is dropped.
PushMessageIRQ ==
  /\ handler.kind = "raise"
  /\ handler.todo # <<>>
  /\ "messages" \notin Held
  /\ IF Len(queue) < capacity
     THEN queue' = Append(queue, Head(handler.todo)) /\ UNCHANGED dropped
     ELSE dropped' = dropped \cup {Head(handler.todo)} /\ UNCHANGED queue
  /\ handler' = [handler EXCEPT !.todo = Tail(@)]
  /\ UNCHANGED <<line, irr, isr, masked, capacity, thread_vars>>

RaiseEnds ==
  /\ handler.kind = "raise"
  /\ handler.todo = <<>>
  /\ EndOfInterrupt
  /\ UNCHANGED <<line, irr, queue, capacity, dropped, thread_vars>>

-----------------------------------------------------------------------------
(* The thread, which stands still while a handler runs and before an interrupt *)
(* that can be taken                                                           *)

Running == handler.kind = "none" /\ (masked \/ Offered = {})

\* Script code enters the kernel; on() is called once by a driver, and the queue
\* is looked at when all that was taken has been processed.
Enter(op, d) ==
  /\ Running /\ thread = Idle
  /\ op = "bind" => d \notin Range(bindings[d])
  /\ op = "take" => taken = <<>>
  /\ op = "push" => Len(queue) < MaxQueue
  /\ thread' = [op |-> op, device |-> d, locks |-> 0]
  /\ masked' = Masking(op)
  /\ UNCHANGED <<line, irr, isr, bindings, queue, capacity, taken, handler, dropped>>

Lock ==
  /\ Running
  /\ thread.locks < Len(Locks(thread.op))
  /\ thread' = [thread EXCEPT !.locks = @ + 1]
  /\ UNCHANGED <<line, irr, isr, masked, bindings, queue, capacity, taken, handler, dropped>>

Bind ==
  /\ thread.op = "bind"
  /\ bindings' = [bindings EXCEPT ![thread.device] = Append(@, thread.device)]
  /\ UNCHANGED <<queue, capacity, taken>>

TakeMessages ==
  /\ thread.op = "take"
  /\ taken' = queue
  /\ queue' = <<>>
  /\ capacity' = IF queue = <<>> THEN capacity ELSE Reserved
  /\ UNCHANGED bindings

\* A full vector grows to twice its capacity.
PushMessage ==
  /\ thread.op = "push"
  /\ queue' = Append(queue, 0)
  /\ capacity' = IF Len(queue) < capacity THEN capacity
                 ELSE IF capacity = 0 THEN 1 ELSE 2 * capacity
  /\ UNCHANGED <<bindings, taken>>

Other ==
  /\ thread.op \in {"malloc", "print"}
  /\ UNCHANGED <<bindings, queue, capacity, taken>>

\* With all its locks the thread does its work, releases them and unmasks.
Leave ==
  /\ Running
  /\ thread # Idle /\ thread.locks = Len(Locks(thread.op))
  /\ thread' = Idle
  /\ masked' = FALSE
  /\ Bind \/ TakeMessages \/ PushMessage \/ Other
  /\ UNCHANGED <<line, irr, isr, handler, dropped>>

\* Reading the status of a device makes it release its line.
Serve(S) ==
  /\ line' = [d \in Devices |-> line[d] /\ d \notin S]
  /\ dropped' = dropped \ S

\* Thread::Run processes a message.
Process ==
  /\ Running /\ thread = Idle
  /\ taken # <<>>
  /\ taken' = Tail(taken)
  /\ Serve({Head(taken)})
  /\ UNCHANGED <<irr, isr, masked, bindings, queue, capacity, thread, handler>>

\* The interval of a driver that knows about missing interrupts
Poll(d) ==
  /\ Running /\ thread = Idle
  /\ Serve({d})
  /\ UNCHANGED <<irr, isr, masked, bindings, queue, capacity, taken, thread, handler>>

InterruptStep ==
  \/ Interrupt \/ irq_timer_event
  \/ RaiseBegins \/ PushMessageIRQ \/ RaiseEnds

Next ==
  \/ \E d \in Devices : AssertLine(d) \/ Enter("bind", d)
  \/ Tick
  \/ InterruptStep
  \/ \E op \in {"take", "push", "malloc", "print"} : Enter(op, 0)
  \/ Lock \/ Leave \/ Process
  \/ \E d \in Polled : Poll(d)

\* The processor runs and interrupts leave time to the thread below them; Run takes
\* and processes messages, and intervals are due, again and again.
Spec ==
  /\ Init /\ [][Next]_vars
  /\ WF_vars(InterruptStep) /\ SF_vars(Lock \/ Leave)
  /\ SF_vars(Enter("take", 0)) /\ SF_vars(Process)
  /\ \A d \in Polled : SF_vars(line[d] /\ Poll(d))

-----------------------------------------------------------------------------
(* Properties *)

\* An interrupt handler never waits for a lock that the thread below it holds:
\* what handlers lock is only locked with interrupts off, and what is locked with
\* interrupts on, the heap and the writers of the log, no handler needs.
NoSpin ==
  /\ handler.kind = "irq" => "bindings" \notin Held
  /\ handler.kind = "raise" /\ handler.todo # <<>> => "messages" \notin Held

\* The interrupt of a device is on its way from the IO APIC to the driver until the
\* driver has read its status, in whatever order vectors, bindings and messages
\* come, but for the message that meets a queue filled to its capacity.
LostOnlyWhenFull ==
  \A d \in Devices :
    line[d] =>
      \/ EntryOf(d).vector \in irr
      \/ handler.kind = "irq" /\ handler.irq = d
      \/ d \in Range(handler.todo \o queue \o taken)
      \/ d \in dropped

\* Every interrupt is served in the end: by its message, by the interval of a
\* driver that knows about missing interrupts, or, when neither is there, not
\* because of masks, locks, priorities or a lost end of interrupt, but because the
\* message was dropped.
EveryInterruptServed ==
  \A d \in Devices : line[d] ~> ~line[d] \/ d \in dropped \ Polled
=============================================================================
