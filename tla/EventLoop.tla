----------------------------- MODULE EventLoop ------------------------------
(***************************************************************************)
(* The event loop of the kernel: src/kernel/thread.cc (Run), thread.h,     *)
(* thread-manager.{h,cc}, engine.h (the message queue), irq-dispatcher.h,  *)
(* v8utils.h (IndexedPool) and timeouts.h.  One CPU runs two threads in    *)
(* turn: main, which runs JavaScript, and idle, which halts the CPU until  *)
(* the next interrupt when no event was processed since it last looked.    *)
(* Interrupts come at any time and leave a message to main.                *)
(*                                                                         *)
(* A member of Timer or Immediate stands for a callback; a program may use *)
(* it again once it is over.  Which timers have elapsed is left open.      *)
(* Both threads have priority 1 for ever, as AddPriority is never called,  *)
(* and main is never ended by its reference count, as the handlers of the  *)
(* drivers keep a reference each.                                          *)
(***************************************************************************)
EXTENDS Integers, Sequences, FiniteSetsExt

CONSTANTS Timer,            \* callbacks given to setTimeout or setInterval
          Intervals,        \* those of setInterval
          Immediate,        \* callbacks given to setImmediate
          Reserve,          \* room in a new message queue, 128 in the code
          ClearsIntervals,  \* the program calls clearInterval
          NULL

\* What a slot of timeout_data_ holds
Data == [timer : Timer, state : {"live", "cleared"}]

ASSUME LoopAssumption ==
  /\ IsFiniteSet(Timer) /\ IsFiniteSet(Immediate)
  /\ Intervals \subseteq Timer
  /\ Timer \cap (Immediate \cup {"irq", "script", NULL}) = {}
  /\ NULL \notin Immediate \cup Data
  /\ Reserve \in Nat \ {0}
  /\ ClearsIntervals \in BOOLEAN

VARIABLES current,   \* the thread that runs
          pc,        \* where it is
          worked,    \* ev_done_total_ # ev_done_checkpoint_
          messages,  \* messages_ of the main thread
          capacity,  \* messages_.capacity()
          batch,     \* the messages Run has taken and not yet processed
          running,   \* the callback whose JavaScript runs, or NULL
          pool,      \* timeout_data_; an empty slot is NULL
          objects,   \* object_handles_, likewise
          timeouts,  \* how often each slot of pool is in timeouts_
          handle,    \* what setTimeout or setInterval returned last
          status,    \* of each timer, as the program sees it
          waiting    \* history: immediates asked for and not yet run, in order

queueVars == <<messages, capacity, batch>>
timerVars == <<pool, timeouts, handle, status>>
vars == <<current, pc, worked, queueVars, running, objects, waiting, timerVars>>

Slot == 1 .. Cardinality(Timer)
Place == 1 .. Cardinality(Immediate)

Message(type, index) == [type |-> type, index |-> index]

Init ==
  /\ current = "main" /\ pc = "js" /\ running = "script"   \* EVALUATE
  /\ worked = TRUE
  /\ messages = <<>> /\ batch = <<>> /\ capacity = Reserve
  /\ pool = [i \in Slot |-> NULL] /\ objects = [i \in Place |-> NULL]
  /\ timeouts = [i \in Slot |-> 0]
  /\ handle = [t \in Timer |-> 1]   \* undefined, which converts to the first slot
  /\ status = [t \in Timer |-> "idle"]
  /\ waiting = <<>>

\* IndexedPool::Push takes the first empty slot.
FirstEmpty(p) == Min({i \in DOMAIN p : p[i] = NULL})

\* Mutant: the message is put in front of the others.
PushMessage_Front(m) ==
  /\ messages' = <<m>> \o messages
  /\ capacity' = IF Len(messages) = capacity THEN 2 * capacity ELSE capacity
  /\ UNCHANGED batch

\* PushMessageIRQ allocates no memory.
HasRoom == Len(messages) < capacity

\* PushMessage: the vector doubles when it is full.
PushMessage(m) ==
  /\ messages' = Append(messages, m)
  /\ capacity' = IF Len(messages) = capacity THEN 2 * capacity ELSE capacity
  /\ UNCHANGED batch

-----------------------------------------------------------------------------
(* JavaScript *)

SetTimer(t) ==
  LET i == FirstEmpty(pool) IN
  /\ pool' = [pool EXCEPT ![i] = [timer |-> t, state |-> "live"]]
  /\ timeouts' = [timeouts EXCEPT ![i] = @ + 1]
  /\ handle' = [handle EXCEPT ![t] = i]

CallSetTimer(t) ==
  /\ pc = "js"
  /\ status[t] = "idle"
  /\ SetTimer(t)
  /\ status' = [status EXCEPT ![t] = "set"]
  /\ UNCHANGED <<current, pc, worked, queueVars, running, objects, waiting>>

\* Mutant: the data is dropped while its timeout is still queued.
FlagTimeoutCleared_Drops(i) == pool' = [pool EXCEPT ![i] = NULL]

\* Whatever is in the slot is flagged.
FlagTimeoutCleared(i) ==
  pool' = [pool EXCEPT ![i] = IF @ = NULL THEN NULL ELSE [@ EXCEPT !.state = "cleared"]]

\* Whether the slot that t's handle names holds u
Names(t, u) == pool[handle[t]] # NULL /\ pool[handle[t]].timer = u

\* A program clears t with what setTimeout returned for it, also when t is over or
\* was never set: then whichever timer has the slot by now is struck.
CallClearTimer(t) ==
  /\ pc = "js"
  /\ t \in Intervals => ClearsIntervals
  /\ FlagTimeoutCleared(handle[t])
  /\ status' = [u \in Timer |-> IF u = t /\ status[t] # "idle" THEN "cleared"
                                ELSE IF Names(t, u) /\ status[u] = "set" THEN "struck"
                                ELSE status[u]]
  /\ UNCHANGED <<current, pc, worked, queueVars, running, objects, waiting,
                 timeouts, handle>>

CallSetImmediate(c) ==
  /\ pc = "js"
  /\ c \notin Range(waiting)
  /\ LET i == FirstEmpty(objects) IN
     /\ objects' = [objects EXCEPT ![i] = c]
     /\ PushMessage(Message("SET_IMMEDIATE", i))
  /\ waiting' = Append(waiting, c)
  /\ UNCHANGED <<current, pc, worked, running, timerVars>>

Return ==
  /\ pc = "js"
  /\ pc' = "loop"
  /\ running' = NULL
  /\ UNCHANGED <<current, worked, queueVars, objects, waiting, timerVars>>

-----------------------------------------------------------------------------
(* The main thread *)

\* TakeMessages: without messages the thread gives up the CPU at once.
TakeMessages ==
  /\ current = "main" /\ pc = "run"
  /\ \/ /\ messages = <<>>
        /\ pc' = "preempt"
        /\ UNCHANGED <<queueVars, worked>>
     \/ /\ messages # <<>>
        /\ batch' = messages
        /\ messages' = <<>>
        /\ capacity' = Reserve
        /\ pc' = "loop"
        /\ worked' = TRUE
  /\ UNCHANGED <<current, running, objects, waiting, timerVars>>

\* Mutant: the callback is called although it was cleared.
Skips_Never(data) == FALSE

Skips(data) == data.state = "cleared"

\* TIMEOUT_EVENT: the data is taken from its slot; that of an interval is put
\* back in the first empty slot, which may be another one.
TimeoutEvent(i) ==
  LET data == pool[i]
      taken == [pool EXCEPT ![i] = NULL]
      again == ~Skips(data) /\ data.timer \in Intervals
      j == FirstEmpty(taken)
  IN
  /\ pool' = IF again THEN [taken EXCEPT ![j] = data] ELSE taken
  /\ timeouts' = IF again THEN [timeouts EXCEPT ![j] = @ + 1] ELSE timeouts
  /\ running' = IF Skips(data) THEN NULL ELSE data.timer
  /\ status' = IF again THEN status ELSE [status EXCEPT ![data.timer] = "idle"]
  /\ UNCHANGED <<handle, objects, waiting>>

SetImmediateEvent(i) ==
  /\ objects' = [objects EXCEPT ![i] = NULL]
  /\ running' = objects[i]
  /\ \E k \in DOMAIN waiting :
       /\ waiting[k] = objects[i]
       /\ waiting' = SubSeq(waiting, 1, k - 1) \o SubSeq(waiting, k + 1, Len(waiting))
  /\ UNCHANGED timerVars

\* One round of the loop over the batch, up to the call of the callback.
Process ==
  /\ pc = "loop" /\ batch # <<>>
  /\ batch' = Tail(batch)
  /\ LET m == Head(batch) IN
     \/ m.type = "TIMEOUT_EVENT" /\ TimeoutEvent(m.index)
     \/ m.type = "SET_IMMEDIATE" /\ SetImmediateEvent(m.index)
     \/ m.type = "IRQ_RAISE" /\ running' = "irq" /\ UNCHANGED <<objects, waiting, timerVars>>
  /\ pc' = IF running' = NULL THEN "loop" ELSE "js"
  /\ UNCHANGED <<current, worked, messages, capacity>>

RunEnds ==
  /\ pc = "loop" /\ batch = <<>>
  /\ pc' = "preempt"
  /\ UNCHANGED <<current, worked, queueVars, running, objects, waiting, timerVars>>

-----------------------------------------------------------------------------
(* Preemption and the idle thread *)

\* ProcessTimeouts, for one timeout that has elapsed
TimeoutElapses(i) ==
  /\ pc = "preempt"
  /\ timeouts[i] > 0
  /\ timeouts' = [timeouts EXCEPT ![i] = @ - 1]
  /\ PushMessage(Message("TIMEOUT_EVENT", i))
  /\ UNCHANGED <<current, pc, worked, running, objects, waiting, pool, handle, status>>

\* SwitchToNextThread: with equal priorities the threads take turns.
Preempt ==
  /\ pc = "preempt"
  /\ current' = IF current = "main" THEN "idle" ELSE "main"
  /\ pc' = "run"
  /\ UNCHANGED <<worked, queueVars, running, objects, waiting, timerVars>>

\* CanHalt; an interrupt may still come before the hlt.
IdleRun ==
  /\ current = "idle" /\ pc = "run"
  /\ pc' = IF worked THEN "preempt" ELSE "halt"
  /\ worked' = FALSE
  /\ UNCHANGED <<current, queueVars, running, objects, waiting, timerVars>>

Halt ==
  /\ pc = "halt"
  /\ pc' = "halted"
  /\ UNCHANGED <<current, worked, queueVars, running, objects, waiting, timerVars>>

Wakes == pc' = IF pc = "halted" THEN "preempt" ELSE pc

\* Mutant: the timer does not wake the CPU.
TimerInterrupt_Masked == UNCHANGED vars

\* The timer of the local APIC, which is periodic
TimerInterrupt ==
  /\ pc = "halted"
  /\ Wakes
  /\ UNCHANGED <<current, worked, queueVars, running, objects, waiting, timerVars>>

\* Without room the interrupt is lost.
IRQ ==
  /\ Wakes
  /\ IF HasRoom THEN PushMessage(Message("IRQ_RAISE", 0)) ELSE UNCHANGED queueVars
  /\ UNCHANGED <<current, worked, running, objects, waiting, timerVars>>

-----------------------------------------------------------------------------
MainStep == TakeMessages \/ Process \/ RunEnds

IdleStep == IdleRun \/ Halt \/ TimerInterrupt

JavaScript ==
  \/ \E t \in Timer : CallSetTimer(t) \/ CallClearTimer(t)
  \/ \E c \in Immediate : CallSetImmediate(c)

Next ==
  \/ MainStep \/ IdleStep \/ Preempt \/ Return \/ JavaScript
  \/ \E i \in Slot : TimeoutElapses(i)
  \/ IRQ

SafeSpec == Init /\ [][Next]_vars

\* Callbacks return, threads run on, the timer interrupts, and a timeout that is
\* queued has elapsed at one of the next preemptions.
Spec ==
  /\ SafeSpec
  /\ WF_vars(Return) /\ WF_vars(Preempt)
  /\ WF_vars(MainStep) /\ WF_vars(IdleStep)
  /\ \A i \in Slot : SF_vars(TimeoutElapses(i))

-----------------------------------------------------------------------------
Queued == batch \o messages

EventsOf(i) ==
  Cardinality({k \in DOMAIN Queued : Queued[k] = Message("TIMEOUT_EVENT", i)})

\* A slot that holds a timer has exactly one event under way, in timeouts_, in
\* the message queue or in the batch, and an empty slot has none: TakeTimeoutData
\* always finds the data the event was made for (the assertions of thread.cc
\* 294-296), although slots are used again as soon as they are empty.
OneEventPerTimer ==
  \A i \in Slot : timeouts[i] + EventsOf(i) = IF pool[i] = NULL THEN 0 ELSE 1

\* Callbacks given to setImmediate run once each and in order, although their
\* slots in object_handles_ are used again: the queued messages find the callbacks
\* that wait, in the order of the calls.
ImmediatesInOrder ==
  \E at \in [DOMAIN waiting -> DOMAIN Queued] :
    /\ \A j, k \in DOMAIN waiting : j < k => at[j] < at[k]
    /\ {at[k] : k \in DOMAIN waiting} = {n \in DOMAIN Queued : Queued[n].type = "SET_IMMEDIATE"}
    /\ \A k \in DOMAIN waiting : waiting[k] = objects[Queued[at[k]].index]

\* A timer that was cleared is not called (js/test/unit/timers/index.js 25, 35:
\* "should not call callback").
ClearedNeverCalled ==
  [][\A t \in Timer : (status[t] = "cleared" /\ running # t) => running' # t]_vars

\* Every timer that is set is called unless it is cleared or struck (by the clear of
\* another timer, with a number that is out of date: FlagTimeoutCleared looks at the
\* slot alone), and an interval again and again; every immediate is called: no event
\* is left in a queue while the CPU is halted.
EveryCallbackRuns ==
  /\ \A t \in Timer : (status[t] = "set") ~> (running = t \/ status[t] \in {"cleared", "struck"})
  /\ \A c \in Immediate : (c \in Range(waiting)) ~> (running = c)
=============================================================================
