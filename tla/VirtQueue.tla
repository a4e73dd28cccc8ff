----------------------------- MODULE VirtQueue ------------------------------
(***************************************************************************)
(* What a virtio queue promises to the driver that uses it: a request      *)
(* takes its descriptors if there are enough of them and is refused        *)
(* otherwise; the device completes requests in any order; they are given   *)
(* back one by one in the order of completion, and only then are their     *)
(* descriptors free again.  How requests are found in memory and how the   *)
(* two sides wake each other up is left open: VRing is shown to implement  *)
(* this module.                                                            *)
(***************************************************************************)
EXTENDS Integers, Sequences

CONSTANTS Token,      \* the names of requests in flight
          Capacity    \* descriptors in the ring

VARIABLES free,       \* how many descriptors are free
          atDevice,   \* the requests the device has yet to complete, and sizes
          completed   \* the completed requests not yet fetched, in order

queueVars == <<free, atDevice, completed>>

InFlight == atDevice \cup {completed[i] : i \in DOMAIN completed}

QueueInit ==
  /\ free = Capacity
  /\ atDevice = {}
  /\ completed = <<>>

Place(t, n) ==
  /\ n <= free
  /\ \A r \in InFlight : r.token # t
  /\ free' = free - n
  /\ atDevice' = atDevice \cup {[token |-> t, size |-> n]}
  /\ UNCHANGED completed

Complete(r) ==
  /\ r \in atDevice
  /\ atDevice' = atDevice \ {r}
  /\ completed' = Append(completed, r)
  /\ UNCHANGED free

Fetch ==
  /\ completed # <<>>
  /\ free' = free + Head(completed).size
  /\ completed' = Tail(completed)
  /\ UNCHANGED atDevice

QueueNext ==
  \/ \E t \in Token, n \in 1 .. Capacity : Place(t, n)
  \/ \E r \in atDevice : Complete(r)
  \/ Fetch

QueueSpec == QueueInit /\ [][QueueNext]_queueVars
=============================================================================
