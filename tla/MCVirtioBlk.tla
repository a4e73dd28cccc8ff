---------------------------- MODULE MCVirtioBlk -----------------------------
(***************************************************************************)
(* TLC instance of the two sides of the queue that VRing connects: the     *)
(* block driver on an abstract queue (VirtioBlk), and the descriptor table *)
(* by itself, with requests of one to three buffers given back in any      *)
(* order.  A behaviour has one of the two.                                 *)
(***************************************************************************)
EXTENDS VirtioBlk, DescriptorTable

CONSTANTS header, data, result

VARIABLE side   \* "driver" or "table", for good

MCRequests ==
  {[bufs |-> <<data>>, flags |-> <<TRUE>>],
   [bufs |-> <<header, header>>, flags |-> <<FALSE, FALSE>>],
   [bufs |-> <<header, data, result>>, flags |-> <<FALSE, TRUE, TRUE>>]}

MCInit ==
  /\ Init /\ TableInit
  /\ \/ side = "driver" /\ next[ringSize - 1] = 0
     \/ side = "table"

MCNext ==
  \/ side = "driver" /\ Next /\ UNCHANGED <<tableVars, side>>
  \/ side = "table" /\ TableNext /\ UNCHANGED <<vars, side>>

MCSpec == MCInit /\ [][MCNext]_<<vars, tableVars, side>> /\ Fairness
=============================================================================
