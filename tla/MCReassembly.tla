---------------------------- MODULE MCReassembly ----------------------------
(***************************************************************************)
(* TLC instance of the two places where data arrives in overlapping,       *)
(* duplicated and reordered pieces: the fragments of a datagram            *)
(* (Ip4Fragments) and the segments of a stream (TcpReceive).  A behaviour  *)
(* has one of the two.                                                     *)
(***************************************************************************)
EXTENDS Ip4Fragments, TcpReceive

VARIABLE layer   \* "ip" or "tcp", for good

MCInit == FragmentsInit /\ ReceiveInit /\ layer \in {"ip", "tcp"}

MCNext ==
  \/ layer = "ip" /\ FragmentsNext /\ UNCHANGED <<socket, layer>>
  \/ layer = "tcp" /\ ReceiveNext /\ UNCHANGED <<fragmentVars, layer>>

MCSpec == MCInit /\ [][MCNext]_<<fragmentVars, socket, layer>>
=============================================================================
