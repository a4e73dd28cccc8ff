---------------------------- MODULE MCUdpSocket -----------------------------
(***************************************************************************)
(* TLC instance of UdpSocket, and of PortAllocator within it: sockets are  *)
(* interchangeable.                                                        *)
(***************************************************************************)
EXTENDS UdpSocket, TLC

Symmetry == Permutations(Socket)
=============================================================================
