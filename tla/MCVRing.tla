------------------------------ MODULE MCVRing -------------------------------
(***************************************************************************)
(* TLC instances of VRing: the buffers of rng.js and of the receive queue  *)
(* of net.js, those of its transmit queue, on one page or on two, and the  *)
(* requests of blk.js with their data on one page or on two.               *)
(***************************************************************************)
EXTENDS VRing

CONSTANTS header, data, status

Receive == [kinds |-> {"interrupts", "polled"}, bufs |-> <<data>>, pages |-> <<1>>,
            isWriteOnly |-> TRUE, isWriteOnlyArray |-> <<>>]

Transmit(pages) == [kinds |-> {"suppressed"}, bufs |-> <<header>>, pages |-> <<pages>>,
                    isWriteOnly |-> FALSE, isWriteOnlyArray |-> <<>>]

BlockRead(pages) ==
  [kinds |-> {"interrupts"}, bufs |-> <<header, data, status>>, pages |-> <<1, pages, 1>>,
   isWriteOnly |-> FALSE, isWriteOnlyArray |-> <<FALSE, TRUE, TRUE>>]

MCCalls == {Receive, Transmit(1), Transmit(2)}

BlockCalls == {BlockRead(1), BlockRead(2)}

PiecesOfCalls == {Pieces(c) : c \in Call}
=============================================================================
