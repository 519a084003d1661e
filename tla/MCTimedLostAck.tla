--------------------------- MODULE MCTimedLostAck ---------------------------
(* TimedTransfer on a link that loses one ACK.                             *)
EXTENDS TimedTransfer

ShortFile == [first |-> 5, chunks |-> 3, window |-> 2, last |-> 1]
=============================================================================
