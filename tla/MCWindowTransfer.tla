-------------------------- MODULE MCWindowTransfer --------------------------
(* MessageTransfer on a small instance: the sequence numbers wrap within   *)
(* the message.                                                            *)
EXTENDS MessageTransfer

SmallMessage == [first |-> 3, chunks |-> 6, window |-> 2, last |-> 1]
=============================================================================
