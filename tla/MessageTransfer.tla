--------------------------- MODULE MessageTransfer ---------------------------
(***************************************************************************)
(* One message, sent once over a link with nothing else on it, as          *)
(* WindowTransfer has it.                                                  *)
(***************************************************************************)
EXTENDS WindowInvariant

CONSTANT Message

ASSUME MessageAssumption == Message \in Messages

Spec == Init(Message) /\ [][Next(Message)]_vars

-----------------------------------------------------------------------------
(* Properties. *)

(* The invariant of the proofs: the two ends and every frame in flight.     *)
TransferInv == IInv(Message)

(* An ACK or NACK read by the sender is about the chunk of the slot that    *)
(* sender_find_slot finds for its number.                                   *)
ControlIsUnderstood == ControlNamesItsChunk(Message)

(* No DATA frame read by the receiver is INVALID to                         *)
(* net_window_receiver_accept.                                              *)
DataIsUnderstood == NoDataIsInvalid(Message)

(* A reception that ended is never opened again by a late copy of its start *)
(* frame: that would truncate the file and receive it from the beginning.   *)
NeverReopened == [][outcome # "none" => rcvPhase' = "idle"]_vars

(* The window protocol implements in-order delivery. *)
Delivery == INSTANCE InOrderDelivery
              WITH confirmed <- sndBase, report <- Report,
                   TotalChunks <- Message.chunks, Window <- Message.window

ImplementsDelivery == Delivery!AbsSpec
=============================================================================
