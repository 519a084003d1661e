--------------------------- MODULE MCTimedTransfer ---------------------------
(***************************************************************************)
(* TimedTransfer on two small instances, one of them in each behaviour: a  *)
(* window of one on a link that loses frames of every type, and a window   *)
(* of two on a link that loses no ACK, with a source file that may become  *)
(* unreadable.  A tick stands for 50 ms.                                   *)
(***************************************************************************)
EXTENDS Integers, Sequences

VARIABLES sndPhase, sndBase, sndNext, inUse, acked, resend, rcvPhase, ending,
          rcvBase, ring, since, recent, written, toRcv, toSnd, sndLeft,
          sndErrors, rcvLeft, rcvErrors, losses,
          windowSize    \* which of the two it is

MessageOf(c, w) == [first |-> 5, chunks |-> c, window |-> w, last |-> 1]

One == INSTANCE TimedTransfer WITH
    SeqSpace <- 8, MaxWindow <- 4, FullLen <- 2, LinkCap <- 8,
    BaseTimeout <- 4, MaxTimeout <- 100, BackoffStep <- 5, MinReceive <- 1,
    MaxErrors <- 25, outcome <- ending,
    Message <- MessageOf(4, 1), ReadMayFail <- FALSE, MaxLosses <- 4,
    Lossy <- {"START", "DATA", "ACK", "NACK"}

Two == INSTANCE TimedTransfer WITH
    SeqSpace <- 8, MaxWindow <- 4, FullLen <- 2, LinkCap <- 8,
    BaseTimeout <- 4, MaxTimeout <- 100, BackoffStep <- 5, MinReceive <- 1,
    MaxErrors <- 25, outcome <- ending,
    Message <- MessageOf(5, 2), ReadMayFail <- TRUE, MaxLosses <- 3,
    Lossy <- {"START", "DATA", "NACK"}

bothVars ==
    <<sndPhase, sndBase, sndNext, inUse, acked, resend, rcvPhase, ending,
      rcvBase, ring, since, recent, written, toRcv, toSnd, sndLeft, sndErrors,
      rcvLeft, rcvErrors, losses, windowSize>>

BothInit ==
    \/ windowSize = 1 /\ One!TimedInit
    \/ windowSize = 2 /\ Two!TimedInit

BothNext ==
    /\ \/ windowSize = 1 /\ One!TimedNext
       \/ windowSize = 2 /\ Two!TimedNext
    /\ UNCHANGED windowSize

(* As in TimedSpec, both programs run and time passes. *)
BothFairness == WF_bothVars(BothNext)

(* In either instance the transfer ends on both sides, with the whole       *)
(* message unless the source file could not be read: the send loop and the  *)
(* receive loop of game_session.c do not keep one another waiting.          *)
TransferEnds == One!TransferEnds
=============================================================================
