-------------------------- MODULE WindowInvariant --------------------------
(***************************************************************************)
(* The inductive invariant of WindowTransfer: what relates the two ends of *)
(* a transfer and every frame in flight between them.  It holds as well    *)
(* when frames of earlier messages are still on the way as the message m   *)
(* begins: their chunks are counted back from its start frame, which is    *)
(* number -1, so that SeqOf gives the number of every frame.               *)
(***************************************************************************)
EXTENDS WindowTransfer

(* A frame of an earlier message, less than a whole turn of the numbers ago. *)
IsOld(f) == f.chunk < -1
OldFrame(m, f) == f.chunk \in -SeqSpace .. -2 /\ f.seq = SeqOf(m, f.chunk)

(* The receiver has read the start frame, the sender its answer. *)
Opened == rcvPhase = "receiving" \/ outcome # "none"
Started == sndPhase \notin {"sendStart", "waitStart"}

(* The bases of the two windows, and the slots of the sender. *)
WindowsInv(m) ==
    /\ sndBase <= rcvBase /\ rcvBase <= sndNext
    /\ sndNext <= sndBase + m.window
    /\ inUse = sndBase .. sndNext - 1 /\ acked = {} /\ resend \subseteq inUse

PhaseInv(m) ==
    /\ sndPhase # "failed"
    /\ IF Started THEN Opened ELSE sndNext = 0
    /\ (sndPhase = "complete") <=> (sndBase = m.chunks)
    /\ outcome # "none" => rcvPhase = "idle"
    /\ outcome = "error" => sndPhase = "aborted"
    /\ (outcome = "complete") <=> (rcvBase = m.chunks)
    /\ outcome = "complete" => recent = TailNumbers(m)

(* A full slot of the ring holds a sent chunk of the current window, at its *)
(* own place.                                                               *)
RingInv(m) ==
    \A k \in 0 .. m.window - 1 : ring[k].received =>
        /\ ring[k].chunk \in rcvBase .. rcvBase + m.window - 1
        /\ ring[k].chunk < sndNext
        /\ ring[k].chunk % m.window = k
        /\ ring[k].data = ring[k].chunk

WrittenInv ==
    /\ Len(written) = rcvBase
    /\ \A i \in 1 .. Len(written) : written[i] = i - 1

(* An old frame reaches the receiver before the start frame, and its number *)
(* is one of those still answered.  One of this message is not so late that *)
(* its number could be taken for another chunk's.                           *)
ToRcvFrameInv(m, f) ==
    \/ /\ OldFrame(m, f) /\ ~Opened
       /\ f.type \in {"DATA", "ERROR"}
       /\ f.type = "DATA" => f.seq \in recent
    \/ f = StartFrame(m) /\ rcvBase = 0 /\ outcome = "none"
    \/ f = ErrorFrame(m) /\ sndPhase = "aborted"
    \/ /\ f.chunk \in Chunks(m) /\ f = DataFrame(m, f.chunk)
       /\ f.chunk < sndNext /\ outcome # "error"
       /\ rcvBase <= f.chunk + m.window
       /\ \A k \in 0 .. m.window - 1 : ring[k].received =>
              ring[k].chunk + 1 <= f.chunk + m.window

(* Of two such frames old ones come first, then start frames; nothing comes *)
(* after an ERROR of this message, and the later one of two DATA frames is  *)
(* at most a window behind.                                                 *)
ToRcvOrder(m, f, g) ==
    \/ IsOld(f)
    \/ /\ ~IsOld(g) /\ f.type # "ERROR"
       /\ g.type = "START" => f.type = "START"
       /\ f.type = "DATA" /\ g.type = "DATA" => f.chunk + 1 <= g.chunk + m.window

ToRcvInv(m) ==
    /\ \A p \in 1 .. Len(toRcv) : ToRcvFrameInv(m, toRcv[p])
    /\ \A q \in 1 .. Len(toRcv) : \A p \in 1 .. q - 1 :
           ToRcvOrder(m, toRcv[p], toRcv[q])

(* How many chunks a control frame confirms. *)
Confirms(f) == IF f.type = "ACK" THEN f.chunk + 1 ELSE f.chunk

(* The sender may have confirmed this many chunks and still read a frame   *)
(* about that chunk without mistaking it.                                  *)
Reach(m, f) == IF f.chunk = -1 THEN 0 ELSE f.chunk + m.window

(* An old control frame reaches the sender before the answer to its start   *)
(* frame; one of this message confirms no more than was delivered, and is   *)
(* not too late to be understood.                                           *)
ToSndFrameInv(m, f) ==
    /\ f.type \in {"ACK", "NACK"}
    /\ \/ OldFrame(m, f) /\ ~Started
       \/ /\ Opened
          /\ f.chunk >= IF f.type = "ACK" THEN -1 ELSE 0
          /\ f.chunk < m.chunks
          /\ f.seq = SeqOf(m, f.chunk)
          /\ Confirms(f) <= rcvBase
          /\ sndBase <= Reach(m, f)

ToSndOrder(m, f, g) ==
    IsOld(f) \/ (~IsOld(g) /\ Confirms(f) <= Reach(m, g))

ToSndInv(m) ==
    /\ \A p \in 1 .. Len(toSnd) : ToSndFrameInv(m, toSnd[p])
    /\ \A q \in 1 .. Len(toSnd) : \A p \in 1 .. q - 1 :
           ToSndOrder(m, toSnd[p], toSnd[q])

IInv(m) ==
    /\ TypeOK(m)
    /\ WindowsInv(m)
    /\ PhaseInv(m)
    /\ RingInv(m)
    /\ WrittenInv
    /\ ToRcvInv(m)
    /\ ToSndInv(m)
=============================================================================
