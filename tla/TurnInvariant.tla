---------------------------- MODULE TurnInvariant ----------------------------
(***************************************************************************)
(* The inductive invariant of TurnTransfers: that of WindowTransfer for    *)
(* the message at hand, and, however many files of the turn are missing,   *)
(* frames of earlier messages whose numbers have not come round.           *)
(***************************************************************************)
EXTENDS TurnTransfers, WindowInvariant

(* The messages left still have room for their numbers. *)
TodoInv ==
    /\ todo \in Seq(MessageShapes) /\ todo # << >> /\ TurnFits(todo)
    /\ first \in SeqNumbers

(* In the place of a file that is missing both ends are idle. *)
BetweenMessages ==
    /\ sndPhase = "sendStart" /\ sndBase = 0 /\ sndNext = 0
    /\ inUse = {} /\ acked = {} /\ resend = {}
    /\ rcvPhase = "idle" /\ outcome = "none" /\ rcvBase = 0
    /\ ring = EmptyRing(Head(todo)) /\ since = 0 /\ written = << >>
    /\ recent \in SUBSET SeqNumbers
    /\ toRcv \in Seq(Frames) /\ toSnd \in Seq(Frames)
    /\ \A p \in 1 .. Len(toRcv) : ToRcvFrameInv(Current, toRcv[p]) /\ IsOld(toRcv[p])
    /\ \A p \in 1 .. Len(toSnd) : ToSndFrameInv(Current, toSnd[p]) /\ IsOld(toSnd[p])

(* After the files that are missing here, the frames on the way are not yet *)
(* a whole turn of the numbers old.                                         *)
NotTooOld ==
    \A j \in 1 .. Len(todo) : Skips(todo, 1, j) =>
        /\ \A p \in 1 .. Len(toRcv) : toRcv[p].chunk >= j - SeqSpace
        /\ \A p \in 1 .. Len(toSnd) : toSnd[p].chunk >= j - SeqSpace

TurnInv ==
    /\ TodoInv
    /\ IF Head(todo).chunks > 0 THEN IInv(Current) ELSE BetweenMessages
    /\ NotTooOld
=============================================================================
