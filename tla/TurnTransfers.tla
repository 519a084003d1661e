----------------------------- MODULE TurnTransfers -----------------------------
(***************************************************************************)
(* The messages of a turn, one right after the other: files sent with a    *)
(* window and the view, whose window is one.  Each of them is sent as      *)
(* WindowTransfer has it; its numbers follow those of the message before,  *)
(* as server_sequence in src/app/game_session.c has it, and copies of      *)
(* frames of that message are still on the link when it begins.            *)
(***************************************************************************)
EXTENDS WindowTransfer

CONSTANT
    Turns       \* sequences of messages: [chunks, window, last], of which a
                \* file that cannot be opened has no chunks

(* A run of files that cannot be opened: each takes one number. *)
Skips(turn, i, j) == \A k \in i .. j : turn[k].chunks = 0

(* Not so many of them that the numbers come round: in the program there are *)
(* two files in a turn, windows of 30 and 64 numbers.                        *)
TurnFits(turn) ==
    \A i, j \in DOMAIN turn :
        i <= j /\ Skips(turn, i, j) => MaxWindow + 1 + (j - i + 1) <= SeqSpace

MessageShapes == [chunks : Nat, window : 1 .. MaxWindow, last : 1 .. FullLen]

ASSUME TurnsAssumption ==
    \A turn \in Turns : turn \in Seq(MessageShapes) /\ turn # << >> /\ TurnFits(turn)

VARIABLES
    todo,       \* the messages left, the one being sent first
    first       \* the number of its start frame

turnVars == <<vars, todo, first>>

(* The message at hand, or the file that is missing. *)
Current == [first |-> first, chunks |-> Head(todo).chunks,
            window |-> Head(todo).window, last |-> Head(todo).last]

-----------------------------------------------------------------------------
(* A turn begins with nothing on the link but what it sends itself. *)
TurnInit ==
    /\ todo \in Turns /\ first \in SeqNumbers
    /\ Init(Current)

(* One step of the message at hand, on either side. *)
MessageStep ==
    /\ Head(todo).chunks > 0
    /\ \E m \in {Current} : SenderNext(m) \/ ReceiverNext(m)
    /\ UNCHANGED <<todo, first>>

(* Mutant: only the start frame is counted. *)
NumbersOfStart(m) == 1

(* send_file_for_cell_if_needed and send_view_cells: what a message adds to *)
(* server_sequence; one that is not sent still has its ERROR frame.         *)
NumbersOf(m) == m.chunks + 1

(* The frames on the way become those of an earlier message, counted back   *)
(* from the next start frame (auxiliary, as every chunk of a frame is).     *)
Aged(link, n) == [i \in DOMAIN link |-> [link[i] EXCEPT !.chunk = @ - n]]

(* The next message begins.  The receiver is left as it is: what it has of  *)
(* a transfer means nothing outside of one.                                 *)
GoOn(link) ==
    LET n == NumbersOf(Head(todo))
    IN  /\ Len(todo) > 1
        /\ todo' = Tail(todo)
        /\ first' = (first + n) % SeqSpace
        /\ sndPhase' = "sendStart" /\ sndBase' = 0 /\ sndNext' = 0
        /\ inUse' = {} /\ acked' = {} /\ resend' = {}
        /\ outcome' = "none" /\ rcvBase' = 0 /\ since' = 0 /\ written' = << >>
        /\ ring' = EmptyRing(todo[2])
        /\ toRcv' = Aged(link, n) /\ toSnd' = Aged(toSnd, n)
        /\ UNCHANGED <<rcvPhase, recent>>

NextMessage == Head(todo).chunks > 0 /\ sndPhase = "complete" /\ GoOn(toRcv)

(* A file that cannot be opened: an ERROR frame in its place. *)
FileMissing ==
    /\ Head(todo).chunks = 0
    /\ \E link \in AfterSend(toRcv, ErrorFrame(Current)) : GoOn(link)

(* In between, the receiver reads what is left of earlier messages; start   *)
(* frames are not among it (BetweenMessages in TurnInvariant).              *)
OldFrameArrives ==
    /\ Head(todo).chunks = 0
    /\ ReceiveError \/ ReceiveLateData
    /\ UNCHANGED <<todo, first>>

TurnNext == MessageStep \/ NextMessage \/ FileMissing \/ OldFrameArrives

TurnSpec == TurnInit /\ [][TurnNext]_turnVars

-----------------------------------------------------------------------------
(* Properties. *)

(* What arrives for the message m, and what its sender reports, is m's own: *)
(* neither a start frame that an old ACK confirms, nor a chunk that an old  *)
(* ACK or NACK names, nor a place in a file where old data would go; and the*)
(* old data that arrives between two messages is still known and answered.  *)
KeptApart(m) ==
    /\ WrittenInOrder
    /\ ConfirmedIsWritten
    /\ sndPhase = "complete" => Len(written) = m.chunks /\ rcvPhase = "idle"
    /\ ControlNamesItsChunk(m)
    /\ NoDataIsInvalid(m)
    /\ sndPhase = "waitStart" /\ toSnd # << >> /\ Head(toSnd).seq = m.first =>
           Head(toSnd).chunk = -1
    /\ rcvPhase = "idle" /\ Arriving({"DATA"}) => Head(toRcv).seq \in recent

(* One message after the other, each is whole and in order when it is taken *)
(* as delivered, and none is touched by what is left of an earlier one.     *)
MessagesKeepApart == Head(todo).chunks > 0 => KeptApart(Current)

(* The transfers of a turn implement one delivery in order after the other: *)
(* each message is opened once, and never again by a copy of a start frame  *)
(* of its own or of an earlier message; the next begins only when it is     *)
(* whole on the other side; and what is left on the links changes nothing.  *)
Deliveries == INSTANCE TurnDelivery
                WITH reception <- Reception, confirmed <- sndBase, report <- Report

ImplementsTurnDelivery == Deliveries!TurnAbsSpec
=============================================================================
