--------------------------- MODULE WindowTransfer ---------------------------
(***************************************************************************)
(* A message (a file or a view) sent over the raw Ethernet link with the   *)
(* sliding window of src/reliable/window.c, driven by the send loops and   *)
(* the receive loops of src/app/game_session.c.                            *)
(*                                                                         *)
(* The sender sends a start frame until it is acknowledged, then DATA      *)
(* frames under a window; on a timeout it sends every pending frame again, *)
(* on a NACK it takes the chunks before it as confirmed and sends that one *)
(* again.  The receiver keeps what arrives in a ring, writes what is       *)
(* contiguous, and answers with cumulative ACKs and NACKs.                 *)
(*                                                                         *)
(* The link keeps the order of the frames and may lose any of them: a bit  *)
(* flipped on the wire fails the CRC and the frame is dropped on arrival,  *)
(* and a socket that holds LinkCap frames drops the next.                  *)
(***************************************************************************)
EXTENDS SequenceSpace, Sequences, FiniteSets

CONSTANTS
    MaxWindow,     \* NET_WINDOW_MAX_SIZE: slots of the sender, 30
    FullLen,       \* NET_FRAGMENT_DATA_BYTES, 31
    LinkCap,       \* frames a socket holds
    ReadMayFail    \* whether reading the source file can fail midway

ASSUME MaxWindowAssumption ==
    MaxWindow \in Nat \ {0} /\ 2 * MaxWindow <= SeqSpace
ASSUME FullLenAssumption == FullLen \in Nat \ {0}
ASSUME LinkCapAssumption == LinkCap \in Nat
ASSUME ReadMayFailAssumption == ReadMayFail \in BOOLEAN

(* A message: the number of its start frame, its DATA frames, the window    *)
(* agreed in the start frame, and the bytes of its last chunk.  It is a     *)
(* parameter m of what follows, as of the functions of the program.         *)
Messages == [first : SeqNumbers, chunks : Nat \ {0}, window : 1 .. MaxWindow,
             last : 1 .. FullLen]

VARIABLES
    sndPhase,      \* where the sender is in its loops
    sndBase,       \* sender->base_index
    sndNext,       \* sender->next_index
    inUse,         \* chunks that occupy a slot of the sender
    acked,         \* those of them whose slot is marked acked
    resend,        \* chunks left to send again in the current timeout round
    rcvPhase,      \* whether the receiver is inside a transfer
    outcome,       \* how the last reception ended
    rcvBase,       \* receiver->base_index
    ring,          \* receiver->slots, as many as the window has
    since,         \* delivered_since_feedback
    recent,        \* recent_file_data: numbers answered after completion
    written,       \* chunks written to the file, in that order
    toRcv,         \* frames on their way to the receiver
    toSnd          \* frames on their way to the sender

sndVars == <<sndPhase, sndBase, sndNext, inUse, acked, resend>>
rcvVars == <<rcvPhase, outcome, rcvBase, ring, since, recent, written>>
vars == <<sndVars, rcvVars, toRcv, toSnd>>

-----------------------------------------------------------------------------
(* Frames.  The data of a DATA frame is the chunk it carries.  The chunk a  *)
(* control frame is about is auxiliary: no guard or update reads it.        *)

Chunks(m) == 0 .. m.chunks - 1

ChunkLen(m, c) == IF c = m.chunks - 1 THEN m.last ELSE FullLen

SeqOf(m, c) == SequenceForIndex(m.first, c)

StartFrame(m) == [type |-> "START", seq |-> m.first, chunk |-> -1, len |-> 0]
DataFrame(m, c) == [type |-> "DATA", seq |-> SeqOf(m, c), chunk |-> c,
                 len |-> ChunkLen(m, c)]
ErrorFrame(m) == [type |-> "ERROR", seq |-> m.first, chunk |-> -1, len |-> 0]
ControlFrame(t, s, c) == [type |-> t, seq |-> s, chunk |-> c, len |-> 0]

Frames == [type : {"START", "DATA", "ERROR", "ACK", "NACK"},
           seq : SeqNumbers, chunk : Int, len : Nat]

(* What a link may hold after one frame is sent on it. *)
AfterSend(link, frame) ==
    {link} \cup (IF Len(link) < LinkCap THEN {Append(link, frame)} ELSE {})

-----------------------------------------------------------------------------
(* The window of the sender. *)

CanQueue(m) == sndNext < m.chunks /\ sndNext - sndBase < m.window

(* Mutant: everything was sent, whether confirmed or not. *)
SenderCompleteWhenSent(m) == sndNext = m.chunks

SenderComplete(m) == sndBase = m.chunks /\ sndNext = m.chunks

(* The pending slots, and those whose frame has a given sequence number. *)
Pending == inUse \ acked
PendingWith(m, s) == {c \in Pending : SeqOf(m, c) = s}

(* sender_slide_base: the base moves over the slots marked acked. *)
IsSlideEnd(b, marked) ==
    /\ sndBase .. b - 1 \subseteq marked
    /\ b < sndNext => b \notin marked

(* Mutant: only the named slot is marked, as if ACKs were not cumulative. *)
ConfirmOnly(c) ==
    LET marked == acked \cup {c}
    IN  \E b \in sndBase .. sndNext :
            /\ IsSlideEnd(b, marked)
            /\ sndBase' = b
            /\ inUse' = inUse \ (sndBase .. b - 1)
            /\ acked' = marked \ (sndBase .. b - 1)

(* sender_mark_through the slot of chunk c, then sender_slide_base. *)
ConfirmThrough(c) ==
    LET marked == acked \cup {d \in inUse : d <= c}
    IN  \E b \in sndBase .. sndNext :
            /\ IsSlideEnd(b, marked)
            /\ sndBase' = b
            /\ inUse' = inUse \ (sndBase .. b - 1)
            /\ acked' = marked \ (sndBase .. b - 1)

-----------------------------------------------------------------------------
(* The window of the receiver. *)

EmptySlot == [received |-> FALSE, chunk |-> 0, data |-> -1]
EmptyRing(m) == [k \in 0 .. m.window - 1 |-> EmptySlot]

(* Mutant: the search runs to the end of the message, not of the window. *)
WindowIndexUnbounded(m, s) ==
    {c \in rcvBase .. m.chunks - 1 : SeqOf(m, c) = s}

(* receiver_find_window_index: the chunks of the window with that number. *)
WindowIndex(m, s) ==
    {c \in rcvBase .. rcvBase + m.window - 1 : c < m.chunks /\ SeqOf(m, c) = s}

(* net_window_receiver_sequence_delivered, receiver_is_recent_duplicate. *)
RecentlyDelivered(m, s) ==
    \E c \in rcvBase - m.window .. rcvBase - 1 : c >= 0 /\ SeqOf(m, c) = s

(* The chunk a sequence number stands for: the first of the window. *)
ChunkOf(m, s) == CHOOSE c \in WindowIndex(m, s) : \A d \in WindowIndex(m, s) : c <= d

(* net_window_receiver_accept: the status of a DATA frame. *)
AcceptStatus(m, frame) ==
    LET c == ChunkOf(m, frame.seq)
        slot == ring[c % m.window]
    IN  CASE WindowIndex(m, frame.seq) = {} ->
                 IF RecentlyDelivered(m, frame.seq) THEN "DUPLICATE" ELSE "INVALID"
          [] OTHER ->
                 IF frame.len # ChunkLen(m, c) THEN "INVALID"
                 ELSE IF ~slot.received THEN "ACCEPTED"
                 ELSE IF slot.chunk = c THEN "DUPLICATE" ELSE "INVALID"

(* The ring once an accepted frame is stored. *)
StoredRing(m, frame) ==
    LET c == ChunkOf(m, frame.seq)
    IN  [ring EXCEPT ![c % m.window] =
            [received |-> TRUE, chunk |-> c, data |-> frame.chunk]]

(* Mutant: a slot is ready by its chunk index, received or not. *)
IsReadyByIndex(m, r, c) == c < m.chunks /\ r[c % m.window].chunk = c

(* net_window_receiver_peek_ready for the base c, and the base at which the *)
(* peek_ready / pop_ready loop stops.                                       *)
IsReady(m, r, c) ==
    c < m.chunks /\ r[c % m.window].received /\ r[c % m.window].chunk = c
IsReadyEnd(m, r, b) ==
    /\ \A c \in rcvBase .. b - 1 : IsReady(m, r, c)
    /\ b < rcvBase + m.window => ~IsReady(m, r, b)

-----------------------------------------------------------------------------
Init(m) ==
    /\ sndPhase = "sendStart"
    /\ sndBase = 0 /\ sndNext = 0
    /\ inUse = {} /\ acked = {} /\ resend = {}
    /\ rcvPhase = "idle" /\ outcome = "none"
    /\ rcvBase = 0 /\ ring = EmptyRing(m) /\ since = 0 /\ recent = {}
    /\ written = << >>
    /\ toRcv = << >> /\ toSnd = << >>

-----------------------------------------------------------------------------
(* The sender. *)

(* send_fragment_frame_and_wait_ack: the top of the loop sends the frame. *)
SendStart(m) ==
    /\ sndPhase = "sendStart"
    /\ sndPhase' = "waitStart"
    /\ toRcv' \in AfterSend(toRcv, StartFrame(m))
    /\ UNCHANGED <<sndBase, sndNext, inUse, acked, resend, rcvVars, toSnd>>

(* The wait for its answer times out. *)
StartTimeout ==
    /\ sndPhase = "waitStart"
    /\ sndPhase' = "sendStart"
    /\ UNCHANGED <<sndBase, sndNext, inUse, acked, resend, rcvVars,
                   toRcv, toSnd>>

(* Mutant: any ACK is the answer, whatever its number. *)
ReceiveAnyAck(m) ==
    /\ sndPhase = "waitStart" /\ toSnd # << >>
    /\ LET frame == Head(toSnd)
       IN  sndPhase' = CASE frame.type = "ACK" -> "data"
                         [] frame.seq = m.first /\ frame.type = "NACK" ->
                                "sendStart"
                         [] OTHER -> "waitStart"
    /\ toSnd' = Tail(toSnd)
    /\ UNCHANGED <<sndBase, sndNext, inUse, acked, resend, rcvVars, toRcv>>

(* wait_for_fragment_ack_or_duplicate_move: a frame arrives meanwhile. *)
ReceiveStartControl(m) ==
    /\ sndPhase = "waitStart" /\ toSnd # << >>
    /\ LET frame == Head(toSnd)
       IN  sndPhase' = CASE frame.seq = m.first /\ frame.type = "ACK" -> "data"
                         [] frame.seq = m.first /\ frame.type = "NACK" ->
                                "sendStart"
                         [] OTHER -> "waitStart"
    /\ toSnd' = Tail(toSnd)
    /\ UNCHANGED <<sndBase, sndNext, inUse, acked, resend, rcvVars, toRcv>>

(* The inner loop of send_fragmented_data_and_wait_ack queues and sends the *)
(* next chunk; without a free slot the transfer fails.                      *)
QueueChunk(m) ==
    /\ sndPhase = "data" /\ resend = {} /\ CanQueue(m)
    /\ IF Cardinality(inUse) < MaxWindow
       THEN /\ inUse' = inUse \cup {sndNext}
            /\ acked' = acked \ {sndNext}
            /\ sndNext' = sndNext + 1
            /\ toRcv' \in AfterSend(toRcv, DataFrame(m, sndNext))
            /\ UNCHANGED sndPhase
       ELSE /\ sndPhase' = "failed"
            /\ UNCHANGED <<inUse, acked, sndNext, toRcv>>
    /\ UNCHANGED <<sndBase, resend, rcvVars, toSnd>>

(* build_file_chunk fails: one ERROR frame ends the transfer. *)
ReadError(m) ==
    /\ ReadMayFail
    /\ sndPhase = "data" /\ resend = {} /\ CanQueue(m)
    /\ sndPhase' = "aborted"
    /\ toRcv' \in AfterSend(toRcv, ErrorFrame(m))
    /\ UNCHANGED <<sndBase, sndNext, inUse, acked, resend, rcvVars, toSnd>>

Waiting(m) == sndPhase = "data" /\ resend = {} /\ ~CanQueue(m)

(* net_window_sender_ack: everything up to the named chunk is confirmed. *)
ReceiveAck(m) ==
    /\ Waiting(m) /\ toSnd # << >> /\ Head(toSnd).type = "ACK"
    /\ \E c \in PendingWith(m, Head(toSnd).seq) : ConfirmThrough(c)
    /\ UNCHANGED sndNext
    /\ sndPhase' = IF SenderComplete(m)' THEN "complete" ELSE "data"
    /\ toSnd' = Tail(toSnd)
    /\ UNCHANGED <<resend, rcvVars, toRcv>>

(* Mutant: the chunk the NACK asks for is confirmed like those before it. *)
ReceiveNackAsAck(m) ==
    /\ Waiting(m) /\ toSnd # << >> /\ Head(toSnd).type = "NACK"
    /\ \E c \in PendingWith(m, Head(toSnd).seq) :
           /\ ConfirmThrough(c)
           /\ toRcv' \in AfterSend(toRcv, DataFrame(m, c))
    /\ toSnd' = Tail(toSnd)
    /\ UNCHANGED <<sndPhase, sndNext, resend, rcvVars>>

(* net_window_sender_nack: everything before the named chunk is confirmed, *)
(* and that chunk is sent again.                                           *)
ReceiveNack(m) ==
    /\ Waiting(m) /\ toSnd # << >> /\ Head(toSnd).type = "NACK"
    /\ \E c \in PendingWith(m, Head(toSnd).seq) :
           /\ IF c > 0 THEN ConfirmThrough(c - 1)
                       ELSE UNCHANGED <<sndBase, inUse, acked>>
           /\ toRcv' \in AfterSend(toRcv, DataFrame(m, c))
    /\ toSnd' = Tail(toSnd)
    /\ UNCHANGED <<sndPhase, sndNext, resend, rcvVars>>

(* A control frame that names no pending chunk is dropped. *)
IgnoreControl(m) ==
    /\ Waiting(m) /\ toSnd # << >>
    /\ PendingWith(m, Head(toSnd).seq) = {}
    /\ toSnd' = Tail(toSnd)
    /\ UNCHANGED <<sndVars, rcvVars, toRcv>>

(* Mutant: an unanswered window starts the transfer over. *)
AckTimeoutRestarts(m) ==
    /\ Waiting(m)
    /\ sndPhase' = "sendStart"
    /\ UNCHANGED <<sndBase, sndNext, inUse, acked, resend, rcvVars,
                   toRcv, toSnd>>

(* The wait times out: retransmit_unacked_window starts a round. *)
AckTimeout(m) ==
    /\ Waiting(m)
    /\ resend' = Pending
    /\ UNCHANGED <<sndPhase, sndBase, sndNext, inUse, acked, rcvVars,
                   toRcv, toSnd>>

(* One turn of its loop: the oldest pending frame not sent yet goes out. *)
Retransmit(m) ==
    /\ sndPhase = "data"
    /\ \E c \in resend :
           /\ \A d \in resend : c <= d
           /\ resend' = resend \ {c}
           /\ toRcv' \in AfterSend(toRcv, DataFrame(m, c))
    /\ UNCHANGED <<sndPhase, sndBase, sndNext, inUse, acked, rcvVars, toSnd>>

-----------------------------------------------------------------------------
(* The receiver. *)

SendControl(t, s, c) == toSnd' \in AfterSend(toSnd, ControlFrame(t, s, c))

(* send_receiver_nack_expected *)
NackExpected(m) == SendControl("NACK", SeqOf(m, rcvBase), rcvBase)

Arriving(types) == toRcv # << >> /\ Head(toRcv).type \in types

(* A start frame opens the file and is acknowledged; the same one again is *)
(* only acknowledged.                                                      *)
ReceiveStart(m) ==
    /\ Arriving({"START"})
    /\ IF rcvPhase = "idle"
       THEN /\ rcvPhase' = "receiving"
            /\ rcvBase' = 0 /\ ring' = EmptyRing(m) /\ since' = 0
            /\ written' = << >>
       ELSE UNCHANGED <<rcvPhase, rcvBase, ring, since, written>>
    /\ SendControl("ACK", Head(toRcv).seq, -1)
    /\ toRcv' = Tail(toRcv)
    /\ UNCHANGED <<sndVars, outcome, recent>>

(* An ERROR frame ends a reception; outside one it is only logged. *)
ReceiveError ==
    /\ Arriving({"ERROR"})
    /\ rcvPhase' = "idle"
    /\ outcome' = IF rcvPhase = "receiving" THEN "error" ELSE outcome
    /\ toRcv' = Tail(toRcv)
    /\ UNCHANGED <<sndVars, rcvBase, ring, since, recent, written, toSnd>>

(* DATA outside a reception: acknowledged if it belongs to the tail of the *)
(* message just completed, dropped otherwise.                              *)
ReceiveLateData ==
    /\ rcvPhase = "idle" /\ Arriving({"DATA"})
    /\ LET frame == Head(toRcv)
       IN  IF frame.seq \in recent
           THEN SendControl("ACK", frame.seq, frame.chunk)
           ELSE UNCHANGED toSnd
    /\ toRcv' = Tail(toRcv)
    /\ UNCHANGED <<sndVars, rcvVars>>

(* A DATA frame that is not accepted: one already delivered is acknowledged *)
(* again, for any other (INVALID, or a duplicate still waiting in the ring)  *)
(* the expected chunk is asked for.                                          *)
ReceiveUnaccepted(m) ==
    /\ rcvPhase = "receiving" /\ Arriving({"DATA"})
    /\ LET frame == Head(toRcv)
           status == AcceptStatus(m, frame)
       IN  /\ status # "ACCEPTED"
           /\ IF status = "DUPLICATE" /\ RecentlyDelivered(m, frame.seq)
              THEN SendControl("ACK", frame.seq, frame.chunk)
              ELSE NackExpected(m)
    /\ toRcv' = Tail(toRcv)
    /\ UNCHANGED <<sndVars, rcvVars>>

(* ACCEPTED but not contiguous: kept in the ring, and the expected chunk is *)
(* asked for.                                                               *)
StoreChunk(m) ==
    /\ rcvPhase = "receiving" /\ Arriving({"DATA"})
    /\ AcceptStatus(m, Head(toRcv)) = "ACCEPTED"
    /\ ~IsReady(m, StoredRing(m, Head(toRcv)), rcvBase)
    /\ ring' = StoredRing(m, Head(toRcv))
    /\ NackExpected(m)
    /\ toRcv' = Tail(toRcv)
    /\ UNCHANGED <<sndVars, rcvPhase, outcome, rcvBase, since, recent, written>>

(* Mutant: only the last chunk is remembered. *)
TailNumbersLast(m) == {SeqOf(m, m.chunks - 1)}

(* sequence_cache_set_message_data: the numbers of the last window. *)
TailNumbers(m) == {SeqOf(m, c) : c \in {d \in Chunks(m) : d >= m.chunks - m.window}}

(* After writing up to end: the last chunk written is acknowledged when the *)
(* message is complete or a whole window was written since the last such    *)
(* ACK.  Completion fills the cache of recent numbers and leaves the        *)
(* reception.                                                               *)
AnswerDelivery(m, end) ==
    LET complete == end = m.chunks
        count == since + (end - rcvBase)
    IN  /\ IF complete \/ count >= m.window
           THEN /\ SendControl("ACK", SeqOf(m, end - 1), end - 1)
                /\ since' = 0
           ELSE /\ UNCHANGED toSnd
                /\ since' = count
        /\ IF complete
           THEN /\ rcvPhase' = "idle"
                /\ outcome' = "complete"
                /\ recent' = TailNumbers(m)
           ELSE UNCHANGED <<rcvPhase, outcome, recent>>

(* ACCEPTED and contiguous: everything that is ready is written. *)
DeliverChunks(m) ==
    /\ rcvPhase = "receiving" /\ Arriving({"DATA"})
    /\ AcceptStatus(m, Head(toRcv)) = "ACCEPTED"
    /\ LET stored == StoredRing(m, Head(toRcv))
       IN  \E end \in rcvBase + 1 .. rcvBase + m.window :
               /\ IsReadyEnd(m, stored, end)
               /\ written' = written \o
                      [i \in 1 .. end - rcvBase |->
                           stored[(rcvBase + i - 1) % m.window].data]
               /\ ring' = [k \in 0 .. m.window - 1 |->
                      IF \E c \in rcvBase .. end - 1 : c % m.window = k
                      THEN EmptySlot ELSE stored[k]]
               /\ rcvBase' = end
               /\ AnswerDelivery(m, end)
    /\ toRcv' = Tail(toRcv)
    /\ UNCHANGED sndVars

(* Nothing arrives in time inside a reception: the expected chunk is asked *)
(* for.                                                                    *)
ReceiveTimeout(m) ==
    /\ rcvPhase = "receiving"
    /\ NackExpected(m)
    /\ UNCHANGED <<sndVars, rcvVars, toRcv>>

-----------------------------------------------------------------------------
SenderNext(m) ==
    \/ SendStart(m) \/ StartTimeout \/ ReceiveStartControl(m)
    \/ QueueChunk(m) \/ ReadError(m)
    \/ ReceiveAck(m) \/ ReceiveNack(m) \/ IgnoreControl(m)
    \/ AckTimeout(m) \/ Retransmit(m)

ReceiverNext(m) ==
    \/ ReceiveStart(m) \/ ReceiveError \/ ReceiveLateData
    \/ ReceiveUnaccepted(m) \/ StoreChunk(m) \/ DeliverChunks(m) \/ ReceiveTimeout(m)

(* Both loops have returned and nothing is left to read: the system stops. *)
Finished ==
    /\ sndPhase \in {"complete", "failed", "aborted"}
    /\ rcvPhase = "idle" /\ toRcv = << >>
    /\ UNCHANGED vars

Next(m) == SenderNext(m) \/ ReceiverNext(m) \/ Finished

-----------------------------------------------------------------------------
(* Properties. *)

(* The report the sender gives its caller, and how far the receiver is, as  *)
(* the abstract deliveries see them.                                        *)
Report == CASE sndPhase = "complete" -> "success"
            [] sndPhase \in {"failed", "aborted"} -> "failure"
            [] OTHER -> "running"

Reception == IF rcvPhase = "receiving" THEN "open"
             ELSE CASE outcome = "complete" -> "whole"
                    [] outcome = "error" -> "broken"
                    [] OTHER -> "none"

Slots == [received : BOOLEAN, chunk : Nat, data : Int]

(* Every variable stays in its range. *)
TypeOK(m) ==
    /\ sndPhase \in {"sendStart", "waitStart", "data",
                     "complete", "failed", "aborted"}
    /\ sndBase \in 0 .. m.chunks /\ sndNext \in 0 .. m.chunks
    /\ inUse \in SUBSET Chunks(m) /\ acked \in SUBSET Chunks(m)
    /\ resend \in SUBSET Chunks(m)
    /\ rcvPhase \in {"idle", "receiving"}
    /\ outcome \in {"none", "complete", "error"}
    /\ rcvBase \in 0 .. m.chunks
    /\ ring \in [0 .. m.window - 1 -> Slots]
    /\ since \in Nat
    /\ recent \in SUBSET SeqNumbers
    /\ written \in Seq(Int)
    /\ toRcv \in Seq(Frames) /\ toSnd \in Seq(Frames)

(* The bytes the receiver has written are the first chunks of the message,  *)
(* each once and in order, whatever was lost, repeated or overtaken in the  *)
(* ring: the loop of receive_file_message (and the copy into packed_view)   *)
(* never writes a stale or a later chunk in the place of the expected one.  *)
WrittenInOrder ==
    /\ Len(written) = rcvBase
    /\ \A i \in 1 .. Len(written) : written[i] = i - 1

(* A chunk whose slot the sender has released is in the receiver's file: a  *)
(* cumulative ACK or NACK, even an old one that arrives after the sequence  *)
(* numbers wrapped, never confirms a chunk that was not delivered.          *)
ConfirmedIsWritten == sndBase <= Len(written)

(* The control frame the sender is about to read is about the very chunk    *)
(* whose slot its sequence number selects (sender_find_slot compares only   *)
(* the 6-bit number).                                                       *)
ControlNamesItsChunk(m) ==
    Waiting(m) /\ toSnd # << >> =>
        \A c \in PendingWith(m, Head(toSnd).seq) : c = Head(toSnd).chunk

(* net_window_receiver_accept never rejects a frame of this transfer: the   *)
(* number, the length and the ring slot of every DATA frame that reaches    *)
(* the receiver are those of its own chunk or of a delivered one.           *)
NoDataIsInvalid(m) ==
    rcvPhase = "receiving" /\ Arriving({"DATA"}) =>
        AcceptStatus(m, Head(toRcv)) # "INVALID"

(* The slots of the sender are exactly the chunks between base_index and    *)
(* next_index, none left marked: cumulative confirmations in any order leak *)
(* no slot, so net_window_sender_queue finds one and never fails.           *)
NoSlotLeak ==
    /\ Pending = sndBase .. sndNext - 1
    /\ inUse = Pending
    /\ sndPhase # "failed"

(* A DATA frame that arrives after the receiver completed the message is    *)
(* still answered: it is in the cache of recent numbers, so a sender whose  *)
(* last ACK was lost can finish (receive_view_message, recent_file_data).   *)
LateDataIsAnswered ==
    rcvPhase = "idle" /\ outcome = "complete" /\ Arriving({"DATA"}) =>
        Head(toRcv).seq \in recent
=============================================================================
