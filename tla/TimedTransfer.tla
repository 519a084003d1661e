---------------------------- MODULE TimedTransfer ----------------------------
(***************************************************************************)
(* The transfer of MessageTransfer with its timers: the adaptive wait of   *)
(* the sender, doubled every BackoffStep consecutive errors, and the       *)
(* shorter wait of a file receiver.  Time is counted in ticks (50 ms in    *)
(* the runs) and passes only when no frame is in flight: a frame takes far *)
(* less than a tick to arrive.  The link loses at most MaxLosses frames of *)
(* the types in Lossy, so the transfer should end.                         *)
(***************************************************************************)
EXTENDS MessageTransfer

CONSTANTS
    BaseTimeout,   \* GAME_SESSION_BASE_TIMEOUT_MS, 200 ms
    MaxTimeout,    \* GAME_SESSION_MAX_TIMEOUT_MS, 5000 ms
    BackoffStep,   \* GAME_SESSION_BACKOFF_ERROR_STEP, 5
    MinReceive,    \* GAME_SESSION_FILE_RECV_MIN_TIMEOUT_MS, 50 ms
    MaxErrors,     \* the error counters stop here (UINT_MAX in the code)
    MaxLosses,     \* frames the link may lose
    Lossy          \* the types of the frames it may lose

VARIABLES
    sndLeft,       \* time left in the wait of the sender
    sndErrors,     \* its consecutive_errors
    rcvLeft,       \* time left in the wait of the receiver
    rcvErrors,     \* its consecutive_errors
    losses         \* frames lost so far

timedVars == <<vars, sndLeft, sndErrors, rcvLeft, rcvErrors, losses>>

(* Mutant: the wait is always the same. *)
TimeoutAfterWithoutBackoff(errors) == BaseTimeout

(* game_session_timeout_ms *)
TimeoutAfter(errors) ==
    LET doubled == BaseTimeout * 2 ^ (errors \div BackoffStep)
    IN  IF doubled > MaxTimeout THEN MaxTimeout ELSE doubled

(* game_session_file_receive_timeout_ms: with a window of one the receiver *)
(* waits as long as the sender, else a share of it between two limits.     *)
FileTimeoutAfter(errors) ==
    LET share == TimeoutAfter(errors) \div Message.window
        limit == IF BaseTimeout \div 2 < MinReceive THEN MinReceive
                                                    ELSE BaseTimeout \div 2
    IN  CASE Message.window = 1 -> TimeoutAfter(errors)
          [] OTHER -> IF share < MinReceive THEN MinReceive
                      ELSE IF share > limit THEN limit ELSE share

(* game_session_record_error *)
OneMore(errors) == IF errors < MaxErrors THEN errors + 1 ELSE errors

(* The receiver waits in receive_file_message or in receive_view_message. *)
ReceiverTimeoutAfter(phase, errors) ==
    IF phase = "receiving" THEN FileTimeoutAfter(errors)
                           ELSE TimeoutAfter(errors)

-----------------------------------------------------------------------------
TimedInit ==
    /\ Init(Message)
    /\ sndLeft = BaseTimeout /\ sndErrors = 0
    /\ rcvLeft = BaseTimeout /\ rcvErrors = 0
    /\ losses = 0

(* A frame of this type sent on a link with room for it is on the link     *)
(* afterwards, or counted as lost.                                         *)
Sent(type, before, after) ==
    IF Len(after) = Len(before) /\ Len(before) < LinkCap
    THEN type \in Lossy /\ losses < MaxLosses /\ losses' = losses + 1
    ELSE UNCHANGED losses

(* A step of the sender leaves it with this many errors, in a new wait.    *)
SenderWaits(errors) ==
    /\ sndErrors' = errors
    /\ sndLeft' = TimeoutAfter(errors)
    /\ UNCHANGED <<rcvLeft, rcvErrors>>

TimedSend ==
    /\ \/ SendStart(Message) /\ Sent("START", toRcv, toRcv')
       \/ (QueueChunk(Message) \/ Retransmit(Message)) /\ Sent("DATA", toRcv, toRcv')
       \/ ReadError(Message) /\ Sent("ERROR", toRcv, toRcv')
    /\ SenderWaits(sndErrors)

TimedReadStartControl ==
    /\ ReceiveStartControl(Message)
    /\ SenderWaits(CASE sndPhase' = "data" -> 0
                     [] sndPhase' = "sendStart" -> OneMore(sndErrors)
                     [] OTHER -> sndErrors)
    /\ UNCHANGED losses

(* An ACK that names a pending chunk ends the run of errors, a NACK that   *)
(* does adds one, and a frame that names none only restarts the wait.      *)
TimedReadControl ==
    \/ ReceiveAck(Message) /\ SenderWaits(0) /\ UNCHANGED losses
    \/ /\ ReceiveNack(Message) /\ Sent("DATA", toRcv, toRcv')
       /\ SenderWaits(OneMore(sndErrors))
    \/ IgnoreControl(Message) /\ SenderWaits(sndErrors) /\ UNCHANGED losses

SenderTimeout ==
    /\ sndLeft = 0
    /\ StartTimeout \/ AckTimeout(Message)
    /\ SenderWaits(OneMore(sndErrors))
    /\ UNCHANGED losses

(* A step of the receiver leaves it in a new wait. *)
ReceiverWaits(errors) ==
    /\ rcvErrors' = errors
    /\ rcvLeft' = ReceiverTimeoutAfter(rcvPhase', errors)
    /\ UNCHANGED <<sndLeft, sndErrors>>

(* Whether the DATA frame in front is acknowledged when it is not accepted *)
AlreadyDelivered ==
    /\ AcceptStatus(Message, Head(toRcv)) = "DUPLICATE"
    /\ RecentlyDelivered(Message, Head(toRcv).seq)

TimedReceive ==
    \/ /\ ReceiveStart(Message) /\ Sent("ACK", toSnd, toSnd')
       /\ ReceiverWaits(rcvErrors)
    \/ /\ ReceiveUnaccepted(Message)
       /\ Sent(IF AlreadyDelivered THEN "ACK" ELSE "NACK", toSnd, toSnd')
       /\ ReceiverWaits(IF AcceptStatus(Message, Head(toRcv)) = "INVALID"
                        THEN OneMore(rcvErrors) ELSE rcvErrors)
    \/ /\ StoreChunk(Message) /\ Sent("NACK", toSnd, toSnd')
       /\ ReceiverWaits(rcvErrors)
    \/ /\ DeliverChunks(Message)
       /\ IF since' = 0 THEN Sent("ACK", toSnd, toSnd') ELSE UNCHANGED losses
       /\ ReceiverWaits(rcvErrors)
    \/ /\ ReceiveLateData
       /\ IF Head(toRcv).seq \in recent THEN Sent("ACK", toSnd, toSnd')
                                        ELSE UNCHANGED losses
       /\ ReceiverWaits(rcvErrors)
    \/ /\ ReceiveError /\ UNCHANGED losses
       /\ ReceiverWaits(OneMore(rcvErrors))

(* Inside a reception the expected chunk is asked for; outside one the     *)
(* receiver waits again.                                                   *)
ReceiverTimeout ==
    /\ rcvLeft = 0
    /\ \/ ReceiveTimeout(Message) /\ Sent("NACK", toSnd, toSnd')
       \/ rcvPhase = "idle" /\ UNCHANGED <<vars, losses>>
    /\ ReceiverWaits(OneMore(rcvErrors))

SenderStopped == sndPhase \in {"complete", "failed", "aborted"}

(* Time passes while every running loop waits and nothing is in flight, up *)
(* to the next timeout.                                                    *)
Tick ==
    /\ sndPhase = "waitStart" \/ Waiting(Message) \/ SenderStopped
    /\ toRcv = << >> /\ (toSnd = << >> \/ SenderStopped)
    /\ rcvLeft > 0 /\ (sndLeft > 0 \/ SenderStopped)
    /\ LET d == IF sndLeft < rcvLeft /\ ~SenderStopped THEN sndLeft ELSE rcvLeft
       IN  /\ sndLeft' = IF SenderStopped THEN sndLeft ELSE sndLeft - d
           /\ rcvLeft' = rcvLeft - d
    /\ UNCHANGED <<vars, sndErrors, rcvErrors, losses>>

(* Both ends have returned and everything was read. *)
BothReturned == SenderStopped /\ rcvPhase = "idle" /\ toRcv = << >>

TimedFinished == BothReturned /\ UNCHANGED timedVars

TimedNext ==
    \/ TimedSend \/ TimedReadStartControl \/ TimedReadControl \/ SenderTimeout
    \/ TimedReceive \/ (ReceiverTimeout /\ ~BothReturned)
    \/ (Tick /\ ~BothReturned) \/ TimedFinished

(* Both processes run: neither loop stops between two of its waits, and    *)
(* time passes.                                                            *)
TimedSpec == TimedInit /\ [][TimedNext]_timedVars /\ WF_timedVars(TimedNext)

-----------------------------------------------------------------------------
(* What the one loop returns is what the other returns: a complete message *)
(* was received whole, and one given up for a read error ended in an error.*)
EndsAgree ==
    /\ sndPhase = "complete" => outcome = "complete"
    /\ sndPhase = "aborted" => outcome = "error"

(* With finitely many losses both loops return, and with the whole message *)
(* delivered unless the source file could not be read: the sender of       *)
(* send_fragmented_data_and_wait_ack and the receiver of                   *)
(* receive_file_message, each with its own timer, do not keep one another  *)
(* waiting.                                                                *)
TransferEnds == <>[](BothReturned /\ EndsAgree)

(* "Quando uma mensagem nao recebe confirmacao, o emissor retransmite a    *)
(* mensagem": the wait for the answer to a start frame, or to the chunks   *)
(* in flight, ends, by a confirmation or by sending them again.            *)
UnansweredIsSentAgain ==
    /\ (sndPhase = "waitStart") ~> (sndPhase # "waitStart")
    /\ Waiting(Message) ~> ~Waiting(Message)
=============================================================================
