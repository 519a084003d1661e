-------------------------------- MODULE RawLink --------------------------------
(***************************************************************************)
(* Waiting for a frame of the peer: raw_eth_recv (src/transport/raw_eth.c) *)
(* polls the socket until a deadline and drops what is not for this        *)
(* program; game_session_io_receive_peer_frame (src/app/game_session_io.c) *)
(* calls it with the time left until a deadline of its own, and drops what *)
(* is not a valid frame of the peer.  Others may use the link without end. *)
(***************************************************************************)
EXTENDS Naturals, Sequences

CONSTANTS
    Arrivals,   \* the kinds of frames that arrive
    SocketCap,  \* frames the socket holds
    Timeout,    \* timeout_ms, in ticks
    MaxDelay,   \* ticks that pass at most while the program is not scheduled
    Faults      \* whether poll and recvfrom may fail

(* What raw_eth_recv drops: frames of this machine, frames too short, of    *)
(* other protocols, to other machines.                                      *)
NotForUs == {"outgoing", "short", "other ethertype", "other machine"}

(* What game_session_io_receive_peer_frame drops. *)
NotOfPeer == {"stranger", "damaged"}

ASSUME LinkConstants ==
    /\ Arrivals \subseteq NotForUs \cup NotOfPeer \cup {"peer"}
    /\ SocketCap \in Nat \ {0} /\ Timeout \in Nat
    /\ MaxDelay \in Nat \ {0}
    /\ Faults \in BOOLEAN

VARIABLES
    socket,     \* the frames in the socket
    now,        \* monotonic_ms, since the call
    waitAt,     \* "call", "outer", "inner", "poll", "readable", "filter" or "done"
    deadline,   \* of game_session_io_receive_peer_frame
    remaining,  \* the time it hands to raw_eth_recv
    innerDeadline,  \* of raw_eth_recv
    frame,      \* the frame raw_eth_recv returned, or "none"
    missed,     \* valid frames of the peer that were dropped (auxiliary)
    received    \* the result: "frame", "timeout", "error", or "none" yet

linkVars == <<socket, now, waitAt, deadline, remaining, innerDeadline, frame,
              missed, received>>

-----------------------------------------------------------------------------
LinkInit ==
    /\ socket = << >> /\ now = 0 /\ waitAt = "call"
    /\ deadline = 0 /\ remaining = 0 /\ innerDeadline = 0
    /\ frame = "none" /\ missed = 0 /\ received = "none"

(* Frames arrive, and get lost when the socket is full. *)
Arrive(kind) ==
    /\ waitAt # "done" /\ Len(socket) < SocketCap
    /\ socket' = Append(socket, kind)
    /\ UNCHANGED <<now, waitAt, deadline, remaining, innerDeadline, frame,
                   missed, received>>

(* Time passes; between the two readings of the clock, MaxDelay at most. *)
LinkTick ==
    /\ waitAt \notin {"call", "done"} /\ now < Timeout + MaxDelay + 1
    /\ waitAt = "inner" /\ innerDeadline = 0 => now + remaining < deadline + MaxDelay
    /\ now' = now + 1
    /\ UNCHANGED <<socket, waitAt, deadline, remaining, innerDeadline, frame,
                   missed, received>>

Finish(result) ==
    /\ received' = result /\ waitAt' = "done"

(* game_session_io_receive_peer_frame, before its loop, *)
CallReceive ==
    /\ waitAt = "call"
    /\ deadline' = now + Timeout
    /\ waitAt' = "outer"
    /\ UNCHANGED <<socket, now, remaining, innerDeadline, frame, missed, received>>

(* Mutant: each call may take the whole time again. *)
OuterLoopRestarts ==
    /\ waitAt = "outer"
    /\ remaining' = Timeout
    /\ waitAt' = "inner" /\ innerDeadline' = 0 /\ frame' = "none"
    /\ UNCHANGED <<socket, now, deadline, missed, received>>

(* and the head of its loop. *)
OuterLoop ==
    /\ waitAt = "outer"
    /\ IF now >= deadline
       THEN Finish("timeout") /\ UNCHANGED <<remaining, innerDeadline, frame>>
       ELSE /\ remaining' = deadline - now
            /\ waitAt' = "inner" /\ innerDeadline' = 0 /\ frame' = "none"
            /\ UNCHANGED received
    /\ UNCHANGED <<socket, now, deadline, missed>>

(* raw_eth_recv: its deadline, and the head of its loop. *)
InnerLoop ==
    /\ waitAt = "inner"
    /\ innerDeadline' = IF innerDeadline = 0 THEN now + remaining ELSE innerDeadline
    /\ IF now >= innerDeadline'
       THEN Finish("timeout")
       ELSE waitAt' = "poll" /\ UNCHANGED received
    /\ UNCHANGED <<socket, now, deadline, remaining, frame, missed>>

(* poll returns when a frame is there or at the deadline, *)
PollReady ==
    /\ waitAt = "poll" /\ socket # << >>
    /\ waitAt' = "readable"
    /\ UNCHANGED <<socket, now, deadline, remaining, innerDeadline, frame,
                   missed, received>>

PollTimesOut ==
    /\ waitAt = "poll" /\ socket = << >> /\ now >= innerDeadline
    /\ Finish("timeout")
    /\ UNCHANGED <<socket, now, deadline, remaining, innerDeadline, frame, missed>>

(* or is interrupted, or recvfrom finds nothing: once more around. *)
Interrupted ==
    /\ waitAt \in {"poll", "readable"} /\ Faults
    /\ waitAt' = "inner"
    /\ UNCHANGED <<socket, now, deadline, remaining, innerDeadline, frame,
                   missed, received>>

LinkFails ==
    /\ waitAt \in {"poll", "readable"} /\ Faults
    /\ Finish("error")
    /\ UNCHANGED <<socket, now, deadline, remaining, innerDeadline, frame, missed>>

(* The frame is read, and dropped if it is not for this program. *)
ReadFrame ==
    /\ waitAt = "readable"
    /\ socket' = Tail(socket)
    /\ IF Head(socket) \in NotForUs
       THEN waitAt' = "inner" /\ UNCHANGED frame
       ELSE waitAt' = "filter" /\ frame' = Head(socket)
    /\ missed' = missed + (IF Head(socket) = "peer" /\ frame' # "peer" THEN 1 ELSE 0)
    /\ UNCHANGED <<now, deadline, remaining, innerDeadline, received>>

(* Mutant: frames of any machine are taken. *)
FilterBySenderOnly ==
    /\ waitAt = "filter"
    /\ IF frame = "damaged"
       THEN waitAt' = "outer" /\ UNCHANGED received
       ELSE Finish("frame")
    /\ UNCHANGED <<socket, now, deadline, remaining, innerDeadline, frame, missed>>

(* Its sender and its CRC are checked. *)
Filter ==
    /\ waitAt = "filter"
    /\ IF frame \in NotOfPeer
       THEN waitAt' = "outer" /\ UNCHANGED received
       ELSE Finish("frame")
    /\ UNCHANGED <<socket, now, deadline, remaining, innerDeadline, frame, missed>>

ReceiveStep ==
    \/ CallReceive \/ OuterLoop \/ InnerLoop \/ PollReady \/ PollTimesOut
    \/ Interrupted \/ LinkFails \/ ReadFrame \/ Filter

LinkNext == ReceiveStep \/ LinkTick \/ \E kind \in Arrivals : Arrive(kind)

(* The program runs and time passes; nothing is assumed of the link. *)
LinkFairness == WF_linkVars(ReceiveStep) /\ WF_linkVars(LinkTick)

LinkSpec == LinkInit /\ [][LinkNext]_linkVars /\ LinkFairness

-----------------------------------------------------------------------------
(* Properties. *)

(* A call ends, however many frames of others keep arriving: a frame that   *)
(* is dropped does not start the wait anew (the senders' timeouts, and with *)
(* them every retransmission, rest on it).                                  *)
ReceiveReturns == <>(waitAt = "done")

(* Only a valid frame of the peer is handed on, none of them is thrown      *)
(* away, and a timeout is reported only when the time has passed.           *)
OnlyPeerFrames ==
    /\ received = "frame" => frame = "peer"
    /\ missed = 0
    /\ received = "timeout" => now >= deadline
=============================================================================
