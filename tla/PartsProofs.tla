------------------------------ MODULE PartsProofs ------------------------------
(***************************************************************************)
(* Theorems about the small parts that do not interact: the handshake, the *)
(* wait for a frame, the link test tool, the keyboard, the view codec, the *)
(* start frame and chunks of a message, and the frame codec.               *)
(***************************************************************************)
EXTENDS Handshake, RawLink, FramePing, Keyboard, ViewCodec,
        TransferCodec, FrameCodec, WellFoundedInduction, TLAPS

-----------------------------------------------------------------------------
(* The handshake: PeerIsPlaying for every number of clients and retries,    *)
(* every capacity of the sockets and every kind of loss.  What makes it     *)
(* inductive is that an ACK on its way was sent by a client that plays by   *)
(* then, and that nobody stops playing in the handshake.                    *)

ClientsInv ==
    /\ client \in [Clients -> {"absent", "listening", "playing", "gone"}]
    /\ inits \in [Clients -> 0 .. LinkCap]

AcksInv ==
    /\ acks \in Seq(Clients)
    /\ \A i \in 1 .. Len(acks) : client[acks[i]] = "playing"

ServerInv ==
    /\ server \in {"send", "wait", "connected", "failed", "error"}
    /\ attempt \in 0 .. MaxRetries
    /\ IF server = "connected" THEN peer \in Clients /\ client[peer] = "playing"
                               ELSE peer = NoPeer

HandshakeInv == ClientsInv /\ AcksInv /\ ServerInv

-----------------------------------------------------------------------------
LEMMA InitHandshakeInv == HandshakeInit => HandshakeInv
BY HandshakeConstants
   DEF HandshakeInit, HandshakeInv, ClientsInv, AcksInv, ServerInv

(* The server's steps.  A broadcast fills sockets up to their capacity; the *)
(* first ACK is of a client that plays.                                     *)
LEMMA ServerStep ==
    ASSUME HandshakeInv, ServerMoves \/ ServerFails
    PROVE  HandshakeInv'
<1> USE HandshakeConstants
<1>1. CASE Broadcast
  <2>1. PICK heard \in SUBSET Present :
            inits' = [c \in Clients |->
                        IF c \in heard THEN inits[c] + 1 ELSE inits[c]]
    BY <1>1 DEF Broadcast, InitArrives
  <2>2. ASSUME NEW c \in Clients
        PROVE  inits'[c] \in 0 .. LinkCap
    <3>1. inits[c] \in 0 .. LinkCap
      BY DEF HandshakeInv, ClientsInv
    <3>2. c \in heard => inits[c] < LinkCap
      BY <2>1 DEF Present
    <3>3. QED
      BY <2>1, <3>1, <3>2
  <2>3. ClientsInv'
    BY <1>1, <2>1, <2>2 DEF Broadcast, HandshakeInv, ClientsInv
  <2>4. AcksInv'
    BY <1>1 DEF Broadcast, HandshakeInv, AcksInv
  <2>5. ServerInv'
    BY <1>1 DEF Broadcast, HandshakeInv, ServerInv
  <2>6. QED
    BY <2>3, <2>4, <2>5 DEF HandshakeInv
<1>2. CASE ReadAck
  <2>1. ClientsInv'
    BY <1>2 DEF ReadAck, HandshakeInv, ClientsInv
  <2>2. acks \in Seq(Clients) /\ Len(acks) > 0 /\ Len(acks) \in Nat
    BY <1>2 DEF ReadAck, HandshakeInv, AcksInv
  <2>3. /\ Head(acks) = acks[1] /\ Head(acks) \in Clients
        /\ Tail(acks) \in Seq(Clients) /\ Len(Tail(acks)) = Len(acks) - 1
        /\ \A i \in 1 .. Len(Tail(acks)) : Tail(acks)[i] = acks[i + 1]
    BY <2>2
  <2>4. AcksInv'
    BY <1>2, <2>2, <2>3 DEF ReadAck, HandshakeInv, AcksInv
  <2>5. client[Head(acks)] = "playing"
    BY <2>2, <2>3 DEF HandshakeInv, AcksInv
  <2>6. ServerInv'
    BY <1>2, <2>3, <2>5 DEF ReadAck, HandshakeInv, ServerInv
  <2>7. QED
    BY <2>1, <2>4, <2>6 DEF HandshakeInv
<1>3. CASE AckTimesOut
  BY <1>3 DEF AckTimesOut, HandshakeInv, ClientsInv, AcksInv, ServerInv
<1>4. CASE GiveUp
  BY <1>4 DEF GiveUp, HandshakeInv, ClientsInv, AcksInv, ServerInv
<1>5. CASE ServerFails
  BY <1>5 DEF ServerFails, HandshakeInv, ClientsInv, AcksInv, ServerInv
<1>6. QED
  BY <1>1, <1>2, <1>3, <1>4, <1>5 DEF ServerMoves

(* The steps of a client.  It plays before its ACK is on its way. *)
LEMMA ClientStep ==
    ASSUME NEW c \in Clients, HandshakeInv, ClientMoves(c) \/ ClientFails(c)
    PROVE  HandshakeInv'
<1> USE HandshakeConstants
<1>1. CASE OpenSocket(c)
  <2>1. ClientsInv'
    BY <1>1 DEF OpenSocket, HandshakeInv, ClientsInv
  <2>2. \A d \in Clients : client[d] = "playing" => client'[d] = "playing"
    BY <1>1 DEF OpenSocket, HandshakeInv, ClientsInv
  <2>3. AcksInv'
    BY <1>1, <2>2 DEF OpenSocket, HandshakeInv, AcksInv
  <2>4. ServerInv'
    BY <1>1, <2>2 DEF OpenSocket, HandshakeInv, ServerInv
  <2>5. QED
    BY <2>1, <2>3, <2>4 DEF HandshakeInv
<1>2. CASE AnswerInit(c)
  <2>1. ClientsInv'
    BY <1>2 DEF AnswerInit, HandshakeInv, ClientsInv
  <2>2. /\ client'[c] = "playing"
        /\ \A d \in Clients : client[d] = "playing" => client'[d] = "playing"
    BY <1>2 DEF AnswerInit, HandshakeInv, ClientsInv
  <2>3. acks \in Seq(Clients) /\ (acks' = acks \/ acks' = Append(acks, c))
    BY <1>2 DEF AnswerInit, HandshakeInv, AcksInv
  <2>4. AcksInv'
    <3>1. CASE acks' = acks
      BY <2>2, <2>3, <3>1 DEF HandshakeInv, AcksInv
    <3>2. CASE acks' = Append(acks, c)
      <4>1. /\ acks' \in Seq(Clients) /\ Len(acks') = Len(acks) + 1
            /\ \A i \in 1 .. Len(acks) : acks'[i] = acks[i]
            /\ acks'[Len(acks) + 1] = c
        BY <2>3, <3>2
      <4>2. QED
        BY <2>2, <2>3, <4>1 DEF HandshakeInv, AcksInv
    <3>3. QED
      BY <2>3, <3>1, <3>2
  <2>5. ServerInv'
    BY <1>2, <2>2 DEF AnswerInit, HandshakeInv, ServerInv
  <2>6. QED
    BY <2>1, <2>4, <2>5 DEF HandshakeInv
<1>3. CASE DropInit(c)
  <2>1. ClientsInv'
    BY <1>3 DEF DropInit, HandshakeInv, ClientsInv
  <2>2. AcksInv' /\ ServerInv'
    BY <1>3 DEF DropInit, HandshakeInv, AcksInv, ServerInv
  <2>3. QED
    BY <2>1, <2>2 DEF HandshakeInv
<1>4. CASE ClientFails(c)
  <2>1. ClientsInv'
    BY <1>4 DEF ClientFails, HandshakeInv, ClientsInv
  <2>2. \A d \in Clients : client[d] = "playing" => client'[d] = "playing"
    BY <1>4 DEF ClientFails, HandshakeInv, ClientsInv
  <2>3. AcksInv'
    BY <1>4, <2>2 DEF ClientFails, HandshakeInv, AcksInv
  <2>4. ServerInv'
    BY <1>4, <2>2 DEF ClientFails, HandshakeInv, ServerInv
  <2>5. QED
    BY <2>1, <2>3, <2>4 DEF HandshakeInv
<1>5. QED
  BY <1>1, <1>2, <1>3, <1>4 DEF ClientMoves

LEMMA HandshakeInvGivesPeer == HandshakeInv => PeerIsPlaying
BY HandshakeConstants
   DEF HandshakeInv, ClientsInv, ServerInv, PeerIsPlaying

LEMMA HandshakeAlways == HandshakeSpec => []HandshakeInv
<1>1. HandshakeInit => HandshakeInv
  BY InitHandshakeInv
<1>2. HandshakeInv /\ [HandshakeNext]_handshakeVars => HandshakeInv'
  <2> SUFFICES ASSUME HandshakeInv, [HandshakeNext]_handshakeVars
               PROVE  HandshakeInv'
    OBVIOUS
  <2>1. CASE HandshakeNext
    BY <2>1, ServerStep, ClientStep DEF HandshakeNext
  <2>2. CASE UNCHANGED handshakeVars
    BY <2>2 DEF handshakeVars, HandshakeInv, ClientsInv, AcksInv, ServerInv
  <2>3. QED
    BY <2>1, <2>2
<1>3. QED
  BY <1>1, <1>2, PTL DEF HandshakeSpec

(* The server starts the game with a client that has started it too, in     *)
(* every handshake: any clients, any losses, however early it stops waiting.*)
THEOREM ServerMeetsPlayer == HandshakeSpec => []PeerIsPlaying
BY HandshakeAlways, HandshakeInvGivesPeer, PTL

(* The moves the server has left at most: two for each broadcast to come,   *)
(* and the one it is at.                                                    *)
MovesLeft ==
    IF server \in {"connected", "failed", "error"} THEN 0
    ELSE 2 * (MaxRetries - attempt) + (IF server = "wait" THEN 2 ELSE 1)

LEMMA MovesAreNat ==
    ASSUME NEW a \in 0 .. MaxRetries,
           NEW m \in {0, 2 * (MaxRetries - a) + 1, 2 * (MaxRetries - a) + 2}
    PROVE  m \in Nat
<1>1. MaxRetries \in Nat
  BY HandshakeConstants
<1>2. PICK n \in Nat : n = MaxRetries - a
  BY <1>1
<1> QED
  BY <1>2

(* Whatever is lost and whoever answers, each move of the server leaves it  *)
(* with fewer to make, and nobody gives it more: what ServerStops adds is   *)
(* that it keeps moving.                                                    *)
THEOREM ServerRunsOut ==
    HandshakeSpec => [][/\ MovesLeft \in Nat /\ MovesLeft' \in Nat
                        /\ MovesLeft' <= MovesLeft
                        /\ ServerMoves => MovesLeft' < MovesLeft]_handshakeVars
<1>1. HandshakeInv => MovesLeft \in Nat
  <2>1. MovesLeft \in {0, 2 * (MaxRetries - attempt) + 1, 2 * (MaxRetries - attempt) + 2}
    BY DEF MovesLeft
  <2> QED
    BY <2>1, MovesAreNat DEF HandshakeInv, ServerInv
<1>2. HandshakeInv' => MovesLeft' \in Nat
  <2>1. MovesLeft' \in {0, 2 * (MaxRetries - attempt') + 1, 2 * (MaxRetries - attempt') + 2}
    BY DEF MovesLeft
  <2>2. HandshakeInv' => attempt' \in 0 .. MaxRetries
    BY DEF HandshakeInv, ServerInv
  <2> QED
    BY <2>1, <2>2, MovesAreNat
<1>3. ASSUME HandshakeInv, ServerMoves \/ ServerFails PROVE MovesLeft' < MovesLeft
  <2>1. attempt \in Nat /\ attempt <= MaxRetries /\ MaxRetries \in Nat
    BY <1>3, HandshakeConstants DEF HandshakeInv, ServerInv
  <2>2. CASE Broadcast
    <3>1. MovesLeft = 2 * (MaxRetries - attempt) + 1
      BY <2>2 DEF Broadcast, MovesLeft
    <3>2. MovesLeft' = 2 * (MaxRetries - (attempt + 1)) + 2
      BY <2>2 DEF Broadcast, MovesLeft
    <3> QED
      BY <2>1, <3>1, <3>2
  <2>3. CASE AckTimesOut
    <3>1. /\ MovesLeft = 2 * (MaxRetries - attempt) + 2
          /\ MovesLeft' = 2 * (MaxRetries - attempt) + 1
      BY <2>3 DEF AckTimesOut, MovesLeft
    <3> QED
      BY <2>1, <3>1
  <2>4. CASE ReadAck \/ GiveUp \/ ServerFails
    <3>1. MovesLeft' = 0 /\ server \notin {"connected", "failed", "error"}
      BY <2>4 DEF ReadAck, GiveUp, ServerFails, MovesLeft
    <3>2. MovesLeft \in {2 * (MaxRetries - attempt) + 1, 2 * (MaxRetries - attempt) + 2}
      BY <3>1 DEF MovesLeft
    <3> QED
      BY <2>1, <3>1, <3>2
  <2> QED
    BY <1>3, <2>2, <2>3, <2>4 DEF ServerMoves
<1>4. ASSUME NEW c \in Clients, ClientMoves(c) \/ ClientFails(c)
      PROVE  MovesLeft' = MovesLeft
  BY <1>4 DEF ClientMoves, OpenSocket, AnswerInit, DropInit, ClientFails, MovesLeft
<1>5. ASSUME HandshakeInv, HandshakeInv', HandshakeNext
      PROVE  MovesLeft' <= MovesLeft /\ (ServerMoves => MovesLeft' < MovesLeft)
  <2>1. MovesLeft \in Nat
    BY <1>1, <1>5
  <2>2. CASE ServerMoves \/ ServerFails
    <3>1. MovesLeft' < MovesLeft
      BY <1>3, <1>5, <2>2
    <3>2. MovesLeft' \in Nat
      BY <1>2, <1>5
    <3> QED
      BY <2>1, <3>1, <3>2
  <2>3. CASE ~ServerMoves /\ ~ServerFails
    BY <1>4, <1>5, <2>1, <2>3 DEF HandshakeNext
  <2> QED
    BY <2>2, <2>3
<1>6. HandshakeInv /\ HandshakeInv' /\ [HandshakeNext]_handshakeVars
          => [/\ MovesLeft \in Nat /\ MovesLeft' \in Nat
              /\ MovesLeft' <= MovesLeft
              /\ ServerMoves => MovesLeft' < MovesLeft]_handshakeVars
  BY <1>1, <1>2, <1>5
<1> QED
  BY <1>6, HandshakeAlways, PTL DEF HandshakeSpec

-----------------------------------------------------------------------------
(* The wait for a frame: OnlyPeerFrames for every timeout, delay, capacity  *)
(* of the socket and mix of frames.  A timeout is reported by the inner wait*)
(* too, whose deadline is computed from a later reading of the clock than   *)
(* the time it was given: it is never before the outer one.                 *)

ClockInv ==
    /\ now \in Nat /\ deadline \in Nat /\ remaining \in Nat
    /\ innerDeadline \in Nat
    /\ waitAt \in {"inner", "poll", "readable"} =>
           IF innerDeadline = 0
           THEN waitAt = "inner" /\ remaining > 0 /\ now + remaining >= deadline
           ELSE innerDeadline >= deadline

SocketInv ==
    /\ socket \in Seq(Arrivals)
    /\ waitAt = "readable" => socket # << >>
    /\ waitAt = "filter" => frame \in NotOfPeer \cup {"peer"}
    /\ missed = 0

ResultInv ==
    /\ waitAt \in {"call", "outer", "inner", "poll", "readable", "filter", "done"}
    /\ waitAt # "done" => received = "none"
    /\ received \in {"none", "timeout", "error"} \/ (received = "frame" /\ frame = "peer")
    /\ received = "timeout" => now >= deadline

LinkInv == ClockInv /\ SocketInv /\ ResultInv

-----------------------------------------------------------------------------
LEMMA InitLinkInv == LinkInit => LinkInv
BY LinkConstants DEF LinkInit, LinkInv, ClockInv, SocketInv, ResultInv

(* A frame arrives: the queue grows at its end. *)
LEMMA ArriveStep ==
    ASSUME NEW kind \in Arrivals, LinkInv, Arrive(kind)
    PROVE  LinkInv'
<1>1. socket' \in Seq(Arrivals) /\ socket' # << >>
  BY DEF Arrive, LinkInv, SocketInv
<1>2. QED
  BY <1>1 DEF Arrive, LinkInv, ClockInv, SocketInv, ResultInv

LEMMA TickStep ==
    ASSUME LinkInv, LinkTick
    PROVE  LinkInv'
BY DEF LinkTick, LinkInv, ClockInv, SocketInv, ResultInv

(* The loops and their polls: the inner deadline is not before the outer.   *)
LEMMA WaitStep ==
    ASSUME LinkInv,
           CallReceive \/ OuterLoop \/ InnerLoop \/ PollReady \/ PollTimesOut
               \/ Interrupted \/ LinkFails
    PROVE  LinkInv'
<1> USE LinkConstants DEF LinkInv, ClockInv, SocketInv, ResultInv
<1>1. CASE CallReceive
  BY <1>1 DEF CallReceive
<1>2. CASE OuterLoop
  BY <1>2 DEF OuterLoop, Finish
<1>3. CASE InnerLoop
  BY <1>3 DEF InnerLoop, Finish
<1>4. CASE PollReady
  BY <1>4 DEF PollReady
<1>5. CASE PollTimesOut
  BY <1>5 DEF PollTimesOut, Finish
<1>6. CASE Interrupted
  BY <1>6 DEF Interrupted
<1>7. CASE LinkFails
  BY <1>7 DEF LinkFails, Finish
<1>8. QED
  BY <1>1, <1>2, <1>3, <1>4, <1>5, <1>6, <1>7

(* A frame is read: of those that arrive, what is not for this program is   *)
(* dropped, and the peer's is not among them.                               *)
LEMMA ReadStep ==
    ASSUME LinkInv, ReadFrame
    PROVE  LinkInv'
<1>1. /\ socket \in Seq(Arrivals) /\ socket # << >>
  BY DEF ReadFrame, LinkInv, SocketInv
<1>2. Head(socket) \in Arrivals /\ socket' \in Seq(Arrivals)
  BY <1>1 DEF ReadFrame
<1>3. Head(socket) \in NotForUs \/ Head(socket) \in NotOfPeer \cup {"peer"}
  BY <1>2, LinkConstants
<1>4. "peer" \notin NotForUs
  BY DEF NotForUs
<1>5. missed' = 0
  BY <1>4 DEF ReadFrame, LinkInv, SocketInv
<1>6. SocketInv'
  BY <1>2, <1>3, <1>5 DEF ReadFrame, SocketInv
<1>7. ClockInv' /\ ResultInv'
  BY DEF ReadFrame, LinkInv, ClockInv, ResultInv
<1>8. QED
  BY <1>6, <1>7 DEF LinkInv

LEMMA FilterStep ==
    ASSUME LinkInv, Filter
    PROVE  LinkInv'
BY DEF Filter, Finish, LinkInv, ClockInv, SocketInv, ResultInv

LEMMA LinkAlways == LinkSpec => []LinkInv
<1>1. LinkInit => LinkInv
  BY InitLinkInv
<1>2. LinkInv /\ [LinkNext]_linkVars => LinkInv'
  <2> SUFFICES ASSUME LinkInv, [LinkNext]_linkVars
               PROVE  LinkInv'
    OBVIOUS
  <2>1. CASE LinkNext
    BY <2>1, ArriveStep, TickStep, WaitStep, ReadStep, FilterStep
       DEF LinkNext, ReceiveStep
  <2>2. CASE UNCHANGED linkVars
    BY <2>2 DEF linkVars, LinkInv, ClockInv, SocketInv, ResultInv
  <2>3. QED
    BY <2>1, <2>2
<1>3. QED
  BY <1>1, <1>2, PTL DEF LinkSpec

(* Only a valid frame of the peer is handed on, none of them is thrown away,*)
(* and a timeout is reported only when the time has passed, for every       *)
(* timeout and whatever arrives.                                            *)
THEOREM PeerFramesOnly == LinkSpec => []OnlyPeerFrames
<1>1. LinkInv => OnlyPeerFrames
  BY DEF LinkInv, SocketInv, ResultInv, OnlyPeerFrames
<1>2. QED
  BY <1>1, LinkAlways, PTL

(* The inner deadline is not later than the outer one by more than the      *)
(* delay between the two readings of the clock.                             *)
DelayInv ==
    waitAt \in {"inner", "poll", "readable"} =>
        IF innerDeadline = 0 THEN now + remaining <= deadline + MaxDelay
                             ELSE innerDeadline <= deadline + MaxDelay

LEMMA DelayStep ==
    ASSUME LinkInv, DelayInv, [LinkNext]_linkVars
    PROVE  DelayInv'
<1> USE LinkConstants DEF DelayInv
<1>1. now \in Nat /\ deadline \in Nat /\ remaining \in Nat /\ innerDeadline \in Nat
      /\ MaxDelay \in Nat
  BY DEF LinkInv, ClockInv
<1>2. CASE LinkTick
  <2>1. waitAt \in {"inner", "poll", "readable"} /\ innerDeadline = 0
            => waitAt = "inner" /\ now + remaining < deadline + MaxDelay
    BY <1>2 DEF LinkTick, LinkInv, ClockInv
  <2>2. now' = now + 1 /\ UNCHANGED <<waitAt, deadline, remaining, innerDeadline>>
    BY <1>2 DEF LinkTick
  <2> QED
    BY <1>1, <2>1, <2>2
<1>3. CASE \E kind \in Arrivals : Arrive(kind)
  BY <1>3 DEF Arrive
<1>4. CASE CallReceive \/ Filter
  BY <1>4 DEF CallReceive, Filter, Finish
<1>5. CASE OuterLoop
  BY <1>1, <1>5 DEF OuterLoop, Finish
<1>6. CASE InnerLoop
  <2>1. innerDeadline' \in Nat /\ innerDeadline' <= deadline' + MaxDelay
    BY <1>1, <1>6 DEF InnerLoop
  <2>2. innerDeadline' = 0 => waitAt' = "done"
    BY <1>1, <1>6 DEF InnerLoop, Finish
  <2> QED
    BY <2>1, <2>2
<1>7. CASE PollReady \/ PollTimesOut \/ Interrupted \/ LinkFails
  <2>1. UNCHANGED <<now, deadline, remaining, innerDeadline>>
        /\ waitAt \in {"inner", "poll", "readable"}
    BY <1>7 DEF PollReady, PollTimesOut, Interrupted, LinkFails
  <2> QED
    BY <2>1
<1>8. CASE ReadFrame
  <2>1. UNCHANGED <<now, deadline, remaining, innerDeadline>> /\ waitAt = "readable"
    BY <1>8 DEF ReadFrame
  <2> QED
    BY <2>1
<1>9. CASE UNCHANGED linkVars
  BY <1>9 DEF linkVars
<1> QED
  BY <1>2, <1>3, <1>4, <1>5, <1>6, <1>7, <1>8, <1>9 DEF LinkNext, ReceiveStep

(* The time of the call is over, and the delay too. *)
Overdue == waitAt # "call" /\ now >= deadline + MaxDelay

(* The steps to the return of a call whose time is over. *)
StepsLeft ==
    CASE waitAt = "poll" -> 4
      [] waitAt = "readable" -> 3
      [] waitAt = "filter" -> 2
      [] waitAt \in {"outer", "inner"} -> 1
      [] waitAt \in {"call", "done"} -> 0

(* Once its time is over, each step brings a call nearer to its return: four*)
(* at most, however many frames of others arrive, and whatever fails.  What *)
(* ReceiveReturns adds is that time passes and the program runs.            *)
THEOREM OverdueCallsReturn ==
    LinkSpec => [][Overdue => /\ Overdue' /\ StepsLeft' <= StepsLeft
                              /\ ReceiveStep => StepsLeft' < StepsLeft]_linkVars
<1>1. LinkInit => DelayInv
  BY DEF LinkInit, DelayInv
<1>2. LinkInv /\ DelayInv /\ [LinkNext]_linkVars => DelayInv'
  BY DelayStep
<1>3. ASSUME LinkInv, DelayInv, Overdue, LinkNext
      PROVE  /\ Overdue' /\ StepsLeft' <= StepsLeft
             /\ ReceiveStep => StepsLeft' < StepsLeft
  <2>1. now \in Nat /\ deadline \in Nat /\ remaining \in Nat /\ innerDeadline \in Nat
        /\ MaxDelay \in Nat \ {0}
    BY <1>3, LinkConstants DEF LinkInv, ClockInv
  <2>2. waitAt \in {"outer", "inner", "poll", "readable", "filter", "done"}
    BY <1>3 DEF LinkInv, ResultInv, Overdue
  <2>3. CASE LinkTick \/ \E kind \in Arrivals : Arrive(kind)
    <3>1. waitAt' = waitAt /\ deadline' = deadline /\ now' \in {now, now + 1}
      BY <2>3 DEF LinkTick, Arrive
    <3>2. Overdue' /\ StepsLeft' = StepsLeft /\ StepsLeft \in Nat
      BY <1>3, <2>1, <2>2, <3>1 DEF Overdue, StepsLeft
    <3>3. ~ReceiveStep
      BY <2>3, <3>1
         DEF ReceiveStep, CallReceive, OuterLoop, InnerLoop, PollReady, PollTimesOut,
             Interrupted, LinkFails, ReadFrame, Filter, Finish
    <3> QED
      BY <3>2, <3>3
  <2>4. CASE ReceiveStep
    <3>1. deadline' = deadline /\ now' = now /\ waitAt' # "call"
      BY <1>3, <2>4
         DEF Overdue, ReceiveStep, CallReceive, OuterLoop, InnerLoop, PollReady,
             PollTimesOut, Interrupted, LinkFails, ReadFrame, Filter, Finish
    <3>2. Overdue'
      BY <1>3, <3>1 DEF Overdue
    <3>3. StepsLeft' < StepsLeft
      <4>1. CASE OuterLoop
        BY <1>3, <2>1, <4>1 DEF Overdue, OuterLoop, Finish, StepsLeft
      <4>2. CASE InnerLoop
        <5>1. innerDeadline' <= deadline + MaxDelay /\ innerDeadline' \in Nat
          BY <1>3, <2>1, <4>2 DEF InnerLoop, DelayInv
        <5>2. waitAt = "inner" /\ waitAt' = "done"
          BY <1>3, <2>1, <4>2, <5>1 DEF Overdue, InnerLoop, Finish
        <5> QED
          BY <5>2 DEF StepsLeft
      <4>3. CASE PollReady \/ PollTimesOut \/ Interrupted \/ LinkFails
        BY <4>3 DEF PollReady, PollTimesOut, Interrupted, LinkFails, Finish, StepsLeft
      <4>4. CASE ReadFrame \/ Filter
        BY <4>4 DEF ReadFrame, Filter, Finish, StepsLeft
      <4>5. ~CallReceive
        BY <1>3 DEF Overdue, CallReceive
      <4> QED
        BY <2>4, <4>1, <4>2, <4>3, <4>4, <4>5 DEF ReceiveStep
    <3>4. StepsLeft \in Nat /\ StepsLeft' \in Nat
      <4>1. waitAt' \in {"outer", "inner", "poll", "readable", "filter", "done"}
        BY <1>3, <2>4
           DEF Overdue, ReceiveStep, CallReceive, OuterLoop, InnerLoop, PollReady,
               PollTimesOut, Interrupted, LinkFails, ReadFrame, Filter, Finish
      <4> QED
        BY <2>2, <4>1 DEF StepsLeft
    <3> QED
      BY <3>2, <3>3, <3>4
  <2> QED
    BY <1>3, <2>3, <2>4 DEF LinkNext
<1>4. LinkInv /\ DelayInv /\ [LinkNext]_linkVars
          => [Overdue => /\ Overdue' /\ StepsLeft' <= StepsLeft
                         /\ ReceiveStep => StepsLeft' < StepsLeft]_linkVars
  BY <1>3
<1> QED
  BY <1>1, <1>2, <1>4, LinkAlways, PTL DEF LinkSpec

-----------------------------------------------------------------------------
(* The link test tool: ReportsAreTrue for every count, loss and delay.  A   *)
(* pong with the number of the ping under way is of that ping or of an      *)
(* earlier one with the same number; and while every ping so far had its    *)
(* pong, no frame of an earlier one is left to be taken for the next one's. *)

Frames == [kind : {"PING", "PONG"}, seq : Nat, of : Nat]

(* The pinger whose ping or pong a frame is, on its way to machine m; *)
Pinger(m, f) == IF f.kind = "PONG" THEN m ELSE Other[m]

(* the frame is of one of the pings it has sent. *)
FrameInv(m, f) ==
    LET o == Pinger(m, f)
    IN  /\ f.seq = f.of % PingSeqSpace
        /\ mode[o] = "ping" /\ f.of < count[o] /\ f.of <= pings[o]
        /\ at[o] \in {"closed", "send"} => f.of < pings[o]
        /\ at[o] # "done" /\ ok[o] = pings[o] => f.of >= pings[o]
        /\ f.kind = "PONG" => f.of \in reached[o]

BoxesInv(boxes) ==
    \A m \in Machines : \A i \in 1 .. Len(boxes[m]) : FrameInv(m, boxes[m][i])

(* The frame is of the ping that is under way; *)
Current(o, m, f) == Pinger(m, f) = o /\ f.of = pings[o]

NoCurrent(o, boxes) ==
    \A m \in Machines : \A i \in 1 .. Len(boxes[m]) : ~Current(o, m, boxes[m][i])

(* there is never more than one such: the ping, or then its pong. *)
OneCurrent(o, boxes) ==
    \A m, n \in Machines : \A i \in 1 .. Len(boxes[m]), j \in 1 .. Len(boxes[n]) :
        Current(o, m, boxes[m][i]) /\ Current(o, n, boxes[n][j]) => m = n /\ i = j

InboxInv ==
    /\ inbox \in [Machines -> Seq(Frames)]
    /\ BoxesInv(inbox)
    /\ \A o \in Machines : at[o] = "wait" => OneCurrent(o, inbox)

PlacesInv ==
    /\ mode \in [Machines -> {"ping", "listen"}]
    /\ at \in [Machines -> {"closed", "send", "wait", "listen", "done"}]
    /\ \A m \in Machines :
           /\ mode[m] = "ping" => at[m] # "listen"
           /\ mode[m] = "listen" => at[m] \notin {"send", "wait"}

NumbersInv ==
    /\ count \in [Machines -> Counts]
    /\ pings \in [Machines -> Nat] /\ ok \in [Machines -> Nat]
    /\ result \in [Machines -> {0, 1}]
    /\ reported \in [Machines -> SUBSET Nat] /\ reached \in [Machines -> SUBSET Nat]

(* The report p is of the pong of ping q. *)
SameNumber(p, q) == q <= p /\ q % PingSeqSpace = p % PingSeqSpace

(* As many pongs were counted as pings sent only if each ping had its own.  *)
PongInv(m) ==
    /\ \A n \in reached[m] : n < count[m]
    /\ \A p \in reported[m] : p < count[m] /\ \E q \in reached[m] : SameNumber(p, q)
    /\ pings[m] <= count[m] /\ (at[m] = "wait" => pings[m] < count[m])
    /\ mode[m] = "ping" =>
           /\ ok[m] <= pings[m]
           /\ ok[m] = pings[m] => \A n \in Nat : n < pings[m] => n \in reached[m]
           /\ at[m] = "done" /\ result[m] = 0 =>
                  pings[m] = count[m] /\ ok[m] = count[m]

PongsInv == NumbersInv /\ \A m \in Machines : PongInv(m)

PingInv == InboxInv /\ PlacesInv /\ PongsInv

-----------------------------------------------------------------------------
LEMMA Others ==
    \A m \in Machines : Other[m] \in Machines /\ Other[Other[m]] = m /\ Other[m] # m
BY DEF Machines, Other

LEMMA Pingers == \A m \in Machines : \A f : Pinger(m, f) \in Machines
BY Others DEF Pinger

LEMMA InitPingInv == PingInit => PingInv
<1> SUFFICES ASSUME PingInit PROVE PingInv
  OBVIOUS
<1>1. InboxInv
  BY DEF PingInit, InboxInv, BoxesInv
<1>2. PlacesInv
  BY DEF PingInit, PlacesInv
<1>3. PongsInv
  <2>1. NumbersInv
    BY DEF PingInit, NumbersInv
  <2>2. ASSUME NEW m \in Machines
        PROVE  PongInv(m)
    <3>1. /\ reached[m] = {} /\ reported[m] = {} /\ count[m] \in Nat
          /\ pings[m] = 0 /\ ok[m] = 0 /\ at[m] = "closed"
      BY PingConstants DEF PingInit
    <3>2. QED
      BY <3>1 DEF PongInv
  <2>3. QED
    BY <2>1, <2>2 DEF PongsInv
<1>4. QED
  BY <1>1, <1>2, <1>3 DEF PingInv

(* A box with one frame more, *)
LEMMA AppendedBoxes ==
    ASSUME NEW boxes \in [Machines -> Seq(Frames)], NEW m \in Machines,
           NEW f \in Frames, NEW more, more = [boxes EXCEPT ![m] = Append(@, f)]
    PROVE  /\ more \in [Machines -> Seq(Frames)]
           /\ \A o \in Machines : \A i \in 1 .. Len(more[o]) :
                  \/ i \in 1 .. Len(boxes[o]) /\ more[o][i] = boxes[o][i]
                  \/ o = m /\ i = Len(boxes[m]) + 1 /\ more[o][i] = f
<1>1. /\ boxes[m] \in Seq(Frames) /\ Append(boxes[m], f) \in Seq(Frames)
      /\ Len(boxes[m]) \in Nat /\ Len(Append(boxes[m], f)) = Len(boxes[m]) + 1
      /\ Append(boxes[m], f)[Len(boxes[m]) + 1] = f
      /\ \A i \in 1 .. Len(boxes[m]) : Append(boxes[m], f)[i] = boxes[m][i]
  OBVIOUS
<1>2. more \in [Machines -> Seq(Frames)]
  BY <1>1
<1>3. ASSUME NEW o \in Machines, NEW i \in 1 .. Len(more[o])
      PROVE  \/ i \in 1 .. Len(boxes[o]) /\ more[o][i] = boxes[o][i]
             \/ o = m /\ i = Len(boxes[m]) + 1 /\ more[o][i] = f
  <2>1. more[o] = IF o = m THEN Append(boxes[m], f) ELSE boxes[o]
    OBVIOUS
  <2>2. CASE o = m
    BY <2>1, <2>2, <1>1
  <2>3. CASE o # m
    BY <2>1, <2>3
  <2>4. QED
    BY <2>2, <2>3
<1>4. QED
  BY <1>2, <1>3

(* is as true as before if the frame is, and is not a second one of the ping*)
(* that is under way; *)
LEMMA SentKeeps ==
    ASSUME NEW boxes \in [Machines -> Seq(Frames)], NEW m \in Machines,
           NEW f \in Frames, Delivers(boxes, m, f),
           BoxesInv(boxes)', FrameInv(m, f)',
           \A o \in Machines : at'[o] = "wait" =>
               /\ OneCurrent(o, boxes)'
               /\ Current(o, m, f)' => NoCurrent(o, boxes)'
    PROVE  InboxInv'
<1>1. CASE inbox' = boxes
  <2>1. BoxesInv(inbox)'
    BY <1>1 DEF BoxesInv
  <2>2. \A o \in Machines : at'[o] = "wait" => OneCurrent(o, inbox)'
    BY <1>1 DEF OneCurrent
  <2>3. QED
    BY <1>1, <2>1, <2>2 DEF InboxInv
<1>2. CASE inbox' = [boxes EXCEPT ![m] = Append(@, f)]
  <2> DEFINE New(o, i) == o = m /\ i = Len(boxes[m]) + 1 /\ inbox'[o][i] = f
             Old(o, i) == i \in 1 .. Len(boxes[o]) /\ inbox'[o][i] = boxes[o][i]
  <2>1. /\ inbox' \in [Machines -> Seq(Frames)]
        /\ \A o \in Machines : \A i \in 1 .. Len(inbox'[o]) : Old(o, i) \/ New(o, i)
    BY <1>2, AppendedBoxes
  <2>2. BoxesInv(inbox)'
    <3>1. ASSUME NEW o \in Machines, NEW i \in 1 .. Len(inbox'[o])
          PROVE  FrameInv(o, inbox[o][i])'
      <4>1. CASE Old(o, i)
        BY <4>1 DEF BoxesInv
      <4>2. CASE New(o, i)
        BY <4>2
      <4>3. QED
        BY <2>1, <4>1, <4>2
    <3>2. QED
      BY <3>1 DEF BoxesInv
  <2>3. ASSUME NEW o \in Machines, at'[o] = "wait"
        PROVE  OneCurrent(o, inbox)'
    <3>1. ASSUME NEW a \in Machines, NEW b \in Machines,
                 NEW i \in 1 .. Len(inbox'[a]), NEW j \in 1 .. Len(inbox'[b]),
                 Current(o, a, inbox[a][i])', Current(o, b, inbox[b][j])'
          PROVE  a = b /\ i = j
      <4>1. CASE Old(a, i) /\ Old(b, j)
        BY <2>3, <3>1, <4>1 DEF OneCurrent
      <4>2. CASE New(a, i) /\ New(b, j)
        BY <4>2
      <4>3. CASE Old(a, i) /\ New(b, j)
        <5>1. Current(o, m, f)' /\ Current(o, a, boxes[a][i])'
          BY <3>1, <4>3
        <5>2. QED
          BY <2>3, <5>1, <4>3 DEF NoCurrent
      <4>4. CASE New(a, i) /\ Old(b, j)
        <5>1. Current(o, m, f)' /\ Current(o, b, boxes[b][j])'
          BY <3>1, <4>4
        <5>2. QED
          BY <2>3, <5>1, <4>4 DEF NoCurrent
      <4>5. QED
        BY <2>1, <4>1, <4>2, <4>3, <4>4
    <3>2. QED
      BY <3>1 DEF OneCurrent
  <2>4. QED
    BY <2>1, <2>2, <2>3 DEF InboxInv
<1>3. QED
  BY <1>1, <1>2 DEF Delivers

(* and so is a box with one less. *)
LEMMA ReadBoxes ==
    ASSUME InboxInv, NEW m \in Machines, inbox[m] # << >>
    PROVE  /\ Head(inbox[m]) \in Frames /\ FrameInv(m, Head(inbox[m]))
           /\ Read(m) \in [Machines -> Seq(Frames)] /\ BoxesInv(Read(m))
           /\ \A o \in Machines : at[o] = "wait" =>
                  /\ OneCurrent(o, Read(m))
                  /\ Current(o, m, Head(inbox[m])) => NoCurrent(o, Read(m))
<1> DEFINE After(o) == IF o = m THEN 1 ELSE 0
<1>1. /\ inbox[m] \in Seq(Frames) /\ Len(inbox[m]) \in Nat /\ Len(inbox[m]) > 0
      /\ \A o \in Machines : Len(inbox[o]) \in Nat
  BY DEF InboxInv
<1>2. Head(inbox[m]) = inbox[m][1] /\ 1 \in 1 .. Len(inbox[m])
  BY <1>1
<1>3. Head(inbox[m]) \in Frames /\ FrameInv(m, Head(inbox[m]))
  BY <1>1, <1>2 DEF InboxInv, BoxesInv
<1>4. /\ Tail(inbox[m]) \in Seq(Frames) /\ Len(Tail(inbox[m])) = Len(inbox[m]) - 1
      /\ \A i \in 1 .. Len(Tail(inbox[m])) : Tail(inbox[m])[i] = inbox[m][i + 1]
  BY <1>1
<1>5. Read(m) \in [Machines -> Seq(Frames)]
  BY <1>4 DEF Read, InboxInv
<1>6. ASSUME NEW o \in Machines, NEW i \in 1 .. Len(Read(m)[o])
      PROVE  /\ i + After(o) \in 1 .. Len(inbox[o])
             /\ Read(m)[o][i] = inbox[o][i + After(o)]
             /\ o = m => i + After(o) # 1
  <2>1. CASE o = m
    <3>1. Read(m)[o] = Tail(inbox[m])
      BY <2>1 DEF Read, InboxInv
    <3>2. QED
      BY <3>1, <2>1, <1>1, <1>4
  <2>2. CASE o # m
    BY <2>2, <1>1 DEF Read, InboxInv
  <2>3. QED
    BY <2>1, <2>2
<1>7. BoxesInv(Read(m))
  BY <1>6 DEF InboxInv, BoxesInv
<1>8. ASSUME NEW o \in Machines, at[o] = "wait"
      PROVE  /\ OneCurrent(o, Read(m))
             /\ Current(o, m, Head(inbox[m])) => NoCurrent(o, Read(m))
  <2>1. OneCurrent(o, inbox)
    BY <1>8 DEF InboxInv
  <2>2. ASSUME NEW a \in Machines, NEW b \in Machines,
               NEW i \in 1 .. Len(Read(m)[a]), NEW j \in 1 .. Len(Read(m)[b]),
               Current(o, a, Read(m)[a][i]), Current(o, b, Read(m)[b][j])
        PROVE  a = b /\ i = j
    <3>1. /\ i + After(a) \in 1 .. Len(inbox[a]) /\ j + After(b) \in 1 .. Len(inbox[b])
          /\ Current(o, a, inbox[a][i + After(a)]) /\ Current(o, b, inbox[b][j + After(b)])
      BY <1>6, <2>2
    <3>2. a = b /\ i + After(a) = j + After(b)
      BY <2>1, <3>1 DEF OneCurrent
    <3>3. i \in Int /\ j \in Int
      OBVIOUS
    <3>4. QED
      BY <3>2, <3>3
  <2>3. ASSUME Current(o, m, Head(inbox[m])), NEW a \in Machines,
               NEW i \in 1 .. Len(Read(m)[a]), Current(o, a, Read(m)[a][i])
        PROVE  FALSE
    <3>1. /\ i + After(a) \in 1 .. Len(inbox[a]) /\ (a = m => i + After(a) # 1)
          /\ Current(o, a, inbox[a][i + After(a)]) /\ Current(o, m, inbox[m][1])
      BY <1>2, <1>6, <2>3
    <3>2. a = m /\ i + After(a) = 1
      BY <1>2, <2>1, <3>1 DEF OneCurrent
    <3>3. QED
      BY <3>1, <3>2
  <2>4. QED
    BY <2>2, <2>3 DEF OneCurrent, NoCurrent
<1>9. QED
  BY <1>3, <1>5, <1>7, <1>8

(* A pong with the number of the ping under way is of that ping or of an    *)
(* earlier one with the same number.                                        *)
LEMMA PongIsOfPing ==
    ASSUME PingInv, NEW m \in Machines, at[m] = "wait", inbox[m] # << >>,
           IsPongOf(m, Head(inbox[m]))
    PROVE  /\ Pinger(m, Head(inbox[m])) = m /\ Head(inbox[m]).of \in reached[m]
           /\ SameNumber(pings[m], Head(inbox[m]).of)
           /\ ok[m] = pings[m] => Current(m, m, Head(inbox[m]))
<1> DEFINE f == Head(inbox[m])
<1>1. f \in Frames /\ FrameInv(m, f) /\ f.kind = "PONG" /\ Pinger(m, f) = m
  BY ReadBoxes DEF PingInv, IsPongOf, Pinger
<1>2. /\ f.of \in Nat /\ f.of \in reached[m] /\ f.of <= pings[m]
      /\ f.seq = f.of % PingSeqSpace /\ (ok[m] = pings[m] => f.of >= pings[m])
  BY <1>1 DEF FrameInv, Frames
<1>3. pings[m] \in Nat
  BY DEF PingInv, PongsInv, NumbersInv
<1>4. SameNumber(pings[m], f.of)
  BY <1>2 DEF SameNumber, IsPongOf
<1>5. ok[m] = pings[m] => f.of = pings[m]
  BY <1>2, <1>3
<1>6. QED
  BY <1>1, <1>2, <1>4, <1>5 DEF Current

LEMMA Numbers ==
    ASSUME PingInv, NEW o \in Machines
    PROVE  /\ count[o] \in Nat /\ pings[o] \in Nat /\ ok[o] \in Nat
           /\ reached[o] \subseteq Nat /\ reported[o] \subseteq Nat
           /\ PongInv(o)
BY PingConstants DEF PingInv, PongsInv, NumbersInv

(* What a frame says stays true when its pinger does, *)
LEMMA FrameStays ==
    ASSUME NEW m \in Machines, NEW f, FrameInv(m, f), NEW o, o = Pinger(m, f),
           mode' = mode, count' = count, pings'[o] = pings[o], ok'[o] = ok[o],
           at'[o] = at[o], reached[o] \subseteq reached'[o]
    PROVE  FrameInv(m, f)'
BY DEF FrameInv, Pinger

(* and when its pinger opens, ends or gives up this ping. *)
LEMMA QuietFrames ==
    ASSUME PingInv, NEW m \in Machines,
           OpenTool(m) \/ PongTimesOut(m) \/ ReportPings(m) \/ ToolFails(m),
           NEW n \in Machines, NEW f \in Frames, FrameInv(n, f)
    PROVE  FrameInv(n, f)'
<1>1. /\ mode' = mode /\ count' = count /\ reached' = reached /\ ok' = ok
      /\ \A o \in Machines : o # m => at'[o] = at[o] /\ pings'[o] = pings[o]
  BY DEF OpenTool, PongTimesOut, ReportPings, ToolFails, PingInv, PlacesInv, PongsInv,
         NumbersInv
<1>2. PICK o \in Machines : o = Pinger(n, f)
  BY Pingers
<1>3. CASE o # m
  BY <1>1, <1>2, <1>3, FrameStays
<1>4. CASE o = m
  <2>1. /\ f.of \in Nat /\ f.of <= pings[m] /\ f.of < count[m] /\ mode[m] = "ping"
        /\ (at[m] \in {"closed", "send"} => f.of < pings[m])
        /\ (at[m] # "done" /\ ok[m] = pings[m] => f.of >= pings[m])
    BY <1>2, <1>4 DEF FrameInv, Frames
  <2>2. /\ pings[m] \in Nat /\ ok[m] \in Nat /\ (mode[m] = "ping" => ok[m] <= pings[m])
    BY Numbers DEF PongInv
  <2>3. /\ f.of <= pings'[m]
        /\ at'[m] \in {"closed", "send"} => f.of < pings'[m]
        /\ at'[m] # "done" /\ ok'[m] = pings'[m] => f.of >= pings'[m]
    <3>1. CASE OpenTool(m)
      <4>1. at[m] = "closed" /\ pings' = pings /\ ok' = ok
        BY <3>1 DEF OpenTool
      <4>2. QED
        BY <2>1, <4>1
    <3>2. CASE PongTimesOut(m)
      <4>1. pings'[m] = pings[m] + 1 /\ ok' = ok
        BY <3>2 DEF PongTimesOut, PingInv, PongsInv, NumbersInv
      <4>2. QED
        BY <2>1, <2>2, <4>1
    <3>3. CASE ReportPings(m) \/ ToolFails(m)
      <4>1. at'[m] = "done" /\ pings' = pings
        BY <3>3 DEF ReportPings, ToolFails, PingInv, PlacesInv
      <4>2. QED
        BY <2>1, <4>1
    <3>4. QED
      BY <3>1, <3>2, <3>3
  <2>4. QED
    BY <1>1, <1>2, <1>4, <2>3 DEF FrameInv, Pinger
<1>5. QED
  BY <1>3, <1>4

(* Steps that leave the boxes and what was answered alone. *)
LEMMA QuietPingStep ==
    ASSUME PingInv, NEW m \in Machines,
           OpenTool(m) \/ PongTimesOut(m) \/ ReportPings(m) \/ ToolFails(m)
    PROVE  PingInv'
<1>1. inbox' = inbox /\ count' = count /\ reached' = reached
  BY DEF OpenTool, PongTimesOut, ReportPings, ToolFails
<1>2. InboxInv'
  <2>1. inbox \in [Machines -> Seq(Frames)] /\ BoxesInv(inbox)
    BY DEF PingInv, InboxInv
  <2>2. BoxesInv(inbox)'
    <3>1. ASSUME NEW n \in Machines, NEW i \in 1 .. Len(inbox[n])
          PROVE  FrameInv(n, inbox[n][i])'
      <4>1. PICK f \in Frames : f = inbox[n][i]
        BY <2>1
      <4>2. FrameInv(n, f)'
        BY <2>1, <4>1, QuietFrames DEF BoxesInv
      <4>3. QED
        BY <1>1, <4>1, <4>2
    <3>2. QED
      BY <1>1, <3>1 DEF BoxesInv
  <2>3. ASSUME NEW o \in Machines, at'[o] = "wait"
        PROVE  OneCurrent(o, inbox)'
    <3>1. at[o] = "wait" /\ pings'[o] = pings[o]
      BY <2>3 DEF OpenTool, PongTimesOut, ReportPings, ToolFails, PingInv, PlacesInv,
                  PongsInv, NumbersInv
    <3>2. OneCurrent(o, inbox)
      BY <3>1 DEF PingInv, InboxInv
    <3>3. QED
      BY <1>1, <3>1, <3>2 DEF OneCurrent, Current, Pinger
  <2>4. QED
    BY <1>1, <2>1, <2>2, <2>3 DEF InboxInv
<1>3. PlacesInv'
  BY DEF PingInv, PlacesInv, OpenTool, PongTimesOut, ReportPings, ToolFails
<1>4. \A o \in Machines : count[o] \in Nat
  BY Numbers
<1>5. NumbersInv'
  <2> USE DEF PingInv, PongsInv, NumbersInv
  <2>1. CASE OpenTool(m)
    BY <2>1 DEF OpenTool
  <2>2. CASE PongTimesOut(m)
    BY <2>2 DEF PongTimesOut
  <2>3. CASE ReportPings(m)
    BY <2>3 DEF ReportPings
  <2>4. CASE ToolFails(m)
    BY <2>4 DEF ToolFails
  <2>5. QED
    BY <2>1, <2>2, <2>3, <2>4
<1>6. ASSUME NEW o \in Machines
      PROVE  PongInv(o)'
  <2> USE <1>4 DEF PingInv, PlacesInv, PongsInv, NumbersInv, PongInv
  <2>1. CASE OpenTool(m)
    BY <2>1 DEF OpenTool
  <2>2. CASE PongTimesOut(m)
    BY <2>2 DEF PongTimesOut
  <2>3. CASE ReportPings(m)
    BY <2>3 DEF ReportPings
  <2>4. CASE ToolFails(m)
    BY <2>4 DEF ToolFails
  <2>5. QED
    BY <2>1, <2>2, <2>3, <2>4
<1>7. QED
  BY <1>2, <1>3, <1>5, <1>6 DEF PingInv, PongsInv

(* A ping that is sent is the first frame of that ping. *)
LEMMA SendPingStep ==
    ASSUME PingInv, NEW m \in Machines, SendPing(m)
    PROVE  PingInv'
<1>1. /\ pings[m] \in Nat /\ count[m] \in Nat /\ pings[m] < count[m]
      /\ at[m] = "send" /\ mode[m] = "ping" /\ at'[m] = "wait"
      /\ PingSeqSpace \in Nat \ {0} /\ Other[m] \in Machines /\ Other[Other[m]] = m
  BY Numbers, PingConstants, Others DEF PingInv, PlacesInv, SendPing
<1>2. PICK f \in Frames :
          f = [kind |-> "PING", seq |-> pings[m] % PingSeqSpace, of |-> pings[m]]
  <2>1. pings[m] % PingSeqSpace \in Nat
    BY <1>1
  <2>2. QED
    BY <2>1, <1>1 DEF Frames
<1>3. PICK boxes \in [Machines -> Seq(Frames)] : boxes = inbox
  BY DEF PingInv, InboxInv
<1>4. /\ mode' = mode /\ count' = count /\ pings' = pings /\ ok' = ok
      /\ reached' = reached /\ \A o \in Machines : o # m => at'[o] = at[o]
  BY DEF SendPing
<1>5. ASSUME NEW n \in Machines, NEW g \in Frames, FrameInv(n, g)
      PROVE  FrameInv(n, g)' /\ ~Current(m, n, g)
  <2>1. PICK o \in Machines : o = Pinger(n, g)
    BY Pingers
  <2>2. CASE o = m
    BY <1>1, <1>4, <1>5, <2>1, <2>2 DEF FrameInv, Pinger, Current, Frames
  <2>3. CASE o # m
    BY <1>4, <1>5, <2>1, <2>3, FrameStays DEF Current
  <2>4. QED
    BY <2>2, <2>3
<1>6. \A n \in Machines : \A i \in 1 .. Len(boxes[n]) :
          boxes[n][i] \in Frames /\ FrameInv(n, boxes[n][i])
  BY <1>3 DEF PingInv, InboxInv, BoxesInv
<1>7. BoxesInv(boxes)' /\ NoCurrent(m, boxes)
  BY <1>5, <1>6 DEF BoxesInv, NoCurrent
<1>8. FrameInv(Other[m], f)' /\ Pinger(Other[m], f) = m
  <2>1. Pinger(Other[m], f) = m
    BY <1>1, <1>2 DEF Pinger
  <2>2. QED
    BY <1>1, <1>2, <1>4, <2>1 DEF FrameInv, Pinger
<1>9. ASSUME NEW o \in Machines, at'[o] = "wait"
      PROVE  /\ OneCurrent(o, boxes)'
             /\ Current(o, Other[m], f)' => NoCurrent(o, boxes)'
  <2>1. CASE o = m
    <3>1. NoCurrent(m, boxes)'
      BY <1>4, <1>7 DEF NoCurrent, Current, Pinger
    <3>2. QED
      BY <2>1, <3>1 DEF NoCurrent, OneCurrent
  <2>2. CASE o # m
    <3>1. OneCurrent(o, boxes)
      BY <1>3, <1>4, <1>9, <2>2 DEF PingInv, InboxInv
    <3>2. OneCurrent(o, boxes)'
      BY <1>4, <3>1 DEF OneCurrent, Current, Pinger
    <3>3. ~Current(o, Other[m], f)'
      BY <1>8, <2>2 DEF Current, Pinger
    <3>4. QED
      BY <3>2, <3>3
  <2>3. QED
    BY <2>1, <2>2
<1>10. InboxInv'
  <2>1. Delivers(boxes, Other[m], f)
    BY <1>2, <1>3 DEF SendPing
  <2>2. PICK n \in Machines : n = Other[m]
    BY <1>1
  <2>3. FrameInv(n, f)' /\ \A o \in Machines : Current(o, n, f)' <=> Current(o, Other[m], f)'
    BY <1>8, <2>2 DEF FrameInv, Current, Pinger
  <2>4. QED
    BY <1>7, <1>9, <2>1, <2>2, <2>3, SentKeeps
<1>11. PlacesInv'
  BY DEF PingInv, PlacesInv, SendPing
<1>12. PongsInv'
  BY <1>1 DEF PingInv, PlacesInv, PongsInv, NumbersInv, PongInv, SendPing
<1>13. QED
  BY <1>10, <1>11, <1>12 DEF PingInv

(* A frame that is ignored leaves the others as they are; *)
LEMMA IgnoreFrameStep ==
    ASSUME PingInv, NEW m \in Machines, IgnoreFrame(m)
    PROVE  PingInv'
<1>1. /\ inbox' = Read(m) /\ inbox[m] # << >>
      /\ UNCHANGED <<mode, count, at, pings, ok, result, reported, reached>>
  BY DEF IgnoreFrame
<1>2. PICK boxes \in [Machines -> Seq(Frames)] :
          /\ boxes = Read(m) /\ BoxesInv(boxes)
          /\ \A o \in Machines : at[o] = "wait" => OneCurrent(o, boxes)
  BY <1>1, ReadBoxes DEF PingInv
<1>3. BoxesInv(inbox)'
  BY <1>1, <1>2 DEF BoxesInv, FrameInv, Pinger
<1>4. ASSUME NEW o \in Machines, at'[o] = "wait"
      PROVE  OneCurrent(o, inbox)'
  <2>1. inbox' = boxes /\ OneCurrent(o, boxes)
    BY <1>1, <1>2, <1>4
  <2>2. \A n, f : Current(o, n, f)' <=> Current(o, n, f)
    BY <1>1 DEF Current, Pinger
  <2>3. QED
    BY <2>1, <2>2 DEF OneCurrent
<1>5. InboxInv'
  BY <1>1, <1>2, <1>3, <1>4 DEF InboxInv
<1>6. PlacesInv'
  BY <1>1 DEF PingInv, PlacesInv
<1>7. PongsInv'
  BY <1>1 DEF PingInv, PongsInv, NumbersInv, PongInv
<1>8. QED
  BY <1>5, <1>6, <1>7 DEF PingInv

(* a pong that is counted is the last frame of its ping if all before had   *)
(* theirs; *)
LEMMA CountPongStep ==
    ASSUME PingInv, NEW m \in Machines, CountPong(m)
    PROVE  PingInv'
<1>1. /\ inbox' = Read(m) /\ inbox[m] # << >> /\ at[m] = "wait" /\ at'[m] = "send"
      /\ mode' = mode /\ count' = count /\ reached' = reached /\ result' = result
      /\ pings' = [pings EXCEPT ![m] = @ + 1] /\ ok' = [ok EXCEPT ![m] = @ + 1]
      /\ \A o \in Machines : o # m => at'[o] = at[o]
  BY DEF CountPong, PingInv, PlacesInv
<1>2. /\ pings'[m] = pings[m] + 1 /\ ok'[m] = ok[m] + 1
      /\ \A o \in Machines : o # m => pings'[o] = pings[o] /\ ok'[o] = ok[o]
  BY <1>1 DEF PingInv, PongsInv, NumbersInv
<1>3. pings[m] \in Nat /\ ok[m] \in Nat /\ mode[m] = "ping" /\ count[m] \in Nat
      /\ PongInv(m)
  BY <1>1, Numbers DEF PingInv, PlacesInv
<1>4. PICK boxes \in [Machines -> Seq(Frames)] :
          /\ boxes = Read(m) /\ BoxesInv(boxes)
          /\ \A o \in Machines : at[o] = "wait" => OneCurrent(o, boxes)
          /\ ok[m] = pings[m] => NoCurrent(m, boxes)
  BY <1>1, ReadBoxes, PongIsOfPing DEF PingInv, CountPong
<1>5. ASSUME NEW n \in Machines, NEW i \in 1 .. Len(boxes[n])
      PROVE  FrameInv(n, boxes[n][i])'
  <2>1. PICK f \in Frames : f = boxes[n][i]
    BY <1>4
  <2>2. FrameInv(n, f) /\ (ok[m] = pings[m] => ~Current(m, n, f))
    BY <1>4, <2>1 DEF BoxesInv, NoCurrent
  <2>3. PICK o \in Machines : o = Pinger(n, f)
    BY Pingers
  <2>4. CASE o # m
    <3>1. FrameInv(n, f)'
      BY <1>1, <1>2, <2>2, <2>3, <2>4, FrameStays
    <3>2. QED
      BY <2>1, <3>1
  <2>5. CASE o = m
    <3>1. /\ f.of \in Nat /\ f.of <= pings[m]
          /\ (ok[m] = pings[m] => f.of >= pings[m] /\ f.of # pings[m])
      BY <1>1, <2>2, <2>3, <2>5 DEF FrameInv, Frames, Current
    <3>2. /\ f.of < pings'[m] /\ f.of <= pings'[m]
          /\ ok'[m] = pings'[m] => f.of >= pings'[m]
      <4>1. \A a, b, c \in Nat : a <= b => a < b + 1 /\ a <= b + 1
        OBVIOUS
      <4>2. \A a, b, c \in Nat : (c = b => a >= b /\ a # b) => (c + 1 = b + 1 => a >= b + 1)
        OBVIOUS
      <4>3. QED
        BY <1>2, <1>3, <3>1, <4>1, <4>2
    <3>3. FrameInv(n, f)'
      BY <1>1, <2>2, <2>3, <2>5, <3>1, <3>2 DEF FrameInv, Pinger
    <3>4. QED
      BY <2>1, <3>3
  <2>6. QED
    BY <2>4, <2>5
<1>6. ASSUME NEW o \in Machines, at'[o] = "wait"
      PROVE  OneCurrent(o, boxes)'
  <2>1. o # m /\ at[o] = "wait" /\ pings'[o] = pings[o]
    BY <1>1, <1>2, <1>6
  <2>2. \A n, f : Current(o, n, f)' <=> Current(o, n, f)
    BY <2>1 DEF Current, Pinger
  <2>3. QED
    BY <1>4, <2>1, <2>2 DEF OneCurrent
<1>7. InboxInv'
  <2>1. inbox' = boxes
    BY <1>1, <1>4
  <2>2. BoxesInv(inbox)'
    BY <1>5, <2>1 DEF BoxesInv
  <2>3. \A o \in Machines : at'[o] = "wait" => OneCurrent(o, inbox)'
    BY <1>6, <2>1 DEF OneCurrent
  <2>4. QED
    BY <2>1, <2>2, <2>3 DEF InboxInv
<1>8. PlacesInv'
  BY DEF PingInv, PlacesInv, CountPong
<1>9. PICK q \in reached[m] : /\ SameNumber(pings[m], q)
                              /\ ok[m] = pings[m] => q = pings[m]
  BY <1>1, PongIsOfPing DEF CountPong, Current
<1>10. PongInv(m)'
  <2>1. reported'[m] = reported[m] \cup {pings[m]}
    BY DEF CountPong, PingInv, PongsInv, NumbersInv
  <2>2. pings[m] < count[m]
    BY <1>1, <1>3 DEF PongInv
  <2>3. \A p \in reported'[m] : p < count[m] /\ \E x \in reached[m] : SameNumber(p, x)
    BY <1>3, <1>9, <2>1, <2>2 DEF PongInv
  <2>4. ok[m] <= pings[m] /\ (ok[m] = pings[m] =>
            \A n \in Nat : n < pings[m] + 1 => n \in reached[m])
    BY <1>3, <1>9 DEF PongInv
  <2>5. /\ pings'[m] <= count'[m] /\ ok'[m] <= pings'[m]
        /\ ok'[m] = pings'[m] => \A n \in Nat : n < pings'[m] => n \in reached'[m]
    BY <1>1, <1>2, <1>3, <2>2, <2>4
  <2>6. QED
    BY <1>1, <1>3, <2>3, <2>5 DEF PongInv, SameNumber
<1>11. ASSUME NEW o \in Machines, o # m
       PROVE  PongInv(o)'
  <2>1. reported'[o] = reported[o] /\ PongInv(o)
    BY <1>11, Numbers DEF CountPong, PingInv, PongsInv, NumbersInv
  <2>2. QED
    BY <1>1, <1>2, <1>11, <2>1 DEF PongInv, SameNumber
<1>12. NumbersInv'
  BY DEF PingInv, PongsInv, NumbersInv, CountPong
<1>13. QED
  BY <1>7, <1>8, <1>10, <1>11, <1>12 DEF PingInv, PongsInv

(* an answer takes the place of its ping. *)
LEMMA AnswerPingStep ==
    ASSUME PingInv, NEW m \in Machines, AnswerPing(m)
    PROVE  PingInv'
<1> DEFINE p == Head(inbox[m])
<1>0. /\ inbox[m] # << >> /\ p.kind = "PING" /\ mode[m] = "listen" /\ at'[m] # "wait"
      /\ mode' = mode /\ count' = count /\ pings' = pings /\ result' = result
      /\ reported' = reported
      /\ \A x \in Machines : x # m => at'[x] = at[x] /\ ok'[x] = ok[x]
  BY DEF AnswerPing, PingInv, PlacesInv, PongsInv, NumbersInv
<1>1. PICK o \in Machines : o = Other[m] /\ o # m /\ Other[o] = m
  BY Others
<1>2. PICK boxes \in [Machines -> Seq(Frames)] :
          /\ boxes = Read(m) /\ BoxesInv(boxes)
          /\ \A x \in Machines : at[x] = "wait" =>
                 /\ OneCurrent(x, boxes)
                 /\ Current(x, m, p) => NoCurrent(x, boxes)
  BY <1>0, ReadBoxes DEF PingInv
<1>3. p \in Frames /\ FrameInv(m, p) /\ Pinger(m, p) = o
  BY <1>0, <1>1, ReadBoxes DEF PingInv, Pinger
<1>4. PICK g \in Frames : /\ g = [p EXCEPT !.kind = "PONG"]
                          /\ g.kind = "PONG" /\ g.of = p.of /\ g.seq = p.seq
  <2> DEFINE h == [p EXCEPT !.kind = "PONG"]
  <2>1. h \in Frames
    BY <1>3 DEF Frames
  <2>2. h.kind = "PONG" /\ h.of = p.of /\ h.seq = p.seq
    BY <1>3 DEF Frames
  <2>3. QED
    BY <2>1, <2>2
<1>5. /\ reached' = [reached EXCEPT ![o] = @ \cup {g.of}]
      /\ Delivers(boxes, o, g)
  BY <1>1, <1>2, <1>4 DEF AnswerPing
<1>6. \A x \in Machines : reached[x] \subseteq reached'[x]
  BY <1>5 DEF PingInv, PongsInv, NumbersInv
<1>7. ASSUME NEW n \in Machines, NEW f, FrameInv(n, f)
      PROVE  FrameInv(n, f)'
  <2>1. PICK x \in Machines : x = Pinger(n, f)
    BY Pingers
  <2>2. x # m
    BY <1>0, <1>7, <2>1 DEF FrameInv
  <2>3. QED
    BY <1>0, <1>6, <1>7, <2>1, <2>2, FrameStays
<1>8. BoxesInv(boxes)'
  BY <1>2, <1>7 DEF BoxesInv
<1>9. FrameInv(o, g)' /\ Pinger(o, g) = o
  <2>1. Pinger(o, g) = o
    BY <1>4 DEF Pinger
  <2>2. g.of \in reached'[o]
    BY <1>5 DEF PingInv, PongsInv, NumbersInv
  <2>3. /\ g.seq = g.of % PingSeqSpace /\ mode[o] = "ping" /\ g.of < count[o]
        /\ g.of <= pings[o] /\ (at[o] \in {"closed", "send"} => g.of < pings[o])
        /\ (at[o] # "done" /\ ok[o] = pings[o] => g.of >= pings[o])
    BY <1>3, <1>4 DEF FrameInv
  <2>4. QED
    BY <1>0, <1>1, <2>1, <2>2, <2>3 DEF FrameInv, Pinger
<1>10. ASSUME NEW x \in Machines, at'[x] = "wait"
       PROVE  /\ OneCurrent(x, boxes)'
              /\ Current(x, o, g)' => NoCurrent(x, boxes)'
  <2>1. at[x] = "wait" /\ pings'[x] = pings[x]
    BY <1>0, <1>10
  <2>2. OneCurrent(x, boxes)'
    <3>1. OneCurrent(x, boxes)
      BY <1>2, <2>1
    <3>2. ASSUME NEW y \in Machines, NEW n \in Machines,
                 NEW i \in 1 .. Len(boxes[y]), NEW j \in 1 .. Len(boxes[n]),
                 Current(x, y, boxes[y][i])', Current(x, n, boxes[n][j])'
          PROVE  y = n /\ i = j
      <4>1. Current(x, y, boxes[y][i]) /\ Current(x, n, boxes[n][j])
        BY <2>1, <3>2 DEF Current, Pinger
      <4>2. QED
        BY <3>1, <4>1 DEF OneCurrent
    <3>3. QED
      BY <3>2 DEF OneCurrent
  <2>3. ASSUME Current(x, o, g)'
        PROVE  NoCurrent(x, boxes)'
    <3>1. Current(x, m, p)
      BY <1>3, <1>4, <1>9, <2>1, <2>3 DEF Current, Pinger
    <3>2. QED
      BY <1>2, <2>1, <3>1 DEF NoCurrent, Current, Pinger
  <2>4. QED
    BY <2>2, <2>3
<1>11. InboxInv'
  BY <1>5, <1>8, <1>9, <1>10, SentKeeps
<1>12. PlacesInv'
  BY DEF PingInv, PlacesInv, AnswerPing
<1>13. g.of \in Nat /\ g.of < count[o]
  BY <1>3, <1>4 DEF FrameInv, Frames
<1>14. NumbersInv'
  <2>1. reached' \in [Machines -> SUBSET Nat]
    BY <1>5, <1>13 DEF PingInv, PongsInv, NumbersInv
  <2>2. ok' \in [Machines -> Nat]
    BY DEF AnswerPing, PingInv, PongsInv, NumbersInv
  <2>3. QED
    BY <1>0, <2>1, <2>2 DEF PingInv, PongsInv, NumbersInv
<1>15. ASSUME NEW x \in Machines
       PROVE  PongInv(x)'
  <2>1. PongInv(x) /\ \A n \in reached'[x] : n < count[x]
    BY <1>5, <1>13, Numbers DEF PingInv, PongsInv, NumbersInv, PongInv
  <2>2. \A n \in reported[x] : n < count[x] /\ \E y \in reached'[x] : SameNumber(n, y)
    BY <1>6, <2>1 DEF PongInv
  <2>3. QED
    BY <1>0, <1>6, <2>1, <2>2 DEF PongInv, SameNumber
<1>16. QED
  BY <1>11, <1>12, <1>14, <1>15 DEF PingInv, PongsInv

(* Two pings of a run of no more than PingSeqSpace have different numbers. *)
LEMMA NumbersDiffer ==
    ASSUME NEW n \in Nat, n <= PingSeqSpace, NEW p \in Nat, NEW q \in Nat,
           p < n, q <= p, q % PingSeqSpace = p % PingSeqSpace
    PROVE  q = p
<1>1. PingSeqSpace \in Nat \ {0} /\ p < PingSeqSpace /\ q < PingSeqSpace
  BY PingConstants
<1>2. \A x \in Nat : x < PingSeqSpace => x % PingSeqSpace = x
  BY <1>1
<1>3. QED
  BY <1>1, <1>2

LEMMA PongsAreTrue == PingInv => ReportsAreTrue
<1> SUFFICES ASSUME PingInv, NEW m \in Machines, mode[m] = "ping"
             PROVE  /\ \A p \in reported[m] : \E q \in reached[m] :
                           q <= p /\ q % PingSeqSpace = p % PingSeqSpace
                    /\ count[m] <= PingSeqSpace => reported[m] \subseteq reached[m]
                    /\ at[m] = "done" /\ result[m] = 0 =>
                           reached[m] = 0 .. count[m] - 1
  BY DEF ReportsAreTrue
<1>1. /\ PongInv(m) /\ reached[m] \subseteq Nat /\ reported[m] \subseteq Nat
      /\ count[m] \in Nat
  BY Numbers
<1>2. \A p \in reported[m] : p < count[m] /\ \E q \in reached[m] :
          q <= p /\ q % PingSeqSpace = p % PingSeqSpace
  BY <1>1 DEF PongInv, SameNumber
<1>3. ASSUME count[m] <= PingSeqSpace, NEW p \in reported[m]
      PROVE  p \in reached[m]
  <2>1. PICK q \in reached[m] : q <= p /\ q % PingSeqSpace = p % PingSeqSpace
    BY <1>2
  <2>2. p < count[m] /\ p \in Nat /\ q \in Nat
    BY <1>1, <1>2
  <2>3. QED
    BY <1>1, <1>3, <2>1, <2>2, NumbersDiffer
<1>4. ASSUME at[m] = "done", result[m] = 0
      PROVE  reached[m] = 0 .. count[m] - 1
  <2>1. \A n \in reached[m] : n \in 0 .. count[m] - 1
    BY <1>1 DEF PongInv
  <2>2. \A n \in 0 .. count[m] - 1 : n \in reached[m]
    BY <1>1, <1>4 DEF PongInv
  <2>3. QED
    BY <2>1, <2>2
<1>5. QED
  BY <1>2, <1>3, <1>4

(* ReportsAreTrue for every count, also one beyond the two bytes of the     *)
(* number, any loss and any delay.                                          *)
THEOREM PongsAreOfTheirPings == PingSpec => []ReportsAreTrue
<1>1. PingInv /\ [PingNext]_pingVars => PingInv'
  <2> SUFFICES ASSUME PingInv, [PingNext]_pingVars
               PROVE  PingInv'
    OBVIOUS
  <2>1. CASE PingNext
    BY <2>1, QuietPingStep, SendPingStep, IgnoreFrameStep, CountPongStep, AnswerPingStep
       DEF PingNext
  <2>2. CASE UNCHANGED pingVars
    BY <2>2 DEF pingVars, PingInv, InboxInv, BoxesInv, FrameInv, OneCurrent, Current,
                Pinger, PlacesInv, PongsInv, NumbersInv, PongInv, SameNumber
  <2>3. QED
    BY <2>1, <2>2
<1>2. PingInv => ReportsAreTrue
  BY PongsAreTrue
<1>3. QED
  BY <1>1, <1>2, InitPingInv, PTL DEF PingSpec

-----------------------------------------------------------------------------
(* The keyboard.                                                            *)

(* Every way out of ui_game_view_read_key leads to the end of its first byte*)
(* or to that of the text, and both restore the terminal.                   *)
THEOREM TerminalIsRestored == KeyboardSpec => []TerminalRestored
<1>1. KeyboardInit => TerminalRestored
  BY DEF KeyboardInit, TerminalRestored
<1>2. TerminalRestored /\ [KeyboardNext]_keyboardVars => TerminalRestored'
  <2> SUFFICES ASSUME TerminalRestored, [KeyboardNext]_keyboardVars
               PROVE  TerminalRestored'
    OBVIOUS
  <2> USE DEF TerminalRestored
  <2>1. CASE ReadKey
    BY <2>1 DEF ReadKey, StartRawRead, ReadLine, ReadLastLine, ReadFirst, ReadMore,
                EndOfText
  <2>2. CASE InputEnds
    BY <2>2 DEF InputEnds, NothingToRead, FirstReadEnds, TimeoutNotSet, MoreReadFails
  <2>3. CASE Obey
    BY <2>3 DEF Obey
  <2>4. ASSUME NEW key \in KeysTyped, Type(key)
        PROVE  TerminalRestored'
    BY <2>4 DEF Type
  <2>5. CASE UNCHANGED keyboardVars
    BY <2>5 DEF keyboardVars
  <2>6. QED
    BY <2>1, <2>2, <2>3, <2>4, <2>5 DEF KeyboardNext
<1>3. QED
  BY <1>1, <1>2, PTL DEF KeyboardSpec

-----------------------------------------------------------------------------
(* The view codec: ViewSurvives for every even number of cells and every    *)
(* set of views and messages.  What makes it inductive is that the bytes    *)
(* are a function of the view that was sent, and the shown view one of the  *)
(* bytes, whoever sent them.                                                *)

ViewCodecInv ==
    /\ \/ cells \in Views
       \/ cells = << >> /\ packed \in ForeignBytes
    /\ cells # << >> /\ packed # << >> => Packable(cells) /\ packed = Packed(cells)
    /\ shown # << >> => packed # << >> /\ Readable(packed) /\ shown = Unpacked(packed)
    /\ packed # << >> /\ refused => ~Readable(packed)

(* The code of a cell is one of fourteen, and stands for that cell only.    *)
LEMMA CodeOfCell ==
    ASSUME NEW c \in KnownCells
    PROVE  CodeOf(c) \in 0 .. 13 /\ CellOf(CodeOf(c)) = c
<1>1. Len(Alphabet) = 14
  BY DEF Alphabet
<1>2. PICK i \in 1 .. 14 : Alphabet[i] = c
  BY <1>1 DEF KnownCells
<1>3. i - 1 \in 0 .. 15 /\ i - 1 < Len(Alphabet) /\ Alphabet[(i - 1) + 1] = c
  BY <1>1, <1>2
<1>4. PICK code : code = CodeOf(c)
  OBVIOUS
<1>5. code \in 0 .. 15 /\ code < Len(Alphabet) /\ Alphabet[code + 1] = c
  BY <1>3, <1>4, Zenon DEF CodeOf
<1> QED
  BY <1>1, <1>4, <1>5 DEF CellOf

LEMMA CellOfCode ==
    ASSUME NEW k \in 0 .. 13
    PROVE  CellOf(k) \in KnownCells /\ CodeOf(CellOf(k)) = k
<1>1. Len(Alphabet) = 14
  BY DEF Alphabet
<1>2. CellOf(k) \in KnownCells
  BY <1>1 DEF CellOf, KnownCells
<1>3. PICK j \in 0 .. 13 : j = CodeOf(CellOf(k)) /\ Alphabet[j + 1] = Alphabet[k + 1]
  BY <1>2, CodeOfCell DEF CellOf
<1>4. j = k
  BY <1>3 DEF Alphabet
<1> QED
  BY <1>2, <1>3, <1>4

(* The two halves of a byte come apart as they were put together.           *)
LEMMA PairOfCodes ==
    ASSUME NEW a \in 0 .. 13, NEW b \in 0 .. 13
    PROVE  (a * 16 + b) \div 16 = a /\ (a * 16 + b) % 16 = b
OBVIOUS

(* Which byte holds the i-th cell, and which half of it.                    *)
LEMMA HalfOf ==
    ASSUME NEW n \in Nat, n % 2 = 0, NEW i \in 1 .. n
    PROVE  /\ (i + 1) \div 2 \in 1 .. n \div 2
           /\ i % 2 = 1 => 2 * ((i + 1) \div 2) - 1 = i
           /\ i % 2 # 1 => 2 * ((i + 1) \div 2) = i
OBVIOUS

(* Unpacking undoes packing, cell by cell.                                  *)
LEMMA UnpackedIsPacked ==
    ASSUME NEW v \in Seq(STRING), Packable(v)
    PROVE  Unpacked(Packed(v)) = v
<1>1. CellCount \in Nat /\ CellCount % 2 = 0
  BY ViewCodecConstants
<1>2. ASSUME NEW i \in 1 .. CellCount
      PROVE  Unpacked(Packed(v))[i] = v[i]
  <2>1. PICK k \in 1 .. CellCount \div 2 : k = (i + 1) \div 2
    BY <1>1, HalfOf
  <2>2. (i % 2 = 1 => 2 * k - 1 = i) /\ (i % 2 # 1 => 2 * k = i)
    BY <1>1, <2>1, HalfOf
  <2>3. 2 * k - 1 \in 1 .. CellCount /\ 2 * k \in 1 .. CellCount
    BY <1>1, <2>1
  <2>4. v[2 * k - 1] \in KnownCells /\ v[2 * k] \in KnownCells
    BY <2>3 DEF Packable
  <2>5. PICK a \in 0 .. 13 : a = CodeOf(v[2 * k - 1]) /\ CellOf(a) = v[2 * k - 1]
    BY <2>4, CodeOfCell
  <2>6. PICK b \in 0 .. 13 : b = CodeOf(v[2 * k]) /\ CellOf(b) = v[2 * k]
    BY <2>4, CodeOfCell
  <2>7. Packed(v)[k] = a * 16 + b
    BY <2>5, <2>6 DEF Packed
  <2>8. (a * 16 + b) \div 16 = a /\ (a * 16 + b) % 16 = b
    BY PairOfCodes
  <2>9. Unpacked(Packed(v))[i] = CellOf(IF i % 2 = 1 THEN a ELSE b)
    BY <2>1, <2>7, <2>8 DEF Unpacked
  <2> QED
    BY <2>2, <2>5, <2>6, <2>9
<1>3. v = [i \in 1 .. CellCount |-> v[i]]
  BY <1>1 DEF Packable
<1>4. Unpacked(Packed(v)) = [i \in 1 .. CellCount |-> Unpacked(Packed(v))[i]]
  BY DEF Unpacked
<1> QED
  BY <1>2, <1>3, <1>4

(* A message has one byte per two cells, and both its codes are in use.     *)
LEMMA PackedBytes ==
    ASSUME NEW v \in Seq(STRING), Packable(v)
    PROVE  Readable(Packed(v))
<1>1. CellCount \in Nat /\ CellCount % 2 = 0 /\ CellCount \div 2 \in Nat
  BY ViewCodecConstants
<1>2. ASSUME NEW k \in 1 .. CellCount \div 2
      PROVE  Packed(v)[k] \in Nat /\ Packed(v)[k] \div 16 < 14 /\ Packed(v)[k] % 16 < 14
  <2>3. 2 * k - 1 \in 1 .. CellCount /\ 2 * k \in 1 .. CellCount
    BY <1>1
  <2>4. v[2 * k - 1] \in KnownCells /\ v[2 * k] \in KnownCells
    BY <2>3 DEF Packable
  <2>5. PICK a \in 0 .. 13 : a = CodeOf(v[2 * k - 1])
    BY <2>4, CodeOfCell
  <2>6. PICK b \in 0 .. 13 : b = CodeOf(v[2 * k])
    BY <2>4, CodeOfCell
  <2>7. Packed(v)[k] = a * 16 + b
    BY <2>5, <2>6 DEF Packed
  <2> QED
    BY <2>7, PairOfCodes
<1>3. PICK n \in Nat : n = CellCount \div 2
  BY <1>1
<1>4. Packed(v) \in [1 .. n -> Nat]
  BY <1>2, <1>3 DEF Packed
<1>5. Packed(v) \in Seq(Nat) /\ Len(Packed(v)) = n
  BY <1>4
<1>6. Len(Alphabet) = 14
  BY DEF Alphabet
<1>7. PICK bytes \in Seq(Nat) : bytes = Packed(v) /\ Len(bytes) = n
  BY <1>5
<1>8. 2 * Len(bytes) = CellCount
  BY <1>1, <1>3, <1>7
<1>9. \A k \in 1 .. n : bytes[k] \div 16 < 14 /\ bytes[k] % 16 < 14
  BY <1>2, <1>3, <1>7
<1>10. Readable(bytes)
  BY <1>6, <1>7, <1>8, <1>9 DEF Readable, KnownCode
<1> QED
  BY <1>7, <1>10

(* A byte whose halves are known codes is put together from them again. *)
LEMMA HalvesOfByte ==
    ASSUME NEW b \in Nat, b \div 16 < 14, b % 16 < 14
    PROVE  /\ b \div 16 \in 0 .. 13 /\ b % 16 \in 0 .. 13
           /\ (b \div 16) * 16 + (b % 16) = b
OBVIOUS

LEMMA MemberOfSeq ==
    ASSUME NEW S, NEW s \in Seq(S), NEW k \in 1 .. Len(s)
    PROVE  s[k] \in S
OBVIOUS

(* Packing undoes unpacking, byte by byte. *)
LEMMA PackedIsUnpacked ==
    ASSUME NEW m \in Seq(0 .. 255), Readable(m)
    PROVE  Packable(Unpacked(m)) /\ Packed(Unpacked(m)) = m
<1>1. CellCount \in Nat /\ CellCount % 2 = 0
  BY ViewCodecConstants
<1>2. PICK n \in Nat : n = CellCount \div 2 /\ CellCount = 2 * n
  BY <1>1
<1>3. Len(m) = n /\ Len(Alphabet) = 14
  BY <1>2 DEF Readable, Alphabet
<1>4. ASSUME NEW k \in 1 .. n
      PROVE  /\ m[k] \in 0 .. 255
             /\ m[k] \div 16 \in 0 .. 13 /\ m[k] % 16 \in 0 .. 13
             /\ (m[k] \div 16) * 16 + (m[k] % 16) = m[k]
  <2>1. k \in 1 .. Len(m)
    BY <1>2, <1>3
  <2>2. PICK b \in 0 .. 255 : b = m[k]
    BY <2>1, MemberOfSeq, Zenon
  <2>3. b \div 16 < 14 /\ b % 16 < 14
    BY <1>3, <2>2 DEF Readable, KnownCode
  <2>4. /\ b \div 16 \in 0 .. 13 /\ b % 16 \in 0 .. 13
        /\ (b \div 16) * 16 + (b % 16) = b
    BY <2>3, HalvesOfByte
  <2> QED
    BY <2>2, <2>4, Zenon
<1>5. ASSUME NEW i \in 1 .. CellCount PROVE Unpacked(m)[i] \in KnownCells
  <2>1. PICK k \in 1 .. n : k = (i + 1) \div 2
    BY <1>1, <1>2, HalfOf
  <2> QED
    BY <1>4, <2>1, CellOfCode DEF Unpacked
<1>6. Unpacked(m) \in [1 .. CellCount -> KnownCells]
  BY <1>5 DEF Unpacked
<1>7. Len(Unpacked(m)) = CellCount
  BY <1>1, <1>6
<1>8. Packable(Unpacked(m))
  BY <1>5, <1>7 DEF Packable
<1>9. ASSUME NEW k \in 1 .. n PROVE Packed(Unpacked(m))[k] = m[k]
  <2>1. /\ 2 * k - 1 \in 1 .. CellCount /\ 2 * k \in 1 .. CellCount
        /\ ((2 * k - 1) + 1) \div 2 = k /\ (2 * k + 1) \div 2 = k
        /\ (2 * k - 1) % 2 = 1 /\ (2 * k) % 2 = 0
    BY <1>2
  <2>2. Unpacked(m)[2 * k - 1] = CellOf(m[k] \div 16)
    BY <2>1 DEF Unpacked
  <2>3. Unpacked(m)[2 * k] = CellOf(m[k] % 16)
    BY <2>1 DEF Unpacked
  <2>4. Packed(Unpacked(m))[k] = CodeOf(Unpacked(m)[2 * k - 1]) * 16
                                     + CodeOf(Unpacked(m)[2 * k])
    BY <1>2 DEF Packed
  <2>5. /\ CodeOf(CellOf(m[k] \div 16)) = m[k] \div 16
        /\ CodeOf(CellOf(m[k] % 16)) = m[k] % 16
    BY <1>4, CellOfCode
  <2> QED
    BY <1>4, <2>2, <2>3, <2>4, <2>5, Zenon
<1>10. Packed(Unpacked(m)) = [k \in 1 .. n |-> Packed(Unpacked(m))[k]]
  BY <1>2 DEF Packed
<1>11. m = [k \in 1 .. n |-> m[k]]
  BY <1>3
<1> QED
  BY <1>8, <1>9, <1>10, <1>11

(* Packing and unpacking keep it; the client can read what was packed. *)
LEMMA ViewCodecStep ==
    ASSUME ViewCodecInv, [ViewCodecNext]_viewCodecVars
    PROVE  ViewCodecInv'
<1>1. CASE Pack
  <2>1. CASE Packable(cells)
    <3>1. /\ packed' = Packed(cells) /\ packed = << >> /\ ~refused
          /\ UNCHANGED <<cells, shown, refused>>
      BY <1>1, <2>1 DEF Pack
    <3>2. cells \in Views
      BY <3>1, ViewCodecConstants DEF ViewCodecInv
    <3> QED
      BY <2>1, <3>1, <3>2 DEF ViewCodecInv, Packable
  <2>2. CASE ~Packable(cells)
    BY <1>1, <2>2 DEF Pack, ViewCodecInv, Packable
  <2> QED
    BY <2>1, <2>2
<1>2. CASE Unpack
  BY <1>2 DEF Unpack, ViewCodecInv, Packable, Readable
<1>3. CASE UNCHANGED viewCodecVars
  BY <1>3 DEF viewCodecVars, ViewCodecInv, Packable, Readable
<1> QED
  BY <1>1, <1>2, <1>3 DEF ViewCodecNext

(* ViewSurvives: the client draws the view the server packed, whatever its *)
(* size and cells, and of no other bytes one that is not packed into them.  *)
THEOREM ViewsArriveWhole == ViewCodecSpec => []ViewSurvives
<1>1. ViewCodecInit => ViewCodecInv
  BY ViewCodecConstants DEF ViewCodecInit, ViewCodecInv
<1>2. ViewCodecInv /\ [ViewCodecNext]_viewCodecVars => ViewCodecInv'
  BY ViewCodecStep
<1>3. ViewCodecInv => ViewSurvives
  <2> SUFFICES ASSUME ViewCodecInv PROVE ViewSurvives
    OBVIOUS
  <2>1. CASE packed = << >>
    BY <2>1 DEF ViewCodecInv, ViewSurvives
  <2>2. CASE packed # << >> /\ cells # << >>
    <3>1. PICK v \in Seq(STRING) : v = cells
      BY <2>2, ViewCodecConstants DEF ViewCodecInv
    <3>2. Packable(v) /\ packed = Packed(v) /\ Readable(packed) /\ ~refused
      BY <2>2, <3>1, PackedBytes DEF ViewCodecInv
    <3>3. shown # << >> => shown = v
      BY <3>1, <3>2, UnpackedIsPacked DEF ViewCodecInv
    <3>4. 2 * Len(packed) = Len(v)
      BY <3>2 DEF Packable, Readable
    <3> QED
      BY <2>2, <3>1, <3>2, <3>3, <3>4 DEF ViewSurvives
  <2>3. CASE packed # << >> /\ cells = << >>
    <3>1. PICK m \in Seq(0 .. 255) : m = packed
      BY <2>3, ViewCodecConstants DEF ViewCodecInv
    <3>2. shown # << >> => Readable(m) /\ shown = Unpacked(m)
      BY <3>1 DEF ViewCodecInv
    <3> QED
      BY <2>3, <3>1, <3>2, PackedIsUnpacked DEF ViewSurvives
  <2> QED
    BY <2>1, <2>2, <2>3
<1> QED
  BY <1>1, <1>2, <1>3, PTL DEF ViewCodecSpec
-----------------------------------------------------------------------------
(* The start frame and the chunks: what makes ReassemblyRebuilds inductive  *)
(* is that the bytes received, the number awaited and the place of the      *)
(* sender are counted from the same chunk.                                  *)

(* What the two know of each other while chunks are sent: k of them have    *)
(* been accepted, and the sender is at most a window from the next.         *)
AtChunk(k) ==
    /\ receivedBytes = k * ChunkBytes /\ receivedBytes < message.total_bytes
    /\ expectedSequence = (base + k + 1) % SequenceCount
    /\ index <= k + MaxWindowSize /\ k <= index + MaxWindowSize
    /\ taken # NoChunk => taken.index + 1 = k

StartedInv ==
    /\ stage = "start" => IsValidStart(message) /\ payload = StartPayload(message)
    /\ stage \in {"build", "start"} =>
           taken = NoChunk /\ receivedBytes = 0 /\ index = 0
    /\ stage \in {"chunks", "done"} => IsValidStart(message) /\ parsed = message

TransferCodecInv ==
    /\ message \in Announcements /\ base \in 0 .. SequenceCount - 1 /\ index \in Nat
    /\ StartedInv
    /\ stage = "chunks" => \E k \in Nat : AtChunk(k)
    /\ stage = "refused" => taken = NoChunk
    /\ ReassemblyRebuilds

-----------------------------------------------------------------------------
(* A number below 2^32 is the sum of its four bytes. *)
LEMMA BytesOfNumber ==
    ASSUME NEW n \in Nat, n \div 16777216 < 256
    PROVE  n = ((((n \div 16777216) % 256) * 256 + ((n \div 65536) % 256)) * 256
                + ((n \div 256) % 256)) * 256 + (n % 256)
<1>1. (n \div 16777216) % 256 = n \div 16777216
  BY SMT
<1>2. n = 256 * (n \div 256) + (n % 256)
  BY SMT
<1>3. PICK a \in Nat : a = n \div 256
  BY SMT
<1>4. PICK b \in Nat : b = n \div 65536 /\ a = 256 * b + (a % 256)
  BY <1>3, SMT
<1>5. PICK c \in Nat : c = n \div 16777216 /\ b = 256 * c + (b % 256)
  BY <1>4, SMT
<1> QED
  BY <1>1, <1>2, <1>3, <1>4, <1>5, SMT

(* Reading undoes writing. *)
LEMMA NumberOfFourBytes ==
    ASSUME NEW n \in Nat, n \div 16777216 < 256
    PROVE  Number(FourBytes(n), 1) = n
BY BytesOfNumber, SMT DEF Number, FourBytes

(* In the table the identity alone tells the name. *)
LEMMA NamesByIdentity ==
    ASSUME NEW i \in DOMAIN FileTable
    PROVE  FileTable[i].name =
               <<"1.txt", "2.txt", "3.jpg", "4.jpg", "5.mp4", "6.mp4",
                 "ghost.txt">>[FileTable[i].file_id]
<1>1. i \in 1 .. 10
  BY DEF FileTable
<1>2. i \in {1, 2, 3, 4, 5, 6, 7, 8, 9, 10}
  BY <1>1
<1> QED
  BY <1>2 DEF FileTable, GhostRow

(* A set of numbers that is not empty has a least one. *)
LEMMA FirstOf ==
    ASSUME NEW S, S \subseteq Nat, S # {}
    PROVE  \E x \in S : \A y \in S : x <= y
<1>1. PICK x \in S : \A y \in S : <<y, x>> \notin OpToRel(<, Nat)
  BY WFMin, NatLessThanWellFounded, Zenon
<1>2. \A y \in S : ~(y < x)
  BY <1>1, Zenon DEF OpToRel
<1>3. QED
  BY <1>2

(* Whichever row a cell has, the start frame leads to its name. *)
LEMMA SameName ==
    ASSUME NEW m, NEW i \in RowsOf(m)
    PROVE  NameForMessage(m) = FileTable[i].name
<1>1. RowsOf(m) \subseteq 1 .. 10
  BY DEF RowsOf, FileTable
<1>2. PICK first : first = CHOOSE r \in RowsOf(m) : \A j \in RowsOf(m) : r <= j
  OBVIOUS
<1>3. first \in RowsOf(m)
  BY <1>1, <1>2, FirstOf
<1>4. NameForMessage(m) = FileTable[first].name
  BY <1>2, <1>3 DEF NameForMessage
<1>5. FileTable[first].file_id = FileTable[i].file_id
  BY <1>3 DEF RowsOf
<1> QED
  BY <1>3, <1>4, <1>5, NamesByIdentity DEF RowsOf

(* The receiver reads what the sender wrote, with a window or without. *)
LEMMA StartIsRead ==
    ASSUME NEW m \in Announcements, IsValidStart(m)
    PROVE  ParsedStart(m.type, StartPayload(m)) = m
<1>1. /\ m = [type |-> m.type, file_id |-> m.file_id,
              window_size |-> m.window_size, total_bytes |-> m.total_bytes]
      /\ m.file_id \in Nat /\ m.window_size \in Nat /\ m.total_bytes \in Nat
  BY TransferConstants
<1>2. PICK n \in Nat : n = m.total_bytes
  BY <1>1
<1>3. PICK b1 \in Nat, b2 \in Nat, b3 \in Nat, b4 \in Nat :
         FourBytes(n) = <<b1, b2, b3, b4>>
  BY SMT DEF FourBytes
<1>4. ((b1 * 256 + b2) * 256 + b3) * 256 + b4 = n
  <2>1. n \div 16777216 < 256
    BY <1>2, SMT DEF IsValidStart
  <2> QED
    BY <1>3, <2>1, NumberOfFourBytes, SMT DEF Number
<1>5. PICK f \in Nat, w \in Nat : f = m.file_id /\ w = m.window_size
  BY <1>1
<1>6. m = [type |-> m.type, file_id |-> f, window_size |-> w, total_bytes |-> n]
  BY <1>1, <1>2, <1>5
<1>7. CASE w = NoWindow
  <2>1. PICK data : data = <<f, b1, b2, b3, b4>>
    OBVIOUS
  <2>2. StartPayload(m) = data
    BY <1>2, <1>3, <1>5, <1>7, <2>1 DEF StartPayload
  <2>3. Len(data) = 5 /\ data[1] = f /\ Number(data, 2) = n
    BY <1>4, <2>1, SMT DEF Number
  <2>4. ParsedStart(m.type, data) = m
    BY <1>6, <1>7, <2>3 DEF ParsedStart
  <2> QED
    BY <2>2, <2>4
<1>8. CASE w # NoWindow
  <2>1. PICK data : data = <<f, w, b1, b2, b3, b4>>
    OBVIOUS
  <2>2. StartPayload(m) = data
    BY <1>2, <1>3, <1>5, <1>8, <2>1 DEF StartPayload
  <2>3. Len(data) = 6 /\ data[1] = f /\ data[2] = w /\ Number(data, 3) = n
    BY <1>4, <2>1, SMT DEF Number
  <2>4. ParsedStart(m.type, data) = m
    BY <1>6, <2>3 DEF ParsedStart
  <2> QED
    BY <2>2, <2>4
<1> QED
  BY <1>7, <1>8

(* Within reach of each other, chunks of one number are one chunk. *)
LEMMA AtNumber ==
    ASSUME NEW b \in 0 .. 63, NEW i \in Nat, NEW k \in Nat,
           i <= k + 30, k <= i + 30, (b + i + 1) % 64 = (b + k + 1) % 64
    PROVE  i = k
OBVIOUS

(* k whole chunks are k chunks. *)
LEMMA CountOfWhole ==
    ASSUME NEW k \in Nat
    PROVE  ChunkCount(k * ChunkBytes) = k
BY DEF ChunkCount, ChunkBytes

(* The number after the one awaited. *)
LEMMA NextNumber ==
    ASSUME NEW b \in 0 .. 63, NEW k \in Nat
    PROVE  (((b + k + 1) % 64) + 1) % 64 = (b + (k + 1) + 1) % 64
OBVIOUS

(* A chunk has more after it if more bytes are left than it holds. *)
LEMMA LastOfCount ==
    ASSUME NEW total \in Nat, NEW k \in Nat, k * 31 < total
    PROVE  /\ k < ChunkCount(total)
           /\ (total - k * 31 > 31) = (k + 1 # ChunkCount(total))
BY DEF ChunkCount, ChunkBytes

(* The chunk that is accepted is the one awaited, of the length both count.*)
LEMMA AcceptStep ==
    ASSUME TransferCodecInv, AcceptChunk(index)
    PROVE  TransferCodecInv'
<1>1. PICK k \in Nat : AtChunk(k)
  BY DEF TransferCodecInv, AcceptChunk
<1>2. PICK total \in Nat, b \in 0 .. 63 : total = message.total_bytes /\ b = base
  BY TransferConstants DEF TransferCodecInv, SequenceCount
<1>3. index = k
  BY <1>1, <1>2, AtNumber
     DEF AcceptChunk, IsNextChunk, ChunkSequence, AtChunk, SequenceCount,
         MaxWindowSize, TransferCodecInv
<1>4. parsed = message /\ IsValidStart(message)
  BY DEF TransferCodecInv, StartedInv, AcceptChunk
<1>5. PICK chunks : chunks = ChunkCount(total)
  OBVIOUS
<1>6. k * 31 < total /\ receivedBytes = k * 31
  BY <1>1, <1>2 DEF AtChunk, ChunkBytes
<1>7. k < chunks /\ (total - k * 31 > 31) = (k + 1 # chunks)
  BY <1>5, <1>6, LastOfCount
<1>8. PICK length \in 1 .. 31 :
         /\ length = SentLength(total, k * 31)
         /\ length = IF k + 1 # chunks THEN 31 ELSE total - k * 31
  BY <1>6, <1>7 DEF SentLength, ChunkBytes
<1>9. RemainingLength = length
  <2>1. parsed.total_bytes = total
    BY <1>2, <1>4
  <2> QED
    BY <1>6, <1>8, <2>1 DEF RemainingLength
<1>10. ExpectedLength(total, k) = length
  <2>1. chunks \in Nat
    BY <1>5 DEF ChunkCount, ChunkBytes
  <2>2. ~(k >= chunks \/ k * 31 >= total)
    BY <1>6, <1>7, <2>1
  <2> QED
    BY <1>5, <1>8, <2>2, Zenon DEF ExpectedLength, ChunkBytes
<1>11. /\ taken' = [index |-> k, length |-> length, offset |-> k * 31]
       /\ receivedBytes' = k * 31 + length
       /\ stage' = IF k * 31 + length = total THEN "done" ELSE "chunks"
       /\ UNCHANGED <<message, base, payload, parsed, index>>
  BY <1>2, <1>3, <1>4, <1>6, <1>9 DEF AcceptChunk
<1>12. (k * 31 + length = total) = (k + 1 = chunks)
  BY <1>6, <1>7, <1>8
<1>13. ReassemblyRebuilds'
  BY <1>2, <1>5, <1>10, <1>11, <1>12 DEF ReassemblyRebuilds, ChunkBytes
<1>14. stage' = "chunks" => AtChunk(k + 1)'
  <2>1. SUFFICES ASSUME k + 1 # chunks PROVE AtChunk(k + 1)'
    BY <1>11, <1>12
  <2>2. length = 31 /\ receivedBytes' = (k + 1) * 31 /\ (k + 1) * 31 < total
    BY <1>6, <1>7, <1>8, <1>11, <2>1
  <2>3. expectedSequence' = (b + (k + 1) + 1) % 64
    BY <1>1, <1>2, NextNumber DEF AtChunk, AcceptChunk, SequenceCount
  <2> QED
    BY <1>2, <1>3, <1>11, <2>2, <2>3 DEF AtChunk, ChunkBytes, SequenceCount, MaxWindowSize
<1>15. StartedInv' /\ stage' # "refused"
  BY <1>4, <1>11 DEF StartedInv, IsValidStart
<1> QED
  BY <1>11, <1>13, <1>14, <1>15 DEF TransferCodecInv

(* The sender stays within reach. *)
LEMMA SendStep ==
    ASSUME TransferCodecInv, SendChunk
    PROVE  TransferCodecInv'
<1>1. PICK k \in Nat : AtChunk(k)
  BY DEF TransferCodecInv, SendChunk
<1>2. ChunkCount(receivedBytes) = k
  BY <1>1, CountOfWhole DEF AtChunk
<1>3. index' \in Nat /\ InReach(index')
  BY DEF TransferCodecInv, SendChunk
<1>4. AtChunk(k)'
  BY <1>1, <1>2, <1>3 DEF AtChunk, InReach, SendChunk
<1>5. StartedInv' /\ ReassemblyRebuilds'
  BY DEF TransferCodecInv, SendChunk, StartedInv, ReassemblyRebuilds, IsValidStart
<1> QED
  BY <1>3, <1>4, <1>5 DEF TransferCodecInv, SendChunk

(* The start frame. *)
LEMMA ParseStep ==
    ASSUME TransferCodecInv, ParseStart
    PROVE  TransferCodecInv'
<1>1. parsed' = message
  BY StartIsRead DEF ParseStart, TransferCodecInv, StartedInv
<1>2. taken = NoChunk /\ receivedBytes = 0 /\ index = 0 /\ IsValidStart(message)
  BY DEF ParseStart, TransferCodecInv, StartedInv
<1>3. stage' = "chunks" /\ expectedSequence' = (base + 1) % SequenceCount
  BY <1>1, <1>2 DEF ParseStart
<1>4. UNCHANGED <<message, base, payload, index, receivedBytes, taken>>
  BY DEF ParseStart
<1>5. message.total_bytes > 0 /\ base \in Nat
  BY <1>2 DEF IsValidStart, TransferCodecInv
<1>6. AtChunk(0)'
  BY <1>2, <1>3, <1>4, <1>5 DEF AtChunk, MaxWindowSize, ChunkBytes
<1>7. StartedInv' /\ ReassemblyRebuilds'
  BY <1>1, <1>2, <1>3, <1>4 DEF StartedInv, ReassemblyRebuilds, IsValidStart
<1> QED
  BY <1>3, <1>4, <1>6, <1>7 DEF TransferCodecInv

(* Every step keeps the invariant, *)
LEMMA TransferCodecStep ==
    ASSUME TransferCodecInv, [TransferNext]_transferVars
    PROVE  TransferCodecInv'
<1>1. CASE BuildStart
  BY <1>1 DEF TransferCodecInv, BuildStart, StartedInv, ReassemblyRebuilds, IsValidStart,
     StartPayload
<1>2. CASE RefuseStart
  BY <1>2 DEF TransferCodecInv, RefuseStart, StartedInv, ReassemblyRebuilds
<1>3. CASE ParseStart
  BY <1>3, ParseStep
<1>4. CASE SendChunk
  BY <1>4, SendStep
<1>5. CASE AcceptChunk(index)
  BY <1>5, AcceptStep
<1>6. CASE UNCHANGED transferVars
  BY <1>6 DEF transferVars, TransferCodecInv, StartedInv, ReassemblyRebuilds, AtChunk,
     IsValidStart, StartPayload
<1> QED
  BY <1>1, <1>2, <1>3, <1>4, <1>5, <1>6 DEF TransferNext

(* so it always holds. *)
LEMMA TransferCodecAlways == TransferSpec => []TransferCodecInv
<1>1. TransferInit => TransferCodecInv
  BY TransferConstants DEF TransferInit, TransferCodecInv, StartedInv, ReassemblyRebuilds
<1> QED
  BY <1>1, TransferCodecStep, PTL DEF TransferSpec

(* StartIsUnderstood, for every message, number and size below 2^32: what a *)
(* start frame announces is what the receiver reads and the file it opens.  *)
THEOREM StartsAreUnderstood == TransferSpec => []StartIsUnderstood
<1>1. TransferCodecInv => StartIsUnderstood
  BY SameName DEF TransferCodecInv, StartedInv, StartIsUnderstood
<1> QED
  BY <1>1, TransferCodecAlways, PTL

(* ReassemblyRebuilds, for every message and every order in which chunks    *)
(* are lost and repeated within a window.                                   *)
THEOREM ChunksComeTogether == TransferSpec => []ReassemblyRebuilds
<1>1. TransferCodecInv => ReassemblyRebuilds
  BY DEF TransferCodecInv
<1> QED
  BY <1>1, TransferCodecAlways, PTL
-----------------------------------------------------------------------------
(* The frame codec.  Of the CRC it matters that each byte leads from        *)
(* different values to different ones, and different bytes from one value   *)
(* to different ones: then one byte that differs is never made good.        *)

Bit(b, mask) == (b \div mask) % 2

(* A byte is the sum of its bits, *)
LEMMA SumOfBits ==
    ASSUME NEW b \in Byte
    PROVE  b = Bit(b, 1) + Bit(b, 2) * 2 + Bit(b, 4) * 4 + Bit(b, 8) * 8 + Bit(b, 16) * 16
               + Bit(b, 32) * 32 + Bit(b, 64) * 64 + Bit(b, 128) * 128
BY SMT DEF Bit, Byte

(* and eight bits make one byte only. *)
LEMMA BitsOfSum ==
    ASSUME NEW a1 \in 0 .. 1, NEW a2 \in 0 .. 1, NEW a3 \in 0 .. 1, NEW a4 \in 0 .. 1,
           NEW a5 \in 0 .. 1, NEW a6 \in 0 .. 1, NEW a7 \in 0 .. 1, NEW a8 \in 0 .. 1,
           NEW b1 \in 0 .. 1, NEW b2 \in 0 .. 1, NEW b3 \in 0 .. 1, NEW b4 \in 0 .. 1,
           NEW b5 \in 0 .. 1, NEW b6 \in 0 .. 1, NEW b7 \in 0 .. 1, NEW b8 \in 0 .. 1,
             a1 + a2 * 2 + a3 * 4 + a4 * 8 + a5 * 16 + a6 * 32 + a7 * 64 + a8 * 128
           = b1 + b2 * 2 + b3 * 4 + b4 * 8 + b5 * 16 + b6 * 32 + b7 * 64 + b8 * 128
    PROVE  /\ a1 = b1 /\ a2 = b2 /\ a3 = b3 /\ a4 = b4
           /\ a5 = b5 /\ a6 = b6 /\ a7 = b7 /\ a8 = b8
BY SMT

(* A bit of a sum without carries is the sum of the bits. *)
LEMMA DifferAtBit ==
    ASSUME NEW a \in Byte, NEW b \in Byte, NEW mask \in Masks
    PROVE  /\ (a \div mask + b \div mask) % 2 \in 0 .. 1
           /\ (a \div mask + b \div mask) % 2 = (Bit(a, mask) + Bit(b, mask)) % 2
           /\ Bit(a, mask) \in 0 .. 1
BY SMT DEF Bit, Byte, Masks

(* An addend of a bit, from the sum without its carry. *)
LEMMA BitSum ==
    ASSUME NEW a \in 0 .. 1, NEW b \in 0 .. 1, NEW c \in 0 .. 1, (a + b) % 2 = (a + c) % 2
    PROVE  b = c
BY SMT

(* A multiple of a mask tells the bit. *)
LEMMA TimesMask ==
    ASSUME NEW x \in 0 .. 1, NEW y \in 0 .. 1, NEW mask \in Masks, x * mask = y * mask
    PROVE  x = y
<1>1. mask \in Nat /\ mask > 0
  BY SMT DEF Masks
<1>2. ~(x = 0 /\ y = 1)
  BY <1>1, SMT
<1>3. ~(x = 1 /\ y = 0)
  BY <1>1, SMT
<1> QED
  BY <1>2, <1>3, SMT

(* The sum of bytes is a byte, *)
LEMMA XorByte ==
    ASSUME NEW a \in Byte, NEW b \in Byte
    PROVE  Xor(a, b) \in Byte
BY SMTT(60) DEF Xor, DifferAt, Byte

(* in either order, *)
LEMMA XorComm ==
    ASSUME NEW a \in Byte, NEW b \in Byte
    PROVE  Xor(a, b) = Xor(b, a)
BY SMTT(60) DEF Xor, DifferAt, Byte

(* zero for a byte and itself, *)
LEMMA XorItself ==
    ASSUME NEW a \in Byte
    PROVE  Xor(a, a) = 0
<1>1. \A mask \in Masks : (a \div mask + a \div mask) % 2 = 0
  BY SMT DEF Byte, Masks
<1> QED
  BY <1>1, SMT DEF Xor, DifferAt, Masks

(* and nothing changes with zero. *)
LEMMA XorZero ==
    ASSUME NEW a \in Byte
    PROVE  Xor(a, 0) = a
BY SMTT(60) DEF Xor, DifferAt, Byte

(* Bytes that differ have different sums with a third byte. *)
LEMMA XorTells ==
    ASSUME NEW a \in Byte, NEW b \in Byte, NEW c \in Byte, Xor(a, b) = Xor(a, c)
    PROVE  b = c
<1>1. ASSUME NEW mask \in Masks, DifferAt(a, b, mask) = DifferAt(a, c, mask)
      PROVE  Bit(b, mask) = Bit(c, mask)
  <2>1. PICK x \in 0 .. 1 : x = (a \div mask + b \div mask) % 2
    BY DifferAtBit
  <2>2. PICK y \in 0 .. 1 : y = (a \div mask + c \div mask) % 2
    BY DifferAtBit
  <2>3. x = y
    BY <1>1, <2>1, <2>2, TimesMask DEF DifferAt
  <2> QED
    BY <2>1, <2>2, <2>3, DifferAtBit, BitSum
<1>2. \A mask \in Masks : DifferAt(a, b, mask) = DifferAt(a, c, mask)
  <2>1. \A d \in Byte, mask \in Masks : \E x \in 0 .. 1 : DifferAt(a, d, mask) = x * mask
    BY DifferAtBit DEF DifferAt
  <2>2. PICK x1 \in 0 .. 1, x2 \in 0 .. 1, x3 \in 0 .. 1, x4 \in 0 .. 1,
           x5 \in 0 .. 1, x6 \in 0 .. 1, x7 \in 0 .. 1, x8 \in 0 .. 1 :
         /\ DifferAt(a, b, 1) = x1 * 1
         /\ DifferAt(a, b, 2) = x2 * 2
         /\ DifferAt(a, b, 4) = x3 * 4
         /\ DifferAt(a, b, 8) = x4 * 8
         /\ DifferAt(a, b, 16) = x5 * 16
         /\ DifferAt(a, b, 32) = x6 * 32
         /\ DifferAt(a, b, 64) = x7 * 64
         /\ DifferAt(a, b, 128) = x8 * 128
    BY <2>1 DEF Masks
  <2>3. PICK y1 \in 0 .. 1, y2 \in 0 .. 1, y3 \in 0 .. 1, y4 \in 0 .. 1,
           y5 \in 0 .. 1, y6 \in 0 .. 1, y7 \in 0 .. 1, y8 \in 0 .. 1 :
         /\ DifferAt(a, c, 1) = y1 * 1
         /\ DifferAt(a, c, 2) = y2 * 2
         /\ DifferAt(a, c, 4) = y3 * 4
         /\ DifferAt(a, c, 8) = y4 * 8
         /\ DifferAt(a, c, 16) = y5 * 16
         /\ DifferAt(a, c, 32) = y6 * 32
         /\ DifferAt(a, c, 64) = y7 * 64
         /\ DifferAt(a, c, 128) = y8 * 128
    BY <2>1 DEF Masks
  <2>4.   x1 + x2 * 2 + x3 * 4 + x4 * 8 + x5 * 16 + x6 * 32 + x7 * 64 + x8 * 128
        = y1 + y2 * 2 + y3 * 4 + y4 * 8 + y5 * 16 + y6 * 32 + y7 * 64 + y8 * 128
    <3>1. Xor(a, b)
          = x1 + x2 * 2 + x3 * 4 + x4 * 8 + x5 * 16 + x6 * 32 + x7 * 64 + x8 * 128
      BY <2>2, SMT DEF Xor
    <3>2. Xor(a, c)
          = y1 + y2 * 2 + y3 * 4 + y4 * 8 + y5 * 16 + y6 * 32 + y7 * 64 + y8 * 128
      BY <2>3, SMT DEF Xor
    <3> QED
      BY <3>1, <3>2
  <2>5. /\ x1 = y1 /\ x2 = y2 /\ x3 = y3 /\ x4 = y4
        /\ x5 = y5 /\ x6 = y6 /\ x7 = y7 /\ x8 = y8
    BY <2>4, BitsOfSum
  <2> QED
    BY <2>2, <2>3, <2>5 DEF Masks
<1>3. \A mask \in Masks : Bit(b, mask) = Bit(c, mask)
  BY <1>1, <1>2
<1> QED
  BY <1>3, SumOfBits DEF Masks

(* One bit that is flipped makes another byte, in which the three low bits *)
(* or the five high bits are as they were.                                  *)
LEMMA FlippedByte ==
    ASSUME NEW b \in Byte, NEW mask \in Masks
    PROVE  /\ Xor(b, mask) \in Byte /\ Xor(b, mask) # b
           /\ Xor(b, mask) % 8 = b % 8 \/ Xor(b, mask) \div 8 = b \div 8
<1>1. Xor(b, mask) \in Byte
  <2>1. mask \in Byte
    BY SMT DEF Masks, Byte
  <2> QED
    BY <2>1, XorByte
<1>2. Xor(b, mask) # b
  <2>1. mask \in Byte /\ 0 \in Byte /\ mask # 0
    BY SMT DEF Masks, Byte
  <2> QED
    BY <2>1, XorZero, XorTells
<1>3. CASE mask \in {1, 2, 4}
  <2>1. CASE mask = 1
    BY <2>1, SMTT(60) DEF Xor, DifferAt, Byte
  <2>2. CASE mask = 2
    BY <2>2, SMTT(60) DEF Xor, DifferAt, Byte
  <2>3. CASE mask = 4
    BY <2>3, SMTT(60) DEF Xor, DifferAt, Byte
  <2> QED
    BY <1>1, <1>2, <1>3, <2>1, <2>2, <2>3
<1>4. CASE mask \in {8, 16, 32, 64, 128}
  <2>1. mask % 8 = 0
    BY <1>4, SMT
  <2>2. Xor(b, mask) % 8 = b % 8
    <3>1. CASE mask = 8
      BY <3>1, SMTT(60) DEF Xor, DifferAt, Byte
    <3>2. CASE mask = 16
      BY <3>2, SMTT(60) DEF Xor, DifferAt, Byte
    <3>3. CASE mask = 32
      BY <3>3, SMTT(60) DEF Xor, DifferAt, Byte
    <3>4. CASE mask = 64
      BY <3>4, SMTT(60) DEF Xor, DifferAt, Byte
    <3>5. CASE mask = 128
      BY <3>5, SMTT(60) DEF Xor, DifferAt, Byte
    <3> QED
      BY <1>4, <3>1, <3>2, <3>3, <3>4, <3>5
  <2> QED
    BY <1>1, <1>2, <2>2
<1> QED
  BY <1>3, <1>4 DEF Masks

(* The low bit of a sum. *)
LEMMA LowBit ==
    ASSUME NEW a \in Byte, NEW b \in Byte
    PROVE  Xor(a, b) % 2 = (a + b) % 2
<1>1. \A mask \in Masks : \E x \in 0 .. 1 : DifferAt(a, b, mask) = x * mask
  BY DifferAtBit DEF DifferAt
<1>2. PICK x2 \in 0 .. 1, x3 \in 0 .. 1, x4 \in 0 .. 1, x5 \in 0 .. 1,
           x6 \in 0 .. 1, x7 \in 0 .. 1, x8 \in 0 .. 1 :
         /\ DifferAt(a, b, 2) = x2 * 2 /\ DifferAt(a, b, 4) = x3 * 4
         /\ DifferAt(a, b, 8) = x4 * 8 /\ DifferAt(a, b, 16) = x5 * 16
         /\ DifferAt(a, b, 32) = x6 * 32 /\ DifferAt(a, b, 64) = x7 * 64
         /\ DifferAt(a, b, 128) = x8 * 128
  BY <1>1 DEF Masks
<1>3. PICK x1 \in 0 .. 1 : DifferAt(a, b, 1) = x1 /\ x1 = (a + b) % 2
  BY SMT DEF DifferAt, Byte
<1>4. Xor(a, b)
      = x1 + x2 * 2 + x3 * 4 + x4 * 8 + x5 * 16 + x6 * 32 + x7 * 64 + x8 * 128
  BY <1>2, <1>3, SMT DEF Xor
<1>5. Xor(a, b) % 2 = x1
  BY <1>4, SMT
<1> QED
  BY <1>3, <1>5

(* A shift keeps bytes apart: the low bit tells whether one was shifted out.*)
LEMMA ShiftTells ==
    ASSUME NEW a \in Byte, NEW b \in Byte
    PROVE  /\ Shifted(a) \in Byte
           /\ Shifted(a) = Shifted(b) => a = b
<1>1. \A x \in Byte : x >= 128 => 2 * (x - 128) \in Byte /\ (2 * x) % 256 = 2 * (x - 128)
  BY SMT DEF Byte
<1>2. ASSUME NEW x \in Byte, x >= 128
      PROVE  /\ Shifted(x) \in Byte /\ Shifted(x) % 2 = 1
             /\ Shifted(x) = Xor(2 * (x - 128), 7)
  <2>1. Shifted(x) = Xor(2 * (x - 128), 7)
    BY <1>1, <1>2 DEF Shifted
  <2>2. PICK y \in Byte : y = 2 * (x - 128)
    BY <1>1, <1>2
  <2>3. 7 \in Byte
    BY SMT DEF Byte
  <2>4. (y + 7) % 2 = 1
    BY <2>2, SMT DEF Byte
  <2> QED
    BY <2>1, <2>2, <2>3, <2>4, XorByte, LowBit
<1>3. ASSUME NEW x \in Byte, ~(x >= 128)
      PROVE  Shifted(x) \in Byte /\ Shifted(x) % 2 = 0 /\ Shifted(x) = 2 * x
  BY <1>3, SMT DEF Shifted, Byte
<1>4. ASSUME Shifted(a) = Shifted(b) PROVE a = b
  <2>1. CASE a >= 128 /\ b >= 128
    <3>1. Xor(2 * (a - 128), 7) = Xor(2 * (b - 128), 7)
      BY <1>2, <1>4, <2>1
    <3>2. 2 * (a - 128) \in Byte /\ 2 * (b - 128) \in Byte /\ 7 \in Byte
      BY <1>1, <2>1, SMT DEF Byte
    <3>3. 2 * (a - 128) = 2 * (b - 128)
      BY <3>1, <3>2, XorComm, XorTells
    <3> QED
      BY <3>3, SMT DEF Byte
  <2>2. CASE ~(a >= 128) /\ ~(b >= 128)
    <3>1. 2 * a = 2 * b
      BY <1>3, <1>4, <2>2
    <3> QED
      BY <3>1, SMT DEF Byte
  <2>3. /\ ~(Shifted(a) % 2 = 0 /\ Shifted(b) % 2 = 1)
        /\ ~(Shifted(a) % 2 = 1 /\ Shifted(b) % 2 = 0)
    BY <1>4, SMT
  <2> QED
    BY <1>2, <1>3, <2>1, <2>2, <2>3, Zenon
<1> QED
  BY <1>2, <1>3, <1>4, Zenon

(* So do eight of them. *)
LEMMA TableTells ==
    /\ Crc8OfByte \in [Byte -> Byte] /\ Crc8OfByte[0] = 0
    /\ \A a, b \in Byte : Crc8OfByte[a] = Crc8OfByte[b] => a = b
<1> DEFINE Two(x) == Shifted(Shifted(x))
           Four(x) == Two(Two(x))
           Eight(x) == Four(Four(x))
<1>1. \A a \in Byte : Eight(a) \in Byte
  <2>1. \A a \in Byte : Two(a) \in Byte
    BY ShiftTells, Zenon
  <2>2. \A a \in Byte : Four(a) \in Byte
    <3> HIDE DEF Two
    <3> QED
      BY <2>1, Zenon
  <2> HIDE DEF Four
  <2> QED
    BY <2>2, Zenon
<1>2. \A a, b \in Byte : Eight(a) = Eight(b) => a = b
  <2>1. \A a, b \in Byte : Two(a) \in Byte /\ (Two(a) = Two(b) => a = b)
    BY ShiftTells, Zenon
  <2>2. \A a, b \in Byte : Four(a) \in Byte /\ (Four(a) = Four(b) => a = b)
    <3> HIDE DEF Two
    <3> QED
      BY <2>1, Zenon
  <2> HIDE DEF Four
  <2> QED
    BY <2>2, Zenon
<1>3. 0 \in Byte
  BY SMT DEF Byte
<1>4. Eight(0) = 0
  <2>1. Shifted(0) = 0
    BY SMT DEF Shifted
  <2> QED
    BY <2>1, Zenon
<1>5. Crc8OfByte = [x \in Byte |-> Eight(x)]
  BY Zenon DEF Crc8OfByte
<1> HIDE DEF Eight
<1> QED
  BY <1>1, <1>2, <1>3, <1>4, <1>5

-----------------------------------------------------------------------------
(* The recursion of Crc8 has a solution: built up from shorter ones. *)

OneMoreByte(crc, byte) == Crc8OfByte[Xor(crc, byte)]

IsRun(bytes, run, n) ==
    /\ run \in [0 .. n -> Byte] /\ run[0] = 0
    /\ \A i \in 1 .. n : run[i] = OneMoreByte(run[i - 1], bytes[i])

(* One turn of the loop leaves a byte, *)
LEMMA OneMoreIsByte ==
    ASSUME NEW crc \in Byte, NEW byte \in Byte
    PROVE  OneMoreByte(crc, byte) \in Byte
BY TableTells, XorByte DEF OneMoreByte

(* so that as many turns as there are bytes can be made. *)
LEMMA RunsExist ==
    ASSUME NEW bytes \in Seq(Byte), NEW n \in 0 .. Len(bytes)
    PROVE  \E run : IsRun(bytes, run, n)
<1> DEFINE Bad == {k \in 0 .. Len(bytes) : ~ \E run : IsRun(bytes, run, k)}
<1>1. SUFFICES ASSUME Bad # {} PROVE FALSE
  OBVIOUS
<1>2. PICK k \in Bad : \A j \in Bad : k <= j
  <2>1. Bad \subseteq Nat
    OBVIOUS
  <2> QED
    BY <1>1, <2>1, FirstOf
<1>3. k # 0
  <2>1. 0 \in Byte
    BY SMT DEF Byte
  <2>2. IsRun(bytes, [i \in 0 .. 0 |-> 0], 0)
    BY <2>1 DEF IsRun
  <2> QED
    BY <2>2
<1>4. k \in 1 .. Len(bytes) /\ k - 1 \in 0 .. Len(bytes) /\ k - 1 \notin Bad
  BY <1>2, <1>3
<1>5. PICK run : IsRun(bytes, run, k - 1)
  BY <1>4
<1>6. PICK next \in Byte : next = OneMoreByte(run[k - 1], bytes[k])
  BY <1>4, <1>5, OneMoreIsByte DEF IsRun
<1>7. PICK longer : longer = [i \in 0 .. k |-> IF i = k THEN next ELSE run[i]]
  OBVIOUS
<1>8. longer \in [0 .. k -> Byte] /\ longer[0] = 0
  BY <1>4, <1>5, <1>7 DEF IsRun
<1>9. ASSUME NEW i \in 1 .. k PROVE longer[i] = OneMoreByte(longer[i - 1], bytes[i])
  <2>1. CASE i = k
    <3>1. longer[i] = next /\ longer[i - 1] = run[i - 1]
      BY <1>4, <1>7, <2>1
    <3> QED
      BY <1>6, <2>1, <3>1
  <2>2. CASE i # k
    <3>1. i \in 1 .. k - 1 /\ longer[i] = run[i] /\ longer[i - 1] = run[i - 1]
      BY <1>4, <1>7, <2>2
    <3> QED
      BY <1>5, <3>1 DEF IsRun
  <2> QED
    BY <2>1, <2>2
<1>10. IsRun(bytes, longer, k)
  BY <1>8, <1>9 DEF IsRun
<1> QED
  BY <1>2, <1>10

(* So the CRC of nothing is zero, and each byte changes it as in the loop. *)
LEMMA CrcOfBytes ==
    ASSUME NEW bytes \in Seq(Byte)
    PROVE  /\ Crc8(bytes, 0) = 0
           /\ \A n \in 0 .. Len(bytes) : Crc8(bytes, n) \in Byte
           /\ \A n \in 1 .. Len(bytes) :
                  Crc8(bytes, n) = OneMoreByte(Crc8(bytes, n - 1), bytes[n])
<1> DEFINE Solves(crc) ==
        crc = [i \in 0 .. Len(bytes) |->
                  IF i = 0 THEN 0 ELSE Crc8OfByte[Xor(crc[i - 1], bytes[i])]]
<1>1. PICK run : IsRun(bytes, run, Len(bytes))
  BY RunsExist
<1>2. Solves(run)
  <2>1. run = [i \in 0 .. Len(bytes) |-> run[i]]
    BY <1>1 DEF IsRun
  <2>2. \A i \in 0 .. Len(bytes) :
            run[i] = IF i = 0 THEN 0 ELSE Crc8OfByte[Xor(run[i - 1], bytes[i])]
    BY <1>1 DEF IsRun, OneMoreByte
  <2> QED
    BY <2>1, <2>2
<1>3. PICK crc : crc = CHOOSE c : Solves(c)
  OBVIOUS
<1>4. Solves(crc)
  <2> HIDE DEF Solves
  <2> QED
    BY <1>2, <1>3
<1>5. \A n : Crc8(bytes, n) = crc[n]
  BY <1>3 DEF Crc8
<1>6. crc[0] = 0 /\ \A n \in 1 .. Len(bytes) : crc[n] = OneMoreByte(crc[n - 1], bytes[n])
  BY <1>4 DEF OneMoreByte
<1>7. \A n \in 0 .. Len(bytes) : crc[n] \in Byte
  <2> DEFINE Bad == {k \in 0 .. Len(bytes) : crc[k] \notin Byte}
  <2>1. SUFFICES ASSUME Bad # {} PROVE FALSE
    OBVIOUS
  <2>2. PICK k \in Bad : \A j \in Bad : k <= j
    <3>1. Bad \subseteq Nat
      OBVIOUS
    <3> QED
      BY <2>1, <3>1, FirstOf
  <2>3. k # 0
    <3>1. 0 \in Byte
      BY SMT DEF Byte
    <3> QED
      BY <1>6, <3>1
  <2>4. k \in 1 .. Len(bytes) /\ k - 1 \in 0 .. Len(bytes) /\ k - 1 \notin Bad
    BY <2>2, <2>3
  <2>5. crc[k - 1] \in Byte /\ bytes[k] \in Byte
    BY <2>4
  <2>6. crc[k] = OneMoreByte(crc[k - 1], bytes[k])
    BY <1>6, <2>4
  <2>7. crc[k] \in Byte
    BY <2>5, <2>6, OneMoreIsByte
  <2> QED
    BY <2>2, <2>7
<1> QED
  BY <1>5, <1>6, <1>7

(* Equal bytes have an equal CRC, *)
LEMMA SameBytesSameCrc ==
    ASSUME NEW a \in Seq(Byte), NEW b \in Seq(Byte), NEW n \in Nat,
           n <= Len(a), n <= Len(b), \A i \in 1 .. n : a[i] = b[i]
    PROVE  Crc8(a, n) = Crc8(b, n)
<1> DEFINE Bad == {k \in 0 .. n : Crc8(a, k) # Crc8(b, k)}
<1>1. SUFFICES ASSUME Bad # {} PROVE FALSE
  OBVIOUS
<1>2. PICK k \in Bad : \A j \in Bad : k <= j
  <2>1. Bad \subseteq Nat
    OBVIOUS
  <2> QED
    BY <1>1, <2>1, FirstOf
<1>3. k # 0
  BY CrcOfBytes
<1>4. k \in 1 .. n /\ k - 1 \in 0 .. n /\ k - 1 \notin Bad
  BY <1>2, <1>3
<1>5. Crc8(a, k - 1) = Crc8(b, k - 1) /\ a[k] = b[k]
  BY <1>4
<1>6. k \in 1 .. Len(a) /\ k \in 1 .. Len(b)
  BY <1>4
<1>7. Crc8(a, k) = Crc8(b, k)
  BY <1>5, <1>6, CrcOfBytes
<1> QED
  BY <1>2, <1>7

(* a CRC that differs stays different whatever equal bytes follow, *)
LEMMA OneMoreTells ==
    ASSUME NEW c \in Byte, NEW d \in Byte, NEW x \in Byte, NEW y \in Byte,
           OneMoreByte(c, x) = OneMoreByte(d, y)
    PROVE  (c = d) = (x = y)
<1>1. Xor(c, x) \in Byte /\ Xor(d, y) \in Byte
  BY XorByte
<1>2. Xor(c, x) = Xor(d, y)
  BY <1>1, TableTells DEF OneMoreByte
<1>3. c = d => x = y
  BY <1>2, XorTells
<1>4. x = y => c = d
  BY <1>2, XorTells, XorComm
<1> QED
  BY <1>3, <1>4

(* and one byte that differs makes it differ. *)
LEMMA OneByteTells ==
    ASSUME NEW a \in Seq(Byte), NEW b \in Seq(Byte), NEW n \in Nat,
           n <= Len(a), n <= Len(b), NEW p \in 1 .. n, a[p] # b[p],
           \A i \in 1 .. n : i # p => a[i] = b[i]
    PROVE  Crc8(a, n) # Crc8(b, n)
<1> DEFINE Bad == {k \in p .. n : Crc8(a, k) = Crc8(b, k)}
<1>1. SUFFICES ASSUME Bad # {} PROVE FALSE
  OBVIOUS
<1>2. PICK k \in Bad : \A j \in Bad : k <= j
  <2>1. Bad \subseteq Nat
    OBVIOUS
  <2> QED
    BY <1>1, <2>1, FirstOf
<1>3. k \in 1 .. Len(a) /\ k \in 1 .. Len(b) /\ k \in p .. n /\ k - 1 \in 0 .. n
  BY <1>2
<1>4. /\ a[k] \in Byte /\ b[k] \in Byte
      /\ Crc8(a, k - 1) \in Byte /\ Crc8(b, k - 1) \in Byte
  BY <1>3, CrcOfBytes
<1>5. OneMoreByte(Crc8(a, k - 1), a[k]) = OneMoreByte(Crc8(b, k - 1), b[k])
  BY <1>2, <1>3, CrcOfBytes
<1>6. (Crc8(a, k - 1) = Crc8(b, k - 1)) = (a[k] = b[k])
  BY <1>4, <1>5, OneMoreTells
<1>7. CASE k = p
  <2>1. Crc8(a, p - 1) = Crc8(b, p - 1)
    <3>1. p - 1 \in Nat /\ p - 1 <= Len(a) /\ p - 1 <= Len(b)
      OBVIOUS
    <3>2. \A i \in 1 .. p - 1 : a[i] = b[i]
      OBVIOUS
    <3> QED
      BY <3>1, <3>2, SameBytesSameCrc
  <2> QED
    BY <1>6, <1>7, <2>1
<1>8. CASE k # p
  <2>1. k - 1 \in p .. n /\ k - 1 \notin Bad
    BY <1>2, <1>3, <1>8
  <2>2. a[k] = b[k]
    BY <1>3, <1>8
  <2> QED
    BY <1>6, <2>1, <2>2
<1> QED
  BY <1>7, <1>8

(* Zeros after a CRC that does not fit do not make one that does. *)
LEMMA ZerosTell ==
    ASSUME NEW a \in Seq(Byte), NEW p \in Nat, NEW n \in Nat, p < n, n <= Len(a),
           Crc8(a, p) # a[p + 1], \A i \in p + 2 .. n : a[i] = 0
    PROVE  Crc8(a, n) # 0
<1> DEFINE Bad == {k \in p + 1 .. n : Crc8(a, k) = 0}
<1>1. SUFFICES ASSUME Bad # {} PROVE FALSE
  OBVIOUS
<1>2. PICK k \in Bad : \A j \in Bad : k <= j
  <2>1. Bad \subseteq Nat
    OBVIOUS
  <2> QED
    BY <1>1, <2>1, FirstOf
<1>3. k \in 1 .. Len(a) /\ k \in p + 1 .. n /\ k - 1 \in 0 .. Len(a)
  BY <1>2
<1>4. a[k] \in Byte /\ Crc8(a, k - 1) \in Byte /\ 0 \in Byte
  <2>1. 0 \in Byte
    BY SMT DEF Byte
  <2> QED
    BY <1>3, <2>1, CrcOfBytes
<1>5. OneMoreByte(0, 0) = 0
  <2>1. Xor(0, 0) = 0
    BY SMT DEF Xor, DifferAt
  <2> QED
    BY <2>1, TableTells DEF OneMoreByte
<1>6. Xor(Crc8(a, k - 1), a[k]) = 0
  <2>1. Crc8(a, k) = OneMoreByte(Crc8(a, k - 1), a[k]) /\ Crc8(a, k) = 0
    BY <1>2, <1>3, CrcOfBytes
  <2> QED
    BY <1>4, <2>1, XorByte, TableTells DEF OneMoreByte
<1>7. Crc8(a, k - 1) = a[k]
  BY <1>4, <1>6, XorItself, XorTells
<1>8. CASE k = p + 1
  BY <1>7, <1>8
<1>9. CASE k # p + 1
  <2>1. k - 1 \in p + 1 .. n /\ k - 1 \notin Bad /\ k \in p + 2 .. n
    BY <1>2, <1>3, <1>9
  <2> QED
    BY <1>7, <2>1
<1> QED
  BY <1>8, <1>9

-----------------------------------------------------------------------------
(* What is on the way is what was encoded, with one bit flipped or none,    *)
(* and filled up or not yet.                                                *)
Filled(bytes) ==
    LET n == IF Len(bytes) < MinPayload THEN MinPayload ELSE Len(bytes)
    IN  [i \in 1 .. n |-> IF i <= Len(bytes) THEN bytes[i] ELSE 0]

(* w is e with at most one byte changed, as a flipped bit changes it. *)
FlippedOf(e, w, isFlipped) ==
    IF isFlipped
    THEN \E i \in 1 .. Len(e), mask \in Masks : w = [e EXCEPT ![i] = Xor(@, mask)]
    ELSE w = e

CodecInv ==
    /\ IsFrame(sent)
    /\ wire = << >> => ~flipped /\ ~padded /\ outcome = "none"
    /\ wire # << >> => \E w \in Seq(Byte) :
           /\ FlippedOf(Encoded(sent), w, flipped)
           /\ wire = IF padded THEN Filled(w) ELSE w
    /\ outcome # "none" =>
           /\ padded
           /\ outcome = IF Decodes(wire) THEN "accepted" ELSE "rejected"
           /\ got = IF Decodes(wire) THEN Decoded(wire) ELSE NoFrame

LEMMA ByteBeforeTheCrc ==
    ASSUME NEW n \in 0 .. 31
    PROVE  (4 + n) - 1 = 3 + n
OBVIOUS

(* A sequence number is put together again from its two parts. *)
LEMMA SequenceInTwoBytes ==
    ASSUME NEW s \in 0 .. 63
    PROVE  (s \div 8) * 8 + (s % 8) = s
OBVIOUS

(* The header is there, whatever the length of the data, and so are they. *)
LEMMA FirstBytes ==
    ASSUME NEW n \in 0 .. 31
    PROVE  /\ 1 \in 1 .. 4 + n /\ 2 \in 1 .. 4 + n /\ 3 \in 1 .. 4 + n
           /\ 1 \in 1 .. 3 + n /\ 2 \in 1 .. 3 + n /\ 3 \in 1 .. 3 + n
           /\ 4 + n \in 1 .. 4 + n
           /\ \A i \in 1 .. n : 3 + i \in 1 .. 3 + n
           /\ \A i \in 1 .. 3 + n : i \in 1 .. 4 + n
OBVIOUS

(* The header and the data that the CRC covers, and the frame as encoded. *)
LEMMA CoveredBytes ==
    ASSUME NEW f, IsFrame(f)
    PROVE  /\ Covered(f) \in Seq(Byte) /\ Len(Covered(f)) = 3 + Len(f.data)
           /\ Len(f.data) \in 0 .. 31
           /\ Covered(f)[1] = 126
           /\ Covered(f)[2] \div 8 = Len(f.data) /\ Covered(f)[2] % 8 = f.sequence \div 8
           /\ Covered(f)[3] \div 32 = f.sequence % 8 /\ Covered(f)[3] % 32 = f.type
           /\ \A i \in 1 .. Len(f.data) : Covered(f)[3 + i] = f.data[i]
<1>1. PICK d \in Seq(Byte) : d = f.data
  BY DEF IsFrame
<1>2. PICK n \in 0 .. 31 : n = Len(d)
  <2>1. Len(f.data) <= 31
    BY Zenon DEF IsFrame
  <2>2. PICK k \in Nat : k = Len(d)
    OBVIOUS
  <2>3. k <= 31
    BY <1>1, <2>1, <2>2
  <2>4. k \in 0 .. 31
    BY <2>3
  <2> QED
    BY <2>2, <2>4, Zenon
<1>3. PICK s \in 0 .. 63 : s = f.sequence
  BY DEF IsFrame
<1>4. PICK t \in 0 .. 31 : t = f.type
  BY DEF IsFrame, KnownTypes
<1>5. PICK b2 \in Byte : b2 = n * 8 + s \div 8 /\ b2 \div 8 = n /\ b2 % 8 = s \div 8
  BY SMT DEF Byte
<1>6. PICK b3 \in Byte : b3 = (s % 8) * 32 + t /\ b3 \div 32 = s % 8 /\ b3 % 32 = t
  BY SMT DEF Byte
<1>7. 126 \in Byte
  BY SMT DEF Byte
<1>8. Header(f) = <<126, b2, b3>>
  BY <1>1, <1>2, <1>3, <1>4, <1>5, <1>6 DEF Header, FRAME_MARKER
<1>9. Covered(f) = [i \in 1 .. 3 + n |-> IF i <= 3 THEN <<126, b2, b3>>[i] ELSE d[i - 3]]
  BY <1>1, <1>2, <1>8 DEF Covered, HeaderBytes
<1>10. PICK c : c = Covered(f)
  OBVIOUS
<1>11. c[1] = 126 /\ c[2] = b2 /\ c[3] = b3
  BY <1>9, <1>10
<1>12. \A i \in 1 .. n : c[3 + i] = d[i]
  BY <1>9, <1>10
<1>13. c \in [1 .. 3 + n -> Byte]
  <2>1. \A i \in 1 .. 3 + n : c[i] \in Byte
    <3>1. SUFFICES ASSUME NEW i \in 1 .. 3 + n PROVE c[i] \in Byte
      OBVIOUS
    <3>2. CASE i <= 3
      BY <1>7, <1>11, <3>2
    <3>3. CASE ~(i <= 3)
      <4>1. i - 3 \in 1 .. n /\ c[i] = d[i - 3]
        BY <1>9, <1>10, <3>3
      <4> QED
        BY <1>2, <4>1
    <3> QED
      BY <3>2, <3>3
  <2> QED
    BY <1>9, <1>10, <2>1
<1>14. c \in Seq(Byte) /\ Len(c) = 3 + n
  BY <1>13
<1> QED
  BY <1>1, <1>2, <1>3, <1>4, <1>5, <1>6, <1>10, <1>11, <1>12, <1>14

(* The frame as encoded: the header, the data and the CRC of both. *)
LEMMA EncodedBytes ==
    ASSUME NEW f, IsFrame(f)
    PROVE  LET e == Encoded(f)
               n == Len(f.data)
           IN  /\ n \in 0 .. 31 /\ e \in Seq(Byte) /\ Len(e) = 4 + n
               /\ e[1] = 126
               /\ e[2] \div 8 = n /\ e[2] % 8 = f.sequence \div 8
               /\ e[3] \div 32 = f.sequence % 8 /\ e[3] % 32 = f.type
               /\ \A i \in 1 .. n : e[3 + i] = f.data[i]
               /\ e[4 + n] = Crc8(e, 3 + n)
<1>1. PICK n \in 0 .. 31 : n = Len(f.data)
  BY CoveredBytes
<1>2. PICK c \in Seq(Byte) : c = Covered(f) /\ Len(c) = 3 + n
  BY <1>1, CoveredBytes
<1>3. PICK crc \in Byte : crc = Crc8(c, 3 + n)
  BY <1>2, CrcOfBytes
<1>4. PICK e : e = Encoded(f)
  OBVIOUS
<1>5. e = [i \in 1 .. 4 + n |-> IF i < 4 + n THEN c[i] ELSE crc]
  BY <1>1, <1>2, <1>3, <1>4 DEF Encoded, MinWireLen, HeaderBytes
<1>6. e \in [1 .. 4 + n -> Byte]
  BY <1>2, <1>5
<1>7. e \in Seq(Byte) /\ Len(e) = 4 + n
  BY <1>6
<1>8. \A i \in 1 .. 3 + n : e[i] = c[i]
  BY <1>5
<1>9. Crc8(e, 3 + n) = crc
  <2>1. Crc8(e, 3 + n) = Crc8(c, 3 + n)
    BY <1>2, <1>7, <1>8, SameBytesSameCrc
  <2> QED
    BY <1>3, <2>1
<1>10. e[4 + n] = crc
  BY <1>5
<1>11. /\ c[1] = 126 /\ c[2] \div 8 = n /\ c[2] % 8 = f.sequence \div 8
       /\ c[3] \div 32 = f.sequence % 8 /\ c[3] % 32 = f.type
       /\ \A i \in 1 .. n : c[3 + i] = f.data[i]
  BY <1>1, <1>2, CoveredBytes
<1>12. e[1] = c[1] /\ e[2] = c[2] /\ e[3] = c[3] /\ \A i \in 1 .. n : e[3 + i] = c[3 + i]
  BY <1>8, FirstBytes, Zenon
<1>13. /\ e[1] = 126 /\ e[2] \div 8 = n /\ e[2] % 8 = f.sequence \div 8
       /\ e[3] \div 32 = f.sequence % 8 /\ e[3] % 32 = f.type
       /\ \A i \in 1 .. n : e[3 + i] = f.data[i]
  BY <1>11, <1>12
<1> QED
  BY <1>1, <1>4, <1>7, <1>9, <1>10, <1>13, Zenon

(* Filling up leaves what is there, and adds zeros. *)
LEMMA FilledBytes ==
    ASSUME NEW w \in Seq(Byte)
    PROVE  /\ Filled(w) \in Seq(Byte) /\ Len(Filled(w)) >= Len(w)
           /\ \A i \in 1 .. Len(w) : Filled(w)[i] = w[i]
           /\ \A i \in 1 .. Len(Filled(w)) : i > Len(w) => Filled(w)[i] = 0
<1>1. PICK n \in Nat : n = IF Len(w) < MinPayload THEN MinPayload ELSE Len(w)
  BY CodecConstants
<1>2. n >= Len(w)
  BY <1>1, CodecConstants
<1>3. PICK b : b = Filled(w)
  OBVIOUS
<1>4. b = [i \in 1 .. n |-> IF i <= Len(w) THEN w[i] ELSE 0]
  BY <1>1, <1>3 DEF Filled
<1>5. 0 \in Byte
  BY SMT DEF Byte
<1>6. b \in [1 .. n -> Byte]
  BY <1>4, <1>5
<1>7. b \in Seq(Byte) /\ Len(b) = n
  BY <1>6
<1> QED
  BY <1>2, <1>3, <1>4, <1>7

(* A flipped bit changes one byte, and a length byte in one of its halves.  *)
LEMMA FlippedBytes ==
    ASSUME NEW e \in Seq(Byte), Len(e) >= 4, NEW w, FlippedOf(e, w, TRUE)
    PROVE  /\ w \in Seq(Byte) /\ Len(w) = Len(e)
           /\ \E p \in 1 .. Len(e) :
                  w[p] # e[p] /\ \A i \in 1 .. Len(e) : i # p => w[i] = e[i]
           /\ w[2] \div 8 = e[2] \div 8 \/ w[2] % 8 = e[2] % 8
<1>1. PICK p \in 1 .. Len(e), mask \in Masks : w = [e EXCEPT ![p] = Xor(e[p], mask)]
  BY DEF FlippedOf
<1>2. PICK x \in Byte : x = Xor(e[p], mask)
  BY FlippedByte
<1>3. x # e[p] /\ (x % 8 = e[p] % 8 \/ x \div 8 = e[p] \div 8)
  BY <1>2, FlippedByte
<1>4. w = [e EXCEPT ![p] = x]
  BY <1>1, <1>2
<1>5. w \in Seq(Byte) /\ Len(w) = Len(e)
  BY <1>4
<1>6. w[p] = x /\ \A i \in 1 .. Len(e) : i # p => w[i] = e[i]
  BY <1>4
<1>7. CASE p = 2
  BY <1>3, <1>5, <1>6, <1>7
<1>8. CASE p # 2
  <2>1. w[2] = e[2]
    BY <1>6, <1>8
  <2> QED
    BY <1>3, <1>5, <1>6, <2>1
<1> QED
  BY <1>7, <1>8

(* The frame that was not damaged is decoded, whatever zeros follow. *)
LEMMA IntactFrame ==
    ASSUME NEW f, IsFrame(f), NEW b \in Seq(Byte), Len(b) >= Len(Encoded(f)),
           \A i \in 1 .. Len(Encoded(f)) : b[i] = Encoded(f)[i]
    PROVE  Decodes(b) /\ Decoded(b) = f
<1>1. PICK e \in Seq(Byte) : e = Encoded(f)
  BY EncodedBytes
<1>2. PICK n \in 0 .. 31 : n = Len(f.data)
  BY EncodedBytes
<1>3. /\ Len(e) = 4 + n /\ e[1] = 126 /\ e[2] \div 8 = n /\ e[2] % 8 = f.sequence \div 8
      /\ e[3] \div 32 = f.sequence % 8 /\ e[3] % 32 = f.type
      /\ \A i \in 1 .. n : e[3 + i] = f.data[i]
      /\ e[4 + n] = Crc8(e, 3 + n)
  BY <1>1, <1>2, EncodedBytes
<1>4. /\ Len(b) >= 4 + n /\ b[1] = 126 /\ b[2] = e[2] /\ b[3] = e[3]
      /\ \A i \in 1 .. 4 + n : b[i] = e[i]
  <2>1. Len(b) >= Len(e) /\ \A i \in 1 .. Len(e) : b[i] = e[i]
    BY <1>1
  <2>2. Len(b) >= 4 + n /\ \A i \in 1 .. 4 + n : b[i] = e[i]
    BY <1>3, <2>1
  <2>3. 1 \in 1 .. 4 + n /\ 2 \in 1 .. 4 + n /\ 3 \in 1 .. 4 + n
    BY FirstBytes
  <2> QED
    BY <1>3, <2>2, <2>3
<1>5. Crc8(b, 3 + n) = Crc8(e, 3 + n)
  <2>1. 3 + n <= Len(b) /\ 3 + n <= Len(e)
    BY <1>3, <1>4
  <2>2. \A i \in 1 .. 3 + n : b[i] = e[i]
    BY <1>4, FirstBytes, Zenon
  <2>3. 3 + n \in Nat
    OBVIOUS
  <2> QED
    BY <2>1, <2>2, <2>3, SameBytesSameCrc, Zenon
<1>6. b[4 + n] = Crc8(b, 3 + n)
  BY <1>3, <1>4, <1>5
<1>7. PICK s \in 0 .. 63 : s = f.sequence
  BY DEF IsFrame
<1>8. Decoded(b).type = f.type /\ f.type \in KnownTypes
  BY <1>3, <1>4 DEF Decoded, IsFrame
<1>9. Decodes(b)
  <2>1. b[2] \div 8 = n
    BY <1>3, <1>4, Zenon
  <2>2. (4 + n) - 1 = 3 + n
    BY ByteBeforeTheCrc
  <2>3. Len(b) >= 4 + n /\ b[4 + n] = Crc8(b, (4 + n) - 1) /\ b[1] = 126
    BY <1>4, <1>6, <2>2, Zenon
  <2> QED
    BY <1>8, <2>1, <2>3, Zenon DEF Decodes, MinWireLen, FRAME_MARKER
<1>10. (b[2] % 8) * 8 + b[3] \div 32 = s
  <2>1. b[2] % 8 = s \div 8 /\ b[3] \div 32 = s % 8
    BY <1>3, <1>4, <1>7, Zenon
  <2> QED
    BY <2>1, SequenceInTwoBytes, Zenon
<1>11. DataOf(b) = f.data
  <2>1. PICK d \in Seq(Byte) : d = f.data
    BY DEF IsFrame
  <2>2. d = [i \in 1 .. n |-> d[i]]
    BY <1>2, <2>1
  <2>3. \A i \in 1 .. n : b[3 + i] = d[i]
    BY <1>3, <1>4, <2>1
  <2>4. DataOf(b) = [i \in 1 .. n |-> b[3 + i]]
    BY <1>3, <1>4 DEF DataOf, HeaderBytes
  <2> QED
    BY <2>1, <2>2, <2>3, <2>4
<1>12. f = [sequence |-> s, type |-> f.type, data |-> f.data]
  BY <1>7 DEF IsFrame
<1>13. Decoded(b) = [sequence |-> s, type |-> f.type, data |-> f.data]
  BY <1>3, <1>4, <1>10, <1>11 DEF Decoded
<1> QED
  BY <1>9, <1>12, <1>13

(* What is accepted of a frame with a flipped bit has lost its end.         *)
LEMMA FlippedFrame ==
    ASSUME NEW f, IsFrame(f), NEW w, FlippedOf(Encoded(f), w, TRUE), Decodes(Filled(w))
    PROVE  LET g == Decoded(Filled(w))
           IN  /\ g.type = f.type /\ g.sequence = f.sequence
               /\ Len(g.data) < Len(f.data)
               /\ \A i \in 1 .. Len(g.data) : g.data[i] = f.data[i]
<1>1. PICK e \in Seq(Byte) : e = Encoded(f)
  BY EncodedBytes
<1>2. PICK n \in 0 .. 31 : n = Len(f.data)
  BY EncodedBytes
<1>3. /\ Len(e) = 4 + n /\ e[1] = 126 /\ e[2] \div 8 = n /\ e[2] % 8 = f.sequence \div 8
      /\ e[3] \div 32 = f.sequence % 8 /\ e[3] % 32 = f.type
      /\ \A i \in 1 .. n : e[3 + i] = f.data[i]
      /\ e[4 + n] = Crc8(e, 3 + n)
  BY <1>1, <1>2, EncodedBytes
<1>4. /\ w \in Seq(Byte) /\ Len(w) = 4 + n
      /\ \E p \in 1 .. 4 + n : w[p] # e[p] /\ \A i \in 1 .. 4 + n : i # p => w[i] = e[i]
      /\ w[2] \div 8 = e[2] \div 8 \/ w[2] % 8 = e[2] % 8
  <2>1. FlippedOf(e, w, TRUE)
    BY <1>1
  <2>2. 4 + n >= 4 /\ Len(e) = 4 + n
    BY <1>3
  <2>3. Len(e) >= 4
    BY <2>2
  <2>4. /\ w \in Seq(Byte) /\ Len(w) = Len(e)
        /\ \E p \in 1 .. Len(e) :
               w[p] # e[p] /\ \A i \in 1 .. Len(e) : i # p => w[i] = e[i]
        /\ w[2] \div 8 = e[2] \div 8 \/ w[2] % 8 = e[2] % 8
    BY <2>1, <2>3, FlippedBytes
  <2> QED
    BY <2>2, <2>4
<1>5. PICK p \in 1 .. 4 + n : w[p] # e[p] /\ \A i \in 1 .. 4 + n : i # p => w[i] = e[i]
  BY <1>4
<1>6. PICK b \in Seq(Byte) : b = Filled(w)
  BY <1>4, FilledBytes
<1>7. /\ Len(b) >= 4 + n /\ \A i \in 1 .. 4 + n : b[i] = w[i]
      /\ \A i \in 1 .. Len(b) : i > 4 + n => b[i] = 0
  <2>1. /\ Len(Filled(w)) >= Len(w) /\ \A i \in 1 .. Len(w) : Filled(w)[i] = w[i]
        /\ \A i \in 1 .. Len(Filled(w)) : i > Len(w) => Filled(w)[i] = 0
    BY <1>4, FilledBytes, Zenon
  <2>2. Len(w) = 4 + n
    BY <1>4
  <2> QED
    BY <1>6, <2>1, <2>2, Zenon
<1>8. b[2] \in Byte /\ b[2] = w[2]
  <2>1. 2 \in 1 .. 4 + n
    BY FirstBytes
  <2>2. 2 \in 1 .. Len(b)
    BY <1>7, <2>1
  <2> QED
    BY <1>7, <2>1, <2>2
<1>9. PICK m \in 0 .. 31 : m = b[2] \div 8
  <2>1. \A x \in Byte : x \div 8 \in 0 .. 31
    BY SMT DEF Byte
  <2> QED
    BY <1>8, <2>1
<1>10. Len(b) >= 4 + m /\ b[4 + m] = Crc8(b, 3 + m)
  <2>1. (4 + m) - 1 = 3 + m
    OBVIOUS
  <2>2. Len(b) >= MinWireLen + m /\ b[MinWireLen + m] = Crc8(b, (MinWireLen + m) - 1)
    BY <1>6, <1>9, Zenon DEF Decodes
  <2> QED
    BY <2>1, <2>2 DEF MinWireLen
<1>11. ASSUME NEW k \in Nat, k < p, k <= 4 + n PROVE Crc8(b, k) = Crc8(e, k)
  <2>1. k <= Len(b) /\ k <= Len(e)
    BY <1>3, <1>7, <1>11
  <2>2. \A i \in 1 .. k : b[i] = e[i]
    BY <1>5, <1>7, <1>11
  <2> QED
    BY <2>1, <2>2, SameBytesSameCrc
<1>12. ASSUME p <= 3 + n PROVE Crc8(b, 3 + n) # Crc8(e, 3 + n)
  <2>1. 3 + n <= Len(b) /\ 3 + n <= Len(e) /\ p \in 1 .. 3 + n
    BY <1>3, <1>7, <1>12
  <2>2. b[p] # e[p] /\ \A i \in 1 .. 3 + n : i # p => b[i] = e[i]
    BY <1>5, <1>7
  <2> QED
    BY <2>1, <2>2, OneByteTells
<1>13. m # n
  <2>1. SUFFICES ASSUME m = n PROVE FALSE
    OBVIOUS
  <2>2. b[4 + n] = Crc8(b, 3 + n) /\ e[4 + n] = Crc8(e, 3 + n)
    BY <1>3, <1>10, <2>1
  <2>3. CASE p = 4 + n
    <3>1. Crc8(b, 3 + n) = Crc8(e, 3 + n)
      BY <1>11, <2>3
    <3>2. b[4 + n] # e[4 + n]
      BY <1>5, <1>7, <2>3
    <3> QED
      BY <2>2, <3>1, <3>2
  <2>4. CASE p # 4 + n
    <3>1. p <= 3 + n /\ 4 + n \in 1 .. 4 + n /\ 4 + n # p
      BY <2>4
    <3>2. b[4 + n] = e[4 + n]
      BY <1>5, <1>7, <3>1
    <3> QED
      BY <1>12, <2>2, <3>1, <3>2
  <2> QED
    BY <2>3, <2>4
<1>14. w[2] \div 8 # e[2] \div 8 /\ w[2] % 8 = e[2] % 8
  BY <1>3, <1>4, <1>8, <1>9, <1>13
<1>15. p = 2
  <2>1. w[2] # e[2] /\ 2 \in 1 .. 4 + n
    BY <1>14, FirstBytes
  <2> QED
    BY <1>5, <2>1
<1>16. ~(m > n)
  <2>1. SUFFICES ASSUME m > n PROVE FALSE
    OBVIOUS
  <2>2. Crc8(b, 3 + n) # b[4 + n]
    <3>1. Crc8(b, 3 + n) # Crc8(e, 3 + n)
      BY <1>12, <1>15
    <3>2. 4 + n \in 1 .. 4 + n /\ 4 + n # p
      BY <1>15
    <3>3. b[4 + n] = e[4 + n]
      BY <1>5, <1>7, <3>2
    <3> QED
      BY <1>3, <3>1, <3>3
  <2>3. \A i \in (3 + n) + 2 .. 3 + m : b[i] = 0
    BY <1>7, <1>10
  <2>4. 3 + n \in Nat /\ 3 + m \in Nat /\ 3 + n < 3 + m /\ 3 + m <= Len(b)
        /\ (3 + n) + 1 = 4 + n
    BY <1>10, <2>1
  <2>5. Crc8(b, 3 + m) # 0
    BY <2>2, <2>3, <2>4, ZerosTell
  <2>6. b[4 + m] = 0
    BY <1>7, <1>10, <2>1
  <2> QED
    BY <1>10, <2>5, <2>6
<1>17. m < n
  BY <1>13, <1>16
<1>18. b[3] = e[3] /\ b[2] % 8 = e[2] % 8
  <2>1. 3 \in 1 .. 4 + n /\ 3 # p
    BY <1>15, FirstBytes
  <2> QED
    BY <1>5, <1>7, <1>8, <1>14, <2>1
<1>19. PICK s \in 0 .. 63 : s = f.sequence
  BY DEF IsFrame
<1>20. PICK d : d = DataOf(b)
  OBVIOUS
<1>21. d = [i \in 1 .. m |-> b[3 + i]]
  BY <1>9, <1>20 DEF DataOf, HeaderBytes
<1>22. Len(d) = m
  BY <1>21
<1>23. \A i \in 1 .. m : d[i] = f.data[i]
  <2>1. \A i \in 1 .. m : i \in 1 .. n /\ 3 + i \in 1 .. 4 + n /\ 3 + i # p
    BY <1>15, <1>17
  <2>2. ASSUME NEW i \in 1 .. m PROVE d[i] = f.data[i]
    <3>1. d[i] = b[3 + i]
      BY <1>21
    <3>2. b[3 + i] = w[3 + i]
      BY <1>7, <2>1
    <3>3. w[3 + i] = e[3 + i]
      BY <1>5, <2>1
    <3>4. e[3 + i] = f.data[i]
      BY <1>3, <2>1
    <3> QED
      BY <3>1, <3>2, <3>3, <3>4, Zenon
  <2> QED
    BY <2>2, Zenon
<1>24. (b[2] % 8) * 8 + b[3] \div 32 = s /\ b[3] % 32 = f.type
  <2>1. (s \div 8) * 8 + (s % 8) = s
    OBVIOUS
  <2>2. b[2] % 8 = s \div 8 /\ b[3] \div 32 = s % 8 /\ b[3] % 32 = f.type
    BY <1>3, <1>18, <1>19
  <2> QED
    BY <2>1, <2>2
<1>25. Decoded(b) = [sequence |-> s, type |-> f.type, data |-> d]
  BY <1>20, <1>24 DEF Decoded
<1> QED
  BY <1>2, <1>6, <1>17, <1>19, <1>22, <1>23, <1>25

(* Encoding, flipping, filling up and receiving keep the invariant.         *)
LEMMA CodecStep ==
    ASSUME CodecInv, [CodecNext]_codecVars
    PROVE  CodecInv'
<1>1. CASE Encode
  <2>1. Encoded(sent) \in Seq(Byte) /\ Len(Encoded(sent)) >= 4
    BY EncodedBytes DEF CodecInv
  <2>2. PICK e \in Seq(Byte) : e = Encoded(sent) /\ Len(e) >= 4
    BY <2>1
  <2>3. ~flipped /\ ~padded /\ outcome = "none"
    BY <1>1 DEF CodecInv, Encode
  <2>4. wire' = e /\ UNCHANGED <<sent, flipped, padded, outcome, got>>
    BY <1>1, <2>2 DEF Encode
  <2>5. e # << >>
    BY <2>2
  <2>6. FlippedOf(Encoded(sent)', e, flipped')
    BY <2>2, <2>3, <2>4, Zenon DEF FlippedOf
  <2> QED
    BY <2>2, <2>3, <2>4, <2>5, <2>6 DEF CodecInv
<1>2. CASE \E i \in 1 .. Len(wire), mask \in Masks : FlipBit(i, mask)
  <2>1. PICK i \in 1 .. Len(wire), mask \in Masks : FlipBit(i, mask)
    BY <1>2
  <2>2. wire # << >>
    BY <2>1
  <2>3. PICK w \in Seq(Byte) :
           FlippedOf(Encoded(sent), w, flipped) /\ wire = IF padded THEN Filled(w) ELSE w
    BY <2>2 DEF CodecInv
  <2>4. ~flipped /\ ~padded
    BY <2>1 DEF FlipBit
  <2>5. w = Encoded(sent) /\ wire = w
    BY <2>3, <2>4 DEF FlippedOf
  <2>6. PICK v : v = [w EXCEPT ![i] = Xor(@, mask)]
    OBVIOUS
  <2>7. wire' = v /\ flipped' = TRUE /\ UNCHANGED <<sent, padded, outcome, got>>
    BY <2>1, <2>5, <2>6 DEF FlipBit
  <2>8. FlippedOf(w, v, TRUE)
    BY <2>5, <2>6, Zenon DEF FlippedOf
  <2>9. Len(w) >= 4
    BY <2>5, EncodedBytes DEF CodecInv
  <2>10. v \in Seq(Byte) /\ Len(v) = Len(w)
    BY <2>8, <2>9, FlippedBytes
  <2>11. v # << >>
    BY <2>9, <2>10
  <2>12. FlippedOf(Encoded(sent)', v, flipped')
    BY <2>5, <2>7, <2>8
  <2>13. outcome = "none"
    BY <2>4 DEF CodecInv
  <2> QED
    BY <2>4, <2>7, <2>10, <2>11, <2>12, <2>13 DEF CodecInv
<1>3. CASE Pad
  <2>1. wire # << >> /\ ~padded
    BY <1>3 DEF Pad
  <2>2. PICK w \in Seq(Byte) : FlippedOf(Encoded(sent), w, flipped) /\ wire = w
    BY <2>1 DEF CodecInv
  <2>3. wire' = Filled(w) /\ padded' = TRUE /\ UNCHANGED <<sent, flipped, outcome, got>>
    BY <1>3, <2>2 DEF Pad, Filled
  <2>4. Filled(w) # << >>
    <3>1. PICK b \in Seq(Byte) : b = Filled(w) /\ Len(b) >= Len(w)
      BY FilledBytes
    <3>2. Len(w) # 0
      BY <2>1, <2>2
    <3> QED
      BY <3>1, <3>2
  <2>5. outcome = "none"
    BY <2>1 DEF CodecInv
  <2>6. FlippedOf(Encoded(sent)', w, flipped')
    BY <2>2, <2>3
  <2> QED
    BY <2>3, <2>4, <2>5, <2>6 DEF CodecInv
<1>4. CASE Receive
  BY <1>4 DEF CodecInv, Receive
<1>5. CASE UNCHANGED codecVars
  BY <1>5 DEF CodecInv, codecVars
<1> QED
  BY <1>1, <1>2, <1>3, <1>4, <1>5 DEF CodecNext

(* so it always holds. *)
LEMMA CodecAlways == CodecSpec => []CodecInv
<1>1. CodecInit => CodecInv
  BY CodecConstants DEF CodecInit, CodecInv
<1> QED
  BY <1>1, CodecStep, PTL DEF CodecSpec

(* What was received is what is filled up with zeros. *)
LEMMA WhatArrives ==
    ASSUME CodecInv, outcome # "none"
    PROVE  \E w \in Seq(Byte) : FlippedOf(Encoded(sent), w, flipped) /\ wire = Filled(w)
BY DEF CodecInv

(* RoundTrip, for every frame the shape check admits and every padding. *)
THEOREM FramesArriveWhole == CodecSpec => []RoundTrip
<1>1. CodecInv => RoundTrip
  <2> SUFFICES ASSUME CodecInv, ~flipped, outcome # "none"
               PROVE  outcome = "accepted" /\ got = sent
    BY DEF RoundTrip
  <2>1. PICK w \in Seq(Byte) : w = Encoded(sent) /\ wire = Filled(w)
    BY WhatArrives DEF FlippedOf
  <2>2. PICK b \in Seq(Byte) :
           b = Filled(w) /\ Len(b) >= Len(w) /\ \A i \in 1 .. Len(w) : b[i] = w[i]
    BY FilledBytes
  <2>3. Decodes(b) /\ Decoded(b) = sent
    BY <2>1, <2>2, IntactFrame DEF CodecInv
  <2> QED
    BY <2>1, <2>2, <2>3 DEF CodecInv
<1> QED
  BY <1>1, CodecAlways, PTL

(* FlipOnlyShortens, for every frame, bit and padding.  A byte that differs *)
(* makes the CRC differ, and neither the data nor the zeros that follow     *)
(* make it the same again; only a length that got smaller looks elsewhere.  *)
THEOREM FlipsAreNoticed == CodecSpec => []FlipOnlyShortens
<1>1. CodecInv => FlipOnlyShortens
  <2> SUFFICES ASSUME CodecInv, flipped, outcome = "accepted"
               PROVE  /\ got.type = sent.type /\ got.sequence = sent.sequence
                      /\ Len(got.data) < Len(sent.data)
                      /\ \A i \in 1 .. Len(got.data) : got.data[i] = sent.data[i]
    BY DEF FlipOnlyShortens
  <2>1. PICK w \in Seq(Byte) : FlippedOf(Encoded(sent), w, TRUE) /\ wire = Filled(w)
    BY WhatArrives DEF FlippedOf
  <2>2. Decodes(wire) /\ got = Decoded(wire)
    BY DEF CodecInv
  <2> QED
    <3>1. IsFrame(sent)
      BY DEF CodecInv
    <3>2. Decodes(Filled(w)) /\ got = Decoded(Filled(w))
      BY <2>1, <2>2, Zenon
    <3> QED
      BY <2>1, <3>1, <3>2, FlippedFrame, Zenon
<1> QED
  BY <1>1, CodecAlways, PTL
=============================================================================
