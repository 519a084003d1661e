------------------------- MODULE SessionMovesProofs -------------------------
(***************************************************************************)
(* That every move of a session is played once, and that the session        *)
(* implements TurnExchange: the invariant MoveInv, and the steps of the     *)
(* exchange that the actions take.                                          *)
(***************************************************************************)
EXTENDS GameSessionProofs

-----------------------------------------------------------------------------
(* Moves. *)

MovesOn ==
    TypeInv /\ TransferInv /\ TurnsMoveOn /\ MoveInv /\ "read" \notin faults

Leaver == cPhase \in {"waitEnd", "ended", "failed"}

(* The client sends, or the server reads and stays as it is.                *)
LEMMA MovesKept ==
    ASSUME MovesOn, UNCHANGED <<serverVars, moves, moveSeq>>,
           NEW Y, Adds(toServer, toServer', Y),
           \A y \in Y : y.type = "MOVE" =>
               /\ cPhase = "waitMove" /\ y.seq = moveSeq
               /\ \A z \in Y : z.type # "ACK"
    PROVE  MovesInv'
<1>1. /\ UNCHANGED <<sPhase, lastMove, turns, moves, moveSeq>> /\ HeadSeq' = HeadSeq
      /\ \A phases : ServerAt(phases)' <=> ServerAt(phases)
  BY DEF serverVars, HeadSeq, ServerAt
<1>2. MovesInv /\ FreshInv /\ PlayedInv /\ turns \in {moves - 1, moves}
  BY DEF MovesOn, MoveInv, OneTurnPerMove
<1>3. ASSUME NEW f \in Range(toServer'), f.type = "MOVE"
      PROVE  /\ ServerAt({"play", "data", "waitData"}) => Unplayed /\ f.seq = moveSeq
             /\ ServerAt({"head", "waitHead"}) => f.seq = lastMove
  <2>1. CASE f \in Range(toServer)
    BY <1>2, <1>3, <2>1 DEF MovesInv
  <2>2. CASE f \in Y
    <3>1. cPhase = "waitMove" /\ f.seq = moveSeq
      BY <1>3, <2>2
    <3>2. CASE Unplayed
      BY <1>2, <3>1, <3>2 DEF FreshInv, ServerAt
    <3>3. CASE turns = moves
      BY <1>2, <3>1, <3>3 DEF PlayedInv, ServerAt
    <3>4. QED
      BY <1>2, <3>2, <3>3 DEF Unplayed
  <2>3. QED
    BY <1>3, <2>1, <2>2 DEF Adds
<1>4. ASSUME ServerAt({"waitHead"}), NEW f \in Range(toServer'), f.type = "ACK",
             f.seq = HeadSeq, NEW g \in Behind(toServer', f)
      PROVE  g.type # "MOVE"
  <2>1. CASE g \in Behind(toServer, f)
    <3>1. f \in Range(toServer)
      BY <2>1, BehindIsOnIt DEF MovesOn, TypeInv, SessionTypeOK, LinksTypeOK
    <3>2. QED
      BY <1>2, <1>4, <2>1, <3>1 DEF MovesInv
  <2>2. CASE g \in Y
    <3>1. SUFFICES ASSUME g.type = "MOVE" PROVE FALSE
      OBVIOUS
    <3>2. cPhase = "waitMove" /\ sPhase = "waitHead" /\ ClientLives
      BY <1>4, <2>2, <3>1 DEF ServerAt, ClientLives
    <3>3. turns = moves
      BY <1>2, <3>2 DEF FreshInv, ServerAt, Unplayed
    <3>4. cMsg < sMsg
      BY <1>2, <3>2, <3>3 DEF PlayedInv
    <3>5. CASE f \in Y
      BY <1>4, <2>2, <3>1, <3>5
    <3>6. CASE f \in Range(toServer)
      <4>1. AckInv(f)
        BY <1>4, <3>2, <3>6 DEF MovesOn, TransferInv, AcksInv, ServerReads
      <4>2. f.seq = Awaited.seq /\ ServerAt({"waitHead", "waitData"})
        BY <1>4, <3>2 DEF Awaited, HeadFrame, Frame, ServerAt
      <4>3. Taken
        BY <3>2, <4>1, <4>2 DEF AckInv
      <4>4. QED
        BY <3>4, <4>3 DEF Taken, MovesOn, TypeInv, SessionTypeOK, ServerTypeOK, ClientTypeOK
    <3>7. QED
      BY <1>4, <3>5, <3>6 DEF Adds
  <2>3. QED
    BY <1>4, <2>1, <2>2 DEF Adds
<1>5. QED
  BY <1>1, <1>3, <1>4 DEF MovesInv, Unplayed

LEMMA LeavingKept ==
    ASSUME MovesOn, sPhase' = sPhase \/ sPhase' # "ended", Leaver => Leaver',
           NEW Y, Adds(toServer, toServer', Y),
           \A y \in Y : y.type = "END" => Leaver'
    PROVE  LeavingInv'
<1>1. LeavingInv
  BY DEF MovesOn, MoveInv
<1>2. ASSUME NEW f \in Range(toServer'), f.type = "END"
      PROVE  Leaver'
  <2>1. f \in Range(toServer) => Leaver
    BY <1>1, <1>2 DEF LeavingInv, Leaver
  <2>2. QED
    BY <1>2, <2>1 DEF Adds
<1>3. sPhase' = "ended" => Leaver'
  BY <1>1 DEF LeavingInv, ServerAt, Leaver
<1>4. QED
  BY <1>2, <1>3 DEF LeavingInv, ServerAt, Leaver

(* The server sends no ACK, or the client reads. *)
LEMMA PlayedAcksKept ==
    ASSUME MovesOn, UNCHANGED <<turns, cMsg, cNext>>,
           sMsg' = sMsg \/ (ClientLives => cMsg # sMsg'),
           moves' = moves \/ moves' = turns,
           ClientLives' /\ cPhase' # "waitEnd" =>
               /\ ClientLives /\ cPhase # "waitEnd"
               /\ cPhase' # "input" \/ cPhase = "input",
           NEW X, Adds(toClient, toClient', X), \A x \in X : x.type # "ACK"
    PROVE  PlayedAcksInv'
<1>1. SUFFICES ASSUME ClientLives', cPhase' # "waitEnd",
                      NEW f \in Range(toClient'), f.type = "ACK"
               PROVE  /\ cPhase' # "input" /\ ~Unplayed'
                      /\ cMsg' = sMsg' =>
                             /\ cNext' = 0
                             /\ \A g \in Range(toClient') : g.type = "DATA" =>
                                    f \notin Behind(toClient', g)
  BY DEF PlayedAcksInv
<1>2. f \in Range(toClient)
  BY <1>1 DEF Adds
<1>3. /\ ClientLives /\ cPhase # "input" /\ ~Unplayed
      /\ cMsg = sMsg =>
             /\ cNext = 0
             /\ \A g \in Range(toClient) : g.type = "DATA" =>
                    f \notin Behind(toClient, g)
  BY <1>1, <1>2 DEF MovesOn, MoveInv, PlayedAcksInv
<1>4. cPhase' # "input" /\ ~Unplayed'
  BY <1>1, <1>3 DEF Unplayed, MovesOn, TypeInv, SessionTypeOK, ServerTypeOK
<1>5. ASSUME cMsg' = sMsg', NEW g \in Range(toClient'), g.type = "DATA",
             f \in Behind(toClient', g)
      PROVE  FALSE
  <2>1. cMsg = sMsg
    BY <1>3, <1>5
  <2>2. f \in Behind(toClient, g)
    BY <1>1, <1>5 DEF Adds
  <2>3. g \in Range(toClient)
    BY <2>2, BehindIsOnIt DEF MovesOn, TypeInv, SessionTypeOK, LinksTypeOK
  <2>4. QED
    BY <1>3, <1>5, <2>1, <2>2, <2>3
<1>6. QED
  BY <1>3, <1>4, <1>5

(* What is said of the moves apart from the links. *)
MoveStateInv ==
    /\ OneTurnPerMove /\ (cPhase = "waitEnd" => turns = moves)
    /\ NumbersInv /\ FreshInv /\ PlayedInv /\ ShownInv

LEMMA MoveInvSplit ==
    /\ MoveInv <=> MoveStateInv /\ MovesInv /\ PlayedAcksInv /\ LeavingInv
    /\ MoveInv' <=> MoveStateInv' /\ MovesInv' /\ PlayedAcksInv' /\ LeavingInv'
BY DEF MoveInv, MoveStateInv

(* Nobody's state changes. *)
LEMMA MoveStateKept ==
    ASSUME MovesOn, UNCHANGED <<serverVars, clientVars>>
    PROVE  MoveStateInv'
BY DEF MovesOn, MoveInv, MoveStateInv, serverVars, clientVars, OneTurnPerMove,
   NumbersInv, FreshInv, PlayedInv, ShownInv, HeadSeq, ServerAt, Unplayed,
   ClientLives

(* The client leaves. *)
LEMMA MoveStateLeft ==
    ASSUME MovesOn, UNCHANGED <<serverVars, moves, moveSeq>>, ~ClientLives'
    PROVE  MoveStateInv'
BY DEF MovesOn, MoveInv, MoveStateInv, serverVars, OneTurnPerMove,
   NumbersInv, FreshInv, PlayedInv, ShownInv, HeadSeq, ServerAt, Unplayed,
   ClientLives

LEMMA ToClientNone ==
    ASSUME TypeInv,
           toClient' = toClient \/ (toClient # << >> /\ toClient' = Tail(toClient))
    PROVE  Adds(toClient, toClient', {})
BY AddsNone DEF TypeInv, SessionTypeOK, LinksTypeOK

LEMMA ToClientSent ==
    ASSUME TypeInv, NEW f \in Frames(ToClientTypes),
           toClient' \in AfterSend(toClient, f) \cup {toClient}
    PROVE  Adds(toClient, toClient', {f})
BY AddsSent DEF TypeInv, SessionTypeOK, LinksTypeOK

(* An ACK of the last move, which the server has played. *)
LEMMA PlayedAckSent ==
    ASSUME MovesOn, UNCHANGED clientVars, UNCHANGED sMsg,
           \/ turns' = turns /\ sPhase = "waitHead"
           \/ turns' = moves /\ sPhase = "play" /\ Unplayed,
           NEW f, f.type = "ACK", Adds(toClient, toClient', {f})
    PROVE  PlayedAcksInv'
<1>1. SUFFICES ASSUME ClientLives', cPhase' # "waitEnd"
               PROVE  /\ cPhase' # "input" /\ ~Unplayed'
                      /\ cMsg' = sMsg' =>
                             /\ cNext' = 0
                             /\ \A g \in Range(toClient') : g.type # "DATA"
  <2>1. ASSUME NEW g \in Range(toClient'), g.type = "DATA",
               \A h \in Range(toClient') : h.type # "DATA"
        PROVE  FALSE
    BY <2>1
  <2>2. QED
    BY <1>1, <2>1 DEF PlayedAcksInv
<1>2. /\ UNCHANGED <<cPhase, cMsg, cNext, cBase, moves, sMsg>> /\ ClientLives
      /\ sMsg \in Nat /\ cMsg \in Nat /\ turns \in Nat /\ moves \in Nat
      /\ turns \in {moves - 1, moves}
      /\ cPhase = "input" => turns = moves
  BY <1>1 DEF clientVars, ClientLives, MovesOn, TypeInv, SessionTypeOK,
     ServerTypeOK, ClientTypeOK, MoveInv, OneTurnPerMove
<1>3. cPhase' # "input" /\ ~Unplayed'
  <2>1. CASE sPhase = "waitHead" /\ turns' = turns
    BY <1>2, <2>1 DEF MovesOn, MoveInv, FreshInv, ServerAt, Unplayed
  <2>2. CASE turns' = moves /\ Unplayed
    BY <1>2, <2>2 DEF Unplayed
  <2>3. QED
    BY <2>1, <2>2
<1>4. Between \/ HeadTaken
  BY <1>2 DEF MovesOn, TransferInv, InStep, Inside, ChunkTaken, ServerAt
<1>5. CASE Between
  BY <1>2, <1>3, <1>5 DEF Between
<1>6. CASE HeadTaken
  <2>1. \A g \in Range(toClient) : g.type # "DATA"
    BY <1>6, JobListsShape DEF HeadTaken, Control, HeadFrame, Frame, MovesOn, TypeInv, JobsInv
  <2>2. QED
    BY <1>2, <1>3, <1>6, <2>1 DEF HeadTaken, Adds
<1>7. QED
  BY <1>4, <1>5, <1>6

(* A frame sent again, or an answer: the state of both sides stays. *)
LEMMA ServerRepeatsKeepMoves ==
    ASSUME MovesOn, ServerRepeats \/ Stabilise
    PROVE  MoveInv'
<1>1. UNCHANGED <<serverVars, clientVars>>
  BY RepeatsKeep
<1>2. TypeInv /\ UNCHANGED <<sPhase, turns, cMsg, cNext, sMsg, moves, moveSeq, cPhase>>
      /\ (Leaver => Leaver') /\ (ClientLives' => ClientLives)
  BY <1>1 DEF MovesOn, serverVars, clientVars, Leaver, ClientLives
<1>3. toServer' = toServer \/ (toServer # << >> /\ toServer' = Tail(toServer))
  BY DEF ServerRepeats, HeadTimeout, ChunkTimeout, ServerReadsNack,
     ServerReadsOther, ServerReadsNoMove, Stabilise, ServerArriving
<1>4. MovesInv' /\ LeavingInv'
  <2> DEFINE Y == {}
  <2>1. Adds(toServer, toServer', Y) /\ \A y \in Y : FALSE
    BY <1>2, <1>3, ToServerNone
  <2> HIDE DEF Y
  <2>2. QED
    BY <1>1, <1>2, <2>1, MovesKept, LeavingKept
<1>14. SUFFICES PlayedAcksInv'
  BY <1>1, <1>4, MoveStateKept, MoveInvSplit
<1>5. ASSUME NEW f \in Frames(ToClientTypes), f.type # "ACK",
             toClient' \in AfterSend(toClient, f) \cup {toClient}
      PROVE  PlayedAcksInv'
  <2> DEFINE X == {f}
  <2>1. Adds(toClient, toClient', X) /\ \A x \in X : x.type # "ACK"
    BY <1>2, <1>5, ToClientSent
  <2> HIDE DEF X
  <2>2. QED
    BY <1>2, <2>1, PlayedAcksKept
<1>6. /\ ErrorFrame \in Frames(ToClientTypes) /\ ErrorFrame.type = "ERROR"
      /\ DataFrame(sChunk) \in Frames(ToClientTypes) /\ DataFrame(sChunk).type = "DATA"
  BY <1>2, ServerFramesAreTyped DEF ErrorFrame, DataFrame, Frame
<1>7. jobs # << >> => /\ HeadFrame \in Frames(ToClientTypes)
                      /\ HeadFrame.type \in {"VIEW", "FILE", "END"}
  BY <1>2, ServerFramesAreTyped, JobListsShape DEF HeadFrame, Frame, TypeInv, JobsInv
<1>8. CASE Stabilise
  BY <1>5, <1>6, <1>8 DEF Stabilise
<1>9. CASE HeadTimeout
  BY <1>2, <1>5, <1>7, <1>9 DEF HeadTimeout, TypeInv, JobsInv, ServerAt
<1>10. CASE ChunkTimeout
  BY <1>5, <1>6, <1>10 DEF ChunkTimeout
<1>11. CASE ServerReadsNack
  <2>1. Awaited \in Frames(ToClientTypes) /\ Awaited.type # "ACK"
    BY <1>2, <1>6, <1>7, <1>11
       DEF Awaited, ServerReadsNack, ServerArriving, TypeInv, JobsInv, ServerAt
  <2>2. QED
    BY <1>5, <1>11, <2>1 DEF ServerReadsNack
<1>12. CASE ServerReadsNoMove
  <2> DEFINE f == Reply(Head(toServer), "NACK")
  <2>1. Head(toServer) \in Frames(ToServerTypes)
    BY <1>2, <1>12, AtTheServer DEF ServerReadsNoMove
  <2>2. f \in Frames(ToClientTypes) /\ f.type # "ACK"
    BY <2>1, FrameParts
  <2>3. toClient' \in AfterSend(toClient, f) \cup {toClient}
    BY <1>12 DEF ServerReadsNoMove
  <2> HIDE DEF f
  <2>4. QED
    BY <1>5, <2>2, <2>3
<1>13. CASE ServerReadsOther
  <2> DEFINE f == Reply(Head(toServer), "ACK")
  <2>1. Head(toServer) \in Frames(ToServerTypes) /\ Head(toServer) \in Range(toServer)
        /\ sPhase \in {"waitHead", "waitData"}
    BY <1>2, <1>13, AtTheServer DEF ServerReadsOther
  <2>2. f \in Frames(ToClientTypes) /\ f.type = "ACK"
    BY <2>1, FrameParts
  <2>3. CASE UNCHANGED toClient
    BY <1>5, <1>6, <2>3
  <2>4. CASE /\ Head(toServer).type = "MOVE" /\ Head(toServer).seq = lastMove
             /\ toClient' \in AfterSend(toClient, f)
    <3>1. sPhase = "waitHead"
      <4>1. SUFFICES ASSUME sPhase = "waitData" PROVE FALSE
        BY <2>1
      <4>2. Unplayed /\ lastMove = moveSeq
        BY <2>1, <2>4, <4>1 DEF MovesOn, MoveInv, MovesInv, ServerAt
      <4>3. QED
        BY <4>2 DEF MovesOn, MoveInv, FreshInv
    <3>2. Adds(toClient, toClient', {f})
      BY <1>2, <2>2, <2>4, ToClientSent
    <3> HIDE DEF f
    <3>3. QED
      BY <1>1, <1>2, <2>2, <3>1, <3>2, PlayedAckSent
  <2>5. QED
    BY <1>13, <2>3, <2>4 DEF ServerReadsOther
<1>15. QED
  BY <1>8, <1>9, <1>10, <1>11, <1>12, <1>13 DEF ServerRepeats

LEMMA ClientRepeatsKeepMoves ==
    ASSUME MovesOn, ClientRepeats
    PROVE  MoveInv'
<1>1. UNCHANGED <<serverVars, clientVars>>
  BY RepeatsKeep
<1>2. TypeInv /\ UNCHANGED <<sPhase, turns, cMsg, cNext, sMsg, moves, moveSeq, cPhase>>
      /\ (Leaver => Leaver') /\ (ClientLives' => ClientLives)
  BY <1>1 DEF MovesOn, serverVars, clientVars, Leaver, ClientLives
<1>3. toClient' = toClient \/ (toClient # << >> /\ toClient' = Tail(toClient))
  BY DEF ClientRepeats, ControlTimeout, ControlOldData, ControlOther,
     ClientReadsStartAgain, ClientReadsLate, ClientReadsForeign,
     ClientReadsOldData, ClientRefusesLength, ReceiveTimeout, ClientArriving
<1>4. PlayedAcksInv'
  <2> DEFINE X == {}
  <2>1. Adds(toClient, toClient', X) /\ \A x \in X : x.type # "ACK"
    BY <1>2, <1>3, ToClientNone
  <2> HIDE DEF X
  <2>2. QED
    BY <1>2, <2>1, PlayedAcksKept
<1>14. SUFFICES MovesInv' /\ LeavingInv'
  BY <1>1, <1>4, MoveStateKept, MoveInvSplit
<1>5. ASSUME NEW f \in Frames(ToServerTypes),
             SendToServer(f) \/ UNCHANGED toServer,
             f.type = "MOVE" => cPhase = "waitMove" /\ f.seq = moveSeq,
             f.type = "END" => Leaver
      PROVE  MovesInv' /\ LeavingInv'
  <2> DEFINE Y == {f}
  <2>1. /\ Adds(toServer, toServer', Y)
        /\ \A y \in Y : y.type = "MOVE" =>
               /\ cPhase = "waitMove" /\ y.seq = moveSeq
               /\ \A z \in Y : z.type # "ACK"
        /\ \A y \in Y : y.type = "END" => Leaver'
    BY <1>2, <1>5, ToServerSent
  <2> HIDE DEF Y
  <2>2. QED
    BY <1>1, <1>2, <2>1, MovesKept, LeavingKept
<1>6. ASSUME NEW f \in Frames(ToServerTypes),
             SendToServer(f) \/ UNCHANGED toServer,
             f.type \in {"ACK", "NACK", "ERROR"}
      PROVE  MovesInv' /\ LeavingInv'
  BY <1>5, <1>6
<1>7. /\ Frame("NACK", Expected, <<cMsg, cNext, 0>>) \in Frames(ToServerTypes)
      /\ Frame("NACK", Expected, <<cMsg, cNext, 0>>).type = "NACK"
  BY <1>2, ClientFramesAreTyped DEF Frame
<1>8. ASSUME NEW phases, NEW types, ClientArriving(phases, types),
             NEW t \in {"ACK", "ERROR"},
             SendToServer(Reply(Head(toClient), t)) \/ UNCHANGED toServer
      PROVE  MovesInv' /\ LeavingInv'
  <2>1. Head(toClient) \in Frames(ToClientTypes)
    BY <1>2, <1>8, AtTheClient
  <2> DEFINE f == Reply(Head(toClient), t)
  <2>2. \A u \in {"ACK", "NACK", "ERROR"} :
            /\ Reply(Head(toClient), u) \in Frames(ToServerTypes)
            /\ Reply(Head(toClient), u).type = u
    BY <2>1, FrameParts
  <2>3. f \in Frames(ToServerTypes) /\ f.type \in {"ACK", "NACK", "ERROR"}
    BY <2>2
  <2>4. SendToServer(f) \/ UNCHANGED toServer
    BY <1>8
  <2> HIDE DEF f
  <2>5. QED
    BY <1>6, <2>3, <2>4
<1>9. ASSUME cPhase \in {"waitMove", "waitEnd"},
             SendToServer(Asked) \/ UNCHANGED toServer
      PROVE  MovesInv' /\ LeavingInv'
  <2>1. Asked \in Frames(ToServerTypes)
    BY <1>2, ClientFramesAreTyped
  <2>2. /\ Asked.type = "MOVE" => cPhase = "waitMove" /\ Asked.seq = moveSeq
        /\ Asked.type = "END" => Leaver
    BY <1>9 DEF Asked, Frame, Leaver
  <2>3. QED
    BY <1>5, <1>9, <2>1, <2>2
<1>10. CASE ControlTimeout \/ ControlOther
  BY <1>9, <1>10 DEF ControlTimeout, ControlOther, ClientArriving
<1>11. CASE ReceiveTimeout \/ ClientReadsForeign \/ ClientRefusesLength
  BY <1>6, <1>7, <1>11 DEF ReceiveTimeout, ClientReadsForeign, ClientRefusesLength,
     NackExpected
<1>12. CASE \/ ControlOldData \/ ClientReadsStartAgain \/ ClientReadsLate
  BY <1>8, <1>12 DEF ControlOldData, ClientReadsStartAgain, ClientReadsLate
<1>13. CASE ClientReadsOldData
  BY <1>6, <1>7, <1>8, <1>13 DEF ClientReadsOldData, NackExpected
<1>15. QED
  BY <1>10, <1>11, <1>12, <1>13 DEF ClientRepeats

-----------------------------------------------------------------------------
(* The server.                                                              *)

LEMMA ClientNotAhead ==
    ASSUME TypeInv, InStep, ClientLives
    PROVE  cMsg \in Nat /\ sMsg \in Nat /\ cMsg <= sMsg
BY DEF InStep, Between, HeadTaken, Inside, ChunkTaken, TypeInv, SessionTypeOK,
   ServerTypeOK, ClientTypeOK

(* The frame acknowledged is one the client has taken. *)
LEMMA HeadAckTaken ==
    ASSUME MovesOn, HeadAcknowledged, ClientLives
    PROVE  cMsg = sMsg /\ cNext = 0 /\ Head(jobs) # "END"
<1>1. /\ sPhase = "waitHead" /\ Head(toServer) \in Range(toServer)
      /\ Head(toServer).type = "ACK" /\ Head(toServer).seq = HeadSeq
  BY AtTheServer DEF MovesOn, HeadAcknowledged
<1>2. AckInv(Head(toServer))
  BY <1>1 DEF MovesOn, TransferInv, AcksInv, ServerReads
<1>3. Awaited.seq = HeadSeq
  BY <1>1 DEF Awaited, HeadFrame, Frame
<1>4. Taken
  BY <1>1, <1>2, <1>3 DEF AckInv, ServerAt
<1>5. cMsg = sMsg /\ cNext = 0
  BY <1>1, <1>4 DEF Taken
<1>6. ~Between
  BY <1>5, ClientNotAhead DEF Between, MovesOn, TransferInv
<1>7. QED
  BY <1>1, <1>5, <1>6
     DEF MovesOn, TransferInv, InStep, HeadTaken, Inside, ChunkTaken, ServerAt

LEMMA ChunkAckTaken ==
    ASSUME MovesOn, ChunkAcknowledged, ClientLives
    PROVE  cMsg = sMsg /\ cNext = sChunk + 1
<1>1. /\ sPhase = "waitData" /\ Head(toServer) \in Range(toServer)
      /\ Head(toServer).type = "ACK" /\ Head(toServer).seq = Awaited.seq
  BY AtTheServer DEF MovesOn, ChunkAcknowledged
<1>2. AckInv(Head(toServer))
  BY <1>1 DEF MovesOn, TransferInv, AcksInv, ServerReads
<1>3. QED
  BY <1>1, <1>2 DEF AckInv, ServerAt, Taken

(* A MOVE that arrives between two turns is the next one. *)
LEMMA NextMoveArrives ==
    ASSUME MovesOn, ServerArriving({"play"}), Head(toServer).type = "MOVE"
    PROVE  /\ Unplayed /\ Head(toServer).seq = moveSeq /\ moveSeq = HeadSeq
           /\ lastMove # moveSeq /\ sPhase = "play" /\ cPhase # "input"
           /\ turns + 1 = moves /\ jobs = << >>
           /\ ClientLives => cMsg < sMsg
<1>1. sPhase = "play" /\ Head(toServer) \in Range(toServer)
  BY AtTheServer DEF MovesOn
<1>2. Unplayed /\ Head(toServer).seq = moveSeq
  BY <1>1 DEF MovesOn, MoveInv, MovesInv, ServerAt
<1>3. lastMove # moveSeq /\ moveSeq = HeadSeq
  BY <1>1, <1>2 DEF MovesOn, MoveInv, FreshInv, ServerAt
<1>4. turns \in Nat /\ moves \in Nat
  BY DEF MovesOn, TypeInv, SessionTypeOK, ServerTypeOK, ClientTypeOK
<1>5. cPhase # "input" /\ turns + 1 = moves
  BY <1>2, <1>4 DEF MovesOn, MoveInv, OneTurnPerMove, Unplayed
<1>6. jobs = << >>
  BY <1>1 DEF MovesOn, TypeInv, JobsInv, ServerAt
<1>7. ClientLives => cMsg < sMsg
  BY <1>1 DEF MovesOn, TransferInv, InStep, Between, HeadTaken, Inside,
     ChunkTaken, ServerAt
<1>8. QED
  BY <1>1, <1>2, <1>3, <1>5, <1>6, <1>7

(* What the server does, in this section. *)
LEMMA ServerDoes ==
    ASSUME MovesOn, ServerActs
    PROVE  /\ SendHead \/ FileUnavailable \/ SendChunk \/ ServerReadsError
              \/ HeadAcknowledged \/ ChunkAcknowledged \/ ServerReadsEnd
              \/ ServerReadsNewMove \/ ServerInterfaceFails
           /\ UNCHANGED <<clientVars, cPhase, cBase, cNext, cMsg, moveSeq, moves,
                          shown, gotFiles>>
           /\ toServer' = toServer \/ (toServer # << >> /\ toServer' = Tail(toServer))
           /\ (Leaver' <=> Leaver) /\ (ClientLives' <=> ClientLives)
<1>1. ~FileReadError /\ ~FileCloseError
  BY DEF MovesOn, FileReadError, FileCloseError
<1>2. ~ServerReadsOldMove
  BY NextMoveArrives DEF ServerReadsOldMove
<1>3. UNCHANGED clientVars
  BY DEF ServerActs, SendHead, FileUnavailable, SendChunk, FileReadError,
     FileCloseError, ServerReadsError, HeadAcknowledged, ChunkAcknowledged, ServerReadsEnd,
     ServerReadsOldMove, ServerReadsNewMove, ServerInterfaceFails
<1>4. toServer' = toServer \/ (toServer # << >> /\ toServer' = Tail(toServer))
  BY DEF ServerActs, SendHead, FileUnavailable, SendChunk, FileReadError,
     FileCloseError, ServerReadsError, HeadAcknowledged, ChunkAcknowledged, ServerReadsEnd,
     ServerReadsOldMove, ServerReadsNewMove, ServerInterfaceFails, ServerArriving
<1>5. UNCHANGED <<cPhase, cBase, cNext, cMsg, moveSeq, moves, shown, gotFiles>>
  BY <1>3 DEF clientVars
<1>6. QED
  BY <1>1, <1>2, <1>3, <1>4, <1>5 DEF ServerActs, Leaver, ClientLives

(* A message ends. *)
LEMMA FileNotSent ==
    ASSUME TypeInv, FileUnavailable
    PROVE  /\ sPhase = "head" /\ sPhase' = "head" /\ jobs # << >>
           /\ jobs \in JobLists /\ Head(jobs) = "FILE"
           /\ jobs' = Tail(jobs) /\ jobs' \in JobLists
           /\ sSeq' = HeadSeq /\ sMsg' = sMsg + 1
           /\ UNCHANGED <<lastMove, turns, sentFiles>>
<1>1. /\ sPhase = "head" /\ Head(jobs) = "FILE" /\ NextJob(HeadSeq)
      /\ UNCHANGED <<lastMove, turns, sentFiles>>
  BY DEF FileUnavailable
<1>2. jobs \in JobLists /\ jobs # << >>
  BY <1>1, JobListsShape DEF TypeInv, JobsInv, ServerAt
<1>3. HeadSeq \in SeqNumbers
  BY NumbersAreTyped DEF TypeInv
<1>4. sPhase' = "head" /\ jobs' \in JobLists
  BY <1>1, <1>2, <1>3, JobIsDone
<1>5. QED
  BY <1>1, <1>2, <1>4 DEF NextJob

LEMMA LastChunkAcknowledged ==
    ASSUME TypeInv, ChunkAcknowledged, sChunk + 1 = Chunks(Head(jobs))
    PROVE  /\ sSeq' = SequenceAddCount(HeadSeq, Chunks(Head(jobs)))
           /\ jobs \in JobLists /\ jobs' = Tail(jobs) /\ sMsg' = sMsg + 1
           /\ \/ /\ Head(jobs) = "FILE" /\ sPhase' = "head"
                 /\ jobs' \in JobLists /\ sentFiles' = sentFiles + 1
              \/ /\ Head(jobs) = "VIEW" /\ jobs = <<"VIEW">> /\ sPhase' = "play"
                 /\ jobs' = << >> /\ sentFiles' = sentFiles
<1> DEFINE n == Chunks(Head(jobs))
           s == SequenceAddCount(HeadSeq, n)
<1>1. /\ sPhase = "waitData" /\ NextJob(s)
      /\ sentFiles' = IF Head(jobs) = "FILE" THEN sentFiles + 1 ELSE sentFiles
  BY DEF ChunkAcknowledged, ServerArriving
<1>2. jobs \in JobLists /\ jobs # << >> /\ Head(jobs) \in {"VIEW", "FILE"}
  BY <1>1, JobListsShape DEF TypeInv, JobsInv, ServerAt
<1>3. n \in Int /\ HeadSeq \in SeqNumbers
  BY NumbersAreTyped, SessionConstants DEF TypeInv, Chunks
<1>4. s \in SeqNumbers
  BY <1>3, NumbersAreTyped DEF TypeInv
<1>5. sSeq' = s /\ jobs' = Tail(jobs) /\ sMsg' = sMsg + 1
  BY <1>1 DEF NextJob
<1>6. /\ Head(jobs) = "VIEW" => sPhase' = "play" /\ jobs' = << >>
      /\ Head(jobs) = "FILE" => sPhase' = "head" /\ jobs' \in JobLists
  <2> HIDE DEF s
  <2>1. QED
    BY <1>1, <1>2, <1>4, JobIsDone
<1>7. Head(jobs) = "VIEW" => jobs = <<"VIEW">>
  BY <1>2, JobListsShape
<1>8. QED
  BY <1>1, <1>2, <1>5, <1>6, <1>7

LEMMA ServerLeaves ==
    ASSUME MovesOn, ServerActs
    PROVE  LeavingInv'
<1> DEFINE Y == {}
<1>1. Adds(toServer, toServer', Y) /\ \A y \in Y : FALSE
  BY ServerDoes, ToServerNone DEF MovesOn
<1> HIDE DEF Y
<1>2. Leaver' <=> Leaver
  BY ServerDoes
<1>3. CASE sPhase' # "ended"
  BY <1>1, <1>2, <1>3, LeavingKept
<1>4. CASE Leaver
  BY <1>2, <1>4 DEF LeavingInv, Leaver
<1>5. CASE ServerReadsEnd
  <2>1. Head(toServer) \in Range(toServer) /\ Head(toServer).type = "END"
    BY <1>5, AtTheServer DEF ServerReadsEnd, MovesOn
  <2>2. QED
    BY <1>4, <2>1 DEF MovesOn, MoveInv, LeavingInv, Leaver
<1>6. CASE HeadAcknowledged
  <2>1. Head(jobs) # "END" => sPhase' # "ended"
    BY <1>6 DEF HeadAcknowledged
  <2>2. Head(jobs) = "END" => ~ClientLives
    BY <1>6, HeadAckTaken
  <2>3. QED
    BY <1>3, <1>4, <2>1, <2>2 DEF ClientLives, Leaver
<1>7. CASE ChunkAcknowledged
  <2>1. sPhase' # "ended"
    <3>1. CASE sChunk + 1 = Chunks(Head(jobs))
      BY <1>7, <3>1, LastChunkAcknowledged DEF MovesOn
    <3>2. CASE sChunk + 1 # Chunks(Head(jobs))
      BY <1>7, <3>2 DEF ChunkAcknowledged
    <3>3. QED
      BY <3>1, <3>2
  <2>2. QED
    BY <1>3, <2>1
<1>8. CASE FileUnavailable
  BY <1>3, <1>8, FileNotSent DEF MovesOn
<1>9. CASE SendHead \/ SendChunk \/ ServerReadsError \/ ServerInterfaceFails
           \/ ServerReadsNewMove
  BY <1>3, <1>9 DEF SendHead, SendChunk, ServerReadsError, ServerInterfaceFails,
     ServerReadsNewMove
<1>10. QED
  BY <1>5, <1>6, <1>7, <1>8, <1>9, ServerDoes

LEMMA ServerAcksPlayed ==
    ASSUME MovesOn, ServerActs
    PROVE  PlayedAcksInv'
<1>1. UNCHANGED <<clientVars, cPhase, cNext, cMsg, moves>>
      /\ (ClientLives' <=> ClientLives)
  BY ServerDoes
<1>2. TypeInv /\ sMsg \in Nat /\ cMsg \in Nat
  BY DEF MovesOn, TypeInv, SessionTypeOK, ServerTypeOK, ClientTypeOK
<1>3. ASSUME NEW f \in Frames(ToClientTypes), f.type # "ACK",
             toClient' \in AfterSend(toClient, f) \/ UNCHANGED toClient,
             sMsg' \in {sMsg, sMsg + 1}, UNCHANGED turns
      PROVE  PlayedAcksInv'
  <2> DEFINE X == {f}
  <2>1. toClient' \in AfterSend(toClient, f) \cup {toClient}
    BY <1>3
  <2>2. Adds(toClient, toClient', X) /\ \A x \in X : x.type # "ACK"
    BY <1>2, <1>3, <2>1, ToClientSent
  <2>3. sMsg' = sMsg \/ (ClientLives => cMsg # sMsg')
    BY <1>2, <1>3, ClientNotAhead DEF MovesOn, TransferInv
  <2> HIDE DEF X
  <2>4. QED
    BY <1>1, <1>3, <2>2, <2>3, PlayedAcksKept
<1>4. /\ ErrorFrame \in Frames(ToClientTypes) /\ ErrorFrame.type = "ERROR"
      /\ DataFrame(sChunk) \in Frames(ToClientTypes) /\ DataFrame(sChunk).type = "DATA"
  BY <1>2, ServerFramesAreTyped DEF ErrorFrame, DataFrame, Frame
<1>5. CASE SendHead
  <2>1. jobs # << >> /\ Head(jobs) \in {"VIEW", "FILE", "END"}
    BY <1>2, <1>5, JobListsShape DEF SendHead, TypeInv, JobsInv, ServerAt
  <2>2. HeadFrame \in Frames(ToClientTypes) /\ HeadFrame.type # "ACK"
    BY <1>2, <2>1, ServerFramesAreTyped DEF HeadFrame, Frame
  <2>3. QED
    BY <1>3, <1>5, <2>2 DEF SendHead
<1>6. CASE SendChunk
  BY <1>3, <1>4, <1>6 DEF SendChunk
<1>7. CASE FileUnavailable
  BY <1>3, <1>4, <1>7 DEF FileUnavailable, NextJob
<1>8. CASE HeadAcknowledged
  BY <1>3, <1>4, <1>8 DEF HeadAcknowledged, NextJob
<1>9. CASE ChunkAcknowledged
  BY <1>3, <1>4, <1>9 DEF ChunkAcknowledged, NextJob
<1>10. CASE ServerReadsError \/ ServerInterfaceFails
  BY <1>3, <1>4, <1>10 DEF ServerReadsError, ServerInterfaceFails
<1>11. CASE ServerReadsEnd
  <2>1. Head(toServer) \in Range(toServer) /\ Head(toServer).type = "END"
    BY <1>11, AtTheServer DEF ServerReadsEnd, MovesOn
  <2>2. Leaver
    BY <2>1 DEF MovesOn, MoveInv, LeavingInv, Leaver
  <2>3. QED
    BY <1>1, <2>2 DEF PlayedAcksInv, Leaver, ClientLives
<1>12. CASE ServerReadsNewMove
  <2> DEFINE f == Reply(Head(toServer), "ACK")
  <2>1. ServerArriving({"play"}) /\ Head(toServer).type = "MOVE"
    BY <1>12 DEF ServerReadsNewMove
  <2>2. Head(toServer) \in Frames(ToServerTypes)
    BY <1>2, <2>1, AtTheServer
  <2>3. f \in Frames(ToClientTypes) /\ f.type = "ACK"
    BY <2>2, FrameParts
  <2>4. toClient' \in AfterSend(toClient, f) \cup {toClient}
    BY <1>12 DEF ServerReadsNewMove
  <2> HIDE DEF f
  <2>5. Adds(toClient, toClient', {f})
    BY <1>2, <2>3, <2>4, ToClientSent
  <2>6. UNCHANGED sMsg /\ turns' = moves /\ sPhase = "play" /\ Unplayed
    BY <1>12, <2>1, NextMoveArrives DEF ServerReadsNewMove
  <2>7. QED
    BY <1>1, <2>3, <2>5, <2>6, PlayedAckSent
<1>13. QED
  BY <1>5, <1>6, <1>7, <1>8, <1>9, <1>10, <1>11, <1>12, ServerDoes

(* The moves on their way to the server. *)
LEMMA ServerMovesInFlight ==
    ASSUME MovesOn, ServerActs
    PROVE  MovesInv'
<1>1. /\ TypeInv /\ MovesInv /\ FreshInv
      /\ UNCHANGED <<moves, moveSeq>>
      /\ Range(toServer') \subseteq Range(toServer)
      /\ \A f : Behind(toServer', f) \subseteq Behind(toServer, f)
  <2> DEFINE Y == {}
  <2>1. Adds(toServer, toServer', Y) /\ Y = {}
    BY ServerDoes, ToServerNone DEF MovesOn
  <2> HIDE DEF Y
  <2>2. QED
    BY <2>1, ServerDoes DEF MovesOn, MoveInv, Adds
<1>2. CASE sPhase' \in {"failed", "ended"}
  BY <1>2 DEF MovesInv, ServerAt
<1>3. ASSUME UNCHANGED <<lastMove, turns>>, sPhase' # "waitHead",
             \/ sPhase' = "head" /\ sPhase = "head"
             \/ sPhase' \in {"play", "data", "waitData"} /\
                sPhase \in {"play", "data", "waitData"}
      PROVE  MovesInv'
  BY <1>1, <1>3 DEF MovesInv, ServerAt, Unplayed
<1>4. CASE SendHead
  <2>1. /\ sPhase = "head" /\ sPhase' = "waitHead"
        /\ UNCHANGED <<lastMove, turns>> /\ HeadSeq' = HeadSeq
    BY <1>4 DEF SendHead, HeadSeq
  <2>2. ASSUME NEW f \in Range(toServer), f.type = "ACK"
        PROVE  f.seq # HeadSeq
    <3>1. AckInv(f)
      BY <2>1, <2>2 DEF MovesOn, TransferInv, AcksInv, ServerReads
    <3>2. JustUsed(f.seq)
      BY <2>1, <3>1 DEF AckInv, ServerAt
    <3>3. f.seq \in SeqNumbers
      <4>1. f \in Frames(ToServerTypes)
        BY <1>1, LinkFrames DEF TypeInv, SessionTypeOK, LinksTypeOK
      <4>2. QED
        BY <4>1, FrameParts
    <3>4. QED
      BY <1>1, <3>2, <3>3, StateNumbersApart
  <2>3. QED
    BY <1>1, <2>1, <2>2 DEF MovesInv, ServerAt
<1>5. CASE FileUnavailable
  BY <1>1, <1>3, <1>5, FileNotSent
<1>6. CASE SendChunk
  BY <1>3, <1>6 DEF SendChunk
<1>7. CASE ServerReadsError \/ ServerInterfaceFails \/ ServerReadsEnd
  BY <1>2, <1>7 DEF ServerReadsError, ServerInterfaceFails, ServerReadsEnd
<1>8. CASE HeadAcknowledged
  <2>1. CASE Head(jobs) = "END"
    BY <1>2, <1>8, <2>1 DEF HeadAcknowledged, NextJob
  <2>2. CASE Head(jobs) # "END"
    <3> DEFINE a == Head(toServer)
    <3>1. /\ sPhase = "waitHead" /\ a \in Range(toServer)
          /\ a.type = "ACK" /\ a.seq = HeadSeq
          /\ Range(Tail(toServer)) \subseteq Behind(toServer, a)
      BY <1>1, <1>8, AtTheServer DEF HeadAcknowledged
    <3>2. sPhase' = "data" /\ toServer' = Tail(toServer)
      BY <1>8, <2>2 DEF HeadAcknowledged
    <3> HIDE DEF a
    <3>3. \A g \in Range(toServer') : g.type # "MOVE"
      BY <1>1, <3>1, <3>2 DEF MovesInv, ServerAt
    <3>4. QED
      BY <3>2, <3>3 DEF MovesInv, ServerAt
  <2>3. QED
    BY <2>1, <2>2
<1>9. CASE ChunkAcknowledged
  <2>1. sPhase = "waitData" /\ UNCHANGED <<lastMove, turns>>
    BY <1>9 DEF ChunkAcknowledged, ServerArriving
  <2>2. CASE sChunk + 1 # Chunks(Head(jobs))
    BY <1>3, <1>9, <2>1, <2>2 DEF ChunkAcknowledged
  <2>3. CASE sChunk + 1 = Chunks(Head(jobs))
    <3>1. CASE sPhase' = "play"
      BY <1>3, <2>1, <3>1
    <3>2. CASE Head(jobs) = "FILE" /\ sPhase' = "head"
      <4>1. jobs # <<"VIEW">>
        BY <3>2
      <4>2. ~Unplayed
        BY <1>1, <2>1, <4>1 DEF FreshInv, ServerAt
      <4>3. \A f \in Range(toServer) : f.type # "MOVE"
        BY <1>1, <2>1, <4>2 DEF MovesInv, ServerAt
      <4>4. QED
        BY <1>1, <3>2, <4>3 DEF MovesInv, ServerAt
    <3>3. QED
      BY <1>1, <1>9, <2>3, <3>1, <3>2, LastChunkAcknowledged
  <2>4. QED
    BY <2>2, <2>3
<1>10. CASE ServerReadsNewMove
  <2>1. ServerArriving({"play"}) /\ Head(toServer).type = "MOVE"
        /\ sPhase' = "head" /\ lastMove' = Head(toServer).seq
    BY <1>10 DEF ServerReadsNewMove
  <2>2. sPhase = "play" /\ Unplayed /\ lastMove' = moveSeq
    BY <2>1, NextMoveArrives
  <2>3. QED
    BY <1>1, <2>1, <2>2 DEF MovesInv, ServerAt
<1>11. QED
  BY <1>4, <1>5, <1>6, <1>7, <1>8, <1>9, <1>10, ServerDoes

(* What is said of the moves while the numbers and the turns stay. *)
LEMMA ServerMovesOnKeepsState ==
    ASSUME MovesOn, ServerActs,
           UNCHANGED <<sSeq, jobs, sMsg, lastMove, turns, sentFiles>>,
           cPhase = "input" \/ Unplayed =>
               sPhase' = "failed" \/ (sPhase = "play" /\ sPhase' = "ended"),
           ClientLives /\ sPhase \in {"head", "waitHead"} =>
               \/ sPhase' \in {"head", "waitHead", "failed"}
               \/ cMsg >= sMsg
    PROVE  MoveStateInv'
<1>1. UNCHANGED <<cPhase, cNext, cMsg, moveSeq, moves, shown, gotFiles>>
      /\ (ClientLives' <=> ClientLives)
  BY ServerDoes
<1>2. sMsg \in Nat /\ cMsg \in Nat /\ OneTurnPerMove
      /\ (cPhase = "waitEnd" => turns = moves)
      /\ NumbersInv /\ FreshInv /\ PlayedInv /\ ShownInv
  BY DEF MovesOn, MoveInv, TypeInv, SessionTypeOK, ServerTypeOK, ClientTypeOK
<1>3. OneTurnPerMove' /\ (cPhase = "waitEnd" => turns = moves)'
  BY <1>1, <1>2 DEF OneTurnPerMove
<1>4. NumbersInv'
  BY <1>2 DEF NumbersInv, HeadSeq
<1>5. FreshInv'
  BY <1>1, <1>2 DEF FreshInv, ServerAt, Unplayed
<1>6. PlayedInv'
  <2>1. cPhase = "waitMove" => ClientLives
    BY DEF ClientLives
  <2>2. sPhase = "failed" => sPhase' = "failed"
    BY ServerDoes DEF ServerActs, SendHead, FileUnavailable, SendChunk,
       ServerReadsError, HeadAcknowledged, ChunkAcknowledged, ServerReadsEnd,
       ServerReadsNewMove, ServerInterfaceFails, ServerArriving
  <2>3. QED
    BY <1>1, <1>2, <2>1, <2>2 DEF PlayedInv, ServerAt
<1>7. ShownInv'
  BY <1>1, <1>2 DEF ShownInv
<1>8. QED
  BY <1>3, <1>4, <1>5, <1>6, <1>7 DEF MoveStateInv

LEMMA BeforeTheView ==
    ASSUME NEW list \in JobLists
    PROVE  /\ Tail(list) # <<"FILE", "VIEW">>
           /\ Head(list) = "FILE" /\ Tail(list) = <<"VIEW">> =>
                  list = <<"FILE", "VIEW">>
<1>1. list \in {<<"VIEW">>, <<"FILE", "VIEW">>, <<"FILE", "END">>,
               <<"FILE", "FILE", "END">>, <<"END">>}
  BY DEF JobLists, AllPlans
<1>2. /\ Tail(<<"VIEW">>) = << >> /\ Tail(<<"END">>) = << >>
      /\ Tail(<<"FILE", "VIEW">>) = <<"VIEW">>
      /\ Tail(<<"FILE", "END">>) = <<"END">>
      /\ Tail(<<"FILE", "FILE", "END">>) = <<"FILE", "END">>
  OBVIOUS
<1>3. /\ << >> # <<"FILE", "VIEW">> /\ <<"VIEW">> # <<"FILE", "VIEW">>
      /\ <<"END">> # <<"FILE", "VIEW">> /\ <<"FILE", "END">> # <<"FILE", "VIEW">>
      /\ << >> # <<"VIEW">> /\ <<"END">> # <<"VIEW">>
      /\ <<"FILE", "END">> # <<"VIEW">>
  OBVIOUS
<1>4. QED
  BY <1>1, <1>2, <1>3

(* A message is done: the client, if it is there, has it or it was not sent. *)
LEMMA MessageDoneKeepsState ==
    ASSUME MovesOn, ServerActs, UNCHANGED <<lastMove, turns>>,
           sMsg' = sMsg + 1, NumbersInv', FreshInv',
           sPhase' \in {"head", "play"},
           cPhase = "waitMove" /\ turns = moves => sPhase' = "head",
           ClientLives => gotFiles = sentFiles'
    PROVE  MoveStateInv'
<1>1. UNCHANGED <<cPhase, cNext, cMsg, moveSeq, moves, shown, gotFiles>>
      /\ (ClientLives' <=> ClientLives)
  BY ServerDoes
<1>2. sMsg \in Nat /\ cMsg \in Nat /\ OneTurnPerMove
      /\ (cPhase = "waitEnd" => turns = moves)
      /\ PlayedInv /\ ShownInv
  BY DEF MovesOn, MoveInv, TypeInv, SessionTypeOK, ServerTypeOK, ClientTypeOK
<1>3. ClientLives => cMsg < sMsg'
  BY <1>2, ClientNotAhead DEF MovesOn, TransferInv
<1>4. OneTurnPerMove' /\ (cPhase = "waitEnd" => turns = moves)'
  BY <1>1, <1>2 DEF OneTurnPerMove
<1>5. PlayedInv'
  <2>1. cPhase = "waitMove" => ClientLives
    BY DEF ClientLives
  <2>2. QED
    BY <1>1, <1>2, <1>3, <2>1 DEF PlayedInv, ServerAt
<1>6. ShownInv'
  <2>1. ClientLives => cMsg # sMsg'
    BY <1>2, <1>3
  <2>2. QED
    BY <1>1, <1>2, <2>1 DEF ShownInv
<1>7. QED
  BY <1>4, <1>5, <1>6 DEF MoveStateInv

(* The file is not there: one number of the turn is used up. *)
LEMMA FileNotSentKeepsState ==
    ASSUME MovesOn, FileUnavailable
    PROVE  MoveStateInv'
<1>1. /\ sPhase = "head" /\ sPhase' = "head" /\ jobs \in JobLists
      /\ Head(jobs) = "FILE" /\ jobs' = Tail(jobs)
      /\ sSeq' = HeadSeq /\ sMsg' = sMsg + 1
      /\ UNCHANGED <<lastMove, turns, sentFiles>>
  BY FileNotSent DEF MovesOn
<1>2. /\ NumbersInv /\ FreshInv /\ ShownInv /\ UNCHANGED <<cPhase, moves>>
      /\ (ClientLives' <=> ClientLives) /\ ServerActs
  BY DEF MovesOn, MoveInv, ServerActs, FileUnavailable, clientVars, ClientLives
<1>3. HeadSeq \in SeqNumbers /\ HeadSeq' = (HeadSeq + 1) % SeqSpace
  BY <1>1, NumbersAreTyped DEF MovesOn, TypeInv, HeadSeq, NextSequence
<1>4. NumbersInv'
  <2>1. jobs' # <<"FILE", "VIEW">>
    BY <1>1, BeforeTheView
  <2>2. ASSUME jobs' = <<"VIEW">>
        PROVE  HeadSeq' = (lastMove' + 1) % SeqSpace
    <3>1. jobs = <<"FILE", "VIEW">>
      BY <1>1, <2>2, BeforeTheView
    <3>2. HeadSeq = lastMove
      BY <1>2, <3>1 DEF NumbersInv
    <3>3. QED
      BY <1>1, <1>3, <3>2
  <2>3. QED
    BY <2>1, <2>2 DEF NumbersInv
<1>5. FreshInv'
  BY <1>1, <1>2 DEF FreshInv, ServerAt, Unplayed
<1>6. ClientLives => gotFiles = sentFiles
  <2>1. ClientLives => cMsg # sMsg
    BY <1>1 DEF MovesOn, TransferInv, InStep, Between, HeadTaken, Inside,
       ChunkTaken, ServerAt, TypeInv, SessionTypeOK, ServerTypeOK, ClientTypeOK
  <2>2. QED
    BY <1>2, <2>1 DEF ShownInv
<1>7. QED
  BY <1>1, <1>2, <1>4, <1>5, <1>6, MessageDoneKeepsState

(* The last chunk: the numbers of the message are used up. *)
LEMMA ChunkAckKeepsState ==
    ASSUME MovesOn, ChunkAcknowledged
    PROVE  MoveStateInv'
<1>1. /\ sPhase = "waitData" /\ UNCHANGED <<lastMove, turns>> /\ ServerActs
      /\ TypeInv /\ NumbersInv /\ FreshInv /\ PlayedInv /\ ShownInv
      /\ UNCHANGED <<cPhase, moves, moveSeq>>
  BY DEF ChunkAcknowledged, ServerArriving, ServerActs, MovesOn, MoveInv, clientVars
<1>2. ~(cPhase = "waitMove" /\ turns = moves)
  BY <1>1 DEF PlayedInv, ServerAt
<1>3. jobs # << >> /\ sChunk \in Nat /\ gotFiles \in Nat /\ sentFiles \in Nat
      /\ jobs \in JobLists
  BY <1>1 DEF TypeInv, JobsInv, ServerAt, SessionTypeOK, ServerTypeOK, ClientTypeOK
<1>4. CASE sChunk + 1 # Chunks(Head(jobs))
  <2>1. sPhase' = "data" /\ UNCHANGED <<sSeq, jobs, sMsg, sentFiles>>
    BY <1>4 DEF ChunkAcknowledged
  <2>2. ~(cPhase = "input" \/ Unplayed)
    <3>1. SUFFICES ASSUME cPhase = "input" \/ Unplayed PROVE FALSE
      OBVIOUS
    <3>2. jobs = <<"VIEW">> /\ sChunk + 1 = ViewChunks
      BY <1>1, <3>1 DEF FreshInv, ServerAt
    <3>3. QED
      BY <1>4, <3>2 DEF Chunks
  <2>3. QED
    BY <1>1, <2>1, <2>2, ServerMovesOnKeepsState
<1>5. CASE sChunk + 1 = Chunks(Head(jobs)) /\ Head(jobs) = "FILE"
  <2>1. /\ sSeq' = SequenceAddCount(HeadSeq, FileChunks) /\ sMsg' = sMsg + 1
        /\ jobs' = Tail(jobs) /\ sPhase' = "head" /\ sentFiles' = sentFiles + 1
    BY <1>1, <1>5, LastChunkAcknowledged DEF Chunks
  <2>2. jobs # <<"VIEW">>
    BY <1>5
  <2>3. ~(cPhase = "input" \/ Unplayed)
    BY <1>1, <2>2 DEF FreshInv, ServerAt
  <2>4. HeadSeq \in SeqNumbers /\ HeadSeq \in Int /\ FileChunks \in Int
    BY <1>1, NumbersAreTyped, SessionConstants DEF TypeInv
  <2>5. HeadSeq' = (((HeadSeq + FileChunks) % SeqSpace) + 1) % SeqSpace
    BY <2>1 DEF HeadSeq, NextSequence, SequenceAddCount
  <2>6. HeadSeq' = (HeadSeq + (FileChunks + 1)) % SeqSpace
    <3>1. HeadSeq + FileChunks \in Int /\ 1 \in Int
      BY <2>4
    <3>2. HeadSeq' = ((HeadSeq + FileChunks) + 1) % SeqSpace
      BY <2>5, <3>1, ModAdd
    <3>3. (HeadSeq + FileChunks) + 1 = HeadSeq + (FileChunks + 1)
      BY <2>4
    <3>4. QED
      BY <3>2, <3>3
  <2>7. NumbersInv'
    <3>1. jobs' # <<"FILE", "VIEW">>
      BY <1>3, <2>1, BeforeTheView
    <3>2. ASSUME jobs' = <<"VIEW">>
          PROVE  HeadSeq' = (lastMove' + (FileChunks + 1)) % SeqSpace
      <4>1. jobs = <<"FILE", "VIEW">>
        BY <1>3, <1>5, <2>1, <3>2, BeforeTheView
      <4>2. HeadSeq = lastMove
        BY <1>1, <4>1 DEF NumbersInv
      <4>3. QED
        BY <1>1, <2>6, <4>2
    <3>3. QED
      BY <3>1, <3>2 DEF NumbersInv
  <2>8. FreshInv'
    BY <1>1, <2>3 DEF FreshInv, Unplayed
  <2>9. ClientLives => gotFiles = sentFiles'
    <3>1. ASSUME ClientLives PROVE cMsg = sMsg /\ cNext = FileChunks
      BY <1>5, <3>1, ChunkAckTaken DEF Chunks
    <3>2. QED
      BY <1>1, <1>3, <1>5, <2>1, <3>1 DEF ShownInv
  <2>10. QED
    BY <1>1, <2>1, <2>7, <2>8, <2>9, MessageDoneKeepsState
<1>6. CASE sChunk + 1 = Chunks(Head(jobs)) /\ Head(jobs) # "FILE"
  <2>1. /\ sSeq' = SequenceAddCount(HeadSeq, ViewChunks) /\ sMsg' = sMsg + 1
        /\ Head(jobs) = "VIEW" /\ jobs = <<"VIEW">>
        /\ jobs' = << >> /\ sPhase' = "play" /\ sentFiles' = sentFiles
    BY <1>1, <1>6, LastChunkAcknowledged DEF Chunks
  <2>2. NumbersInv'
    BY <2>1 DEF NumbersInv
  <2>3. HeadSeq' = NextSequence(SequenceAddCount(HeadSeq, ViewChunks))
    BY <2>1 DEF HeadSeq
  <2>4. FreshInv'
    BY <1>1, <2>1, <2>3 DEF FreshInv, ServerAt, Unplayed
  <2>5. ClientLives => gotFiles = sentFiles'
    BY <1>1, <2>1 DEF ShownInv
  <2>6. QED
    BY <1>1, <1>2, <2>1, <2>2, <2>4, <2>5, MessageDoneKeepsState
<1>7. QED
  BY <1>4, <1>5, <1>6

(* The start frame, or END, is acknowledged. *)
LEMMA HeadAckKeepsState ==
    ASSUME MovesOn, HeadAcknowledged
    PROVE  MoveStateInv'
<1>1. /\ sPhase = "waitHead" /\ UNCHANGED <<lastMove, turns, sentFiles>>
      /\ ServerActs /\ FreshInv /\ NumbersInv
      /\ OneTurnPerMove /\ (cPhase = "waitEnd" => turns = moves)
      /\ UNCHANGED <<cPhase, moves, moveSeq>>
  BY DEF HeadAcknowledged, ServerArriving, ServerActs, MovesOn, MoveInv, clientVars
<1>2. ~(cPhase = "input" \/ Unplayed)
  BY <1>1 DEF FreshInv, ServerAt
<1>3. CASE Head(jobs) # "END"
  <2>1. UNCHANGED <<sSeq, jobs, sMsg>>
    BY <1>3 DEF HeadAcknowledged
  <2>2. ClientLives => cMsg >= sMsg
    BY HeadAckTaken, ClientNotAhead DEF MovesOn, TransferInv
  <2>3. QED
    BY <1>1, <1>2, <2>1, <2>2, ServerMovesOnKeepsState
<1>4. CASE Head(jobs) = "END"
  <2>1. ~ClientLives /\ ~ClientLives'
    BY <1>1, <1>4, HeadAckTaken DEF ClientLives
  <2>2. jobs' = << >>
    <3>1. jobs' = Tail(jobs) /\ jobs \in JobLists
      BY <1>1, <1>4 DEF HeadAcknowledged, NextJob, MovesOn, TypeInv, JobsInv, ServerAt
    <3>2. QED
      BY <1>4, <3>1, JobListsShape
  <2>3. NumbersInv'
    BY <2>2 DEF NumbersInv
  <2>4. OneTurnPerMove' /\ (cPhase = "waitEnd" => turns = moves)'
    BY <1>1 DEF OneTurnPerMove
  <2>5. FreshInv'
    BY <1>1, <1>2 DEF FreshInv, Unplayed
  <2>6. PlayedInv' /\ ShownInv'
    BY <2>1 DEF PlayedInv, ShownInv, ClientLives
  <2>7. QED
    BY <2>3, <2>4, <2>5, <2>6 DEF MoveStateInv
<1>5. QED
  BY <1>3, <1>4

(* The move is played. *)
LEMMA NewMoveKeepsState ==
    ASSUME MovesOn, ServerReadsNewMove
    PROVE  MoveStateInv'
<1>1. /\ ServerArriving({"play"}) /\ Head(toServer).type = "MOVE"
      /\ turns' = turns + 1 /\ lastMove' = Head(toServer).seq
      /\ sPhase' = "head" /\ UNCHANGED <<sSeq, sMsg, sentFiles>>
      /\ UNCHANGED <<cPhase, cNext, cMsg, moveSeq, moves, shown, gotFiles>>
  BY DEF ServerReadsNewMove, clientVars
<1>2. /\ Unplayed /\ Head(toServer).seq = moveSeq /\ moveSeq = HeadSeq
      /\ turns + 1 = moves /\ jobs = << >> /\ cPhase # "input"
      /\ ClientLives => cMsg < sMsg
  BY <1>1, NextMoveArrives
<1>3. /\ sMsg \in Nat /\ cMsg \in Nat /\ turns \in Nat /\ moves \in Nat
      /\ OneTurnPerMove /\ ShownInv
  BY DEF MovesOn, MoveInv, TypeInv, SessionTypeOK, ServerTypeOK, ClientTypeOK
<1>4. turns' = moves'
  BY <1>1, <1>2
<1>5. OneTurnPerMove' /\ (cPhase = "waitEnd" => turns = moves)'
  BY <1>3, <1>4 DEF OneTurnPerMove
<1>6. NumbersInv'
  BY <1>1, <1>2 DEF NumbersInv, HeadSeq
<1>7. FreshInv'
  BY <1>1, <1>2, <1>3, <1>4 DEF FreshInv, Unplayed
<1>8. PlayedInv'
  <2>1. cPhase = "waitMove" => ClientLives
    BY DEF ClientLives
  <2>2. QED
    BY <1>1, <1>2, <2>1 DEF PlayedInv, ServerAt
<1>9. ShownInv'
  <2>1. ClientLives => gotFiles = sentFiles /\ cMsg # sMsg
    BY <1>2, <1>3 DEF ShownInv
  <2>2. QED
    BY <1>1, <1>3, <2>1 DEF ShownInv, ClientLives
<1>10. QED
  BY <1>5, <1>6, <1>7, <1>8, <1>9 DEF MoveStateInv

LEMMA ServerKeepsMoves ==
    ASSUME MovesOn, ServerActs
    PROVE  MoveInv'
<1> SUFFICES MoveStateInv'
  BY ServerLeaves, ServerAcksPlayed, ServerMovesInFlight, MoveInvSplit
<1>1. CASE SendHead \/ SendChunk
  <2>1. /\ UNCHANGED <<sSeq, jobs, sMsg, lastMove, turns, sentFiles>>
        /\ \/ sPhase = "head" /\ sPhase' = "waitHead"
           \/ sPhase = "data" /\ sPhase' = "waitData"
    BY <1>1 DEF SendHead, SendChunk
  <2>2. ~(cPhase = "input" \/ Unplayed)
    BY <2>1 DEF MovesOn, MoveInv, FreshInv, ServerAt
  <2>3. QED
    BY <2>1, <2>2, ServerMovesOnKeepsState
<1>2. CASE ServerReadsError \/ ServerInterfaceFails \/ ServerReadsEnd
  <2>1. /\ UNCHANGED <<sSeq, jobs, sMsg, lastMove, turns, sentFiles>>
        /\ sPhase' = "failed" \/ (sPhase = "play" /\ sPhase' = "ended")
    BY <1>2 DEF ServerReadsError, ServerInterfaceFails, ServerReadsEnd, ServerArriving
  <2>2. QED
    BY <2>1, ServerMovesOnKeepsState
<1>3. QED
  BY <1>1, <1>2, ServerDoes, FileNotSentKeepsState, ChunkAckKeepsState,
     HeadAckKeepsState, NewMoveKeepsState

-----------------------------------------------------------------------------
(* The client.                                                              *)

(* The client leaves the session. *)
LEMMA ClientGone ==
    ASSUME MovesOn, UNCHANGED <<serverVars, moves, moveSeq>>, ~ClientLives',
           NEW Y, Adds(toServer, toServer', Y), \A y \in Y : y.type # "MOVE"
    PROVE  MoveInv'
<1>1. MoveStateInv'
  BY MoveStateLeft
<1>2. MovesInv'
  BY MovesKept
<1>3. Leaver' /\ UNCHANGED sPhase
  BY DEF Leaver, ClientLives, serverVars
<1>4. LeavingInv'
  BY <1>3, LeavingKept
<1>5. PlayedAcksInv'
  BY DEF PlayedAcksInv
<1>6. QED
  BY <1>1, <1>2, <1>4, <1>5, MoveInvSplit

LEMMA ClientLeavesKeepMoves ==
    ASSUME MovesOn,
           \/ CloseKeyboard \/ ControlError \/ ClientReadsEnd
           \/ DiskRefusesFile \/ DiskRefusesChunk \/ DiskFailsAtClose
           \/ ClientInterfaceFails
    PROVE  MoveInv'
<1> DEFINE frame == Head(toClient)
<1>1. /\ UNCHANGED <<serverVars, moves, moveSeq>> /\ ~ClientLives' /\ TypeInv
  BY DEF CloseKeyboard, ControlError, ClientReadsEnd, DiskRefusesFile,
     DiskRefusesChunk, DiskFailsAtClose, ClientInterfaceFails, ClientKeeps,
     ClientLives, MovesOn
<1>2. ASSUME NEW f \in Frames(ToServerTypes), f.type # "MOVE",
             SendToServer(f) \/ UNCHANGED toServer
      PROVE  MoveInv'
  <2> DEFINE Y == {f}
  <2>1. Adds(toServer, toServer', Y) /\ \A y \in Y : y.type # "MOVE"
    BY <1>1, <1>2, ToServerSent
  <2> HIDE DEF Y
  <2>2. QED
    BY <1>1, <2>1, ClientGone
<1>3. FileError \in Frames(ToServerTypes) /\ FileError.type = "ERROR"
  BY <1>1, ClientFramesAreTyped DEF FileError, Frame
<1>4. CASE CloseKeyboard \/ ControlError \/ DiskRefusesChunk \/ ClientInterfaceFails
  BY <1>2, <1>3, <1>4 DEF CloseKeyboard, ControlError, DiskRefusesChunk,
     ClientInterfaceFails
<1>5. ASSUME ClientReadsEnd \/ DiskRefusesFile \/ DiskFailsAtClose
      PROVE  \A t \in {"ACK", "ERROR"} :
                 /\ Reply(frame, t) \in Frames(ToServerTypes)
                 /\ Reply(frame, t).type = t
  <2>1. frame \in Frames(ToClientTypes)
    BY <1>1, <1>5, AtTheClient DEF ClientReadsEnd, DiskRefusesFile, DiskFailsAtClose
  <2>2. \A t \in {"ACK", "NACK", "ERROR"} :
            Reply(frame, t) \in Frames(ToServerTypes) /\ Reply(frame, t).type = t
    BY <2>1, FrameParts
  <2>3. QED
    BY <2>2
<1>6. CASE ClientReadsEnd
  <2>1. Reply(frame, "ACK") \in Frames(ToServerTypes) /\ Reply(frame, "ACK").type = "ACK"
    BY <1>5, <1>6
  <2>2. QED
    BY <1>2, <1>6, <2>1 DEF ClientReadsEnd
<1>7. CASE DiskRefusesFile
  <2>1. Reply(frame, "ERROR") \in Frames(ToServerTypes)
        /\ Reply(frame, "ERROR").type = "ERROR"
    BY <1>5, <1>7
  <2>2. QED
    BY <1>2, <1>7, <2>1 DEF DiskRefusesFile
<1>8. CASE DiskFailsAtClose
  <2> DEFINE a == Reply(frame, "ACK")
             Y == {a, FileError}
  <2>1. a \in Frames(ToServerTypes) /\ a.type = "ACK"
    BY <1>5, <1>8
  <2>2. PICK link \in AfterSend(toServer, a) : toServer' \in AfterSend(link, FileError)
    BY <1>8 DEF DiskFailsAtClose
  <2> HIDE DEF a
  <2>3. Adds(toServer, link, {a}) /\ link \in Seq(Frames(ToServerTypes))
    BY <1>1, <2>1, <2>2, AddsSent DEF TypeInv, SessionTypeOK, LinksTypeOK
  <2>4. Adds(link, toServer', {FileError})
    BY <1>3, <2>2, <2>3, AddsSent
  <2>5. Adds(toServer, toServer', Y) /\ \A y \in Y : y.type # "MOVE"
    BY <1>3, <2>1, <2>3, <2>4 DEF Adds
  <2> HIDE DEF Y
  <2>6. QED
    BY <1>1, <2>5, ClientGone
<1>9. QED
  BY <1>4, <1>6, <1>7, <1>8

(* The player chooses. *)
LEMMA PressMoveKeepsMoves ==
    ASSUME MovesOn, PressMove
    PROVE  MoveInv'
<1> DEFINE move == Frame("MOVE", moveSeq, <<0, moves + 1, 0>>)
           Y == {move}
<1>1. /\ cPhase = "input" /\ cPhase' = "waitMove" /\ moves' = moves + 1
      /\ UNCHANGED <<serverVars, toClient, moveSeq, shown, gotFiles, cMsg, cNext>>
      /\ UNCHANGED <<sPhase, sSeq, jobs, sChunk, sMsg, lastMove, turns, sentFiles>>
  BY DEF PressMove, serverVars
<1>2. /\ moves \in Nat /\ turns \in Nat /\ OneTurnPerMove /\ FreshInv /\ NumbersInv
      /\ MovesInv /\ PlayedAcksInv /\ ShownInv /\ TypeInv /\ ClientLives /\ ClientLives'
  BY <1>1 DEF MovesOn, MoveInv, TypeInv, SessionTypeOK, ServerTypeOK, ClientTypeOK,
     ClientLives
<1>3. turns = moves /\ turns = moves' - 1 /\ ~Unplayed /\ Unplayed'
  BY <1>1, <1>2 DEF OneTurnPerMove, Unplayed
<1>4. Adds(toServer, toServer', Y) /\ move.type = "MOVE" /\ move.seq = moveSeq
  <2>1. move \in Frames(ToServerTypes)
    BY <1>2, ClientFramesAreTyped
  <2>2. SendToServer(move)
    BY DEF PressMove
  <2>3. Adds(toServer, toServer', {move})
    BY <1>2, <2>1, <2>2, ToServerSent
  <2>4. QED
    BY <2>3 DEF Frame
<1> HIDE DEF move
<1>5. MoveStateInv'
  <2>1. OneTurnPerMove' /\ (cPhase = "waitEnd" => turns = moves)'
    BY <1>1, <1>3 DEF OneTurnPerMove
  <2>2. NumbersInv'
    BY <1>1, <1>2 DEF NumbersInv, HeadSeq
  <2>3. FreshInv'
    BY <1>1, <1>2 DEF FreshInv, HeadSeq, ServerAt
  <2>4. PlayedInv'
    BY <1>1, <1>2, <1>3 DEF PlayedInv
  <2>5. ShownInv'
    BY <1>1, <1>2 DEF ShownInv
  <2>6. QED
    BY <2>1, <2>2, <2>3, <2>4, <2>5 DEF MoveStateInv
<1>6. MovesInv'
  <2>1. ServerAt({"waitData", "play", "failed", "ended"})'
        /\ ServerAt({"waitData", "play", "failed", "ended"})
    BY <1>1, <1>2 DEF FreshInv, ServerAt
  <2>2. ASSUME NEW f \in Range(toServer'), f.type = "MOVE",
               ServerAt({"play", "data", "waitData"})
        PROVE  f.seq = moveSeq
    <3>1. f \notin Range(toServer)
      BY <1>2, <1>3, <2>2 DEF MovesInv
    <3>2. f = move
      BY <1>4, <2>2, <3>1 DEF Adds
    <3>3. QED
      BY <1>4, <3>2
  <2>3. QED
    BY <1>1, <1>3, <2>1, <2>2 DEF MovesInv, ServerAt
<1>7. LeavingInv'
  <2> HIDE DEF Y
  <2>1. \A y \in Y : y.type # "END"
    BY <1>4 DEF Y
  <2>2. QED
    BY <1>1, <1>4, <2>1, LeavingKept DEF Leaver
<1>8. PlayedAcksInv'
  BY <1>1, <1>2 DEF PlayedAcksInv
<1>9. QED
  BY <1>5, <1>6, <1>7, <1>8, MoveInvSplit

(* The player quits. *)
LEMMA QuitKeepsMoves ==
    ASSUME MovesOn, Quit
    PROVE  MoveInv'
<1> DEFINE end == Frame("END", moveSeq, <<0, -1, 0>>)
           Y == {end}
<1>1. /\ cPhase = "input" /\ cPhase' = "waitEnd" /\ ClientLives
      /\ UNCHANGED <<serverVars, moves, moveSeq, shown, gotFiles, cMsg, cNext>>
      /\ UNCHANGED <<sPhase, sSeq, jobs, sChunk, sMsg, lastMove, turns, sentFiles>>
  BY DEF Quit, ClientKeeps, serverVars, ClientLives
<1>2. Adds(toServer, toServer', Y) /\ end.type = "END"
  <2>1. end \in Frames(ToServerTypes)
    BY ClientFramesAreTyped DEF MovesOn
  <2>2. SendToServer(end)
    BY DEF Quit
  <2>3. Adds(toServer, toServer', {end})
    BY <2>1, <2>2, ToServerSent DEF MovesOn
  <2>4. QED
    BY <2>3 DEF Frame
<1> HIDE DEF end
<1>3. \A y \in Y : y.type = "END" /\ y.type # "MOVE"
  BY <1>2
<1> HIDE DEF Y
<1>4. MovesInv'
  BY <1>1, <1>2, <1>3, MovesKept
<1>5. LeavingInv'
  BY <1>1, <1>2, LeavingKept DEF Leaver
<1>6. MoveStateInv'
  BY <1>1 DEF MovesOn, MoveInv, MoveStateInv, OneTurnPerMove, NumbersInv, FreshInv,
     PlayedInv, ShownInv, HeadSeq, ServerAt, Unplayed, ClientLives
<1>7. PlayedAcksInv'
  BY <1>1 DEF PlayedAcksInv
<1>8. QED
  BY <1>4, <1>5, <1>6, <1>7, MoveInvSplit

(* The ACK of the move. *)
LEMMA ControlAckKeepsMoves ==
    ASSUME MovesOn, ControlAcknowledged
    PROVE  MoveInv'
<1> DEFINE X == {}
           Y == {}
<1>1. /\ cPhase \in {"waitMove", "waitEnd"} /\ Head(toClient) \in Range(toClient)
      /\ Head(toClient).type = "ACK" /\ ClientLives /\ TypeInv
      /\ toClient # << >> /\ toClient' = Tail(toClient) /\ toServer' = toServer
      /\ UNCHANGED <<serverVars, moves, moveSeq, shown, gotFiles, cMsg, cNext>>
      /\ UNCHANGED <<sPhase, sSeq, jobs, sChunk, sMsg, lastMove, turns, sentFiles>>
  BY AtTheClient DEF ControlAcknowledged, serverVars, ClientLives, MovesOn
<1>2. /\ Adds(toServer, toServer', Y) /\ Y = {}
      /\ Adds(toClient, toClient', X) /\ X = {}
  BY <1>1, ToServerNone, ToClientNone
<1> HIDE DEF X, Y
<1>3. CASE cPhase = "waitEnd"
  <2>1. ~ClientLives'
    BY <1>3 DEF ControlAcknowledged, ClientLives
  <2>2. QED
    BY <1>1, <1>2, <2>1, ClientGone
<1>4. CASE cPhase = "waitMove"
  <2>1. cPhase' = "idle" /\ ~Unplayed
    BY <1>1, <1>4 DEF ControlAcknowledged, MovesOn, MoveInv, PlayedAcksInv
  <2>2. MoveStateInv'
    BY <1>1, <1>4, <2>1 DEF MovesOn, MoveInv, MoveStateInv, OneTurnPerMove,
       NumbersInv, FreshInv, PlayedInv, ShownInv, HeadSeq, ServerAt, Unplayed,
       ClientLives
  <2>3. MovesInv'
    BY <1>1, <1>2, MovesKept
  <2>4. LeavingInv'
    BY <1>1, <1>2, <1>4, LeavingKept DEF Leaver
  <2>5. PlayedAcksInv'
    BY <1>1, <1>2, <1>4, <2>1, PlayedAcksKept
  <2>6. QED
    BY <2>2, <2>3, <2>4, <2>5, MoveInvSplit
<1>5. QED
  BY <1>1, <1>3, <1>4

(* A file that was not sent. *)
LEMMA ErrorReadKeepsMoves ==
    ASSUME MovesOn, ClientReadsError
    PROVE  MoveInv'
<1> DEFINE X == {}
           Y == {}
<1>1. cPhase = "idle"
  <2>1. cPhase \in {"idle", "view", "file"}
    BY DEF ClientReadsError, ClientArriving
  <2>2. cPhase # "idle" => ClientArriving({"view", "file"}, {"ERROR"})
    BY <2>1 DEF ClientReadsError, ClientArriving
  <2>3. QED
    BY <2>2, NoErrorInTransfer DEF MovesOn, TransferInv
<1>2. /\ toClient # << >> /\ toClient' = Tail(toClient) /\ toServer' = toServer
      /\ UNCHANGED <<serverVars, clientVars>> /\ TypeInv
  BY <1>1 DEF ClientReadsError, ClientArriving, ClientKeeps, clientVars, MovesOn
<1>3. /\ UNCHANGED <<sPhase, sMsg, turns, moves, moveSeq, cPhase, cMsg, cNext>>
      /\ (ClientLives' <=> ClientLives)
  BY <1>2 DEF clientVars, serverVars, ClientLives
<1>4. /\ Adds(toServer, toServer', Y) /\ Y = {}
      /\ Adds(toClient, toClient', X) /\ X = {}
  BY <1>2, ToServerNone, ToClientNone
<1> HIDE DEF X, Y
<1>5. MoveStateInv'
  BY <1>2, MoveStateKept
<1>6. MovesInv'
  BY <1>2, <1>3, <1>4, MovesKept
<1>7. LeavingInv'
  BY <1>1, <1>3, <1>4, LeavingKept DEF Leaver
<1>8. PlayedAcksInv'
  BY <1>3, <1>4, PlayedAcksKept
<1>9. QED
  BY <1>5, <1>6, <1>7, <1>8, MoveInvSplit

(* The ACK with which the client answers the frame it reads. *)
LEMMA AckAdded ==
    ASSUME TypeInv, NEW phases, NEW types, ClientArriving(phases, types),
           SendToServer(Reply(Head(toClient), "ACK"))
    PROVE  \E Y : Adds(toServer, toServer', Y) /\ \A y \in Y : y.type = "ACK"
<1> DEFINE a == Reply(Head(toClient), "ACK")
<1>1. Head(toClient) \in Frames(ToClientTypes)
  BY AtTheClient
<1>2. a \in Frames(ToServerTypes) /\ a.type = "ACK"
  BY <1>1, FrameParts
<1>3. SendToServer(a)
  OBVIOUS
<1> HIDE DEF a
<1>4. Adds(toServer, toServer', {a})
  BY <1>2, <1>3, ToServerSent
<1>5. QED
  BY <1>2, <1>4

(* A transfer begins. *)
LEMMA StartKeepsMoves ==
    ASSUME MovesOn, ClientReadsStart
    PROVE  MoveInv'
<1>1. /\ Between /\ HeadTaken' /\ jobs # << >>
  BY StartKeepsStep DEF MovesOn, TransferInv
<1>2. /\ cPhase = "idle" /\ cPhase' \in {"view", "file"} /\ cNext' = 0
      /\ toClient # << >> /\ toClient' = Tail(toClient)
      /\ UNCHANGED <<serverVars, moves, moveSeq, shown, gotFiles>>
      /\ UNCHANGED <<sPhase, sSeq, jobs, sChunk, sMsg, lastMove, turns, sentFiles>>
      /\ TypeInv
  BY DEF ClientReadsStart, ClientArriving, serverVars, MovesOn
<1>3. PICK Y : Adds(toServer, toServer', Y) /\ \A y \in Y : y.type = "ACK"
  BY <1>2, AckAdded DEF ClientReadsStart
<1>4. /\ OneTurnPerMove /\ NumbersInv /\ ShownInv /\ PlayedAcksInv
      /\ cMsg < sMsg /\ cMsg \in Nat /\ sMsg \in Nat
      /\ moves \in Nat /\ turns \in Nat /\ FileChunks # 0 /\ ClientLives
  BY <1>1, <1>2, SessionConstants DEF Between, MovesOn, MoveInv, TypeInv,
     SessionTypeOK, ServerTypeOK, ClientTypeOK, ClientLives
<1>5. turns = moves /\ ~Unplayed
  BY <1>2, <1>4 DEF OneTurnPerMove, Unplayed
<1>6. MoveStateInv'
  <2>1. OneTurnPerMove' /\ (cPhase = "waitEnd" => turns = moves)'
    BY <1>2, <1>5 DEF OneTurnPerMove
  <2>2. NumbersInv' /\ FreshInv' /\ PlayedInv'
    BY <1>2, <1>4, <1>5 DEF NumbersInv, FreshInv, PlayedInv, HeadSeq, Unplayed
  <2>3. ShownInv'
    BY <1>2, <1>4 DEF ShownInv
  <2>4. QED
    BY <2>1, <2>2, <2>3 DEF MoveStateInv
<1>7. MovesInv'
  BY <1>2, <1>3, MovesKept
<1>8. LeavingInv'
  BY <1>2, <1>3, LeavingKept DEF Leaver
<1>9. PlayedAcksInv'
  <2>1. \A g \in Range(toClient') : g.type # "DATA"
    <3>1. jobs' \in JobLists /\ jobs' # << >> /\ HeadFrame'.type = Head(jobs')
      BY <1>1, <1>2 DEF TypeInv, JobsInv, HeadFrame, Frame
    <3>2. HeadFrame'.type # "DATA"
      BY <3>1, JobListsShape
    <3>3. QED
      BY <1>1, <3>2 DEF HeadTaken, Control
  <2>2. QED
    BY <1>2, <1>5, <2>1 DEF PlayedAcksInv, Unplayed
<1>10. QED
  BY <1>6, <1>7, <1>8, <1>9, MoveInvSplit

(* The number of the next move is not that of the last one. *)
LEMMA NextMoveIsNew ==
    ASSUME MovesOn, jobs = <<"VIEW">>
    PROVE  lastMove # NextSequence(SequenceAddCount(HeadSeq, ViewChunks))
<1>1. HeadSeq \in SeqNumbers /\ HeadSeq \in Int /\ ViewChunks \in Int /\ FileChunks \in Int
  BY NumbersAreTyped, SessionConstants DEF MovesOn, TypeInv
<1>2. NextSequence(SequenceAddCount(HeadSeq, ViewChunks))
          = (HeadSeq + (ViewChunks + 1)) % SeqSpace
  <2>1. HeadSeq + ViewChunks \in Int /\ 1 \in Int
        /\ (HeadSeq + ViewChunks) + 1 = HeadSeq + (ViewChunks + 1)
    BY <1>1
  <2>2. QED
    BY <2>1, ModAdd DEF NextSequence, SequenceAddCount
<1>3. /\ (ViewChunks + 1) % SeqSpace # 0 /\ (ViewChunks + 2) % SeqSpace # 0
      /\ (FileChunks + ViewChunks + 2) % SeqSpace # 0
  BY DEF MovesOn, TurnsMoveOn
<1>4. SUFFICES ASSUME lastMove = (HeadSeq + (ViewChunks + 1)) % SeqSpace
               PROVE  FALSE
  BY <1>2
<1>5. lastMove \in SeqNumbers /\ lastMove # NoMove /\ lastMove \in Int
  <2>1. HeadSeq + (ViewChunks + 1) \in Int
    BY <1>1
  <2>2. QED
    BY <1>4, <2>1, ModType DEF NoMove, SeqNumbers
<1>6. CASE lastMove = HeadSeq
  <2>1. ViewChunks + 1 \in Int
    BY <1>1
  <2>2. QED
    BY <1>1, <1>3, <1>4, <1>6, <2>1, ModBack
<1>7. ASSUME NEW n \in {1, FileChunks + 1}, HeadSeq = (lastMove + n) % SeqSpace
      PROVE  FALSE
  <2> DEFINE k == ViewChunks + 1
             m == n + k
  <2>1. lastMove + n \in Int /\ k \in Int /\ m \in Int
        /\ (lastMove + n) + k = lastMove + m
    BY <1>1, <1>5
  <2>2. m = ViewChunks + 2 \/ m = FileChunks + ViewChunks + 2
    BY <1>1
  <2>3. lastMove = (((lastMove + n) % SeqSpace) + k) % SeqSpace
    BY <1>4, <1>7
  <2>4. m % SeqSpace # 0
    BY <1>3, <2>2
  <2> HIDE DEF k, m
  <2>5. lastMove = (lastMove + m) % SeqSpace
    BY <2>1, <2>3, ModAdd
  <2>6. QED
    BY <1>5, <2>1, <2>4, <2>5, ModBack
<1>8. QED
  BY <1>5, <1>6, <1>7 DEF MovesOn, MoveInv, NumbersInv

(* A chunk is delivered; the last one of the view opens the next turn. *)
LEMMA DataKeepsMoves ==
    ASSUME MovesOn, ClientReadsData
    PROVE  MoveInv'
<1> DEFINE frame == Head(toClient)
<1>1. ClientArriving({"view", "file"}, {"DATA"}) /\ frame.seq = Expected /\ TypeInv
  BY DEF ClientReadsData, MovesOn
<1>2. Inside /\ sPhase \in {"waitData", "failed"} /\ frame = DataFrame(sChunk)
      /\ ChunkTaken'
  BY <1>1, DeliveredIsAtHand, DataKeepsStep DEF MovesOn, TransferInv
<1>3. /\ cPhase \in {"view", "file"} /\ frame \in Range(toClient)
      /\ frame.type = "DATA" /\ toClient' = Tail(toClient)
      /\ Range(toClient') \subseteq Behind(toClient, frame)
      /\ Range(toClient') \subseteq Range(toClient)
  BY <1>1, AtTheClient DEF ClientReadsData
<1>4. /\ cNext' = cNext + 1 /\ UNCHANGED <<serverVars, cBase, cMsg, moves>>
      /\ UNCHANGED <<sPhase, sSeq, jobs, sChunk, sMsg, lastMove, turns, sentFiles>>
      /\ \/ /\ cPhase = "file" /\ cNext + 1 = FileChunks /\ cPhase' = "idle"
            /\ gotFiles' = gotFiles + 1 /\ UNCHANGED <<moveSeq, shown>>
         \/ /\ cPhase = "view" /\ cNext + 1 = ViewChunks /\ cPhase' = "input"
            /\ moveSeq' = NextSequence(Expected) /\ shown' = frame.about[3]
            /\ UNCHANGED gotFiles
         \/ /\ cPhase = "file" => cNext + 1 # FileChunks
            /\ UNCHANGED <<cPhase, gotFiles, moveSeq, shown>>
  BY <1>3 DEF ClientReadsData, serverVars
<1>5. /\ OneTurnPerMove /\ NumbersInv /\ ShownInv /\ PlayedAcksInv /\ MovesInv
      /\ cMsg = sMsg /\ cNext = sChunk /\ cBase = HeadSeq /\ Expects(Head(jobs))
      /\ jobs # << >> /\ Head(jobs) # "END" /\ sChunk < Chunks(Head(jobs))
      /\ cNext \in Nat /\ moves \in Nat /\ turns \in Nat
      /\ gotFiles \in Nat /\ sentFiles \in Nat /\ FileChunks \in Nat
      /\ ClientLives
  BY <1>2, <1>3, SessionConstants DEF Inside, MovesOn, MoveInv, TypeInv,
     SessionTypeOK, ServerTypeOK, ClientTypeOK, ClientLives
<1>6. turns = moves /\ ~Unplayed
  BY <1>3, <1>5 DEF OneTurnPerMove, Unplayed
<1>7. Head(jobs) = IF cPhase = "file" THEN "FILE" ELSE "VIEW"
  <2>1. Head(jobs) \in {"VIEW", "FILE"}
    BY <1>1, <1>5, JobListsShape DEF TypeInv, JobsInv
  <2>2. QED
    BY <1>3, <1>5, <2>1 DEF Expects
<1>8. PICK Y : Adds(toServer, toServer', Y) /\ \A y \in Y : y.type = "ACK"
  BY <1>1, AckAdded DEF ClientReadsData
<1>9. LeavingInv'
  BY <1>3, <1>4, <1>8, LeavingKept DEF Leaver
<1>10. PlayedAcksInv'
  <2>1. \A f \in Range(toClient') : f.type # "ACK"
    BY <1>3, <1>5 DEF PlayedAcksInv
  <2>2. QED
    BY <2>1 DEF PlayedAcksInv
<1>11. MovesInv'
  <2>1. sPhase = "waitData" => \A f \in Range(toServer') : f.type # "MOVE"
    BY <1>5, <1>6, <1>8 DEF MovesInv, ServerAt, Adds
  <2>2. QED
    BY <1>2, <1>4, <2>1 DEF MovesInv, ServerAt
<1>12. OneTurnPerMove' /\ (cPhase = "waitEnd" => turns = moves)' /\ NumbersInv'
  BY <1>4, <1>5, <1>6 DEF OneTurnPerMove, NumbersInv, HeadSeq
<1>13. cPhase' \in {"idle", "input", "view", "file"}
  BY <1>3, <1>4
<1>14. PlayedInv'
  BY <1>13 DEF PlayedInv
<1>15. gotFiles = sentFiles
  BY <1>5, <1>7 DEF ShownInv, Chunks
<1>16. CASE cPhase' # "input"
  <2>1. FreshInv'
    BY <1>4, <1>6, <1>16 DEF FreshInv, Unplayed
  <2>2. ShownInv'
    <3>1. shown' = moves' - 1
      BY <1>3, <1>4, <1>5, <1>16 DEF ShownInv
    <3>2. gotFiles' = IF Head(jobs) = "FILE" /\ cNext + 1 = FileChunks
                      THEN sentFiles + 1 ELSE sentFiles
      BY <1>3, <1>4, <1>7, <1>15, <1>16
    <3>3. QED
      BY <1>4, <1>5, <1>13, <1>16, <3>1, <3>2 DEF ShownInv
  <2>3. QED
    BY <1>9, <1>10, <1>11, <1>12, <1>14, <2>1, <2>2, MoveInvSplit DEF MoveStateInv
<1>17. CASE cPhase' = "input"
  <2>1. /\ cPhase = "view" /\ cNext + 1 = ViewChunks
        /\ moveSeq' = NextSequence(Expected) /\ shown' = frame.about[3]
        /\ UNCHANGED gotFiles
    BY <1>3, <1>4, <1>17
  <2>2. jobs = <<"VIEW">>
    BY <1>1, <1>5, <1>7, <2>1, JobListsShape DEF TypeInv, JobsInv
  <2>3. Expected = SequenceAddCount(HeadSeq, ViewChunks)
    <3>1. HeadSeq \in Int /\ ViewChunks \in Int
      BY <1>1, NumbersAreTyped, SessionConstants DEF TypeInv
    <3>2. HeadSeq + cNext + 1 = HeadSeq + ViewChunks
      BY <1>5, <2>1, <3>1
    <3>3. QED
      BY <1>5, <3>2 DEF Expected, SequenceForIndex, SequenceAddCount
  <2>4. moveSeq' = NextSequence(SequenceAddCount(HeadSeq, ViewChunks))
        /\ lastMove # moveSeq'
    BY <2>1, <2>2, <2>3, NextMoveIsNew
  <2>5. FreshInv'
    BY <1>2, <1>4, <1>5, <2>1, <2>2, <2>4 DEF FreshInv, ServerAt, HeadSeq
  <2>6. ShownInv'
    <3>1. shown' = moves'
      BY <1>2, <1>4, <1>6, <2>1 DEF DataFrame, Frame
    <3>2. QED
      BY <1>4, <1>7, <1>15, <1>17, <2>1, <3>1 DEF ShownInv
  <2>7. QED
    BY <1>9, <1>10, <1>11, <1>12, <1>14, <2>5, <2>6, MoveInvSplit DEF MoveStateInv
<1>18. QED
  BY <1>16, <1>17

LEMMA ClientKeepsMoves ==
    ASSUME MovesOn, ClientActs
    PROVE  MoveInv'
BY ClientLeavesKeepMoves, PressMoveKeepsMoves, QuitKeepsMoves, ControlAckKeepsMoves,
   ErrorReadKeepsMoves, StartKeepsMoves, DataKeepsMoves DEF ClientActs

LEMMA MoveStep ==
    ASSUME MovesOn, [SessionNext]_sessionVars
    PROVE  MoveInv'
<1>1. CASE UNCHANGED sessionVars
  BY <1>1 DEF MovesOn, MoveInv, sessionVars, serverVars, clientVars, OneTurnPerMove,
     NumbersInv, FreshInv, PlayedInv, MovesInv, PlayedAcksInv, LeavingInv,
     ShownInv, HeadSeq, ServerAt, Unplayed, ClientLives
<1>2. CASE SessionNext
  BY <1>2, Steps, Stays, ServerKeepsMoves, ClientKeepsMoves, ServerRepeatsKeepMoves,
     ClientRepeatsKeepMoves
<1>3. QED
  BY <1>1, <1>2

LEMMA MoveInit == SessionInit => MoveInv
<1>1. SUFFICES ASSUME SessionInit PROVE MoveInv
  OBVIOUS
<1>2. Range(toClient) = {} /\ Range(toServer) = {} /\ \A f : Behind(toClient, f) = {}
  BY <1>1, EmptyLink DEF SessionInit
<1>3. <<"VIEW">> # <<"FILE", "VIEW">> /\ Head(<<"VIEW">>) # "FILE"
  OBVIOUS
<1>4. OneTurnPerMove /\ (cPhase = "waitEnd" => turns = moves) /\ NumbersInv
  BY <1>1, <1>3 DEF SessionInit, OneTurnPerMove, NumbersInv
<1>5. FreshInv /\ PlayedInv
  BY <1>1 DEF SessionInit, FreshInv, PlayedInv, Unplayed
<1>6. MovesInv /\ PlayedAcksInv /\ LeavingInv
  BY <1>1, <1>2 DEF SessionInit, MovesInv, PlayedAcksInv, LeavingInv, ServerAt
<1>7. ShownInv
  BY <1>1, <1>3 DEF SessionInit, ShownInv, NoView
<1>8. QED
  BY <1>4, <1>5, <1>6, <1>7 DEF MoveInv

-----------------------------------------------------------------------------
(* The invariant of the whole session: the types always, the transfers as   *)
(* long as files stay readable, the moves too if the numbers do not come    *)
(* round within a turn.                                                     *)
THEOREM SessionKeepsInv == SessionSpec => []SessionInv
<1>1. SessionInit => SessionInv
  BY TypeInit, TransferInit, MoveInit DEF SessionInv, TypeInv
<1>2. SessionInv /\ [SessionNext]_sessionVars => SessionInv'
  <2>1. SUFFICES ASSUME SessionInv, [SessionNext]_sessionVars PROVE SessionInv'
    OBVIOUS
  <2>2. TypeInv /\ TypeInv'
    BY <2>1, TypeStep DEF SessionInv, TypeInv
  <2>3. UNCHANGED faults
    BY <2>1, Steps DEF Stabilise, sessionVars
  <2>4. "read" \notin faults => TransferInv'
    BY <2>1, <2>2, TransferStep DEF SessionInv
  <2>5. "read" \notin faults /\ TurnsMoveOn => MoveInv'
    BY <2>1, <2>2, MoveStep DEF SessionInv, MovesOn
  <2>6. QED
    BY <2>2, <2>3, <2>4, <2>5 DEF SessionInv, TypeInv
<1>3. QED
  BY <1>1, <1>2, PTL DEF SessionSpec

(* No file becomes unreadable while it is sent. *)
SoundFiles == \A f \in FaultSets : "read" \notin f

LEMMA MovesOnAlways ==
    ASSUME TurnsMoveOn, SoundFiles
    PROVE  SessionSpec => []MovesOn
<1>1. SessionInv => MovesOn
  BY DEF SessionInv, MovesOn, TypeInv, SessionTypeOK, SoundFiles
<1>2. QED
  BY <1>1, SessionKeepsInv, PTL

(* Each move is played exactly once, however often its MOVE frame is sent   *)
(* again, if no turn brings the numbers round to that of its own move and   *)
(* no file becomes unreadable midway.                                       *)
THEOREM MovesPlayedOnce ==
    ASSUME TurnsMoveOn, SoundFiles
    PROVE  SessionSpec => []OneTurnPerMove
<1>1. MovesOn => OneTurnPerMove
  BY DEF MovesOn, MoveInv
<1>2. QED
  BY <1>1, MovesOnAlways, PTL

-----------------------------------------------------------------------------
(* The exchange: who chooses, plays, stores, confirms and shows. *)
LEMMA ExchangeStarts == SessionInit => Exchange!ExchangeInit
BY DEF SessionInit, Exchange!ExchangeInit, NoView, Exchange!NoView

Playing == {who \in {"player", "referee"} :
                \/ who = "player" /\ cPhase \notin {"ended", "failed"}
                \/ who = "referee" /\ sPhase \notin {"ended", "failed"}}

LEMMA WhoPlays ==
    /\ Playing \subseteq {"player", "referee"}
    /\ "player" \in Playing <=> ClientLives
    /\ "referee" \in Playing <=> ServerReads
BY DEF Playing, ClientLives, ServerReads

LEMMA WhoLeaves ==
    /\ (ClientLives' <=> ClientLives) /\ (ServerReads' <=> ServerReads) =>
           Playing' = Playing
    /\ ClientLives /\ ~ClientLives' /\ (ServerReads' <=> ServerReads) =>
           "player" \in Playing /\ Playing' = Playing \ {"player"}
    /\ ServerReads /\ ~ServerReads' /\ (ClientLives' <=> ClientLives) =>
           "referee" \in Playing /\ Playing' = Playing \ {"referee"}
BY DEF Playing, ClientLives, ServerReads

ExchangeStep == [Exchange!ExchangeNext]_(Exchange!exchangeVars)

(* The steps in which nothing is exchanged: whoever was there is still      *)
(* there, or one of the two leaves.                                         *)
LEMMA NothingExchanged ==
    ASSUME UNCHANGED <<moves, turns, shown, gotFiles, sentFiles>>,
           \/ (ClientLives' <=> ClientLives) /\ (ServerReads' <=> ServerReads)
           \/ ClientLives /\ ~ClientLives' /\ (ServerReads' <=> ServerReads)
           \/ ServerReads /\ ~ServerReads' /\ (ClientLives' <=> ClientLives)
    PROVE  ExchangeStep
<1>1. CASE Playing' = Playing
  BY <1>1 DEF ExchangeStep, Exchange!exchangeVars, Playing
<1>2. CASE \E who \in Playing : Playing' = Playing \ {who}
  <2>1. Exchange!Leave
    BY <1>2 DEF Exchange!Leave, Playing
  <2>2. QED
    BY <2>1 DEF ExchangeStep, Exchange!ExchangeNext
<1>3. QED
  BY <1>1, <1>2, WhoLeaves

LEMMA RepeatsExchangeNothing ==
    ASSUME ClientRepeats \/ ServerRepeats \/ Stabilise
    PROVE  ExchangeStep
<1>1. UNCHANGED <<serverVars, clientVars>>
  BY RepeatsKeep
<1>2. UNCHANGED <<moves, turns, shown, gotFiles, sentFiles, cPhase, sPhase>>
  BY <1>1 DEF serverVars, clientVars
<1>3. (ClientLives' <=> ClientLives) /\ (ServerReads' <=> ServerReads)
  BY <1>2 DEF ClientLives, ServerReads
<1>4. QED
  BY <1>2, <1>3, NothingExchanged

(* A move is chosen, and played. *)
LEMMA PressMoveChooses ==
    ASSUME MovesOn, PressMove
    PROVE  ExchangeStep
<1>1. /\ moves' = moves + 1 /\ cPhase = "input" /\ cPhase' = "waitMove"
      /\ UNCHANGED <<turns, shown, gotFiles, sentFiles, sPhase>>
  BY DEF PressMove, serverVars
<1>2. ClientLives /\ ClientLives' /\ (ServerReads' <=> ServerReads)
  BY <1>1 DEF ClientLives, ServerReads
<1>3. shown = turns /\ turns = moves
  BY <1>1, <1>2 DEF MovesOn, MoveInv, OneTurnPerMove, ShownInv
<1>4. Playing' = Playing /\ "player" \in Playing
  BY <1>2, WhoLeaves, WhoPlays
<1>5. Exchange!Choose
  BY <1>1, <1>3, <1>4 DEF Exchange!Choose, Playing
<1>6. QED
  BY <1>5 DEF ExchangeStep, Exchange!ExchangeNext

LEMMA NewMoveIsPlayed ==
    ASSUME MovesOn, ServerReadsNewMove
    PROVE  ExchangeStep
<1>1. /\ turns' = turns + 1 /\ sPhase = "play" /\ sPhase' = "head"
      /\ UNCHANGED <<moves, shown, gotFiles, sentFiles, cPhase>>
      /\ ServerArriving({"play"}) /\ Head(toServer).type = "MOVE"
  BY DEF ServerReadsNewMove, ServerArriving, clientVars
<1>2. ServerReads /\ ServerReads' /\ (ClientLives' <=> ClientLives)
  BY <1>1 DEF ClientLives, ServerReads
<1>3. turns < moves
  <2>1. turns + 1 = moves
    BY <1>1, NextMoveArrives
  <2>2. turns \in Nat
    BY DEF MovesOn, TypeInv, SessionTypeOK, ServerTypeOK
  <2>3. QED
    BY <2>1, <2>2
<1>4. Playing' = Playing /\ "referee" \in Playing
  BY <1>2, WhoLeaves, WhoPlays
<1>5. Exchange!Play
  BY <1>1, <1>3, <1>4 DEF Exchange!Play, Playing
<1>6. QED
  BY <1>5 DEF ExchangeStep, Exchange!ExchangeNext

(* A file is stored, or the view shown. *)
LEMMA DataIsStoredOrShown ==
    ASSUME MovesOn, ClientReadsData
    PROVE  ExchangeStep
<1> DEFINE frame == Head(toClient)
<1>1. ClientArriving({"view", "file"}, {"DATA"}) /\ frame.seq = Expected
  BY DEF ClientReadsData
<1>2. Inside /\ frame = DataFrame(sChunk)
  BY <1>1, DeliveredIsAtHand DEF MovesOn, TransferInv
<1>3. cPhase \in {"view", "file"} /\ ClientLives
  BY <1>1 DEF ClientArriving, ClientLives
<1>4. /\ UNCHANGED <<serverVars, moves, sPhase, turns, sentFiles>>
      /\ \/ /\ cPhase = "file" /\ cNext + 1 = FileChunks /\ cPhase' = "idle"
            /\ gotFiles' = gotFiles + 1 /\ UNCHANGED shown
         \/ /\ cPhase = "view" /\ cNext + 1 = ViewChunks /\ cPhase' = "input"
            /\ shown' = frame.about[3] /\ UNCHANGED gotFiles
         \/ UNCHANGED <<cPhase, gotFiles, shown>>
  BY <1>3 DEF ClientReadsData, serverVars
<1>5. ClientLives' /\ (ServerReads' <=> ServerReads)
  BY <1>3, <1>4 DEF ClientLives, ServerReads
<1>6. turns = moves /\ shown = moves - 1 /\ moves \in Nat /\ shown < turns
  BY <1>3 DEF MovesOn, MoveInv, OneTurnPerMove, ShownInv, TypeInv, SessionTypeOK,
     ServerTypeOK, ClientTypeOK
<1>7. sentFiles = gotFiles
  <2>1. Head(jobs) = "FILE" => cNext # FileChunks
    BY <1>2 DEF Inside, Chunks, MovesOn, TypeInv, SessionTypeOK, ServerTypeOK
  <2>2. QED
    BY <1>3, <2>1 DEF MovesOn, MoveInv, ShownInv
<1>8. Playing' = Playing /\ "player" \in Playing
  BY <1>3, <1>5, WhoLeaves, WhoPlays
<1>9. CASE cPhase = "file" /\ gotFiles' = gotFiles + 1 /\ UNCHANGED shown
  <2>1. Exchange!Store
    BY <1>4, <1>6, <1>7, <1>8, <1>9 DEF Exchange!Store, Playing
  <2>2. QED
    BY <2>1 DEF ExchangeStep, Exchange!ExchangeNext
<1>10. CASE shown' = frame.about[3] /\ UNCHANGED gotFiles
  <2>1. shown' = turns
    BY <1>2, <1>10 DEF DataFrame, Frame
  <2>2. Exchange!Show
    BY <1>4, <1>6, <1>7, <1>8, <1>10, <2>1 DEF Exchange!Show, Playing
  <2>3. QED
    BY <2>2 DEF ExchangeStep, Exchange!ExchangeNext
<1>11. CASE UNCHANGED <<cPhase, gotFiles, shown>>
  BY <1>3, <1>4, <1>5, <1>11, NothingExchanged
<1>12. QED
  BY <1>4, <1>9, <1>10, <1>11

(* A file counts as delivered. *)
LEMMA ChunkAckConfirms ==
    ASSUME MovesOn, ChunkAcknowledged
    PROVE  ExchangeStep
<1>1. /\ sPhase = "waitData" /\ UNCHANGED <<moves, turns, shown, gotFiles, cPhase>>
      /\ TypeInv /\ ServerReads /\ (ClientLives' <=> ClientLives)
  BY DEF ChunkAcknowledged, ServerArriving, clientVars, MovesOn, ServerReads, ClientLives
<1>2. CASE sChunk + 1 # Chunks(Head(jobs))
  <2>1. UNCHANGED sentFiles /\ ServerReads'
    BY <1>2 DEF ChunkAcknowledged, ServerReads
  <2>2. QED
    BY <1>1, <2>1, NothingExchanged
<1>3. CASE sChunk + 1 = Chunks(Head(jobs))
  <2>1. \/ Head(jobs) = "FILE" /\ sPhase' = "head" /\ sentFiles' = sentFiles + 1
        \/ Head(jobs) = "VIEW" /\ sPhase' = "play" /\ sentFiles' = sentFiles
    BY <1>1, <1>3, LastChunkAcknowledged
  <2>2. ServerReads'
    BY <2>1 DEF ServerReads
  <2>3. CASE Head(jobs) = "VIEW" /\ sentFiles' = sentFiles
    BY <1>1, <2>2, <2>3, NothingExchanged
  <2>4. CASE Head(jobs) = "FILE" /\ sentFiles' = sentFiles + 1
    <3>1. ClientLives => sentFiles < gotFiles
      <4>1. ASSUME ClientLives PROVE cMsg = sMsg /\ cNext = FileChunks
        BY <1>3, <2>4, <4>1, ChunkAckTaken DEF Chunks
      <4>2. jobs # << >> /\ sentFiles \in Nat
        BY <1>1 DEF TypeInv, JobsInv, ServerAt, SessionTypeOK, ServerTypeOK
      <4>3. QED
        BY <2>4, <4>1, <4>2 DEF MovesOn, MoveInv, ShownInv
    <3>2. Playing' = Playing /\ "referee" \in Playing
          /\ ("player" \in Playing => ClientLives)
      BY <1>1, <2>2, WhoLeaves, WhoPlays
    <3>3. Exchange!Confirm
      BY <1>1, <2>4, <3>1, <3>2 DEF Exchange!Confirm, Playing
    <3>4. QED
      BY <3>3 DEF ExchangeStep, Exchange!ExchangeNext
  <2>5. QED
    BY <2>1, <2>3, <2>4
<1>4. QED
  BY <1>2, <1>3

LEMMA ServerExchanges ==
    ASSUME MovesOn, ServerActs
    PROVE  ExchangeStep
<1>1. UNCHANGED <<moves, shown, gotFiles, cPhase>> /\ (ClientLives' <=> ClientLives)
  BY ServerDoes
<1>2. CASE SendHead \/ SendChunk \/ ServerReadsError \/ ServerReadsEnd
           \/ ServerInterfaceFails
  <2>1. UNCHANGED <<turns, sentFiles>> /\ ServerReads
    BY <1>2 DEF SendHead, SendChunk, ServerReadsError, ServerReadsEnd,
       ServerInterfaceFails, ServerArriving, ServerReads
  <2>2. QED
    BY <1>1, <2>1, NothingExchanged
<1>3. CASE FileUnavailable
  <2>1. UNCHANGED <<turns, sentFiles>> /\ sPhase = "head" /\ sPhase' = "head"
    BY <1>3, FileNotSent DEF MovesOn
  <2>2. QED
    BY <1>1, <2>1, NothingExchanged DEF ServerReads
<1>4. CASE HeadAcknowledged
  <2>1. UNCHANGED <<turns, sentFiles>> /\ ServerReads
    BY <1>4 DEF HeadAcknowledged, ServerArriving, ServerReads
  <2>2. QED
    BY <1>1, <2>1, NothingExchanged
<1>5. QED
  BY <1>2, <1>3, <1>4, NewMoveIsPlayed, ChunkAckConfirms, ServerDoes

LEMMA ClientExchanges ==
    ASSUME MovesOn, ClientActs
    PROVE  ExchangeStep
<1>1. CASE PressMove
  BY <1>1, PressMoveChooses
<1>2. CASE ClientReadsData
  BY <1>2, DataIsStoredOrShown
<1>3. CASE ~PressMove /\ ~ClientReadsData
  <2>1. /\ UNCHANGED <<moves, shown, gotFiles, serverVars>> /\ ClientLives
    BY <1>3 DEF ClientActs, Quit, CloseKeyboard, ControlError, ControlAcknowledged,
       ClientReadsEnd, ClientReadsStart, ClientReadsError, DiskRefusesFile,
       DiskRefusesChunk, DiskFailsAtClose, ClientInterfaceFails, ClientKeeps,
       ClientArriving, ClientReads, ClientLives
  <2>2. UNCHANGED <<turns, sentFiles, sPhase>> /\ (ServerReads' <=> ServerReads)
    BY <2>1 DEF serverVars, ServerReads
  <2>3. QED
    BY <2>1, <2>2, NothingExchanged
<1>4. QED
  BY <1>1, <1>2, <1>3

LEMMA ExchangeSteps ==
    ASSUME MovesOn, [SessionNext]_sessionVars
    PROVE  ExchangeStep
<1>1. CASE UNCHANGED sessionVars
  BY <1>1, NothingExchanged
     DEF sessionVars, serverVars, clientVars, ClientLives, ServerReads
<1>2. CASE SessionNext
  BY <1>2, Steps, Stays, ServerExchanges, ClientExchanges, RepeatsExchangeNothing
<1>3. QED
  BY <1>1, <1>2

(* Under the same conditions the session is an exchange of moves and turns: *)
(* every step of game_session.c is a step of TurnExchange or none.          *)
THEOREM SessionImplementsExchange ==
    ASSUME TurnsMoveOn, SoundFiles
    PROVE  SessionSpec => ImplementsExchange
<1>1. MovesOn /\ [SessionNext]_sessionVars =>
          [Exchange!ExchangeNext]_(Exchange!exchangeVars)
  BY ExchangeSteps DEF ExchangeStep
<1>2. QED
  BY <1>1, ExchangeStarts, MovesOnAlways, PTL
     DEF SessionSpec, ImplementsExchange, Exchange!ExchangeSpec
=============================================================================
