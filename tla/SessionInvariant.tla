-------------------------- MODULE SessionInvariant --------------------------
(***************************************************************************)
(* The inductive invariant of GameSession.  Windows are one and the links  *)
(* keep the order, so the client is at the frame the server waits for, or  *)
(* at the one before, and what is in flight is a copy of these two.        *)
(***************************************************************************)
EXTENDS GameSession, Functions

ServerAt(phases) == sPhase \in phases
ClientLives == cPhase \notin {"ended", "failed"}
OutOfTransfer == cPhase \in {"idle", "input", "waitMove", "waitEnd"}
Control(f) == f.type \in {"ACK", "NACK"}

(* The frames on a link that were sent after a copy of f. *)
Behind(link, f) ==
    {link[q] : q \in {n \in 1 .. Len(link) : \E p \in 1 .. n - 1 : link[p] = f}}

-----------------------------------------------------------------------------
(* What is left of a turn, its current message first. *)
JobLists == AllPlans \cup {<<"END">>}

JobsInv ==
    /\ jobs \in JobLists \cup {<< >>}
    /\ ServerAt({"head", "waitHead", "data", "waitData"}) => jobs # << >>
    /\ ServerAt({"play"}) => jobs = << >>
    /\ ServerAt({"data", "waitData"}) => /\ Head(jobs) # "END"
                                         /\ sChunk < Chunks(Head(jobs))

-----------------------------------------------------------------------------
(* Transfers. *)

(* A number used up to three frames before the next start frame: the last   *)
(* DATA frame before files that could not be opened, of which there are two *)
(* at most.                                                                 *)
JustUsed(s) ==
    \E n \in 1 .. 3 : /\ (s + n) % SeqSpace = HeadSeq
                      /\ n + Len(jobs) <= 4
                      /\ ServerAt({"play"}) => n = 1

(* The last frame that the client took, again. *)
Again(f) ==
    /\ f.type = "DATA" /\ cNext > 0
    /\ f.seq = Delivered
    /\ f.about[1] = cMsg /\ f.about[2] = cNext - 1

(* Behind a copy of the frame f there are only copies of it. *)
LastOfAll(f) == \A g \in Behind(toClient, f) : Control(g) \/ g = f

Expects(kind) == cPhase = (IF kind = "VIEW" THEN "view" ELSE "file")

(* The client has all of the last message; the next one has not begun. *)
Between ==
    /\ ServerAt({"head", "waitHead", "play", "failed", "ended"})
    /\ cMsg < sMsg /\ OutOfTransfer /\ JustUsed(Delivered)
    /\ \A f \in Range(toClient) :
           \/ Control(f) \/ Again(f)
           \/ f.type = "ERROR" /\ "unavailable" \in faults
           \/ /\ f = HeadFrame /\ jobs # << >>
              /\ ServerAt({"waitHead", "failed"})
    /\ jobs # << >> => LastOfAll(HeadFrame)

(* It has the start frame, which the server still sends. *)
HeadTaken ==
    /\ ServerAt({"waitHead", "failed"})
    /\ jobs # << >> /\ Head(jobs) # "END"
    /\ cMsg = sMsg /\ cNext = 0 /\ cBase = HeadSeq /\ Expects(Head(jobs))
    /\ \A f \in Range(toClient) :
           Control(f) \/ f = HeadFrame

(* It has what the server knows it has, *)
Inside ==
    /\ ServerAt({"data", "waitData", "failed"})
    /\ jobs # << >> /\ Head(jobs) # "END" /\ sChunk < Chunks(Head(jobs))
    /\ cMsg = sMsg /\ cNext = sChunk /\ cBase = HeadSeq /\ Expects(Head(jobs))
    /\ \A f \in Range(toClient) :
           \/ Control(f) \/ Again(f)
           \/ cNext = 0 /\ f = HeadFrame
           \/ f = DataFrame(sChunk) /\ ServerAt({"waitData", "failed"})
    /\ LastOfAll(DataFrame(sChunk))

(* or the chunk too which the server still sends. *)
ChunkTaken ==
    /\ ServerAt({"waitData", "failed"})
    /\ jobs # << >> /\ Head(jobs) # "END" /\ sChunk < Chunks(Head(jobs))
    /\ cMsg = sMsg /\ cNext = sChunk + 1 /\ cBase = HeadSeq
    /\ IF cNext < Chunks(Head(jobs)) THEN Expects(Head(jobs)) ELSE OutOfTransfer
    /\ \A f \in Range(toClient) :
           Control(f) \/ f = DataFrame(sChunk)

(* The client has taken the frame that the server waits to see answered. *)
Taken ==
    cMsg = sMsg /\ cNext = (IF sPhase = "waitHead" THEN 0 ELSE sChunk + 1)

(* An ACK is of the awaited frame, or of the one before. *)
AckInv(a) ==
    IF ServerAt({"waitHead", "waitData"}) /\ a.seq = Awaited.seq
    THEN /\ a.about[1] = Awaited.about[1] /\ a.about[2] = Awaited.about[2]
         /\ ClientLives => Taken
    ELSE IF ServerAt({"data", "waitData"})
         THEN a.seq = SequenceForIndex(HeadSeq, sChunk - 1)
         ELSE JustUsed(a.seq)

AcksInv ==
    /\ ServerReads => \A f \in Range(toServer) : f.type = "ACK" => AckInv(f)
    /\ ServerAt({"waitHead", "waitData"}) =>
           \A f \in Range(toServer) : f.type = "ACK" /\ f.seq = Awaited.seq =>
               \A g \in Behind(toServer, f) :
                   g.type = "ACK" => g.seq = Awaited.seq

ErrorsInv ==
    /\ \A f \in Range(toServer) :
           f.type = "ERROR" => "disk" \in faults
    /\ faults = {} => NothingFails

InStep == ClientLives => Between \/ HeadTaken \/ Inside \/ ChunkTaken

TransferInv == InStep /\ AcksInv /\ ErrorsInv

-----------------------------------------------------------------------------
(* Moves. *)

(* No turn brings the numbers of moves round: a view alone, a view after a  *)
(* file that was not sent, and one after a file.                            *)
TurnsMoveOn ==
    \A n \in {ViewChunks + 1, ViewChunks + 2, FileChunks + ViewChunks + 2} :
        n % SeqSpace # 0

Unplayed == turns = moves - 1

(* Where the numbers of the turn have got to. *)
NumbersInv ==
    /\ jobs = <<"FILE", "VIEW">> => HeadSeq = lastMove
    /\ jobs = <<"VIEW">> =>
           lastMove \in {NoMove, HeadSeq} \/
           \E n \in {1, FileChunks + 1} : HeadSeq = (lastMove + n) % SeqSpace

(* The number of the next move is ready: that of the next start frame. *)
FreshInv ==
    cPhase = "input" \/ Unplayed =>
        /\ lastMove # moveSeq
        /\ ServerAt({"waitData", "play", "failed", "ended"})
        /\ ServerAt({"waitData"}) =>
               /\ jobs = <<"VIEW">> /\ sChunk + 1 = ViewChunks
               /\ moveSeq = NextSequence(SequenceAddCount(HeadSeq, ViewChunks))
        /\ ServerAt({"play"}) => moveSeq = HeadSeq

PlayedInv ==
    cPhase = "waitMove" /\ turns = moves =>
        /\ moveSeq = lastMove
        /\ cMsg < sMsg /\ ServerAt({"head", "waitHead", "failed"})

MovesInv ==
    /\ \A f \in Range(toServer) : f.type = "MOVE" =>
           /\ ServerAt({"play", "data", "waitData"}) =>
                  Unplayed /\ f.seq = moveSeq
           /\ ServerAt({"head", "waitHead"}) => f.seq = lastMove
    /\ ServerAt({"waitHead"}) =>
           \A f \in Range(toServer) : f.type = "ACK" /\ f.seq = HeadSeq =>
               \A g \in Behind(toServer, f) : g.type # "MOVE"

(* The server's ACKs are of a move that was played, and come before the     *)
(* DATA frames of the turn.                                                 *)
PlayedAcksInv ==
    ClientLives /\ cPhase # "waitEnd" =>
        \A f \in Range(toClient) : f.type = "ACK" =>
            /\ cPhase # "input" /\ ~Unplayed
            /\ cMsg = sMsg =>
                   /\ cNext = 0
                   /\ \A g \in Range(toClient) : g.type = "DATA" =>
                          f \notin Behind(toClient, g)

LeavingInv ==
    /\ \A f \in Range(toServer) : f.type = "END" =>
           cPhase \in {"waitEnd", "ended", "failed"}
    /\ ServerAt({"ended"}) => cPhase \in {"waitEnd", "ended", "failed"}

(* The view on the screen, and the files of both sides. *)
ShownInv ==
    ClientLives =>
        /\ shown = IF cPhase \in {"input", "waitEnd"} THEN moves ELSE moves - 1
        /\ gotFiles = IF /\ cMsg = sMsg /\ jobs # << >> /\ Head(jobs) = "FILE"
                         /\ cNext = FileChunks
                      THEN sentFiles + 1 ELSE sentFiles

MoveInv ==
    /\ OneTurnPerMove /\ (cPhase = "waitEnd" => turns = moves)
    /\ NumbersInv /\ FreshInv /\ PlayedInv /\ MovesInv /\ PlayedAcksInv
    /\ LeavingInv /\ ShownInv

(* A file that becomes unreadable mixes the numbers up (the run mixed_data),*)
(* and so does a turn that uses all of them (move_collision).               *)
SessionInv ==
    /\ SessionTypeOK /\ JobsInv
    /\ "read" \notin faults => TransferInv /\ (TurnsMoveOn => MoveInv)
=============================================================================
