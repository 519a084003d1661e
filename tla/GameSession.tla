----------------------------- MODULE GameSession -----------------------------
(***************************************************************************)
(* A whole game session, as the loops of src/app/game_session.c play it:   *)
(* the server sends a view, the client sends a move numbered after the     *)
(* last DATA frame of that view, the server acknowledges it, plays one     *)
(* turn and answers with the files of the turn and a new view, or with END *)
(* when a ghost caught PacMan.  Every frame may be lost and every wait may *)
(* time out.  Transfers have a window of one here, the window of a view    *)
(* and the smallest of a file; WindowTransfer is about the larger ones.    *)
(***************************************************************************)
EXTENDS SequenceSpace, Sequences, FiniteSets

CONSTANTS
    ViewChunks,     \* DATA frames of a view, 26 in the program
    FileChunks,     \* DATA frames of a file
    TurnPlans,      \* what the turns of a game send, of AllPlans
    FaultSets,      \* what may go wrong: sets of "unavailable",
                    \* "read", "disk", "interface"
    PlayerMayLeave, \* whether the player may quit or close the keyboard
    EarlyTimeouts,  \* whether a wait may end while its answer is in flight
    MaxMoves,       \* moves the player makes at most
    LinkCap         \* frames a socket holds

(* What a turn sends: the view; before it the file of a pellet that was     *)
(* eaten; after a meeting the file of the ghost and END, and if PacMan had  *)
(* just eaten a pellet its file before them.                                *)
AllPlans == {<<"VIEW">>, <<"FILE", "VIEW">>, <<"FILE", "END">>,
             <<"FILE", "FILE", "END">>}

ASSUME SessionConstants ==
    /\ SeqSpace >= 4
    /\ ViewChunks \in Nat \ {0} /\ FileChunks \in Nat \ {0}
    /\ TurnPlans \subseteq AllPlans
    /\ FaultSets \subseteq SUBSET {"unavailable", "read", "disk", "interface"}
    /\ PlayerMayLeave \in BOOLEAN /\ EarlyTimeouts \in BOOLEAN
    /\ MaxMoves \in Nat /\ LinkCap \in Nat

VARIABLES
    sPhase,      \* where the server is
    sSeq,        \* server_sequence
    jobs,        \* what is left to send for this turn, the current one first
    sChunk,      \* the chunk of the current transfer being sent
    sMsg,        \* number of the current message (auxiliary)
    lastMove,    \* last_client_sequence, or NoMove
    turns,       \* turns played
    sentFiles,   \* files of which the server has every chunk confirmed (auxiliary)
    cPhase,      \* where the client is
    cBase,       \* receiver: number of the start frame of the open transfer,
    cNext,       \*           its base_index,
    cMsg,        \*           and the message it belongs to (auxiliary)
    recent,      \* recent_file_data
    moveSeq,     \* move_sequence
    lastData,    \* last_view_data_sequence
    moves,       \* moves the player made
    shown,       \* turns that the view on the screen shows, or NoView
    gotFiles,    \* files received whole
    toServer,    \* frames on their way to the server
    toClient,    \* frames on their way to the client
    faults,      \* what is wrong with the files, the disk or the interfaces
    lossy        \* whether the link still loses frames

serverVars == <<sPhase, sSeq, jobs, sChunk, sMsg, lastMove, turns, sentFiles>>
clientVars == <<cPhase, cBase, cNext, cMsg, recent, moveSeq, lastData, moves,
                shown, gotFiles>>
sessionVars == <<serverVars, clientVars, toServer, toClient, faults, lossy>>

NoMove == -1
NoView == -1

-----------------------------------------------------------------------------
(* Frames.  "about" is what a server frame or its answer is about: the      *)
(* message, the chunk (-1 for a start frame or END) and the turn its data   *)
(* show.  It stands for the bytes of the frame; the only guards that read it*)
(* are those of the code that compare bytes: a file and its length, the     *)
(* length of a chunk.                                                       *)

Frame(type, seq, about) == [type |-> type, seq |-> seq, about |-> about]

AfterSend(link, frame) ==
    (IF Len(link) < LinkCap THEN {Append(link, frame)} ELSE {link})
        \cup (IF lossy THEN {link} ELSE {})

Reply(frame, type) == Frame(type, frame.seq, frame.about)

Chunks(kind) == IF kind = "VIEW" THEN ViewChunks ELSE FileChunks

(* The number of the start frame, or END, of the job at hand. *)
HeadSeq == NextSequence(sSeq)
HeadFrame == Frame(Head(jobs), HeadSeq, <<sMsg, -1, turns>>)
ErrorFrame == Frame("ERROR", HeadSeq, <<sMsg, -1, turns>>)
DataFrame(c) == Frame("DATA", SequenceForIndex(HeadSeq, c), <<sMsg, c, turns>>)

ServerReads == sPhase \notin {"ended", "failed"}
ClientReads == cPhase \notin {"input", "ended", "failed"}

(* A wait that is not early ends when no frame is left to be read. *)
MayTimeOut ==
    EarlyTimeouts \/ /\ ServerReads => toServer = << >>
                     /\ ClientReads => toClient = << >>

-----------------------------------------------------------------------------
SessionInit ==
    /\ sPhase = "head" /\ sSeq = 0 /\ jobs = <<"VIEW">> /\ sChunk = 0
    /\ sMsg = 1 /\ lastMove = NoMove /\ turns = 0 /\ sentFiles = 0
    /\ cPhase = "idle" /\ cBase = 0 /\ cNext = 0 /\ cMsg = 0 /\ recent = {}
    /\ moveSeq = 0 /\ lastData = 0 /\ moves = 0 /\ shown = NoView
    /\ gotFiles = 0
    /\ toServer = << >> /\ toClient = << >>
    /\ lossy = TRUE /\ faults \in FaultSets

-----------------------------------------------------------------------------
(* The server sends. *)

(* The job at hand is done: the next one, or the next move. *)
NextJob(seq) ==
    /\ sSeq' = seq
    /\ jobs' = Tail(jobs)
    /\ sMsg' = sMsg + 1
    /\ sPhase' = IF Head(jobs) = "END" THEN "ended"
                 ELSE IF Len(jobs) = 1 THEN "play" ELSE "head"

(* send_fragment_frame_and_wait_ack: the start frame, or END, goes out. *)
SendHead ==
    /\ sPhase = "head"
    /\ toClient' \in AfterSend(toClient, HeadFrame)
    /\ sPhase' = "waitHead"
    /\ UNCHANGED <<sSeq, jobs, sChunk, sMsg, lastMove, turns, sentFiles,
                   clientVars, toServer, lossy>>

(* send_file_and_wait_ack: a file that cannot be opened is answered with an *)
(* ERROR frame, which nobody acknowledges.                                  *)
FileUnavailable ==
    /\ "unavailable" \in faults
    /\ sPhase = "head" /\ Head(jobs) = "FILE"
    /\ toClient' \in AfterSend(toClient, ErrorFrame)
    /\ NextJob(HeadSeq)
    /\ UNCHANGED <<sChunk, lastMove, turns, sentFiles, clientVars, toServer,
                   lossy>>

(* The wait for the answer to the start frame times out. *)
HeadTimeout ==
    /\ sPhase = "waitHead" /\ MayTimeOut
    /\ toClient' \in AfterSend(toClient, HeadFrame)
    /\ UNCHANGED <<serverVars, clientVars, toServer, lossy>>

(* The next chunk goes out, *)
SendChunk ==
    /\ sPhase = "data"
    /\ toClient' \in AfterSend(toClient, DataFrame(sChunk))
    /\ sPhase' = "waitData"
    /\ UNCHANGED <<sSeq, jobs, sChunk, sMsg, lastMove, turns, sentFiles,
                   clientVars, toServer, lossy>>

(* Mutant: a file that could only be read in part counts as confirmed whole.*)
FileReadErrorAsDelivered ==
    /\ "read" \in faults
    /\ sPhase = "data" /\ Head(jobs) = "FILE"
    /\ toClient' \in AfterSend(toClient, ErrorFrame)
    /\ NextJob(HeadSeq)
    /\ sentFiles' = sentFiles + 1
    /\ UNCHANGED <<sChunk, lastMove, turns, clientVars, toServer, lossy>>

(* unless the file cannot be read any further: an ERROR frame ends the     *)
(* transfer and only its start frame counts in server_sequence.            *)
FileReadError ==
    /\ "read" \in faults
    /\ sPhase = "data" /\ Head(jobs) = "FILE"
    /\ toClient' \in AfterSend(toClient, ErrorFrame)
    /\ NextJob(HeadSeq)
    /\ UNCHANGED <<sChunk, lastMove, turns, sentFiles, clientVars, toServer,
                   lossy>>

ChunkTimeout ==
    /\ sPhase = "waitData" /\ MayTimeOut
    /\ toClient' \in AfterSend(toClient, DataFrame(sChunk))
    /\ UNCHANGED <<serverVars, clientVars, toServer, lossy>>

-----------------------------------------------------------------------------
(* The server reads. *)

Awaited == IF sPhase = "waitHead" THEN HeadFrame ELSE DataFrame(sChunk)

(* In a wait for an answer. *)
ServerArriving(phases) == sPhase \in phases /\ toServer # << >>

(* An ERROR frame from the client ends the session. *)
ServerReadsError ==
    /\ ServerArriving({"waitHead", "waitData"})
    /\ Head(toServer).type = "ERROR"
    /\ sPhase' = "failed"
    /\ toServer' = Tail(toServer)
    /\ UNCHANGED <<sSeq, jobs, sChunk, sMsg, lastMove, turns, sentFiles,
                   clientVars, toClient, lossy>>

(* The frame sent is acknowledged. *)
HeadAcknowledged ==
    /\ ServerArriving({"waitHead"})
    /\ Head(toServer).type = "ACK" /\ Head(toServer).seq = HeadSeq
    /\ IF Head(jobs) = "END"
       THEN NextJob(HeadSeq) /\ UNCHANGED sChunk
       ELSE sPhase' = "data" /\ sChunk' = 0 /\ UNCHANGED <<sSeq, jobs, sMsg>>
    /\ toServer' = Tail(toServer)
    /\ UNCHANGED <<lastMove, turns, sentFiles, clientVars, toClient, lossy>>

ChunkAcknowledged ==
    /\ ServerArriving({"waitData"})
    /\ Head(toServer).type = "ACK" /\ Head(toServer).seq = Awaited.seq
    /\ sChunk' = sChunk + 1
    /\ IF sChunk + 1 = Chunks(Head(jobs))
       THEN /\ NextJob(SequenceAddCount(HeadSeq, Chunks(Head(jobs))))
            /\ sentFiles' = IF Head(jobs) = "FILE" THEN sentFiles + 1
                                                  ELSE sentFiles
       ELSE sPhase' = "data" /\ UNCHANGED <<sSeq, jobs, sMsg, sentFiles>>
    /\ toServer' = Tail(toServer)
    /\ UNCHANGED <<lastMove, turns, clientVars, toClient, lossy>>

(* A file that cannot be closed is reported as one that could not be read,  *)
(* although all of it has been confirmed.                                   *)
FileCloseError ==
    /\ "read" \in faults
    /\ ServerArriving({"waitData"}) /\ Head(jobs) = "FILE" /\ sChunk + 1 = FileChunks
    /\ Head(toServer).type = "ACK" /\ Head(toServer).seq = Awaited.seq
    /\ toClient' \in AfterSend(toClient, ErrorFrame)
    /\ NextJob(HeadSeq)
    /\ sentFiles' = sentFiles + 1
    /\ toServer' = Tail(toServer)
    /\ UNCHANGED <<sChunk, lastMove, turns, clientVars, lossy>>

(* A NACK that names it has it sent again. *)
ServerReadsNack ==
    /\ ServerArriving({"waitHead", "waitData"})
    /\ Head(toServer).type = "NACK" /\ Head(toServer).seq = Awaited.seq
    /\ toClient' \in AfterSend(toClient, Awaited)
    /\ toServer' = Tail(toServer)
    /\ UNCHANGED <<serverVars, clientVars, lossy>>

(* Mutant: every move is acknowledged during a transfer, the next one too. *)
ServerAcknowledgesMoves ==
    /\ ServerArriving({"waitHead", "waitData"})
    /\ LET frame == Head(toServer)
       IN  /\ frame.type \in {"MOVE", "END"} \/
                (frame.type \in {"ACK", "NACK"} /\ frame.seq # Awaited.seq)
           /\ IF frame.type = "MOVE"
              THEN toClient' \in AfterSend(toClient, Reply(frame, "ACK"))
              ELSE UNCHANGED toClient
    /\ toServer' = Tail(toServer)
    /\ UNCHANGED <<serverVars, clientVars, lossy>>

(* The last move again: acknowledged again.  Any other frame is dropped. *)
ServerReadsOther ==
    /\ ServerArriving({"waitHead", "waitData"})
    /\ LET frame == Head(toServer)
       IN  /\ frame.type \in {"MOVE", "END"} \/
                (frame.type \in {"ACK", "NACK"} /\ frame.seq # Awaited.seq)
           /\ IF frame.type = "MOVE" /\ frame.seq = lastMove
              THEN toClient' \in AfterSend(toClient, Reply(frame, "ACK"))
              ELSE UNCHANGED toClient
    /\ toServer' = Tail(toServer)
    /\ UNCHANGED <<serverVars, clientVars, lossy>>

(* Between two turns: the main loop of game_session_run_server. *)
ServerReadsEnd ==
    /\ ServerArriving({"play"}) /\ Head(toServer).type = "END"
    /\ toClient' \in AfterSend(toClient, Reply(Head(toServer), "ACK"))
    /\ sPhase' = "ended"
    /\ toServer' = Tail(toServer)
    /\ UNCHANGED <<sSeq, jobs, sChunk, sMsg, lastMove, turns, sentFiles,
                   clientVars, lossy>>

(* An ERROR is logged; what is not a move is answered with a NACK. *)
ServerReadsNoMove ==
    /\ ServerArriving({"play"})
    /\ Head(toServer).type \in {"ACK", "NACK", "ERROR"}
    /\ IF Head(toServer).type = "ERROR" THEN UNCHANGED toClient
       ELSE toClient' \in AfterSend(toClient, Reply(Head(toServer), "NACK"))
    /\ toServer' = Tail(toServer)
    /\ UNCHANGED <<serverVars, clientVars, lossy>>

(* The number of the last move: acknowledged, no turn, the view again. *)
ServerReadsOldMove ==
    /\ ServerArriving({"play"})
    /\ Head(toServer).type = "MOVE" /\ Head(toServer).seq = lastMove
    /\ toClient' \in AfterSend(toClient, Reply(Head(toServer), "ACK"))
    /\ sPhase' = "head" /\ jobs' = <<"VIEW">>
    /\ toServer' = Tail(toServer)
    /\ UNCHANGED <<sSeq, sChunk, sMsg, lastMove, turns, sentFiles, clientVars,
                   lossy>>

(* A new move: the turn is played and its answer prepared. *)
ServerReadsNewMove ==
    /\ ServerArriving({"play"})
    /\ Head(toServer).type = "MOVE" /\ Head(toServer).seq # lastMove
    /\ turns' = turns + 1
    /\ lastMove' = Head(toServer).seq
    /\ toClient' \in AfterSend(toClient, Reply(Head(toServer), "ACK"))
    /\ sPhase' = "head" /\ jobs' \in TurnPlans
    /\ toServer' = Tail(toServer)
    /\ UNCHANGED <<sSeq, sChunk, sMsg, sentFiles, clientVars, lossy>>

-----------------------------------------------------------------------------
(* The client.  In a view or a file it waits for the DATA frame after the  *)
(* chunks it has.                                                          *)

Expected == SequenceForIndex(cBase, cNext)
Delivered == SequenceForIndex(cBase, cNext - 1)

ClientArriving(phases, types) ==
    cPhase \in phases /\ toClient # << >> /\ Head(toClient).type \in types

SendToServer(frame) == toServer' \in AfterSend(toServer, frame)

NackExpected == SendToServer(Frame("NACK", Expected, <<cMsg, cNext, 0>>))

ClientKeeps == UNCHANGED <<cBase, cNext, cMsg, recent, moveSeq, lastData,
                           moves, shown, gotFiles>>

(* The player. *)
PressMove ==
    /\ cPhase = "input" /\ moves < MaxMoves
    /\ moves' = moves + 1
    /\ SendToServer(Frame("MOVE", moveSeq, <<0, moves + 1, 0>>))
    /\ cPhase' = "waitMove"
    /\ UNCHANGED <<cBase, cNext, cMsg, recent, moveSeq, lastData, shown,
                   gotFiles, serverVars, toClient, lossy>>

(* "q" asks the server to end; the end of the keyboard just ends. *)
Quit ==
    /\ PlayerMayLeave /\ cPhase = "input"
    /\ SendToServer(Frame("END", moveSeq, <<0, -1, 0>>))
    /\ cPhase' = "waitEnd"
    /\ ClientKeeps
    /\ UNCHANGED <<serverVars, toClient, lossy>>

CloseKeyboard ==
    /\ PlayerMayLeave /\ cPhase = "input"
    /\ cPhase' = "ended"
    /\ ClientKeeps
    /\ UNCHANGED <<serverVars, toServer, toClient, lossy>>

(* wait_for_control, inside send_frame_and_wait_control_ack. *)
Asked == IF cPhase = "waitMove" THEN Frame("MOVE", moveSeq, <<0, moves, 0>>)
                                ELSE Frame("END", moveSeq, <<0, -1, 0>>)

ControlTimeout ==
    /\ cPhase \in {"waitMove", "waitEnd"} /\ MayTimeOut
    /\ SendToServer(Asked)
    /\ UNCHANGED <<serverVars, clientVars, toClient, lossy>>

ControlError ==
    /\ ClientArriving({"waitMove", "waitEnd"}, {"ERROR"})
    /\ cPhase' = "failed"
    /\ ClientKeeps
    /\ toClient' = Tail(toClient)
    /\ UNCHANGED <<serverVars, toServer, lossy>>

(* The last DATA frame of the view again: its ACK was lost. *)
ControlOldData ==
    /\ ClientArriving({"waitMove", "waitEnd"}, {"DATA"})
    /\ IF Head(toClient).seq = lastData
       THEN SendToServer(Reply(Head(toClient), "ACK"))
       ELSE UNCHANGED toServer
    /\ toClient' = Tail(toClient)
    /\ UNCHANGED <<serverVars, clientVars, lossy>>

(* The acknowledgement of the move, or of END. *)
ControlAcknowledged ==
    /\ ClientArriving({"waitMove", "waitEnd"}, {"ACK"})
    /\ Head(toClient).seq = moveSeq
    /\ IF cPhase = "waitMove"
       THEN cPhase' = "idle" /\ recent' = {}
       ELSE cPhase' = "ended" /\ UNCHANGED recent
    /\ toClient' = Tail(toClient)
    /\ UNCHANGED <<cBase, cNext, cMsg, moveSeq, lastData, moves, shown,
                   gotFiles, serverVars, toServer, lossy>>

(* A NACK of it has it sent again; other frames are dropped. *)
ControlOther ==
    /\ ClientArriving({"waitMove", "waitEnd"},
                      {"ACK", "NACK", "VIEW", "FILE", "END"})
    /\ LET frame == Head(toClient)
       IN  /\ frame.type = "ACK" => frame.seq # moveSeq
           /\ IF frame.type = "NACK" /\ frame.seq = moveSeq
              THEN SendToServer(Asked) ELSE UNCHANGED toServer
    /\ toClient' = Tail(toClient)
    /\ UNCHANGED <<serverVars, clientVars, lossy>>

(* Mutant: END ends the session without an ACK. *)
ClientLeavesSilently ==
    /\ ClientArriving({"idle", "view"}, {"END"})
    /\ cPhase' = "ended"
    /\ ClientKeeps
    /\ toClient' = Tail(toClient)
    /\ UNCHANGED <<serverVars, toServer, lossy>>

(* receive_view_message: END is acknowledged and ends the session. *)
ClientReadsEnd ==
    /\ ClientArriving({"idle", "view"}, {"END"})
    /\ SendToServer(Reply(Head(toClient), "ACK"))
    /\ cPhase' = "ended"
    /\ ClientKeeps
    /\ toClient' = Tail(toClient)
    /\ UNCHANGED <<serverVars, lossy>>

(* A start frame opens a transfer. *)
ClientReadsStart ==
    /\ ClientArriving({"idle"}, {"VIEW", "FILE"})
    /\ LET frame == Head(toClient)
       IN  /\ cPhase' = IF frame.type = "VIEW" THEN "view" ELSE "file"
           /\ cBase' = frame.seq /\ cNext' = 0 /\ cMsg' = frame.about[1]
           /\ SendToServer(Reply(frame, "ACK"))
    /\ toClient' = Tail(toClient)
    /\ UNCHANGED <<recent, moveSeq, lastData, moves, shown, gotFiles,
                   serverVars, lossy>>

(* Mutant: every start frame inside a transfer is refused. *)
ClientRefusesStartAgain ==
    /\ ClientArriving({"view", "file"}, {"VIEW", "FILE"})
    /\ SendToServer(Reply(Head(toClient), "ERROR"))
    /\ toClient' = Tail(toClient)
    /\ UNCHANGED <<serverVars, clientVars, lossy>>

(* Inside one, the same start frame is acknowledged again and another one   *)
(* is answered with an ERROR frame.  All views are equally long; that of    *)
(* another file under the same number may be of the same file again, or may *)
(* differ in its name or length.                                            *)
ClientReadsStartAgain ==
    /\ ClientArriving({"view", "file"}, {"VIEW", "FILE"})
    /\ LET frame == Head(toClient)
           alike == frame.seq = cBase /\ (frame.type = "VIEW") = (cPhase = "view")
           otherFile == frame.type = "FILE" /\ frame.about[1] # cMsg
       IN  \/ alike /\ SendToServer(Reply(frame, "ACK"))
           \/ (alike => otherFile) /\ SendToServer(Reply(frame, "ERROR"))
    /\ toClient' = Tail(toClient)
    /\ UNCHANGED <<serverVars, clientVars, lossy>>

(* An ERROR frame ends a file, and the session inside a view. *)
ClientReadsError ==
    /\ ClientArriving({"idle", "view", "file"}, {"ERROR"})
    /\ cPhase' = IF cPhase = "view" THEN "failed" ELSE "idle"
    /\ ClientKeeps
    /\ toClient' = Tail(toClient)
    /\ UNCHANGED <<serverVars, toServer, lossy>>

(* Mutant: a DATA frame outside a transfer is dropped. *)
ClientDropsLate ==
    /\ ClientArriving({"idle"}, {"DATA", "ACK", "NACK"})
    /\ toClient' = Tail(toClient)
    /\ UNCHANGED <<serverVars, clientVars, toServer, lossy>>

(* Outside a transfer a DATA frame of the last file is acknowledged again; *)
(* everything else is dropped.                                             *)
ClientReadsLate ==
    /\ ClientArriving({"idle"}, {"DATA", "ACK", "NACK"})
    /\ LET frame == Head(toClient)
       IN  IF frame.type = "DATA" /\ frame.seq \in recent
           THEN SendToServer(Reply(frame, "ACK")) ELSE UNCHANGED toServer
    /\ toClient' = Tail(toClient)
    /\ UNCHANGED <<serverVars, clientVars, lossy>>

(* A frame that does not belong there: a view asks for the expected chunk, *)
(* a file ignores it.                                                      *)
ClientReadsForeign ==
    /\ \/ ClientArriving({"view"}, {"ACK", "NACK"}) /\ NackExpected
       \/ ClientArriving({"file"}, {"ACK", "NACK", "END"}) /\ UNCHANGED toServer
    /\ toClient' = Tail(toClient)
    /\ UNCHANGED <<serverVars, clientVars, lossy>>

(* A DATA frame that is not the expected one: the last one again, or one   *)
(* out of the window.                                                      *)
ClientReadsOldData ==
    /\ ClientArriving({"view", "file"}, {"DATA"})
    /\ Head(toClient).seq # Expected
    /\ IF Head(toClient).seq = Delivered /\ cNext > 0
       THEN SendToServer(Reply(Head(toClient), "ACK")) ELSE NackExpected
    /\ toClient' = Tail(toClient)
    /\ UNCHANGED <<serverVars, clientVars, lossy>>

(* A DATA frame under the expected number which is of another place, or of  *)
(* another message, may not have the length of that place.                  *)
ClientRefusesLength ==
    /\ ClientArriving({"view", "file"}, {"DATA"})
    /\ LET frame == Head(toClient)
       IN  frame.seq = Expected /\ <<frame.about[1], frame.about[2]>> # <<cMsg, cNext>>
    /\ NackExpected
    /\ toClient' = Tail(toClient)
    /\ UNCHANGED <<serverVars, clientVars, lossy>>

(* The expected one is delivered.  The last one of a file leaves the cache *)
(* of recent numbers; the last one of a view leads to the player.          *)
ClientReadsData ==
    /\ ClientArriving({"view", "file"}, {"DATA"})
    /\ Head(toClient).seq = Expected
    /\ SendToServer(Reply(Head(toClient), "ACK"))
    /\ cNext' = cNext + 1
    /\ CASE cPhase = "file" /\ cNext + 1 = FileChunks ->
                /\ cPhase' = "idle" /\ recent' = {Expected}
                /\ gotFiles' = gotFiles + 1
                /\ UNCHANGED <<moveSeq, lastData, shown>>
         [] cPhase = "view" /\ cNext + 1 = ViewChunks ->
                /\ cPhase' = "input"
                /\ lastData' = Expected /\ moveSeq' = NextSequence(Expected)
                /\ shown' = Head(toClient).about[3]
                /\ UNCHANGED <<recent, gotFiles>>
         [] OTHER ->
                UNCHANGED <<cPhase, recent, gotFiles, moveSeq, lastData, shown>>
    /\ toClient' = Tail(toClient)
    /\ UNCHANGED <<cBase, cMsg, moves, serverVars, lossy>>

(* The client's disk.  A file that cannot be opened is answered with an      *)
(* ERROR frame instead of an ACK,                                           *)
DiskRefusesFile ==
    /\ "disk" \in faults
    /\ ClientArriving({"idle"}, {"FILE"})
    /\ SendToServer(Reply(Head(toClient), "ERROR"))
    /\ cPhase' = "failed"
    /\ ClientKeeps
    /\ toClient' = Tail(toClient)
    /\ UNCHANGED <<serverVars, lossy>>

(* as is a chunk that cannot be written, under the number of the start frame. *)
FileError == Frame("ERROR", cBase, <<cMsg, -1, 0>>)

DiskRefusesChunk ==
    /\ "disk" \in faults
    /\ ClientArriving({"file"}, {"DATA"}) /\ Head(toClient).seq = Expected
    /\ SendToServer(FileError)
    /\ cPhase' = "failed"
    /\ ClientKeeps
    /\ toClient' = Tail(toClient)
    /\ UNCHANGED <<serverVars, lossy>>

(* When it is the closing that fails the last ACK has already been sent.    *)
DiskFailsAtClose ==
    /\ "disk" \in faults
    /\ ClientArriving({"file"}, {"DATA"}) /\ Head(toClient).seq = Expected
    /\ cNext + 1 = FileChunks
    /\ \E link \in AfterSend(toServer, Reply(Head(toClient), "ACK")) :
           toServer' \in AfterSend(link, FileError)
    /\ cPhase' = "failed"
    /\ ClientKeeps
    /\ toClient' = Tail(toClient)
    /\ UNCHANGED <<serverVars, lossy>>

(* An interface that goes down makes the next send or receive fail, and     *)
(* that ends the program, with nothing sent.                                *)
ServerInterfaceFails ==
    /\ "interface" \in faults
    /\ sPhase \notin {"ended", "failed"}
    /\ sPhase' = "failed"
    /\ UNCHANGED <<sSeq, jobs, sChunk, sMsg, lastMove, turns, sentFiles,
                   clientVars, toServer, toClient, lossy>>

ClientInterfaceFails ==
    /\ "interface" \in faults
    /\ ClientReads
    /\ cPhase' = "failed"
    /\ ClientKeeps
    /\ UNCHANGED <<serverVars, toServer, toClient, lossy>>

(* Nothing arrives in time inside a transfer. *)
ReceiveTimeout ==
    /\ cPhase \in {"view", "file"} /\ MayTimeOut
    /\ NackExpected
    /\ UNCHANGED <<serverVars, clientVars, toClient, lossy>>

-----------------------------------------------------------------------------
(* From some moment on the link loses nothing. *)
Stabilise ==
    /\ lossy /\ lossy' = FALSE
    /\ UNCHANGED <<serverVars, clientVars, toServer, toClient, faults>>

ServerStep ==
    /\ \/ SendHead \/ FileUnavailable \/ SendChunk \/ FileReadError
       \/ FileCloseError \/ ServerReadsError \/ HeadAcknowledged \/ ChunkAcknowledged
       \/ ServerReadsNack \/ ServerReadsOther \/ ServerReadsEnd
       \/ ServerReadsNoMove \/ ServerReadsOldMove \/ ServerReadsNewMove
    /\ UNCHANGED faults

ClientStep ==
    /\ \/ ControlError \/ ControlOldData \/ ControlAcknowledged \/ ControlOther
       \/ ClientReadsEnd \/ ClientReadsStart \/ ClientReadsStartAgain
       \/ ClientReadsError \/ ClientReadsLate \/ ClientReadsForeign
       \/ ClientReadsOldData \/ ClientRefusesLength \/ ClientReadsData
       \/ DiskRefusesFile \/ DiskRefusesChunk \/ DiskFailsAtClose
    /\ UNCHANGED faults

ServerTimeout == (HeadTimeout \/ ChunkTimeout) /\ UNCHANGED faults
ClientTimeout == (ControlTimeout \/ ReceiveTimeout) /\ UNCHANGED faults

Player == (PressMove \/ Quit \/ CloseKeyboard) /\ UNCHANGED faults

InterfaceFails ==
    (ServerInterfaceFails \/ ClientInterfaceFails) /\ UNCHANGED faults

SessionNext ==
    \/ ServerStep \/ ClientStep \/ ServerTimeout \/ ClientTimeout \/ Player
    \/ InterfaceFails \/ Stabilise

SessionSpec == SessionInit /\ [][SessionNext]_sessionVars

(* Both processes run, the link recovers, and a wait does not lose for ever *)
(* to the timeouts of the other side: the waits back off (TimedTransfer).   *)
FairSession ==
    /\ SessionSpec
    /\ WF_sessionVars(Stabilise)
    /\ WF_sessionVars(ServerStep) /\ WF_sessionVars(ClientStep)
    /\ SF_sessionVars(ServerTimeout) /\ SF_sessionVars(ClientTimeout)

-----------------------------------------------------------------------------
(* Properties. *)

ToClientTypes == {"VIEW", "FILE", "END", "DATA", "ERROR", "ACK", "NACK"}
ToServerTypes == {"ACK", "NACK", "ERROR", "MOVE", "END"}
Frames(types) ==
    [type : types, seq : SeqNumbers, about : Nat \X Int \X Nat]

ServerTypeOK ==
    /\ sPhase \in {"head", "waitHead", "data", "waitData", "play", "ended",
                   "failed"}
    /\ sSeq \in SeqNumbers /\ jobs \in Seq({"VIEW", "FILE", "END"})
    /\ sChunk \in Nat /\ sMsg \in Nat /\ lastMove \in SeqNumbers \cup {NoMove}
    /\ turns \in Nat /\ sentFiles \in Nat

ClientTypeOK ==
    /\ cPhase \in {"idle", "file", "view", "input", "waitMove", "waitEnd",
                   "ended", "failed"}
    /\ cBase \in SeqNumbers /\ cNext \in Nat /\ cMsg \in Nat
    /\ recent \subseteq SeqNumbers
    /\ moveSeq \in SeqNumbers /\ lastData \in SeqNumbers
    /\ moves \in Nat /\ shown \in Nat \cup {NoView} /\ gotFiles \in Nat

LinksTypeOK ==
    /\ toServer \in Seq(Frames(ToServerTypes))
    /\ toClient \in Seq(Frames(ToClientTypes))

(* Every variable stays in its range. *)
SessionTypeOK ==
    /\ ServerTypeOK /\ ClientTypeOK /\ LinksTypeOK
    /\ faults \in FaultSets /\ lossy \in BOOLEAN

(* Each move of the player is played once: never twice, however often it is *)
(* sent again, and it is played by the time it is acknowledged.             *)
OneTurnPerMove ==
    /\ turns \in {moves - 1, moves}
    /\ cPhase \in {"idle", "view", "file", "input"} => turns = moves

(* A DATA frame that the client is about to deliver belongs to the transfer *)
(* it has open, at that place: net/fragment.h has the number of a start     *)
(* frame identify the message that follows.                                 *)
DataIsOfOpenTransfer ==
    ClientArriving({"view", "file"}, {"DATA"}) /\ Head(toClient).seq = Expected =>
        /\ Head(toClient).about[1] = cMsg
        /\ Head(toClient).about[2] = cNext

(* And an ACK that the server takes as the answer to a frame of a transfer  *)
(* is the answer to that very frame.                                        *)
AckIsOfAwaitedFrame ==
    /\ ServerArriving({"waitHead", "waitData"})
    /\ Head(toServer).type = "ACK" /\ Head(toServer).seq = Awaited.seq
    => /\ Head(toServer).about[1] = Awaited.about[1]
       /\ Head(toServer).about[2] = Awaited.about[2]

(* As long as no file becomes unreadable midway, the numbers of a view and  *)
(* of the files around it get mixed up neither at the client nor at the     *)
(* server.                                                                  *)
WholeTransfersKeepApart ==
    "read" \notin faults => DataIsOfOpenTransfer /\ AckIsOfAwaitedFrame

(* The session is an exchange of moves and turns: whatever is lost, sent    *)
(* again or fails, the board the player looks at is up to date, each move   *)
(* is played once, and a file is stored before it counts as delivered.      *)
Exchange == INSTANCE TurnExchange WITH
    stored <- gotFiles, confirmed <- sentFiles,
    playing <- {who \in {"player", "referee"} :
                    \/ who = "player" /\ cPhase \notin {"ended", "failed"}
                    \/ who = "referee" /\ sPhase \notin {"ended", "failed"}}
ImplementsExchange == Exchange!ExchangeSpec

(* Neither side gives the session up: game_session.h has both return 1 for  *)
(* an unrecoverable error only.                                             *)
NothingFails == sPhase # "failed" /\ cPhase # "failed"

(* Losses and timeouts alone, with files that can all be read, make neither *)
(* side give the session up.                                                *)
LossesFailNothing == faults = {} => NothingFails

(* After a move the next view, or the end of the game, arrives.             *)
ViewArrives ==
    cPhase \in {"waitMove", "idle", "view", "file"} ~> cPhase \in {"input", "ended"}

(* END is acknowledged once and whoever acknowledges it leaves: a side that *)
(* asks for the end returns if the link loses nothing from then on and the  *)
(* other side is still there.                                               *)
EndIsAnswered ==
    /\ /\ ~lossy /\ cPhase = "waitEnd" /\ sPhase \notin {"ended", "failed"}
       ~> cPhase = "ended"
    /\ /\ ~lossy /\ sPhase = "waitHead" /\ Head(jobs) = "END"
       /\ cPhase \notin {"ended", "failed"}
       ~> sPhase = "ended"
=============================================================================
