------------------------------- MODULE MCParts -------------------------------
(***************************************************************************)
(* The parts of the program that have a state of their own, one of them at *)
(* a time: the start of the program, the loading of the map, the handshake,*)
(* the keyboard, the wait for a frame, the timers of a transfer, the ping   *)
(* tool, and the three codecs.                                             *)
(***************************************************************************)
EXTENDS Startup, MapLoading, Handshake, Keyboard, RawLink, MCTimedTransfer,
        FramePing, FrameCodec, TransferCodec, ViewCodec

VARIABLE part       \* the one that works

-----------------------------------------------------------------------------
(* Frames: every type and number without data, every length of DATA, *)
FrameOf(s, t, d) == [sequence |-> s, type |-> t, data |-> d]
Ramp(n) == [i \in 1 .. n |-> (37 * i) % 256]

AllShapes ==
    {FrameOf(s, t, << >>) : s \in 0 .. 63, t \in KnownTypes}
    \cup {FrameOf(s, 4, Ramp(n)) : s \in {0, 7, 8, 63}, n \in 1 .. 31}

(* and, where every bit is flipped: frames without data, full and shorter   *)
(* chunks, a start frame, and one byte of data with each value, one of      *)
(* which is the CRC of the frame without it.                                *)
Flippable ==
    {FrameOf(s, t, << >>) : s \in {0, 5, 63}, t \in {0, 1, 10, 16}}
    \cup {FrameOf(21, 4, Ramp(n)) : n \in {2, 16, 30, 31}}
    \cup {FrameOf(9, 5, <<1, 4, 0, 0, 2, 88>>)}
    \cup {FrameOf(33, 4, <<b>>) : b \in Byte}

(* Messages: the view of the program, small sizes around a whole number of  *)
(* chunks, sizes that use each byte (the numbers of TLC end below 2^31), and*)
(* what must not be sent.                                                   *)
Message(t, f, w, n) ==
    [type |-> t, file_id |-> f, window_size |-> w, total_bytes |-> n]

BoundaryMessages ==
    {Message("VIEW", 0, 1, n) : n \in 0 .. 100 \cup {800}}
    \cup {Message(t, f, w, n) : t \in {"FILE_TXT", "FILE_MP4"},
              f \in {0, 1, 7, 8}, w \in {0, 1, 30, 31}, n \in {1, 31, 32, 300}}
    \cup {Message("FILE_JPG", 3, 16, n) : n \in {255, 256, 65536, 16777216, 2147483616}}

(* Views: every pair of cells, in the first byte and in the second, and     *)
(* what is no view; bytes that no view is packed into, each value among     *)
(* them, and too few or too many.                                           *)
CellSymbols == {Alphabet[i] : i \in 1 .. Len(Alphabet)}
PairsOfCells ==
    {<<a, b, "0", "X">> : a, b \in CellSymbols}
    \cup {<<"masked", "6", a, b>> : a, b \in CellSymbols}
    \cup {<<"P">>, <<"P", "0", "0", "0", "0">>, <<"P", "0", "0", "7">>}
OtherMessages ==
    {<<b, 1>> : b \in 0 .. 255} \cup {<<1, b>> : b \in 224 .. 255}
    \cup {<<1>>, <<1, 1, 1>>}

-----------------------------------------------------------------------------
(* Maps of 3 x 3 cells with PacMan in the corner: five cells are out of the *)
(* padding.  Whole ones, one with too many walls, two of one ghost, and one *)
(* defect of each kind.                                                     *)
Row(symbols) == [symbols |-> symbols, ending |-> "newline"]
MapOf(lines) == [opens |-> TRUE, lines |-> lines, broken |-> FALSE]

SmallElements == <<"R", "B", "1">>
TopRow == Row(<<"P", "0", "1">>)
MidRow == Row(<<"X", "R", "0">>)
LowRow == Row(<<"0", "0", "R">>)
WallRow == Row(<<"X", "X", "X">>)

SmallMaps ==
    {MapOf(<<TopRow, MidRow, LowRow>>), MapOf(<<LowRow, TopRow, MidRow>>),
     MapOf(<<TopRow, MidRow, WallRow>>), MapOf(<<TopRow, WallRow, LowRow>>),
     [MapOf(<<TopRow, MidRow>>) EXCEPT !.broken = TRUE],
     [MapOf(<<TopRow, MidRow, LowRow>>) EXCEPT !.broken = TRUE],
     [MapOf(<< >>) EXCEPT !.opens = FALSE],
     MapOf(<<TopRow, MidRow>>), MapOf(<<TopRow, MidRow, LowRow, LowRow>>),
     MapOf(<<TopRow, MidRow, TopRow>>), MapOf(<<LowRow, MidRow, LowRow>>),
     MapOf(<<TopRow, Row(<<"X", "R">>), LowRow>>),
     MapOf(<<TopRow, Row(<<"X", "R", "0", "0">>), LowRow>>),
     MapOf(<<TopRow, Row(<<"X", "Z", "0">>), LowRow>>),
     MapOf(<<TopRow, MidRow, [LowRow EXCEPT !.ending = "separator"]>>),
     MapOf(<<[TopRow EXCEPT !.ending = "carriage return"], MidRow, LowRow>>)}

(* Configuration files: none, whole ones, one with a line that cannot be    *)
(* read after good ones, a number out of range, a key twice, a seed without *)
(* bit flips, a map of blanks, and one that breaks off.                     *)
File(lines) == [opens |-> TRUE, lines |-> lines, broken |-> FALSE]
Line(k, v) == [key |-> k, value |-> v]

SmallFiles ==
    {[File(<< >>) EXCEPT !.opens = FALSE],
     File(<<Note, Line("role", "cliente"), Line("window", 3),
            Line("map", Padded("m")), Line("interface", Text("e")),
            Line("percent", 50), Line("seed", 7)>>),
     File(<<Line("window", 3), Unreadable>>),
     File(<<Line("percent", 50), Line("window", MaxWindow + 1)>>),
     File(<<Line("seed", 7), Line("window", 3), Line("window", 4)>>),
     File(<<Line("role", "cliente"), Line("map", Padded(""))>>),
     [File(<<Line("role", "cliente"), Line("window", 3)>>) EXCEPT !.broken = TRUE]}

NoArguments == [role |-> NoRole, map |-> NoText, interface |-> NoText]
SomeArguments ==
    {NoArguments,
     [role |-> "cliente", map |-> Padded(""), interface |-> Text("e")],
     [NoArguments EXCEPT !.map = Text("long")]}

SomeAnswers ==
    [role |-> {"cliente", "serv"}, window |-> {30, MaxWindow + 1},
     map |-> {Padded("m"), Padded("")}, interface |-> {Padded("e"), Text("long")},
     percent |-> {0, MaxPercent + 1}, seed |-> {70, NotSet}]

-----------------------------------------------------------------------------
(* A part that does not work has nothing to do. *)
NoStart ==
    /\ disk = "none" /\ arguments = "none" /\ cfg = "none" /\ next = "none"
    /\ lineNumber = 0 /\ step = "none" /\ exitCode = 0 /\ starts = 0 /\ edits = 0
    /\ saved = {}
NoMap ==
    /\ mapFile = "none" /\ isDefault = FALSE /\ loading = "none" /\ rows = << >>
    /\ pacmanCount = 0 /\ pacmanAt = <<1, 1>> /\ grid = << >>
    /\ candidates = {} /\ placed = 0 /\ ghostAt = << >>
NoHandshake ==
    /\ server = "failed" /\ attempt = 0 /\ peer = NoPeer
    /\ client = [c \in Clients |-> "listening"]
    /\ inits = [c \in Clients |-> 0] /\ acks = << >> /\ answered = {}
NoKeyboard ==
    /\ input = "none" /\ waiting = << >> /\ keys = 0 /\ terminal = "cooked"
    /\ reading = "none" /\ text = << >> /\ played = NoCommand
NoWait ==
    /\ socket = << >> /\ now = 0 /\ waitAt = "done" /\ deadline = 0
    /\ remaining = 0 /\ innerDeadline = 0 /\ frame = "none" /\ missed = 0
    /\ received = "none"
NoTransfer ==
    /\ windowSize = 0 /\ sndPhase = "complete" /\ rcvPhase = "idle"
    /\ ending = "complete" /\ toRcv = << >> /\ toSnd = << >>
    /\ sndBase = 0 /\ sndNext = 0 /\ inUse = {} /\ acked = {} /\ resend = {}
    /\ rcvBase = 0 /\ ring = << >> /\ since = 0 /\ recent = {} /\ written = << >>
    /\ sndLeft = 0 /\ sndErrors = 0 /\ rcvLeft = 0 /\ rcvErrors = 0 /\ losses = 0
NoPing ==
    /\ mode = [m \in Machines |-> "none"] /\ count = 0 /\ at = "none" /\ pings = 0 /\ ok = 0
    /\ result = 0 /\ inbox = << >> /\ reported = {} /\ reached = {}
NothingSent ==
    /\ sent = NoFrame /\ faulty = FALSE /\ wire = << >>
    /\ flipped = FALSE /\ padded = FALSE /\ outcome = "none" /\ got = NoFrame
NoMessage ==
    /\ message = "none" /\ base = 0 /\ stage = "none" /\ payload = << >>
    /\ parsed = "none" /\ index = 0 /\ receivedBytes = 0
    /\ expectedSequence = 0 /\ taken = NoChunk
NoCells == cells = << >> /\ packed = << >> /\ shown = << >> /\ refused = FALSE

PartsInit ==
    /\ part \in {"start", "map", "handshake", "keyboard", "wait", "timed",
                 "ping", "frame", "transfer", "view"}
    /\ IF part = "start" THEN StartupInit ELSE NoStart
    /\ IF part = "map" THEN MapInit ELSE NoMap
    /\ IF part = "handshake" THEN HandshakeInit ELSE NoHandshake
    /\ IF part = "keyboard" THEN KeyboardInit ELSE NoKeyboard
    /\ IF part = "wait" THEN LinkInit ELSE NoWait
    /\ IF part = "timed" THEN BothInit ELSE NoTransfer
    /\ IF part = "ping" THEN PingInit ELSE NoPing
    /\ IF part = "frame" THEN CodecInit ELSE NothingSent
    /\ IF part = "transfer" THEN TransferInit ELSE NoMessage
    /\ IF part = "view" THEN ViewCodecInit ELSE NoCells

OthersWait(p) ==
    /\ part = p /\ UNCHANGED part
    /\ p # "start" => UNCHANGED startupVars
    /\ p # "map" => UNCHANGED mapVars
    /\ p # "handshake" => UNCHANGED handshakeVars
    /\ p # "keyboard" => UNCHANGED keyboardVars
    /\ p # "wait" => UNCHANGED linkVars
    /\ p # "timed" => UNCHANGED bothVars
    /\ p # "ping" => UNCHANGED pingVars
    /\ p # "frame" => UNCHANGED codecVars
    /\ p # "transfer" => UNCHANGED transferVars
    /\ p # "view" => UNCHANGED viewCodecVars

PartsNext ==
    \/ OthersWait("start") /\ StartupNext
    \/ OthersWait("map") /\ MapNext
    \/ OthersWait("handshake") /\ HandshakeNext
    \/ OthersWait("keyboard") /\ KeyboardNext
    \/ OthersWait("wait") /\ LinkNext
    \/ OthersWait("timed") /\ BothNext
    \/ OthersWait("ping") /\ PingNext
    \/ OthersWait("frame") /\ CodecNext
    \/ OthersWait("transfer") /\ TransferNext
    \/ OthersWait("view") /\ ViewCodecNext

partsVars == <<part, startupVars, mapVars, handshakeVars, keyboardVars, linkVars,
               bothVars, pingVars, codecVars, transferVars, viewCodecVars>>

PartsSpec ==
    /\ PartsInit /\ [][PartsNext]_partsVars
    /\ HandshakeFairness /\ LinkFairness /\ BothFairness
=============================================================================
