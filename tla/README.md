# A formal model of the PacMan file-transfer game

The repository is a two-machine PacMan game for a computer-networks course. A
server keeps the board; a client shows it and sends moves. They talk over raw
Ethernet frames with a protocol of their own (`src/` is the repository root, so
the implementation is under `src/src/` and `src/include/`). Eating a pellet, or
being caught by a ghost, sends the player a file. The link may lose frames, and
the protocol has to deliver views, files and moves in spite of that.

This directory holds TLA+ modules that model the program, TLC configurations
that check them on small instances, and proofs checked by TLAPS: of the sliding
window, the messages of a turn, the game session, map loading, the board, what the player is shown, and the
small parts (handshake, wait for a frame, link test tool, keyboard, codecs), each for every
value of its constants that the named assumption of its module admits (section 4).
Where an assumption is narrower than the code, section 4 says so.

## 1. Inventory

| Component | Code | State | Operations | Talks to |
|---|---|---|---|---|
| Sliding window | `reliable/window.c` | sender: base, next, 30 slots with `in_use`/`acked`; receiver: base, ring of 30 slots | queue, ACK, NACK, slide; accept, deliver, cumulative sequence | called by the session's loops on both sides |
| Transfer loops | `app/game_session.c` 331-564, 745-1192, 1342-1654 | `server_sequence`, `delivered_since_feedback`, `recent_file_data`, error counters | start frame and its ACK, send loop, receive loop, read errors, late duplicates | window, fragmentation, I/O |
| Timers | `app/game_session.c` 183-270 | `consecutive_errors` of each side | adaptive timeout, back-off, shorter wait of a file receiver | the transfer loops |
| Game session | `app/game_session.c` 1656-2226 | `last_client_sequence`, `move_sequence`, `last_view_data_sequence` | server loop, client loop, move/END exchange, view reception | everything |
| Map loading | `domain/map.c` | cells, candidates, PacMan, ghosts | read a file line by line, place the elements of the default map at random, look the actors up | before the session |
| Board | `domain/map.c`, `domain/movement.c` | cells, PacMan, four ghosts (position, direction, symbol under it) | PacMan's move, each ghost's rule, contact | the session plays one turn per move |
| Failed pellet | `app/game_session.c` 60-181 | one record: active, position, cell | remember, clear, put back, overlay on the view | board, view |
| Visibility | `domain/visibility.c` and the growth in `game_session.c` | cells seen, view size, accepted moves | mask the map in three modes, grow | board, view codec |
| Handshake | `transport/net_handshake.c` | attempts, peer MAC | INIT broadcast, wait for an ACK, answer once | before the session |
| Frame codec | `protocol/frame_codec.c`, `frame.c` | none | 26-bit header (marker, length, number, type), CRC-8, length checks | raw Ethernet |
| Fragmentation | `protocol/fragment.c` | reassembly: bytes received, expected number | start frames, chunk lengths, DATA frames, accepting chunks | transfer loops |
| View codec | `app/game_session_view_codec.c` | none | two cells per byte | session |
| Fault injection | `transport/net_fault_injection.c` | settings | flips one bit of a frame to be sent | raw Ethernet |
| Frame I/O | `app/game_session_io.c` | the deadline of a wait | send, receive with timeout, filter by peer and CRC, ACK/NACK/ERROR | raw Ethernet |
| Raw Ethernet | `transport/raw_eth.c` | a socket, the deadline of a call | send with padding, poll and receive, drop what is for others | the network |
| File table | `file/file_transfer.c` | a table | the file of a cell, and of a start frame | transfer loops |
| Configuration | `app/config.c` | the settings, the file on disk | defaults, load, check, save | program entry |
| Program entry | `main.c` | the settings being edited | arguments, prompts, save, start of a session | configuration, map, handshake, session |
| Keyboard | `ui/game_view.c` 54-197 | terminal mode, text read | read a key in raw mode, translate it | client loop |
| Link test tool | `tools/raw_frame_ping.c` | pings sent, pongs counted | ping, listen and answer | raw Ethernet |
| Terminal view, log, viewer and directories, interface listings | `ui/`, `file/`, `net_diag.c`, `tools/raw_socket_capability.c` | local | output and system calls | - |

The programs are single threads that block in a receive or a read. All
concurrency is between the two machines, the frames in flight between them, the
player who types, and what a stopped program leaves on disk. What is hard:

* **Sequence numbers are six bits.** Every frame, of every message, takes its
  number from one circular space of 64. ACKs, NACKs and duplicates are
  recognised by number only, so the safety of everything rests on old frames
  being gone, or recognisably old, when their number comes round.
* **Confirmation is implicit.** A NACK of chunk *i* confirms those before *i*;
  an ACK covers all up to its number; some frames (ERROR, the ACK of END, the
  ACK of the handshake) are sent once and confirmed by nobody.
* **The two sides time out independently**, and any frame of the peer restarts
  the whole wait of a transfer.
* **One message follows another without a pause**, so copies of the last
  message meet the first frames of the next, in both directions.
* **Either side's files, disk or interface may fail midway**, with the other
  side in any phase.
* **The positions of the actors are stored twice**, in the grid and in the actor
  records, and each move has to keep the two in step.
* **Keys are typed while nobody reads them**, and an arrow is three bytes.
* **The settings file is overwritten in place**, and the next start reads what a
  failed save left.

What makes each part right:

* *window*: chunks are written in order, each once; the sender frees only
  chunks that were written; slots never leak; both ends return.
* *session*: a move is chosen on the current view and played once; a file is
  stored before the server knows it to be, and before the view of its turn; frames of
  different messages are never confused; neither side gives up because of
  losses; both return when one leaves.
* *map and board*: a map that is loaded can be played; the grid agrees with the
  actors, pellets are conserved, contact is never missed, ghosts keep their rules.
* *view*: only truth is shown, explored cells stay shown, growth ends.
* *handshake*: a server that starts has a client that plays.
* *receive*: a call ends in time whatever arrives, and hands on every frame of
  the peer and no other.
* *settings*: all of a file or the defaults; what is saved is loaded.
* *keyboard*: the terminal is restored on every path; a move is that of a key.
* *codecs*: decoding inverts encoding; both ends agree on lengths.

`PROJECT.json` lists the hazards line by line with the properties that watch
each of them.

## 2. The modules

    SequenceSpace            the circular numbers
     |-- WindowTransfer      sending a message m: both windows, both loops, the link
     |    |-- WindowInvariant   the inductive invariant
     |    |    `-- MessageTransfer   one message, sent once
     |    |         |-- InOrderDelivery   (INSTANCE) what the transfer promises
     |    |         |-- TimedTransfer     the same with timers
     |    |         `-- WindowTransferProofs   the theorems
     |    `-- TurnTransfers     the messages of a turn, one after the other
     |         |-- TurnDelivery      (INSTANCE) what they promise: one delivery after the other
     |         `-- TurnInvariant     with WindowInvariant, its inductive invariant
     |              `-- TurnTransfersProofs   with WindowTransferProofs, the theorems
     `-- GameSession         a whole game: many messages, moves, END, ERROR, faults
          |-- TurnExchange      (INSTANCE) what a session promises
          `-- SessionInvariant  the inductive invariant
               `-- GameSessionProofs       types, transfers, losses
                    `-- SessionMovesProofs    moves, and the refinement of TurnExchange
    GameBoard                turns of PacMan and the ghosts, the failed pellet
     |-- GameView            what the player is shown
     `-- GameBoardProofs     theorems about the board
          `-- GameViewProofs    and, with GameView, about the view
    Configuration            the settings and their file
     `-- Startup             the program, start after start
    MapLoading               from the map file to the first board
     `-- StartProofs         theorems about Startup and MapLoading
    Handshake                before the session
    RawLink                  one wait for a frame
    FramePing                the link test tool on two machines
    Keyboard                 one command from what was typed
    TransferCodec, ViewCodec    start frames and chunks; the cells of a view
    FrameCodec               a frame and its bytes
     `-- PartsProofs         theorems about these seven

The `MC*` modules give the instances that need definitions (maps, files, frames,
sizes, turn plans). `MCTimedTransfer` instantiates TimedTransfer twice, with a
window of one and of two, and each behaviour is one of the two; it is a part of MCParts. `MCParts` puts the
parts that do not interact side by side: in each behaviour one of them, `part`,
works and the others have nothing to do. Operators introduced by
`(* Mutant: ... *)` are deliberate faults, each written before the definition it
would replace; no specification uses them. `PROJECT.json` pairs each with the
property that notices it, which shows that no checked property is vacuous.

### WindowTransfer and MessageTransfer

What both sides do to send a message, file or view. The message is a parameter `m`
of every operator, as it is of the code's functions: the number of its start
frame, its chunks, its window, the length of its last chunk. `MessageTransfer` sends
one, the constant `Message`, over a link with nothing else on it; `TurnTransfers`
sends one after the other. The sender's `sndPhase` is its place in
`send_fragmented_data_and_wait_ack`; `sndBase`, `sndNext`, `inUse`, `acked` are
the fields of `NetWindowSender` (`inUse` as the set of chunks that hold a slot).
The receiver's `rcvBase` and `ring` are those of `NetWindowReceiver`; `since`
is `delivered_since_feedback` and `recent` is `recent_file_data`. The actions
are the code's steps:

| Action | Code |
|---|---|
| `SendStart`, `StartTimeout`, `ReceiveStartControl` | `send_fragment_frame_and_wait_ack` |
| `QueueChunk`, `ReadError` | the queueing loop, with a source that can fail to be read |
| `ReceiveAck`, `ReceiveNack`, `IgnoreControl` | `net_window_sender_ack`, `_nack`, and frames that name nothing pending |
| `AckTimeout`, `Retransmit` | sending every pending frame again, one by one |
| `ReceiveStart`, `ReceiveError` | opening a reception, a repeated start, the sender's ERROR |
| `StoreChunk`, `DeliverChunks`, `ReceiveUnaccepted`, `ReceiveLateData`, `ReceiveTimeout` | `net_window_receiver_accept` and what the receive loop answers; the cache of recent numbers |

Each of the two links is a queue: a raw Ethernet link keeps the order. Any
frame may be lost when it is sent (`AfterSend`), which stands for loss on the
wire, a failed CRC and a full socket. Frames carry, beside the fields of the
code, the chunk they are about; it is auxiliary and no guard reads it.

### TimedTransfer

`MessageTransfer` with the two waits. Time is counted in ticks of 50 ms and
passes only while nothing is in flight, because a frame needs far less than a
tick on a local link. Timeouts follow `game_session_timeout_ms` and
`game_session_file_receive_timeout_ms`; each frame read restarts the wait in
full, as in the code.

### TurnTransfers

The messages a turn makes the server send, one right after the other: files with
their windows, the view with a window of one. `todo` has those that are left; the
first of them, `Current`, is sent by the steps of `WindowTransfer`, with a start
frame numbered `first`, which `NumbersOf` moves on as the code moves
`server_sequence`. Frames of earlier messages stay on both links and may meet the
next one. The chunk each of them is about, which no guard reads, is then counted
back from the next start frame (`Aged`): the start frame is chunk -1, so -2 is the last
chunk of the message before, and `SeqOf` gives every frame its number. A file that
cannot be opened is one ERROR frame (`FileMissing`), before which the receiver may
still read old frames (`OldFrameArrives`). A turn ends with a source that becomes
unreadable, because what follows leads to the disagreement `mixed_data`.
`TurnFits` bounds how many files are missing in a row; the program has two in a turn
at most, and 33 would do.

`TurnDelivery` is what the transfers of a turn promise together, without frames, numbers
or losses: a message is opened once, written chunk by chunk up to the last,
confirmed only as far as it is written, and the next begins only when it is whole
(`Open`, `Write`, `Confirm`, `GiveUp`, `Break`, `GoOn`). Opening truncates the file in the
code, so opening again would destroy it. The refinement maps the receiver's phase and
outcome to `reception`, `sndBase` to `confirmed` and the sender's phase to `report`.

### GameSession and TurnExchange

The two main loops, with all control flow of a game: the view, the move, its
ACK, the files of a turn, END from either side, ERROR frames, copies of each.
The turn itself is abstracted to what it makes the server send (`TurnPlans`:
a view, a file and a view, a file and END, ...), since the protocol sees no more
of it. Windows are one here (always so for a view, allowed for a file);
larger windows are the subject of WindowTransfer and TurnTransfers. Each frame carries what it is about
as auxiliary data. `faults` says what may go wrong in a behaviour: the server's
files cannot be opened (`unavailable`), or become unreadable midway or cannot be closed
after the last chunk was confirmed (`read`: `FileReadError`, `FileCloseError`); the
client's disk refuses a file, a chunk, or the closing of a complete file
(`disk`); an interface goes down, and the next call on it ends that program with
nothing sent (`interface`).

`TurnExchange` is what a session promises, without frames, numbers or losses:
`Choose`, `Play`, `Store`, `Confirm`, `Show`, `Leave`. `GameSession!Exchange` is
the refinement mapping: moves, turns and the view shown are the session's own,
stored files are `gotFiles`, confirmed ones `sentFiles` (those whose last chunk was
acknowledged, also if closing them then fails), and whoever has
not ended or failed is still there. A step of the session is one of the
exchange's (the last DATA frame of a view is `Show`, the last ACK of a file
`Confirm`, ...) or a stutter.

### MapLoading, GameBoard and GameView

`MapLoading` reads a map's rows with every check of `game_map_load`, clears and
places the elements of the default map (each on any candidate, since the
program draws it at random), and looks up the actors. `GameBoard` starts from any of
a set of such maps and plays turns: PacMan's move, the four ghosts in order with
their four rules (including the dead-end turn and the random choices, which are
nondeterministic), the meeting of PacMan and a ghost in either order, and the
failed pellet's record. Of two ghosts of one symbol only the last in reading order moves
(`LastOf`); the other's symbol stays where the map has it, and `CellsShowActors` admits no other
symbol without its ghost (`IsTwin`). `GameView` extends each turn with the mask in the
three modes, the cells seen, the view's growth, and the overlaid pellet.

### Configuration and Startup

`Configuration` has the settings, the lines of their file, what each key takes
and how settings are saved. `Startup` is `main`: arguments, loading, overrides,
prompts, saving, the order of a session's start, and the exit code of each failure.
The file outlives the program; a save may be cut at any point (`CutFiles`) by a
full disk or a killed program, and `StartAgain` reads what is left. After a cut the line it
went through may still read well, with a value nobody chose; `SavedIsLoaded` says that
this is the only setting that is neither the saved value nor the default. One ranged number
(`window`) stands for the others and for `game_mode`, which are handled alike;
an argument given as an empty text counts as not given.

### Handshake

A server that broadcasts, several clients that each answer once, and clients
that play already and drop further INITs. Either side's socket may fail to open, send or
receive (`ServerFails`, `ClientFails`), which ends that side at once. When two clients
answer, the server plays with the one whose ACK it reads first; the other one plays with
nobody, because nothing in the code would tell it.

### Keyboard

`ui_game_view_read_key` byte by byte: raw mode, the timed reads after an escape,
the text's limit, the restoring of the terminal; a line at a time when the
input is no terminal. Each way out has its own action: before raw mode is on
(`NothingToRead`), at the first byte (`FirstReadEnds`), after an escape whose timeout cannot
be set (`TimeoutNotSet`), during the timed reads (`MoreReadFails`, `EndOfText`), and after a key
(`ReadFirst`). The `tcsetattr` that restores the terminal, whose result the code ignores, is taken
to succeed. The player types at any time. Each waiting byte carries, as
auxiliary data, the key it is of.

### RawLink

One call of `game_session_io_receive_peer_frame` with the calls of
`raw_eth_recv` it makes: the deadline of each, poll, interruption, failure, and
the two filters. Frames of all kinds arrive without end; time passes between any
two steps, up to `MaxDelay` ticks where the code reads the clock twice.

### FramePing

`raw_frame_ping` on two machines, either of which pings or listens. Frames are
lost or delayed, so a pong may come when the pinger has gone on. The number in a frame has
two bytes and `--count` may be larger (up to `INT_MAX`): pings further apart than the number
space share a number. `ReportsAreTrue` says what is left then - a reported pong answers that
ping or an earlier one of its own with the same two bytes, and success still means that all
were answered, because one wait that times out already rules success out - and that it is that
very ping while the numbers suffice.

### Codecs

`FrameCodec` models encoding, the CRC-8, padding to the Ethernet minimum,
decoding, the length checks per type and the injected bit flip, bit by bit.
`TransferCodec` models start frames, chunk lengths, the reassembly with chunks
lost and repeated, and the file table; `ViewCodec` the packing of cells, with the cells, codes and
lengths that either function refuses. They are
checked as functions: the state holds the value under test. The functions of the
reassembly are called by nothing in `src/`; their sender is taken to be one of the
windows' senders, which is at most a window of 30 from the chunk awaited (`InReach`). Further
away, 64 chunks, a chunk would be accepted in the place of another.

## 3. The runs

Runs expected to pass:

| Run | Module | Properties | What it shows |
|---|---|---|---|
| `window` | MCWindowTransfer | WrittenInOrder, ConfirmedIsWritten, ControlIsUnderstood, DataIsUnderstood, NoSlotLeak, LateDataIsAnswered, NeverReopened, ImplementsDelivery | one message with window two and four numbers: every number is reused, and `2W = N` is the tightest space allowed |
| `turns` | MCTurnTransfers | MessagesKeepApart, ImplementsTurnDelivery | turns of two to four messages, among them a missing file, with windows two and one and four numbers, on a link that loses frames: frames of one message are not taken for another's, and the transfers are one delivery in order after the other |
| `session` | MCGameSession | SessionInv, OneTurnPerMove, ImplementsExchange, WholeTransfersKeepApart, LossesFailNothing | a game of three moves with unlimited losses, timeouts at any time, faults of files, disk and interfaces, a player who may leave; SessionInv is the invariant of the proofs and has the types |
| `session_live` | MCGameSession | ViewArrives, EndIsAnswered | the next view, or the end, follows every move; END is answered, or the one to answer it has gone |
| `game` | MCGame | CellsShowActors, GhostsApart, ContactEndsGame, PelletsConserved, TurnsBackInDeadEnds, ViewIsTheBoard, ExploredStaysShown, GrowthIsBounded | every play on four boards, in three visibility modes |
| `parts` | MCParts | SettingsAreWhole, SavedIsLoaded, MapIsPlayable, PeerIsPlaying, ServerStops, TerminalRestored, OnlyPeerFrames, ReceiveReturns, TransferEnds, ReportsAreTrue, RoundTrip, FlipOnlyShortens, StartIsUnderstood, ReassemblyRebuilds, ViewSurvives | the parts of MCParts, one at a time; the properties of the parts that rest hold trivially in a behaviour, those of the one that works are what is checked. A transfer with timers ends with window one, where both sides wait equally long, after four losses of any frame; with window two after three losses of start, DATA or NACK frames and a source that may become unreadable |

**Bounds, and why they are enough.**

* *Sequence space.* 64 numbers and windows up to 30 become 4 and 2, with more
  chunks than numbers, so that every number stands for two chunks and window and
  space touch (`2W = N`). The code has 2·30 < 64, which is looser. The proofs
  cover all values.
* *Links* hold three frames, which suffices for old copies to follow new frames by
  more than a window. Those of the timed transfers hold eight; that is never reached.
* *Messages.* Six chunks let a window of two move over the whole space.
* *Messages of a turn.* Up to four messages of up to five chunks, with windows of two
  and one, in a space of four numbers: old copies meet each kind of message, and every
  number is used again. Links hold three frames.
* *Sessions.* Views and files of two chunks in a space of eight; three moves let
  the copies of a turn meet the turn after next. A behaviour has no faults, or any
  of two combinations of them, each of which may happen at any moment or never.
* *Timed transfers.* Three or four losses; a transfer has at most five chunks, so each
  phase of it can suffer several. Error counters stop at 25, where the timeout
  has long reached its maximum.
* *Boards* of twelve cells hold each kind of ghost, walls, dead ends, several
  pellets, two ghosts of one symbol. A view of size one grows every third move
  until it covers the board.
* *Start of the program.* Two starts, one of which may edit and save: the second
  reads what the first left. The files are whole ones and one with each defect;
  each prompt has a good and a bad answer.
* *Maps to load* have 3 x 3 cells, a padding of one and three elements: with
  PacMan in the corner five cells are candidates, with a row of walls too few.
* *Keys.* Three keys of any kind, or sixteen bytes at most, in a text of eight:
  arrows fill it. The run `split_key` has the program's text of 32 and eleven keys.
* *Waiting.* A timeout of three ticks, a socket of two frames, a delay of one tick.
* *Pings.* Counts of none, two and three in a space of two numbers with two
  frames under way: a late pong meets every later ping, and the third ping has the
  number of the first.
* *Handshake.* Two clients, three broadcasts, sockets of two frames, a failure of either
  side's socket at any moment.
* *Codecs.* All shapes of frames, every single flipped bit of representative ones;
  views with a cell or a length that is refused, and bytes with unknown codes;
  sizes around every boundary, up to 33 chunks, more than the 30 the sender may be
  ahead, from the base numbers 0 and 50 (the second passes the end of the space); all pairs of cells. Sizes stop at
  2147483616, below TLC's largest integer; the code's are 32 bits unsigned.

**Deadlock** is checked for a transfer (`window`), which has an explicit step for
"both ends have returned". `CHECK_DEADLOCK FALSE` stands where the program really
stops: the last message of a turn is complete, a game ends, a session returns, a handshake or a wait finishes, a program
exits for the last time, and a codec has one value to convert.

**Fairness.**

* `TimedSpec` (and `BothFairness` of `MCTimedTransfer`, its two instances) has weak
  fairness of the whole next-state relation: both programs are loops that run,
  and time passes. Losses are finite by the bound, not by fairness.
* `FairSession` has weak fairness of each side's reading and sending, since each
  is a process the operating system schedules; weak fairness of `Stabilise`, from
  which on the link loses nothing, since no protocol survives a link that loses
  everything; and strong fairness of the timeouts. The last is due to the
  abstraction: without clocks one side's timeouts could always come before the
  other's wait is over, and the code's back-off (checked by `TransferEnds`)
  excludes that. The player has no fairness: a player may think for ever.
* `HandshakeFairness` is weak fairness of each process. The server stops whatever
  is lost, because its broadcasts are counted.
* `LinkFairness` is weak fairness of the program and of the clock. Nothing is
  assumed of the link: frames of others may arrive for ever, and the call ends.

### Where code and documentation disagree

Six runs end in a counterexample. Each checks one property that a document, a
header or the assignment's text (`T1_Redes1.pdf`) states.

| Run | Property | What happens |
|---|---|---|
| `lost_ack` | UnansweredIsSentAgain | One ACK of a start frame is lost, with a window of two or more. The receiver already asks for DATA 0 every 50 to 100 ms. Each of these NACKs is ignored, yet restarts the sender's wait of 200 ms, so the start frame is never sent again and the transfer hangs. |
| `move_collision` | OneTurnPerMove | A move is a copy if its number equals the last one's. When the messages of a turn use a multiple of the sequence space the next move is acknowledged and not played. |
| `unavailable_file` | NothingFails | The ACK of a move is lost and the file of the turn does not exist: the ERROR frame about the file reaches the client in its wait for that ACK and makes it exit. |
| `mixed_data` | DataIsOfOpenTransfer | After a read error the DATA frames sent are not counted in `server_sequence`, so the next start frame has the number of an old DATA frame, and data of one message are taken for the other's. |
| `split_key` | MovesAreKeys | Eleven arrows are typed while the client waits: the text is full after ten and the escape of the eleventh, whose last letter is then read as a key of its own: left becomes right. |
| `handshake_lost_ack` | AnAnswerConnects | The client's only ACK is lost: it plays with nobody, while the server gives up. |

The passing runs exclude exactly these cases: with a window of two no ACK is
lost in `TransferEnds`; `LossesFailNothing` and `WholeTransfersKeepApart` of `session`
speak of sessions without faults and without read errors, while `OneTurnPerMove` and `ImplementsExchange` hold with faults too; the
turns of `session` have no multiple of the space in their messages; and
`MovesAreKeys` is not among the properties of `parts`. What the passing runs show
holds under those restrictions, and the violation runs show that the restrictions
are needed.

One further situation is in the model and has no property, since the code makes
no provision for it: a client whose keyboard input ends leaves without END
(`CloseKeyboard`), and the server waits for ever. The ACK of END is sent once;
`EndIsAnswered` therefore speaks of a side that is still there on a link that
loses nothing any more. A map name of blanks can be saved and is then refused by
the next start, which returns every setting to its default; `SavedIsLoaded`
states it as it is.

## 4. What is proved

Eight modules hold proofs, for every value of the constants that satisfies the
named assumptions.

| Module | Theorem | States |
|---|---|---|
| WindowTransferProofs | `InductiveInvariant` | `Spec => []TransferInv` |
| | `TypeCorrect` | `[]TypeOK(Message)` |
| | `DeliveryInOrder` | `[]WrittenInOrder` |
| | `ConfirmationIsSafe` | `[]ConfirmedIsWritten` |
| | `ControlIsUnambiguous` | `[]ControlIsUnderstood` |
| | `DataIsNeverInvalid` | `[]DataIsUnderstood` |
| | `SlotsAreTheWindow` | `[]NoSlotLeak` |
| | `LateDataAnswered` | `[]LateDataIsAnswered` |
| | `ReceptionEndsOnce` | `NeverReopened` |
| | `ProtocolImplementsDelivery` | `ImplementsDelivery` (refinement of `InOrderDelivery`) |
| | `TimedIsATransfer` | `TimedSpec => Spec`, so the theorems above hold of the transfer with its timers |
| | `ReturnedEndsAgree` | `TimedSpec => [](BothReturned => EndsAgree)` |
| TurnTransfersProofs | `TurnInvariantHolds` | `TurnSpec => []TurnInv` (the other two rest on it) |
| | `TurnKeepsMessagesApart` | `[]MessagesKeepApart` |
| | `TurnImplementsDeliveries` | `ImplementsTurnDelivery` (refinement of `TurnDelivery`) |
| GameBoardProofs | `BoardInvariant` | `BoardSpec => []BoardInv` |
| | `ActorsAreShown` | `[]CellsShowActors` |
| | `GhostsStayApart` | `[]GhostsApart` |
| | `ContactIsNoticed` | `[]ContactEndsGame` |
| | `PelletsAreConserved` | `[]PelletsConserved` |
| | `TurningBackIsForced` | `TurnsBackInDeadEnds` |
| GameViewProofs | `ViewShowsABoardGame` | `ViewSpec => BoardSpec`, so the theorems above hold of the game with its views |
| | `ViewTypes` | `[]ViewTypeOK` |
| | `ViewsAreTrue` | `[]ViewIsTheBoard` |
| | `NothingIsHiddenAgain` | `ExploredStaysShown` |
| | `GrowthEnds` | `[]GrowthIsBounded` |
| GameSessionProofs | `SessionTypeCorrect` | `[]SessionTypeOK` |
| | `TransfersKeepApart` | `[]WholeTransfersKeepApart` |
| | `LossesAlone` | `[]LossesFailNothing` |
| SessionMovesProofs | `SessionKeepsInv` | `SessionSpec => []SessionInv` |
| | `MovesPlayedOnce` | `[]OneTurnPerMove` |
| | `SessionImplementsExchange` | `ImplementsExchange` (refinement of `TurnExchange`) |
| StartProofs | `LoadedMapsArePlayable` | `[]MapIsPlayable` |
| | `WholeSettingsAreUsed` | `[]SettingsAreWhole` |
| | `SavedSettingsAreLoaded` | `[]SavedIsLoaded` |
| PartsProofs | `ServerMeetsPlayer` | `[]PeerIsPlaying` |
| | `ServerRunsOut` | `[][MovesLeft' <= MovesLeft /\ (ServerMoves => MovesLeft' < MovesLeft)]_handshakeVars` (`MovesLeft` a natural number) |
| | `PeerFramesOnly` | `[]OnlyPeerFrames` |
| | `OverdueCallsReturn` | `[][Overdue => Overdue' /\ StepsLeft' <= StepsLeft /\ (ReceiveStep => StepsLeft' < StepsLeft)]_linkVars` |
| | `PongsAreOfTheirPings` | `[]ReportsAreTrue` |
| | `TerminalIsRestored` | `[]TerminalRestored` |
| | `ViewsArriveWhole` | `[]ViewSurvives` |
| | `StartsAreUnderstood` | `[]StartIsUnderstood` |
| | `ChunksComeTogether` | `[]ReassemblyRebuilds` |
| | `FramesArriveWhole` | `[]RoundTrip` |
| | `FlipsAreNoticed` | `[]FlipOnlyShortens` |

**The window.** Assumed is what the code checks or defines (`Messages`): a window in
1 .. `MaxWindow` and `2 * MaxWindow <= SeqSpace` (30 and 64; `net_window_*_init` check
the first), a base number in the space, at least one chunk, chunk lengths within
1 .. 31. The link's capacity is any natural number. What one wants, that chunks
are written in order and confirmations are true, is not inductive: a frame with an
old number could be anywhere. `IInv(m)` adds why old frames are harmless.

* `WindowsInv`: `sndBase <= rcvBase <= sndNext <= sndBase + window`, the slots in
  use are exactly `sndBase .. sndNext - 1`, and none of them stays marked.
* `PhaseInv`: how the phases go with the bases and the outcome.
* `RingInv`: a full slot of the ring holds a sent chunk of the current window, at
  its own index modulo the window.
* `WrittenInv`: what is written is `0 .. rcvBase - 1`.
* `ToRcvInv`: a DATA frame in flight is at most a window older than the
  receiver's base and than any chunk in its ring, and of two frames in the
  queue the later one is at most a window behind the earlier. So its number can
  only be its own among the `2W` numbers in play.
* `ToSndInv`: a control frame in flight confirms no more than was written, and
  the sender has not moved more than a window past the chunk it is about, nor
  will the frames before it in the queue make it do so.
* `OldFrame`: a frame of an earlier message is less than a whole turn of the numbers
  old and comes before every frame of this one, so the receiver reads it before the
  start frame, and the sender before the answer to it, whose number no old frame has.

Two arithmetical lemmas (`ModUnique`, `SeqUnique`) say that numbers less than
`SeqSpace` apart are told apart by their remainder. There is one lemma per
action (`QueueChunkStep`, `DeliverChunksStep`, ...), helped by lemmas on what
sending and reading do to the two queue invariants; `StepInv` collects them. The
refinement rests on two lemmas that say what a step is for the other side:
`SenderEffect` (some more chunks are confirmed, the transfer is given up, or nothing) and
`ReceiverEffect` (the message is opened, written on, broken off, or nothing).

**The timers.** No assumption on the constants of TimedTransfer is needed: any timeouts, any
back-off, any number of losses. Its steps are those of the transfer, chosen by the
clocks, or stutters (`TimedSenderStep`, `TimedReceiverStep`). `TransferEnds` says that both
loops return and then agree; that they agree is proved (`ReturnedEndsAgree`, with
`GivesUpEarly`: who gives up has chunks left, so the receiver cannot have them all).

**The messages of a turn.** Assumed (`TurnsAssumption`): any turns of any messages in
which files missing in a row leave `MaxWindow + 1` numbers (`TurnFits`). `IInv(m)` holds for
the message at hand with frames of earlier ones on the links, so what is proved
of one message holds of each (`MessageStepInv` cites `StepInv`). What is left is the
step to the next: a message that is complete leaves on the links only frames about
its last window (`CompleteFrames`), which become old frames with their numbers unchanged
(`SeqOfShifted`, `AgedFrames`), none of them a whole turn of the numbers old
(`RoomAfter`). In the place of a missing file both sides are idle
(`BetweenMessages`) and the frames grow older by one number; `NotTooOld` says that
those left have room for it. The refinement takes each step of the message at hand
by `SenderEffect` and `ReceiverEffect`, the same as for one message; the step to the next is
`GoOn` because a complete sender has a receiver that is done (`CompleteFrames`). The module reaches the constant `Message` of
MessageTransfer through the lemmas it cites; the turns do not speak of it.

**The session.** Assumed (`SessionConstants`): at least four numbers, any number of
chunks in a view and in a file, any of the turns the code can make, any faults, any
number of moves, a link of any length. With one frame awaited at a time, the client
is at the frame the server waits to see answered or at the one before, and what is
in flight are copies of these two. `SessionInv` says so:

* `JobsInv`: what is left of a turn fits the place of the server.
* `InStep`: one of four relations of the two programs holds while the client lives -
  `Between` messages, `HeadTaken` (it has the start frame, still sent again),
  `Inside` (both are at the same chunk), `ChunkTaken` (it has the chunk still sent
  again) - each with the DATA, START and ERROR frames that can then be in flight,
  and in which order (`LastOfAll`). `JustUsed` bounds how far numbers have moved since the
  last frame: by three, because two files of a turn may be missing; hence four numbers.
* `AcksInv`: an ACK with the awaited number is about the awaited frame, and the client
  then has it; every other ACK is about the frame before; `ErrorsInv`: who may
  have failed.
* `MoveInv`: where the number of the next move is ready (`FreshInv`), which number
  the last move played has (`PlayedInv`, `NumbersInv`), that MOVE frames in flight
  are of the move being played or of the last one (`MovesInv`), that the server's
  ACKs are of a move that was played and precede the DATA of its turn
  (`PlayedAcksInv`), who may leave (`LeavingInv`), and what each side has shown,
  stored and confirmed (`ShownInv`), from which the refinement follows.

The four parts of `InStep` are one case distinction of each step's lemma. `TransferInv`
(`InStep`, `AcksInv`, `ErrorsInv`) has the hypothesis that no source becomes
unreadable in the middle, without which it is false (`mixed_data`). `MoveInv` has in
addition `TurnsMoveOn`: none of V + 1, V + 2 and F + V + 2, for a view of V and a file of F
chunks, is a multiple of the space, without which a new move has the number of the last
(`move_collision`). With 64 numbers and a view of 26 chunks that excludes only
files whose chunks leave the remainder 36. Files that cannot be opened, a disk
that refuses, interfaces that go down and a player who leaves are all within
the theorems. The refinement maps `PressMove` to `Choose`, `ServerReadsNewMove` to
`Play`, the last DATA frame of a file to `Store` and its ACK to `Confirm`, the last
DATA frame of a view to `Show`, and each way of ending to `Leave`; every other
step is a stutter.

**The map.** Assumed (`MapConstants`): a map of any size, any files, any elements,
of which no two are alike and none is PacMan, a wall or a free cell. `MapInv`
says that the cells read are those of the rows read (`RowsInv`), that those rows
have no, one or more PacMen as `pacMen` counts (`PacManInv`), that each element placed
is in exactly one cell and every other not at all (`CellsInv`), and that the
ghosts looked up are where the cells show them (`GhostsInv`).

**The settings.** Assumed (`StartupConstants`): any files, arguments and answers,
any number of starts. `ReadingInv` says that the settings, after each line, are
what the lines so far say (`SaidBy`: the last value of each key), which
`SaidByOneMore` carries from one line to the next; a bad line returns them to the
defaults, and so does the end of a file that breaks off. `UsedInv` says that from
the check of the arguments on the settings are in their ranges and their names fit
their fields, in the copy that is edited too. `DiskInv` says that the file is the
one made of the settings last saved, unless a save was cut since; `SavedIsRead` computes what
is read from such a file, key by key. After a cut it is a file of whole lines that were saved and
at most one that was cut (`CutLineKeys`, `CutIsRead`): every key but that line's has the value saved,
or the default when its line is missing or a bad line spoils the file.

**The board.** Assumed (`BoardConstants`): a board of any size, any set of maps
over the game's symbols with one PacMan each - what `MapIsPlayable` says of a
loaded map. No property of the board is inductive alone, so they hold each other up.

* `ActorsInv`: types, `CellsShowActors`, `ContactEndsGame`, and `MeetingInv` (a
  turn begins, and a view is sent, only while nobody has met). From where the
  actors are and what the cells show follows who meets whom; as nobody meets
  unnoticed, PacMan leaves floor behind and a ghost what it covered. Two ghosts
  on one cell would both have to be shown by it, which gives `GhostsApart`.
* `PelletInv`: a pellet in a cell, under a ghost, being eaten or waiting after a
  failed file is the one the map has at that place, and is not delivered. Together
  with `ActorsInv` this makes `PelletsConserved` inductive.

That each ghost of a map has a position (`LastOf`) needs a largest element of a
finite set of cells, which comes from the well-foundedness of `<` on the naturals.

**The view.** Assumed (`ViewConstants`): the ranges the configuration admits.
`ViewStepIsBoardStep` maps each step to one of the board; `GameInv` adds to
`BoardInv` that walls are those of the map, that what is shown was seen, and
that before a view grows it is smaller than the map's diagonal or everything was
seen. The last rests on `CoveringCircle`: a circle whose diameter reaches the
diagonal lights every cell, wherever PacMan is.

**The handshake.** An ACK in flight is from a client that plays, and nobody stops
playing in the handshake (a client that fails has not answered); for any number of clients,
broadcasts, losses and failures. `MovesLeft`
counts two moves for each broadcast to come and the one the server is at: it falls
with each move of the server and rises with none of a client. With that,
`ServerStops` needs only that the server keeps moving, which its fairness says.

**The wait for a frame.** Before the time is over `raw_eth_recv` has a
deadline that is never before the caller's, so its timeout is the caller's; for
every timeout, delay, and mix of frames. Nor is it later than that by more than the
delay between the two readings of the clock (`DelayInv`): a call whose time is over
by so much goes around neither loop again, whatever arrives, and returns within four
steps (`StepsLeft`).

**The link test tool.** Assumed (`PingConstants`): any counts, any space of numbers,
any capacity of the link. A pong that is counted has the number of the ping awaited, so it is of
that ping or, if numbers came round, of one before it that was answered (`PongInv`, `BoxesInv`). While as
many pongs were counted as pings sent, no wait has timed out and nothing of an earlier ping
is under way: at most one frame of the ping awaited is, first the ping and then its pong
(`OneCurrent`), so the pong counted is its own. Who reports success has stayed there to the end.

**The keyboard.** `TerminalRestored` is inductive: each path out of raw mode
passes its end.

**The view codec.** Assumed (`ViewCodecConstants`): an even number of cells, any sequence of
cells as a view and of bytes as a message, but for the empty ones. `UnpackedIsPacked` goes cell by cell: `HalfOf` finds the
byte and the half of it, `PairOfCodes` takes the byte apart, `CodeOfCell` undoes
the code. For bytes from elsewhere `PackedIsUnpacked` goes the other way: those that are not refused
are packed again into themselves.

**Start frames and chunks.** Assumed (`TransferConstants`): any messages of the
types the program has, any numbers, any number of chunks. `StartIsRead` rests on
`BytesOfNumber`, the four bytes of a number below 2^32, and `SameName` on the
table giving one identity one name. `AtChunk(k)` says that the bytes received, the
number awaited and the sender's place are counted from the same chunk k; a sender
within 30 of it can only send k under k's number (`AtNumber`).

**The frame codec.** Assumed (`CodecConstants`): any valid frames, any padding.
`CodecInv` says that the wire is the encoded frame, but for one flipped bit,
with zeros behind it. An intact frame is decoded whatever the CRC computes, because
it is computed of the same bytes (`SameBytesSameCrc`, `IntactFrame`). Of a
damaged one it matters that a byte leads from different CRC values to different ones
(`TableTells`, by way of the eight shifts, and `XorTells`): one changed byte is never made
good by those that follow (`OneByteTells`). With a shorter length
field the CRC is looked for among the data, and nothing can be said: hence the
exception in `FlipOnlyShortens`. With a longer one it is a zero of the padding, and
zeros never bring a CRC that is wrong to zero (`ZerosTell`). That the recursive
CRC has its values at all is shown by least counterexample (`RunsExist`, `CrcOfBytes`).

## 5. What is only model-checked

* Liveness (`TransferEnds`, `ViewArrives`, `EndIsAnswered`, `ServerStops`,
  `ReceiveReturns`), which is out of reach of the prover under fairness. What each step
  contributes to `ServerStops` and `ReceiveReturns` is proved (`ServerRunsOut`,
  `OverdueCallsReturn`); that the steps are taken, and that time passes, is left to TLC.

## 6. What is not modelled

* Windows above one inside GameSession: windowed files are in WindowTransfer and
  TurnTransfers, where moves, END and faults do not mix with them.
* Start frames with invalid metadata, which no peer of this program sends.
* The drawing of the view, the log, the status and error texts (among them the code
  and file named in an ERROR frame, which change only what is logged).
* The opening and closing of sockets, directories and the external viewer: sequences
  of system calls. Their failures are actions of GameSession, Startup and RawLink.
* `net_diag.c` and `tools/raw_socket_capability.c`, which list interfaces and check
  privileges; the command line of the link test tool and the bytes of its frames.

## 7. Plan

Done: the sliding window, timers, messages of a turn and the deliveries they promise,
session with faults and its abstract specification, map loading, board, view, start and
settings, handshake, keyboard, wait for a frame, test tool, codecs; proofs of every safety
property of the passing runs, of the refinements `InOrderDelivery`, `TurnDelivery`
and `TurnExchange`, and that the timers change nothing in what a transfer may do.

Next: windows above one within the session, for which `IInv(m)` is stated so that it
can be used by a specification that sends other frames before a message.
