----------------------------- MODULE TransferCodec -----------------------------
(***************************************************************************)
(* src/protocol/fragment.c: a message becomes a start frame, which says    *)
(* what follows in a few bytes, and numbered chunks of 31 bytes.  The      *)
(* receiver reads the start frame, finds the name of the file in the table *)
(* of src/file/file_transfer.c, and puts the chunks together, computing    *)
(* their number and lengths by itself (also in src/reliable/window.c).     *)
(***************************************************************************)
EXTENDS Integers, Sequences

CONSTANTS
    Announcements,  \* what may be sent: type, file_id, window_size, total_bytes
    BaseSequences,  \* the numbers of start frames
    MaxChunks       \* chunks that are followed

ChunkBytes == 31
MaxFileId == 7
MaxWindowSize == 30
FileTypes == {"FILE_TXT", "FILE_JPG", "FILE_MP4"}
NoWindow == 0
NoFile == 0
SequenceCount == 64

ASSUME TransferConstants ==
    /\ MaxChunks \in Nat
    /\ Announcements \subseteq [type : {"VIEW"} \cup FileTypes, file_id : Nat,
                           window_size : Nat, total_bytes : Nat]
    /\ BaseSequences \subseteq 0 .. SequenceCount - 1

VARIABLES
    message,    \* the message to send
    base,       \* the number of its start frame
    stage,      \* "build", "start", "chunks", "done" or "refused"
    payload,    \* the data of the start frame
    parsed,     \* what the receiver read in it
    index,      \* chunks the sender has gone through
    receivedBytes,      \* of the reassembly
    expectedSequence,   \* of the reassembly
    taken       \* the last chunk accepted: its index, length and offset

transferVars == <<message, base, stage, payload, parsed, index, receivedBytes,
                  expectedSequence, taken>>

NoChunk == [index |-> -1, length |-> 0, offset |-> 0]

-----------------------------------------------------------------------------
(* is_valid_start_metadata: a file has an identity, a view has none. *)
IsValidStart(m) ==
    /\ m.file_id <= MaxFileId
    /\ m.total_bytes > 0 /\ m.total_bytes \div 16777216 < 256
    /\ m.window_size <= MaxWindowSize
    /\ (m.type \in FileTypes) = (m.file_id # NoFile)

(* net_fragment_count *)
ChunkCount(bytes) == (bytes + ChunkBytes - 1) \div ChunkBytes

(* Mutant: the high byte is lost. *)
NumberOfThreeBytes(b, i) == (b[i + 1] * 256 + b[i + 2]) * 256 + b[i + 3]

(* A number of four bytes, the high one first, and the one at b[i]. *)
FourBytes(n) ==
    <<(n \div 16777216) % 256, (n \div 65536) % 256, (n \div 256) % 256, n % 256>>
Number(b, i) == ((b[i] * 256 + b[i + 1]) * 256 + b[i + 2]) * 256 + b[i + 3]

(* net_fragment_build_start_frame_with_window, and the same without it. *)
StartPayload(m) ==
    LET size == FourBytes(m.total_bytes)
    IN  IF m.window_size = NoWindow
        THEN <<m.file_id, size[1], size[2], size[3], size[4]>>
        ELSE <<m.file_id, m.window_size, size[1], size[2], size[3], size[4]>>

(* net_fragment_parse_start_frame: which of the two it is, the length says. *)
ParsedStart(type, data) ==
    [type |-> type, file_id |-> data[1],
     window_size |-> IF Len(data) = 6 THEN data[2] ELSE NoWindow,
     total_bytes |-> Number(data, Len(data) - 3)]

(* net_fragment_build_frame: the length of a chunk, by what is left. *)
SentLength(total, offset) ==
    IF total - offset > ChunkBytes THEN ChunkBytes ELSE total - offset

(* expected_chunk_len: the same, by the index of the chunk. *)
ExpectedLength(total, i) ==
    LET offset == i * ChunkBytes
    IN  IF i >= ChunkCount(total) \/ offset >= total THEN 0
        ELSE SentLength(total, offset)

(* sequence_add *)
ChunkSequence(i) == (base + i + 1) % SequenceCount

(* file_mappings, and game_file_transfer_metadata_for_message: the first    *)
(* row with the type and the identity of the message.                       *)
GhostRow(cell) ==
    [cell |-> cell, type |-> "FILE_TXT", file_id |-> 7, name |-> "ghost.txt"]

FileTable == <<
    [cell |-> "1", type |-> "FILE_TXT", file_id |-> 1, name |-> "1.txt"],
    [cell |-> "2", type |-> "FILE_TXT", file_id |-> 2, name |-> "2.txt"],
    [cell |-> "3", type |-> "FILE_JPG", file_id |-> 3, name |-> "3.jpg"],
    [cell |-> "4", type |-> "FILE_JPG", file_id |-> 4, name |-> "4.jpg"],
    [cell |-> "5", type |-> "FILE_MP4", file_id |-> 5, name |-> "5.mp4"],
    [cell |-> "6", type |-> "FILE_MP4", file_id |-> 6, name |-> "6.mp4"],
    GhostRow("R"), GhostRow("B"), GhostRow("G"), GhostRow("Y")>>

RowsOf(m) == {i \in DOMAIN FileTable :
                  FileTable[i].type = m.type /\ FileTable[i].file_id = m.file_id}

NameForMessage(m) ==
    IF RowsOf(m) = {} THEN "none"
    ELSE FileTable[CHOOSE i \in RowsOf(m) : \A j \in RowsOf(m) : i <= j].name

-----------------------------------------------------------------------------
TransferInit ==
    /\ message \in Announcements /\ base \in BaseSequences
    /\ stage = "build" /\ payload = << >> /\ parsed = message
    /\ index = 0 /\ receivedBytes = 0 /\ expectedSequence = 0
    /\ taken = NoChunk

BuildStart ==
    /\ stage = "build" /\ IsValidStart(message)
    /\ payload' = StartPayload(message)
    /\ stage' = "start"
    /\ UNCHANGED <<message, base, parsed, index, receivedBytes,
                   expectedSequence, taken>>

RefuseStart ==
    /\ stage = "build" /\ ~IsValidStart(message)
    /\ stage' = "refused"
    /\ UNCHANGED <<message, base, payload, parsed, index, receivedBytes,
                   expectedSequence, taken>>

(* net_fragment_reassembly_begin.  A start frame that comes again, or       *)
(* another one, changes nothing.                                            *)
ParseStart ==
    /\ stage = "start"
    /\ parsed' = ParsedStart(message.type, payload)
    /\ IF IsValidStart(parsed')
       THEN stage' = "chunks" /\ expectedSequence' = (base + 1) % SequenceCount
       ELSE stage' = "refused" /\ UNCHANGED expectedSequence
    /\ UNCHANGED <<message, base, payload, index, receivedBytes, taken>>

(* net_fragment_reassembly_accept: what is left says how long a chunk must  *)
(* be.  A chunk that is not the next one is refused and changes nothing.    *)
RemainingLength == SentLength(parsed.total_bytes, receivedBytes)

(* Mutant: the number of the frame is not checked. *)
IsNextByLength(i) ==
    /\ receivedBytes < parsed.total_bytes
    /\ SentLength(message.total_bytes, i * ChunkBytes) = RemainingLength

IsNextChunk(i) ==
    /\ ChunkSequence(i) = expectedSequence
    /\ receivedBytes < parsed.total_bytes
    /\ SentLength(message.total_bytes, i * ChunkBytes) = RemainingLength

AcceptChunk(i) ==
    /\ stage = "chunks" /\ IsNextChunk(i)
    /\ taken' = [index |-> i, length |-> RemainingLength, offset |-> receivedBytes]
    /\ receivedBytes' = receivedBytes + RemainingLength
    /\ expectedSequence' = (expectedSequence + 1) % SequenceCount
    /\ stage' = IF receivedBytes' = parsed.total_bytes THEN "done" ELSE "chunks"
    /\ UNCHANGED <<message, base, payload, parsed, index>>

(* The sender goes on, or comes back to the chunk before.  The code tests no*)
(* distance: that the sender is at most a window from the awaited chunk is  *)
(* assumed of a caller of the reassembly, of which there is none yet.       *)
InReach(i) ==
    LET awaited == ChunkCount(receivedBytes)
    IN  i <= awaited + MaxWindowSize /\ awaited <= i + MaxWindowSize

SendChunk ==
    /\ stage = "chunks"
    /\ \/ /\ index + 1 < ChunkCount(message.total_bytes) /\ index < MaxChunks
          /\ index' = index + 1
       \/ index > 0 /\ index' = index - 1
    /\ InReach(index')
    /\ UNCHANGED <<message, base, stage, payload, parsed, receivedBytes,
                   expectedSequence, taken>>

TransferNext ==
    BuildStart \/ RefuseStart \/ ParseStart \/ SendChunk \/ AcceptChunk(index)

TransferSpec == TransferInit /\ [][TransferNext]_transferVars

-----------------------------------------------------------------------------
(* Properties. *)

(* What the receiver reads in a start frame is what the sender announced:   *)
(* all four bytes of the size, the window if there was one; and the file it *)
(* opens has the name of the one that lies under the cell.                  *)
StartIsUnderstood ==
    stage \in {"chunks", "done"} =>
        /\ parsed = message
        /\ \A i \in RowsOf(message) : NameForMessage(parsed) = FileTable[i].name

(* A chunk is put where it belongs, also when chunks are lost or come again:*)
(* the sender counts the bytes that are left by the index, reassembly by    *)
(* what it has, the window's receiver by the index again, and all agree on  *)
(* the length of each chunk; the message is complete with its last byte.    *)
ReassemblyRebuilds ==
    taken # NoChunk =>
        /\ taken.offset = taken.index * ChunkBytes
        /\ taken.length \in 1 .. ChunkBytes
        /\ taken.length = ExpectedLength(message.total_bytes, taken.index)
        /\ (stage = "done") = (taken.index + 1 = ChunkCount(message.total_bytes))
=============================================================================
