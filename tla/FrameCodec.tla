------------------------------ MODULE FrameCodec ------------------------------
(***************************************************************************)
(* src/protocol/frame_codec.c: a frame is packed into bytes with a CRC-8,  *)
(* one of its bits may be flipped (src/transport/net_fault_injection.c),   *)
(* the socket fills it up with zeros to the smallest Ethernet payload      *)
(* (raw_eth_send), and the receiver decodes what arrives.  The length      *)
(* field says where the CRC is, so a flipped length bit moves it.          *)
(***************************************************************************)
EXTENDS Integers, Sequences

CONSTANTS
    PlainFrames,    \* the frames that are sent without fault injection,
    FlippedFrames,  \* and with it
    MinPayload      \* the smallest Ethernet payload, 60 - 14 bytes

Byte == 0 .. 255
FRAME_MARKER == 126
HeaderBytes == 3
MinWireLen == 4

(* enum frame_type *)
KnownTypes == (0 .. 7) \cup (10 .. 13) \cup {15, 16}

(* frame_has_valid_shape *)
IsFrame(f) ==
    /\ f \in [sequence : 0 .. 63, type : KnownTypes, data : Seq(Byte)]
    /\ Len(f.data) <= 31

ASSUME CodecConstants ==
    /\ \A f \in PlainFrames \cup FlippedFrames : IsFrame(f)
    /\ MinPayload \in Nat

VARIABLES
    sent,       \* the frame that is sent
    faulty,     \* whether the fault injection is on
    wire,       \* its bytes on the way, or << >>
    flipped,    \* whether a bit of them was flipped
    padded,     \* whether the socket filled them up
    outcome,    \* "none" yet, "rejected" or "accepted"
    got         \* the frame decoded, or NoFrame

codecVars == <<sent, faulty, wire, flipped, padded, outcome, got>>

NoFrame == [sequence |-> 0, type |-> 0, data |-> << >>]

-----------------------------------------------------------------------------
(* Bytes and their bits. *)

Masks == {1, 2, 4, 8, 16, 32, 64, 128}

(* The bit of this mask, where a and b differ in it. *)
DifferAt(a, b, mask) == ((a \div mask + b \div mask) % 2) * mask

Xor(a, b) ==
    DifferAt(a, b, 1) + DifferAt(a, b, 2) + DifferAt(a, b, 4) + DifferAt(a, b, 8)
    + DifferAt(a, b, 16) + DifferAt(a, b, 32) + DifferAt(a, b, 64) + DifferAt(a, b, 128)

-----------------------------------------------------------------------------
(* frame_crc8: x^8 + x^2 + x + 1, the high bit first. *)

Shifted(crc) == IF crc >= 128 THEN Xor((2 * crc) % 256, 7) ELSE 2 * crc

Crc8OfByte ==
    [b \in Byte |->
        Shifted(Shifted(Shifted(Shifted(Shifted(Shifted(Shifted(Shifted(b))))))))]

(* Mutant: the header is not covered. *)
Crc8OfData(bytes, n) ==
    LET crc[i \in 0 .. Len(bytes)] ==
            IF i <= HeaderBytes THEN 0 ELSE Crc8OfByte[Xor(crc[i - 1], bytes[i])]
    IN  crc[n]

(* The CRC of the first n bytes. *)
Crc8(bytes, n) ==
    LET crc[i \in 0 .. Len(bytes)] ==
            IF i = 0 THEN 0 ELSE Crc8OfByte[Xor(crc[i - 1], bytes[i])]
    IN  crc[n]

(* frame_encode: the fields of five, six and five bits in two bytes, *)
Header(f) ==
    <<FRAME_MARKER,
      Len(f.data) * 8 + f.sequence \div 8,
      (f.sequence % 8) * 32 + f.type>>

(* the data, *)
Covered(f) ==
    [i \in 1 .. HeaderBytes + Len(f.data) |->
        IF i <= HeaderBytes THEN Header(f)[i] ELSE f.data[i - HeaderBytes]]

(* and the CRC. *)
Encoded(f) ==
    [i \in 1 .. MinWireLen + Len(f.data) |->
        IF i < MinWireLen + Len(f.data)
        THEN Covered(f)[i] ELSE Crc8(Covered(f), HeaderBytes + Len(f.data))]

DataOf(bytes) == [i \in 1 .. bytes[2] \div 8 |-> bytes[HeaderBytes + i]]

(* Mutant: a bit of the sequence number is shifted out. *)
DecodedWithoutBit(bytes) ==
    [sequence |-> (bytes[2] % 8) * 8 + bytes[3] \div 64,
     type |-> bytes[3] % 32, data |-> DataOf(bytes)]

(* frame_decode: the fields, taken on the word of the length, *)
Decoded(bytes) ==
    [sequence |-> (bytes[2] % 8) * 8 + bytes[3] \div 32,
     type |-> bytes[3] % 32, data |-> DataOf(bytes)]

(* and the checks. *)
Decodes(bytes) ==
    LET crcAt == MinWireLen + bytes[2] \div 8
    IN  /\ Len(bytes) >= crcAt
        /\ bytes[crcAt] = Crc8(bytes, crcAt - 1)
        /\ bytes[1] = FRAME_MARKER
        /\ Decoded(bytes).type \in KnownTypes

-----------------------------------------------------------------------------
CodecInit ==
    /\ \/ faulty = FALSE /\ sent \in PlainFrames
       \/ faulty = TRUE /\ sent \in FlippedFrames
    /\ wire = << >> /\ flipped = FALSE /\ padded = FALSE
    /\ outcome = "none" /\ got = NoFrame

(* game_session_io_send_frame_to_peer, its three steps: encode, *)
Encode ==
    /\ wire = << >>
    /\ wire' = Encoded(sent)
    /\ UNCHANGED <<sent, faulty, flipped, padded, outcome, got>>

(* net_fault_maybe_flip_bit, *)
FlipBit(i, mask) ==
    /\ faulty /\ ~flipped /\ ~padded
    /\ wire' = [wire EXCEPT ![i] = Xor(@, mask)]
    /\ flipped' = TRUE
    /\ UNCHANGED <<sent, faulty, padded, outcome, got>>

(* and raw_eth_send. *)
Pad ==
    /\ wire # << >> /\ ~padded
    /\ LET n == IF Len(wire) < MinPayload THEN MinPayload ELSE Len(wire)
       IN  wire' = [i \in 1 .. n |-> IF i <= Len(wire) THEN wire[i] ELSE 0]
    /\ padded' = TRUE
    /\ UNCHANGED <<sent, faulty, flipped, outcome, got>>

(* game_session_io_receive_peer_frame *)
Receive ==
    /\ padded /\ outcome = "none"
    /\ outcome' = IF Decodes(wire) THEN "accepted" ELSE "rejected"
    /\ got' = IF Decodes(wire) THEN Decoded(wire) ELSE NoFrame
    /\ UNCHANGED <<sent, faulty, wire, flipped, padded>>

CodecNext ==
    \/ Encode \/ Pad \/ Receive
    \/ \E i \in 1 .. Len(wire), mask \in Masks : FlipBit(i, mask)

CodecSpec == CodecInit /\ [][CodecNext]_codecVars

-----------------------------------------------------------------------------
(* Properties. *)

(* A frame that is not damaged arrives as it was sent, whatever its length, *)
(* number and type.                                                         *)
RoundTrip ==
    ~flipped /\ outcome # "none" => outcome = "accepted" /\ got = sent

(* A flipped bit is noticed or at worst cuts the end off the data: the      *)
(* type, the number and the data that are left are the ones sent, so that   *)
(* the length checks of the start frame and of the chunk catch it, and no   *)
(* acknowledgement or move, which have no data, is ever forged.             *)
FlipOnlyShortens ==
    flipped /\ outcome = "accepted" =>
        /\ got.type = sent.type /\ got.sequence = sent.sequence
        /\ Len(got.data) < Len(sent.data)
        /\ \A i \in 1 .. Len(got.data) : got.data[i] = sent.data[i]
=============================================================================
