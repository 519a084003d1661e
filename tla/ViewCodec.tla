------------------------------- MODULE ViewCodec -------------------------------
(***************************************************************************)
(* src/app/game_session_view_codec.c: a view travels with four bits per    *)
(* cell, two cells per byte.  What is not a view, or not a packed one, is  *)
(* refused.                                                                *)
(***************************************************************************)
EXTENDS Integers, Sequences

CONSTANTS
    CellCount,      \* GAME_SESSION_VIEW_CELL_COUNT, 1600 in the program
    Views,          \* what pack is given
    ForeignBytes    \* what unpack is given that was not packed here

(* The codes of the cells, in their order from 0. *)
Alphabet == <<"0", "X", "P", "R", "B", "G", "Y", "1", "2", "3", "4", "5", "6",
              "masked">>

ASSUME ViewCodecConstants ==
    /\ CellCount \in Nat \ {0} /\ CellCount % 2 = 0
    /\ \A v \in Views : v \in Seq(STRING) /\ v # << >>
    /\ \A m \in ForeignBytes : m \in Seq(0 .. 255) /\ m # << >>

VARIABLES
    cells,      \* the view to pack, or << >> for a message from elsewhere
    packed,     \* the bytes of the message, or << >>
    shown,      \* the view the client unpacked, or << >>
    refused     \* whether pack or unpack refused what it was given

viewCodecVars == <<cells, packed, shown, refused>>

-----------------------------------------------------------------------------
(* view_cell_to_code and view_code_to_cell; the cells and codes they know. *)
KnownCells == {Alphabet[i] : i \in 1 .. Len(Alphabet)}
KnownCode(code) == code < Len(Alphabet)

CodeOf(cell) == CHOOSE code \in 0 .. 15 :
                    code < Len(Alphabet) /\ Alphabet[code + 1] = cell
CellOf(code) == Alphabet[code + 1]

(* Mutant: the first cell of a pair goes to the low bits. *)
PackedLowFirst(v) ==
    [i \in 1 .. CellCount \div 2 |-> CodeOf(v[2 * i]) * 16 + CodeOf(v[2 * i - 1])]

(* game_session_view_pack *)
Packed(v) ==
    [i \in 1 .. CellCount \div 2 |-> CodeOf(v[2 * i - 1]) * 16 + CodeOf(v[2 * i])]

Packable(v) == Len(v) = CellCount /\ \A i \in 1 .. Len(v) : v[i] \in KnownCells

(* game_session_view_unpack *)
Readable(bytes) ==
    /\ 2 * Len(bytes) = CellCount
    /\ \A i \in 1 .. Len(bytes) :
           KnownCode(bytes[i] \div 16) /\ KnownCode(bytes[i] % 16)

Unpacked(bytes) ==
    [i \in 1 .. CellCount |->
        LET byte == bytes[(i + 1) \div 2]
        IN  CellOf(IF i % 2 = 1 THEN byte \div 16 ELSE byte % 16)]

-----------------------------------------------------------------------------
ViewCodecInit ==
    /\ \/ cells \in Views /\ packed = << >>
       \/ cells = << >> /\ packed \in ForeignBytes
    /\ shown = << >> /\ refused = FALSE

Pack ==
    /\ packed = << >> /\ ~refused
    /\ IF Packable(cells)
       THEN packed' = Packed(cells) /\ UNCHANGED refused
       ELSE refused' = TRUE /\ UNCHANGED packed
    /\ UNCHANGED <<cells, shown>>

Unpack ==
    /\ packed # << >> /\ shown = << >> /\ ~refused
    /\ IF Readable(packed)
       THEN shown' = Unpacked(packed) /\ UNCHANGED refused
       ELSE refused' = TRUE /\ UNCHANGED shown
    /\ UNCHANGED <<cells, packed>>

ViewCodecNext == Pack \/ Unpack

ViewCodecSpec == ViewCodecInit /\ [][ViewCodecNext]_viewCodecVars

-----------------------------------------------------------------------------
(* The client draws the view the server built, cell by cell, in half the    *)
(* bytes, and does not refuse it; of other bytes it draws nothing, or the   *)
(* view that is packed into them.                                           *)
ViewSurvives ==
    /\ cells # << >> /\ packed # << >> => 2 * Len(packed) = Len(cells) /\ ~refused
    /\ shown # << >> => /\ cells # << >> => shown = cells
                       /\ Packable(shown) /\ Packed(shown) = packed
=============================================================================
