--------------------------- MODULE SequenceSpace ---------------------------
(***************************************************************************)
(* The circular sequence numbers every frame of the game protocol carries: *)
(* SeqSpace is NET_PROTOCOL_SEQUENCE_SPACE_SIZE, 64 in the program (6      *)
(* bits), a parameter here so that small spaces wrap in a model.           *)
(***************************************************************************)
EXTENDS Integers

CONSTANT SeqSpace

ASSUME SeqSpaceAssumption == SeqSpace \in Nat \ {0}

SeqNumbers == 0 .. SeqSpace - 1

(* Mutant: the number is not wrapped. *)
NextSequenceUnwrapped(s) == s + 1

(* next_sequence: the number after s. *)
NextSequence(s) == (s + 1) % SeqSpace

(* sequence_add_count: the number count frames after s. *)
SequenceAddCount(s, count) == (s + count) % SeqSpace

(* Mutant: the first DATA frame takes the number of its start frame. *)
SequenceForIndexFromStart(base, index) == (base + index) % SeqSpace

(* Mutant: every DATA frame takes the number after its start frame. *)
SequenceForIndexOfMessage(base, index) == NextSequence(base)

(* net_window_sequence_for_index: the number of the DATA frame that carries *)
(* a chunk of the message whose start frame is numbered base.  Index -1     *)
(* names the start frame itself.                                            *)
SequenceForIndex(base, index) == (base + index + 1) % SeqSpace
=============================================================================
