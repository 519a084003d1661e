------------------------------- MODULE Keyboard -------------------------------
(***************************************************************************)
(* src/ui/game_view.c: the client reads one command from the keyboard.     *)
(* On a terminal it switches off lines and echo, takes a byte, and after   *)
(* an escape as many more as come before a silence of a tenth of a second  *)
(* or fit into the text; then it restores the terminal.  An arrow key is   *)
(* three bytes.  Whatever is typed between two calls waits in the terminal.*)
(* The call that puts the terminal back is taken to succeed: its result is *)
(* ignored.                                                                *)
(***************************************************************************)
EXTENDS Naturals, Sequences, SequencesExt, FiniteSetsExt

CONSTANTS
    KeysTyped,  \* the keys the player uses
    MaxKeys,    \* keys typed in all
    TextLen,    \* out_len: the size of the text with its end, 32 in the client
    Inputs,     \* what stdin may be: "terminal", "file"
    Pauses      \* whether the bytes of a key may come with a silence between

Arrows == [up |-> "A", down |-> "B", right |-> "C", left |-> "D"]
Letters == {"a", "s", "d", "w", "q", "x", "A", "S", "D", "W", "Q"}
Blanks == {" ", "newline"}

(* What a key sends. *)
BytesOf(key) == IF key \in DOMAIN Arrows THEN <<"escape", "[", Arrows[key]>>
                                         ELSE <<key>>

ASSUME KeyboardConstants ==
    /\ KeysTyped \subseteq DOMAIN Arrows \cup Letters \cup Blanks
    /\ MaxKeys \in Nat /\ TextLen \in Nat /\ TextLen >= 2
    /\ Inputs \subseteq {"terminal", "file"} /\ Pauses \in BOOLEAN

VARIABLES
    input,      \* what stdin is
    waiting,    \* bytes not yet read, each with the key it is of: [byte, key]
    keys,       \* keys typed so far
    terminal,   \* "cooked" (as found), "raw", or "timed" (raw with VTIME)
    reading,    \* "away" (in the game), "first", "more", "read" or "stopped"
    text,       \* the bytes read
    played      \* the last command: [command, key], or NoCommand

keyboardVars == <<input, waiting, keys, terminal, reading, text, played>>

NoCommand == [command |-> "none", key |-> "none"]

-----------------------------------------------------------------------------
(* ui_game_view_frame_type_from_input *)

WithoutBlanks(t) ==
    LET solid == {i \in DOMAIN t : t[i] \notin Blanks}
    IN  IF solid = {} THEN << >> ELSE SubSeq(t, Min(solid), Len(t))

ArrowCommand(t) ==
    IF Len(t) > 2 /\ t[3] \in {Arrows[k] : k \in DOMAIN Arrows}
    THEN CHOOSE k \in DOMAIN Arrows : Arrows[k] = t[3]
    ELSE "invalid"

LetterCommand(letter) ==
    CASE letter \in {"d", "D"} -> "right"
      [] letter \in {"a", "A"} -> "left"
      [] letter \in {"w", "W"} -> "up"
      [] letter \in {"s", "S"} -> "down"
      [] letter \in {"q", "Q"} -> "end"
      [] OTHER -> "invalid"

CommandOf(bytes) ==
    LET t == WithoutBlanks(bytes)
    IN  IF Len(t) > 1 /\ t[1] = "escape" /\ t[2] \in {"[", "O"}
        THEN ArrowCommand(t)
        ELSE IF t = << >> THEN "invalid" ELSE LetterCommand(t[1])

(* The command of a key by itself. *)
MeaningOf(key) == CommandOf(BytesOf(key))

-----------------------------------------------------------------------------
KeyboardInit ==
    /\ input \in Inputs /\ waiting = << >> /\ keys = 0
    /\ terminal = "cooked" /\ reading = "away" /\ text = << >>
    /\ played = NoCommand

(* The player types, at any time. *)
Type(key) ==
    /\ keys < MaxKeys
    /\ keys' = keys + 1
    /\ waiting' = waiting \o [i \in 1 .. Len(BytesOf(key)) |->
                                  [byte |-> BytesOf(key)[i], key |-> key]]
    /\ UNCHANGED <<input, terminal, reading, text, played>>

(* ui_game_view_read_key *)
StartRawRead ==
    /\ reading = "away" /\ input = "terminal"
    /\ reading' = "first" /\ terminal' = "raw" /\ text' = << >>
    /\ UNCHANGED <<input, waiting, keys, played>>

(* Without a terminal a line is read, or as much of it as fits. *)
ReadLine ==
    /\ reading = "away" /\ input = "file"
    /\ LET ends == {i \in DOMAIN waiting : waiting[i].byte = "newline"}
           length == Min(ends \cup {TextLen - 1})
       IN  /\ ends # {} \/ Len(waiting) >= TextLen - 1
           /\ text' = SubSeq(waiting, 1, length)
           /\ waiting' = SubSeq(waiting, length + 1, Len(waiting))
    /\ reading' = "read"
    /\ UNCHANGED <<input, keys, terminal, played>>

(* The rest of a file that does not end with a line's end is a line too. *)
ReadLastLine ==
    /\ reading = "away" /\ input = "file"
    /\ waiting # << >> /\ Len(waiting) < TextLen - 1
    /\ \A i \in DOMAIN waiting : waiting[i].byte # "newline"
    /\ text' = waiting /\ waiting' = << >> /\ keys' = MaxKeys
    /\ reading' = "read"
    /\ UNCHANGED <<input, terminal, played>>

(* The file ends or fails, or the terminal cannot be switched to raw: it is *)
(* as it was.                                                               *)
NothingToRead ==
    /\ reading = "away"
    /\ reading' = "stopped"
    /\ UNCHANGED <<input, waiting, keys, terminal, text, played>>

(* The first byte; after an escape the following ones are waited for with a *)
(* timeout, if the text has room for them.                                  *)
ReadFirst ==
    /\ reading = "first" /\ waiting # << >>
    /\ text' = <<Head(waiting)>> /\ waiting' = Tail(waiting)
    /\ IF Head(waiting).byte = "escape" /\ TextLen > 2
       THEN reading' = "more" /\ terminal' = "timed"
       ELSE reading' = "read" /\ terminal' = "cooked"
    /\ UNCHANGED <<input, keys, played>>

(* Instead of it the terminal's input ends or fails, *)
FirstReadEnds ==
    /\ reading = "first"
    /\ reading' = "stopped" /\ terminal' = "cooked"
    /\ UNCHANGED <<input, waiting, keys, text, played>>

(* or it is an escape and the timeout cannot be set. *)
TimeoutNotSet ==
    /\ reading = "first" /\ waiting # << >> /\ TextLen > 2
    /\ Head(waiting).byte = "escape"
    /\ text' = <<Head(waiting)>> /\ waiting' = Tail(waiting)
    /\ reading' = "stopped" /\ terminal' = "cooked"
    /\ UNCHANGED <<input, keys, played>>

ReadMore ==
    /\ reading = "more" /\ waiting # << >> /\ Len(text) + 1 < TextLen
    /\ text' = Append(text, Head(waiting)) /\ waiting' = Tail(waiting)
    /\ UNCHANGED <<input, keys, terminal, reading, played>>

(* Mutant: the terminal stays as it is after a silence. *)
EndOfTextLeavesTimed ==
    /\ reading = "more"
    /\ \/ Len(text) + 1 >= TextLen
       \/ waiting = << >>
       \/ Pauses
    /\ reading' = "read"
    /\ UNCHANGED <<input, waiting, keys, terminal, text, played>>

(* The text is full, or a tenth of a second has passed without a byte. *)
EndOfText ==
    /\ reading = "more"
    /\ \/ Len(text) + 1 >= TextLen
       \/ waiting = << >>
       \/ Pauses
    /\ reading' = "read" /\ terminal' = "cooked"
    /\ UNCHANGED <<input, waiting, keys, text, played>>

(* Reading fails after an escape.  Without a command the client leaves. *)
MoreReadFails ==
    /\ reading = "more" /\ Len(text) + 1 < TextLen
    /\ reading' = "stopped" /\ terminal' = "cooked"
    /\ UNCHANGED <<input, waiting, keys, text, played>>

(* game_session_run_client: a text that is no command is read past; a move  *)
(* is sent and its view awaited, while the player may go on typing.         *)
Obey ==
    /\ reading = "read"
    /\ LET command == CommandOf([i \in DOMAIN text |-> text[i].byte])
           solid == {i \in DOMAIN text : text[i].byte \notin Blanks}
       IN  IF command = "invalid" THEN reading' = "away" /\ UNCHANGED played
           ELSE /\ played' = [command |-> command, key |-> text[Min(solid)].key]
                /\ reading' = IF command = "end" THEN "stopped" ELSE "away"
    /\ text' = << >>
    /\ UNCHANGED <<input, waiting, keys, terminal>>

ReadKey ==
    StartRawRead \/ ReadLine \/ ReadLastLine \/ ReadFirst \/ ReadMore \/ EndOfText
InputEnds == NothingToRead \/ FirstReadEnds \/ TimeoutNotSet \/ MoreReadFails

KeyboardNext ==
    \/ ReadKey \/ InputEnds \/ Obey
    \/ \E key \in KeysTyped : Type(key)

KeyboardSpec == KeyboardInit /\ [][KeyboardNext]_keyboardVars

-----------------------------------------------------------------------------
(* Properties. *)

(* By whatever path ui_game_view_read_key returns, the terminal is as it was*)
(* before: the shell the player comes back to has its echo.                 *)
TerminalRestored == reading \notin {"first", "more"} => terminal = "cooked"

(* A move that is played is the one of a key that was pressed: no part of a *)
(* key is read as another key ("Le uma tecla de comando do usuario ...      *)
(* Captura tambem sequencias ANSI de setas", include/ui/game_view.h).       *)
MovesAreKeys ==
    played # NoCommand => played.command = MeaningOf(played.key)
=============================================================================
