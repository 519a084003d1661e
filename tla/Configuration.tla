----------------------------- MODULE Configuration -----------------------------
(***************************************************************************)
(* src/app/config.c: the settings, and the text file they are read from    *)
(* and saved to, one key=value line each.  One of the ranged numbers,      *)
(* file_window_size, stands for the others and for game_mode.              *)
(***************************************************************************)
EXTENDS Integers, Sequences

CONSTANT LongNames      \* names that do not fit into their field

MinWindow == 1
MaxWindow == 30
MaxPercent == 100
MaxSeed == 2147483647
NotSet == -1            \* as a number: not given, or not a number

(* A name, with or without blanks around it. *)
Text(name) == [name |-> name, padded |-> FALSE]
Padded(name) == [name |-> name, padded |-> TRUE]
NoText == Text("")

(* trim *)
Trimmed(text) == Text(text.name)

(* app_config_set_defaults *)
Defaults ==
    [role |-> "servidor", window |-> MaxWindow, map |-> Text("default.csv"),
     interface |-> NoText, percent |-> NotSet, seed |-> NotSet]

(* parse_int_range *)
InRange(number, min, max) == number >= min /\ number <= max

(* app_config_set_map_path and app_config_set_interface_name *)
CanBeMap(text) == text # NoText /\ text.name \notin LongNames
CanBeInterface(text) == text.name \notin LongNames

(* app_config_validate *)
IsValid(s) ==
    /\ s.role \in {"servidor", "cliente"}
    /\ InRange(s.window, MinWindow, MaxWindow)
    /\ s.percent # NotSet => InRange(s.percent, 0, MaxPercent)
    /\ s.map # NoText

-----------------------------------------------------------------------------
(* A line is [key, value]; "note" is a blank one or a comment, and any other*)
(* key that is not a setting's is one that cannot be read.                  *)
SettingKeys == {"role", "window", "map", "interface", "percent", "seed"}
Note == [key |-> "note", value |-> "note"]
Unreadable == [key |-> "unknown", value |-> "unknown"]

(* apply_key_value: what each key takes, the blanks around it removed, *)
IsGoodLine(line) ==
    CASE line.key = "role" -> line.value \in {"servidor", "cliente"}
      [] line.key = "window" -> InRange(line.value, MinWindow, MaxWindow)
      [] line.key = "map" -> CanBeMap(Trimmed(line.value))
      [] line.key = "interface" -> CanBeInterface(Trimmed(line.value))
      [] line.key = "percent" -> InRange(line.value, 0, MaxPercent)
      [] line.key = "seed" -> InRange(line.value, 0, MaxSeed)
      [] OTHER -> line.key = "note"

ValueOf(line) == IF line.key \in {"map", "interface"} THEN Trimmed(line.value)
                                                      ELSE line.value

Applied(s, line) ==
    IF line.key = "note" THEN s ELSE [s EXCEPT ![line.key] = ValueOf(line)]

-----------------------------------------------------------------------------
LineOf(s, key) == IF key = "note" THEN Note ELSE [key |-> key, value |-> s[key]]

(* Mutant: the seed of the bit flips is not written. *)
SavedKeysWithoutSeed(s) ==
    IF s.percent = NotSet THEN <<"note", "role", "window", "map", "interface">>
    ELSE <<"note", "role", "window", "map", "interface", "percent">>

(* app_config_save: the bit flips are written only when they are on. *)
SavedKeys(s) ==
    IF s.percent = NotSet THEN <<"note", "role", "window", "map", "interface">>
    ELSE IF s.seed = NotSet
    THEN <<"note", "role", "window", "map", "interface", "percent">>
    ELSE <<"note", "role", "window", "map", "interface", "percent", "seed">>

SavedLines(s) == [i \in DOMAIN SavedKeys(s) |-> LineOf(s, SavedKeys(s)[i])]

(* A line that was not written to its end: it may be cut in the key, at the *)
(* "=", or in the value.                                                    *)
CutLines(line) ==
    {Unreadable} \cup
    CASE line.key = "note" -> {Note}
      [] line.key = "role" -> {[line EXCEPT !.value = "serv"]}
      [] line.key \in {"map", "interface"} ->
             {[line EXCEPT !.value = t] : t \in {NoText, Text("cut")}}
      [] OTHER -> {[line EXCEPT !.value = n] :
                       n \in {NotSet} \cup {m \in {line.value \div 10} : m > 0}}

CutFiles(lines) ==
    {SubSeq(lines, 1, n) : n \in 0 .. Len(lines)}
    \cup UNION {{Append(SubSeq(lines, 1, n - 1), cut) : cut \in CutLines(lines[n])} :
                   n \in 1 .. Len(lines)}

-----------------------------------------------------------------------------
(* What the first n lines say, if they are good: the last value of each key.*)
LinesOf(lines, key, n) == {i \in 1 .. n : lines[i].key = key}
LastLine(of) == CHOOSE i \in of : \A j \in of : j <= i

SaidOf(lines, key, n) ==
    IF LinesOf(lines, key, n) = {} THEN Defaults[key]
    ELSE ValueOf(lines[LastLine(LinesOf(lines, key, n))])

SaidBy(lines, n) == [key \in SettingKeys |-> SaidOf(lines, key, n)]

(* What a file says: if every line is good, what they say, and else nothing.*)
WholeFile(file) ==
    LET size == Len(file.lines)
    IN  IF ~file.opens \/ file.broken \/ \E i \in 1 .. size : ~IsGoodLine(file.lines[i])
        THEN Defaults ELSE SaidBy(file.lines, size)

(* The settings that have an effect: without bit flips the seed has none. *)
Effective(s) == IF s.percent = NotSet THEN [s EXCEPT !.seed = NotSet] ELSE s
=============================================================================
