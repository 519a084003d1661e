-------------------------------- MODULE Startup --------------------------------
(***************************************************************************)
(* src/main.c: the program loads the settings or takes the defaults,       *)
(* applies the arguments, lets the user edit and save them, and plays as   *)
(* server or client.  The file outlives the program: the next start reads  *)
(* what this one saved, also when the save failed or the program was       *)
(* killed in it.                                                           *)
(***************************************************************************)
EXTENDS Configuration

CONSTANTS
    ConfigFiles,    \* files found: [opens, lines, broken]
    Arguments,      \* [role, map, interface], each with its "not given" value
    Answers,        \* per setting, what the user answers to its prompt
    MaxStarts,      \* starts of the program
    MaxEdits        \* starts in which the settings are edited

NoRole == "none"

ASSUME StartupConstants ==
    /\ MaxStarts \in Nat /\ MaxEdits \in Nat
    /\ DOMAIN Answers = SettingKeys
    /\ \A file \in ConfigFiles :
           file.lines \in Seq({file.lines[i] : i \in DOMAIN file.lines})

VARIABLES
    disk,       \* the configuration file
    arguments,  \* of this start
    cfg,        \* the settings
    lineNumber, \* lines of the file that are read
    next,       \* the copy that is edited
    step,       \* where main is
    exitCode,   \* its result, once step = "exited"
    starts, edits,
    saved       \* the last save, if any: [settings, whole] (auxiliary)

startupVars == <<disk, arguments, cfg, lineNumber, next, step, exitCode, starts,
                 edits, saved>>

Exit(code) == step' = "exited" /\ exitCode' = code
GoTo(where) == step' = where /\ UNCHANGED exitCode

-----------------------------------------------------------------------------
StartupInit ==
    /\ disk \in ConfigFiles /\ arguments \in Arguments
    /\ cfg = Defaults /\ lineNumber = 0 /\ next = Defaults
    /\ step = "arguments" /\ exitCode = 0 /\ starts = 1 /\ edits = 0
    /\ saved = {}

(* parse_args: --help, or what it does not know. *)
ParseArguments ==
    /\ step = "arguments"
    /\ GoTo("load") \/ Exit(0) \/ Exit(2)
    /\ UNCHANGED <<disk, arguments, cfg, lineNumber, next, starts, edits, saved>>

(* app_config_load starts from the defaults; if it fails, main returns to   *)
(* them.                                                                    *)
LoadEnds == lineNumber' = 0 /\ GoTo("override")
LoadFails == LoadEnds /\ cfg' = Defaults

OpenFile ==
    /\ step = "load"
    /\ IF disk.opens THEN cfg' = Defaults /\ lineNumber' = 0 /\ GoTo("lines")
                     ELSE LoadFails
    /\ UNCHANGED <<disk, arguments, next, starts, edits, saved>>

(* Mutant: what was read before the bad line stays. *)
ReadSettingLineAndStay ==
    /\ step = "lines" /\ lineNumber < Len(disk.lines)
    /\ LET line == disk.lines[lineNumber + 1]
       IN  IF IsGoodLine(line)
           THEN cfg' = Applied(cfg, line) /\ lineNumber' = lineNumber + 1 /\ GoTo("lines")
           ELSE LoadEnds /\ UNCHANGED cfg
    /\ UNCHANGED <<disk, arguments, next, starts, edits, saved>>

(* One line after the other is applied to the settings. *)
ReadSettingLine ==
    /\ step = "lines" /\ lineNumber < Len(disk.lines)
    /\ LET line == disk.lines[lineNumber + 1]
       IN  IF IsGoodLine(line)
           THEN cfg' = Applied(cfg, line) /\ lineNumber' = lineNumber + 1 /\ GoTo("lines")
           ELSE LoadFails
    /\ UNCHANGED <<disk, arguments, next, starts, edits, saved>>

EndOfFile ==
    /\ step = "lines" /\ lineNumber = Len(disk.lines)
    /\ IF ~disk.broken /\ IsValid(cfg) THEN LoadEnds /\ UNCHANGED cfg ELSE LoadFails
    /\ UNCHANGED <<disk, arguments, next, starts, edits, saved>>

(* apply_cli_overrides; what is given on the command line is not trimmed. *)
Overridden ==
    [cfg EXCEPT
        !.role = IF arguments.role = NoRole THEN @ ELSE arguments.role,
        !.map = IF arguments.map = NoText THEN @ ELSE arguments.map,
        !.interface = IF arguments.interface = NoText THEN @
                      ELSE arguments.interface]

Override ==
    /\ step = "override"
    /\ cfg' = Overridden
    /\ IF /\ CanBeMap(Overridden.map) /\ CanBeInterface(Overridden.interface)
          /\ IsValid(Overridden)
       THEN GoTo("use or edit") ELSE Exit(2)
    /\ UNCHANGED <<disk, arguments, lineNumber, next, starts, edits, saved>>

(* prompt_use_or_edit *)
Use ==
    /\ step = "use or edit" /\ GoTo("iface")
    /\ UNCHANGED <<disk, arguments, cfg, lineNumber, next, starts, edits, saved>>

Edit ==
    /\ step = "use or edit" /\ edits < MaxEdits
    /\ next' = cfg /\ edits' = edits + 1 /\ GoTo("role")
    /\ UNCHANGED <<disk, arguments, cfg, lineNumber, starts, saved>>

(* prompt_edit_config: one prompt after the other, the seed only if there   *)
(* are bit flips.                                                           *)
Following ==
    [role |-> "window", window |-> "map", map |-> "interface",
     interface |-> "percent", percent |-> "seed", seed |-> "save?"]

Takes(key, answer) ==
    CASE key = "role" -> answer \in {"servidor", "cliente"}
      [] key = "window" -> InRange(answer, MinWindow, MaxWindow)
      [] key = "map" -> CanBeMap(answer)
      [] key = "interface" -> CanBeInterface(answer)
      [] key = "percent" -> InRange(answer, 0, MaxPercent)
      [] key = "seed" -> InRange(answer, 0, MaxSeed)

(* What a prompt leads to: the next one or, after the last, the validation. *)
Proceed(key, edited) ==
    IF key = "seed" \/ (key = "percent" /\ edited.percent = NotSet)
    THEN /\ IF IsValid(edited) THEN cfg' = edited /\ GoTo("save?")
                               ELSE Exit(2) /\ UNCHANGED cfg
         /\ next' = Defaults
    ELSE next' = edited /\ GoTo(Following[key]) /\ UNCHANGED cfg

KeepValue(key) ==
    /\ step = key /\ Proceed(key, next)
    /\ UNCHANGED <<disk, arguments, lineNumber, starts, edits, saved>>

GiveValue(key) ==
    /\ step = key
    /\ \E answer \in Answers[key] :
           IF Takes(key, answer) THEN Proceed(key, [next EXCEPT ![key] = answer])
           ELSE Exit(2) /\ UNCHANGED <<cfg, next>>
    /\ UNCHANGED <<disk, arguments, lineNumber, starts, edits, saved>>

(* "off": no bit flips and no seed for them, or a random seed. *)
SwitchOff(key) ==
    /\ step = key /\ key \in {"percent", "seed"}
    /\ Proceed(key, [next EXCEPT !.seed = NotSet,
                                 !.percent = IF key = "seed" THEN @ ELSE NotSet])
    /\ UNCHANGED <<disk, arguments, lineNumber, starts, edits, saved>>

(* prompt_save_config *)
DoNotSave ==
    /\ step = "save?" /\ GoTo("iface")
    /\ UNCHANGED <<disk, arguments, cfg, lineNumber, next, starts, edits, saved>>

(* app_config_save *)
Save ==
    /\ step = "save?" /\ IsValid(cfg)
    /\ disk' = [opens |-> TRUE, lines |-> SavedLines(cfg), broken |-> FALSE]
    /\ saved' = {[settings |-> cfg, whole |-> TRUE]}
    /\ GoTo("iface")
    /\ UNCHANGED <<arguments, cfg, lineNumber, next, starts, edits>>

SaveCannotOpen ==
    /\ step = "save?" /\ Exit(1)
    /\ UNCHANGED <<disk, arguments, cfg, lineNumber, next, starts, edits, saved>>

(* The disk is full, or the program is killed: the old file is gone and     *)
(* the new one ends anywhere.                                               *)
SaveIsCut ==
    /\ step = "save?" /\ IsValid(cfg)
    /\ \E lines \in CutFiles(SavedLines(cfg)) :
           disk' = [opens |-> TRUE, lines |-> lines, broken |-> FALSE]
    /\ saved' = {[settings |-> cfg, whole |-> FALSE]}
    /\ Exit(1)
    /\ UNCHANGED <<arguments, cfg, lineNumber, next, starts, edits>>

(* Any other answer, or the end of the input. *)
Misanswer ==
    /\ step \in {"use or edit", "save?", "iface"} \cup SettingKeys
    /\ step = "iface" => cfg.interface = NoText
    /\ Exit(2)
    /\ UNCHANGED <<disk, arguments, cfg, lineNumber, next, starts, edits, saved>>

(* prompt_iface, if no interface is set. *)
HaveInterface ==
    /\ step = "iface" /\ cfg.interface # NoText
    /\ GoTo("play")
    /\ UNCHANGED <<disk, arguments, cfg, lineNumber, next, starts, edits, saved>>

AskInterface ==
    /\ step = "iface" /\ cfg.interface = NoText
    /\ \E answer \in Answers["interface"] \ {NoText} :
           IF CanBeInterface(answer)
           THEN cfg' = [cfg EXCEPT !.interface = answer] /\ GoTo("play")
           ELSE Exit(2) /\ UNCHANGED cfg
    /\ UNCHANGED <<disk, arguments, lineNumber, next, starts, edits, saved>>

(* As server: the map, the handshake, the session; as client: the log, the  *)
(* handshake, the session.  Each may fail.                                  *)
PlayStep(role, from, to) ==
    /\ step = from /\ cfg.role = role
    /\ GoTo(to) \/ Exit(1)
    /\ UNCHANGED <<disk, arguments, cfg, lineNumber, next, starts, edits, saved>>

LoadMap == PlayStep("servidor", "play", "handshake")
RedirectLogs == PlayStep("cliente", "play", "handshake")
ShakeHands == \E role \in {"servidor", "cliente"} :
                  PlayStep(role, "handshake", "session")

EndOfSession ==
    /\ step = "session" /\ (Exit(0) \/ Exit(1))
    /\ UNCHANGED <<disk, arguments, cfg, lineNumber, next, starts, edits, saved>>

(* The program is started again, with the file as it is. *)
StartAgain ==
    /\ step = "exited" /\ starts < MaxStarts
    /\ starts' = starts + 1
    /\ arguments' \in Arguments
    /\ cfg' = Defaults /\ next' = Defaults
    /\ step' = "arguments" /\ exitCode' = 0
    /\ UNCHANGED <<disk, lineNumber, edits, saved>>

StartupNext ==
    \/ ParseArguments \/ OpenFile \/ ReadSettingLine \/ EndOfFile
    \/ Override \/ Use \/ Edit
    \/ \E key \in SettingKeys : KeepValue(key) \/ GiveValue(key) \/ SwitchOff(key)
    \/ Save \/ SaveCannotOpen \/ SaveIsCut \/ DoNotSave \/ Misanswer
    \/ HaveInterface \/ AskInterface
    \/ LoadMap \/ RedirectLogs \/ ShakeHands \/ EndOfSession \/ StartAgain

StartupSpec == StartupInit /\ [][StartupNext]_startupVars

-----------------------------------------------------------------------------
(* Properties. *)

(* The settings are those of the whole file or else the defaults, never the *)
(* lines before a bad one mixed with defaults; and whatever file, arguments *)
(* and answers there were, the game is played with settings in their ranges *)
(* (the ones the windows and views of the session take for granted), with a *)
(* map and an interface.                                                    *)
SettingsAreWhole ==
    /\ step = "override" => cfg = WholeFile(disk)
    /\ step \in {"play", "handshake", "session"} =>
           IsValid(cfg) /\ cfg.interface # NoText

(* The settings that were saved, up to the blanks around names - unless the *)
(* map's name is only blanks, which can be saved but not loaded: then every *)
(* setting is back to its default.                                          *)
AreLoaded(s) ==
    Effective(cfg) = IF Trimmed(s.map) = NoText THEN Defaults
                     ELSE Effective([s EXCEPT !.map = Trimmed(@),
                                              !.interface = Trimmed(@)])

(* All but one of them is as it was saved or as it is by default. *)
ArePartlyLoaded(s) ==
    \E torn \in SettingKeys : \A key \in SettingKeys \ {torn} :
        cfg[key] \in {Defaults[key], ValueOf(LineOf(s, key))}

(* What was saved is what the next start plays with.  When the save was cut *)
(* it plays with no more than one value that nobody chose, the one the cut  *)
(* went through: no two lines run into one, and none takes another's value. *)
SavedIsLoaded ==
    step = "override" => \A save \in saved :
        IF save.whole THEN AreLoaded(save.settings) ELSE ArePartlyLoaded(save.settings)
=============================================================================
