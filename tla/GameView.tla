------------------------------- MODULE GameView -------------------------------
(***************************************************************************)
(* What the player gets to see: src/domain/visibility.c, the view growth   *)
(* and the pellet overlay of src/app/game_session.c, on top of the turns   *)
(* of GameBoard.                                                           *)
(***************************************************************************)
EXTENDS GameBoard

CONSTANTS
    Modes,              \* subset of "CLEAR", "FLASHLIGHT", "EXPLORE"
    InitialViewSize,    \* visualization_size of the configuration, 1 .. 5
    MovesPerIncrease    \* moves_per_view_increase, 1 .. 1000

ASSUME ViewConstants ==
    /\ Modes \subseteq {"CLEAR", "FLASHLIGHT", "EXPLORE"}
    /\ InitialViewSize \in 1 .. 5 /\ MovesPerIncrease \in 1 .. 1000

VARIABLES
    mode,       \* visibility_mode
    seen,       \* the cells marked as seen
    viewSize,   \* view_size, the diameter of the lit circle
    moves,      \* accepted_moves, modulo MovesPerIncrease
    view        \* the view sent last, or NoView

viewVars == <<mode, seen, viewSize, moves, view>>
gameVars == <<boardVars, viewVars>>

Masked == "masked"
NoView == [p \in Cells |-> Masked]

-----------------------------------------------------------------------------
Square(n) == n * n

(* is_inside_visibility_mask: a circle around PacMan, without square roots. *)
IsLit(p, size) ==
    4 * (Square(p[1] - pacman[1]) + Square(p[2] - pacman[2])) <= Square(size)

(* Mutant: what was seen before is forgotten. *)
SeenNow(size) ==
    IF mode = "CLEAR" THEN Cells ELSE {p \in Cells : IsLit(p, size)}

(* game_visibility_build_masked_map: the cells seen from now on, *)
SeenAfter(size) ==
    IF mode = "CLEAR" THEN Cells ELSE seen \cup {p \in Cells : IsLit(p, size)}

(* and the cells shown: all of them once all were seen. *)
Shown(size) ==
    IF SeenAfter(size) = Cells THEN Cells
    ELSE IF mode = "FLASHLIGHT" THEN {p \in Cells : IsLit(p, size)}
    ELSE SeenAfter(size)

MaskedMap(board, size) ==
    [p \in Cells |-> IF p \in Shown(size) THEN board[p] ELSE Masked]

(* Mutant: the failed pellet is drawn over whoever stands on it. *)
OverlaidOverActors(picture, board) ==
    IF failed.active /\ picture[failed.position] # Masked
    THEN [picture EXCEPT ![failed.position] = failed.cell] ELSE picture

(* failed_pellet_overlay_view *)
Overlaid(picture, board) ==
    IF /\ failed.active
       /\ picture[failed.position] # Masked
       /\ board[failed.position] \notin {"P"} \cup GhostSymbols
    THEN [picture EXCEPT ![failed.position] = failed.cell] ELSE picture

-----------------------------------------------------------------------------
ViewInit ==
    /\ BoardInit
    /\ mode \in Modes /\ seen = {} /\ viewSize = InitialViewSize
    /\ moves = 0 /\ view = NoView

(* An accepted move counts, whether PacMan moved or not. *)
CountedMove ==
    /\ PacManStep
    /\ moves' = (moves + 1) % MovesPerIncrease
    /\ UNCHANGED <<mode, seen, viewSize, view>>

HiddenGhostStep == GhostStep /\ UNCHANGED viewVars

(* Mutant: the view grows even when all was seen. *)
GrowingWithoutEnd ==
    /\ FilesStep
    /\ viewSize' = IF moves = 0 THEN viewSize + 2 ELSE viewSize
    /\ UNCHANGED <<mode, seen, moves, view>>

(* The view grows with every so many moves, until all of the map was seen. *)
GrowingFilesStep ==
    /\ FilesStep
    /\ viewSize' = IF seen # Cells /\ moves = 0 THEN viewSize + 2 ELSE viewSize
    /\ UNCHANGED <<mode, seen, moves, view>>

HiddenRepeat == RepeatMove /\ UNCHANGED viewVars

(* build_view_cells, on the board with the failed pellet back. *)
ShowView ==
    /\ RestorePellet
    /\ seen' = SeenAfter(viewSize)
    /\ view' = Overlaid(MaskedMap(cells', viewSize), cells')
    /\ UNCHANGED <<mode, viewSize, moves>>

ViewNext ==
    CountedMove \/ HiddenGhostStep \/ GrowingFilesStep \/ HiddenRepeat \/ ShowView

ViewSpec == ViewInit /\ [][ViewNext]_gameVars

-----------------------------------------------------------------------------
(* Properties. *)

(* Every variable stays in its range. *)
ViewTypeOK ==
    /\ BoardTypeOK
    /\ mode \in Modes /\ seen \subseteq Cells
    /\ viewSize \in Nat \ {0} /\ moves \in 0 .. MovesPerIncrease - 1
    /\ view \in [Cells -> Symbols \cup {Masked}]

(* The view in the player's hands is the board: whatever it does not mask   *)
(* is what the cell holds, the overlaid pellet included.                    *)
ViewIsTheBoard ==
    step = "move" => \A p \in Cells : view[p] \in {cells[p], Masked}

(* Exploring, the player never loses sight of a cell again; and once a      *)
(* whole view was shown every later one is whole, in each mode, however     *)
(* small its circle.                                                        *)
ExploredStaysShown ==
    [][mode = "EXPLORE" \/ (\A p \in Cells : view[p] # Masked) =>
           \A p \in Cells : view[p] # Masked => view'[p] # Masked]_gameVars

(* The circle stops growing once it covers the map from any corner, because *)
(* the view then marks the last cell as seen before the next growth.        *)
GrowthIsBounded ==
    \/ viewSize = InitialViewSize
    \/ Square(viewSize - 2) < 4 * (Square(Rows - 1) + Square(Cols - 1))
=============================================================================
