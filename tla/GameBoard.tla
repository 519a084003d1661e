------------------------------ MODULE GameBoard ------------------------------
(***************************************************************************)
(* The board the server plays on: src/domain/map.c and movement.c, and the *)
(* failed pellet of src/app/game_session.c.  A turn moves PacMan, then the *)
(* four ghosts in their order, then sends the files of the turn; a pellet  *)
(* whose file cannot be sent comes back to the board.  The cells are one   *)
(* grid of symbols, so an actor hides what lies under it, and each place   *)
(* that writes a cell has to put back the right symbol.                    *)
(***************************************************************************)
EXTENDS Integers, FiniteSets

CONSTANTS
    Rows, Cols,     \* GAME_MAP_SIZE, 40 and 40 in the program
    Maps            \* the maps that may be loaded

Cells == (1 .. Rows) \X (1 .. Cols)
GhostSymbols == {"R", "B", "G", "Y"}
Pellets == {"1", "2", "3", "4", "5", "6"}
Symbols == {"P", "X", "0"} \cup GhostSymbols \cup Pellets
Directions == {"RIGHT", "LEFT", "UP", "DOWN"}
None == "none"

(* game_map_load takes a grid of valid symbols with exactly one PacMan.     *)
IsValidMap(m) ==
    /\ m \in [Cells -> Symbols]
    /\ Cardinality({p \in Cells : m[p] = "P"}) = 1

ASSUME BoardConstants ==
    /\ Rows \in Nat /\ Cols \in Nat
    /\ \A m \in Maps : IsValidMap(m)

VARIABLES
    cells,      \* the symbols on the board
    pacman,     \* the position of PacMan
    ghosts,     \* the state of each ghost
    step,       \* "move", the ghost about to move, "files", "view" or "over"
    entered,    \* pacman_entered_cell
    met,        \* encountered_ghost
    failed,     \* the failed pellet: active, position and cell
    start,      \* the map that was loaded (auxiliary)
    delivered   \* positions of the pellets whose file was sent (auxiliary)

boardVars == <<cells, pacman, ghosts, step, entered, met, failed, start,
               delivered>>

-----------------------------------------------------------------------------
(* Directions. *)

Neighbour(p, d) ==
    CASE d = "RIGHT" -> <<p[1], p[2] + 1>>
      [] d = "LEFT"  -> <<p[1], p[2] - 1>>
      [] d = "UP"    -> <<p[1] - 1, p[2]>>
      [] d = "DOWN"  -> <<p[1] + 1, p[2]>>

TurnLeft(d) == CASE d = "RIGHT" -> "UP"   [] d = "LEFT" -> "DOWN"
                 [] d = "UP"    -> "LEFT" [] d = "DOWN" -> "RIGHT"
TurnRight(d) == CASE d = "RIGHT" -> "DOWN"  [] d = "LEFT" -> "UP"
                  [] d = "UP"    -> "RIGHT" [] d = "DOWN" -> "LEFT"
TurnBack(d) == TurnLeft(TurnLeft(d))

(* Mutant: turning back is tried before turning right. *)
LeftHandBackFirst(d) == <<TurnLeft(d), d, TurnBack(d), TurnRight(d)>>

LeftHand(d) == <<TurnLeft(d), d, TurnRight(d), TurnBack(d)>>
RightHand(d) == <<TurnRight(d), d, TurnLeft(d), TurnBack(d)>>

-----------------------------------------------------------------------------
(* game_map_refresh_actors: of two ghosts with one symbol the last one in   *)
(* reading order moves, the other one stays where it is for ever.           *)

Positions(m, s) == {p \in Cells : m[p] = s}
LastOf(places) ==
    CHOOSE p \in places : \A q \in places :
        q[1] < p[1] \/ (q[1] = p[1] /\ q[2] <= p[2])

LoadedGhost(m, g) ==
    [active |-> Positions(m, g) # {},
     position |-> IF Positions(m, g) # {} THEN LastOf(Positions(m, g))
                                          ELSE <<1, 1>>,
     direction |-> "UP", prefersRight |-> TRUE, under |-> "0"]

NoFailure == [active |-> FALSE, position |-> <<1, 1>>, cell |-> "0"]

BoardInit ==
    /\ start \in Maps
    /\ cells = start
    /\ pacman = LastOf(Positions(start, "P"))
    /\ ghosts = [g \in GhostSymbols |-> LoadedGhost(start, g)]
    /\ step = "view" /\ entered = None /\ met = None
    /\ failed = NoFailure
    /\ delivered = {}

-----------------------------------------------------------------------------
(* PacMan. *)

(* failed_pellet_restore_if_unoccupied *)
Restored(board) ==
    IF failed.active /\ board[failed.position] = "0"
    THEN [board EXCEPT ![failed.position] = failed.cell] ELSE board

GhostsAt(p) == {g \in GhostSymbols : ghosts[g].active /\ ghosts[g].position = p}

(* What PacMan leaves behind. *)
Left(p) == IF GhostsAt(p) = {} THEN "0" ELSE CHOOSE g \in GhostsAt(p) : TRUE

CanEnter(p) == p \in Cells /\ cells[p] # "X"

(* game_session_apply_server_turn, its first half: PacMan goes to the cell  *)
(* that way, and the failed pellet comes back if it was under him,          *)
MovePacMan(d) ==
    LET to == Neighbour(pacman, d)
    IN  /\ step = "move"
        /\ CanEnter(to)
        /\ cells' = Restored([cells EXCEPT ![pacman] = Left(pacman),
                                           ![to] = "P"])
        /\ pacman' = to
        /\ entered' = cells[to]
        /\ met' = IF cells[to] \in GhostSymbols THEN cells[to] ELSE None
        /\ step' = "R"
        /\ UNCHANGED <<ghosts, failed, start, delivered>>

(* unless a wall or the border is there: the ghosts move all the same.      *)
BlockedPacMan(d) ==
    LET to == Neighbour(pacman, d)
    IN  /\ step = "move"
        /\ ~CanEnter(to)
        /\ entered' = None /\ met' = None
        /\ step' = "R"
        /\ UNCHANGED <<cells, pacman, ghosts, failed, start, delivered>>

(* A move the client sent again: no turn, but the view is sent again.       *)
RepeatMove ==
    /\ step = "move"
    /\ step' = "view"
    /\ UNCHANGED <<cells, pacman, ghosts, entered, met, failed, start, delivered>>

-----------------------------------------------------------------------------
(* The ghosts. *)

NextGhost == [R |-> "B", B |-> "G", G |-> "Y", Y |-> "files"]

(* Mutant: what was under the ghost is put back on PacMan too. *)
ClearedBlindly(g) == [cells EXCEPT ![ghosts[g].position] = ghosts[g].under]

(* clear_ghost_origin *)
Cleared(g) ==
    [cells EXCEPT ![ghosts[g].position] =
        IF pacman = ghosts[g].position THEN "P" ELSE ghosts[g].under]

(* Mutant: only walls stop a ghost. *)
IsFreeOfWalls(board, p) == p \in Cells /\ board[p] # "X"

(* ghost_can_move_to *)
IsFree(board, p) == p \in Cells /\ board[p] \notin {"X"} \cup GhostSymbols

FreeWays(board, g) ==
    {d \in Directions : IsFree(board, Neighbour(ghosts[g].position, d))}

FirstFree(board, g, order) ==
    order[CHOOSE i \in 1 .. 4 :
            /\ order[i] \in FreeWays(board, g)
            /\ \A j \in 1 .. i - 1 : order[j] \notin FreeWays(board, g)]

(* choose_ghost_direction, when there is a way: red keeps its left hand on  *)
(* the wall, blue its right one, green takes turns and yellow takes any.    *)
Choices(board, g) ==
    LET d == ghosts[g].direction
    IN  CASE g = "R" -> {FirstFree(board, g, LeftHand(d))}
          [] g = "B" -> {FirstFree(board, g, RightHand(d))}
          [] g = "G" -> {FirstFree(board, g, IF ghosts[g].prefersRight
                                             THEN RightHand(d) ELSE LeftHand(d))}
          [] g = "Y" -> FreeWays(board, g)

(* Green turns right and left in turn. *)
TurnsNextTime(g) ==
    IF g = "G" THEN ~ghosts[g].prefersRight ELSE ghosts[g].prefersRight

(* Mutant: a ghost that walks into PacMan is not reported. *)
PlaceGhostUnnoticed(board, g, p, d) ==
    /\ ghosts' = [ghosts EXCEPT ![g] =
           [active |-> TRUE, position |-> p, direction |-> d,
            prefersRight |-> TurnsNextTime(g),
            under |-> IF board[p] = "P" THEN "0" ELSE board[p]]]
    /\ cells' = IF board[p] = "P" THEN board ELSE [board EXCEPT ![p] = g]
    /\ UNCHANGED met

(* render_ghost_destination, and the end of move_single_ghost *)
PlaceGhost(board, g, p, d) ==
    /\ ghosts' = [ghosts EXCEPT ![g] =
           [active |-> TRUE, position |-> p, direction |-> d,
            prefersRight |-> TurnsNextTime(g),
            under |-> IF board[p] = "P" THEN "0" ELSE board[p]]]
    /\ cells' = IF board[p] = "P" THEN board ELSE [board EXCEPT ![p] = g]
    /\ met' = IF board[p] = "P" /\ met = None THEN g ELSE met

(* move_single_ghost *)
MoveGhost(g) ==
    LET board == Cleared(g)
    IN  /\ step = g /\ ghosts[g].active
        /\ FreeWays(board, g) # {}
        /\ \E d \in Choices(board, g) :
               PlaceGhost(board, g, Neighbour(ghosts[g].position, d), d)
        /\ step' = NextGhost[g]
        /\ UNCHANGED <<pacman, entered, failed, start, delivered>>

(* A ghost with no way out stays, and takes its place again. *)
StuckGhost(g) ==
    LET board == Cleared(g)
    IN  /\ step = g /\ ghosts[g].active
        /\ FreeWays(board, g) = {}
        /\ PlaceGhost(board, g, ghosts[g].position, ghosts[g].direction)
        /\ step' = NextGhost[g]
        /\ UNCHANGED <<pacman, entered, failed, start, delivered>>

AbsentGhost(g) ==
    /\ step = g /\ ~ghosts[g].active
    /\ step' = NextGhost[g]
    /\ UNCHANGED <<cells, pacman, ghosts, entered, met, failed, start, delivered>>

-----------------------------------------------------------------------------
(* The files of the turn: the pellet's, then the ghost's; then END or a view. *)

AfterFiles == step' = IF met = None THEN "view" ELSE "over"

NoPellet ==
    /\ step = "files" /\ entered \notin Pellets
    /\ AfterFiles
    /\ UNCHANGED <<cells, pacman, ghosts, entered, met, failed, start, delivered>>

(* Mutant: a pellet that is fetched at last stays the failed pellet. *)
PelletDeliveredTwice ==
    /\ step = "files" /\ entered \in Pellets
    /\ delivered' = delivered \cup {pacman}
    /\ AfterFiles
    /\ UNCHANGED <<cells, pacman, ghosts, entered, met, failed, start>>

(* The file arrived: failed_pellet_clear_if_matches. *)
PelletDelivered ==
    /\ step = "files" /\ entered \in Pellets
    /\ failed' = IF failed.active /\ failed.cell = entered
                        /\ failed.position = pacman
                 THEN [failed EXCEPT !.active = FALSE] ELSE failed
    /\ delivered' = delivered \cup {pacman}
    /\ AfterFiles
    /\ UNCHANGED <<cells, pacman, ghosts, entered, met, start>>

(* It could not be sent: failed_pellet_set, which forgets any other one. *)
PelletFailed ==
    /\ step = "files" /\ entered \in Pellets
    /\ failed' = [active |-> TRUE, position |-> pacman, cell |-> entered]
    /\ AfterFiles
    /\ UNCHANGED <<cells, pacman, ghosts, entered, met, start, delivered>>

(* The end of the turn: what is shown is the board with the pellet back. *)
RestorePellet ==
    /\ step = "view"
    /\ cells' = Restored(cells)
    /\ step' = "move"
    /\ UNCHANGED <<pacman, ghosts, entered, met, failed, start, delivered>>

PacManStep == \E d \in Directions : MovePacMan(d) \/ BlockedPacMan(d)
GhostStep == \E g \in GhostSymbols : MoveGhost(g) \/ StuckGhost(g) \/ AbsentGhost(g)
FilesStep == NoPellet \/ PelletDelivered \/ PelletFailed

BoardNext == PacManStep \/ RepeatMove \/ GhostStep \/ FilesStep \/ RestorePellet

BoardSpec == BoardInit /\ [][BoardNext]_boardVars

-----------------------------------------------------------------------------
(* Properties. *)

(* Every variable stays in its range; under a ghost there is floor or a     *)
(* pellet, never an actor or a wall.                                        *)
BoardTypeOK ==
    /\ cells \in [Cells -> Symbols] /\ pacman \in Cells /\ start \in Maps
    /\ ghosts \in [GhostSymbols ->
           [active : BOOLEAN, position : Cells, direction : Directions,
            prefersRight : BOOLEAN, under : {"0"} \cup Pellets]]
    /\ step \in {"move", "files", "view", "over"} \cup GhostSymbols
    /\ entered \in Symbols \cup {None} /\ met \in GhostSymbols \cup {None}
    /\ failed \in [active : BOOLEAN, position : Cells,
                   cell : {"0"} \cup Pellets]
    /\ delivered \subseteq Cells

(* What a map has at p is not the one of its symbol that LoadedGhost takes. *)
IsTwin(m, p) == p # LastOf(Positions(m, m[p]))

(* Two copies of where everybody is, the grid and the positions, agree      *)
(* after every write: PacMan is where "P" is and nowhere else, each ghost   *)
(* shows its symbol unless PacMan does, and no cell shows a ghost that left *)
(* - but for a second ghost of one symbol, which stays where the map has it.*)
CellsShowActors ==
    /\ \A p \in Cells : cells[p] = "P" <=> p = pacman
    /\ \A g \in GhostSymbols : ghosts[g].active =>
           cells[ghosts[g].position] =
               IF ghosts[g].position = pacman THEN "P" ELSE g
    /\ \A p \in Cells : cells[p] \in GhostSymbols =>
           p = ghosts[cells[p]].position \/ (cells[p] = start[p] /\ IsTwin(start, p))

(* While the game goes on no two ghosts share a cell: one of them would     *)
(* keep the other one's symbol under it.                                    *)
GhostsApart ==
    met = None =>
        \A g, h \in GhostSymbols :
            g # h /\ ghosts[g].active /\ ghosts[h].active =>
                ghosts[g].position # ghosts[h].position

(* PacMan and a ghost do not meet unnoticed, whoever walks into whom.       *)
ContactEndsGame ==
    \A g \in GhostSymbols :
        ghosts[g].active /\ ghosts[g].position = pacman => met # None

(* While the game goes on no pellet gets lost and none is sent twice: each  *)
(* one of the map was delivered and is nowhere, or lies open, under the     *)
(* ghost on it, or under PacMan, who is about to fetch it or failed to.     *)
PelletsConserved ==
    met = None => \A p \in Cells : start[p] \in Pellets =>
        LET open == cells[p] = start[p]
            underGhost == \E g \in GhostsAt(p) : ghosts[g].under = start[p]
            atHand == pacman = p /\ entered = start[p]
                        /\ step \in GhostSymbols \cup {"files"}
            waiting == pacman = p /\ failed.active /\ failed.position = p
                         /\ failed.cell = start[p]
        IN  IF p \in delivered THEN ~(open \/ underGhost \/ waiting)
                               ELSE open \/ underGhost \/ atHand \/ waiting

(* A ghost with a wall-following rule turns back only in a dead end.        *)
TurnsBackInDeadEnds ==
    [][\A g \in {"R", "B", "G"} :
           ghosts'[g].direction # ghosts[g].direction
             /\ ghosts'[g].direction = TurnBack(ghosts[g].direction) =>
               FreeWays(Cleared(g), g) = {TurnBack(ghosts[g].direction)}
      ]_boardVars
=============================================================================
