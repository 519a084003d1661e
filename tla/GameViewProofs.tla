---------------------------- MODULE GameViewProofs ----------------------------
(***************************************************************************)
(* What the player is shown, for boards of every size, all valid maps and  *)
(* every setting of the view.  A view adds nothing to the turns, so the    *)
(* theorems about the board hold of the whole game.                        *)
(***************************************************************************)
EXTENDS GameView, GameBoardProofs

(* Walls are those of the map. *)
WallsInv == \A p \in Cells : cells[p] = "X" => start[p] = "X"

(* What is shown was seen; and a circle that covers the map leaves nothing  *)
(* to be seen once it was shown.                                            *)
Diagonal == 4 * (Square(Rows - 1) + Square(Cols - 1))

SeenInv ==
    /\ mode \in Modes /\ seen \subseteq Cells
    /\ viewSize \in Nat \ {0} /\ moves \in 0 .. MovesPerIncrease - 1
    /\ view \in [Cells -> Symbols \cup {Masked}]
    /\ \A p \in Cells : view[p] # Masked => p \in seen
    /\ step \in {"move", "files"} \cup GhostSymbols =>
           seen = Cells \/ Square(viewSize) < Diagonal

GameInv == BoardInv /\ WallsInv /\ SeenInv /\ ViewIsTheBoard /\ GrowthIsBounded

-----------------------------------------------------------------------------
LEMMA ViewStepIsBoardStep ==
    [ViewNext]_gameVars => [BoardNext]_boardVars
BY DEF ViewNext, CountedMove, HiddenGhostStep, GrowingFilesStep, HiddenRepeat,
       ShowView, BoardNext, gameVars, boardVars

LEMMA SquaresGrow ==
    ASSUME NEW n \in Nat, NEW a \in Int, a <= n, -n <= a
    PROVE  Square(a) \in Nat /\ Square(a) <= Square(n)
<1>1. /\ (n - a) * (n + a) >= 0
      /\ (n - a) * (n + a) = n * n - a * a
      /\ a * a >= 0 /\ a * a \in Int /\ n * n \in Int
  OBVIOUS
<1>2. QED
  BY <1>1 DEF Square

(* Each cell is within a diagonal of PacMan. *)
LEMMA CoveringCircle ==
    ASSUME BoardTypeOK, NEW size \in Nat, Square(size) >= Diagonal,
           NEW p \in Cells
    PROVE  IsLit(p, size)
<1>1. /\ Rows \in Nat /\ Cols \in Nat
      /\ p[1] \in 1 .. Rows /\ p[2] \in 1 .. Cols
      /\ pacman[1] \in 1 .. Rows /\ pacman[2] \in 1 .. Cols
  BY BoardConstants DEF BoardTypeOK, Cells
<1>2. /\ Square(p[1] - pacman[1]) <= Square(Rows - 1)
      /\ Square(p[1] - pacman[1]) \in Nat
  BY <1>1, SquaresGrow
<1>3. /\ Square(p[2] - pacman[2]) <= Square(Cols - 1)
      /\ Square(p[2] - pacman[2]) \in Nat
  BY <1>1, SquaresGrow
<1>4. /\ Square(Rows - 1) \in Nat /\ Square(Cols - 1) \in Nat
      /\ Square(size) \in Nat
  BY <1>1, SquaresGrow
<1>5. QED
  BY <1>2, <1>3, <1>4 DEF IsLit, Diagonal

-----------------------------------------------------------------------------
LEMMA InitGameInv == ViewInit => GameInv
<1> SUFFICES ASSUME ViewInit
             PROVE  GameInv
  OBVIOUS
<1>1. BoardInv
  BY InitBoardInv DEF ViewInit
<1>2. WallsInv
  BY DEF ViewInit, BoardInit, WallsInv
<1>3. SeenInv
  BY ViewConstants DEF ViewInit, BoardInit, SeenInv, NoView, Masked, GhostSymbols
<1>4. ViewIsTheBoard /\ GrowthIsBounded
  BY DEF ViewInit, BoardInit, ViewIsTheBoard, GrowthIsBounded
<1>5. QED
  BY <1>1, <1>2, <1>3, <1>4 DEF GameInv

(* No step puts up a wall. *)
LEMMA WallsStep ==
    ASSUME BoardInv, WallsInv, BoardNext
    PROVE  WallsInv'
<1>1. start' = start
  BY DEF BoardNext, PacManStep, MovePacMan, BlockedPacMan, RepeatMove, GhostStep,
         MoveGhost, StuckGhost, AbsentGhost, FilesStep, NoPellet,
         PelletDelivered, PelletFailed, RestorePellet
<1>2. SUFFICES ASSUME NEW p \in Cells, cells'[p] = "X"
               PROVE  cells[p] = "X"
  BY <1>1 DEF WallsInv
<1>3. cells \in [Cells -> Symbols] /\ pacman \in Cells
      /\ \A g \in GhostSymbols : ghosts[g].under # "X" /\ ghosts[g].position \in Cells
  BY SymbolsDiffer DEF BoardInv, ActorsInv, BoardTypeOK
<1>4. ASSUME NEW board \in [Cells -> Symbols], Restored(board)[p] = "X"
      PROVE  board[p] = "X"
  BY <1>4, RestoredCells, SymbolsDiffer DEF BoardInv, ActorsInv, PelletInv
<1>5. CASE PacManStep
  <2>1. CASE UNCHANGED cells
    BY <1>2, <2>1
  <2>2. ASSUME NEW d \in Directions, MovePacMan(d)
        PROVE  cells[p] = "X"
    <3> DEFINE to == Neighbour(pacman, d)
               board == [cells EXCEPT ![pacman] = Left(pacman), ![to] = "P"]
    <3>1. cells' = Restored(board) /\ to \in Cells
      BY <2>2 DEF MovePacMan, CanEnter
    <3>2. Left(pacman) \in Symbols /\ Left(pacman) # "X"
      <4>1. GhostsAt(pacman) = {} \/ Left(pacman) \in GhostsAt(pacman)
        BY DEF Left
      <4>2. QED
        BY <4>1, SymbolsDiffer DEF Left, GhostsAt, Symbols
    <3>3. board \in [Cells -> Symbols]
      BY <1>3, <3>1, <3>2 DEF Symbols
    <3>4. board[p] = "X"
      BY <1>2, <1>4, <3>1, <3>3
    <3>5. QED
      BY <1>3, <3>2, <3>4
  <2>3. QED
    BY <1>5, <2>1, <2>2 DEF PacManStep, BlockedPacMan
<1>6. CASE GhostStep
  <2>1. PICK g \in GhostSymbols : MoveGhost(g) \/ StuckGhost(g) \/ AbsentGhost(g)
    BY <1>6 DEF GhostStep
  <2>2. \/ UNCHANGED cells \/ cells' = Cleared(g)
        \/ \E q : cells' = [Cleared(g) EXCEPT ![q] = g]
    BY <2>1 DEF MoveGhost, StuckGhost, AbsentGhost, PlaceGhost
  <2>3. Cleared(g) \in [Cells -> Symbols] /\ (Cleared(g)[p] = "X" => cells[p] = "X")
    <3>1. /\ (IF pacman = ghosts[g].position THEN "P" ELSE ghosts[g].under) \in Symbols
          /\ (IF pacman = ghosts[g].position THEN "P" ELSE ghosts[g].under) # "X"
      BY SymbolsDiffer DEF BoardInv, ActorsInv, BoardTypeOK, Symbols
    <3>2. QED
      BY <1>3, <3>1 DEF Cleared
  <2>4. QED
    BY <1>2, <2>2, <2>3, SymbolsDiffer
<1>7. CASE RepeatMove \/ FilesStep
  BY <1>2, <1>7 DEF RepeatMove, FilesStep, NoPellet, PelletDelivered, PelletFailed
<1>8. CASE RestorePellet
  BY <1>2, <1>3, <1>4, <1>8 DEF RestorePellet
<1>9. QED
  BY <1>5, <1>6, <1>7, <1>8 DEF BoardNext

(* The steps that show nothing. *)
LEMMA HiddenSteps ==
    ASSUME GameInv, CountedMove \/ HiddenGhostStep \/ HiddenRepeat
    PROVE  SeenInv' /\ ViewIsTheBoard' /\ GrowthIsBounded'
<1>1. /\ moves' \in 0 .. MovesPerIncrease - 1
      /\ UNCHANGED <<mode, seen, viewSize, view>>
  BY ViewConstants
     DEF CountedMove, HiddenGhostStep, HiddenRepeat, viewVars, GameInv, SeenInv
<1>2. step \in {"move"} \cup GhostSymbols /\ step' # "move"
  <2>1. CASE CountedMove
    BY <2>1 DEF CountedMove, PacManStep, MovePacMan, BlockedPacMan
  <2>2. CASE HiddenGhostStep
    <3>1. PICK g \in GhostSymbols : step = g /\ step' = NextGhost[g]
      BY <2>2 DEF HiddenGhostStep, GhostStep, MoveGhost, StuckGhost, AbsentGhost
    <3>2. QED
      BY <3>1 DEF NextGhost, GhostSymbols
  <2>3. CASE HiddenRepeat
    BY <2>3 DEF HiddenRepeat, RepeatMove
  <2>4. QED
    BY <2>1, <2>2, <2>3
<1>3. SeenInv'
  BY <1>1, <1>2 DEF GameInv, SeenInv
<1>4. ViewIsTheBoard' /\ GrowthIsBounded'
  BY <1>1, <1>2 DEF GameInv, ViewIsTheBoard, GrowthIsBounded
<1>5. QED
  BY <1>3, <1>4

LEMMA GrowingStep ==
    ASSUME GameInv, GrowingFilesStep
    PROVE  SeenInv' /\ ViewIsTheBoard' /\ GrowthIsBounded'
<1>1. /\ step = "files" /\ step' \in {"view", "over"}
      /\ viewSize' = IF seen # Cells /\ moves = 0 THEN viewSize + 2 ELSE viewSize
      /\ UNCHANGED <<mode, seen, moves, view>>
  BY DEF GrowingFilesStep, FilesStep, NoPellet, PelletDelivered, PelletFailed,
         AfterFiles
<1>2. viewSize' \in Nat \ {0}
  BY <1>1 DEF GameInv, SeenInv
<1>3. SeenInv'
  BY <1>1, <1>2 DEF GameInv, SeenInv, GhostSymbols
<1>4. ViewIsTheBoard'
  BY <1>1 DEF ViewIsTheBoard
<1>5. GrowthIsBounded'
  <2>1. CASE viewSize' = viewSize
    BY <2>1 DEF GameInv, GrowthIsBounded
  <2>2. CASE viewSize' = viewSize + 2 /\ seen # Cells
    <3>1. Square(viewSize) < Diagonal /\ viewSize \in Nat
      BY <1>1, <2>2 DEF GameInv, SeenInv
    <3>2. viewSize' - 2 = viewSize
      BY <2>2, <3>1
    <3>3. QED
      BY <3>1, <3>2 DEF GrowthIsBounded, Diagonal
  <2>3. QED
    BY <1>1, <2>1, <2>2
<1>6. QED
  BY <1>3, <1>4, <1>5

(* What a new view shows, and what was seen by then. *)
LEMMA NewView ==
    ASSUME GameInv, ShowView
    PROVE  /\ seen \subseteq seen' /\ seen' \subseteq Cells
           /\ \A p \in Cells : view'[p] # Masked <=> p \in Shown(viewSize)
           /\ \A p \in Cells : view'[p] \in {cells'[p], Masked}
           /\ Shown(viewSize) \subseteq seen'
           /\ seen' # Cells => Square(viewSize) < Diagonal
           /\ mode = "EXPLORE" \/ seen = Cells => seen \subseteq Shown(viewSize)
           /\ view' \in [Cells -> Symbols \cup {Masked}]
<1>1. /\ seen' = SeenAfter(viewSize)
      /\ view' = Overlaid(MaskedMap(cells', viewSize), cells')
      /\ UNCHANGED <<mode, viewSize, moves>>
      /\ step = "view" /\ cells' = Restored(cells) /\ UNCHANGED <<failed, start>>
  BY DEF ShowView, RestorePellet
<1>2. /\ BoardTypeOK /\ PelletInv /\ seen \subseteq Cells /\ viewSize \in Nat
      /\ cells \in [Cells -> Symbols] /\ failed.position \in Cells
  BY DEF GameInv, BoardInv, ActorsInv, BoardTypeOK, SeenInv
<1>3. /\ cells' \in [Cells -> Symbols]
      /\ failed.active /\ cells[failed.position] = "0" =>
             cells'[failed.position] = failed.cell
      /\ \A p \in Cells : cells[p] # "0" => cells'[p] = cells[p]
  BY <1>1, <1>2, RestoredCells
<1>4. Masked \notin Symbols /\ Masked \notin Pellets
  BY DEF Masked, Symbols, GhostSymbols, Pellets
<1>5. failed.active => /\ failed.cell \in Pellets
                       /\ failed.cell = start[failed.position]
  BY <1>2 DEF PelletInv
<1>6. ASSUME failed.active, cells'[failed.position] \notin {"P"} \cup GhostSymbols
      PROVE  cells'[failed.position] = failed.cell
  <2> DEFINE q == failed.position
  <2>1. cells[q] \in {"0"} \cup Pellets
    <3>1. cells[q] \in Symbols /\ cells[q] \notin {"P"} \cup GhostSymbols
      BY <1>2, <1>3, <1>6, SymbolsDiffer
    <3>2. cells[q] # "X"
      BY <1>2, <1>5, <1>6, SymbolsDiffer DEF GameInv, WallsInv
    <3>3. QED
      BY <3>1, <3>2 DEF Symbols
  <2>2. CASE cells[q] = "0"
    BY <1>3, <1>6, <2>2
  <2>3. CASE cells[q] \in Pellets
    BY <1>2, <1>3, <1>5, <1>6, <2>3, SymbolsDiffer DEF PelletInv
  <2>4. QED
    BY <2>1, <2>2, <2>3
<1> DEFINE picture == MaskedMap(cells', viewSize)
<1>7. /\ picture \in [Cells -> Symbols \cup {Masked}]
      /\ \A p \in Cells : picture[p] =
             IF p \in Shown(viewSize) THEN cells'[p] ELSE Masked
  BY <1>3 DEF MaskedMap
<1> HIDE DEF picture
<1>8. \A p \in Cells : view'[p] = picture[p]
  <2>1. \/ view' = picture
        \/ /\ failed.active /\ picture[failed.position] # Masked
           /\ cells'[failed.position] \notin {"P"} \cup GhostSymbols
           /\ view' = [picture EXCEPT ![failed.position] = failed.cell]
    BY <1>1 DEF Overlaid, picture
  <2>2. picture[failed.position] # Masked =>
            picture[failed.position] = cells'[failed.position]
    BY <1>2, <1>7
  <2>3. QED
    BY <1>2, <1>6, <1>7, <2>1, <2>2
<1>9. view' \in [Cells -> Symbols \cup {Masked}]
  <2>1. failed.active => failed.cell \in Symbols
    BY <1>5, SymbolsDiffer
  <2>2. QED
    BY <1>1, <1>2, <1>7, <2>1 DEF Overlaid, picture
<1>10. \A p \in Cells : cells'[p] # Masked
  BY <1>3, <1>4
<1>11. /\ seen \subseteq seen' /\ seen' \subseteq Cells
       /\ Shown(viewSize) \subseteq seen'
       /\ mode = "EXPLORE" \/ seen = Cells => seen \subseteq Shown(viewSize)
  <2>1. seen' = Cells \/ seen' = seen \cup {p \in Cells : IsLit(p, viewSize)}
    BY <1>1 DEF SeenAfter
  <2>2. seen' # Cells => seen' = seen \cup {p \in Cells : IsLit(p, viewSize)}
    BY <2>1
  <2>3. /\ seen \subseteq seen' /\ seen' \subseteq Cells
    BY <1>2, <2>1
  <2>4. seen' = Cells => Shown(viewSize) = Cells
    BY <1>1 DEF Shown
  <2>5. seen' # Cells => Shown(viewSize) = {p \in Cells : IsLit(p, viewSize)}
                         \/ Shown(viewSize) = seen'
    BY <1>1 DEF Shown
  <2>6. seen' # Cells /\ mode = "EXPLORE" => Shown(viewSize) = seen'
    BY <1>1 DEF Shown
  <2>7. QED
    BY <2>2, <2>3, <2>4, <2>5, <2>6
<1>12. seen' # Cells => Square(viewSize) < Diagonal
  <2> SUFFICES ASSUME ~(Square(viewSize) < Diagonal)
               PROVE  seen' = Cells
    OBVIOUS
  <2>1. Square(viewSize) >= Diagonal
    <3>1. Square(viewSize) \in Int /\ Diagonal \in Int
      BY <1>2, BoardConstants DEF Square, Diagonal
    <3>2. QED
      BY <3>1
  <2>2. {p \in Cells : IsLit(p, viewSize)} = Cells
    BY <1>2, <2>1, CoveringCircle
  <2>3. QED
    BY <1>1, <1>2, <2>2 DEF SeenAfter
<1>13. QED
  BY <1>7, <1>8, <1>9, <1>10, <1>11, <1>12

LEMMA ShowStep ==
    ASSUME GameInv, ShowView
    PROVE  SeenInv' /\ ViewIsTheBoard' /\ GrowthIsBounded'
<1>1. step = "view" /\ UNCHANGED <<mode, viewSize, moves>>
  BY DEF ShowView, RestorePellet
<1>2. SeenInv'
  <2>1. \A p \in Cells : view'[p] # Masked => p \in seen'
    BY NewView
  <2>2. QED
    BY <1>1, <2>1, NewView DEF GameInv, SeenInv
<1>3. ViewIsTheBoard' /\ GrowthIsBounded'
  BY <1>1, NewView DEF GameInv, ViewIsTheBoard, GrowthIsBounded
<1>4. QED
  BY <1>2, <1>3

LEMMA GameStep == GameInv /\ [ViewNext]_gameVars => GameInv'
<1> SUFFICES ASSUME GameInv, [ViewNext]_gameVars
             PROVE  GameInv'
  OBVIOUS
<1>1. BoardInv'
  BY ViewStepIsBoardStep, BoardStep DEF GameInv
<1>2. CASE ViewNext
  <2>1. BoardNext
    BY <1>2 DEF ViewNext, CountedMove, HiddenGhostStep, GrowingFilesStep,
                HiddenRepeat, ShowView, BoardNext
  <2>2. WallsInv'
    BY <2>1, WallsStep DEF GameInv
  <2>3. SeenInv' /\ ViewIsTheBoard' /\ GrowthIsBounded'
    BY <1>2, HiddenSteps, GrowingStep, ShowStep DEF ViewNext
  <2>4. QED
    BY <1>1, <2>2, <2>3 DEF GameInv
<1>3. CASE UNCHANGED gameVars
  BY <1>1, <1>3 DEF gameVars, boardVars, viewVars, GameInv, WallsInv, SeenInv,
                    ViewIsTheBoard, GrowthIsBounded
<1>4. QED
  BY <1>2, <1>3

(* The game is one of the games of the board: whatever was proved of these  *)
(* holds of it.                                                             *)
THEOREM ViewShowsABoardGame == ViewSpec => BoardSpec
<1>1. ViewInit => BoardInit
  BY DEF ViewInit
<1>2. QED
  BY <1>1, ViewStepIsBoardStep, PTL DEF ViewSpec, BoardSpec

(* The invariant of the view, for all settings. *)
THEOREM GameInvariant == ViewSpec => []GameInv
BY InitGameInv, GameStep, PTL DEF ViewSpec

(* Every variable of the game stays in its range. *)
THEOREM ViewTypes == ViewSpec => []ViewTypeOK
<1>1. GameInv => ViewTypeOK
  BY DEF GameInv, BoardInv, ActorsInv, SeenInv, ViewTypeOK
<1>2. QED
  BY <1>1, GameInvariant, PTL

(* A view shows the truth wherever it is not masked. *)
THEOREM ViewsAreTrue == ViewSpec => []ViewIsTheBoard
<1>1. GameInv => ViewIsTheBoard
  BY DEF GameInv
<1>2. QED
  BY <1>1, GameInvariant, PTL

(* The circle of the view does not grow past the map. *)
THEOREM GrowthEnds == ViewSpec => []GrowthIsBounded
<1>1. GameInv => GrowthIsBounded
  BY DEF GameInv
<1>2. QED
  BY <1>1, GameInvariant, PTL

(* What was explored, and a whole view, stay shown. *)
THEOREM NothingIsHiddenAgain == ViewSpec => ExploredStaysShown
<1> DEFINE Whole == \A p \in Cells : view[p] # Masked
           Stays == mode = "EXPLORE" \/ Whole =>
                        \A p \in Cells : view[p] # Masked => view'[p] # Masked
<1>1. GameInv /\ [ViewNext]_gameVars => [Stays]_gameVars
  <2> SUFFICES ASSUME GameInv, ViewNext, mode = "EXPLORE" \/ Whole,
                      NEW p \in Cells, view[p] # Masked
               PROVE  view'[p] # Masked
    OBVIOUS
  <2>1. CASE view' = view
    BY <2>1
  <2>2. CASE ShowView
    <3>1. p \in seen /\ (Whole => seen = Cells)
      BY DEF GameInv, SeenInv
    <3>2. QED
      BY <2>2, <3>1, NewView
  <2>3. QED
    BY <2>1, <2>2 DEF ViewNext, CountedMove, HiddenGhostStep, GrowingFilesStep,
                      HiddenRepeat, viewVars
<1>2. QED
  BY <1>1, GameInvariant, PTL DEF ViewSpec, ExploredStaysShown
=============================================================================
