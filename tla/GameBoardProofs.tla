---------------------------- MODULE GameBoardProofs ----------------------------
(***************************************************************************)
(* The properties of GameBoard for boards of every size, whatever valid    *)
(* maps may be loaded.  They hold each other up: where the actors are and  *)
(* what the cells show tells who meets whom; as nobody meets unnoticed,    *)
(* PacMan leaves floor behind and each ghost what it covered; and from that*)
(* follows where each pellet is.                                           *)
(***************************************************************************)
EXTENDS GameBoard, FiniteSetTheorems, WellFoundedInduction, TLAPS

(* A new turn begins, or a view is sent, only while nobody has met. *)
MeetingInv == step \in {"move", "view"} => met = None

(* Every pellet, wherever it is kept, is the one the map has at that place; *)
(* one that waits or is being eaten has not been delivered.                 *)
PelletInv ==
    /\ \A p \in Cells : cells[p] \in Pellets => cells[p] = start[p]
    /\ \A g \in GhostSymbols :
           ghosts[g].active /\ ghosts[g].under \in Pellets =>
               ghosts[g].under = start[ghosts[g].position]
    /\ failed.active => /\ failed.cell \in Pellets
                        /\ failed.cell = start[failed.position]
                        /\ failed.position \notin delivered
    /\ step \in GhostSymbols \cup {"files"} /\ entered \in Pellets =>
           entered = start[pacman] /\ pacman \notin delivered

(* PelletsConserved for one pellet, in parts. *)
Open(p) == cells[p] = start[p]
UnderGhost(p) ==
    \E g \in GhostSymbols : /\ ghosts[g].active /\ ghosts[g].position = p
                            /\ ghosts[g].under = start[p]
AtHand(p) == /\ pacman = p /\ entered = start[p]
             /\ step \in GhostSymbols \cup {"files"}
Waiting(p) == /\ pacman = p /\ failed.active /\ failed.position = p
              /\ failed.cell = start[p]
Kept(p) ==
    IF p \in delivered THEN ~(Open(p) \/ UnderGhost(p) \/ Waiting(p))
                       ELSE Open(p) \/ UnderGhost(p) \/ AtHand(p) \/ Waiting(p)

ActorsInv == BoardTypeOK /\ CellsShowActors /\ ContactEndsGame /\ MeetingInv
BoardInv == ActorsInv /\ PelletInv /\ PelletsConserved

LEMMA PelletsAreKept ==
    /\ PelletsConserved <=>
           (met = None => \A p \in Cells : start[p] \in Pellets => Kept(p))
    /\ PelletsConserved' <=>
           (met' = None => \A p \in Cells : start'[p] \in Pellets => Kept(p)')
BY DEF PelletsConserved, Kept, Open, UnderGhost, AtHand, Waiting, GhostsAt

-----------------------------------------------------------------------------
(* Numbers: a set that is bounded has a largest element. *)
LEMMA Smallest ==
    ASSUME NEW S, S \subseteq Nat, S # {}
    PROVE  \E x \in S : \A y \in S : x <= y
<1>1. PICK x \in S : \A y \in S : <<y, x>> \notin OpToRel(<, Nat)
  BY WFMin, NatLessThanWellFounded, Zenon
<1>2. \A y \in S : ~(y < x)
  BY <1>1, Zenon DEF OpToRel
<1>3. QED
  BY <1>2

LEMMA Largest ==
    ASSUME NEW n \in Nat, NEW S, S \subseteq 1 .. n, S # {}
    PROVE  \E x \in S : \A y \in S : y <= x
<1> DEFINE T == {n - s : s \in S}
<1>1. T \subseteq Nat /\ T # {}
  <2>1. \A s \in S : n - s \in Nat
    OBVIOUS
  <2>2. QED
    BY <2>1
<1>2. PICK t \in T : \A u \in T : t <= u
  BY <1>1, Smallest
<1>3. PICK x \in S : t = n - x
  OBVIOUS
<1>4. ASSUME NEW y \in S PROVE y <= x
  <2>1. t <= n - y
    BY <1>2
  <2>2. x \in 1 .. n /\ y \in 1 .. n
    BY Zenon
  <2>3. QED
    BY <1>3, <2>1, <2>2
<1>5. QED
  BY <1>4

(* The last of some cells is one of them. *)
LEMMA LastOfIsThere ==
    ASSUME NEW places, places \subseteq Cells, places # {}
    PROVE  LastOf(places) \in places
<1>1. Rows \in Nat /\ Cols \in Nat
  BY BoardConstants
<1> DEFINE R == {p[1] : p \in places}
<1>2. PICK r \in R : \A s \in R : s <= r
  <2>1. R \subseteq 1 .. Rows /\ R # {}
    BY DEF Cells
  <2>2. QED
    BY <1>1, <2>1, Largest
<1> DEFINE C == {p[2] : p \in {q \in places : q[1] = r}}
<1>3. PICK c \in C : \A d \in C : d <= c
  <2>1. C \subseteq 1 .. Cols /\ C # {}
    BY DEF Cells
  <2>2. QED
    BY <1>1, <2>1, Largest
<1>4. PICK p \in places : p[1] = r /\ p[2] = c
  OBVIOUS
<1>5. ASSUME NEW q \in places
      PROVE  q[1] < p[1] \/ (q[1] = p[1] /\ q[2] <= p[2])
  <2>1. q[1] \in R /\ q[1] <= r
    BY <1>2
  <2>2. q[1] = r => q[2] \in C /\ q[2] <= c
    BY <1>3
  <2>3. q[1] \in Int /\ r \in Int
    BY <1>1, <1>4 DEF Cells
  <2>4. QED
    BY <1>4, <2>1, <2>2, <2>3
<1>6. QED
  BY <1>5 DEF LastOf
-----------------------------------------------------------------------------
(* Directions. *)
LEMMA NeighbourMoves ==
    ASSUME NEW p \in Cells, NEW d \in Directions
    PROVE  Neighbour(p, d) # p
<1>1. p[1] \in Int /\ p[2] \in Int /\ p = <<p[1], p[2]>>
  BY BoardConstants DEF Cells
<1>2. QED
  BY <1>1 DEF Neighbour, Directions

LEMMA HandsAreDirections ==
    ASSUME NEW d \in Directions,
           NEW order \in {LeftHand(d), RightHand(d)}
    PROVE  /\ Directions = {order[1], order[2], order[3], order[4]}
           /\ order[4] = TurnBack(d) /\ TurnBack(d) # d
           /\ \A i \in 1 .. 3 : order[i] # order[4]
BY DEF Directions, LeftHand, RightHand, TurnBack, TurnLeft, TurnRight

(* The first free way is a free way, and the way back only if none else is. *)
LEMMA FirstFreeIsFree ==
    ASSUME NEW board, NEW g, FreeWays(board, g) # {},
           NEW d \in Directions,
           NEW order \in {LeftHand(d), RightHand(d)}
    PROVE  /\ FirstFree(board, g, order) \in FreeWays(board, g)
           /\ FirstFree(board, g, order) = TurnBack(d) =>
                  FreeWays(board, g) = {TurnBack(d)}
<1> DEFINE F == FreeWays(board, g)
           First(i) == /\ order[i] \in F
                       /\ \A j \in 1 .. i - 1 : order[j] \notin F
<1>1. F \subseteq {order[1], order[2], order[3], order[4]}
  <2>1. F \subseteq Directions
    BY DEF FreeWays
  <2>2. QED
    BY <2>1, HandsAreDirections
<1>2. \E i \in 1 .. 4 : First(i)
  <2>1. First(1) \/ First(2) \/ First(3) \/ First(4)
    <3> HIDE DEF F
    <3>1. order[1] \in F \/ order[2] \in F \/ order[3] \in F \/ order[4] \in F
      BY <1>1 DEF F
    <3>2. QED
      BY <3>1
  <2>2. QED
    BY <2>1
<1>3. PICK i \in 1 .. 4 : First(i) /\ FirstFree(board, g, order) = order[i]
  <2> DEFINE i == CHOOSE k \in 1 .. 4 : First(k)
  <2>1. i \in 1 .. 4 /\ First(i)
    BY <1>2
  <2>2. FirstFree(board, g, order) = order[i]
    BY DEF FirstFree
  <2>3. QED
    BY <2>1, <2>2
<1>4. ASSUME order[i] = TurnBack(d)
      PROVE  F = {TurnBack(d)}
  <2>1. i = 4
    BY <1>4, HandsAreDirections
  <2>2. order[1] \notin F /\ order[2] \notin F /\ order[3] \notin F
    BY <1>3, <2>1
  <2>3. QED
    BY <1>1, <1>3, <1>4, <2>1, <2>2
<1>5. QED
  BY <1>3, <1>4

(* Each ghost chooses one of the free ways. *)
LEMMA ChoicesAreFree ==
    ASSUME BoardTypeOK, NEW g \in GhostSymbols, NEW board,
           FreeWays(board, g) # {}, NEW d \in Choices(board, g)
    PROVE  /\ d \in FreeWays(board, g)
           /\ g # "Y" /\ d = TurnBack(ghosts[g].direction) =>
                  FreeWays(board, g) = {TurnBack(ghosts[g].direction)}
<1>1. ghosts[g].direction \in Directions
  BY DEF BoardTypeOK
<1>2. CASE g = "Y"
  BY <1>2 DEF Choices
<1>3. CASE g # "Y"
  <2>1. \E order \in {LeftHand(ghosts[g].direction), RightHand(ghosts[g].direction)} :
            d = FirstFree(board, g, order)
    BY <1>3 DEF Choices, GhostSymbols
  <2>2. QED
    BY <1>1, <2>1, FirstFreeIsFree
<1>4. QED
  BY <1>2, <1>3
-----------------------------------------------------------------------------
(* The first view. *)
LEMMA OnePacMan ==
    ASSUME NEW m \in Maps
    PROVE  /\ m \in [Cells -> Symbols]
           /\ LastOf(Positions(m, "P")) \in Cells
           /\ \A p \in Cells : m[p] = "P" <=> p = LastOf(Positions(m, "P"))
<1> DEFINE S == Positions(m, "P")
<1>1. m \in [Cells -> Symbols] /\ Cardinality(S) = 1
  BY BoardConstants DEF IsValidMap, Positions
<1>2. IsFiniteSet(S)
  <2>1. IsFiniteSet(Cells)
    <3>1. IsFiniteSet(1 .. Rows) /\ IsFiniteSet(1 .. Cols)
      BY BoardConstants, FS_Interval
    <3>2. QED
      BY <3>1, FS_Product DEF Cells
  <2>2. S \subseteq Cells
    BY DEF Positions
  <2>3. QED
    BY <2>1, <2>2, FS_Subset
<1>3. PICK x : S = {x}
  BY <1>1, <1>2, FS_Singleton
<1>4. LastOf(S) \in S
  BY <1>3, LastOfIsThere DEF Positions
<1>5. QED
  BY <1>1, <1>3, <1>4 DEF Positions

LEMMA LoadedGhostIsThere ==
    ASSUME NEW m \in Maps, NEW g \in GhostSymbols
    PROVE  LET loaded == LoadedGhost(m, g)
           IN  /\ loaded \in [active : BOOLEAN, position : Cells,
                              direction : Directions, prefersRight : BOOLEAN,
                              under : {"0"} \cup Pellets]
               /\ loaded.active => m[loaded.position] = g
               /\ loaded.under = "0"
<1> DEFINE S == Positions(m, g)
<1>1. S # {} => LastOf(S) \in Cells /\ m[LastOf(S)] = g
  BY LastOfIsThere DEF Positions
<1>2. <<1, 1>> \in Cells
  <2>1. PICK p \in Cells : TRUE
    BY OnePacMan
  <2>2. QED
    BY <2>1, BoardConstants DEF Cells
<1>3. QED
  BY <1>1, <1>2 DEF LoadedGhost, Directions

LEMMA InitBoardInv == BoardInit => BoardInv
<1> SUFFICES ASSUME BoardInit
             PROVE  BoardInv
  OBVIOUS
<1> DEFINE loaded(g) == LoadedGhost(start, g)
<1>1. /\ start \in Maps /\ cells = start /\ pacman \in Cells
      /\ cells \in [Cells -> Symbols]
      /\ \A p \in Cells : cells[p] = "P" <=> p = pacman
  BY OnePacMan DEF BoardInit
<1>2. /\ ghosts = [g \in GhostSymbols |-> loaded(g)]
      /\ \A g \in GhostSymbols : 
             /\ loaded(g) \in [active : BOOLEAN, position : Cells,
                              direction : Directions, prefersRight : BOOLEAN,
                              under : {"0"} \cup Pellets]
             /\ loaded(g).active => start[loaded(g).position] = g
             /\ loaded(g).under = "0"
  BY <1>1, LoadedGhostIsThere DEF BoardInit
<1> HIDE DEF loaded
<1>3. \A g \in GhostSymbols : 
          /\ ghosts[g] \in [active : BOOLEAN, position : Cells,
                            direction : Directions, prefersRight : BOOLEAN,
                            under : {"0"} \cup Pellets]
          /\ ghosts[g].active => start[ghosts[g].position] = g
          /\ ghosts[g].under = "0"
  BY <1>2
<1>4. BoardTypeOK
  <2>1. failed \in [active : BOOLEAN, position : Cells, cell : {"0"} \cup Pellets]
    <3>1. <<1, 1>> \in Cells
      BY <1>1, BoardConstants DEF Cells
    <3>2. QED
      BY <3>1 DEF BoardInit, NoFailure
  <2>2. QED
    BY <1>1, <1>2, <1>3, <2>1 DEF BoardInit, BoardTypeOK
<1>5. CellsShowActors /\ ContactEndsGame /\ MeetingInv
  <2>1. ASSUME NEW p \in Cells, cells[p] \in GhostSymbols
        PROVE  p = ghosts[cells[p]].position \/ IsTwin(start, p)
    <3>1. Positions(start, start[p]) # {}
      BY <1>1 DEF Positions
    <3>2. ghosts[start[p]].position = LastOf(Positions(start, start[p]))
      BY <1>1, <2>1, <3>1 DEF BoardInit, LoadedGhost
    <3> QED
      BY <1>1, <3>2 DEF IsTwin
  <2>2. CellsShowActors
    BY <1>1, <1>3, <2>1 DEF CellsShowActors, GhostSymbols
  <2>3. ContactEndsGame
    BY <1>1, <1>3 DEF ContactEndsGame, GhostSymbols
  <2> QED
    BY <2>2, <2>3 DEF BoardInit, MeetingInv
<1>6. PelletInv
  BY <1>1, <1>3 DEF BoardInit, PelletInv, NoFailure, GhostSymbols, Pellets
<1>7. PelletsConserved
  <2>1. delivered = {} /\ \A p \in Cells : cells[p] = start[p]
    BY <1>1 DEF BoardInit
  <2>2. QED
    BY <2>1 DEF PelletsConserved
<1>8. QED
  BY <1>4, <1>5, <1>6, <1>7 DEF BoardInv, ActorsInv
-----------------------------------------------------------------------------
(* The kinds of symbols have none in common. *)
LEMMA SymbolsDiffer ==
    /\ \A g \in GhostSymbols : /\ g \notin Pellets /\ g \in Symbols
                               /\ g # "P" /\ g # "X" /\ g # "0" /\ g # None
    /\ \A c \in Pellets : /\ c \in Symbols
                          /\ c # "P" /\ c # "X" /\ c # "0" /\ c # None
BY DEF GhostSymbols, Pellets, Symbols, None

(* Putting the failed pellet back touches one cell of floor at most. *)
LEMMA RestoredCells ==
    ASSUME BoardTypeOK, PelletInv, NEW board \in [Cells -> Symbols]
    PROVE  /\ Restored(board) \in [Cells -> Symbols]
           /\ \A p \in Cells :
                  \/ Restored(board)[p] = board[p]
                  \/ /\ board[p] = "0" /\ failed.active /\ p = failed.position
                     /\ Restored(board)[p] = failed.cell
           /\ failed.active /\ board[failed.position] = "0" =>
                  Restored(board)[failed.position] = failed.cell
<1>1. failed.position \in Cells /\ (failed.active => failed.cell \in Symbols)
  BY SymbolsDiffer DEF BoardTypeOK, PelletInv
<1>2. QED
  BY <1>1 DEF Restored

(* PacMan leaves floor behind, as no ghost is where he is. *)
LEMMA MovePacManStep ==
    ASSUME BoardInv, NEW d \in Directions, MovePacMan(d)
    PROVE  BoardInv'
<1> DEFINE to == Neighbour(pacman, d)
           board == [cells EXCEPT ![pacman] = "0", ![to] = "P"]
<1>1. /\ to \in Cells /\ pacman \in Cells /\ to # pacman /\ cells[to] # "X"
      /\ step = "move" /\ met = None /\ cells \in [Cells -> Symbols]
  BY NeighbourMoves
     DEF MovePacMan, CanEnter, BoardInv, ActorsInv, MeetingInv, BoardTypeOK
<1>2. \A g \in GhostSymbols : ghosts[g].active => ghosts[g].position # pacman
  BY <1>1 DEF BoardInv, ActorsInv, ContactEndsGame
<1>3. /\ cells' = Restored(board) /\ pacman' = to /\ entered' = cells[to]
      /\ met' = IF cells[to] \in GhostSymbols THEN cells[to] ELSE None
      /\ step' = "R"
      /\ UNCHANGED <<ghosts, failed, start, delivered>>
  <2>1. Left(pacman) = "0"
    BY <1>2 DEF Left, GhostsAt
  <2>2. QED
    BY <2>1 DEF MovePacMan
<1>4. board \in [Cells -> Symbols]
  BY <1>1 DEF Symbols
<1>5. /\ cells' \in [Cells -> Symbols]
      /\ \A p \in Cells :
             \/ cells'[p] = board[p]
             \/ /\ board[p] = "0" /\ failed.active /\ p = failed.position
                /\ cells'[p] = failed.cell
      /\ failed.active /\ board[failed.position] = "0" =>
             cells'[failed.position] = failed.cell
  BY <1>3, <1>4, RestoredCells DEF BoardInv, ActorsInv
<1>6. /\ board[to] = "P" /\ board[pacman] = "0"
      /\ \A p \in Cells : p # to /\ p # pacman => board[p] = cells[p]
  BY <1>1
<1> HIDE DEF board, to
<1>7. BoardTypeOK'
  BY <1>1, <1>3, <1>5, SymbolsDiffer DEF BoardInv, ActorsInv, BoardTypeOK, GhostSymbols
<1>8. CellsShowActors'
  <2>1. ASSUME NEW p \in Cells PROVE cells'[p] = "P" <=> p = to
    BY <1>1, <1>5, <1>6, SymbolsDiffer
       DEF BoardInv, ActorsInv, CellsShowActors, PelletInv
  <2>2. ASSUME NEW g \in GhostSymbols, ghosts[g].active
        PROVE  cells'[ghosts[g].position] =
                   IF ghosts[g].position = to THEN "P" ELSE g
    <3>1. ghosts[g].position \in Cells
      BY DEF BoardInv, ActorsInv, BoardTypeOK
    <3>2. ghosts[g].position # pacman /\ cells[ghosts[g].position] = g
      BY <1>2, <2>2 DEF BoardInv, ActorsInv, CellsShowActors
    <3>3. QED
      BY <2>1, <3>1, <3>2, <1>5, <1>6, SymbolsDiffer
  <2>3. ASSUME NEW p \in Cells, cells'[p] \in GhostSymbols
        PROVE  \/ p = ghosts[cells'[p]].position
               \/ cells'[p] = start[p] /\ IsTwin(start, p)
    <3>1. cells'[p] = cells[p]
      BY <2>3, <1>5, <1>6, SymbolsDiffer DEF BoardInv, PelletInv
    <3>2. QED
      BY <2>3, <3>1 DEF BoardInv, ActorsInv, CellsShowActors
  <2>4. QED
    BY <1>3, <2>1, <2>2, <2>3 DEF CellsShowActors
<1>9. ContactEndsGame' /\ MeetingInv'
  <2>1. ASSUME NEW g \in GhostSymbols, ghosts[g].active, ghosts[g].position = to
        PROVE  cells[to] = g
    BY <1>1, <2>1 DEF BoardInv, ActorsInv, CellsShowActors
  <2>2. ContactEndsGame'
    BY <1>3, <2>1, SymbolsDiffer DEF ContactEndsGame
  <2>3. QED
    BY <1>3, <2>2 DEF MeetingInv
<1>10. PelletInv'
  <2>1. \A p \in Cells : cells'[p] \in Pellets => cells'[p] = start[p]
    BY <1>5, <1>6, SymbolsDiffer DEF BoardInv, PelletInv
  <2>2. ASSUME cells[to] \in Pellets
        PROVE  cells[to] = start[to] /\ to \notin delivered
    BY <1>1, <2>2, PelletsAreKept DEF BoardInv, PelletInv, Kept, Open
  <2>3. QED
    BY <1>3, <2>1, <2>2 DEF BoardInv, PelletInv
<1>11. PelletsConserved'
  <2> SUFFICES ASSUME met' = None, NEW p \in Cells, start[p] \in Pellets
               PROVE  Kept(p)'
    BY <1>3, PelletsAreKept
  <2>1. Kept(p) /\ ~AtHand(p)
    BY <1>1, PelletsAreKept DEF BoardInv, AtHand, GhostSymbols
  <2>2. cells[to] \notin GhostSymbols
    BY <1>3, SymbolsDiffer
  <2>3. start[p] # "P" /\ start[p] # "0"
    BY SymbolsDiffer
  <2>4. UnderGhost(p)' <=> UnderGhost(p)
    BY <1>3 DEF UnderGhost
  <2>5. failed.active => failed.cell = start[failed.position]
                           /\ failed.position \notin delivered
    BY DEF BoardInv, PelletInv
  <2>6. CASE p = to
    <3>1. ~UnderGhost(p)
      BY <1>1, <2>2, <2>6 DEF UnderGhost, BoardInv, ActorsInv, CellsShowActors
    <3>2. ~Open(p)' /\ ~Waiting(p)
      BY <1>1, <1>3, <1>5, <1>6, <2>3, <2>6 DEF Open, Waiting
    <3>3. CASE p \in delivered
      BY <1>3, <2>4, <2>5, <3>1, <3>2, <3>3 DEF Kept, Waiting
    <3>4. CASE p \notin delivered
      <4>1. Open(p)
        BY <2>1, <3>1, <3>2, <3>4 DEF Kept
      <4>2. AtHand(p)'
        BY <1>3, <2>6, <4>1 DEF Open, AtHand, GhostSymbols
      <4>3. QED
        BY <1>3, <3>4, <4>2 DEF Kept
    <3>5. QED
      BY <3>3, <3>4
  <2>7. CASE p = pacman
    <3>1. ~UnderGhost(p) /\ ~Open(p)
      BY <1>1, <1>2, <2>3, <2>7
         DEF UnderGhost, Open, BoardInv, ActorsInv, CellsShowActors
    <3>2. ~Waiting(p)'
      BY <1>1, <1>3, <2>7 DEF Waiting
    <3>3. CASE p \in delivered
      <4>1. cells'[p] = "0"
        BY <1>1, <1>5, <1>6, <2>5, <2>7, <3>3
      <4>2. QED
        BY <1>3, <2>3, <2>4, <3>1, <3>2, <3>3, <4>1 DEF Kept, Open
    <3>4. CASE p \notin delivered
      <4>1. Waiting(p)
        BY <2>1, <3>1, <3>4 DEF Kept
      <4>2. Open(p)'
        BY <1>1, <1>3, <1>5, <1>6, <2>7, <4>1 DEF Open, Waiting
      <4>3. QED
        BY <1>3, <3>4, <4>2 DEF Kept
    <3>5. QED
      BY <3>3, <3>4
  <2>8. CASE p # to /\ p # pacman
    <3>1. ~Waiting(p) /\ ~Waiting(p)'
      BY <1>3, <2>8 DEF Waiting
    <3>2. Open(p)' <=> Open(p) \/ (cells[p] = "0" /\ failed.active
                                       /\ p = failed.position)
      BY <1>3, <1>5, <1>6, <2>3, <2>5, <2>8 DEF Open
    <3>3. QED
      BY <1>3, <2>1, <2>4, <2>5, <3>1, <3>2 DEF Kept
  <2>9. QED
    BY <2>6, <2>7, <2>8
<1>12. QED
  BY <1>7, <1>8, <1>9, <1>10, <1>11 DEF BoardInv, ActorsInv
(* A turn in which he cannot move, and a move that is a copy. *)
LEMMA StayingStep ==
    ASSUME BoardInv, RepeatMove \/ \E d \in Directions : BlockedPacMan(d)
    PROVE  BoardInv'
<1>1. /\ step = "move" /\ met = None /\ met' = None
      /\ step' \in {"R", "view"}
      /\ entered' \in {entered, None} /\ (step' = "R" => entered' = None)
      /\ UNCHANGED <<cells, pacman, ghosts, failed, start, delivered>>
  BY DEF RepeatMove, BlockedPacMan, BoardInv, ActorsInv, MeetingInv
<1>2. BoardTypeOK'
  BY <1>1 DEF BoardInv, ActorsInv, BoardTypeOK, GhostSymbols
<1>3. CellsShowActors' /\ ContactEndsGame' /\ MeetingInv'
  BY <1>1 DEF BoardInv, ActorsInv, CellsShowActors, ContactEndsGame, MeetingInv
<1>4. PelletInv'
  BY <1>1, SymbolsDiffer DEF BoardInv, PelletInv, GhostSymbols
<1>5. PelletsConserved'
  <2> SUFFICES ASSUME NEW p \in Cells, start[p] \in Pellets
               PROVE  Kept(p)'
    BY <1>1, PelletsAreKept
  <2>1. Kept(p) /\ ~AtHand(p)
    BY <1>1, PelletsAreKept DEF BoardInv, AtHand, GhostSymbols
  <2>2. QED
    BY <1>1, <2>1 DEF Kept, Open, UnderGhost, Waiting
<1>6. QED
  BY <1>2, <1>3, <1>4, <1>5 DEF BoardInv, ActorsInv

(* A ghost goes to a cell that is free once it has left its own, or back    *)
(* into its own.  What it covers is floor or a pellet; only PacMan hides it.*)
LEMMA PlacedGhostStep ==
    ASSUME BoardInv, NEW g \in GhostSymbols, step = g, ghosts[g].active,
           NEW p \in Cells, NEW d \in Directions,
           IsFree(Cleared(g), p) \/ p = ghosts[g].position,
           PlaceGhost(Cleared(g), g, p, d), step' = NextGhost[g],
           UNCHANGED <<pacman, entered, failed, start, delivered>>
    PROVE  BoardInv'
<1> DEFINE old == ghosts[g].position
           under == ghosts[g].under
           board == Cleared(g)
<1>1. /\ old \in Cells /\ under \in {"0"} \cup Pellets /\ pacman \in Cells
      /\ cells \in [Cells -> Symbols]
      /\ ghosts[g].prefersRight \in BOOLEAN
      /\ met \in GhostSymbols \cup {None}
  BY DEF BoardInv, ActorsInv, BoardTypeOK
<1>2. /\ \A q \in Cells : cells[q] = "P" <=> q = pacman
      /\ old # pacman => cells[old] = g
  BY DEF BoardInv, ActorsInv, CellsShowActors
<1>3. /\ board \in [Cells -> Symbols]
      /\ board[old] = IF pacman = old THEN "P" ELSE under
      /\ \A q \in Cells : q # old => board[q] = cells[q]
  <2>1. under \in Symbols /\ "P" \in Symbols
    BY <1>1, SymbolsDiffer DEF Symbols
  <2>2. QED
    BY <1>1, <2>1 DEF Cleared
<1>4. \A q \in Cells : board[q] = "P" <=> q = pacman
  BY <1>1, <1>2, <1>3, SymbolsDiffer
<1>5. p # pacman => board[p] \in {"0"} \cup Pellets
  <2>1. CASE p = old
    BY <1>1, <1>3, <2>1
  <2>2. CASE IsFree(board, p)
    BY <1>3, <1>4, <2>2 DEF IsFree, Symbols
  <2>3. QED
    BY <2>1, <2>2
<1>6. /\ ghosts' = [ghosts EXCEPT ![g] =
             [active |-> TRUE, position |-> p, direction |-> d,
              prefersRight |-> TurnsNextTime(g),
              under |-> IF p = pacman THEN "0" ELSE board[p]]]
      /\ cells' = IF p = pacman THEN board ELSE [board EXCEPT ![p] = g]
      /\ met' = IF p = pacman /\ met = None THEN g ELSE met
  BY <1>4 DEF PlaceGhost
<1>7. step' \in (GhostSymbols \cup {"files"}) /\ step \in GhostSymbols
  BY DEF GhostSymbols, NextGhost
<1> HIDE DEF board
<1>8. /\ \A h \in GhostSymbols : h # g => ghosts'[h] = ghosts[h]
      /\ ghosts'[g].active /\ ghosts'[g].position = p
      /\ ghosts'[g].under = IF p = pacman THEN "0" ELSE board[p]
      /\ \A h \in GhostSymbols : ghosts'[h].active = ghosts[h].active
  BY <1>6 DEF BoardInv, ActorsInv, BoardTypeOK
<1>9. /\ cells' \in [Cells -> Symbols]
      /\ \A q \in Cells : cells'[q] = IF q = p /\ p # pacman THEN g ELSE board[q]
  BY <1>3, <1>6, SymbolsDiffer
<1>10. BoardTypeOK'
  <2>1. ghosts'[g] \in [active : BOOLEAN, position : Cells,
             direction : Directions, prefersRight : BOOLEAN,
             under : {"0"} \cup Pellets]
    <3>1. TurnsNextTime(g) \in BOOLEAN
      BY <1>1 DEF TurnsNextTime
    <3>2. QED
      BY <1>5, <1>6, <3>1 DEF BoardInv, ActorsInv, BoardTypeOK
  <2>2. ghosts' \in [GhostSymbols -> [active : BOOLEAN, position : Cells,
             direction : Directions, prefersRight : BOOLEAN,
             under : {"0"} \cup Pellets]]
    BY <1>6, <2>1 DEF BoardInv, ActorsInv, BoardTypeOK
  <2>3. met' \in GhostSymbols \cup {None}
    BY <1>1, <1>6
  <2>4. QED
    BY <1>7, <1>9, <2>2, <2>3 DEF BoardInv, ActorsInv, BoardTypeOK
<1>11. CellsShowActors'
  <2>1. \A q \in Cells : cells'[q] = "P" <=> q = pacman
    BY <1>4, <1>9, SymbolsDiffer
  <2>2. ASSUME NEW h \in GhostSymbols, ghosts'[h].active
        PROVE  cells'[ghosts'[h].position] =
                   IF ghosts'[h].position = pacman THEN "P" ELSE h
    <3>1. CASE h = g
      BY <1>8, <1>9, <2>1, <3>1
    <3>2. CASE h # g
      <4> DEFINE q == ghosts[h].position
      <4>1. /\ ghosts'[h].position = q /\ q \in Cells
            /\ q # pacman => cells[q] = h
        BY <1>8, <2>2, <3>2
           DEF BoardInv, ActorsInv, BoardTypeOK, CellsShowActors
      <4>2. q # pacman => q # old /\ q # p
        BY <1>2, <1>3, <1>5, <3>2, <4>1, SymbolsDiffer
      <4>3. QED
        BY <1>3, <1>9, <2>1, <4>1, <4>2
    <3>3. QED
      BY <3>1, <3>2
  <2>3. ASSUME NEW q \in Cells, cells'[q] \in GhostSymbols
        PROVE  \/ q = ghosts'[cells'[q]].position
               \/ cells'[q] = start[q] /\ IsTwin(start, q)
    <3>1. CASE q = p /\ p # pacman
      BY <1>8, <1>9, <3>1
    <3>2. CASE ~(q = p /\ p # pacman)
      <4>1. cells'[q] = cells[q] /\ q # old
        BY <1>1, <1>3, <1>9, <2>3, <3>2, SymbolsDiffer
      <4>2. \/ q = ghosts[cells[q]].position
            \/ cells[q] = start[q] /\ IsTwin(start, q)
        BY <2>3, <4>1 DEF BoardInv, ActorsInv, CellsShowActors
      <4>3. QED
        BY <1>8, <2>3, <4>1, <4>2
    <3>3. QED
      BY <3>1, <3>2
  <2>4. QED
    BY <2>1, <2>2, <2>3 DEF CellsShowActors
<1>12. ContactEndsGame' /\ MeetingInv'
  <2>1. ASSUME NEW h \in GhostSymbols, ghosts'[h].active,
               ghosts'[h].position = pacman
        PROVE  met' # None
    <3>1. CASE h = g
      BY <1>6, <1>8, <2>1, <3>1, SymbolsDiffer
    <3>2. CASE h # g
      <4>1. met # None
        BY <1>8, <2>1, <3>2 DEF BoardInv, ActorsInv, ContactEndsGame
      <4>2. QED
        BY <1>6, <4>1
    <3>3. QED
      BY <3>1, <3>2
  <2>2. QED
    BY <1>7, <2>1 DEF ContactEndsGame, MeetingInv, GhostSymbols
<1>13. \A q \in Cells : board[q] \in Pellets => board[q] = start[q]
  BY <1>3, SymbolsDiffer DEF BoardInv, PelletInv
<1>14. PelletInv'
  <2>1. \A q \in Cells : cells'[q] \in Pellets => cells'[q] = start[q]
    BY <1>9, <1>13, SymbolsDiffer
  <2>2. ASSUME NEW h \in GhostSymbols, ghosts'[h].active, ghosts'[h].under \in Pellets
        PROVE  ghosts'[h].under = start[ghosts'[h].position]
    <3>1. CASE h = g
      BY <1>8, <1>13, <2>2, <3>1, SymbolsDiffer
    <3>2. CASE h # g
      BY <1>8, <2>2, <3>2 DEF BoardInv, PelletInv
    <3>3. QED
      BY <3>1, <3>2
  <2>3. QED
    BY <1>7, <2>1, <2>2 DEF BoardInv, PelletInv
<1>15. PelletsConserved'
  <2> SUFFICES ASSUME met' = None, NEW q \in Cells, start[q] \in Pellets
               PROVE  Kept(q)'
    BY PelletsAreKept
  <2>1. met = None /\ p # pacman
    BY <1>6, SymbolsDiffer
  <2>2. old # pacman /\ Kept(q) /\ start[q] \notin GhostSymbols
    BY <2>1, PelletsAreKept, SymbolsDiffer DEF BoardInv, ActorsInv, ContactEndsGame
  <2>3. (AtHand(q)' <=> AtHand(q)) /\ (Waiting(q)' <=> Waiting(q))
    BY <1>7 DEF AtHand, Waiting
  <2>4. Open(q)' <=> q # p /\ board[q] = start[q]
    BY <1>9, <2>1, <2>2 DEF Open
  <2>5. UnderGhost(q)' <=>
            \/ q = p /\ board[q] = start[q]
            \/ \E h \in GhostSymbols : h # g /\ ghosts[h].active
                  /\ ghosts[h].position = q /\ ghosts[h].under = start[q]
    BY <1>8, <2>1 DEF UnderGhost
  <2>6. Open(q) <=> q # old /\ board[q] = start[q]
    BY <1>2, <1>3, <2>2 DEF Open
  <2>7. UnderGhost(q) <=>
            \/ q = old /\ board[q] = start[q]
            \/ \E h \in GhostSymbols : h # g /\ ghosts[h].active
                  /\ ghosts[h].position = q /\ ghosts[h].under = start[q]
    BY <1>3, <2>2 DEF UnderGhost
  <2>8. QED
    BY <2>2, <2>3, <2>4, <2>5, <2>6, <2>7 DEF Kept
<1>16. QED
  BY <1>10, <1>11, <1>12, <1>14, <1>15 DEF BoardInv, ActorsInv

LEMMA GhostTurn ==
    ASSUME BoardInv, GhostStep
    PROVE  BoardInv'
<1>1. ASSUME NEW g \in GhostSymbols, MoveGhost(g) PROVE BoardInv'
  <2>1. PICK d \in Choices(Cleared(g), g) :
            PlaceGhost(Cleared(g), g, Neighbour(ghosts[g].position, d), d)
    BY <1>1 DEF MoveGhost
  <2>2. d \in FreeWays(Cleared(g), g)
    BY <1>1, ChoicesAreFree DEF MoveGhost, BoardInv, ActorsInv
  <2>3. d \in Directions /\ IsFree(Cleared(g), Neighbour(ghosts[g].position, d))
    BY <2>2 DEF FreeWays
  <2>4. QED
    BY <1>1, <2>1, <2>3, PlacedGhostStep DEF MoveGhost, IsFree
<1>2. ASSUME NEW g \in GhostSymbols, StuckGhost(g) PROVE BoardInv'
  <2>1. ghosts[g].position \in Cells /\ ghosts[g].direction \in Directions
    BY DEF BoardInv, ActorsInv, BoardTypeOK
  <2>2. QED
    BY <1>2, <2>1, PlacedGhostStep DEF StuckGhost
<1>3. ASSUME NEW g \in GhostSymbols, AbsentGhost(g) PROVE BoardInv'
  <2>1. /\ step \in GhostSymbols /\ step' \in GhostSymbols \cup {"files"}
        /\ UNCHANGED <<cells, pacman, ghosts, entered, met, failed, start, delivered>>
    BY <1>3 DEF AbsentGhost, NextGhost, GhostSymbols
  <2>2. ActorsInv'
    BY <2>1 DEF BoardInv, ActorsInv, BoardTypeOK, CellsShowActors,
                ContactEndsGame, MeetingInv, GhostSymbols
  <2>3. PelletInv'
    BY <2>1 DEF BoardInv, PelletInv
  <2>4. PelletsConserved'
    BY <2>1, PelletsAreKept
       DEF BoardInv, Kept, Open, UnderGhost, AtHand, Waiting
  <2>5. QED
    BY <2>2, <2>3, <2>4 DEF BoardInv
<1>4. QED
  BY <1>1, <1>2, <1>3 DEF GhostStep
-----------------------------------------------------------------------------
(* The files of the turn.  A pellet that was eaten is delivered, or waits.  *)
LEMMA FilesTurn ==
    ASSUME BoardInv, FilesStep
    PROVE  BoardInv'
<1>1. /\ step = "files" /\ step' \in {"view", "over"}
      /\ step' = "view" => met = None
      /\ UNCHANGED <<cells, pacman, ghosts, entered, met, start>>
  BY DEF FilesStep, NoPellet, PelletDelivered, PelletFailed, AfterFiles
<1>2. pacman \in Cells /\ delivered \subseteq Cells
      /\ failed \in [active : BOOLEAN, position : Cells, cell : {"0"} \cup Pellets]
  BY DEF BoardInv, ActorsInv, BoardTypeOK
<1>3. entered \in Pellets => entered = start[pacman] /\ pacman \notin delivered
  BY <1>1 DEF BoardInv, PelletInv
<1>4. failed.active => /\ failed.cell = start[failed.position]
                       /\ failed.cell \in Pellets
                       /\ failed.position \notin delivered
  BY DEF BoardInv, PelletInv
<1>5. \/ UNCHANGED <<failed, delivered>> /\ entered \notin Pellets
      \/ /\ entered \in Pellets
         /\ delivered' = delivered \cup {pacman}
         /\ failed' = IF failed.active /\ failed.position = pacman
                      THEN [failed EXCEPT !.active = FALSE] ELSE failed
      \/ /\ entered \in Pellets
         /\ delivered' = delivered
         /\ failed' = [active |-> TRUE, position |-> pacman, cell |-> entered]
  BY <1>3, <1>4 DEF FilesStep, NoPellet, PelletDelivered, PelletFailed
<1>6. /\ failed' \in [active : BOOLEAN, position : Cells, cell : {"0"} \cup Pellets]
      /\ delivered' \subseteq Cells
  <2>1. delivered' \subseteq Cells
    BY <1>2, <1>5
  <2>2. [failed EXCEPT !.active = FALSE]
            \in [active : BOOLEAN, position : Cells, cell : {"0"} \cup Pellets]
    BY <1>2
  <2>3. entered \in Pellets =>
            [active |-> TRUE, position |-> pacman, cell |-> entered]
                \in [active : BOOLEAN, position : Cells, cell : {"0"} \cup Pellets]
    BY <1>2
  <2>4. QED
    <3> DEFINE Failures ==
                   [active : BOOLEAN, position : Cells, cell : {"0"} \cup Pellets]
    <3>1. /\ failed \in Failures /\ [failed EXCEPT !.active = FALSE] \in Failures
          /\ entered \in Pellets =>
                [active |-> TRUE, position |-> pacman, cell |-> entered] \in Failures
      BY <1>2, <2>2, <2>3
    <3> HIDE DEF Failures
    <3>2. failed' \in Failures
      BY <1>5, <3>1
    <3>3. QED
      BY <2>1, <3>2 DEF Failures
<1>7. BoardTypeOK'
  BY <1>1, <1>6 DEF BoardInv, ActorsInv, BoardTypeOK
<1>8. CellsShowActors' /\ ContactEndsGame' /\ MeetingInv'
  BY <1>1 DEF BoardInv, ActorsInv, CellsShowActors, ContactEndsGame, MeetingInv
<1>9. PelletInv'
  <2>1. failed'.active => /\ failed'.cell \in Pellets
                          /\ failed'.cell = start[failed'.position]
                          /\ failed'.position \notin delivered'
    BY <1>2, <1>3, <1>4, <1>5
  <2>2. step' \notin GhostSymbols \cup {"files"}
    BY <1>1 DEF GhostSymbols
  <2>3. QED
    BY <1>1, <2>1, <2>2 DEF BoardInv, PelletInv
<1>10. PelletsConserved'
  <2> SUFFICES ASSUME met' = None, NEW p \in Cells, start[p] \in Pellets
               PROVE  Kept(p)'
    BY <1>1, PelletsAreKept
  <2>1. Kept(p)
    BY <1>1, PelletsAreKept DEF BoardInv
  <2>2. (Open(p)' <=> Open(p)) /\ (UnderGhost(p)' <=> UnderGhost(p))
    BY <1>1 DEF Open, UnderGhost
  <2>3. p = pacman => ~Open(p) /\ ~UnderGhost(p)
    BY <1>1, SymbolsDiffer
       DEF Open, UnderGhost, BoardInv, ActorsInv, CellsShowActors, ContactEndsGame
  <2>4. CASE UNCHANGED <<failed, delivered>> /\ entered \notin Pellets
    <3>1. ~AtHand(p) /\ (Waiting(p)' <=> Waiting(p))
      BY <1>1, <2>4 DEF AtHand, Waiting
    <3>2. QED
      BY <2>1, <2>2, <2>4, <3>1 DEF Kept
  <2>5. CASE /\ entered \in Pellets
             /\ delivered' = delivered \cup {pacman}
             /\ failed' = IF failed.active /\ failed.position = pacman
                          THEN [failed EXCEPT !.active = FALSE] ELSE failed
    <3>1. CASE p = pacman
      <4>1. ~Waiting(p)'
        BY <1>1, <1>2, <2>5, <3>1 DEF Waiting
      <4>2. QED
        BY <2>2, <2>3, <2>5, <3>1, <4>1 DEF Kept
    <3>2. CASE p # pacman
      <4>1. ~Waiting(p)' /\ ~Waiting(p) /\ ~AtHand(p)
        BY <1>1, <3>2 DEF Waiting, AtHand
      <4>2. QED
        BY <2>1, <2>2, <2>5, <3>2, <4>1 DEF Kept
    <3>3. QED
      BY <3>1, <3>2
  <2>6. CASE /\ entered \in Pellets
             /\ delivered' = delivered
             /\ failed' = [active |-> TRUE, position |-> pacman, cell |-> entered]
    <3>1. CASE p = pacman
      BY <1>1, <1>3, <2>6, <3>1 DEF Kept, Waiting
    <3>2. CASE p # pacman
      <4>1. ~Waiting(p)' /\ ~Waiting(p) /\ ~AtHand(p)
        BY <1>1, <3>2 DEF Waiting, AtHand
      <4>2. QED
        BY <2>1, <2>2, <2>6, <4>1 DEF Kept
    <3>3. QED
      BY <3>1, <3>2
  <2>7. QED
    BY <1>5, <2>4, <2>5, <2>6
<1>11. QED
  BY <1>7, <1>8, <1>9, <1>10 DEF BoardInv, ActorsInv

(* The failed pellet comes back to the board. *)
LEMMA RestoreStep ==
    ASSUME BoardInv, RestorePellet
    PROVE  BoardInv'
<1>1. /\ step = "view" /\ step' = "move" /\ met = None
      /\ cells' = Restored(cells)
      /\ UNCHANGED <<pacman, ghosts, entered, met, failed, start, delivered>>
  BY DEF RestorePellet, BoardInv, ActorsInv, MeetingInv
<1>2. /\ cells' \in [Cells -> Symbols]
      /\ \A p \in Cells :
             \/ cells'[p] = cells[p]
             \/ /\ cells[p] = "0" /\ failed.active /\ p = failed.position
                /\ cells'[p] = failed.cell
  BY <1>1, RestoredCells DEF BoardInv, ActorsInv, BoardTypeOK
<1>3. failed.active => /\ failed.cell \in Pellets
                       /\ failed.cell = start[failed.position]
                       /\ failed.position \notin delivered
  BY DEF BoardInv, PelletInv
<1>4. \A p \in Cells : cells'[p] \in {"P"} \cup GhostSymbols
                          \/ cells[p] \in {"P"} \cup GhostSymbols =>
                              cells'[p] = cells[p]
  BY <1>2, <1>3, SymbolsDiffer
<1>5. BoardTypeOK'
  BY <1>1, <1>2 DEF BoardInv, ActorsInv, BoardTypeOK
<1>6. CellsShowActors'
  <2>1. \A p \in Cells : cells'[p] = "P" <=> p = pacman
    BY <1>4 DEF BoardInv, ActorsInv, CellsShowActors
  <2>2. ASSUME NEW g \in GhostSymbols, ghosts[g].active
        PROVE  cells'[ghosts[g].position] =
                   IF ghosts[g].position = pacman THEN "P" ELSE g
    <3>1. /\ ghosts[g].position \in Cells
          /\ cells[ghosts[g].position] =
                 IF ghosts[g].position = pacman THEN "P" ELSE g
      BY <2>2 DEF BoardInv, ActorsInv, BoardTypeOK, CellsShowActors
    <3>2. QED
      BY <1>4, <3>1
  <2>3. \A p \in Cells : cells'[p] \in GhostSymbols =>
            \/ p = ghosts[cells'[p]].position
            \/ cells'[p] = start[p] /\ IsTwin(start, p)
    BY <1>4 DEF BoardInv, ActorsInv, CellsShowActors
  <2>4. QED
    BY <1>1, <2>1, <2>2, <2>3 DEF CellsShowActors
<1>7. ContactEndsGame' /\ MeetingInv'
  BY <1>1 DEF BoardInv, ActorsInv, ContactEndsGame, MeetingInv
<1>8. PelletInv'
  <2>1. \A p \in Cells : cells'[p] \in Pellets => cells'[p] = start[p]
    BY <1>2, <1>3 DEF BoardInv, PelletInv
  <2>2. QED
    BY <1>1, <2>1 DEF BoardInv, PelletInv, GhostSymbols
<1>9. PelletsConserved'
  <2> SUFFICES ASSUME NEW p \in Cells, start[p] \in Pellets
               PROVE  Kept(p)'
    BY <1>1, PelletsAreKept
  <2>1. Kept(p) /\ ~AtHand(p)
    BY <1>1, PelletsAreKept DEF BoardInv, AtHand, GhostSymbols
  <2>2. (UnderGhost(p)' <=> UnderGhost(p)) /\ (Waiting(p)' <=> Waiting(p))
    BY <1>1 DEF UnderGhost, Waiting
  <2>3. Open(p) => Open(p)'
    BY <1>1, <1>2, SymbolsDiffer DEF Open
  <2>4. p \in delivered => (Open(p)' => Open(p))
    BY <1>1, <1>2, <1>3 DEF Open
  <2>5. QED
    BY <1>1, <2>1, <2>2, <2>3, <2>4 DEF Kept
<1>10. QED
  BY <1>5, <1>6, <1>7, <1>8, <1>9 DEF BoardInv, ActorsInv

-----------------------------------------------------------------------------
LEMMA BoardStep == BoardInv /\ [BoardNext]_boardVars => BoardInv'
<1> SUFFICES ASSUME BoardInv, [BoardNext]_boardVars
             PROVE  BoardInv'
  OBVIOUS
<1>1. CASE PacManStep
  BY <1>1, MovePacManStep, StayingStep DEF PacManStep
<1>2. CASE RepeatMove
  BY <1>2, StayingStep
<1>3. CASE GhostStep
  BY <1>3, GhostTurn
<1>4. CASE FilesStep
  BY <1>4, FilesTurn
<1>5. CASE RestorePellet
  BY <1>5, RestoreStep
<1>6. CASE UNCHANGED boardVars
  <2>1. UNCHANGED <<cells, pacman, ghosts, step, entered, met, failed, start,
                    delivered>>
    BY <1>6 DEF boardVars
  <2>2. ActorsInv'
    BY <2>1 DEF BoardInv, ActorsInv, BoardTypeOK, CellsShowActors,
                ContactEndsGame, MeetingInv
  <2>3. PelletInv'
    BY <2>1 DEF BoardInv, PelletInv
  <2>4. PelletsConserved'
    BY <2>1, PelletsAreKept
       DEF BoardInv, Kept, Open, UnderGhost, AtHand, Waiting
  <2>5. QED
    BY <2>2, <2>3, <2>4 DEF BoardInv
<1>7. QED
  BY <1>1, <1>2, <1>3, <1>4, <1>5, <1>6 DEF BoardNext

(* Two ghosts in one cell would both have to show there, unless PacMan does *)
(* and has met them.                                                        *)
LEMMA ApartBecauseShown == ActorsInv => GhostsApart
<1> SUFFICES ASSUME ActorsInv, met = None,
                    NEW g \in GhostSymbols, NEW h \in GhostSymbols, g # h,
                    ghosts[g].active, ghosts[h].active,
                    ghosts[g].position = ghosts[h].position
             PROVE  FALSE
  BY DEF GhostsApart
<1>1. ghosts[g].position # pacman
  BY DEF ActorsInv, ContactEndsGame
<1>2. QED
  BY <1>1 DEF ActorsInv, CellsShowActors

(* The invariant of the board, for every size and every valid maps: all the *)
(* theorems below are parts or consequences of it.                          *)
THEOREM BoardInvariant == BoardSpec => []BoardInv
BY InitBoardInv, BoardStep, PTL DEF BoardSpec

(* Every variable of the board stays in its range. *)
THEOREM BoardTypes == BoardSpec => []BoardTypeOK
<1>1. BoardInv => BoardTypeOK
  BY DEF BoardInv, ActorsInv
<1>2. QED
  BY <1>1, BoardInvariant, PTL

(* The grid and the positions agree about where the actors are. *)
THEOREM ActorsAreShown == BoardSpec => []CellsShowActors
<1>1. BoardInv => CellsShowActors
  BY DEF BoardInv, ActorsInv
<1>2. QED
  BY <1>1, BoardInvariant, PTL

(* While the game goes on no two ghosts share a cell. *)
THEOREM GhostsStayApart == BoardSpec => []GhostsApart
<1>1. BoardInv => GhostsApart
  BY ApartBecauseShown DEF BoardInv
<1>2. QED
  BY <1>1, BoardInvariant, PTL

(* PacMan and a ghost never meet unnoticed. *)
THEOREM ContactIsNoticed == BoardSpec => []ContactEndsGame
<1>1. BoardInv => ContactEndsGame
  BY DEF BoardInv, ActorsInv
<1>2. QED
  BY <1>1, BoardInvariant, PTL

(* No pellet gets lost and none is sent twice. *)
THEOREM PelletsAreConserved == BoardSpec => []PelletsConserved
<1>1. BoardInv => PelletsConserved
  BY DEF BoardInv
<1>2. QED
  BY <1>1, BoardInvariant, PTL

(* A ghost that follows walls turns back only where no other way is free. *)
THEOREM TurningBackIsForced == BoardSpec => TurnsBackInDeadEnds
<1> DEFINE Forced ==
        \A g \in {"R", "B", "G"} :
            ghosts'[g].direction # ghosts[g].direction
              /\ ghosts'[g].direction = TurnBack(ghosts[g].direction) =>
                FreeWays(Cleared(g), g) = {TurnBack(ghosts[g].direction)}
<1>1. BoardTypeOK /\ [BoardNext]_boardVars => [Forced]_boardVars
  <2> SUFFICES ASSUME BoardTypeOK, BoardNext, NEW g \in {"R", "B", "G"},
                      ghosts'[g].direction # ghosts[g].direction,
                      ghosts'[g].direction = TurnBack(ghosts[g].direction)
               PROVE  FreeWays(Cleared(g), g) = {TurnBack(ghosts[g].direction)}
    OBVIOUS
  <2>1. g \in GhostSymbols /\ ghosts' # ghosts
    BY DEF GhostSymbols
  <2>2. PICK h \in GhostSymbols : MoveGhost(h) \/ StuckGhost(h)
    BY <2>1 DEF BoardNext, PacManStep, MovePacMan, BlockedPacMan, RepeatMove,
                GhostStep, AbsentGhost, FilesStep, NoPellet, PelletDelivered,
                PelletFailed, RestorePellet
  <2>3. PICK p, d :
            /\ PlaceGhost(Cleared(h), h, p, d)
            /\ \/ d = ghosts[h].direction
               \/ d \in Choices(Cleared(h), h) /\ FreeWays(Cleared(h), h) # {}
    <3>1. CASE MoveGhost(h)
      BY <3>1 DEF MoveGhost
    <3>2. CASE StuckGhost(h)
      BY <3>2 DEF StuckGhost
    <3>3. QED
      BY <2>2, <3>1, <3>2
  <2>4. /\ \A f \in GhostSymbols : f # h => ghosts'[f] = ghosts[f]
        /\ ghosts'[h].direction = d
    BY <2>3 DEF PlaceGhost, BoardTypeOK
  <2>5. h = g /\ d = TurnBack(ghosts[g].direction) /\ d # ghosts[g].direction
    BY <2>1, <2>4
  <2>6. QED
    BY <2>1, <2>3, <2>5, ChoicesAreFree
<1>2. QED
  BY <1>1, BoardTypes, PTL DEF BoardSpec, TurnsBackInDeadEnds
=============================================================================
