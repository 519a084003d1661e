------------------------------ MODULE MapLoading ------------------------------
(***************************************************************************)
(* src/domain/map.c: the server reads the map from a text file line by     *)
(* line.  On the default map it then clears the ghosts and the pellets and *)
(* puts each of them on a random free cell away from PacMan.  At last the  *)
(* actors are looked up in the cells.                                      *)
(***************************************************************************)
EXTENDS Integers, FiniteSets, Sequences, SequencesExt

CONSTANTS
    MapSize,        \* GAME_MAP_SIZE, 40
    PaddingRadius,  \* GAME_DEFAULT_ELEMENT_PADDING_RADIUS, 4
    Elements,       \* game_default_random_elements, the ghosts and the pellets
    MapGhosts,      \* game_ghost_symbols
    MapFiles        \* files: [opens, lines, broken], each line [symbols, ending]

MapLines == [symbols : Seq(STRING), ending : STRING]

ASSUME MapConstants ==
    /\ MapSize \in Nat \ {0} /\ PaddingRadius \in Nat
    /\ Elements \in Seq(STRING) /\ Elements # << >> /\ IsInjective(Elements)
    /\ ToSet(Elements) \cap {"P", "X", "0"} = {}
    /\ MapGhosts \subseteq ToSet(Elements)
    /\ MapFiles \subseteq [opens : BOOLEAN, lines : Seq(MapLines), broken : BOOLEAN]

VARIABLES
    mapFile,    \* the file
    isDefault,  \* whether it is the default map
    loading,    \* "open", "read", "place", "refresh", "loaded" or "refused"
    rows,       \* the lines read
    pacmanCount,
    pacmanAt,   \* the last P read
    grid,       \* map->cells, once they are all read
    candidates, \* cells an element may still be placed on
    placed,     \* elements placed
    ghostAt     \* positions of the active ghosts

mapVars == <<mapFile, isDefault, loading, rows, pacmanCount, pacmanAt, grid,
             candidates, placed, ghostAt>>

Places == (1 .. MapSize) \X (1 .. MapSize)
Symbols == {"P", "X", "0"} \cup ToSet(Elements)

-----------------------------------------------------------------------------
(* The loop over a line: every cell is a symbol of the game, none is after  *)
(* the last column, and after each comes ";" or, at the end, the line's end.*)
IsRow(line) ==
    /\ ToSet(line.symbols) \subseteq Symbols
    /\ Len(line.symbols) = MapSize
    /\ line.ending = "newline"

(* game_map_refresh_actors: the last of equal ghosts in reading order. *)
Before(a, b) == a[1] < b[1] \/ (a[1] = b[1] /\ a[2] < b[2])
LastOf(cells) == CHOOSE p \in cells : \A q \in cells \ {p} : Before(q, p)

Holding(symbol) == {p \in Places : grid[p] = symbol}

Distance(a, b) == IF a > b THEN a - b ELSE b - a

(* is_inside_pacman_padding *)
IsNear(p) ==
    /\ Distance(p[1], pacmanAt[1]) <= PaddingRadius
    /\ Distance(p[2], pacmanAt[2]) <= PaddingRadius

MapInit ==
    /\ mapFile \in MapFiles /\ isDefault \in BOOLEAN
    /\ loading = "open" /\ rows = << >>
    /\ pacmanCount = 0 /\ pacmanAt = <<1, 1>>
    /\ grid = << >> /\ candidates = {} /\ placed = 0 /\ ghostAt = << >>

OpenMap ==
    /\ loading = "open"
    /\ loading' = IF mapFile.opens THEN "read" ELSE "refused"
    /\ UNCHANGED <<mapFile, isDefault, rows, pacmanCount, pacmanAt, grid,
                   candidates, placed, ghostAt>>

NextLine == mapFile.lines[Len(rows) + 1]

ReadRow ==
    /\ loading = "read" /\ Len(rows) < Len(mapFile.lines)
    /\ Len(rows) < MapSize /\ IsRow(NextLine)
    /\ LET line == NextLine.symbols
           found == {c \in 1 .. MapSize : line[c] = "P"}
       IN  /\ rows' = Append(rows, line)
           /\ pacmanCount' = pacmanCount + Cardinality(found)
           /\ pacmanAt' = IF found = {} THEN pacmanAt
                          ELSE <<Len(rows'), CHOOSE c \in found :
                                                 \A d \in found : d <= c>>
    /\ UNCHANGED <<mapFile, isDefault, loading, grid, candidates, placed, ghostAt>>

(* A line too many, or one that is not a row of the map. *)
RefuseLine ==
    /\ loading = "read" /\ Len(rows) < Len(mapFile.lines)
    /\ Len(rows) >= MapSize \/ ~IsRow(NextLine)
    /\ loading' = "refused"
    /\ UNCHANGED <<mapFile, isDefault, rows, pacmanCount, pacmanAt, grid,
                   candidates, placed, ghostAt>>

(* The end of the file, or the point where it cannot be read on. *)
EndOfMap ==
    /\ loading = "read" /\ Len(rows) = Len(mapFile.lines)
    /\ IF mapFile.broken \/ Len(rows) # MapSize \/ pacmanCount # 1
       THEN loading' = "refused" /\ UNCHANGED grid
       ELSE /\ loading' = IF isDefault THEN "place" ELSE "refresh"
            /\ grid' = [p \in Places |-> rows[p[1]][p[2]]]
    /\ UNCHANGED <<mapFile, isDefault, rows, pacmanCount, pacmanAt, candidates,
                   placed, ghostAt>>

-----------------------------------------------------------------------------
(* randomize_default_elements: the elements of the file are cleared and the *)
(* free cells away from PacMan are counted; *)
ClearElements ==
    /\ loading = "place" /\ placed = 0 /\ candidates = {}
    /\ grid' = [p \in Places |-> IF grid[p] \in ToSet(Elements) THEN "0"
                                                                ELSE grid[p]]
    /\ LET free == {p \in Places : grid'[p] = "0" /\ ~IsNear(p)}
       IN  IF Cardinality(free) < Len(Elements)
           THEN loading' = "refused" /\ UNCHANGED candidates
           ELSE candidates' = free /\ UNCHANGED loading
    /\ UNCHANGED <<mapFile, isDefault, rows, pacmanCount, pacmanAt, placed,
                   ghostAt>>

(* Mutant: a cell that is taken stays a candidate. *)
PlaceElementAgain(p) ==
    /\ loading = "place" /\ p \in candidates /\ placed < Len(Elements)
    /\ grid' = [grid EXCEPT ![p] = Elements[placed + 1]]
    /\ candidates' = candidates
    /\ placed' = placed + 1
    /\ loading' = IF placed' = Len(Elements) THEN "refresh" ELSE "place"
    /\ UNCHANGED <<mapFile, isDefault, rows, pacmanCount, pacmanAt, ghostAt>>

(* each element takes one of them, any that the random number selects. *)
PlaceElement(p) ==
    /\ loading = "place" /\ p \in candidates /\ placed < Len(Elements)
    /\ grid' = [grid EXCEPT ![p] = Elements[placed + 1]]
    /\ candidates' = candidates \ {p}
    /\ placed' = placed + 1
    /\ loading' = IF placed' = Len(Elements) THEN "refresh" ELSE "place"
    /\ UNCHANGED <<mapFile, isDefault, rows, pacmanCount, pacmanAt, ghostAt>>

RefreshActors ==
    /\ loading = "refresh"
    /\ ghostAt' = [g \in {h \in MapGhosts : Holding(h) # {}} |->
                       LastOf(Holding(g))]
    /\ pacmanAt' = LastOf(Holding("P"))
    /\ loading' = "loaded"
    /\ UNCHANGED <<mapFile, isDefault, rows, pacmanCount, grid, candidates, placed>>

MapNext ==
    \/ OpenMap \/ ReadRow \/ RefuseLine \/ EndOfMap
    \/ ClearElements \/ RefreshActors
    \/ \E p \in Places : PlaceElement(p)

MapSpec == MapInit /\ [][MapNext]_mapVars

-----------------------------------------------------------------------------
(* Properties. *)

(* What a map is, read off the whole file at once. *)
IsMapFile(f) ==
    /\ f.opens /\ ~f.broken /\ Len(f.lines) = MapSize
    /\ \A r \in 1 .. MapSize : IsRow(f.lines[r])
    /\ Cardinality({p \in Places : f.lines[p[1]].symbols[p[2]] = "P"}) = 1

(* Of the default map only PacMan and the walls are kept. *)
KeptIn(p) == IF mapFile.lines[p[1]].symbols[p[2]] \in {"P", "X"}
             THEN mapFile.lines[p[1]].symbols[p[2]] ELSE "0"

(* A map that is loaded can be played and is the one of the file: it has    *)
(* one PacMan and he is where the program takes him to be; each ghost is    *)
(* where its symbol is; and on the default map there is each ghost and each *)
(* pellet exactly once, on a cell that was free and not in the square       *)
(* around PacMan, and nothing else has changed.  A file is refused only for *)
(* what is wrong with it, or for want of free cells (include/game/map.h).   *)
MapIsPlayable ==
    /\ loading = "loaded" =>
        /\ IsMapFile(mapFile)
        /\ Holding("P") = {pacmanAt}
        /\ \A g \in MapGhosts :
               IF Holding(g) = {} THEN g \notin DOMAIN ghostAt
               ELSE g \in DOMAIN ghostAt /\ ghostAt[g] \in Holding(g)
        /\ IF isDefault
           THEN /\ \A e \in ToSet(Elements) : Cardinality(Holding(e)) = 1
                /\ \A p \in Places :
                       IF grid[p] \in ToSet(Elements)
                       THEN KeptIn(p) = "0"
                            /\ ~( /\ p[1] \in pacmanAt[1] - PaddingRadius .. pacmanAt[1] + PaddingRadius
                                  /\ p[2] \in pacmanAt[2] - PaddingRadius .. pacmanAt[2] + PaddingRadius)
                       ELSE grid[p] = KeptIn(p)
           ELSE \A p \in Places : grid[p] = mapFile.lines[p[1]].symbols[p[2]]
    /\ loading = "refused" /\ IsMapFile(mapFile) =>
        isDefault /\ Cardinality({p \in Places : KeptIn(p) = "0" /\ ~IsNear(p)})
                         < Len(Elements)
=============================================================================
