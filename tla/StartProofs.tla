----------------------------- MODULE StartProofs -----------------------------
(***************************************************************************)
(* Theorems about the start of the program: the map and the settings.      *)
(***************************************************************************)
EXTENDS MapLoading, Startup, FiniteSetTheorems, TLAPS

(* MapIsPlayable, for maps of every size, every list of elements and every  *)
(* file.  While rows are read, the Ps of those rows are counted only as     *)
(* far as it matters, none, one or more; while elements are placed, those   *)
(* placed hold one cell each, all the others are as they were kept.         *)

Symbol(p) == mapFile.lines[p[1]].symbols[p[2]]

(* The PacMen of the first n rows. *)
PacMenIn(n) == {p \in (1 .. n) \X (1 .. MapSize) : Symbol(p) = "P"}

FreeCells == {p \in Places : KeptIn(p) = "0" /\ ~IsNear(p)}

(* ReadRow *)
RowsInv ==
    /\ Len(rows) <= Len(mapFile.lines) /\ Len(rows) <= MapSize
    /\ \A r \in 1 .. Len(rows) :
           rows[r] = mapFile.lines[r].symbols /\ IsRow(mapFile.lines[r])

PacManInv ==
    /\ pacmanCount = 0 <=> PacMenIn(Len(rows)) = {}
    /\ pacmanCount = 1 <=> \E p \in Places : PacMenIn(Len(rows)) = {p}
    /\ \A p \in Places : PacMenIn(Len(rows)) = {p} => pacmanAt = p

(* The cells as they were read, *)
AsInFile == \A p \in Places : grid[p] = Symbol(p)

(* and with the first elements on cells of their own. *)
PlacedInv ==
    /\ placed \in 0 .. Len(Elements)
    /\ candidates \subseteq FreeCells
    /\ \A p \in Places : IF grid[p] \in ToSet(Elements)
                         THEN p \in FreeCells \ candidates
                         ELSE grid[p] = KeptIn(p)
    /\ \A i \in 1 .. Len(Elements) :
           IF i <= placed THEN \E p \in Places : Holding(Elements[i]) = {p}
                          ELSE Holding(Elements[i]) = {}

CellsInv ==
    /\ IsMapFile(mapFile)
    /\ grid \in [Places -> Symbols] /\ Holding("P") = {pacmanAt}
    /\ pacmanAt \in Places
    /\ IF ~isDefault THEN AsInFile
       ELSE IF loading = "place" /\ placed = 0 /\ candidates = {} THEN AsInFile
       ELSE PlacedInv /\ (loading # "place" => placed = Len(Elements))

GhostsInv ==
    \A g \in MapGhosts :
        IF Holding(g) = {} THEN g \notin DOMAIN ghostAt
                           ELSE g \in DOMAIN ghostAt /\ ghostAt[g] \in Holding(g)

LoadingInv ==
    /\ mapFile \in MapFiles /\ isDefault \in BOOLEAN
    /\ rows \in Seq(Seq(STRING)) /\ pacmanCount \in Nat /\ placed \in Nat
    /\ pacmanAt \in Nat \X Nat
    /\ loading \in {"open", "read", "place", "refresh", "loaded", "refused"}
    /\ loading \in {"open", "read"} => placed = 0 /\ candidates = {}
    /\ loading = "read" => mapFile.opens
    /\ loading = "place" => isDefault

MapInv ==
    /\ LoadingInv /\ RowsInv /\ PacManInv
    /\ loading \in {"place", "refresh", "loaded"} => CellsInv
    /\ loading = "loaded" => GhostsInv
    /\ loading = "refused" /\ IsMapFile(mapFile) =>
           isDefault /\ Cardinality(FreeCells) < Len(Elements)

-----------------------------------------------------------------------------
(* Numbers: a set that is bounded has a largest element. *)
LEMMA LeastNumber ==
    ASSUME NEW S, S \subseteq Nat, S # {}
    PROVE  \E x \in S : \A y \in S : x <= y
<1>1. PICK x \in S : \A y \in S : <<y, x>> \notin OpToRel(<, Nat)
  BY WFMin, NatLessThanWellFounded, Zenon
<1>2. \A y \in S : ~(y < x)
  BY <1>1, Zenon DEF OpToRel
<1>3. QED
  BY <1>2

LEMMA LargestNumber ==
    ASSUME NEW n \in Nat, NEW S, S \subseteq 1 .. n, S # {}
    PROVE  \E x \in S : \A y \in S : y <= x
<1> DEFINE T == {n - s : s \in S}
<1>1. T \subseteq Nat /\ T # {}
  <2>1. \A s \in S : n - s \in Nat
    OBVIOUS
  <2>2. QED
    BY <2>1
<1>2. PICK t \in T : \A u \in T : t <= u
  BY <1>1, LeastNumber
<1>3. PICK x \in S : t = n - x
  OBVIOUS
<1>4. ASSUME NEW y \in S PROVE y <= x
  <2>1. t <= n - y
    BY <1>2
  <2>2. x \in 1 .. n /\ y \in 1 .. n
    BY Zenon
  <2>3. QED
    BY <1>3, <2>1, <2>2
<1>5. QED
  BY <1>4

(* Of several cells that hold a symbol the last in reading order is found.  *)
LEMMA LastOfPlaces ==
    ASSUME NEW cells, cells \subseteq Places, cells # {}
    PROVE  LastOf(cells) \in cells
<1>1. MapSize \in Nat
  BY MapConstants
<1> DEFINE R == {p[1] : p \in cells}
<1>2. PICK r \in R : \A s \in R : s <= r
  <2>1. R \subseteq 1 .. MapSize /\ R # {}
    BY DEF Places
  <2>2. QED
    BY <1>1, <2>1, LargestNumber
<1> DEFINE C == {p[2] : p \in {q \in cells : q[1] = r}}
<1>3. PICK c \in C : \A d \in C : d <= c
  <2>1. C \subseteq 1 .. MapSize /\ C # {}
    BY DEF Places
  <2>2. QED
    BY <1>1, <2>1, LargestNumber
<1>4. PICK p \in cells : p[1] = r /\ p[2] = c
  OBVIOUS
<1>5. ASSUME NEW q \in cells \ {p}
      PROVE  Before(q, p)
  <2>1. q[1] \in R /\ q[1] <= r
    BY <1>2
  <2>2. q[1] = r => q[2] \in C /\ q[2] <= c
    BY <1>3
  <2>3. /\ q \in (1 .. MapSize) \X (1 .. MapSize) /\ p \in (1 .. MapSize) \X (1 .. MapSize)
        /\ q # p
    BY <1>5 DEF Places
  <2>4. q[1] # p[1] \/ q[2] # p[2]
    BY <2>3
  <2>5. q[1] \in Int /\ q[2] \in Int /\ p[1] \in Int /\ p[2] \in Int
    BY <1>1, <2>3
  <2>6. QED
    BY <1>4, <2>1, <2>2, <2>4, <2>5 DEF Before
<1>6. QED
  BY <1>5 DEF LastOf

LEMMA LastOfOne ==
    ASSUME NEW p
    PROVE  LastOf({p}) = p
BY DEF LastOf

(* The cells of a map, and any of them, can be counted. *)
LEMMA PlacesAreFinite ==
    ASSUME NEW cells, cells \subseteq Places
    PROVE  IsFiniteSet(cells) /\ Cardinality(cells) \in Nat
<1>1. IsFiniteSet(1 .. MapSize)
  BY MapConstants, FS_Interval
<1>2. IsFiniteSet(Places)
  BY <1>1, FS_Product DEF Places
<1>3. QED
  BY <1>2, FS_Subset, FS_CardinalityType

-----------------------------------------------------------------------------
LEMMA FileTypes ==
    ASSUME mapFile \in MapFiles
    PROVE  /\ mapFile.opens \in BOOLEAN /\ mapFile.broken \in BOOLEAN
           /\ mapFile.lines \in Seq(MapLines) /\ Len(mapFile.lines) \in Nat
           /\ \A r \in 1 .. Len(mapFile.lines) : mapFile.lines[r].symbols \in Seq(STRING)
<1>1. mapFile \in [opens : BOOLEAN, lines : Seq(MapLines), broken : BOOLEAN]
  BY MapConstants
<1>2. mapFile.lines \in Seq(MapLines)
  BY <1>1
<1>3. \A r \in 1 .. Len(mapFile.lines) : mapFile.lines[r] \in MapLines
  BY <1>2
<1>4. QED
  BY <1>1, <1>2, <1>3 DEF MapLines

(* What a row holds is a symbol of the game. *)
LEMMA RowSymbols ==
    ASSUME mapFile \in MapFiles, NEW r \in 1 .. Len(mapFile.lines),
           IsRow(mapFile.lines[r]), NEW c \in 1 .. MapSize
    PROVE  mapFile.lines[r].symbols[c] \in Symbols
<1>1. mapFile.lines[r].symbols \in Seq(STRING)
  BY FileTypes
<1>2. c \in DOMAIN mapFile.lines[r].symbols
  BY <1>1 DEF IsRow
<1>3. QED
  BY <1>2 DEF IsRow, ToSet

(* A file has one PacMan if there is one cell with a P. *)
LEMMA OnePacManInFile ==
    ASSUME RowsInv, PacManInv, Len(rows) = MapSize, Len(mapFile.lines) = MapSize,
           mapFile.opens, ~mapFile.broken
    PROVE  IsMapFile(mapFile) <=> pacmanCount = 1
<1> DEFINE P == {p \in Places : mapFile.lines[p[1]].symbols[p[2]] = "P"}
<1>1. P = PacMenIn(MapSize)
  BY DEF PacMenIn, Symbol, Places
<1>2. \A r \in 1 .. MapSize : IsRow(mapFile.lines[r])
  BY DEF RowsInv
<1>3. IsFiniteSet(P)
  BY PlacesAreFinite
<1>4. Cardinality(P) = 1 <=> \E p \in Places : P = {p}
  <2>1. Cardinality(P) = 1 <=> \E p : P = {p}
    BY <1>3, FS_Singleton
  <2>2. QED
    BY <2>1
<1>5. QED
  BY <1>1, <1>2, <1>4 DEF PacManInv, IsMapFile

LEMMA InitMapInv == MapInit => MapInv
<1> SUFFICES ASSUME MapInit PROVE MapInv
  OBVIOUS
<1>1. MapSize \in Nat /\ Len(mapFile.lines) \in Nat
  BY MapConstants, FileTypes DEF MapInit
<1>2. rows = << >> /\ Len(rows) = 0 /\ rows \in Seq(Seq(STRING))
  BY DEF MapInit
<1>3. LoadingInv
  BY <1>2 DEF MapInit, LoadingInv
<1>4. RowsInv
  BY <1>1, <1>2 DEF RowsInv
<1>5. PacManInv
  BY <1>2 DEF PacManInv, PacMenIn, MapInit
<1>6. QED
  BY <1>3, <1>4, <1>5 DEF MapInv, MapInit

LEMMA OpenMapStep ==
    ASSUME MapInv, OpenMap
    PROVE  MapInv'
<1>1. LoadingInv'
  BY DEF MapInv, LoadingInv, OpenMap
<1>2. RowsInv' /\ PacManInv'
  BY DEF MapInv, OpenMap, RowsInv, PacManInv, PacMenIn, Symbol, IsRow
<1>3. loading' = "refused" => ~IsMapFile(mapFile)
  BY DEF OpenMap, IsMapFile
<1>4. QED
  BY <1>1, <1>2, <1>3 DEF MapInv, OpenMap, IsMapFile, IsRow

(* What was read stays true while it is not touched. *)
LEMMA RowsStay ==
    ASSUME RowsInv, PacManInv, UNCHANGED <<mapFile, rows, pacmanCount, pacmanAt>>
    PROVE  RowsInv' /\ PacManInv'
BY DEF RowsInv, PacManInv, PacMenIn, Symbol, IsRow

(* The next row adds its own PacMen to those of the rows before. *)
LEMMA NextRowsPacMen ==
    ASSUME MapConstants, NEW n \in Nat, n < MapSize
    PROVE  PacMenIn(n + 1) = PacMenIn(n) \cup
               {<<n + 1, c>> : c \in {d \in 1 .. MapSize :
                                          mapFile.lines[n + 1].symbols[d] = "P"}}
<1> DEFINE N == {<<n + 1, c>> : c \in {d \in 1 .. MapSize :
                                           mapFile.lines[n + 1].symbols[d] = "P"}}
<1>1. ASSUME NEW p \in PacMenIn(n + 1)
      PROVE  p \in PacMenIn(n) \cup N
  <2>1. p[1] \in 1 .. n + 1 /\ p[2] \in 1 .. MapSize /\ p = <<p[1], p[2]>>
    BY DEF PacMenIn
  <2>2. CASE p[1] = n + 1
    BY <2>1, <2>2 DEF PacMenIn, Symbol
  <2>3. CASE p[1] # n + 1
    <3>1. p[1] \in 1 .. n
      BY <2>1, <2>3
    <3>2. QED
      BY <2>1, <3>1 DEF PacMenIn
  <2>4. QED
    BY <2>2, <2>3
<1>2. ASSUME NEW p \in PacMenIn(n)
      PROVE  p \in PacMenIn(n + 1)
  BY DEF PacMenIn
<1>3. ASSUME NEW p \in N
      PROVE  p \in PacMenIn(n + 1)
  <2>1. PICK c \in 1 .. MapSize :
            p = <<n + 1, c>> /\ mapFile.lines[n + 1].symbols[c] = "P"
    BY <1>3
  <2>2. n + 1 \in 1 .. n + 1
    OBVIOUS
  <2>3. QED
    BY <2>1, <2>2 DEF PacMenIn, Symbol
<1>4. QED
  BY <1>1, <1>2, <1>3

LEMMA ReadRowStep ==
    ASSUME MapInv, ReadRow
    PROVE  MapInv'
<1> DEFINE n == Len(rows)
           line == NextLine.symbols
           found == {c \in 1 .. MapSize : line[c] = "P"}
           new == {<<n + 1, c>> : c \in found}
<1>1. /\ n \in Nat /\ MapSize \in Nat /\ Len(mapFile.lines) \in Nat
      /\ n < Len(mapFile.lines) /\ n < MapSize /\ IsRow(NextLine)
      /\ rows' = Append(rows, line) /\ mapFile' = mapFile
      /\ pacmanCount' = pacmanCount + Cardinality(found)
      /\ pacmanAt' = IF found = {} THEN pacmanAt
                     ELSE <<Len(rows'), CHOOSE c \in found : \A d \in found : d <= c>>
      /\ NextLine = mapFile.lines[n + 1]
      /\ mapFile \in MapFiles /\ rows \in Seq(Seq(STRING)) /\ pacmanCount \in Nat
  BY MapConstants, FileTypes DEF MapInv, LoadingInv, ReadRow, NextLine
<1>2. line \in Seq(STRING)
  BY <1>1, FileTypes
<1>3. /\ rows' \in Seq(Seq(STRING)) /\ Len(rows') = n + 1
      /\ rows'[n + 1] = line /\ \A r \in 1 .. n : rows'[r] = rows[r]
  BY <1>1, <1>2
<1>4. IsFiniteSet(found) /\ Cardinality(found) \in Nat
  <2>1. IsFiniteSet(1 .. MapSize)
    BY <1>1, FS_Interval
  <2>2. QED
    BY <2>1, FS_Subset, FS_CardinalityType
<1>5. /\ Cardinality(found) = 0 <=> found = {}
      /\ Cardinality(found) = 1 <=> \E c : found = {c}
  BY <1>4, FS_EmptySet, FS_Singleton
<1>6. found # {} => LET c == CHOOSE c \in found : \A d \in found : d <= c
                    IN  c \in found
  BY <1>1, LargestNumber
<1>7. LoadingInv'
  <2>1. pacmanAt' \in Nat \X Nat
    <3>1. CASE found = {}
      BY <1>1, <3>1 DEF MapInv, LoadingInv
    <3>2. CASE found # {}
      <4>1. PICK c \in found : pacmanAt' = <<n + 1, c>>
        BY <1>1, <1>3, <1>6, <3>2
      <4>2. c \in Nat /\ n + 1 \in Nat
        BY <1>1
      <4>3. QED
        BY <4>1, <4>2
    <3>3. QED
      BY <3>1, <3>2
  <2>2. pacmanCount' \in Nat
    BY <1>1, <1>4
  <2>3. QED
    BY <1>3, <2>1, <2>2 DEF MapInv, LoadingInv, ReadRow
<1>8. RowsInv'
  <2>1. Len(rows') <= Len(mapFile.lines) /\ Len(rows') <= MapSize
    BY <1>1, <1>3
  <2>2. ASSUME NEW r \in 1 .. n + 1
        PROVE  rows'[r] = mapFile.lines[r].symbols /\ IsRow(mapFile.lines[r])
    <3>1. CASE r = n + 1
      BY <1>1, <1>3, <3>1
    <3>2. CASE r # n + 1
      <4>1. r \in 1 .. n /\ rows'[r] = rows[r]
        BY <1>1, <1>3, <3>2
      <4>2. RowsInv /\ r \in 1 .. Len(rows)
        BY <1>1, <4>1 DEF MapInv
      <4>3. QED
        BY <4>1, <4>2 DEF RowsInv
    <3>3. QED
      BY <3>1, <3>2
  <2>3. QED
    BY <1>1, <1>3, <2>1, <2>2 DEF RowsInv, IsRow
<1>9. PacManInv'
  <2> DEFINE Q == PacMenIn(n)
             now == PacMenIn(n + 1)
  <2>1. now = Q \cup new
    BY <1>1, MapConstants, NextRowsPacMen
  <2>2. \A p \in Q : p[1] # n + 1
    BY <1>1 DEF PacMenIn
  <2>3. Q \subseteq Places /\ new \subseteq Places
    BY <1>1 DEF PacMenIn, Places
  <2>4. /\ pacmanCount = 0 <=> Q = {}
        /\ pacmanCount = 1 <=> \E p \in Places : Q = {p}
        /\ \A p \in Places : Q = {p} => pacmanAt = p
    BY DEF MapInv, PacManInv
  <2>5. \A c : c \in found <=> <<n + 1, c>> \in new
    OBVIOUS
  <2>6. \A p \in new : p[1] = n + 1 /\ p[2] \in found /\ p = <<n + 1, p[2]>>
    OBVIOUS
  <2> HIDE DEF Q, now, new, found
  <2>7. new = {} <=> found = {}
    BY <2>5, <2>6
  <2>8. pacmanCount' = 0 <=> now = {}
    BY <1>1, <1>4, <1>5, <2>1, <2>4, <2>7
  <2>9. ASSUME NEW p \in Places, now = {p}
        PROVE  pacmanCount' = 1 /\ pacmanAt' = p
    <3>1. CASE p \in Q
      <4>1. p \notin new
        BY <2>2, <2>6, <3>1
      <4>2. Q = {p} /\ new = {}
        BY <2>1, <2>9, <3>1, <4>1
      <4>3. found = {} /\ Cardinality(found) = 0
        BY <1>5, <2>7, <4>2
      <4>4. QED
        BY <1>1, <2>4, <4>2, <4>3
    <3>2. CASE p \notin Q
      <4>1. Q = {} /\ new = {p}
        BY <2>1, <2>9, <3>2
      <4>2. found = {p[2]} /\ p = <<n + 1, p[2]>>
        BY <2>5, <2>6, <4>1
      <4>3. Cardinality(found) = 1
        BY <1>5, <4>2
      <4>4. (CHOOSE c \in found : \A d \in found : d <= c) = p[2]
        BY <1>6, <4>2
      <4>5. QED
        BY <1>1, <1>3, <2>4, <4>1, <4>2, <4>3, <4>4
    <3>3. QED
      BY <3>1, <3>2
  <2>10. ASSUME pacmanCount' = 1
         PROVE  \E p \in Places : now = {p}
    <3>1. CASE found = {}
      <4>1. Cardinality(found) = 0 /\ pacmanCount = 1 /\ now = Q
        BY <1>1, <1>4, <1>5, <2>1, <2>7, <2>10, <3>1
      <4>2. QED
        BY <2>4, <4>1
    <3>2. CASE found # {}
      <4>1. Cardinality(found) = 1 /\ pacmanCount = 0
        BY <1>1, <1>4, <1>5, <2>10, <3>2
      <4>2. PICK c : found = {c}
        BY <1>5, <4>1
      <4>3. Q = {} /\ new = {<<n + 1, c>>}
        BY <2>4, <2>5, <2>6, <4>1, <4>2
      <4>4. QED
        BY <2>1, <2>3, <4>3
    <3>3. QED
      BY <3>1, <3>2
  <2>11. PacMenIn(Len(rows))' = now
    BY <1>1, <1>3 DEF PacMenIn, Symbol, now
  <2>12. QED
    BY <2>8, <2>9, <2>10, <2>11 DEF PacManInv
<1>10. QED
  BY <1>7, <1>8, <1>9 DEF MapInv, ReadRow

-----------------------------------------------------------------------------
LEMMA RefuseLineStep ==
    ASSUME MapInv, RefuseLine
    PROVE  MapInv'
<1>1. LoadingInv'
  BY DEF MapInv, LoadingInv, RefuseLine
<1>2. RowsInv' /\ PacManInv'
  BY DEF MapInv, RefuseLine, RowsInv, PacManInv, PacMenIn, Symbol, IsRow
<1>3. ~IsMapFile(mapFile)
  <2>1. /\ Len(rows) \in Nat /\ Len(mapFile.lines) \in Nat /\ MapSize \in Nat
        /\ Len(rows) < Len(mapFile.lines) /\ (Len(rows) >= MapSize \/ ~IsRow(NextLine))
    BY MapConstants, FileTypes DEF MapInv, LoadingInv, RefuseLine
  <2>2. QED
    BY <2>1 DEF IsMapFile, NextLine
<1>4. QED
  BY <1>1, <1>2, <1>3 DEF MapInv, RefuseLine, IsMapFile, IsRow

(* What the rows hold has become the cells. *)
LEMMA EndOfMapStep ==
    ASSUME MapInv, EndOfMap
    PROVE  MapInv'
<1>1. /\ Len(rows) = Len(mapFile.lines) /\ mapFile.opens /\ mapFile \in MapFiles
      /\ mapFile' = mapFile /\ rows' = rows /\ isDefault' = isDefault
      /\ pacmanAt' = pacmanAt /\ placed' = 0 /\ candidates' = {}
      /\ Len(rows) \in Nat /\ MapSize \in Nat
  BY MapConstants DEF MapInv, LoadingInv, EndOfMap
<1>2. LoadingInv' /\ RowsInv' /\ PacManInv'
  BY DEF MapInv, LoadingInv, EndOfMap, RowsInv, PacManInv, PacMenIn, Symbol, IsRow
<1>3. CASE loading' = "refused"
  <2>1. mapFile.broken \/ Len(rows) # MapSize \/ pacmanCount # 1
    BY <1>3 DEF EndOfMap
  <2>2. ~IsMapFile(mapFile)
    BY <1>1, <2>1, OnePacManInFile DEF MapInv, IsMapFile
  <2>3. QED
    BY <1>1, <1>2, <1>3, <2>2 DEF MapInv, IsMapFile, IsRow
<1>4. CASE loading' # "refused"
  <2>1. /\ ~mapFile.broken /\ Len(rows) = MapSize /\ pacmanCount = 1
        /\ loading' = (IF isDefault THEN "place" ELSE "refresh")
        /\ grid' = [p \in Places |-> rows[p[1]][p[2]]]
    BY <1>4, FileTypes, <1>1 DEF EndOfMap
  <2>2. IsMapFile(mapFile)
    BY <1>1, <2>1, OnePacManInFile DEF MapInv
  <2>3. ASSUME NEW p \in Places
        PROVE  grid'[p] = Symbol(p) /\ grid'[p] \in Symbols
    <3>1. /\ p[1] \in 1 .. Len(rows) /\ p[2] \in 1 .. MapSize
          /\ p[1] \in 1 .. Len(mapFile.lines)
      BY <1>1, <2>1 DEF Places
    <3>2. rows[p[1]] = mapFile.lines[p[1]].symbols
      BY <3>1 DEF MapInv, RowsInv
    <3>3. mapFile.lines[p[1]].symbols[p[2]] \in Symbols
      BY <1>1, <2>1, <2>2, <3>1, RowSymbols DEF IsMapFile
    <3>4. QED
      BY <2>1, <3>2, <3>3 DEF Symbol
  <2>4. PICK p \in Places : PacMenIn(MapSize) = {p} /\ pacmanAt = p
    BY <2>1 DEF MapInv, PacManInv
  <2>5. Holding("P")' = {pacmanAt}
    BY <2>3, <2>4 DEF Holding, PacMenIn, Places
  <2>6. grid' \in [Places -> Symbols]
    BY <2>1, <2>3
  <2>7. AsInFile'
    BY <1>1, <2>3 DEF AsInFile, Symbol
  <2>8. CellsInv'
    BY <1>1, <2>1, <2>2, <2>4, <2>5, <2>6, <2>7 DEF CellsInv, IsMapFile, IsRow
  <2>9. QED
    BY <1>2, <2>1, <2>8 DEF MapInv
<1>5. QED
  BY <1>3, <1>4

-----------------------------------------------------------------------------
(* The elements are different symbols, and none is PacMan, wall or floor.   *)
LEMMA ElementsDiffer ==
    /\ Len(Elements) \in Nat \ {0}
    /\ \A i \in 1 .. Len(Elements) : Elements[i] \in ToSet(Elements)
    /\ \A e \in ToSet(Elements) : e \notin {"P", "X", "0"} /\ e \in Symbols
    /\ \A e \in ToSet(Elements) : \E i \in 1 .. Len(Elements) : e = Elements[i]
    /\ \A i, j \in 1 .. Len(Elements) : Elements[i] = Elements[j] => i = j
<1>1. Elements \in Seq(STRING) /\ Elements # << >> /\ DOMAIN Elements = 1 .. Len(Elements)
  BY MapConstants
<1>2. \A e \in ToSet(Elements) : e \in Symbols
  BY DEF Symbols
<1>3. \A e \in ToSet(Elements) : e \notin {"P", "X", "0"}
  BY MapConstants
<1>4. \A e \in ToSet(Elements) : \E i \in 1 .. Len(Elements) : e = Elements[i]
  BY <1>1 DEF ToSet
<1>5. \A i \in 1 .. Len(Elements) : Elements[i] \in ToSet(Elements)
  BY <1>1 DEF ToSet
<1>6. \A i, j \in 1 .. Len(Elements) : Elements[i] = Elements[j] => i = j
  BY <1>1, MapConstants DEF IsInjective
<1>7. Len(Elements) \in Nat \ {0}
  BY <1>1
<1>8. QED
  BY <1>2, <1>3, <1>4, <1>5, <1>6, <1>7

(* What a map of the file keeps of a cell. *)
LEMMA KeptSymbols ==
    ASSUME mapFile \in MapFiles, IsMapFile(mapFile), NEW p \in Places
    PROVE  /\ Symbol(p) \in Symbols
           /\ KeptIn(p) = IF Symbol(p) \in ToSet(Elements) THEN "0" ELSE Symbol(p)
           /\ KeptIn(p) \notin ToSet(Elements) /\ KeptIn(p) \in Symbols
           /\ KeptIn(p) = "P" <=> Symbol(p) = "P"
<1>1. Symbol(p) \in Symbols
  <2>1. p[1] \in 1 .. MapSize /\ p[2] \in 1 .. MapSize
    BY DEF Places
  <2>2. QED
    BY <2>1, RowSymbols DEF IsMapFile, Symbol
<1>2. KeptIn(p) = IF Symbol(p) \in {"P", "X"} THEN Symbol(p) ELSE "0"
  BY DEF KeptIn, Symbol
<1>3. \A e \in ToSet(Elements) : e \notin {"P", "X", "0"}
  BY ElementsDiffer
<1>4. Symbol(p) \in {"P", "X", "0"} \/ Symbol(p) \in ToSet(Elements)
  BY <1>1 DEF Symbols
<1>5. KeptIn(p) \in {"P", "X", "0"}
  BY <1>2
<1>6. KeptIn(p) = IF Symbol(p) \in ToSet(Elements) THEN "0" ELSE Symbol(p)
  BY <1>2, <1>3, <1>4
<1>7. KeptIn(p) \notin ToSet(Elements) /\ KeptIn(p) \in Symbols
  BY <1>3, <1>5 DEF Symbols
<1>8. KeptIn(p) = "P" <=> Symbol(p) = "P"
  BY <1>2
<1>9. QED
  BY <1>1, <1>6, <1>7, <1>8

LEMMA ClearElementsStep ==
    ASSUME MapInv, ClearElements
    PROVE  MapInv'
<1> DEFINE free == {p \in Places : grid'[p] = "0" /\ ~IsNear(p)}
<1>1. /\ mapFile' = mapFile /\ rows' = rows /\ isDefault /\ isDefault' = isDefault
      /\ pacmanAt' = pacmanAt /\ placed' = 0 /\ placed = 0 /\ candidates = {}
      /\ mapFile \in MapFiles /\ loading = "place"
  BY DEF MapInv, LoadingInv, ClearElements
<1>2. /\ grid' = [p \in Places |-> IF grid[p] \in ToSet(Elements) THEN "0" ELSE grid[p]]
      /\ IF Cardinality(free) < Len(Elements)
         THEN loading' = "refused" /\ candidates' = candidates
         ELSE candidates' = free /\ loading' = loading
  BY DEF ClearElements
<1>3. IsMapFile(mapFile) /\ AsInFile /\ Holding("P") = {pacmanAt} /\ pacmanAt \in Places
  BY <1>1 DEF MapInv, CellsInv
<1>4. ASSUME NEW p \in Places
      PROVE  /\ grid'[p] = KeptIn(p) /\ grid'[p] \in Symbols
             /\ grid'[p] \notin ToSet(Elements)
             /\ grid'[p] = "P" <=> grid[p] = "P"
  BY <1>1, <1>2, <1>3, KeptSymbols DEF AsInFile
<1>5. free = FreeCells
  BY <1>4 DEF FreeCells
<1>6. LoadingInv' /\ RowsInv' /\ PacManInv'
  <2>1. RowsInv' /\ PacManInv'
    BY RowsStay DEF MapInv, ClearElements
  <2>2. LoadingInv'
    BY <1>1, <1>2 DEF MapInv, LoadingInv, ClearElements
  <2>3. QED
    BY <2>1, <2>2
<1>7. FreeCells' = FreeCells
  BY <1>1 DEF FreeCells, KeptIn, IsNear
<1>8. CASE Cardinality(free) < Len(Elements)
  BY <1>1, <1>2, <1>5, <1>6, <1>7, <1>8 DEF MapInv
<1>9. CASE ~(Cardinality(free) < Len(Elements))
  <2>1. candidates' = FreeCells /\ loading' = "place"
    BY <1>1, <1>2, <1>5, <1>9
  <2>2. FreeCells # {}
    <3>1. IsFiniteSet(free) /\ Cardinality(free) \in Nat
      BY PlacesAreFinite
    <3>2. Len(Elements) \in Nat \ {0}
      BY ElementsDiffer
    <3>3. QED
      BY <1>5, <1>9, <3>1, <3>2, FS_EmptySet
  <2>3. Holding("P")' = {pacmanAt}
    BY <1>3, <1>4 DEF Holding
  <2>4. grid' \in [Places -> Symbols]
    BY <1>2, <1>4
  <2>5. PlacedInv'
    <3>1. \A i \in 1 .. Len(Elements) : Holding(Elements[i])' = {}
      BY <1>4, ElementsDiffer DEF Holding
    <3>2. \A p \in Places : grid'[p] \notin ToSet(Elements) /\ grid'[p] = KeptIn(p)
      BY <1>4
    <3>3. \A p \in Places : KeptIn(p)' = KeptIn(p)
      BY <1>1 DEF KeptIn
    <3>4. 0 \in 0 .. Len(Elements) /\ \A i \in 1 .. Len(Elements) : ~(i <= 0)
      BY ElementsDiffer
    <3>5. QED
      BY <1>1, <1>7, <2>1, <3>1, <3>2, <3>3, <3>4 DEF PlacedInv
  <2>6. IsMapFile(mapFile)'
    BY <1>1, <1>3 DEF IsMapFile, IsRow
  <2>7. CellsInv'
    BY <1>1, <1>3, <1>7, <2>1, <2>2, <2>3, <2>4, <2>5, <2>6 DEF CellsInv
  <2>8. QED
    BY <1>6, <2>1, <2>7 DEF MapInv
<1>10. QED
  BY <1>8, <1>9

LEMMA PlaceElementStep ==
    ASSUME MapInv, NEW p \in Places, PlaceElement(p)
    PROVE  MapInv'
<1> DEFINE k == placed + 1
           e == Elements[k]
<1>1. /\ mapFile' = mapFile /\ rows' = rows /\ isDefault /\ isDefault' = isDefault
      /\ pacmanAt' = pacmanAt /\ mapFile \in MapFiles /\ loading = "place"
      /\ p \in candidates /\ placed < Len(Elements) /\ placed \in Nat
      /\ grid' = [grid EXCEPT ![p] = e] /\ candidates' = candidates \ {p}
      /\ placed' = k /\ loading' = (IF k = Len(Elements) THEN "refresh" ELSE "place")
  BY DEF MapInv, LoadingInv, PlaceElement
<1>2. /\ IsMapFile(mapFile) /\ Holding("P") = {pacmanAt} /\ pacmanAt \in Places
      /\ grid \in [Places -> Symbols] /\ PlacedInv
  BY <1>1 DEF MapInv, CellsInv
<1>3. k \in 1 .. Len(Elements) /\ Len(Elements) \in Nat
  BY <1>1, ElementsDiffer
<1>4. e \in ToSet(Elements) /\ e \in Symbols /\ e \notin {"P", "X", "0"}
  BY <1>3, ElementsDiffer
<1>5. grid[p] = "0" /\ p \in FreeCells
  BY <1>1, <1>2 DEF PlacedInv, FreeCells
<1>6. LoadingInv' /\ RowsInv' /\ PacManInv'
  <2>1. RowsInv' /\ PacManInv'
    BY RowsStay DEF MapInv, PlaceElement
  <2>2. LoadingInv'
    BY <1>1, <1>3 DEF MapInv, LoadingInv, PlaceElement
  <2>3. QED
    BY <2>1, <2>2
<1>7. grid' \in [Places -> Symbols] /\ grid'[p] = e /\ \A q \in Places \ {p} : grid'[q] = grid[q]
  BY <1>1, <1>2, <1>4
<1>8. Holding("P")' = {pacmanAt}
  BY <1>2, <1>4, <1>5, <1>7 DEF Holding
<1>9. FreeCells' = FreeCells /\ \A q \in Places : KeptIn(q)' = KeptIn(q)
  BY <1>1 DEF FreeCells, KeptIn, IsNear
<1>10. PlacedInv'
  <2>1. placed' \in 0 .. Len(Elements) /\ candidates' \subseteq FreeCells
    BY <1>1, <1>2, <1>3 DEF PlacedInv
  <2>2. ASSUME NEW q \in Places
        PROVE  IF grid'[q] \in ToSet(Elements)
               THEN q \in FreeCells \ candidates' ELSE grid'[q] = KeptIn(q)
    BY <1>1, <1>2, <1>4, <1>5, <1>7 DEF PlacedInv
  <2>3. ASSUME NEW i \in 1 .. Len(Elements)
        PROVE  IF i <= k THEN \E q \in Places : Holding(Elements[i])' = {q}
                         ELSE Holding(Elements[i])' = {}
    <3>1. IF i <= placed THEN \E q \in Places : Holding(Elements[i]) = {q}
                         ELSE Holding(Elements[i]) = {}
      BY <1>2 DEF PlacedInv
    <3>2. Elements[i] # "0"
      BY ElementsDiffer
    <3>3. CASE i = k
      <4>1. Holding(Elements[i]) = {}
        BY <1>1, <3>1, <3>3
      <4>2. Holding(Elements[i])' = {p}
        BY <1>7, <3>3, <4>1 DEF Holding
      <4>3. QED
        BY <1>1, <3>3, <4>2
    <3>4. CASE i # k
      <4>1. Elements[i] # e
        BY <1>3, <3>4, ElementsDiffer
      <4>2. Holding(Elements[i])' = Holding(Elements[i])
        BY <1>5, <1>7, <3>2, <4>1 DEF Holding
      <4>3. i <= k <=> i <= placed
        BY <1>1, <3>4
      <4>4. QED
        BY <3>1, <4>2, <4>3
    <3>5. QED
      BY <3>3, <3>4
  <2>4. QED
    BY <1>1, <1>9, <2>1, <2>2, <2>3 DEF PlacedInv
<1>11. CellsInv'
  <2>1. IsMapFile(mapFile)'
    BY <1>1, <1>2 DEF IsMapFile, IsRow
  <2>2. placed' # 0 /\ (loading' # "place" => placed' = Len(Elements))
    BY <1>1
  <2>3. QED
    BY <1>1, <1>2, <1>7, <1>8, <1>10, <2>1, <2>2 DEF CellsInv
<1>12. QED
  BY <1>1, <1>6, <1>11 DEF MapInv

LEMMA RefreshActorsStep ==
    ASSUME MapInv, RefreshActors
    PROVE  MapInv'
<1>1. /\ UNCHANGED <<mapFile, isDefault, rows, pacmanCount, grid, candidates, placed>>
      /\ loading = "refresh" /\ loading' = "loaded" /\ pacmanAt' = LastOf(Holding("P"))
      /\ ghostAt' = [g \in {h \in MapGhosts : Holding(h) # {}} |-> LastOf(Holding(g))]
  BY DEF RefreshActors
<1>2. CellsInv /\ Holding("P") = {pacmanAt}
  BY <1>1 DEF MapInv, CellsInv
<1>3. pacmanAt' = pacmanAt
  BY <1>1, <1>2, LastOfOne
<1>4. LoadingInv' /\ RowsInv' /\ PacManInv'
  BY <1>1, <1>3 DEF MapInv, LoadingInv, RowsInv, PacManInv, PacMenIn, Symbol, IsRow
<1>5. CellsInv'
  <2>1. IsMapFile(mapFile)'
    BY <1>1, <1>2 DEF CellsInv, IsMapFile, IsRow
  <2>2. \A symbol : Holding(symbol)' = Holding(symbol)
    BY <1>1 DEF Holding
  <2>3. AsInFile' <=> AsInFile
    BY <1>1 DEF AsInFile, Symbol
  <2>4. \A p : KeptIn(p)' = KeptIn(p) /\ (IsNear(p)' <=> IsNear(p))
    BY <1>1, <1>3 DEF KeptIn, IsNear
  <2>5. FreeCells' = FreeCells
    BY <2>4 DEF FreeCells
  <2>6. PlacedInv' <=> PlacedInv
    BY <1>1, <2>2, <2>4, <2>5 DEF PlacedInv
  <2>7. QED
    BY <1>1, <1>2, <1>3, <2>1, <2>2, <2>3, <2>6 DEF CellsInv
<1>6. GhostsInv'
  <2>1. \A g : Holding(g)' = Holding(g) /\ Holding(g) \subseteq Places
    BY <1>1 DEF Holding
  <2>2. \A g : Holding(g) # {} => LastOf(Holding(g)) \in Holding(g)
    BY <2>1, LastOfPlaces
  <2>3. QED
    BY <1>1, <2>1, <2>2 DEF GhostsInv
<1>7. QED
  BY <1>1, <1>4, <1>5, <1>6 DEF MapInv

-----------------------------------------------------------------------------
(* Near PacMan is within the padding in both directions. *)
LEMMA NearIsWithinPadding ==
    ASSUME pacmanAt \in Places, NEW p \in Places
    PROVE  IsNear(p) <=>
               /\ p[1] \in pacmanAt[1] - PaddingRadius .. pacmanAt[1] + PaddingRadius
               /\ p[2] \in pacmanAt[2] - PaddingRadius .. pacmanAt[2] + PaddingRadius
<1>1. /\ p[1] \in Int /\ p[2] \in Int /\ PaddingRadius \in Nat
      /\ pacmanAt[1] \in Int /\ pacmanAt[2] \in Int
  BY MapConstants DEF Places
<1>2. QED
  BY <1>1 DEF IsNear, Distance

LEMMA LoadedIsPlayable == MapInv => MapIsPlayable
<1> SUFFICES ASSUME MapInv PROVE MapIsPlayable
  OBVIOUS
<1>1. ASSUME loading = "loaded"
      PROVE  /\ IsMapFile(mapFile) /\ Holding("P") = {pacmanAt}
             /\ GhostsInv /\ CellsInv
  BY <1>1 DEF MapInv, CellsInv
<1>2. ASSUME loading = "loaded", ~isDefault
      PROVE  \A p \in Places : grid[p] = mapFile.lines[p[1]].symbols[p[2]]
  BY <1>1, <1>2 DEF CellsInv, AsInFile, Symbol
<1>3. ASSUME loading = "loaded", isDefault
      PROVE  /\ PlacedInv /\ placed = Len(Elements) /\ pacmanAt \in Places
  BY <1>1, <1>3 DEF CellsInv
<1>4. ASSUME loading = "loaded", isDefault, NEW e \in ToSet(Elements)
      PROVE  Cardinality(Holding(e)) = 1
  <2>1. PICK i \in 1 .. Len(Elements) : e = Elements[i]
    BY ElementsDiffer
  <2>2. i <= placed
    BY <1>3, <1>4
  <2>3. \E p \in Places : Holding(e) = {p}
    BY <1>3, <1>4, <2>1, <2>2 DEF PlacedInv
  <2>4. QED
    BY <2>3, FS_Singleton
<1>5. ASSUME loading = "loaded", isDefault, NEW p \in Places
      PROVE  IF grid[p] \in ToSet(Elements) THEN KeptIn(p) = "0" /\ ~IsNear(p)
                                            ELSE grid[p] = KeptIn(p)
  BY <1>3, <1>5 DEF PlacedInv, FreeCells
<1>6. QED
  BY <1>1, <1>2, <1>3, <1>4, <1>5, NearIsWithinPadding
     DEF MapIsPlayable, GhostsInv, MapInv, FreeCells

(* A map that is loaded is that of the file and can be played; a file is    *)
(* refused only for what is wrong with it: maps of every size, any elements,*)
(* any files, wherever the random numbers place the elements.               *)
THEOREM LoadedMapsArePlayable == MapSpec => []MapIsPlayable
<1>1. MapInv /\ [MapNext]_mapVars => MapInv'
  <2> SUFFICES ASSUME MapInv, [MapNext]_mapVars
               PROVE  MapInv'
    OBVIOUS
  <2>1. CASE MapNext
    BY <2>1, OpenMapStep, ReadRowStep, RefuseLineStep, EndOfMapStep,
       ClearElementsStep, PlaceElementStep, RefreshActorsStep DEF MapNext
  <2>2. CASE UNCHANGED mapVars
    <3>1. UNCHANGED <<mapFile, isDefault, loading, rows, pacmanCount, pacmanAt,
                      grid, candidates, placed, ghostAt>>
      BY <2>2 DEF mapVars
    <3>2. LoadingInv' /\ RowsInv' /\ PacManInv'
      BY <3>1, RowsStay DEF MapInv, LoadingInv
    <3>3. (IsMapFile(mapFile) <=> IsMapFile(mapFile)') /\ FreeCells' = FreeCells
      BY <3>1 DEF IsMapFile, IsRow, FreeCells, KeptIn, IsNear
    <3>4. CellsInv => CellsInv'
      BY <3>1, <3>3 DEF CellsInv, Holding, AsInFile, Symbol, PlacedInv, KeptIn
    <3>5. GhostsInv => GhostsInv'
      BY <3>1 DEF GhostsInv, Holding
    <3>6. QED
      BY <3>1, <3>2, <3>3, <3>4, <3>5 DEF MapInv
  <2>3. QED
    BY <2>1, <2>2
<1>2. QED
  BY <1>1, InitMapInv, LoadedIsPlayable, PTL DEF MapSpec
-----------------------------------------------------------------------------
(* The settings.  What makes SettingsAreWhole and SavedIsLoaded inductive   *)
(* is that, line after line, the settings are what the lines read so far    *)
(* say, and that nothing changes the file after a save but another save.    *)

(* A record of settings; the ranges IsValid leaves open. *)
IsSettings(s) == s = [key \in SettingKeys |-> s[key]]
IsSeed(number) == number = NotSet \/ InRange(number, 0, MaxSeed)
Fits(s) == CanBeMap(s.map) /\ CanBeInterface(s.interface)

(* Settings that were saved, and the file they made. *)
IsSaved(s) ==
    IsSettings(s) /\ IsValid(s) /\ Fits(s) /\ IsSeed(s.seed)

FileOf(s) == [opens |-> TRUE, lines |-> SavedLines(s), broken |-> FALSE]

(* Where main is once the settings are checked. *)
AfterLoad == {"use or edit", "save?", "iface", "play", "handshake", "session"}
                \cup SettingKeys

SettingsInv ==
    /\ IsSettings(cfg) /\ IsSeed(cfg.seed)
    /\ IsSettings(next) /\ IsSeed(next.seed)

(* What was read is what the lines so far say. *)
ReadingInv ==
    /\ step = "lines" =>
           /\ disk.opens /\ lineNumber \in 0 .. Len(disk.lines)
           /\ \A i \in 1 .. lineNumber : IsGoodLine(disk.lines[i])
           /\ IsValid(cfg) /\ cfg = SaidBy(disk.lines, lineNumber)
    /\ step = "override" => cfg = WholeFile(disk)

(* The settings in use, and the copy that is edited. *)
UsedInv ==
    /\ step \in AfterLoad => IsValid(cfg) /\ Fits(cfg)
    /\ step \in SettingKeys => Fits(next)
    /\ step \in {"play", "handshake", "session"} => cfg.interface # NoText

(* The file is what the last save has left of it. *)
IsLeftBy(save, file) ==
    /\ IsSaved(save.settings)
    /\ IF save.whole THEN file = FileOf(save.settings)
       ELSE \E lines \in CutFiles(SavedLines(save.settings)) :
                file = [opens |-> TRUE, lines |-> lines, broken |-> FALSE]

DiskInv ==
    /\ Len(disk.lines) \in Nat
    /\ \A save \in saved : IsLeftBy(save, disk)

StartupInv == SettingsInv /\ ReadingInv /\ UsedInv /\ DiskInv

-----------------------------------------------------------------------------
(* The defaults are valid, without bit flips. *)
LEMMA DefaultsAreSettings ==
    /\ IsSettings(Defaults) /\ IsSeed(Defaults.seed) /\ IsValid(Defaults)
    /\ Defaults.percent = NotSet /\ Defaults.seed = NotSet
<1>1. IsSettings(Defaults)
  BY DEF IsSettings, Defaults, SettingKeys
<1>2. /\ Defaults.role = "servidor" /\ Defaults.window = MaxWindow
      /\ Defaults.map = Text("default.csv")
      /\ Defaults.percent = NotSet /\ Defaults.seed = NotSet
  BY DEF Defaults
<1>3. Text("default.csv") # NoText
  BY DEF Text, NoText
<1>4. InRange(MaxWindow, MinWindow, MaxWindow)
  BY DEF InRange, MinWindow, MaxWindow
<1> QED
  BY <1>1, <1>2, <1>3, <1>4 DEF IsSeed, IsValid

(* A good line that is no comment is about a setting. *)
LEMMA GoodKeys ==
    ASSUME NEW line, IsGoodLine(line), line.key # "note"
    PROVE  line.key \in SettingKeys
BY DEF IsGoodLine, SettingKeys

(* What a good line changes, *)
LEMMA AppliedAt ==
    ASSUME NEW s, IsSettings(s), NEW line, IsGoodLine(line), line.key # "note"
    PROVE  /\ IsSettings(Applied(s, line))
           /\ \A key \in SettingKeys : Applied(s, line)[key] =
                  IF key = line.key THEN ValueOf(line) ELSE s[key]
<1>1. line.key \in SettingKeys
  BY GoodKeys
<1>2. Applied(s, line) = [s EXCEPT ![line.key] = ValueOf(line)]
  BY DEF Applied
<1>3. PICK v : v = ValueOf(line)
  OBVIOUS
<1>4. PICK k \in SettingKeys : k = line.key
  BY <1>1
<1>5. s = [key \in SettingKeys |-> s[key]]
  BY DEF IsSettings
<1>6. [s EXCEPT ![k] = v] = [key \in SettingKeys |-> IF key = k THEN v ELSE s[key]]
  BY <1>5
<1> QED
  BY <1>2, <1>3, <1>4, <1>6 DEF IsSettings

(* and that it leaves valid settings valid. *)
LEMMA AppliedIsValid ==
    ASSUME NEW s, IsSettings(s), IsValid(s), IsSeed(s.seed),
           NEW line, IsGoodLine(line)
    PROVE  IsValid(Applied(s, line)) /\ IsSeed(Applied(s, line).seed)
<1>1. CASE line.key = "note"
  BY <1>1 DEF Applied
<1>2. CASE line.key # "note"
  <2>1. PICK t : t = Applied(s, line)
    OBVIOUS
  <2>2. \A key \in SettingKeys : t[key] = IF key = line.key THEN ValueOf(line) ELSE s[key]
    BY <1>2, <2>1, AppliedAt
  <2>3. t.role \in {"servidor", "cliente"}
    BY <2>2 DEF SettingKeys, IsValid, IsGoodLine, ValueOf
  <2>4. InRange(t.window, MinWindow, MaxWindow)
    BY <2>2 DEF SettingKeys, IsValid, IsGoodLine, ValueOf
  <2>5. t.percent # NotSet => InRange(t.percent, 0, MaxPercent)
    BY <2>2 DEF SettingKeys, IsValid, IsGoodLine, ValueOf
  <2>6. t.map # NoText
    BY <2>2 DEF SettingKeys, IsValid, IsGoodLine, ValueOf, CanBeMap
  <2>7. IsSeed(t.seed)
    BY <2>2 DEF SettingKeys, IsSeed, IsGoodLine, ValueOf
  <2> QED
    BY <2>1, <2>3, <2>4, <2>5, <2>6, <2>7 DEF IsValid
<1> QED
  BY <1>1, <1>2

(* No line says nothing, *)
LEMMA SaidByNoLine ==
    ASSUME NEW lines
    PROVE  SaidBy(lines, 0) = Defaults
<1>1. 1 .. 0 = {}
  OBVIOUS
<1>2. SaidBy(lines, 0) = [key \in SettingKeys |-> Defaults[key]]
  <2>1. \A key : LinesOf(lines, key, 0) = {}
    BY <1>1 DEF LinesOf
  <2>2. \A key : SaidOf(lines, key, 0) = Defaults[key]
    BY <2>1 DEF SaidOf
  <2> QED
    BY <2>2 DEF SaidBy
<1> QED
  BY <1>2, DefaultsAreSettings DEF IsSettings

(* and one more says what it changes in what those before it say. *)
LEMMA SaidByOneMore ==
    ASSUME NEW lines, NEW n \in Nat, IsGoodLine(lines[n + 1])
    PROVE  SaidBy(lines, n + 1) = Applied(SaidBy(lines, n), lines[n + 1])
<1>1. \A m \in Nat : SaidBy(lines, m) = [key \in SettingKeys |-> SaidOf(lines, key, m)]
  BY DEF SaidBy
<1>2. IsSettings(SaidBy(lines, n))
  BY <1>1 DEF IsSettings
<1>3. ASSUME NEW key \in SettingKeys, key # lines[n + 1].key
      PROVE  SaidOf(lines, key, n + 1) = SaidOf(lines, key, n)
  <2>1. LinesOf(lines, key, n + 1) = LinesOf(lines, key, n)
    BY <1>3 DEF LinesOf
  <2> QED
    BY <2>1 DEF SaidOf
<1>4. ASSUME NEW key \in SettingKeys, key = lines[n + 1].key
      PROVE  SaidOf(lines, key, n + 1) = ValueOf(lines[n + 1])
  <2>1. PICK of : of = LinesOf(lines, key, n + 1)
    OBVIOUS
  <2>2. n + 1 \in of /\ \A j \in of : j \in Nat /\ j <= n + 1
    BY <1>4, <2>1 DEF LinesOf
  <2>3. LastLine(of) = n + 1
    BY <2>2 DEF LastLine
  <2> QED
    BY <2>1, <2>2, <2>3 DEF SaidOf
<1>5. CASE lines[n + 1].key = "note"
  <2>1. \A key \in SettingKeys : key # lines[n + 1].key
    BY <1>5 DEF SettingKeys
  <2>2. SaidBy(lines, n + 1) = SaidBy(lines, n)
    BY <1>1, <1>3, <2>1
  <2> QED
    BY <1>5, <2>2 DEF Applied
<1>6. CASE lines[n + 1].key # "note"
  <2>1. PICK t : t = Applied(SaidBy(lines, n), lines[n + 1])
    OBVIOUS
  <2>2. IsSettings(t)
    BY <1>2, <1>6, <2>1, AppliedAt
  <2>3. \A key \in SettingKeys : t[key] = IF key = lines[n + 1].key
            THEN ValueOf(lines[n + 1]) ELSE SaidBy(lines, n)[key]
    BY <1>2, <1>6, <2>1, AppliedAt
  <2>4. \A key \in SettingKeys : t[key] = SaidOf(lines, key, n + 1)
    BY <1>1, <1>3, <1>4, <2>3
  <2> QED
    BY <1>1, <2>1, <2>2, <2>4 DEF IsSettings
<1> QED
  BY <1>5, <1>6

-----------------------------------------------------------------------------
(* The keys in the order they are saved, and how many of them are. *)
KeysSaved ==
    <<"note", "role", "window", "map", "interface", "percent", "seed">>

SizeSaved(s) == IF s.percent = NotSet THEN 5 ELSE IF s.seed = NotSet THEN 6 ELSE 7

(* The lines of a saved file. *)
LEMMA SavedLinesAre ==
    ASSUME NEW s
    PROVE  /\ Len(SavedLines(s)) = SizeSaved(s)
           /\ \A i \in 1 .. SizeSaved(s) : SavedLines(s)[i] = LineOf(s, KeysSaved[i])
<1>1. PICK keys : keys = SavedKeys(s)
  OBVIOUS
<1>2. CASE s.percent = NotSet
  <2>1. SizeSaved(s) = 5 /\ keys = <<"note", "role", "window", "map", "interface">>
    BY <1>1, <1>2 DEF SavedKeys, SizeSaved
  <2> QED
    BY <1>1, <2>1 DEF KeysSaved, SavedLines
<1>3. CASE s.percent # NotSet /\ s.seed = NotSet
  <2>1. /\ SizeSaved(s) = 6
        /\ keys = <<"note", "role", "window", "map", "interface", "percent">>
    BY <1>1, <1>3 DEF SavedKeys, SizeSaved
  <2> QED
    BY <1>1, <2>1 DEF KeysSaved, SavedLines
<1>4. CASE s.percent # NotSet /\ s.seed # NotSet
  <2>1. SizeSaved(s) = 7 /\ keys = KeysSaved
    BY <1>1, <1>4 DEF SavedKeys, SizeSaved, KeysSaved
  <2> QED
    BY <1>1, <2>1 DEF KeysSaved, SavedLines
<1> QED
  BY <1>2, <1>3, <1>4

(* A map of blanks spoils the file. *)
LEMMA BlankMap ==
    ASSUME NEW s, IsSaved(s), Trimmed(s.map) = NoText
    PROVE  WholeFile(FileOf(s)) = Defaults
<1>1. SavedLines(s)[4] = LineOf(s, "map") /\ 4 \in 1 .. Len(SavedLines(s))
  BY SavedLinesAre DEF SizeSaved, KeysSaved
<1>2. ~IsGoodLine(LineOf(s, "map"))
  BY DEF IsGoodLine, LineOf, CanBeMap
<1> QED
  BY <1>1, <1>2 DEF WholeFile, FileOf

(* Else every line of it can be read. *)
LEMMA SavedLineIsGood ==
    ASSUME NEW s, IsSaved(s), Trimmed(s.map) # NoText, NEW i \in 1 .. SizeSaved(s)
    PROVE  IsGoodLine(LineOf(s, KeysSaved[i]))
<1>1. Trimmed(s.map).name = s.map.name
  BY DEF Trimmed, Text
<1>2. Trimmed(s.interface).name = s.interface.name
  BY DEF Trimmed, Text
<1>3. i \in {1, 2, 3, 4, 5} \/ (i = 6 /\ s.percent # NotSet)
      \/ (i = 7 /\ s.percent # NotSet /\ s.seed # NotSet)
  BY DEF SizeSaved
<1>4. CASE i = 1
  BY <1>4 DEF KeysSaved, LineOf, IsGoodLine, Note
<1>5. CASE i = 2
  BY <1>5 DEF KeysSaved, LineOf, IsGoodLine, IsSaved, IsValid
<1>6. CASE i = 3
  BY <1>6 DEF KeysSaved, LineOf, IsGoodLine, IsSaved, IsValid
<1>7. CASE i = 4
  BY <1>1, <1>7 DEF KeysSaved, LineOf, IsGoodLine, IsSaved, Fits, CanBeMap
<1>8. CASE i = 5
  BY <1>2, <1>8 DEF KeysSaved, LineOf, IsGoodLine, IsSaved, Fits, CanBeInterface
<1>9. CASE i = 6 /\ s.percent # NotSet
  BY <1>9 DEF KeysSaved, LineOf, IsGoodLine, IsSaved, IsValid
<1>10. CASE i = 7 /\ s.percent # NotSet /\ s.seed # NotSet
  BY <1>10 DEF KeysSaved, LineOf, IsGoodLine, IsSaved, IsSeed
<1> QED
  BY <1>3, <1>4, <1>5, <1>6, <1>7, <1>8, <1>9, <1>10

(* Where each key is. *)
PlaceOf == [role |-> 2, window |-> 3, map |-> 4, interface |-> 5, percent |-> 6,
            seed |-> 7]

(* What is read for each key. *)
LEMMA SavedValue ==
    ASSUME NEW s, IsSaved(s), NEW key \in SettingKeys
    PROVE  SaidOf(SavedLines(s), key, SizeSaved(s)) =
               IF PlaceOf[key] <= SizeSaved(s) THEN ValueOf(LineOf(s, key))
               ELSE Defaults[key]
<1>1. PICK lines : lines = SavedLines(s)
  OBVIOUS
<1>2. PICK n \in {5, 6, 7} : n = SizeSaved(s)
  BY DEF SizeSaved
<1>3. PICK p \in 2 .. 7 : p = PlaceOf[key]
  BY DEF PlaceOf, SettingKeys
<1>4. \A i \in 1 .. 7 : KeysSaved[i] = key <=> i = p
  BY <1>3 DEF KeysSaved, PlaceOf, SettingKeys
<1>5. \A i \in 1 .. n : lines[i] = LineOf(s, KeysSaved[i])
  BY <1>1, <1>2, SavedLinesAre
<1>6. \A i \in 1 .. 7 : LineOf(s, KeysSaved[i]).key = KeysSaved[i]
  BY DEF LineOf, KeysSaved, Note
<1>7. LinesOf(lines, key, n) = {i \in 1 .. n : i = p}
  BY <1>2, <1>4, <1>5, <1>6 DEF LinesOf
<1>8. CASE p <= n
  <2>1. LinesOf(lines, key, n) = {p}
    BY <1>2, <1>7, <1>8
  <2>2. LastLine({p}) = p
    BY DEF LastLine
  <2>3. lines[p] = LineOf(s, key)
    BY <1>2, <1>4, <1>5, <1>8
  <2> QED
    BY <1>1, <1>2, <1>3, <1>8, <2>1, <2>2, <2>3 DEF SaidOf
<1>9. CASE ~(p <= n)
  <2>1. LinesOf(lines, key, n) = {}
    BY <1>2, <1>7, <1>9
  <2> QED
    BY <1>1, <1>2, <1>3, <1>9, <2>1 DEF SaidOf
<1> QED
  BY <1>8, <1>9

(* What is read is what was saved, but for blanks and a seed without use. *)
LEMMA SavedIsRead ==
    ASSUME NEW s, IsSaved(s), Trimmed(s.map) # NoText
    PROVE  Effective(WholeFile(FileOf(s))) =
               Effective([s EXCEPT !.map = Trimmed(@), !.interface = Trimmed(@)])
<1>1. PICK lines, n : lines = SavedLines(s) /\ n = SizeSaved(s)
  OBVIOUS
<1>2. /\ Len(lines) = n
      /\ \A i \in 1 .. n : IsGoodLine(lines[i])
  BY <1>1, SavedLinesAre, SavedLineIsGood
<1>3. WholeFile(FileOf(s)) = SaidBy(lines, n)
  BY <1>1, <1>2 DEF WholeFile, FileOf
<1>4. PICK t : t = SaidBy(lines, n)
  OBVIOUS
<1>5. t = [key \in SettingKeys |-> t[key]]
  BY <1>4 DEF SaidBy
<1>6. /\ t.role = s.role /\ t.window = s.window /\ t.map = Trimmed(s.map)
      /\ t.interface = Trimmed(s.interface)
      /\ t.percent = s.percent
      /\ s.percent # NotSet => t.seed = s.seed
  <2>1. \A key \in SettingKeys : t[key] =
            IF PlaceOf[key] <= n THEN ValueOf(LineOf(s, key)) ELSE Defaults[key]
    BY <1>1, <1>4, SavedValue DEF SaidBy
  <2>2. n \in {5, 6, 7} /\ (n = 5 => s.percent = NotSet) /\ (n > 5 => s.percent # NotSet)
        /\ (n = 6 => s.seed = NotSet)
    BY <1>1 DEF SizeSaved
  <2>3. Defaults.percent = NotSet /\ Defaults.seed = NotSet
    BY DefaultsAreSettings
  <2>4. t.role = s.role
    BY <2>1, <2>2 DEF SettingKeys, PlaceOf, ValueOf, LineOf
  <2>5. t.window = s.window
    BY <2>1, <2>2 DEF SettingKeys, PlaceOf, ValueOf, LineOf
  <2>6. t.map = Trimmed(s.map)
    BY <2>1, <2>2 DEF SettingKeys, PlaceOf, ValueOf, LineOf
  <2>7. t.interface = Trimmed(s.interface)
    BY <2>1, <2>2 DEF SettingKeys, PlaceOf, ValueOf, LineOf
  <2>8. t.percent = s.percent
    BY <2>1, <2>2, <2>3 DEF SettingKeys, PlaceOf, ValueOf, LineOf
  <2>9. s.percent # NotSet => t.seed = s.seed
    BY <2>1, <2>2, <2>3 DEF SettingKeys, PlaceOf, ValueOf, LineOf
  <2> QED
    BY <2>4, <2>5, <2>6, <2>7, <2>8, <2>9
<1>7. PICK u : u = [s EXCEPT !.map = Trimmed(@), !.interface = Trimmed(@)]
  OBVIOUS
<1>8. u = [key \in SettingKeys |->
              IF key = "map" THEN Trimmed(s.map)
              ELSE IF key = "interface" THEN Trimmed(s.interface) ELSE s[key]]
  <2>1. s = [key \in SettingKeys |-> s[key]]
    BY DEF IsSaved, IsSettings
  <2> QED
    BY <1>7, <2>1 DEF SettingKeys
<1>9. \A key \in SettingKeys : key # "seed" => t[key] = u[key]
  BY <1>6, <1>8 DEF SettingKeys
<1>10. CASE s.percent = NotSet
  <2>1. t.percent = NotSet /\ u.percent = NotSet
    BY <1>6, <1>8, <1>10 DEF SettingKeys
  <2>2. [t EXCEPT !.seed = NotSet] = [u EXCEPT !.seed = NotSet]
    BY <1>5, <1>8, <1>9 DEF SettingKeys
  <2> QED
    BY <1>3, <1>4, <1>7, <2>1, <2>2 DEF Effective
<1>11. CASE s.percent # NotSet
  <2>1. t.seed = u.seed
    BY <1>6, <1>8, <1>11 DEF SettingKeys
  <2>2. t = u
    BY <1>5, <1>8, <1>9, <2>1 DEF SettingKeys
  <2> QED
    BY <1>3, <1>4, <1>7, <2>2
<1> QED
  BY <1>10, <1>11
-----------------------------------------------------------------------------
(* The value of a key of which there is at most one line, a saved one. *)
LEMMA OneLineSays ==
    ASSUME NEW s, NEW lines, NEW n \in Nat, NEW key \in SettingKeys, NEW place,
           LinesOf(lines, key, n) \subseteq {place},
           place \in LinesOf(lines, key, n) => lines[place] = LineOf(s, key)
    PROVE  SaidOf(lines, key, n) \in {Defaults[key], ValueOf(LineOf(s, key))}
<1>1. CASE LinesOf(lines, key, n) = {}
  BY <1>1 DEF SaidOf
<1>2. CASE LinesOf(lines, key, n) # {}
  <2>1. LinesOf(lines, key, n) = {place}
    BY <1>2
  <2>2. LastLine({place}) = place
    BY <2>1 DEF LastLine
  <2>3. lines[place] = LineOf(s, key)
    BY <2>1
  <2> QED
    BY <1>2, <2>1, <2>2, <2>3 DEF SaidOf
<1> QED
  BY <1>1, <1>2

(* A line that is cut and can be read is about its key, or a comment. *)
LEMMA CutLineKeys ==
    ASSUME NEW s, NEW m \in 1 .. 7, NEW cut \in CutLines(LineOf(s, KeysSaved[m]))
    PROVE  cut.key \in {KeysSaved[m], "note", "unknown"}
<1>1. PICK key : key = KeysSaved[m] /\ key \in SettingKeys \cup {"note"}
  BY DEF KeysSaved, SettingKeys
<1>2. CASE key = "note"
  BY <1>1, <1>2 DEF CutLines, LineOf, Note, Unreadable
<1>3. CASE key # "note"
  <2>1. PICK v : LineOf(s, key) = [key |-> key, value |-> v]
    BY <1>3 DEF LineOf
  <2> QED
    BY <1>1, <1>3, <2>1 DEF CutLines, SettingKeys, Unreadable
<1> QED
  BY <1>1, <1>2, <1>3

(* What a cut file says, if it can be read, is what was saved or the default*)
(* of every setting but the one whose line was cut.                         *)
LEMMA CutIsRead ==
    ASSUME NEW s, NEW lines \in CutFiles(SavedLines(s)),
           NEW t, t = WholeFile([opens |-> TRUE, lines |-> lines, broken |-> FALSE])
    PROVE  \E torn \in SettingKeys : \A key \in SettingKeys \ {torn} :
               t[key] \in {Defaults[key], ValueOf(LineOf(s, key))}
<1>1. PICK n \in 5 .. 7 : n = SizeSaved(s)
  BY DEF SizeSaved
<1>2. PICK whole : whole = SavedLines(s) /\ Len(whole) = n
  BY <1>1, SavedLinesAre
<1>3. \A i \in 1 .. n : whole[i] = LineOf(s, KeysSaved[i])
  BY <1>1, <1>2, SavedLinesAre
<1>4. \A i \in 1 .. 7 : LineOf(s, KeysSaved[i]).key = KeysSaved[i]
  BY DEF LineOf, KeysSaved, Note
<1>5. \A key \in SettingKeys : \A i \in 1 .. 7 : KeysSaved[i] = key <=> i = PlaceOf[key]
  BY DEF KeysSaved, PlaceOf, SettingKeys
<1>6. whole \in Seq({whole[i] : i \in 1 .. n})
  <2>1. whole = [i \in 1 .. n |-> whole[i]]
    BY <1>2, SavedLinesAre DEF SavedLines
  <2> QED
    BY <2>1
<1>7. \A m \in 0 .. n : Len(SubSeq(whole, 1, m)) = m
                        /\ \A i \in 1 .. m : SubSeq(whole, 1, m)[i] = whole[i]
  BY <1>2, <1>6
<1>8. CASE \E i \in 1 .. Len(lines) : ~IsGoodLine(lines[i])
  BY <1>8 DEF WholeFile, SettingKeys
<1>9. CASE \A i \in 1 .. Len(lines) : IsGoodLine(lines[i])
  <2>1. t = [key \in SettingKeys |-> SaidOf(lines, key, Len(lines))]
    BY <1>9 DEF WholeFile, SaidBy
  <2>2. CASE \E m \in 0 .. n : lines = SubSeq(whole, 1, m)
    <3>1. PICK m \in 0 .. n : lines = SubSeq(whole, 1, m)
      BY <2>2
    <3>2. Len(lines) = m /\ m \in Nat
      BY <1>7, <3>1
    <3>3. ASSUME NEW key \in SettingKeys, NEW i \in 1 .. m, lines[i].key = key
          PROVE  i = PlaceOf[key] /\ lines[i] = LineOf(s, key)
      BY <1>3, <1>4, <1>5, <1>7, <3>1, <3>3
    <3>4. ASSUME NEW key \in SettingKeys
          PROVE  SaidOf(lines, key, m) \in {Defaults[key], ValueOf(LineOf(s, key))}
      <4>1. PICK place : place = PlaceOf[key]
        OBVIOUS
      <4>2. /\ LinesOf(lines, key, m) \subseteq {place}
            /\ place \in LinesOf(lines, key, m) => lines[place] = LineOf(s, key)
        BY <3>3, <4>1 DEF LinesOf
      <4> QED
        BY <3>2, <4>2, OneLineSays, Zenon
    <3> QED
      BY <2>1, <3>2, <3>4 DEF SettingKeys
  <2>3. CASE \E m \in 1 .. n : \E cut \in CutLines(whole[m]) :
                 lines = Append(SubSeq(whole, 1, m - 1), cut)
    <3>0. PICK m \in 1 .. n : \E cut \in CutLines(whole[m]) :
              lines = Append(SubSeq(whole, 1, m - 1), cut)
      BY <2>3
    <3>1. PICK cut \in CutLines(whole[m]) :
              m \in 1 .. n /\ lines = Append(SubSeq(whole, 1, m - 1), cut)
      BY <3>0
    <3>2. PICK before : before = SubSeq(whole, 1, m - 1)
      OBVIOUS
    <3>3. m - 1 \in 0 .. n
      BY <3>1
    <3>4. /\ before \in Seq({whole[i] : i \in 1 .. n}) /\ Len(before) = m - 1
          /\ \A i \in 1 .. m - 1 : before[i] = whole[i]
      BY <1>2, <1>6, <1>7, <3>2, <3>3
    <3>5. /\ Len(lines) = m /\ lines[m] = cut
          /\ \A i \in 1 .. m - 1 : lines[i] = whole[i]
      BY <3>1, <3>2, <3>4
    <3>6. cut.key \in {KeysSaved[m], "note", "unknown"}
      BY <1>3, <3>1, CutLineKeys
    <3>7. PICK torn \in SettingKeys : KeysSaved[m] \in SettingKeys => torn = KeysSaved[m]
      BY DEF SettingKeys
    <3>8. ASSUME NEW key \in SettingKeys \ {torn}, NEW i \in 1 .. m, lines[i].key = key
          PROVE  i = PlaceOf[key] /\ lines[i] = LineOf(s, key)
      <4>1. i # m
        BY <3>5, <3>6, <3>7, <3>8 DEF SettingKeys
      <4>2. i \in 1 .. m - 1 /\ i \in 1 .. n /\ i \in 1 .. 7
        BY <3>1, <4>1
      <4> QED
        BY <1>3, <1>4, <1>5, <3>5, <3>8, <4>2
    <3>9. ASSUME NEW key \in SettingKeys \ {torn}
          PROVE  SaidOf(lines, key, m) \in {Defaults[key], ValueOf(LineOf(s, key))}
      <4>1. PICK place : place = PlaceOf[key]
        OBVIOUS
      <4>2. /\ LinesOf(lines, key, m) \subseteq {place}
            /\ place \in LinesOf(lines, key, m) => lines[place] = LineOf(s, key)
        BY <3>8, <4>1 DEF LinesOf
      <4>3. key \in SettingKeys /\ m \in Nat
        OBVIOUS
      <4> QED
        BY <4>2, <4>3, OneLineSays, Zenon
    <3> QED
      BY <2>1, <3>5, <3>9
  <2>4. \/ \E m \in 0 .. n : lines = SubSeq(whole, 1, m)
        \/ \E m \in 1 .. n : \E cut \in CutLines(whole[m]) :
               lines = Append(SubSeq(whole, 1, m - 1), cut)
    BY <1>2 DEF CutFiles
  <2> QED
    BY <2>2, <2>3, <2>4
<1> QED
  BY <1>8, <1>9

(* A file that was cut is a file. *)
LEMMA CutFilesHaveLines ==
    ASSUME NEW s, NEW lines \in CutFiles(SavedLines(s))
    PROVE  Len(lines) \in Nat
<1>0. PICK n \in Nat : n = SizeSaved(s)
  BY DEF SizeSaved
<1>1. PICK whole : whole = SavedLines(s) /\ n = SizeSaved(s)
  BY <1>0
<1> DEFINE S == {whole[i] : i \in 1 .. n}
<1>2. whole \in Seq(S)
  <2>1. whole = [i \in 1 .. n |-> whole[i]]
    BY <1>1, SavedLinesAre DEF SavedLines
  <2> QED
    BY <2>1
<1>3. \A m \in 0 .. n : SubSeq(whole, 1, m) \in Seq(S)
  BY <1>1, <1>2, SavedLinesAre
<1>4. CASE \E m \in 0 .. Len(whole) : lines = SubSeq(whole, 1, m)
  BY <1>1, <1>3, <1>4, SavedLinesAre
<1>5. CASE \E m \in 1 .. Len(whole) : \E cut \in CutLines(whole[m]) :
              lines = Append(SubSeq(whole, 1, m - 1), cut)
  <2>1. PICK m \in 1 .. n : \E cut : lines = Append(SubSeq(whole, 1, m - 1), cut)
    BY <1>1, <1>5, SavedLinesAre
  <2>2. PICK cut : lines = Append(SubSeq(whole, 1, m - 1), cut)
    BY <2>1
  <2>3. m - 1 \in 0 .. n
    OBVIOUS
  <2>4. PICK start \in Seq(S) : start = SubSeq(whole, 1, m - 1)
    BY <1>3, <2>3
  <2> QED
    BY <2>2, <2>4
<1> QED
  BY <1>1, <1>4, <1>5 DEF CutFiles

(* Without a save the file stays what the last one left. *)
LEMMA DiskStays ==
    ASSUME DiskInv, UNCHANGED <<disk, saved>>
    PROVE  DiskInv'
<1>1. PICK file, saves : file = disk /\ saves = saved
  OBVIOUS
<1>2. Len(file.lines) \in Nat /\ \A save \in saves : IsLeftBy(save, file)
  BY <1>1 DEF DiskInv
<1>3. file = disk' /\ saves = saved'
  BY <1>1
<1> QED
  BY <1>2, <1>3 DEF DiskInv

(* Steps that change neither the settings nor the file. *)
LEMMA QuietStep ==
    ASSUME StartupInv, UNCHANGED <<disk, cfg, next, saved>>,
           step' \notin {"lines", "override"} \cup SettingKeys,
           step' \in AfterLoad => step \in AfterLoad,
           step' \in {"play", "handshake", "session"} => cfg.interface # NoText
    PROVE  StartupInv'
<1>1. SettingsInv'
  BY DEF StartupInv, SettingsInv, IsSettings, IsSeed
<1>2. ReadingInv'
  BY DEF ReadingInv
<1>3. UsedInv'
  BY DEF StartupInv, UsedInv, IsValid, Fits
<1>4. DiskInv'
  BY DiskStays DEF StartupInv
<1> QED
  BY <1>1, <1>2, <1>3, <1>4 DEF StartupInv

(* Loading keeps the settings those of the lines that were read. *)
LEMMA LoadStep ==
    ASSUME StartupInv, OpenFile \/ ReadSettingLine \/ EndOfFile
    PROVE  StartupInv'
<1>1. UNCHANGED <<disk, next, saved>> /\ step' \in {"lines", "override"}
  BY DEF OpenFile, ReadSettingLine, EndOfFile, LoadFails, LoadEnds, GoTo
<1>2. DiskInv'
  BY <1>1, DiskStays DEF StartupInv
<1>3. UsedInv'
  BY <1>1 DEF UsedInv, AfterLoad, SettingKeys
<1>0. PICK n \in Nat : n = Len(disk.lines)
  BY DEF StartupInv, DiskInv
<1>4. PICK lines : lines = disk.lines /\ n = Len(disk.lines)
  BY <1>0
<1>5. SUFFICES SettingsInv' /\ ReadingInv'
  BY <1>2, <1>3 DEF StartupInv
<1>6. IsSettings(next') /\ IsSeed(next'.seed)
  BY <1>1 DEF StartupInv, SettingsInv, IsSettings, IsSeed
<1>7. CASE step' = "override" /\ cfg' = Defaults /\ WholeFile(disk) = Defaults
  BY <1>1, <1>6, <1>7, DefaultsAreSettings DEF SettingsInv, ReadingInv
<1>8. CASE OpenFile
  <2>1. CASE disk.opens
    BY <1>1, <1>4, <1>6, <1>8, <2>1, DefaultsAreSettings, SaidByNoLine
       DEF OpenFile, GoTo, SettingsInv, ReadingInv
  <2>2. CASE ~disk.opens
    BY <1>7, <1>8, <2>2 DEF OpenFile, LoadFails, LoadEnds, GoTo, WholeFile
  <2> QED
    BY <2>1, <2>2
<1>9. CASE ReadSettingLine
  <2>0. PICK k \in 0 .. n - 1 : k = lineNumber
    BY <1>4, <1>9 DEF ReadSettingLine, StartupInv, ReadingInv
  <2>1. PICK line : k = lineNumber /\ line = lines[k + 1]
    BY <2>0
  <2>2. PICK s : s = cfg /\ s = SaidBy(lines, k) /\ IsSettings(s) /\ IsValid(s)
                 /\ IsSeed(s.seed)
    BY <1>4, <1>9, <2>1 DEF ReadSettingLine, StartupInv, ReadingInv, SettingsInv
  <2>3. CASE IsGoodLine(line)
    <3>1. cfg' = Applied(s, line) /\ lineNumber' = k + 1 /\ step' = "lines"
      BY <1>4, <1>9, <2>1, <2>2, <2>3 DEF ReadSettingLine, GoTo
    <3>2. PICK t : t = Applied(s, line)
      OBVIOUS
    <3>3. IsSettings(t) /\ IsValid(t) /\ IsSeed(t.seed)
      BY <2>2, <2>3, <3>2, AppliedAt, AppliedIsValid DEF Applied
    <3>4. t = SaidBy(lines, k + 1)
      BY <2>1, <2>2, <2>3, <3>2, SaidByOneMore
    <3>5. \A i \in 1 .. k + 1 : IsGoodLine(lines[i])
      BY <1>4, <1>9, <2>1, <2>3 DEF ReadSettingLine, StartupInv, ReadingInv
    <3>6. disk.opens /\ disk' = disk
      BY <1>1, <1>9 DEF ReadSettingLine, StartupInv, ReadingInv
    <3> QED
      BY <1>4, <1>6, <2>1, <3>1, <3>2, <3>3, <3>4, <3>5, <3>6
         DEF SettingsInv, ReadingInv
  <2>4. CASE ~IsGoodLine(line)
    <3>1. WholeFile(disk) = Defaults
      BY <1>4, <2>1, <2>4 DEF WholeFile
    <3> QED
      BY <1>4, <1>7, <1>9, <2>1, <2>4, <3>1 DEF ReadSettingLine, LoadFails, LoadEnds, GoTo
  <2> QED
    BY <2>3, <2>4
<1>10. CASE EndOfFile
  <2>1. /\ disk.opens /\ IsValid(cfg) /\ cfg = SaidBy(disk.lines, Len(disk.lines))
        /\ \A i \in 1 .. Len(disk.lines) : IsGoodLine(disk.lines[i])
    BY <1>10 DEF EndOfFile, StartupInv, ReadingInv
  <2>2. CASE disk.broken
    BY <1>7, <1>10, <2>2 DEF EndOfFile, LoadFails, LoadEnds, GoTo, WholeFile
  <2>3. CASE ~disk.broken
    <3>1. cfg = WholeFile(disk)
      BY <2>1, <2>3 DEF WholeFile
    <3>2. cfg' = cfg /\ disk' = disk /\ step' = "override"
      BY <1>1, <1>10, <2>1, <2>3 DEF EndOfFile, LoadEnds, GoTo
    <3>3. IsSettings(cfg') /\ IsSeed(cfg'.seed)
      BY <3>2 DEF StartupInv, SettingsInv, IsSettings, IsSeed
    <3> QED
      BY <1>6, <3>1, <3>2, <3>3 DEF SettingsInv, ReadingInv
  <2> QED
    BY <2>2, <2>3
<1> QED
  BY <1>8, <1>9, <1>10
(* The command line. *)
LEMMA OverrideStep ==
    ASSUME StartupInv, Override
    PROVE  StartupInv'
<1>1. PICK s : s = Overridden
  OBVIOUS
<1>2. IsSettings(s) /\ IsSeed(s.seed)
  <2>1. cfg = [key \in SettingKeys |-> cfg[key]]
    BY DEF StartupInv, SettingsInv, IsSettings
  <2>2. s = [key \in SettingKeys |-> s[key]] /\ s.seed = cfg.seed
    BY <1>1, <2>1 DEF Overridden, SettingKeys
  <2> QED
    BY <2>2 DEF StartupInv, SettingsInv, IsSettings
<1>3. cfg' = s /\ UNCHANGED <<disk, next, saved>>
  BY <1>1 DEF Override
<1>4. step' = "exited" \/ (step' = "use or edit" /\ IsValid(s) /\ Fits(s))
  BY <1>1 DEF Override, GoTo, Exit, Fits
<1>5. SettingsInv'
  BY <1>2, <1>3 DEF StartupInv, SettingsInv, IsSettings, IsSeed
<1>6. ReadingInv'
  BY <1>4 DEF ReadingInv
<1>7. UsedInv'
  BY <1>3, <1>4 DEF UsedInv, AfterLoad, SettingKeys
<1>8. DiskInv'
  BY <1>3, DiskStays DEF StartupInv
<1> QED
  BY <1>5, <1>6, <1>7, <1>8 DEF StartupInv

(* Editing. *)
LEMMA EditStep ==
    ASSUME StartupInv, Edit
    PROVE  StartupInv'
<1>1. UNCHANGED <<disk, cfg, saved>> /\ next' = cfg /\ step' = "role"
  BY DEF Edit, GoTo
<1>2. IsValid(cfg) /\ Fits(cfg)
  BY DEF Edit, StartupInv, UsedInv, AfterLoad
<1>3. SettingsInv'
  BY <1>1 DEF StartupInv, SettingsInv, IsSettings, IsSeed
<1>4. ReadingInv'
  BY <1>1 DEF ReadingInv
<1>5. UsedInv'
  BY <1>1, <1>2 DEF UsedInv, IsValid, Fits
<1>6. DiskInv'
  BY <1>1, DiskStays DEF StartupInv
<1> QED
  BY <1>3, <1>4, <1>5, <1>6 DEF StartupInv

(* The next prompt, or the end of them. *)
LEMMA ProceedStep ==
    ASSUME StartupInv, NEW key \in SettingKeys, step = key,
           NEW edited, IsSettings(edited), IsSeed(edited.seed), Fits(edited),
           Proceed(key, edited), UNCHANGED <<disk, saved>>
    PROVE  StartupInv'
<1>1. IsValid(cfg) /\ Fits(cfg)
  BY DEF StartupInv, UsedInv, AfterLoad
<1>2. DiskInv'
  BY DiskStays DEF StartupInv
<1>3. CASE key = "seed" \/ (key = "percent" /\ edited.percent = NotSet)
  <2>1. /\ next' = Defaults
        /\ \/ IsValid(edited) /\ cfg' = edited /\ step' = "save?"
           \/ UNCHANGED cfg /\ step' = "exited"
    BY <1>3 DEF Proceed, GoTo, Exit
  <2>2. SettingsInv'
    BY <2>1, DefaultsAreSettings DEF StartupInv, SettingsInv, IsSettings, IsSeed
  <2>3. ReadingInv'
    BY <2>1 DEF ReadingInv
  <2>4. UsedInv'
    BY <2>1 DEF UsedInv, AfterLoad, SettingKeys
  <2> QED
    BY <1>2, <2>2, <2>3, <2>4 DEF StartupInv
<1>4. CASE ~(key = "seed" \/ (key = "percent" /\ edited.percent = NotSet))
  <2>1. UNCHANGED cfg /\ next' = edited /\ step' = Following[key]
    BY <1>4 DEF Proceed, GoTo
  <2>2. Following[key] \in SettingKeys
    BY <1>4 DEF Following, SettingKeys
  <2>3. SettingsInv'
    BY <2>1 DEF StartupInv, SettingsInv, IsSettings, IsSeed
  <2>4. ReadingInv'
    BY <2>1, <2>2 DEF ReadingInv, SettingKeys
  <2>5. UsedInv'
    BY <1>1, <2>1, <2>2 DEF UsedInv, SettingKeys, IsValid, Fits
  <2> QED
    BY <1>2, <2>3, <2>4, <2>5 DEF StartupInv
<1> QED
  BY <1>3, <1>4

(* A prompt that is answered. *)
LEMMA PromptStep ==
    ASSUME StartupInv, NEW key \in SettingKeys,
           KeepValue(key) \/ GiveValue(key) \/ SwitchOff(key)
    PROVE  StartupInv'
<1>1. step = key /\ UNCHANGED <<disk, saved>>
  BY DEF KeepValue, GiveValue, SwitchOff
<1>2. PICK s : s = next
  OBVIOUS
<1>3. IsSettings(s) /\ IsSeed(s.seed) /\ Fits(s)
  BY <1>1, <1>2 DEF StartupInv, SettingsInv, UsedInv
<1>4. CASE KeepValue(key)
  <2>1. Proceed(key, s)
    BY <1>2, <1>4 DEF KeepValue, Proceed
  <2> QED
    BY <1>1, <1>3, <2>1, ProceedStep
<1>5. CASE GiveValue(key)
  <2>1. PICK answer \in Answers[key] :
            IF Takes(key, answer) THEN Proceed(key, [next EXCEPT ![key] = answer])
            ELSE Exit(2) /\ UNCHANGED <<cfg, next>>
    BY <1>5 DEF GiveValue
  <2>2. CASE ~Takes(key, answer)
    BY <1>1, <2>1, <2>2, QuietStep DEF Exit, AfterLoad, SettingKeys
  <2>3. CASE Takes(key, answer)
    <3>1. PICK t : t = [s EXCEPT ![key] = answer]
      OBVIOUS
    <3>2. IsSettings(t) /\ \A k \in SettingKeys : t[k] = IF k = key THEN answer ELSE s[k]
      <4>1. s = [k \in SettingKeys |-> s[k]]
        BY <1>3 DEF IsSettings
      <4>2. t = [k \in SettingKeys |-> IF k = key THEN answer ELSE s[k]]
        BY <3>1, <4>1
      <4> QED
        BY <4>2 DEF IsSettings
    <3>3. IsSeed(t.seed)
      BY <1>3, <2>3, <3>2 DEF Takes, IsSeed, SettingKeys
    <3>4. Fits(t)
      BY <1>3, <2>3, <3>2 DEF Takes, Fits, SettingKeys
    <3>5. Proceed(key, t)
      BY <1>2, <2>1, <2>3, <3>1 DEF Proceed
    <3> QED
      BY <1>1, <3>2, <3>3, <3>4, <3>5, ProceedStep
  <2> QED
    BY <2>2, <2>3
<1>6. CASE SwitchOff(key)
  <2>1. PICK t : t = [s EXCEPT !.seed = NotSet,
                               !.percent = IF key = "seed" THEN @ ELSE NotSet]
    OBVIOUS
  <2>2. /\ t = [k \in SettingKeys |-> t[k]]
        /\ t.seed = NotSet /\ t.map = s.map /\ t.interface = s.interface
    BY <1>3, <2>1 DEF IsSettings, SettingKeys
  <2>3. IsSettings(t) /\ IsSeed(t.seed) /\ Fits(t)
    BY <1>3, <2>2 DEF IsSettings, IsSeed, Fits
  <2>4. Proceed(key, t)
    BY <1>2, <1>6, <2>1 DEF SwitchOff, Proceed
  <2> QED
    BY <1>1, <2>3, <2>4, ProceedStep
<1> QED
  BY <1>4, <1>5, <1>6

(* Saving: the whole file, or a part of it. *)
LEMMA SaveStep ==
    ASSUME StartupInv, Save \/ SaveIsCut
    PROVE  StartupInv'
<1>1. /\ step = "save?" /\ IsValid(cfg) /\ UNCHANGED <<cfg, next>>
      /\ step' \in {"iface", "exited"}
  BY DEF Save, SaveIsCut, GoTo, Exit
<1>2. IsSaved(cfg)
  BY <1>1 DEF StartupInv, SettingsInv, UsedInv, AfterLoad, IsSaved
<1>3. SettingsInv'
  BY <1>1 DEF StartupInv, SettingsInv, IsSettings, IsSeed
<1>4. ReadingInv'
  BY <1>1 DEF ReadingInv
<1>5. UsedInv'
  BY <1>1, <1>2 DEF UsedInv, AfterLoad, SettingKeys, IsSaved, IsValid, Fits
<1>6. PICK s : s = cfg
  OBVIOUS
<1>7. CASE Save
  <2>1. disk' = FileOf(s) /\ saved' = {[settings |-> s, whole |-> TRUE]}
    BY <1>6, <1>7 DEF Save, FileOf
  <2>2. Len(SavedLines(s)) \in Nat
    BY SavedLinesAre DEF SizeSaved
  <2>3. DiskInv'
    BY <1>2, <1>6, <2>1, <2>2 DEF DiskInv, IsLeftBy, FileOf
  <2> QED
    BY <1>3, <1>4, <1>5, <2>3 DEF StartupInv
<1>8. CASE SaveIsCut
  <2>1. PICK lines \in CutFiles(SavedLines(s)) :
            disk' = [opens |-> TRUE, lines |-> lines, broken |-> FALSE]
    BY <1>6, <1>8 DEF SaveIsCut
  <2>2. Len(lines) \in Nat
    BY CutFilesHaveLines
  <2>3. saved' = {[settings |-> s, whole |-> FALSE]}
    BY <1>6, <1>8 DEF SaveIsCut
  <2>4. PICK save : save = [settings |-> s, whole |-> FALSE]
    OBVIOUS
  <2>5. PICK file : file = disk'
    OBVIOUS
  <2>6. Len(file.lines) \in Nat /\ IsLeftBy(save, file)
    BY <1>2, <1>6, <2>1, <2>2, <2>4, <2>5 DEF IsLeftBy
  <2>7. DiskInv'
    BY <2>3, <2>4, <2>5, <2>6 DEF DiskInv
  <2> QED
    BY <1>3, <1>4, <1>5, <2>7 DEF StartupInv
<1> QED
  BY <1>7, <1>8

(* The interface is asked for. *)
LEMMA AskStep ==
    ASSUME StartupInv, AskInterface
    PROVE  StartupInv'
<1>1. PICK answer \in Answers["interface"] \ {NoText} :
          IF CanBeInterface(answer)
          THEN cfg' = [cfg EXCEPT !.interface = answer] /\ GoTo("play")
          ELSE Exit(2) /\ UNCHANGED cfg
  BY DEF AskInterface
<1>2. UNCHANGED <<disk, next, saved>> /\ step = "iface"
  BY DEF AskInterface
<1>3. CASE ~CanBeInterface(answer)
  BY <1>1, <1>2, <1>3, QuietStep DEF Exit, AfterLoad, SettingKeys
<1>4. CASE CanBeInterface(answer)
  <2>0. PICK s : s = cfg
    OBVIOUS
  <2>1. PICK t : s = cfg /\ t = [s EXCEPT !["interface"] = answer]
    BY <2>0
  <2>2. IsSettings(s) /\ IsSeed(s.seed) /\ IsValid(s) /\ Fits(s)
    BY <1>2, <2>1 DEF StartupInv, SettingsInv, UsedInv, AfterLoad
  <2>3. /\ IsSettings(t)
        /\ \A k \in SettingKeys : t[k] = IF k = "interface" THEN answer ELSE s[k]
    <3>1. s = [k \in SettingKeys |-> s[k]]
      BY <2>2 DEF IsSettings
    <3>2. t = [k \in SettingKeys |-> IF k = "interface" THEN answer ELSE s[k]]
      BY <2>1, <3>1
    <3> QED
      BY <3>2 DEF IsSettings
  <2>4. /\ t.role = s.role /\ t.window = s.window /\ t.map = s.map
        /\ t.percent = s.percent /\ t.seed = s.seed /\ t.interface = answer
    BY <2>3 DEF SettingKeys
  <2>5. IsSeed(t.seed) /\ IsValid(t) /\ Fits(t)
    BY <1>4, <2>2, <2>4 DEF IsValid, Fits, IsSeed
  <2>6. cfg' = t /\ step' = "play"
    BY <1>1, <1>4, <2>1 DEF GoTo
  <2>7. SettingsInv'
    BY <1>2, <2>3, <2>5, <2>6 DEF StartupInv, SettingsInv, IsSettings, IsSeed
  <2>8. UsedInv' /\ ReadingInv'
    BY <1>1, <2>4, <2>5, <2>6 DEF UsedInv, ReadingInv, SettingKeys
  <2>9. DiskInv'
    BY <1>2, DiskStays DEF StartupInv
  <2> QED
    BY <2>7, <2>8, <2>9 DEF StartupInv
<1> QED
  BY <1>3, <1>4

(* The next start. *)
LEMMA StartAgainStep ==
    ASSUME StartupInv, StartAgain
    PROVE  StartupInv'
<1>1. /\ cfg' = Defaults /\ next' = Defaults /\ step' = "arguments"
      /\ UNCHANGED <<disk, saved>>
  BY DEF StartAgain
<1>2. SettingsInv'
  BY <1>1, DefaultsAreSettings DEF SettingsInv
<1>3. ReadingInv' /\ UsedInv'
  BY <1>1 DEF ReadingInv, UsedInv, AfterLoad, SettingKeys
<1>4. DiskInv'
  BY <1>1, DiskStays DEF StartupInv
<1> QED
  BY <1>2, <1>3, <1>4 DEF StartupInv

(* Every step keeps the invariant, *)
LEMMA StartupStep ==
    ASSUME StartupInv, [StartupNext]_startupVars
    PROVE  StartupInv'
<1> USE DEF GoTo, Exit
<1>1. CASE ParseArguments
  BY <1>1, QuietStep DEF ParseArguments, AfterLoad, SettingKeys
<1>2. CASE OpenFile \/ ReadSettingLine \/ EndOfFile
  BY <1>2, LoadStep
<1>3. CASE Override
  BY <1>3, OverrideStep
<1>4. CASE Use
  BY <1>4, QuietStep DEF Use, AfterLoad, SettingKeys
<1>5. CASE Edit
  BY <1>5, EditStep
<1>6. CASE \E key \in SettingKeys : KeepValue(key) \/ GiveValue(key) \/ SwitchOff(key)
  BY <1>6, PromptStep
<1>7. CASE Save \/ SaveIsCut
  BY <1>7, SaveStep
<1>8. CASE SaveCannotOpen
  BY <1>8, QuietStep DEF SaveCannotOpen, AfterLoad, SettingKeys
<1>9. CASE DoNotSave
  BY <1>9, QuietStep DEF DoNotSave, AfterLoad, SettingKeys
<1>10. CASE Misanswer
  BY <1>10, QuietStep DEF Misanswer, AfterLoad, SettingKeys
<1>11. CASE HaveInterface
  BY <1>11, QuietStep DEF HaveInterface, AfterLoad, SettingKeys
<1>12. CASE AskInterface
  BY <1>12, AskStep
<1>13. CASE LoadMap \/ RedirectLogs \/ ShakeHands
  <2>1. cfg.interface # NoText /\ step \in AfterLoad
    BY <1>13 DEF LoadMap, RedirectLogs, ShakeHands, PlayStep, StartupInv, UsedInv, AfterLoad
  <2>2. UNCHANGED <<disk, cfg, next, saved>> /\ step' \in {"handshake", "session", "exited"}
    BY <1>13 DEF LoadMap, RedirectLogs, ShakeHands, PlayStep
  <2> QED
    BY <2>1, <2>2, QuietStep DEF AfterLoad, SettingKeys
<1>14. CASE EndOfSession
  BY <1>14, QuietStep DEF EndOfSession, AfterLoad, SettingKeys
<1>15. CASE StartAgain
  BY <1>15, StartAgainStep
<1>16. CASE UNCHANGED startupVars
  BY <1>16 DEF startupVars, StartupInv, SettingsInv, ReadingInv, UsedInv, DiskInv,
     IsSettings, IsSeed, IsValid, Fits
<1> QED
  BY <1>1, <1>2, <1>3, <1>4, <1>5, <1>6, <1>7, <1>8, <1>9, <1>10, <1>11, <1>12, <1>13,
     <1>14, <1>15, <1>16 DEF StartupNext

(* so it always holds. *)
LEMMA StartupAlways == StartupSpec => []StartupInv
<1>1. StartupInit => StartupInv
  <2> SUFFICES ASSUME StartupInit PROVE StartupInv
    OBVIOUS
  <2>1. Len(disk.lines) \in Nat
    BY StartupConstants DEF StartupInit
  <2>2. SettingsInv
    BY DefaultsAreSettings DEF StartupInit, SettingsInv
  <2>3. ReadingInv /\ UsedInv /\ DiskInv
    BY <2>1 DEF StartupInit, ReadingInv, UsedInv, DiskInv, AfterLoad, SettingKeys
  <2> QED
    BY <2>2, <2>3 DEF StartupInv
<1> QED
  BY <1>1, StartupStep, PTL DEF StartupSpec

(* SettingsAreWhole, for every file, arguments and answers, and any number  *)
(* of starts: the lines before a bad one leave no trace.                    *)
THEOREM WholeSettingsAreUsed == StartupSpec => []SettingsAreWhole
<1>1. StartupInv => SettingsAreWhole
  BY DEF StartupInv, ReadingInv, UsedInv, AfterLoad, SettingsAreWhole
<1> QED
  BY <1>1, StartupAlways, PTL

(* SavedIsLoaded: what was saved is what the next start reads, and after a  *)
(* save that was cut anywhere only the setting it was cut in is another.    *)
THEOREM SavedSettingsAreLoaded == StartupSpec => []SavedIsLoaded
<1>1. StartupInv => SavedIsLoaded
  <2> SUFFICES ASSUME StartupInv, step = "override", NEW save \in saved
               PROVE  IF save.whole THEN AreLoaded(save.settings)
                                    ELSE ArePartlyLoaded(save.settings)
    BY DEF SavedIsLoaded
  <2>1. PICK s : s = save.settings
    OBVIOUS
  <2>2. IsLeftBy(save, disk) /\ cfg = WholeFile(disk)
    BY DEF StartupInv, ReadingInv, DiskInv
  <2>3. CASE save.whole
    <3>1. IsSaved(s) /\ cfg = WholeFile(FileOf(s))
      BY <2>1, <2>2, <2>3 DEF IsLeftBy
    <3>2. CASE Trimmed(s.map) = NoText
      <4>1. cfg = Defaults
        BY <3>1, <3>2, BlankMap
      <4>2. Effective(Defaults) = Defaults
        BY DefaultsAreSettings DEF Effective, IsSettings
      <4> QED
        BY <2>1, <2>3, <3>2, <4>1, <4>2 DEF AreLoaded
    <3>3. CASE Trimmed(s.map) # NoText
      BY <2>1, <2>3, <3>1, <3>3, SavedIsRead DEF AreLoaded
    <3> QED
      BY <3>2, <3>3
  <2>4. CASE ~save.whole
    <3>1. PICK lines \in CutFiles(SavedLines(s)) :
              disk = [opens |-> TRUE, lines |-> lines, broken |-> FALSE]
      BY <2>1, <2>2, <2>4 DEF IsLeftBy
    <3>2. \E torn \in SettingKeys : \A key \in SettingKeys \ {torn} :
              cfg[key] \in {Defaults[key], ValueOf(LineOf(s, key))}
      BY <2>2, <3>1, CutIsRead
    <3> QED
      BY <2>1, <2>4, <3>2 DEF ArePartlyLoaded
  <2> QED
    BY <2>3, <2>4
<1> QED
  BY <1>1, StartupAlways, PTL
=============================================================================
