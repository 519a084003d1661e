-------------------------------- MODULE MCGame --------------------------------
(* GameView, and with it GameBoard, on small maps, written row by row. *)
EXTENDS GameView, Sequences

Grid(rows) == [p \in Cells |-> rows[p[1]][p[2]]]

(* A corridor around a block, with pellets and the red ghost, *)
Ring == Grid(<<<<"P", "1", "0", "0">>,
               <<"0", "X", "X", "4">>,
               <<"2", "0", "0", "R">>>>)
(* two ghosts in the open with pellets between them and PacMan, *)
Open == Grid(<<<<"G", "0", "0", "B">>,
               <<"0", "1", "0", "0">>,
               <<"P", "X", "3", "0">>>>)
(* the yellow ghost, and a red one that is there twice and shut in, *)
Twice == Grid(<<<<"R", "0", "0", "Y">>,
                <<"2", "0", "X", "X">>,
                <<"P", "X", "R", "X">>>>)
(* and all four of them, in each other's way. *)
Crowd == Grid(<<<<"R", "B", "X", "X">>,
                <<"G", "Y", "0", "5">>,
                <<"X", "X", "X", "P">>>>)

FourMaps == {Ring, Open, Twice, Crowd}
AllModes == {"CLEAR", "FLASHLIGHT", "EXPLORE"}
=============================================================================
