--------------------------- MODULE MCTurnTransfers ---------------------------
(***************************************************************************)
(* TurnTransfers with two slots and four numbers, each in use twice within *)
(* a turn: a file, one that is missing, another file and the view; a short *)
(* file and a long one; a long one and the view.                           *)
(***************************************************************************)
EXTENDS TurnInvariant

MessageOf(c, w, l) == [chunks |-> c, window |-> w, last |-> l]
Missing == MessageOf(0, 1, 1)

SmallTurns ==
    {<<MessageOf(3, 2, 31), Missing, MessageOf(2, 2, 7), MessageOf(2, 1, 31)>>,
     <<MessageOf(1, 2, 5), MessageOf(5, 2, 31)>>,
     <<MessageOf(4, 2, 31), MessageOf(3, 1, 31)>>}
=============================================================================
