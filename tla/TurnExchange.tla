---------------------------- MODULE TurnExchange ----------------------------
(***************************************************************************)
(* What a game session promises, with nothing of frames, numbers or losses: *)
(* the player chooses a move only while looking at the board as it is; the  *)
(* referee plays every move once; the files of a turn are stored one by     *)
(* one, each before the referee knows it to be, and all before the view     *)
(* that ends the turn.  Either may leave at any time, for the player        *)
(* decides and machines fail, but who has left does nothing more.           *)
(* GameSession implements it.                                               *)
(***************************************************************************)
EXTENDS Integers

VARIABLES
    moves,      \* moves the player has made
    turns,      \* turns the referee has played
    shown,      \* turns in the view the player looks at, or NoView
    stored,     \* files the player has stored
    confirmed,  \* files the referee knows to be stored
    playing     \* who is still there

exchangeVars == <<moves, turns, shown, stored, confirmed, playing>>

NoView == -1

ExchangeInit ==
    /\ moves = 0 /\ turns = 0 /\ shown = NoView
    /\ stored = 0 /\ confirmed = 0
    /\ playing = {"player", "referee"}

Choose ==
    /\ "player" \in playing
    /\ shown = turns /\ turns = moves
    /\ moves' = moves + 1
    /\ UNCHANGED <<turns, shown, stored, confirmed, playing>>

Play ==
    /\ "referee" \in playing
    /\ turns < moves
    /\ turns' = turns + 1
    /\ UNCHANGED <<moves, shown, stored, confirmed, playing>>

Store ==
    /\ "player" \in playing
    /\ shown < turns /\ turns = moves /\ confirmed = stored
    /\ stored' = stored + 1
    /\ UNCHANGED <<moves, turns, shown, confirmed, playing>>

(* A file that the player could not close is taken as stored too: the       *)
(* player has left by then.                                                 *)
Confirm ==
    /\ "referee" \in playing
    /\ confirmed < stored \/ "player" \notin playing
    /\ confirmed' = confirmed + 1
    /\ UNCHANGED <<moves, turns, shown, stored, playing>>

Show ==
    /\ "player" \in playing
    /\ shown < turns /\ turns = moves /\ confirmed = stored
    /\ shown' = turns
    /\ UNCHANGED <<moves, turns, stored, confirmed, playing>>

Leave ==
    /\ \E who \in playing : playing' = playing \ {who}
    /\ UNCHANGED <<moves, turns, shown, stored, confirmed>>

ExchangeNext == Choose \/ Play \/ Store \/ Confirm \/ Show \/ Leave

ExchangeSpec == ExchangeInit /\ [][ExchangeNext]_exchangeVars
=============================================================================
