---------------------------- MODULE TurnDelivery ----------------------------
(***************************************************************************)
(* What the transfers of a turn promise together, without frames, losses   *)
(* or numbers: one delivery in order after the other.  Each message is     *)
(* opened once, written from its first chunk to its last, and confirmed    *)
(* only as far as it is written; the next one begins when the sender may   *)
(* report the whole of it, and nothing of the earlier ones touches it.  A  *)
(* file that is missing is passed over.  TurnTransfers implements it.      *)
(***************************************************************************)
EXTENDS Integers, Sequences

CONSTANT Turns           \* sequences of messages, as in TurnTransfers

VARIABLES todo,          \* the messages left, the one being delivered first
          reception,     \* "none", "open", "whole" or "broken"
          written,       \* the chunks of it that the receiver has written
          confirmed,     \* how many of them the sender knows to be written
          report         \* what the sender tells its caller

turnAbsVars == <<todo, reception, written, confirmed, report>>

TotalChunks == Head(todo).chunks
Window == Head(todo).window

Fresh == reception = "none" /\ written = << >> /\ confirmed = 0 /\ report = "running"

TurnAbsInit == todo \in Turns /\ Fresh

(* The receiver opens the message, and does so once. *)
Open ==
    /\ TotalChunks > 0 /\ Fresh
    /\ reception' = "open"
    /\ UNCHANGED <<todo, written, confirmed, report>>

(* It writes the next chunks, one or more of them, and closes the message   *)
(* with the last.                                                           *)
Write ==
    /\ reception = "open"
    /\ \E n \in Len(written) + 1 .. TotalChunks :
           /\ n <= confirmed + Window
           /\ written' = [i \in 1 .. n |-> i - 1]
           /\ reception' = IF n = TotalChunks THEN "whole" ELSE "open"
    /\ UNCHANGED <<todo, confirmed, report>>

(* The sender learns that some more chunks are written. *)
Confirm ==
    /\ report = "running"
    /\ \E n \in confirmed + 1 .. Len(written) :
           /\ confirmed' = n
           /\ report' = IF n = TotalChunks THEN "success" ELSE "running"
    /\ UNCHANGED <<todo, reception, written>>

(* The sender gives up a message that is not whole yet, and the receiver    *)
(* learns of it.                                                            *)
GiveUp ==
    /\ reception = "open" /\ report = "running"
    /\ report' = "failure"
    /\ UNCHANGED <<todo, reception, written, confirmed>>

Break ==
    /\ reception = "open" /\ report = "failure"
    /\ reception' = "broken"
    /\ UNCHANGED <<todo, written, confirmed, report>>

(* The next message begins after one that is whole, or in the place of a    *)
(* missing one.                                                             *)
GoOn ==
    /\ IF TotalChunks > 0 THEN reception = "whole" /\ report = "success" ELSE Fresh
    /\ Len(todo) > 1
    /\ todo' = Tail(todo)
    /\ reception' = "none" /\ written' = << >>
    /\ confirmed' = 0 /\ report' = "running"

TurnAbsNext == Open \/ Write \/ Confirm \/ GiveUp \/ Break \/ GoOn

TurnAbsSpec == TurnAbsInit /\ [][TurnAbsNext]_turnAbsVars
=============================================================================
