-------------------------- MODULE InOrderDelivery --------------------------
(***************************************************************************)
(* What a transfer of the game protocol promises, without frames, losses   *)
(* or retransmissions.  The receiver writes the chunks of one message in   *)
(* order, each once; the sender counts as confirmed only chunks that are   *)
(* already written, reports success only when all of them are, and is      *)
(* never more than a window behind the receiver.  A sender may give up.    *)
(***************************************************************************)
EXTENDS Integers, Sequences

CONSTANTS TotalChunks,   \* chunks of the message, numbered from 0; at least 1
          Window         \* how many chunks may be unconfirmed at once

VARIABLES written,       \* the chunks written by the receiver, in that order
          confirmed,     \* how many chunks the sender knows to be written
          report         \* what the sender tells its caller

absVars == <<written, confirmed, report>>

AbsInit ==
    /\ written = << >>
    /\ confirmed = 0
    /\ report = "running"

(* The receiver writes the next chunks, one or more of them. *)
Write ==
    \E n \in Len(written) + 1 .. TotalChunks :
        /\ n <= confirmed + Window
        /\ written' = [i \in 1 .. n |-> i - 1]
        /\ UNCHANGED <<confirmed, report>>

(* The sender learns that some more chunks are written. *)
Confirm ==
    \E n \in confirmed + 1 .. Len(written) :
        /\ report = "running"
        /\ confirmed' = n
        /\ report' = IF n = TotalChunks THEN "success" ELSE "running"
        /\ UNCHANGED written

(* The sender gives the transfer up. *)
GiveUp ==
    /\ report = "running"
    /\ report' = "failure"
    /\ UNCHANGED <<written, confirmed>>

AbsNext == Write \/ Confirm \/ GiveUp

AbsSpec == AbsInit /\ [][AbsNext]_absVars
=============================================================================
