------------------------------- MODULE FramePing -------------------------------
(***************************************************************************)
(* The diagnostic of the raw link, src/tools/raw_frame_ping.c: on each of  *)
(* two machines a program that either sends numbered pings and counts the  *)
(* pongs that come back in time, or answers pings.  Frames may be lost, and*)
(* a pong may be later than the pinger waits.                              *)
(***************************************************************************)
EXTENDS Naturals, Sequences

CONSTANTS
    Counts,         \* values of --count, at most INT_MAX; 0: a listener answers for ever
    PingSeqSpace,   \* 65536: the number of a ping has two bytes, and may wrap
    PingCap         \* frames on their way to one machine

ASSUME PingConstants ==
    /\ Counts \subseteq Nat /\ Counts # {}
    /\ PingSeqSpace \in Nat \ {0} /\ PingCap \in Nat \ {0}

Machines == {"here", "there"}
Other == [here |-> "there", there |-> "here"]

VARIABLES
    mode,       \* "ping" or "listen"
    count,      \* the program's --count
    at,         \* "closed", "send", "wait", "listen" or "done"
    pings,      \* pings sent and done with, the next one's number
    ok,         \* pongs counted by a pinger, pings answered by a listener
    result,     \* what the program exits with
    inbox,      \* the frames on their way to a machine, or in its socket
    reported,   \* the pings that "rx pong" was printed for
    reached     \* the pings that were answered (auxiliary)

pingVars == <<mode, count, at, pings, ok, result, inbox, reported, reached>>

-----------------------------------------------------------------------------
PingInit ==
    /\ mode \in [Machines -> {"ping", "listen"}]
    /\ count \in [Machines -> Counts]
    /\ at = [m \in Machines |-> "closed"]
    /\ pings = [m \in Machines |-> 0] /\ ok = [m \in Machines |-> 0]
    /\ result = [m \in Machines |-> 0]
    /\ inbox = [m \in Machines |-> << >>]
    /\ reported = [m \in Machines |-> {}]
    /\ reached = [m \in Machines |-> {}]

(* A frame to an open socket arrives, unless it is lost; the boxes are those*)
(* of that moment.                                                          *)
Delivers(boxes, m, frame) ==
    \/ inbox' = boxes
    \/ /\ at[m] \notin {"closed", "done"} /\ Len(boxes[m]) < PingCap
       /\ inbox' = [boxes EXCEPT ![m] = Append(@, frame)]

Read(m) == [inbox EXCEPT ![m] = Tail(@)]

(* open_bound_socket, and the start of run_ping or run_listen *)
OpenTool(m) ==
    /\ at[m] = "closed"
    /\ at' = [at EXCEPT ![m] = IF mode[m] = "ping" THEN "send" ELSE "listen"]
    /\ UNCHANGED <<mode, count, pings, ok, result, inbox, reported, reached>>

(* run_ping sends the next ping, if there is one, *)
SendPing(m) ==
    /\ at[m] = "send" /\ pings[m] < count[m]
    /\ Delivers(inbox, Other[m],
                [kind |-> "PING", seq |-> pings[m] % PingSeqSpace, of |-> pings[m]])
    /\ at' = [at EXCEPT ![m] = "wait"]
    /\ UNCHANGED <<mode, count, pings, ok, result, reported, reached>>

(* Mutant: any pong is taken for the one of this ping. *)
IsAnyPong(m, frame) == frame.kind = "PONG"

IsPongOf(m, frame) ==
    frame.kind = "PONG" /\ frame.seq = pings[m] % PingSeqSpace

(* counts its pong, *)
CountPong(m) ==
    /\ at[m] = "wait" /\ inbox[m] # << >> /\ IsPongOf(m, Head(inbox[m]))
    /\ ok' = [ok EXCEPT ![m] = @ + 1]
    /\ pings' = [pings EXCEPT ![m] = @ + 1]
    /\ at' = [at EXCEPT ![m] = "send"]
    /\ inbox' = Read(m)
    /\ reported' = [reported EXCEPT ![m] = @ \cup {pings[m]}]
    /\ UNCHANGED <<mode, count, result, reached>>

(* ignores pings, and pongs that come too late, *)
IgnoreFrame(m) ==
    /\ inbox[m] # << >>
    /\ \/ at[m] = "wait" /\ ~IsPongOf(m, Head(inbox[m]))
       \/ at[m] = "listen" /\ Head(inbox[m]).kind # "PING"
    /\ inbox' = Read(m)
    /\ UNCHANGED <<mode, count, at, pings, ok, result, reported, reached>>

(* goes on to the next ping when nothing comes for a whole timeout, *)
PongTimesOut(m) ==
    /\ at[m] = "wait" /\ inbox[m] = << >>
    /\ pings' = [pings EXCEPT ![m] = @ + 1]
    /\ at' = [at EXCEPT ![m] = "send"]
    /\ UNCHANGED <<mode, count, ok, result, inbox, reported, reached>>

(* and reports success if every ping had its pong. *)
ReportPings(m) ==
    /\ at[m] = "send" /\ pings[m] = count[m]
    /\ result' = [result EXCEPT ![m] = IF ok[m] = count[m] THEN 0 ELSE 1]
    /\ at' = [at EXCEPT ![m] = "done"]
    /\ UNCHANGED <<mode, count, pings, ok, inbox, reported, reached>>

(* run_listen: a pong with the number of the ping, until there were enough. *)
AnswerPing(m) ==
    LET ping == Head(inbox[m])
    IN  /\ at[m] = "listen" /\ inbox[m] # << >> /\ ping.kind = "PING"
        /\ Delivers(Read(m), Other[m], [ping EXCEPT !.kind = "PONG"])
        /\ reached' = [reached EXCEPT ![Other[m]] = @ \cup {ping.of}]
        /\ ok' = [ok EXCEPT ![m] = @ + 1]
        /\ at' = [at EXCEPT ![m] = IF ok'[m] = count[m] THEN "done" ELSE "listen"]
        /\ UNCHANGED <<mode, count, pings, result, reported>>

(* Opening, sending or receiving fails: the program exits at once. *)
ToolFails(m) ==
    /\ at[m] # "done"
    /\ at' = [at EXCEPT ![m] = "done"]
    /\ result' = [result EXCEPT ![m] = 1]
    /\ UNCHANGED <<mode, count, pings, ok, inbox, reported, reached>>

PingNext ==
    \E m \in Machines :
        \/ OpenTool(m) \/ SendPing(m) \/ CountPong(m) \/ IgnoreFrame(m)
        \/ PongTimesOut(m) \/ ReportPings(m) \/ AnswerPing(m) \/ ToolFails(m)

PingSpec == PingInit /\ [][PingNext]_pingVars

-----------------------------------------------------------------------------
(* However late pongs come, a pong that the tool reports answers a ping of  *)
(* its own with the same two bytes, and that very ping as long as --count   *)
(* does not go beyond the numbers they hold; and whatever the count, wraps  *)
(* of the number included, it reports success only if all pings were        *)
(* answered.                                                                *)
ReportsAreTrue ==
    \A m \in Machines : mode[m] = "ping" =>
        /\ \A p \in reported[m] : \E q \in reached[m] :
               q <= p /\ q % PingSeqSpace = p % PingSeqSpace
        /\ count[m] <= PingSeqSpace => reported[m] \subseteq reached[m]
        /\ at[m] = "done" /\ result[m] = 0 => reached[m] = 0 .. count[m] - 1
=============================================================================
