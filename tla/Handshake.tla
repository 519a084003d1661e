------------------------------ MODULE Handshake ------------------------------
(***************************************************************************)
(* src/transport/net_handshake.c: the server broadcasts INIT until some    *)
(* client's ACK arrives, a number of times at most; a client answers the   *)
(* first INIT it reads with one ACK and starts to play.  Nobody confirms   *)
(* the ACK.  There may be more clients than the one the server will take.  *)
(***************************************************************************)
EXTENDS Naturals, Sequences

CONSTANTS
    Clients,        \* the machines that may run the client
    MaxRetries,     \* HANDSHAKE_MAX_RETRIES, 30 in the program
    LinkCap,        \* frames a socket holds
    Lossy,          \* what the link may lose, a subset of "INIT", "ACK"
    EarlyTimeouts   \* whether the server may stop waiting for an ACK in flight

NoPeer == "no peer"

ASSUME HandshakeConstants ==
    /\ NoPeer \notin Clients
    /\ MaxRetries \in Nat \ {0} /\ LinkCap \in Nat \ {0}
    /\ Lossy \subseteq {"INIT", "ACK"} /\ EarlyTimeouts \in BOOLEAN

VARIABLES
    server,     \* "send", "wait", "connected", "failed" or, after an error of
                \* its socket, "error"
    attempt,    \* broadcasts made
    peer,       \* peer_mac, or NoPeer
    client,     \* per client: "absent", "listening", "playing" or, after an
                \* error of its socket, "gone"
    inits,      \* per client: INIT frames in its socket
    acks,       \* the senders of the ACK frames on their way to the server
    answered    \* clients that sent their ACK (auxiliary)

handshakeVars == <<server, attempt, peer, client, inits, acks, answered>>

HandshakeInit ==
    /\ server = "send" /\ attempt = 0 /\ peer = NoPeer
    /\ client = [c \in Clients |-> "absent"]
    /\ inits = [c \in Clients |-> 0]
    /\ acks = << >> /\ answered = {}

-----------------------------------------------------------------------------
(* handshake_establish_server *)

Present == {c \in Clients :
                client[c] \in {"listening", "playing"} /\ inits[c] < LinkCap}

(* An INIT reaches the sockets with room for it, or those not losing it. *)
InitArrives ==
    \E reached \in SUBSET Present :
        /\ "INIT" \in Lossy \/ reached = Present
        /\ inits' = [c \in Clients |->
                        IF c \in reached THEN inits[c] + 1 ELSE inits[c]]

(* Mutant: the broadcasts are not counted. *)
BroadcastForEver ==
    /\ server = "send" /\ attempt < MaxRetries
    /\ InitArrives
    /\ server' = "wait"
    /\ UNCHANGED <<attempt, peer, client, acks, answered>>

Broadcast ==
    /\ server = "send" /\ attempt < MaxRetries
    /\ attempt' = attempt + 1
    /\ InitArrives
    /\ server' = "wait"
    /\ UNCHANGED <<peer, client, acks, answered>>

(* wait_for_ack: the first ACK names the peer, *)
ReadAck ==
    /\ server = "wait" /\ acks # << >>
    /\ peer' = Head(acks) /\ acks' = Tail(acks)
    /\ server' = "connected"
    /\ UNCHANGED <<attempt, client, inits, answered>>

(* and without one within the timeout comes the next broadcast. *)
AckTimesOut ==
    /\ server = "wait"
    /\ EarlyTimeouts \/ /\ acks = << >>
                        /\ \A c \in Clients :
                               client[c] = "listening" => inits[c] = 0
    /\ server' = "send"
    /\ UNCHANGED <<attempt, peer, client, inits, acks, answered>>

(* After the last one the server gives up. *)
GiveUp ==
    /\ server = "send" /\ attempt = MaxRetries
    /\ server' = "failed"
    /\ UNCHANGED <<attempt, peer, client, inits, acks, answered>>

(* The socket cannot be opened, an INIT not be sent, or reading fails: it   *)
(* closes the socket and gives up at once.                                  *)
ServerFails ==
    /\ server \in {"send", "wait"}
    /\ server' = "error"
    /\ UNCHANGED <<attempt, peer, client, inits, acks, answered>>

-----------------------------------------------------------------------------
(* handshake_establish_client *)

OpenSocket(c) ==
    /\ client[c] = "absent"
    /\ client' = [client EXCEPT ![c] = "listening"]
    /\ UNCHANGED <<server, attempt, peer, inits, acks, answered>>

(* Mutant: the client waits for another INIT after its answer. *)
AnswerInitAndWait(c) ==
    /\ client[c] = "listening" /\ inits[c] > 0
    /\ inits' = [inits EXCEPT ![c] = @ - 1]
    /\ answered' = answered \cup {c}
    /\ acks' = IF Len(acks) < LinkCap THEN Append(acks, c) ELSE acks
    /\ UNCHANGED <<server, attempt, peer, client>>

AnswerInit(c) ==
    /\ client[c] = "listening" /\ inits[c] > 0
    /\ inits' = [inits EXCEPT ![c] = @ - 1]
    /\ client' = [client EXCEPT ![c] = "playing"]
    /\ answered' = answered \cup {c}
    /\ \/ acks' = IF Len(acks) < LinkCap THEN Append(acks, c) ELSE acks
       \/ "ACK" \in Lossy /\ acks' = acks
    /\ UNCHANGED <<server, attempt, peer>>

(* A client that plays drops every further INIT (receive_view_message). *)
DropInit(c) ==
    /\ client[c] = "playing" /\ inits[c] > 0
    /\ inits' = [inits EXCEPT ![c] = @ - 1]
    /\ UNCHANGED <<server, attempt, peer, client, acks, answered>>

(* The socket cannot be opened, reading fails, or the ACK cannot be sent: it*)
(* closes the socket, with what was in it, and does not play.               *)
ClientFails(c) ==
    /\ client[c] \in {"absent", "listening"}
    /\ client' = [client EXCEPT ![c] = "gone"]
    /\ inits' = [inits EXCEPT ![c] = 0]
    /\ UNCHANGED <<server, attempt, peer, acks, answered>>

ServerMoves == Broadcast \/ ReadAck \/ AckTimesOut \/ GiveUp
ClientMoves(c) == OpenSocket(c) \/ AnswerInit(c) \/ DropInit(c)

HandshakeNext ==
    \/ ServerMoves \/ ServerFails
    \/ \E c \in Clients : ClientMoves(c) \/ ClientFails(c)

(* Both programs run; the operating system delivers what is not lost.  No   *)
(* error has to happen.                                                     *)
HandshakeFairness ==
    /\ WF_handshakeVars(ServerMoves)
    /\ \A c \in Clients : WF_handshakeVars(ClientMoves(c))

HandshakeSpec ==
    HandshakeInit /\ [][HandshakeNext]_handshakeVars /\ HandshakeFairness

-----------------------------------------------------------------------------
(* Properties. *)

(* The server starts the game with a client that has started it too, and    *)
(* that waits for it and not for an INIT; it never broadcasts too often, nor*)
(* do the sockets hold more than they can.                                  *)
PeerIsPlaying ==
    /\ (server = "connected") = (peer \in Clients)
    /\ peer \in Clients => client[peer] = "playing"
    /\ attempt \in 0 .. MaxRetries
    /\ \A c \in Clients : inits[c] <= LinkCap

(* The server does not broadcast for ever: it returns with a peer or an     *)
(* error, whatever gets lost.                                               *)
ServerStops == <>(server \in {"connected", "failed", "error"})

(* The server gives up only if no client answered it: handshake.h has it    *)
(* return 0 when a client answers with ACK.  It takes an ACK that is not    *)
(* lost, for the client sends one only and then plays, with nobody.         *)
AnAnswerConnects == server = "failed" => answered = {}
=============================================================================
