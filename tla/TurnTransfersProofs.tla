------------------------- MODULE TurnTransfersProofs -------------------------
(***************************************************************************)
(* The messages of a turn, sent one right after the other with frames of   *)
(* the earlier ones still on the way, are kept apart: for every sequence of *)
(* messages, every window, number space and link.                          *)
(***************************************************************************)
EXTENDS TurnInvariant, WindowTransferProofs

(* The message at hand, when it is one. *)
LEMMA CurrentIsMessage ==
    ASSUME TodoInv, Head(todo).chunks > 0
    PROVE  Current \in Messages
<1>1. Head(todo) \in MessageShapes /\ first \in SeqNumbers
  BY DEF TodoInv
<1> QED
  BY <1>1 DEF Current, Messages, MessageShapes

LEMMA TodoFacts ==
    ASSUME TodoInv
    PROVE  /\ Head(todo) \in MessageShapes /\ Head(todo) = todo[1]
           /\ Head(todo).chunks \in Nat
           /\ Head(todo).window \in 1 .. MaxWindow
           /\ Len(todo) \in Nat \ {0} /\ DOMAIN todo = 1 .. Len(todo)
           /\ first \in SeqNumbers /\ first \in Int
<1>1. todo \in Seq(MessageShapes) /\ todo # << >> /\ first \in SeqNumbers
  BY DEF TodoInv
<1>2. /\ Head(todo) \in MessageShapes /\ Head(todo) = todo[1]
      /\ Len(todo) \in Nat \ {0} /\ DOMAIN todo = 1 .. Len(todo)
  BY <1>1
<1>3. Head(todo).chunks \in Nat /\ Head(todo).window \in 1 .. MaxWindow
  BY <1>2 DEF MessageShapes
<1>4. first \in Int
  BY <1>1, SeqSpaceAssumption DEF SeqNumbers
<1> QED
  BY <1>1, <1>2, <1>3, <1>4

(* A message that begins with nothing but old frames on the links. *)
LEMMA FreshMessage ==
    TodoInv /\ BetweenMessages /\ Head(todo).chunks > 0 => IInv(Current)
<1> SUFFICES ASSUME TodoInv, BetweenMessages, Head(todo).chunks > 0
             PROVE  IInv(Current)
  OBVIOUS
<1>1. PICK m \in Messages : m = Current
  BY CurrentIsMessage
<1>2. m.chunks = Head(todo).chunks /\ m.window = Head(todo).window
  BY <1>1 DEF Current
<1>3. /\ sndPhase = "sendStart" /\ sndBase = 0 /\ sndNext = 0
      /\ inUse = {} /\ acked = {} /\ resend = {}
      /\ rcvPhase = "idle" /\ outcome = "none" /\ rcvBase = 0
      /\ ring = EmptyRing(m) /\ since = 0 /\ written = << >>
      /\ recent \in SUBSET SeqNumbers
      /\ toRcv \in Seq(Frames) /\ toSnd \in Seq(Frames)
  BY <1>2 DEF BetweenMessages, EmptyRing
<1>4. /\ \A p \in 1 .. Len(toRcv) : ToRcvFrameInv(m, toRcv[p]) /\ IsOld(toRcv[p])
      /\ \A p \in 1 .. Len(toSnd) : ToSndFrameInv(m, toSnd[p]) /\ IsOld(toSnd[p])
  BY <1>1 DEF BetweenMessages
<1>5. /\ ring \in [0 .. m.window - 1 -> Slots]
      /\ \A k \in 0 .. m.window - 1 : ~ring[k].received
  <2>1. EmptySlot \in Slots /\ ~EmptySlot.received
    BY DEF EmptySlot, Slots
  <2> QED
    BY <1>3, <2>1 DEF EmptyRing
<1>6. TypeOK(m)
  <2>1. written \in Seq(Int)
    BY <1>3
  <2>2. 0 \in 0 .. m.chunks /\ 0 \in Nat
    BY Constants
  <2> QED
    BY <1>3, <1>5, <2>1, <2>2 DEF TypeOK
<1>7. WindowsInv(m)
  BY <1>3, Constants DEF WindowsInv
<1>8. PhaseInv(m)
  BY <1>3, Constants DEF PhaseInv, Started
<1>9. RingInv(m) /\ WrittenInv
  BY <1>3, <1>5 DEF RingInv, WrittenInv
<1>10. ToRcvInv(m) /\ ToSndInv(m)
  BY <1>3, <1>4 DEF ToRcvInv, ToRcvOrder, ToSndInv, ToSndOrder
<1>11. IInv(m)
  BY <1>6, <1>7, <1>8, <1>9, <1>10 DEF IInv
<1> QED
  BY <1>1, <1>11

LEMMA InitTurn == TurnInit => TurnInv
<1> SUFFICES ASSUME TurnInit PROVE TurnInv
  OBVIOUS
<1>1. TodoInv
  BY TurnsAssumption DEF TurnInit, TodoInv
<1>2. BetweenMessages
  BY DEF TurnInit, Init, BetweenMessages, EmptyRing, Current
<1>3. NotTooOld
  BY DEF TurnInit, Init, NotTooOld
<1> QED
  BY <1>1, <1>2, <1>3, FreshMessage DEF TurnInv

-----------------------------------------------------------------------------
(* Frames that become those of an earlier message. *)

(* Two remainders that differ by a multiple are the same. *)
LEMMA SameRemainder ==
    ASSUME NEW n \in Nat \ {0}, NEW a \in 0 .. n - 1, NEW b \in 0 .. n - 1,
           NEW k \in Int, a - b = n * k
    PROVE  a = b
<1>1. CASE k = 0
  BY <1>1
<1>2. CASE k >= 1
  <2>1. n * k >= n
    BY <1>2
  <2> QED
    BY <2>1
<1>3. CASE k <= -1
  <2>1. n * (-k) >= n /\ n * (-k) = -(n * k)
    BY <1>3
  <2> QED
    BY <2>1
<1> QED
  BY <1>1, <1>2, <1>3

LEMMA ModShift ==
    ASSUME NEW n \in Nat \ {0}, NEW x \in Int, NEW q \in Int
    PROVE  (x - n * q) % n = x % n
<1>1. PICK y \in Int : y = x - n * q
  OBVIOUS
<1>2. PICK qx \in Int, rx \in 0 .. n - 1 : rx = x % n /\ x = n * qx + rx
  <2>1. x \div n \in Int /\ x % n \in 0 .. n - 1 /\ x = n * (x \div n) + (x % n)
    OBVIOUS
  <2> QED
    BY <2>1
<1>3. PICK qy \in Int, ry \in 0 .. n - 1 : ry = y % n /\ y = n * qy + ry
  <2>1. y \div n \in Int /\ y % n \in 0 .. n - 1 /\ y = n * (y \div n) + (y % n)
    OBVIOUS
  <2> QED
    BY <2>1
<1>4. rx - ry = n * (q + qy - qx)
  <2>1. n * (q + qy - qx) = n * q + n * qy - n * qx
    OBVIOUS
  <2>2. n * q \in Int /\ n * qx \in Int /\ n * qy \in Int /\ rx \in Int /\ ry \in Int
    OBVIOUS
  <2>3. n * qx + rx - n * q = n * qy + ry
    BY <1>1, <1>2, <1>3
  <2> QED
    BY <2>1, <2>2, <2>3
<1>5. rx = ry
  <2>1. q + qy - qx \in Int
    OBVIOUS
  <2> QED
    BY <1>4, <2>1, SameRemainder
<1> QED
  BY <1>1, <1>2, <1>3, <1>5

(* The numbers go on where the message before left off. *)
LEMMA SeqOfShifted ==
    ASSUME NEW a \in Int, NEW n \in Int, NEW c \in Int
    PROVE  SequenceForIndex((a + n) % SeqSpace, c - n) = SequenceForIndex(a, c)
<1> DEFINE q == (a + n) \div SeqSpace
           r == (a + n) % SeqSpace
           x == a + c + 1
<1>1. SeqSpace \in Nat \ {0} /\ a + n \in Int
  BY SeqSpaceAssumption
<1>2. a + n = SeqSpace * q + r /\ q \in Int /\ r \in Int
  BY <1>1
<1> HIDE DEF q, r
<1>3. SeqSpace * q \in Int
  BY <1>1, <1>2
<1>4. r + (c - n) + 1 = x - SeqSpace * q /\ x \in Int
  <2>1. PICK p \in Int : p = SeqSpace * q
    BY <1>3
  <2>2. a + n = p + r
    BY <1>2, <2>1
  <2>3. r + (c - n) + 1 = x - p /\ x \in Int
    BY <1>2, <2>2
  <2> QED
    BY <2>1, <2>3
<1> HIDE DEF x
<1>5. (x - SeqSpace * q) % SeqSpace = x % SeqSpace
  BY <1>1, <1>2, <1>4, ModShift
<1> QED
  BY <1>4, <1>5 DEF SequenceForIndex, r, x

(* The links once their frames are counted from the next start frame. *)
LEMMA AgedFrames ==
    ASSUME NEW link \in Seq(Frames), NEW n \in Int, NEW next, next = Aged(link, n)
    PROVE  /\ next \in Seq(Frames) /\ Len(next) = Len(link)
           /\ \A p \in 1 .. Len(link) :
                  /\ (next[p]).type = link[p].type /\ (next[p]).seq = link[p].seq
                  /\ (next[p]).chunk = link[p].chunk - n
<1>1. DOMAIN link = 1 .. Len(link) /\ Len(link) \in Nat
  OBVIOUS
<1>2. next = [i \in 1 .. Len(link) |-> [link[i] EXCEPT !.chunk = link[i].chunk - n]]
  BY <1>1 DEF Aged
<1>3. ASSUME NEW p \in 1 .. Len(link)
      PROVE  /\ next[p] \in Frames
             /\ (next[p]).type = link[p].type /\ (next[p]).seq = link[p].seq
             /\ (next[p]).chunk = link[p].chunk - n
  <2>1. PICK f \in Frames : f = link[p]
    OBVIOUS
  <2>2. next[p] = [f EXCEPT !.chunk = f.chunk - n]
    BY <1>2, <2>1
  <2>3. f.chunk - n \in Int
    BY DEF Frames
  <2> QED
    BY <2>1, <2>2, <2>3 DEF Frames
<1>4. next \in [1 .. Len(link) -> Frames]
  BY <1>2, <1>3
<1>5. next \in Seq(Frames) /\ Len(next) = Len(link)
  BY <1>1, <1>4, FunctionIsSequence
<1> QED
  BY <1>3, <1>5

LEMMA ShiftedRange ==
    ASSUME NEW i \in Int, NEW j \in Int, NEW k \in i + 1 .. j + 1
    PROVE  \E l \in i .. j : k = l + 1
<1>1. k - 1 \in i .. j /\ k = (k - 1) + 1
  OBVIOUS
<1> QED
  BY <1>1

LEMMA WithinRange ==
    ASSUME NEW n \in Nat, NEW i \in 1 .. n, NEW j \in 1 .. n, NEW l \in i .. j
    PROVE  l \in 1 .. n
OBVIOUS

(* The turn that is left still has room for its numbers. *)
LEMMA TurnFitsTail ==
    ASSUME NEW turn \in Seq(MessageShapes), Len(turn) > 1, TurnFits(turn)
    PROVE  /\ Tail(turn) \in Seq(MessageShapes) /\ Tail(turn) # << >>
           /\ TurnFits(Tail(turn)) /\ Head(Tail(turn)) = turn[2]
           /\ Len(Tail(turn)) = Len(turn) - 1
           /\ \A j \in 1 .. Len(turn) - 1 : turn[1].chunks = 0 /\ Skips(Tail(turn), 1, j)
                  => Skips(turn, 1, j + 1)
<1>1. PICK rest : rest = Tail(turn)
  OBVIOUS
<1>2. /\ rest \in Seq(MessageShapes) /\ Len(rest) = Len(turn) - 1
      /\ \A k \in 1 .. Len(rest) : rest[k] = turn[k + 1]
      /\ Len(turn) \in Nat
  BY <1>1
<1>3. rest # << >> /\ Head(rest) = turn[2]
  BY <1>2
<1>4. ASSUME NEW i \in DOMAIN rest, NEW j \in DOMAIN rest, i <= j, Skips(rest, i, j)
      PROVE  /\ i + 1 \in DOMAIN turn /\ j + 1 \in DOMAIN turn
             /\ Skips(turn, i + 1, j + 1)
  <2>1. /\ i \in 1 .. Len(rest) /\ j \in 1 .. Len(rest)
        /\ i + 1 \in DOMAIN turn /\ j + 1 \in DOMAIN turn
        /\ i \in Int /\ j \in Int /\ Len(rest) \in Nat
    BY <1>2
  <2>2. ASSUME NEW k \in i + 1 .. j + 1 PROVE turn[k].chunks = 0
    <3>0. PICK l \in i .. j : k = l + 1
      BY <2>1, ShiftedRange
    <3>1. l \in 1 .. Len(rest)
      BY <2>1, <3>0, WithinRange
    <3>2. rest[l].chunks = 0
      BY <1>4, <3>0 DEF Skips
    <3> QED
      BY <1>2, <3>0, <3>1, <3>2
  <2> QED
    BY <2>1, <2>2 DEF Skips
<1>5. TurnFits(rest)
  <2> SUFFICES ASSUME NEW i \in DOMAIN rest, NEW j \in DOMAIN rest, i <= j,
                      Skips(rest, i, j)
               PROVE  MaxWindow + 1 + (j - i + 1) <= SeqSpace
    BY DEF TurnFits
  <2>1. /\ i + 1 \in DOMAIN turn /\ j + 1 \in DOMAIN turn /\ i + 1 <= j + 1
        /\ Skips(turn, i + 1, j + 1) /\ i \in Int /\ j \in Int
    BY <1>2, <1>4
  <2>2. MaxWindow + 1 + ((j + 1) - (i + 1) + 1) <= SeqSpace
    BY <2>1 DEF TurnFits
  <2>3. (j + 1) - (i + 1) + 1 = j - i + 1
    BY <2>1
  <2> QED
    BY <2>2, <2>3
<1>6. ASSUME NEW j \in 1 .. Len(turn) - 1, turn[1].chunks = 0, Skips(rest, 1, j)
      PROVE  Skips(turn, 1, j + 1)
  <2>1. ASSUME NEW k \in 1 .. j + 1 PROVE turn[k].chunks = 0
    <3>1. CASE k = 1
      BY <1>6, <3>1
    <3>2. CASE k # 1
      <4>1. 1 \in DOMAIN rest /\ j \in DOMAIN rest /\ 1 <= j /\ k \in 1 + 1 .. j + 1
        BY <1>2, <3>2
      <4> QED
        BY <1>4, <1>6, <4>1 DEF Skips
    <3> QED
      BY <3>1, <3>2
  <2> QED
    BY <2>1 DEF Skips
<1> QED
  BY <1>1, <1>2, <1>3, <1>5, <1>6

(* A frame, in flight as the next message begins, that is old from then on: *)
(* n numbers older, and not a whole turn of them even after what is missing.*)
GrowsOld(f, n) ==
    /\ f.seq = SequenceForIndex(first, f.chunk)
    /\ f.chunk - n \in -SeqSpace .. -2
    /\ \A j \in 1 .. Len(todo) - 1 :
           Skips(Tail(todo), 1, j) => f.chunk - n >= j - SeqSpace

(* What follows a message, or the place of a missing file, is as it should. *)
LEMMA GoOnInv ==
    ASSUME TodoInv, NEW link \in Seq(Frames), GoOn(link), toSnd \in Seq(Frames),
           rcvPhase = "idle", recent \in SUBSET SeqNumbers,
           \A p \in 1 .. Len(link) :
               /\ GrowsOld(link[p], NumbersOf(Head(todo)))
               /\ link[p].type \in {"DATA", "ERROR"}
               /\ link[p].type = "DATA" => link[p].seq \in recent,
           \A p \in 1 .. Len(toSnd) :
               /\ GrowsOld(toSnd[p], NumbersOf(Head(todo)))
               /\ toSnd[p].type \in {"ACK", "NACK"}
    PROVE  TurnInv'
<1>1. PICK n : n = NumbersOf(Head(todo))
  OBVIOUS
<1>2. n \in Int /\ first \in Int /\ todo \in Seq(MessageShapes) /\ TurnFits(todo)
  <2>1. Head(todo).chunks \in Nat /\ first \in Int
    BY TodoFacts
  <2> QED
    BY <1>1, <2>1 DEF NumbersOf, TodoInv
<1>3. PICK turn : turn = todo
  OBVIOUS
<1>4. /\ Len(turn) > 1 /\ turn \in Seq(MessageShapes) /\ TurnFits(turn)
      /\ todo' = Tail(turn) /\ first' = (first + n) % SeqSpace
      /\ sndPhase' = "sendStart" /\ sndBase' = 0 /\ sndNext' = 0
      /\ inUse' = {} /\ acked' = {} /\ resend' = {}
      /\ outcome' = "none" /\ rcvBase' = 0 /\ since' = 0 /\ written' = << >>
      /\ ring' = EmptyRing(turn[2])
      /\ toRcv' = Aged(link, n) /\ toSnd' = Aged(toSnd, n)
      /\ rcvPhase' = "idle" /\ recent' = recent
  BY <1>1, <1>2, <1>3 DEF GoOn
<1>5. PICK rest : rest = Tail(turn)
  OBVIOUS
<1>6. /\ rest \in Seq(MessageShapes) /\ rest # << >> /\ TurnFits(rest)
      /\ Head(rest) = turn[2] /\ Len(rest) = Len(turn) - 1 /\ todo' = rest
  BY <1>4, <1>5, TurnFitsTail
<1>7. PICK start : start = (first + n) % SeqSpace
  OBVIOUS
<1>8. start \in SeqNumbers /\ first' = start
  BY <1>2, <1>4, <1>7, SeqSpaceAssumption DEF SeqNumbers
<1>9. TodoInv'
  BY <1>6, <1>8 DEF TodoInv
<1>10. PICK next : next = [first |-> start, chunks |-> Head(rest).chunks,
                           window |-> Head(rest).window, last |-> Head(rest).last]
  OBVIOUS
<1>11. Current' = next /\ next.first = (first + n) % SeqSpace
  BY <1>6, <1>7, <1>8, <1>10 DEF Current
<1>12. ASSUME NEW f \in Frames, GrowsOld(f, n), NEW g \in Frames,
              g.seq = f.seq, g.chunk = f.chunk - n
       PROVE  /\ OldFrame(next, g) /\ IsOld(g)
              /\ \A j \in 1 .. Len(rest) : Skips(rest, 1, j) => g.chunk >= j - SeqSpace
  <2>1. f.chunk \in Int /\ g.chunk \in -SeqSpace .. -2 /\ SeqSpace \in Nat
    BY <1>12, SeqSpaceAssumption DEF GrowsOld, Frames
  <2>2. g.seq = SequenceForIndex((first + n) % SeqSpace, g.chunk)
    <3>1. SequenceForIndex((first + n) % SeqSpace, f.chunk - n)
              = SequenceForIndex(first, f.chunk)
      BY <1>2, <2>1, SeqOfShifted
    <3> QED
      BY <1>12, <3>1 DEF GrowsOld
  <2>3. OldFrame(next, g) /\ IsOld(g)
    BY <1>11, <2>1, <2>2 DEF OldFrame, IsOld, SeqOf
  <2>4. \A j \in 1 .. Len(rest) : Skips(rest, 1, j) => g.chunk >= j - SeqSpace
    BY <1>3, <1>5, <1>6, <1>12 DEF GrowsOld
  <2> QED
    BY <2>3, <2>4
<1>13. PICK toR, toS : toR = Aged(link, n) /\ toS = Aged(toSnd, n)
  OBVIOUS
<1>14. toRcv' = toR /\ toSnd' = toS
  BY <1>4, <1>13
<1>15. /\ toR \in Seq(Frames) /\ Len(toR) = Len(link)
       /\ \A p \in 1 .. Len(link) :
              /\ (toR[p]).type = link[p].type /\ (toR[p]).seq = link[p].seq
              /\ (toR[p]).chunk = link[p].chunk - n
  BY <1>2, <1>13, AgedFrames
<1>16. PICK old \in Seq(Frames) : old = toSnd
  OBVIOUS
<1>17. /\ toS \in Seq(Frames) /\ Len(toS) = Len(old)
       /\ \A p \in 1 .. Len(old) :
              /\ (toS[p]).type = old[p].type /\ (toS[p]).seq = old[p].seq
              /\ (toS[p]).chunk = old[p].chunk - n
  BY <1>2, <1>13, <1>16, AgedFrames
<1>18. ~Opened' /\ ~Started'
  BY <1>4 DEF Opened, Started
<1>19. ASSUME NEW p \in 1 .. Len(toR)
       PROVE  /\ ToRcvFrameInv(next, toR[p])' /\ IsOld(toR[p])
              /\ \A j \in 1 .. Len(rest) :
                     Skips(rest, 1, j) => (toR[p]).chunk >= j - SeqSpace
  <2>1. PICK f \in Frames, g \in Frames : f = link[p] /\ g = toR[p]
    BY <1>15
  <2>2. /\ GrowsOld(f, n) /\ g.seq = f.seq /\ g.chunk = f.chunk - n
        /\ g.type = f.type /\ g.type \in {"DATA", "ERROR"}
        /\ g.type = "DATA" => g.seq \in recent
    BY <1>1, <1>15, <2>1
  <2>3. /\ OldFrame(next, g) /\ IsOld(g)
        /\ \A j \in 1 .. Len(rest) : Skips(rest, 1, j) => g.chunk >= j - SeqSpace
    BY <1>12, <2>2
  <2>4. ToRcvFrameInv(next, g)'
    BY <1>4, <1>18, <2>2, <2>3 DEF ToRcvFrameInv
  <2> QED
    BY <2>1, <2>3, <2>4
<1>20. ASSUME NEW p \in 1 .. Len(toS)
       PROVE  /\ ToSndFrameInv(next, toS[p])' /\ IsOld(toS[p])
              /\ \A j \in 1 .. Len(rest) :
                     Skips(rest, 1, j) => (toS[p]).chunk >= j - SeqSpace
  <2>1. PICK f \in Frames, g \in Frames : f = old[p] /\ g = toS[p]
    BY <1>17
  <2>2. /\ GrowsOld(f, n) /\ g.seq = f.seq /\ g.chunk = f.chunk - n
        /\ g.type = f.type /\ g.type \in {"ACK", "NACK"}
    BY <1>1, <1>16, <1>17, <2>1
  <2>3. /\ OldFrame(next, g) /\ IsOld(g)
        /\ \A j \in 1 .. Len(rest) : Skips(rest, 1, j) => g.chunk >= j - SeqSpace
    BY <1>12, <2>2
  <2>4. ToSndFrameInv(next, g)'
    BY <1>18, <2>2, <2>3 DEF ToSndFrameInv
  <2> QED
    BY <2>1, <2>3, <2>4
<1>21. NotTooOld'
  BY <1>6, <1>14, <1>19, <1>20 DEF NotTooOld
<1>22. BetweenMessages'
  <2>1. /\ \A p \in 1 .. Len(toRcv') : ToRcvFrameInv(next, toR[p])' /\ IsOld(toR[p])
        /\ \A p \in 1 .. Len(toSnd') : ToSndFrameInv(next, toS[p])' /\ IsOld(toS[p])
    BY <1>14, <1>19, <1>20
  <2>2. toRcv' \in Seq(Frames) /\ toSnd' \in Seq(Frames)
    BY <1>14, <1>15, <1>17
  <2>3. ring' = EmptyRing(Head(todo'))
    BY <1>4, <1>6
  <2> QED
    BY <1>4, <1>11, <1>14, <2>1, <2>2, <2>3 DEF BetweenMessages
<1>23. (TodoInv /\ BetweenMessages /\ Head(todo).chunks > 0 => IInv(Current))'
  BY FreshMessage, PTL
<1> QED
  BY <1>9, <1>21, <1>22, <1>23 DEF TurnInv

-----------------------------------------------------------------------------
(* The steps of a turn preserve the invariant. *)

LEMMA MessageStepInv ==
    ASSUME TurnInv, MessageStep
    PROVE  TurnInv'
<1>1. Head(todo).chunks > 0 /\ todo' = todo /\ first' = first /\ TodoInv
  BY DEF MessageStep, TurnInv
<1>2. PICK m \in Messages : m = Current
  BY <1>1, CurrentIsMessage
<1>3. IInv(m) /\ Current' = m
  BY <1>1, <1>2 DEF TurnInv, Current
<1>4. Next(m)
  BY <1>2 DEF MessageStep, Next
<1>5. IInv(m)'
  BY <1>3, <1>4, StepInv
<1>6. TodoInv'
  BY <1>1 DEF TodoInv
<1>7. NotTooOld'
  <2> SUFFICES ASSUME NEW j \in 1 .. Len(todo'), Skips(todo', 1, j)
               PROVE  FALSE
    BY DEF NotTooOld
  <2>1. Len(todo) \in Nat /\ Head(todo) = todo[1]
    BY <1>1, TodoFacts
  <2>2. 1 \in 1 .. j
    BY <1>1, <2>1
  <2>3. todo[1].chunks = 0
    BY <1>1, <2>2 DEF Skips
  <2> QED
    BY <1>1, <2>1, <2>3
<1> QED
  BY <1>1, <1>3, <1>5, <1>6, <1>7 DEF TurnInv

(* What is on the way once a message is complete. *)
LEMMA CompleteFrames ==
    ASSUME NEW m \in Messages, IInv(m), sndPhase = "complete"
    PROVE  /\ rcvPhase = "idle"
           /\ \A f \in Frames : ToRcvFrameInv(m, f) =>
                  /\ f.type = "DATA" /\ f.seq \in recent
                  /\ f.seq = SeqOf(m, f.chunk)
                  /\ f.chunk < m.chunks /\ m.chunks <= f.chunk + m.window
           /\ \A f \in Frames : ToSndFrameInv(m, f) =>
                  /\ f.seq = SeqOf(m, f.chunk)
                  /\ f.chunk < m.chunks /\ m.chunks <= f.chunk + m.window
<1>1. /\ sndBase = m.chunks /\ Started /\ Opened
      /\ m.chunks \in Nat \ {0} /\ m.window \in Nat
  BY Constants DEF IInv, PhaseInv, Started
<1>2. rcvBase = m.chunks
  BY <1>1 DEF IInv, WindowsInv, TypeOK
<1>3. outcome = "complete" /\ rcvPhase = "idle" /\ recent = TailNumbers(m)
  BY <1>2 DEF IInv, PhaseInv
<1>4. ASSUME NEW f \in Frames, ToRcvFrameInv(m, f)
      PROVE  /\ f.type = "DATA" /\ f.seq \in recent
             /\ f.seq = SeqOf(m, f.chunk)
             /\ f.chunk < m.chunks /\ m.chunks <= f.chunk + m.window
  <2>1. /\ f.chunk \in Chunks(m) /\ f = DataFrame(m, f.chunk)
        /\ rcvBase <= f.chunk + m.window
    BY <1>1, <1>2, <1>4 DEF ToRcvFrameInv
  <2>2. f.type = "DATA" /\ f.seq = SeqOf(m, f.chunk)
    BY <2>1 DEF DataFrame
  <2>3. f.chunk < m.chunks /\ f.chunk >= m.chunks - m.window
    BY <1>1, <1>2, <2>1 DEF Chunks
  <2>4. f.seq \in recent
    BY <1>3, <2>1, <2>2, <2>3 DEF TailNumbers
  <2> QED
    BY <1>2, <2>1, <2>2, <2>3, <2>4
<1>5. ASSUME NEW f \in Frames, ToSndFrameInv(m, f)
      PROVE  /\ f.seq = SeqOf(m, f.chunk)
             /\ f.chunk < m.chunks /\ m.chunks <= f.chunk + m.window
  BY <1>1, <1>5 DEF ToSndFrameInv, Reach
<1> QED
  BY <1>3, <1>4, <1>5

(* How many numbers are left once the next j files are missing. *)
LEMMA RoomAfter ==
    ASSUME TodoInv, Len(todo) > 1, NEW j \in 1 .. Len(todo) - 1, Skips(Tail(todo), 1, j)
    PROVE  MaxWindow + 1 + j <= SeqSpace
<1>1. PICK rest : rest = Tail(todo)
  OBVIOUS
<1>2. rest \in Seq(MessageShapes) /\ TurnFits(rest) /\ Len(rest) = Len(todo) - 1
  BY <1>1, TurnFitsTail DEF TodoInv
<1>3. 1 \in DOMAIN rest /\ j \in DOMAIN rest /\ 1 <= j
  BY <1>2
<1>4. MaxWindow + 1 + (j - 1 + 1) <= SeqSpace
  BY <1>1, <1>2, <1>3 DEF TurnFits
<1> QED
  BY <1>4

LEMMA NextMessageInv ==
    ASSUME TurnInv, NextMessage
    PROVE  TurnInv'
<1>1. /\ Head(todo).chunks > 0 /\ sndPhase = "complete" /\ GoOn(toRcv) /\ TodoInv
      /\ Len(todo) > 1
  BY DEF NextMessage, TurnInv, GoOn
<1>2. PICK m \in Messages : m = Current
  BY <1>1, CurrentIsMessage
<1>3. IInv(m)
  BY <1>1, <1>2 DEF TurnInv
<1>4. /\ m.chunks = Head(todo).chunks /\ m.first = first
      /\ NumbersOf(Head(todo)) = m.chunks + 1
  BY <1>2 DEF Current, NumbersOf
<1>5. /\ toRcv \in Seq(Frames) /\ toSnd \in Seq(Frames) /\ recent \in SUBSET SeqNumbers
  BY <1>3 DEF IInv, TypeOK
<1>6. ASSUME NEW f \in Frames, f.seq = SeqOf(m, f.chunk), f.chunk < m.chunks,
             m.chunks <= f.chunk + m.window
      PROVE  GrowsOld(f, m.chunks + 1)
  <2>1. /\ f.chunk \in Int /\ m.chunks \in Nat /\ m.window \in Nat /\ MaxWindow \in Nat \ {0}
        /\ m.window <= MaxWindow /\ 2 * MaxWindow <= SeqSpace /\ SeqSpace \in Nat
    BY Constants, MaxWindowAssumption DEF Frames
  <2>2. f.chunk - (m.chunks + 1) \in -SeqSpace .. -2
    BY <1>6, <2>1
  <2>3. ASSUME NEW j \in 1 .. Len(todo) - 1, Skips(Tail(todo), 1, j)
        PROVE  f.chunk - (m.chunks + 1) >= j - SeqSpace
    <3>1. MaxWindow + 1 + j <= SeqSpace /\ j \in Int
      BY <1>1, <2>3, RoomAfter, TodoFacts
    <3>2. PICK c \in Int, n \in Nat, w \in Nat :
              c = f.chunk /\ n = m.chunks /\ w = m.window
      BY <2>1
    <3>3. n <= c + w /\ w <= MaxWindow
      BY <1>6, <2>1, <3>2
    <3>4. c - (n + 1) >= j - SeqSpace
      BY <2>1, <3>1, <3>3
    <3> QED
      BY <3>2, <3>4
  <2>4. f.seq = SequenceForIndex(first, f.chunk)
    BY <1>4, <1>6 DEF SeqOf
  <2> QED
    BY <2>2, <2>3, <2>4 DEF GrowsOld
<1>7. rcvPhase = "idle"
  BY <1>1, <1>3, CompleteFrames
<1>8. ASSUME NEW p \in 1 .. Len(toRcv)
      PROVE  /\ GrowsOld(toRcv[p], NumbersOf(Head(todo)))
             /\ toRcv[p].type = "DATA" /\ toRcv[p].seq \in recent
  <2>1. PICK f \in Frames : f = toRcv[p]
    BY <1>5
  <2>2. ToRcvFrameInv(m, f)
    BY <1>3, <2>1 DEF IInv, ToRcvInv
  <2>3. /\ f.type = "DATA" /\ f.seq \in recent /\ f.seq = SeqOf(m, f.chunk)
        /\ f.chunk < m.chunks /\ m.chunks <= f.chunk + m.window
    BY <1>1, <1>3, <2>2, CompleteFrames
  <2>4. GrowsOld(f, m.chunks + 1)
    BY <1>6, <2>3
  <2> QED
    BY <1>4, <2>1, <2>3, <2>4
<1>9. ASSUME NEW p \in 1 .. Len(toSnd)
      PROVE  /\ GrowsOld(toSnd[p], NumbersOf(Head(todo)))
             /\ toSnd[p].type \in {"ACK", "NACK"}
  <2>1. PICK f \in Frames : f = toSnd[p]
    BY <1>5
  <2>2. ToSndFrameInv(m, f)
    BY <1>3, <2>1 DEF IInv, ToSndInv
  <2>3. /\ f.seq = SeqOf(m, f.chunk)
        /\ f.chunk < m.chunks /\ m.chunks <= f.chunk + m.window
    BY <1>1, <1>3, <2>2, CompleteFrames
  <2>4. GrowsOld(f, m.chunks + 1)
    BY <1>6, <2>3
  <2> QED
    BY <1>4, <2>1, <2>2, <2>4 DEF ToSndFrameInv
<1> QED
  BY <1>1, <1>5, <1>7, <1>8, <1>9, GoOnInv

LEMMA FileMissingInv ==
    ASSUME TurnInv, FileMissing
    PROVE  TurnInv'
<1>1. Head(todo).chunks = 0 /\ TodoInv /\ BetweenMessages /\ NotTooOld
  BY DEF FileMissing, TurnInv
<1>2. PICK link \in AfterSend(toRcv, ErrorFrame(Current)) : GoOn(link)
  BY DEF FileMissing
<1>3. Len(todo) > 1 /\ NumbersOf(Head(todo)) = 1
  BY <1>1, <1>2 DEF GoOn, NumbersOf
<1>4. /\ toRcv \in Seq(Frames) /\ toSnd \in Seq(Frames)
      /\ recent \in SUBSET SeqNumbers /\ rcvPhase = "idle" /\ outcome = "none"
      /\ sndPhase = "sendStart"
  BY <1>1 DEF BetweenMessages
<1>5. ~Opened /\ ~Started
  BY <1>4 DEF Opened, Started
<1>6. /\ SeqSpace \in Nat /\ MaxWindow \in Nat \ {0} /\ 2 * MaxWindow <= SeqSpace
  BY SeqSpaceAssumption, MaxWindowAssumption
<1>7. PICK e \in Frames : /\ e = ErrorFrame(Current) /\ e.type = "ERROR"
                          /\ e.seq = first /\ e.chunk = -1
  <2>1. first \in SeqNumbers
    BY <1>1 DEF TodoInv
  <2> QED
    BY <2>1 DEF ErrorFrame, Current, Frames
<1>8. ASSUME NEW j \in 1 .. Len(todo) - 1, Skips(Tail(todo), 1, j)
      PROVE  /\ MaxWindow + 1 + j <= SeqSpace
             /\ \A p \in 1 .. Len(toRcv) : toRcv[p].chunk >= j + 1 - SeqSpace
             /\ \A p \in 1 .. Len(toSnd) : toSnd[p].chunk >= j + 1 - SeqSpace
  <2>1. MaxWindow + 1 + j <= SeqSpace
    BY <1>1, <1>3, <1>8, RoomAfter
  <2>2. todo[1].chunks = 0 /\ todo \in Seq(MessageShapes) /\ TurnFits(todo)
        /\ Len(todo) \in Nat
    BY <1>1, TodoFacts DEF TodoInv
  <2>3. Skips(todo, 1, j + 1) /\ j + 1 \in 1 .. Len(todo)
    BY <1>3, <1>8, <2>2, TurnFitsTail
  <2>4. PICK i \in 1 .. Len(todo) : i = j + 1
    BY <2>3
  <2>5. /\ \A p \in 1 .. Len(toRcv) : toRcv[p].chunk >= i - SeqSpace
        /\ \A p \in 1 .. Len(toSnd) : toSnd[p].chunk >= i - SeqSpace
    BY <1>1, <2>3, <2>4 DEF NotTooOld
  <2>6. i - SeqSpace = j + 1 - SeqSpace
    <3>1. j \in Int
      BY <2>2
    <3> QED
      BY <1>6, <2>4, <3>1
  <2>7. \A p \in 1 .. Len(toRcv) : toRcv[p].chunk >= j + 1 - SeqSpace
    BY <2>5, <2>6, Zenon
  <2>8. \A p \in 1 .. Len(toSnd) : toSnd[p].chunk >= j + 1 - SeqSpace
    BY <2>5, <2>6, Zenon
  <2> QED
    BY <2>1, <2>7, <2>8
<1>9. \A p \in 1 .. Len(toRcv) : toRcv[p].chunk >= 1 - SeqSpace
  <2>1. Skips(todo, 1, 1) /\ 1 \in 1 .. Len(todo)
    <3>1. Head(todo) = todo[1] /\ Len(todo) \in Nat \ {0}
      BY <1>1, TodoFacts
    <3> QED
      BY <1>1, <3>1 DEF Skips
  <2> QED
    BY <1>1, <2>1 DEF NotTooOld
<1>10. \A p \in 1 .. Len(toSnd) : toSnd[p].chunk >= 1 - SeqSpace
  <2>1. Skips(todo, 1, 1) /\ 1 \in 1 .. Len(todo)
    <3>1. Head(todo) = todo[1] /\ Len(todo) \in Nat \ {0}
      BY <1>1, TodoFacts
    <3> QED
      BY <1>1, <3>1 DEF Skips
  <2> QED
    BY <1>1, <2>1 DEF NotTooOld
<1>11. ASSUME NEW f \in Frames, f.chunk \in 1 - SeqSpace .. -1,
              f.seq = SequenceForIndex(first, f.chunk),
              \A j \in 1 .. Len(todo) - 1 :
                  Skips(Tail(todo), 1, j) => f.chunk >= j + 1 - SeqSpace
       PROVE  GrowsOld(f, NumbersOf(Head(todo)))
  <2>1. f.chunk - 1 \in -SeqSpace .. -2
    BY <1>6, <1>11
  <2>2. ASSUME NEW j \in 1 .. Len(todo) - 1, Skips(Tail(todo), 1, j)
        PROVE  f.chunk - 1 >= j - SeqSpace
    <3>1. j \in Int /\ f.chunk \in Int
      BY <1>1, <1>11, <2>2, TodoFacts
    <3> QED
      BY <1>6, <1>11, <2>2, <3>1
  <2> QED
    BY <1>3, <1>11, <2>1, <2>2 DEF GrowsOld
<1>12. GrowsOld(e, NumbersOf(Head(todo)))
  <2>1. e.seq = SequenceForIndex(first, e.chunk)
    <3>1. first \in 0 .. SeqSpace - 1 /\ first + (-1) + 1 = first
      BY <1>1, <1>6, TodoFacts DEF SeqNumbers
    <3>2. (first + (-1) + 1) % SeqSpace = first
      BY <1>6, <3>1
    <3> QED
      BY <1>7, <3>2 DEF SequenceForIndex
  <2>2. e.chunk \in 1 - SeqSpace .. -1
    BY <1>6, <1>7
  <2>3. \A j \in 1 .. Len(todo) - 1 :
            Skips(Tail(todo), 1, j) => e.chunk >= j + 1 - SeqSpace
    <3>1. \A j \in 1 .. Len(todo) - 1 : j \in Int
      BY <1>1, TodoFacts
    <3> QED
      BY <1>6, <1>7, <1>8, <3>1
  <2> QED
    BY <1>11, <2>1, <2>2, <2>3
<1>13. ASSUME NEW p \in 1 .. Len(toRcv)
       PROVE  /\ GrowsOld(toRcv[p], NumbersOf(Head(todo)))
              /\ toRcv[p].type \in {"DATA", "ERROR"}
              /\ toRcv[p].type = "DATA" => toRcv[p].seq \in recent
  <2>1. PICK f \in Frames : f = toRcv[p]
    BY <1>4
  <2>2. ToRcvFrameInv(Current, f) /\ IsOld(f) /\ f.chunk >= 1 - SeqSpace
    BY <1>1, <1>9, <2>1 DEF BetweenMessages
  <2>3. /\ f.type \in {"DATA", "ERROR"} /\ OldFrame(Current, f)
        /\ f.type = "DATA" => f.seq \in recent
    BY <1>1, <1>4, <2>2
       DEF ToRcvFrameInv, StartFrame, ErrorFrame, IsOld, Chunks
  <2>4. f.seq = SequenceForIndex(first, f.chunk) /\ f.chunk \in 1 - SeqSpace .. -1
    BY <1>6, <2>2, <2>3 DEF OldFrame, SeqOf, Current
  <2>5. \A j \in 1 .. Len(todo) - 1 :
            Skips(Tail(todo), 1, j) => f.chunk >= j + 1 - SeqSpace
    BY <1>8, <2>1
  <2>6. GrowsOld(f, NumbersOf(Head(todo)))
    BY <1>11, <2>4, <2>5
  <2> QED
    BY <2>1, <2>3, <2>6
<1>14. ASSUME NEW p \in 1 .. Len(toSnd)
       PROVE  /\ GrowsOld(toSnd[p], NumbersOf(Head(todo)))
              /\ toSnd[p].type \in {"ACK", "NACK"}
  <2>1. PICK f \in Frames : f = toSnd[p]
    BY <1>4
  <2>2. ToSndFrameInv(Current, f) /\ IsOld(f) /\ f.chunk >= 1 - SeqSpace
    BY <1>1, <1>10, <2>1 DEF BetweenMessages
  <2>3. f.type \in {"ACK", "NACK"} /\ OldFrame(Current, f)
    BY <1>5, <2>2 DEF ToSndFrameInv
  <2>4. f.seq = SequenceForIndex(first, f.chunk) /\ f.chunk \in 1 - SeqSpace .. -1
    BY <1>6, <2>2, <2>3 DEF OldFrame, SeqOf, Current
  <2>5. \A j \in 1 .. Len(todo) - 1 :
            Skips(Tail(todo), 1, j) => f.chunk >= j + 1 - SeqSpace
    BY <1>8, <2>1
  <2>6. GrowsOld(f, NumbersOf(Head(todo)))
    BY <1>11, <2>4, <2>5
  <2> QED
    BY <2>1, <2>3, <2>6
<1>15. /\ link \in Seq(Frames) /\ Len(link) \in {Len(toRcv), Len(toRcv) + 1}
       /\ \A p \in 1 .. Len(toRcv) : link[p] = toRcv[p]
       /\ \A p \in 1 .. Len(link) : p > Len(toRcv) => link[p] = e
  BY <1>2, <1>4, <1>7, AfterSendCases
<1>16. ASSUME NEW p \in 1 .. Len(link)
       PROVE  /\ GrowsOld(link[p], NumbersOf(Head(todo)))
              /\ link[p].type \in {"DATA", "ERROR"}
              /\ link[p].type = "DATA" => link[p].seq \in recent
  <2>1. CASE p \in 1 .. Len(toRcv)
    BY <1>13, <1>15, <2>1
  <2>2. CASE p \notin 1 .. Len(toRcv)
    <3>1. link[p] = e
      <4>1. p > Len(toRcv)
        BY <1>4, <2>2
      <4> QED
        BY <1>15, <4>1
    <3> QED
      BY <1>7, <1>12, <3>1
  <2> QED
    BY <2>1, <2>2
<1> QED
  BY <1>1, <1>2, <1>4, <1>14, <1>15, <1>16, GoOnInv

LEMMA OldFrameArrivesInv ==
    ASSUME TurnInv, OldFrameArrives
    PROVE  TurnInv'
<1>1. /\ Head(todo).chunks = 0 /\ TodoInv /\ BetweenMessages /\ NotTooOld
      /\ todo' = todo /\ first' = first
  BY DEF OldFrameArrives, TurnInv
<1>2. PICK m : m = Current
  OBVIOUS
<1>3. Current' = m
  BY <1>1, <1>2 DEF Current
<1>4. /\ sndPhase = "sendStart" /\ sndBase = 0 /\ sndNext = 0
      /\ inUse = {} /\ acked = {} /\ resend = {}
      /\ rcvPhase = "idle" /\ outcome = "none" /\ rcvBase = 0
      /\ ring = EmptyRing(Head(todo)) /\ since = 0 /\ written = << >>
      /\ recent \in SUBSET SeqNumbers
      /\ toRcv \in Seq(Frames) /\ toSnd \in Seq(Frames)
  BY <1>1 DEF BetweenMessages
<1>5. /\ toRcv # << >> /\ toRcv' = Tail(toRcv)
      /\ UNCHANGED <<sndPhase, sndBase, sndNext, inUse, acked, resend>>
      /\ UNCHANGED <<rcvPhase, outcome, rcvBase, ring, since, recent, written>>
      /\ \/ toSnd' = toSnd
         \/ /\ Head(toRcv).type = "DATA"
            /\ SendControl("ACK", Head(toRcv).seq, Head(toRcv).chunk)
  BY <1>4 DEF OldFrameArrives, ReceiveError, ReceiveLateData, Arriving, sndVars, rcvVars
<1>6. /\ ~Opened /\ ~Started /\ ~Opened' /\ ~Started'
  BY <1>4, <1>5 DEF Opened, Started
<1>7. ASSUME NEW p \in 1 .. Len(toRcv)
      PROVE  /\ toRcv[p] \in Frames /\ OldFrame(m, toRcv[p]) /\ IsOld(toRcv[p])
             /\ toRcv[p].type \in {"DATA", "ERROR"}
             /\ toRcv[p].type = "DATA" => toRcv[p].seq \in recent
  <2>1. PICK f \in Frames : f = toRcv[p]
    BY <1>4
  <2>2. ToRcvFrameInv(m, f) /\ IsOld(f)
    BY <1>1, <1>2, <2>1 DEF BetweenMessages
  <2>3. /\ f.type \in {"DATA", "ERROR"} /\ OldFrame(m, f)
        /\ f.type = "DATA" => f.seq \in recent
    BY <1>4, <2>2 DEF ToRcvFrameInv, StartFrame, ErrorFrame, IsOld, Chunks
  <2> QED
    BY <2>1, <2>2, <2>3
<1>8. /\ Tail(toRcv) \in Seq(Frames) /\ Len(Tail(toRcv)) = Len(toRcv) - 1
      /\ Head(toRcv) = toRcv[1] /\ Len(toRcv) \in Nat \ {0}
      /\ \A p \in 1 .. Len(Tail(toRcv)) : Tail(toRcv)[p] = toRcv[p + 1]
  BY <1>4, <1>5, TailCases
<1>9. PICK next : next = Tail(toRcv)
  OBVIOUS
<1>10. ASSUME NEW p \in 1 .. Len(next)
       PROVE  /\ ToRcvFrameInv(m, next[p])' /\ IsOld(next[p])
              /\ next[p].chunk >= toRcv[p + 1].chunk /\ p + 1 \in 1 .. Len(toRcv)
  <2>1. p + 1 \in 1 .. Len(toRcv) /\ next[p] = toRcv[p + 1]
    BY <1>8, <1>9
  <2>2. PICK f \in Frames : f = next[p]
    BY <1>7, <2>1
  <2>3. /\ OldFrame(m, f) /\ IsOld(f) /\ f.type \in {"DATA", "ERROR"}
        /\ f.type = "DATA" => f.seq \in recent
    BY <1>7, <2>1, <2>2
  <2>4. ToRcvFrameInv(m, f)'
    BY <1>5, <1>6, <2>3 DEF ToRcvFrameInv
  <2>5. f.chunk >= f.chunk
    BY <2>2 DEF Frames
  <2> QED
    BY <2>1, <2>2, <2>3, <2>4, <2>5
<1>11. PICK h \in Frames : /\ h = Head(toRcv) /\ OldFrame(m, h) /\ IsOld(h)
  BY <1>7, <1>8
<1>12. PICK a \in Frames : /\ a = ControlFrame("ACK", h.seq, h.chunk)
                           /\ a.type = "ACK" /\ a.seq = h.seq /\ a.chunk = h.chunk
  <2>1. h.seq \in SeqNumbers /\ h.chunk \in Int
    BY <1>11 DEF Frames
  <2>2. \A s \in SeqNumbers, c \in Int : ControlFrame("ACK", s, c) \in Frames
    BY DEF Frames, ControlFrame
  <2>3. ControlFrame("ACK", h.seq, h.chunk) \in Frames
    BY <2>1, <2>2
  <2> QED
    BY <2>3 DEF ControlFrame
<1>13. ToSndFrameInv(m, a)' /\ IsOld(a)
  BY <1>6, <1>11, <1>12 DEF ToSndFrameInv, OldFrame, IsOld
<1>14. /\ toSnd' \in Seq(Frames)
       /\ \A p \in 1 .. Len(toSnd') :
              (p \in 1 .. Len(toSnd) /\ toSnd'[p] = toSnd[p]) \/ toSnd'[p] = a
  <2>1. CASE toSnd' = toSnd
    BY <1>4, <2>1
  <2>2. CASE SendControl("ACK", Head(toRcv).seq, Head(toRcv).chunk)
    <3>1. toSnd' \in AfterSend(toSnd, a)
      BY <1>11, <1>12, <2>2 DEF SendControl
    <3>2. PICK sent \in AfterSend(toSnd, a) : sent = toSnd'
      BY <3>1
    <3>3. /\ sent \in Seq(Frames) /\ Len(toSnd) \in Nat /\ Len(sent) \in Nat
          /\ \A p \in 1 .. Len(toSnd) : sent[p] = toSnd[p]
          /\ \A p \in 1 .. Len(sent) : p > Len(toSnd) => sent[p] = a
      <4>1. toSnd \in Seq(Frames)
        BY <1>4
      <4>2. /\ sent \in Seq(Frames)
            /\ \A p \in 1 .. Len(toSnd) : sent[p] = toSnd[p]
            /\ \A p \in 1 .. Len(sent) : p > Len(toSnd) => sent[p] = a
        BY <4>1, AfterSendCases
      <4> QED
        BY <4>1, <4>2
    <3>4. \A p \in 1 .. Len(sent) : (p \in 1 .. Len(toSnd) /\ sent[p] = toSnd[p]) \/ sent[p] = a
      BY <3>3
    <3> QED
      BY <3>2, <3>3, <3>4
  <2> QED
    BY <1>5, <2>1, <2>2
<1>15. PICK answers \in Seq(Frames) : answers = toSnd'
  BY <1>14
<1>16. ASSUME NEW p \in 1 .. Len(answers)
       PROVE  ToSndFrameInv(m, answers[p])' /\ IsOld(answers[p])
  <2>1. CASE p \in 1 .. Len(toSnd) /\ answers[p] = toSnd[p]
    <3>1. PICK f \in Frames : f = toSnd[p]
      BY <1>4, <2>1
    <3>2. ToSndFrameInv(m, f) /\ IsOld(f)
      BY <1>1, <1>2, <2>1, <3>1 DEF BetweenMessages
    <3>3. f.type \in {"ACK", "NACK"} /\ OldFrame(m, f)
      BY <1>6, <3>2 DEF ToSndFrameInv
    <3>4. ToSndFrameInv(m, f)'
      BY <1>6, <3>3 DEF ToSndFrameInv
    <3> QED
      BY <2>1, <3>1, <3>2, <3>4
  <2>2. CASE answers[p] = a
    BY <1>13, <2>2
  <2> QED
    BY <1>14, <1>15, <2>1, <2>2
<1>17. BetweenMessages'
  <2>1. /\ \A p \in 1 .. Len(toRcv') : ToRcvFrameInv(m, next[p])' /\ IsOld(next[p])
        /\ \A p \in 1 .. Len(toSnd') : ToSndFrameInv(m, answers[p])' /\ IsOld(answers[p])
    BY <1>5, <1>9, <1>10, <1>15, <1>16
  <2>2. toRcv' = next /\ toSnd' = answers
    BY <1>5, <1>9, <1>15
  <2> QED
    BY <1>1, <1>3, <1>4, <1>5, <1>8, <1>14, <2>1, <2>2 DEF BetweenMessages
<1>18. NotTooOld'
  <2> SUFFICES ASSUME NEW j \in 1 .. Len(todo), Skips(todo, 1, j)
               PROVE  /\ \A p \in 1 .. Len(next) : next[p].chunk >= j - SeqSpace
                      /\ \A p \in 1 .. Len(answers) : answers[p].chunk >= j - SeqSpace
    BY <1>1, <1>5, <1>9, <1>15 DEF NotTooOld
  <2>1. /\ \A p \in 1 .. Len(toRcv) : toRcv[p].chunk >= j - SeqSpace
        /\ \A p \in 1 .. Len(toSnd) : toSnd[p].chunk >= j - SeqSpace
    BY <1>1 DEF NotTooOld
  <2>2. \A p \in 1 .. Len(next) : next[p].chunk >= j - SeqSpace
    BY <1>8, <1>9, <1>10, <2>1
  <2>3. a.chunk >= j - SeqSpace
    BY <1>8, <1>11, <1>12, <2>1
  <2> QED
    BY <1>14, <1>15, <2>1, <2>2, <2>3
<1> QED
  BY <1>1, <1>17, <1>18 DEF TurnInv, TodoInv

LEMMA TurnStepInv ==
    ASSUME TurnInv, [TurnNext]_turnVars
    PROVE  TurnInv'
<1>1. CASE TurnNext
  BY <1>1, MessageStepInv, NextMessageInv, FileMissingInv, OldFrameArrivesInv DEF TurnNext
<1>2. CASE UNCHANGED turnVars
  <2>1. UNCHANGED vars /\ todo' = todo /\ first' = first
    BY <1>2 DEF turnVars
  <2>2. TodoInv' /\ NotTooOld'
    BY <2>1 DEF TurnInv, TodoInv, NotTooOld, vars
  <2>3. Current' = Current
    BY <2>1 DEF Current
  <2>4. CASE Head(todo).chunks > 0
    <3>1. PICK m \in Messages : m = Current
      BY <2>4, CurrentIsMessage DEF TurnInv
    <3>2. IInv(m)'
      BY <2>1, <2>4, <3>1, StutterInv DEF TurnInv
    <3> QED
      BY <2>1, <2>2, <2>3, <2>4, <3>1, <3>2 DEF TurnInv
  <2>5. CASE ~(Head(todo).chunks > 0)
    <3>1. PICK m : m = Current
      OBVIOUS
    <3>2. BetweenMessages'
      BY <2>1, <2>3, <2>5
         DEF TurnInv, BetweenMessages, vars, sndVars, rcvVars, ToRcvFrameInv,
             ToSndFrameInv, Opened, Started
    <3> QED
      BY <2>1, <2>2, <2>5, <3>2 DEF TurnInv
  <2> QED
    BY <2>4, <2>5
<1> QED
  BY <1>1, <1>2

-----------------------------------------------------------------------------
(* The invariant that relates the message at hand, the frames of the earlier *)
(* ones and the numbers that are left holds of every behaviour of a turn.   *)
THEOREM TurnInvariantHolds == TurnSpec => []TurnInv
<1>1. TurnInit => TurnInv
  BY InitTurn
<1>2. TurnInv /\ [TurnNext]_turnVars => TurnInv'
  BY TurnStepInv
<1> QED
  BY <1>1, <1>2, PTL DEF TurnSpec

LEMMA KeptApartByInv ==
    ASSUME NEW m \in Messages, IInv(m)
    PROVE  KeptApart(m)
<1>1. WrittenInOrder
  BY DEF IInv, WrittenInv, WrittenInOrder
<1>2. ConfirmedIsWritten
  BY DEF IInv, WindowsInv, WrittenInv, ConfirmedIsWritten
<1>3. ASSUME sndPhase = "complete"
      PROVE  Len(written) = m.chunks /\ rcvPhase = "idle"
  <2>1. sndBase = m.chunks /\ rcvPhase = "idle"
    BY <1>3, CompleteFrames DEF IInv, PhaseInv
  <2>2. rcvBase = m.chunks
    BY <2>1, Constants DEF IInv, WindowsInv, TypeOK
  <2> QED
    BY <2>1, <2>2 DEF IInv, WrittenInv
<1>4. ControlNamesItsChunk(m) /\ NoDataIsInvalid(m)
  BY ControlUnderstood, DataUnderstood
<1>5. ASSUME sndPhase = "waitStart", toSnd # << >>, Head(toSnd).seq = m.first
      PROVE  Head(toSnd).chunk = -1
  <2>1. TypeOK(m) /\ WindowsInv(m) /\ sndNext = 0
    BY <1>5 DEF IInv, PhaseInv, Started
  <2>2. Head(toSnd) \in Frames /\ ToSndFrameInv(m, Head(toSnd))
    BY <1>5, HeadOfToSnd
  <2>3. PICK f \in Frames : f = Head(toSnd) /\ ToSndFrameInv(m, f) /\ f.seq = m.first
    BY <1>5, <2>2
  <2> QED
    BY <2>1, <2>3, StartAnswer
<1>6. rcvPhase = "idle" /\ Arriving({"DATA"}) => Head(toRcv).seq \in recent
  BY LateDataInRecent
<1> QED
  BY <1>1, <1>2, <1>3, <1>4, <1>5, <1>6 DEF KeptApart

(* The files and the view of a turn are kept apart, whatever is lost and    *)
(* repeated: no frame of an earlier message is taken for one of the message *)
(* at hand, although the 6-bit numbers come round several times in a turn.  *)
THEOREM TurnKeepsMessagesApart == TurnSpec => []MessagesKeepApart
<1>1. TurnInv => MessagesKeepApart
  <2> SUFFICES ASSUME TurnInv, Head(todo).chunks > 0 PROVE KeptApart(Current)
    BY DEF MessagesKeepApart
  <2>1. PICK m \in Messages : m = Current
    BY CurrentIsMessage DEF TurnInv
  <2>2. IInv(m)
    BY <2>1 DEF TurnInv
  <2>3. KeptApart(m)
    BY <2>2, KeptApartByInv
  <2> QED
    BY <2>1, <2>3
<1> QED
  BY <1>1, TurnInvariantHolds, PTL

-----------------------------------------------------------------------------
(* The transfers of a turn are one delivery after the other. *)

LEMMA TurnBegins == TurnInit => Deliveries!TurnAbsInit
<1> SUFFICES ASSUME TurnInit PROVE Deliveries!TurnAbsInit
  OBVIOUS
<1>1. PICK m : m = Current
  OBVIOUS
<1>2. Init(m) /\ todo \in Turns
  BY <1>1 DEF TurnInit
<1> QED
  BY <1>2 DEF Init, Deliveries!TurnAbsInit, Deliveries!Fresh, Report, Reception

(* A step of the message at hand is a step of its delivery. *)
LEMMA MessageStepDelivers ==
    ASSUME TurnInv, TurnInv', MessageStep
    PROVE  Deliveries!TurnAbsNext \/ UNCHANGED Deliveries!turnAbsVars
<1>1. Head(todo).chunks > 0 /\ todo' = todo /\ first' = first /\ TodoInv
  BY DEF MessageStep, TurnInv
<1>2. PICK m \in Messages : m = Current
  BY <1>1, CurrentIsMessage
<1>3. IInv(m) /\ IInv(m)'
  BY <1>1, <1>2 DEF TurnInv, Current
<1>4. /\ Deliveries!TotalChunks = m.chunks /\ Deliveries!Window = m.window
      /\ Deliveries!TotalChunks > 0
  BY <1>1, <1>2 DEF Current, Deliveries!TotalChunks, Deliveries!Window
<1>5. CASE SenderNext(m)
  BY <1>1, <1>3, <1>4, <1>5, SenderEffect
     DEF Deliveries!TurnAbsNext, Deliveries!Confirm, Deliveries!GiveUp,
         Deliveries!turnAbsVars
<1>6. CASE ReceiverNext(m)
  BY <1>1, <1>3, <1>4, <1>6, ReceiverEffect
     DEF Deliveries!TurnAbsNext, Deliveries!Open, Deliveries!Fresh, Deliveries!Write,
         Deliveries!Break, Deliveries!turnAbsVars
<1> QED
  BY <1>2, <1>5, <1>6 DEF MessageStep

(* Where the sender goes on, the receiver is outside of any reception.      *)
LEMMA GoOnDelivers ==
    ASSUME NEW link, GoOn(link), rcvPhase = "idle",
           IF Deliveries!TotalChunks > 0
           THEN Reception = "whole" /\ Report = "success" ELSE Deliveries!Fresh
    PROVE  Deliveries!GoOn
<1>1. /\ Len(todo) > 1 /\ todo' = Tail(todo) /\ sndPhase' = "sendStart"
      /\ sndBase' = 0 /\ outcome' = "none" /\ written' = << >> /\ rcvPhase' = "idle"
  BY DEF GoOn
<1>2. Report' = "running" /\ Reception' = "none"
  BY <1>1 DEF Report, Reception
<1> QED
  BY <1>1, <1>2 DEF Deliveries!GoOn

LEMMA NextMessageDelivers ==
    ASSUME TurnInv, NextMessage
    PROVE  Deliveries!GoOn
<1>1. Head(todo).chunks > 0 /\ sndPhase = "complete" /\ GoOn(toRcv) /\ TodoInv
  BY DEF NextMessage, TurnInv
<1>2. PICK m \in Messages : m = Current
  BY <1>1, CurrentIsMessage
<1>3. IInv(m)
  BY <1>1, <1>2 DEF TurnInv
<1>4. sndBase = m.chunks /\ rcvPhase = "idle"
  BY <1>1, <1>3, CompleteFrames DEF IInv, PhaseInv
<1>5. rcvBase = m.chunks
  BY <1>3, <1>4, Constants DEF IInv, WindowsInv, TypeOK
<1>6. outcome = "complete"
  BY <1>3, <1>5 DEF IInv, PhaseInv
<1>7. Reception = "whole" /\ Report = "success" /\ Deliveries!TotalChunks > 0
  BY <1>1, <1>4, <1>6 DEF Reception, Report, Deliveries!TotalChunks
<1> QED
  BY <1>1, <1>4, <1>7, GoOnDelivers

LEMMA FileMissingDelivers ==
    ASSUME TurnInv, FileMissing
    PROVE  Deliveries!GoOn
<1>1. Head(todo).chunks = 0 /\ BetweenMessages
  BY DEF FileMissing, TurnInv
<1>2. PICK link \in AfterSend(toRcv, ErrorFrame(Current)) : GoOn(link)
  BY DEF FileMissing
<1>3. /\ sndPhase = "sendStart" /\ sndBase = 0 /\ rcvPhase = "idle"
      /\ outcome = "none" /\ written = << >>
  BY <1>1 DEF BetweenMessages
<1>4. Deliveries!Fresh /\ ~(Deliveries!TotalChunks > 0)
  BY <1>1, <1>3 DEF Deliveries!Fresh, Deliveries!TotalChunks, Reception, Report
<1> QED
  BY <1>2, <1>3, <1>4, GoOnDelivers

(* What is read between two messages is not of any of them. *)
LEMMA OldFrameDelivers ==
    ASSUME TurnInv, OldFrameArrives
    PROVE  UNCHANGED Deliveries!turnAbsVars
<1>1. Head(todo).chunks = 0 /\ rcvPhase = "idle" /\ todo' = todo
  BY DEF OldFrameArrives, TurnInv, BetweenMessages
<1>2. /\ rcvPhase' = "idle" /\ outcome' = outcome /\ written' = written
      /\ sndPhase' = sndPhase /\ sndBase' = sndBase
  BY <1>1 DEF OldFrameArrives, ReceiveError, ReceiveLateData, sndVars, rcvVars
<1> QED
  BY <1>1, <1>2 DEF Deliveries!turnAbsVars, Report, Reception

LEMMA TurnStepDelivers ==
    ASSUME TurnInv, TurnInv', [TurnNext]_turnVars
    PROVE  [Deliveries!TurnAbsNext]_(Deliveries!turnAbsVars)
<1>1. CASE UNCHANGED turnVars
  BY <1>1 DEF turnVars, vars, sndVars, rcvVars, Deliveries!turnAbsVars, Report, Reception
<1>2. CASE NextMessage \/ FileMissing
  BY <1>2, NextMessageDelivers, FileMissingDelivers DEF Deliveries!TurnAbsNext
<1> QED
  BY <1>1, <1>2, MessageStepDelivers, OldFrameDelivers DEF TurnNext

(* Every behaviour of the transfers of a turn, over a link that loses       *)
(* frames and keeps old ones, is one of deliveries one after the other: no  *)
(* message is opened again, and none is left before it is whole.            *)
THEOREM TurnImplementsDeliveries == TurnSpec => ImplementsTurnDelivery
<1>1. TurnInv /\ TurnInv' /\ [TurnNext]_turnVars
          => [Deliveries!TurnAbsNext]_(Deliveries!turnAbsVars)
  BY TurnStepDelivers
<1> QED
  BY <1>1, TurnBegins, TurnInvariantHolds, PTL
     DEF TurnSpec, ImplementsTurnDelivery, Deliveries!TurnAbsSpec
=============================================================================
