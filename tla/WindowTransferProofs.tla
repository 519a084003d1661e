------------------------ MODULE WindowTransferProofs ------------------------
(***************************************************************************)
(* The window protocol delivers in order and confirms only what was        *)
(* delivered, for every window, message length, base number and link, as   *)
(* long as two windows fit in the sequence space; with its timers too.     *)
(***************************************************************************)
EXTENDS TimedTransfer, TLAPS, SequenceTheorems, FiniteSetTheorems

-----------------------------------------------------------------------------
(* Numbers modulo n. *)

(* Two integers closer than n that are congruent modulo n are equal. *)
LEMMA ModUnique ==
    ASSUME NEW n \in Nat \ {0}, NEW a \in Int, NEW b \in Int,
           (a % n) = (b % n), a - b < n, b - a < n
    PROVE  a = b
<1> DEFINE qa == a \div n
           qb == b \div n
<1>1. a = (n * qa) + (a % n) /\ b = (n * qb) + (b % n)
  OBVIOUS
<1>2. qa \in Int /\ qb \in Int
  OBVIOUS
<1> HIDE DEF qa, qb
<1>3. a - b = n * (qa - qb) /\ b - a = n * (qb - qa)
  BY <1>1, <1>2
<1>4. CASE qa = qb
  BY <1>4, <1>1
<1>5. CASE qa - qb >= 1
  <2>1. n * (qa - qb) >= n
    BY <1>5, <1>2
  <2> QED
    BY <2>1, <1>3
<1>6. CASE qb - qa >= 1
  <2>1. n * (qb - qa) >= n
    BY <1>6, <1>2
  <2> QED
    BY <2>1, <1>3
<1> QED
  BY <1>2, <1>4, <1>5, <1>6

(* What is known of a message, in one place. *)
LEMMA Constants ==
    ASSUME NEW m \in Messages
    PROVE  /\ SeqSpace \in Nat \ {0} /\ m.window \in Nat \ {0}
           /\ MaxWindow \in Nat \ {0} /\ m.window <= MaxWindow
           /\ 2 * m.window <= SeqSpace
           /\ m.chunks \in Nat \ {0} /\ m.first \in SeqNumbers
           /\ FullLen \in Nat \ {0} /\ m.last \in Nat \ {0} /\ LinkCap \in Nat
BY SeqSpaceAssumption, MaxWindowAssumption, FullLenAssumption,
   LinkCapAssumption DEF Messages

(* A sequence number names one chunk among any SeqSpace consecutive ones. *)
LEMMA SeqUnique ==
    ASSUME NEW m \in Messages, NEW c \in Int, NEW d \in Int, SeqOf(m, c) = SeqOf(m, d),
           c - d < SeqSpace, d - c < SeqSpace
    PROVE  c = d
<1>1. m.first \in Int /\ SeqSpace \in Nat \ {0}
  BY Constants DEF SeqNumbers
<1> DEFINE a == m.first + c + 1
           b == m.first + d + 1
<1>2. a \in Int /\ b \in Int /\ a - b < SeqSpace /\ b - a < SeqSpace
  BY <1>1
<1>3. (a % SeqSpace) = (b % SeqSpace)
  BY DEF SeqOf, SequenceForIndex
<1>4. a = b
  <2> HIDE DEF a, b
  <2> QED
    BY <1>1, <1>2, <1>3, ModUnique
<1> QED
  BY <1>1, <1>4

LEMMA SeqOfType ==
    ASSUME NEW m \in Messages, NEW c \in Int
    PROVE  SeqOf(m, c) \in SeqNumbers
BY Constants DEF SeqOf, SequenceForIndex, SeqNumbers

(* A slot of the ring belongs to one chunk of the window. *)
LEMMA SlotUnique ==
    ASSUME NEW m \in Messages, NEW c \in Int, NEW d \in Int, (c % m.window) = (d % m.window),
           c - d < m.window, d - c < m.window
    PROVE  c = d
<1>1. m.window \in Nat \ {0}
  BY Constants
<1> QED
  BY <1>1, ModUnique

LEMMA SlotType ==
    ASSUME NEW m \in Messages, NEW c \in Int
    PROVE  c % m.window \in 0 .. m.window - 1
BY Constants

LEMMA FrameTypes ==
    ASSUME NEW m \in Messages
    PROVE  /\ StartFrame(m) \in Frames
           /\ ErrorFrame(m) \in Frames
           /\ \A c \in Chunks(m) : DataFrame(m, c) \in Frames
           /\ \A t \in {"ACK", "NACK"}, s \in SeqNumbers, c \in Int :
                  ControlFrame(t, s, c) \in Frames
<1>1. \A c \in Chunks(m) : ChunkLen(m, c) \in Nat
  BY Constants DEF ChunkLen, Chunks
<1>2. \A c \in Chunks(m) : SeqOf(m, c) \in SeqNumbers
  BY SeqOfType, Constants DEF Chunks
<1> QED
  BY <1>1, <1>2, Constants
     DEF StartFrame, ErrorFrame, DataFrame, ControlFrame, Frames, Chunks

-----------------------------------------------------------------------------
(* The links. *)

(* A frame sent on a link is lost or becomes its last frame. *)
LEMMA AfterSendCases ==
    ASSUME NEW link \in Seq(Frames), NEW f \in Frames,
           NEW next \in AfterSend(link, f)
    PROVE  /\ next \in Seq(Frames)
           /\ Len(next) \in {Len(link), Len(link) + 1}
           /\ \A p \in 1 .. Len(link) : next[p] = link[p]
           /\ \A p \in 1 .. Len(next) : p > Len(link) => next[p] = f
BY DEF AfterSend

(* Reading the first frame of a link. *)
LEMMA TailCases ==
    ASSUME NEW link \in Seq(Frames), link # << >>
    PROVE  /\ Tail(link) \in Seq(Frames)
           /\ Head(link) = link[1] /\ Head(link) \in Frames
           /\ Len(link) >= 1 /\ Len(Tail(link)) = Len(link) - 1
           /\ \A p \in 1 .. Len(Tail(link)) : Tail(link)[p] = link[p + 1]
OBVIOUS

(* The frames towards the receiver keep their invariant when one is sent, *)
LEMMA ToRcvAfterSend ==
    ASSUME NEW m \in Messages, TypeOK(m), ToRcvInv(m), NEW f \in Frames,
           toRcv' \in AfterSend(toRcv, f),
           \A g \in Frames : ToRcvFrameInv(m, g) => ToRcvFrameInv(m, g)',
           ToRcvFrameInv(m, f)',
           \A g \in Frames : ToRcvFrameInv(m, g) => ToRcvOrder(m, g, f)
    PROVE  ToRcvInv(m)'
<1>1. /\ toRcv \in Seq(Frames)
      /\ toRcv' \in Seq(Frames)
      /\ Len(toRcv') \in {Len(toRcv), Len(toRcv) + 1}
      /\ \A p \in 1 .. Len(toRcv) : toRcv'[p] = toRcv[p]
      /\ \A p \in 1 .. Len(toRcv') : p > Len(toRcv) => toRcv'[p] = f
  BY AfterSendCases DEF TypeOK
<1>2. \A p \in 1 .. Len(toRcv) : toRcv[p] \in Frames /\ ToRcvFrameInv(m, toRcv[p])
  BY <1>1 DEF ToRcvInv
<1>3. ASSUME NEW p \in 1 .. Len(toRcv')
      PROVE  ToRcvFrameInv(m, toRcv[p])'
  <2>1. CASE p <= Len(toRcv)
    BY <1>1, <1>2, <2>1 DEF ToRcvFrameInv
  <2>2. CASE p > Len(toRcv)
    BY <1>1, <2>2 DEF ToRcvFrameInv
  <2> QED
    BY <1>1, <2>1, <2>2
<1>4. ASSUME NEW q \in 1 .. Len(toRcv'), NEW p \in 1 .. q - 1
      PROVE  ToRcvOrder(m, toRcv'[p], toRcv'[q])
  <2>1. p \in 1 .. Len(toRcv)
    BY <1>1
  <2>2. CASE q <= Len(toRcv)
    BY <1>1, <2>1, <2>2 DEF ToRcvInv
  <2>3. CASE q > Len(toRcv)
    BY <1>1, <1>2, <2>1, <2>3
  <2> QED
    BY <1>1, <2>2, <2>3
<1> QED
  BY <1>3, <1>4 DEF ToRcvInv, ToRcvOrder, IsOld

(* and when the first one is read. *)
LEMMA ToRcvAfterTail ==
    ASSUME NEW m \in Messages, TypeOK(m), ToRcvInv(m), toRcv # << >>, toRcv' = Tail(toRcv),
           \A g \in Frames :
               ToRcvFrameInv(m, g) /\ ToRcvOrder(m, Head(toRcv), g)
                   => ToRcvFrameInv(m, g)'
    PROVE  ToRcvInv(m)'
<1>1. /\ Head(toRcv) = toRcv[1] /\ Len(toRcv) >= 1 /\ toRcv \in Seq(Frames)
      /\ toRcv' \in Seq(Frames) /\ Len(toRcv') = Len(toRcv) - 1
      /\ \A p \in 1 .. Len(toRcv') : toRcv'[p] = toRcv[p + 1]
  BY TailCases DEF TypeOK
<1>2. ASSUME NEW p \in 1 .. Len(toRcv')
      PROVE  ToRcvFrameInv(m, toRcv[p])'
  <2>1. p + 1 \in 1 .. Len(toRcv) /\ 1 \in 1 .. (p + 1) - 1
    BY <1>1
  <2>2. toRcv[p + 1] \in Frames
    BY <1>1, <2>1
  <2>3. ToRcvFrameInv(m, toRcv[p + 1]) /\ ToRcvOrder(m, toRcv[1], toRcv[p + 1])
    BY <2>1 DEF ToRcvInv
  <2> QED
    BY <1>1, <2>2, <2>3 DEF ToRcvFrameInv
<1>3. ASSUME NEW q \in 1 .. Len(toRcv'), NEW p \in 1 .. q - 1
      PROVE  ToRcvOrder(m, toRcv'[p], toRcv'[q])
  <2>1. /\ q + 1 \in 1 .. Len(toRcv) /\ p + 1 \in 1 .. (q + 1) - 1
        /\ p \in 1 .. Len(toRcv')
    BY <1>1
  <2>2. ToRcvOrder(m, toRcv[p + 1], toRcv[q + 1])
    BY <2>1 DEF ToRcvInv
  <2> QED
    BY <1>1, <2>1, <2>2
<1> QED
  BY <1>2, <1>3 DEF ToRcvInv, ToRcvOrder, IsOld

(* The same for the frames towards the sender. *)
LEMMA ToSndAfterSend ==
    ASSUME NEW m \in Messages, TypeOK(m), ToSndInv(m), NEW f \in Frames,
           toSnd' \in AfterSend(toSnd, f),
           \A g \in Frames : ToSndFrameInv(m, g) => ToSndFrameInv(m, g)',
           ToSndFrameInv(m, f)',
           \A g \in Frames : ToSndFrameInv(m, g) => ToSndOrder(m, g, f)
    PROVE  ToSndInv(m)'
<1>1. /\ toSnd \in Seq(Frames)
      /\ toSnd' \in Seq(Frames)
      /\ Len(toSnd') \in {Len(toSnd), Len(toSnd) + 1}
      /\ \A p \in 1 .. Len(toSnd) : toSnd'[p] = toSnd[p]
      /\ \A p \in 1 .. Len(toSnd') : p > Len(toSnd) => toSnd'[p] = f
  BY AfterSendCases DEF TypeOK
<1>2. \A p \in 1 .. Len(toSnd) : toSnd[p] \in Frames /\ ToSndFrameInv(m, toSnd[p])
  BY <1>1 DEF ToSndInv
<1>3. ASSUME NEW p \in 1 .. Len(toSnd')
      PROVE  ToSndFrameInv(m, toSnd[p])'
  <2>1. CASE p <= Len(toSnd)
    BY <1>1, <1>2, <2>1 DEF ToSndFrameInv
  <2>2. CASE p > Len(toSnd)
    BY <1>1, <2>2 DEF ToSndFrameInv
  <2> QED
    BY <1>1, <2>1, <2>2
<1>4. ASSUME NEW q \in 1 .. Len(toSnd'), NEW p \in 1 .. q - 1
      PROVE  ToSndOrder(m, toSnd'[p], toSnd'[q])
  <2>1. p \in 1 .. Len(toSnd)
    BY <1>1
  <2>2. CASE q <= Len(toSnd)
    BY <1>1, <2>1, <2>2 DEF ToSndInv
  <2>3. CASE q > Len(toSnd)
    BY <1>1, <1>2, <2>1, <2>3
  <2> QED
    BY <1>1, <2>2, <2>3
<1> QED
  BY <1>3, <1>4 DEF ToSndInv, ToSndOrder, IsOld, Confirms, Reach

LEMMA ToSndAfterTail ==
    ASSUME NEW m \in Messages, TypeOK(m), ToSndInv(m), toSnd # << >>, toSnd' = Tail(toSnd),
           \A g \in Frames :
               ToSndFrameInv(m, g) /\ ToSndOrder(m, Head(toSnd), g)
                   => ToSndFrameInv(m, g)'
    PROVE  ToSndInv(m)'
<1>1. /\ Head(toSnd) = toSnd[1] /\ Len(toSnd) >= 1 /\ toSnd \in Seq(Frames)
      /\ toSnd' \in Seq(Frames) /\ Len(toSnd') = Len(toSnd) - 1
      /\ \A p \in 1 .. Len(toSnd') : toSnd'[p] = toSnd[p + 1]
  BY TailCases DEF TypeOK
<1>2. ASSUME NEW p \in 1 .. Len(toSnd')
      PROVE  ToSndFrameInv(m, toSnd[p])'
  <2>1. p + 1 \in 1 .. Len(toSnd) /\ 1 \in 1 .. (p + 1) - 1
    BY <1>1
  <2>2. toSnd[p + 1] \in Frames
    BY <1>1, <2>1
  <2>3. ToSndFrameInv(m, toSnd[p + 1]) /\ ToSndOrder(m, toSnd[1], toSnd[p + 1])
    BY <2>1 DEF ToSndInv
  <2> QED
    BY <1>1, <2>2, <2>3 DEF ToSndFrameInv
<1>3. ASSUME NEW q \in 1 .. Len(toSnd'), NEW p \in 1 .. q - 1
      PROVE  ToSndOrder(m, toSnd'[p], toSnd'[q])
  <2>1. /\ q + 1 \in 1 .. Len(toSnd) /\ p + 1 \in 1 .. (q + 1) - 1
        /\ p \in 1 .. Len(toSnd')
    BY <1>1
  <2>2. ToSndOrder(m, toSnd[p + 1], toSnd[q + 1])
    BY <2>1 DEF ToSndInv
  <2> QED
    BY <1>1, <2>1, <2>2
<1> QED
  BY <1>2, <1>3 DEF ToSndInv, ToSndOrder, IsOld, Confirms, Reach

-----------------------------------------------------------------------------
(* The windows. *)

(* Confirming through chunk c moves the base of the sender just past it and *)
(* frees the slots up to it.                                                *)
LEMMA ConfirmMovesBase ==
    ASSUME NEW m \in Messages, TypeOK(m), WindowsInv(m), NEW c \in Int,
           sndBase - 1 <= c, c < sndNext, ConfirmThrough(c)
    PROVE  /\ sndBase' = c + 1
           /\ inUse' = c + 1 .. sndNext - 1
           /\ acked' = {}
<1> DEFINE marked == acked \cup {d \in inUse : d <= c}
<1>1. sndBase \in Nat /\ sndNext \in Nat /\ sndBase <= sndNext
  BY Constants DEF TypeOK, WindowsInv
<1>2. marked = sndBase .. c
  BY <1>1 DEF WindowsInv
<1>3. PICK b \in sndBase .. sndNext :
          /\ sndBase .. b - 1 \subseteq marked
          /\ b < sndNext => b \notin marked
          /\ sndBase' = b
          /\ inUse' = inUse \ (sndBase .. b - 1)
          /\ acked' = marked \ (sndBase .. b - 1)
  BY DEF ConfirmThrough, IsSlideEnd
<1> HIDE DEF marked
<1>4. b \in Int
  BY <1>1
<1>5. b <= c + 1
  <2> SUFFICES ASSUME b > c + 1 PROVE FALSE
    BY <1>4
  <2>1. c + 1 \in sndBase .. b - 1 /\ c + 1 \notin sndBase .. c
    BY <1>1, <1>4
  <2> QED
    BY <1>2, <1>3, <2>1
<1>6. b >= c + 1
  BY <1>1, <1>2, <1>3, <1>4
<1>7. b = c + 1
  BY <1>4, <1>5, <1>6
<1>8. inUse' = c + 1 .. sndNext - 1
  BY <1>1, <1>3, <1>7 DEF WindowsInv
<1>9. acked' = {}
  BY <1>1, <1>2, <1>3, <1>7
<1> QED
  BY <1>3, <1>7, <1>8, <1>9

(* A control frame that the sender may still read selects the slot of the  *)
(* chunk it is about, or none.                                             *)
LEMMA PendingIsChunk ==
    ASSUME NEW m \in Messages, TypeOK(m), WindowsInv(m), Started,
           NEW f \in Frames, ToSndFrameInv(m, f), NEW c \in PendingWith(m, f.seq)
    PROVE  c = f.chunk /\ c \in sndBase .. sndNext - 1
<1>1. /\ sndBase \in Nat /\ sndNext \in Nat /\ rcvBase \in Nat
      /\ f.chunk \in Int
  BY Constants DEF TypeOK, Frames
<1>2. c \in sndBase .. sndNext - 1 /\ SeqOf(m, c) = SeqOf(m, f.chunk)
  BY DEF PendingWith, Pending, WindowsInv, ToSndFrameInv
<1>3. f.chunk <= rcvBase /\ f.chunk >= -1 /\ sndBase <= Reach(m, f)
  BY <1>1 DEF ToSndFrameInv, Confirms
<1>4. m.window \in Nat \ {0} /\ 2 * m.window <= SeqSpace /\ SeqSpace \in Nat
  BY Constants
<1>5. sndNext <= sndBase + m.window /\ rcvBase <= sndNext
  BY DEF WindowsInv
<1>6. c \in Int /\ c - f.chunk < SeqSpace /\ f.chunk - c < SeqSpace
  BY <1>1, <1>2, <1>3, <1>4, <1>5 DEF Reach
<1> QED
  BY <1>1, <1>2, <1>6, SeqUnique

(* What the receiver makes of a DATA frame it may still read. *)
LEMMA DataStatus ==
    ASSUME NEW m \in Messages, TypeOK(m), WindowsInv(m), RingInv(m), Opened,
           NEW f \in Frames, ToRcvFrameInv(m, f), f.type = "DATA"
    PROVE  /\ f.chunk \in Chunks(m) /\ f = DataFrame(m, f.chunk)
           /\ f.chunk < sndNext /\ rcvBase <= f.chunk + m.window
           /\ f.chunk >= rcvBase =>
                /\ ChunkOf(m, f.seq) = f.chunk
                /\ ~RecentlyDelivered(m, f.seq)
                /\ AcceptStatus(m, f) =
                      IF ring[f.chunk % m.window].received
                      THEN "DUPLICATE" ELSE "ACCEPTED"
           /\ f.chunk < rcvBase =>
                /\ AcceptStatus(m, f) = "DUPLICATE"
                /\ RecentlyDelivered(m, f.seq)
<1>1. /\ f.chunk \in Chunks(m) /\ f = DataFrame(m, f.chunk)
      /\ f.chunk < sndNext /\ rcvBase <= f.chunk + m.window
  BY DEF ToRcvFrameInv, StartFrame, ErrorFrame
<1>2. /\ sndBase \in Nat /\ sndNext \in Nat /\ rcvBase \in Nat
      /\ f.chunk \in Int /\ f.chunk >= 0 /\ f.chunk < m.chunks
      /\ f.seq = SeqOf(m, f.chunk) /\ f.len = ChunkLen(m, f.chunk)
  BY <1>1, Constants DEF TypeOK, Chunks, DataFrame
<1>3. f.chunk < rcvBase + m.window
  <2>1. m.window \in Nat
    BY Constants
  <2>2. sndBase <= rcvBase /\ sndNext <= sndBase + m.window
    BY DEF WindowsInv
  <2> QED
    BY <1>1, <1>2, <2>1, <2>2
<1>4. ASSUME NEW c \in WindowIndex(m, f.seq)
      PROVE  c = f.chunk
  <2>1. c \in Int /\ c >= rcvBase /\ c < rcvBase + m.window /\ SeqOf(m, c) = f.seq
    BY <1>2, Constants DEF WindowIndex
  <2> QED
    BY <1>1, <1>2, <1>3, <2>1, SeqUnique, Constants
<1>5. CASE f.chunk >= rcvBase
  <2>1. f.chunk \in WindowIndex(m, f.seq)
    BY <1>2, <1>3, <1>5, Constants DEF WindowIndex
  <2>2. WindowIndex(m, f.seq) = {f.chunk}
    BY <1>4, <2>1
  <2>3. ChunkOf(m, f.seq) = f.chunk
    <3>1. \E c \in WindowIndex(m, f.seq) : \A d \in WindowIndex(m, f.seq) : c <= d
      BY <2>2, <1>2
    <3>2. ChunkOf(m, f.seq) \in WindowIndex(m, f.seq)
      BY <3>1 DEF ChunkOf
    <3> QED
      BY <2>2, <3>2
  <2>4. f.chunk % m.window \in 0 .. m.window - 1
    BY SlotType, <1>2
  <2>5. ring[f.chunk % m.window].received => ring[f.chunk % m.window].chunk = f.chunk
    <3> DEFINE k == f.chunk % m.window
    <3> SUFFICES ASSUME ring[k].received PROVE ring[k].chunk = f.chunk
      OBVIOUS
    <3>1. ring[k].chunk \in rcvBase .. rcvBase + m.window - 1 /\ ring[k].chunk % m.window = k
      BY <2>4 DEF RingInv
    <3> DEFINE d == ring[k].chunk
    <3>2. /\ d \in Int /\ (d % m.window) = (f.chunk % m.window)
          /\ d - f.chunk < m.window /\ f.chunk - d < m.window
      BY <3>1, <1>2, <1>3, <1>5, Constants
    <3> HIDE DEF d
    <3>3. d = f.chunk
      BY <3>2, <1>2, SlotUnique
    <3> QED
      BY <3>3 DEF d
  <2>6. AcceptStatus(m, f) = IF ring[f.chunk % m.window].received
                          THEN "DUPLICATE" ELSE "ACCEPTED"
    BY <1>2, <2>2, <2>3, <2>5 DEF AcceptStatus
  <2>7. ~RecentlyDelivered(m, f.seq)
    <3> SUFFICES ASSUME NEW d \in rcvBase - m.window .. rcvBase - 1,
                        SeqOf(m, d) = f.seq
                 PROVE  FALSE
      BY DEF RecentlyDelivered
    <3>1. d \in Int /\ d < rcvBase /\ d >= rcvBase - m.window
      BY <1>2, Constants
    <3>2. d - f.chunk < SeqSpace /\ f.chunk - d < SeqSpace
      BY <1>2, <1>3, <1>5, <3>1, Constants
    <3>3. d = f.chunk
      BY <1>2, <3>1, <3>2, SeqUnique
    <3> QED
      BY <1>2, <1>5, <3>1, <3>3
  <2> QED
    BY <1>1, <1>2, <1>5, <2>3, <2>6, <2>7
<1>6. CASE f.chunk < rcvBase
  <2>1. WindowIndex(m, f.seq) = {}
    <3> SUFFICES ASSUME NEW c \in WindowIndex(m, f.seq) PROVE FALSE
      OBVIOUS
    <3>1. c = f.chunk /\ c >= rcvBase
      BY <1>4, <1>2, Constants DEF WindowIndex
    <3> QED
      BY <1>2, <1>6, <3>1
  <2>2. RecentlyDelivered(m, f.seq)
    BY <1>1, <1>2, <1>6, Constants DEF RecentlyDelivered
  <2>3. AcceptStatus(m, f) = "DUPLICATE"
    BY <2>1, <2>2 DEF AcceptStatus
  <2> QED
    BY <1>1, <1>2, <1>6, <2>2, <2>3
<1> QED
  BY <1>2, <1>5, <1>6

-----------------------------------------------------------------------------
(* The steps of the sender preserve the invariant. *)

(* The frames already in flight are untouched by a step of the sender that *)
(* keeps its base.                                                         *)
LEMMA SenderKeepsFrames ==
    ASSUME NEW m \in Messages, IInv(m), rcvVars' = rcvVars, sndNext' \in Nat, sndNext' >= sndNext,
           sndPhase = "aborted" => sndPhase' = "aborted"
    PROVE  /\ \A g \in Frames : ToRcvFrameInv(m, g) => ToRcvFrameInv(m, g)'
           /\ sndBase' = sndBase /\ (Started' => Started) =>
                  \A g \in Frames : ToSndFrameInv(m, g) => ToSndFrameInv(m, g)'
<1>1. /\ rcvBase' = rcvBase /\ outcome' = outcome /\ ring' = ring
      /\ rcvPhase' = rcvPhase /\ recent' = recent
      /\ sndNext \in Nat
  BY Constants DEF rcvVars, IInv, TypeOK
<1>2. ASSUME NEW g \in Frames, ToRcvFrameInv(m, g)
      PROVE  ToRcvFrameInv(m, g)'
  BY <1>1, <1>2 DEF ToRcvFrameInv, Chunks, OldFrame, Opened
<1>3. ASSUME NEW g \in Frames, ToSndFrameInv(m, g), sndBase' = sndBase,
             Started' => Started
      PROVE  ToSndFrameInv(m, g)'
  BY <1>1, <1>3 DEF ToSndFrameInv, OldFrame, Opened
<1> QED
  BY <1>2, <1>3

LEMMA SendStartStep ==
    ASSUME NEW m \in Messages, IInv(m), SendStart(m)
    PROVE  IInv(m)'
<1> USE DEF IInv
<1>1. /\ sndPhase = "sendStart" /\ sndPhase' = "waitStart"
      /\ toRcv' \in AfterSend(toRcv, StartFrame(m))
      /\ UNCHANGED <<sndBase, sndNext, inUse, acked, resend, toSnd>>
      /\ UNCHANGED <<rcvPhase, outcome, rcvBase, ring, since, recent, written>>
  BY DEF SendStart, rcvVars
<1>2. /\ ~Started /\ ~Started' /\ sndNext = 0 /\ sndBase = 0 /\ rcvBase = 0
      /\ outcome = "none"
  BY <1>1, Constants DEF PhaseInv, WindowsInv, TypeOK, Started
<1>3. TypeOK(m)'
  BY <1>1, FrameTypes, AfterSendCases DEF TypeOK
<1>4. WindowsInv(m)' /\ PhaseInv(m)' /\ RingInv(m)' /\ WrittenInv'
  BY <1>1, <1>2, Constants DEF WindowsInv, PhaseInv, RingInv, WrittenInv, Opened
<1>5. \A g \in Frames : ToRcvFrameInv(m, g) => ToRcvFrameInv(m, g)'
  BY <1>1, <1>2, SenderKeepsFrames DEF rcvVars
<1>6. ToRcvFrameInv(m, StartFrame(m))'
  BY <1>1, <1>2 DEF ToRcvFrameInv, StartFrame
<1>7. \A g \in Frames : ToRcvFrameInv(m, g) => ToRcvOrder(m, g, StartFrame(m))
  BY <1>1, <1>2 DEF ToRcvFrameInv, ToRcvOrder, StartFrame, Chunks, IsOld, OldFrame
<1>8. ToRcvInv(m)'
  BY <1>1, <1>5, <1>6, <1>7, FrameTypes, ToRcvAfterSend
<1>9. ToSndInv(m)'
  BY <1>1, <1>2 DEF ToSndInv, ToSndFrameInv, OldFrame, Opened
<1> QED
  BY <1>3, <1>4, <1>8, <1>9

LEMMA StartTimeoutStep ==
    ASSUME NEW m \in Messages, IInv(m), StartTimeout
    PROVE  IInv(m)'
<1> USE DEF IInv
<1>1. /\ sndPhase = "waitStart" /\ sndPhase' = "sendStart"
      /\ UNCHANGED <<sndBase, sndNext, inUse, acked, resend, toSnd, toRcv>>
      /\ UNCHANGED <<rcvPhase, outcome, rcvBase, ring, since, recent, written>>
  BY DEF StartTimeout, rcvVars
<1>2. TypeOK(m)'
  BY <1>1 DEF TypeOK
<1>3. ~Started /\ ~Started' /\ sndNext = 0 /\ sndBase = 0
  BY <1>1, Constants DEF PhaseInv, WindowsInv, TypeOK, Started
<1>4. WindowsInv(m)' /\ PhaseInv(m)' /\ RingInv(m)' /\ WrittenInv'
  BY <1>1, <1>3, Constants DEF WindowsInv, PhaseInv, RingInv, WrittenInv, Opened
<1>5. ToRcvInv(m)'
  BY <1>1 DEF ToRcvInv, ToRcvFrameInv, OldFrame, Opened
<1>6. ToSndInv(m)'
  BY <1>1, <1>3 DEF ToSndInv, ToSndFrameInv, OldFrame, Opened
<1> QED
  BY <1>2, <1>4, <1>5, <1>6

(* Old frames are not numbered like the start frame, and of those of this   *)
(* message only its answer is while nothing has been queued.                *)
LEMMA StartAnswer ==
    ASSUME NEW m \in Messages, TypeOK(m), WindowsInv(m), sndNext = 0,
           NEW f \in Frames, ToSndFrameInv(m, f), f.seq = m.first
    PROVE  Opened /\ f.chunk = -1
<1>1. SeqOf(m, -1) = m.first
  BY Constants DEF SeqOf, SequenceForIndex, SeqNumbers
<1>2. SeqSpace \in Nat /\ SeqSpace >= 2
  BY Constants
<1>3. f.chunk \in Int /\ rcvBase \in Int /\ rcvBase <= 0
  BY Constants DEF TypeOK, WindowsInv, Frames
<1>4. ASSUME OldFrame(m, f) PROVE FALSE
  <2>1. f.chunk >= -SeqSpace /\ f.chunk <= -2 /\ SeqOf(m, f.chunk) = SeqOf(m, -1)
    BY <1>1, <1>2, <1>4 DEF OldFrame
  <2>2. f.chunk - (-1) < SeqSpace /\ (-1) - f.chunk < SeqSpace
    BY <1>2, <1>3, <2>1
  <2>3. f.chunk = -1
    BY <1>3, <2>1, <2>2, SeqUnique
  <2> QED
    BY <1>3, <2>1, <2>3
<1>5. /\ Opened /\ f.chunk >= -1 /\ f.chunk <= 0
      /\ SeqOf(m, f.chunk) = SeqOf(m, -1)
  BY <1>1, <1>3, <1>4 DEF ToSndFrameInv, Confirms
<1>6. f.chunk - (-1) < SeqSpace /\ (-1) - f.chunk < SeqSpace
  BY <1>2, <1>3, <1>5
<1>7. f.chunk = -1
  BY <1>3, <1>5, <1>6, SeqUnique
<1> QED
  BY <1>5, <1>7

(* The frame about to be read satisfies the invariant of its link. *)
LEMMA HeadOfToSnd ==
    ASSUME NEW m \in Messages, IInv(m), toSnd # << >>
    PROVE  Head(toSnd) \in Frames /\ ToSndFrameInv(m, Head(toSnd))
<1>1. toSnd \in Seq(Frames) /\ Head(toSnd) = toSnd[1] /\ Len(toSnd) >= 1
      /\ Head(toSnd) \in Frames
  BY TailCases DEF IInv, TypeOK
<1> QED
  BY <1>1 DEF IInv, ToSndInv

LEMMA ReceiveStartControlStep ==
    ASSUME NEW m \in Messages, IInv(m), ReceiveStartControl(m)
    PROVE  IInv(m)'
<1> USE DEF IInv
<1> DEFINE f == Head(toSnd)
<1>1. /\ sndPhase = "waitStart" /\ sndPhase' \in {"data", "sendStart", "waitStart"}
      /\ sndPhase' = "data" => f.seq = m.first
      /\ toSnd # << >> /\ toSnd' = Tail(toSnd)
      /\ UNCHANGED <<sndBase, sndNext, inUse, acked, resend, toRcv>>
      /\ UNCHANGED <<rcvPhase, outcome, rcvBase, ring, since, recent, written>>
  BY DEF ReceiveStartControl, rcvVars
<1>2. TypeOK(m)'
  BY <1>1, TailCases DEF TypeOK
<1>3. ~Started /\ sndNext = 0 /\ sndBase = 0 /\ rcvBase = 0
  BY <1>1, Constants DEF PhaseInv, WindowsInv, TypeOK, Started
<1>4. f \in Frames /\ ToSndFrameInv(m, f)
  BY <1>1, HeadOfToSnd
<1> HIDE DEF f
<1>5. sndPhase' = "data" => Opened /\ f.chunk = -1
  BY <1>1, <1>3, <1>4, StartAnswer
<1>6. WindowsInv(m)' /\ PhaseInv(m)' /\ RingInv(m)' /\ WrittenInv'
  BY <1>1, <1>3, <1>5, Constants
     DEF WindowsInv, PhaseInv, RingInv, WrittenInv, Opened, Started
<1>7. ToRcvInv(m)'
  BY <1>1 DEF ToRcvInv, ToRcvFrameInv, OldFrame, Opened
<1>8. ASSUME NEW g \in Frames, ToSndFrameInv(m, g), ToSndOrder(m, f, g)
      PROVE  ToSndFrameInv(m, g)'
  <2>1. CASE sndPhase' = "data"
    <3>1. ~OldFrame(m, g)
      BY <1>5, <1>8, <2>1, Constants DEF ToSndOrder, IsOld, OldFrame
    <3> QED
      BY <1>1, <1>8, <3>1 DEF ToSndFrameInv, Opened
  <2>2. CASE sndPhase' # "data"
    BY <1>1, <1>3, <1>8, <2>2 DEF ToSndFrameInv, OldFrame, Opened, Started
  <2> QED
    BY <2>1, <2>2
<1>9. ToSndInv(m)'
  BY <1>1, <1>8, ToSndAfterTail DEF f
<1> QED
  BY <1>2, <1>6, <1>7, <1>9

(* A window never holds more chunks than there are slots. *)
LEMMA SlotIsFree ==
    ASSUME NEW m \in Messages, TypeOK(m), WindowsInv(m), CanQueue(m)
    PROVE  Cardinality(inUse) < MaxWindow
<1>1. sndBase \in Int /\ sndNext \in Int /\ sndBase <= sndNext
  BY Constants DEF TypeOK, WindowsInv
<1>2. Cardinality(sndBase .. sndNext - 1) = sndNext - sndBase
  <2> DEFINE last == sndNext - 1
  <2>1. last \in Int
    BY <1>1
  <2>2. Cardinality(sndBase .. last) =
            IF sndBase > last THEN 0 ELSE last - sndBase + 1
    <3> HIDE DEF last
    <3> QED
      BY <1>1, <2>1, FS_Interval, Zenon
  <2> QED
    BY <1>1, <2>2
<1>3. inUse = sndBase .. sndNext - 1 /\ sndNext - sndBase < m.window
  BY DEF WindowsInv, CanQueue
<1> QED
  BY <1>1, <1>2, <1>3, Constants

LEMMA QueueChunkStep ==
    ASSUME NEW m \in Messages, IInv(m), QueueChunk(m)
    PROVE  IInv(m)'
<1> USE DEF IInv
<1>1. /\ sndPhase = "data" /\ resend = {} /\ CanQueue(m)
      /\ inUse' = inUse \cup {sndNext} /\ acked' = acked \ {sndNext}
      /\ sndNext' = sndNext + 1
      /\ toRcv' \in AfterSend(toRcv, DataFrame(m, sndNext))
      /\ UNCHANGED <<sndPhase, sndBase, resend, toSnd>>
      /\ UNCHANGED <<rcvPhase, outcome, rcvBase, ring, since, recent, written>>
  BY SlotIsFree DEF QueueChunk, rcvVars
<1>2. /\ sndNext \in Chunks(m) /\ sndNext + 1 <= m.chunks
      /\ sndBase \in Nat /\ sndNext \in Nat /\ rcvBase \in Nat
      /\ sndBase < m.chunks
      /\ sndNext + 1 <= sndBase + m.window /\ sndBase <= rcvBase
      /\ rcvBase <= sndNext /\ m.window \in Nat \ {0} /\ m.chunks \in Nat
      /\ Started /\ Started' /\ Opened
  <2>1. m.window \in Nat \ {0} /\ m.chunks \in Nat
    BY Constants
  <2>2. /\ sndBase \in Nat /\ sndNext \in Nat /\ rcvBase \in Nat
        /\ sndBase <= rcvBase /\ rcvBase <= sndNext
    BY <2>1 DEF TypeOK, WindowsInv
  <2>3. Started /\ Started' /\ Opened
    BY <1>1 DEF Started, PhaseInv
  <2> QED
    BY <1>1, <2>1, <2>2, <2>3 DEF CanQueue, Chunks
<1>3. TypeOK(m)'
  <2>1. toRcv' \in Seq(Frames)
    BY <1>1, <1>2, FrameTypes, AfterSendCases DEF TypeOK
  <2>2. /\ sndNext' \in 0 .. m.chunks
        /\ inUse' \in SUBSET Chunks(m) /\ acked' \in SUBSET Chunks(m)
    BY <1>1, <1>2, Constants DEF TypeOK
  <2> QED
    BY <1>1, <2>1, <2>2 DEF TypeOK
<1>4. WindowsInv(m)' /\ PhaseInv(m)'
  <2>1. inUse' = sndBase' .. sndNext' - 1
    BY <1>1, <1>2 DEF WindowsInv
  <2>2. WindowsInv(m)'
    BY <1>1, <1>2, <2>1 DEF WindowsInv
  <2>3. PhaseInv(m)'
    BY <1>1, <1>2 DEF PhaseInv, Opened
  <2> QED
    BY <2>2, <2>3
<1>12. \A k \in 0 .. m.window - 1 : ring[k].received => ring[k].chunk \in Int
  BY <1>2 DEF RingInv
<1>5. RingInv(m)' /\ WrittenInv'
  <2>1. rcvBase' = rcvBase /\ ring' = ring /\ written' = written /\ sndNext < sndNext'
    BY <1>1, <1>2
  <2>2. WrittenInv'
    BY <1>2, <2>1 DEF WrittenInv
  <2>3. ASSUME NEW k \in 0 .. m.window - 1, ring[k].received
        PROVE  ring[k].chunk < sndNext'
    <3>1. ring[k].chunk < sndNext /\ ring[k].chunk \in Int
      BY <1>12, <2>3, Zenon DEF RingInv
    <3> QED
      BY <1>1, <1>2, <3>1
  <2>4. RingInv(m)'
    BY <1>2, <2>1, <2>3, Zenon DEF RingInv
  <2> QED
    BY <2>2, <2>4
<1>6. \A g \in Frames : ToRcvFrameInv(m, g) => ToRcvFrameInv(m, g)'
  BY <1>1, <1>2, SenderKeepsFrames DEF rcvVars
<1>7. PICK c \in Chunks(m) : c = sndNext
  BY <1>2
<1>8. ToRcvFrameInv(m, DataFrame(m, c))'
  <2>1. \A k \in 0 .. m.window - 1 : ring[k].received =>
            ring[k].chunk + 1 <= c + m.window
    BY <1>2, <1>7, <1>12 DEF RingInv
  <2>2. rcvBase <= c + m.window
    BY <1>2, <1>7
  <2>3. outcome # "error"
    BY <1>1 DEF PhaseInv
  <2> QED
    BY <1>1, <1>2, <1>7, <2>1, <2>2, <2>3 DEF ToRcvFrameInv, DataFrame
<1>9. ASSUME NEW g \in Frames, ToRcvFrameInv(m, g)
      PROVE  ToRcvOrder(m, g, DataFrame(m, c))
  <2>1. /\ DataFrame(m, c).type = "DATA" /\ DataFrame(m, c).chunk = c
        /\ c \in Nat /\ m.window \in Nat \ {0}
    BY <1>2, <1>7, Constants DEF DataFrame
  <2>2. g.type # "ERROR"
    BY <1>1, <1>2, <1>9 DEF ToRcvFrameInv, StartFrame, DataFrame, ErrorFrame
  <2>3. ASSUME g.type = "DATA" PROVE g.chunk + 1 <= c + m.window
    <3>1. g.chunk \in Int /\ g.chunk < sndNext
      BY <1>2, <1>9, <2>3, Constants DEF ToRcvFrameInv, StartFrame, ErrorFrame, Chunks
    <3> QED
      BY <1>2, <1>7, <2>1, <3>1
  <2> QED
    BY <2>1, <2>2, <2>3 DEF ToRcvOrder, IsOld
<1>10. ToRcvInv(m)'
  BY <1>1, <1>6, <1>7, <1>8, <1>9, FrameTypes, ToRcvAfterSend
<1>11. ToSndInv(m)'
  BY <1>1, <1>2 DEF ToSndInv, ToSndFrameInv, Opened, OldFrame
<1> QED
  BY <1>3, <1>4, <1>5, <1>10, <1>11

LEMMA ReadErrorStep ==
    ASSUME NEW m \in Messages, IInv(m), ReadError(m)
    PROVE  IInv(m)'
<1> USE DEF IInv
<1>1. /\ sndPhase = "data" /\ CanQueue(m) /\ sndPhase' = "aborted"
      /\ toRcv' \in AfterSend(toRcv, ErrorFrame(m))
      /\ UNCHANGED <<sndBase, sndNext, inUse, acked, resend, toSnd>>
      /\ UNCHANGED <<rcvPhase, outcome, rcvBase, ring, since, recent, written>>
  BY DEF ReadError, rcvVars
<1>2. TypeOK(m)'
  BY <1>1, FrameTypes, AfterSendCases DEF TypeOK
<1>3. /\ sndBase # m.chunks /\ sndNext \in Nat
      /\ Started /\ Started' /\ Opened
  <2>1. sndBase \in Nat /\ sndNext \in Nat /\ m.chunks \in Nat /\ sndBase <= sndNext
    BY Constants DEF WindowsInv, TypeOK
  <2> QED
    BY <1>1, <2>1 DEF CanQueue, PhaseInv, Started
<1>4. WindowsInv(m)' /\ PhaseInv(m)' /\ RingInv(m)' /\ WrittenInv'
  BY <1>1, <1>3 DEF WindowsInv, PhaseInv, RingInv, WrittenInv, Opened
<1>5. \A g \in Frames : ToRcvFrameInv(m, g) => ToRcvFrameInv(m, g)'
  BY <1>1, <1>3, SenderKeepsFrames DEF rcvVars
<1>6. ToRcvFrameInv(m, ErrorFrame(m))'
  BY <1>1 DEF ToRcvFrameInv, ErrorFrame
<1>7. \A g \in Frames : ToRcvFrameInv(m, g) => ToRcvOrder(m, g, ErrorFrame(m))
  BY <1>1, <1>3
     DEF ToRcvFrameInv, ToRcvOrder, IsOld, StartFrame, DataFrame, ErrorFrame
<1>8. ToRcvInv(m)'
  BY <1>1, <1>5, <1>6, <1>7, FrameTypes, ToRcvAfterSend
<1>9. ToSndInv(m)'
  BY <1>1, <1>3 DEF ToSndInv, ToSndFrameInv, Opened, OldFrame
<1> QED
  BY <1>2, <1>4, <1>8, <1>9

LEMMA ReceiveAckStep ==
    ASSUME NEW m \in Messages, IInv(m), ReceiveAck(m)
    PROVE  IInv(m)'
<1> USE DEF IInv
<1> DEFINE f == Head(toSnd)
<1>1. /\ sndPhase = "data" /\ toSnd # << >> /\ f.type = "ACK"
      /\ sndPhase' = IF sndBase' = m.chunks /\ sndNext = m.chunks
                     THEN "complete" ELSE "data"
      /\ resend = {}
      /\ toSnd' = Tail(toSnd)
      /\ UNCHANGED <<sndNext, resend, toRcv>>
      /\ UNCHANGED <<rcvPhase, outcome, rcvBase, ring, since, recent, written>>
  BY DEF ReceiveAck, SenderComplete, Waiting, rcvVars
<1>2. PICK c \in PendingWith(m, f.seq) : ConfirmThrough(c)
  BY DEF ReceiveAck, SenderComplete
<1>3. /\ f \in Frames /\ ToSndFrameInv(m, f)
      /\ Started /\ Started' /\ Opened /\ Opened'
  BY <1>1, HeadOfToSnd DEF PhaseInv, Started, Opened
<1> HIDE DEF f
<1>4. c = f.chunk /\ c \in sndBase .. sndNext - 1
  BY <1>2, <1>3, PendingIsChunk
<1>5. /\ sndBase \in Nat /\ sndNext \in Nat /\ rcvBase \in Nat /\ c \in Nat
      /\ sndNext <= m.chunks /\ m.window \in Nat \ {0} /\ m.chunks \in Nat
  BY <1>4, Constants DEF TypeOK
<1>6. sndBase' = c + 1 /\ inUse' = c + 1 .. sndNext - 1 /\ acked' = {}
  BY <1>2, <1>4, <1>5, ConfirmMovesBase
<1>7. Confirms(f) = c + 1 /\ c + 1 <= rcvBase
  BY <1>1, <1>3, <1>4 DEF ToSndFrameInv, OldFrame, Confirms, f
<1>8. TypeOK(m)'
  <2>1. toSnd' \in Seq(Frames)
    BY <1>1, TailCases DEF TypeOK
  <2>2. inUse' \in SUBSET Chunks(m) /\ acked' \in SUBSET Chunks(m)
    BY <1>5, <1>6 DEF Chunks
  <2>3. sndBase' \in 0 .. m.chunks
    BY <1>4, <1>5, <1>6
  <2> QED
    BY <1>1, <1>6, <2>1, <2>2, <2>3 DEF TypeOK
<1>9. WindowsInv(m)' /\ PhaseInv(m)'
  <2>1. WindowsInv(m)'
    <3>1. inUse' = sndBase' .. sndNext' - 1 /\ acked' = {} /\ resend' = {}
      BY <1>1, <1>6
    <3>2. /\ rcvBase <= sndNext /\ sndNext <= sndBase + m.window
          /\ rcvBase' = rcvBase /\ sndNext' = sndNext /\ c >= sndBase
      BY <1>1, <1>4, <1>5 DEF WindowsInv
    <3>3. /\ sndBase' <= rcvBase' /\ rcvBase' <= sndNext'
          /\ sndNext' <= sndBase' + m.window
      BY <1>5, <1>6, <1>7, <3>2
    <3> QED
      BY <3>1, <3>3 DEF WindowsInv
  <2>2. (sndPhase' = "complete") <=> (sndBase' = m.chunks)
    BY <1>1, <1>4, <1>5, <1>6
  <2>3. PhaseInv(m)'
    BY <1>1, <1>3, <2>2 DEF PhaseInv
  <2> QED
    BY <2>1, <2>3
<1>10. RingInv(m)' /\ WrittenInv'
  BY <1>1 DEF RingInv, WrittenInv
<1>11. ToRcvInv(m)'
  BY <1>1 DEF ToRcvInv, ToRcvFrameInv, OldFrame, Opened
<1>12. ASSUME NEW g \in Frames, ToSndFrameInv(m, g), ToSndOrder(m, f, g)
       PROVE  ToSndFrameInv(m, g)'
  <2>1. Confirms(f) <= Reach(m, g)
    BY <1>4, <1>5, <1>12 DEF ToSndOrder, IsOld
  <2> QED
    BY <1>1, <1>3, <1>6, <1>7, <1>12, <2>1 DEF ToSndFrameInv
<1>13. ToSndInv(m)'
  BY <1>1, <1>12, ToSndAfterTail DEF f
<1> QED
  BY <1>8, <1>9, <1>10, <1>11, <1>13

(* A pending chunk may be sent again whatever is in flight. *)
LEMMA PendingMayBeSent ==
    ASSUME NEW m \in Messages, IInv(m), sndPhase = "data",
           NEW c \in Chunks(m), sndBase <= c, c < sndNext
    PROVE  /\ ToRcvFrameInv(m, DataFrame(m, c))
           /\ \A g \in Frames : ToRcvFrameInv(m, g) => ToRcvOrder(m, g, DataFrame(m, c))
<1> USE DEF IInv
<1>1. /\ sndBase \in Nat /\ sndNext \in Nat /\ rcvBase \in Nat /\ c \in Nat
      /\ sndNext <= c + m.window /\ rcvBase <= c + m.window
      /\ m.window \in Nat \ {0} /\ outcome # "error"
  <2>1. sndBase \in Nat /\ sndNext \in Nat /\ rcvBase \in Nat /\ c \in Nat
    BY Constants DEF TypeOK, Chunks
  <2>2. sndNext <= sndBase + m.window /\ rcvBase <= sndNext
    BY DEF WindowsInv
  <2>3. m.window \in Nat \ {0} /\ outcome # "error"
    BY Constants DEF PhaseInv
  <2> QED
    BY <2>1, <2>2, <2>3
<1>2. ASSUME NEW k \in 0 .. m.window - 1, ring[k].received
      PROVE  ring[k].chunk + 1 <= c + m.window
  <2>1. ring[k].chunk \in Int /\ ring[k].chunk < sndNext
    BY <1>1, <1>2, Constants DEF RingInv
  <2> QED
    BY <1>1, <2>1, Constants
<1>3. ToRcvFrameInv(m, DataFrame(m, c))
  BY <1>1, <1>2 DEF ToRcvFrameInv, DataFrame
<1>4. ASSUME NEW g \in Frames, ToRcvFrameInv(m, g)
      PROVE  ToRcvOrder(m, g, DataFrame(m, c))
  <2>1. DataFrame(m, c).type = "DATA" /\ DataFrame(m, c).chunk = c
    BY DEF DataFrame
  <2>2. CASE IsOld(g)
    BY <2>2 DEF ToRcvOrder
  <2>3. CASE ~IsOld(g)
    <3>1. g.type # "ERROR"
      BY <1>1, <1>4, <2>3
         DEF ToRcvFrameInv, OldFrame, IsOld, StartFrame, DataFrame, ErrorFrame
    <3>2. ASSUME g.type = "DATA" PROVE g.chunk + 1 <= c + m.window
      <4>1. g.chunk \in Int /\ g.chunk < sndNext
        BY <1>1, <1>4, <2>3, <3>2, Constants
           DEF ToRcvFrameInv, OldFrame, IsOld, StartFrame, ErrorFrame, Chunks
      <4> QED
        BY <1>1, <4>1
    <3> QED
      BY <1>1, <2>1, <3>1, <3>2 DEF ToRcvOrder, IsOld
  <2> QED
    BY <2>2, <2>3
<1> QED
  BY <1>3, <1>4

LEMMA ReceiveNackStep ==
    ASSUME NEW m \in Messages, IInv(m), ReceiveNack(m)
    PROVE  IInv(m)'
<1> USE DEF IInv
<1> DEFINE f == Head(toSnd)
<1>1. /\ sndPhase = "data" /\ toSnd # << >> /\ f.type = "NACK"
      /\ resend = {}
      /\ toSnd' = Tail(toSnd)
      /\ UNCHANGED <<sndPhase, sndNext, resend>>
      /\ UNCHANGED <<rcvPhase, outcome, rcvBase, ring, since, recent, written>>
  BY DEF ReceiveNack, Waiting, rcvVars
<1>2. PICK c \in PendingWith(m, f.seq) :
          /\ IF c > 0 THEN ConfirmThrough(c - 1)
                      ELSE UNCHANGED <<sndBase, inUse, acked>>
          /\ toRcv' \in AfterSend(toRcv, DataFrame(m, c))
  BY DEF ReceiveNack
<1>3. /\ f \in Frames /\ ToSndFrameInv(m, f)
      /\ Started /\ Started' /\ Opened /\ Opened'
  BY <1>1, HeadOfToSnd DEF PhaseInv, Started, Opened
<1> HIDE DEF f
<1>4. c = f.chunk /\ c \in sndBase .. sndNext - 1
  BY <1>2, <1>3, PendingIsChunk
<1>5. /\ sndBase \in Nat /\ sndNext \in Nat /\ rcvBase \in Nat /\ c \in Nat
      /\ sndNext <= m.chunks /\ m.window \in Nat \ {0} /\ m.chunks \in Nat
      /\ c \in Chunks(m) /\ c < m.chunks
  <2>1. m.window \in Nat \ {0} /\ m.chunks \in Nat
    BY Constants
  <2>2. /\ sndBase \in Nat /\ sndNext \in Nat /\ rcvBase \in Nat
        /\ sndNext <= m.chunks
    BY <2>1 DEF TypeOK
  <2>3. c \in Nat /\ c < m.chunks
    BY <1>4, <2>1, <2>2
  <2> QED
    BY <2>1, <2>2, <2>3 DEF Chunks
<1>6. sndBase' = c /\ inUse' = c .. sndNext - 1 /\ acked' = {}
  <2>1. CASE c > 0
    <3>1. c - 1 \in Int /\ sndBase - 1 <= c - 1 /\ c - 1 < sndNext
      BY <1>4, <1>5
    <3>2. ConfirmThrough(c - 1)
      BY <1>2, <2>1
    <3>3. sndBase' = (c - 1) + 1 /\ inUse' = (c - 1) + 1 .. sndNext - 1 /\ acked' = {}
      BY <3>1, <3>2, ConfirmMovesBase
    <3> QED
      BY <1>5, <3>3
  <2>2. CASE c = 0
    BY <1>2, <1>4, <1>5, <2>2 DEF WindowsInv
  <2> QED
    BY <1>5, <2>1, <2>2
<1>7. Confirms(f) = c /\ c <= rcvBase
  BY <1>1, <1>3, <1>4 DEF ToSndFrameInv, OldFrame, Confirms, f
<1>8. TypeOK(m)'
  <2>1. toSnd' \in Seq(Frames)
    BY <1>1, TailCases DEF TypeOK
  <2>2. toRcv' \in Seq(Frames)
    BY <1>2, <1>5, AfterSendCases, FrameTypes DEF TypeOK
  <2>3. inUse' \in SUBSET Chunks(m) /\ acked' \in SUBSET Chunks(m)
    BY <1>5, <1>6 DEF Chunks
  <2>4. sndBase' \in 0 .. m.chunks
    BY <1>4, <1>5, <1>6
  <2> QED
    BY <1>1, <1>6, <2>1, <2>2, <2>3, <2>4 DEF TypeOK
<1>9. WindowsInv(m)' /\ PhaseInv(m)'
  <2>1. WindowsInv(m)'
    BY <1>1, <1>4, <1>5, <1>6, <1>7 DEF WindowsInv
  <2>2. sndBase' # m.chunks
    BY <1>4, <1>5, <1>6
  <2>3. PhaseInv(m)'
    BY <1>1, <1>3, <2>2 DEF PhaseInv
  <2> QED
    BY <2>1, <2>3
<1>10. RingInv(m)' /\ WrittenInv'
  BY <1>1 DEF RingInv, WrittenInv
<1>11. ToRcvInv(m)'
  <2>1. \A g \in Frames : ToRcvFrameInv(m, g) => ToRcvFrameInv(m, g)'
    BY <1>1, <1>5, SenderKeepsFrames DEF rcvVars
  <2>2. /\ ToRcvFrameInv(m, DataFrame(m, c))
        /\ \A g \in Frames : ToRcvFrameInv(m, g) => ToRcvOrder(m, g, DataFrame(m, c))
    BY <1>1, <1>4, <1>5, PendingMayBeSent
  <2>3. ToRcvFrameInv(m, DataFrame(m, c))'
    BY <2>1, <2>2, <1>4, <1>5, FrameTypes
  <2> QED
    BY <1>2, <1>5, <2>1, <2>2, <2>3, FrameTypes, ToRcvAfterSend
<1>12. ASSUME NEW g \in Frames, ToSndFrameInv(m, g), ToSndOrder(m, f, g)
       PROVE  ToSndFrameInv(m, g)'
  <2>1. Confirms(f) <= Reach(m, g)
    BY <1>4, <1>5, <1>12 DEF ToSndOrder, IsOld
  <2> QED
    BY <1>1, <1>3, <1>6, <1>7, <1>12, <2>1 DEF ToSndFrameInv
<1>13. ToSndInv(m)'
  BY <1>1, <1>12, ToSndAfterTail DEF f
<1> QED
  BY <1>8, <1>9, <1>10, <1>11, <1>13

LEMMA IgnoreControlStep ==
    ASSUME NEW m \in Messages, IInv(m), IgnoreControl(m)
    PROVE  IInv(m)'
<1> USE DEF IInv
<1>1. /\ toSnd # << >> /\ toSnd' = Tail(toSnd)
      /\ UNCHANGED <<sndPhase, sndBase, sndNext, inUse, acked, resend, toRcv>>
      /\ UNCHANGED <<rcvPhase, outcome, rcvBase, ring, since, recent, written>>
  BY DEF IgnoreControl, sndVars, rcvVars
<1>2. TypeOK(m)'
  BY <1>1, TailCases DEF TypeOK
<1>3. WindowsInv(m)' /\ PhaseInv(m)' /\ RingInv(m)' /\ WrittenInv'
  BY <1>1 DEF WindowsInv, PhaseInv, RingInv, WrittenInv, Started, Opened
<1>4. ToRcvInv(m)'
  BY <1>1 DEF ToRcvInv, ToRcvFrameInv, OldFrame, Opened
<1>5. \A g \in Frames : ToSndFrameInv(m, g) => ToSndFrameInv(m, g)'
  BY <1>1 DEF ToSndFrameInv, OldFrame, Opened, Started
<1>6. ToSndInv(m)'
  BY <1>1, <1>5, ToSndAfterTail
<1> QED
  BY <1>2, <1>3, <1>4, <1>6

LEMMA AckTimeoutStep ==
    ASSUME NEW m \in Messages, IInv(m), AckTimeout(m)
    PROVE  IInv(m)'
<1> USE DEF IInv
<1>1. /\ resend' = inUse \ acked
      /\ UNCHANGED <<sndPhase, sndBase, sndNext, inUse, acked, toRcv, toSnd>>
      /\ UNCHANGED <<rcvPhase, outcome, rcvBase, ring, since, recent, written>>
  BY DEF AckTimeout, Pending, rcvVars
<1>2. TypeOK(m)'
  BY <1>1 DEF TypeOK
<1>3. WindowsInv(m)' /\ PhaseInv(m)' /\ RingInv(m)' /\ WrittenInv'
  BY <1>1 DEF WindowsInv, PhaseInv, RingInv, WrittenInv, Started, Opened
<1>4. ToRcvInv(m)'
  BY <1>1 DEF ToRcvInv, ToRcvFrameInv, OldFrame, Opened
<1>5. ToSndInv(m)'
  BY <1>1 DEF ToSndInv, ToSndFrameInv, OldFrame, Opened, Started
<1> QED
  BY <1>2, <1>3, <1>4, <1>5

LEMMA RetransmitStep ==
    ASSUME NEW m \in Messages, IInv(m), Retransmit(m)
    PROVE  IInv(m)'
<1> USE DEF IInv
<1>1. /\ sndPhase = "data"
      /\ UNCHANGED <<sndPhase, sndBase, sndNext, inUse, acked, toSnd>>
      /\ UNCHANGED <<rcvPhase, outcome, rcvBase, ring, since, recent, written>>
  BY DEF Retransmit, rcvVars
<1>2. PICK c \in resend : /\ resend' = resend \ {c}
                          /\ toRcv' \in AfterSend(toRcv, DataFrame(m, c))
  BY DEF Retransmit
<1>3. /\ sndBase \in Nat /\ sndNext \in Nat /\ rcvBase \in Nat /\ c \in Chunks(m)
      /\ c \in sndBase .. sndNext - 1 /\ c \in Nat
  BY Constants DEF WindowsInv, TypeOK, Chunks
<1>4. TypeOK(m)'
  BY <1>1, <1>2, <1>3, AfterSendCases, FrameTypes DEF TypeOK
<1>5. WindowsInv(m)' /\ PhaseInv(m)' /\ RingInv(m)' /\ WrittenInv'
  BY <1>1, <1>2 DEF WindowsInv, PhaseInv, RingInv, WrittenInv, Started, Opened
<1>6. ToRcvInv(m)'
  <2>1. \A g \in Frames : ToRcvFrameInv(m, g) => ToRcvFrameInv(m, g)'
    BY <1>1, <1>3, SenderKeepsFrames DEF rcvVars
  <2>2. /\ ToRcvFrameInv(m, DataFrame(m, c))
        /\ \A g \in Frames : ToRcvFrameInv(m, g) => ToRcvOrder(m, g, DataFrame(m, c))
    BY <1>1, <1>3, PendingMayBeSent
  <2>3. ToRcvFrameInv(m, DataFrame(m, c))'
    BY <2>1, <2>2, <1>3, FrameTypes
  <2> QED
    BY <1>2, <1>3, <2>1, <2>2, <2>3, FrameTypes, ToRcvAfterSend
<1>7. ToSndInv(m)'
  BY <1>1 DEF ToSndInv, ToSndFrameInv, OldFrame, Opened, Started
<1> QED
  BY <1>4, <1>5, <1>6, <1>7

-----------------------------------------------------------------------------
(* The steps of the receiver preserve the invariant. *)

(* The frame about to be read satisfies the invariant of its link. *)
LEMMA HeadOfToRcv ==
    ASSUME NEW m \in Messages, IInv(m), toRcv # << >>
    PROVE  Head(toRcv) \in Frames /\ ToRcvFrameInv(m, Head(toRcv))
<1>1. toRcv \in Seq(Frames) /\ Head(toRcv) = toRcv[1] /\ Len(toRcv) >= 1
      /\ Head(toRcv) \in Frames
  BY TailCases DEF IInv, TypeOK
<1> QED
  BY <1>1 DEF IInv, ToRcvInv

(* A DATA frame of this message is only on the way once the sender had the  *)
(* answer to its start frame.                                               *)
LEMMA OldOrOpened ==
    ASSUME NEW m \in Messages, IInv(m), NEW f \in Frames, ToRcvFrameInv(m, f),
           f.type = "DATA"
    PROVE  \/ OldFrame(m, f) /\ ~Opened /\ f.seq \in recent
           \/ Opened /\ outcome # "error"
<1> USE DEF IInv
<1>1. SUFFICES ASSUME ~OldFrame(m, f) PROVE Opened /\ outcome # "error"
  BY Constants DEF ToRcvFrameInv, StartFrame, ErrorFrame, OldFrame, Chunks
<1>2. f.chunk \in Chunks(m) /\ f.chunk < sndNext /\ outcome # "error"
  BY <1>1 DEF ToRcvFrameInv, StartFrame, ErrorFrame
<1>3. sndNext # 0
  BY <1>2, Constants DEF Chunks, TypeOK
<1> QED
  BY <1>2, <1>3 DEF PhaseInv

(* The frames towards the sender stay good while the receiver goes on. *)
LEMMA ReceiverKeepsFrames ==
    ASSUME NEW m \in Messages, IInv(m), sndBase' = sndBase, sndPhase' = sndPhase,
           Opened => Opened', rcvBase' \in Nat, rcvBase' >= rcvBase,
           NEW g \in Frames, ToSndFrameInv(m, g)
    PROVE  ToSndFrameInv(m, g)'
<1>1. rcvBase \in Nat /\ Confirms(g) \in Int
  BY Constants DEF IInv, TypeOK, Frames, Confirms
<1> QED
  BY <1>1 DEF ToSndFrameInv, OldFrame, Started

(* An answer that does not lag more than a window behind the receiver may  *)
(* be sent whatever is in flight.                                          *)
LEMMA AnswerMayBeSent ==
    ASSUME NEW m \in Messages, IInv(m), NEW f \in Frames, toSnd' \in AfterSend(toSnd, f),
           sndBase' = sndBase, sndPhase' = sndPhase, Opened => Opened',
           rcvBase' \in Nat, rcvBase' >= rcvBase,
           ToSndFrameInv(m, f)', f.chunk >= -1, rcvBase <= Reach(m, f)
    PROVE  ToSndInv(m)'
<1>1. rcvBase \in Nat /\ Reach(m, f) \in Int /\ SeqSpace \in Nat
  BY Constants DEF IInv, TypeOK, Frames, Reach
<1>2. ASSUME NEW g \in Frames, ToSndFrameInv(m, g)
      PROVE  ToSndFrameInv(m, g)' /\ ToSndOrder(m, g, f)
  <2>1. ToSndFrameInv(m, g)'
    BY <1>2, ReceiverKeepsFrames
  <2>2. CASE OldFrame(m, g)
    BY <1>1, <2>1, <2>2 DEF OldFrame, ToSndOrder, IsOld
  <2>3. CASE ~OldFrame(m, g)
    <3>1. Confirms(g) \in Int /\ Confirms(g) <= rcvBase
      BY <1>2, <2>3 DEF ToSndFrameInv, Confirms, Frames
    <3>2. Confirms(g) <= Reach(m, f) /\ ~IsOld(f)
      BY <1>1, <3>1 DEF IsOld, Frames
    <3> QED
      BY <2>1, <3>2 DEF ToSndOrder
  <2> QED
    BY <2>2, <2>3
<1> QED
  BY <1>2, ToSndAfterSend DEF IInv

(* The same when nothing is sent. *)
LEMMA NothingSent ==
    ASSUME NEW m \in Messages, IInv(m), toSnd' = toSnd, sndBase' = sndBase,
           sndPhase' = sndPhase, Opened => Opened',
           rcvBase' \in Nat, rcvBase' >= rcvBase
    PROVE  ToSndInv(m)'
<1>1. toSnd \in Seq(Frames) /\ ToSndInv(m)
  BY DEF IInv, TypeOK
<1>2. ASSUME NEW p \in 1 .. Len(toSnd)
      PROVE  ToSndFrameInv(m, toSnd[p])'
  <2>1. PICK g \in Frames : g = toSnd[p]
    BY <1>1
  <2>2. ToSndFrameInv(m, g)
    BY <1>1, <2>1 DEF ToSndInv
  <2>3. ToSndFrameInv(m, g)'
    BY <2>2, ReceiverKeepsFrames
  <2> QED
    BY <2>1, <2>3 DEF ToSndFrameInv
<1> QED
  BY <1>1, <1>2 DEF ToSndInv, ToSndOrder, IsOld, Confirms, Reach

(* An answer to an old frame is an old frame too. *)
LEMMA OldAnswerMayBeSent ==
    ASSUME NEW m \in Messages, IInv(m), ~Opened, NEW h \in Frames, OldFrame(m, h),
           SendControl("ACK", h.seq, h.chunk),
           sndPhase' = sndPhase, sndBase' = sndBase, rcvBase' = rcvBase,
           rcvPhase' = rcvPhase, outcome' = outcome
    PROVE  ToSndInv(m)' /\ toSnd' \in Seq(Frames)
<1> DEFINE f == ControlFrame("ACK", h.seq, h.chunk)
<1>1. f \in Frames /\ toSnd' \in AfterSend(toSnd, f)
  BY FrameTypes DEF SendControl, Frames
<1>2. f.type = "ACK" /\ f.chunk = h.chunk /\ f.seq = h.seq
  BY DEF ControlFrame
<1> HIDE DEF f
<1>3. ~Started /\ ~Started'
  BY DEF IInv, PhaseInv, Started
<1>4. ToSndFrameInv(m, f)'
  BY <1>2, <1>3 DEF ToSndFrameInv, OldFrame
<1>5. rcvBase \in Nat /\ SeqSpace \in Nat
  BY Constants DEF IInv, TypeOK
<1>6. ASSUME NEW g \in Frames, ToSndFrameInv(m, g)
      PROVE  ToSndFrameInv(m, g)' /\ ToSndOrder(m, g, f)
  <2>1. OldFrame(m, g)
    BY <1>6 DEF ToSndFrameInv
  <2> QED
    BY <1>3, <1>5, <1>6, <2>1 DEF ToSndFrameInv, OldFrame, ToSndOrder, IsOld
<1>7. ToSndInv(m)'
  BY <1>1, <1>4, <1>6, ToSndAfterSend DEF IInv
<1> QED
  BY <1>1, <1>7, AfterSendCases DEF IInv, TypeOK

(* Asking for the expected chunk. *)
LEMMA NackMayBeSent ==
    ASSUME NEW m \in Messages, IInv(m), NackExpected(m),
           rcvPhase = "receiving", rcvPhase' = "receiving",
           sndBase' = sndBase, sndPhase' = sndPhase, rcvBase' = rcvBase
    PROVE  ToSndInv(m)' /\ toSnd' \in Seq(Frames)
<1>1. /\ sndBase \in Nat /\ rcvBase \in Nat /\ rcvBase >= 0
      /\ sndBase <= rcvBase /\ m.window \in Nat /\ m.chunks \in Nat
      /\ Opened /\ Opened' /\ rcvBase <= m.chunks
  BY Constants DEF IInv, TypeOK, WindowsInv, Opened
<1>0. rcvBase < m.chunks
  <2>1. rcvBase # m.chunks
    BY DEF IInv, PhaseInv
  <2> QED
    BY <1>1, <2>1
<1>2. PICK b \in Nat : b = rcvBase
  BY <1>1
<1> DEFINE f == ControlFrame("NACK", SeqOf(m, b), b)
<1>3. f \in Frames /\ toSnd' \in AfterSend(toSnd, f)
  BY <1>2, FrameTypes, SeqOfType DEF NackExpected, SendControl
<1>4. f.type = "NACK" /\ f.chunk = b /\ f.seq = SeqOf(m, b)
  BY DEF ControlFrame
<1> HIDE DEF f
<1>5. Reach(m, f) = b + m.window /\ Confirms(f) = b
  BY <1>2, <1>4 DEF Reach, Confirms
<1>6. ToSndFrameInv(m, f)'
  BY <1>0, <1>1, <1>2, <1>4, <1>5 DEF ToSndFrameInv
<1>7. rcvBase' \in Nat /\ rcvBase' >= rcvBase /\ f.chunk >= -1 /\ rcvBase <= Reach(m, f)
  BY <1>1, <1>2, <1>4, <1>5
<1>8. ToSndInv(m)'
  BY <1>1, <1>3, <1>6, <1>7, AnswerMayBeSent
<1> QED
  BY <1>3, <1>8, AfterSendCases DEF IInv, TypeOK

(* Acknowledging a delivered chunk that is at most a window old. *)
LEMMA AckMayBeSent ==
    ASSUME NEW m \in Messages, IInv(m), NEW c \in Nat, SendControl("ACK", SeqOf(m, c), c),
           Opened, Opened', sndBase' = sndBase, sndPhase' = sndPhase,
           rcvBase' \in Nat, rcvBase' >= rcvBase, c < rcvBase', c < m.chunks,
           rcvBase <= c + m.window
    PROVE  ToSndInv(m)' /\ toSnd' \in Seq(Frames)
<1>1. sndBase \in Nat /\ rcvBase \in Nat /\ sndBase <= rcvBase /\ m.window \in Nat
  BY Constants DEF IInv, TypeOK, WindowsInv
<1> DEFINE f == ControlFrame("ACK", SeqOf(m, c), c)
<1>2. f \in Frames /\ toSnd' \in AfterSend(toSnd, f)
  BY FrameTypes, SeqOfType DEF SendControl
<1>3. f.type = "ACK" /\ f.chunk = c /\ f.seq = SeqOf(m, c)
  BY DEF ControlFrame
<1> HIDE DEF f
<1>4. Reach(m, f) = c + m.window /\ Confirms(f) = c + 1
  BY <1>3 DEF Reach, Confirms
<1>5. ToSndFrameInv(m, f)'
  BY <1>1, <1>3, <1>4 DEF ToSndFrameInv
<1>6. f.chunk >= -1 /\ rcvBase <= Reach(m, f)
  BY <1>1, <1>3, <1>4
<1>7. ToSndInv(m)'
  BY <1>2, <1>5, <1>6, AnswerMayBeSent
<1> QED
  BY <1>2, <1>7, AfterSendCases DEF IInv, TypeOK

LEMMA ReceiveStartStep ==
    ASSUME NEW m \in Messages, IInv(m), ReceiveStart(m)
    PROVE  IInv(m)'
<1>1. /\ toRcv # << >> /\ Head(toRcv).type = "START" /\ toRcv' = Tail(toRcv)
      /\ SendControl("ACK", Head(toRcv).seq, -1)
      /\ UNCHANGED <<sndPhase, sndBase, sndNext, inUse, acked, resend>>
      /\ UNCHANGED <<outcome, recent>>
  BY DEF ReceiveStart, Arriving, sndVars
<1>2. /\ Head(toRcv) = StartFrame(m) /\ rcvBase = 0 /\ outcome = "none"
      /\ Head(toRcv).type = "START" /\ Head(toRcv).chunk = -1
  BY <1>1, HeadOfToRcv DEF ToRcvFrameInv, DataFrame, ErrorFrame, StartFrame
<1>3. /\ rcvPhase' = "receiving" /\ rcvBase' = 0 /\ since' \in Nat
      /\ ring' = EmptyRing(m) \/ ring' = ring
      /\ written' = << >> \/ written' = written
      /\ Opened'
  BY <1>1, <1>2 DEF ReceiveStart, IInv, TypeOK, Opened
<1>4. sndBase = 0 /\ m.chunks \in Nat \ {0} /\ m.window \in Nat \ {0}
  BY <1>2, Constants DEF IInv, TypeOK, WindowsInv
<1>5. \A k \in 0 .. m.window - 1 : ring'[k].received =>
          ring[k].received /\ ring' = ring
  <2>1. CASE ring' = EmptyRing(m)
    <3>1. \A k \in 0 .. m.window - 1 : ~EmptyRing(m)[k].received
      BY DEF EmptyRing, EmptySlot
    <3> QED
      BY <2>1, <3>1
  <2> QED
    BY <1>3, <2>1
<1>6. ToSndInv(m)' /\ toSnd' \in Seq(Frames)
  <2> DEFINE f == ControlFrame("ACK", m.first, -1)
  <2>1. f \in Frames /\ toSnd' \in AfterSend(toSnd, f)
    <3>1. Head(toRcv).seq = m.first /\ m.first \in SeqNumbers /\ -1 \in Int
      BY <1>2, Constants DEF StartFrame
    <3> QED
      BY <1>1, <3>1, FrameTypes DEF SendControl
  <2>2. f.type = "ACK" /\ f.chunk = -1 /\ f.seq = m.first
    BY DEF ControlFrame
  <2>3. SeqOf(m, -1) = m.first
    BY Constants DEF SeqOf, SequenceForIndex, SeqNumbers
  <2> HIDE DEF f
  <2>4. ToSndFrameInv(m, f)' /\ Reach(m, f) = 0
    BY <1>1, <1>3, <1>4, <2>2, <2>3 DEF ToSndFrameInv, Reach, Confirms
  <2>5. rcvBase' \in Nat /\ rcvBase' >= rcvBase /\ f.chunk >= -1 /\ rcvBase <= Reach(m, f)
    BY <1>2, <1>3, <2>2, <2>4
  <2>6. ToSndInv(m)'
    BY <1>1, <1>3, <2>1, <2>4, <2>5, AnswerMayBeSent
  <2> QED
    BY <2>1, <2>6, AfterSendCases DEF IInv, TypeOK
<1>7. TypeOK(m)'
  <2>1. EmptyRing(m) \in [0 .. m.window - 1 -> Slots]
    BY DEF EmptyRing, EmptySlot, Slots
  <2>2. toRcv' \in Seq(Frames)
    BY <1>1, TailCases DEF IInv, TypeOK
  <2>3. ring' \in [0 .. m.window - 1 -> Slots] /\ written' \in Seq(Int)
    <3>1. /\ ring \in [0 .. m.window - 1 -> Slots]
          /\ written \in Seq(Int) /\ << >> \in Seq(Int)
      BY DEF IInv, TypeOK
    <3> QED
      BY <1>3, <2>1, <3>1
  <2>4. rcvBase' \in 0 .. m.chunks
    BY <1>3, <1>4
  <2> QED
    BY <1>1, <1>3, <1>6, <2>2, <2>3, <2>4 DEF IInv, TypeOK
<1>8. WindowsInv(m)' /\ PhaseInv(m)'
  BY <1>1, <1>2, <1>3, <1>4 DEF IInv, WindowsInv, PhaseInv, Started
<1>9. RingInv(m)'
  BY <1>1, <1>2, <1>3, <1>5 DEF IInv, RingInv
<1>10. WrittenInv'
  BY <1>2, <1>3 DEF IInv, WrittenInv
<1>11. ASSUME NEW g \in Frames, ToRcvFrameInv(m, g), ToRcvOrder(m, Head(toRcv), g)
       PROVE  ToRcvFrameInv(m, g)'
  <2>1. ~OldFrame(m, g)
    BY <1>2, <1>11, Constants DEF ToRcvOrder, IsOld, OldFrame
  <2> QED
    BY <1>1, <1>2, <1>3, <1>5, <1>11, <2>1 DEF ToRcvFrameInv
<1>12. ToRcvInv(m)'
  BY <1>1, <1>11, ToRcvAfterTail DEF IInv
<1> QED
  BY <1>6, <1>7, <1>8, <1>9, <1>10, <1>12 DEF IInv

(* Reading a frame without a change of the receiver. *)
LEMMA FrameOnlyRead ==
    ASSUME NEW m \in Messages, IInv(m), toRcv # << >>, toRcv' = Tail(toRcv),
           sndVars' = sndVars, rcvVars' = rcvVars
    PROVE  /\ toRcv' \in Seq(Frames)
           /\ WindowsInv(m)' /\ PhaseInv(m)' /\ RingInv(m)' /\ WrittenInv' /\ ToRcvInv(m)'
<1> USE DEF IInv
<1>1. /\ UNCHANGED <<sndPhase, sndBase, sndNext, inUse, acked, resend>>
      /\ UNCHANGED <<rcvPhase, outcome, rcvBase, ring, since, recent, written>>
  BY DEF sndVars, rcvVars
<1>2. WindowsInv(m)' /\ PhaseInv(m)' /\ RingInv(m)' /\ WrittenInv'
  BY <1>1 DEF WindowsInv, PhaseInv, RingInv, WrittenInv, Started, Opened
<1>3. \A g \in Frames : ToRcvFrameInv(m, g) => ToRcvFrameInv(m, g)'
  BY <1>1 DEF ToRcvFrameInv, OldFrame, Opened
<1>4. ToRcvInv(m)'
  BY <1>3, ToRcvAfterTail
<1> QED
  BY <1>2, <1>4, TailCases DEF TypeOK

LEMMA ReceiveErrorStep ==
    ASSUME NEW m \in Messages, IInv(m), ReceiveError
    PROVE  IInv(m)'
<1>1. /\ toRcv # << >> /\ Head(toRcv).type = "ERROR" /\ toRcv' = Tail(toRcv)
      /\ rcvPhase' = "idle"
      /\ outcome' = IF rcvPhase = "receiving" THEN "error" ELSE outcome
      /\ UNCHANGED <<sndPhase, sndBase, sndNext, inUse, acked, resend, toSnd>>
      /\ UNCHANGED <<rcvBase, ring, since, recent, written>>
      /\ sndVars' = sndVars
  BY DEF ReceiveError, Arriving, sndVars
<1>2. TypeOK(m)'
  BY <1>1, TailCases DEF IInv, TypeOK
<1>3. ToSndInv(m)'
  <2>1. Opened => Opened'
    BY <1>1 DEF Opened
  <2>2. rcvBase' \in Nat /\ rcvBase' >= rcvBase
    BY <1>1, Constants DEF IInv, TypeOK
  <2> QED
    BY <1>1, <2>1, <2>2, NothingSent
<1>4. CASE OldFrame(m, Head(toRcv)) /\ ~Opened
  <2>1. rcvVars' = rcvVars
    BY <1>1, <1>4 DEF Opened, rcvVars, IInv, TypeOK
  <2> QED
    BY <1>1, <1>2, <1>3, <2>1, FrameOnlyRead DEF IInv
<1>5. CASE Head(toRcv) = ErrorFrame(m) /\ sndPhase = "aborted"
  <2>1. WindowsInv(m)' /\ RingInv(m)' /\ WrittenInv'
    BY <1>1 DEF IInv, WindowsInv, RingInv, WrittenInv
  <2>2. PhaseInv(m)'
    BY <1>1, <1>5 DEF IInv, PhaseInv, TypeOK, Started, Opened
  <2>3. ASSUME NEW g \in Frames, ToRcvFrameInv(m, g), ToRcvOrder(m, Head(toRcv), g)
        PROVE  ToRcvFrameInv(m, g)'
    BY <1>5, <2>3 DEF ToRcvOrder, IsOld, ErrorFrame
  <2>4. ToRcvInv(m)'
    BY <1>1, <2>3, ToRcvAfterTail DEF IInv
  <2> QED
    BY <1>2, <1>3, <2>1, <2>2, <2>4 DEF IInv
<1> QED
  BY <1>1, <1>4, <1>5, HeadOfToRcv DEF ToRcvFrameInv, DataFrame, StartFrame

LEMMA ReceiveLateDataStep ==
    ASSUME NEW m \in Messages, IInv(m), ReceiveLateData
    PROVE  IInv(m)'
<1> DEFINE f == Head(toRcv)
<1>1. /\ rcvPhase = "idle" /\ toRcv # << >> /\ f.type = "DATA"
      /\ toRcv' = Tail(toRcv)
      /\ IF f.seq \in recent
         THEN SendControl("ACK", f.seq, f.chunk) ELSE UNCHANGED toSnd
      /\ sndVars' = sndVars /\ rcvVars' = rcvVars
  BY DEF ReceiveLateData, Arriving
<1>2. /\ UNCHANGED <<sndPhase, sndBase, sndNext, inUse, acked, resend>>
      /\ UNCHANGED <<rcvPhase, outcome, rcvBase, ring, since, recent, written>>
  BY <1>1 DEF sndVars, rcvVars
<1>3. f \in Frames /\ ToRcvFrameInv(m, f)
  BY <1>1, HeadOfToRcv
<1> HIDE DEF f
<1>4. ToSndInv(m)' /\ toSnd' \in Seq(Frames)
  <2>1. CASE OldFrame(m, f) /\ ~Opened /\ f.seq \in recent
    <3>1. PICK h \in Frames : h = f
      BY <1>3
    <3>2. SendControl("ACK", h.seq, h.chunk) /\ OldFrame(m, h)
      BY <1>1, <2>1, <3>1 DEF SendControl
    <3> QED
      BY <1>2, <2>1, <3>2, OldAnswerMayBeSent
  <2>2. CASE Opened /\ outcome # "error"
    <3>1. rcvBase = m.chunks /\ Opened'
      BY <1>1, <1>2, <2>2 DEF IInv, PhaseInv, TypeOK, Opened
    <3>2. /\ f.chunk \in Chunks(m) /\ f = DataFrame(m, f.chunk)
          /\ rcvBase <= f.chunk + m.window
      BY <1>1, <1>3, <2>2, DataStatus DEF IInv
    <3>3. f.chunk \in Nat /\ f.chunk < m.chunks /\ f.seq = SeqOf(m, f.chunk)
          /\ rcvBase \in Nat
      BY <3>2, Constants DEF IInv, Chunks, DataFrame, TypeOK
    <3>4. CASE f.seq \in recent
      <4>1. PICK c \in Nat : c = f.chunk
        BY <3>3
      <4>2. SendControl("ACK", SeqOf(m, c), c)
        BY <1>1, <3>3, <3>4, <4>1 DEF SendControl
      <4>3. /\ rcvBase' \in Nat /\ rcvBase' >= rcvBase /\ c < rcvBase'
            /\ c < m.chunks /\ rcvBase <= c + m.window
        BY <1>2, <3>1, <3>2, <3>3, <4>1
      <4> QED
        BY <1>2, <2>2, <3>1, <4>2, <4>3, AckMayBeSent
    <3>5. CASE f.seq \notin recent
      <4>1. toSnd' = toSnd /\ rcvBase' \in Nat /\ rcvBase' >= rcvBase
        BY <1>1, <1>2, <3>3, <3>5
      <4>2. ToSndInv(m)'
        BY <1>2, <3>1, <4>1, NothingSent
      <4> QED
        BY <4>1, <4>2 DEF IInv, TypeOK
    <3> QED
      BY <3>4, <3>5
  <2> QED
    BY <1>1, <1>3, <2>1, <2>2, OldOrOpened
<1>5. TypeOK(m)'
  BY <1>1, <1>2, <1>4, FrameOnlyRead DEF IInv, TypeOK
<1> QED
  BY <1>1, <1>4, <1>5, FrameOnlyRead DEF IInv

LEMMA ReceiveUnacceptedStep ==
    ASSUME NEW m \in Messages, IInv(m), ReceiveUnaccepted(m)
    PROVE  IInv(m)'
<1> USE DEF IInv
<1> DEFINE f == Head(toRcv)
<1>1. /\ rcvPhase = "receiving" /\ toRcv # << >> /\ f.type = "DATA"
      /\ toRcv' = Tail(toRcv)
      /\ IF AcceptStatus(m, f) = "DUPLICATE" /\ RecentlyDelivered(m, f.seq)
         THEN SendControl("ACK", f.seq, f.chunk) ELSE NackExpected(m)
      /\ sndVars' = sndVars /\ rcvVars' = rcvVars
  BY DEF ReceiveUnaccepted, Arriving
<1>2. /\ UNCHANGED <<sndPhase, sndBase, sndNext, inUse, acked, resend>>
      /\ UNCHANGED <<rcvPhase, outcome, rcvBase, ring, since, recent, written>>
  BY <1>1 DEF sndVars, rcvVars
<1>3. f \in Frames /\ ToRcvFrameInv(m, f) /\ Opened /\ Opened'
  BY <1>1, <1>2, HeadOfToRcv DEF Opened
<1> HIDE DEF f
<1>4. /\ f.chunk \in Chunks(m) /\ f = DataFrame(m, f.chunk)
      /\ f.chunk < sndNext /\ rcvBase <= f.chunk + m.window
      /\ RecentlyDelivered(m, f.seq) => ~(f.chunk >= rcvBase)
  BY <1>1, <1>3, DataStatus
<1>5. /\ f.chunk \in Nat /\ f.chunk < m.chunks /\ f.seq = SeqOf(m, f.chunk)
      /\ rcvBase \in Nat
  BY <1>4, Constants DEF Chunks, DataFrame, TypeOK
<1>6. ToSndInv(m)' /\ toSnd' \in Seq(Frames)
  <2>1. CASE AcceptStatus(m, f) = "DUPLICATE" /\ RecentlyDelivered(m, f.seq)
    <3>1. PICK c \in Nat : c = f.chunk
      BY <1>5
    <3>2. SendControl("ACK", SeqOf(m, c), c)
      BY <1>1, <1>5, <2>1, <3>1 DEF SendControl
    <3>3. /\ rcvBase' \in Nat /\ rcvBase' >= rcvBase /\ c < rcvBase'
          /\ c < m.chunks /\ rcvBase <= c + m.window
      BY <1>2, <1>4, <1>5, <2>1, <3>1
    <3> QED
      BY <1>2, <1>3, <3>2, <3>3, AckMayBeSent
  <2>2. CASE ~(AcceptStatus(m, f) = "DUPLICATE" /\ RecentlyDelivered(m, f.seq))
    BY <1>1, <1>2, <2>2, NackMayBeSent
  <2> QED
    BY <2>1, <2>2
<1>7. TypeOK(m)'
  BY <1>1, <1>2, <1>6, FrameOnlyRead DEF TypeOK
<1> QED
  BY <1>1, <1>6, <1>7, FrameOnlyRead

LEMMA ReceiveTimeoutStep ==
    ASSUME NEW m \in Messages, IInv(m), ReceiveTimeout(m)
    PROVE  IInv(m)'
<1> USE DEF IInv
<1>1. /\ NackExpected(m) /\ toRcv' = toRcv /\ rcvPhase = "receiving"
      /\ UNCHANGED <<sndPhase, sndBase, sndNext, inUse, acked, resend>>
      /\ UNCHANGED <<rcvPhase, outcome, rcvBase, ring, since, recent, written>>
  BY DEF ReceiveTimeout, sndVars, rcvVars
<1>2. ToSndInv(m)' /\ toSnd' \in Seq(Frames)
  BY <1>1, NackMayBeSent
<1>3. TypeOK(m)'
  BY <1>1, <1>2 DEF TypeOK
<1>4. WindowsInv(m)' /\ PhaseInv(m)' /\ RingInv(m)' /\ WrittenInv'
  BY <1>1 DEF WindowsInv, PhaseInv, RingInv, WrittenInv, Started, Opened
<1>5. ToRcvInv(m)'
  BY <1>1 DEF ToRcvInv, ToRcvFrameInv, OldFrame, Opened
<1> QED
  BY <1>2, <1>3, <1>4, <1>5

(* An accepted frame and the ring that holds it. *)
LEMMA StoredRingInv ==
    ASSUME NEW m \in Messages, IInv(m), rcvPhase = "receiving", Arriving({"DATA"}),
           AcceptStatus(m, Head(toRcv)) = "ACCEPTED",
           NEW stored, stored = StoredRing(m, Head(toRcv))
    PROVE  /\ stored \in [0 .. m.window - 1 -> Slots]
           /\ \A k \in 0 .. m.window - 1 : stored[k].received =>
                  /\ stored[k].chunk \in rcvBase .. rcvBase + m.window - 1
                  /\ stored[k].chunk < sndNext
                  /\ stored[k].chunk % m.window = k
                  /\ stored[k].data = stored[k].chunk
           /\ \A g \in Frames : ToRcvFrameInv(m, g) /\ ToRcvOrder(m, Head(toRcv), g) =>
                  /\ g.type # "START" /\ ~OldFrame(m, g)
                  /\ g.type = "DATA" => \A k \in 0 .. m.window - 1 :
                         stored[k].received =>
                             stored[k].chunk + 1 <= g.chunk + m.window
<1> USE DEF IInv
<1> DEFINE f == Head(toRcv)
           c == f.chunk
<1>1. toRcv # << >> /\ f.type = "DATA"
  BY DEF Arriving
<1>2. f \in Frames /\ ToRcvFrameInv(m, f) /\ Opened
  BY <1>1, HeadOfToRcv DEF Opened
<1>3. stored = [ring EXCEPT ![ChunkOf(m, f.seq) % m.window] =
                   [received |-> TRUE, chunk |-> ChunkOf(m, f.seq), data |-> c]]
  BY DEF StoredRing
<1>4. AcceptStatus(m, f) = "ACCEPTED"
  OBVIOUS
<1> HIDE DEF f
<1>5. /\ c \in Chunks(m) /\ c < sndNext /\ rcvBase <= c + m.window
      /\ c >= rcvBase => /\ ChunkOf(m, f.seq) = c
                         /\ AcceptStatus(m, f) = IF ring[c % m.window].received
                                              THEN "DUPLICATE" ELSE "ACCEPTED"
      /\ c < rcvBase => AcceptStatus(m, f) = "DUPLICATE"
  BY <1>1, <1>2, DataStatus
<1>6. rcvBase \in Nat /\ sndBase \in Nat /\ sndNext \in Nat /\ c \in Nat
  BY <1>5, Constants DEF TypeOK, Chunks
<1>7. c >= rcvBase /\ ChunkOf(m, f.seq) = c
  BY <1>4, <1>5, <1>6
<1>8. c < rcvBase + m.window
  BY <1>5, <1>6, Constants DEF WindowsInv
<1>9. c % m.window \in 0 .. m.window - 1
  BY <1>6, SlotType
<1>10. PICK slot \in 0 .. m.window - 1 : slot = c % m.window
  BY <1>9
<1> DEFINE filled == [received |-> TRUE, chunk |-> c, data |-> c]
<1>11. stored = [ring EXCEPT ![slot] = filled]
  BY <1>3, <1>7, <1>10
<1>12. filled \in Slots /\ filled.chunk = c /\ filled.data = c
  BY <1>6 DEF Slots
<1> HIDE DEF c, filled
<1>13. ring \in [0 .. m.window - 1 -> Slots]
  BY DEF TypeOK
<1>14. stored \in [0 .. m.window - 1 -> Slots]
  BY <1>11, <1>12, <1>13
<1>15. /\ stored[slot].chunk = c /\ stored[slot].data = c
       /\ \A k \in 0 .. m.window - 1 : k # slot => stored[k] = ring[k]
  BY <1>11, <1>12, <1>13
<1>16. ASSUME NEW k \in 0 .. m.window - 1, stored[k].received
       PROVE  /\ stored[k].chunk \in rcvBase .. rcvBase + m.window - 1
              /\ stored[k].chunk < sndNext
              /\ stored[k].chunk % m.window = k
              /\ stored[k].data = stored[k].chunk
  <2>1. CASE k = slot
    BY <1>5, <1>6, <1>7, <1>8, <1>10, <1>15, <2>1, Constants DEF c
  <2>2. CASE k # slot
    BY <1>15, <1>16, <2>2 DEF RingInv
  <2> QED
    BY <2>1, <2>2
<1>17. ASSUME NEW g \in Frames, ToRcvFrameInv(m, g), ToRcvOrder(m, f, g)
       PROVE  /\ g.type # "START" /\ ~OldFrame(m, g)
              /\ g.type = "DATA" => \A k \in 0 .. m.window - 1 :
                     stored[k].received =>
                         stored[k].chunk + 1 <= g.chunk + m.window
  <2>0. ~IsOld(f) /\ ~IsOld(g) /\ f.chunk = c
    BY <1>6, <1>17 DEF ToRcvOrder, IsOld, c
  <2>1. g.type # "START" /\ ~OldFrame(m, g)
    <3>1. ~OldFrame(m, g)
      BY <2>0, Constants DEF IsOld, OldFrame
    <3> QED
      BY <1>1, <1>17, <2>0, <3>1 DEF ToRcvOrder
  <2>2. ASSUME g.type = "DATA", NEW k \in 0 .. m.window - 1, stored[k].received
        PROVE  stored[k].chunk + 1 <= g.chunk + m.window
    <3>1. CASE k = slot
      BY <1>1, <1>15, <1>17, <2>0, <2>2, <3>1 DEF ToRcvOrder
    <3>2. CASE k # slot
      <4>1. ring[k].received => ring[k].chunk + 1 <= g.chunk + m.window
        BY <1>17, <2>1, <2>2 DEF ToRcvFrameInv, StartFrame, ErrorFrame
      <4> QED
        BY <1>15, <2>2, <3>2, <4>1
    <3> QED
      BY <3>1, <3>2
  <2> QED
    BY <2>1, <2>2
<1> QED
  BY <1>14, <1>16, <1>17 DEF f

LEMMA StoreChunkStep ==
    ASSUME NEW m \in Messages, IInv(m), StoreChunk(m)
    PROVE  IInv(m)'
<1> USE DEF IInv
<1>1. /\ rcvPhase = "receiving" /\ Arriving({"DATA"})
      /\ AcceptStatus(m, Head(toRcv)) = "ACCEPTED"
      /\ ring' = StoredRing(m, Head(toRcv))
      /\ NackExpected(m) /\ toRcv # << >> /\ toRcv' = Tail(toRcv)
      /\ UNCHANGED <<sndPhase, sndBase, sndNext, inUse, acked, resend>>
      /\ UNCHANGED <<rcvPhase, outcome, rcvBase, since, recent, written>>
  BY DEF StoreChunk, sndVars, Arriving
<1>2. PICK stored : stored = StoredRing(m, Head(toRcv))
  OBVIOUS
<1>3. /\ stored \in [0 .. m.window - 1 -> Slots]
      /\ \A k \in 0 .. m.window - 1 : stored[k].received =>
             /\ stored[k].chunk \in rcvBase .. rcvBase + m.window - 1
             /\ stored[k].chunk < sndNext
             /\ stored[k].chunk % m.window = k
             /\ stored[k].data = stored[k].chunk
      /\ \A g \in Frames : ToRcvFrameInv(m, g) /\ ToRcvOrder(m, Head(toRcv), g) =>
             /\ g.type # "START" /\ ~OldFrame(m, g)
             /\ g.type = "DATA" => \A k \in 0 .. m.window - 1 :
                    stored[k].received =>
                        stored[k].chunk + 1 <= g.chunk + m.window
  BY <1>1, <1>2, StoredRingInv
<1>4. ring' = stored
  BY <1>1, <1>2
<1>5. ToSndInv(m)' /\ toSnd' \in Seq(Frames)
  BY <1>1, NackMayBeSent
<1>6. TypeOK(m)'
  <2>1. toRcv' \in Seq(Frames)
    BY <1>1, TailCases DEF TypeOK
  <2> QED
    BY <1>1, <1>3, <1>4, <1>5, <2>1 DEF TypeOK
<1>7. WindowsInv(m)' /\ PhaseInv(m)' /\ WrittenInv'
  BY <1>1 DEF WindowsInv, PhaseInv, WrittenInv, Started, Opened
<1>8. RingInv(m)'
  BY <1>1, <1>3, <1>4 DEF RingInv
<1>9. ASSUME NEW g \in Frames, ToRcvFrameInv(m, g), ToRcvOrder(m, Head(toRcv), g)
      PROVE  ToRcvFrameInv(m, g)'
  <2>1. g.type # "START" /\ ~OldFrame(m, g) /\ (g.type = "DATA" => \A k \in 0 .. m.window - 1 :
            stored[k].received => stored[k].chunk + 1 <= g.chunk + m.window)
    BY <1>3, <1>9
  <2> QED
    BY <1>1, <1>4, <1>9, <2>1 DEF ToRcvFrameInv, StartFrame, DataFrame
<1>10. ToRcvInv(m)'
  BY <1>1, <1>9, ToRcvAfterTail
<1> QED
  BY <1>5, <1>6, <1>7, <1>8, <1>10

(* The chunks ready to be written are the next ones, sent and at their own *)
(* places of the ring.                                                     *)
LEMMA ReadyChunks ==
    ASSUME NEW m \in Messages, IInv(m), NEW stored,
           \A k \in 0 .. m.window - 1 : stored[k].received =>
                  /\ stored[k].chunk \in rcvBase .. rcvBase + m.window - 1
                  /\ stored[k].chunk < sndNext
                  /\ stored[k].chunk % m.window = k
                  /\ stored[k].data = stored[k].chunk,
           NEW end \in rcvBase + 1 .. rcvBase + m.window,
           IsReadyEnd(m, stored, end)
    PROVE  /\ end \in Nat /\ end <= m.chunks /\ end <= sndNext
           /\ \A c \in rcvBase .. end - 1 : stored[c % m.window].data = c
           /\ stored[(end - 1) % m.window].received
           /\ stored[(end - 1) % m.window].chunk = end - 1
<1>1. rcvBase \in Nat /\ sndNext \in Nat /\ end \in Nat /\ end - 1 \in Int
  BY Constants DEF IInv, TypeOK
<1>2. ASSUME NEW c \in rcvBase .. end - 1
      PROVE  /\ c < m.chunks /\ c < sndNext
             /\ stored[c % m.window].received /\ stored[c % m.window].chunk = c
             /\ stored[c % m.window].data = c
  <2>1. c < m.chunks /\ stored[c % m.window].received /\ stored[c % m.window].chunk = c
    BY <1>2 DEF IsReadyEnd, IsReady
  <2>2. c % m.window \in 0 .. m.window - 1
    BY <1>1, SlotType
  <2> QED
    BY <2>1, <2>2
<1>3. end - 1 \in rcvBase .. end - 1
  BY <1>1
<1>4. /\ end - 1 < m.chunks /\ end - 1 < sndNext
      /\ stored[(end - 1) % m.window].received
      /\ stored[(end - 1) % m.window].chunk = end - 1
  BY <1>2, <1>3
<1>5. end <= m.chunks /\ end <= sndNext
  BY <1>1, <1>4, Constants
<1>6. \A c \in rcvBase .. end - 1 : stored[c % m.window].data = c
  BY <1>2
<1> QED
  BY <1>1, <1>4, <1>5, <1>6

(* A function on the first n numbers is a sequence of length n. *)
LEMMA FunctionIsSequence ==
    ASSUME NEW n \in Nat, NEW S, NEW f \in [1 .. n -> S]
    PROVE  f \in Seq(S) /\ Len(f) = n
OBVIOUS

LEMMA Appended ==
    ASSUME NEW s \in Seq(Int), NEW t \in Seq(Int)
    PROVE  /\ s \o t \in Seq(Int) /\ Len(s \o t) = Len(s) + Len(t)
           /\ \A i \in 1 .. Len(s) : (s \o t)[i] = s[i]
           /\ \A i \in 1 .. Len(t) : (s \o t)[Len(s) + i] = t[i]
OBVIOUS

LEMMA DeliverChunksStep ==
    ASSUME NEW m \in Messages, IInv(m), DeliverChunks(m)
    PROVE  IInv(m)'
<1> USE DEF IInv
<1>1. /\ rcvPhase = "receiving" /\ Arriving({"DATA"})
      /\ AcceptStatus(m, Head(toRcv)) = "ACCEPTED"
      /\ toRcv # << >> /\ toRcv' = Tail(toRcv)
      /\ UNCHANGED <<sndPhase, sndBase, sndNext, inUse, acked, resend>>
  BY DEF DeliverChunks, sndVars, Arriving
<1>2. PICK stored : stored = StoredRing(m, Head(toRcv))
  OBVIOUS
<1>3. /\ stored \in [0 .. m.window - 1 -> Slots]
      /\ \A k \in 0 .. m.window - 1 : stored[k].received =>
             /\ stored[k].chunk \in rcvBase .. rcvBase + m.window - 1
             /\ stored[k].chunk < sndNext
             /\ stored[k].chunk % m.window = k
             /\ stored[k].data = stored[k].chunk
      /\ \A g \in Frames : ToRcvFrameInv(m, g) /\ ToRcvOrder(m, Head(toRcv), g) =>
             /\ g.type # "START" /\ ~OldFrame(m, g)
             /\ g.type = "DATA" => \A k \in 0 .. m.window - 1 :
                    stored[k].received =>
                        stored[k].chunk + 1 <= g.chunk + m.window
  BY <1>1, <1>2, StoredRingInv
<1>4. PICK end \in rcvBase + 1 .. rcvBase + m.window :
          /\ IsReadyEnd(m, stored, end)
          /\ written' = written \o
                 [i \in 1 .. end - rcvBase |->
                      stored[(rcvBase + i - 1) % m.window].data]
          /\ ring' = [k \in 0 .. m.window - 1 |->
                 IF \E c \in rcvBase .. end - 1 : c % m.window = k
                 THEN EmptySlot ELSE stored[k]]
          /\ rcvBase' = end
          /\ AnswerDelivery(m, end)
  BY <1>2 DEF DeliverChunks
<1>5. /\ end \in Nat /\ end <= m.chunks /\ end <= sndNext
      /\ \A c \in rcvBase .. end - 1 : stored[c % m.window].data = c
      /\ stored[(end - 1) % m.window].received
      /\ stored[(end - 1) % m.window].chunk = end - 1
  <2>1. \A k \in 0 .. m.window - 1 : stored[k].received =>
             /\ stored[k].chunk \in rcvBase .. rcvBase + m.window - 1
             /\ stored[k].chunk < sndNext
             /\ stored[k].chunk % m.window = k
             /\ stored[k].data = stored[k].chunk
    BY <1>3
  <2> QED
    BY <1>4, <2>1, ReadyChunks
<1>6. /\ rcvBase \in Nat /\ sndNext \in Nat /\ sndBase \in Nat
      /\ rcvBase < end /\ end <= rcvBase + m.window /\ since \in Nat
  BY <1>4, <1>5, Constants DEF TypeOK
<1>7. ToSndInv(m)' /\ toSnd' \in Seq(Frames)
  <2>0. Opened /\ Opened'
    BY <1>1, <1>4 DEF Opened, AnswerDelivery
  <2>1. PICK last \in Nat : last = end - 1
    BY <1>5, <1>6
  <2>2. CASE SendControl("ACK", SeqOf(m, end - 1), end - 1)
    <3>1. SendControl("ACK", SeqOf(m, last), last)
      BY <2>1, <2>2
    <3>2. /\ rcvBase' \in Nat /\ rcvBase' >= rcvBase /\ last < rcvBase'
          /\ last < m.chunks /\ rcvBase <= last + m.window
      <4>1. m.window \in Nat \ {0} /\ m.chunks \in Nat
        BY Constants
      <4> QED
        BY <1>4, <1>5, <1>6, <2>1, <4>1
    <3> QED
      BY <1>1, <2>0, <3>1, <3>2, AckMayBeSent
  <2>3. CASE toSnd' = toSnd
    <3>1. rcvBase' \in Nat /\ rcvBase' >= rcvBase
      BY <1>4, <1>5, <1>6
    <3> QED
      BY <1>1, <2>0, <2>3, <3>1, NothingSent DEF TypeOK
  <2> QED
    BY <1>4, <2>2, <2>3 DEF AnswerDelivery
<1>8. WrittenInv' /\ written' \in Seq(Int)
  <2> DEFINE new == [i \in 1 .. end - rcvBase |->
                        stored[(rcvBase + i - 1) % m.window].data]
  <2>1. \A i \in 1 .. end - rcvBase : new[i] = rcvBase + i - 1
    BY <1>5, <1>6
  <2> DEFINE length == end - rcvBase
  <2>2. new \in Seq(Int) /\ Len(new) = end - rcvBase
    <3>1. length \in Nat
      BY <1>6
    <3>2. new = [i \in 1 .. length |-> new[i]]
      OBVIOUS
    <3> HIDE DEF new
    <3>3. \A i \in 1 .. length : new[i] \in Int
      BY <1>6, <2>1
    <3> HIDE DEF length
    <3>4. new \in [1 .. length -> Int]
      BY <3>2, <3>3
    <3>5. new \in Seq(Int) /\ Len(new) = length
      BY <3>1, <3>4, FunctionIsSequence
    <3> QED
      BY <3>5 DEF length
  <2>3. written' = written \o new /\ rcvBase' = end
    BY <1>4
  <2> HIDE DEF new
  <2>4. written \in Seq(Int) /\ Len(written) = rcvBase
        /\ \A i \in 1 .. Len(written) : written[i] = i - 1
    BY DEF TypeOK, WrittenInv
  <2>5. /\ Len(written') = end /\ written' \in Seq(Int)
        /\ \A i \in 1 .. rcvBase : written'[i] = written[i]
        /\ \A i \in 1 .. end - rcvBase : written'[rcvBase + i] = new[i]
    <3>1. /\ written \o new \in Seq(Int)
          /\ Len(written \o new) = Len(written) + Len(new)
          /\ \A i \in 1 .. Len(written) : (written \o new)[i] = written[i]
          /\ \A i \in 1 .. Len(new) : (written \o new)[Len(written) + i] = new[i]
      BY <2>2, <2>4, Appended
    <3>2. rcvBase + (end - rcvBase) = end
      BY <1>6
    <3> QED
      BY <2>2, <2>3, <2>4, <3>1, <3>2
  <2>6. ASSUME NEW i \in 1 .. Len(written')
        PROVE  written'[i] = i - 1
    <3>1. CASE i <= rcvBase
      BY <1>6, <2>4, <2>5, <3>1
    <3>2. CASE i > rcvBase
      <4>1. i - rcvBase \in 1 .. end - rcvBase
        BY <1>6, <2>5, <3>2
      <4>2. written'[i] = new[i - rcvBase]
        <5>1. i = rcvBase + (i - rcvBase)
          BY <1>6
        <5> QED
          BY <2>5, <4>1, <5>1
      <4>3. new[i - rcvBase] = rcvBase + (i - rcvBase) - 1
        BY <2>1, <4>1
      <4> QED
        BY <1>6, <2>5, <4>2, <4>3
    <3> QED
      BY <1>6, <2>5, <3>1, <3>2
  <2> QED
    BY <2>3, <2>5, <2>6 DEF WrittenInv
<1>9. /\ ring' \in [0 .. m.window - 1 -> Slots]
      /\ \A k \in 0 .. m.window - 1 : (ring'[k]).received =>
             /\ ring'[k] = stored[k] /\ stored[k].received
             /\ stored[k].chunk \in end .. rcvBase + m.window - 1
  <2>1. EmptySlot \in Slots /\ ~EmptySlot.received
    BY DEF EmptySlot, Slots
  <2>2. ASSUME NEW k \in 0 .. m.window - 1
        PROVE  /\ ring'[k] \in Slots
               /\ (ring'[k]).received =>
                    /\ ring'[k] = stored[k] /\ stored[k].received
                    /\ stored[k].chunk \in end .. rcvBase + m.window - 1
    <3>1. CASE \E c \in rcvBase .. end - 1 : c % m.window = k
      BY <1>4, <2>1, <3>1
    <3>2. CASE ~\E c \in rcvBase .. end - 1 : c % m.window = k
      <4>1. ring'[k] = stored[k] /\ stored[k] \in Slots
        BY <1>3, <1>4, <3>2
      <4>2. ASSUME stored[k].received
            PROVE  stored[k].chunk \in end .. rcvBase + m.window - 1
        <5>1. stored[k].chunk \in rcvBase .. rcvBase + m.window - 1
              /\ stored[k].chunk % m.window = k
          BY <1>3, <4>2
        <5>2. stored[k].chunk \notin rcvBase .. end - 1
          BY <3>2, <5>1
        <5> QED
          BY <1>6, <5>1, <5>2, Constants
      <4> QED
        BY <4>1, <4>2
    <3> QED
      BY <3>1, <3>2
  <2>3. ring' = [k \in 0 .. m.window - 1 |-> ring'[k]]
    BY <1>4
  <2> QED
    BY <2>2, <2>3
<1>10. RingInv(m)'
  <2> SUFFICES ASSUME NEW k \in 0 .. m.window - 1, (ring'[k]).received
               PROVE  /\ (ring'[k]).chunk \in end .. end + m.window - 1
                      /\ (ring'[k]).chunk < sndNext
                      /\ (ring'[k]).chunk % m.window = k
                      /\ (ring'[k]).data = (ring'[k]).chunk
    BY <1>1, <1>4 DEF RingInv
  <2>1. /\ ring'[k] = stored[k] /\ stored[k].received
        /\ stored[k].chunk \in end .. rcvBase + m.window - 1
    BY <1>9
  <2>2. /\ stored[k].chunk < sndNext /\ stored[k].chunk % m.window = k
        /\ stored[k].data = stored[k].chunk
    BY <1>3, <2>1
  <2> QED
    BY <1>6, <2>1, <2>2, Constants
<1>11. ASSUME NEW g \in Frames, ToRcvFrameInv(m, g), ToRcvOrder(m, Head(toRcv), g)
       PROVE  ToRcvFrameInv(m, g)'
  <2>1. g.type # "START" /\ ~OldFrame(m, g) /\ (g.type = "DATA" => \A k \in 0 .. m.window - 1 :
            stored[k].received => stored[k].chunk + 1 <= g.chunk + m.window)
    BY <1>3, <1>11
  <2>2. CASE g.type # "DATA"
    BY <1>1, <1>11, <2>1, <2>2 DEF ToRcvFrameInv, StartFrame, DataFrame
  <2>3. CASE g.type = "DATA"
    <3>1. /\ g.chunk \in Chunks(m) /\ g = DataFrame(m, g.chunk) /\ g.chunk < sndNext
          /\ outcome' # "error"
      BY <1>4, <1>11, <2>1, <2>3 DEF ToRcvFrameInv, StartFrame, ErrorFrame, AnswerDelivery
    <3>2. (end - 1) % m.window \in 0 .. m.window - 1
      BY <1>6, SlotType
    <3>3. end <= g.chunk + m.window
      <4>1. (end - 1) + 1 <= g.chunk + m.window
        BY <1>5, <2>1, <2>3, <3>2
      <4> QED
        BY <1>6, <4>1
    <3>4. \A k \in 0 .. m.window - 1 : (ring'[k]).received =>
              (ring'[k]).chunk + 1 <= g.chunk + m.window
      BY <1>9, <2>1, <2>3
    <3> QED
      BY <1>1, <1>4, <3>1, <3>3, <3>4 DEF ToRcvFrameInv
  <2> QED
    BY <2>2, <2>3
<1>12. ToRcvInv(m)'
  BY <1>1, <1>11, ToRcvAfterTail
<1>13. WindowsInv(m)'
  BY <1>1, <1>4, <1>5, <1>6 DEF WindowsInv
<1>14. PhaseInv(m)'
  <2>1. outcome = "none" /\ (Started <=> Started') /\ (sndPhase = "aborted") = (sndPhase' = "aborted")
    BY <1>1 DEF PhaseInv, TypeOK, Started
  <2>2. CASE end = m.chunks
    <3>1. /\ rcvPhase' = "idle" /\ outcome' = "complete"
          /\ recent' = TailNumbers(m)
      BY <1>4, <2>2 DEF AnswerDelivery
    <3> QED
      BY <1>1, <1>4, <2>1, <2>2, <3>1 DEF PhaseInv, Opened
  <2>3. CASE end # m.chunks
    <3>1. UNCHANGED <<rcvPhase, outcome, recent>>
      BY <1>4, <2>3 DEF AnswerDelivery
    <3> QED
      BY <1>1, <1>4, <2>1, <2>3, <3>1 DEF PhaseInv, Opened
  <2> QED
    BY <2>2, <2>3
<1>15. TypeOK(m)'
  <2>1. toRcv' \in Seq(Frames)
    BY <1>1, TailCases DEF TypeOK
  <2>2. rcvPhase' \in {"idle", "receiving"}
        /\ outcome' \in {"none", "complete", "error"} /\ since' \in Nat
    <3>1. since' \in Nat
      <4>1. since + (end - rcvBase) \in Nat
        BY <1>6
      <4>2. since' = 0 \/ since' = since + (end - rcvBase)
        BY <1>4 DEF AnswerDelivery
      <4> QED
        BY <4>1, <4>2
    <3>2. /\ rcvPhase' = "idle" \/ rcvPhase' = rcvPhase
          /\ outcome' = "complete" \/ outcome' = outcome
      BY <1>4 DEF AnswerDelivery
    <3> QED
      BY <3>1, <3>2 DEF TypeOK
  <2>3. recent' \in SUBSET SeqNumbers
    <3>1. TailNumbers(m) \in SUBSET SeqNumbers
      BY SeqOfType DEF Chunks, TailNumbers
    <3> QED
      BY <1>4, <3>1 DEF AnswerDelivery, TypeOK
  <2>4. rcvBase' \in 0 .. m.chunks
    BY <1>4, <1>5, Constants
  <2> QED
    BY <1>1, <1>7, <1>8, <1>9, <2>1, <2>2, <2>3, <2>4 DEF TypeOK
<1> QED
  BY <1>7, <1>8, <1>10, <1>12, <1>13, <1>14, <1>15

(* What the invariant says of the frame that is read next. *)

LEMMA ControlUnderstood ==
    ASSUME NEW m \in Messages, IInv(m)
    PROVE  ControlNamesItsChunk(m)
<1> SUFFICES ASSUME Waiting(m), toSnd # << >>, NEW c \in PendingWith(m, Head(toSnd).seq)
             PROVE  c = Head(toSnd).chunk
  BY DEF ControlNamesItsChunk
<1>1. Head(toSnd) \in Frames /\ ToSndFrameInv(m, Head(toSnd))
  BY HeadOfToSnd
<1>2. Started
  BY DEF Waiting, Started
<1> QED
  BY <1>1, <1>2, PendingIsChunk DEF IInv

LEMMA DataUnderstood ==
    ASSUME NEW m \in Messages, IInv(m)
    PROVE  NoDataIsInvalid(m)
<1> SUFFICES ASSUME rcvPhase = "receiving", Arriving({"DATA"})
             PROVE  AcceptStatus(m, Head(toRcv)) # "INVALID"
  BY DEF NoDataIsInvalid
<1> DEFINE f == Head(toRcv)
<1>1. f \in Frames /\ ToRcvFrameInv(m, f) /\ f.type = "DATA" /\ Opened
  BY HeadOfToRcv DEF Arriving, Opened
<1> HIDE DEF f
<1>2. AcceptStatus(m, f) \in {"DUPLICATE", "ACCEPTED"}
  <2>1. rcvBase \in Nat /\ f.chunk \in Int
    BY <1>1, Constants DEF IInv, TypeOK, Frames
  <2> QED
    BY <1>1, <2>1, DataStatus DEF IInv
<1> QED
  BY <1>2 DEF f

(* Outside a reception the numbers of all the data that arrives are still *)
(* answered.                                                               *)
LEMMA LateDataInRecent ==
    ASSUME NEW m \in Messages, IInv(m), rcvPhase = "idle", Arriving({"DATA"})
    PROVE  Head(toRcv).seq \in recent
<1> DEFINE f == Head(toRcv)
<1>1. f \in Frames /\ ToRcvFrameInv(m, f) /\ f.type = "DATA"
  BY HeadOfToRcv DEF Arriving
<1> HIDE DEF f
<1>2. SUFFICES ASSUME Opened, outcome # "error" PROVE f.seq \in recent
  BY <1>1, OldOrOpened DEF f
<1>3. outcome = "complete" /\ rcvBase = m.chunks /\ recent = TailNumbers(m)
  BY <1>2 DEF Opened, IInv, PhaseInv, TypeOK
<1>4. f.chunk \in Chunks(m) /\ f = DataFrame(m, f.chunk) /\ rcvBase <= f.chunk + m.window
  BY <1>1, <1>2, DataStatus DEF IInv
<1>5. f.chunk >= m.chunks - m.window /\ f.seq = SeqOf(m, f.chunk)
  BY <1>3, <1>4, Constants DEF Chunks, DataFrame
<1> QED
  BY <1>3, <1>4, <1>5 DEF TailNumbers

-----------------------------------------------------------------------------
(* The invariant holds of every behaviour. *)

LEMMA InitInv ==
    ASSUME NEW m \in Messages, Init(m)
    PROVE  IInv(m)
<1> USE DEF Init
<1>1. EmptySlot \in Slots /\ ~EmptySlot.received
  BY DEF EmptySlot, Slots
<1>2. /\ ring \in [0 .. m.window - 1 -> Slots]
      /\ \A k \in 0 .. m.window - 1 : ~ring[k].received
  BY <1>1 DEF EmptyRing
<1>3. TypeOK(m)
  <2>1. written \in Seq(Int) /\ toRcv \in Seq(Frames) /\ toSnd \in Seq(Frames)
    OBVIOUS
  <2> QED
    BY <1>2, <2>1, Constants DEF TypeOK
<1>4. WindowsInv(m) /\ PhaseInv(m)
  BY Constants DEF WindowsInv, PhaseInv, Started, Opened
<1>5. RingInv(m) /\ WrittenInv /\ ToRcvInv(m) /\ ToSndInv(m)
  BY <1>2 DEF RingInv, WrittenInv, ToRcvInv, ToSndInv
<1> QED
  BY <1>3, <1>4, <1>5 DEF IInv

LEMMA StutterInv ==
    ASSUME NEW m \in Messages, IInv(m), UNCHANGED vars
    PROVE  IInv(m)'
BY DEF vars, sndVars, rcvVars, IInv, TypeOK, WindowsInv, PhaseInv, RingInv,
       WrittenInv, ToRcvInv, ToRcvFrameInv, ToSndInv, ToSndFrameInv,
       OldFrame, Opened, Started

LEMMA StepInv ==
    ASSUME NEW m \in Messages, IInv(m), [Next(m)]_vars
    PROVE  IInv(m)'
<1>1. CASE SenderNext(m)
  BY <1>1, SendStartStep, StartTimeoutStep, ReceiveStartControlStep,
     QueueChunkStep, ReadErrorStep, ReceiveAckStep, ReceiveNackStep,
     IgnoreControlStep, AckTimeoutStep, RetransmitStep DEF SenderNext
<1>2. CASE ReceiverNext(m)
  BY <1>2, ReceiveStartStep, ReceiveErrorStep, ReceiveLateDataStep,
     ReceiveUnacceptedStep, StoreChunkStep, DeliverChunksStep,
     ReceiveTimeoutStep DEF ReceiverNext
<1>3. CASE Finished
  BY <1>3, StutterInv DEF Finished
<1>4. CASE UNCHANGED vars
  BY <1>4, StutterInv
<1> QED
  BY <1>1, <1>2, <1>3, <1>4 DEF Next

(* The two windows, the ring and every frame in flight stay consistent: no *)
(* step of send_fragmented_data_and_wait_ack or receive_file_message, with *)
(* any loss, leaves a frame that could be taken for another chunk's.       *)
THEOREM InductiveInvariant == Spec => []TransferInv
<1>1. Init(Message) => TransferInv
  BY MessageAssumption, InitInv DEF TransferInv
<1>2. TransferInv /\ [Next(Message)]_vars => TransferInv'
  BY MessageAssumption, StepInv DEF TransferInv
<1> QED
  BY <1>1, <1>2, PTL DEF Spec

(* Every variable of the two windows stays in its range. *)
THEOREM TypeCorrect == Spec => []TypeOK(Message)
<1>1. TransferInv => TypeOK(Message)
  BY DEF TransferInv, IInv
<1> QED
  BY <1>1, InductiveInvariant, PTL

(* The receiver writes the chunks of the message in order, each once. *)
THEOREM DeliveryInOrder == Spec => []WrittenInOrder
<1>1. TransferInv => WrittenInOrder
  BY DEF TransferInv, IInv, WrittenInv, WrittenInOrder
<1> QED
  BY <1>1, InductiveInvariant, PTL

(* What the sender released was delivered: no old ACK or NACK, taken for   *)
(* another chunk's after the 6-bit numbers wrapped, ever frees a slot.     *)
THEOREM ConfirmationIsSafe == Spec => []ConfirmedIsWritten
<1>1. TransferInv => ConfirmedIsWritten
  BY DEF TransferInv, IInv, WindowsInv, WrittenInv, ConfirmedIsWritten
<1> QED
  BY <1>1, InductiveInvariant, PTL

(* sender_find_slot, which compares only sequence numbers, finds the slot  *)
(* of the chunk the control frame is about.                                *)
THEOREM ControlIsUnambiguous == Spec => []ControlIsUnderstood
<1>1. TransferInv => ControlIsUnderstood
  BY MessageAssumption, ControlUnderstood DEF TransferInv, ControlIsUnderstood
<1> QED
  BY <1>1, InductiveInvariant, PTL

(* net_window_receiver_accept rejects no frame of the transfer. *)
THEOREM DataIsNeverInvalid == Spec => []DataIsUnderstood
<1>1. TransferInv => DataIsUnderstood
  BY MessageAssumption, DataUnderstood DEF TransferInv, DataIsUnderstood
<1> QED
  BY <1>1, InductiveInvariant, PTL

(* The slots of the sender are its window and net_window_sender_queue      *)
(* always finds a free one.                                                *)
THEOREM SlotsAreTheWindow == Spec => []NoSlotLeak
<1>1. TransferInv => NoSlotLeak
  BY DEF TransferInv, IInv, WindowsInv, PhaseInv, NoSlotLeak, Pending
<1> QED
  BY <1>1, InductiveInvariant, PTL

(* A DATA frame read after completion is in the cache of recent numbers.   *)
THEOREM LateDataAnswered == Spec => []LateDataIsAnswered
<1>1. TransferInv => LateDataIsAnswered
  BY MessageAssumption, LateDataInRecent DEF TransferInv, LateDataIsAnswered
<1> QED
  BY <1>1, InductiveInvariant, PTL

-----------------------------------------------------------------------------
(* A reception that ended stays ended. *)

LEMMA OutcomeStays ==
    ASSUME [Next(Message)]_vars, TypeOK(Message)
    PROVE  outcome' = "none" => outcome = "none"
<1>1. CASE SenderNext(Message)
  BY <1>1 DEF SenderNext, SendStart, StartTimeout, ReceiveStartControl,
     QueueChunk, ReadError, ReceiveAck, SenderComplete, ReceiveNack, IgnoreControl,
     AckTimeout, Retransmit, rcvVars
<1>2. CASE ReceiverNext(Message)
  BY <1>2 DEF ReceiverNext, ReceiveStart, ReceiveError, ReceiveLateData,
     ReceiveUnaccepted, StoreChunk, DeliverChunks, AnswerDelivery,
     ReceiveTimeout, rcvVars
<1> QED
  BY <1>1, <1>2 DEF Next, Finished, vars, rcvVars

(* No late copy of a start frame reopens a message that was received: the  *)
(* file is never truncated again.                                          *)
THEOREM ReceptionEndsOnce == Spec => NeverReopened
<1>1. ASSUME TransferInv, [Next(Message)]_vars, TransferInv', outcome # "none"
      PROVE  rcvPhase' = "idle"
  <2>1. outcome' # "none"
    BY <1>1, OutcomeStays DEF TransferInv, IInv
  <2> QED
    BY <1>1, <2>1 DEF TransferInv, IInv, PhaseInv
<1>2. TransferInv /\ [Next(Message)]_vars /\ TransferInv' => [outcome # "none" => rcvPhase' = "idle"]_vars
  BY <1>1
<1> QED
  BY <1>2, InductiveInvariant, PTL DEF Spec, NeverReopened

-----------------------------------------------------------------------------
(* The window protocol implements in-order delivery. *)

LEMMA InitDelivery ==
    ASSUME Init(Message)
    PROVE  Delivery!AbsInit
BY DEF Init, Delivery!AbsInit, Report

(* What a step of the sender is to its caller and to the other side: it     *)
(* learns of some more chunks, gives up a message that is not whole, or     *)
(* changes nothing.                                                         *)
LEMMA SenderEffect ==
    ASSUME NEW m \in Messages, IInv(m), IInv(m)', SenderNext(m)
    PROVE  /\ written' = written /\ Reception' = Reception
           /\ \/ sndBase' = sndBase /\ Report' = Report
              \/ /\ sndBase' = sndBase /\ Reception = "open"
                 /\ Report = "running" /\ Report' = "failure"
              \/ /\ Report = "running" /\ sndBase' \in sndBase + 1 .. Len(written)
                 /\ Report' = IF sndBase' = m.chunks THEN "success" ELSE "running"
<1> USE DEF IInv
<1>1. written' = written /\ rcvBase' = rcvBase /\ rcvPhase' = rcvPhase /\ outcome' = outcome
  BY DEF SenderNext, SendStart, StartTimeout, ReceiveStartControl,
     QueueChunk, ReadError, ReceiveAck, SenderComplete, ReceiveNack, IgnoreControl,
     AckTimeout, Retransmit, rcvVars
<1>2. Reception' = Reception
  BY <1>1 DEF Reception
<1>3. CASE SendStart(m) \/ StartTimeout \/ ReceiveStartControl(m) \/ QueueChunk(m)
           \/ IgnoreControl(m) \/ AckTimeout(m) \/ Retransmit(m)
  <2>1. sndBase' = sndBase
    BY <1>3 DEF SendStart, StartTimeout, ReceiveStartControl, QueueChunk,
       IgnoreControl, AckTimeout, Retransmit, sndVars
  <2>2. Report' = Report
    <3>1. sndPhase' # "failed"
      BY DEF PhaseInv
    <3> QED
      BY <1>3, <3>1 DEF SendStart, StartTimeout, ReceiveStartControl,
         QueueChunk, IgnoreControl, AckTimeout, Retransmit, sndVars, Report
  <2> QED
    BY <1>1, <1>2, <2>1, <2>2
<1>4. CASE ReadError(m)
  <2>1. sndBase' = sndBase /\ Report = "running" /\ Report' = "failure"
    BY <1>4 DEF ReadError, Report
  <2>2. sndPhase = "data" /\ sndNext < m.chunks
    BY <1>4 DEF ReadError, CanQueue
  <2>3. rcvBase < m.chunks
    <3>1. m.chunks \in Nat
      BY Constants
    <3>2. rcvBase \in Nat /\ sndNext \in Nat /\ rcvBase <= sndNext
      BY <3>1 DEF WindowsInv, TypeOK
    <3> QED
      BY <2>2, <3>1, <3>2
  <2>4. outcome # "complete" /\ outcome # "error" /\ Opened
    BY <2>2, <2>3 DEF PhaseInv, TypeOK, Started
  <2>5. Reception = "open"
    BY <2>4 DEF Opened, Reception, TypeOK
  <2> QED
    BY <1>1, <1>2, <2>1, <2>5
<1>5. CASE ReceiveAck(m) \/ ReceiveNack(m)
  <2>1. sndBase' \in sndBase .. sndNext /\ sndPhase = "data"
        /\ sndPhase' \in {"data", "complete"}
    <3>1. sndBase \in sndBase .. sndNext
      BY Constants DEF TypeOK, WindowsInv
    <3> QED
      BY <1>5, <3>1 DEF ReceiveAck, SenderComplete, ReceiveNack, Waiting, ConfirmThrough
  <2>2. sndBase \in Nat /\ sndBase' \in Nat /\ rcvBase \in Nat
    BY Constants DEF TypeOK
  <2>3. sndBase' <= Len(written)
    BY <1>1, <2>2 DEF WindowsInv, WrittenInv
  <2>4. Report = "running"
        /\ Report' = IF sndBase' = m.chunks THEN "success" ELSE "running"
    BY <2>1 DEF PhaseInv, Report
  <2>5. CASE sndBase' = sndBase
    <3>1. sndBase # m.chunks
      BY <2>1 DEF PhaseInv
    <3> QED
      BY <1>1, <1>2, <2>4, <2>5, <3>1
  <2>6. CASE sndBase' # sndBase
    <3>1. Len(written) \in Nat
      BY <2>2 DEF WrittenInv
    <3>2. sndBase' \in sndBase + 1 .. Len(written)
      BY <2>1, <2>2, <2>3, <2>6, <3>1, Constants DEF TypeOK
    <3> QED
      BY <1>1, <1>2, <2>4, <3>2
  <2> QED
    BY <2>5, <2>6
<1> QED
  BY <1>3, <1>4, <1>5 DEF SenderNext

(* What a step of the receiver is: it opens the message, writes some more   *)
(* chunks, learns that it was given up, or changes nothing.                 *)
LEMMA ReceiverEffect ==
    ASSUME NEW m \in Messages, IInv(m), IInv(m)', ReceiverNext(m)
    PROVE  /\ sndBase' = sndBase /\ Report' = Report
           /\ \/ written' = written /\ Reception' = Reception
              \/ /\ Reception = "none" /\ written = << >> /\ sndBase = 0
                 /\ Report = "running" /\ Reception' = "open" /\ written' = << >>
              \/ /\ Reception = "open" /\ rcvBase' \in Len(written) + 1 .. m.chunks
                 /\ rcvBase' <= sndBase + m.window
                 /\ written' = [i \in 1 .. rcvBase' |-> i - 1]
                 /\ Reception' = IF rcvBase' = m.chunks THEN "whole" ELSE "open"
              \/ /\ Reception = "open" /\ Report = "failure"
                 /\ written' = written /\ Reception' = "broken"
<1> USE DEF IInv
<1>1. /\ sndBase' = sndBase /\ sndNext' = sndNext /\ sndPhase' = sndPhase
      /\ Report' = Report
  BY DEF ReceiverNext, ReceiveStart, ReceiveError, ReceiveLateData,
     ReceiveUnaccepted, StoreChunk, DeliverChunks, ReceiveTimeout, sndVars,
     Report
<1>2. CASE ReceiveLateData \/ ReceiveUnaccepted(m) \/ StoreChunk(m) \/ ReceiveTimeout(m)
  BY <1>1, <1>2 DEF ReceiveLateData, ReceiveUnaccepted, StoreChunk, ReceiveTimeout,
     rcvVars, Reception
<1>3. CASE ReceiveError
  <2>1. written' = written
    BY <1>3 DEF ReceiveError
  <2>2. CASE rcvPhase = "receiving"
    <3>1. outcome' = "error" /\ rcvPhase' = "idle"
      BY <1>3, <2>2 DEF ReceiveError
    <3>2. Reception = "open"
      BY <2>2 DEF Reception
    <3>3. Reception' = "broken"
      BY <3>1 DEF Reception
    <3>4. Report = "failure"
      BY <1>1, <3>1 DEF PhaseInv, Report
    <3> QED
      BY <1>1, <2>1, <3>2, <3>3, <3>4
  <2>3. CASE rcvPhase # "receiving"
    <3>1. rcvPhase' # "receiving" /\ outcome' = outcome
      BY <1>3, <2>3 DEF ReceiveError
    <3>2. Reception' = Reception
      BY <2>3, <3>1 DEF Reception
    <3> QED
      BY <1>1, <2>1, <3>2
  <2> QED
    BY <2>2, <2>3
<1>4. CASE ReceiveStart(m)
  <2>1. rcvBase = 0 /\ outcome = "none" /\ written = << >>
    <3>1. toRcv # << >> /\ Head(toRcv).type = "START"
      BY <1>4 DEF ReceiveStart, Arriving
    <3>2. rcvBase = 0 /\ outcome = "none"
      <4>1. ToRcvFrameInv(m, Head(toRcv))
        BY <3>1, HeadOfToRcv
      <4> QED
        BY <3>1, <4>1 DEF ToRcvFrameInv, ErrorFrame, DataFrame
    <3> QED
      BY <3>2 DEF WrittenInv, TypeOK
  <2>2. CASE rcvPhase = "idle"
    <3>1. Reception = "none" /\ Reception' = "open" /\ written' = << >>
      BY <1>4, <2>1, <2>2 DEF ReceiveStart, Reception
    <3>2. ~Started
      BY <2>1, <2>2 DEF PhaseInv, Opened
    <3>3. Report = "running"
      BY <3>2 DEF Report, Started
    <3>4. sndBase = 0
      BY <2>1, Constants DEF WindowsInv, TypeOK
    <3> QED
      BY <1>1, <2>1, <3>1, <3>3, <3>4
  <2>3. CASE rcvPhase # "idle"
    <3>1. written' = written /\ rcvPhase' = rcvPhase /\ outcome' = outcome
      BY <1>4, <2>3 DEF ReceiveStart
    <3> QED
      BY <1>1, <3>1 DEF Reception
  <2> QED
    BY <2>2, <2>3
<1>5. CASE DeliverChunks(m)
  <2>1. rcvBase \in Nat /\ sndBase \in Nat /\ rcvBase' \in 0 .. m.chunks
        /\ sndNext \in Nat
    BY Constants DEF TypeOK
  <2>2. rcvBase' >= rcvBase + 1
    BY <1>5, <2>1, Constants DEF DeliverChunks
  <2>3. rcvBase' \in Len(written) + 1 .. m.chunks
    BY <2>1, <2>2, Constants DEF WrittenInv
  <2>4. rcvBase' <= sndBase + m.window
    <3>1. m.window \in Nat
      BY Constants
    <3> QED
      BY <1>1, <2>1, <3>1 DEF WindowsInv
  <2>5. written' = [i \in 1 .. rcvBase' |-> i - 1]
    <3>1. /\ written' \in Seq(Int) /\ Len(written') = rcvBase'
          /\ \A i \in 1 .. Len(written') : written'[i] = i - 1
      BY DEF WrittenInv, TypeOK
    <3> QED
      BY <3>1
  <2>6. rcvPhase = "receiving" /\ outcome = "none"
    BY <1>5 DEF DeliverChunks, PhaseInv
  <2>7. /\ rcvBase' = m.chunks => rcvPhase' = "idle" /\ outcome' = "complete"
        /\ rcvBase' # m.chunks => rcvPhase' = "receiving"
    BY <1>5, <2>6 DEF DeliverChunks, AnswerDelivery
  <2>8. Reception = "open" /\ Reception' = IF rcvBase' = m.chunks THEN "whole" ELSE "open"
    BY <2>6, <2>7 DEF Reception
  <2> QED
    BY <1>1, <2>3, <2>4, <2>5, <2>8
<1> QED
  BY <1>2, <1>3, <1>4, <1>5 DEF ReceiverNext

LEMMA StepDelivery ==
    ASSUME IInv(Message), IInv(Message)', [Next(Message)]_vars
    PROVE  [Delivery!AbsNext]_(Delivery!absVars)
<1>1. CASE UNCHANGED vars
  BY <1>1 DEF vars, sndVars, rcvVars, Delivery!absVars, Report
<1>2. CASE SenderNext(Message)
  BY <1>2, MessageAssumption, SenderEffect
     DEF Delivery!AbsNext, Delivery!Confirm, Delivery!GiveUp, Delivery!absVars
<1>3. CASE ReceiverNext(Message)
  BY <1>3, MessageAssumption, ReceiverEffect
     DEF Delivery!AbsNext, Delivery!Write, Delivery!absVars
<1> QED
  BY <1>1, <1>2, <1>3 DEF Next, Finished

(* Every behaviour of the two loops over a link that loses frames is one of *)
(* in-order delivery: what is written is a prefix of the message, what the  *)
(* sender confirms is written, and it reports success only at the end.      *)
THEOREM ProtocolImplementsDelivery == Spec => ImplementsDelivery
<1>1. Init(Message) => Delivery!AbsInit
  BY InitDelivery
<1>2. TransferInv /\ TransferInv' /\ [Next(Message)]_vars
          => [Delivery!AbsNext]_(Delivery!absVars)
  BY StepDelivery DEF TransferInv
<1> QED
  BY <1>1, <1>2, InductiveInvariant, PTL
     DEF Spec, ImplementsDelivery, Delivery!AbsSpec

-----------------------------------------------------------------------------
(* The timers only choose among the steps of the transfer: a timeout when   *)
(* the wait is over, a loss while some are left.                            *)

LEMMA TimedSenderStep ==
    ASSUME TimedSend \/ TimedReadStartControl \/ TimedReadControl \/ SenderTimeout
    PROVE  SenderNext(Message)
<1>1. CASE TimedSend
  BY <1>1 DEF TimedSend, SenderNext
<1>2. CASE TimedReadStartControl
  BY <1>2 DEF TimedReadStartControl, SenderNext
<1>3. CASE TimedReadControl
  BY <1>3 DEF TimedReadControl, SenderNext
<1>4. CASE SenderTimeout
  BY <1>4 DEF SenderTimeout, SenderNext
<1> QED
  BY <1>1, <1>2, <1>3, <1>4

LEMMA TimedReceiverStep ==
    ASSUME TimedReceive \/ ReceiverTimeout
    PROVE  ReceiverNext(Message) \/ UNCHANGED vars
<1>1. CASE TimedReceive
  BY <1>1 DEF TimedReceive, ReceiverNext
<1>2. CASE ReceiverTimeout
  BY <1>2 DEF ReceiverTimeout, ReceiverNext
<1> QED
  BY <1>1, <1>2

(* With any timeouts and any losses the two loops behave as without timers, *)
(* so what is proved of Spec holds of TimedSpec.                            *)
THEOREM TimedIsATransfer == TimedSpec => Spec
<1>1. TimedInit => Init(Message)
  BY DEF TimedInit
<1>2. ASSUME [TimedNext]_timedVars PROVE [Next(Message)]_vars
  <2>1. CASE UNCHANGED timedVars
    BY <2>1 DEF timedVars
  <2>2. CASE Tick \/ TimedFinished
    BY <2>2 DEF Tick, TimedFinished, timedVars
  <2> QED
    BY <1>2, <2>1, <2>2, TimedSenderStep, TimedReceiverStep DEF TimedNext, Next
<1> QED
  BY <1>1, <1>2, PTL DEF TimedSpec, Spec

(* A sender that gives up for a read error has chunks left to send. *)
GivesUpEarly == sndPhase = "aborted" => sndNext < Message.chunks

LEMMA GivesUpEarlyStep ==
    ASSUME TypeOK(Message), GivesUpEarly, [Next(Message)]_vars
    PROVE  GivesUpEarly'
<1>1. CASE SenderNext(Message)
  BY <1>1 DEF GivesUpEarly, SenderNext, SendStart, StartTimeout, ReceiveStartControl,
     QueueChunk, ReadError, CanQueue, ReceiveAck, ReceiveNack, IgnoreControl, Waiting,
     AckTimeout, Retransmit, sndVars
<1>2. CASE ReceiverNext(Message)
  BY <1>2 DEF GivesUpEarly, ReceiverNext, ReceiveStart, ReceiveError, ReceiveLateData,
     ReceiveUnaccepted, StoreChunk, DeliverChunks, ReceiveTimeout, sndVars
<1> QED
  BY <1>1, <1>2 DEF GivesUpEarly, Next, Finished, vars, sndVars

(* When both loops have returned, with any timeouts and any losses, they    *)
(* agree on how the message ended: the half of TransferEnds that does not   *)
(* speak of their returning.                                                *)
THEOREM ReturnedEndsAgree == TimedSpec => [](BothReturned => EndsAgree)
<1>1. Init(Message) => GivesUpEarly
  BY DEF Init, GivesUpEarly
<1>2. TransferInv /\ GivesUpEarly /\ [Next(Message)]_vars => GivesUpEarly'
  BY GivesUpEarlyStep DEF TransferInv, IInv
<1>3. TransferInv /\ GivesUpEarly => (BothReturned => EndsAgree)
  <2> SUFFICES ASSUME TransferInv, GivesUpEarly, BothReturned PROVE EndsAgree
    OBVIOUS
  <2>1. TypeOK(Message) /\ WindowsInv(Message) /\ PhaseInv(Message)
    BY DEF TransferInv, IInv
  <2>2. Message.chunks \in Nat \ {0}
    BY MessageAssumption, Constants
  <2>3. ASSUME sndPhase = "complete" PROVE outcome = "complete"
    BY <2>1, <2>2, <2>3 DEF PhaseInv, WindowsInv, TypeOK
  <2>4. ASSUME sndPhase = "aborted" PROVE outcome = "error"
    <3>1. outcome # "none"
      BY <2>1, <2>4 DEF PhaseInv, Started, Opened, BothReturned
    <3>2. rcvBase < Message.chunks
      BY <2>1, <2>2, <2>4 DEF GivesUpEarly, WindowsInv, TypeOK
    <3>3. outcome # "complete"
      BY <2>1, <3>2 DEF PhaseInv, TypeOK
    <3> QED
      BY <2>1, <3>1, <3>3 DEF TypeOK
  <2> QED
    BY <2>3, <2>4 DEF EndsAgree
<1> QED
  BY <1>1, <1>2, <1>3, InductiveInvariant, TimedIsATransfer, PTL DEF Spec
=============================================================================
