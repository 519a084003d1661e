------------------------- MODULE GameSessionProofs --------------------------
(***************************************************************************)
(* That a session keeps its types, and its transfers apart: the invariants  *)
(* TypeInv and TransferInv, action by action.  SessionMovesProofs adds the  *)
(* moves.                                                                   *)
(***************************************************************************)
EXTENDS SessionInvariant, SequenceTheorems, TLAPS

-----------------------------------------------------------------------------
(* Numbers modulo SeqSpace. *)

LEMMA Space == SeqSpace \in Nat /\ SeqSpace >= 4
BY SeqSpaceAssumption, SessionConstants

LEMMA ModType ==
    ASSUME NEW a \in Int
    PROVE  a % SeqSpace \in SeqNumbers /\ a % SeqSpace \in Int
BY Space DEF SeqNumbers

LEMMA ModSplit ==
    ASSUME NEW a \in Int
    PROVE  \E q \in Int : a = (SeqSpace * q) + (a % SeqSpace)
<1>1. a = (SeqSpace * (a \div SeqSpace)) + (a % SeqSpace)
  BY Space
<1>2. a \div SeqSpace \in Int
  BY Space
<1>3. QED
  BY <1>1, <1>2

(* Congruent numbers that differ by less than SeqSpace are equal. *)
LEMMA ModUnique ==
    ASSUME NEW a \in Int, NEW b \in Int, a % SeqSpace = b % SeqSpace,
           a - b < SeqSpace, b - a < SeqSpace
    PROVE  a = b
<1>1. PICK q \in Int : a = (SeqSpace * q) + (a % SeqSpace)
  BY ModSplit
<1>2. PICK r \in Int : b = (SeqSpace * r) + (b % SeqSpace)
  BY ModSplit
<1> DEFINE m == a % SeqSpace
<1>3. m \in Int /\ a = (SeqSpace * q) + m /\ b = (SeqSpace * r) + m
  BY <1>1, <1>2, ModType
<1> HIDE DEF m
<1>4. a - b = SeqSpace * (q - r) /\ b - a = SeqSpace * (r - q)
  BY <1>3, Space
<1>5. CASE q - r >= 1
  <2>1. SeqSpace * (q - r) >= SeqSpace
    BY <1>5, Space
  <2>2. QED
    BY <2>1, <1>4, Space
<1>6. CASE r - q >= 1
  <2>1. SeqSpace * (r - q) >= SeqSpace
    BY <1>6, Space
  <2>2. QED
    BY <2>1, <1>4, Space
<1>7. CASE q = r
  BY <1>7, <1>3
<1>8. QED
  BY <1>5, <1>6, <1>7

LEMMA ModSmall ==
    ASSUME NEW a \in SeqNumbers
    PROVE  a % SeqSpace = a
BY Space DEF SeqNumbers

(* Multiples do not count. *)
LEMMA ModShift ==
    ASSUME NEW a \in Int, NEW q \in Int
    PROVE  ((SeqSpace * q) + a) % SeqSpace = a % SeqSpace
<1> DEFINE b == (SeqSpace * q) + a
<1>1. b \in Int
  BY Space
<1>2. PICK r \in Int : a = (SeqSpace * r) + (a % SeqSpace)
  BY ModSplit
<1>3. PICK t \in Int : b = (SeqSpace * t) + (b % SeqSpace)
  BY <1>1, ModSplit
<1> DEFINE m == a % SeqSpace
           n == b % SeqSpace
<1>4. m \in SeqNumbers /\ n \in SeqNumbers
  BY <1>1, ModType
<1>5. b = (SeqSpace * q) + a /\ a = (SeqSpace * r) + m /\ b = (SeqSpace * t) + n
  BY <1>2, <1>3
<1> HIDE DEF m, n, b
<1>6. (SeqSpace * (q + r - t)) = n - m
  BY <1>5, <1>4, Space DEF SeqNumbers
<1>7. n - m < SeqSpace /\ m - n < SeqSpace
  BY <1>4, Space DEF SeqNumbers
<1>8. q + r - t < 1
  <2>1. SUFFICES ASSUME q + r - t >= 1 PROVE FALSE
    OBVIOUS
  <2>2. SeqSpace * (q + r - t) >= SeqSpace
    BY <2>1, Space
  <2>3. QED
    BY <2>2, <1>6, <1>7, <1>4, Space DEF SeqNumbers
<1>9. q + r - t > -1
  <2>1. SUFFICES ASSUME t - (q + r) >= 1 PROVE FALSE
    OBVIOUS
  <2>2. SeqSpace * (t - (q + r)) >= SeqSpace
    BY <2>1, Space
  <2>3. SeqSpace * (t - (q + r)) = m - n
    BY <1>6, <1>4, Space DEF SeqNumbers
  <2>4. QED
    BY <2>2, <2>3, <1>7, <1>4, Space DEF SeqNumbers
<1>10. q + r - t = 0
  BY <1>8, <1>9
<1>11. n = m
  BY <1>10, <1>6, <1>4, Space DEF SeqNumbers
<1>12. QED
  BY <1>11 DEF m, n, b

LEMMA ModAdd ==
    ASSUME NEW a \in Int, NEW k \in Int
    PROVE  ((a % SeqSpace) + k) % SeqSpace = (a + k) % SeqSpace
<1>1. PICK q \in Int : a = (SeqSpace * q) + (a % SeqSpace)
  BY ModSplit
<1> DEFINE m == a % SeqSpace
<1>5. m \in Int /\ a = (SeqSpace * q) + m
  BY <1>1, ModType
<1> HIDE DEF m
<1>2. m \in Int /\ a + k = (SeqSpace * q) + (m + k)
  BY <1>5, Space
<1>3. (a + k) % SeqSpace = (m + k) % SeqSpace
  <2>1. m + k \in Int
    BY <1>2
  <2>2. ((SeqSpace * q) + (m + k)) % SeqSpace = (m + k) % SeqSpace
    BY <2>1, ModShift
  <2>3. QED
    BY <2>2, <1>2
<1>4. QED
  BY <1>3 DEF m

(* Only a multiple of SeqSpace brings a number back. *)
LEMMA ModBack ==
    ASSUME NEW a \in SeqNumbers, NEW k \in Int, (a + k) % SeqSpace = a
    PROVE  k % SeqSpace = 0
<1>1. a \in Int /\ a + k \in Int
  BY Space DEF SeqNumbers
<1>2. PICK q \in Int : a + k = (SeqSpace * q) + ((a + k) % SeqSpace)
  BY <1>1, ModSplit
<1>3. k = (SeqSpace * q) + 0
  BY <1>1, <1>2, Space
<1>4. k % SeqSpace = 0 % SeqSpace
  BY <1>3, ModShift
<1>5. QED
  BY <1>4, Space

-----------------------------------------------------------------------------
(* Links. *)

LEMMA ReadLink ==
    ASSUME NEW S, NEW link \in Seq(S), link # << >>
    PROVE  /\ Tail(link) \in Seq(S)
           /\ Head(link) \in S /\ Head(link) \in Range(link)
           /\ Range(Tail(link)) \subseteq Range(link)
           /\ Range(Tail(link)) \subseteq Behind(link, Head(link))
           /\ \A f : Behind(Tail(link), f) \subseteq Behind(link, f)
<1> DEFINE t == Tail(link)
<1>1. /\ t \in Seq(S) /\ Len(t) = Len(link) - 1
      /\ Head(link) = link[1] /\ Len(link) \in Nat /\ Len(link) >= 1
      /\ DOMAIN link = 1 .. Len(link) /\ DOMAIN t = 1 .. Len(t)
      /\ \A i \in 1 .. Len(t) : t[i] = link[i + 1]
  OBVIOUS
<1> HIDE DEF t
<1>2. Head(link) \in S /\ Head(link) \in Range(link)
  BY <1>1 DEF Range
<1>3. Range(t) \subseteq Range(link)
  BY <1>1 DEF Range
<1>4. Range(t) \subseteq Behind(link, Head(link))
  <2>1. SUFFICES ASSUME NEW i \in 1 .. Len(t)
                 PROVE  t[i] \in Behind(link, Head(link))
    BY <1>1 DEF Range
  <2>2. i + 1 \in 1 .. Len(link) /\ 1 \in 1 .. (i + 1) - 1 /\ t[i] = link[i + 1]
    BY <1>1
  <2>3. QED
    BY <2>2, <1>1 DEF Behind
<1>5. ASSUME NEW f PROVE Behind(t, f) \subseteq Behind(link, f)
  <2>1. SUFFICES ASSUME NEW q \in 1 .. Len(t), NEW p \in 1 .. q - 1, t[p] = f
                 PROVE  t[q] \in Behind(link, f)
    BY DEF Behind
  <2>2. q + 1 \in 1 .. Len(link) /\ p + 1 \in 1 .. (q + 1) - 1
    BY <1>1
  <2>3. link[p + 1] = f /\ t[q] = link[q + 1]
    BY <1>1, <2>1
  <2>4. QED
    BY <2>2, <2>3 DEF Behind
<1>6. QED
  BY <1>1, <1>2, <1>3, <1>4, <1>5 DEF t

LEMMA SendLink ==
    ASSUME NEW S, NEW link \in Seq(S), NEW f \in S, NEW next,
           next \in AfterSend(link, f)
    PROVE  /\ next \in Seq(S)
           /\ Range(next) \subseteq Range(link) \cup {f}
           /\ \A g : Behind(next, g) \subseteq
                         Behind(link, g) \cup (IF g \in Range(link) THEN {f} ELSE {})
<1>1. next = link \/ next = Append(link, f)
  BY DEF AfterSend
<1>2. CASE next = link
  BY <1>2
<1>3. CASE next = Append(link, f)
  <2>1. /\ next \in Seq(S) /\ Len(next) = Len(link) + 1 /\ Len(link) \in Nat
        /\ DOMAIN link = 1 .. Len(link) /\ DOMAIN next = 1 .. Len(next)
        /\ \A i \in 1 .. Len(link) : next[i] = link[i]
        /\ next[Len(link) + 1] = f
    BY <1>3
  <2>2. Range(next) \subseteq Range(link) \cup {f}
    BY <2>1 DEF Range
  <2>3. ASSUME NEW g
        PROVE  Behind(next, g) \subseteq
                   Behind(link, g) \cup (IF g \in Range(link) THEN {f} ELSE {})
    <3>1. SUFFICES ASSUME NEW q \in 1 .. Len(next), NEW p \in 1 .. q - 1,
                          next[p] = g
                   PROVE  \/ next[q] \in Behind(link, g)
                          \/ g \in Range(link) /\ next[q] = f
      BY DEF Behind
    <3>2. p \in 1 .. Len(link) /\ link[p] = g
      BY <2>1, <3>1
    <3>3. g \in Range(link)
      BY <3>2, <2>1 DEF Range
    <3>4. CASE q = Len(link) + 1
      BY <3>4, <3>3, <2>1
    <3>5. CASE q \in 1 .. Len(link)
      BY <3>5, <3>2, <2>1 DEF Behind
    <3>6. QED
      BY <3>4, <3>5, <2>1
  <2>4. QED
    BY <2>1, <2>2, <2>3
<1>4. QED
  BY <1>1, <1>2, <1>3

LEMMA BehindIsOnIt ==
    ASSUME NEW S, NEW link \in Seq(S), NEW f
    PROVE  /\ Behind(link, f) \subseteq Range(link)
           /\ f \notin Range(link) => Behind(link, f) = {}
BY DEF Behind, Range

LEMMA LinkFrames ==
    ASSUME NEW S, NEW link \in Seq(S)
    PROVE  Range(link) \subseteq S
BY DEF Range

LEMMA EmptyLink ==
    /\ Range(<< >>) = {}
    /\ \A f : Behind(<< >>, f) = {}
BY DEF Range, Behind

-----------------------------------------------------------------------------
(* Types, and the messages of a turn. *)

TypeInv == SessionTypeOK /\ JobsInv

LEMMA JobListsShape ==
    /\ \A list \in JobLists :
           /\ list \in Seq({"VIEW", "FILE", "END"}) /\ list # << >>
           /\ Len(list) \in Nat /\ 1 <= Len(list) /\ Len(list) <= 3
           /\ Head(list) \in {"VIEW", "FILE", "END"}
           /\ Tail(list) \in JobLists \cup {<< >>}
           /\ Len(Tail(list)) = Len(list) - 1
           /\ Head(list) = "END" => Tail(list) = << >>
           /\ Head(list) = "VIEW" => list = <<"VIEW">> /\ Tail(list) = << >>
           /\ Head(list) = "FILE" => Tail(list) \in JobLists
           /\ (Len(list) = 1) <=> (Tail(list) = << >>)
    /\ <<"VIEW">> \in JobLists
    /\ TurnPlans \subseteq JobLists
    /\ << >> \notin JobLists
<1>1. ASSUME NEW list \in JobLists
      PROVE  /\ list \in Seq({"VIEW", "FILE", "END"}) /\ list # << >>
             /\ Len(list) \in Nat /\ 1 <= Len(list) /\ Len(list) <= 3
             /\ Head(list) \in {"VIEW", "FILE", "END"}
             /\ Tail(list) \in JobLists \cup {<< >>}
             /\ Len(Tail(list)) = Len(list) - 1
             /\ Head(list) = "END" => Tail(list) = << >>
             /\ Head(list) = "VIEW" => list = <<"VIEW">> /\ Tail(list) = << >>
             /\ Head(list) = "FILE" => Tail(list) \in JobLists
             /\ (Len(list) = 1) <=> (Tail(list) = << >>)
  <2>1. CASE list = <<"VIEW">>
    BY <2>1 DEF JobLists, AllPlans
  <2>2. CASE list = <<"FILE", "VIEW">>
    <3>1. Tail(list) = <<"VIEW">>
      BY <2>2
    <3>2. QED
      BY <2>2, <3>1 DEF JobLists, AllPlans
  <2>3. CASE list = <<"FILE", "END">>
    <3>1. Tail(list) = <<"END">>
      BY <2>3
    <3>2. QED
      BY <2>3, <3>1 DEF JobLists, AllPlans
  <2>4. CASE list = <<"FILE", "FILE", "END">>
    <3>1. Tail(list) = <<"FILE", "END">>
      BY <2>4
    <3>2. QED
      BY <2>4, <3>1 DEF JobLists, AllPlans
  <2>5. CASE list = <<"END">>
    BY <2>5 DEF JobLists, AllPlans
  <2>6. QED
    BY <2>1, <2>2, <2>3, <2>4, <2>5 DEF JobLists, AllPlans
<1>2. QED
  BY <1>1, SessionConstants DEF JobLists, AllPlans

LEMMA NumbersAreTyped ==
    ASSUME SessionTypeOK
    PROVE  /\ HeadSeq \in SeqNumbers /\ HeadSeq \in Int
           /\ \A c \in Int : SequenceForIndex(HeadSeq, c) \in SeqNumbers
           /\ \A s \in SeqNumbers, n \in Int :
                  /\ SequenceAddCount(s, n) \in SeqNumbers
                  /\ NextSequence(s) \in SeqNumbers
           /\ Expected \in SeqNumbers /\ Delivered \in SeqNumbers
<1>1. \A s \in SeqNumbers : s \in Int
  BY Space DEF SeqNumbers
<1>2. sSeq \in Int /\ cBase \in Int /\ cNext \in Int
  BY <1>1 DEF SessionTypeOK, ServerTypeOK, ClientTypeOK
<1>3. HeadSeq \in SeqNumbers
  BY <1>2, ModType DEF HeadSeq, NextSequence
<1>4. HeadSeq \in Int
  BY <1>3, <1>1
<1>5. \A c \in Int : SequenceForIndex(HeadSeq, c) \in SeqNumbers
  BY <1>4, ModType DEF SequenceForIndex
<1>6. \A c \in Int : SequenceForIndex(cBase, c) \in SeqNumbers
  BY <1>2, ModType DEF SequenceForIndex
<1>7. \A s \in SeqNumbers, n \in Int :
          SequenceAddCount(s, n) \in SeqNumbers /\ NextSequence(s) \in SeqNumbers
  BY <1>1, ModType DEF SequenceAddCount, NextSequence
<1>8. QED
  BY <1>2, <1>3, <1>4, <1>5, <1>6, <1>7 DEF Expected, Delivered

LEMMA ChunksAreTyped ==
    \A kind : Chunks(kind) \in Nat /\ Chunks(kind) >= 1
BY SessionConstants DEF Chunks

LEMMA FrameIsTyped ==
    ASSUME NEW types, NEW t \in types, NEW s \in SeqNumbers,
           NEW a \in Nat, NEW b \in Int, NEW c \in Nat
    PROVE  Frame(t, s, <<a, b, c>>) \in Frames(types)
BY DEF Frame, Frames

(* The parts of a frame, and its answers. *)
LEMMA FrameParts ==
    ASSUME NEW types, NEW f \in Frames(types)
    PROVE  /\ f.seq \in SeqNumbers /\ f.type \in types
           /\ f.about[1] \in Nat /\ f.about[2] \in Int /\ f.about[3] \in Nat
           /\ \A t \in {"ACK", "NACK", "ERROR"} :
                  /\ Reply(f, t) \in Frames(ToServerTypes)
                  /\ Reply(f, t) \in Frames(ToClientTypes)
                  /\ Reply(f, t).type = t /\ Reply(f, t).seq = f.seq
                  /\ Reply(f, t).about = f.about
<1>1. /\ f.seq \in SeqNumbers /\ f.type \in types
      /\ f.about \in Nat \X Int \X Nat
      /\ f.about[1] \in Nat /\ f.about[2] \in Int /\ f.about[3] \in Nat
  BY DEF Frames
<1>2. \A t \in {"ACK", "NACK", "ERROR"} :
          /\ Reply(f, t) \in Frames(ToServerTypes)
          /\ Reply(f, t) \in Frames(ToClientTypes)
          /\ Reply(f, t).type = t /\ Reply(f, t).seq = f.seq
          /\ Reply(f, t).about = f.about
  BY <1>1 DEF Reply, Frame, Frames, ToServerTypes, ToClientTypes
<1>3. QED
  BY <1>1, <1>2

(* The frames that the server sends, *)
LEMMA ServerFramesAreTyped ==
    ASSUME TypeInv
    PROVE  /\ jobs # << >> => HeadFrame \in Frames(ToClientTypes)
           /\ ErrorFrame \in Frames(ToClientTypes)
           /\ DataFrame(sChunk) \in Frames(ToClientTypes)
<1>1. HeadSeq \in SeqNumbers /\ SequenceForIndex(HeadSeq, sChunk) \in SeqNumbers
  BY NumbersAreTyped DEF TypeInv, SessionTypeOK, ServerTypeOK, ClientTypeOK
<1>2. sMsg \in Nat /\ turns \in Nat /\ sChunk \in Int /\ -1 \in Int
  BY DEF TypeInv, SessionTypeOK, ServerTypeOK, ClientTypeOK
<1>3. "ERROR" \in ToClientTypes /\ "DATA" \in ToClientTypes
  BY DEF ToClientTypes
<1>4. jobs # << >> => Head(jobs) \in ToClientTypes
  BY JobListsShape DEF TypeInv, JobsInv, ToClientTypes
<1>5. jobs # << >> => HeadFrame \in Frames(ToClientTypes)
  BY <1>1, <1>2, <1>4, FrameIsTyped DEF HeadFrame
<1>6. ErrorFrame \in Frames(ToClientTypes)
  BY <1>1, <1>2, <1>3, FrameIsTyped DEF ErrorFrame
<1>7. DataFrame(sChunk) \in Frames(ToClientTypes)
  BY <1>1, <1>2, <1>3, FrameIsTyped DEF DataFrame
<1>8. QED
  BY <1>5, <1>6, <1>7

(* and the client on its own account. *)
LEMMA ClientFramesAreTyped ==
    ASSUME TypeInv
    PROVE  /\ Frame("NACK", Expected, <<cMsg, cNext, 0>>) \in Frames(ToServerTypes)
           /\ Frame("MOVE", moveSeq, <<0, moves + 1, 0>>) \in Frames(ToServerTypes)
           /\ Frame("END", moveSeq, <<0, -1, 0>>) \in Frames(ToServerTypes)
           /\ Asked \in Frames(ToServerTypes)
           /\ FileError \in Frames(ToServerTypes)
<1>1. /\ Expected \in SeqNumbers /\ moveSeq \in SeqNumbers /\ cBase \in SeqNumbers
      /\ cMsg \in Nat /\ cNext \in Int /\ moves \in Int /\ moves + 1 \in Int
      /\ -1 \in Int /\ 0 \in Nat
  BY NumbersAreTyped DEF TypeInv, SessionTypeOK, ServerTypeOK, ClientTypeOK
<1>2. {"NACK", "MOVE", "END", "ERROR"} \subseteq ToServerTypes
  BY DEF ToServerTypes
<1>3. Frame("NACK", Expected, <<cMsg, cNext, 0>>) \in Frames(ToServerTypes)
  BY <1>1, <1>2, FrameIsTyped
<1>4. Frame("MOVE", moveSeq, <<0, moves + 1, 0>>) \in Frames(ToServerTypes)
  BY <1>1, <1>2, FrameIsTyped
<1>5. Frame("MOVE", moveSeq, <<0, moves, 0>>) \in Frames(ToServerTypes)
  BY <1>1, <1>2, FrameIsTyped
<1>6. Frame("END", moveSeq, <<0, -1, 0>>) \in Frames(ToServerTypes)
  BY <1>1, <1>2, FrameIsTyped
<1>7. FileError \in Frames(ToServerTypes)
  BY <1>1, <1>2, FrameIsTyped DEF FileError
<1>8. QED
  BY <1>3, <1>4, <1>5, <1>6, <1>7 DEF Asked

LEMMA TypeInit == SessionInit => TypeInv
<1>1. 0 \in SeqNumbers
  BY Space DEF SeqNumbers
<1>2. <<"VIEW">> \in Seq({"VIEW", "FILE", "END"})
  OBVIOUS
<1>3. QED
  BY <1>1, <1>2, JobListsShape
     DEF SessionInit, TypeInv, SessionTypeOK, ServerTypeOK, ClientTypeOK,
         LinksTypeOK, JobsInv, ServerAt, NoMove, NoView

-----------------------------------------------------------------------------
(* Steps: what each side does, and that the types stay.                     *)

(* A message is done. *)
LEMMA JobIsDone ==
    ASSUME TypeInv, jobs # << >>, NEW seq \in SeqNumbers, NextJob(seq)
    PROVE  /\ sSeq' = seq /\ sSeq' \in SeqNumbers
           /\ sMsg' = sMsg + 1 /\ sMsg' \in Nat
           /\ jobs' = Tail(jobs) /\ Len(jobs') = Len(jobs) - 1
           /\ Head(jobs) = "END" => sPhase' = "ended" /\ jobs' = << >>
           /\ Head(jobs) = "VIEW" => sPhase' = "play" /\ jobs' = << >>
           /\ Head(jobs) = "FILE" => sPhase' = "head" /\ jobs' \in JobLists
           /\ jobs' \in JobLists \cup {<< >>}
           /\ jobs' \in Seq({"VIEW", "FILE", "END"})
<1>1. jobs \in JobLists
  BY DEF TypeInv, JobsInv
<1>2. sMsg \in Nat /\ jobs \in Seq({"VIEW", "FILE", "END"})
  BY DEF TypeInv, SessionTypeOK, ServerTypeOK
<1>3. Tail(jobs) \in Seq({"VIEW", "FILE", "END"})
  BY <1>1, <1>2, JobListsShape
<1>4. sSeq' = seq /\ sMsg' = sMsg + 1 /\ jobs' = Tail(jobs)
  BY DEF NextJob
<1>5. sPhase' = IF Head(jobs) = "END" THEN "ended"
                ELSE IF Len(jobs) = 1 THEN "play" ELSE "head"
  BY DEF NextJob
<1>6. /\ Tail(jobs) \in JobLists \cup {<< >>} /\ Len(Tail(jobs)) = Len(jobs) - 1
      /\ Head(jobs) = "END" => Tail(jobs) = << >>
      /\ Head(jobs) = "VIEW" => Len(jobs) = 1 /\ Tail(jobs) = << >>
      /\ Head(jobs) = "FILE" => Tail(jobs) \in JobLists /\ Len(jobs) # 1
  BY <1>1, JobListsShape
<1>7. sMsg' \in Nat
  BY <1>2, <1>4
<1>8. QED
  BY <1>3, <1>4, <1>5, <1>6, <1>7

(* The actions that leave the server as it is, and those that leave the     *)
(* client as it is.                                                         *)
ServerStays ==
    \/ HeadTimeout \/ ChunkTimeout \/ ServerReadsNack \/ ServerReadsOther
    \/ ServerReadsNoMove
    \/ PressMove \/ Quit \/ CloseKeyboard \/ ControlTimeout \/ ControlError
    \/ ControlOldData \/ ControlAcknowledged \/ ControlOther \/ ClientReadsEnd
    \/ ClientReadsStart \/ ClientReadsStartAgain \/ ClientReadsError
    \/ ClientReadsLate \/ ClientReadsForeign \/ ClientReadsOldData
    \/ ClientRefusesLength \/ ClientReadsData
    \/ DiskRefusesFile \/ DiskRefusesChunk \/ DiskFailsAtClose
    \/ ClientInterfaceFails \/ ReceiveTimeout

ServerActs ==
    \/ SendHead \/ FileUnavailable \/ SendChunk \/ FileReadError
    \/ FileCloseError \/ ServerReadsError \/ HeadAcknowledged \/ ChunkAcknowledged
    \/ ServerReadsEnd \/ ServerReadsOldMove \/ ServerReadsNewMove
    \/ ServerInterfaceFails

LEMMA Steps ==
    SessionNext => \/ (ServerStays \/ ServerActs) /\ UNCHANGED faults
                   \/ Stabilise
BY DEF SessionNext, ServerStep, ClientStep, ServerTimeout, ClientTimeout, Player,
       InterfaceFails, ServerStays, ServerActs

LEMMA ServerStaysTyped ==
    ASSUME TypeInv, ServerStays \/ Stabilise
    PROVE  ServerTypeOK' /\ JobsInv' /\ UNCHANGED serverVars
<1>1. UNCHANGED serverVars
  BY DEF ServerStays, HeadTimeout, ChunkTimeout, ServerReadsNack, ServerReadsOther,
    ServerReadsNoMove,
    PressMove, Quit, CloseKeyboard, ControlTimeout, ControlError,
    ControlOldData, ControlAcknowledged, ControlOther, ClientReadsEnd,
    ClientReadsStart, ClientReadsStartAgain, ClientReadsError,
    ClientReadsLate, ClientReadsForeign, ClientReadsOldData,
    ClientRefusesLength, ClientReadsData, DiskRefusesFile, DiskRefusesChunk, DiskFailsAtClose,
    ClientInterfaceFails, ReceiveTimeout, Stabilise
<1>2. QED
  BY <1>1 DEF serverVars, TypeInv, SessionTypeOK, ServerTypeOK, JobsInv, ServerAt

LEMMA ServerActsTyped ==
    ASSUME TypeInv, ServerActs
    PROVE  ServerTypeOK' /\ JobsInv' /\ UNCHANGED clientVars
<1> USE DEF TypeInv, SessionTypeOK, ServerTypeOK, JobsInv, ServerAt
<1>1. CASE SendHead
  BY <1>1, JobListsShape DEF SendHead
<1>2. CASE FileUnavailable
  <2>1. HeadSeq \in SeqNumbers /\ jobs # << >>
    BY <1>2, NumbersAreTyped DEF FileUnavailable
  <2>2. QED
    BY <1>2, <2>1, JobIsDone, JobListsShape DEF FileUnavailable
<1>3. CASE SendChunk
  BY <1>3 DEF SendChunk
<1>4. CASE FileReadError
  <2>1. HeadSeq \in SeqNumbers /\ jobs # << >>
    BY <1>4, NumbersAreTyped DEF FileReadError
  <2>2. QED
    BY <1>4, <2>1, JobIsDone, JobListsShape DEF FileReadError
<1>5. CASE ServerReadsError
  BY <1>5 DEF ServerReadsError
<1>6. CASE HeadAcknowledged
  <2>1. HeadSeq \in SeqNumbers /\ jobs # << >>
    BY <1>6, NumbersAreTyped DEF HeadAcknowledged, ServerArriving
  <2>2. CASE Head(jobs) = "END"
    BY <1>6, <2>1, <2>2, JobIsDone, JobListsShape DEF HeadAcknowledged
  <2>3. CASE Head(jobs) # "END"
    BY <1>6, <2>1, <2>3, ChunksAreTyped, JobListsShape DEF HeadAcknowledged
  <2>4. QED
    BY <2>2, <2>3
<1>7. CASE ChunkAcknowledged
  <2>1. HeadSeq \in SeqNumbers /\ jobs # << >> /\ sChunk \in Nat /\ sChunk + 1 \in Nat
    BY <1>7, NumbersAreTyped DEF ChunkAcknowledged, ServerArriving
  <2>2. CASE sChunk + 1 = Chunks(Head(jobs))
    <3>0. Chunks(Head(jobs)) \in Int
      BY ChunksAreTyped
    <3>1. SequenceAddCount(HeadSeq, Chunks(Head(jobs))) \in SeqNumbers
      BY ONLY <3>0, <2>1, SessionTypeOK, NumbersAreTyped
    <3>2. NextJob(SequenceAddCount(HeadSeq, Chunks(Head(jobs))))
      BY <1>7, <2>2 DEF ChunkAcknowledged
    <3>3. /\ sSeq' \in SeqNumbers /\ sMsg' \in Nat
          /\ jobs' \in JobLists \cup {<< >>}
          /\ jobs' \in Seq({"VIEW", "FILE", "END"})
          /\ Head(jobs) = "VIEW" => sPhase' = "play" /\ jobs' = << >>
          /\ Head(jobs) = "FILE" => sPhase' = "head" /\ jobs' \in JobLists
      BY <2>1, <3>1, <3>2, JobIsDone
    <3>4. Head(jobs) \in {"VIEW", "FILE"}
      BY <1>7, <2>1, JobListsShape DEF ChunkAcknowledged, ServerArriving
    <3>5. /\ sChunk' \in Nat /\ sentFiles' \in Nat
          /\ lastMove' = lastMove /\ turns' = turns
      BY <1>7, <2>1, <2>2 DEF ChunkAcknowledged
    <3>6. sPhase' \in {"play", "head"} /\ (sPhase' = "play" <=> jobs' = << >>)
      BY <3>3, <3>4, JobListsShape
    <3>7. lastMove' \in SeqNumbers \cup {NoMove} /\ turns' \in Nat
      BY <3>5
    <3>8. ServerTypeOK'
      BY <3>3, <3>5, <3>6, <3>7
    <3>9. JobsInv'
      <4>1. jobs' \in JobLists \cup {<< >>}
        BY <3>3
      <4>2. sPhase' \notin {"data", "waitData"}
        BY ONLY <3>6
      <4>3. sPhase' \in {"head", "waitHead"} => jobs' # << >>
        BY ONLY <3>6
      <4>4. sPhase' = "play" => jobs' = << >>
        BY ONLY <3>6
      <4>5. QED
        BY ONLY <4>1, <4>2, <4>3, <4>4 DEF JobsInv, ServerAt
    <3>10. QED
      BY <3>8, <3>9, <1>7 DEF ChunkAcknowledged
  <2>3. CASE sChunk + 1 # Chunks(Head(jobs))
    BY <1>7, <2>1, <2>3, ChunksAreTyped DEF ChunkAcknowledged, ServerArriving
  <2>4. QED
    BY <2>2, <2>3
<1>8. CASE ServerReadsEnd
  BY <1>8 DEF ServerReadsEnd
<1>9. CASE ServerReadsOldMove
  BY <1>9, JobListsShape DEF ServerReadsOldMove
<1>10. CASE ServerReadsNewMove
  <2>1. toServer # << >>
    BY <1>10 DEF ServerReadsNewMove, ServerArriving
  <2>2. Head(toServer).seq \in SeqNumbers
    BY <2>1, ReadLink, FrameParts DEF LinksTypeOK
  <2>3. QED
    BY <1>10, <2>2, JobListsShape DEF ServerReadsNewMove
<1>11. CASE ServerInterfaceFails
  BY <1>11 DEF ServerInterfaceFails
<1>14. CASE FileCloseError
  <2>1. HeadSeq \in SeqNumbers /\ jobs # << >> /\ sentFiles + 1 \in Nat
    BY <1>14, NumbersAreTyped DEF FileCloseError, ServerArriving
  <2>2. QED
    BY <1>14, <2>1, JobIsDone, JobListsShape DEF FileCloseError
<1>12. UNCHANGED clientVars
  BY DEF ServerActs, SendHead, FileUnavailable, SendChunk, FileReadError,
     FileCloseError, ServerReadsError, HeadAcknowledged, ChunkAcknowledged, ServerReadsEnd,
     ServerReadsOldMove, ServerReadsNewMove, ServerInterfaceFails
<1>13. QED
  BY <1>1, <1>2, <1>3, <1>4, <1>5, <1>6, <1>7, <1>8, <1>9, <1>10, <1>11, <1>12, <1>14
     DEF ServerActs

(* What the client does on its own, what it only repeats, and the same of   *)
(* the server.                                                              *)
ClientActs ==
    \/ PressMove \/ Quit \/ CloseKeyboard \/ ControlError \/ ControlAcknowledged
    \/ ClientReadsEnd \/ ClientReadsStart \/ ClientReadsError \/ ClientReadsData
    \/ DiskRefusesFile \/ DiskRefusesChunk \/ DiskFailsAtClose
    \/ ClientInterfaceFails

ClientRepeats ==
    \/ ControlTimeout \/ ControlOldData \/ ControlOther \/ ClientReadsStartAgain
    \/ ClientReadsLate \/ ClientReadsForeign \/ ClientReadsOldData
    \/ ClientRefusesLength \/ ReceiveTimeout

ServerRepeats ==
    \/ HeadTimeout \/ ChunkTimeout \/ ServerReadsNack \/ ServerReadsOther
    \/ ServerReadsNoMove

LEMMA Stays == ServerStays <=> ClientActs \/ ClientRepeats \/ ServerRepeats
BY DEF ServerStays, ClientActs, ClientRepeats, ServerRepeats

LEMMA RepeatsKeep ==
    ASSUME ClientRepeats \/ ServerRepeats \/ Stabilise
    PROVE  UNCHANGED <<serverVars, clientVars>>
BY DEF ClientRepeats, ServerRepeats, HeadTimeout, ChunkTimeout, ServerReadsNack,
   ServerReadsOther, ServerReadsNoMove, ControlTimeout, ControlOldData,
   ControlOther, ClientReadsStartAgain, ClientReadsLate, ClientReadsForeign,
   ClientReadsOldData, ClientRefusesLength, ReceiveTimeout, Stabilise

(* A frame that arrives at the client. *)
LEMMA AtTheClient ==
    ASSUME TypeInv, NEW phases, NEW types, ClientArriving(phases, types)
    PROVE  /\ toClient # << >> /\ cPhase \in phases
           /\ Head(toClient) \in Frames(ToClientTypes)
           /\ Head(toClient) \in Range(toClient)
           /\ Head(toClient).type \in types
           /\ Tail(toClient) \in Seq(Frames(ToClientTypes))
           /\ Range(Tail(toClient)) \subseteq Range(toClient)
           /\ Range(Tail(toClient)) \subseteq Behind(toClient, Head(toClient))
           /\ \A f : Behind(Tail(toClient), f) \subseteq Behind(toClient, f)
<1>1. toClient \in Seq(Frames(ToClientTypes)) /\ toClient # << >>
  BY DEF TypeInv, SessionTypeOK, LinksTypeOK, ClientArriving
<1>2. QED
  BY <1>1, ReadLink DEF ClientArriving

(* And at the server. *)
LEMMA AtTheServer ==
    ASSUME TypeInv, NEW phases, ServerArriving(phases)
    PROVE  /\ toServer # << >> /\ sPhase \in phases
           /\ Head(toServer) \in Frames(ToServerTypes)
           /\ Head(toServer) \in Range(toServer)
           /\ Tail(toServer) \in Seq(Frames(ToServerTypes))
           /\ Range(Tail(toServer)) \subseteq Range(toServer)
           /\ Range(Tail(toServer)) \subseteq Behind(toServer, Head(toServer))
           /\ \A f : Behind(Tail(toServer), f) \subseteq Behind(toServer, f)
<1>1. toServer \in Seq(Frames(ToServerTypes)) /\ toServer # << >>
  BY DEF TypeInv, SessionTypeOK, LinksTypeOK, ServerArriving
<1>2. QED
  BY <1>1, ReadLink DEF ServerArriving

(* The types, action by action. *)
LEMMA ClientActsTyped ==
    ASSUME TypeInv, ClientActs
    PROVE  ClientTypeOK'
<1>1. ClientTypeOK
  BY DEF TypeInv, SessionTypeOK
<1>2. CASE ClientKeeps /\ cPhase' \in {"ended", "failed", "idle", "waitEnd"}
  BY <1>1, <1>2 DEF ClientKeeps, ClientTypeOK
<1>3. CASE PressMove
  BY <1>1, <1>3 DEF PressMove, ClientTypeOK
<1>4. CASE ControlAcknowledged
  BY <1>1, <1>4 DEF ControlAcknowledged, ClientTypeOK
<1>5. CASE ClientReadsStart
  <2>1. Head(toClient).seq \in SeqNumbers /\ Head(toClient).about[1] \in Nat
    BY <1>5, AtTheClient, FrameParts DEF ClientReadsStart
  <2>2. QED
    BY <1>1, <1>5, <2>1 DEF ClientReadsStart, ClientTypeOK
<1>6. CASE ClientReadsData
  <2>1. Head(toClient).about[3] \in Nat
    BY <1>6, AtTheClient, FrameParts DEF ClientReadsData
  <2>2. Expected \in SeqNumbers /\ NextSequence(Expected) \in SeqNumbers
    <3>1. Expected \in SeqNumbers
      BY NumbersAreTyped DEF TypeInv
    <3>2. 0 \in Int
      OBVIOUS
    <3>3. QED
      BY <3>1, <3>2, NumbersAreTyped DEF TypeInv
  <2>3. /\ cNext' = cNext + 1 /\ UNCHANGED <<cBase, cMsg, moves>>
        /\ cPhase' \in {cPhase, "idle", "input"}
        /\ recent' \in {recent, {Expected}} /\ gotFiles' \in {gotFiles, gotFiles + 1}
        /\ moveSeq' \in {moveSeq, NextSequence(Expected)}
        /\ lastData' \in {lastData, Expected}
        /\ shown' \in {shown, Head(toClient).about[3]}
    BY <1>6 DEF ClientReadsData
  <2>4. recent' \subseteq SeqNumbers
    BY <1>1, <2>2, <2>3 DEF ClientTypeOK
  <2>5. QED
    BY <1>1, <2>1, <2>2, <2>3, <2>4 DEF ClientTypeOK
<1>7. CASE Quit \/ CloseKeyboard \/ ControlError \/ ClientReadsEnd
           \/ ClientReadsError \/ DiskRefusesFile \/ DiskRefusesChunk
           \/ DiskFailsAtClose \/ ClientInterfaceFails
  BY <1>2, <1>7 DEF Quit, CloseKeyboard, ControlError, ClientReadsEnd,
     ClientReadsError, DiskRefusesFile, DiskRefusesChunk, DiskFailsAtClose,
     ClientInterfaceFails
<1>8. QED
  BY <1>3, <1>4, <1>5, <1>6, <1>7 DEF ClientActs

LEMMA ToClientTyped ==
    ASSUME TypeInv, ServerStays \/ ServerActs \/ Stabilise
    PROVE  toClient' \in Seq(Frames(ToClientTypes))
<1>1. toClient \in Seq(Frames(ToClientTypes))
  BY DEF TypeInv, SessionTypeOK, LinksTypeOK
<1>2. ASSUME NEW f \in Frames(ToClientTypes), toClient' \in AfterSend(toClient, f)
      PROVE  toClient' \in Seq(Frames(ToClientTypes))
  BY <1>1, <1>2, SendLink
<1>3. ErrorFrame \in Frames(ToClientTypes) /\ DataFrame(sChunk) \in Frames(ToClientTypes)
  BY ServerFramesAreTyped
<1>4. ASSUME sPhase \in {"head", "waitHead"}
      PROVE  HeadFrame \in Frames(ToClientTypes)
  BY <1>4, ServerFramesAreTyped DEF TypeInv, JobsInv, ServerAt
<1>5. ASSUME sPhase \in {"waitHead", "waitData"}
      PROVE  Awaited \in Frames(ToClientTypes)
  BY <1>3, <1>4, <1>5 DEF Awaited
<1>6. CASE UNCHANGED toClient
  BY <1>1, <1>6
<1>7. CASE SendHead \/ FileUnavailable \/ HeadTimeout \/ SendChunk
           \/ FileReadError \/ FileCloseError \/ ChunkTimeout
  BY <1>2, <1>3, <1>4, <1>7 DEF SendHead, FileUnavailable, HeadTimeout, SendChunk,
     FileReadError, FileCloseError, ChunkTimeout
<1>8. CASE ServerReadsNack
  BY <1>2, <1>5, <1>8 DEF ServerReadsNack, ServerArriving
<1>9. CASE ServerReadsOther \/ ServerReadsEnd \/ ServerReadsNoMove
           \/ ServerReadsOldMove \/ ServerReadsNewMove
  <2>1. Head(toServer) \in Frames(ToServerTypes)
    BY <1>9, AtTheServer DEF ServerReadsOther, ServerReadsEnd, ServerReadsNoMove,
       ServerReadsOldMove, ServerReadsNewMove
  <2>2. /\ Reply(Head(toServer), "ACK") \in Frames(ToClientTypes)
        /\ Reply(Head(toServer), "NACK") \in Frames(ToClientTypes)
    BY <2>1, FrameParts
  <2>3. QED
    BY <1>2, <1>6, <1>9, <2>2 DEF ServerReadsOther, ServerReadsEnd,
       ServerReadsNoMove, ServerReadsOldMove, ServerReadsNewMove
<1>10. CASE ServerReadsError \/ HeadAcknowledged \/ ChunkAcknowledged
            \/ ServerInterfaceFails \/ Stabilise \/ PressMove \/ Quit
            \/ CloseKeyboard \/ ControlTimeout \/ ReceiveTimeout
            \/ ClientInterfaceFails
  BY <1>6, <1>10 DEF ServerReadsError, HeadAcknowledged, ChunkAcknowledged,
     ServerInterfaceFails, Stabilise, PressMove, Quit, CloseKeyboard,
     ControlTimeout, ReceiveTimeout, ClientInterfaceFails
<1>11. CASE toClient # << >> /\ toClient' = Tail(toClient)
  BY <1>1, <1>11, ReadLink
<1>12. CASE \/ ControlError \/ ControlOldData \/ ControlAcknowledged
            \/ ControlOther \/ ClientReadsEnd \/ ClientReadsStart
            \/ ClientReadsStartAgain \/ ClientReadsError
  BY <1>11, <1>12 DEF ControlError, ControlOldData, ControlAcknowledged,
     ControlOther, ClientReadsEnd, ClientReadsStart, ClientReadsStartAgain,
     ClientReadsError, ClientArriving
<1>13. CASE \/ ClientReadsLate \/ ClientReadsForeign \/ ClientReadsOldData
            \/ ClientRefusesLength \/ ClientReadsData \/ DiskRefusesFile \/ DiskRefusesChunk
            \/ DiskFailsAtClose
  BY <1>11, <1>13 DEF ClientReadsLate, ClientReadsForeign, ClientReadsOldData,
     ClientRefusesLength, ClientReadsData, DiskRefusesFile, DiskRefusesChunk, DiskFailsAtClose,
     ClientArriving
<1>14. QED
  BY <1>7, <1>8, <1>9, <1>10, <1>12, <1>13 DEF ServerStays, ServerActs

LEMMA ToServerTyped ==
    ASSUME TypeInv, ServerStays \/ ServerActs \/ Stabilise
    PROVE  toServer' \in Seq(Frames(ToServerTypes))
<1>1. toServer \in Seq(Frames(ToServerTypes))
  BY DEF TypeInv, SessionTypeOK, LinksTypeOK
<1>2. ASSUME NEW f \in Frames(ToServerTypes), SendToServer(f)
      PROVE  toServer' \in Seq(Frames(ToServerTypes))
  BY <1>1, <1>2, SendLink DEF SendToServer
<1>3. CASE UNCHANGED toServer
  BY <1>1, <1>3
<1>4. CASE toServer # << >> /\ toServer' = Tail(toServer)
  BY <1>1, <1>4, ReadLink
<1>5. CASE \/ SendHead \/ FileUnavailable \/ HeadTimeout \/ SendChunk
           \/ FileReadError \/ ChunkTimeout \/ ServerInterfaceFails \/ Stabilise
           \/ CloseKeyboard \/ ControlError \/ ControlAcknowledged
           \/ ClientReadsError \/ ClientInterfaceFails
  BY <1>3, <1>5 DEF SendHead, FileUnavailable, HeadTimeout, SendChunk,
     FileReadError, ChunkTimeout, ServerInterfaceFails, Stabilise, CloseKeyboard,
     ControlError, ControlAcknowledged, ClientReadsError, ClientInterfaceFails
<1>6. CASE \/ ServerReadsError \/ HeadAcknowledged \/ ChunkAcknowledged
           \/ FileCloseError \/ ServerReadsNack \/ ServerReadsOther \/ ServerReadsEnd
           \/ ServerReadsNoMove \/ ServerReadsOldMove \/ ServerReadsNewMove
  BY <1>4, <1>6 DEF ServerReadsError, HeadAcknowledged, ChunkAcknowledged,
     FileCloseError, ServerReadsNack, ServerReadsOther, ServerReadsEnd, ServerReadsNoMove,
     ServerReadsOldMove, ServerReadsNewMove, ServerArriving
<1>7. CASE PressMove \/ Quit \/ ControlTimeout \/ ReceiveTimeout
  BY <1>2, <1>7, ClientFramesAreTyped DEF PressMove, Quit, ControlTimeout,
     ReceiveTimeout, NackExpected
<1>8. ASSUME NEW phases, NEW types, ClientArriving(phases, types)
      PROVE  \A t \in {"ACK", "NACK", "ERROR"} :
                 Reply(Head(toClient), t) \in Frames(ToServerTypes)
  BY <1>8, AtTheClient, FrameParts
<1>9. CASE ControlOldData \/ ClientReadsEnd \/ ClientReadsStart
           \/ ClientReadsStartAgain \/ ClientReadsLate \/ ClientReadsOldData
           \/ ClientReadsData \/ DiskRefusesFile
  BY <1>2, <1>3, <1>8, <1>9, ClientFramesAreTyped
     DEF ControlOldData, ClientReadsEnd, ClientReadsStart, ClientReadsStartAgain,
     ClientReadsLate, ClientReadsOldData, ClientReadsData, DiskRefusesFile,
     NackExpected
<1>10. CASE \/ ControlOther \/ ClientReadsForeign \/ ClientRefusesLength
            \/ DiskRefusesChunk
  BY <1>2, <1>3, <1>10, ClientFramesAreTyped
     DEF ControlOther, ClientReadsForeign, ClientRefusesLength, DiskRefusesChunk,
     NackExpected
<1>11. CASE DiskFailsAtClose
  <2>1. PICK link \in AfterSend(toServer, Reply(Head(toClient), "ACK")) :
            toServer' \in AfterSend(link, FileError)
    BY <1>11 DEF DiskFailsAtClose
  <2>2. Reply(Head(toClient), "ACK") \in Frames(ToServerTypes)
    BY <1>8, <1>11 DEF DiskFailsAtClose
  <2>3. link \in Seq(Frames(ToServerTypes))
    BY <1>1, <2>1, <2>2, SendLink
  <2>4. FileError \in Frames(ToServerTypes)
    BY ClientFramesAreTyped
  <2>5. QED
    BY <2>1, <2>3, <2>4, SendLink
<1>12. QED
  BY <1>5, <1>6, <1>7, <1>9, <1>10, <1>11 DEF ServerStays, ServerActs

LEMMA TypeStep ==
    ASSUME TypeInv, [SessionNext]_sessionVars
    PROVE  TypeInv'
<1>1. CASE UNCHANGED sessionVars
  BY <1>1 DEF sessionVars, serverVars, clientVars, TypeInv, SessionTypeOK,
     ServerTypeOK, ClientTypeOK, LinksTypeOK, JobsInv, ServerAt
<1>2. CASE SessionNext
  <2>1. ServerStays \/ ServerActs \/ Stabilise
    BY <1>2, Steps
  <2>2. ServerTypeOK' /\ JobsInv'
    BY <2>1, ServerStaysTyped, ServerActsTyped
  <2>3. ClientTypeOK'
    <3>1. CASE UNCHANGED clientVars
      BY <3>1 DEF clientVars, TypeInv, SessionTypeOK, ClientTypeOK
    <3>2. QED
      BY <2>1, <3>1, ServerActsTyped, Stays, RepeatsKeep, ClientActsTyped
  <2>4. LinksTypeOK'
    BY <2>1, ToClientTyped, ToServerTyped DEF LinksTypeOK
  <2>5. faults' \in FaultSets /\ lossy' \in BOOLEAN
    <3>1. faults \in FaultSets /\ lossy \in BOOLEAN
      BY DEF TypeInv, SessionTypeOK
    <3>2. UNCHANGED faults
      BY <1>2, Steps DEF Stabilise
    <3>3. lossy' \in {lossy, FALSE}
      <4>1. ASSUME ServerActs PROVE UNCHANGED lossy
        BY <4>1 DEF ServerActs, SendHead, FileUnavailable, SendChunk, FileReadError,
           FileCloseError, ServerReadsError, HeadAcknowledged, ChunkAcknowledged, ServerReadsEnd,
           ServerReadsOldMove, ServerReadsNewMove, ServerInterfaceFails
      <4>2. ASSUME ServerRepeats \/ ClientRepeats PROVE UNCHANGED lossy
        BY <4>2 DEF ClientRepeats, ServerRepeats, HeadTimeout, ChunkTimeout,
           ServerReadsNack, ServerReadsOther, ServerReadsNoMove, ControlTimeout,
           ControlOldData, ControlOther, ClientReadsStartAgain, ClientReadsLate,
           ClientReadsForeign, ClientReadsOldData, ClientRefusesLength, ReceiveTimeout
      <4>3. ASSUME ClientActs PROVE UNCHANGED lossy
        BY <4>3 DEF ClientActs, PressMove, Quit, CloseKeyboard, ControlError,
           ControlAcknowledged, ClientReadsEnd, ClientReadsStart, ClientReadsError,
           ClientReadsData, DiskRefusesFile, DiskRefusesChunk, DiskFailsAtClose,
           ClientInterfaceFails
      <4>4. QED
        BY <2>1, <4>1, <4>2, <4>3, Stays DEF Stabilise
    <3>4. QED
      BY <3>1, <3>2, <3>3
  <2>6. QED
    BY <2>2, <2>3, <2>4, <2>5 DEF TypeInv, SessionTypeOK
<1>3. QED
  BY <1>1, <1>2

-----------------------------------------------------------------------------
(* Transfers. *)

(* Neighbouring frames have different numbers. *)
LEMMA NumbersApart ==
    /\ \A h \in SeqNumbers : SequenceForIndex(h, -1) = h
    /\ \A h \in SeqNumbers, c \in Int :
           SequenceForIndex(h, c - 1) # SequenceForIndex(h, c)
    /\ \A s \in SeqNumbers : \A n \in 1 .. 3 : (s + n) % SeqSpace # s
<1>1. \A h \in SeqNumbers : h \in Int
  BY Space DEF SeqNumbers
<1>2. ASSUME NEW h \in SeqNumbers PROVE SequenceForIndex(h, -1) = h
  <2>1. h + (-1) + 1 = h
    BY <1>1
  <2>2. QED
    BY <2>1, ModSmall DEF SequenceForIndex
<1>3. ASSUME NEW h \in SeqNumbers, NEW c \in Int
      PROVE  SequenceForIndex(h, c - 1) # SequenceForIndex(h, c)
  <2>1. SUFFICES ASSUME (h + (c - 1) + 1) % SeqSpace = (h + c + 1) % SeqSpace
                 PROVE  FALSE
    BY DEF SequenceForIndex
  <2> DEFINE a == h + (c - 1) + 1
             b == h + c + 1
  <2>2. a \in Int /\ b \in Int /\ b = a + 1 /\ a - b < SeqSpace /\ b - a < SeqSpace
    BY <1>1, Space
  <2>3. a = b
    <3>1. a % SeqSpace = b % SeqSpace
      BY <2>1
    <3> HIDE DEF a, b
    <3>2. QED
      BY <2>2, <3>1, ModUnique
  <2>4. QED
    BY <2>2, <2>3
<1>4. ASSUME NEW s \in SeqNumbers, NEW n \in 1 .. 3, (s + n) % SeqSpace = s
      PROVE  FALSE
  <2>1. s % SeqSpace = s
    BY ModSmall
  <2>2. s + n \in Int /\ s \in Int /\ (s + n) - s < SeqSpace /\ s - (s + n) < SeqSpace
    BY <1>1, Space
  <2>3. s + n = s
    BY <2>1, <2>2, <1>4, ModUnique
  <2>4. QED
    BY <2>2, <2>3
<1>5. QED
  BY <1>2, <1>3, <1>4

LEMMA StateNumbersApart ==
    ASSUME TypeInv
    PROVE  /\ HeadSeq \in SeqNumbers /\ Delivered \in SeqNumbers
           /\ Expected # Delivered
           /\ SequenceForIndex(HeadSeq, -1) = HeadSeq
           /\ SequenceForIndex(HeadSeq, sChunk - 1) # SequenceForIndex(HeadSeq, sChunk)
           /\ \A s \in SeqNumbers : JustUsed(s) => s # HeadSeq
<1>1. /\ HeadSeq \in SeqNumbers /\ Delivered \in SeqNumbers /\ cBase \in SeqNumbers
      /\ cNext \in Int /\ sChunk \in Int
  BY NumbersAreTyped DEF TypeInv, SessionTypeOK, ClientTypeOK, ServerTypeOK
<1>2. QED
  BY <1>1, NumbersApart DEF Expected, Delivered, JustUsed

(* What is said of the transfers stays true while the messages stay: the    *)
(* server sends the frame at hand again or gives up, the player acts, the   *)
(* client takes a frame that changes nothing, or leaves.                    *)
(* A step that leaves the transfer alone, and what is on the link to a       *)
(* subset or to a few frames more.                                          *)
LEMMA InStepKept ==
    ASSUME TypeInv, InStep,
           UNCHANGED <<sSeq, jobs, sChunk, sMsg, turns, cBase, cNext, cMsg, faults>>,
           \/ sPhase' \in {sPhase, "failed"}
           \/ sPhase = "head" /\ sPhase' = "waitHead"
           \/ sPhase = "data" /\ sPhase' = "waitData"
           \/ sPhase = "play" /\ sPhase' = "ended",
           ClientLives' =>
               ClientLives /\ (cPhase' = cPhase \/ (OutOfTransfer /\ OutOfTransfer')),
           NEW X,
           \A f \in X : \/ Control(f)
                        \/ f = HeadFrame /\ jobs # << >> /\ sPhase' = "waitHead"
                        \/ f = DataFrame(sChunk) /\ sPhase' = "waitData",
           Range(toClient') \subseteq Range(toClient) \cup X,
           \A g : Behind(toClient', g) \subseteq Behind(toClient, g) \cup X
    PROVE  InStep'
<1>1. /\ HeadSeq' = HeadSeq /\ HeadFrame' = HeadFrame /\ Delivered' = Delivered
      /\ DataFrame(sChunk)' = DataFrame(sChunk)
  BY DEF HeadSeq, HeadFrame, DataFrame, Delivered
<1>2. SUFFICES ASSUME ClientLives', ClientLives
               PROVE  Between' \/ HeadTaken' \/ Inside' \/ ChunkTaken'
  BY DEF InStep
<1>3. CASE Between
  <2>1. \A f \in X : \/ Control(f)
                     \/ f = HeadFrame /\ jobs # << >> /\ sPhase' = "waitHead"
    BY <1>3 DEF Between, ServerAt
  <2>2. ServerAt({"head", "waitHead", "play", "failed", "ended"})'
    BY <1>3 DEF Between, ServerAt
  <2>3. cMsg' < sMsg' /\ OutOfTransfer'
    BY <1>2, <1>3 DEF Between, OutOfTransfer
  <2>4. JustUsed(Delivered)'
    BY <1>1, <1>3 DEF Between, JustUsed, ServerAt
  <2>5. ASSUME NEW f \in Range(toClient')
        PROVE  \/ Control(f) \/ Again(f)'
               \/ f.type = "ERROR" /\ "unavailable" \in faults'
               \/ f = HeadFrame' /\ jobs' # << >> /\ ServerAt({"waitHead", "failed"})'
    BY <1>1, <1>3, <2>1 DEF Between, Again, ServerAt
  <2>6. jobs' # << >> => LastOfAll(HeadFrame)'
    <3>1. ASSUME jobs' # << >>, NEW g \in Behind(toClient', HeadFrame)
          PROVE  Control(g) \/ g = HeadFrame
      BY <1>3, <2>1, <3>1 DEF Between, LastOfAll
    <3>2. QED
      BY <3>1, <1>1 DEF LastOfAll
  <2>7. QED
    BY <2>2, <2>3, <2>4, <2>5, <2>6 DEF Between, Control
<1>4. CASE HeadTaken
  <2>1. \A f \in X : Control(f) \/ f = HeadFrame
    BY <1>4 DEF HeadTaken, ServerAt
  <2>2. ServerAt({"waitHead", "failed"})'
    BY <1>4 DEF HeadTaken, ServerAt
  <2>3. Expects(Head(jobs))'
    BY <1>2, <1>4 DEF HeadTaken, Expects, OutOfTransfer
  <2>4. \A f \in Range(toClient') : Control(f) \/ f = HeadFrame'
    BY <1>1, <1>4, <2>1 DEF HeadTaken
  <2>5. QED
    BY <1>1, <1>4, <2>2, <2>3, <2>4 DEF HeadTaken, Control
<1>5. CASE Inside
  <2>1. \A f \in X : Control(f) \/ (f = DataFrame(sChunk) /\ sPhase' = "waitData")
    BY <1>5 DEF Inside, ServerAt
  <2>2. ServerAt({"data", "waitData", "failed"})'
    BY <1>5 DEF Inside, ServerAt
  <2>3. Expects(Head(jobs))'
    BY <1>2, <1>5 DEF Inside, Expects, OutOfTransfer
  <2>4. ASSUME NEW f \in Range(toClient')
        PROVE  \/ Control(f) \/ Again(f)'
               \/ cNext' = 0 /\ f = HeadFrame'
               \/ f = DataFrame(sChunk)' /\ ServerAt({"waitData", "failed"})'
    BY <1>1, <1>5, <2>1 DEF Inside, Again, ServerAt
  <2>5. LastOfAll(DataFrame(sChunk))'
    <3>1. ASSUME NEW g \in Behind(toClient', DataFrame(sChunk))
          PROVE  Control(g) \/ g = DataFrame(sChunk)
      BY <1>5, <2>1, <3>1 DEF Inside, LastOfAll
    <3>2. QED
      BY <3>1, <1>1 DEF LastOfAll
  <2>6. QED
    BY <1>1, <1>5, <2>2, <2>3, <2>4, <2>5 DEF Inside, Control, Chunks
<1>6. CASE ChunkTaken
  <2>1. \A f \in X : Control(f) \/ f = DataFrame(sChunk)
    BY <1>6 DEF ChunkTaken, ServerAt
  <2>2. ServerAt({"waitData", "failed"})'
    BY <1>6 DEF ChunkTaken, ServerAt
  <2>3. IF cNext' < Chunks(Head(jobs))' THEN Expects(Head(jobs))' ELSE OutOfTransfer'
    BY <1>2, <1>6 DEF ChunkTaken, Expects, OutOfTransfer, Chunks
  <2>4. \A f \in Range(toClient') : Control(f) \/ f = DataFrame(sChunk)'
    BY <1>1, <1>6, <2>1 DEF ChunkTaken
  <2>5. QED
    BY <1>1, <1>6, <2>2, <2>3, <2>4 DEF ChunkTaken, Control, Chunks
<1>7. QED
  BY <1>2, <1>3, <1>4, <1>5, <1>6 DEF InStep

(* Where the client is when the server has just begun or ended a message.   *)
LEMMA NotInTransfer ==
    ASSUME TypeInv, InStep, ClientLives, sPhase \in {"head", "play"}
    PROVE  Between
BY DEF InStep, HeadTaken, Inside, ChunkTaken, ServerAt

LEMMA NoServerFrameAhead ==
    ASSUME TypeInv, Between, ~ServerAt({"waitHead", "failed"}) \/ jobs = << >>
    PROVE  \A f \in Range(toClient) : f.type \in {"ACK", "NACK", "DATA", "ERROR"}
BY DEF Between, Control, Again

LEMMA UnavailableKeepsStep ==
    ASSUME TypeInv, InStep, FileUnavailable, UNCHANGED faults
    PROVE  InStep'
<1>1. SUFFICES ASSUME ClientLives' PROVE Between'
  BY DEF InStep
<1>2. /\ sPhase = "head" /\ Head(jobs) = "FILE" /\ "unavailable" \in faults
      /\ NextJob(HeadSeq) /\ toClient' \in AfterSend(toClient, ErrorFrame)
      /\ UNCHANGED <<sChunk, turns, clientVars>>
  BY DEF FileUnavailable
<1>3. ClientLives /\ Between /\ OutOfTransfer' /\ cMsg' = cMsg
      /\ Delivered' = Delivered /\ cNext' = cNext
  BY <1>1, <1>2, NotInTransfer
     DEF ClientLives, clientVars, Between, OutOfTransfer, Delivered
<1>4. jobs # << >>
  BY <1>2 DEF TypeInv, JobsInv, ServerAt
<1>5. /\ sSeq' = HeadSeq /\ sMsg' = sMsg + 1 /\ sMsg \in Nat /\ cMsg \in Nat
      /\ sPhase' = "head" /\ jobs' \in JobLists /\ Len(jobs') = Len(jobs) - 1
      /\ HeadSeq \in SeqNumbers /\ Len(jobs') >= 1 /\ Len(jobs) \in Nat /\ Len(jobs) <= 3
  <2>1. HeadSeq \in SeqNumbers
    BY StateNumbersApart
  <2>2. jobs \in JobLists
    BY <1>4 DEF TypeInv, JobsInv
  <2>3. QED
    BY <1>2, <1>4, <2>1, <2>2, JobIsDone, JobListsShape
       DEF TypeInv, SessionTypeOK, ServerTypeOK, ClientTypeOK
<1>6. JustUsed(Delivered)'
  <2>1. PICK n \in 1 .. 3 : (Delivered + n) % SeqSpace = HeadSeq /\ n + Len(jobs) <= 4
    BY <1>3 DEF Between, JustUsed
  <2>2. Delivered + n \in Int
    BY StateNumbersApart, Space DEF SeqNumbers
  <2>3. HeadSeq' = (HeadSeq + 1) % SeqSpace
    BY <1>5 DEF HeadSeq, NextSequence
  <2>4. (((Delivered + n) % SeqSpace) + 1) % SeqSpace = (Delivered + n + 1) % SeqSpace
    BY <2>2, ModAdd
  <2>5. (Delivered' + (n + 1)) % SeqSpace = HeadSeq'
    <3>1. Delivered + n + 1 = Delivered + (n + 1)
      BY StateNumbersApart, Space DEF SeqNumbers
    <3>2. QED
      BY <1>3, <2>1, <2>3, <2>4, <3>1
  <2>6. n + 1 \in 1 .. 3 /\ (n + 1) + Len(jobs') <= 4
    BY <1>5, <2>1
  <2>7. QED
    BY <1>5, <2>5, <2>6 DEF JustUsed, ServerAt
<1>7. ErrorFrame.type = "ERROR" /\ ErrorFrame \in Frames(ToClientTypes)
  BY ServerFramesAreTyped DEF ErrorFrame, Frame
<1>8. Range(toClient') \subseteq Range(toClient) \cup {ErrorFrame}
      /\ toClient' \in Seq(Frames(ToClientTypes))
  <2>1. toClient \in Seq(Frames(ToClientTypes))
    BY DEF TypeInv, SessionTypeOK, LinksTypeOK
  <2>2. QED
    BY <1>2, <1>7, <2>1, SendLink
<1>9. \A f \in Range(toClient') :
          \/ Control(f) \/ Again(f)'
          \/ f.type = "ERROR" /\ "unavailable" \in faults'
  <2>1. "unavailable" \in faults'
    BY <1>2
  <2>2. \A f \in Range(toClient) : Again(f) => Again(f)'
    BY <1>2, <1>3 DEF Again, clientVars
  <2>3. \A f \in Range(toClient) :
            Control(f) \/ Again(f) \/ f.type = "ERROR"
    BY <1>2, <1>3 DEF Between, ServerAt
  <2>4. QED
    BY <1>7, <1>8, <2>1, <2>2, <2>3
<1>10. LastOfAll(HeadFrame)'
  <2>1. HeadFrame'.type \in {"VIEW", "FILE", "END"}
    BY <1>5, JobListsShape DEF HeadFrame, Frame
  <2>2. \A f \in Range(toClient') : f.type \in {"ACK", "NACK", "DATA", "ERROR"}
    BY <1>9 DEF Control, Again
  <2>3. HeadFrame' \notin Range(toClient')
    BY <2>1, <2>2
  <2>4. Behind(toClient', HeadFrame') = {}
    BY <1>8, <2>3, BehindIsOnIt
  <2>5. QED
    BY <2>4 DEF LastOfAll
<1>11. QED
  <2>1. cMsg' < sMsg'
    BY <1>3, <1>5 DEF Between
  <2>2. ServerAt({"head", "waitHead", "play", "failed", "ended"})'
    BY <1>5 DEF ServerAt
  <2>3. QED
    BY <1>3, <1>6, <1>9, <1>10, <2>1, <2>2 DEF Between, Control

LEMMA HeadAckKeepsStep ==
    ASSUME TypeInv, InStep, AcksInv, HeadAcknowledged, UNCHANGED faults
    PROVE  InStep'
<1> DEFINE ack == Head(toServer)
<1>1. /\ sPhase = "waitHead" /\ ack.type = "ACK" /\ ack.seq = HeadSeq
      /\ ack \in Range(toServer)
      /\ UNCHANGED <<toClient, clientVars, turns>>
  BY AtTheServer DEF HeadAcknowledged
<1>2. Awaited.seq = HeadSeq
  BY <1>1 DEF Awaited, HeadFrame, Frame
<1>3. ClientLives => Taken
  BY <1>1, <1>2 DEF AcksInv, AckInv, ServerAt, ServerReads
<1>4. SUFFICES ASSUME ClientLives' PROVE Inside'
  BY DEF InStep
<1>5. ClientLives /\ cMsg = sMsg /\ cNext = 0 /\ sMsg \in Nat
  BY <1>1, <1>3, <1>4
     DEF Taken, ClientLives, clientVars, TypeInv, SessionTypeOK, ServerTypeOK
<1>6. HeadTaken
  BY <1>1, <1>5 DEF InStep, Between, Inside, ChunkTaken, ServerAt
<1>7. /\ sPhase' = "data" /\ sChunk' = 0 /\ UNCHANGED <<sSeq, jobs, sMsg>>
  BY <1>6 DEF HeadAcknowledged, HeadTaken
<1>8. /\ HeadSeq' = HeadSeq /\ HeadFrame' = HeadFrame
      /\ UNCHANGED <<cMsg, cNext, cBase, cPhase>>
  BY <1>1, <1>7 DEF HeadSeq, HeadFrame, clientVars
<1>9. \A f \in Range(toClient') : Control(f) \/ f = HeadFrame'
  BY <1>1, <1>6, <1>8 DEF HeadTaken
<1>10. LastOfAll(DataFrame(sChunk))'
  <2>1. \A f \in Range(toClient') : f.type # "DATA"
    BY <1>1, <1>6, JobListsShape DEF HeadTaken, Control, HeadFrame, Frame, TypeInv, JobsInv
  <2>2. DataFrame(sChunk)'.type = "DATA"
    BY DEF DataFrame, Frame
  <2>3. toClient' \in Seq(Frames(ToClientTypes))
    BY <1>1 DEF TypeInv, SessionTypeOK, LinksTypeOK
  <2>4. Behind(toClient', DataFrame(sChunk)') = {}
    BY <2>1, <2>2, <2>3, BehindIsOnIt
  <2>5. QED
    BY <2>4 DEF LastOfAll
<1>11. sChunk' < Chunks(Head(jobs))'
  BY <1>7, ChunksAreTyped DEF Chunks
<1>12. Expects(Head(jobs))'
  BY <1>6, <1>7, <1>8 DEF HeadTaken, Expects
<1>13. QED
  BY <1>5, <1>6, <1>7, <1>8, <1>9, <1>10, <1>11, <1>12
     DEF HeadTaken, Inside, ServerAt, Control

(* The chunk is acknowledged: the next one, the next message, or the next   *)
(* move.                                                                    *)
LEMMA ChunkAckKeepsStep ==
    ASSUME TypeInv, InStep, AcksInv, ChunkAcknowledged, UNCHANGED faults
    PROVE  InStep'
<1> DEFINE ack == Head(toServer)
<1>1. /\ sPhase = "waitData" /\ ack.type = "ACK" /\ ack.seq = Awaited.seq
      /\ ack \in Range(toServer) /\ sChunk' = sChunk + 1
      /\ UNCHANGED <<toClient, clientVars, turns>>
  BY AtTheServer DEF ChunkAcknowledged
<1>2. ClientLives => Taken
  BY <1>1 DEF AcksInv, AckInv, ServerAt, ServerReads
<1>3. SUFFICES ASSUME ClientLives' PROVE Between' \/ Inside'
  BY DEF InStep
<1>4. /\ ClientLives /\ cMsg = sMsg /\ cNext = sChunk + 1
      /\ sMsg \in Nat /\ sChunk \in Nat
  BY <1>1, <1>2, <1>3
     DEF Taken, ClientLives, clientVars, TypeInv, SessionTypeOK, ServerTypeOK
<1>5. ChunkTaken
  BY <1>1, <1>4 DEF InStep, Between, Inside, HeadTaken, ServerAt
<1>6. UNCHANGED <<cMsg, cNext, cBase, cPhase>>
  BY <1>1 DEF clientVars
<1>7. ASSUME NEW f \in Range(toClient') PROVE Control(f) \/ Again(f)'
  <2>1. Control(f) \/ f = DataFrame(sChunk)
    BY <1>1, <1>5 DEF ChunkTaken
  <2>2. CASE f = DataFrame(sChunk)
    <3>1. /\ f.type = "DATA" /\ f.seq = SequenceForIndex(HeadSeq, sChunk)
          /\ f.about[1] = sMsg /\ f.about[2] = sChunk
      BY <2>2 DEF DataFrame, Frame
    <3>2. cNext' - 1 = sChunk /\ cNext' > 0 /\ cBase' = HeadSeq /\ cMsg' = sMsg
      BY <1>4, <1>5, <1>6 DEF ChunkTaken
    <3>3. QED
      BY <3>1, <3>2 DEF Again, Delivered
  <2>3. QED
    BY <2>1, <2>2
<1>8. \A f \in Range(toClient') : f.type \in {"ACK", "NACK", "DATA"}
  BY <1>7 DEF Control, Again
<1>9. toClient' \in Seq(Frames(ToClientTypes))
  BY <1>1 DEF TypeInv, SessionTypeOK, LinksTypeOK
<1>10. CASE sChunk + 1 = Chunks(Head(jobs))
  <2> DEFINE seq == SequenceAddCount(HeadSeq, Chunks(Head(jobs)))
  <2>1. Chunks(Head(jobs)) \in Nat /\ HeadSeq \in SeqNumbers /\ jobs \in JobLists
    BY <1>1, ChunksAreTyped, StateNumbersApart DEF TypeInv, JobsInv, ServerAt
  <2>2. seq \in SeqNumbers
    BY <2>1, NumbersAreTyped DEF TypeInv
  <2>3. NextJob(seq)
    BY <1>1, <1>10 DEF ChunkAcknowledged
  <2> HIDE DEF seq
  <2>4. /\ sSeq' = seq /\ sMsg' = sMsg + 1 /\ Len(jobs') = Len(jobs) - 1
        /\ sPhase' \in {"head", "play"}
        /\ sPhase' = "play" => jobs' = << >>
        /\ Len(jobs) \in Nat /\ Len(jobs) <= 3
        /\ jobs' \in JobLists \cup {<< >>}
    BY <1>5, <2>1, <2>2, <2>3, JobIsDone, JobListsShape DEF ChunkTaken
  <2>5. Delivered' = seq
    <3>1. Delivered' = SequenceForIndex(HeadSeq, (sChunk + 1) - 1)
      BY <1>4, <1>5, <1>6 DEF ChunkTaken, Delivered
    <3>2. HeadSeq + ((sChunk + 1) - 1) + 1 = HeadSeq + Chunks(Head(jobs))
      BY <1>4, <1>10, <2>1, NumbersAreTyped DEF TypeInv
    <3>3. QED
      BY <3>1, <3>2 DEF SequenceForIndex, SequenceAddCount, seq
  <2>6. JustUsed(Delivered)'
    <3>1. (Delivered' + 1) % SeqSpace = HeadSeq'
      BY <2>4, <2>5 DEF HeadSeq, NextSequence
    <3>2. 1 \in 1 .. 3 /\ 1 + Len(jobs') <= 4
      BY <2>4
    <3>3. QED
      BY <3>1, <3>2 DEF JustUsed
  <2>7. jobs' # << >> => LastOfAll(HeadFrame)'
    <3>1. SUFFICES ASSUME jobs' # << >> PROVE LastOfAll(HeadFrame)'
      OBVIOUS
    <3>2. HeadFrame'.type \in {"VIEW", "FILE", "END"}
      BY <2>4, <3>1, JobListsShape DEF HeadFrame, Frame
    <3>3. Behind(toClient', HeadFrame') = {}
      BY <1>8, <1>9, <3>2, BehindIsOnIt
    <3>4. QED
      BY <3>3 DEF LastOfAll
  <2>8. OutOfTransfer' /\ cMsg' < sMsg'
    <3>1. OutOfTransfer
      BY <1>4, <1>5, <1>10, <2>1 DEF ChunkTaken
    <3>2. QED
      BY <1>4, <1>6, <2>4, <3>1 DEF OutOfTransfer
  <2>9. Between'
    BY <1>7, <2>4, <2>6, <2>7, <2>8 DEF Between, ServerAt, Control
  <2>10. QED
    BY <2>9
<1>11. CASE sChunk + 1 # Chunks(Head(jobs))
  <2>1. sPhase' = "data" /\ UNCHANGED <<sSeq, jobs, sMsg>>
    BY <1>1, <1>11 DEF ChunkAcknowledged
  <2>2. sChunk + 1 < Chunks(Head(jobs))
    BY <1>4, <1>5, <1>11, ChunksAreTyped DEF ChunkTaken
  <2>3. Chunks(Head(jobs))' = Chunks(Head(jobs)) /\ HeadSeq' = HeadSeq
    BY <2>1 DEF Chunks, HeadSeq
  <2>4. Expects(Head(jobs))'
    <3>1. Expects(Head(jobs))
      BY <1>4, <1>5, <2>2 DEF ChunkTaken
    <3>2. QED
      BY <1>6, <2>1, <3>1 DEF Expects
  <2>5. LastOfAll(DataFrame(sChunk))'
    <3>1. DataFrame(sChunk)' = DataFrame(sChunk + 1)
      BY <1>1, <2>1, <2>3 DEF DataFrame
    <3>2. DataFrame(sChunk + 1) # DataFrame(sChunk)
      BY <1>4 DEF DataFrame, Frame
    <3>3. \A f \in Range(toClient') : Control(f) \/ f = DataFrame(sChunk)
      BY <1>1, <1>5 DEF ChunkTaken
    <3>4. ~Control(DataFrame(sChunk + 1))
      BY DEF Control, DataFrame, Frame
    <3>5. Behind(toClient', DataFrame(sChunk + 1)) = {}
      BY <1>9, <3>2, <3>3, <3>4, BehindIsOnIt
    <3>6. QED
      BY <3>1, <3>5 DEF LastOfAll
  <2>6. Inside'
    BY <1>1, <1>4, <1>5, <1>6, <1>7, <2>1, <2>2, <2>3, <2>4, <2>5
       DEF Inside, ChunkTaken, ServerAt, Control
  <2>7. QED
    BY <2>6
<1>12. QED
  BY <1>10, <1>11

(* A move is answered with its ACK and a turn. *)
LEMMA MoveKeepsStep ==
    ASSUME TypeInv, InStep, ServerReadsOldMove \/ ServerReadsNewMove,
           UNCHANGED faults
    PROVE  InStep'
<1> DEFINE ack == Reply(Head(toServer), "ACK")
<1>1. /\ sPhase = "play" /\ sPhase' = "head" /\ jobs' \in JobLists
      /\ UNCHANGED <<sSeq, sChunk, sMsg, clientVars>>
      /\ toClient' \in AfterSend(toClient, ack)
      /\ ServerArriving({"play"})
  BY JobListsShape DEF ServerReadsOldMove, ServerReadsNewMove, ServerArriving
<1>2. ack.type = "ACK" /\ ack \in Frames(ToClientTypes)
  BY <1>1, AtTheServer, FrameParts
<1> HIDE DEF ack
<1>3. SUFFICES ASSUME ClientLives' PROVE Between'
  BY DEF InStep
<1>4. /\ ClientLives /\ Between /\ jobs = << >>
      /\ UNCHANGED <<cMsg, cNext, cBase, cPhase>>
  BY <1>1, <1>3, NotInTransfer DEF ClientLives, clientVars, TypeInv, JobsInv, ServerAt
<1>5. HeadSeq' = HeadSeq /\ Delivered' = Delivered
  BY <1>1, <1>4 DEF HeadSeq, Delivered
<1>6. JustUsed(Delivered)'
  <2>1. (Delivered + 1) % SeqSpace = HeadSeq
    BY <1>1, <1>4 DEF Between, JustUsed, ServerAt
  <2>2. 1 \in 1 .. 3 /\ 1 + Len(jobs') <= 4
    <3>1. Len(jobs') \in Nat /\ Len(jobs') <= 3
      BY <1>1, JobListsShape
    <3>2. QED
      BY <3>1
  <2>3. (Delivered' + 1) % SeqSpace = HeadSeq'
    BY <1>5, <2>1
  <2>4. ~ServerAt({"play"})'
    BY <1>1 DEF ServerAt
  <2>5. QED
    BY <2>2, <2>3, <2>4 DEF JustUsed
<1>7. /\ Range(toClient') \subseteq Range(toClient) \cup {ack}
      /\ toClient' \in Seq(Frames(ToClientTypes))
  BY <1>1, <1>2, SendLink DEF TypeInv, SessionTypeOK, LinksTypeOK
<1>8. \A f \in Range(toClient') :
          \/ Control(f) \/ Again(f)'
          \/ f.type = "ERROR" /\ "unavailable" \in faults'
  <2>1. \A f \in Range(toClient) : Again(f) => Again(f)'
    BY <1>4, <1>5 DEF Again
  <2>2. QED
    BY <1>2, <1>4, <1>7, <2>1 DEF Between, Control
<1>9. LastOfAll(HeadFrame)'
  <2>1. HeadFrame'.type \in {"VIEW", "FILE", "END"}
    BY <1>1, JobListsShape DEF HeadFrame, Frame
  <2>2. \A f \in Range(toClient') : f.type \in {"ACK", "NACK", "DATA", "ERROR"}
    BY <1>8 DEF Control, Again
  <2>3. Behind(toClient', HeadFrame') = {}
    BY <1>7, <2>1, <2>2, BehindIsOnIt
  <2>4. QED
    BY <2>3 DEF LastOfAll
<1>10. QED
  BY <1>1, <1>4, <1>6, <1>8, <1>9 DEF Between, ServerAt, OutOfTransfer, Control

(* The client takes the start frame: from Between to HeadTaken. *)
LEMMA StartKeepsStep ==
    ASSUME TypeInv, InStep, ClientReadsStart
    PROVE  /\ Between /\ HeadTaken'
           /\ Head(toClient) = HeadFrame /\ jobs # << >>
           /\ sPhase \in {"waitHead", "failed"}
<1> DEFINE frame == Head(toClient)
<1>1. /\ cPhase = "idle" /\ frame.type \in {"VIEW", "FILE"}
      /\ frame \in Range(toClient) /\ toClient' = Tail(toClient)
      /\ Range(toClient') \subseteq Behind(toClient, frame)
      /\ cPhase' = IF frame.type = "VIEW" THEN "view" ELSE "file"
      /\ cBase' = frame.seq /\ cNext' = 0 /\ cMsg' = frame.about[1]
      /\ UNCHANGED serverVars
  BY AtTheClient DEF ClientReadsStart
<1>2. Between
  <2>1. InStep /\ ClientLives
    BY <1>1 DEF ClientLives
  <2>2. ~HeadTaken /\ ~Inside
    BY <1>1 DEF HeadTaken, Inside, Expects
  <2>3. ~ChunkTaken
    BY <1>1 DEF ChunkTaken, Control, DataFrame, Frame
  <2>4. QED
    BY <2>1, <2>2, <2>3 DEF InStep
<1>3. frame = HeadFrame /\ jobs # << >> /\ ServerAt({"waitHead", "failed"})
  BY <1>1, <1>2 DEF Between, Control, Again
<1>4. /\ frame.type = Head(jobs) /\ frame.seq = HeadSeq /\ frame.about[1] = sMsg
  BY <1>3 DEF HeadFrame, Frame
<1>5. \A f \in Range(toClient') : Control(f) \/ f = HeadFrame
  BY <1>1, <1>2, <1>3 DEF Between, LastOfAll
<1>6. HeadFrame' = HeadFrame /\ HeadSeq' = HeadSeq
  BY <1>1 DEF HeadFrame, HeadSeq, serverVars
<1>7. HeadTaken'
  BY <1>1, <1>3, <1>4, <1>5, <1>6
     DEF HeadTaken, ServerAt, serverVars, Expects, Control
<1>8. QED
  BY <1>2, <1>3, <1>7 DEF ServerAt

(* A DATA frame that the client delivers is the one at hand. *)
LEMMA DeliveredIsAtHand ==
    ASSUME TypeInv, InStep, ClientArriving({"view", "file"}, {"DATA"}),
           Head(toClient).seq = Expected
    PROVE  /\ Inside /\ sPhase \in {"waitData", "failed"}
           /\ Head(toClient) = DataFrame(sChunk)
<1> DEFINE frame == Head(toClient)
<1>1. /\ cPhase \in {"view", "file"} /\ frame.type = "DATA"
      /\ frame \in Range(toClient) /\ frame.seq = Expected
  BY AtTheClient
<1>2. ClientLives /\ ~Between
  BY <1>1 DEF ClientLives, Between, OutOfTransfer
<1>3. ~HeadTaken
  BY <1>1, JobListsShape DEF HeadTaken, Control, HeadFrame, Frame, TypeInv, JobsInv
<1>4. ~ChunkTaken
  <2>1. SUFFICES ASSUME ChunkTaken PROVE FALSE
    OBVIOUS
  <2>2. frame = DataFrame(sChunk)
    BY <1>1, <2>1 DEF ChunkTaken, Control
  <2>3. frame.seq = SequenceForIndex(HeadSeq, sChunk)
    BY <2>2 DEF DataFrame, Frame
  <2>4. cNext - 1 = sChunk /\ cBase = HeadSeq
    BY <2>1 DEF ChunkTaken, TypeInv, SessionTypeOK, ServerTypeOK
  <2>5. frame.seq = Delivered
    BY <2>3, <2>4 DEF Delivered
  <2>6. QED
    BY <1>1, <2>5, StateNumbersApart
<1>5. Inside
  BY <1>2, <1>3, <1>4 DEF InStep
<1>6. ~Again(frame) /\ frame # HeadFrame /\ ~Control(frame)
  <2>1. ~Again(frame)
    BY <1>1, StateNumbersApart DEF Again
  <2>2. frame # HeadFrame /\ ~Control(frame)
    BY <1>1, <1>5, JobListsShape DEF Inside, Control, HeadFrame, Frame, TypeInv, JobsInv
  <2>3. QED
    BY <2>1, <2>2
<1>7. QED
  BY <1>1, <1>5, <1>6 DEF Inside, ServerAt

(* It takes the chunk: from Inside to ChunkTaken. *)
LEMMA DataKeepsStep ==
    ASSUME TypeInv, InStep, ClientReadsData
    PROVE  ChunkTaken'
<1> DEFINE frame == Head(toClient)
<1>1. ClientArriving({"view", "file"}, {"DATA"}) /\ frame.seq = Expected
  BY DEF ClientReadsData
<1>2. Inside /\ sPhase \in {"waitData", "failed"} /\ frame = DataFrame(sChunk)
  BY <1>1, DeliveredIsAtHand
<1>3. /\ Range(toClient') \subseteq Behind(toClient, frame)
      /\ cNext' = cNext + 1 /\ UNCHANGED <<cBase, cMsg, serverVars>>
  BY <1>1, AtTheClient DEF ClientReadsData
<1>4. DataFrame(sChunk)' = DataFrame(sChunk) /\ HeadSeq' = HeadSeq
  BY <1>3 DEF DataFrame, HeadSeq, serverVars
<1>5. \A f \in Range(toClient') : Control(f) \/ f = DataFrame(sChunk)'
  BY <1>2, <1>3, <1>4 DEF Inside, LastOfAll
<1>6. Chunks(Head(jobs))' = Chunks(Head(jobs)) /\ cNext \in Nat /\ jobs \in JobLists
  BY <1>2, <1>3 DEF Chunks, serverVars, TypeInv, SessionTypeOK, ClientTypeOK, JobsInv, Inside
<1>7. IF cNext' < Chunks(Head(jobs))' THEN Expects(Head(jobs))' ELSE OutOfTransfer'
  <2>1. CASE Head(jobs) = "VIEW"
    <3>1. cPhase = "view" /\ Chunks(Head(jobs)) = ViewChunks
      BY <1>2, <2>1 DEF Inside, Expects, Chunks
    <3>2. cNext + 1 <= ViewChunks /\ ViewChunks \in Nat
      BY <1>2, <1>6, <3>1, SessionConstants DEF Inside, TypeInv, SessionTypeOK, ServerTypeOK
    <3>3. cPhase' = IF cNext + 1 = ViewChunks THEN "input" ELSE cPhase
      BY <3>1 DEF ClientReadsData
    <3>4. QED
      BY <1>3, <1>6, <2>1, <3>1, <3>2, <3>3 DEF Expects, OutOfTransfer, serverVars
  <2>2. CASE Head(jobs) = "FILE"
    <3>1. cPhase = "file" /\ Chunks(Head(jobs)) = FileChunks
      BY <1>2, <2>2 DEF Inside, Expects, Chunks
    <3>2. cNext + 1 <= FileChunks /\ FileChunks \in Nat
      BY <1>2, <1>6, <3>1, SessionConstants DEF Inside, TypeInv, SessionTypeOK, ServerTypeOK
    <3>3. cPhase' = IF cNext + 1 = FileChunks THEN "idle" ELSE cPhase
      BY <3>1 DEF ClientReadsData
    <3>4. QED
      BY <1>3, <1>6, <2>2, <3>1, <3>2, <3>3 DEF Expects, OutOfTransfer, serverVars
  <2>3. QED
    BY <1>2, <1>6, <2>1, <2>2, JobListsShape DEF Inside
<1>8. QED
  BY <1>2, <1>3, <1>4, <1>5, <1>6, <1>7
     DEF Inside, ChunkTaken, ServerAt, serverVars, Control

(* The server sends a frame that belongs where it is. *)
LEMMA InStepSent ==
    ASSUME TypeInv, InStep,
           UNCHANGED <<sSeq, jobs, sChunk, sMsg, turns, clientVars, faults>>,
           \/ sPhase' \in {sPhase, "failed"}
           \/ sPhase = "head" /\ sPhase' = "waitHead"
           \/ sPhase = "data" /\ sPhase' = "waitData"
           \/ sPhase = "play" /\ sPhase' = "ended",
           NEW f \in Frames(ToClientTypes),
           toClient' \in AfterSend(toClient, f) \cup {toClient},
           \/ Control(f)
           \/ f = HeadFrame /\ jobs # << >> /\ sPhase' = "waitHead"
           \/ f = DataFrame(sChunk) /\ sPhase' = "waitData"
    PROVE  InStep'
<1>1. /\ Range(toClient') \subseteq Range(toClient) \cup {f}
      /\ \A g : Behind(toClient', g) \subseteq Behind(toClient, g) \cup {f}
  <2>1. toClient \in Seq(Frames(ToClientTypes))
    BY DEF TypeInv, SessionTypeOK, LinksTypeOK
  <2>2. CASE toClient' \in AfterSend(toClient, f)
    <3>1. /\ Range(toClient') \subseteq Range(toClient) \cup {f}
          /\ \A g : Behind(toClient', g) \subseteq
                        Behind(toClient, g) \cup (IF g \in Range(toClient) THEN {f} ELSE {})
      BY <2>1, <2>2, SendLink
    <3>2. QED
      BY <3>1
  <2>3. QED
    BY <2>2
<1>2. /\ UNCHANGED <<cBase, cNext, cMsg>>
      /\ ClientLives' => ClientLives /\ cPhase' = cPhase
  BY DEF clientVars, ClientLives
<1> DEFINE X == {f}
<1>3. /\ \A h \in X :
             \/ Control(h)
             \/ h = HeadFrame /\ jobs # << >> /\ sPhase' = "waitHead"
             \/ h = DataFrame(sChunk) /\ sPhase' = "waitData"
      /\ Range(toClient') \subseteq Range(toClient) \cup X
      /\ \A g : Behind(toClient', g) \subseteq Behind(toClient, g) \cup X
  BY <1>1
<1>4. UNCHANGED <<sSeq, jobs, sChunk, sMsg, turns, cBase, cNext, cMsg, faults>>
  BY <1>2
<1> HIDE DEF X
<1>5. QED
  BY <1>2, <1>3, <1>4, InStepKept

(* The client reads a frame, or nothing, and stays where it is. *)
LEMMA InStepTaken ==
    ASSUME TypeInv, InStep,
           UNCHANGED <<serverVars, cBase, cNext, cMsg, faults>>,
           ClientLives' =>
               ClientLives /\ (cPhase' = cPhase \/ (OutOfTransfer /\ OutOfTransfer')),
           toClient' = toClient \/ (toClient # << >> /\ toClient' = Tail(toClient))
    PROVE  InStep'
<1> DEFINE X == {}
<1>1. /\ Range(toClient') \subseteq Range(toClient) \cup X
      /\ \A g : Behind(toClient', g) \subseteq Behind(toClient, g) \cup X
  BY ReadLink DEF TypeInv, SessionTypeOK, LinksTypeOK
<1>2. /\ UNCHANGED <<sSeq, jobs, sChunk, sMsg, turns, cBase, cNext, cMsg, faults>>
      /\ sPhase' \in {sPhase, "failed"}
  BY DEF serverVars
<1>3. \A f \in X : FALSE
  OBVIOUS
<1> HIDE DEF X
<1>4. QED
  BY <1>1, <1>2, <1>3, InStepKept

(* No ERROR frame reaches the client inside a transfer. *)
LEMMA NoErrorInTransfer ==
    ASSUME TypeInv, InStep, ClientArriving({"view", "file"}, {"ERROR"})
    PROVE  FALSE
<1>1. /\ cPhase \in {"view", "file"} /\ Head(toClient).type = "ERROR"
      /\ Head(toClient) \in Range(toClient)
  BY AtTheClient
<1>2. jobs # << >> => HeadFrame.type # "ERROR"
  BY JobListsShape DEF HeadFrame, Frame, TypeInv, JobsInv
<1>3. DataFrame(sChunk).type # "ERROR"
  BY DEF DataFrame, Frame
<1>4. QED
  BY <1>1, <1>2, <1>3
     DEF InStep, ClientLives, Between, OutOfTransfer, HeadTaken, Inside,
         ChunkTaken, Control, Again

LEMMA InStepStep ==
    ASSUME TypeInv, InStep, AcksInv, SessionNext, "read" \notin faults
    PROVE  InStep'
<1>1. CASE Stabilise
  BY <1>1, InStepTaken, RepeatsKeep DEF Stabilise, clientVars, ClientLives
<1>2. CASE ServerActs /\ UNCHANGED faults
  <2>1. CASE SendHead
    <3>1. jobs # << >> /\ HeadFrame \in Frames(ToClientTypes)
      BY <2>1, ServerFramesAreTyped DEF SendHead, TypeInv, JobsInv, ServerAt
    <3>2. QED
      BY <1>2, <2>1, <3>1, InStepSent DEF SendHead
  <2>2. CASE FileUnavailable
    BY <1>2, <2>2, UnavailableKeepsStep
  <2>3. CASE SendChunk
    BY <1>2, <2>3, InStepSent, ServerFramesAreTyped DEF SendChunk
  <2>4. CASE FileReadError \/ FileCloseError
    BY <2>4 DEF FileReadError, FileCloseError
  <2>5. CASE ServerReadsError \/ ServerInterfaceFails
    <3>1. /\ UNCHANGED <<sSeq, jobs, sChunk, sMsg, turns, clientVars, faults, toClient>>
          /\ sPhase' = "failed"
      BY <1>2, <2>5 DEF ServerReadsError, ServerInterfaceFails
    <3> DEFINE X == {}
    <3>2. /\ Range(toClient') \subseteq Range(toClient) \cup X
          /\ \A g : Behind(toClient', g) \subseteq Behind(toClient, g) \cup X
          /\ \A f \in X : FALSE
      BY <3>1
    <3> HIDE DEF X
    <3>3. /\ UNCHANGED <<cBase, cNext, cMsg>>
          /\ ClientLives' => ClientLives /\ cPhase' = cPhase
      BY <3>1 DEF clientVars, ClientLives
    <3>4. QED
      BY <3>1, <3>2, <3>3, InStepKept
  <2>6. CASE HeadAcknowledged
    BY <1>2, <2>6, HeadAckKeepsStep
  <2>7. CASE ChunkAcknowledged
    BY <1>2, <2>7, ChunkAckKeepsStep
  <2>8. CASE ServerReadsEnd
    <3> DEFINE f == Reply(Head(toServer), "ACK")
    <3>1. f \in Frames(ToClientTypes) /\ Control(f)
      BY <2>8, AtTheServer, FrameParts DEF ServerReadsEnd, Control
    <3>2. /\ UNCHANGED <<sSeq, jobs, sChunk, sMsg, turns, clientVars, faults>>
          /\ sPhase = "play" /\ sPhase' = "ended"
          /\ toClient' \in AfterSend(toClient, f) \cup {toClient}
      BY <1>2, <2>8 DEF ServerReadsEnd, ServerArriving
    <3> HIDE DEF f
    <3>3. QED
      BY <3>1, <3>2, InStepSent
  <2>9. CASE ServerReadsOldMove \/ ServerReadsNewMove
    BY <1>2, <2>9, MoveKeepsStep
  <2>10. QED
    BY <1>2, <2>1, <2>2, <2>3, <2>4, <2>5, <2>6, <2>7, <2>8, <2>9 DEF ServerActs
<1>3. CASE ServerRepeats /\ UNCHANGED faults
  <2>1. UNCHANGED <<sSeq, jobs, sChunk, sMsg, turns, clientVars, faults>>
        /\ sPhase' = sPhase
    BY <1>3, RepeatsKeep DEF serverVars
  <2>2. CASE HeadTimeout
    <3>1. jobs # << >> /\ HeadFrame \in Frames(ToClientTypes)
      BY <2>2, ServerFramesAreTyped DEF HeadTimeout, TypeInv, JobsInv, ServerAt
    <3>2. QED
      BY <2>1, <2>2, <3>1, InStepSent DEF HeadTimeout
  <2>3. CASE ChunkTimeout
    BY <2>1, <2>3, InStepSent, ServerFramesAreTyped DEF ChunkTimeout
  <2>4. CASE ServerReadsNack
    <3>1. /\ sPhase \in {"waitHead", "waitData"} /\ jobs # << >>
          /\ toClient' \in AfterSend(toClient, Awaited) \cup {toClient}
      BY <2>4 DEF ServerReadsNack, ServerArriving, TypeInv, JobsInv, ServerAt
    <3>2. /\ Awaited \in Frames(ToClientTypes)
          /\ \/ Awaited = HeadFrame /\ jobs # << >> /\ sPhase' = "waitHead"
             \/ Awaited = DataFrame(sChunk) /\ sPhase' = "waitData"
      BY <2>1, <3>1, ServerFramesAreTyped DEF Awaited
    <3>3. QED
      BY <2>1, <3>1, <3>2, InStepSent
  <2>5. CASE ServerReadsOther \/ ServerReadsNoMove
    <3>1. /\ Head(toServer) \in Frames(ToServerTypes)
          /\ toClient' \in AfterSend(toClient, Reply(Head(toServer), "ACK"))
                           \cup AfterSend(toClient, Reply(Head(toServer), "NACK"))
                           \cup {toClient}
      BY <2>5, AtTheServer DEF ServerReadsOther, ServerReadsNoMove
    <3>2. \A t \in {"ACK", "NACK"} :
              /\ Reply(Head(toServer), t) \in Frames(ToClientTypes)
              /\ Control(Reply(Head(toServer), t))
      <4>1. \A t \in {"ACK", "NACK"} : Reply(Head(toServer), t) \in Frames(ToClientTypes)
        BY <3>1, FrameParts
      <4>2. QED
        BY <4>1 DEF Control, Reply, Frame
    <3>3. PICK t \in {"ACK", "NACK"} :
              toClient' \in AfterSend(toClient, Reply(Head(toServer), t)) \cup {toClient}
      BY <3>1
    <3>4. QED
      BY <2>1, <3>2, <3>3, InStepSent
  <2>6. QED
    BY <1>3, <2>2, <2>3, <2>4, <2>5 DEF ServerRepeats
<1>4. ASSUME UNCHANGED faults, ClientActs \/ ClientRepeats
      PROVE  UNCHANGED <<serverVars, faults>>
  BY <1>4, ServerStaysTyped, Stays
<1>5. CASE ClientRepeats /\ UNCHANGED faults
  <2>1. UNCHANGED <<serverVars, clientVars>>
    BY <1>5, RepeatsKeep
  <2>2. toClient' = toClient \/ (toClient # << >> /\ toClient' = Tail(toClient))
    BY <1>5 DEF ClientRepeats, ControlTimeout, ControlOldData, ControlOther,
       ClientReadsStartAgain, ClientReadsLate, ClientReadsForeign,
       ClientReadsOldData, ClientRefusesLength, ReceiveTimeout, ClientArriving
  <2>3. QED
    BY <1>5, <2>1, <2>2, InStepTaken DEF clientVars, ClientLives
<1>6. CASE ClientActs /\ UNCHANGED faults
  <2>1. UNCHANGED <<serverVars, faults>>
    BY <1>4, <1>6
  <2>2. CASE PressMove \/ Quit \/ CloseKeyboard
    <3>1. /\ UNCHANGED <<toClient, cBase, cNext, cMsg>>
          /\ OutOfTransfer /\ ClientLives /\ (ClientLives' => OutOfTransfer')
      BY <2>2 DEF PressMove, Quit, CloseKeyboard, ClientKeeps, OutOfTransfer, ClientLives
    <3>2. QED
      BY <2>1, <3>1, InStepTaken
  <2>3. CASE ControlError \/ ControlAcknowledged \/ ClientReadsEnd
    <3>1. /\ UNCHANGED <<cBase, cNext, cMsg>>
          /\ toClient # << >> /\ toClient' = Tail(toClient)
          /\ ClientLives' => ClientLives /\ OutOfTransfer /\ OutOfTransfer'
      BY <2>3 DEF ControlError, ControlAcknowledged, ClientReadsEnd, ClientKeeps,
         OutOfTransfer, ClientLives, ClientArriving
    <3>2. QED
      BY <2>1, <3>1, InStepTaken
  <2>4. CASE ClientReadsStart
    BY <2>4, StartKeepsStep DEF InStep
  <2>5. CASE ClientReadsError
    <3>1. /\ cPhase = "idle" /\ cPhase' = "idle" /\ UNCHANGED <<cBase, cNext, cMsg>>
          /\ toClient # << >> /\ toClient' = Tail(toClient)
      BY <2>5, NoErrorInTransfer DEF ClientReadsError, ClientKeeps, ClientArriving
    <3>2. QED
      BY <2>1, <3>1, InStepTaken DEF OutOfTransfer, ClientLives
  <2>6. CASE ClientReadsData
    BY <2>6, DataKeepsStep DEF InStep
  <2>7. CASE DiskRefusesFile \/ DiskRefusesChunk \/ DiskFailsAtClose
             \/ ClientInterfaceFails
    BY <2>7 DEF DiskRefusesFile, DiskRefusesChunk, DiskFailsAtClose,
       ClientInterfaceFails, InStep, ClientLives
  <2>8. QED
    BY <1>6, <2>2, <2>3, <2>4, <2>5, <2>6, <2>7 DEF ClientActs
<1>7. QED
  BY <1>1, <1>2, <1>3, <1>5, <1>6, Steps, Stays

-----------------------------------------------------------------------------
(* Acknowledgements.                                                        *)

(* What a step adds to a link. *)
Adds(link, next, Y) ==
    /\ Range(next) \subseteq Range(link) \cup Y
    /\ \A g : Behind(next, g) \subseteq Behind(link, g) \cup Y

LEMMA AddsSent ==
    ASSUME NEW S, NEW link \in Seq(S), NEW f \in S, NEW next,
           next \in AfterSend(link, f) \cup {link}
    PROVE  Adds(link, next, {f}) /\ next \in Seq(S)
<1>1. CASE next = link
  BY <1>1 DEF Adds
<1>2. CASE next \in AfterSend(link, f)
  <2>1. /\ next \in Seq(S) /\ Range(next) \subseteq Range(link) \cup {f}
        /\ \A g : Behind(next, g) \subseteq
                      Behind(link, g) \cup (IF g \in Range(link) THEN {f} ELSE {})
    BY <1>2, SendLink
  <2>2. QED
    BY <2>1 DEF Adds
<1>3. QED
  BY <1>1, <1>2

LEMMA AddsNone ==
    ASSUME NEW S, NEW link \in Seq(S), NEW next,
           next = link \/ (link # << >> /\ next = Tail(link))
    PROVE  Adds(link, next, {}) /\ next \in Seq(S)
BY ReadLink DEF Adds

LEMMA AddsMore ==
    ASSUME NEW link, NEW next, NEW Y, NEW Z, Y \subseteq Z, Adds(link, next, Y)
    PROVE  Adds(link, next, Z)
BY DEF Adds

(* ACKs at the server, while the server stays where it is. *)
LEMMA AcksKept ==
    ASSUME TypeInv, InStep, AcksInv, UNCHANGED serverVars,
           ClientLives' => ClientLives, ClientLives' /\ Taken => Taken',
           NEW Y, NEW a, Adds(toServer, toServer', Y),
           \A y \in Y : y.type = "ACK" =>
               y = a /\ (ServerReads => AckInv(a)')
                     /\ (ServerAt({"waitHead", "waitData"}) =>
                             ClientLives /\ (Taken => a.seq = Awaited.seq))
    PROVE  AcksInv'
<1>1. /\ UNCHANGED <<sPhase, sSeq, jobs, sChunk, sMsg, turns>>
      /\ HeadSeq' = HeadSeq /\ Awaited' = Awaited
  BY DEF serverVars, HeadSeq, Awaited, HeadFrame, DataFrame
<1>2. ASSUME ServerReads, NEW f \in Range(toServer), f.type = "ACK"
      PROVE  AckInv(f)'
  <2>1. AckInv(f)
    BY <1>2 DEF AcksInv
  <2>2. CASE ServerAt({"waitHead", "waitData"}) /\ f.seq = Awaited.seq
    BY <1>1, <2>1, <2>2 DEF AckInv, ServerAt
  <2>3. CASE ~(ServerAt({"waitHead", "waitData"}) /\ f.seq = Awaited.seq)
    BY <1>1, <2>1, <2>3 DEF AckInv, ServerAt, JustUsed
  <2>4. QED
    BY <2>2, <2>3
<1>3. ASSUME ServerReads', NEW f \in Range(toServer'), f.type = "ACK"
      PROVE  AckInv(f)'
  <2>1. ServerReads
    BY <1>1, <1>3 DEF ServerReads
  <2>2. CASE f \in Range(toServer)
    BY <1>2, <1>3, <2>1, <2>2
  <2>3. CASE f \in Y
    <3>1. f = a /\ AckInv(a)'
      BY <1>3, <2>1, <2>3
    <3>2. QED
      BY <3>1
  <2>4. QED
    BY <1>3, <2>2, <2>3 DEF Adds
<1>4. ASSUME ServerAt({"waitHead", "waitData"})',
             NEW f \in Range(toServer'), f.type = "ACK", f.seq = Awaited'.seq,
             NEW g \in Behind(toServer', f), g.type = "ACK"
      PROVE  g.seq = Awaited'.seq
  <2>1. ServerAt({"waitHead", "waitData"}) /\ ServerReads /\ f.seq = Awaited.seq
    BY <1>1, <1>4 DEF ServerAt, ServerReads
  <2>2. CASE g \in Behind(toServer, f)
    <3>1. f \in Range(toServer)
      BY <2>2, BehindIsOnIt DEF TypeInv, SessionTypeOK, LinksTypeOK
    <3>2. QED
      BY <1>1, <1>4, <2>1, <2>2, <3>1 DEF AcksInv
  <2>3. CASE g \in Y
    <3>1. g = a /\ ClientLives /\ (Taken => a.seq = Awaited.seq)
      BY <1>4, <2>1, <2>3
    <3>2. CASE f \in Range(toServer)
      <4>1. AckInv(f)
        BY <1>4, <2>1, <3>2 DEF AcksInv
      <4>2. Taken
        BY <2>1, <3>1, <4>1 DEF AckInv
      <4>3. QED
        BY <1>1, <3>1, <4>2
    <3>3. CASE f \in Y
      BY <1>1, <1>4, <2>1, <3>1, <3>3
    <3>4. QED
      BY <1>4, <3>2, <3>3 DEF Adds
  <2>4. QED
    BY <1>4, <2>2, <2>3 DEF Adds
<1>5. QED
  BY <1>3, <1>4 DEF AcksInv

(* What the client acknowledges is the frame at hand or the one before. *)
LEMMA Acknowledged ==
    ASSUME TypeInv, InStep, ClientLives, ServerReads,
           NEW f \in Range(toClient), f.type \in {"DATA", "VIEW", "FILE", "END"}
    PROVE  /\ ServerAt({"waitHead", "waitData"}) =>
                  /\ f.seq = Awaited.seq => f = Awaited
                  /\ Taken => f = Awaited
           /\ \/ ServerAt({"waitHead", "waitData"}) /\ f = Awaited
              \/ IF ServerAt({"data", "waitData"})
                 THEN f.seq = SequenceForIndex(HeadSeq, sChunk - 1)
                 ELSE JustUsed(f.seq)
           /\ f = Awaited /\ ServerAt({"waitHead", "waitData"}) =>
                  \/ Taken
                  \/ Between /\ f = HeadFrame
                  \/ Inside /\ f = DataFrame(sChunk)
<1> DEFINE wait == ServerAt({"waitHead", "waitData"})
<1>1. HeadFrame.seq = HeadSeq /\ DataFrame(sChunk).seq = SequenceForIndex(HeadSeq, sChunk)
      /\ HeadFrame.type = Head(jobs) /\ DataFrame(sChunk).type = "DATA"
  BY DEF HeadFrame, DataFrame, Frame
<1>2. /\ Delivered \in SeqNumbers
      /\ SequenceForIndex(HeadSeq, -1) = HeadSeq
      /\ SequenceForIndex(HeadSeq, sChunk - 1) # SequenceForIndex(HeadSeq, sChunk)
      /\ sMsg \in Nat /\ cMsg \in Nat /\ cNext \in Nat /\ sChunk \in Nat
  BY StateNumbersApart DEF TypeInv, SessionTypeOK, ServerTypeOK, ClientTypeOK
<1>3. sPhase # "failed" /\ sPhase # "ended"
  BY DEF ServerReads
<1>4. CASE Between
  <2>1. ~Taken
    BY <1>2, <1>4 DEF Between, Taken
  <2>2. ~ServerAt({"data", "waitData"}) /\ (wait <=> sPhase = "waitHead")
    BY <1>4 DEF Between, ServerAt
  <2>3. JustUsed(Delivered) /\ Delivered # HeadSeq
    BY <1>2, <1>4, StateNumbersApart DEF Between
  <2>4. CASE f = HeadFrame /\ sPhase = "waitHead"
    <3>1. Awaited = HeadFrame /\ wait
      BY <2>4 DEF Awaited, ServerAt
    <3>2. QED
      BY <1>4, <2>1, <2>4, <3>1
  <2>5. CASE Again(f)
    <3>1. f.seq = Delivered
      BY <2>5 DEF Again
    <3>2. wait => Awaited = HeadFrame
      BY <2>2 DEF Awaited
    <3>3. wait => f.seq # Awaited.seq
      BY <1>1, <2>3, <3>1, <3>2
    <3>4. QED
      BY <2>1, <2>2, <2>3, <3>1, <3>3
  <2>6. QED
    BY <1>3, <1>4, <2>4, <2>5 DEF Between, Control, ServerAt
<1>5. CASE HeadTaken
  <2>1. sPhase = "waitHead" /\ Taken /\ Awaited = HeadFrame
    BY <1>3, <1>5 DEF HeadTaken, ServerAt, Taken, Awaited
  <2>2. f = HeadFrame
    BY <1>5 DEF HeadTaken, Control
  <2>3. QED
    BY <2>1, <2>2 DEF ServerAt
<1>6. CASE Inside
  <2>1. sPhase \in {"data", "waitData"} /\ ~Taken
    BY <1>2, <1>3, <1>6 DEF Inside, ServerAt, Taken
  <2>2. wait => Awaited = DataFrame(sChunk)
    BY <2>1 DEF Awaited
  <2>3. CASE f = DataFrame(sChunk) /\ sPhase = "waitData"
    <3>1. wait
      BY <2>3 DEF ServerAt
    <3>2. QED
      BY <1>6, <2>1, <2>2, <2>3, <3>1
  <2>4. CASE Again(f) \/ (cNext = 0 /\ f = HeadFrame)
    <3>1. f.seq = SequenceForIndex(HeadSeq, sChunk - 1)
      <4>1. cNext = sChunk /\ cBase = HeadSeq
        BY <1>6 DEF Inside
      <4>2. CASE Again(f)
        BY <4>1, <4>2 DEF Again, Delivered
      <4>3. CASE cNext = 0 /\ f = HeadFrame
        <5>1. sChunk - 1 = -1
          BY <4>1, <4>3
        <5>2. QED
          BY <1>1, <1>2, <4>3, <5>1
      <4>4. QED
        BY <2>4, <4>2, <4>3
    <3>2. wait => f.seq # Awaited.seq
      BY <1>1, <1>2, <2>2, <3>1
    <3>3. ServerAt({"data", "waitData"})
      BY <2>1 DEF ServerAt
    <3>4. QED
      BY <2>1, <3>1, <3>2, <3>3
  <2>5. QED
    BY <1>3, <1>6, <2>3, <2>4 DEF Inside, Control, ServerAt
<1>7. CASE ChunkTaken
  <2>1. sPhase = "waitData" /\ Taken /\ Awaited = DataFrame(sChunk)
    BY <1>3, <1>7 DEF ChunkTaken, ServerAt, Taken, Awaited
  <2>2. f = DataFrame(sChunk)
    BY <1>7 DEF ChunkTaken, Control
  <2>3. QED
    BY <2>1, <2>2 DEF ServerAt
<1>8. QED
  BY <1>4, <1>5, <1>6, <1>7 DEF InStep

(* The client answers with an ACK of the frame it read, *)
LEMMA AckSent ==
    ASSUME TypeInv, InStep, AcksInv, UNCHANGED serverVars, ClientLives,
           ClientLives' /\ Taken => Taken',
           NEW f \in Range(toClient), f.type \in {"DATA", "VIEW", "FILE", "END"},
           f = Awaited /\ ServerAt({"waitHead", "waitData"}) /\ ClientLives' => Taken',
           NEW Y, Adds(toServer, toServer', Y),
           \A y \in Y : y.type = "ACK" => y = Reply(f, "ACK")
    PROVE  AcksInv'
<1> DEFINE a == Reply(f, "ACK")
           wait == ServerAt({"waitHead", "waitData"})
<1>1. a.seq = f.seq /\ a.about = f.about
  BY DEF Reply, Frame
<1>2. /\ HeadSeq' = HeadSeq /\ Awaited' = Awaited
      /\ UNCHANGED <<sPhase, sSeq, jobs, sChunk, sMsg, turns>>
  BY DEF serverVars, HeadSeq, Awaited, HeadFrame, DataFrame
<1>3. ServerReads => AckInv(a)'
  <2>1. SUFFICES ASSUME ServerReads PROVE AckInv(a)'
    OBVIOUS
  <2>2. /\ wait /\ f.seq = Awaited.seq => f = Awaited
        /\ \/ wait /\ f = Awaited
           \/ IF ServerAt({"data", "waitData"})
              THEN f.seq = SequenceForIndex(HeadSeq, sChunk - 1)
              ELSE JustUsed(f.seq)
    BY <2>1, Acknowledged
  <2>3. CASE wait /\ f = Awaited
    <3>1. ServerAt({"waitHead", "waitData"})' /\ a.seq = Awaited'.seq
          /\ a.about = Awaited'.about
      BY <1>1, <1>2, <2>3 DEF ServerAt
    <3>2. ClientLives' => Taken'
      BY <2>3
    <3>3. QED
      BY <3>1, <3>2 DEF AckInv
  <2>4. CASE ~(wait /\ f = Awaited)
    <3>1. ~(ServerAt({"waitHead", "waitData"})' /\ a.seq = Awaited'.seq)
      BY <1>1, <1>2, <2>2, <2>4 DEF ServerAt
    <3>2. IF ServerAt({"data", "waitData"})'
          THEN a.seq = SequenceForIndex(HeadSeq', sChunk' - 1)
          ELSE JustUsed(a.seq)
      BY <1>1, <1>2, <2>2, <2>4 DEF ServerAt
    <3>3. JustUsed(a.seq) => JustUsed(a.seq)'
      BY <1>2 DEF JustUsed, ServerAt
    <3>4. QED
      BY <3>1, <3>2, <3>3 DEF AckInv
  <2>5. QED
    BY <2>3, <2>4
<1>4. wait => ClientLives /\ (Taken => a.seq = Awaited.seq)
  <2>1. wait => ServerReads
    BY DEF ServerAt, ServerReads
  <2>2. QED
    BY <1>1, <2>1, Acknowledged
<1>5. ClientLives' => ClientLives
  OBVIOUS
<1> HIDE DEF a
<1>6. \A y \in Y : y.type = "ACK" =>
          y = a /\ (ServerReads => AckInv(a)')
                /\ (ServerAt({"waitHead", "waitData"}) =>
                        ClientLives /\ (Taken => a.seq = Awaited.seq))
  BY <1>3, <1>4 DEF a
<1>7. QED
  BY <1>5, <1>6, AcksKept

(* or with none. *)
LEMMA NoAckSent ==
    ASSUME TypeInv, InStep, AcksInv, UNCHANGED serverVars,
           ClientLives' => ClientLives, ClientLives' /\ Taken => Taken',
           NEW Y, Adds(toServer, toServer', Y), \A y \in Y : y.type # "ACK"
    PROVE  AcksInv'
<1>1. PICK a : a = 0
  OBVIOUS
<1>2. \A y \in Y : y.type = "ACK" =>
          y = a /\ (ServerReads => AckInv(a)')
                /\ (ServerAt({"waitHead", "waitData"}) =>
                        ClientLives /\ (Taken => a.seq = Awaited.seq))
  OBVIOUS
<1>3. QED
  BY <1>2, AcksKept

LEMMA TakenStays ==
    ASSUME UNCHANGED <<serverVars, cMsg, cNext>>
    PROVE  Taken => Taken'
BY DEF serverVars, Taken

LEMMA ToServerNone ==
    ASSUME TypeInv,
           toServer' = toServer \/ (toServer # << >> /\ toServer' = Tail(toServer))
    PROVE  Adds(toServer, toServer', {})
BY AddsNone DEF TypeInv, SessionTypeOK, LinksTypeOK

LEMMA ToServerSent ==
    ASSUME TypeInv, NEW f \in Frames(ToServerTypes),
           SendToServer(f) \/ UNCHANGED toServer
    PROVE  Adds(toServer, toServer', {f})
<1>1. toServer \in Seq(Frames(ToServerTypes))
      /\ toServer' \in AfterSend(toServer, f) \cup {toServer}
  BY DEF TypeInv, SessionTypeOK, LinksTypeOK, SendToServer
<1>2. QED
  BY <1>1, AddsSent

(* The client's answers that acknowledge a frame which it has taken. *)
LEMMA RepeatsKeepAcks ==
    ASSUME TypeInv, InStep, AcksInv, ClientRepeats
    PROVE  AcksInv'
<1> DEFINE frame == Head(toClient)
<1>1. /\ UNCHANGED <<serverVars, clientVars>> /\ (Taken => Taken')
      /\ (ClientLives' <=> ClientLives)
  BY RepeatsKeep, TakenStays DEF clientVars, ClientLives
<1>2. ASSUME NEW f \in Frames(ToServerTypes), SendToServer(f) \/ UNCHANGED toServer,
             f.type # "ACK"
      PROVE  AcksInv'
  <2> DEFINE Y == {f}
  <2>1. Adds(toServer, toServer', Y) /\ \A y \in Y : y.type # "ACK"
    BY <1>2, ToServerSent
  <2> HIDE DEF Y
  <2>2. QED
    BY <1>1, <2>1, NoAckSent
<1>3. Frame("NACK", Expected, <<cMsg, cNext, 0>>).type = "NACK" /\ Asked.type # "ACK"
  <2>1. \A t, s, b : Frame(t, s, b).type = t
    BY DEF Frame
  <2>2. Asked.type \in {"MOVE", "END"}
    BY <2>1 DEF Asked
  <2>3. QED
    BY <2>1, <2>2
<1>4. /\ Frame("NACK", Expected, <<cMsg, cNext, 0>>) \in Frames(ToServerTypes)
      /\ Asked \in Frames(ToServerTypes)
  BY ClientFramesAreTyped
<1>5. NackExpected => AcksInv'
  BY <1>2, <1>3, <1>4 DEF NackExpected
<1>6. UNCHANGED toServer => AcksInv'
  BY <1>2, <1>3, <1>4
<1>7. ASSUME ClientLives, frame \in Range(toClient), frame \in Frames(ToClientTypes),
             frame.type \in {"DATA", "VIEW", "FILE", "END"},
             SendToServer(Reply(frame, "ACK")),
             frame = Awaited /\ ServerAt({"waitHead", "waitData"}) => Taken
      PROVE  AcksInv'
  <2> DEFINE a == Reply(frame, "ACK")
  <2>1. a \in Frames(ToServerTypes)
    BY <1>7, FrameParts
  <2>2. Adds(toServer, toServer', {a})
    BY <1>7, <2>1, ToServerSent
  <2> DEFINE Y == {a}
  <2>3. Adds(toServer, toServer', Y) /\ (\A y \in Y : y.type = "ACK" => y = Reply(frame, "ACK"))
    BY <2>2
  <2>4. frame = Awaited /\ ServerAt({"waitHead", "waitData"}) /\ ClientLives' => Taken'
    BY <1>1, <1>7
  <2> HIDE DEF Y, a, frame
  <2>5. QED
    BY <1>1, <1>7, <2>3, <2>4, AckSent
<1>8. ASSUME ClientLives, frame \in Range(toClient), frame.type = "DATA", OutOfTransfer,
             frame = Awaited, ServerAt({"waitHead", "waitData"})
      PROVE  Taken
  <2>1. ServerReads
    BY <1>8 DEF ServerAt, ServerReads
  <2>2. \/ Taken
        \/ Between /\ frame = HeadFrame
        \/ Inside /\ frame = DataFrame(sChunk)
    BY <1>8, <2>1, Acknowledged
  <2>3. ~Inside
    BY <1>8 DEF Inside, Expects, OutOfTransfer
  <2>4. Between /\ frame = HeadFrame => jobs # << >>
    BY <1>8, <2>1 DEF Between, ServerAt, TypeInv, JobsInv
  <2>5. jobs # << >> => HeadFrame.type # "DATA"
    BY JobListsShape DEF HeadFrame, Frame, TypeInv, JobsInv
  <2>6. QED
    BY <1>8, <2>2, <2>3, <2>4, <2>5
<1>9. CASE ControlTimeout \/ ReceiveTimeout \/ ControlOther \/ ClientReadsForeign
  BY <1>2, <1>3, <1>4, <1>5, <1>6, <1>9 DEF ControlTimeout, ReceiveTimeout,
     ControlOther, ClientReadsForeign
<1>10. CASE ControlOldData \/ ClientReadsLate
  <2>1. /\ OutOfTransfer /\ ClientLives /\ frame \in Range(toClient)
        /\ frame \in Frames(ToClientTypes)
        /\ \/ UNCHANGED toServer
           \/ frame.type = "DATA" /\ SendToServer(Reply(frame, "ACK"))
    BY <1>10, AtTheClient DEF ControlOldData, ClientReadsLate, OutOfTransfer, ClientLives
  <2>2. QED
    BY <1>6, <1>7, <1>8, <2>1
<1>11. CASE ClientReadsStartAgain
  <2>1. /\ cPhase \in {"view", "file"} /\ frame.type \in {"VIEW", "FILE"}
        /\ frame \in Range(toClient) /\ frame \in Frames(ToClientTypes)
        /\ SendToServer(Reply(frame, "ACK")) \/ SendToServer(Reply(frame, "ERROR"))
    BY <1>11, AtTheClient DEF ClientReadsStartAgain
  <2>2. frame = Awaited /\ ServerAt({"waitHead", "waitData"}) => Taken
    <3>1. SUFFICES ASSUME frame = Awaited, ServerAt({"waitHead", "waitData"}) PROVE Taken
      OBVIOUS
    <3>2. ServerReads /\ ClientLives
      BY <2>1, <3>1 DEF ServerAt, ServerReads, ClientLives
    <3>3. \/ Taken
          \/ Between /\ frame = HeadFrame
          \/ Inside /\ frame = DataFrame(sChunk)
      BY <2>1, <3>1, <3>2, Acknowledged
    <3>4. ~Between
      BY <2>1 DEF Between, OutOfTransfer
    <3>5. frame # DataFrame(sChunk)
      BY <2>1 DEF DataFrame, Frame
    <3>6. QED
      BY <3>3, <3>4, <3>5
  <2>3. CASE SendToServer(Reply(frame, "ACK"))
    BY <1>7, <2>1, <2>2, <2>3 DEF ClientLives
  <2>4. CASE SendToServer(Reply(frame, "ERROR"))
    <3>1. Reply(frame, "ERROR") \in Frames(ToServerTypes) /\ Reply(frame, "ERROR").type = "ERROR"
      BY <2>1, FrameParts
    <3>2. QED
      BY <1>2, <2>4, <3>1
  <2>5. QED
    BY <2>1, <2>3, <2>4
<1>12. CASE ClientReadsOldData
  <2>1. /\ cPhase \in {"view", "file"} /\ frame.type = "DATA" /\ frame.seq # Expected
        /\ frame \in Range(toClient) /\ frame \in Frames(ToClientTypes)
        /\ SendToServer(Reply(frame, "ACK")) \/ NackExpected
    BY <1>12, AtTheClient DEF ClientReadsOldData
  <2>2. frame = Awaited /\ ServerAt({"waitHead", "waitData"}) => Taken
    <3>1. SUFFICES ASSUME frame = Awaited, ServerAt({"waitHead", "waitData"}) PROVE Taken
      OBVIOUS
    <3>2. ServerReads /\ ClientLives
      BY <2>1, <3>1 DEF ServerAt, ServerReads, ClientLives
    <3>3. \/ Taken
          \/ Between /\ frame = HeadFrame
          \/ Inside /\ frame = DataFrame(sChunk)
      BY <2>1, <3>1, <3>2, Acknowledged
    <3>4. ~Between
      BY <2>1 DEF Between, OutOfTransfer
    <3>5. Inside => frame # DataFrame(sChunk)
      BY <2>1 DEF Inside, DataFrame, Frame, Expected
    <3>6. QED
      BY <3>3, <3>4, <3>5
  <2>3. QED
    BY <1>5, <1>7, <2>1, <2>2 DEF ClientLives
<1>13. CASE ClientRefusesLength
  BY <1>5, <1>13 DEF ClientRefusesLength
<1>14. QED
  BY <1>9, <1>10, <1>11, <1>12, <1>13 DEF ClientRepeats

(* The ACKs, action by action. *)
LEMMA ClientActsKeepAcks ==
    ASSUME TypeInv, InStep, AcksInv, ClientActs
    PROVE  AcksInv'
<1> DEFINE frame == Head(toClient)
<1>1. UNCHANGED serverVars /\ ClientLives
  <2>1. UNCHANGED serverVars
    BY ServerStaysTyped, Stays
  <2>2. ClientLives
    BY DEF ClientActs, PressMove, Quit, CloseKeyboard, ControlError,
       ControlAcknowledged, ClientReadsEnd, ClientReadsStart, ClientReadsError,
       ClientReadsData, DiskRefusesFile, DiskRefusesChunk, DiskFailsAtClose,
       ClientInterfaceFails, ClientArriving, ClientLives, ClientReads
  <2>3. QED
    BY <2>1, <2>2
<1>2. ASSUME UNCHANGED <<cMsg, cNext>>
      PROVE  Taken => Taken'
  BY <1>1, <1>2, TakenStays
<1>3. ASSUME UNCHANGED <<cMsg, cNext>>, NEW f \in Frames(ToServerTypes),
             SendToServer(f) \/ UNCHANGED toServer, f.type # "ACK"
      PROVE  AcksInv'
  <2> DEFINE Y == {f}
  <2>1. Adds(toServer, toServer', Y) /\ \A y \in Y : y.type # "ACK"
    BY <1>3, ToServerSent
  <2> HIDE DEF Y
  <2>2. QED
    BY <1>1, <1>2, <1>3, <2>1, NoAckSent
<1>4. CASE \/ CloseKeyboard \/ ControlError \/ ControlAcknowledged
           \/ ClientReadsError \/ ClientInterfaceFails
  <2>1. UNCHANGED <<cMsg, cNext, toServer>>
    BY <1>4 DEF CloseKeyboard, ControlError, ControlAcknowledged,
       ClientReadsError, ClientInterfaceFails, ClientKeeps
  <2>2. FileError \in Frames(ToServerTypes) /\ FileError.type # "ACK"
    BY ClientFramesAreTyped DEF FileError, Frame
  <2>3. QED
    BY <1>3, <2>1, <2>2
<1>5. CASE PressMove \/ Quit
  <2>1. PICK f \in Frames(ToServerTypes) :
            SendToServer(f) /\ f.type # "ACK" /\ UNCHANGED <<cMsg, cNext>>
    <3>1. /\ Frame("MOVE", moveSeq, <<0, moves + 1, 0>>) \in Frames(ToServerTypes)
          /\ Frame("END", moveSeq, <<0, -1, 0>>) \in Frames(ToServerTypes)
      BY ClientFramesAreTyped
    <3>2. /\ Frame("MOVE", moveSeq, <<0, moves + 1, 0>>).type # "ACK"
          /\ Frame("END", moveSeq, <<0, -1, 0>>).type # "ACK"
      BY DEF Frame
    <3>3. QED
      BY <1>5, <3>1, <3>2 DEF PressMove, Quit, ClientKeeps
  <2>2. QED
    BY <1>3, <2>1
<1>6. ASSUME NEW phases, NEW types, ClientArriving(phases, types),
             types \subseteq {"DATA", "VIEW", "FILE", "END"},
             SendToServer(Reply(frame, "ACK")),
             ClientLives' /\ Taken => Taken',
             ClientLives' /\ frame = Awaited /\ ServerAt({"waitHead", "waitData"}) => Taken'
      PROVE  AcksInv'
  <2> DEFINE a == Reply(frame, "ACK")
             Y == {a}
  <2>1. /\ frame \in Range(toClient) /\ frame \in Frames(ToClientTypes)
        /\ frame.type \in {"DATA", "VIEW", "FILE", "END"}
    BY <1>6, AtTheClient
  <2>2. a \in Frames(ToServerTypes)
    BY <2>1, FrameParts
  <2>3. Adds(toServer, toServer', Y) /\ (\A y \in Y : y.type = "ACK" => y = Reply(frame, "ACK"))
    BY <1>6, <2>2, ToServerSent
  <2> HIDE DEF Y, a, frame
  <2>4. QED
    BY <1>1, <1>6, <2>1, <2>3, AckSent
<1>7. CASE ClientReadsEnd
  BY <1>6, <1>7 DEF ClientReadsEnd, ClientLives
<1>8. CASE ClientReadsStart
  <2>1. Between /\ HeadTaken' /\ sPhase \in {"waitHead", "failed"}
    BY <1>8, StartKeepsStep
  <2>2. ~Taken
    BY <2>1 DEF Between, Taken, TypeInv, SessionTypeOK, ServerTypeOK, ClientTypeOK
  <2>3. ServerAt({"waitHead", "waitData"}) => Taken'
    BY <1>1, <2>1 DEF HeadTaken, Taken, serverVars, ServerAt
  <2>4. QED
    BY <1>6, <1>8, <2>2, <2>3 DEF ClientReadsStart
<1>9. CASE ClientReadsData
  <2>1. ClientArriving({"view", "file"}, {"DATA"}) /\ frame.seq = Expected
    BY <1>9 DEF ClientReadsData
  <2>2. Inside /\ sPhase \in {"waitData", "failed"} /\ ChunkTaken'
    BY <1>9, <2>1, DeliveredIsAtHand, DataKeepsStep
  <2>3. ~Taken
    BY <2>2 DEF Inside, Taken, TypeInv, SessionTypeOK, ServerTypeOK, ClientTypeOK
  <2>4. ServerAt({"waitHead", "waitData"}) => Taken'
    BY <1>1, <2>2 DEF ChunkTaken, Taken, serverVars, ServerAt
  <2>5. QED
    BY <1>6, <1>9, <2>3, <2>4 DEF ClientReadsData
<1>10. FileError \in Frames(ToServerTypes) /\ FileError.type = "ERROR"
  BY ClientFramesAreTyped DEF FileError, Frame
<1>11. CASE DiskRefusesChunk
  BY <1>3, <1>10, <1>11 DEF DiskRefusesChunk, ClientKeeps
<1>12. CASE DiskRefusesFile
  <2>1. frame \in Frames(ToClientTypes)
    BY <1>12, AtTheClient DEF DiskRefusesFile
  <2>2. Reply(frame, "ERROR") \in Frames(ToServerTypes) /\ Reply(frame, "ERROR").type = "ERROR"
    BY <2>1, FrameParts
  <2>3. QED
    BY <1>3, <1>12, <2>2 DEF DiskRefusesFile, ClientKeeps
<1>13. CASE DiskFailsAtClose
  <2> DEFINE a == Reply(frame, "ACK")
             Y == {a, FileError}
  <2>1. /\ frame \in Range(toClient) /\ frame \in Frames(ToClientTypes)
        /\ frame.type \in {"DATA", "VIEW", "FILE", "END"}
    BY <1>13, AtTheClient DEF DiskFailsAtClose
  <2>2. a \in Frames(ToServerTypes)
    BY <2>1, FrameParts
  <2>3. PICK link \in AfterSend(toServer, a) : toServer' \in AfterSend(link, FileError)
    BY <1>13 DEF DiskFailsAtClose
  <2>4. Adds(toServer, link, {a}) /\ link \in Seq(Frames(ToServerTypes))
    BY <2>2, <2>3, AddsSent DEF TypeInv, SessionTypeOK, LinksTypeOK
  <2>5. Adds(link, toServer', {FileError})
    BY <1>10, <2>3, <2>4, AddsSent
  <2>6. Adds(toServer, toServer', Y)
    BY <2>4, <2>5 DEF Adds
  <2>7. \A y \in Y : y.type = "ACK" => y = Reply(frame, "ACK")
    BY <1>10
  <2>8. ~ClientLives'
    BY <1>13 DEF DiskFailsAtClose, ClientLives
  <2> HIDE DEF Y, a, frame
  <2>9. QED
    BY <1>1, <2>1, <2>6, <2>7, <2>8, AckSent
<1>14. QED
  BY <1>4, <1>5, <1>7, <1>8, <1>9, <1>11, <1>12, <1>13 DEF ClientActs

LEMMA ServerRepeatsKeepAcks ==
    ASSUME TypeInv, InStep, AcksInv, ServerRepeats \/ Stabilise
    PROVE  AcksInv'
<1>1. /\ UNCHANGED <<serverVars, clientVars>> /\ (Taken => Taken')
      /\ (ClientLives' <=> ClientLives)
  BY RepeatsKeep, TakenStays DEF clientVars, ClientLives
<1>2. toServer' = toServer \/ (toServer # << >> /\ toServer' = Tail(toServer))
  BY DEF ServerRepeats, HeadTimeout, ChunkTimeout, ServerReadsNack,
     ServerReadsOther, ServerReadsNoMove, Stabilise, ServerArriving
<1> DEFINE Y == {}
<1>3. Adds(toServer, toServer', Y) /\ \A y \in Y : y.type # "ACK"
  BY <1>2, ToServerNone
<1> HIDE DEF Y
<1>4. QED
  BY <1>1, <1>3, NoAckSent

(* One more number is used up by a file that could not be opened. *)
LEMMA UsedMore ==
    ASSUME TypeInv, NEW s \in SeqNumbers, JustUsed(s), sSeq' = HeadSeq,
           sPhase' = "head", Len(jobs') = Len(jobs) - 1,
           Len(jobs) \in Nat, Len(jobs') >= 1
    PROVE  JustUsed(s)'
<1>1. PICK n \in 1 .. 3 : (s + n) % SeqSpace = HeadSeq /\ n + Len(jobs) <= 4
  BY DEF JustUsed
<1>2. s + n \in Int /\ s + n + 1 = s + (n + 1)
  BY Space DEF SeqNumbers
<1>3. HeadSeq' = (((s + n) % SeqSpace) + 1) % SeqSpace
  BY <1>1 DEF HeadSeq, NextSequence
<1>4. (s + (n + 1)) % SeqSpace = HeadSeq'
  BY <1>2, <1>3, ModAdd
<1>5. n + 1 \in 1 .. 3 /\ (n + 1) + Len(jobs') <= 4
  BY <1>1
<1>6. QED
  BY <1>4, <1>5 DEF JustUsed, ServerAt

LEMMA ServerActsKeepAcks ==
    ASSUME TypeInv, InStep, AcksInv, ServerActs, "read" \notin faults
    PROVE  AcksInv'
<1>1. UNCHANGED clientVars
  BY ServerActsTyped
<1>2. /\ HeadSeq \in SeqNumbers /\ sMsg \in Nat /\ cMsg \in Nat /\ cNext \in Nat
      /\ sChunk \in Nat
      /\ SequenceForIndex(HeadSeq, -1) = HeadSeq
      /\ SequenceForIndex(HeadSeq, sChunk - 1) # SequenceForIndex(HeadSeq, sChunk)
      /\ \A s \in SeqNumbers : JustUsed(s) => s # HeadSeq
  BY StateNumbersApart DEF TypeInv, SessionTypeOK, ServerTypeOK, ClientTypeOK
<1>3. \A f \in Range(toServer) : f.seq \in SeqNumbers
  <2>1. Range(toServer) \subseteq Frames(ToServerTypes)
    BY LinkFrames DEF TypeInv, SessionTypeOK, LinksTypeOK
  <2>2. QED
    BY <2>1, FrameParts
<1>4. CASE ServerReadsError \/ ServerInterfaceFails \/ ServerReadsEnd
  BY <1>4 DEF ServerReadsError, ServerInterfaceFails, ServerReadsEnd, AcksInv,
     ServerReads, ServerAt
<1>5. CASE SendHead
  <2>1. /\ sPhase = "head" /\ sPhase' = "waitHead" /\ UNCHANGED <<toServer, jobs>>
        /\ HeadSeq' = HeadSeq
    BY <1>5 DEF SendHead, HeadSeq
  <2>2. Awaited'.seq = HeadSeq
    BY <2>1 DEF Awaited, HeadFrame, Frame
  <2>3. ASSUME NEW f \in Range(toServer), f.type = "ACK"
        PROVE  AckInv(f)' /\ f.seq # HeadSeq
    <3>1. JustUsed(f.seq)
      BY <2>1, <2>3 DEF AcksInv, AckInv, ServerAt, ServerReads
    <3>2. f.seq # HeadSeq
      BY <1>2, <1>3, <2>3, <3>1
    <3>3. JustUsed(f.seq)'
      BY <2>1, <3>1 DEF JustUsed, ServerAt
    <3>4. QED
      BY <2>1, <2>2, <3>2, <3>3 DEF AckInv, ServerAt
  <2>4. QED
    BY <2>1, <2>2, <2>3 DEF AcksInv
<1>6. CASE SendChunk
  <2>1. /\ sPhase = "data" /\ sPhase' = "waitData" /\ UNCHANGED <<toServer, sChunk>>
        /\ HeadSeq' = HeadSeq
    BY <1>6 DEF SendChunk, HeadSeq
  <2>2. Awaited'.seq = SequenceForIndex(HeadSeq, sChunk)
    BY <2>1 DEF Awaited, DataFrame, Frame
  <2>3. ASSUME NEW f \in Range(toServer), f.type = "ACK"
        PROVE  AckInv(f)' /\ f.seq # Awaited'.seq
    <3>1. f.seq = SequenceForIndex(HeadSeq, sChunk - 1)
      BY <2>1, <2>3 DEF AcksInv, AckInv, ServerAt, ServerReads
    <3>2. f.seq # Awaited'.seq
      BY <1>2, <2>2, <3>1
    <3>3. QED
      BY <2>1, <3>1, <3>2 DEF AckInv, ServerAt
  <2>4. QED
    BY <2>1, <2>3 DEF AcksInv
<1>7. CASE FileUnavailable
  <2>1. /\ sPhase = "head" /\ Head(jobs) = "FILE" /\ NextJob(HeadSeq)
        /\ UNCHANGED toServer
    BY <1>7 DEF FileUnavailable
  <2>2. jobs # << >> /\ jobs \in JobLists
    BY <2>1 DEF TypeInv, JobsInv, ServerAt
  <2>3. /\ sSeq' = HeadSeq /\ sPhase' = "head" /\ Len(jobs') = Len(jobs) - 1
        /\ Len(jobs) \in Nat /\ Len(jobs) <= 3 /\ Len(jobs') >= 1
    BY <1>2, <2>1, <2>2, JobIsDone, JobListsShape
  <2>4. ASSUME NEW f \in Range(toServer), f.type = "ACK"
        PROVE  AckInv(f)'
    <3>1. JustUsed(f.seq) /\ f.seq \in SeqNumbers
      BY <1>3, <2>1, <2>4 DEF AcksInv, AckInv, ServerAt, ServerReads
    <3>2. JustUsed(f.seq)'
      BY <2>3, <3>1, UsedMore
    <3>3. QED
      BY <2>3, <3>2 DEF AckInv, ServerAt
  <2>5. QED
    BY <2>1, <2>3, <2>4 DEF AcksInv, ServerAt
<1>8. CASE ServerReadsOldMove \/ ServerReadsNewMove
  <2>1. /\ sPhase = "play" /\ sPhase' = "head" /\ jobs' \in JobLists
        /\ UNCHANGED sSeq /\ toServer' = Tail(toServer) /\ ServerArriving({"play"})
    BY <1>8, JobListsShape DEF ServerReadsOldMove, ServerReadsNewMove, ServerArriving
  <2>2. Range(toServer') \subseteq Range(toServer)
    BY <2>1, AtTheServer
  <2>3. ASSUME NEW f \in Range(toServer), f.type = "ACK"
        PROVE  AckInv(f)'
    <3>1. JustUsed(f.seq)
      BY <2>1, <2>3 DEF AcksInv, AckInv, ServerAt, ServerReads
    <3>2. (f.seq + 1) % SeqSpace = HeadSeq
      BY <2>1, <3>1 DEF JustUsed, ServerAt
    <3>3. JustUsed(f.seq)'
      <4>1. Len(jobs') \in Nat /\ Len(jobs') <= 3
        BY <2>1, JobListsShape
      <4>2. 1 \in 1 .. 3 /\ 1 + Len(jobs') <= 4
        BY <4>1
      <4>3. (f.seq + 1) % SeqSpace = HeadSeq'
        BY <2>1, <3>2 DEF HeadSeq
      <4>4. QED
        BY <2>1, <4>2, <4>3 DEF JustUsed, ServerAt
    <3>4. QED
      BY <2>1, <3>3 DEF AckInv, ServerAt
  <2>4. QED
    BY <2>1, <2>2, <2>3 DEF AcksInv, ServerAt
<1>9. ASSUME HeadAcknowledged \/ ChunkAcknowledged
      PROVE  \A f \in Range(toServer') : f.type = "ACK" => f.seq = Awaited.seq
  <2>1. /\ ServerAt({"waitHead", "waitData"}) /\ Head(toServer) \in Range(toServer)
        /\ Head(toServer).type = "ACK" /\ Head(toServer).seq = Awaited.seq
        /\ Range(toServer') \subseteq Behind(toServer, Head(toServer))
    BY <1>9, AtTheServer DEF HeadAcknowledged, ChunkAcknowledged, ServerArriving,
       ServerAt, Awaited, HeadFrame, Frame
  <2>2. QED
    BY <2>1 DEF AcksInv
<1>10. CASE HeadAcknowledged
  <2>1. sPhase = "waitHead" /\ Awaited.seq = HeadSeq
    BY <1>10 DEF HeadAcknowledged, ServerArriving, Awaited, HeadFrame, Frame
  <2>2. CASE Head(jobs) = "END"
    <3>1. sPhase' = "ended"
      BY <1>10, <2>2 DEF HeadAcknowledged, NextJob
    <3>2. QED
      BY <3>1 DEF AcksInv, ServerReads, ServerAt
  <2>3. CASE Head(jobs) # "END"
    <3>1. sPhase' = "data" /\ sChunk' = 0 /\ HeadSeq' = HeadSeq
      BY <1>10, <2>3 DEF HeadAcknowledged, HeadSeq
    <3>2. SequenceForIndex(HeadSeq', sChunk' - 1) = HeadSeq
      <4>1. sChunk' - 1 = -1
        BY <3>1
      <4>2. QED
        BY <1>2, <3>1, <4>1
    <3>3. ASSUME NEW f \in Range(toServer'), f.type = "ACK"
          PROVE  AckInv(f)'
      BY <1>9, <1>10, <2>1, <3>1, <3>2, <3>3 DEF AckInv, ServerAt
    <3>4. QED
      BY <3>1, <3>3 DEF AcksInv, ServerAt
  <2>4. QED
    BY <2>2, <2>3
<1>11. CASE ChunkAcknowledged
  <2>1. sPhase = "waitData" /\ Awaited.seq = SequenceForIndex(HeadSeq, sChunk)
        /\ sChunk' = sChunk + 1
    BY <1>11 DEF ChunkAcknowledged, ServerArriving, Awaited, DataFrame, Frame
  <2>2. CASE sChunk + 1 = Chunks(Head(jobs))
    <3> DEFINE seq == SequenceAddCount(HeadSeq, Chunks(Head(jobs)))
    <3>1. /\ Chunks(Head(jobs)) \in Nat /\ jobs \in JobLists /\ jobs # << >>
          /\ Head(jobs) # "END"
      BY <2>1, ChunksAreTyped DEF TypeInv, JobsInv, ServerAt
    <3>2. seq \in SeqNumbers /\ NextJob(seq)
      <4>1. HeadSeq \in SeqNumbers /\ Chunks(Head(jobs)) \in Int
        BY <1>2, <3>1
      <4>2. \A s \in SeqNumbers, n \in Int : SequenceAddCount(s, n) \in SeqNumbers
        BY NumbersAreTyped DEF TypeInv
      <4>3. NextJob(seq)
        BY <1>11, <2>2 DEF ChunkAcknowledged
      <4>4. QED
        BY <4>1, <4>2, <4>3
    <3>3. seq = Awaited.seq
      <4>1. HeadSeq + sChunk + 1 = HeadSeq + Chunks(Head(jobs))
        BY <1>2, <2>2, <3>1, NumbersAreTyped DEF TypeInv
      <4>2. QED
        BY <2>1, <4>1 DEF SequenceForIndex, SequenceAddCount
    <3> HIDE DEF seq
    <3>4. /\ sSeq' = seq /\ sPhase' \in {"head", "play"} /\ Len(jobs') = Len(jobs) - 1
          /\ Len(jobs) \in Nat /\ Len(jobs) <= 3
      <4>1. /\ Head(jobs) \in {"VIEW", "FILE"}
            /\ Len(jobs) \in Nat /\ Len(jobs) <= 3
        BY <3>1, JobListsShape
      <4>2. QED
        BY <3>1, <3>2, <4>1, JobIsDone
    <3>5. ASSUME NEW f \in Range(toServer'), f.type = "ACK"
          PROVE  AckInv(f)'
      <4>1. f.seq = seq
        BY <1>9, <1>11, <3>3, <3>5
      <4>2. (f.seq + 1) % SeqSpace = HeadSeq'
        BY <3>4, <4>1 DEF HeadSeq, NextSequence
      <4>3. 1 \in 1 .. 3 /\ 1 + Len(jobs') <= 4
        BY <3>4
      <4>4. JustUsed(f.seq)'
        BY <4>2, <4>3 DEF JustUsed
      <4>5. QED
        BY <3>4, <4>4 DEF AckInv, ServerAt
    <3>6. QED
      BY <3>4, <3>5 DEF AcksInv, ServerAt
  <2>3. CASE sChunk + 1 # Chunks(Head(jobs))
    <3>1. sPhase' = "data" /\ HeadSeq' = HeadSeq
      BY <1>11, <2>3 DEF ChunkAcknowledged, HeadSeq
    <3>2. SequenceForIndex(HeadSeq', sChunk' - 1) = Awaited.seq
      <4>1. sChunk' - 1 = sChunk
        BY <1>2, <2>1
      <4>2. QED
        BY <2>1, <3>1, <4>1
    <3>3. ASSUME NEW f \in Range(toServer'), f.type = "ACK"
          PROVE  AckInv(f)'
      BY <1>9, <1>11, <3>1, <3>2, <3>3 DEF AckInv, ServerAt
    <3>4. QED
      BY <3>1, <3>3 DEF AcksInv, ServerAt
  <2>4. QED
    BY <2>2, <2>3
<1>12. CASE FileReadError \/ FileCloseError
  BY <1>12 DEF FileReadError, FileCloseError
<1>13. QED
  BY <1>4, <1>5, <1>6, <1>7, <1>8, <1>10, <1>11, <1>12 DEF ServerActs

(* An ERROR frame goes to the server when a disk fails only. *)
LEMMA StartAgainIsSame ==
    ASSUME TypeInv, InStep, ClientReadsStartAgain
    PROVE  SendToServer(Reply(Head(toClient), "ACK"))
<1> DEFINE frame == Head(toClient)
<1>1. /\ cPhase \in {"view", "file"} /\ frame.type \in {"VIEW", "FILE"}
      /\ frame \in Range(toClient)
  BY AtTheClient DEF ClientReadsStartAgain
<1>2. ClientLives /\ ~Between
  BY <1>1 DEF ClientLives, Between, OutOfTransfer
<1>3. /\ HeadFrame.type = Head(jobs) /\ HeadFrame.seq = HeadSeq
      /\ DataFrame(sChunk).type = "DATA"
  BY DEF HeadFrame, DataFrame, Frame
<1>4. frame = HeadFrame /\ cBase = HeadSeq /\ Expects(Head(jobs))
  BY <1>1, <1>2, <1>3 DEF InStep, HeadTaken, Inside, ChunkTaken, Control, Again,
     Expects, OutOfTransfer
<1>5. /\ frame.seq = cBase /\ (frame.type = "VIEW") = (cPhase = "view")
      /\ frame.about[1] = cMsg
  <2>1. cMsg = sMsg
    BY <1>1, <1>2 DEF InStep, HeadTaken, Inside, ChunkTaken, OutOfTransfer
  <2>2. HeadFrame.about[1] = sMsg
    BY DEF HeadFrame, Frame
  <2>3. QED
    BY <1>1, <1>3, <1>4, <2>1, <2>2 DEF Expects
<1>6. QED
  BY <1>5 DEF ClientReadsStartAgain

LEMMA ErrorsStep ==
    ASSUME TypeInv, InStep, ErrorsInv, SessionNext, "read" \notin faults
    PROVE  ErrorsInv'
<1>1. faults' = faults
  BY Steps DEF Stabilise
<1>2. ASSUME NEW f \in Range(toServer'), f.type = "ERROR"
      PROVE  "disk" \in faults
  <2>1. CASE f \in Range(toServer)
    BY <1>2, <2>1 DEF ErrorsInv
  <2>2. CASE toServer' = toServer \/ (toServer # << >> /\ toServer' = Tail(toServer))
    BY <1>2, <2>1, <2>2, ToServerNone DEF Adds
  <2>3. ASSUME NEW g \in Frames(ToServerTypes), SendToServer(g) \/ UNCHANGED toServer,
               g.type # "ERROR"
        PROVE  "disk" \in faults
    BY <1>2, <2>1, <2>3, ToServerSent DEF Adds
  <2>4. CASE \/ SendHead \/ FileUnavailable \/ HeadTimeout \/ SendChunk
             \/ FileReadError \/ ChunkTimeout \/ ServerInterfaceFails \/ Stabilise
             \/ CloseKeyboard \/ ControlError \/ ControlAcknowledged
             \/ ClientReadsError \/ ClientInterfaceFails
    BY <2>2, <2>4 DEF SendHead, FileUnavailable, HeadTimeout, SendChunk,
       FileReadError, ChunkTimeout, ServerInterfaceFails, Stabilise, CloseKeyboard,
       ControlError, ControlAcknowledged, ClientReadsError, ClientInterfaceFails
  <2>5. CASE \/ ServerReadsError \/ HeadAcknowledged \/ ChunkAcknowledged
             \/ FileCloseError \/ ServerReadsNack \/ ServerReadsOther \/ ServerReadsEnd
             \/ ServerReadsNoMove \/ ServerReadsOldMove \/ ServerReadsNewMove
    BY <2>2, <2>5 DEF ServerReadsError, HeadAcknowledged, ChunkAcknowledged,
       FileCloseError, ServerReadsNack, ServerReadsOther, ServerReadsEnd, ServerReadsNoMove,
       ServerReadsOldMove, ServerReadsNewMove, ServerArriving
  <2>6. CASE \/ PressMove \/ Quit \/ ControlTimeout \/ ReceiveTimeout
             \/ ControlOther \/ ClientReadsForeign \/ ClientRefusesLength
    <3>1. /\ Frame("NACK", Expected, <<cMsg, cNext, 0>>).type # "ERROR"
          /\ Frame("MOVE", moveSeq, <<0, moves + 1, 0>>).type # "ERROR"
          /\ Frame("END", moveSeq, <<0, -1, 0>>).type # "ERROR"
          /\ Frame("MOVE", moveSeq, <<0, moves, 0>>).type # "ERROR"
      BY DEF Frame
    <3>2. Asked.type # "ERROR"
      BY <3>1 DEF Asked
    <3>3. PICK g \in Frames(ToServerTypes) :
              (SendToServer(g) \/ UNCHANGED toServer) /\ g.type # "ERROR"
      BY <2>6, <3>1, <3>2, ClientFramesAreTyped DEF PressMove, Quit,
         ControlTimeout, ReceiveTimeout, ControlOther, ClientReadsForeign,
         ClientRefusesLength, NackExpected
    <3>4. QED
      BY <2>3, <3>3
  <2>7. CASE \/ ControlOldData \/ ClientReadsEnd \/ ClientReadsStart
             \/ ClientReadsStartAgain \/ ClientReadsLate \/ ClientReadsOldData
             \/ ClientReadsData
    <3>1. \/ UNCHANGED toServer
          \/ SendToServer(Reply(Head(toClient), "ACK"))
          \/ NackExpected
      BY <2>7, StartAgainIsSame DEF ControlOldData, ClientReadsEnd,
         ClientReadsStart, ClientReadsLate, ClientReadsOldData, ClientReadsData
    <3>2. Head(toClient) \in Frames(ToClientTypes)
      BY <2>7, AtTheClient DEF ControlOldData, ClientReadsEnd, ClientReadsStart,
         ClientReadsStartAgain, ClientReadsLate, ClientReadsOldData, ClientReadsData
    <3>3. /\ Reply(Head(toClient), "ACK") \in Frames(ToServerTypes)
          /\ Reply(Head(toClient), "ACK").type = "ACK"
      BY <3>2, FrameParts
    <3>4. /\ Frame("NACK", Expected, <<cMsg, cNext, 0>>).type = "NACK"
          /\ Frame("NACK", Expected, <<cMsg, cNext, 0>>) \in Frames(ToServerTypes)
      BY ClientFramesAreTyped DEF Frame
    <3>5. QED
      BY <2>3, <3>1, <3>3, <3>4 DEF NackExpected
  <2>8. CASE DiskRefusesFile \/ DiskRefusesChunk \/ DiskFailsAtClose
    BY <2>8 DEF DiskRefusesFile, DiskRefusesChunk, DiskFailsAtClose
  <2>9. QED
    BY <2>4, <2>5, <2>6, <2>7, <2>8, Steps DEF ServerStays, ServerActs
<1>3. ASSUME faults = {}
      PROVE  NothingFails'
  <2>1. NothingFails
    BY <1>3 DEF ErrorsInv
  <2>2. sPhase' # "failed"
    <3>1. CASE UNCHANGED serverVars
      BY <2>1, <3>1 DEF NothingFails, serverVars
    <3>2. CASE ServerReadsError
      <4>1. Head(toServer) \in Range(toServer) /\ Head(toServer).type = "ERROR"
        BY <3>2, AtTheServer DEF ServerReadsError
      <4>2. QED
        BY <1>3, <4>1 DEF ErrorsInv
    <3>3. CASE \/ ServerInterfaceFails \/ FileUnavailable \/ FileReadError
               \/ FileCloseError
      BY <1>3, <3>3 DEF ServerInterfaceFails, FileUnavailable, FileReadError,
         FileCloseError
    <3>4. CASE \/ SendHead \/ SendChunk \/ HeadAcknowledged \/ ChunkAcknowledged
               \/ ServerReadsEnd \/ ServerReadsOldMove \/ ServerReadsNewMove
      BY <3>4 DEF SendHead, SendChunk, HeadAcknowledged, ChunkAcknowledged,
         ServerReadsEnd, ServerReadsOldMove, ServerReadsNewMove, NextJob
    <3>5. QED
      BY <3>1, <3>2, <3>3, <3>4, Steps, ServerStaysTyped DEF ServerActs
  <2>3. cPhase' # "failed"
    <3>1. CASE UNCHANGED clientVars
      BY <2>1, <3>1 DEF NothingFails, clientVars
    <3>2. CASE ControlError
      <4>1. /\ cPhase \in {"waitMove", "waitEnd"} /\ Head(toClient).type = "ERROR"
            /\ Head(toClient) \in Range(toClient)
        BY <3>2, AtTheClient DEF ControlError
      <4>2. ClientLives /\ ~HeadTaken /\ ~Inside
        BY <4>1 DEF ClientLives, HeadTaken, Inside, Expects
      <4>3. jobs # << >> => HeadFrame.type # "ERROR"
        BY JobListsShape DEF HeadFrame, Frame, TypeInv, JobsInv
      <4>4. DataFrame(sChunk).type # "ERROR"
        BY DEF DataFrame, Frame
      <4>5. QED
        BY <1>3, <4>1, <4>2, <4>3, <4>4
           DEF InStep, Between, ChunkTaken, Control, Again
    <3>3. CASE ClientReadsError
      <4>1. cPhase # "view"
        BY <3>3, NoErrorInTransfer DEF ClientReadsError, ClientArriving
      <4>2. QED
        BY <3>3, <4>1 DEF ClientReadsError
    <3>4. CASE \/ DiskRefusesFile \/ DiskRefusesChunk \/ DiskFailsAtClose
               \/ ClientInterfaceFails
      BY <1>3, <3>4 DEF DiskRefusesFile, DiskRefusesChunk, DiskFailsAtClose,
         ClientInterfaceFails
    <3>5. CASE \/ PressMove \/ Quit \/ CloseKeyboard \/ ControlAcknowledged
               \/ ClientReadsEnd \/ ClientReadsStart
      BY <3>5 DEF PressMove, Quit, CloseKeyboard, ControlAcknowledged,
         ClientReadsEnd, ClientReadsStart
    <3>6. CASE ClientReadsData
      BY <2>1, <3>6 DEF ClientReadsData, NothingFails
    <3>7. QED
      BY <3>1, <3>2, <3>3, <3>4, <3>5, <3>6, Steps, ServerActsTyped, Stays,
         RepeatsKeep DEF ClientActs
  <2>4. QED
    BY <2>2, <2>3 DEF NothingFails
<1>4. QED
  BY <1>1, <1>2, <1>3 DEF ErrorsInv

LEMMA TransferStep ==
    ASSUME TypeInv, TransferInv, "read" \notin faults, [SessionNext]_sessionVars
    PROVE  TransferInv'
<1>1. CASE UNCHANGED sessionVars
  BY <1>1 DEF sessionVars, serverVars, clientVars, TransferInv, InStep,
     ClientLives, Between, HeadTaken, Inside, ChunkTaken, AcksInv, AckInv,
     ErrorsInv, NothingFails, ServerReads, ServerAt, Awaited, HeadFrame, HeadSeq,
     DataFrame, JustUsed, Delivered, Again, LastOfAll, OutOfTransfer, Expects,
     Taken, Control, Chunks
<1>2. CASE SessionNext
  <2>1. AcksInv'
    BY <1>2, Steps, Stays, ClientActsKeepAcks, RepeatsKeepAcks,
       ServerRepeatsKeepAcks, ServerActsKeepAcks DEF TransferInv
  <2>2. QED
    BY <1>2, <2>1, InStepStep, ErrorsStep DEF TransferInv
<1>3. QED
  BY <1>1, <1>2

LEMMA TransferInit == SessionInit => TransferInv
<1>1. SUFFICES ASSUME SessionInit PROVE TransferInv
  OBVIOUS
<1>2. Range(toClient) = {} /\ Range(toServer) = {} /\ \A f : Behind(toClient, f) = {}
  BY <1>1, EmptyLink DEF SessionInit
<1>3. Between
  <2>1. JustUsed(Delivered)
    <3>1. Delivered = 0
      <4>1. 0 \in SeqNumbers /\ 0 + (0 - 1) + 1 = 0
        BY Space DEF SeqNumbers
      <4>2. QED
        BY <1>1, <4>1, ModSmall DEF Delivered, SequenceForIndex, SessionInit
    <3>2. HeadSeq = (0 + 1) % SeqSpace /\ Len(jobs) = 1 /\ sPhase = "head"
      BY <1>1 DEF SessionInit, HeadSeq, NextSequence
    <3>3. QED
      BY <3>1, <3>2 DEF JustUsed, ServerAt
  <2>2. QED
    BY <1>1, <1>2, <2>1 DEF SessionInit, Between, ServerAt, OutOfTransfer, LastOfAll
<1>4. InStep
  BY <1>3 DEF InStep
<1>5. AcksInv /\ ErrorsInv
  BY <1>1, <1>2 DEF AcksInv, ErrorsInv, NothingFails, SessionInit
<1>6. QED
  BY <1>4, <1>5 DEF TransferInv

(* What the runs check of the transfers. *)
LEMMA TransfersAreApart ==
    ASSUME TypeInv, TransferInv
    PROVE  DataIsOfOpenTransfer /\ AckIsOfAwaitedFrame /\ LossesFailNothing
<1>1. DataIsOfOpenTransfer
  <2>1. SUFFICES ASSUME ClientArriving({"view", "file"}, {"DATA"}),
                        Head(toClient).seq = Expected
                 PROVE  /\ Head(toClient).about[1] = cMsg
                        /\ Head(toClient).about[2] = cNext
    BY DEF DataIsOfOpenTransfer
  <2>2. Inside /\ Head(toClient) = DataFrame(sChunk)
    BY <2>1, DeliveredIsAtHand DEF TransferInv
  <2>3. QED
    BY <2>2 DEF Inside, DataFrame, Frame
<1>2. AckIsOfAwaitedFrame
  <2>1. SUFFICES ASSUME ServerArriving({"waitHead", "waitData"}),
                        Head(toServer).type = "ACK",
                        Head(toServer).seq = Awaited.seq
                 PROVE  /\ Head(toServer).about[1] = Awaited.about[1]
                        /\ Head(toServer).about[2] = Awaited.about[2]
    BY DEF AckIsOfAwaitedFrame
  <2>2. Head(toServer) \in Range(toServer) /\ ServerAt({"waitHead", "waitData"})
    BY <2>1, AtTheServer DEF ServerAt
  <2>3. AckInv(Head(toServer))
    BY <2>1, <2>2 DEF TransferInv, AcksInv, ServerReads, ServerAt
  <2>4. QED
    BY <2>1, <2>2, <2>3 DEF AckInv
<1>3. LossesFailNothing
  BY DEF TransferInv, ErrorsInv, LossesFailNothing
<1>4. QED
  BY <1>1, <1>2, <1>3

-----------------------------------------------------------------------------
(* Every variable of a session stays in its range, whatever is lost or      *)
(* fails: no number leaves the sequence space, no frame is malformed.       *)
THEOREM SessionTypeCorrect == SessionSpec => []SessionTypeOK
<1>1. SessionInit => TypeInv
  BY TypeInit
<1>2. TypeInv /\ [SessionNext]_sessionVars => TypeInv'
  BY TypeStep
<1>3. TypeInv => SessionTypeOK
  BY DEF TypeInv
<1>4. QED
  BY <1>1, <1>2, <1>3, PTL DEF SessionSpec

(* The invariant of the transfers holds as long as every file that could be *)
(* opened can be read.                                                      *)
TransfersInv == TypeInv /\ ("read" \notin faults => TransferInv)

LEMMA TransfersAlways == SessionSpec => []TransfersInv
<1>1. SessionInit => TransfersInv
  BY TypeInit, TransferInit DEF TransfersInv
<1>2. TransfersInv /\ [SessionNext]_sessionVars => TransfersInv'
  <2>1. SUFFICES ASSUME TransfersInv, [SessionNext]_sessionVars PROVE TransfersInv'
    OBVIOUS
  <2>2. TypeInv'
    BY <2>1, TypeStep DEF TransfersInv
  <2>3. faults' = faults
    BY <2>1, Steps DEF Stabilise, sessionVars
  <2>4. QED
    BY <2>1, <2>2, <2>3, TransferStep DEF TransfersInv
<1>3. QED
  BY <1>1, <1>2, PTL DEF SessionSpec

(* The frame that receive_view_message and receive_file deliver is of the   *)
(* transfer they have open, and the ACK that the server accepts is of the   *)
(* frame it waits to see answered, for any number of chunks and any space   *)
(* of at least four numbers.                                                *)
THEOREM TransfersKeepApart == SessionSpec => []WholeTransfersKeepApart
<1>1. TransfersInv => WholeTransfersKeepApart
  BY TransfersAreApart DEF TransfersInv, WholeTransfersKeepApart
<1>2. QED
  BY <1>1, TransfersAlways, PTL

(* Losses and timeouts alone never make game_session_run_server or          *)
(* game_session_run_client return an error.                                 *)
THEOREM LossesAlone == SessionSpec => []LossesFailNothing
<1>1. TransfersInv => LossesFailNothing
  BY TransfersAreApart DEF TransfersInv, LossesFailNothing
<1>2. QED
  BY <1>1, TransfersAlways, PTL
=============================================================================
