--------------------------- MODULE TransfersProofs ---------------------------
(* What holds of a file transfer for files of every length, any number of     *)
(* faults and of new starts.                                                  *)
EXTENDS Transfers, LeastNumber, SequenceTheorems

-----------------------------------------------------------------------------
(* Zmodem: what is on the line.                                               *)

FrameTypes == HeaderTypes \cup {"CAN", "OO", "name", "packet", "final", "junk", "broken", "bad"}
Frames == [t : FrameTypes, n : Nat]

(* A subpacket that ends with ZCRCE is the last of the file: what damages a   *)
(* frame makes none.                                                          *)
BoardFrames == {f \in Frames : f.t = "final" => f.n = fileLen}

ZTyped ==
  /\ fileLen \in Nat /\ fpos \in Nat /\ tPos \in Nat
  /\ role \in {"send", "recv"}
  /\ disk \in Seq(Nat)
  /\ toTerm \in Seq(Frames) /\ toBoard \in Seq(BoardFrames)
  /\ tAt \in {"on", "offered", "stream", "sent", "done", "gone"}

(* Where a transfer is before a subpacket of data has come.                   *)
Opens == {"off", "rqinit", "rpos", "stream", "eof", "fin", "file", "name", "zdata"}

EndInv ==
  /\ zAt \in Opens => disk = << >>
  /\ CompleteReachesTheEnd
  /\ zAt = "last" /\ disk # << >> => disk[Len(disk)] = fileLen

(* The first frame of some types, or 0.                                       *)
LEMMA FirstIs ==
  ASSUME NEW S, NEW items \in Seq(S), NEW types
  PROVE  /\ First(items, types) \in 0..Len(items)
         /\ \A j \in 1..(First(items, types) - 1) : items[j].t \notin types
         /\ IF First(items, types) = 0 THEN \A j \in 1..Len(items) : items[j].t \notin types
                                       ELSE items[First(items, types)].t \in types
<1> DEFINE T == {i \in 1..Len(items) : items[i].t \in types}
           Is(i) == /\ \A j \in 1..(i - 1) : items[j].t \notin types
                    /\ IF i = 0 THEN \A j \in 1..Len(items) : items[j].t \notin types
                                ELSE items[i].t \in types
<1>1. Len(items) \in Nat
  BY LenProperties
<1>2. \E i \in 0..Len(items) : Is(i)
  <2>1. CASE T = {}
    <3>1. Is(0) /\ 0 \in 0..Len(items)
      BY <1>1, <2>1
    <3> QED  BY <3>1
  <2>2. CASE T # {}
    <3>1. T \in SUBSET Nat
      BY <1>1
    <3>2. PICK m \in T : \A n \in T : m <= n
      <4> HIDE DEF T
      <4> QED  BY <2>2, <3>1, LeastNumberExists
    <3>3. m \in 1..Len(items) /\ items[m].t \in types
      OBVIOUS
    <3>4. \A j \in 1..(m - 1) : items[j].t \notin types
      <4> SUFFICES ASSUME NEW j \in 1..(m - 1), items[j].t \in types PROVE FALSE
        OBVIOUS
      <4>1. j \in 1..Len(items) /\ j < m
        BY <1>1, <3>3
      <4>2. j \in T
        BY <4>1
      <4> QED
        BY <3>2, <4>1, <4>2, <3>3, <1>1
    <3>5. Is(m) /\ m \in 0..Len(items)
      BY <3>3, <3>4, <1>1
    <3> QED  BY <3>5
  <2> QED  BY <2>1, <2>2
<1>3. First(items, types) \in 0..Len(items) /\ Is(First(items, types))
  <2>1. First(items, types) = CHOOSE i \in 0..Len(items) : Is(i)
    BY DEF First
  <2> HIDE DEF Is
  <2> QED  BY <1>2, <2>1
<1> QED
  BY <1>3

(* What follows a frame.                                                      *)
LEMMA AfterIs ==
  ASSUME NEW S, NEW items \in Seq(S), NEW i \in 0..Len(items)
  PROVE  /\ After(items, i) \in Seq(S)
         /\ Len(After(items, i)) = Len(items) - i
         /\ \A j \in 1..(Len(items) - i) : After(items, i)[j] = items[i + j]
<1>1. Len(items) \in Nat
  BY LenProperties
<1>2. i + 1 \in 1..(Len(items) + 1) /\ Len(items) \in 0..Len(items)
  BY <1>1
<1>3. /\ SubSeq(items, i + 1, Len(items)) \in Seq(S)
      /\ Len(SubSeq(items, i + 1, Len(items))) =
           IF i + 1 <= Len(items) THEN Len(items) - (i + 1) + 1 ELSE 0
      /\ \A j \in 1..(Len(items) - (i + 1) + 1) :
           SubSeq(items, i + 1, Len(items))[j] = items[i + 1 + j - 1]
  BY <1>1, <1>2, SubSeqProperties
<1> QED
  BY <1>1, <1>3 DEF After

(* Frames, and sequences of one and of two.                                   *)
LEMMA FramesTyped ==
  ASSUME fileLen \in Nat
  PROVE  /\ \A t \in FrameTypes : \A n \in Nat : Frame(t, n) \in Frames
         /\ \A t \in HeaderTypes : Hdr(t) \in Frames /\ Hdr(t) \in BoardFrames
         /\ \A t \in FrameTypes \ {"final"} : \A n \in Nat : Frame(t, n) \in BoardFrames
         /\ CAN \in Frames /\ CAN \in BoardFrames
         /\ \A k \in Nat : DataPacket(k) \in Frames /\ DataPacket(k) \in BoardFrames
  BY DEF Frames, BoardFrames, Frame, Hdr, CAN, DataPacket, FrameTypes, HeaderTypes

LEMMA OneOrTwo ==
  ASSUME NEW S, NEW x \in S, NEW y \in S
  PROVE  /\ <<x>> \in Seq(S) /\ Len(<<x>>) = 1 /\ <<x>>[1] = x
         /\ <<x, y>> \in Seq(S) /\ Len(<<x, y>>) = 2
         /\ <<x, y>>[1] = x /\ <<x, y>>[2] = y
         /\ << >> \in Seq(S) /\ Len(<< >>) = 0
OBVIOUS

(* What is sent joins what is under way.                                      *)
LEMMA SentTyped ==
  ASSUME ZTyped, NEW x \in Frames, NEW y \in Frames,
         \/ Transmits(<< >>) \/ Transmits(<<x>>) \/ Transmits(<<x, y>>)
         \/ Transmits(<<x>> \o <<y>>) \/ Transmits(<< >> \o <<y>>) \/ UNCHANGED toTerm
  PROVE  toTerm' \in Seq(Frames)
<1>1. /\ <<x>> \in Seq(Frames) /\ <<y>> \in Seq(Frames) /\ <<x, y>> \in Seq(Frames)
      /\ << >> \in Seq(Frames)
  BY OneOrTwo
<1>2. <<x>> \o <<y>> \in Seq(Frames) /\ << >> \o <<y>> \in Seq(Frames)
  BY <1>1, ConcatProperties
<1>3. \A fs \in Seq(Frames) : toTerm \o fs \in Seq(Frames)
  BY ConcatProperties DEF ZTyped
<1> QED
  BY <1>1, <1>2, <1>3 DEF Transmits, ZTyped

LEMMA AnswersTyped ==
  ASSUME ZTyped, NEW x \in BoardFrames, NEW y \in BoardFrames,
         Answers(<<x>>) \/ Answers(<<x, y>>) \/ UNCHANGED toBoard
  PROVE  toBoard' \in Seq(BoardFrames)
<1>1. <<x>> \in Seq(BoardFrames) /\ <<x, y>> \in Seq(BoardFrames)
  BY OneOrTwo
<1>2. \A fs \in Seq(BoardFrames) : toBoard \o fs \in Seq(BoardFrames)
  BY ConcatProperties DEF ZTyped
<1> QED
  BY <1>1, <1>2 DEF Answers, ZTyped

(* A header that zmodem_send heard, or none.                                  *)
LEMMA SendHeaderTyped ==
  ASSUME ZTyped, NEW f, SendHeader(f)
  PROVE  toTerm' \in Seq(Frames) /\ zAt \in {"rqinit", "rpos", "eof", "fin"}
<1>1. /\ Hdr("ZRQINIT") \in Frames /\ Hdr("ZFILE") \in Frames /\ Frame("name", 0) \in Frames
      /\ Hdr("ZDATA") \in Frames /\ Hdr("ZFIN") \in Frames /\ CAN \in Frames
      /\ Frame("ZEOF", fpos) \in Frames
  BY FramesTyped DEF ZTyped, FrameTypes, HeaderTypes
<1>2. CASE zAt = "rqinit"
  <2>1. \/ Transmits(<<Hdr("ZFILE"), Frame("name", 0)>>) \/ Transmits(<<CAN>>)
        \/ Transmits(<<Hdr("ZRQINIT")>>) \/ UNCHANGED toTerm
    BY <1>2 DEF SendHeader, Retry
  <2> QED  BY <1>1, <1>2, <2>1, SentTyped
<1>3. CASE zAt = "rpos"
  <2>1. \/ Transmits(<<Hdr("ZDATA")>>) \/ Transmits(<<CAN>>) \/ Transmits(<< >>)
        \/ UNCHANGED toTerm
    BY <1>3 DEF SendHeader, Retry
  <2> QED  BY <1>1, <1>3, <2>1, SentTyped
<1>4. CASE zAt = "eof"
  <2>1. \/ Transmits(<<Hdr("ZFIN")>>) \/ Transmits(<<CAN>>)
        \/ Transmits(<<Frame("ZEOF", fpos)>>) \/ Transmits(<< >>) \/ UNCHANGED toTerm
        \/ Transmits(<<Frame("ZEOF", fpos)>> \o <<Hdr("ZFIN")>>)
        \/ Transmits(<< >> \o <<Hdr("ZFIN")>>)
    BY <1>4 DEF SendHeader, Retry
  <2> QED  BY <1>1, <1>4, <2>1, SentTyped
<1>5. CASE zAt = "fin"
  <2>1. UNCHANGED toTerm
    BY <1>5 DEF SendHeader
  <2> QED  BY <1>5, <2>1 DEF ZTyped
<1> QED
  BY <1>2, <1>3, <1>4, <1>5 DEF SendHeader

(* One that zmodem_recv heard.                                                *)
LEMMA RecvHeaderTyped ==
  ASSUME ZTyped, NEW f, RecvHeader(f)
  PROVE  /\ toTerm' \in Seq(Frames) /\ zAt \in {"file", "zdata", "last"}
         /\ zAt = "last" => zAt' \in {"last", "ok", "cancel"}
<1>1. /\ Hdr("ZRINIT") \in Frames /\ Frame("OO", 0) \in Frames /\ CAN \in Frames
  BY FramesTyped DEF ZTyped, FrameTypes, HeaderTypes
<1>2. CASE zAt = "file"
  <2>1. \/ Transmits(<<Hdr("ZRINIT")>>) \/ Transmits(<<CAN>>) \/ Transmits(<< >>)
        \/ UNCHANGED toTerm
    BY <1>2 DEF RecvHeader, Retry
  <2> QED  BY <1>1, <1>2, <2>1, SentTyped
<1>3. CASE zAt = "zdata"
  <2>1. Transmits(<<CAN>>) \/ Transmits(<< >>) \/ UNCHANGED toTerm
    BY <1>3 DEF RecvHeader, Retry
  <2> QED  BY <1>1, <1>3, <2>1, SentTyped
<1>4. CASE zAt = "last"
  <2>1. /\ Transmits(<<Frame("OO", 0)>>) \/ Transmits(<<CAN>>) \/ Transmits(<< >>)
        /\ zAt' \in {"last", "ok", "cancel"}
    BY <1>4 DEF RecvHeader, Retry, GoTo
  <2> QED  BY <1>1, <1>4, <2>1, SentTyped
<1> QED
  BY <1>2, <1>3, <1>4 DEF RecvHeader

(* What was heard is a frame of the line, or noise.                           *)
LEMMA HeardTyped ==
  ASSUME ZTyped, NextAt(toBoard) # 0
  PROVE  /\ NextAt(toBoard) \in 1..Len(toBoard)
         /\ Heard(toBoard) \in BoardFrames
         /\ After(toBoard, NextAt(toBoard)) \in Seq(BoardFrames)
<1> DEFINE i == NextAt(toBoard)
<1>1. toBoard \in Seq(BoardFrames) /\ Len(toBoard) \in Nat /\ fileLen \in Nat
  BY LenProperties DEF ZTyped
<1>2. i \in 0..Len(toBoard)
  BY <1>1, FirstIs DEF NextAt, PacketAt, HeaderAt
<1> HIDE DEF i
<1>3. i # 0
  BY DEF i
<1>4. i \in 1..Len(toBoard)
  BY <1>1, <1>2, <1>3
<1>5. toBoard[i] \in BoardFrames
  BY <1>1, <1>4, ElementOfSeq
<1>6. Frame("bad", 0) \in BoardFrames
  BY <1>1, FramesTyped DEF FrameTypes
<1>7. Heard(toBoard) \in BoardFrames
  BY <1>5, <1>6 DEF Heard, Packet, i
<1>8. After(toBoard, i) \in Seq(BoardFrames)
  BY <1>1, <1>2, AfterIs
<1> QED
  BY <1>4, <1>7, <1>8 DEF i

(* The file stays as it is unless a subpacket is stored.                      *)
LEMMA EndKept ==
  ASSUME ZTyped, EndInv, UNCHANGED <<disk, fileLen>>,
         zAt \in Opens \/ zAt' = zAt \/ zAt' \in {"err", "cancel"}
           \/ (zAt = "last" /\ zAt' \in {"last", "ok"})
  PROVE  EndInv'
BY DEF EndInv, Opens, CompleteReachesTheEnd

LEMMA EmptyIsTyped == << >> \in Seq(BoardFrames)
OBVIOUS

LEMMA ZStartEnds ==
  ASSUME ZTyped, EndInv, ZStart
  PROVE  ZTyped' /\ EndInv'
<1>1. Hdr("ZRQINIT") \in Frames /\ Hdr("ZRINIT") \in Frames
  BY FramesTyped DEF ZTyped, HeaderTypes
<1>2. \/ Transmits(<<Hdr("ZRQINIT")>>) \/ Transmits(<<Hdr("ZRINIT")>>) \/ UNCHANGED toTerm
  BY DEF ZStart
<1>3. toTerm' \in Seq(Frames)
  BY <1>1, <1>2, SentTyped
<1>4. UNCHANGED <<role, fileLen, fpos, disk, toBoard, tAt, tPos>> /\ zAt = "off"
  BY DEF ZStart, terminal
<1>5. BoardFrames' = BoardFrames
  BY <1>4 DEF BoardFrames
<1> QED
  BY <1>3, <1>4, <1>5, EndKept DEF ZTyped, Opens

LEMMA StreamEnds ==
  ASSUME ZTyped, EndInv, Stream
  PROVE  ZTyped' /\ EndInv'
<1>1. /\ zAt = "stream" /\ UNCHANGED <<role, fileLen, disk, toBoard, tAt, tPos>>
      /\ fpos' = fpos + 1 \/ fpos' = fpos
      /\ \/ Transmits(<<DataPacket(fpos'), Frame("ZEOF", fpos')>>)
         \/ Transmits(<<DataPacket(fpos')>>) \/ Transmits(<<Frame("ZEOF", fpos)>>)
  BY DEF Stream, terminal
<1>2. fpos' \in Nat /\ fpos \in Nat /\ fileLen \in Nat
  BY <1>1 DEF ZTyped
<1>3. DataPacket(fpos') \in Frames /\ Frame("ZEOF", fpos') \in Frames /\ Frame("ZEOF", fpos) \in Frames
  BY <1>2, FramesTyped DEF FrameTypes, HeaderTypes
<1>4. toTerm' \in Seq(Frames)
  BY <1>1, <1>3, SentTyped
<1>5. BoardFrames' = BoardFrames
  BY <1>1 DEF BoardFrames
<1> QED
  BY <1>1, <1>2, <1>4, <1>5, EndKept DEF ZTyped, Opens

LEMMA RecvNameTyped ==
  ASSUME ZTyped, NEW f, RecvName(f)
  PROVE  toTerm' \in Seq(Frames) /\ zAt = "name" /\ UNCHANGED <<fpos, disk>>
<1>1. Frame("ZRPOS", 0) \in Frames /\ CAN \in Frames
  BY FramesTyped DEF ZTyped, FrameTypes, HeaderTypes
<1>2. Transmits(<<Frame("ZRPOS", 0)>>) \/ Transmits(<<CAN>>)
  BY DEF RecvName
<1> QED
  BY <1>1, <1>2, SentTyped DEF RecvName

LEMMA RecvDataEnds ==
  ASSUME ZTyped, EndInv, NEW p \in BoardFrames, RecvData(p), UNCHANGED fileLen
  PROVE  /\ toTerm' \in Seq(Frames) /\ disk' \in Seq(Nat) /\ fpos' \in Nat /\ EndInv'
<1>1. /\ Frame("ZRPOS", fpos) \in Frames /\ Hdr("ZRINIT") \in Frames /\ CAN \in Frames
  BY FramesTyped DEF ZTyped, FrameTypes, HeaderTypes
<1>2. p.n \in Nat /\ (p.t = "final" => p.n = fileLen)
  BY DEF BoardFrames, Frames
<1>3. toTerm' \in Seq(Frames)
  <2>1. \/ Transmits(<<Frame("ZRPOS", fpos)>>) \/ Transmits(<<Hdr("ZRINIT")>>)
        \/ Transmits(<<CAN>>) \/ UNCHANGED toTerm
    BY DEF RecvData
  <2> QED  BY <1>1, <2>1, SentTyped
<1>4. CASE /\ disk' = Append(disk, p.n) /\ fpos' = fpos + (IF p.n = 0 THEN 0 ELSE 1)
           /\ \/ p.t = "final" /\ zAt' = "last"
              \/ zAt' = "data"
  <2>1. /\ disk' \in Seq(Nat) /\ Len(disk') = Len(disk) + 1 /\ disk'[Len(disk) + 1] = p.n
        /\ Len(disk) \in Nat
    <3>1. disk \in Seq(Nat) /\ Len(disk) \in Nat
      BY LenProperties DEF ZTyped
    <3>2. /\ Append(disk, p.n) \in Seq(Nat) /\ Len(Append(disk, p.n)) = Len(disk) + 1
          /\ Append(disk, p.n)[Len(disk) + 1] = p.n
      BY <1>2, <3>1, AppendProperties
    <3> QED  BY <1>4, <3>1, <3>2
  <2>2. fpos' \in Nat
    BY <1>4 DEF ZTyped
  <2>3. EndInv'
    BY <1>2, <1>4, <2>1 DEF EndInv, Opens, CompleteReachesTheEnd
  <2> QED  BY <1>3, <2>1, <2>2, <2>3
<1>5. CASE UNCHANGED <<disk, fpos>> /\ (zAt' = zAt \/ zAt' \in {"err", "cancel"})
  BY <1>3, <1>5, EndKept DEF ZTyped
<1> QED
  BY <1>4, <1>5 DEF RecvData, GoTo

LEMMA ZHearsEnds ==
  ASSUME ZTyped, EndInv, ZHears
  PROVE  ZTyped' /\ EndInv'
<1>1. /\ NextAt(toBoard) # 0 /\ toBoard' = After(toBoard, NextAt(toBoard))
      /\ UNCHANGED <<role, fileLen, tAt, tPos>>
  BY DEF ZHears, terminal
<1>2. Heard(toBoard) \in BoardFrames /\ toBoard' \in Seq(BoardFrames)
  BY <1>1, HeardTyped
<1>3. BoardFrames' = BoardFrames
  BY <1>1 DEF BoardFrames
<1>4. ASSUME NEW f, SendHeader(f) \/ RecvHeader(f), UNCHANGED <<fpos, disk>>
      PROVE  ZTyped' /\ EndInv'
  BY <1>1, <1>2, <1>3, <1>4, SendHeaderTyped, RecvHeaderTyped, EndKept DEF ZTyped, Opens
<1>5. ASSUME NEW f, RecvName(f)
      PROVE  ZTyped' /\ EndInv'
  BY <1>1, <1>2, <1>3, <1>5, RecvNameTyped, EndKept DEF ZTyped, Opens
<1>6. ASSUME RecvData(Heard(toBoard))
      PROVE  ZTyped' /\ EndInv'
  BY <1>1, <1>2, <1>3, <1>6, RecvDataEnds DEF ZTyped
<1> QED
  BY <1>4, <1>5, <1>6 DEF ZHears

LEMMA ZTimesOutEnds ==
  ASSUME ZTyped, EndInv, ZTimesOut
  PROVE  ZTyped' /\ EndInv'
<1>1. UNCHANGED <<role, fileLen, fpos, disk, tAt, tPos>> /\ toBoard' = << >>
  BY DEF ZTimesOut, terminal
<1>2. BoardFrames' = BoardFrames /\ << >> \in Seq(BoardFrames)
  BY <1>1, EmptyIsTyped DEF BoardFrames
<1>3. CASE SendHeader("none") \/ RecvHeader("none")
  BY <1>1, <1>2, <1>3, SendHeaderTyped, RecvHeaderTyped, EndKept DEF ZTyped, Opens
<1>4. CASE zAt' = "err" /\ (Transmits(<<CAN>>) \/ UNCHANGED toTerm)
  <2>1. CAN \in Frames
    BY FramesTyped DEF ZTyped
  <2>2. toTerm' \in Seq(Frames)
    BY <2>1, <1>4, SentTyped
  <2> QED  BY <1>1, <1>2, <1>4, <2>2, EndKept DEF ZTyped
<1> QED
  BY <1>3, <1>4 DEF ZTimesOut, GoTo

(* The terminal, and what may happen to the line.                             *)
LEMMA TermHearsTyped ==
  ASSUME ZTyped, TermHears
  PROVE  /\ tPos' \in Nat /\ tAt' \in {"on", "offered", "stream", "sent", "done", "gone"}
         /\ toBoard' \in Seq(BoardFrames) /\ toTerm' \in Seq(Frames)
<1> DEFINE f == Head(toTerm)
<1>1. f \in Frames /\ Tail(toTerm) \in Seq(Frames)
  BY HeadTailProperties DEF TermHears, ZTyped
<1>2. f.n \in Nat
  BY <1>1 DEF Frames
<1>3. /\ Hdr("ZRINIT") \in BoardFrames /\ Hdr("ZSKIP") \in BoardFrames
      /\ Frame("ZRPOS", 0) \in BoardFrames /\ Frame("ZRPOS", tPos) \in BoardFrames
      /\ Hdr("ZFIN") \in BoardFrames /\ Hdr("ZFILE") \in BoardFrames
      /\ Frame("name", 0) \in BoardFrames /\ Hdr("ZDATA") \in BoardFrames
      /\ CAN \in BoardFrames
  BY FramesTyped DEF ZTyped, FrameTypes, HeaderTypes
<1> HIDE DEF f
<1>4. CASE TermReceives(f)
  <2>1. /\ tPos' \in {tPos, f.n} /\ tAt' \in {tAt, "done", "gone"}
        /\ \/ Answers(<<Hdr("ZRINIT")>>) \/ Answers(<<Frame("ZRPOS", 0)>>)
           \/ Answers(<<Hdr("ZSKIP")>>) \/ Answers(<<Frame("ZRPOS", tPos)>>)
           \/ Answers(<<Hdr("ZFIN")>>) \/ UNCHANGED toBoard
    BY <1>4 DEF TermReceives
  <2>2. toBoard' \in Seq(BoardFrames)
    BY <2>1, <1>3, AnswersTyped
  <2> QED  BY <1>1, <1>2, <2>1, <2>2 DEF TermHears, ZTyped
<1>5. CASE TermSends(f)
  <2>1. /\ tPos' \in {tPos, f.n} /\ tAt' \in {tAt, "offered", "stream", "done", "gone"}
        /\ \/ Answers(<<Hdr("ZFILE"), Frame("name", 0)>>) \/ Answers(<<Hdr("ZFIN")>>)
           \/ Answers(<<Hdr("ZDATA")>>) \/ Answers(<<CAN>>) \/ UNCHANGED toBoard
    BY <1>5 DEF TermSends, terminal
  <2>2. toBoard' \in Seq(BoardFrames)
    BY <2>1, <1>3, AnswersTyped
  <2> QED  BY <1>1, <1>2, <2>1, <2>2 DEF TermHears, ZTyped
<1> QED
  BY <1>4, <1>5 DEF TermHears, f

(* One frame less on the line, or one that cannot be read.                    *)
LEMMA GarbledTyped ==
  ASSUME NEW S, NEW items \in Seq(S), NEW i \in 1..Len(items), NEW s \in Garbled(items, i),
         Frame("junk", 0) \in S, Frame("broken", 0) \in S, Frame("bad", 0) \in S
  PROVE  s \in Seq(S)
<1>1. Len(items) \in Nat /\ \A k \in 1..Len(items) : items[k] \in S
  BY LenProperties, ElementOfSeq
<1>2. SubSeq(items, 1, i - 1) \in Seq(S)
  <2>1. \A k \in 1..(i - 1) : items[k] \in S
    BY <1>1
  <2>2. 1 \in Int /\ i - 1 \in Int
    BY <1>1
  <2> QED  BY <2>1, <2>2, SubSeqProperties
<1>3. After(items, i) \in Seq(S)
  <2>1. i \in 0..Len(items)
    BY <1>1
  <2> QED  BY <2>1, AfterIs
<1>4. SubSeq(items, 1, i - 1) \o After(items, i) \in Seq(S)
  BY <1>2, <1>3, ConcatProperties
<1>5. \A x \in S : [items EXCEPT ![i] = x] \in Seq(S)
  BY ExceptSeq
<1>6. \/ s = SubSeq(items, 1, i - 1) \o After(items, i)
      \/ s = [items EXCEPT ![i] = Frame("junk", 0)]
      \/ s = [items EXCEPT ![i] = Frame("broken", 0)]
      \/ s = [items EXCEPT ![i] = Frame("bad", 0)]
  BY DEF Garbled
<1> QED
  BY <1>4, <1>5, <1>6

LEMMA ZLineFaultTyped ==
  ASSUME ZTyped, ZLineFault
  PROVE  toBoard' \in Seq(BoardFrames) /\ toTerm' \in Seq(Frames)
<1>1. /\ Frame("junk", 0) \in BoardFrames /\ Frame("broken", 0) \in BoardFrames
      /\ Frame("bad", 0) \in BoardFrames
      /\ Frame("junk", 0) \in Frames /\ Frame("broken", 0) \in Frames
      /\ Frame("bad", 0) \in Frames
  BY FramesTyped DEF ZTyped, FrameTypes
<1>2. CASE UNCHANGED toBoard /\ \E i \in 1..Len(toTerm) : toTerm' \in Garbled(toTerm, i)
  BY <1>1, <1>2, GarbledTyped DEF ZTyped
<1>3. CASE UNCHANGED toTerm /\ \E i \in 1..Len(toBoard) : toBoard' \in Garbled(toBoard, i)
  BY <1>1, <1>3, GarbledTyped DEF ZTyped
<1> QED
  BY <1>2, <1>3 DEF ZLineFault

LEMMA OutsideEnds ==
  ASSUME ZTyped, EndInv, TermHears \/ TermStreams \/ TermActs \/ ZLineFault \/ UNCHANGED zVars
  PROVE  ZTyped' /\ EndInv'
<1>1. UNCHANGED <<role, fileLen, zAt, fpos, disk>>
  BY DEF TermHears, TermStreams, TermActs, ZLineFault, zVars, Board, zBoard
<1>2. BoardFrames' = BoardFrames
  BY <1>1 DEF BoardFrames
<1>3. EndInv'
  BY <1>1, EndKept
<1>4. CASE TermHears
  BY <1>1, <1>2, <1>3, <1>4, TermHearsTyped DEF ZTyped
<1>5. CASE TermStreams
  <2>1. /\ DataPacket(fileLen) \in BoardFrames /\ Frame("ZEOF", fileLen) \in BoardFrames
        /\ DataPacket(tPos + 1) \in BoardFrames
    BY FramesTyped DEF ZTyped, FrameTypes, HeaderTypes
  <2>2. /\ tPos' \in {fileLen, tPos + 1} /\ tAt' \in {"sent", "stream"} /\ toTerm' = toTerm
        /\ \/ Answers(<<DataPacket(fileLen), Frame("ZEOF", fileLen)>>)
           \/ Answers(<<DataPacket(tPos + 1)>>)
    BY <1>5 DEF TermStreams, Board
  <2>3. toBoard' \in Seq(BoardFrames)
    BY <2>1, <2>2, AnswersTyped
  <2> QED  BY <1>1, <1>2, <1>3, <2>2, <2>3 DEF ZTyped
<1>6. CASE TermActs
  <2>1. Hdr("ZRQINIT") \in BoardFrames /\ Hdr("ZFIN") \in BoardFrames /\ CAN \in BoardFrames
    BY FramesTyped DEF ZTyped, HeaderTypes
  <2>2. /\ tPos' = tPos /\ tAt' \in {tAt, "gone"} /\ toTerm' = toTerm
        /\ \/ Answers(<<Hdr("ZRQINIT")>>) \/ Answers(<<Hdr("ZFIN")>>) \/ Answers(<<CAN>>)
           \/ UNCHANGED toBoard
    BY <1>6 DEF TermActs, Board
  <2>3. toBoard' \in Seq(BoardFrames)
    BY <2>1, <2>2, AnswersTyped
  <2> QED  BY <1>1, <1>2, <1>3, <2>2, <2>3 DEF ZTyped
<1>7. CASE ZLineFault
  <2>1. UNCHANGED <<tAt, tPos>>
    BY <1>7 DEF ZLineFault, terminal
  <2> QED  BY <1>1, <1>2, <1>3, <1>7, <2>1, ZLineFaultTyped DEF ZTyped
<1>8. CASE UNCHANGED zVars
  BY <1>1, <1>2, <1>3, <1>8 DEF ZTyped, zVars, terminal, zLine
<1> QED
  BY <1>4, <1>5, <1>6, <1>7, <1>8

LEMMA EndInvAlways == ZSpec => [](ZTyped /\ EndInv)
<1>1. ZInit => ZTyped /\ EndInv
  BY ZmodemAssumption DEF ZInit, ZTyped, EndInv, CompleteReachesTheEnd
<1>2. ZTyped /\ EndInv /\ [ZNext]_zVars => (ZTyped /\ EndInv)'
  BY ZStartEnds, StreamEnds, ZHearsEnds, ZTimesOutEnds, OutsideEnds DEF ZNext, ZFinished
<1> QED
  BY <1>1, <1>2, PTL DEF ZSpec

(* A transfer by Zmodem is one of its module.                                 *)
LEMMA TransfersAreZmodem == TransfersSpec => ZSpec
<1>1. TransfersInit => ZInit
  BY DEF TransfersInit, NoZmodem
<1>2. [TransfersNext]_transferVars => [ZNext]_zVars
  BY DEF TransfersNext, ByPunter, ByZmodem, transferVars
<1> QED
  BY <1>1, <1>2, PTL DEF TransfersSpec, ZSpec

(* However much of a file that zmodem_recv receives is lost or damaged, one   *)
(* that it reports as complete ends where the file ends.                      *)
THEOREM CompleteFilesEnd == TransfersSpec => []CompleteReachesTheEnd
<1>1. EndInv => CompleteReachesTheEnd
  BY DEF EndInv
<1> QED
  BY <1>1, EndInvAlways, TransfersAreZmodem, PTL
-----------------------------------------------------------------------------
(* Zmodem over a line on which nothing goes wrong.                            *)

IsData(f) == f.t \in {"packet", "final"}

(* The data under way to the terminal: one run of subpackets without a gap,   *)
(* from the next one that it waits for to the last one sent.  ZFIN is sent    *)
(* after all of them.                                                         *)
Consecutive ==
  \A i \in 1..Len(toTerm) : IsData(toTerm[i]) =>
    /\ toTerm[i].n \in (tPos + 1)..fpos
    /\ toTerm[i].n > tPos + 1 =>
         i > 1 /\ IsData(toTerm[i - 1]) /\ toTerm[i - 1].n = toTerm[i].n - 1
Rising ==
  \A i, j \in 1..Len(toTerm) :
    i < j /\ IsData(toTerm[i]) /\ IsData(toTerm[j]) => toTerm[i].n < toTerm[j].n
UpToSent ==
  fpos > tPos => \E i \in 1..Len(toTerm) : IsData(toTerm[i]) /\ toTerm[i].n = fpos
LeaveComesLast ==
  \A i \in 1..Len(toTerm) : toTerm[i].t = "ZFIN" =>
    fpos = fileLen /\ \A j \in i..Len(toTerm) : ~IsData(toTerm[j])
OneRun == /\ fpos \in 0..fileLen /\ tPos \in 0..fpos
          /\ Consecutive /\ Rising /\ UpToSent /\ LeaveComesLast

SendsWhole ==
  /\ zAt \in {"off", "rqinit", "rpos", "stream", "eof", "fin", "ok", "err", "cancel"}
  /\ disk = << >> /\ tAt \in {"on", "done", "gone"}
  /\ OneRun
  /\ zAt \in {"off", "rqinit", "rpos"} => fpos = 0
  /\ zAt = "stream" =>
       /\ fpos < fileLen \/ fileLen = 0
       /\ fpos > tPos => toTerm # << >> /\ IsData(toTerm[Len(toTerm)]) /\ toTerm[Len(toTerm)].n = fpos
  /\ zAt \in {"eof", "fin"} => fpos = fileLen
  /\ tAt = "done" => tPos = fileLen

(* What the terminal has said before the board has opened the file.           *)
Inquiry ==
  /\ tAt = "on" => \A i \in 1..Len(toBoard) : toBoard[i].t = "ZRQINIT"
  /\ tAt = "offered" =>
       /\ Len(toBoard) > 1
       /\ toBoard[Len(toBoard)].t = "name" /\ toBoard[Len(toBoard) - 1].t = "ZFILE"
       /\ \A i \in 1..(Len(toBoard) - 2) : toBoard[i].t = "ZRQINIT"
  /\ tAt = "gone" => \A i \in 1..Len(toBoard) : toBoard[i].t \in {"ZRQINIT", "ZFIN"}

Offering ==
  zAt \in {"off", "file", "name"} =>
    /\ fpos = 0 /\ tAt \in {"on", "offered", "gone"}
    /\ \A i \in 1..Len(toTerm) : toTerm[i].t = "ZRINIT"
    /\ zAt = "off" => toTerm = << >> /\ tAt # "offered"
    /\ IF zAt = "name" THEN tAt = "offered" /\ Len(toBoard) = 1 /\ toBoard[1].t = "name"
                       ELSE Inquiry

(* The subpackets under way to the board, after the first d frames.           *)
Coming(d) ==
  \/ /\ tAt = "stream" /\ fpos <= tPos
     /\ tPos < fileLen \/ (tPos = 0 /\ fileLen = 0)
     /\ Len(toBoard) = d + tPos - fpos
     /\ \A i \in 1..(tPos - fpos) : toBoard[d + i] = DataPacket(fpos + i)
  \/ /\ tAt = "sent" /\ fpos < fileLen /\ Len(toBoard) >= d + fileLen - fpos
     /\ \A i \in 1..(fileLen - fpos) : toBoard[d + i] = DataPacket(fpos + i)
  \/ /\ tAt = "sent" /\ fpos = 0 /\ fileLen = 0
     /\ Len(toBoard) > d /\ toBoard[d + 1] = DataPacket(0)

Granted ==
  zAt = "zdata" =>
    /\ fpos = 0
    /\ \/ /\ tAt = "offered" /\ toBoard = << >> /\ Len(toTerm) > 0
          /\ toTerm[Len(toTerm)] = Frame("ZRPOS", 0)
          /\ \A i \in 1..(Len(toTerm) - 1) : toTerm[i].t = "ZRINIT"
       \/ tAt = "gone" /\ Len(toBoard) = 1 /\ toBoard[1].t = "CAN"
       \/ toTerm = << >> /\ Len(toBoard) > 0 /\ toBoard[1].t = "ZDATA" /\ Coming(1)

InOrder(n) == Len(disk) = n /\ \A k \in 1..n : disk[k] = k

Storing == zAt = "data" => toTerm = << >> /\ Coming(0) /\ InOrder(fpos)

Whole == IF fileLen = 0 THEN Len(disk) = 1 /\ disk[1] = 0 ELSE InOrder(fileLen)

ReceivesWhole ==
  /\ zAt \in {"off", "file", "name", "zdata", "data", "last", "ok", "err", "cancel"}
  /\ Offering /\ Granted /\ Storing
  /\ zAt = "last" => Whole
  /\ zAt = "ok" => Whole \/ disk = << >>

(* Faults still to come, and what holds while none has been.                  *)
CleanInv ==
  /\ zLuck \in Nat /\ zLuck <= ZLuck
  /\ zLuck = ZLuck => IF role = "send" THEN SendsWhole ELSE ReceivesWhole

(* A step leaves the luck there is or takes one of it.                        *)
LEMMA LuckStep ==
  ASSUME [ZNext]_zVars
  PROVE  UNCHANGED zLuck \/ (zLuck > 0 /\ zLuck' = zLuck - 1)
<1>1. CASE ZStart
  BY <1>1 DEF ZStart, Misfortune
<1>2. CASE Stream
  BY <1>2 DEF Stream, Misfortune
<1>3. CASE ZHears
  BY <1>3 DEF ZHears, RecvName, RecvData, Misfortune
<1>4. CASE ZTimesOut
  BY <1>4 DEF ZTimesOut, Misfortune
<1>5. CASE TermHears \/ TermStreams
  BY <1>5 DEF TermHears, TermStreams, Board
<1>6. CASE TermActs
  BY <1>6 DEF TermActs, Misfortune
<1>7. CASE ZLineFault
  BY <1>7 DEF ZLineFault
<1>8. CASE ZFinished \/ UNCHANGED zVars
  BY <1>8 DEF ZFinished, zVars
<1> QED
  BY <1>1, <1>2, <1>3, <1>4, <1>5, <1>6, <1>7, <1>8 DEF ZNext

(* While all of it is left nothing has gone wrong.                            *)
LEMMA NothingWrong ==
  ASSUME CleanInv, zLuck' = ZLuck, [ZNext]_zVars
  PROVE  /\ zLuck = ZLuck /\ \A f : ~Misfortune(f)
         /\ ~ZLineFault
<1>1. zLuck \in Nat /\ zLuck <= ZLuck /\ ZLuck \in Nat
  BY ZmodemAssumption DEF CleanInv
<1>2. zLuck' = zLuck
  BY <1>1, LuckStep
<1> QED
  BY <1>1, <1>2 DEF Misfortune, ZLineFault

-----------------------------------------------------------------------------
(* Sending: the run of subpackets.                                            *)

(* Frames that are no data may follow, ZFIN when all data is sent.            *)
LEMMA RunThenOther ==
  ASSUME ZTyped, OneRun, NEW fs \in Seq(Frames), toTerm' = toTerm \o fs,
         \A k \in 1..Len(fs) : /\ ~IsData(fs[k])
                               /\ fs[k].t = "ZFIN" => fpos = fileLen,
         UNCHANGED <<fpos, tPos, fileLen>>
  PROVE  OneRun'
<1> DEFINE n == Len(toTerm)
<1>1. /\ n \in Nat /\ Len(fs) \in Nat /\ Len(toTerm') = n + Len(fs)
      /\ \A i \in 1..(n + Len(fs)) : toTerm'[i] = IF i <= n THEN toTerm[i] ELSE fs[i - n]
      /\ fpos \in Nat /\ tPos \in Nat /\ fileLen \in Nat
  BY ConcatProperties, LenProperties DEF ZTyped
<1> HIDE DEF n
<1>2. ASSUME NEW i \in 1..Len(toTerm'), IsData(toTerm'[i])
      PROVE  i \in 1..n /\ toTerm'[i] = toTerm[i]
  <2>1. CASE i <= n
    BY <1>1, <2>1
  <2>2. CASE i > n
    <3>1. i - n \in 1..Len(fs) /\ toTerm'[i] = fs[i - n]
      BY <1>1, <2>2
    <3> QED  BY <3>1, <1>2
  <2> QED  BY <2>1, <2>2, <1>1
<1>3. \A i \in 1..n : i \in 1..Len(toTerm') /\ toTerm'[i] = toTerm[i]
  BY <1>1
<1>4. Consecutive'
  <2> SUFFICES ASSUME NEW i \in 1..Len(toTerm'), IsData(toTerm'[i])
               PROVE  /\ toTerm'[i].n \in (tPos' + 1)..fpos'
                      /\ toTerm'[i].n > tPos' + 1 =>
                           i > 1 /\ IsData(toTerm'[i - 1]) /\ toTerm'[i - 1].n = toTerm'[i].n - 1
    BY DEF Consecutive, IsData
  <2>1. i \in 1..n /\ toTerm'[i] = toTerm[i]
    BY <1>2
  <2>2. /\ toTerm[i].n \in (tPos + 1)..fpos
        /\ toTerm[i].n > tPos + 1 =>
             i > 1 /\ IsData(toTerm[i - 1]) /\ toTerm[i - 1].n = toTerm[i].n - 1
    BY <2>1 DEF OneRun, Consecutive, n
  <2>3. i > 1 => toTerm'[i - 1] = toTerm[i - 1]
    BY <2>1, <1>1, <1>3
  <2> QED  BY <2>1, <2>2, <2>3
<1>5. Rising'
  <2> SUFFICES ASSUME NEW i \in 1..Len(toTerm'), NEW j \in 1..Len(toTerm'),
                      i < j, IsData(toTerm'[i]), IsData(toTerm'[j])
               PROVE  toTerm'[i].n < toTerm'[j].n
    BY DEF Rising, IsData
  <2> QED  BY <1>2 DEF OneRun, Rising, n
<1>6. UpToSent'
  BY <1>3 DEF OneRun, UpToSent, IsData, n
<1>7. LeaveComesLast'
  <2> SUFFICES ASSUME NEW i \in 1..Len(toTerm'), toTerm'[i].t = "ZFIN"
               PROVE  fpos' = fileLen' /\ \A j \in i..Len(toTerm') : ~IsData(toTerm'[j])
    BY DEF LeaveComesLast, IsData
  <2>1. CASE i <= n
    <3>1. i \in 1..n /\ toTerm[i].t = "ZFIN"
      BY <2>1, <1>1, <1>3
    <3>2. fpos = fileLen /\ \A j \in i..n : ~IsData(toTerm[j])
      BY <3>1 DEF OneRun, LeaveComesLast, n
    <3>3. ASSUME NEW j \in i..Len(toTerm'), IsData(toTerm'[j]) PROVE FALSE
      <4>1. j \in 1..Len(toTerm')
        BY <1>1
      <4>2. j \in 1..n /\ toTerm'[j] = toTerm[j]
        BY <4>1, <3>3, <1>2
      <4> QED  BY <3>2, <3>3, <4>2
    <3> QED  BY <3>2, <3>3
  <2>2. CASE i > n
    <3>1. i - n \in 1..Len(fs) /\ toTerm'[i] = fs[i - n]
      BY <1>1, <2>2
    <3>2. fpos = fileLen
      BY <3>1
    <3>3. ASSUME NEW j \in i..Len(toTerm'), IsData(toTerm'[j]) PROVE FALSE
      <4>1. j \in 1..Len(toTerm')
        BY <1>1
      <4> QED  BY <4>1, <3>3, <1>2, <2>2, <1>1
    <3> QED  BY <3>2, <3>3
  <2> QED  BY <2>1, <2>2, <1>1
<1> QED
  BY <1>1, <1>4, <1>5, <1>6, <1>7 DEF OneRun

(* The next subpacket may follow if it comes at once, with ZEOF or without,   *)
(* and ends the run.                                                          *)
LEMMA RunThenNext ==
  ASSUME ZTyped, OneRun, fpos < fileLen, fpos' = fpos + 1, UNCHANGED <<tPos, fileLen>>,
         fpos > tPos => toTerm # << >> /\ IsData(toTerm[Len(toTerm)]) /\ toTerm[Len(toTerm)].n = fpos,
         NEW x \in Frames, IsData(x), x.n = fpos + 1,
         NEW y \in Frames, ~IsData(y), y.t # "ZFIN",
         toTerm' = toTerm \o <<x>> \/ toTerm' = toTerm \o <<x, y>>
  PROVE  /\ OneRun'
         /\ toTerm' = toTerm \o <<x>> =>
              toTerm' # << >> /\ IsData(toTerm'[Len(toTerm')]) /\ toTerm'[Len(toTerm')].n = fpos'
<1> DEFINE n == Len(toTerm)
<1>1. /\ n \in Nat /\ Len(toTerm') \in {n + 1, n + 2} /\ toTerm'[n + 1] = x
      /\ \A i \in 1..n : toTerm'[i] = toTerm[i]
      /\ Len(toTerm') = n + 2 => toTerm'[n + 2] = y
      /\ fpos \in Nat /\ tPos \in Nat /\ fileLen \in Nat /\ tPos <= fpos
      /\ toTerm' = toTerm \o <<x>> => Len(toTerm') = n + 1 /\ toTerm' # << >>
  <2>1. /\ <<x>> \in Seq(Frames) /\ Len(<<x>>) = 1 /\ <<x>>[1] = x
        /\ <<x, y>> \in Seq(Frames) /\ Len(<<x, y>>) = 2 /\ <<x, y>>[1] = x /\ <<x, y>>[2] = y
    BY OneOrTwo
  <2>2. /\ toTerm \in Seq(Frames) /\ n \in Nat /\ fpos \in Nat /\ tPos \in Nat /\ fileLen \in Nat
        /\ tPos <= fpos
    BY LenProperties DEF ZTyped, OneRun
  <2>3. CASE toTerm' = toTerm \o <<x>>
    <3>1. /\ Len(toTerm') = n + 1 /\ toTerm' \in Seq(Frames)
          /\ \A i \in 1..(n + 1) : toTerm'[i] = IF i <= n THEN toTerm[i] ELSE <<x>>[i - n]
      BY <2>1, <2>2, <2>3, ConcatProperties
    <3>2. toTerm' # << >>
      BY <2>2, <3>1, EmptySeq
    <3> QED  BY <2>1, <2>2, <3>1, <3>2
  <2>4. CASE toTerm' = toTerm \o <<x, y>>
    <3>1. /\ Len(toTerm') = n + 2
          /\ \A i \in 1..(n + 2) : toTerm'[i] = IF i <= n THEN toTerm[i] ELSE <<x, y>>[i - n]
      BY <2>1, <2>2, <2>4, ConcatProperties
    <3>2. toTerm' # toTerm \o <<x>>
      <4>1. Len(toTerm \o <<x>>) = n + 1
        BY <2>1, <2>2, ConcatProperties
      <4> QED  BY <3>1, <4>1, <2>2
    <3> QED  BY <2>1, <2>2, <3>1, <3>2
  <2> QED  BY <2>3, <2>4
<1>2. n = 0 <=> toTerm = << >>
  BY EmptySeq DEF ZTyped
<1>3. \A i \in 1..n : IsData(toTerm[i]) => toTerm[i].n \in (tPos + 1)..fpos
  BY DEF OneRun, Consecutive
<1>4. /\ fpos' = fpos + 1 /\ tPos' = tPos /\ n + 1 \in 1..Len(toTerm')
      /\ \A i \in 1..Len(toTerm') : IsData(toTerm'[i]) => i \in 1..(n + 1)
  <2>1. ASSUME NEW i \in 1..Len(toTerm'), IsData(toTerm'[i]), i \notin 1..(n + 1) PROVE FALSE
    <3>1. Len(toTerm') = n + 2 /\ i = n + 2
      BY <1>1, <2>1
    <3> QED  BY <1>1, <2>1, <3>1
  <2> QED  BY <2>1, <1>1
<1>5. Consecutive'
  <2>1. ASSUME NEW i \in 1..(n + 1), IsData(toTerm'[i])
        PROVE  /\ toTerm'[i].n \in (tPos + 1)..(fpos + 1)
               /\ toTerm'[i].n > tPos + 1 =>
                    i > 1 /\ IsData(toTerm'[i - 1]) /\ toTerm'[i - 1].n = toTerm'[i].n - 1
    <3>1. CASE i <= n
      <4>1. /\ toTerm[i].n \in (tPos + 1)..fpos
            /\ toTerm[i].n > tPos + 1 =>
                 i > 1 /\ IsData(toTerm[i - 1]) /\ toTerm[i - 1].n = toTerm[i].n - 1
        BY <2>1, <3>1, <1>1 DEF OneRun, Consecutive, IsData
      <4>2. toTerm'[i] = toTerm[i] /\ (i > 1 => toTerm'[i - 1] = toTerm[i - 1])
        <5>1. n \in Nat /\ \A k \in 1..n : toTerm'[k] = toTerm[k]
          BY <1>1
        <5>2. i \in 1..n /\ (i > 1 => i - 1 \in 1..n)
          BY ONLY <5>1, <3>1, <2>1
        <5> QED  BY ONLY <5>1, <5>2
      <4>3. toTerm[i].n \in (tPos + 1)..(fpos + 1)
        BY <4>1, <1>1
      <4> QED  BY ONLY <4>1, <4>2, <4>3
    <3>2. CASE i = n + 1
      <4>1. toTerm'[i].n = fpos + 1
        BY <3>2, <1>1
      <4>2. fpos > tPos => n > 0 /\ toTerm'[n] = toTerm[n] /\ IsData(toTerm[n]) /\ toTerm[n].n = fpos
        BY <1>1, <1>2
      <4>3. i - 1 = n
        BY <3>2, <1>1
      <4>4. fpos > tPos => i > 1 /\ IsData(toTerm'[i - 1]) /\ toTerm'[i - 1].n = fpos
        BY <3>2, <4>2, <4>3, <1>1
      <4>5. fpos \in Nat /\ tPos \in Nat /\ tPos <= fpos
        BY <1>1
      <4>6. toTerm'[i].n \in (tPos + 1)..(fpos + 1) /\ (toTerm'[i].n > tPos + 1 => fpos > tPos)
        BY ONLY <4>1, <4>5
      <4>7. toTerm'[i].n - 1 = fpos
        BY ONLY <4>1, <4>5
      <4> QED  BY ONLY <4>4, <4>6, <4>7
    <3> QED  BY <3>1, <3>2, <1>1
  <2>2. ASSUME NEW i \in 1..Len(toTerm'), IsData(toTerm'[i])
        PROVE  /\ toTerm'[i].n \in (tPos' + 1)..fpos'
               /\ toTerm'[i].n > tPos' + 1 =>
                    i > 1 /\ IsData(toTerm'[i - 1]) /\ toTerm'[i - 1].n = toTerm'[i].n - 1
    <3>1. i \in 1..(n + 1)
      BY <2>2, <1>4
    <3> HIDE DEF n
    <3> QED  BY <2>1, <2>2, <3>1, <1>4
  <2> QED  BY <2>2 DEF Consecutive, IsData
<1>6. Rising'
  <2> SUFFICES ASSUME NEW i \in 1..Len(toTerm'), NEW j \in 1..Len(toTerm'),
                      i < j, IsData(toTerm'[i]), IsData(toTerm'[j])
               PROVE  toTerm'[i].n < toTerm'[j].n
    BY DEF Rising, IsData
  <2>1. i \in 1..n /\ toTerm'[i] = toTerm[i] /\ j \in 1..(n + 1)
    <3>1. i \in 1..(n + 1) /\ j \in 1..(n + 1)
      BY <1>4
    <3> QED  BY <3>1, <1>1
  <2>2. CASE j <= n
    BY <2>1, <2>2, <1>1 DEF OneRun, Rising, IsData
  <2>3. CASE j = n + 1
    BY <2>1, <2>3, <1>1, <1>3
  <2> QED  BY <2>1, <2>2, <2>3, <1>1
<1>7. UpToSent'
  <2>1. IsData(toTerm'[n + 1]) /\ toTerm'[n + 1].n = fpos'
    BY <1>1
  <2> QED  BY <2>1, <1>4 DEF UpToSent, IsData
<1>8. LeaveComesLast'
  <2> SUFFICES ASSUME NEW i \in 1..Len(toTerm'), toTerm'[i].t = "ZFIN" PROVE FALSE
    BY DEF LeaveComesLast, IsData
  <2>1. i # n + 1
    BY <1>1 DEF IsData
  <2>2. i # n + 2
    BY <1>1
  <2>3. i \in 1..n /\ toTerm[i].t = "ZFIN"
    BY <2>1, <2>2, <1>1
  <2> QED  BY <2>3, <1>1 DEF OneRun, LeaveComesLast
<1>9. fpos' \in 0..fileLen' /\ tPos' \in 0..fpos'
  BY <1>1, <1>4
<1> QED
  BY <1>1, <1>5, <1>6, <1>7, <1>8, <1>9 DEF OneRun

(* The terminal takes the first frame.                                        *)
LEMMA RunShortens ==
  ASSUME ZTyped, OneRun, toTerm # << >>, toTerm' = Tail(toTerm), UNCHANGED <<fpos, fileLen>>,
         tPos' = IF IsData(Head(toTerm)) THEN Head(toTerm).n ELSE tPos
  PROVE  /\ OneRun'
         /\ IsData(Head(toTerm)) => Head(toTerm).n = tPos + 1
<1> DEFINE n == Len(toTerm)
<1>1. /\ n \in Nat /\ n > 0 /\ Head(toTerm) = toTerm[1] /\ Len(toTerm') = n - 1
      /\ \A i \in 1..(n - 1) : toTerm'[i] = toTerm[i + 1]
      /\ fpos \in Nat /\ tPos \in Nat /\ fileLen \in Nat /\ tPos <= fpos /\ fpos <= fileLen
  BY HeadTailProperties, EmptySeq, LenProperties DEF ZTyped, OneRun
<1>2. \A i \in 1..n : IsData(toTerm[i]) =>
        /\ toTerm[i].n \in (tPos + 1)..fpos
        /\ toTerm[i].n > tPos + 1 =>
             i > 1 /\ IsData(toTerm[i - 1]) /\ toTerm[i - 1].n = toTerm[i].n - 1
  BY DEF OneRun, Consecutive
<1>3. IsData(toTerm[1]) => toTerm[1].n = tPos + 1 /\ tPos + 1 <= fpos
  BY <1>1, <1>2
<1>4. \A i, j \in 1..n : i < j /\ IsData(toTerm[i]) /\ IsData(toTerm[j])
                           => toTerm[i].n < toTerm[j].n
  BY DEF OneRun, Rising
<1>5. /\ tPos' = IF IsData(toTerm[1]) THEN tPos + 1 ELSE tPos
      /\ tPos' \in 0..fpos
  BY <1>1, <1>3
<1>6. Consecutive'
  <2> SUFFICES ASSUME NEW i \in 1..(n - 1), IsData(toTerm[i + 1])
               PROVE  /\ toTerm[i + 1].n \in (tPos' + 1)..fpos
                      /\ toTerm[i + 1].n > tPos' + 1 =>
                           i > 1 /\ IsData(toTerm[i]) /\ toTerm[i].n = toTerm[i + 1].n - 1
    <3>1. \A i \in 1..(n - 1) : i > 1 => i - 1 \in 1..(n - 1) /\ toTerm'[i - 1] = toTerm[i]
      <4> TAKE i \in 1..(n - 1)
      <4>1. i > 1 => i - 1 \in 1..(n - 1) /\ (i - 1) + 1 = i
        BY <1>1
      <4> QED  BY <4>1, <1>1
    <3>2. Len(toTerm') = n - 1 /\ fpos' = fpos /\ \A i \in 1..(n - 1) : toTerm'[i] = toTerm[i + 1]
      BY <1>1
    <3>3. ASSUME NEW i \in 1..Len(toTerm'), IsData(toTerm'[i])
          PROVE  /\ toTerm'[i].n \in (tPos' + 1)..fpos'
                 /\ toTerm'[i].n > tPos' + 1 =>
                      i > 1 /\ IsData(toTerm'[i - 1]) /\ toTerm'[i - 1].n = toTerm'[i].n - 1
      <4>1. i \in 1..(n - 1) /\ toTerm'[i] = toTerm[i + 1] /\ (i > 1 => toTerm'[i - 1] = toTerm[i])
        BY <3>1, <3>2
      <4>2. /\ toTerm[i + 1].n \in (tPos' + 1)..fpos
            /\ toTerm[i + 1].n > tPos' + 1 =>
                 i > 1 /\ IsData(toTerm[i]) /\ toTerm[i].n = toTerm[i + 1].n - 1
        BY <3>3, <4>1
      <4> HIDE DEF n
      <4> QED  BY <3>2, <4>1, <4>2
    <3> QED  BY <3>3 DEF Consecutive, IsData
  <2>1. /\ toTerm[i + 1].n \in (tPos + 1)..fpos
        /\ toTerm[i + 1].n > tPos + 1 =>
             IsData(toTerm[i]) /\ toTerm[i].n = toTerm[i + 1].n - 1
    <3>1. i + 1 \in 1..n /\ (i + 1) - 1 = i
      BY <1>1
    <3> QED  BY <3>1, <1>2
  <2>2. CASE IsData(toTerm[1])
    <3>1. toTerm[1].n < toTerm[i + 1].n
      <4>1. 1 \in 1..n /\ i + 1 \in 1..n /\ 1 < i + 1
        BY <1>1
      <4> QED  BY <4>1, <1>4, <2>2
    <3>2. toTerm[i + 1].n > tPos + 1
      BY <3>1, <2>2, <1>3, <2>1, <1>1
    <3>3. toTerm[i + 1].n > tPos + 2 => i > 1
      BY <3>2, <2>1, <1>3, <2>2, <1>1
    <3> QED  BY <2>1, <2>2, <3>2, <3>3, <1>5, <1>1
  <2>3. CASE ~IsData(toTerm[1])
    BY <2>1, <2>3, <1>5, <1>1
  <2> QED  BY <2>2, <2>3
<1>7. Rising'
  <2> SUFFICES ASSUME NEW i \in 1..(n - 1), NEW j \in 1..(n - 1), i < j,
                      IsData(toTerm[i + 1]), IsData(toTerm[j + 1])
               PROVE  toTerm[i + 1].n < toTerm[j + 1].n
    BY <1>1 DEF Rising, IsData
  <2>1. i + 1 \in 1..n /\ j + 1 \in 1..n /\ i + 1 < j + 1
    BY <1>1
  <2> QED  BY <2>1, <1>4
<1>8. UpToSent'
  <2> SUFFICES ASSUME fpos > tPos'
               PROVE  \E i \in 1..(n - 1) : IsData(toTerm[i + 1]) /\ toTerm[i + 1].n = fpos
    BY <1>1 DEF UpToSent, IsData
  <2>1. fpos > tPos
    BY <1>5, <1>1
  <2>2. PICK k \in 1..n : IsData(toTerm[k]) /\ toTerm[k].n = fpos
    BY <2>1 DEF OneRun, UpToSent
  <2>3. k # 1
    BY <2>2, <1>3, <1>5, <1>1
  <2>4. k - 1 \in 1..(n - 1) /\ (k - 1) + 1 = k
    BY <2>3, <1>1
  <2> QED  BY <2>2, <2>4
<1>9. LeaveComesLast'
  <2> SUFFICES ASSUME NEW i \in 1..(n - 1), toTerm[i + 1].t = "ZFIN"
               PROVE  fpos = fileLen /\ \A j \in i..(n - 1) : ~IsData(toTerm[j + 1])
    <3>1. \A i \in 1..(n - 1) : \A j \in i..(n - 1) : toTerm'[j] = toTerm[j + 1]
      BY <1>1
    <3> QED  BY <1>1, <3>1 DEF LeaveComesLast, IsData
  <2>1. i + 1 \in 1..n
    BY <1>1
  <2>2. fpos = fileLen /\ \A j \in (i + 1)..n : ~IsData(toTerm[j])
    BY <2>1 DEF OneRun, LeaveComesLast
  <2>3. \A j \in i..(n - 1) : j + 1 \in (i + 1)..n
    BY <1>1
  <2> QED  BY <2>2, <2>3
<1>10. fpos' \in 0..fileLen' /\ tPos' \in 0..fpos'
  BY <1>1, <1>5
<1> QED
  BY <1>1, <1>3, <1>6, <1>7, <1>8, <1>9, <1>10 DEF OneRun
(* The board's steps add to the run; what it sends else is no data.           *)
LEMMA SendHeaderKeepsRun ==
  ASSUME ZTyped, role = "send", SendsWhole, NEW f, SendHeader(f),
         UNCHANGED <<role, fileLen, fpos, disk, tAt, tPos>>
  PROVE  SendsWhole'
<1> USE DEF SendsWhole
<1>1. /\ Hdr("ZRQINIT") \in Frames /\ Hdr("ZFILE") \in Frames /\ Frame("name", 0) \in Frames
      /\ Hdr("ZDATA") \in Frames /\ Hdr("ZFIN") \in Frames /\ CAN \in Frames
      /\ Frame("ZEOF", fpos) \in Frames
  BY FramesTyped DEF ZTyped, FrameTypes, HeaderTypes
<1> DEFINE Tame(x) == /\ x \in Frames /\ ~IsData(x)
                      /\ x.t = "ZFIN" => fpos = fileLen
<1>2. /\ Tame(Hdr("ZRQINIT")) /\ Tame(Hdr("ZFILE")) /\ Tame(Frame("name", 0))
      /\ Tame(Hdr("ZDATA")) /\ Tame(CAN) /\ Tame(Frame("ZEOF", fpos))
      /\ zAt = "eof" => Tame(Hdr("ZFIN"))
  <2>1. /\ ~IsData(Hdr("ZRQINIT")) /\ ~IsData(Hdr("ZFILE")) /\ ~IsData(Frame("name", 0))
        /\ ~IsData(Hdr("ZDATA")) /\ ~IsData(CAN) /\ ~IsData(Frame("ZEOF", fpos)) /\ ~IsData(Hdr("ZFIN"))
    BY DEF IsData, Hdr, Frame, CAN
  <2>2. /\ Hdr("ZRQINIT").t # "ZFIN" /\ Hdr("ZFILE").t # "ZFIN" /\ Frame("name", 0).t # "ZFIN"
        /\ Hdr("ZDATA").t # "ZFIN" /\ CAN.t # "ZFIN" /\ Frame("ZEOF", fpos).t # "ZFIN"
    BY DEF Hdr, Frame, CAN
  <2>3. zAt = "eof" => fpos = fileLen
    OBVIOUS
  <2> QED  BY ONLY <1>1, <2>1, <2>2, <2>3
<1>3. ASSUME NEW x, NEW y, Tame(x), Tame(y),
             \/ Transmits(<< >>) \/ Transmits(<<x>>) \/ Transmits(<<x, y>>)
             \/ Transmits(<<x>> \o <<y>>) \/ Transmits(<< >> \o <<y>>) \/ UNCHANGED toTerm
      PROVE  OneRun'
  <2>1. /\ <<x>> \in Seq(Frames) /\ Len(<<x>>) = 1 /\ <<x>>[1] = x
        /\ <<y>> \in Seq(Frames) /\ Len(<<y>>) = 1 /\ <<y>>[1] = y
        /\ <<x, y>> \in Seq(Frames) /\ Len(<<x, y>>) = 2 /\ <<x, y>>[1] = x /\ <<x, y>>[2] = y
        /\ << >> \in Seq(Frames) /\ Len(<< >>) = 0
    BY <1>3, OneOrTwo
  <2>2. /\ <<x>> \o <<y>> \in Seq(Frames) /\ << >> \o <<y>> \in Seq(Frames)
        /\ Len(<<x>> \o <<y>>) = 2 /\ Len(<< >> \o <<y>>) = 1
        /\ (<<x>> \o <<y>>)[1] = x /\ (<<x>> \o <<y>>)[2] = y /\ (<< >> \o <<y>>)[1] = y
    BY <2>1, ConcatProperties
  <2> DEFINE Sent(fs) == /\ fs \in Seq(Frames)
                         /\ \A k \in 1..Len(fs) : fs[k] \in {x, y}
  <2>3. Sent(<< >>) /\ Sent(<<x>>) /\ Sent(<<x, y>>) /\ Sent(<<x>> \o <<y>>) /\ Sent(<< >> \o <<y>>)
    <3>1. Sent(<< >>)
      BY <2>1
    <3>2. Sent(<<x>>)
      BY <2>1
    <3>3. Sent(<<x, y>>)
      <4>1. ASSUME NEW k \in 1..Len(<<x, y>>) PROVE k = 1 \/ k = 2
        BY <2>1
      <4> QED  BY <2>1, <4>1
    <3>4. Sent(<<x>> \o <<y>>)
      <4>1. ASSUME NEW k \in 1..Len(<<x>> \o <<y>>) PROVE k = 1 \/ k = 2
        BY <2>2
      <4> QED  BY <2>2, <4>1
    <3>5. Sent(<< >> \o <<y>>)
      <4>1. ASSUME NEW k \in 1..Len(<< >> \o <<y>>) PROVE k = 1
        BY <2>2
      <4> QED  BY <2>2, <4>1
    <3> QED  BY <3>1, <3>2, <3>3, <3>4, <3>5
  <2>4. PICK fs : Sent(fs) /\ toTerm' = toTerm \o fs
    <3>1. toTerm \o << >> = toTerm
      BY DEF ZTyped
    <3> HIDE DEF Sent
    <3> QED  BY <1>3, <2>3, <3>1 DEF Transmits
  <2>5. \A k \in 1..Len(fs) : ~IsData(fs[k]) /\ (fs[k].t = "ZFIN" => fpos = fileLen)
    BY <2>4, <1>3
  <2> HIDE DEF Tame
  <2> QED  BY <2>4, <2>5, RunThenOther
<1> HIDE DEF Tame
<1>4. OneRun' /\ zAt' \in {"rqinit", "rpos", "stream", "eof", "fin", "ok", "err", "cancel"}
      /\ (zAt' = "rqinit" => zAt = "rqinit") /\ (zAt' = "rpos" => zAt \in {"rqinit", "rpos"})
      /\ (zAt' = "stream" => zAt = "rpos") /\ (zAt' \in {"eof", "fin"} => zAt = "eof")
  <2>1. CASE zAt = "rqinit"
    <3>1. \/ Transmits(<<Hdr("ZFILE"), Frame("name", 0)>>) \/ Transmits(<<CAN>>)
          \/ Transmits(<<Hdr("ZRQINIT")>>) \/ UNCHANGED toTerm
      BY <2>1 DEF SendHeader, Retry
    <3>2. OneRun'
      BY <1>2, <1>3, <3>1
    <3>3. zAt' \in {"rqinit", "rpos", "err", "cancel"}
      BY <2>1 DEF SendHeader, Retry, GoTo
    <3> QED  BY <2>1, <3>2, <3>3
  <2>2. CASE zAt = "rpos"
    <3>1. \/ Transmits(<<Hdr("ZDATA")>>) \/ Transmits(<<CAN>>) \/ Transmits(<< >>)
          \/ UNCHANGED toTerm
      BY <2>2 DEF SendHeader, Retry
    <3>2. OneRun'
      BY <1>2, <1>3, <3>1
    <3>3. zAt' \in {"stream", "rpos", "ok", "err", "cancel"}
      BY <2>2 DEF SendHeader, Retry, GoTo
    <3> QED  BY <2>2, <3>2, <3>3
  <2>3. CASE zAt = "eof"
    <3>1. \/ Transmits(<<Hdr("ZFIN")>>) \/ Transmits(<<CAN>>)
          \/ Transmits(<<Frame("ZEOF", fpos)>>) \/ Transmits(<< >>) \/ UNCHANGED toTerm
          \/ Transmits(<<Frame("ZEOF", fpos)>> \o <<Hdr("ZFIN")>>)
          \/ Transmits(<< >> \o <<Hdr("ZFIN")>>)
      BY <2>3 DEF SendHeader, Retry
    <3>2. Tame(Hdr("ZFIN")) /\ Tame(CAN) /\ Tame(Frame("ZEOF", fpos))
      BY <1>2, <2>3
    <3>3. OneRun'
      BY <1>3, <3>1, <3>2
    <3>4. zAt' \in {"eof", "fin", "err", "cancel"}
      BY <2>3 DEF SendHeader, Retry, GoTo
    <3> QED  BY <2>3, <3>3, <3>4
  <2>4. CASE zAt = "fin"
    <3>1. UNCHANGED toTerm /\ zAt' = "ok"
      BY <2>4 DEF SendHeader, GoTo
    <3>2. OneRun'
      BY <1>2, <1>3, <3>1
    <3> QED  BY <3>1, <3>2
  <2> QED  BY <2>1, <2>2, <2>3, <2>4 DEF SendHeader
<1>5. fpos \in Nat /\ tPos \in Nat /\ fileLen \in Nat /\ fpos <= fileLen
  BY DEF ZTyped, OneRun
<1>6. zAt' = "stream" => fpos = 0
  BY <1>4
<1> QED
  BY <1>4, <1>5, <1>6

LEMMA ZStartKeepsRun ==
  ASSUME ZTyped, role = "send", SendsWhole, ZStart, \A f : ~Misfortune(f)
  PROVE  SendsWhole'
<1>1. /\ zAt = "off" /\ zAt' = "rqinit" /\ toTerm' = toTerm \o <<Hdr("ZRQINIT")>>
      /\ UNCHANGED <<role, fileLen, fpos, disk, tAt, tPos>>
  BY DEF ZStart, GoTo, Transmits, terminal
<1>2. Hdr("ZRQINIT") \in Frames /\ ~IsData(Hdr("ZRQINIT")) /\ Hdr("ZRQINIT").t # "ZFIN"
  BY FramesTyped DEF ZTyped, FrameTypes, HeaderTypes, IsData, Hdr, Frame
<1>3. /\ <<Hdr("ZRQINIT")>> \in Seq(Frames) /\ Len(<<Hdr("ZRQINIT")>>) = 1
      /\ <<Hdr("ZRQINIT")>>[1] = Hdr("ZRQINIT")
  BY <1>2, OneOrTwo
<1>4. OneRun'
  <2>1. \A k \in 1..Len(<<Hdr("ZRQINIT")>>) : <<Hdr("ZRQINIT")>>[k] = Hdr("ZRQINIT")
    BY <1>3
  <2> QED  BY <1>1, <1>2, <1>3, <2>1, RunThenOther DEF SendsWhole
<1> QED
  BY <1>1, <1>4 DEF SendsWhole

LEMMA StreamKeepsRun ==
  ASSUME ZTyped, role = "send", SendsWhole, Stream, \A f : ~Misfortune(f)
  PROVE  SendsWhole'
<1>1. zAt = "stream" /\ UNCHANGED <<role, fileLen, disk, tAt, tPos>>
  BY DEF Stream, terminal
<1>2. fpos \in Nat /\ tPos \in Nat /\ fileLen \in Nat /\ OneRun /\ fpos <= fileLen
  BY DEF ZTyped, SendsWhole, OneRun
<1>3. CASE fpos < fileLen /\ fpos' = fpos + 1
  <2> DEFINE x == DataPacket(fpos + 1)
             y == Frame("ZEOF", fpos + 1)
  <2>1. x \in Frames /\ IsData(x) /\ x.n = fpos + 1
    BY <1>2 DEF DataPacket, Frames, FrameTypes, Frame, IsData
  <2>2. y \in Frames /\ ~IsData(y) /\ y.t # "ZFIN"
    BY <1>2 DEF Frames, FrameTypes, HeaderTypes, Frame, IsData
  <2>3. \/ fpos + 1 = fileLen /\ zAt' = "eof" /\ toTerm' = toTerm \o <<x, y>>
        \/ fpos + 1 # fileLen /\ zAt' = "stream" /\ toTerm' = toTerm \o <<x>>
    <3>1. DataPacket(fpos') = x /\ Frame("ZEOF", fpos') = y
      BY <1>3
    <3>2. fpos' # fpos
      BY <1>2, <1>3
    <3> HIDE DEF x, y
    <3> QED  BY <1>3, <3>1, <3>2 DEF Stream, IsLast, GoTo, Transmits
  <2> HIDE DEF x, y
  <2>4. /\ OneRun'
        /\ toTerm' = toTerm \o <<x>> =>
             toTerm' # << >> /\ IsData(toTerm'[Len(toTerm')]) /\ toTerm'[Len(toTerm')].n = fpos'
    <3>1. fpos > tPos => toTerm # << >> /\ IsData(toTerm[Len(toTerm)]) /\ toTerm[Len(toTerm)].n = fpos
      BY <1>1 DEF SendsWhole
    <3> QED  BY <1>1, <1>2, <1>3, <2>1, <2>2, <2>3, <3>1, RunThenNext
  <2>5. fpos' = fpos + 1 /\ (fpos + 1 # fileLen => fpos + 1 < fileLen)
    BY <1>2, <1>3
  <2>6. tAt # "done"
    BY <1>2, <1>3, <1>1 DEF SendsWhole, OneRun
  <2>7. /\ zAt' \in {"eof", "stream"}
        /\ zAt' = "stream" =>
             /\ fpos' < fileLen'
             /\ toTerm' # << >> /\ IsData(toTerm'[Len(toTerm')]) /\ toTerm'[Len(toTerm')].n = fpos'
        /\ zAt' = "eof" => fpos' = fileLen'
    BY <1>1, <2>3, <2>4, <2>5
  <2>8. disk' = << >> /\ tAt' \in {"on", "done", "gone"} /\ tAt' # "done"
    BY <1>1, <2>6 DEF SendsWhole
  <2> QED  BY <2>4, <2>7, <2>8 DEF SendsWhole, IsData
<1>4. CASE UNCHANGED fpos /\ zAt' = "eof" /\ fileLen = 0 /\ toTerm' = toTerm \o <<Frame("ZEOF", fpos)>>
  <2> DEFINE x == Frame("ZEOF", fpos)
  <2>1. x \in Frames /\ ~IsData(x) /\ x.t # "ZFIN"
    BY <1>2 DEF Frames, FrameTypes, HeaderTypes, Frame, IsData
  <2> HIDE DEF x
  <2>2. <<x>> \in Seq(Frames) /\ Len(<<x>>) = 1 /\ <<x>>[1] = x
    BY <2>1, OneOrTwo
  <2>3. \A k \in 1..Len(<<x>>) : <<x>>[k] = x
    BY <2>2
  <2>4. toTerm' = toTerm \o <<x>>
    BY <1>4 DEF x
  <2>5. OneRun'
    BY <1>1, <1>2, <1>4, <2>1, <2>2, <2>3, <2>4, RunThenOther
  <2>6. fpos' = fileLen'
    BY <1>1, <1>2, <1>4
  <2> QED  BY <1>1, <1>4, <2>5, <2>6 DEF SendsWhole
<1> QED
  BY <1>3, <1>4, <1>1 DEF Stream, GoTo, Transmits

(* The terminal stores the run's first, and leaves when the run is at its end. *)
LEMMA RunStartsNext ==
  ASSUME ZTyped, OneRun, toTerm # << >>
  PROVE  /\ IsData(Head(toTerm)) => Head(toTerm).n = tPos + 1
         /\ Head(toTerm).t = "ZFIN" => tPos = fileLen
<1>1. Len(toTerm) \in Nat /\ Len(toTerm) > 0 /\ Head(toTerm) = toTerm[1]
  BY HeadTailProperties, EmptySeq, LenProperties DEF ZTyped
<1>2. IsData(toTerm[1]) => toTerm[1].n = tPos + 1
  BY <1>1 DEF OneRun, Consecutive
<1>3. ASSUME toTerm[1].t = "ZFIN" PROVE tPos = fileLen
  <2>1. fpos = fileLen /\ \A j \in 1..Len(toTerm) : ~IsData(toTerm[j])
    BY <1>1, <1>3 DEF OneRun, LeaveComesLast
  <2>2. ~(fpos > tPos)
    BY <2>1 DEF OneRun, UpToSent
  <2> QED  BY <2>1, <2>2 DEF OneRun, ZTyped
<1> QED
  BY <1>1, <1>2, <1>3

LEMMA TermReceivesKeepsRun ==
  ASSUME ZTyped, role = "send", SendsWhole, TermHears
  PROVE  SendsWhole'
<1> DEFINE f == Head(toTerm)
<1>1. /\ toTerm # << >> /\ toTerm' = Tail(toTerm) /\ OneRun
      /\ UNCHANGED <<role, fileLen, zAt, fpos, disk>> /\ TermReceives(f)
  BY DEF TermHears, TermSends, Board, zBoard, SendsWhole
<1>2. /\ IsData(f) => f.n = tPos + 1
      /\ f.t = "ZFIN" => tPos = fileLen
  BY <1>1, RunStartsNext
<1> HIDE DEF f
<1>3. tPos' = IF IsData(f) THEN f.n ELSE tPos
  BY <1>1, <1>2 DEF TermReceives, IsData
<1>4. tAt' \in {tAt, "done", "gone"} /\ (tAt' = "done" => tAt = "done" \/ f.t = "ZFIN")
  BY <1>1 DEF TermReceives
<1>5. OneRun'
  BY <1>1, <1>3, RunShortens DEF f
<1>6. tPos \in Nat /\ fpos \in Nat /\ fileLen \in Nat /\ fpos <= fileLen /\ tPos <= fpos
  BY <1>1 DEF ZTyped, OneRun
<1>7. tPos' \in {tPos, tPos + 1} /\ tPos' <= fpos
  BY <1>1, <1>2, <1>3, <1>5, <1>6 DEF OneRun
<1>8. tAt' = "done" => tPos' = fileLen'
  <2>1. tAt' = "done" => tPos = fileLen
    BY <1>2, <1>4 DEF SendsWhole
  <2> QED  BY <2>1, <1>1, <1>6, <1>7
<1>9. ASSUME zAt = "stream", fpos > tPos'
      PROVE  toTerm' # << >> /\ IsData(toTerm'[Len(toTerm')]) /\ toTerm'[Len(toTerm')].n = fpos
  <2>1. fpos > tPos
    BY <1>9, <1>6, <1>7
  <2>2. IsData(toTerm[Len(toTerm)]) /\ toTerm[Len(toTerm)].n = fpos
    BY <2>1, <1>9 DEF SendsWhole
  <2> DEFINE n == Len(toTerm)
  <2>3. /\ n \in Nat /\ n > 0 /\ f = toTerm[1] /\ toTerm' \in Seq(Frames) /\ Len(toTerm') = n - 1
        /\ \A i \in 1..(n - 1) : toTerm'[i] = toTerm[i + 1]
    BY <1>1, HeadTailProperties, EmptySeq, LenProperties DEF ZTyped, f
  <2>4. n # 1
    <3>1. n = 1 => IsData(f) /\ f.n = fpos
      BY <2>2, <2>3
    <3>2. IsData(f) => tPos' = f.n
      BY <1>3
    <3>3. n = 1 => tPos' = fpos
      BY <3>1, <3>2
    <3> QED  BY <3>3, <1>9, <1>6
  <2>5. toTerm'[n - 1] = toTerm[n] /\ Len(toTerm') = n - 1
    BY <2>3, <2>4
  <2>6. toTerm' # << >>
    BY <2>3, <2>4, EmptySeq
  <2> QED  BY <2>2, <2>5, <2>6
<1> QED
  BY <1>1, <1>4, <1>5, <1>8, <1>9 DEF SendsWhole, IsData

(* Every step of a transfer in which the board sends.                         *)
LEMMA SendStep ==
  ASSUME ZTyped, role = "send", SendsWhole, \A f : ~Misfortune(f), ~ZLineFault, [ZNext]_zVars
  PROVE  SendsWhole'
<1>1. CASE ZStart
  BY <1>1, ZStartKeepsRun
<1>2. CASE Stream
  BY <1>2, StreamKeepsRun
<1>3. CASE ZHears
  <2>1. zAt \notin {"name", "data"} /\ UNCHANGED <<role, fileLen, tAt, tPos>>
    BY <1>3 DEF ZHears, SendsWhole, terminal
  <2>2. PICK f : SendHeader(f) /\ UNCHANGED <<fpos, disk>>
    BY <1>3, <2>1 DEF ZHears, RecvName, RecvData
  <2> QED  BY <2>1, <2>2, SendHeaderKeepsRun
<1>4. CASE ZTimesOut
  <2>1. zAt \notin {"name", "data"} /\ UNCHANGED <<role, fileLen, fpos, disk, tAt, tPos>>
    BY <1>4 DEF ZTimesOut, SendsWhole, terminal
  <2>2. SendHeader("none")
    BY <1>4, <2>1 DEF ZTimesOut
  <2> QED  BY <2>1, <2>2, SendHeaderKeepsRun
<1>5. CASE TermHears
  BY <1>5, TermReceivesKeepsRun
<1>6. CASE TermStreams \/ TermActs
  BY <1>6 DEF TermStreams, TermActs, SendsWhole
<1>7. CASE ZFinished \/ UNCHANGED zVars
  <2>1. UNCHANGED <<zAt, disk, tAt, fpos, tPos, fileLen, toTerm>>
    BY <1>7 DEF ZFinished, zVars, zBoard, zLine, terminal
  <2> QED  BY <2>1 DEF SendsWhole, OneRun, Consecutive, Rising, UpToSent, LeaveComesLast, IsData
<1> QED
  BY <1>1, <1>2, <1>3, <1>4, <1>5, <1>6, <1>7 DEF ZNext

-----------------------------------------------------------------------------
(* Receiving: what is under way to the board comes in the order it was sent.  *)

(* Where the first frame is one that is waited for, it is the one heard.      *)
LEMMA FirstIsHead ==
  ASSUME ZTyped, Len(toBoard) > 0, NEW types, toBoard[1].t \in types
  PROVE  First(toBoard, types) = 1
<1> DEFINE m == First(toBoard, types)
<1>1. /\ m \in 0..Len(toBoard) /\ Len(toBoard) \in Nat
      /\ \A j \in 1..(m - 1) : toBoard[j].t \notin types
      /\ m = 0 => \A j \in 1..Len(toBoard) : toBoard[j].t \notin types
  BY FirstIs, LenProperties DEF ZTyped
<1> HIDE DEF m
<1>2. m # 0
  BY <1>1
<1>3. ~(m > 1)
  <2>1. m > 1 => 1 \in 1..(m - 1)
    BY <1>1
  <2> QED  BY <2>1, <1>1
<1>4. m = 1
  BY <1>1, <1>2, <1>3
<1> QED
  BY <1>4 DEF m

LEMMA HeadIsNext ==
  ASSUME ZTyped, Len(toBoard) > 0,
         toBoard[1].t \in IF WaitsForPacket THEN PacketStops ELSE HeaderStops
  PROVE  NextAt(toBoard) = 1 /\ Heard(toBoard) = toBoard[1]
<1>1. NextAt(toBoard) = 1
  BY FirstIsHead DEF NextAt, PacketAt, HeaderAt
<1> QED
  BY <1>1 DEF Heard, Packet

LEMMA NoneIsNext ==
  ASSUME ZTyped, toBoard = << >>
  PROVE  NextAt(toBoard) = 0
<1>1. Len(toBoard) = 0
  BY EmptySeq DEF ZTyped
<1>2. \A types : First(toBoard, types) \in 0..0
  BY <1>1, FirstIs DEF ZTyped
<1> QED
  BY <1>2 DEF NextAt, PacketAt, HeaderAt

LEMMA HeadIsTaken ==
  ASSUME ZTyped, Len(toBoard) > 0, toBoard' = After(toBoard, 1)
  PROVE  /\ Len(toBoard) \in Nat /\ Len(toBoard') = Len(toBoard) - 1
         /\ \A j \in 1..(Len(toBoard) - 1) : toBoard'[j] = toBoard[j + 1]
<1>1. toBoard \in Seq(BoardFrames) /\ Len(toBoard) \in Nat /\ 1 \in 0..Len(toBoard)
  BY LenProperties DEF ZTyped
<1>2. /\ Len(toBoard') = Len(toBoard) - 1
      /\ \A j \in 1..(Len(toBoard) - 1) : toBoard'[j] = toBoard[1 + j]
  BY <1>1, AfterIs
<1> QED
  BY <1>1, <1>2

(* A file that has come, or a transfer that was broken off, stays so.         *)
LEMMA OverIsKept ==
  ASSUME ReceivesWhole, UNCHANGED <<disk, fileLen>>,
         \/ zAt' \in {"err", "cancel"}
         \/ zAt \in {"last", "ok", "err", "cancel"} /\ zAt' = zAt
         \/ zAt = "last" /\ zAt' = "ok"
         \/ zAt' = "ok" /\ disk = << >>
  PROVE  ReceivesWhole'
BY DEF ReceivesWhole, Offering, Granted, Storing, Whole, InOrder

(* The board asks, and hears the terminal's offer.                            *)
LEMMA AsksWhole ==
  ASSUME ZTyped, EndInv, role = "recv", ReceivesWhole, ZStart
  PROVE  ReceivesWhole'
<1>1. /\ zAt = "off" /\ zAt' = "file" /\ toTerm' = toTerm \o <<Hdr("ZRINIT")>>
      /\ UNCHANGED <<fpos, disk, toBoard, tAt>>
  BY DEF ZStart, GoTo, Transmits, terminal
<1>2. toTerm = << >> /\ tAt \in {"on", "gone"} /\ fpos = 0 /\ Inquiry
  BY <1>1 DEF ReceivesWhole, Offering
<1>3. \A i \in 1..Len(toTerm') : toTerm'[i].t = "ZRINIT"
  <2>1. toTerm' = <<Hdr("ZRINIT")>>
    BY <1>1, <1>2
  <2>2. Len(toTerm') = 1 /\ toTerm'[1].t = "ZRINIT"
    BY <2>1 DEF Hdr, Frame
  <2> QED  BY <2>2
<1>4. Inquiry'
  BY <1>1, <1>2 DEF Inquiry
<1> QED
  BY <1>1, <1>2, <1>3, <1>4 DEF ReceivesWhole, Offering, Granted, Storing

LEMMA HearsInquiryWhole ==
  ASSUME ZTyped, EndInv, role = "recv", ReceivesWhole, ZHears, zAt = "file"
  PROVE  ReceivesWhole'
<1>1. /\ fpos = 0 /\ tAt \in {"on", "offered", "gone"} /\ Inquiry
      /\ \A i \in 1..Len(toTerm) : toTerm[i].t = "ZRINIT"
  BY DEF ReceivesWhole, Offering
<1>2. /\ NextAt(toBoard) # 0 /\ toBoard' = After(toBoard, NextAt(toBoard))
      /\ UNCHANGED <<role, fileLen, tAt, tPos>>
  BY DEF ZHears, terminal
<1>3. Len(toBoard) \in Nat /\ Len(toBoard) > 0
  <2>1. toBoard # << >>
    BY <1>2, NoneIsNext
  <2> QED  BY <2>1, EmptySeq, LenProperties DEF ZTyped
<1>4. /\ toBoard[1].t \in {"ZRQINIT", "ZFILE", "ZFIN"}
      /\ toBoard[1].t = "ZFILE" => tAt = "offered"
      /\ tAt = "offered" /\ toBoard[1].t = "ZFILE" => Len(toBoard) = 2
      /\ tAt = "offered" /\ toBoard[1].t = "ZRQINIT" => Len(toBoard) > 2
  <2>1. CASE tAt \in {"on", "gone"}
    <3>1. 1 \in 1..Len(toBoard)
      BY <1>3
    <3> QED  BY <2>1, <3>1, <1>1 DEF Inquiry
  <2>2. CASE tAt = "offered" /\ Len(toBoard) = 2
    BY <2>2, <1>1 DEF Inquiry
  <2>3. CASE tAt = "offered" /\ Len(toBoard) # 2
    <3>1. Len(toBoard) > 1
      BY <2>3, <1>1 DEF Inquiry
    <3> DEFINE n == Len(toBoard)
    <3>2. n \in Nat /\ n > 1 /\ n # 2
      BY <3>1, <2>3, <1>3
    <3> HIDE DEF n
    <3>3. n > 2 /\ 1 \in 1..(n - 2)
      BY <3>2
    <3> QED  BY <2>3, <3>3, <1>1 DEF Inquiry, n
  <2> QED  BY <2>1, <2>2, <2>3, <1>1
<1>5. NextAt(toBoard) = 1 /\ Heard(toBoard) = toBoard[1]
  <2>1. toBoard[1].t \in HeaderStops /\ ~WaitsForPacket
    BY <1>4 DEF HeaderStops, HeaderTypes, WaitsForPacket
  <2> QED  BY <2>1, <1>3, HeadIsNext
<1>6. /\ Len(toBoard') = Len(toBoard) - 1
      /\ \A j \in 1..(Len(toBoard) - 1) : toBoard'[j] = toBoard[j + 1]
  BY <1>2, <1>3, <1>5, HeadIsTaken
<1>7. RecvHeader(toBoard[1].t) /\ UNCHANGED <<fpos, disk>>
  BY <1>4, <1>5 DEF ZHears, SendHeader, RecvName, RecvData
<1>8. CASE toBoard[1].t = "ZFIN"
  <2>1. zAt' = "ok" /\ disk = << >>
    BY <1>7, <1>8 DEF RecvHeader, GoTo, EndInv, Opens
  <2> QED  BY <2>1, <1>2, <1>7, OverIsKept
<1>9. CASE toBoard[1].t = "ZFILE"
  <2>1. zAt' = "name" /\ UNCHANGED toTerm
    BY <1>7, <1>9 DEF RecvHeader, GoTo
  <2>2. tAt = "offered" /\ Len(toBoard) = 2
    BY <1>4, <1>9
  <2>3. toBoard[2].t = "name"
    BY <2>2, <1>1 DEF Inquiry
  <2>4. Len(toBoard') = 1 /\ toBoard'[1].t = "name"
    BY <1>6, <2>2, <2>3
  <2>5. Offering'
    BY <1>1, <1>2, <1>7, <2>1, <2>2, <2>4 DEF Offering
  <2> QED  BY <2>1, <2>5 DEF ReceivesWhole, Granted, Storing
<1>10. CASE toBoard[1].t = "ZRQINIT"
  <2>1. zAt' = "file" /\ toTerm' = toTerm \o <<Hdr("ZRINIT")>>
    BY <1>7, <1>10 DEF RecvHeader, Transmits
  <2>2. \A i \in 1..Len(toTerm') : toTerm'[i].t = "ZRINIT"
    <3>1. <<Hdr("ZRINIT")>> \in Seq(Frames) /\ Len(<<Hdr("ZRINIT")>>) = 1
          /\ <<Hdr("ZRINIT")>>[1].t = "ZRINIT"
      BY FramesTyped DEF ZTyped, FrameTypes, HeaderTypes, Hdr, Frame
    <3>2. /\ Len(toTerm) \in Nat /\ Len(toTerm') = Len(toTerm) + 1
          /\ \A i \in 1..(Len(toTerm) + 1) :
               toTerm'[i] = IF i <= Len(toTerm) THEN toTerm[i] ELSE <<Hdr("ZRINIT")>>[i - Len(toTerm)]
      BY <2>1, <3>1, ConcatProperties, LenProperties DEF ZTyped
    <3> QED  BY <3>1, <3>2, <1>1
  <2>3. Inquiry'
    <3>1. CASE tAt \in {"on", "gone"}
      <4>1. ASSUME NEW i \in 1..Len(toBoard') PROVE i + 1 \in 1..Len(toBoard) /\ toBoard'[i] = toBoard[i + 1]
        BY <1>3, <1>6
      <4> QED  BY <3>1, <4>1, <1>1, <1>2 DEF Inquiry
    <3>2. CASE tAt = "offered"
      <4> DEFINE n == Len(toBoard)
      <4>1. n \in Nat /\ n > 2
        BY <3>2, <1>3, <1>4, <1>10
      <4>2. /\ toBoard[n].t = "name" /\ toBoard[n - 1].t = "ZFILE"
            /\ \A i \in 1..(n - 2) : toBoard[i].t = "ZRQINIT"
        BY <3>2, <1>1 DEF Inquiry
      <4>3. Len(toBoard') = n - 1 /\ \A j \in 1..(n - 1) : toBoard'[j] = toBoard[j + 1]
        BY <1>6
      <4> HIDE DEF n
      <4>4. toBoard'[n - 1] = toBoard[n] /\ toBoard'[n - 2] = toBoard[n - 1]
        BY <4>1, <4>3
      <4>5. \A i \in 1..(n - 3) : toBoard'[i] = toBoard[i + 1] /\ i + 1 \in 1..(n - 2)
        BY <4>1, <4>3
      <4>6. n - 1 > 1 /\ (n - 1) - 1 = n - 2 /\ (n - 1) - 2 = n - 3
        BY <4>1
      <4>7. tAt' = "offered"
        BY <1>2, <3>2
      <4> QED  BY <4>2, <4>3, <4>4, <4>5, <4>6, <4>7 DEF Inquiry
    <3> QED  BY <3>1, <3>2, <1>1
  <2>4. Offering'
    BY <1>1, <1>2, <1>7, <2>1, <2>2, <2>3 DEF Offering
  <2> QED  BY <2>1, <2>4 DEF ReceivesWhole, Granted, Storing
<1> QED
  BY <1>4, <1>8, <1>9, <1>10

(* It is given the file's name, and then told that the file comes.            *)
LEMMA HearsNameWhole ==
  ASSUME ZTyped, EndInv, role = "recv", ReceivesWhole, ZHears, zAt = "name",
         \A f : ~Misfortune(f)
  PROVE  ReceivesWhole'
<1>1. /\ fpos = 0 /\ tAt = "offered" /\ Len(toBoard) = 1 /\ toBoard[1].t = "name"
      /\ \A i \in 1..Len(toTerm) : toTerm[i].t = "ZRINIT"
  BY DEF ReceivesWhole, Offering
<1>2. toBoard' = After(toBoard, NextAt(toBoard)) /\ UNCHANGED <<role, fileLen, tAt, tPos>>
  BY DEF ZHears, terminal
<1>3. NextAt(toBoard) = 1 /\ Heard(toBoard) = toBoard[1]
  <2>1. toBoard[1].t \in PacketStops /\ WaitsForPacket /\ Len(toBoard) > 0
    BY <1>1 DEF PacketStops, WaitsForPacket
  <2> QED  BY <2>1, HeadIsNext
<1>4. RecvName("name")
  BY <1>1, <1>3 DEF ZHears, SendHeader, RecvHeader, RecvName, RecvData
<1>5. zAt' = "zdata" /\ toTerm' = toTerm \o <<Frame("ZRPOS", 0)>> /\ UNCHANGED <<fpos, disk>>
  BY <1>4 DEF RecvName, GoTo, Transmits
<1>6. toBoard' = << >>
  <2>1. Len(toBoard') = 0 /\ toBoard' \in Seq(BoardFrames)
    <3>1. 1 \in 0..Len(toBoard) /\ toBoard \in Seq(BoardFrames)
      BY <1>1 DEF ZTyped
    <3>2. After(toBoard, 1) \in Seq(BoardFrames) /\ Len(After(toBoard, 1)) = Len(toBoard) - 1
      BY <3>1, AfterIs
    <3>3. toBoard' = After(toBoard, 1)
      BY <1>2, <1>3
    <3> QED  BY <1>1, <3>2, <3>3
  <2> QED  BY <2>1, EmptySeq
<1>7. /\ Len(toTerm') > 0 /\ toTerm'[Len(toTerm')] = Frame("ZRPOS", 0)
      /\ \A i \in 1..(Len(toTerm') - 1) : toTerm'[i].t = "ZRINIT"
  <2> DEFINE x == Frame("ZRPOS", 0)
  <2>1. x \in Frames
    BY FramesTyped DEF ZTyped, FrameTypes, HeaderTypes
  <2> HIDE DEF x
  <2>2. <<x>> \in Seq(Frames) /\ Len(<<x>>) = 1 /\ <<x>>[1] = x
    BY <2>1, OneOrTwo
  <2>3. toTerm' = toTerm \o <<x>>
    BY <1>5 DEF x
  <2>4. /\ Len(toTerm) \in Nat /\ Len(toTerm') = Len(toTerm) + 1
        /\ \A i \in 1..(Len(toTerm) + 1) :
             toTerm'[i] = IF i <= Len(toTerm) THEN toTerm[i] ELSE <<x>>[i - Len(toTerm)]
    BY <2>2, <2>3, ConcatProperties, LenProperties DEF ZTyped
  <2>5. toTerm'[Len(toTerm')] = x
    BY <2>2, <2>4
  <2>6. \A i \in 1..(Len(toTerm') - 1) : toTerm'[i].t = "ZRINIT"
    BY <2>4, <1>1
  <2>7. Len(toTerm') > 0
    BY <2>4
  <2> QED  BY <2>5, <2>6, <2>7 DEF x
<1>8. Granted'
  BY <1>1, <1>2, <1>5, <1>6, <1>7 DEF Granted
<1> QED
  BY <1>5, <1>8 DEF ReceivesWhole, Offering, Storing

(* One frame less before the subpackets under way.                            *)
LEMMA HearsDataWhole ==
  ASSUME ZTyped, EndInv, role = "recv", ReceivesWhole, ZHears, zAt = "zdata"
  PROVE  ReceivesWhole'
<1>1. /\ NextAt(toBoard) # 0 /\ toBoard' = After(toBoard, NextAt(toBoard))
      /\ UNCHANGED <<role, fileLen, tAt, tPos>>
  BY DEF ZHears, terminal
<1>2. fpos = 0 /\ disk = << >>
  BY DEF ReceivesWhole, Granted, EndInv, Opens
<1>3. ~(toBoard = << >>)
  BY <1>1, NoneIsNext
<1>4. /\ Len(toBoard) > 0
      /\ \/ toBoard[1].t = "CAN"
         \/ toTerm = << >> /\ toBoard[1].t = "ZDATA" /\ Coming(1)
  BY <1>3 DEF ReceivesWhole, Granted
<1>5. NextAt(toBoard) = 1 /\ Heard(toBoard) = toBoard[1]
  <2>1. toBoard[1].t \in HeaderStops /\ ~WaitsForPacket
    BY <1>4 DEF HeaderStops, HeaderTypes, WaitsForPacket
  <2> QED  BY <2>1, <1>4, HeadIsNext
<1>6. RecvHeader(toBoard[1].t) /\ UNCHANGED <<fpos, disk>>
  BY <1>4, <1>5 DEF ZHears, SendHeader, RecvName, RecvData
<1>7. CASE toBoard[1].t = "CAN"
  <2>1. zAt' = "cancel"
    BY <1>6, <1>7 DEF RecvHeader, GoTo
  <2> QED  BY <2>1, <1>1, <1>6, OverIsKept
<1>8. CASE toTerm = << >> /\ toBoard[1].t = "ZDATA" /\ Coming(1)
  <2>1. zAt' = "data" /\ UNCHANGED toTerm
    BY <1>6, <1>8 DEF RecvHeader, GoTo
  <2>2. /\ Len(toBoard) \in Nat /\ Len(toBoard') = Len(toBoard) - 1
        /\ \A j \in 1..(Len(toBoard) - 1) : toBoard'[j] = toBoard[j + 1]
    BY <1>1, <1>4, <1>5, HeadIsTaken
  <2>3. tPos \in Nat /\ fileLen \in Nat /\ fpos' = 0 /\ tPos' = tPos /\ fileLen' = fileLen /\ tAt' = tAt
    BY <1>1, <1>2, <1>6 DEF ZTyped
  <2>4. \A k : DataPacket(k)' = DataPacket(k)
    BY <1>1 DEF DataPacket
  <2>5. Coming(0)'
    <3>1. CASE /\ tAt = "stream" /\ fpos <= tPos
               /\ tPos < fileLen \/ (tPos = 0 /\ fileLen = 0)
               /\ Len(toBoard) = 1 + tPos - fpos
               /\ \A i \in 1..(tPos - fpos) : toBoard[1 + i] = DataPacket(fpos + i)
      <4>1. Len(toBoard') = 0 + tPos - 0
        BY <3>1, <2>2, <2>3, <1>2
      <4>2. \A i \in 1..(tPos - 0) : toBoard'[0 + i] = DataPacket(0 + i)
        BY <3>1, <2>2, <2>3, <1>2
      <4> QED  BY <3>1, <4>1, <4>2, <2>3, <2>4 DEF Coming
    <3>2. CASE /\ tAt = "sent" /\ fpos < fileLen /\ Len(toBoard) >= 1 + fileLen - fpos
               /\ \A i \in 1..(fileLen - fpos) : toBoard[1 + i] = DataPacket(fpos + i)
      <4>1. Len(toBoard') >= 0 + fileLen - 0 /\ 0 < fileLen
        BY <3>2, <2>2, <2>3, <1>2
      <4>2. \A i \in 1..(fileLen - 0) : toBoard'[0 + i] = DataPacket(0 + i)
        BY <3>2, <2>2, <2>3, <1>2
      <4> QED  BY <3>2, <4>1, <4>2, <2>3, <2>4 DEF Coming
    <3>3. CASE /\ tAt = "sent" /\ fpos = 0 /\ fileLen = 0
               /\ Len(toBoard) > 1 /\ toBoard[1 + 1] = DataPacket(0)
      <4>1. Len(toBoard') > 0 /\ toBoard'[0 + 1] = DataPacket(0)
        BY <3>3, <2>2
      <4> QED  BY <3>3, <4>1, <2>3, <2>4 DEF Coming
    <3> QED  BY <1>8, <3>1, <3>2, <3>3 DEF Coming
  <2>6. InOrder(fpos)'
    <3>1. disk' = << >> /\ Len(<< >>) = 0
      BY <1>2, <1>6
    <3> QED  BY <3>1, <2>3 DEF InOrder
  <2>7. Storing'
    BY <1>8, <2>1, <2>5, <2>6 DEF Storing
  <2> QED  BY <2>1, <2>7 DEF ReceivesWhole, Offering, Granted
<1> QED
  BY <1>4, <1>7, <1>8

(* The next subpacket is stored behind the ones before it.                    *)
LEMMA StoresInOrder ==
  ASSUME ZTyped, InOrder(fpos), disk' = Append(disk, fpos + 1), fpos' = fpos + 1
  PROVE  InOrder(fpos)'
<1>1. disk \in Seq(Nat) /\ fpos \in Nat /\ Len(disk) = fpos /\ \A k \in 1..fpos : disk[k] = k
  BY DEF ZTyped, InOrder
<1>2. /\ Len(Append(disk, fpos + 1)) = fpos + 1
      /\ \A k \in 1..fpos : Append(disk, fpos + 1)[k] = disk[k]
      /\ Append(disk, fpos + 1)[fpos + 1] = fpos + 1
  <2>1. fpos + 1 \in Nat
    BY <1>1
  <2> QED  BY <1>1, <2>1, AppendProperties
<1>3. Len(disk') = fpos' /\ \A k \in 1..fpos' : disk'[k] = k
  BY <1>1, <1>2
<1> QED
  BY <1>3 DEF InOrder

LEMMA HearsPacketWhole ==
  ASSUME ZTyped, EndInv, role = "recv", ReceivesWhole, ZHears, zAt = "data",
         \A f : ~Misfortune(f)
  PROVE  ReceivesWhole'
<1>1. /\ NextAt(toBoard) # 0 /\ toBoard' = After(toBoard, NextAt(toBoard))
      /\ UNCHANGED <<role, fileLen, tAt, tPos>>
  BY DEF ZHears, terminal
<1>2. /\ toTerm = << >> /\ Coming(0) /\ InOrder(fpos)
      /\ fpos \in Nat /\ tPos \in Nat /\ fileLen \in Nat /\ Len(toBoard) \in Nat
  BY LenProperties DEF ReceivesWhole, Storing, ZTyped
<1>3. ~(toBoard = << >>)
  BY <1>1, NoneIsNext
<1>4. Len(toBoard) > 0
  BY <1>2, <1>3, EmptySeq DEF ZTyped
<1>5. \A k : DataPacket(k)' = DataPacket(k)
  BY <1>1 DEF DataPacket
<1>6. ASSUME toBoard[1] \in {DataPacket(fpos + 1), DataPacket(0)}
      PROVE  /\ RecvData(toBoard[1])
             /\ Len(toBoard') = Len(toBoard) - 1
             /\ \A j \in 1..(Len(toBoard) - 1) : toBoard'[j] = toBoard[j + 1]
  <2>1. toBoard[1].t \in PacketStops /\ WaitsForPacket
    BY <1>6 DEF PacketStops, WaitsForPacket, DataPacket, Frame
  <2>2. NextAt(toBoard) = 1 /\ Heard(toBoard) = toBoard[1]
    BY <2>1, <1>4, HeadIsNext
  <2>3. RecvData(toBoard[1])
    BY <2>2 DEF ZHears, SendHeader, RecvHeader, RecvName
  <2> QED  BY <1>1, <1>4, <2>2, <2>3, HeadIsTaken
<1>7. ASSUME toBoard[1] = DataPacket(fpos + 1), fpos + 1 # fileLen
      PROVE  zAt' = "data" /\ UNCHANGED toTerm /\ fpos' = fpos + 1 /\ InOrder(fpos)'
  <2>1. toBoard[1].t = "packet" /\ toBoard[1].n = fpos + 1 /\ fpos + 1 # 0
    BY <1>2, <1>7 DEF DataPacket, Frame
  <2>2. RecvData(toBoard[1])
    BY <1>6, <1>7
  <2>3. zAt' = "data" /\ UNCHANGED toTerm /\ disk' = Append(disk, fpos + 1) /\ fpos' = fpos + 1
    BY <2>1, <2>2 DEF RecvData, GoTo
  <2> QED  BY <2>3, <1>2, StoresInOrder
<1>8. CASE /\ tAt = "stream" /\ fpos <= tPos
           /\ tPos < fileLen \/ (tPos = 0 /\ fileLen = 0)
           /\ Len(toBoard) = 0 + tPos - fpos
           /\ \A i \in 1..(tPos - fpos) : toBoard[0 + i] = DataPacket(fpos + i)
  <2>1. fpos < tPos /\ tPos < fileLen /\ Len(toBoard) = tPos - fpos
    BY <1>2, <1>4, <1>8
  <2>2. toBoard[1] = DataPacket(fpos + 1) /\ fpos + 1 # fileLen
    <3>1. 1 \in 1..(tPos - fpos) /\ 0 + 1 = 1
      BY <2>1, <1>2
    <3>2. toBoard[0 + 1] = DataPacket(fpos + 1)
      BY <3>1, <1>8
    <3> QED  BY <3>1, <3>2, <2>1, <1>2
  <2>3. zAt' = "data" /\ UNCHANGED toTerm /\ fpos' = fpos + 1 /\ InOrder(fpos)'
    BY <2>2, <1>7
  <2>4. /\ Len(toBoard') = Len(toBoard) - 1
        /\ \A j \in 1..(Len(toBoard) - 1) : toBoard'[j] = toBoard[j + 1]
    BY <1>6, <2>2
  <2>5. \A i \in 1..(tPos - (fpos + 1)) : toBoard'[0 + i] = DataPacket((fpos + 1) + i)
    <3> TAKE i \in 1..(tPos - (fpos + 1))
    <3>1. i \in 1..(Len(toBoard) - 1) /\ i + 1 \in 1..(tPos - fpos)
          /\ 0 + i = i /\ 0 + (i + 1) = i + 1 /\ fpos + (i + 1) = (fpos + 1) + i
      BY <2>1, <1>2
    <3>2. toBoard[0 + (i + 1)] = DataPacket(fpos + (i + 1))
      BY <3>1, <1>8
    <3>3. toBoard'[i] = toBoard[i + 1]
      BY <3>1, <2>4
    <3> QED  BY <3>1, <3>2, <3>3
  <2>6. Len(toBoard') = 0 + tPos - (fpos + 1) /\ fpos + 1 <= tPos
    BY <2>1, <2>4, <1>2
  <2>7. Coming(0)'
    BY <1>1, <1>5, <1>8, <2>1, <2>3, <2>5, <2>6 DEF Coming
  <2>8. Storing'
    BY <1>2, <2>3, <2>7 DEF Storing
  <2> QED  BY <2>3, <2>8 DEF ReceivesWhole, Offering, Granted
<1>9. CASE /\ tAt = "sent" /\ fpos < fileLen /\ Len(toBoard) >= 0 + fileLen - fpos
           /\ \A i \in 1..(fileLen - fpos) : toBoard[0 + i] = DataPacket(fpos + i)
  <2>1. toBoard[1] = DataPacket(fpos + 1)
    <3>1. 1 \in 1..(fileLen - fpos) /\ 0 + 1 = 1
      BY <1>2, <1>9
    <3>2. toBoard[0 + 1] = DataPacket(fpos + 1)
      BY <3>1, <1>9
    <3> QED  BY <3>1, <3>2
  <2>2. CASE fpos + 1 = fileLen
    <3>1. toBoard[1].t = "final" /\ toBoard[1].n = fpos + 1 /\ fpos + 1 # 0
      BY <1>2, <2>1, <2>2 DEF DataPacket, Frame
    <3>2. RecvData(toBoard[1])
      BY <1>6, <2>1
    <3>3. zAt' = "last" /\ disk' = Append(disk, fpos + 1) /\ fpos' = fpos + 1
      BY <3>1, <3>2 DEF RecvData, GoTo
    <3>4. InOrder(fpos)' /\ fpos' = fileLen' /\ fileLen' # 0
      BY <3>1, <3>3, <1>1, <1>2, <2>2, StoresInOrder
    <3>5. Whole'
      BY <3>4 DEF Whole, InOrder
    <3> QED  BY <3>3, <3>5 DEF ReceivesWhole, Offering, Granted, Storing
  <2>3. CASE fpos + 1 # fileLen
    <3>1. zAt' = "data" /\ UNCHANGED toTerm /\ fpos' = fpos + 1 /\ InOrder(fpos)'
      BY <2>1, <2>3, <1>7
    <3>2. /\ Len(toBoard') = Len(toBoard) - 1
          /\ \A j \in 1..(Len(toBoard) - 1) : toBoard'[j] = toBoard[j + 1]
      BY <1>6, <2>1
    <3>3. fpos + 1 < fileLen /\ Len(toBoard') >= 0 + fileLen - (fpos + 1)
      BY <1>2, <1>9, <2>3, <3>2
    <3>4. \A i \in 1..(fileLen - (fpos + 1)) : toBoard'[0 + i] = DataPacket((fpos + 1) + i)
      <4> TAKE i \in 1..(fileLen - (fpos + 1))
      <4>1. i \in 1..(Len(toBoard) - 1) /\ i + 1 \in 1..(fileLen - fpos)
            /\ 0 + i = i /\ 0 + (i + 1) = i + 1 /\ fpos + (i + 1) = (fpos + 1) + i
        BY <1>2, <1>9
      <4>2. toBoard[0 + (i + 1)] = DataPacket(fpos + (i + 1))
        BY <4>1, <1>9
      <4>3. toBoard'[i] = toBoard[i + 1]
        BY <4>1, <3>2
      <4> QED  BY <4>1, <4>2, <4>3
    <3>5. Coming(0)'
      BY <1>1, <1>5, <1>9, <3>1, <3>3, <3>4 DEF Coming
    <3>6. Storing'
      BY <1>2, <3>1, <3>5 DEF Storing
    <3> QED  BY <3>1, <3>6 DEF ReceivesWhole, Offering, Granted
  <2> QED  BY <2>2, <2>3
<1>10. CASE /\ tAt = "sent" /\ fpos = 0 /\ fileLen = 0
            /\ Len(toBoard) > 0 /\ toBoard[0 + 1] = DataPacket(0)
  <2>1. toBoard[1] = DataPacket(0) /\ toBoard[1].t = "final" /\ toBoard[1].n = 0
    BY <1>10 DEF DataPacket, Frame
  <2>2. RecvData(toBoard[1])
    BY <1>6, <2>1
  <2>3. zAt' = "last" /\ disk' = Append(disk, 0)
    BY <2>1, <2>2 DEF RecvData, GoTo
  <2>4. disk \in Seq(Nat) /\ Len(disk) = 0
    BY <1>2, <1>10 DEF InOrder, ZTyped
  <2>5. Len(disk') = 1 /\ disk'[1] = 0
    BY <2>3, <2>4, AppendProperties
  <2>6. Whole'
    BY <1>1, <1>10, <2>5 DEF Whole
  <2> QED  BY <2>3, <2>6 DEF ReceivesWhole, Offering, Granted, Storing
<1> QED
  BY <1>2, <1>8, <1>9, <1>10 DEF Coming

(* Nothing comes: the board asks again, gives up, or has it all.              *)
LEMMA TimesOutWhole ==
  ASSUME ZTyped, EndInv, role = "recv", ReceivesWhole, ZTimesOut, \A f : ~Misfortune(f)
  PROVE  ReceivesWhole'
<1>1. /\ NextAt(toBoard) = 0 /\ toBoard' = << >> /\ TermIsSilent /\ Hearing
      /\ UNCHANGED <<role, fileLen, fpos, disk, tAt, tPos>>
  BY DEF ZTimesOut, terminal
<1>2. zAt \in {"file", "name", "zdata", "data", "last"}
  BY <1>1 DEF ReceivesWhole, Hearing, ZEnded
<1>3. CASE zAt \in {"name", "data"}
  <2>1. zAt' = "err"
    BY <1>3 DEF ZTimesOut, SendHeader, RecvHeader, GoTo
  <2> QED  BY <2>1, <1>1, OverIsKept
<1>4. CASE zAt = "last"
  <2>1. zAt' \in {"last", "ok"}
    BY <1>4 DEF ZTimesOut, SendHeader, RecvHeader, Retry, GoTo
  <2> QED  BY <2>1, <1>1, <1>4, OverIsKept
<1>5. ASSUME Len(toBoard) > 0, toBoard[1].t \in HeaderStops, zAt \in {"file", "zdata"}
      PROVE  FALSE
  <2>1. ~WaitsForPacket
    BY <1>5 DEF WaitsForPacket
  <2> QED  BY <2>1, <1>5, <1>1, HeadIsNext
<1>6. CASE zAt = "zdata"
  <2>1. tAt # "stream" /\ (tAt = "gone" \/ toTerm = << >>)
    BY <1>1 DEF TermIsSilent
  <2>2. Len(toBoard) > 0 /\ toBoard[1].t \in {"CAN", "ZDATA"}
    <3>1. CASE toTerm = << >>
      <4>1. ~(Len(toTerm) > 0)
        BY <3>1, EmptySeq DEF ZTyped
      <4> QED  BY <4>1, <1>6 DEF ReceivesWhole, Granted
    <3>2. CASE tAt = "gone"
      BY <3>2, <1>6 DEF ReceivesWhole, Granted
    <3> QED  BY <2>1, <3>1, <3>2
  <2> QED  BY <2>2, <1>5, <1>6 DEF HeaderStops, HeaderTypes
<1>7. CASE zAt = "file"
  <2>1. \/ zAt' = "err"
        \/ zAt' = "file" /\ toTerm' = toTerm \o << >>
    BY <1>7 DEF ZTimesOut, SendHeader, RecvHeader, Retry, GoTo, Transmits
  <2>2. CASE zAt' = "err"
    BY <2>2, <1>1, OverIsKept
  <2>3. CASE zAt' = "file" /\ toTerm' = toTerm \o << >>
    <3>1. toTerm' = toTerm
      BY <2>3 DEF ZTyped
    <3>2. /\ fpos = 0 /\ tAt \in {"on", "offered", "gone"} /\ Inquiry
          /\ \A i \in 1..Len(toTerm) : toTerm[i].t = "ZRINIT"
      BY <1>7 DEF ReceivesWhole, Offering
    <3>3. tAt # "offered"
      <4> SUFFICES ASSUME tAt = "offered" PROVE FALSE
        OBVIOUS
      <4> DEFINE n == Len(toBoard)
      <4>1. n \in Nat /\ n > 1 /\ toBoard[n - 1].t = "ZFILE"
            /\ \A i \in 1..(n - 2) : toBoard[i].t = "ZRQINIT"
        BY <3>2, LenProperties DEF Inquiry, ZTyped
      <4>2. toBoard[1].t \in {"ZFILE", "ZRQINIT"}
        <5> HIDE DEF n
        <5>1. CASE n = 2
          BY <5>1, <4>1
        <5>2. CASE n # 2
          <6>1. 1 \in 1..(n - 2)
            BY <5>2, <4>1
          <6> QED  BY <6>1, <4>1
        <5> QED  BY <5>1, <5>2
      <4> QED  BY <4>1, <4>2, <1>5, <1>7 DEF HeaderStops, HeaderTypes
    <3>4. Len(toBoard') = 0
      BY <1>1
    <3>5. Inquiry'
      BY <3>2, <3>3, <3>4, <1>1 DEF Inquiry
    <3>6. Offering'
      BY <1>1, <2>3, <3>1, <3>2, <3>5 DEF Offering
    <3> QED  BY <2>3, <3>6 DEF ReceivesWhole, Granted, Storing
  <2> QED  BY <2>1, <2>2, <2>3
<1> QED
  BY <1>2, <1>3, <1>4, <1>6, <1>7

(* The terminal offers the file, is granted it, and sends it from its start.  *)
LEMMA OffersWhole ==
  ASSUME ZTyped, EndInv, role = "recv", ReceivesWhole, TermHears, zAt \in {"off", "file", "name"}
  PROVE  ReceivesWhole'
<1> DEFINE f == Head(toTerm)
           n == Len(toTerm)
<1>1. /\ toTerm # << >> /\ toTerm' = Tail(toTerm) /\ TermSends(f) /\ tAt # "gone"
      /\ UNCHANGED <<role, fileLen, zAt, fpos, disk>>
  BY DEF TermHears, TermReceives, Board, zBoard
<1>2. /\ n \in Nat /\ n > 0 /\ f = toTerm[1] /\ Len(toTerm') = n - 1
      /\ \A i \in 1..(n - 1) : toTerm'[i] = toTerm[i + 1]
  BY <1>1, HeadTailProperties, EmptySeq, LenProperties DEF ZTyped
<1>3. /\ zAt \in {"file", "name"} /\ fpos = 0 /\ tAt \in {"on", "offered"}
      /\ \A i \in 1..n : toTerm[i].t = "ZRINIT"
      /\ IF zAt = "name" THEN tAt = "offered" /\ Len(toBoard) = 1 /\ toBoard[1].t = "name"
                         ELSE Inquiry
  BY <1>1 DEF ReceivesWhole, Offering
<1> HIDE DEF f, n
<1>4. f.t = "ZRINIT"
  BY <1>2, <1>3
<1>5. \A i \in 1..Len(toTerm') : toTerm'[i].t = "ZRINIT"
  <2> TAKE i \in 1..Len(toTerm')
  <2>1. i \in 1..(n - 1) /\ i + 1 \in 1..n
    BY <1>2
  <2> QED  BY <2>1, <1>2, <1>3
<1>6. CASE tAt = "on"
  <2>1. tAt' = "offered" /\ toBoard' = toBoard \o <<Hdr("ZFILE"), Frame("name", 0)>>
    BY <1>1, <1>4, <1>6 DEF TermSends, Answers
  <2>2. zAt = "file" /\ \A i \in 1..Len(toBoard) : toBoard[i].t = "ZRQINIT"
    BY <1>3, <1>6 DEF Inquiry
  <2> DEFINE x == Hdr("ZFILE")
             y == Frame("name", 0)
             m == Len(toBoard)
  <2>3. x \in BoardFrames /\ y \in BoardFrames /\ x.t = "ZFILE" /\ y.t = "name"
    BY FramesTyped DEF ZTyped, FrameTypes, HeaderTypes, Hdr, Frame
  <2> HIDE DEF x, y
  <2>4. <<x, y>> \in Seq(BoardFrames) /\ Len(<<x, y>>) = 2 /\ <<x, y>>[1] = x /\ <<x, y>>[2] = y
    BY <2>3, OneOrTwo
  <2>5. toBoard' = toBoard \o <<x, y>>
    BY <2>1 DEF x, y
  <2>6. /\ m \in Nat /\ Len(toBoard') = m + 2
        /\ \A i \in 1..(m + 2) : toBoard'[i] = IF i <= m THEN toBoard[i] ELSE <<x, y>>[i - m]
    BY <2>4, <2>5, ConcatProperties, LenProperties DEF ZTyped
  <2>7. \A i \in 1..m : toBoard'[i].t = "ZRQINIT"
    BY <2>2, <2>6
  <2> HIDE DEF m
  <2>8. toBoard'[m + 2] = y /\ toBoard'[m + 1] = x
    BY <2>4, <2>6
  <2>9. m + 2 > 1 /\ (m + 2) - 1 = m + 1 /\ (m + 2) - 2 = m
    BY <2>6
  <2>10. Inquiry'
    BY <2>1, <2>3, <2>6, <2>7, <2>8, <2>9 DEF Inquiry
  <2>11. Offering'
    BY <1>1, <1>3, <1>5, <2>1, <2>2, <2>10 DEF Offering
  <2> QED  BY <1>1, <2>2, <2>11 DEF ReceivesWhole, Granted, Storing
<1>7. CASE tAt = "offered"
  <2>1. UNCHANGED <<tAt, tPos, toBoard>>
    BY <1>1, <1>4, <1>7 DEF TermSends, terminal
  <2>2. Inquiry => Inquiry'
    BY <2>1 DEF Inquiry
  <2>3. Offering'
    BY <1>1, <1>3, <1>5, <2>1, <2>2 DEF Offering
  <2> QED  BY <1>1, <1>3, <2>3 DEF ReceivesWhole, Granted, Storing
<1> QED
  BY <1>3, <1>6, <1>7

LEMMA StartsWhole ==
  ASSUME ZTyped, EndInv, role = "recv", ReceivesWhole, TermHears, zAt \in {"zdata", "data"}
  PROVE  ReceivesWhole'
<1> DEFINE f == Head(toTerm)
           n == Len(toTerm)
<1>1. /\ toTerm # << >> /\ toTerm' = Tail(toTerm) /\ TermSends(f) /\ tAt # "gone"
      /\ UNCHANGED <<role, fileLen, zAt, fpos, disk>>
  BY DEF TermHears, TermReceives, Board, zBoard
<1>2. /\ n \in Nat /\ n > 0 /\ f = toTerm[1] /\ Len(toTerm') = n - 1
      /\ toTerm' \in Seq(Frames)
      /\ \A i \in 1..(n - 1) : toTerm'[i] = toTerm[i + 1]
  BY <1>1, HeadTailProperties, EmptySeq, LenProperties DEF ZTyped
<1>3. /\ zAt = "zdata" /\ fpos = 0 /\ tAt = "offered" /\ toBoard = << >>
      /\ toTerm[n] = Frame("ZRPOS", 0)
      /\ \A i \in 1..(n - 1) : toTerm[i].t = "ZRINIT"
  BY <1>1 DEF ReceivesWhole, Granted, Storing
<1>4. fileLen \in Nat
  BY DEF ZTyped
<1> HIDE DEF f, n
<1>5. CASE n > 1
  <2>1. f.t = "ZRINIT"
    <3>1. 1 \in 1..(n - 1)
      BY <1>2, <1>5
    <3> QED  BY <3>1, <1>2, <1>3
  <2>2. UNCHANGED <<tAt, toBoard>>
    BY <2>1, <1>1, <1>3 DEF TermSends, terminal
  <2>3. toTerm'[n - 1] = Frame("ZRPOS", 0) /\ n - 1 > 0
    BY <1>2, <1>3, <1>5
  <2>4. \A i \in 1..((n - 1) - 1) : toTerm'[i].t = "ZRINIT"
    <3> TAKE i \in 1..((n - 1) - 1)
    <3>1. i \in 1..(n - 1) /\ i + 1 \in 1..(n - 1)
      BY <1>2
    <3> QED  BY <3>1, <1>2, <1>3
  <2>5. Granted'
    BY <1>1, <1>2, <1>3, <2>2, <2>3, <2>4 DEF Granted
  <2> QED  BY <1>1, <1>3, <2>5 DEF ReceivesWhole, Offering, Storing
<1>6. CASE n = 1
  <2>1. f.t = "ZRPOS" /\ f.n = 0
    BY <1>2, <1>3, <1>6 DEF Frame
  <2>2. toTerm' = << >>
    BY <1>2, <1>6, EmptySeq
  <2>3. \/ tAt' = "stream" /\ tPos' = 0 /\ Answers(<<Hdr("ZDATA")>>)
        \/ tAt' = "gone" /\ Answers(<<CAN>>)
    BY <1>1, <1>3, <2>1 DEF TermSends
  <2>4. \A x \in BoardFrames : Answers(<<x>>) => Len(toBoard') = 1 /\ toBoard'[1] = x
    <3> TAKE x \in BoardFrames
    <3>1. <<x>> \in Seq(BoardFrames) /\ Len(<<x>>) = 1 /\ <<x>>[1] = x
      BY OneOrTwo
    <3>2. << >> \o <<x>> = <<x>>
      BY <3>1
    <3> QED  BY <3>1, <3>2, <1>3 DEF Answers
  <2>5. /\ Hdr("ZDATA") \in BoardFrames /\ CAN \in BoardFrames
        /\ Hdr("ZDATA").t = "ZDATA" /\ CAN.t = "CAN"
    BY FramesTyped DEF ZTyped, HeaderTypes, Hdr, CAN, Frame
  <2>6. CASE tAt' = "stream" /\ tPos' = 0 /\ Answers(<<Hdr("ZDATA")>>)
    <3>1. Len(toBoard') = 1 /\ toBoard'[1].t = "ZDATA"
      BY <2>4, <2>5, <2>6
    <3>2. tPos' < fileLen' \/ (tPos' = 0 /\ fileLen' = 0)
      BY <1>1, <1>4, <2>6
    <3>3. fpos' = 0 /\ 1..(tPos' - fpos') = {} /\ Len(toBoard') = 1 + tPos' - fpos' /\ fpos' <= tPos'
      BY <1>1, <1>3, <2>6, <3>1
    <3>4. Coming(1)'
      BY <2>6, <3>2, <3>3 DEF Coming
    <3>5. Granted'
      BY <2>2, <3>1, <3>3, <3>4 DEF Granted
    <3> QED  BY <1>1, <1>3, <3>5 DEF ReceivesWhole, Offering, Storing
  <2>7. CASE tAt' = "gone" /\ Answers(<<CAN>>)
    <3>1. Len(toBoard') = 1 /\ toBoard'[1].t = "CAN"
      BY <2>4, <2>5, <2>7
    <3>2. Granted'
      BY <1>1, <1>3, <2>7, <3>1 DEF Granted
    <3> QED  BY <1>1, <1>3, <3>2 DEF ReceivesWhole, Offering, Storing
  <2> QED  BY <2>3, <2>6, <2>7
<1> QED
  BY <1>2, <1>5, <1>6

(* It sends the next subpacket, with the last one ZEOF.                       *)
LEMMA StreamsOn ==
  ASSUME ZTyped, role = "recv", NEW d \in {0, 1}, Coming(d), TermStreams
  PROVE  Coming(d)' /\ (toBoard[1].t = "ZDATA" /\ d = 1 => Len(toBoard') > 0 /\ toBoard'[1].t = "ZDATA")
<1> DEFINE n == Len(toBoard)
<1>1. /\ tAt = "stream" /\ UNCHANGED <<role, fileLen, zAt, fpos, disk, toTerm>>
      /\ IF tPos + 1 >= fileLen
         THEN /\ toBoard' = toBoard \o <<DataPacket(fileLen), Frame("ZEOF", fileLen)>>
              /\ tPos' = fileLen /\ tAt' = "sent"
         ELSE toBoard' = toBoard \o <<DataPacket(tPos + 1)>> /\ tPos' = tPos + 1 /\ tAt' = "stream"
  BY DEF TermStreams, Answers, Board, zBoard
<1>2. /\ fpos <= tPos
      /\ tPos < fileLen \/ (tPos = 0 /\ fileLen = 0)
      /\ n = d + tPos - fpos
      /\ \A i \in 1..(tPos - fpos) : toBoard[d + i] = DataPacket(fpos + i)
  BY <1>1 DEF Coming, ZTyped
<1>3. fpos \in Nat /\ tPos \in Nat /\ fileLen \in Nat /\ n \in Nat /\ fpos <= tPos /\ d \in Nat
  BY <1>1, LenProperties DEF ZTyped, Coming
<1>4. \A k : DataPacket(k)' = DataPacket(k)
  BY <1>1 DEF DataPacket
<1>5. ASSUME NEW x \in BoardFrames, NEW y \in BoardFrames,
             toBoard' = toBoard \o <<x>> \/ toBoard' = toBoard \o <<x, y>>
      PROVE  /\ toBoard' = toBoard \o <<x>> => Len(toBoard') = n + 1
             /\ Len(toBoard') >= n + 1 /\ toBoard'[n + 1] = x
             /\ \A i \in 1..n : toBoard'[i] = toBoard[i]
  <2>1. /\ <<x>> \in Seq(BoardFrames) /\ Len(<<x>>) = 1 /\ <<x>>[1] = x
        /\ <<x, y>> \in Seq(BoardFrames) /\ Len(<<x, y>>) = 2 /\ <<x, y>>[1] = x
    BY OneOrTwo
  <2>2. /\ Len(toBoard \o <<x>>) = n + 1
        /\ \A i \in 1..(n + 1) : (toBoard \o <<x>>)[i] = IF i <= n THEN toBoard[i] ELSE <<x>>[i - n]
    BY <2>1, ConcatProperties DEF ZTyped
  <2>3. /\ Len(toBoard \o <<x, y>>) = n + 2
        /\ \A i \in 1..(n + 2) : (toBoard \o <<x, y>>)[i] = IF i <= n THEN toBoard[i] ELSE <<x, y>>[i - n]
    BY <2>1, ConcatProperties DEF ZTyped
  <2>4. CASE toBoard' = toBoard \o <<x>>
    BY <2>1, <2>2, <2>4, <1>3
  <2>5. CASE toBoard' = toBoard \o <<x, y>>
    <3>1. toBoard' # toBoard \o <<x>>
      BY <2>2, <2>3, <2>5, <1>3
    <3> QED  BY <2>1, <2>3, <2>5, <3>1, <1>3
  <2> QED  BY <1>5, <2>4, <2>5
<1> HIDE DEF n
<1>6. /\ DataPacket(fileLen) \in BoardFrames /\ DataPacket(tPos + 1) \in BoardFrames
      /\ Frame("ZEOF", fileLen) \in BoardFrames
  BY <1>3, FramesTyped DEF FrameTypes, HeaderTypes
<1>7. CASE tPos + 1 >= fileLen /\ tPos < fileLen
  <2>1. /\ Len(toBoard') >= n + 1 /\ toBoard'[n + 1] = DataPacket(fileLen)
        /\ \A i \in 1..n : toBoard'[i] = toBoard[i]
    BY <1>1, <1>5, <1>6, <1>7
  <2>2. fileLen = tPos + 1 /\ n + 1 = d + (fileLen - fpos) /\ fpos < fileLen
        /\ Len(toBoard') >= d + fileLen - fpos
    BY <2>1, <1>2, <1>3, <1>7
  <2>3. \A i \in 1..(fileLen - fpos) : toBoard'[d + i] = DataPacket(fpos + i)
    <3> TAKE i \in 1..(fileLen - fpos)
    <3>1. CASE i = fileLen - fpos
      <4>1. d + i = n + 1 /\ fpos + i = fileLen
        BY <3>1, <2>2, <1>3
      <4> QED  BY <4>1, <2>1
    <3>2. CASE i # fileLen - fpos
      <4>1. i \in 1..(tPos - fpos) /\ d + i \in 1..n
        BY <3>2, <2>2, <1>2, <1>3
      <4> QED  BY <4>1, <2>1, <1>2
    <3> QED  BY <3>1, <3>2
  <2>4. tAt' = "sent"
    BY <1>1, <1>7
  <2>5. Coming(d)'
    BY <1>1, <1>4, <2>2, <2>3, <2>4 DEF Coming
  <2>6. d = 1 => toBoard'[1] = toBoard[1] /\ Len(toBoard') > 0
    BY <2>1, <1>2, <1>3
  <2> QED  BY <2>5, <2>6
<1>8. CASE tPos = 0 /\ fileLen = 0
  <2>1. /\ Len(toBoard') >= n + 1 /\ toBoard'[n + 1] = DataPacket(fileLen)
        /\ \A i \in 1..n : toBoard'[i] = toBoard[i]
    <3>1. tPos + 1 >= fileLen
      BY <1>8
    <3>2. toBoard' = toBoard \o <<DataPacket(fileLen), Frame("ZEOF", fileLen)>>
      BY <1>1, <3>1
    <3> QED  BY <3>2, <1>5, <1>6
  <2>2. fpos = 0 /\ n = d
    BY <1>2, <1>3, <1>8
  <2>3. Len(toBoard') > d /\ toBoard'[d + 1] = DataPacket(0)
    BY <2>1, <2>2, <1>3, <1>8
  <2>4. tAt' = "sent"
    <3>1. tPos + 1 >= fileLen
      BY <1>8
    <3> QED  BY <1>1, <3>1
  <2>5. Coming(d)'
    BY <1>1, <1>4, <1>8, <2>2, <2>3, <2>4 DEF Coming
  <2>6. d = 1 => toBoard'[1] = toBoard[1] /\ Len(toBoard') > 0
    BY <2>1, <2>2, <1>3
  <2> QED  BY <2>5, <2>6
<1>9. CASE ~(tPos + 1 >= fileLen)
  <2>1. /\ Len(toBoard') = n + 1 /\ toBoard'[n + 1] = DataPacket(tPos + 1)
        /\ \A i \in 1..n : toBoard'[i] = toBoard[i]
    BY <1>1, <1>5, <1>6, <1>9
  <2>2. tPos' = tPos + 1 /\ tAt' = "stream" /\ tPos + 1 < fileLen
    BY <1>1, <1>3, <1>9
  <2>3. fpos <= tPos + 1 /\ Len(toBoard') = d + (tPos + 1) - fpos
    BY <2>1, <1>2, <1>3, <2>2
  <2>4. \A i \in 1..((tPos + 1) - fpos) : toBoard'[d + i] = DataPacket(fpos + i)
    <3> TAKE i \in 1..((tPos + 1) - fpos)
    <3>1. CASE i = (tPos + 1) - fpos
      <4>1. d + i = n + 1 /\ fpos + i = tPos + 1
        BY <3>1, <1>2, <1>3, <2>2
      <4> QED  BY <4>1, <2>1
    <3>2. CASE i # (tPos + 1) - fpos
      <4>1. i \in 1..(tPos - fpos) /\ d + i \in 1..n
        BY <3>2, <1>2, <1>3, <2>2
      <4> QED  BY <4>1, <2>1, <1>2, <1>3, <2>2
    <3> QED  BY <3>1, <3>2
  <2>5. Coming(d)'
    BY <1>1, <1>4, <2>2, <2>3, <2>4 DEF Coming
  <2>6. d = 1 => toBoard'[1] = toBoard[1] /\ Len(toBoard') > 0
    BY <2>1, <1>2, <1>3, <2>2
  <2> QED  BY <2>5, <2>6
<1> QED
  BY <1>2, <1>3, <1>7, <1>8, <1>9

LEMMA TermStreamsWhole ==
  ASSUME ZTyped, EndInv, role = "recv", ReceivesWhole, TermStreams
  PROVE  ReceivesWhole'
<1>1. tAt = "stream" /\ UNCHANGED <<role, fileLen, zAt, fpos, disk, toTerm>>
  BY DEF TermStreams, Board, zBoard
<1>2. zAt \in {"zdata", "data"} \/ zAt \in {"last", "ok", "err", "cancel"}
  BY <1>1 DEF ReceivesWhole, Offering
<1>3. CASE zAt = "zdata"
  <2>1. fpos = 0 /\ toTerm = << >> /\ toBoard[1].t = "ZDATA" /\ Coming(1)
    BY <1>1, <1>3 DEF ReceivesWhole, Granted
  <2>2. Coming(1)' /\ Len(toBoard') > 0 /\ toBoard'[1].t = "ZDATA"
    BY <2>1, StreamsOn
  <2>3. Granted'
    BY <1>1, <2>1, <2>2 DEF Granted
  <2> QED  BY <1>1, <1>3, <2>3 DEF ReceivesWhole, Offering, Storing
<1>4. CASE zAt = "data"
  <2>1. toTerm = << >> /\ Coming(0) /\ InOrder(fpos)
    BY <1>4 DEF ReceivesWhole, Storing
  <2>2. Coming(0)'
    BY <2>1, StreamsOn
  <2>3. Storing'
    BY <1>1, <2>1, <2>2 DEF Storing, InOrder
  <2> QED  BY <1>1, <1>4, <2>3 DEF ReceivesWhole, Offering, Granted
<1>5. CASE zAt \in {"last", "ok", "err", "cancel"}
  BY <1>1, <1>5, OverIsKept
<1> QED
  BY <1>2, <1>3, <1>4, <1>5

(* It asks first, or has nothing to send.                                     *)
LEMMA TermActsWhole ==
  ASSUME ZTyped, EndInv, role = "recv", ReceivesWhole, TermActs, \A f : ~Misfortune(f)
  PROVE  ReceivesWhole'
<1>1. /\ tAt = "on" /\ UNCHANGED <<role, fileLen, zAt, fpos, disk, toTerm>>
      /\ \/ Answers(<<Hdr("ZRQINIT")>>) /\ tAt' = "on"
         \/ tAt' = "gone" /\ Answers(<<Hdr("ZFIN")>>)
  BY DEF TermActs, Board, zBoard
<1>2. CASE zAt \in {"last", "ok", "err", "cancel"}
  BY <1>1, <1>2, OverIsKept
<1>3. CASE zAt \in {"off", "file", "name", "zdata", "data"}
  <2>1. /\ zAt \in {"off", "file"} /\ fpos = 0 /\ Inquiry
        /\ \A i \in 1..Len(toTerm) : toTerm[i].t = "ZRINIT"
        /\ zAt = "off" => toTerm = << >>
    BY <1>1, <1>3 DEF ReceivesWhole, Offering, Granted, Storing, Coming
  <2>2. \A i \in 1..Len(toBoard) : toBoard[i].t = "ZRQINIT"
    BY <1>1, <2>1 DEF Inquiry
  <2>3. \A x \in BoardFrames : Answers(<<x>>) =>
          \A i \in 1..Len(toBoard') : toBoard'[i].t = "ZRQINIT" \/ toBoard'[i] = x
    <3> TAKE x \in BoardFrames
    <3> HAVE Answers(<<x>>)
    <3>1. <<x>> \in Seq(BoardFrames) /\ Len(<<x>>) = 1 /\ <<x>>[1] = x
      BY OneOrTwo
    <3>2. /\ Len(toBoard) \in Nat /\ Len(toBoard') = Len(toBoard) + 1
          /\ \A i \in 1..(Len(toBoard) + 1) :
               toBoard'[i] = IF i <= Len(toBoard) THEN toBoard[i] ELSE <<x>>[i - Len(toBoard)]
      BY <3>1, ConcatProperties, LenProperties DEF ZTyped, Answers
    <3> TAKE i \in 1..Len(toBoard')
    <3>3. CASE i <= Len(toBoard)
      BY <3>2, <3>3, <2>2
    <3>4. CASE i > Len(toBoard)
      <4>1. i - Len(toBoard) = 1
        BY <3>2, <3>4
      <4> QED  BY <3>1, <3>2, <3>4, <4>1
    <3> QED  BY <3>2, <3>3, <3>4
  <2>4. /\ Hdr("ZRQINIT") \in BoardFrames /\ Hdr("ZFIN") \in BoardFrames
        /\ Hdr("ZRQINIT").t = "ZRQINIT" /\ Hdr("ZFIN").t = "ZFIN"
    BY FramesTyped DEF ZTyped, HeaderTypes, Hdr, Frame
  <2>5. Inquiry'
    BY <1>1, <2>3, <2>4 DEF Inquiry
  <2>6. tAt' \in {"on", "gone"}
    BY <1>1
  <2>7. Offering'
    BY <1>1, <2>1, <2>5, <2>6 DEF Offering
  <2> QED  BY <1>1, <2>1, <2>7 DEF ReceivesWhole, Granted, Storing
<1> QED
  BY <1>2, <1>3 DEF ReceivesWhole

(* Every step of a transfer in which the board receives.                      *)
LEMMA ReceiveStep ==
  ASSUME ZTyped, EndInv, role = "recv", ReceivesWhole, \A f : ~Misfortune(f), ~ZLineFault,
         [ZNext]_zVars
  PROVE  ReceivesWhole'
<1>1. CASE ZStart
  BY <1>1, AsksWhole
<1>2. CASE Stream
  BY <1>2 DEF Stream, ReceivesWhole
<1>3. CASE ZHears
  <2>1. zAt \in {"file", "name", "zdata", "data", "last"}
    BY <1>3 DEF ZHears, Hearing, ZEnded, ReceivesWhole
  <2>2. CASE zAt = "last"
    <3>1. zAt' \in {"last", "ok", "cancel"} /\ UNCHANGED <<disk, fileLen>>
      BY <1>3, <2>2 DEF ZHears, SendHeader, RecvHeader, RecvName, RecvData, Retry, GoTo
    <3> QED  BY <3>1, <2>2, OverIsKept
  <2> QED
    BY <1>3, <2>1, <2>2, HearsInquiryWhole, HearsNameWhole, HearsDataWhole, HearsPacketWhole
<1>4. CASE ZTimesOut
  BY <1>4, TimesOutWhole
<1>5. CASE TermHears
  <2>1. CASE zAt \in {"off", "file", "name"}
    BY <1>5, <2>1, OffersWhole
  <2>2. CASE zAt \in {"zdata", "data"}
    BY <1>5, <2>2, StartsWhole
  <2>3. CASE zAt \in {"last", "ok", "err", "cancel"}
    <3>1. UNCHANGED <<zAt, disk, fileLen>>
      BY <1>5 DEF TermHears, Board, zBoard
    <3> QED  BY <3>1, <2>3, OverIsKept
  <2> QED  BY <2>1, <2>2, <2>3 DEF ReceivesWhole
<1>6. CASE TermStreams
  BY <1>6, TermStreamsWhole
<1>7. CASE TermActs
  BY <1>7, TermActsWhole
<1>8. CASE ZFinished \/ UNCHANGED zVars
  <2>1. UNCHANGED <<zAt, disk, tAt, fpos, tPos, fileLen, toTerm, toBoard>>
    BY <1>8 DEF ZFinished, zVars, zBoard, zLine, terminal
  <2>2. Inquiry' = Inquiry /\ Coming(0)' = Coming(0) /\ Coming(1)' = Coming(1)
    BY <2>1 DEF Inquiry, Coming, DataPacket
  <2> QED
    BY <2>1, <2>2 DEF ReceivesWhole, Offering, Granted, Storing, Whole, InOrder
<1> QED
  BY <1>1, <1>2, <1>3, <1>4, <1>5, <1>6, <1>7, <1>8 DEF ZNext

(* At the start nothing is under way.                                         *)
LEMMA CleanInit ==
  ASSUME ZInit
  PROVE  CleanInv
<1>1. /\ fileLen \in Nat /\ zLuck = ZLuck /\ ZLuck \in Nat /\ role \in {"send", "recv"}
      /\ zAt = "off" /\ fpos = 0 /\ tPos = 0 /\ disk = << >>
      /\ toTerm = << >> /\ toBoard = << >> /\ tAt = "on"
  BY ZmodemAssumption DEF ZInit
<1>2. Len(toTerm) = 0 /\ Len(toBoard) = 0
  BY <1>1
<1>3. SendsWhole
  <2>1. OneRun
    BY <1>1, <1>2 DEF OneRun, Consecutive, Rising, UpToSent, LeaveComesLast
  <2> QED  BY <1>1, <2>1 DEF SendsWhole
<1>4. ReceivesWhole
  <2>1. Inquiry
    BY <1>1, <1>2 DEF Inquiry
  <2>2. Offering
    BY <1>1, <1>2, <2>1 DEF Offering
  <2> QED  BY <1>1, <2>2 DEF ReceivesWhole, Granted, Storing
<1> QED
  BY <1>1, <1>3, <1>4 DEF CleanInv

LEMMA CleanStep ==
  ASSUME ZTyped, EndInv, CleanInv, [ZNext]_zVars
  PROVE  CleanInv'
<1>1. zLuck \in Nat /\ zLuck <= ZLuck /\ ZLuck \in Nat
  BY ZmodemAssumption DEF CleanInv
<1>2. zLuck' \in Nat /\ zLuck' <= ZLuck
  BY <1>1, LuckStep
<1>3. ASSUME zLuck' = ZLuck
      PROVE  IF role' = "send" THEN SendsWhole' ELSE ReceivesWhole'
  <2>1. zLuck = ZLuck /\ (\A f : ~Misfortune(f)) /\ ~ZLineFault
    BY <1>3, NothingWrong
  <2>2. role' = role
    BY
      DEF ZNext, ZStart, Stream, ZHears, ZTimesOut, TermHears, TermStreams, TermActs, ZLineFault,
           ZFinished, Board, zVars
  <2>3. CASE role = "send"
    BY <2>1, <2>2, <2>3, SendStep DEF CleanInv
  <2>4. CASE role # "send"
    <3>1. role = "recv" /\ ReceivesWhole
      BY <2>1, <2>4 DEF CleanInv, ZTyped
    <3> QED  BY <2>1, <2>2, <3>1, ReceiveStep
  <2> QED  BY <2>3, <2>4
<1> QED
  BY <1>2, <1>3 DEF CleanInv

(* What the runs check follows.                                               *)
LEMMA CleanIsWhole ==
  ASSUME ZTyped, CleanInv
  PROVE  CleanTransferIsWhole
<1>1. ASSUME zLuck = ZLuck, zAt = "ok", disk # << >>
      PROVE  disk = IF fileLen = 0 THEN <<0>> ELSE [k \in 1..fileLen |-> k]
  <2>1. role = "recv" /\ ReceivesWhole
    BY <1>1 DEF CleanInv, SendsWhole, ZTyped
  <2>2. Whole
    BY <1>1, <2>1 DEF ReceivesWhole
  <2>3. disk \in Seq(Nat) /\ fileLen \in Nat /\ disk = [k \in 1..Len(disk) |-> disk[k]]
    BY DEF ZTyped
  <2>4. CASE fileLen = 0
    <3>1. Len(disk) = 1 /\ disk[1] = 0
      BY <2>2, <2>4 DEF Whole
    <3> QED  BY <2>3, <2>4, <3>1
  <2>5. CASE fileLen # 0
    <3>1. Len(disk) = fileLen /\ \A k \in 1..fileLen : disk[k] = k
      BY <2>2, <2>5 DEF Whole, InOrder
    <3> QED  BY <2>3, <2>5, <3>1
  <2> QED  BY <2>4, <2>5
<1>2. ASSUME zLuck = ZLuck, role = "send", tAt = "done"
      PROVE  tPos = fileLen
  BY <1>2 DEF CleanInv, SendsWhole
<1> QED
  BY <1>1, <1>2 DEF CleanTransferIsWhole

LEMMA CleanInvAlways == ZSpec => []CleanInv
<1>1. ZInit => CleanInv
  BY CleanInit
<1>2. ZTyped /\ EndInv /\ CleanInv /\ [ZNext]_zVars => CleanInv'
  BY CleanStep
<1> QED
  BY <1>1, <1>2, EndInvAlways, PTL DEF ZSpec

(* When nothing goes wrong on the line, a file that the board has received is *)
(* the terminal's, and a terminal that it takes leave of has the whole of     *)
(* its own, for files of every length.                                        *)
THEOREM CleanTransfersAreWhole == TransfersSpec => []CleanTransferIsWhole
<1>1. ZTyped /\ CleanInv => CleanTransferIsWhole
  BY CleanIsWhole
<1> QED
  BY <1>1, EndInvAlways, CleanInvAlways, TransfersAreZmodem, PTL

-----------------------------------------------------------------------------
(* Punter: the line.                                                          *)

(* What is under way, and what is before what.  Junk counts for nothing.      *)
IsSeq(s) == \E S : s \in Seq(S)
Items(s) == {s[i] : i \in 1..Len(s)}
Pairs(s) == {<<s[q[1]], s[q[2]]>> : q \in {z \in (1..Len(s)) \X (1..Len(s)) : z[1] < z[2]}}
Real(x) == x.what # "junk"

(* A line t is a line s from which some items are gone or are junk now, and   *)
(* to whose end the one item of X, if any, was added.                         *)
Grows(t, s, X) ==
  /\ IsSeq(t)
  /\ \A x \in Items(t) : Real(x) => x \in Items(s) \cup X
  /\ \A p \in Pairs(t) : Real(p[1]) /\ Real(p[2]) =>
       p \in Pairs(s) \/ (p[1] \in Items(s) /\ p[2] \in X)

(* All that is under way on t was behind h on s.                              *)
Follows(t, s, h) == \A x \in Items(t) : Real(x) => <<h, x>> \in Pairs(s)

(* What is known of a line.                                                   *)
LEMMA SeqIs ==
  ASSUME NEW s, IsSeq(s)
  PROVE  /\ Len(s) \in Nat /\ s \in Seq(Items(s)) /\ DOMAIN s = 1..Len(s)
         /\ \A i \in 1..Len(s) : s[i] \in Items(s)
         /\ \A i, j \in 1..Len(s) : i < j => <<s[i], s[j]>> \in Pairs(s)
<1>1. PICK S : s \in Seq(S)
  BY DEF IsSeq
<1>2. /\ Len(s) \in Nat /\ s \in [1..Len(s) -> S] /\ DOMAIN s = 1..Len(s)
  BY <1>1, LenProperties
<1>3. \A i \in 1..Len(s) : s[i] \in Items(s)
  BY DEF Items
<1>4. s \in [1..Len(s) -> Items(s)]
  BY <1>2, <1>3
<1>5. s \in Seq(Items(s))
  BY <1>2, <1>4
<1>6. ASSUME NEW i \in 1..Len(s), NEW j \in 1..Len(s), i < j
      PROVE  <<s[i], s[j]>> \in Pairs(s)
  <2> DEFINE q == <<i, j>>
  <2>1. q \in {z \in (1..Len(s)) \X (1..Len(s)) : z[1] < z[2]}
    BY <1>6
  <2> QED
    BY <2>1 DEF Pairs
<1> QED
  BY <1>2, <1>3, <1>5, <1>6

(* A line t of which each real item can be found on s or is the one in X, and *)
(* in the order of s.                                                         *)
LEMMA GrowsIf ==
  ASSUME NEW t, NEW s, NEW X, IsSeq(t), IsSeq(s), NEW f,
         \A i \in 1..Len(t) : Real(t[i]) =>
           \/ f[i] \in 1..Len(s) /\ t[i] = s[f[i]]
           \/ i = Len(t) /\ t[i] \in X /\ f[i] = Len(s) + 1,
         \A i, j \in 1..Len(t) : i < j /\ Real(t[i]) /\ Real(t[j]) => f[i] < f[j]
  PROVE  Grows(t, s, X)
<1>1. ASSUME NEW x \in Items(t), Real(x)
      PROVE  x \in Items(s) \cup X
  <2>1. PICK i \in 1..Len(t) : x = t[i]
    BY <1>1 DEF Items
  <2> QED
    BY <2>1, <1>1, SeqIs
<1>2. ASSUME NEW p \in Pairs(t), Real(p[1]), Real(p[2])
      PROVE  p \in Pairs(s) \/ (p[1] \in Items(s) /\ p[2] \in X)
  <2>1. PICK i \in 1..Len(t), j \in 1..Len(t) : i < j /\ p = <<t[i], t[j]>>
    BY <1>2 DEF Pairs
  <2>2. p[1] = t[i] /\ p[2] = t[j] /\ Real(t[i]) /\ Real(t[j])
    BY <2>1, <1>2
  <2>3. Len(t) \in Nat /\ i # Len(t)
    BY <2>1, SeqIs
  <2>4. f[i] \in 1..Len(s) /\ t[i] = s[f[i]]
    BY <2>2, <2>3
  <2>5. CASE f[j] \in 1..Len(s) /\ t[j] = s[f[j]]
    <3>1. f[i] < f[j]
      BY <2>1, <2>2
    <3> QED
      BY <2>1, <2>4, <2>5, <3>1, SeqIs
  <2>6. CASE t[j] \in X
    BY <2>2, <2>4, <2>6, SeqIs
  <2> QED
    BY <2>2, <2>5, <2>6
<1> QED
  BY <1>1, <1>2 DEF Grows

(* Lines that nothing happens to, or that lose everything.                    *)
LEMMA GrowsNone ==
  ASSUME NEW s, IsSeq(s)
  PROVE  Grows(s, s, {}) /\ Grows(<< >>, s, {}) /\ IsSeq(<< >>)
<1>1. IsSeq(<< >>) /\ Items(<< >>) = {} /\ Pairs(<< >>) = {}
  <2>1. << >> \in Seq({}) /\ Len(<< >>) = 0
    BY EmptySeq
  <2>2. 1..0 = {}
    OBVIOUS
  <2> QED
    BY <2>1, <2>2 DEF IsSeq, Items, Pairs
<1> QED
  BY <1>1 DEF Grows

(* Something is sent.                                                         *)
LEMMA GrowsByOne ==
  ASSUME NEW s, IsSeq(s), NEW x
  PROVE  Grows(Append(s, x), s, {x}) /\ s \o <<x>> = Append(s, x)
<1>1. PICK S : s \in Seq(S)
  BY DEF IsSeq
<1> DEFINE T == S \cup {x}  t == Append(s, x)  f == [i \in 1..Len(t) |-> i]
<1>2. s \in Seq(T) /\ x \in T
  BY <1>1, SeqMonotonic
<1>3. t \in Seq(T) /\ Len(t) = Len(s) + 1 /\ Len(s) \in Nat
  BY <1>2
<1>4. \A i \in 1..Len(t) : t[i] = IF i <= Len(s) THEN s[i] ELSE x
  BY <1>2, <1>3
<1>5. IsSeq(t)
  BY <1>3 DEF IsSeq
<1>6. \A i \in 1..Len(t) : f[i] = i
  OBVIOUS
<1> HIDE DEF t, f
<1>7. \A i \in 1..Len(t) : \/ f[i] \in 1..Len(s) /\ t[i] = s[f[i]]
                           \/ i = Len(t) /\ t[i] \in {x} /\ f[i] = Len(s) + 1
  BY <1>3, <1>4, <1>6
<1>8. \A i, j \in 1..Len(t) : i < j => f[i] < f[j]
  BY <1>6
<1>9. Grows(t, s, {x})
  BY <1>5, <1>7, <1>8, GrowsIf
<1>10. s \o <<x>> = Append(s, x)
  BY <1>2
<1> QED
  BY <1>9, <1>10 DEF t

(* What is left after the first k items, behind junk or nothing.              *)
LEMMA GrowsBehind ==
  ASSUME NEW s, IsSeq(s), NEW k \in 1..Len(s),
         NEW g, g = << >> \/ \E n : g = <<Junk(n)>>,
         NEW t, t = g \o SubSeq(s, k + 1, Len(s))
  PROVE  Grows(t, s, {}) /\ Follows(t, s, s[1])
<1>1. Len(s) \in Nat /\ s \in Seq(Items(s)) /\ k \in Nat /\ k >= 1
  BY SeqIs
<1>2. PICK S : s \in Seq(S) /\ (g # << >> => g[1] \in S) /\ \A i \in 1..Len(s) : s[i] \in S
  <2> DEFINE S == Items(s) \cup {g[1]}
  <2>1. s \in Seq(S) /\ \A i \in 1..Len(s) : s[i] \in S
    BY <1>1, SeqMonotonic, SeqIs
  <2> QED
    BY <2>1
<1> DEFINE u == SubSeq(s, k + 1, Len(s))
<1>3. /\ u \in Seq(S) /\ Len(u) = Len(s) - k
      /\ \A i \in 1..(Len(s) - k) : u[i] = s[k + i]
  <2>1. k + 1 \in Int /\ Len(s) \in Int /\ \A i \in (k + 1)..Len(s) : s[i] \in S
    BY <1>1, <1>2
  <2>2. /\ u \in Seq(S) /\ Len(u) = IF k + 1 <= Len(s) THEN Len(s) - (k + 1) + 1 ELSE 0
        /\ \A i \in 1..(Len(s) - (k + 1) + 1) : u[i] = s[k + 1 + i - 1]
    BY <2>1, SubSeqProperties
  <2> QED
    BY <2>2, <1>1
<1>4. g \in Seq(S) /\ Len(g) \in {0, 1} /\ \A i \in 1..Len(g) : ~Real(g[i])
  <2>1. CASE g = << >>
    BY <2>1, EmptySeq
  <2>2. CASE \E n : g = <<Junk(n)>>
    <3>1. PICK n : g = <<Junk(n)>>
      BY <2>2
    <3>2. Len(g) = 1 /\ g[1] = Junk(n) /\ g # << >>
      BY <3>1
    <3>3. g[1] \in S
      BY <3>2, <1>2
    <3>4. g \in Seq(S)
      BY <3>1, <3>2, <3>3
    <3>5. ~Real(g[1])
      BY <3>2 DEF Junk, Item, Real
    <3> QED
      BY <3>2, <3>4, <3>5
  <2> QED
    BY <2>1, <2>2
<1> HIDE DEF u
<1>5. /\ t \in Seq(S) /\ Len(t) = Len(g) + Len(u)
      /\ \A i \in 1..Len(t) : t[i] = IF i <= Len(g) THEN g[i] ELSE u[i - Len(g)]
  <2>1. t = g \o u
    BY DEF u
  <2>2. /\ g \o u \in Seq(S) /\ Len(g \o u) = Len(g) + Len(u)
        /\ \A i \in 1..(Len(g) + Len(u)) :
             (g \o u)[i] = IF i <= Len(g) THEN g[i] ELSE u[i - Len(g)]
    <3>1. g \in Seq(S) /\ u \in Seq(S)
      BY <1>3, <1>4
    <3> QED
      BY ONLY <3>1, ConcatProperties
  <2> QED
    BY ONLY <2>1, <2>2
<1> DEFINE f == [i \in 1..Len(t) |-> i - Len(g) + k]
<1>6. \A i \in 1..Len(t) : f[i] = i - Len(g) + k
  OBVIOUS
<1> HIDE DEF f
<1>7. ASSUME NEW i \in 1..Len(t), Real(t[i])
      PROVE  f[i] \in 1..Len(s) /\ f[i] > 1 /\ t[i] = s[f[i]]
  <2>1. i > Len(g) /\ i - Len(g) \in 1..(Len(s) - k)
    BY <1>7, <1>5, <1>4, <1>3, <1>1
  <2> DEFINE j == i - Len(g)
  <2>2. t[i] = u[j] /\ j \in 1..(Len(s) - k)
    <3>1. i \in 1..Len(t) /\ Len(g) \in Nat /\ i > Len(g)
      BY <2>1, <1>4
    <3>2. ~(i <= Len(g))
      BY ONLY <3>1
    <3> QED
      BY <3>1, <3>2, <2>1, <1>5
  <2>3. t[i] = s[k + j]
    BY <2>2, <1>3
  <2>4. j \in Int /\ f[i] = k + j /\ k + j \in 2..Len(s)
    <3>1. f[i] = i - Len(g) + k /\ Len(g) \in Int /\ i \in Int
      BY <1>6, <1>4
    <3>2. j \in 1..(Len(s) - k) /\ k \in Nat /\ k >= 1 /\ Len(s) \in Nat
      BY <2>2, <1>1
    <3> QED
      BY ONLY <3>1, <3>2
  <2> HIDE DEF j
  <2> QED
    BY <2>3, <2>4, <1>1
<1>8. Grows(t, s, {})
  <2>1. \A i, j \in 1..Len(t) : i < j => f[i] < f[j]
    BY <1>6, <1>4, <1>1
  <2>2. IsSeq(t)
    BY <1>5 DEF IsSeq
  <2> QED
    BY <2>1, <2>2, <1>7, GrowsIf
<1>9. Follows(t, s, s[1])
  <2> SUFFICES ASSUME NEW x \in Items(t), Real(x) PROVE <<s[1], x>> \in Pairs(s)
    BY DEF Follows
  <2>1. PICK i \in 1..Len(t) : x = t[i]
    BY DEF Items
  <2>2. f[i] \in 1..Len(s) /\ f[i] > 1 /\ x = s[f[i]]
    BY <2>1, <1>7
  <2>3. 1 \in 1..Len(s) /\ 1 < f[i] /\ f[i] \in 1..Len(s)
    BY <2>2, <1>1
  <2>4. \A a, b \in 1..Len(s) : a < b => <<s[a], s[b]>> \in Pairs(s)
    BY SeqIs
  <2> QED
    BY ONLY <2>2, <2>3, <2>4
<1> QED
  BY <1>8, <1>9

(* What a read of n bytes finds and leaves.                                   *)
LEMMA Reading ==
  ASSUME NEW s, IsSeq(s), NEW n, Ready(s, n)
  PROVE  /\ Grows(AfterRead(s, n), s, {})
         /\ Real(ReadItem(s, n)) =>
              /\ ReadItem(s, n) \in Items(s) /\ ReadItem(s, n).n = n
              /\ Follows(AfterRead(s, n), s, ReadItem(s, n))
<1>1. Len(s) \in Nat /\ s \in Seq(Items(s)) /\ s # << >> /\ Len(s) > 0
  BY SeqIs DEF Ready
<1> DEFINE Enough(i) == Ready(SubSeq(s, 1, i), n)  T == {i \in 0..Len(s) : Enough(i)}
<1>2. Enough(Len(s)) /\ ~Enough(0)
  <2>1. SubSeq(s, 1, Len(s)) = s
    BY <1>1, SubSeqFull
  <2>2. SubSeq(s, 1, 0) = << >>
    BY SubSeqEmpty
  <2> QED
    BY <2>1, <2>2 DEF Ready
<1>3. T \subseteq Nat /\ T # {}
  BY <1>1, <1>2
<1> HIDE DEF Enough
<1>4. PICK m \in T : \A i \in T : m <= i
  BY <1>3, LeastNumberExists
<1>5. m \in 1..Len(s) /\ Enough(m) /\ ~Enough(m - 1)
  BY <1>1, <1>2, <1>4
<1> DEFINE k == CHOOSE i \in 1..Len(s) :
                  Ready(SubSeq(s, 1, i), n) /\ ~Ready(SubSeq(s, 1, i - 1), n)
           over == BytesOf(SubSeq(s, 1, k)) - n
           g == IF over > 0 THEN <<Junk(over)>> ELSE << >>
<1>6. k \in 1..Len(s)
  BY <1>5 DEF Enough
<1>7. AfterRead(s, n) = g \o SubSeq(s, k + 1, Len(s))
  BY DEF AfterRead
<1>8. g = << >> \/ \E x : g = <<Junk(x)>>
  OBVIOUS
<1> HIDE DEF g, k
<1>9. Grows(AfterRead(s, n), s, {}) /\ Follows(AfterRead(s, n), s, s[1])
  BY <1>6, <1>7, <1>8, GrowsBehind
<1>10. Head(s) = s[1] /\ s[1] \in Items(s)
  BY <1>1, SeqIs
<1>11. ~Real(Junk(n))
  BY DEF Junk, Item, Real
<1> QED
  BY <1>9, <1>10, <1>11 DEF ReadItem

(* A fault on the line.                                                       *)
LEMMA MangledIsLess ==
  ASSUME NEW s, IsSeq(s), NEW i \in 1..Len(s), NEW t \in Mangled(s, i)
  PROVE  Grows(t, s, {})
<1>1. Len(s) \in Nat /\ s \in Seq(Items(s)) /\ \A j \in 1..Len(s) : s[j] \in Items(s)
  BY SeqIs
<1>2. CASE \E n : t = ReplaceAt(s, i, Junk(n))
  <2>1. PICK n : t = ReplaceAt(s, i, Junk(n))
    BY <1>2
  <2> DEFINE S == Items(s) \cup {Junk(n)}
  <2>2. s \in Seq(S) /\ Junk(n) \in S
    BY <1>1, SeqMonotonic
  <2>3. /\ t \in Seq(S) /\ Len(t) = Len(s)
        /\ \A j \in 1..Len(s) : t[j] = IF j = i THEN Junk(n) ELSE s[j]
    BY <2>1, <2>2, ExceptSeq DEF ReplaceAt
  <2>4. ~Real(Junk(n))
    BY DEF Junk, Item, Real
  <2> DEFINE f == [j \in 1..Len(t) |-> j]
  <2>5. \A j \in 1..Len(t) : f[j] = j
    OBVIOUS
  <2> HIDE DEF f
  <2>6. \A j \in 1..Len(t) : Real(t[j]) => f[j] \in 1..Len(s) /\ t[j] = s[f[j]]
    BY <2>3, <2>4, <2>5
  <2>7. \A j, h \in 1..Len(t) : j < h => f[j] < f[h]
    BY <2>5
  <2>8. IsSeq(t)
    BY <2>3 DEF IsSeq
  <2> QED
    BY <2>6, <2>7, <2>8, GrowsIf
<1>3. CASE t = RemoveAt(s, i)
  <2> DEFINE u == SubSeq(s, 1, i - 1)  v == SubSeq(s, i + 1, Len(s))
             f == [j \in 1..Len(t) |-> IF j < i THEN j ELSE j + 1]
  <2>1. /\ u \in Seq(Items(s)) /\ Len(u) = i - 1
        /\ \A j \in 1..(i - 1) : u[j] = s[j]
    <3>1. 1 \in Int /\ i - 1 \in Int /\ \A j \in 1..(i - 1) : s[j] \in Items(s)
      BY <1>1
    <3>2. /\ u \in Seq(Items(s)) /\ Len(u) = IF 1 <= i - 1 THEN i - 1 - 1 + 1 ELSE 0
          /\ \A j \in 1..(i - 1 - 1 + 1) : u[j] = s[1 + j - 1]
      BY <3>1, SubSeqProperties
    <3> QED
      BY <3>2
  <2>2. /\ v \in Seq(Items(s)) /\ Len(v) = Len(s) - i
        /\ \A j \in 1..(Len(s) - i) : v[j] = s[i + j]
    <3>1. i + 1 \in Int /\ Len(s) \in Int /\ \A j \in (i + 1)..Len(s) : s[j] \in Items(s)
      BY <1>1
    <3>2. /\ v \in Seq(Items(s)) /\ Len(v) = IF i + 1 <= Len(s) THEN Len(s) - (i + 1) + 1 ELSE 0
          /\ \A j \in 1..(Len(s) - (i + 1) + 1) : v[j] = s[i + 1 + j - 1]
      BY <3>1, SubSeqProperties
    <3> QED
      BY <3>2, <1>1
  <2> HIDE DEF u, v
  <2>3. /\ t \in Seq(Items(s)) /\ Len(t) = Len(s) - 1
        /\ \A j \in 1..Len(t) : t[j] = IF j <= Len(u) THEN u[j] ELSE v[j - Len(u)]
    <3>1. t = u \o v
      BY <1>3 DEF u, v, RemoveAt
    <3>2. /\ t \in Seq(Items(s)) /\ Len(t) = Len(u) + Len(v)
          /\ \A j \in 1..(Len(u) + Len(v)) : t[j] = IF j <= Len(u) THEN u[j] ELSE v[j - Len(u)]
      BY <3>1, <2>1, <2>2, ConcatProperties
    <3> QED
      BY <3>2, <2>1, <2>2, <1>1
  <2>4. \A j \in 1..Len(t) : f[j] = IF j < i THEN j ELSE j + 1
    OBVIOUS
  <2> HIDE DEF f
  <2>5. ASSUME NEW j \in 1..Len(t)
        PROVE  f[j] \in 1..Len(s) /\ t[j] = s[f[j]]
    <3>1. CASE j < i
      <4>1. j \in 1..(i - 1) /\ j <= Len(u) /\ j \in 1..Len(s)
        BY <3>1, <2>1, <2>3, <1>1
      <4>2. t[j] = u[j] /\ u[j] = s[j]
        BY <4>1, <2>1, <2>3
      <4> QED
        BY <4>1, <4>2, <3>1, <2>4
    <3>2. CASE ~(j < i)
      <4>1. j - Len(u) \in 1..(Len(s) - i)
        BY <3>2, <2>1, <2>3, <1>1
      <4> DEFINE h == j - Len(u)
      <4>2. t[j] = v[h] /\ h \in 1..(Len(s) - i)
        <5>1. ~(j <= Len(u)) /\ j \in 1..Len(t)
          BY <3>2, <2>1, <1>1
        <5>2. t[j] = v[j - Len(u)]
          BY ONLY <5>1, <2>3
        <5> QED
          BY <4>1, <5>2
      <4>3. t[j] = s[i + h]
        BY <4>2, <2>2
      <4>4. (i + h) = j + 1 /\ f[j] = j + 1 /\ j + 1 \in 1..Len(s)
        BY <3>2, <2>1, <2>3, <2>4, <1>1
      <4> HIDE DEF h
      <4> QED
        BY ONLY <4>3, <4>4
    <3> QED
      BY <3>1, <3>2
  <2>6. \A j, h \in 1..Len(t) : j < h => f[j] < f[h]
    BY <2>4
  <2>7. IsSeq(t)
    BY <2>3 DEF IsSeq
  <2> QED
    BY <2>5, <2>6, <2>7, GrowsIf
<1> QED
  <2>1. (\E n : t = ReplaceAt(s, i, Junk(n))) \/ t = RemoveAt(s, i)
    BY DEF Mangled
  <2> QED
    BY <2>1, <1>2, <1>3

-----------------------------------------------------------------------------
(* Punter: the two ends in step.                                              *)

(* The place of a block in the transfer: the type block, the one that says    *)
(* how long the first will be, chunk 1, chunk 2, ...  When the first chunk    *)
(* could not be read an empty block takes its place.                          *)
Place(b) == IF b.chunk # 0 THEN b.chunk + 1
            ELSE IF b.n # Header THEN 0 ELSE IF b.last THEN 2 ELSE 1

(* The place of the block punter_recv takes next and of the one punter_send   *)
(* has not yet been told of.                                                  *)
Awaited ==
  IF rAt \in {"off", "goo", "ackType", "type"} THEN 0
  ELSE IF rAt \in {"ackA", "syncA", "endA", "ackInfo", "info"} THEN 1
  ELSE IF rAt \in {"ackData", "data"} THEN Len(stored) + 2
  ELSE IF Len(stored) = 0 THEN 3 ELSE Len(stored) + 2
Offered ==
  IF sAt \in {"off", "goo", "ackType", "type"} THEN 0
  ELSE IF sAt \in {"ackA", "syncA", "ready", "ackInfo", "info"} THEN 1
  ELSE IF sAt \in {"ackData", "data"} THEN Place(sBlk) ELSE Place(sBlk) + 1

IsBlock(x) == x.what = "block"
Has(s, what) == \E x \in Items(s) : x.what = what
HasPair(s, first, second) == \E p \in Pairs(s) : p[1].what = first /\ p[2].what = second

SendEnds == Ended
RecvEnds == Ended \cup {"endB"}
SendPlaces == {"off", "goo", "ackType", "type", "ackA", "syncA", "ready", "ackInfo", "info",
               "ackData", "data", "ackB", "syncB"} \cup Ended
RecvPlaces == {"off", "goo", "ackType", "type", "ackA", "syncA", "endA", "ackInfo", "info",
               "ackData", "data", "ackB", "syncB", "endB"} \cup Ended

Shaped ==
  /\ IsSeq(toR) /\ IsSeq(toS)
  /\ \A x \in Items(toR) : IsBlock(x) => x.chunk \in Nat
  /\ sAt \in SendPlaces /\ rAt \in RecvPlaces
  /\ sBlk.chunk \in Nat /\ ahead \in Nat /\ isLast \in BOOLEAN
  /\ Len(stored) \in Nat /\ stored \in Seq(Nat)

(* punter_send: the block it sends and the chunk it has read ahead.           *)
Prepared ==
  /\ sAt = "type" => sBlk = TypeBlock
  /\ sAt = "info" => IsBlock(sBlk) /\ Place(sBlk) = 1
  /\ sAt \in {"ackData", "data"} =>
       /\ IsBlock(sBlk) /\ Place(sBlk) >= 2 /\ sBlk.last = isLast
       /\ ~isLast => ahead = sBlk.chunk + 1
  /\ sAt \in {"ackInfo", "info"} => ahead = 1 \/ (ahead = 0 /\ isLast)

(* What it has sent: no block beyond the one it is at, and that one as it is. *)
Outgoing ==
  sAt \notin SendEnds =>
    /\ \A x \in Items(toR) : IsBlock(x) =>
         /\ Place(x) <= Offered
         /\ sAt \notin {"type", "info", "data"} => Place(x) < Offered
    /\ sAt \in {"ackData", "data"} =>
         \A x \in Items(toR) : IsBlock(x) /\ Place(x) = Offered => x = sBlk

(* punter_recv: what a block is read as is the one awaited, since it is       *)
(* behind an ACK that only such a block is behind.                            *)
Incoming ==
  rAt \notin RecvEnds =>
    /\ rAt \in {"type", "info", "data"} =>
         \A x \in Items(toR) : IsBlock(x) => Place(x) = Awaited
    /\ \A p \in Pairs(toR) : p[1].what = "ACK" /\ IsBlock(p[2]) => Place(p[2]) = Awaited
    /\ \A p \in Pairs(toR) : IsBlock(p[1]) /\ p[2].what = "ACK" => Place(p[1]) # Awaited
    /\ \A x \in Items(toR) : IsBlock(x) => Place(x) <= Awaited

Received ==
  /\ StoredIsPrefix
  /\ rAt \in {"off", "goo", "ackType", "type", "ackA", "syncA", "endA", "ackInfo", "info"}
       => Len(stored) = 0

(* The ends in step: the receiver is where the sender is, or has answered     *)
(* the block that the sender is at.                                           *)
InStep == Offered = Awaited /\ ~Has(toS, "GOO")
Replied ==
  /\ Awaited = Offered + 1 /\ ~HasPair(toS, "GOO", "GOO") /\ ~Has(toR, "ACK")
  /\ sAt = "type" => rAt = "ackA"
  /\ sAt = "info" => rAt = "ackData"
  /\ sAt = "data" => /\ rAt \in {"ackData", "ackB"} /\ (rAt = "ackB" <=> isLast)
                     /\ Len(stored) = sBlk.chunk

Opening ==
  /\ sAt = "off" => /\ rAt \in {"off", "goo"} /\ ~Has(toS, "SB")
                    /\ ~Has(toR, "GOO") /\ ~Has(toR, "ACK") /\ ~Has(toR, "SB")
                    /\ ~Has(toR, "SYN") /\ ~Has(toR, "block")
  /\ sAt = "goo" => /\ rAt \in {"off", "goo", "ackType"} /\ ~Has(toS, "SB")
                    /\ ~Has(toR, "ACK") /\ ~Has(toR, "SB") /\ ~Has(toR, "SYN")
                    /\ ~Has(toR, "block")
  /\ sAt = "ackType" => /\ rAt \in {"off", "goo", "ackType", "type"}
                        /\ ~HasPair(toS, "SB", "GOO") /\ (Has(toS, "SB") => rAt = "type")
                        /\ ~Has(toR, "SYN") /\ ~Has(toR, "SB")
  /\ sAt = "type" => rAt \in {"type", "ackA"} /\ ~Has(toR, "SYN") /\ ~Has(toR, "SB")
  /\ sAt = "ackA" => rAt \in {"ackA", "syncA"} /\ ~Has(toR, "SYN") /\ ~Has(toR, "SB")
  /\ sAt = "syncA" => /\ rAt \in {"ackA", "syncA", "endA"} /\ ~Has(toR, "SB")
                      /\ ~HasPair(toR, "SYN", "ACK") /\ (Has(toS, "SYN") => rAt = "endA")
                      /\ (rAt = "endA" => ~Has(toR, "ACK"))
  /\ sAt = "ready" => /\ rAt \in {"endA", "ackInfo"} /\ ~Has(toR, "ACK")
                      /\ (rAt = "endA" => ~Has(toS, "GOO"))
                      /\ (rAt = "ackInfo" => ~HasPair(toS, "GOO", "GOO"))

Lockstep ==
  sAt \notin SendEnds /\ rAt \notin RecvEnds =>
    /\ Opening
    /\ sAt \in {"ackA", "syncA", "ackInfo", "ackData", "ackB", "syncB"} => InStep
    /\ sAt \in {"type", "info", "data"} => InStep \/ Replied
    /\ sAt \in {"ackInfo", "info"} => rAt \in {"ackInfo", "info", "ackData"}
    /\ sAt \in {"ackData", "data"} =>
         rAt \in {"ackData", "data"} \/ (rAt = "ackB" /\ Awaited = Offered + 1)
    /\ sAt \in {"ackB", "syncB"} =>
         rAt \in {"ackB", "syncB"} /\ isLast /\ Len(stored) = sBlk.chunk

(* The words that end a transfer.  SYN is said twice, and each end takes the  *)
(* other's of the same time.                                                  *)
Parting ==
  /\ Has(toS, "SYN") => /\ sAt \in {"syncA", "syncB", "err", "ok"}
                        /\ sAt = "syncB" => rAt \in {"endB", "ok"}
  /\ sAt = "syncA" => ~HasPair(toS, "SYN", "SYN")
  /\ rAt \in {"endB", "ok"} => /\ isLast /\ Len(stored) = sBlk.chunk
                               /\ sAt \in {"syncB", "ok", "err"}
  /\ sAt = "ok" => rAt \in {"endB", "ok"}
  /\ rAt \in {"ackInfo", "info"} => ~Has(toR, "SYN")
  /\ rAt \in {"ackData", "data", "ackB", "syncB"} /\ Has(toR, "SYN") =>
       /\ isLast /\ Len(stored) = sBlk.chunk /\ sAt \in {"syncB", "err"}
       /\ \A x \in Items(toR) : IsBlock(x) => Place(x) < Awaited
  /\ rAt \in {"off", "goo", "ackType", "type", "ackA", "syncA"} => ~Has(toR, "SB")
  /\ rAt = "endA" => ~HasPair(toR, "SB", "SYN")

PunterInv ==
  Shaped /\ Prepared /\ Outgoing /\ Incoming /\ Received /\ Lockstep /\ Parting

(* What is on a line that loses or is sent something.                         *)
LEMMA PairsAreItems ==
  ASSUME NEW s, NEW p \in Pairs(s)
  PROVE  p[1] \in Items(s) /\ p[2] \in Items(s)
<1>1. PICK i \in 1..Len(s), j \in 1..Len(s) : p = <<s[i], s[j]>>
  BY DEF Pairs
<1> QED
  BY <1>1 DEF Items

Words == {"GOO", "ACK", "SB", "SYN", "block"}

(* Words on a line that loses and to which the items of X are added.          *)
LEMMA HasGrown ==
  ASSUME NEW t, NEW s, NEW X, Grows(t, s, X)
  PROVE  /\ \A w \in Words : Has(t, w) => Has(s, w) \/ \E x \in X : x.what = w
         /\ \A u, w \in Words : HasPair(t, u, w) =>
              HasPair(s, u, w) \/ (Has(s, u) /\ \E x \in X : x.what = w)
         /\ \A u, w : HasPair(s, u, w) => Has(s, u) /\ Has(s, w)
<1>1. "junk" \notin Words
  BY DEF Words
<1>2. ASSUME NEW w \in Words, Has(t, w)
      PROVE  Has(s, w) \/ \E x \in X : x.what = w
  BY <1>1, <1>2 DEF Has, Grows, Real
<1>3. ASSUME NEW u \in Words, NEW w \in Words, HasPair(t, u, w)
      PROVE  HasPair(s, u, w) \/ (Has(s, u) /\ \E x \in X : x.what = w)
  <2>1. PICK p \in Pairs(t) : p[1].what = u /\ p[2].what = w
    BY <1>3 DEF HasPair
  <2> QED
    BY <1>1, <2>1 DEF Has, HasPair, Grows, Real
<1>4. \A u, w : HasPair(s, u, w) => Has(s, u) /\ Has(s, w)
  BY PairsAreItems DEF HasPair, Has
<1> QED
  BY <1>2, <1>3, <1>4

(* A line to which nothing is added, and one to which a token is.             *)
LEMMA HasLess ==
  ASSUME NEW t, NEW s, Grows(t, s, {})
  PROVE  /\ \A w \in Words : Has(t, w) => Has(s, w)
         /\ \A u, w \in Words : HasPair(t, u, w) => HasPair(s, u, w)
         /\ \A u, w : HasPair(s, u, w) => Has(s, u) /\ Has(s, w)
         /\ \A x \in Items(t) : IsBlock(x) => x \in Items(s)
         /\ \A p \in Pairs(t) : p[1].what = "ACK" /\ IsBlock(p[2]) => p \in Pairs(s)
         /\ \A p \in Pairs(t) : IsBlock(p[1]) /\ p[2].what = "ACK" => p \in Pairs(s)
<1>1. \A w \in Words : Has(t, w) => Has(s, w)
  BY HasGrown
<1>2. \A u, w \in Words : HasPair(t, u, w) => HasPair(s, u, w)
  BY HasGrown
<1> QED
  BY <1>1, <1>2, HasGrown DEF Grows, IsBlock, Real

(* One to which a token is added.                                             *)
LEMMA HasToken ==
  ASSUME NEW t, NEW s, NEW v, Grows(t, s, {Token(v)}), v # "block"
  PROVE  /\ \A w \in Words : Has(t, w) => Has(s, w) \/ w = v
         /\ \A u, w \in Words : HasPair(t, u, w) => HasPair(s, u, w) \/ (Has(s, u) /\ w = v)
         /\ \A u, w : HasPair(s, u, w) => Has(s, u) /\ Has(s, w)
         /\ \A x \in Items(t) : IsBlock(x) => x \in Items(s)
         /\ \A p \in Pairs(t) : p[1].what = "ACK" /\ IsBlock(p[2]) => p \in Pairs(s)
         /\ \A p \in Pairs(t) : IsBlock(p[1]) /\ p[2].what = "ACK" =>
              p \in Pairs(s) \/ (v = "ACK" /\ p[1] \in Items(s))
<1>0. Token(v).what = v
  BY DEF Token, Item
<1>1. \A w \in Words : Has(t, w) => Has(s, w) \/ w = v
  BY <1>0, HasGrown
<1>2. \A u, w \in Words : HasPair(t, u, w) => HasPair(s, u, w) \/ (Has(s, u) /\ w = v)
  BY <1>0, HasGrown
<1>3. /\ \A x \in Items(t) : IsBlock(x) => x \in Items(s)
      /\ \A p \in Pairs(t) : p[1].what = "ACK" /\ IsBlock(p[2]) => p \in Pairs(s)
      /\ \A p \in Pairs(t) : IsBlock(p[1]) /\ p[2].what = "ACK" =>
           p \in Pairs(s) \/ (v = "ACK" /\ p[1] \in Items(s))
  BY <1>0 DEF Grows, IsBlock, Real
<1> QED
  BY <1>1, <1>2, <1>3, HasGrown

(* One to which a block is added.                                             *)
LEMMA HasBlock ==
  ASSUME NEW t, NEW s, NEW b, Grows(t, s, {b}), IsBlock(b)
  PROVE  /\ \A w \in Words : Has(t, w) => Has(s, w) \/ w = "block"
         /\ \A u, w \in Words : HasPair(t, u, w) => HasPair(s, u, w) \/ (Has(s, u) /\ w = "block")
         /\ \A u, w : HasPair(s, u, w) => Has(s, u) /\ Has(s, w)
         /\ \A x \in Items(t) : IsBlock(x) => x \in Items(s) \/ x = b
         /\ \A p \in Pairs(t) : p[1].what = "ACK" /\ IsBlock(p[2]) =>
              p \in Pairs(s) \/ (Has(s, "ACK") /\ p[2] = b)
         /\ \A p \in Pairs(t) : IsBlock(p[1]) /\ p[2].what = "ACK" => p \in Pairs(s)
<1>1. \A w \in Words : Has(t, w) => Has(s, w) \/ w = "block"
  BY HasGrown DEF IsBlock
<1>2. \A u, w \in Words : HasPair(t, u, w) => HasPair(s, u, w) \/ (Has(s, u) /\ w = "block")
  BY HasGrown DEF IsBlock
<1>3. /\ \A x \in Items(t) : IsBlock(x) => x \in Items(s) \/ x = b
      /\ \A p \in Pairs(t) : p[1].what = "ACK" /\ IsBlock(p[2]) =>
           p \in Pairs(s) \/ (Has(s, "ACK") /\ p[2] = b)
      /\ \A p \in Pairs(t) : IsBlock(p[1]) /\ p[2].what = "ACK" => p \in Pairs(s)
  BY DEF Grows, IsBlock, Real, Has
<1> QED
  BY <1>1, <1>2, <1>3, HasGrown

(* What is left is behind what was read.                                      *)
LEMMA HasBehind ==
  ASSUME NEW t, NEW s, NEW h, Follows(t, s, h)
  PROVE  /\ \A w \in Words : Has(t, w) => HasPair(s, h.what, w)
         /\ \A x \in Items(t) : IsBlock(x) => <<h, x>> \in Pairs(s)
<1>1. \A w \in Words : w # "junk"
  BY DEF Words
<1>2. ASSUME NEW w \in Words, Has(t, w)
      PROVE  HasPair(s, h.what, w)
  <2>1. PICK x \in Items(t) : x.what = w
    BY <1>2 DEF Has
  <2>2. <<h, x>> \in Pairs(s)
    BY <1>1, <2>1 DEF Follows, Real
  <2> DEFINE p == <<h, x>>
  <2>3. p \in Pairs(s) /\ p[1].what = h.what /\ p[2].what = w
    BY <2>1, <2>2
  <2> QED
    BY <2>3 DEF HasPair
<1> QED
  BY <1>2 DEF Follows, IsBlock, Real

(* Places are numbers.                                                        *)
LEMMA NumbersAre ==
  ASSUME Shaped
  PROVE  /\ Awaited \in Nat /\ Offered \in Nat /\ Place(sBlk) \in Nat
         /\ \A x \in Items(toR) : IsBlock(x) => Place(x) \in Nat
<1>1. \A b : b.chunk \in Nat => Place(b) \in Nat
  BY DEF Place
<1>2. Place(sBlk) \in Nat
  BY <1>1 DEF Shaped
<1>3. Awaited \in Nat /\ Offered \in Nat
  BY <1>2 DEF Awaited, Offered, Shaped
<1> QED
  BY <1>1, <1>2, <1>3 DEF Shaped

(* Nothing but the line changes, and it loses.                                *)
LEMMA LineLoses ==
  ASSUME PunterInv,
         Shaped',
         UNCHANGED <<sAt, sBlk, ahead, isLast, rAt, stored>>,
         Grows(toR', toR, {}),
         Grows(toS', toS, {})
  PROVE  PunterInv'
<1> USE DEF PunterInv
<1>1. Awaited' = Awaited /\ Offered' = Offered
  BY DEF Awaited, Offered
<1>2. /\ \A w \in Words : Has(toR', w) => Has(toR, w)
      /\ \A u, w \in Words : HasPair(toR', u, w) => HasPair(toR, u, w)
      /\ \A u, w : HasPair(toR, u, w) => Has(toR, u) /\ Has(toR, w)
  BY HasLess
<1>3. /\ \A w \in Words : Has(toS', w) => Has(toS, w)
      /\ \A u, w \in Words : HasPair(toS', u, w) => HasPair(toS, u, w)
      /\ \A u, w : HasPair(toS, u, w) => Has(toS, u) /\ Has(toS, w)
  BY HasLess
<1>4. /\ \A x \in Items(toR') : IsBlock(x) => x \in Items(toR)
      /\ \A p \in Pairs(toR') : p[1].what = "ACK" /\ IsBlock(p[2]) => p \in Pairs(toR)
      /\ \A p \in Pairs(toR') : IsBlock(p[1]) /\ p[2].what = "ACK" => p \in Pairs(toR)
  BY HasLess
<1>5. "GOO" \in Words /\ "ACK" \in Words /\ "SB" \in Words /\ "SYN" \in Words /\ "block" \in Words
  BY DEF Words
<1>6. /\ Awaited \in Nat /\ Offered \in Nat
      /\ \A x \in Items(toR) : IsBlock(x) => Place(x) \in Nat
  BY NumbersAre
<1>7. Prepared'
  BY DEF Prepared
<1>8. Outgoing'
  BY <1>1, <1>4, <1>6 DEF Outgoing, SendEnds, Ended
<1>9. Incoming'
  BY <1>1, <1>4, <1>5, <1>6 DEF Incoming, RecvEnds, Ended
<1>10. Received'
  BY DEF Received, StoredIsPrefix
<1>11. Lockstep'
  BY <1>1, <1>2, <1>3, <1>5
    DEF Lockstep, Opening, InStep, Replied, SendEnds, RecvEnds, Ended
<1>12. Parting'
  BY <1>1, <1>2, <1>3, <1>4, <1>5, <1>6 DEF Parting, RecvEnds, Ended
<1> QED
  BY <1>7, <1>8, <1>9, <1>10, <1>11, <1>12

(* punter_send gives up.                                                      *)
LEMMA SendGivesUp ==
  ASSUME PunterInv,
         Shaped',
         sAt' = "err",
         sAt \notin SendEnds,
         UNCHANGED <<sBlk, ahead, isLast, rAt, stored>>,
         Grows(toR', toR, {}),
         Grows(toS', toS, {})
  PROVE  PunterInv'
<1> USE DEF PunterInv
<1>1. Awaited' = Awaited
  BY DEF Awaited
<1>2. /\ \A w \in Words : Has(toR', w) => Has(toR, w)
      /\ \A u, w \in Words : HasPair(toR', u, w) => HasPair(toR, u, w)
      /\ \A u, w : HasPair(toR, u, w) => Has(toR, u) /\ Has(toR, w)
  BY HasLess
<1>3. /\ \A w \in Words : Has(toS', w) => Has(toS, w)
      /\ \A u, w \in Words : HasPair(toS', u, w) => HasPair(toS, u, w)
      /\ \A u, w : HasPair(toS, u, w) => Has(toS, u) /\ Has(toS, w)
  BY HasLess
<1>4. /\ \A x \in Items(toR') : IsBlock(x) => x \in Items(toR)
      /\ \A p \in Pairs(toR') : p[1].what = "ACK" /\ IsBlock(p[2]) => p \in Pairs(toR)
      /\ \A p \in Pairs(toR') : IsBlock(p[1]) /\ p[2].what = "ACK" => p \in Pairs(toR)
  BY HasLess
<1>5. "GOO" \in Words /\ "ACK" \in Words /\ "SB" \in Words /\ "SYN" \in Words /\ "block" \in Words
  BY DEF Words
<1>6. /\ Awaited \in Nat /\ Offered \in Nat
      /\ \A x \in Items(toR) : IsBlock(x) => Place(x) \in Nat
  BY NumbersAre
<1>7. Prepared'
  BY DEF Prepared
<1>8. Outgoing'
  BY <1>1, <1>4, <1>6 DEF Outgoing, SendEnds, Ended
<1>9. Incoming'
  BY <1>1, <1>4, <1>5, <1>6 DEF Incoming, RecvEnds, Ended
<1>10. Received'
  BY DEF Received, StoredIsPrefix
<1>11. Lockstep'
  BY <1>1, <1>2, <1>3, <1>5
    DEF Lockstep, Opening, InStep, Replied, SendEnds, RecvEnds, Ended
<1>12. Parting'
  BY <1>1, <1>2, <1>3, <1>4, <1>5, <1>6 DEF Parting, RecvEnds, Ended
<1> QED
  BY <1>7, <1>8, <1>9, <1>10, <1>11, <1>12

(* The steps of punter_send.  The first GOO.                                  *)
LEMMA SendOpens ==
  ASSUME PunterInv,
         Shaped',
         sAt = "off",
         sAt' = "goo",
         UNCHANGED <<sBlk, ahead, isLast, rAt, stored>>,
         Grows(toR', toR, {Token("GOO")}),
         Grows(toS', toS, {})
  PROVE  PunterInv'
<1> USE DEF PunterInv
<1>1. Awaited' = Awaited /\ Offered = 0 /\ Offered' = 0
  BY DEF Awaited, Offered
<1>2. /\ \A w \in Words : Has(toR', w) => Has(toR, w) \/ w = "GOO"
      /\ \A u, w \in Words : HasPair(toR', u, w) => HasPair(toR, u, w) \/ (Has(toR, u) /\ w = "GOO")
      /\ \A u, w : HasPair(toR, u, w) => Has(toR, u) /\ Has(toR, w)
  BY HasToken
<1>3. /\ \A w \in Words : Has(toS', w) => Has(toS, w)
      /\ \A u, w \in Words : HasPair(toS', u, w) => HasPair(toS, u, w)
      /\ \A u, w : HasPair(toS, u, w) => Has(toS, u) /\ Has(toS, w)
  BY HasLess
<1>4. /\ \A x \in Items(toR') : IsBlock(x) => x \in Items(toR)
      /\ \A p \in Pairs(toR') : p[1].what = "ACK" /\ IsBlock(p[2]) => p \in Pairs(toR)
      /\ \A p \in Pairs(toR') : IsBlock(p[1]) /\ p[2].what = "ACK" => p \in Pairs(toR)
  BY HasToken
<1>5. "GOO" \in Words /\ "ACK" \in Words /\ "SB" \in Words /\ "SYN" \in Words /\ "block" \in Words
  BY DEF Words
<1>6. /\ Awaited \in Nat /\ Offered \in Nat
      /\ \A x \in Items(toR) : IsBlock(x) => Place(x) \in Nat
  BY NumbersAre
<1>7. Prepared'
  BY DEF Prepared
<1>8. Outgoing'
  BY <1>1, <1>4, <1>6 DEF Outgoing, SendEnds, Ended
<1>9. Incoming'
  BY <1>1, <1>4, <1>5, <1>6 DEF Incoming, RecvEnds, Ended
<1>10. Received'
  BY DEF Received, StoredIsPrefix
<1>11. Lockstep'
  BY <1>1, <1>2, <1>3, <1>5
    DEF Lockstep, Opening, InStep, Replied, SendEnds, RecvEnds, Ended
<1>12. Parting'
  BY <1>1, <1>2, <1>3, <1>4, <1>5, <1>6 DEF Parting, RecvEnds, Ended
<1> QED
  BY <1>7, <1>8, <1>9, <1>10, <1>11, <1>12

(* It hears GOO and offers the type block.                                    *)
LEMMA SendGoo ==
  ASSUME PunterInv,
         Shaped',
         sAt = "goo",
         sAt' = "ackType",
         UNCHANGED <<sBlk, ahead, isLast, rAt, stored>>,
         NEW h \in Items(toS),
         h.what = "GOO",
         Follows(toS', toS, h),
         Grows(toR', toR, {Token("ACK")}),
         Grows(toS', toS, {})
  PROVE  PunterInv'
<1> USE DEF PunterInv
<1>1. Awaited' = Awaited /\ Offered = 0 /\ Offered' = 0
  BY DEF Awaited, Offered
<1>2. /\ \A w \in Words : Has(toR', w) => Has(toR, w) \/ w = "ACK"
      /\ \A u, w \in Words : HasPair(toR', u, w) => HasPair(toR, u, w) \/ (Has(toR, u) /\ w = "ACK")
      /\ \A u, w : HasPair(toR, u, w) => Has(toR, u) /\ Has(toR, w)
  BY HasToken
<1>3. /\ \A w \in Words : Has(toS', w) => Has(toS, w)
      /\ \A u, w \in Words : HasPair(toS', u, w) => HasPair(toS, u, w)
      /\ \A u, w : HasPair(toS, u, w) => Has(toS, u) /\ Has(toS, w)
  BY HasLess
<1>4. /\ \A x \in Items(toR') : IsBlock(x) => x \in Items(toR)
      /\ \A p \in Pairs(toR') : p[1].what = "ACK" /\ IsBlock(p[2]) => p \in Pairs(toR)
      /\ \A p \in Pairs(toR') : IsBlock(p[1]) /\ p[2].what = "ACK" => p \in Pairs(toR) \/ p[1] \in Items(toR)
  BY HasToken
<1>5. "GOO" \in Words /\ "ACK" \in Words /\ "SB" \in Words /\ "SYN" \in Words /\ "block" \in Words
  BY DEF Words
<1>6. /\ Awaited \in Nat /\ Offered \in Nat
      /\ \A x \in Items(toR) : IsBlock(x) => Place(x) \in Nat
  BY NumbersAre
<1>7. /\ Has(toS, "GOO")
      /\ \A w \in Words : Has(toS', w) => HasPair(toS, "GOO", w)
  BY HasBehind DEF Has
<1>8. rAt \notin RecvEnds => \A x \in Items(toR) : ~IsBlock(x)
  BY DEF Has, IsBlock, Lockstep, Opening, InStep, Replied, SendEnds, RecvEnds, Ended
<1>9. Prepared'
  BY <1>8 DEF Prepared
<1>10. Outgoing'
  BY <1>1, <1>4, <1>6, <1>8 DEF Outgoing, SendEnds, Ended
<1>11. Incoming'
  BY <1>1, <1>4, <1>5, <1>6, <1>8 DEF Incoming, RecvEnds, Ended
<1>12. Received'
  BY <1>8 DEF Received, StoredIsPrefix
<1>13. Lockstep'
  BY <1>1, <1>2, <1>3, <1>5, <1>7, <1>8
    DEF Lockstep, Opening, InStep, Replied, SendEnds, RecvEnds, Ended
<1>14. Parting'
  BY <1>1, <1>2, <1>3, <1>4, <1>5, <1>6, <1>7, <1>8 DEF Parting, RecvEnds, Ended
<1> QED
  BY <1>9, <1>10, <1>11, <1>12, <1>13, <1>14

(* It hears that the type block arrived.                                      *)
LEMMA SendAckA ==
  ASSUME PunterInv,
         Shaped',
         sAt = "type",
         sAt' = "ackA",
         UNCHANGED <<sBlk, ahead, isLast, rAt, stored>>,
         NEW h \in Items(toS),
         h.what = "GOO",
         Follows(toS', toS, h),
         Grows(toR', toR, {Token("ACK")}),
         Grows(toS', toS, {})
  PROVE  PunterInv'
<1> USE DEF PunterInv
<1>1. Awaited' = Awaited /\ Offered = 0 /\ Offered' = 1
  BY DEF Awaited, Offered
<1>2. /\ \A w \in Words : Has(toR', w) => Has(toR, w) \/ w = "ACK"
      /\ \A u, w \in Words : HasPair(toR', u, w) => HasPair(toR, u, w) \/ (Has(toR, u) /\ w = "ACK")
      /\ \A u, w : HasPair(toR, u, w) => Has(toR, u) /\ Has(toR, w)
  BY HasToken
<1>3. /\ \A w \in Words : Has(toS', w) => Has(toS, w)
      /\ \A u, w \in Words : HasPair(toS', u, w) => HasPair(toS, u, w)
      /\ \A u, w : HasPair(toS, u, w) => Has(toS, u) /\ Has(toS, w)
  BY HasLess
<1>4. /\ \A x \in Items(toR') : IsBlock(x) => x \in Items(toR)
      /\ \A p \in Pairs(toR') : p[1].what = "ACK" /\ IsBlock(p[2]) => p \in Pairs(toR)
      /\ \A p \in Pairs(toR') : IsBlock(p[1]) /\ p[2].what = "ACK" => p \in Pairs(toR) \/ p[1] \in Items(toR)
  BY HasToken
<1>5. "GOO" \in Words /\ "ACK" \in Words /\ "SB" \in Words /\ "SYN" \in Words /\ "block" \in Words
  BY DEF Words
<1>6. /\ Awaited \in Nat /\ Offered \in Nat
      /\ \A x \in Items(toR) : IsBlock(x) => Place(x) \in Nat
  BY NumbersAre
<1>7. /\ Has(toS, "GOO")
      /\ \A w \in Words : Has(toS', w) => HasPair(toS, "GOO", w)
  BY HasBehind DEF Has
<1>8. rAt \notin RecvEnds => Awaited = 1
  BY <1>1, <1>7 DEF Lockstep, Opening, InStep, Replied, SendEnds, RecvEnds, Ended
<1>9. rAt \notin RecvEnds => \A x \in Items(toR) : IsBlock(x) => Place(x) < Awaited
  BY <1>1, <1>6, <1>8 DEF Outgoing, SendEnds, Ended
<1>10. Prepared'
  BY <1>8, <1>9 DEF Prepared
<1>11. Outgoing'
  BY <1>1, <1>4, <1>6, <1>8, <1>9 DEF Outgoing, SendEnds, Ended
<1>12. Incoming'
  BY <1>1, <1>4, <1>5, <1>6, <1>8, <1>9 DEF Incoming, RecvEnds, Ended
<1>13. Received'
  BY <1>8, <1>9 DEF Received, StoredIsPrefix
<1>14. Lockstep'
  BY <1>1, <1>2, <1>3, <1>5, <1>7, <1>8, <1>9
    DEF Lockstep, Opening, InStep, Replied, SendEnds, RecvEnds, Ended
<1>15. Parting'
  BY <1>1, <1>2, <1>3, <1>4, <1>5, <1>6, <1>7, <1>8, <1>9 DEF Parting, RecvEnds, Ended
<1> QED
  BY <1>10, <1>11, <1>12, <1>13, <1>14, <1>15

(* It ends the first phase with SYN ...                                       *)
LEMMA SendSyncA ==
  ASSUME PunterInv,
         Shaped',
         sAt = "ackA",
         sAt' = "syncA",
         UNCHANGED <<sBlk, ahead, isLast, rAt, stored>>,
         NEW h \in Items(toS),
         h.what = "SB",
         Follows(toS', toS, h),
         Grows(toR', toR, {Token("SYN")}),
         Grows(toS', toS, {})
  PROVE  PunterInv'
<1> USE DEF PunterInv
<1>1. Awaited' = Awaited /\ Offered = 1 /\ Offered' = 1
  BY DEF Awaited, Offered
<1>2. /\ \A w \in Words : Has(toR', w) => Has(toR, w) \/ w = "SYN"
      /\ \A u, w \in Words : HasPair(toR', u, w) => HasPair(toR, u, w) \/ (Has(toR, u) /\ w = "SYN")
      /\ \A u, w : HasPair(toR, u, w) => Has(toR, u) /\ Has(toR, w)
  BY HasToken
<1>3. /\ \A w \in Words : Has(toS', w) => Has(toS, w)
      /\ \A u, w \in Words : HasPair(toS', u, w) => HasPair(toS, u, w)
      /\ \A u, w : HasPair(toS, u, w) => Has(toS, u) /\ Has(toS, w)
  BY HasLess
<1>4. /\ \A x \in Items(toR') : IsBlock(x) => x \in Items(toR)
      /\ \A p \in Pairs(toR') : p[1].what = "ACK" /\ IsBlock(p[2]) => p \in Pairs(toR)
      /\ \A p \in Pairs(toR') : IsBlock(p[1]) /\ p[2].what = "ACK" => p \in Pairs(toR)
  BY HasToken
<1>5. "GOO" \in Words /\ "ACK" \in Words /\ "SB" \in Words /\ "SYN" \in Words /\ "block" \in Words
  BY DEF Words
<1>6. /\ Awaited \in Nat /\ Offered \in Nat
      /\ \A x \in Items(toR) : IsBlock(x) => Place(x) \in Nat
  BY NumbersAre
<1>7. /\ Has(toS, "SB")
      /\ \A w \in Words : Has(toS', w) => HasPair(toS, "SB", w)
  BY HasBehind DEF Has
<1>8. rAt \in {"ackA", "syncA", "err"} /\ ~Has(toS, "SYN")
  BY DEF Lockstep, Opening, InStep, Replied, Parting, SendEnds, RecvEnds, Ended
<1>9. Prepared'
  BY <1>8 DEF Prepared
<1>10. Outgoing'
  BY <1>1, <1>4, <1>6, <1>8 DEF Outgoing, SendEnds, Ended
<1>11. Incoming'
  BY <1>1, <1>4, <1>5, <1>6, <1>8 DEF Incoming, RecvEnds, Ended
<1>12. Received'
  BY <1>8 DEF Received, StoredIsPrefix
<1>13. Lockstep'
  BY <1>1, <1>2, <1>3, <1>5, <1>7, <1>8
    DEF Lockstep, Opening, InStep, Replied, SendEnds, RecvEnds, Ended
<1>14. Parting'
  BY <1>1, <1>2, <1>3, <1>4, <1>5, <1>6, <1>7, <1>8 DEF Parting, RecvEnds, Ended
<1> QED
  BY <1>9, <1>10, <1>11, <1>12, <1>13, <1>14

(* ... and S/B.                                                               *)
LEMMA SendReady ==
  ASSUME PunterInv,
         Shaped',
         sAt = "syncA",
         sAt' = "ready",
         UNCHANGED <<sBlk, ahead, isLast, rAt, stored>>,
         NEW h \in Items(toS),
         h.what = "SYN",
         Follows(toS', toS, h),
         Grows(toR', toR, {Token("SB")}),
         Grows(toS', toS, {})
  PROVE  PunterInv'
<1> USE DEF PunterInv
<1>1. Awaited' = Awaited /\ Offered = 1 /\ Offered' = 1
  BY DEF Awaited, Offered
<1>2. /\ \A w \in Words : Has(toR', w) => Has(toR, w) \/ w = "SB"
      /\ \A u, w \in Words : HasPair(toR', u, w) => HasPair(toR, u, w) \/ (Has(toR, u) /\ w = "SB")
      /\ \A u, w : HasPair(toR, u, w) => Has(toR, u) /\ Has(toR, w)
  BY HasToken
<1>3. /\ \A w \in Words : Has(toS', w) => Has(toS, w)
      /\ \A u, w \in Words : HasPair(toS', u, w) => HasPair(toS, u, w)
      /\ \A u, w : HasPair(toS, u, w) => Has(toS, u) /\ Has(toS, w)
  BY HasLess
<1>4. /\ \A x \in Items(toR') : IsBlock(x) => x \in Items(toR)
      /\ \A p \in Pairs(toR') : p[1].what = "ACK" /\ IsBlock(p[2]) => p \in Pairs(toR)
      /\ \A p \in Pairs(toR') : IsBlock(p[1]) /\ p[2].what = "ACK" => p \in Pairs(toR)
  BY HasToken
<1>5. "GOO" \in Words /\ "ACK" \in Words /\ "SB" \in Words /\ "SYN" \in Words /\ "block" \in Words
  BY DEF Words
<1>6. /\ Awaited \in Nat /\ Offered \in Nat
      /\ \A x \in Items(toR) : IsBlock(x) => Place(x) \in Nat
  BY NumbersAre
<1>7. /\ Has(toS, "SYN")
      /\ \A w \in Words : Has(toS', w) => HasPair(toS, "SYN", w)
  BY HasBehind DEF Has
<1>8. rAt \in {"endA", "err"} /\ ~HasPair(toS, "SYN", "SYN")
  BY <1>7 DEF Lockstep, Opening, InStep, Replied, Parting, SendEnds, RecvEnds, Ended
<1>9. Prepared'
  BY <1>8 DEF Prepared
<1>10. Outgoing'
  BY <1>1, <1>4, <1>6, <1>8 DEF Outgoing, SendEnds, Ended
<1>11. Incoming'
  BY <1>1, <1>4, <1>5, <1>6, <1>8 DEF Incoming, RecvEnds, Ended
<1>12. Received'
  BY <1>8 DEF Received, StoredIsPrefix
<1>13. Lockstep'
  BY <1>1, <1>2, <1>3, <1>5, <1>7, <1>8
    DEF Lockstep, Opening, InStep, Replied, SendEnds, RecvEnds, Ended
<1>14. Parting'
  BY <1>1, <1>2, <1>3, <1>4, <1>5, <1>6, <1>7, <1>8 DEF Parting, RecvEnds, Ended
<1> QED
  BY <1>9, <1>10, <1>11, <1>12, <1>13, <1>14

(* It hears that the last block arrived.                                      *)
LEMMA SendAckB ==
  ASSUME PunterInv,
         Shaped',
         sAt = "data",
         sAt' = "ackB",
         UNCHANGED <<sBlk, ahead, isLast, rAt, stored>>,
         isLast,
         NEW h \in Items(toS),
         h.what = "GOO",
         Follows(toS', toS, h),
         Grows(toR', toR, {Token("ACK")}),
         Grows(toS', toS, {})
  PROVE  PunterInv'
<1> USE DEF PunterInv
<1>1. Awaited' = Awaited /\ Offered = Place(sBlk) /\ Offered' = Place(sBlk) + 1
  BY DEF Awaited, Offered
<1>2. /\ \A w \in Words : Has(toR', w) => Has(toR, w) \/ w = "ACK"
      /\ \A u, w \in Words : HasPair(toR', u, w) => HasPair(toR, u, w) \/ (Has(toR, u) /\ w = "ACK")
      /\ \A u, w : HasPair(toR, u, w) => Has(toR, u) /\ Has(toR, w)
  BY HasToken
<1>3. /\ \A w \in Words : Has(toS', w) => Has(toS, w)
      /\ \A u, w \in Words : HasPair(toS', u, w) => HasPair(toS, u, w)
      /\ \A u, w : HasPair(toS, u, w) => Has(toS, u) /\ Has(toS, w)
  BY HasLess
<1>4. /\ \A x \in Items(toR') : IsBlock(x) => x \in Items(toR)
      /\ \A p \in Pairs(toR') : p[1].what = "ACK" /\ IsBlock(p[2]) => p \in Pairs(toR)
      /\ \A p \in Pairs(toR') : IsBlock(p[1]) /\ p[2].what = "ACK" => p \in Pairs(toR) \/ p[1] \in Items(toR)
  BY HasToken
<1>5. "GOO" \in Words /\ "ACK" \in Words /\ "SB" \in Words /\ "SYN" \in Words /\ "block" \in Words
  BY DEF Words
<1>6. /\ Awaited \in Nat /\ Offered \in Nat
      /\ \A x \in Items(toR) : IsBlock(x) => Place(x) \in Nat
  BY NumbersAre
<1>7. /\ Has(toS, "GOO")
      /\ \A w \in Words : Has(toS', w) => HasPair(toS, "GOO", w)
  BY HasBehind DEF Has
<1>8. rAt \notin RecvEnds => Awaited = Offered + 1 /\ rAt = "ackB" /\ Len(stored) = sBlk.chunk
  BY <1>1, <1>7 DEF Lockstep, Opening, InStep, Replied, SendEnds, RecvEnds, Ended
<1>9. rAt \notin RecvEnds => \A x \in Items(toR) : IsBlock(x) => Place(x) < Awaited
  BY <1>1, <1>6, <1>8 DEF Outgoing, SendEnds, Ended
<1>10. Prepared'
  BY <1>8, <1>9 DEF Prepared
<1>11. Outgoing'
  BY <1>1, <1>4, <1>6, <1>8, <1>9 DEF Outgoing, SendEnds, Ended
<1>12. Incoming'
  BY <1>1, <1>4, <1>5, <1>6, <1>8, <1>9 DEF Incoming, RecvEnds, Ended
<1>13. Received'
  BY <1>8, <1>9 DEF Received, StoredIsPrefix
<1>14. Lockstep'
  BY <1>1, <1>2, <1>3, <1>5, <1>7, <1>8, <1>9
    DEF Lockstep, Opening, InStep, Replied, SendEnds, RecvEnds, Ended
<1>15. Parting'
  BY <1>1, <1>2, <1>3, <1>4, <1>5, <1>6, <1>7, <1>8, <1>9 DEF Parting, RecvEnds, Ended
<1> QED
  BY <1>10, <1>11, <1>12, <1>13, <1>14, <1>15

(* It ends the second phase with SYN ...                                      *)
LEMMA SendSyncB ==
  ASSUME PunterInv,
         Shaped',
         sAt = "ackB",
         sAt' = "syncB",
         UNCHANGED <<sBlk, ahead, isLast, rAt, stored>>,
         NEW h \in Items(toS),
         h.what = "SB",
         Follows(toS', toS, h),
         Grows(toR', toR, {Token("SYN")}),
         Grows(toS', toS, {})
  PROVE  PunterInv'
<1> USE DEF PunterInv
<1>1. Awaited' = Awaited /\ Offered' = Offered
  BY DEF Awaited, Offered
<1>2. /\ \A w \in Words : Has(toR', w) => Has(toR, w) \/ w = "SYN"
      /\ \A u, w \in Words : HasPair(toR', u, w) => HasPair(toR, u, w) \/ (Has(toR, u) /\ w = "SYN")
      /\ \A u, w : HasPair(toR, u, w) => Has(toR, u) /\ Has(toR, w)
  BY HasToken
<1>3. /\ \A w \in Words : Has(toS', w) => Has(toS, w)
      /\ \A u, w \in Words : HasPair(toS', u, w) => HasPair(toS, u, w)
      /\ \A u, w : HasPair(toS, u, w) => Has(toS, u) /\ Has(toS, w)
  BY HasLess
<1>4. /\ \A x \in Items(toR') : IsBlock(x) => x \in Items(toR)
      /\ \A p \in Pairs(toR') : p[1].what = "ACK" /\ IsBlock(p[2]) => p \in Pairs(toR)
      /\ \A p \in Pairs(toR') : IsBlock(p[1]) /\ p[2].what = "ACK" => p \in Pairs(toR)
  BY HasToken
<1>5. "GOO" \in Words /\ "ACK" \in Words /\ "SB" \in Words /\ "SYN" \in Words /\ "block" \in Words
  BY DEF Words
<1>6. /\ Awaited \in Nat /\ Offered \in Nat
      /\ \A x \in Items(toR) : IsBlock(x) => Place(x) \in Nat
  BY NumbersAre
<1>7. /\ Has(toS, "SB")
      /\ \A w \in Words : Has(toS', w) => HasPair(toS, "SB", w)
  BY HasBehind DEF Has
<1>8. rAt \in {"ackB", "syncB", "err"} /\ ~Has(toS, "SYN")
  BY DEF Lockstep, Opening, InStep, Replied, Parting, SendEnds, RecvEnds, Ended
<1>9. rAt \notin RecvEnds => \A x \in Items(toR) : IsBlock(x) => Place(x) < Awaited
  BY <1>6 DEF Outgoing, Lockstep, Opening, InStep, Replied, SendEnds, RecvEnds, Ended
<1>10. rAt \notin RecvEnds => isLast /\ Len(stored) = sBlk.chunk
  BY DEF Lockstep, Opening, InStep, Replied, SendEnds, RecvEnds, Ended
<1>11. Prepared'
  BY <1>8, <1>9, <1>10 DEF Prepared
<1>12. Outgoing'
  BY <1>1, <1>4, <1>6, <1>8, <1>9, <1>10 DEF Outgoing, SendEnds, Ended
<1>13. Incoming'
  BY <1>1, <1>4, <1>5, <1>6, <1>8, <1>9, <1>10 DEF Incoming, RecvEnds, Ended
<1>14. Received'
  BY <1>8, <1>9, <1>10 DEF Received, StoredIsPrefix
<1>15. Lockstep'
  BY <1>1, <1>2, <1>3, <1>5, <1>7, <1>8, <1>9, <1>10
    DEF Lockstep, Opening, InStep, Replied, SendEnds, RecvEnds, Ended
<1>16. Parting'
  BY <1>1, <1>2, <1>3, <1>4, <1>5, <1>6, <1>7, <1>8, <1>9, <1>10
    DEF Parting, RecvEnds, Ended
<1> QED
  BY <1>11, <1>12, <1>13, <1>14, <1>15, <1>16

(* ... and S/B, and reports success.                                          *)
LEMMA SendDone ==
  ASSUME PunterInv,
         Shaped',
         sAt = "syncB",
         sAt' = "ok",
         UNCHANGED <<sBlk, ahead, isLast, rAt, stored>>,
         NEW h \in Items(toS),
         h.what = "SYN",
         Follows(toS', toS, h),
         Grows(toR', toR, {Token("SB")}),
         Grows(toS', toS, {})
  PROVE  PunterInv'
<1> USE DEF PunterInv
<1>1. Awaited' = Awaited
  BY DEF Awaited, Offered
<1>2. /\ \A w \in Words : Has(toR', w) => Has(toR, w) \/ w = "SB"
      /\ \A u, w \in Words : HasPair(toR', u, w) => HasPair(toR, u, w) \/ (Has(toR, u) /\ w = "SB")
      /\ \A u, w : HasPair(toR, u, w) => Has(toR, u) /\ Has(toR, w)
  BY HasToken
<1>3. /\ \A w \in Words : Has(toS', w) => Has(toS, w)
      /\ \A u, w \in Words : HasPair(toS', u, w) => HasPair(toS, u, w)
      /\ \A u, w : HasPair(toS, u, w) => Has(toS, u) /\ Has(toS, w)
  BY HasLess
<1>4. /\ \A x \in Items(toR') : IsBlock(x) => x \in Items(toR)
      /\ \A p \in Pairs(toR') : p[1].what = "ACK" /\ IsBlock(p[2]) => p \in Pairs(toR)
      /\ \A p \in Pairs(toR') : IsBlock(p[1]) /\ p[2].what = "ACK" => p \in Pairs(toR)
  BY HasToken
<1>5. "GOO" \in Words /\ "ACK" \in Words /\ "SB" \in Words /\ "SYN" \in Words /\ "block" \in Words
  BY DEF Words
<1>6. /\ Awaited \in Nat /\ Offered \in Nat
      /\ \A x \in Items(toR) : IsBlock(x) => Place(x) \in Nat
  BY NumbersAre
<1>7. /\ Has(toS, "SYN")
      /\ \A w \in Words : Has(toS', w) => HasPair(toS, "SYN", w)
  BY HasBehind DEF Has
<1>8. rAt \in {"endB", "ok"}
  BY <1>7 DEF Lockstep, Opening, InStep, Replied, Parting, SendEnds, RecvEnds, Ended
<1>9. Prepared'
  BY <1>8 DEF Prepared
<1>10. Outgoing'
  BY <1>1, <1>4, <1>6, <1>8 DEF Outgoing, SendEnds, Ended
<1>11. Incoming'
  BY <1>1, <1>4, <1>5, <1>6, <1>8 DEF Incoming, RecvEnds, Ended
<1>12. Received'
  BY <1>8 DEF Received, StoredIsPrefix
<1>13. Lockstep'
  BY <1>1, <1>2, <1>3, <1>5, <1>7, <1>8
    DEF Lockstep, Opening, InStep, Replied, SendEnds, RecvEnds, Ended
<1>14. Parting'
  BY <1>1, <1>2, <1>3, <1>4, <1>5, <1>6, <1>7, <1>8 DEF Parting, RecvEnds, Ended
<1> QED
  BY <1>9, <1>10, <1>11, <1>12, <1>13, <1>14

(* What it says again: GOO,                                                   *)
LEMMA SendGooAgain ==
  ASSUME PunterInv,
         Shaped',
         sAt = "goo",
         sAt' = sAt,
         UNCHANGED <<sBlk, ahead, isLast, rAt, stored>>,
         Grows(toR', toR, {Token("GOO")}),
         Grows(toS', toS, {})
  PROVE  PunterInv'
<1> USE DEF PunterInv
<1>1. Awaited' = Awaited /\ Offered' = Offered
  BY DEF Awaited, Offered
<1>2. /\ \A w \in Words : Has(toR', w) => Has(toR, w) \/ w = "GOO"
      /\ \A u, w \in Words : HasPair(toR', u, w) => HasPair(toR, u, w) \/ (Has(toR, u) /\ w = "GOO")
      /\ \A u, w : HasPair(toR, u, w) => Has(toR, u) /\ Has(toR, w)
  BY HasToken
<1>3. /\ \A w \in Words : Has(toS', w) => Has(toS, w)
      /\ \A u, w \in Words : HasPair(toS', u, w) => HasPair(toS, u, w)
      /\ \A u, w : HasPair(toS, u, w) => Has(toS, u) /\ Has(toS, w)
  BY HasLess
<1>4. /\ \A x \in Items(toR') : IsBlock(x) => x \in Items(toR)
      /\ \A p \in Pairs(toR') : p[1].what = "ACK" /\ IsBlock(p[2]) => p \in Pairs(toR)
      /\ \A p \in Pairs(toR') : IsBlock(p[1]) /\ p[2].what = "ACK" => p \in Pairs(toR)
  BY HasToken
<1>5. "GOO" \in Words /\ "ACK" \in Words /\ "SB" \in Words /\ "SYN" \in Words /\ "block" \in Words
  BY DEF Words
<1>6. /\ Awaited \in Nat /\ Offered \in Nat
      /\ \A x \in Items(toR) : IsBlock(x) => Place(x) \in Nat
  BY NumbersAre
<1>7. Prepared'
  BY DEF Prepared
<1>8. Outgoing'
  BY <1>1, <1>4, <1>6 DEF Outgoing, SendEnds, Ended
<1>9. Incoming'
  BY <1>1, <1>4, <1>5, <1>6 DEF Incoming, RecvEnds, Ended
<1>10. Received'
  BY DEF Received, StoredIsPrefix
<1>11. Lockstep'
  BY <1>1, <1>2, <1>3, <1>5
    DEF Lockstep, Opening, InStep, Replied, SendEnds, RecvEnds, Ended
<1>12. Parting'
  BY <1>1, <1>2, <1>3, <1>4, <1>5, <1>6 DEF Parting, RecvEnds, Ended
<1> QED
  BY <1>7, <1>8, <1>9, <1>10, <1>11, <1>12

(* an ACK,                                                                    *)
LEMMA SendAckAgain ==
  ASSUME PunterInv,
         Shaped',
         sAt \in {"ackType", "ackA", "ackInfo", "ackData", "ackB"},
         sAt' = sAt,
         UNCHANGED <<sBlk, ahead, isLast, rAt, stored>>,
         Grows(toR', toR, {Token("ACK")}),
         Grows(toS', toS, {})
  PROVE  PunterInv'
<1> USE DEF PunterInv
<1>1. Awaited' = Awaited /\ Offered' = Offered
  BY DEF Awaited, Offered
<1>2. /\ \A w \in Words : Has(toR', w) => Has(toR, w) \/ w = "ACK"
      /\ \A u, w \in Words : HasPair(toR', u, w) => HasPair(toR, u, w) \/ (Has(toR, u) /\ w = "ACK")
      /\ \A u, w : HasPair(toR, u, w) => Has(toR, u) /\ Has(toR, w)
  BY HasToken
<1>3. /\ \A w \in Words : Has(toS', w) => Has(toS, w)
      /\ \A u, w \in Words : HasPair(toS', u, w) => HasPair(toS, u, w)
      /\ \A u, w : HasPair(toS, u, w) => Has(toS, u) /\ Has(toS, w)
  BY HasLess
<1>4. /\ \A x \in Items(toR') : IsBlock(x) => x \in Items(toR)
      /\ \A p \in Pairs(toR') : p[1].what = "ACK" /\ IsBlock(p[2]) => p \in Pairs(toR)
      /\ \A p \in Pairs(toR') : IsBlock(p[1]) /\ p[2].what = "ACK" => p \in Pairs(toR) \/ p[1] \in Items(toR)
  BY HasToken
<1>5. "GOO" \in Words /\ "ACK" \in Words /\ "SB" \in Words /\ "SYN" \in Words /\ "block" \in Words
  BY DEF Words
<1>6. /\ Awaited \in Nat /\ Offered \in Nat
      /\ \A x \in Items(toR) : IsBlock(x) => Place(x) \in Nat
  BY NumbersAre
<1>7. rAt \notin RecvEnds => Awaited = Offered
  BY DEF Awaited, Offered, Lockstep, Opening, InStep, Replied, SendEnds, RecvEnds, Ended
<1>8. rAt \notin RecvEnds => \A x \in Items(toR) : IsBlock(x) => Place(x) < Awaited
  BY <1>6, <1>7 DEF Outgoing, SendEnds, Ended
<1>9. Prepared'
  BY <1>7, <1>8 DEF Prepared
<1>10. Outgoing'
  BY <1>1, <1>4, <1>6, <1>7, <1>8 DEF Outgoing, SendEnds, Ended
<1>11. Incoming'
  BY <1>1, <1>4, <1>5, <1>6, <1>7, <1>8 DEF Incoming, RecvEnds, Ended
<1>12. Received'
  BY <1>7, <1>8 DEF Received, StoredIsPrefix
<1>13. Lockstep'
  BY <1>1, <1>2, <1>3, <1>5, <1>7, <1>8
    DEF Lockstep, Opening, InStep, Replied, SendEnds, RecvEnds, Ended
<1>14. Parting'
  BY <1>1, <1>2, <1>3, <1>4, <1>5, <1>6, <1>7, <1>8 DEF Parting, RecvEnds, Ended
<1> QED
  BY <1>9, <1>10, <1>11, <1>12, <1>13, <1>14

(* SYN.                                                                       *)
LEMMA SendSynAgain ==
  ASSUME PunterInv,
         Shaped',
         sAt \in {"syncA", "syncB"},
         sAt' = sAt,
         UNCHANGED <<sBlk, ahead, isLast, rAt, stored>>,
         Grows(toR', toR, {Token("SYN")}),
         Grows(toS', toS, {})
  PROVE  PunterInv'
<1> USE DEF PunterInv
<1>1. Awaited' = Awaited /\ Offered' = Offered
  BY DEF Awaited, Offered
<1>2. /\ \A w \in Words : Has(toR', w) => Has(toR, w) \/ w = "SYN"
      /\ \A u, w \in Words : HasPair(toR', u, w) => HasPair(toR, u, w) \/ (Has(toR, u) /\ w = "SYN")
      /\ \A u, w : HasPair(toR, u, w) => Has(toR, u) /\ Has(toR, w)
  BY HasToken
<1>3. /\ \A w \in Words : Has(toS', w) => Has(toS, w)
      /\ \A u, w \in Words : HasPair(toS', u, w) => HasPair(toS, u, w)
      /\ \A u, w : HasPair(toS, u, w) => Has(toS, u) /\ Has(toS, w)
  BY HasLess
<1>4. /\ \A x \in Items(toR') : IsBlock(x) => x \in Items(toR)
      /\ \A p \in Pairs(toR') : p[1].what = "ACK" /\ IsBlock(p[2]) => p \in Pairs(toR)
      /\ \A p \in Pairs(toR') : IsBlock(p[1]) /\ p[2].what = "ACK" => p \in Pairs(toR)
  BY HasToken
<1>5. "GOO" \in Words /\ "ACK" \in Words /\ "SB" \in Words /\ "SYN" \in Words /\ "block" \in Words
  BY DEF Words
<1>6. /\ Awaited \in Nat /\ Offered \in Nat
      /\ \A x \in Items(toR) : IsBlock(x) => Place(x) \in Nat
  BY NumbersAre
<1>7. sAt = "syncA" => rAt \in {"ackA", "syncA", "endA", "err"} /\ (rAt # "err" => ~Has(toR, "SB"))
  BY DEF Lockstep, Opening, InStep, Replied, Parting, SendEnds, RecvEnds, Ended
<1>8. sAt = "syncB" => rAt \in {"ackB", "syncB", "endB", "ok", "err"}
  BY DEF Lockstep, Opening, InStep, Replied, Parting, SendEnds, RecvEnds, Ended
<1>9. sAt = "syncB" /\ rAt \notin RecvEnds => \A x \in Items(toR) : IsBlock(x) => Place(x) < Awaited
  BY <1>6 DEF Outgoing, Lockstep, Opening, InStep, Replied, SendEnds, RecvEnds, Ended
<1>10. sAt = "syncB" /\ rAt \notin RecvEnds => isLast /\ Len(stored) = sBlk.chunk
  BY DEF Lockstep, Opening, InStep, Replied, SendEnds, RecvEnds, Ended
<1>11. Prepared'
  BY <1>7, <1>8, <1>9, <1>10 DEF Prepared
<1>12. Outgoing'
  BY <1>1, <1>4, <1>6, <1>7, <1>8, <1>9, <1>10 DEF Outgoing, SendEnds, Ended
<1>13. Incoming'
  BY <1>1, <1>4, <1>5, <1>6, <1>7, <1>8, <1>9, <1>10 DEF Incoming, RecvEnds, Ended
<1>14. Received'
  BY <1>7, <1>8, <1>9, <1>10 DEF Received, StoredIsPrefix
<1>15. Lockstep'
  BY <1>1, <1>2, <1>3, <1>5, <1>7, <1>8, <1>9, <1>10
    DEF Lockstep, Opening, InStep, Replied, SendEnds, RecvEnds, Ended
<1>16. Parting'
  <2>1. CASE sAt = "syncA"
    BY <2>1, <1>1, <1>2, <1>3, <1>4, <1>5, <1>7 DEF Parting, RecvEnds, Ended
  <2>2. CASE sAt = "syncB"
    BY <2>2, <1>1, <1>2, <1>3, <1>4, <1>5, <1>8, <1>9, <1>10
      DEF Parting, RecvEnds, Ended
  <2> QED
    BY <2>1, <2>2
<1> QED
  BY <1>11, <1>12, <1>13, <1>14, <1>15, <1>16

(* It sends the type block.                                                   *)
LEMMA SendType ==
  ASSUME PunterInv,
         Shaped',
         sAt = "ackType",
         sAt' = "type",
         UNCHANGED <<ahead, isLast, rAt, stored>>,
         sBlk' = TypeBlock,
         NEW h \in Items(toS),
         h.what = "SB",
         Follows(toS', toS, h),
         Grows(toR', toR, {TypeBlock}),
         Grows(toS', toS, {})
  PROVE  PunterInv'
<1> USE DEF PunterInv
<1>1. /\ Awaited' = Awaited /\ Offered = 0 /\ Offered' = 0
      /\ IsBlock(TypeBlock) /\ Place(TypeBlock) = 0
  BY DEF Awaited, Offered, IsBlock, TypeBlock, Item, Place, Header
<1>2. /\ \A w \in Words : Has(toR', w) => Has(toR, w) \/ w = "block"
      /\ \A u, w \in Words : HasPair(toR', u, w) => HasPair(toR, u, w) \/ (Has(toR, u) /\ w = "block")
      /\ \A u, w : HasPair(toR, u, w) => Has(toR, u) /\ Has(toR, w)
  BY HasBlock, <1>1
<1>3. /\ \A w \in Words : Has(toS', w) => Has(toS, w)
      /\ \A u, w \in Words : HasPair(toS', u, w) => HasPair(toS, u, w)
      /\ \A u, w : HasPair(toS, u, w) => Has(toS, u) /\ Has(toS, w)
  BY HasLess
<1>4. /\ \A x \in Items(toR') : IsBlock(x) => x \in Items(toR) \/ x = TypeBlock
      /\ \A p \in Pairs(toR') : p[1].what = "ACK" /\ IsBlock(p[2]) =>
           p \in Pairs(toR) \/ (Has(toR, "ACK") /\ p[2] = TypeBlock)
      /\ \A p \in Pairs(toR') : IsBlock(p[1]) /\ p[2].what = "ACK" => p \in Pairs(toR)
  BY HasBlock, <1>1
<1>5. "GOO" \in Words /\ "ACK" \in Words /\ "SB" \in Words /\ "SYN" \in Words /\ "block" \in Words
  BY DEF Words
<1>6. /\ Awaited \in Nat /\ Offered \in Nat
      /\ \A x \in Items(toR) : IsBlock(x) => Place(x) \in Nat
  BY NumbersAre
<1>7. /\ Has(toS, "SB")
      /\ \A w \in Words : Has(toS', w) => HasPair(toS, "SB", w)
  BY HasBehind DEF Has
<1>8. rAt \in {"type", "err"} /\ ~Has(toS, "SYN") /\ (rAt = "type" => ~Has(toS', "GOO"))
  BY <1>7, <1>5
    DEF Lockstep, Opening, InStep, Replied, Parting, SendEnds, RecvEnds, Ended
<1>9. rAt = "type" => Awaited = 0
  BY DEF Awaited
<1>10. rAt \notin RecvEnds => \A x \in Items(toR) : ~IsBlock(x)
  BY <1>1, <1>6
    DEF Outgoing, Lockstep, Opening, InStep, Replied, SendEnds, RecvEnds, Ended
<1>11. Prepared'
  BY <1>8, <1>9, <1>10 DEF Prepared
<1>12. Outgoing'
  BY <1>1, <1>4, <1>6, <1>8, <1>9, <1>10 DEF Outgoing, SendEnds, Ended
<1>13. Incoming'
  BY <1>1, <1>4, <1>5, <1>6, <1>8, <1>9, <1>10 DEF Incoming, RecvEnds, Ended
<1>14. Received'
  BY <1>8, <1>9, <1>10 DEF Received, StoredIsPrefix
<1>15. Lockstep'
  BY <1>1, <1>2, <1>3, <1>5, <1>7, <1>8, <1>9, <1>10
    DEF Lockstep, Opening, InStep, Replied, SendEnds, RecvEnds, Ended
<1>16. Parting'
  BY <1>1, <1>2, <1>3, <1>4, <1>5, <1>6, <1>7, <1>8, <1>9, <1>10
    DEF Parting, RecvEnds, Ended
<1> QED
  BY <1>11, <1>12, <1>13, <1>14, <1>15, <1>16

(* It has read the first chunk and offers the block that says its length.     *)
LEMMA SendAckInfo ==
  ASSUME PunterInv,
         Shaped',
         sAt = "ready",
         sAt' = "ackInfo",
         UNCHANGED <<sBlk, rAt, stored>>,
         ahead' = 1 \/ (ahead' = 0 /\ isLast'),
         NEW h \in Items(toS),
         h.what = "GOO",
         Follows(toS', toS, h),
         Grows(toR', toR, {Token("ACK")}),
         Grows(toS', toS, {})
  PROVE  PunterInv'
<1> USE DEF PunterInv
<1>1. Awaited' = Awaited /\ Offered = 1 /\ Offered' = 1
  BY DEF Awaited, Offered
<1>2. /\ \A w \in Words : Has(toR', w) => Has(toR, w) \/ w = "ACK"
      /\ \A u, w \in Words : HasPair(toR', u, w) => HasPair(toR, u, w) \/ (Has(toR, u) /\ w = "ACK")
      /\ \A u, w : HasPair(toR, u, w) => Has(toR, u) /\ Has(toR, w)
  BY HasToken
<1>3. /\ \A w \in Words : Has(toS', w) => Has(toS, w)
      /\ \A u, w \in Words : HasPair(toS', u, w) => HasPair(toS, u, w)
      /\ \A u, w : HasPair(toS, u, w) => Has(toS, u) /\ Has(toS, w)
  BY HasLess
<1>4. /\ \A x \in Items(toR') : IsBlock(x) => x \in Items(toR)
      /\ \A p \in Pairs(toR') : p[1].what = "ACK" /\ IsBlock(p[2]) => p \in Pairs(toR)
      /\ \A p \in Pairs(toR') : IsBlock(p[1]) /\ p[2].what = "ACK" => p \in Pairs(toR) \/ p[1] \in Items(toR)
  BY HasToken
<1>5. "GOO" \in Words /\ "ACK" \in Words /\ "SB" \in Words /\ "SYN" \in Words /\ "block" \in Words
  BY DEF Words
<1>6. /\ Awaited \in Nat /\ Offered \in Nat
      /\ \A x \in Items(toR) : IsBlock(x) => Place(x) \in Nat
  BY NumbersAre
<1>7. /\ Has(toS, "GOO")
      /\ \A w \in Words : Has(toS', w) => HasPair(toS, "GOO", w)
  BY HasBehind DEF Has
<1>8. rAt \in {"ackInfo", "err"} /\ ~Has(toS, "SYN") /\ (rAt # "err" => ~Has(toS', "GOO"))
  BY <1>7, <1>5
    DEF Lockstep, Opening, InStep, Replied, Parting, SendEnds, RecvEnds, Ended
<1>9. rAt # "err" => Awaited = 1
  BY <1>8 DEF Awaited
<1>10. rAt \notin RecvEnds => \A x \in Items(toR) : IsBlock(x) => Place(x) < Awaited
  BY <1>1, <1>6, <1>8, <1>9 DEF Outgoing, SendEnds, RecvEnds, Ended
<1>11. Prepared'
  BY <1>8, <1>9, <1>10 DEF Prepared
<1>12. Outgoing'
  BY <1>1, <1>4, <1>6, <1>8, <1>9, <1>10 DEF Outgoing, SendEnds, Ended
<1>13. Incoming'
  BY <1>1, <1>4, <1>5, <1>6, <1>8, <1>9, <1>10 DEF Incoming, RecvEnds, Ended
<1>14. Received'
  BY <1>8, <1>9, <1>10 DEF Received, StoredIsPrefix
<1>15. Lockstep'
  BY <1>1, <1>2, <1>3, <1>5, <1>7, <1>8, <1>9, <1>10
    DEF Lockstep, Opening, InStep, Replied, SendEnds, RecvEnds, Ended
<1>16. Parting'
  BY <1>1, <1>2, <1>3, <1>4, <1>5, <1>6, <1>7, <1>8, <1>9, <1>10
    DEF Parting, RecvEnds, Ended
<1> QED
  BY <1>11, <1>12, <1>13, <1>14, <1>15, <1>16

(* It sends that block.                                                       *)
LEMMA SendInfo ==
  ASSUME PunterInv,
         Shaped',
         sAt = "ackInfo",
         sAt' = "info",
         UNCHANGED <<ahead, isLast, rAt, stored>>,
         NEW b,
         IsBlock(b),
         Place(b) = 1,
         sBlk' = b,
         NEW h \in Items(toS),
         h.what = "SB",
         Follows(toS', toS, h),
         Grows(toR', toR, {b}),
         Grows(toS', toS, {})
  PROVE  PunterInv'
<1> USE DEF PunterInv
<1>1. /\ Awaited' = Awaited /\ Offered = 1 /\ Offered' = 1 /\ IsBlock(b)
  BY DEF Awaited, Offered
<1>2. /\ \A w \in Words : Has(toR', w) => Has(toR, w) \/ w = "block"
      /\ \A u, w \in Words : HasPair(toR', u, w) => HasPair(toR, u, w) \/ (Has(toR, u) /\ w = "block")
      /\ \A u, w : HasPair(toR, u, w) => Has(toR, u) /\ Has(toR, w)
  BY HasBlock, <1>1
<1>3. /\ \A w \in Words : Has(toS', w) => Has(toS, w)
      /\ \A u, w \in Words : HasPair(toS', u, w) => HasPair(toS, u, w)
      /\ \A u, w : HasPair(toS, u, w) => Has(toS, u) /\ Has(toS, w)
  BY HasLess
<1>4. /\ \A x \in Items(toR') : IsBlock(x) => x \in Items(toR) \/ x = b
      /\ \A p \in Pairs(toR') : p[1].what = "ACK" /\ IsBlock(p[2]) =>
           p \in Pairs(toR) \/ (Has(toR, "ACK") /\ p[2] = b)
      /\ \A p \in Pairs(toR') : IsBlock(p[1]) /\ p[2].what = "ACK" => p \in Pairs(toR)
  BY HasBlock, <1>1
<1>5. "GOO" \in Words /\ "ACK" \in Words /\ "SB" \in Words /\ "SYN" \in Words /\ "block" \in Words
  BY DEF Words
<1>6. /\ Awaited \in Nat /\ Offered \in Nat
      /\ \A x \in Items(toR) : IsBlock(x) => Place(x) \in Nat
  BY NumbersAre
<1>7. /\ Has(toS, "SB")
      /\ \A w \in Words : Has(toS', w) => HasPair(toS, "SB", w)
  BY HasBehind DEF Has
<1>8. rAt \notin RecvEnds => Awaited = 1 /\ ~Has(toS, "GOO")
  BY <1>1 DEF Lockstep, Opening, InStep, Replied, SendEnds, RecvEnds, Ended
<1>9. rAt \in {"ackInfo", "info", "err"} /\ ~Has(toS, "SYN")
  BY <1>8
    DEF Awaited, Shaped, Lockstep, Opening, InStep, Replied, Parting, SendEnds, RecvEnds, Ended
<1>10. rAt \notin RecvEnds => \A x \in Items(toR) : IsBlock(x) => Place(x) < Awaited
  BY <1>1, <1>6, <1>8 DEF Outgoing, SendEnds, RecvEnds, Ended
<1>11. Prepared'
  BY <1>8, <1>9, <1>10 DEF Prepared
<1>12. Outgoing'
  BY <1>1, <1>4, <1>6, <1>8, <1>9, <1>10 DEF Outgoing, SendEnds, Ended
<1>13. Incoming'
  BY <1>1, <1>4, <1>5, <1>6, <1>8, <1>9, <1>10 DEF Incoming, RecvEnds, Ended
<1>14. Received'
  BY <1>8, <1>9, <1>10 DEF Received, StoredIsPrefix
<1>15. Lockstep'
  BY <1>1, <1>2, <1>3, <1>5, <1>7, <1>8, <1>9, <1>10
    DEF Lockstep, Opening, InStep, Replied, SendEnds, RecvEnds, Ended
<1>16. Parting'
  BY <1>1, <1>2, <1>3, <1>4, <1>5, <1>6, <1>7, <1>8, <1>9, <1>10
    DEF Parting, RecvEnds, Ended
<1> QED
  BY <1>11, <1>12, <1>13, <1>14, <1>15, <1>16

(* It hears that it arrived and offers the first chunk.                       *)
LEMMA SendFirst ==
  ASSUME PunterInv,
         Shaped',
         sAt = "info",
         sAt' = "ackData",
         UNCHANGED <<rAt, stored>>,
         NEW b,
         IsBlock(b),
         Place(b) = 2,
         sBlk' = b,
         b.last = isLast',
         ~isLast' => ahead' = b.chunk + 1,
         NEW h \in Items(toS),
         h.what = "GOO",
         Follows(toS', toS, h),
         Grows(toR', toR, {Token("ACK")}),
         Grows(toS', toS, {})
  PROVE  PunterInv'
<1> USE DEF PunterInv
<1>1. Awaited' = Awaited /\ Offered = 1 /\ Offered' = 2
  BY DEF Awaited, Offered
<1>2. /\ \A w \in Words : Has(toR', w) => Has(toR, w) \/ w = "ACK"
      /\ \A u, w \in Words : HasPair(toR', u, w) => HasPair(toR, u, w) \/ (Has(toR, u) /\ w = "ACK")
      /\ \A u, w : HasPair(toR, u, w) => Has(toR, u) /\ Has(toR, w)
  BY HasToken
<1>3. /\ \A w \in Words : Has(toS', w) => Has(toS, w)
      /\ \A u, w \in Words : HasPair(toS', u, w) => HasPair(toS, u, w)
      /\ \A u, w : HasPair(toS, u, w) => Has(toS, u) /\ Has(toS, w)
  BY HasLess
<1>4. /\ \A x \in Items(toR') : IsBlock(x) => x \in Items(toR)
      /\ \A p \in Pairs(toR') : p[1].what = "ACK" /\ IsBlock(p[2]) => p \in Pairs(toR)
      /\ \A p \in Pairs(toR') : IsBlock(p[1]) /\ p[2].what = "ACK" => p \in Pairs(toR) \/ p[1] \in Items(toR)
  BY HasToken
<1>5. "GOO" \in Words /\ "ACK" \in Words /\ "SB" \in Words /\ "SYN" \in Words /\ "block" \in Words
  BY DEF Words
<1>6. /\ Awaited \in Nat /\ Offered \in Nat
      /\ \A x \in Items(toR) : IsBlock(x) => Place(x) \in Nat
  BY NumbersAre
<1>7. /\ Has(toS, "GOO")
      /\ \A w \in Words : Has(toS', w) => HasPair(toS, "GOO", w)
  BY HasBehind DEF Has
<1>8. rAt \notin RecvEnds => rAt = "ackData" /\ Awaited = 2 /\ ~Has(toS', "GOO")
  BY <1>1, <1>7, <1>5 DEF Lockstep, Opening, InStep, Replied, SendEnds, RecvEnds, Ended
<1>9. rAt \in {"ackData", "err"} /\ ~Has(toS, "SYN") /\ (rAt # "err" => ~Has(toR, "SYN"))
  BY <1>8 DEF Parting, RecvEnds, Ended, RecvPlaces, Shaped
<1>10. rAt \notin RecvEnds => \A x \in Items(toR) : IsBlock(x) => Place(x) < Awaited
  BY <1>1, <1>6, <1>8 DEF Outgoing, SendEnds, RecvEnds, Ended
<1>11. \A x \in Items(toR) : IsBlock(x) => Place(x) < 2
  BY <1>1, <1>6 DEF Outgoing, SendEnds, Ended
<1>12. Prepared'
  BY <1>8, <1>9, <1>10, <1>11 DEF Prepared
<1>13. Outgoing'
  BY <1>1, <1>4, <1>6, <1>8, <1>9, <1>10, <1>11 DEF Outgoing, SendEnds, Ended
<1>14. Incoming'
  BY <1>1, <1>4, <1>5, <1>6, <1>8, <1>9, <1>10, <1>11 DEF Incoming, RecvEnds, Ended
<1>15. Received'
  BY <1>8, <1>9, <1>10, <1>11 DEF Received, StoredIsPrefix
<1>16. Lockstep'
  BY <1>1, <1>2, <1>3, <1>5, <1>7, <1>8, <1>9, <1>10, <1>11
    DEF Lockstep, Opening, InStep, Replied, SendEnds, RecvEnds, Ended
<1>17. Parting'
  BY <1>1, <1>2, <1>3, <1>4, <1>5, <1>6, <1>7, <1>8, <1>9, <1>10, <1>11
    DEF Parting, RecvEnds, Ended
<1> QED
  BY <1>12, <1>13, <1>14, <1>15, <1>16, <1>17

(* It sends a chunk.                                                          *)
LEMMA SendBlock ==
  ASSUME PunterInv,
         Shaped',
         sAt = "ackData",
         sAt' = "data",
         UNCHANGED <<sBlk, ahead, isLast, rAt, stored>>,
         NEW h \in Items(toS),
         h.what = "SB",
         Follows(toS', toS, h),
         Grows(toR', toR, {sBlk}),
         Grows(toS', toS, {})
  PROVE  PunterInv'
<1> USE DEF PunterInv
<1>1. /\ Awaited' = Awaited /\ Offered = Place(sBlk) /\ Offered' = Place(sBlk) /\ IsBlock(sBlk)
  BY DEF Awaited, Offered, Prepared
<1>2. /\ \A w \in Words : Has(toR', w) => Has(toR, w) \/ w = "block"
      /\ \A u, w \in Words : HasPair(toR', u, w) => HasPair(toR, u, w) \/ (Has(toR, u) /\ w = "block")
      /\ \A u, w : HasPair(toR, u, w) => Has(toR, u) /\ Has(toR, w)
  BY HasBlock, <1>1
<1>3. /\ \A w \in Words : Has(toS', w) => Has(toS, w)
      /\ \A u, w \in Words : HasPair(toS', u, w) => HasPair(toS, u, w)
      /\ \A u, w : HasPair(toS, u, w) => Has(toS, u) /\ Has(toS, w)
  BY HasLess
<1>4. /\ \A x \in Items(toR') : IsBlock(x) => x \in Items(toR) \/ x = sBlk
      /\ \A p \in Pairs(toR') : p[1].what = "ACK" /\ IsBlock(p[2]) =>
           p \in Pairs(toR) \/ (Has(toR, "ACK") /\ p[2] = sBlk)
      /\ \A p \in Pairs(toR') : IsBlock(p[1]) /\ p[2].what = "ACK" => p \in Pairs(toR)
  BY HasBlock, <1>1
<1>5. "GOO" \in Words /\ "ACK" \in Words /\ "SB" \in Words /\ "SYN" \in Words /\ "block" \in Words
  BY DEF Words
<1>6. /\ Awaited \in Nat /\ Offered \in Nat
      /\ \A x \in Items(toR) : IsBlock(x) => Place(x) \in Nat
  BY NumbersAre
<1>7. /\ Has(toS, "SB")
      /\ \A w \in Words : Has(toS', w) => HasPair(toS, "SB", w)
  BY HasBehind DEF Has
<1>8. rAt \notin RecvEnds => rAt \in {"ackData", "data"} /\ Awaited = Offered
  BY <1>6 DEF Lockstep, Opening, InStep, Replied, SendEnds, RecvEnds, Ended
<1>9. rAt \in {"ackData", "data", "err"} /\ ~Has(toS, "SYN") /\ (rAt # "err" => ~Has(toR, "SYN"))
  BY <1>8 DEF Parting, RecvEnds, Ended, RecvPlaces, Shaped
<1>10. Prepared'
  BY <1>8, <1>9 DEF Prepared
<1>11. Outgoing'
  BY <1>1, <1>4, <1>6, <1>8, <1>9 DEF Outgoing, SendEnds, Ended
<1>12. Incoming'
  BY <1>1, <1>4, <1>5, <1>6, <1>8, <1>9, <1>2 DEF Incoming, RecvEnds, Ended
<1>13. Received'
  BY <1>8, <1>9 DEF Received, StoredIsPrefix
<1>14. Lockstep'
  BY <1>1, <1>2, <1>3, <1>5, <1>7, <1>8, <1>9
    DEF Lockstep, Opening, InStep, Replied, SendEnds, RecvEnds, Ended
<1>15. Parting'
  BY <1>1, <1>2, <1>3, <1>4, <1>5, <1>6, <1>7, <1>8, <1>9 DEF Parting, RecvEnds, Ended
<1> QED
  BY <1>10, <1>11, <1>12, <1>13, <1>14, <1>15

(* It hears that a chunk arrived and offers the next.                         *)
LEMMA SendNext ==
  ASSUME PunterInv,
         Shaped',
         sAt = "data",
         sAt' = "ackData",
         UNCHANGED <<rAt, stored>>,
         ~isLast,
         NEW b,
         IsBlock(b),
         Place(b) = Place(sBlk) + 1,
         sBlk' = b,
         b.last = isLast',
         ~isLast' => ahead' = b.chunk + 1,
         NEW h \in Items(toS),
         h.what = "GOO",
         Follows(toS', toS, h),
         Grows(toR', toR, {Token("ACK")}),
         Grows(toS', toS, {})
  PROVE  PunterInv'
<1> USE DEF PunterInv
<1>1. Awaited' = Awaited /\ Offered = Place(sBlk) /\ Offered' = Place(sBlk) + 1
  BY DEF Awaited, Offered
<1>2. /\ \A w \in Words : Has(toR', w) => Has(toR, w) \/ w = "ACK"
      /\ \A u, w \in Words : HasPair(toR', u, w) => HasPair(toR, u, w) \/ (Has(toR, u) /\ w = "ACK")
      /\ \A u, w : HasPair(toR, u, w) => Has(toR, u) /\ Has(toR, w)
  BY HasToken
<1>3. /\ \A w \in Words : Has(toS', w) => Has(toS, w)
      /\ \A u, w \in Words : HasPair(toS', u, w) => HasPair(toS, u, w)
      /\ \A u, w : HasPair(toS, u, w) => Has(toS, u) /\ Has(toS, w)
  BY HasLess
<1>4. /\ \A x \in Items(toR') : IsBlock(x) => x \in Items(toR)
      /\ \A p \in Pairs(toR') : p[1].what = "ACK" /\ IsBlock(p[2]) => p \in Pairs(toR)
      /\ \A p \in Pairs(toR') : IsBlock(p[1]) /\ p[2].what = "ACK" => p \in Pairs(toR) \/ p[1] \in Items(toR)
  BY HasToken
<1>5. "GOO" \in Words /\ "ACK" \in Words /\ "SB" \in Words /\ "SYN" \in Words /\ "block" \in Words
  BY DEF Words
<1>6. /\ Awaited \in Nat /\ Offered \in Nat
      /\ \A x \in Items(toR) : IsBlock(x) => Place(x) \in Nat
  BY NumbersAre
<1>7. /\ Has(toS, "GOO")
      /\ \A w \in Words : Has(toS', w) => HasPair(toS, "GOO", w)
  BY HasBehind DEF Has
<1>8. rAt \notin RecvEnds => rAt = "ackData" /\ Awaited = Offered + 1 /\ ~Has(toS', "GOO")
  BY <1>1, <1>7, <1>5 DEF Lockstep, Opening, InStep, Replied, SendEnds, RecvEnds, Ended
<1>9. rAt \in {"ackData", "err"} /\ ~Has(toS, "SYN") /\ (rAt # "err" => ~Has(toR, "SYN"))
  BY <1>8 DEF Parting, RecvEnds, Ended, RecvPlaces, Shaped
<1>10. \A x \in Items(toR) : IsBlock(x) => Place(x) < Offered + 1
  BY <1>1, <1>6 DEF Outgoing, SendEnds, Ended
<1>11. Place(b) >= 2
  BY <1>1, NumbersAre DEF Prepared
<1>12. Prepared'
  BY <1>8, <1>9, <1>10, <1>11 DEF Prepared
<1>13. Outgoing'
  BY <1>1, <1>4, <1>6, <1>8, <1>9, <1>10, <1>11 DEF Outgoing, SendEnds, Ended
<1>14. Incoming'
  BY <1>1, <1>4, <1>5, <1>6, <1>8, <1>9, <1>10, <1>11 DEF Incoming, RecvEnds, Ended
<1>15. Received'
  BY <1>8, <1>9, <1>10, <1>11 DEF Received, StoredIsPrefix
<1>16. Lockstep'
  BY <1>1, <1>2, <1>3, <1>5, <1>7, <1>8, <1>9, <1>10, <1>11
    DEF Lockstep, Opening, InStep, Replied, SendEnds, RecvEnds, Ended
<1>17. Parting'
  BY <1>1, <1>2, <1>3, <1>4, <1>5, <1>6, <1>7, <1>8, <1>9, <1>10, <1>11
    DEF Parting, RecvEnds, Ended
<1> QED
  BY <1>12, <1>13, <1>14, <1>15, <1>16, <1>17

(* It sends a block again.                                                    *)
LEMMA SendBlockAgain ==
  ASSUME PunterInv,
         Shaped',
         sAt \in {"type", "info", "data"},
         sAt' = sAt,
         UNCHANGED <<sBlk, ahead, isLast, rAt, stored>>,
         Grows(toR', toR, {sBlk}),
         Grows(toS', toS, {})
  PROVE  PunterInv'
<1> USE DEF PunterInv
<1>1. /\ Awaited' = Awaited /\ Offered' = Offered /\ Offered = Place(sBlk) /\ IsBlock(sBlk)
  BY DEF Awaited, Offered, Prepared, TypeBlock, Item, Place, IsBlock, Header
<1>2. /\ \A w \in Words : Has(toR', w) => Has(toR, w) \/ w = "block"
      /\ \A u, w \in Words : HasPair(toR', u, w) => HasPair(toR, u, w) \/ (Has(toR, u) /\ w = "block")
      /\ \A u, w : HasPair(toR, u, w) => Has(toR, u) /\ Has(toR, w)
  BY HasBlock, <1>1
<1>3. /\ \A w \in Words : Has(toS', w) => Has(toS, w)
      /\ \A u, w \in Words : HasPair(toS', u, w) => HasPair(toS, u, w)
      /\ \A u, w : HasPair(toS, u, w) => Has(toS, u) /\ Has(toS, w)
  BY HasLess
<1>4. /\ \A x \in Items(toR') : IsBlock(x) => x \in Items(toR) \/ x = sBlk
      /\ \A p \in Pairs(toR') : p[1].what = "ACK" /\ IsBlock(p[2]) =>
           p \in Pairs(toR) \/ (Has(toR, "ACK") /\ p[2] = sBlk)
      /\ \A p \in Pairs(toR') : IsBlock(p[1]) /\ p[2].what = "ACK" => p \in Pairs(toR)
  BY HasBlock, <1>1
<1>5. "GOO" \in Words /\ "ACK" \in Words /\ "SB" \in Words /\ "SYN" \in Words /\ "block" \in Words
  BY DEF Words
<1>6. /\ Awaited \in Nat /\ Offered \in Nat
      /\ \A x \in Items(toR) : IsBlock(x) => Place(x) \in Nat
  BY NumbersAre
<1>7. rAt \notin RecvEnds => Awaited = Offered \/ Awaited = Offered + 1
  BY <1>6 DEF Lockstep, Opening, InStep, Replied, SendEnds, RecvEnds, Ended
<1>8. rAt \notin RecvEnds => (rAt \in {"type", "info", "data"} \/ Has(toR, "ACK") => Awaited = Offered)
  BY <1>6 DEF Lockstep, Opening, InStep, Replied, SendEnds, RecvEnds, Ended
<1>9. Prepared'
  BY <1>7, <1>8 DEF Prepared
<1>10. Outgoing'
  BY <1>1, <1>4, <1>6, <1>7, <1>8 DEF Outgoing, SendEnds, Ended
<1>11. Incoming'
  BY <1>1, <1>4, <1>5, <1>6, <1>7, <1>8 DEF Incoming, RecvEnds, Ended
<1>12. Received'
  BY <1>7, <1>8 DEF Received, StoredIsPrefix
<1>13. Lockstep'
  BY <1>1, <1>2, <1>3, <1>5, <1>7, <1>8
    DEF Lockstep, Opening, InStep, Replied, SendEnds, RecvEnds, Ended
<1>14. Parting'
  BY <1>1, <1>2, <1>3, <1>4, <1>5, <1>6, <1>7, <1>8 DEF Parting, RecvEnds, Ended
<1> QED
  BY <1>9, <1>10, <1>11, <1>12, <1>13, <1>14

(* The steps of punter_recv.  It says GOO, and again.                         *)
LEMMA RecvGooAgain ==
  ASSUME PunterInv,
         Shaped',
         rAt \in {"off", "goo"},
         rAt' = "goo",
         UNCHANGED <<sAt, sBlk, ahead, isLast, stored>>,
         Grows(toR', toR, {}),
         Grows(toS', toS, {Token("GOO")})
  PROVE  PunterInv'
<1> USE DEF PunterInv
<1>1. Awaited' = Awaited /\ Offered' = Offered
  BY DEF Awaited, Offered
<1>2. /\ \A w \in Words : Has(toR', w) => Has(toR, w)
      /\ \A u, w \in Words : HasPair(toR', u, w) => HasPair(toR, u, w)
      /\ \A u, w : HasPair(toR, u, w) => Has(toR, u) /\ Has(toR, w)
  BY HasLess
<1>3. /\ \A w \in Words : Has(toS', w) => Has(toS, w) \/ w = "GOO"
      /\ \A u, w \in Words : HasPair(toS', u, w) => HasPair(toS, u, w) \/ (Has(toS, u) /\ w = "GOO")
      /\ \A u, w : HasPair(toS, u, w) => Has(toS, u) /\ Has(toS, w)
  BY HasToken
<1>4. /\ \A x \in Items(toR') : IsBlock(x) => x \in Items(toR)
      /\ \A p \in Pairs(toR') : p[1].what = "ACK" /\ IsBlock(p[2]) => p \in Pairs(toR)
      /\ \A p \in Pairs(toR') : IsBlock(p[1]) /\ p[2].what = "ACK" => p \in Pairs(toR)
  BY HasLess
<1>5. "GOO" \in Words /\ "ACK" \in Words /\ "SB" \in Words /\ "SYN" \in Words /\ "block" \in Words
  BY DEF Words
<1>6. /\ Awaited \in Nat /\ Offered \in Nat
      /\ \A x \in Items(toR) : IsBlock(x) => Place(x) \in Nat
  BY NumbersAre
<1>7. sAt \in {"off", "goo", "ackType"} \cup SendEnds
  BY <1>1, <1>6
    DEF Awaited, Offered, Shaped, SendPlaces, Lockstep, Opening, InStep, Replied, Parting, SendEnds, RecvEnds, Ended
<1>8. Prepared'
  BY <1>7 DEF Prepared
<1>9. Outgoing'
  BY <1>1, <1>4, <1>6, <1>7 DEF Outgoing, SendEnds, Ended
<1>10. Incoming'
  BY <1>1, <1>4, <1>5, <1>6, <1>7 DEF Incoming, RecvEnds, Ended
<1>11. Received'
  BY <1>7 DEF Received, StoredIsPrefix
<1>12. Lockstep'
  BY <1>1, <1>2, <1>3, <1>5, <1>7
    DEF Lockstep, Opening, InStep, Replied, SendEnds, RecvEnds, Ended
<1>13. Parting'
  BY <1>1, <1>2, <1>3, <1>4, <1>5, <1>6, <1>7 DEF Parting, RecvEnds, Ended
<1> QED
  BY <1>8, <1>9, <1>10, <1>11, <1>12, <1>13

(* It hears GOO.                                                              *)
LEMMA RecvGoo ==
  ASSUME PunterInv,
         Shaped',
         rAt = "goo",
         rAt' = "ackType",
         UNCHANGED <<sAt, sBlk, ahead, isLast, stored>>,
         NEW h \in Items(toR),
         h.what = "GOO",
         Follows(toR', toR, h),
         Grows(toR', toR, {}),
         Grows(toS', toS, {})
  PROVE  PunterInv'
<1> USE DEF PunterInv
<1>1. Awaited' = Awaited /\ Offered' = Offered
  BY DEF Awaited, Offered
<1>2. /\ \A w \in Words : Has(toR', w) => Has(toR, w)
      /\ \A u, w \in Words : HasPair(toR', u, w) => HasPair(toR, u, w)
      /\ \A u, w : HasPair(toR, u, w) => Has(toR, u) /\ Has(toR, w)
  BY HasLess
<1>3. /\ \A w \in Words : Has(toS', w) => Has(toS, w)
      /\ \A u, w \in Words : HasPair(toS', u, w) => HasPair(toS, u, w)
      /\ \A u, w : HasPair(toS, u, w) => Has(toS, u) /\ Has(toS, w)
  BY HasLess
<1>4. /\ \A x \in Items(toR') : IsBlock(x) => x \in Items(toR)
      /\ \A p \in Pairs(toR') : p[1].what = "ACK" /\ IsBlock(p[2]) => p \in Pairs(toR)
      /\ \A p \in Pairs(toR') : IsBlock(p[1]) /\ p[2].what = "ACK" => p \in Pairs(toR)
  BY HasLess
<1>5. "GOO" \in Words /\ "ACK" \in Words /\ "SB" \in Words /\ "SYN" \in Words /\ "block" \in Words
  BY DEF Words
<1>6. /\ Awaited \in Nat /\ Offered \in Nat
      /\ \A x \in Items(toR) : IsBlock(x) => Place(x) \in Nat
  BY NumbersAre
<1>7. /\ Has(toR, "GOO")
      /\ \A w \in Words : Has(toR', w) => HasPair(toR, "GOO", w)
  BY HasBehind DEF Has
<1>8. \A x \in Items(toR') : IsBlock(x) => <<h, x>> \in Pairs(toR)
  BY HasBehind
<1>9. sAt \in {"goo", "ackType"} \cup SendEnds
  BY <1>1, <1>6, <1>7
    DEF Awaited, Offered, Shaped, SendPlaces, Lockstep, Opening, InStep, Replied, Parting, SendEnds, RecvEnds, Ended
<1>10. Prepared'
  BY <1>9 DEF Prepared
<1>11. Outgoing'
  BY <1>1, <1>4, <1>6, <1>9 DEF Outgoing, SendEnds, Ended
<1>12. Incoming'
  BY <1>1, <1>4, <1>5, <1>6, <1>9 DEF Incoming, RecvEnds, Ended
<1>13. Received'
  BY <1>9 DEF Received, StoredIsPrefix
<1>14. Lockstep'
  BY <1>1, <1>2, <1>3, <1>5, <1>7, <1>9
    DEF Lockstep, Opening, InStep, Replied, SendEnds, RecvEnds, Ended
<1>15. Parting'
  BY <1>1, <1>2, <1>3, <1>4, <1>5, <1>6, <1>7, <1>9 DEF Parting, RecvEnds, Ended
<1> QED
  BY <1>10, <1>11, <1>12, <1>13, <1>14, <1>15

(* It hears the ACK and is ready for the type block.                          *)
LEMMA RecvAckType ==
  ASSUME PunterInv,
         Shaped',
         rAt = "ackType",
         rAt' = "type",
         UNCHANGED <<sAt, sBlk, ahead, isLast, stored>>,
         NEW h \in Items(toR),
         h.what = "ACK",
         Follows(toR', toR, h),
         Grows(toR', toR, {}),
         Grows(toS', toS, {Token("SB")})
  PROVE  PunterInv'
<1> USE DEF PunterInv
<1>1. Awaited' = Awaited /\ Offered' = Offered
  BY DEF Awaited, Offered
<1>2. /\ \A w \in Words : Has(toR', w) => Has(toR, w)
      /\ \A u, w \in Words : HasPair(toR', u, w) => HasPair(toR, u, w)
      /\ \A u, w : HasPair(toR, u, w) => Has(toR, u) /\ Has(toR, w)
  BY HasLess
<1>3. /\ \A w \in Words : Has(toS', w) => Has(toS, w) \/ w = "SB"
      /\ \A u, w \in Words : HasPair(toS', u, w) => HasPair(toS, u, w) \/ (Has(toS, u) /\ w = "SB")
      /\ \A u, w : HasPair(toS, u, w) => Has(toS, u) /\ Has(toS, w)
  BY HasToken
<1>4. /\ \A x \in Items(toR') : IsBlock(x) => x \in Items(toR)
      /\ \A p \in Pairs(toR') : p[1].what = "ACK" /\ IsBlock(p[2]) => p \in Pairs(toR)
      /\ \A p \in Pairs(toR') : IsBlock(p[1]) /\ p[2].what = "ACK" => p \in Pairs(toR)
  BY HasLess
<1>5. "GOO" \in Words /\ "ACK" \in Words /\ "SB" \in Words /\ "SYN" \in Words /\ "block" \in Words
  BY DEF Words
<1>6. /\ Awaited \in Nat /\ Offered \in Nat
      /\ \A x \in Items(toR) : IsBlock(x) => Place(x) \in Nat
  BY NumbersAre
<1>7. /\ Has(toR, "ACK")
      /\ \A w \in Words : Has(toR', w) => HasPair(toR, "ACK", w)
  BY HasBehind DEF Has
<1>8. \A x \in Items(toR') : IsBlock(x) => <<h, x>> \in Pairs(toR)
  BY HasBehind
<1>9. sAt \in {"ackType"} \cup SendEnds
  BY <1>1, <1>6, <1>7
    DEF Awaited, Offered, Shaped, SendPlaces, Lockstep, Opening, InStep, Replied, Parting, SendEnds, RecvEnds, Ended
<1>10. Prepared'
  BY <1>9 DEF Prepared
<1>11. Outgoing'
  BY <1>1, <1>4, <1>6, <1>9 DEF Outgoing, SendEnds, Ended
<1>12. Incoming'
  BY <1>1, <1>4, <1>5, <1>6, <1>9, <1>8 DEF Incoming, RecvEnds, Ended
<1>13. Received'
  BY <1>9 DEF Received, StoredIsPrefix
<1>14. Lockstep'
  BY <1>1, <1>2, <1>3, <1>5, <1>7, <1>9
    DEF Lockstep, Opening, InStep, Replied, SendEnds, RecvEnds, Ended
<1>15. Parting'
  BY <1>1, <1>2, <1>3, <1>4, <1>5, <1>6, <1>7, <1>9 DEF Parting, RecvEnds, Ended
<1> QED
  BY <1>10, <1>11, <1>12, <1>13, <1>14, <1>15

(* It takes the type block.                                                   *)
LEMMA RecvType ==
  ASSUME PunterInv,
         Shaped',
         rAt = "type",
         rAt' = "ackA",
         UNCHANGED <<sAt, sBlk, ahead, isLast, stored>>,
         NEW h \in Items(toR),
         h.what = "block",
         Follows(toR', toR, h),
         Grows(toR', toR, {}),
         Grows(toS', toS, {Token("GOO")})
  PROVE  PunterInv'
<1> USE DEF PunterInv
<1>1. Awaited = 0 /\ Awaited' = 1 /\ Offered' = Offered
  BY DEF Awaited, Offered
<1>2. /\ \A w \in Words : Has(toR', w) => Has(toR, w)
      /\ \A u, w \in Words : HasPair(toR', u, w) => HasPair(toR, u, w)
      /\ \A u, w : HasPair(toR, u, w) => Has(toR, u) /\ Has(toR, w)
  BY HasLess
<1>3. /\ \A w \in Words : Has(toS', w) => Has(toS, w) \/ w = "GOO"
      /\ \A u, w \in Words : HasPair(toS', u, w) => HasPair(toS, u, w) \/ (Has(toS, u) /\ w = "GOO")
      /\ \A u, w : HasPair(toS, u, w) => Has(toS, u) /\ Has(toS, w)
  BY HasToken
<1>4. /\ \A x \in Items(toR') : IsBlock(x) => x \in Items(toR)
      /\ \A p \in Pairs(toR') : p[1].what = "ACK" /\ IsBlock(p[2]) => p \in Pairs(toR)
      /\ \A p \in Pairs(toR') : IsBlock(p[1]) /\ p[2].what = "ACK" => p \in Pairs(toR)
  BY HasLess
<1>5. "GOO" \in Words /\ "ACK" \in Words /\ "SB" \in Words /\ "SYN" \in Words /\ "block" \in Words
  BY DEF Words
<1>6. /\ Awaited \in Nat /\ Offered \in Nat
      /\ \A x \in Items(toR) : IsBlock(x) => Place(x) \in Nat
  BY NumbersAre
<1>7. /\ Has(toR, "block")
      /\ \A w \in Words : Has(toR', w) => HasPair(toR, "block", w)
  BY HasBehind DEF Has
<1>8. \A x \in Items(toR') : IsBlock(x) => <<h, x>> \in Pairs(toR)
  BY HasBehind
<1>9. ~Has(toR', "ACK") /\ Place(h) = Awaited
  <2>1. ASSUME Has(toR', "ACK") PROVE FALSE
    <3>1. PICK p \in Pairs(toR) : p[1].what = "block" /\ p[2].what = "ACK"
      BY <2>1, <1>7, <1>5 DEF HasPair
    <3>2. p[1] \in Items(toR) /\ IsBlock(p[1])
      BY <3>1, PairsAreItems DEF IsBlock
    <3> QED
      BY <3>1, <3>2 DEF Incoming, RecvEnds, Ended, IsBlock
  <2>2. Place(h) = Awaited
    BY DEF Incoming, RecvEnds, Ended, IsBlock
  <2> QED
    BY <2>1, <2>2
<1>10. \A p \in Pairs(toR') : p[1].what # "ACK" /\ p[2].what # "ACK"
  BY <1>9, PairsAreItems DEF Has
<1>11. sAt \in {"type"} \cup SendEnds /\ (sAt \notin SendEnds => Offered = 0 /\ ~Has(toS, "GOO"))
  BY <1>1, <1>6, <1>7, <1>9
    DEF Offered, Outgoing, IsBlock, Shaped, SendPlaces, Lockstep, Opening, InStep, Replied, Parting, SendEnds, RecvEnds, Ended
<1>12. Prepared'
  BY <1>9, <1>10, <1>11 DEF Prepared
<1>13. Outgoing'
  BY <1>1, <1>4, <1>6, <1>9, <1>10, <1>11 DEF Outgoing, SendEnds, Ended
<1>14. Incoming'
  BY <1>1, <1>4, <1>5, <1>6, <1>9, <1>10, <1>11 DEF Incoming, RecvEnds, Ended
<1>15. Received'
  BY <1>9, <1>10, <1>11 DEF Received, StoredIsPrefix
<1>16. Lockstep'
  BY <1>1, <1>2, <1>3, <1>5, <1>7, <1>9, <1>10, <1>11
    DEF Lockstep, Opening, InStep, Replied, SendEnds, RecvEnds, Ended
<1>17. Parting'
  BY <1>1, <1>2, <1>3, <1>4, <1>5, <1>6, <1>7, <1>9, <1>10, <1>11
    DEF Parting, RecvEnds, Ended
<1> QED
  BY <1>12, <1>13, <1>14, <1>15, <1>16, <1>17

(* It hears the ACK that ends the first phase.                                *)
LEMMA RecvAckA ==
  ASSUME PunterInv,
         Shaped',
         rAt = "ackA",
         rAt' = "syncA",
         UNCHANGED <<sAt, sBlk, ahead, isLast, stored>>,
         NEW h \in Items(toR),
         h.what = "ACK",
         Follows(toR', toR, h),
         Grows(toR', toR, {}),
         Grows(toS', toS, {Token("SB")})
  PROVE  PunterInv'
<1> USE DEF PunterInv
<1>1. Awaited' = Awaited /\ Offered' = Offered
  BY DEF Awaited, Offered
<1>2. /\ \A w \in Words : Has(toR', w) => Has(toR, w)
      /\ \A u, w \in Words : HasPair(toR', u, w) => HasPair(toR, u, w)
      /\ \A u, w : HasPair(toR, u, w) => Has(toR, u) /\ Has(toR, w)
  BY HasLess
<1>3. /\ \A w \in Words : Has(toS', w) => Has(toS, w) \/ w = "SB"
      /\ \A u, w \in Words : HasPair(toS', u, w) => HasPair(toS, u, w) \/ (Has(toS, u) /\ w = "SB")
      /\ \A u, w : HasPair(toS, u, w) => Has(toS, u) /\ Has(toS, w)
  BY HasToken
<1>4. /\ \A x \in Items(toR') : IsBlock(x) => x \in Items(toR)
      /\ \A p \in Pairs(toR') : p[1].what = "ACK" /\ IsBlock(p[2]) => p \in Pairs(toR)
      /\ \A p \in Pairs(toR') : IsBlock(p[1]) /\ p[2].what = "ACK" => p \in Pairs(toR)
  BY HasLess
<1>5. "GOO" \in Words /\ "ACK" \in Words /\ "SB" \in Words /\ "SYN" \in Words /\ "block" \in Words
  BY DEF Words
<1>6. /\ Awaited \in Nat /\ Offered \in Nat
      /\ \A x \in Items(toR) : IsBlock(x) => Place(x) \in Nat
  BY NumbersAre
<1>7. /\ Has(toR, "ACK")
      /\ \A w \in Words : Has(toR', w) => HasPair(toR, "ACK", w)
  BY HasBehind DEF Has
<1>8. \A x \in Items(toR') : IsBlock(x) => <<h, x>> \in Pairs(toR)
  BY HasBehind
<1>9. sAt \in {"ackA", "syncA"} \cup SendEnds
  BY <1>1, <1>6, <1>7
    DEF Awaited, Offered, Shaped, SendPlaces, Lockstep, Opening, InStep, Replied, Parting, SendEnds, RecvEnds, Ended
<1>10. Prepared'
  BY <1>9 DEF Prepared
<1>11. Outgoing'
  BY <1>1, <1>4, <1>6, <1>9 DEF Outgoing, SendEnds, Ended
<1>12. Incoming'
  BY <1>1, <1>4, <1>5, <1>6, <1>9 DEF Incoming, RecvEnds, Ended
<1>13. Received'
  BY <1>9 DEF Received, StoredIsPrefix
<1>14. Lockstep'
  BY <1>1, <1>2, <1>3, <1>5, <1>7, <1>9
    DEF Lockstep, Opening, InStep, Replied, SendEnds, RecvEnds, Ended
<1>15. Parting'
  BY <1>1, <1>2, <1>3, <1>4, <1>5, <1>6, <1>7, <1>9 DEF Parting, RecvEnds, Ended
<1> QED
  BY <1>10, <1>11, <1>12, <1>13, <1>14, <1>15

(* It answers SYN.                                                            *)
LEMMA RecvSyncA ==
  ASSUME PunterInv,
         Shaped',
         rAt = "syncA",
         rAt' = "endA",
         UNCHANGED <<sAt, sBlk, ahead, isLast, stored>>,
         NEW h \in Items(toR),
         h.what = "SYN",
         Follows(toR', toR, h),
         Grows(toR', toR, {}),
         Grows(toS', toS, {Token("SYN")})
  PROVE  PunterInv'
<1> USE DEF PunterInv
<1>1. Awaited' = Awaited /\ Offered' = Offered
  BY DEF Awaited, Offered
<1>2. /\ \A w \in Words : Has(toR', w) => Has(toR, w)
      /\ \A u, w \in Words : HasPair(toR', u, w) => HasPair(toR, u, w)
      /\ \A u, w : HasPair(toR, u, w) => Has(toR, u) /\ Has(toR, w)
  BY HasLess
<1>3. /\ \A w \in Words : Has(toS', w) => Has(toS, w) \/ w = "SYN"
      /\ \A u, w \in Words : HasPair(toS', u, w) => HasPair(toS, u, w) \/ (Has(toS, u) /\ w = "SYN")
      /\ \A u, w : HasPair(toS, u, w) => Has(toS, u) /\ Has(toS, w)
  BY HasToken
<1>4. /\ \A x \in Items(toR') : IsBlock(x) => x \in Items(toR)
      /\ \A p \in Pairs(toR') : p[1].what = "ACK" /\ IsBlock(p[2]) => p \in Pairs(toR)
      /\ \A p \in Pairs(toR') : IsBlock(p[1]) /\ p[2].what = "ACK" => p \in Pairs(toR)
  BY HasLess
<1>5. "GOO" \in Words /\ "ACK" \in Words /\ "SB" \in Words /\ "SYN" \in Words /\ "block" \in Words
  BY DEF Words
<1>6. /\ Awaited \in Nat /\ Offered \in Nat
      /\ \A x \in Items(toR) : IsBlock(x) => Place(x) \in Nat
  BY NumbersAre
<1>7. /\ Has(toR, "SYN")
      /\ \A w \in Words : Has(toR', w) => HasPair(toR, "SYN", w)
  BY HasBehind DEF Has
<1>8. \A x \in Items(toR') : IsBlock(x) => <<h, x>> \in Pairs(toR)
  BY HasBehind
<1>9. sAt \in {"syncA", "err"} /\ ~Has(toR, "SB") /\ (sAt = "syncA" => ~Has(toS, "SYN"))
  BY <1>1, <1>6, <1>7
    DEF Awaited, Offered, Shaped, SendPlaces, Lockstep, Opening, InStep, Replied, Parting, SendEnds, RecvEnds, Ended
<1>10. Prepared'
  BY <1>9 DEF Prepared
<1>11. Outgoing'
  BY <1>1, <1>4, <1>6, <1>9 DEF Outgoing, SendEnds, Ended
<1>12. Incoming'
  BY <1>1, <1>4, <1>5, <1>6, <1>9 DEF Incoming, RecvEnds, Ended
<1>13. Received'
  BY <1>9 DEF Received, StoredIsPrefix
<1>14. Lockstep'
  BY <1>1, <1>2, <1>3, <1>5, <1>7, <1>9
    DEF Lockstep, Opening, InStep, Replied, SendEnds, RecvEnds, Ended
<1>15. Parting'
  BY <1>1, <1>2, <1>3, <1>4, <1>5, <1>6, <1>7, <1>9 DEF Parting, RecvEnds, Ended
<1> QED
  BY <1>10, <1>11, <1>12, <1>13, <1>14, <1>15

(* It hears S/B and is ready for blocks.                                      *)
LEMMA RecvEndA ==
  ASSUME PunterInv,
         Shaped',
         rAt = "endA",
         rAt' = "ackInfo",
         UNCHANGED <<sAt, sBlk, ahead, isLast, stored>>,
         NEW h \in Items(toR),
         h.what = "SB",
         Follows(toR', toR, h),
         Grows(toR', toR, {}),
         Grows(toS', toS, {Token("GOO")})
  PROVE  PunterInv'
<1> USE DEF PunterInv
<1>1. Awaited' = Awaited /\ Offered' = Offered
  BY DEF Awaited, Offered
<1>2. /\ \A w \in Words : Has(toR', w) => Has(toR, w)
      /\ \A u, w \in Words : HasPair(toR', u, w) => HasPair(toR, u, w)
      /\ \A u, w : HasPair(toR, u, w) => Has(toR, u) /\ Has(toR, w)
  BY HasLess
<1>3. /\ \A w \in Words : Has(toS', w) => Has(toS, w) \/ w = "GOO"
      /\ \A u, w \in Words : HasPair(toS', u, w) => HasPair(toS, u, w) \/ (Has(toS, u) /\ w = "GOO")
      /\ \A u, w : HasPair(toS, u, w) => Has(toS, u) /\ Has(toS, w)
  BY HasToken
<1>4. /\ \A x \in Items(toR') : IsBlock(x) => x \in Items(toR)
      /\ \A p \in Pairs(toR') : p[1].what = "ACK" /\ IsBlock(p[2]) => p \in Pairs(toR)
      /\ \A p \in Pairs(toR') : IsBlock(p[1]) /\ p[2].what = "ACK" => p \in Pairs(toR)
  BY HasLess
<1>5. "GOO" \in Words /\ "ACK" \in Words /\ "SB" \in Words /\ "SYN" \in Words /\ "block" \in Words
  BY DEF Words
<1>6. /\ Awaited \in Nat /\ Offered \in Nat
      /\ \A x \in Items(toR) : IsBlock(x) => Place(x) \in Nat
  BY NumbersAre
<1>7. /\ Has(toR, "SB")
      /\ \A w \in Words : Has(toR', w) => HasPair(toR, "SB", w)
  BY HasBehind DEF Has
<1>8. \A x \in Items(toR') : IsBlock(x) => <<h, x>> \in Pairs(toR)
  BY HasBehind
<1>9. sAt \in {"ready"} \cup SendEnds /\ ~Has(toR', "SYN")
  BY <1>1, <1>6, <1>7, <1>5
    DEF Awaited, Offered, Shaped, SendPlaces, Lockstep, Opening, InStep, Replied, Parting, SendEnds, RecvEnds, Ended
<1>10. Prepared'
  BY <1>9 DEF Prepared
<1>11. Outgoing'
  BY <1>1, <1>4, <1>6, <1>9 DEF Outgoing, SendEnds, Ended
<1>12. Incoming'
  BY <1>1, <1>4, <1>5, <1>6, <1>9 DEF Incoming, RecvEnds, Ended
<1>13. Received'
  BY <1>9 DEF Received, StoredIsPrefix
<1>14. Lockstep'
  BY <1>1, <1>2, <1>3, <1>5, <1>7, <1>9
    DEF Lockstep, Opening, InStep, Replied, SendEnds, RecvEnds, Ended
<1>15. Parting'
  BY <1>1, <1>2, <1>3, <1>4, <1>5, <1>6, <1>7, <1>9 DEF Parting, RecvEnds, Ended
<1> QED
  BY <1>10, <1>11, <1>12, <1>13, <1>14, <1>15

(* It hears the ACK before the block that says how long the first will be.    *)
LEMMA RecvAckInfo ==
  ASSUME PunterInv,
         Shaped',
         rAt = "ackInfo",
         rAt' = "info",
         UNCHANGED <<sAt, sBlk, ahead, isLast, stored>>,
         NEW h \in Items(toR),
         h.what = "ACK",
         Follows(toR', toR, h),
         Grows(toR', toR, {}),
         Grows(toS', toS, {Token("SB")})
  PROVE  PunterInv'
<1> USE DEF PunterInv
<1>1. Awaited' = Awaited /\ Offered' = Offered
  BY DEF Awaited, Offered
<1>2. /\ \A w \in Words : Has(toR', w) => Has(toR, w)
      /\ \A u, w \in Words : HasPair(toR', u, w) => HasPair(toR, u, w)
      /\ \A u, w : HasPair(toR, u, w) => Has(toR, u) /\ Has(toR, w)
  BY HasLess
<1>3. /\ \A w \in Words : Has(toS', w) => Has(toS, w) \/ w = "SB"
      /\ \A u, w \in Words : HasPair(toS', u, w) => HasPair(toS, u, w) \/ (Has(toS, u) /\ w = "SB")
      /\ \A u, w : HasPair(toS, u, w) => Has(toS, u) /\ Has(toS, w)
  BY HasToken
<1>4. /\ \A x \in Items(toR') : IsBlock(x) => x \in Items(toR)
      /\ \A p \in Pairs(toR') : p[1].what = "ACK" /\ IsBlock(p[2]) => p \in Pairs(toR)
      /\ \A p \in Pairs(toR') : IsBlock(p[1]) /\ p[2].what = "ACK" => p \in Pairs(toR)
  BY HasLess
<1>5. "GOO" \in Words /\ "ACK" \in Words /\ "SB" \in Words /\ "SYN" \in Words /\ "block" \in Words
  BY DEF Words
<1>6. /\ Awaited \in Nat /\ Offered \in Nat
      /\ \A x \in Items(toR) : IsBlock(x) => Place(x) \in Nat
  BY NumbersAre
<1>7. /\ Has(toR, "ACK")
      /\ \A w \in Words : Has(toR', w) => HasPair(toR, "ACK", w)
  BY HasBehind DEF Has
<1>8. \A x \in Items(toR') : IsBlock(x) => <<h, x>> \in Pairs(toR)
  BY HasBehind
<1>9. sAt \in {"ackInfo", "info"} \cup SendEnds
  BY <1>1, <1>6, <1>7
    DEF Awaited, Offered, Shaped, SendPlaces, Lockstep, Opening, InStep, Replied, Parting, SendEnds, RecvEnds, Ended
<1>10. Prepared'
  BY <1>9 DEF Prepared
<1>11. Outgoing'
  BY <1>1, <1>4, <1>6, <1>9 DEF Outgoing, SendEnds, Ended
<1>12. Incoming'
  BY <1>1, <1>4, <1>5, <1>6, <1>9, <1>8 DEF Incoming, RecvEnds, Ended
<1>13. Received'
  BY <1>9 DEF Received, StoredIsPrefix
<1>14. Lockstep'
  BY <1>1, <1>2, <1>3, <1>5, <1>7, <1>9
    DEF Lockstep, Opening, InStep, Replied, SendEnds, RecvEnds, Ended
<1>15. Parting'
  BY <1>1, <1>2, <1>3, <1>4, <1>5, <1>6, <1>7, <1>9 DEF Parting, RecvEnds, Ended
<1> QED
  BY <1>10, <1>11, <1>12, <1>13, <1>14, <1>15

(* It takes that block.                                                       *)
LEMMA RecvInfo ==
  ASSUME PunterInv,
         Shaped',
         rAt = "info",
         rAt' = "ackData",
         UNCHANGED <<sAt, sBlk, ahead, isLast, stored>>,
         NEW h \in Items(toR),
         h.what = "block",
         Follows(toR', toR, h),
         Grows(toR', toR, {}),
         Grows(toS', toS, {Token("GOO")})
  PROVE  PunterInv'
<1> USE DEF PunterInv
<1>1. Awaited = 1 /\ Awaited' = 2 /\ Offered' = Offered
  BY DEF Awaited, Offered, Received
<1>2. /\ \A w \in Words : Has(toR', w) => Has(toR, w)
      /\ \A u, w \in Words : HasPair(toR', u, w) => HasPair(toR, u, w)
      /\ \A u, w : HasPair(toR, u, w) => Has(toR, u) /\ Has(toR, w)
  BY HasLess
<1>3. /\ \A w \in Words : Has(toS', w) => Has(toS, w) \/ w = "GOO"
      /\ \A u, w \in Words : HasPair(toS', u, w) => HasPair(toS, u, w) \/ (Has(toS, u) /\ w = "GOO")
      /\ \A u, w : HasPair(toS, u, w) => Has(toS, u) /\ Has(toS, w)
  BY HasToken
<1>4. /\ \A x \in Items(toR') : IsBlock(x) => x \in Items(toR)
      /\ \A p \in Pairs(toR') : p[1].what = "ACK" /\ IsBlock(p[2]) => p \in Pairs(toR)
      /\ \A p \in Pairs(toR') : IsBlock(p[1]) /\ p[2].what = "ACK" => p \in Pairs(toR)
  BY HasLess
<1>5. "GOO" \in Words /\ "ACK" \in Words /\ "SB" \in Words /\ "SYN" \in Words /\ "block" \in Words
  BY DEF Words
<1>6. /\ Awaited \in Nat /\ Offered \in Nat
      /\ \A x \in Items(toR) : IsBlock(x) => Place(x) \in Nat
  BY NumbersAre
<1>7. /\ Has(toR, "block")
      /\ \A w \in Words : Has(toR', w) => HasPair(toR, "block", w)
  BY HasBehind DEF Has
<1>8. \A x \in Items(toR') : IsBlock(x) => <<h, x>> \in Pairs(toR)
  BY HasBehind
<1>9. ~Has(toR', "ACK") /\ Place(h) = Awaited
  <2>1. ASSUME Has(toR', "ACK") PROVE FALSE
    <3>1. PICK p \in Pairs(toR) : p[1].what = "block" /\ p[2].what = "ACK"
      BY <2>1, <1>7, <1>5 DEF HasPair
    <3>2. p[1] \in Items(toR) /\ IsBlock(p[1])
      BY <3>1, PairsAreItems DEF IsBlock
    <3> QED
      BY <3>1, <3>2 DEF Incoming, RecvEnds, Ended, IsBlock
  <2>2. Place(h) = Awaited
    BY DEF Incoming, RecvEnds, Ended, IsBlock
  <2> QED
    BY <2>1, <2>2
<1>10. \A p \in Pairs(toR') : p[1].what # "ACK" /\ p[2].what # "ACK"
  BY <1>9, PairsAreItems DEF Has
<1>11. sAt \in {"info"} \cup SendEnds /\ (sAt \notin SendEnds => Offered = 1 /\ ~Has(toS, "GOO"))
  BY <1>1, <1>6, <1>7, <1>9
    DEF Offered, Outgoing, IsBlock, Shaped, SendPlaces, Lockstep, Opening, InStep, Replied, Parting, SendEnds, RecvEnds, Ended
<1>12. Prepared'
  BY <1>9, <1>10, <1>11 DEF Prepared
<1>13. Outgoing'
  BY <1>1, <1>4, <1>6, <1>9, <1>10, <1>11 DEF Outgoing, SendEnds, Ended
<1>14. Incoming'
  BY <1>1, <1>4, <1>5, <1>6, <1>9, <1>10, <1>11 DEF Incoming, RecvEnds, Ended
<1>15. Received'
  BY <1>9, <1>10, <1>11 DEF Received, StoredIsPrefix
<1>16. Lockstep'
  BY <1>1, <1>2, <1>3, <1>5, <1>7, <1>9, <1>10, <1>11
    DEF Lockstep, Opening, InStep, Replied, SendEnds, RecvEnds, Ended
<1>17. Parting'
  BY <1>1, <1>2, <1>3, <1>4, <1>5, <1>6, <1>7, <1>9, <1>10, <1>11
    DEF Parting, RecvEnds, Ended
<1> QED
  BY <1>12, <1>13, <1>14, <1>15, <1>16, <1>17

(* It hears the ACK before a chunk.                                           *)
LEMMA RecvAckData ==
  ASSUME PunterInv,
         Shaped',
         rAt = "ackData",
         rAt' = "data",
         UNCHANGED <<sAt, sBlk, ahead, isLast, stored>>,
         NEW h \in Items(toR),
         h.what = "ACK",
         Follows(toR', toR, h),
         Grows(toR', toR, {}),
         Grows(toS', toS, {Token("SB")})
  PROVE  PunterInv'
<1> USE DEF PunterInv
<1>1. Awaited' = Awaited /\ Offered' = Offered
  BY DEF Awaited, Offered
<1>2. /\ \A w \in Words : Has(toR', w) => Has(toR, w)
      /\ \A u, w \in Words : HasPair(toR', u, w) => HasPair(toR, u, w)
      /\ \A u, w : HasPair(toR, u, w) => Has(toR, u) /\ Has(toR, w)
  BY HasLess
<1>3. /\ \A w \in Words : Has(toS', w) => Has(toS, w) \/ w = "SB"
      /\ \A u, w \in Words : HasPair(toS', u, w) => HasPair(toS, u, w) \/ (Has(toS, u) /\ w = "SB")
      /\ \A u, w : HasPair(toS, u, w) => Has(toS, u) /\ Has(toS, w)
  BY HasToken
<1>4. /\ \A x \in Items(toR') : IsBlock(x) => x \in Items(toR)
      /\ \A p \in Pairs(toR') : p[1].what = "ACK" /\ IsBlock(p[2]) => p \in Pairs(toR)
      /\ \A p \in Pairs(toR') : IsBlock(p[1]) /\ p[2].what = "ACK" => p \in Pairs(toR)
  BY HasLess
<1>5. "GOO" \in Words /\ "ACK" \in Words /\ "SB" \in Words /\ "SYN" \in Words /\ "block" \in Words
  BY DEF Words
<1>6. /\ Awaited \in Nat /\ Offered \in Nat
      /\ \A x \in Items(toR) : IsBlock(x) => Place(x) \in Nat
  BY NumbersAre
<1>7. /\ Has(toR, "ACK")
      /\ \A w \in Words : Has(toR', w) => HasPair(toR, "ACK", w)
  BY HasBehind DEF Has
<1>8. \A x \in Items(toR') : IsBlock(x) => <<h, x>> \in Pairs(toR)
  BY HasBehind
<1>9. sAt \in {"ackData", "data"} \cup SendEnds
  BY <1>1, <1>6, <1>7
    DEF Awaited, Offered, Shaped, SendPlaces, Lockstep, Opening, InStep, Replied, Parting, SendEnds, RecvEnds, Ended
<1>10. Prepared'
  BY <1>9 DEF Prepared
<1>11. Outgoing'
  BY <1>1, <1>4, <1>6, <1>9 DEF Outgoing, SendEnds, Ended
<1>12. Incoming'
  BY <1>1, <1>4, <1>5, <1>6, <1>9, <1>8 DEF Incoming, RecvEnds, Ended
<1>13. Received'
  BY <1>9 DEF Received, StoredIsPrefix
<1>14. Lockstep'
  BY <1>1, <1>2, <1>3, <1>5, <1>7, <1>9
    DEF Lockstep, Opening, InStep, Replied, SendEnds, RecvEnds, Ended
<1>15. Parting'
  BY <1>1, <1>2, <1>3, <1>4, <1>5, <1>6, <1>7, <1>9 DEF Parting, RecvEnds, Ended
<1> QED
  BY <1>10, <1>11, <1>12, <1>13, <1>14, <1>15

(* A block does not come, or damaged.                                         *)
LEMMA RecvBad ==
  ASSUME PunterInv,
         Shaped',
         rAt \in {"info", "data"},
         UNCHANGED <<sAt, sBlk, ahead, isLast, stored>>,
         rAt' = IF rAt = "info" THEN "ackInfo" ELSE "ackData",
         Grows(toR', toR, {}),
         Grows(toS', toS, {Token("BAD")})
  PROVE  PunterInv'
<1> USE DEF PunterInv
<1>1. Awaited' = Awaited /\ Offered' = Offered
  BY DEF Awaited, Offered
<1>2. /\ \A w \in Words : Has(toR', w) => Has(toR, w)
      /\ \A u, w \in Words : HasPair(toR', u, w) => HasPair(toR, u, w)
      /\ \A u, w : HasPair(toR, u, w) => Has(toR, u) /\ Has(toR, w)
  BY HasLess
<1>3. /\ \A w \in Words : Has(toS', w) => Has(toS, w) \/ w = "BAD"
      /\ \A u, w \in Words : HasPair(toS', u, w) => HasPair(toS, u, w) \/ (Has(toS, u) /\ w = "BAD")
      /\ \A u, w : HasPair(toS, u, w) => Has(toS, u) /\ Has(toS, w)
  BY HasToken
<1>4. /\ \A x \in Items(toR') : IsBlock(x) => x \in Items(toR)
      /\ \A p \in Pairs(toR') : p[1].what = "ACK" /\ IsBlock(p[2]) => p \in Pairs(toR)
      /\ \A p \in Pairs(toR') : IsBlock(p[1]) /\ p[2].what = "ACK" => p \in Pairs(toR)
  BY HasLess
<1>5. "GOO" \in Words /\ "ACK" \in Words /\ "SB" \in Words /\ "SYN" \in Words /\ "block" \in Words
  BY DEF Words
<1>6. /\ Awaited \in Nat /\ Offered \in Nat
      /\ \A x \in Items(toR) : IsBlock(x) => Place(x) \in Nat
  BY NumbersAre
<1>7. (rAt = "info" => sAt \in {"ackInfo", "info"} \cup SendEnds) /\ (rAt = "data" => sAt \in {"ackData", "data"} \cup SendEnds)
  BY <1>1, <1>6
    DEF Awaited, Offered, Shaped, SendPlaces, Lockstep, Opening, InStep, Replied, Parting, SendEnds, RecvEnds, Ended
<1>8. Prepared'
  BY <1>7 DEF Prepared
<1>9. Outgoing'
  BY <1>1, <1>4, <1>6, <1>7 DEF Outgoing, SendEnds, Ended
<1>10. Incoming'
  BY <1>1, <1>4, <1>5, <1>6, <1>7 DEF Incoming, RecvEnds, Ended
<1>11. Received'
  BY <1>7 DEF Received, StoredIsPrefix
<1>12. Lockstep'
  BY <1>1, <1>2, <1>3, <1>5, <1>7
    DEF Lockstep, Opening, InStep, Replied, SendEnds, RecvEnds, Ended
<1>13. Parting'
  BY <1>1, <1>2, <1>3, <1>4, <1>5, <1>6, <1>7 DEF Parting, RecvEnds, Ended
<1> QED
  BY <1>8, <1>9, <1>10, <1>11, <1>12, <1>13

(* It hears the ACK that ends the second phase.                               *)
LEMMA RecvAckB ==
  ASSUME PunterInv,
         Shaped',
         rAt = "ackB",
         rAt' = "syncB",
         UNCHANGED <<sAt, sBlk, ahead, isLast, stored>>,
         NEW h \in Items(toR),
         h.what = "ACK",
         Follows(toR', toR, h),
         Grows(toR', toR, {}),
         Grows(toS', toS, {Token("SB")})
  PROVE  PunterInv'
<1> USE DEF PunterInv
<1>1. Awaited' = Awaited /\ Offered' = Offered
  BY DEF Awaited, Offered
<1>2. /\ \A w \in Words : Has(toR', w) => Has(toR, w)
      /\ \A u, w \in Words : HasPair(toR', u, w) => HasPair(toR, u, w)
      /\ \A u, w : HasPair(toR, u, w) => Has(toR, u) /\ Has(toR, w)
  BY HasLess
<1>3. /\ \A w \in Words : Has(toS', w) => Has(toS, w) \/ w = "SB"
      /\ \A u, w \in Words : HasPair(toS', u, w) => HasPair(toS, u, w) \/ (Has(toS, u) /\ w = "SB")
      /\ \A u, w : HasPair(toS, u, w) => Has(toS, u) /\ Has(toS, w)
  BY HasToken
<1>4. /\ \A x \in Items(toR') : IsBlock(x) => x \in Items(toR)
      /\ \A p \in Pairs(toR') : p[1].what = "ACK" /\ IsBlock(p[2]) => p \in Pairs(toR)
      /\ \A p \in Pairs(toR') : IsBlock(p[1]) /\ p[2].what = "ACK" => p \in Pairs(toR)
  BY HasLess
<1>5. "GOO" \in Words /\ "ACK" \in Words /\ "SB" \in Words /\ "SYN" \in Words /\ "block" \in Words
  BY DEF Words
<1>6. /\ Awaited \in Nat /\ Offered \in Nat
      /\ \A x \in Items(toR) : IsBlock(x) => Place(x) \in Nat
  BY NumbersAre
<1>7. /\ Has(toR, "ACK")
      /\ \A w \in Words : Has(toR', w) => HasPair(toR, "ACK", w)
  BY HasBehind DEF Has
<1>8. \A x \in Items(toR') : IsBlock(x) => <<h, x>> \in Pairs(toR)
  BY HasBehind
<1>9. sAt \in {"ackB", "syncB"} \cup SendEnds
  BY <1>1, <1>6, <1>7
    DEF Awaited, Offered, Shaped, SendPlaces, Lockstep, Opening, InStep, Replied, Parting, SendEnds, RecvEnds, Ended
<1>10. Prepared'
  BY <1>9 DEF Prepared
<1>11. Outgoing'
  BY <1>1, <1>4, <1>6, <1>9 DEF Outgoing, SendEnds, Ended
<1>12. Incoming'
  BY <1>1, <1>4, <1>5, <1>6, <1>9 DEF Incoming, RecvEnds, Ended
<1>13. Received'
  BY <1>9 DEF Received, StoredIsPrefix
<1>14. Lockstep'
  BY <1>1, <1>2, <1>3, <1>5, <1>7, <1>9
    DEF Lockstep, Opening, InStep, Replied, SendEnds, RecvEnds, Ended
<1>15. Parting'
  BY <1>1, <1>2, <1>3, <1>4, <1>5, <1>6, <1>7, <1>9 DEF Parting, RecvEnds, Ended
<1> QED
  BY <1>10, <1>11, <1>12, <1>13, <1>14, <1>15

(* It answers SYN.                                                            *)
LEMMA RecvSyncB ==
  ASSUME PunterInv,
         Shaped',
         rAt = "syncB",
         rAt' = "endB",
         UNCHANGED <<sAt, sBlk, ahead, isLast, stored>>,
         NEW h \in Items(toR),
         h.what = "SYN",
         Follows(toR', toR, h),
         Grows(toR', toR, {}),
         Grows(toS', toS, {Token("SYN")})
  PROVE  PunterInv'
<1> USE DEF PunterInv
<1>1. Offered' = Offered
  BY DEF Awaited, Offered
<1>2. /\ \A w \in Words : Has(toR', w) => Has(toR, w)
      /\ \A u, w \in Words : HasPair(toR', u, w) => HasPair(toR, u, w)
      /\ \A u, w : HasPair(toR, u, w) => Has(toR, u) /\ Has(toR, w)
  BY HasLess
<1>3. /\ \A w \in Words : Has(toS', w) => Has(toS, w) \/ w = "SYN"
      /\ \A u, w \in Words : HasPair(toS', u, w) => HasPair(toS, u, w) \/ (Has(toS, u) /\ w = "SYN")
      /\ \A u, w : HasPair(toS, u, w) => Has(toS, u) /\ Has(toS, w)
  BY HasToken
<1>4. /\ \A x \in Items(toR') : IsBlock(x) => x \in Items(toR)
      /\ \A p \in Pairs(toR') : p[1].what = "ACK" /\ IsBlock(p[2]) => p \in Pairs(toR)
      /\ \A p \in Pairs(toR') : IsBlock(p[1]) /\ p[2].what = "ACK" => p \in Pairs(toR)
  BY HasLess
<1>5. "GOO" \in Words /\ "ACK" \in Words /\ "SB" \in Words /\ "SYN" \in Words /\ "block" \in Words
  BY DEF Words
<1>6. /\ Awaited \in Nat /\ Offered \in Nat
      /\ \A x \in Items(toR) : IsBlock(x) => Place(x) \in Nat
  BY NumbersAre
<1>7. /\ Has(toR, "SYN")
      /\ \A w \in Words : Has(toR', w) => HasPair(toR, "SYN", w)
  BY HasBehind DEF Has
<1>8. \A x \in Items(toR') : IsBlock(x) => <<h, x>> \in Pairs(toR)
  BY HasBehind
<1>9. sAt \in {"syncB", "err"} /\ isLast /\ Len(stored) = sBlk.chunk
  BY <1>1, <1>6, <1>7
    DEF Awaited, Offered, Shaped, SendPlaces, Lockstep, Opening, InStep, Replied, Parting, SendEnds, RecvEnds, Ended
<1>10. Prepared'
  BY <1>9 DEF Prepared
<1>11. Outgoing'
  BY <1>1, <1>4, <1>6, <1>9 DEF Outgoing, SendEnds, Ended
<1>12. Incoming'
  BY <1>1, <1>4, <1>5, <1>6, <1>9 DEF Incoming, RecvEnds, Ended
<1>13. Received'
  BY <1>9 DEF Received, StoredIsPrefix
<1>14. Lockstep'
  BY <1>1, <1>2, <1>3, <1>5, <1>7, <1>9
    DEF Lockstep, Opening, InStep, Replied, SendEnds, RecvEnds, Ended
<1>15. Parting'
  BY <1>1, <1>2, <1>3, <1>4, <1>5, <1>6, <1>7, <1>9 DEF Parting, RecvEnds, Ended
<1> QED
  BY <1>10, <1>11, <1>12, <1>13, <1>14, <1>15

(* It waits for a last S/B and reports success.                               *)
LEMMA RecvDone ==
  ASSUME PunterInv,
         Shaped',
         rAt = "endB",
         rAt' = "ok",
         UNCHANGED <<sAt, sBlk, ahead, isLast, stored>>,
         Grows(toR', toR, {}),
         Grows(toS', toS, {})
  PROVE  PunterInv'
<1> USE DEF PunterInv
<1>1. Offered' = Offered
  BY DEF Awaited, Offered
<1>2. /\ \A w \in Words : Has(toR', w) => Has(toR, w)
      /\ \A u, w \in Words : HasPair(toR', u, w) => HasPair(toR, u, w)
      /\ \A u, w : HasPair(toR, u, w) => Has(toR, u) /\ Has(toR, w)
  BY HasLess
<1>3. /\ \A w \in Words : Has(toS', w) => Has(toS, w)
      /\ \A u, w \in Words : HasPair(toS', u, w) => HasPair(toS, u, w)
      /\ \A u, w : HasPair(toS, u, w) => Has(toS, u) /\ Has(toS, w)
  BY HasLess
<1>4. /\ \A x \in Items(toR') : IsBlock(x) => x \in Items(toR)
      /\ \A p \in Pairs(toR') : p[1].what = "ACK" /\ IsBlock(p[2]) => p \in Pairs(toR)
      /\ \A p \in Pairs(toR') : IsBlock(p[1]) /\ p[2].what = "ACK" => p \in Pairs(toR)
  BY HasLess
<1>5. "GOO" \in Words /\ "ACK" \in Words /\ "SB" \in Words /\ "SYN" \in Words /\ "block" \in Words
  BY DEF Words
<1>6. /\ Awaited \in Nat /\ Offered \in Nat
      /\ \A x \in Items(toR) : IsBlock(x) => Place(x) \in Nat
  BY NumbersAre
<1>7. Prepared'
  BY DEF Prepared
<1>8. Outgoing'
  BY <1>1, <1>4, <1>6 DEF Outgoing, SendEnds, Ended
<1>9. Incoming'
  BY <1>1, <1>4, <1>5, <1>6 DEF Incoming, RecvEnds, Ended
<1>10. Received'
  BY DEF Received, StoredIsPrefix
<1>11. Lockstep'
  BY <1>1, <1>2, <1>3, <1>5
    DEF Lockstep, Opening, InStep, Replied, SendEnds, RecvEnds, Ended
<1>12. Parting'
  BY <1>1, <1>2, <1>3, <1>4, <1>5, <1>6 DEF Parting, RecvEnds, Ended
<1> QED
  BY <1>7, <1>8, <1>9, <1>10, <1>11, <1>12

(* It gives up, with a last word or without.                                  *)
LEMMA RecvFails ==
  ASSUME PunterInv,
         Shaped',
         rAt \notin RecvEnds,
         rAt' = "err",
         UNCHANGED <<sAt, sBlk, ahead, isLast, stored>>,
         NEW v,
         v # "SYN",
         v # "block",
         Grows(toR', toR, {}),
         Grows(toS', toS, {Token(v)})
  PROVE  PunterInv'
<1> USE DEF PunterInv
<1>1. Offered' = Offered
  BY DEF Offered
<1>2. /\ \A w \in Words : Has(toR', w) => Has(toR, w)
      /\ \A u, w \in Words : HasPair(toR', u, w) => HasPair(toR, u, w)
      /\ \A u, w : HasPair(toR, u, w) => Has(toR, u) /\ Has(toR, w)
  BY HasLess
<1>3. /\ \A w \in Words : Has(toS', w) => Has(toS, w) \/ w = v
      /\ \A u, w \in Words : HasPair(toS', u, w) => HasPair(toS, u, w) \/ (Has(toS, u) /\ w = v)
      /\ \A u, w : HasPair(toS, u, w) => Has(toS, u) /\ Has(toS, w)
  BY HasToken
<1>4. /\ \A x \in Items(toR') : IsBlock(x) => x \in Items(toR)
      /\ \A p \in Pairs(toR') : p[1].what = "ACK" /\ IsBlock(p[2]) => p \in Pairs(toR)
      /\ \A p \in Pairs(toR') : IsBlock(p[1]) /\ p[2].what = "ACK" => p \in Pairs(toR)
  BY HasLess
<1>5. "GOO" \in Words /\ "ACK" \in Words /\ "SB" \in Words /\ "SYN" \in Words /\ "block" \in Words
  BY DEF Words
<1>6. /\ Awaited \in Nat /\ Offered \in Nat
      /\ \A x \in Items(toR) : IsBlock(x) => Place(x) \in Nat
  BY NumbersAre
<1>7. sAt # "ok" /\ ~(sAt = "syncB" /\ Has(toS, "SYN"))
  BY DEF Parting, RecvEnds, Ended
<1>8. Prepared'
  BY <1>7 DEF Prepared
<1>9. Outgoing'
  BY <1>1, <1>4, <1>6, <1>7 DEF Outgoing, SendEnds, Ended
<1>10. Incoming'
  BY <1>1, <1>4, <1>5, <1>6, <1>7 DEF Incoming, RecvEnds, Ended
<1>11. Received'
  BY <1>7 DEF Received, StoredIsPrefix
<1>12. Lockstep'
  BY <1>1, <1>2, <1>3, <1>5, <1>7
    DEF Lockstep, Opening, InStep, Replied, SendEnds, RecvEnds, Ended
<1>13. Parting'
  BY <1>1, <1>2, <1>3, <1>4, <1>5, <1>6, <1>7 DEF Parting, RecvEnds, Ended
<1> QED
  BY <1>8, <1>9, <1>10, <1>11, <1>12, <1>13

(* It takes a chunk and stores it.                                            *)
LEMMA RecvStores ==
  ASSUME PunterInv,
         Shaped',
         rAt = "data",
         NEW h \in Items(toR),
         rAt' = IF h.last THEN "ackB" ELSE "ackData",
         stored' = IF h.chunk # 0 THEN Append(stored, h.chunk) ELSE stored,
         UNCHANGED <<sAt, sBlk, ahead, isLast>>,
         h.what = "block",
         Follows(toR', toR, h),
         Grows(toR', toR, {}),
         Grows(toS', toS, {Token("GOO")})
  PROVE  PunterInv'
<1> USE DEF PunterInv
<1>1. Awaited = Len(stored) + 2 /\ Offered' = Offered
  BY DEF Awaited, Offered
<1>2. /\ \A w \in Words : Has(toR', w) => Has(toR, w)
      /\ \A u, w \in Words : HasPair(toR', u, w) => HasPair(toR, u, w)
      /\ \A u, w : HasPair(toR, u, w) => Has(toR, u) /\ Has(toR, w)
  BY HasLess
<1>3. /\ \A w \in Words : Has(toS', w) => Has(toS, w) \/ w = "GOO"
      /\ \A u, w \in Words : HasPair(toS', u, w) => HasPair(toS, u, w) \/ (Has(toS, u) /\ w = "GOO")
      /\ \A u, w : HasPair(toS, u, w) => Has(toS, u) /\ Has(toS, w)
  BY HasToken
<1>4. /\ \A x \in Items(toR') : IsBlock(x) => x \in Items(toR)
      /\ \A p \in Pairs(toR') : p[1].what = "ACK" /\ IsBlock(p[2]) => p \in Pairs(toR)
      /\ \A p \in Pairs(toR') : IsBlock(p[1]) /\ p[2].what = "ACK" => p \in Pairs(toR)
  BY HasLess
<1>5. "GOO" \in Words /\ "ACK" \in Words /\ "SB" \in Words /\ "SYN" \in Words /\ "block" \in Words
  BY DEF Words
<1>6. /\ Awaited \in Nat /\ Offered \in Nat
      /\ \A x \in Items(toR) : IsBlock(x) => Place(x) \in Nat
  BY NumbersAre
<1>7. /\ Has(toR, "block")
      /\ \A w \in Words : Has(toR', w) => HasPair(toR, "block", w)
  BY HasBehind DEF Has
<1>8. \A x \in Items(toR') : IsBlock(x) => <<h, x>> \in Pairs(toR)
  BY HasBehind
<1>9. ~Has(toR', "ACK") /\ Place(h) = Awaited
  <2>1. ASSUME Has(toR', "ACK") PROVE FALSE
    <3>1. PICK p \in Pairs(toR) : p[1].what = "block" /\ p[2].what = "ACK"
      BY <2>1, <1>7, <1>5 DEF HasPair
    <3>2. p[1] \in Items(toR) /\ IsBlock(p[1])
      BY <3>1, PairsAreItems DEF IsBlock
    <3> QED
      BY <3>1, <3>2 DEF Incoming, RecvEnds, Ended, IsBlock
  <2>2. Place(h) = Awaited
    BY DEF Incoming, RecvEnds, Ended, IsBlock
  <2> QED
    BY <2>1, <2>2
<1>10. \A p \in Pairs(toR') : p[1].what # "ACK" /\ p[2].what # "ACK"
  BY <1>9, PairsAreItems DEF Has
<1>11. 
      \/ /\ h.chunk = Len(stored) + 1 /\ h.chunk # 0
         /\ stored' = Append(stored, h.chunk) /\ Len(stored') = Len(stored) + 1
      \/ h.chunk = 0 /\ h.last /\ Len(stored) = 0 /\ stored' = stored
  <2>1. h.chunk \in Nat /\ Len(stored) \in Nat
    BY DEF Shaped, IsBlock
  <2>2. Place(h) = Len(stored) + 2
    BY <1>1, <1>9
  <2>3. h.chunk = Len(stored) + 1 \/ (h.chunk = 0 /\ h.last /\ Len(stored) = 0)
    BY <2>1, <2>2 DEF Place
  <2>4. Len(Append(stored, h.chunk)) = Len(stored) + 1
    BY <2>1 DEF Shaped
  <2> QED
    BY <2>1, <2>3, <2>4
<1>12. Awaited' = Awaited + 1 /\ Len(stored') = h.chunk
  <2>1. Len(stored) \in Nat
    BY DEF Shaped
  <2> QED
    BY <2>1, <1>1, <1>11 DEF Awaited
<1>13. sAt \in {"data"} \cup SendEnds /\ (sAt \notin SendEnds => Offered = Awaited /\ ~Has(toS, "GOO"))
  BY <1>1, <1>6, <1>7, <1>9
    DEF Outgoing, IsBlock, Shaped, SendPlaces, Lockstep, Opening, InStep, Replied, Parting, SendEnds, RecvEnds, Ended
<1>14. sAt \notin SendEnds => h = sBlk /\ h.last = isLast
  BY <1>9, <1>13 DEF Outgoing, Prepared, IsBlock, SendEnds, Ended
<1>15. ~Has(toR', "SYN") /\ (sAt \notin SendEnds => sBlk.chunk = Len(stored'))
  <2>1. Has(toR, "SYN") => Place(h) < Awaited
    BY DEF Parting, IsBlock
  <2>2. ~Has(toR, "SYN")
    BY <2>1, <1>9, <1>6
  <2> QED
    BY <2>2, <1>2, <1>5, <1>12, <1>14
<1>16. Prepared'
  BY <1>9, <1>10, <1>11, <1>12, <1>13, <1>14, <1>15 DEF Prepared
<1>17. Outgoing'
  BY <1>1, <1>4 DEF Outgoing, SendEnds, Ended
<1>18. Incoming'
  BY <1>1, <1>4, <1>6, <1>9, <1>10, <1>12 DEF Incoming, RecvEnds, Ended, IsBlock
<1>19. Received'
  <2>1. stored \in Seq(Nat) /\ Len(stored) \in Nat /\ h.chunk \in Nat
    BY DEF Shaped, IsBlock
  <2>2. StoredIsPrefix'
    BY <2>1, <1>11 DEF Received, StoredIsPrefix
  <2> QED
    BY <2>2 DEF Received
<1>20. Lockstep'
  BY <1>1, <1>2, <1>3, <1>5, <1>6, <1>9, <1>12, <1>13, <1>14, <1>15
    DEF Lockstep, Opening, InStep, Replied, SendEnds, RecvEnds, Ended
<1>21. Parting'
  BY <1>2, <1>3, <1>5, <1>13, <1>15 DEF Parting, RecvEnds, SendEnds, Ended
<1> QED
  BY <1>16, <1>17, <1>18, <1>19, <1>20, <1>21

-----------------------------------------------------------------------------
(* Punter: its steps are those.                                               *)

(* A line to which nothing is added.                                          *)
LEMMA EmptyAtEnd ==
  ASSUME NEW s, IsSeq(s)
  PROVE  s \o << >> = s
<1>1. PICK S : s \in Seq(S)
  BY DEF IsSeq
<1> QED
  BY <1>1, ConcatEmptySeq

(* A line that loses is one that gained nothing.                              *)
LEMMA GrowsMore ==
  ASSUME NEW t, NEW s, NEW x, Grows(t, s, {})
  PROVE  Grows(t, s, {x})
<1> QED
  BY DEF Grows

(* Types, after a step of punter_send and one of punter_recv.                 *)
LEMMA SendShaped ==
  ASSUME Shaped, NEW X, Grows(toR', toR, X), Grows(toS', toS, {}),
         \A x \in X : IsBlock(x) => x.chunk \in Nat,
         sAt' \in SendPlaces, sBlk'.chunk \in Nat, ahead' \in Nat, isLast' \in BOOLEAN,
         UNCHANGED <<rAt, stored>>
  PROVE  Shaped'
<1>1. IsSeq(toR') /\ IsSeq(toS')
  BY DEF Grows
<1>2. \A x \in Items(toR') : IsBlock(x) => x.chunk \in Nat
  BY DEF Grows, Shaped, IsBlock, Real
<1>3. sAt' \in SendPlaces /\ sBlk'.chunk \in Nat /\ ahead' \in Nat /\ isLast' \in BOOLEAN
  OBVIOUS
<1>4. rAt' \in RecvPlaces /\ Len(stored') \in Nat /\ stored' \in Seq(Nat)
  BY DEF Shaped
<1> QED
  BY <1>1, <1>2, <1>3, <1>4 DEF Shaped

LEMMA RecvShaped ==
  ASSUME Shaped, NEW X, Grows(toR', toR, {}), Grows(toS', toS, X),
         rAt' \in RecvPlaces, stored' \in Seq(Nat),
         UNCHANGED <<sAt, sBlk, ahead, isLast>>
  PROVE  Shaped'
<1>1. IsSeq(toR') /\ IsSeq(toS')
  BY DEF Grows
<1>2. \A x \in Items(toR') : IsBlock(x) => x.chunk \in Nat
  BY DEF Grows, Shaped, IsBlock, Real
<1>3. sAt' \in SendPlaces /\ sBlk'.chunk \in Nat /\ ahead' \in Nat /\ isLast' \in BOOLEAN
  BY DEF Shaped
<1>4. rAt' \in RecvPlaces /\ stored' \in Seq(Nat)
  OBVIOUS
<1>5. Len(stored') \in Nat
  BY <1>4
<1> QED
  BY <1>1, <1>2, <1>3, <1>4, <1>5 DEF Shaped

(* A block and the tokens.                                                    *)
LEMMA BlocksAre ==
  /\ \A v : Token(v).chunk \in Nat
  /\ TypeBlock.chunk \in Nat
  /\ \A n, c, x, l : LET b == Item("block", n, c, x, l)
                     IN  IsBlock(b) /\ b.chunk = c /\ b.n = n /\ b.last = l
<1> QED
  BY DEF Token, TypeBlock, Item, IsBlock

(* What reading ahead may do.                                                 *)
LEMMA ReadingAhead ==
  ASSUME NEW k, ReadAhead(k)
  PROVE  isLast' \in BOOLEAN /\ (ahead' = k \/ (ahead' = 0 /\ isLast'))
<1>1. CASE ahead' = k /\ isLast' = LastRead(k)
  <2>1. LastRead(k) \in BOOLEAN
    BY DEF LastRead
  <2> QED
    BY <1>1, <2>1
<1>2. CASE ahead' = 0 /\ isLast' = TRUE
  BY <1>2
<1> QED
  BY <1>1, <1>2 DEF ReadAhead

(* The block of the chunk read ahead.                                         *)
LEMMA DataIs ==
  ASSUME Shaped, PrepareData
  PROVE  /\ sAt' = "ackData" /\ toR' = toR \o <<Token("ACK")>>
         /\ IsBlock(sBlk') /\ sBlk'.chunk = ahead /\ sBlk'.n = AheadLen(ahead)
         /\ sBlk'.last = isLast' /\ ahead' \in Nat /\ isLast' \in BOOLEAN
         /\ ~isLast' => ahead' = ahead + 1
         /\ isLast => isLast'
<1>1. sAt' = "ackData" /\ sBlk' = DataBlock /\ toR' = toR \o Says("ackData", DataBlock)
  BY DEF PrepareData, Enter
<1>2. Says("ackData", DataBlock) = <<Token("ACK")>>
  BY DEF Says
<1>3. /\ IsBlock(DataBlock) /\ DataBlock.chunk = ahead /\ DataBlock.n = AheadLen(ahead)
      /\ DataBlock.last = isLast'
  BY DEF DataBlock, Item, IsBlock
<1>4. /\ ahead' \in Nat /\ isLast' \in BOOLEAN /\ (~isLast' => ahead' = ahead + 1)
      /\ isLast => isLast'
  <2>1. CASE ~isLast /\ ReadAhead(ahead + 1)
    <3>1. /\ ahead' = ahead + 1 \/ (ahead' = 0 /\ isLast')
          /\ isLast' \in BOOLEAN
      BY <2>1, ReadingAhead
    <3> QED
      BY <2>1, <3>1 DEF Shaped
  <2>2. CASE isLast /\ UNCHANGED <<ahead, isLast>>
    BY <2>2 DEF Shaped
  <2> QED
    BY <2>1, <2>2 DEF PrepareData
<1> QED
  BY <1>1, <1>2, <1>3, <1>4

(* punter_send hears the token it waits for.                                  *)
LEMMA SendIsHeard ==
  ASSUME PunterInv, NEW h \in Items(toS), h.what = Wants(sAt), Expected,
         Follows(toS', toS, h), Grows(toS', toS, {}), UNCHANGED <<rAt, stored>>
  PROVE  PunterInv'
<1> USE DEF PunterInv
<1>1. CASE sAt = "goo"
  <2>1. /\ sAt' = "ackType" /\ toR' = toR \o <<Token("ACK")>>
        /\ UNCHANGED <<sBlk, ahead, isLast>> /\ h.what = "GOO"
    BY <1>1 DEF Expected, Enter, Says, Then, Wants
  <2>2. Grows(toR', toR, {Token("ACK")})
    BY <2>1, GrowsByOne DEF Shaped
  <2>3. Shaped'
    BY <2>1, <2>2, SendShaped, BlocksAre DEF Shaped, SendPlaces, Ended
  <2> QED
    BY <1>1, <2>1, <2>2, <2>3, SendGoo
<1>2. CASE sAt = "type"
  <2>1. /\ sAt' = "ackA" /\ toR' = toR \o <<Token("ACK")>>
        /\ UNCHANGED <<sBlk, ahead, isLast>> /\ h.what = "GOO"
    BY <1>2 DEF Expected, Enter, Says, Then, Wants
  <2>2. Grows(toR', toR, {Token("ACK")})
    BY <2>1, GrowsByOne DEF Shaped
  <2>3. Shaped'
    BY <2>1, <2>2, SendShaped, BlocksAre DEF Shaped, SendPlaces, Ended
  <2> QED
    BY <1>2, <2>1, <2>2, <2>3, SendAckA
<1>3. CASE sAt = "ackA"
  <2>1. /\ sAt' = "syncA" /\ toR' = toR \o <<Token("SYN")>>
        /\ UNCHANGED <<sBlk, ahead, isLast>> /\ h.what = "SB"
    BY <1>3 DEF Expected, Enter, Says, Then, Wants
  <2>2. Grows(toR', toR, {Token("SYN")})
    BY <2>1, GrowsByOne DEF Shaped
  <2>3. Shaped'
    BY <2>1, <2>2, SendShaped, BlocksAre DEF Shaped, SendPlaces, Ended
  <2> QED
    BY <1>3, <2>1, <2>2, <2>3, SendSyncA
<1>4. CASE sAt = "syncA"
  <2>1. /\ sAt' = "ready" /\ toR' = Append(toR, Token("SB"))
        /\ UNCHANGED <<sBlk, ahead, isLast>> /\ h.what = "SYN"
    BY <1>4 DEF Expected, EndPhase, Then, Wants
  <2>2. Grows(toR', toR, {Token("SB")})
    BY <2>1, GrowsByOne DEF Shaped
  <2>3. Shaped'
    BY <2>1, <2>2, SendShaped, BlocksAre DEF Shaped, SendPlaces, Ended
  <2> QED
    BY <1>4, <2>1, <2>2, <2>3, SendReady
<1>5. CASE sAt = "ackB"
  <2>1. /\ sAt' = "syncB" /\ toR' = toR \o <<Token("SYN")>>
        /\ UNCHANGED <<sBlk, ahead, isLast>> /\ h.what = "SB"
    BY <1>5 DEF Expected, Enter, Says, Then, Wants
  <2>2. Grows(toR', toR, {Token("SYN")})
    BY <2>1, GrowsByOne DEF Shaped
  <2>3. Shaped'
    BY <2>1, <2>2, SendShaped, BlocksAre DEF Shaped, SendPlaces, Ended
  <2> QED
    BY <1>5, <2>1, <2>2, <2>3, SendSyncB
<1>6. CASE sAt = "syncB"
  <2>1. /\ sAt' = "ok" /\ toR' = Append(toR, Token("SB"))
        /\ UNCHANGED <<sBlk, ahead, isLast>> /\ h.what = "SYN"
    BY <1>6 DEF Expected, EndPhase, Then, Wants
  <2>2. Grows(toR', toR, {Token("SB")})
    BY <2>1, GrowsByOne DEF Shaped
  <2>3. Shaped'
    BY <2>1, <2>2, SendShaped, BlocksAre DEF Shaped, SendPlaces, Ended
  <2> QED
    BY <1>6, <2>1, <2>2, <2>3, SendDone
<1>7. CASE sAt = "ackType"
  <2>1. /\ sAt' = "type" /\ sBlk' = TypeBlock /\ toR' = toR \o <<TypeBlock>>
        /\ UNCHANGED <<ahead, isLast>> /\ h.what = "SB"
    BY <1>7 DEF Expected, Enter, Says, Then, Wants
  <2>2. Grows(toR', toR, {TypeBlock})
    BY <2>1, GrowsByOne DEF Shaped
  <2>3. Shaped'
    BY <2>1, <2>2, SendShaped, BlocksAre DEF Shaped, SendPlaces, Ended
  <2> QED
    BY <1>7, <2>1, <2>2, <2>3, SendType
<1>8. CASE sAt = "ackData"
  <2>1. /\ sAt' = "data" /\ toR' = toR \o <<sBlk>>
        /\ UNCHANGED <<sBlk, ahead, isLast>> /\ h.what = "SB"
    BY <1>8 DEF Expected, Enter, Says, Then, Wants
  <2>2. Grows(toR', toR, {sBlk})
    BY <2>1, GrowsByOne DEF Shaped
  <2>3. Shaped'
    BY <2>1, <2>2, SendShaped, BlocksAre DEF Shaped, SendPlaces, Ended
  <2> QED
    BY <1>8, <2>1, <2>2, <2>3, SendBlock
<1>9. CASE sAt = "ackInfo"
  <2>1. /\ sAt' = "info" /\ sBlk' = InfoBlock /\ toR' = toR \o <<InfoBlock>>
        /\ UNCHANGED <<ahead, isLast>> /\ h.what = "SB"
    BY <1>9 DEF Expected, Enter, Says, Then, Wants
  <2>2. Grows(toR', toR, {InfoBlock})
    BY <2>1, GrowsByOne DEF Shaped
  <2>3. IsBlock(InfoBlock) /\ Place(InfoBlock) = 1 /\ InfoBlock.chunk \in Nat
    BY DEF InfoBlock, Item, IsBlock, Place, Header
  <2>4. Shaped'
    BY <2>1, <2>2, <2>3, SendShaped, BlocksAre DEF Shaped, SendPlaces, Ended
  <2> QED
    BY <1>9, <2>1, <2>2, <2>3, <2>4, SendInfo
<1>10. CASE sAt = "ready"
  <2>1. /\ sAt' = "ackInfo" /\ sBlk' = sBlk /\ toR' = toR \o <<Token("ACK")>>
        /\ ahead' = 1 \/ (ahead' = 0 /\ isLast')
        /\ ahead' \in Nat /\ isLast' \in BOOLEAN /\ h.what = "GOO"
    <3>1. ReadAhead(1) /\ Enter("ackInfo", sBlk)
      BY <1>10 DEF Expected, Then, EndPhase
    <3>2. sAt' = "ackInfo" /\ sBlk' = sBlk /\ toR' = toR \o <<Token("ACK")>>
      BY <3>1 DEF Enter, Says
    <3>3. ahead' = 1 \/ (ahead' = 0 /\ isLast')
      BY <3>1, ReadingAhead
    <3>4. isLast' \in BOOLEAN /\ ahead' \in Nat
      BY <3>1, <3>3, ReadingAhead
    <3>5. h.what = "GOO"
      BY <1>10 DEF Wants
    <3> QED
      BY <3>2, <3>3, <3>4, <3>5
  <2>2. Grows(toR', toR, {Token("ACK")})
    BY <2>1, GrowsByOne DEF Shaped
  <2>3. Shaped'
    BY <2>1, <2>2, SendShaped, BlocksAre DEF Shaped, SendPlaces, Ended
  <2> QED
    BY <1>10, <2>1, <2>2, <2>3, SendAckInfo
<1>11. CASE sAt = "info"
  <2>1. /\ sAt' = "ackData" /\ toR' = toR \o <<Token("ACK")>>
        /\ IsBlock(sBlk') /\ sBlk'.chunk = ahead /\ sBlk'.n = AheadLen(ahead)
        /\ sBlk'.last = isLast' /\ ahead' \in Nat /\ isLast' \in BOOLEAN
        /\ ~isLast' => ahead' = ahead + 1
        /\ isLast => isLast'
        /\ h.what = "GOO"
    <3>1. PrepareData
      BY <1>11 DEF Expected, Then, EndPhase
    <3> QED
      BY <3>1, <1>11, DataIs DEF Wants
  <2>2. Grows(toR', toR, {Token("ACK")})
    BY <2>1, GrowsByOne DEF Shaped
  <2>3. Place(sBlk') = 2 /\ (~isLast' => ahead' = sBlk'.chunk + 1)
    BY <1>11, <2>1 DEF Prepared, Place, AheadLen, Header, Shaped
  <2>4. Shaped'
    BY <2>1, <2>2, <2>3, SendShaped, BlocksAre DEF Shaped, SendPlaces, Ended
  <2> QED
    BY <1>11, <2>1, <2>2, <2>3, <2>4, SendFirst
<1>12. CASE sAt = "data" /\ ~isLast
  <2>1. /\ sAt' = "ackData" /\ toR' = toR \o <<Token("ACK")>>
        /\ IsBlock(sBlk') /\ sBlk'.chunk = ahead /\ sBlk'.n = AheadLen(ahead)
        /\ sBlk'.last = isLast' /\ ahead' \in Nat /\ isLast' \in BOOLEAN
        /\ ~isLast' => ahead' = ahead + 1
        /\ isLast => isLast'
        /\ h.what = "GOO"
    <3>1. PrepareData
      BY <1>12 DEF Expected, Then, EndPhase
    <3> QED
      BY <3>1, <1>12, DataIs DEF Wants
  <2>2. Grows(toR', toR, {Token("ACK")})
    BY <2>1, GrowsByOne DEF Shaped
  <2>3. Place(sBlk') = Place(sBlk) + 1 /\ (~isLast' => ahead' = sBlk'.chunk + 1)
    BY <1>12, <2>1 DEF Prepared, Place, Header, Shaped
  <2>4. Shaped'
    BY <2>1, <2>2, <2>3, SendShaped, BlocksAre DEF Shaped, SendPlaces, Ended
  <2> QED
    BY <1>12, <2>1, <2>2, <2>3, <2>4, SendNext
<1>13. CASE sAt = "data" /\ isLast
  <2>1. /\ sAt' = "ackB" /\ toR' = toR \o <<Token("ACK")>>
        /\ UNCHANGED <<sBlk, ahead, isLast>> /\ h.what = "GOO"
    BY <1>13 DEF Expected, Enter, Says, Then, Wants, EndPhase
  <2>2. Grows(toR', toR, {Token("ACK")})
    BY <2>1, GrowsByOne DEF Shaped
  <2>3. Shaped'
    BY <2>1, <2>2, SendShaped, BlocksAre DEF Shaped, SendPlaces, Ended
  <2> QED
    BY <1>13, <2>1, <2>2, <2>3, SendAckB
<1> QED
  BY <1>1, <1>2, <1>3, <1>4, <1>5, <1>6, <1>7, <1>8, <1>9, <1>10, <1>11, <1>12, <1>13
    DEF Expected, Then

(* It says again what it said, or gives up.                                   *)
LEMMA SendSaysAgain ==
  ASSUME PunterInv, Sending, Again, Grows(toS', toS, {}), UNCHANGED <<rAt, stored>>
  PROVE  PunterInv'
<1> USE DEF PunterInv
<1>1. /\ UNCHANGED <<sBlk, ahead, isLast>>
      /\ \/ sAt' = sAt /\ toR' = toR \o Says(sAt, sBlk)
         \/ sAt' = "err" /\ toR' = toR /\ sAt' # sAt
  BY DEF Again, Sending, Ended
<1>2. CASE sAt' = sAt /\ sAt = "goo"
  <2>1. /\ sAt' = sAt /\ toR' = toR \o <<Token("GOO")>> /\ UNCHANGED <<sBlk, ahead, isLast>>
    BY <1>1, <1>2 DEF Says
  <2>2. Grows(toR', toR, {Token("GOO")})
    BY <2>1, GrowsByOne DEF Shaped
  <2>3. Shaped'
    BY <2>1, <2>2, SendShaped, BlocksAre DEF Shaped, SendPlaces, Ended
  <2> QED
    BY <1>2, <2>1, <2>2, <2>3, SendGooAgain
<1>3. CASE sAt' = sAt /\ sAt \in {"ackType", "ackA", "ackInfo", "ackData", "ackB"}
  <2>1. /\ sAt' = sAt /\ toR' = toR \o <<Token("ACK")>> /\ UNCHANGED <<sBlk, ahead, isLast>>
    BY <1>1, <1>3 DEF Says
  <2>2. Grows(toR', toR, {Token("ACK")})
    BY <2>1, GrowsByOne DEF Shaped
  <2>3. Shaped'
    BY <2>1, <2>2, SendShaped, BlocksAre DEF Shaped, SendPlaces, Ended
  <2> QED
    BY <1>3, <2>1, <2>2, <2>3, SendAckAgain
<1>4. CASE sAt' = sAt /\ sAt \in {"syncA", "syncB"}
  <2>1. /\ sAt' = sAt /\ toR' = toR \o <<Token("SYN")>> /\ UNCHANGED <<sBlk, ahead, isLast>>
    BY <1>1, <1>4 DEF Says
  <2>2. Grows(toR', toR, {Token("SYN")})
    BY <2>1, GrowsByOne DEF Shaped
  <2>3. Shaped'
    BY <2>1, <2>2, SendShaped, BlocksAre DEF Shaped, SendPlaces, Ended
  <2> QED
    BY <1>4, <2>1, <2>2, <2>3, SendSynAgain
<1>5. CASE sAt' = sAt /\ sAt \in {"type", "info", "data"}
  <2>1. /\ sAt' = sAt /\ toR' = toR \o <<sBlk>> /\ UNCHANGED <<sBlk, ahead, isLast>>
    BY <1>1, <1>5 DEF Says
  <2>2. Grows(toR', toR, {sBlk})
    BY <2>1, GrowsByOne DEF Shaped
  <2>3. Shaped'
    BY <2>1, <2>2, SendShaped, BlocksAre DEF Shaped, SendPlaces, Ended
  <2> QED
    BY <1>5, <2>1, <2>2, <2>3, SendBlockAgain
<1>6. CASE sAt' = sAt /\ sAt = "ready"
  <2>1. sAt' = sAt /\ toR' = toR \o << >> /\ UNCHANGED <<sBlk, ahead, isLast>>
    BY <1>1, <1>6 DEF Says
  <2>2. Grows(toR', toR, {})
    BY <2>1, EmptyAtEnd, GrowsNone DEF Shaped
  <2>3. Shaped'
    BY <2>1, <2>2, SendShaped, BlocksAre DEF Shaped, SendPlaces, Ended
  <2> QED
    BY <1>6, <2>1, <2>2, <2>3, LineLoses
<1>7. CASE sAt' = "err"
  <2>1. sAt' = "err" /\ toR' = toR /\ sAt \notin SendEnds /\ UNCHANGED <<sBlk, ahead, isLast>>
    BY <1>1, <1>7 DEF Sending, SendEnds, Ended
  <2>2. Grows(toR', toR, {})
    BY <2>1, GrowsNone DEF Shaped
  <2>3. Shaped'
    BY <2>1, <2>2, SendShaped, BlocksAre DEF Shaped, SendPlaces, Ended
  <2> QED
    BY <1>7, <2>1, <2>2, <2>3, SendGivesUp
<1> QED
  BY <1>1, <1>2, <1>3, <1>4, <1>5, <1>6, <1>7 DEF Shaped, SendPlaces, Sending, Ended

(* What punter_recv says.                                                     *)
LEMMA RecvSaying ==
  ASSUME Shaped
  PROVE  /\ \A x : toS \o <<x>> = Append(toS, x) /\ Grows(Append(toS, x), toS, {x})
         /\ toS \o << >> = toS /\ Grows(toS, toS, {})
<1> QED
  BY GrowsByOne, GrowsNone, EmptyAtEnd DEF Shaped

(* The ways to give up.                                                       *)
LEMMA RecvGivesUp ==
  ASSUME PunterInv, rAt \notin RecvEnds, rAt' = "err", Grows(toR', toR, {}),
         \/ toS' = toS
         \/ toS' = Append(toS, Token("BAD"))
         \/ toS' = Append(toS, Token("GOO")),
         UNCHANGED <<sAt, sBlk, ahead, isLast, stored>>
  PROVE  PunterInv'
<1>1. Shaped
  BY DEF PunterInv
<1>2. PICK v \in {"GOO", "BAD"} : Grows(toS', toS, {Token(v)})
  <2>1. Grows(toS, toS, {Token("GOO")})
    BY <1>1, RecvSaying, GrowsMore
  <2> QED
    BY <1>1, <2>1, RecvSaying
<1>3. v # "SYN" /\ v # "block"
  OBVIOUS
<1>4. Shaped'
  BY <1>1, <1>2, RecvShaped DEF Shaped, RecvPlaces, Ended
<1> QED
  BY <1>2, <1>3, <1>4, RecvFails

(* punter_recv hears a token outside the blocks, or something else.           *)
LEMMA RecvIsTold ==
  ASSUME PunterInv, NEW h, Real(h) => h \in Items(toR) /\ Follows(toR', toR, h),
         Grows(toR', toR, {}), Dialogue(h.what), UNCHANGED <<sAt, sBlk, ahead, isLast>>
  PROVE  PunterInv'
<1> USE DEF PunterInv
<1>1. CASE rAt = "goo" /\ h.what = "GOO"
  <2>1. rAt' = "ackType" /\ toS' = toS \o << >> /\ stored' = stored
    BY <1>1 DEF Dialogue, Reply
  <2>2. Grows(toS', toS, {})
    BY <2>1, RecvSaying
  <2>3. h \in Items(toR) /\ Follows(toR', toR, h)
    BY <1>1 DEF Real
  <2>4. Shaped'
    BY <2>1, <2>2, RecvShaped DEF Shaped, RecvPlaces, Ended
  <2> QED
    BY <1>1, <2>1, <2>2, <2>3, <2>4, RecvGoo
<1>2. CASE rAt = "ackType" /\ h.what = "ACK"
  <2>1. rAt' = "type" /\ toS' = toS \o <<Token("SB")>> /\ stored' = stored
    BY <1>2 DEF Dialogue, Reply
  <2>2. Grows(toS', toS, {Token("SB")})
    BY <2>1, RecvSaying
  <2>3. h \in Items(toR) /\ Follows(toR', toR, h)
    BY <1>2 DEF Real
  <2>4. Shaped'
    BY <2>1, <2>2, RecvShaped DEF Shaped, RecvPlaces, Ended
  <2> QED
    BY <1>2, <2>1, <2>2, <2>3, <2>4, RecvAckType
<1>3. CASE rAt = "ackA" /\ h.what = "ACK"
  <2>1. rAt' = "syncA" /\ toS' = toS \o <<Token("SB")>> /\ stored' = stored
    BY <1>3 DEF Dialogue, Reply
  <2>2. Grows(toS', toS, {Token("SB")})
    BY <2>1, RecvSaying
  <2>3. h \in Items(toR) /\ Follows(toR', toR, h)
    BY <1>3 DEF Real
  <2>4. Shaped'
    BY <2>1, <2>2, RecvShaped DEF Shaped, RecvPlaces, Ended
  <2> QED
    BY <1>3, <2>1, <2>2, <2>3, <2>4, RecvAckA
<1>4. CASE rAt = "syncA" /\ h.what = "SYN"
  <2>1. rAt' = "endA" /\ toS' = toS \o <<Token("SYN")>> /\ stored' = stored
    BY <1>4 DEF Dialogue, Reply
  <2>2. Grows(toS', toS, {Token("SYN")})
    BY <2>1, RecvSaying
  <2>3. h \in Items(toR) /\ Follows(toR', toR, h)
    BY <1>4 DEF Real
  <2>4. Shaped'
    BY <2>1, <2>2, RecvShaped DEF Shaped, RecvPlaces, Ended
  <2> QED
    BY <1>4, <2>1, <2>2, <2>3, <2>4, RecvSyncA
<1>5. CASE rAt = "endA" /\ h.what = "SB"
  <2>1. rAt' = "ackInfo" /\ toS' = toS \o <<Token("GOO")>> /\ stored' = stored
    BY <1>5 DEF Dialogue, Reply
  <2>2. Grows(toS', toS, {Token("GOO")})
    BY <2>1, RecvSaying
  <2>3. h \in Items(toR) /\ Follows(toR', toR, h)
    BY <1>5 DEF Real
  <2>4. Shaped'
    BY <2>1, <2>2, RecvShaped DEF Shaped, RecvPlaces, Ended
  <2> QED
    BY <1>5, <2>1, <2>2, <2>3, <2>4, RecvEndA
<1>6. CASE rAt = "ackB" /\ h.what = "ACK"
  <2>1. rAt' = "syncB" /\ toS' = toS \o <<Token("SB")>> /\ stored' = stored
    BY <1>6 DEF Dialogue, Reply
  <2>2. Grows(toS', toS, {Token("SB")})
    BY <2>1, RecvSaying
  <2>3. h \in Items(toR) /\ Follows(toR', toR, h)
    BY <1>6 DEF Real
  <2>4. Shaped'
    BY <2>1, <2>2, RecvShaped DEF Shaped, RecvPlaces, Ended
  <2> QED
    BY <1>6, <2>1, <2>2, <2>3, <2>4, RecvAckB
<1>7. CASE rAt = "syncB" /\ h.what = "SYN"
  <2>1. rAt' = "endB" /\ toS' = toS \o <<Token("SYN")>> /\ stored' = stored
    BY <1>7 DEF Dialogue, Reply
  <2>2. Grows(toS', toS, {Token("SYN")})
    BY <2>1, RecvSaying
  <2>3. h \in Items(toR) /\ Follows(toR', toR, h)
    BY <1>7 DEF Real
  <2>4. Shaped'
    BY <2>1, <2>2, RecvShaped DEF Shaped, RecvPlaces, Ended
  <2> QED
    BY <1>7, <2>1, <2>2, <2>3, <2>4, RecvSyncB
<1>8. CASE rAt = "endB"
  <2>1. rAt' = "ok" /\ toS' = toS \o << >> /\ stored' = stored
    BY <1>8 DEF Dialogue, Reply
  <2>2. Grows(toS', toS, {})
    BY <2>1, RecvSaying
  <2>3. Shaped'
    BY <2>1, <2>2, RecvShaped DEF Shaped, RecvPlaces, Ended
  <2> QED
    BY <1>8, <2>1, <2>2, <2>3, RecvDone
<1>9. CASE rAt = "goo" /\ h.what # "GOO"
  <2>1. stored' = stored /\ \/ rAt' = "goo" /\ toS' = toS \o <<Token("GOO")>>
                            \/ rAt' = "err" /\ toS' = toS
    BY <1>9 DEF Dialogue, RecvAgain
  <2>2. CASE rAt' = "goo" /\ toS' = toS \o <<Token("GOO")>>
    <3>1. Grows(toS', toS, {Token("GOO")})
      BY <2>2, RecvSaying
    <3>2. Shaped'
      BY <2>1, <2>2, <3>1, RecvShaped DEF Shaped, RecvPlaces, Ended
    <3> QED
      BY <1>9, <2>1, <2>2, <3>1, <3>2, RecvGooAgain
  <2> QED
    BY <1>9, <2>1, <2>2, RecvGivesUp DEF RecvEnds, Ended
<1>10. CASE \/ rAt \in {"ackType", "ackA", "ackB"} /\ h.what # "ACK"
            \/ rAt \in {"syncA", "syncB"} /\ h.what # "SYN"
            \/ rAt = "endA" /\ h.what # "SB"
  <2>1. rAt' = "err" /\ toS' = toS \o << >> /\ stored' = stored
    BY <1>10 DEF Dialogue, Reply
  <2> QED
    BY <1>10, <2>1, RecvSaying, RecvGivesUp DEF RecvEnds, Ended
<1> QED
  BY <1>1, <1>2, <1>3, <1>4, <1>5, <1>6, <1>7, <1>8, <1>9, <1>10 DEF Dialogue

(* It hears the ACK before a block, or something else.                        *)
LEMMA RecvIsOffered ==
  ASSUME PunterInv, NEW h, Real(h) => h \in Items(toR) /\ Follows(toR', toR, h),
         Grows(toR', toR, {}), BlockAck(h.what), UNCHANGED <<sAt, sBlk, ahead, isLast>>
  PROVE  PunterInv'
<1> USE DEF PunterInv
<1>1. rAt \in {"ackInfo", "ackData"} /\ stored' = stored
  BY DEF BlockAck, RecvAgain
<1>2. CASE h.what = "ACK"
  <2>1. toS' = Append(toS, Token("SB")) /\ rAt' = IF rAt = "ackInfo" THEN "info" ELSE "data"
    BY <1>2 DEF BlockAck
  <2>2. Grows(toS', toS, {Token("SB")})
    BY <2>1, RecvSaying
  <2>3. h \in Items(toR) /\ Follows(toR', toR, h)
    BY <1>2 DEF Real
  <2>4. Shaped'
    BY <1>1, <2>1, <2>2, RecvShaped DEF Shaped, RecvPlaces, Ended
  <2>5. CASE rAt = "ackInfo"
    BY <1>1, <1>2, <2>1, <2>2, <2>3, <2>4, <2>5, RecvAckInfo
  <2>6. CASE rAt = "ackData"
    BY <1>1, <1>2, <2>1, <2>2, <2>3, <2>4, <2>6, RecvAckData
  <2> QED
    BY <1>1, <2>5, <2>6
<1>3. CASE h.what # "ACK"
  <2>1. (rAt' = rAt /\ toS' = toS \o << >>) \/ (rAt' = "err" /\ toS' = toS)
    BY <1>1, <1>3 DEF BlockAck, RecvAgain
  <2>2. CASE rAt' = rAt /\ toS' = toS \o << >>
    <3>1. Grows(toS', toS, {})
      BY <2>2, RecvSaying
    <3>2. Shaped'
      BY <1>1, <2>2, <3>1, RecvShaped DEF Shaped
    <3> QED
      BY <1>1, <2>2, <3>1, <3>2, LineLoses
  <2>3. CASE rAt' = "err" /\ toS' = toS
    BY <1>1, <2>3, RecvGivesUp DEF RecvEnds, Ended
  <2> QED
    BY <2>1, <2>2, <2>3
<1> QED
  BY <1>2, <1>3

(* A try of p_recv_blk is used up, which ends in BAD.                         *)
LEMMA RecvRejects ==
  ASSUME PunterInv, rAt \in {"info", "data"}, Grows(toR', toR, {}),
         toS' = Append(toS, Token("BAD")),
         rAt' \in {IF rAt = "info" THEN "ackInfo" ELSE "ackData", "err"},
         UNCHANGED <<sAt, sBlk, ahead, isLast, stored>>
  PROVE  PunterInv'
<1> USE DEF PunterInv
<1>1. CASE rAt' = "err"
  BY <1>1, RecvGivesUp DEF RecvEnds, Ended
<1>2. CASE rAt' = IF rAt = "info" THEN "ackInfo" ELSE "ackData"
  <2>1. Grows(toS', toS, {Token("BAD")})
    BY RecvSaying
  <2>2. Shaped'
    BY <1>2, <2>1, RecvShaped DEF Shaped, RecvPlaces, Ended
  <2> QED
    BY <1>2, <2>1, <2>2, RecvBad
<1> QED
  BY <1>1, <1>2

(* It reads a block, or junk of its length.                                   *)
LEMMA RecvIsSent ==
  ASSUME PunterInv, NEW h, Real(h) => h \in Items(toR) /\ Follows(toR', toR, h),
         Grows(toR', toR, {}), BlockRead(h), UNCHANGED <<sAt, sBlk, ahead, isLast>>
  PROVE  PunterInv'
<1> USE DEF PunterInv
<1>1. rAt \in {"type", "info", "data"}
  BY DEF BlockRead
<1>2. CASE h.what = "block"
  <2>1. h \in Items(toR) /\ Follows(toR', toR, h) /\ h.chunk \in Nat
    BY <1>2 DEF Real, Shaped, IsBlock
  <2>2. CASE rAt = "type"
    <3>1. rAt' = "ackA" /\ toS' = toS \o <<Token("GOO")>> /\ stored' = stored
      BY <1>2, <2>2 DEF BlockRead, Reply
    <3>2. Grows(toS', toS, {Token("GOO")})
      BY <3>1, RecvSaying
    <3>3. Shaped'
      BY <3>1, <3>2, RecvShaped DEF Shaped, RecvPlaces, Ended
    <3> QED
      BY <1>2, <2>1, <2>2, <3>1, <3>2, <3>3, RecvType
  <2>3. CASE rAt \in {"info", "data"}
    <3>1. toS' = Append(toS, Token("GOO")) /\ Accept(h)
      BY <1>2, <2>3 DEF BlockRead
    <3>2. Grows(toS', toS, {Token("GOO")})
      BY <3>1, RecvSaying
    <3>3. CASE rAt' = "err" /\ stored' = stored
      BY <2>3, <3>1, <3>3, RecvGivesUp DEF RecvEnds, Ended
    <3>4. CASE Goes(h, IF rAt = "data" /\ h.chunk # 0 THEN Append(stored, h.chunk) ELSE stored)
      <4>1. rAt' = IF h.last THEN "ackB" ELSE "ackData"
        BY <3>4 DEF Goes, FollowedBy
      <4>2. CASE rAt = "info"
        <5>1. stored' = stored
          BY <3>4, <4>2 DEF Goes
        <5>2. ~h.last
          <6>1. Place(h) = 1
            BY <1>2, <2>1, <4>2 DEF Incoming, IsBlock, Awaited, RecvEnds, Ended
          <6> QED
            BY <6>1, <2>1 DEF Place
        <5>3. Shaped'
          BY <3>2, <4>1, <5>1, <5>2, RecvShaped DEF Shaped, RecvPlaces, Ended
        <5> QED
          BY <1>2, <2>1, <3>2, <4>1, <4>2, <5>1, <5>2, <5>3, RecvInfo
      <4>3. CASE rAt = "data"
        <5>1. stored' = IF h.chunk # 0 THEN Append(stored, h.chunk) ELSE stored
          BY <3>4, <4>3 DEF Goes
        <5>2. stored' \in Seq(Nat)
          BY <5>1, <2>1 DEF Shaped
        <5>3. Shaped'
          BY <3>2, <4>1, <5>2, RecvShaped DEF Shaped, RecvPlaces, Ended
        <5> QED
          BY <1>2, <2>1, <3>2, <4>1, <4>3, <5>1, <5>3, RecvStores
      <4> QED
        BY <2>3, <4>2, <4>3
    <3> QED
      BY <3>1, <3>3, <3>4 DEF Accept
  <2> QED
    BY <1>1, <2>2, <2>3
<1>3. CASE h.what # "block"
  <2>1. CASE rAt = "type"
    <3>1. rAt' = "err" /\ toS' = toS \o <<Token("BAD")>> /\ stored' = stored
      BY <1>3, <2>1 DEF BlockRead, Reply
    <3> QED
      BY <2>1, <3>1, RecvSaying, RecvGivesUp DEF RecvEnds, Ended
  <2>2. CASE rAt \in {"info", "data"}
    <3>1. /\ rAt' \in {IF rAt = "info" THEN "ackInfo" ELSE "ackData", "err"}
          /\ toS' = toS \o <<Token("BAD")>> /\ stored' = stored
      BY <1>3, <2>2 DEF BlockRead, RecvAgain
    <3> QED
      BY <2>2, <3>1, RecvSaying, RecvRejects
  <2> QED
    BY <1>1, <2>1, <2>2
<1> QED
  BY <1>2, <1>3

-----------------------------------------------------------------------------
(* Punter: the invariant.                                                     *)

(* It holds before the first token and after every step.                      *)
LEMMA PunterStarts == Init => PunterInv
<1> SUFFICES ASSUME Init PROVE PunterInv
  OBVIOUS
<1>1. /\ toR = << >> /\ toS = << >> /\ stored = << >> /\ sAt = "off" /\ rAt = "off"
      /\ sBlk = NoBlock /\ ahead = 0 /\ isLast = FALSE
  BY DEF Init
<1>2. IsSeq(<< >>) /\ Items(<< >>) = {} /\ Pairs(<< >>) = {}
  <2>1. << >> \in Seq({}) /\ Len(<< >>) = 0
    BY EmptySeq
  <2>2. 1..0 = {}
    OBVIOUS
  <2> QED
    BY <2>1, <2>2 DEF IsSeq, Items, Pairs
<1>3. << >> \in Seq(Nat) /\ Len(<< >>) = 0 /\ DOMAIN << >> = {}
  BY EmptySeq
<1>4. Shaped
  BY <1>1, <1>2, <1>3 DEF Shaped, SendPlaces, RecvPlaces, NoBlock, Item
<1>5. \A w : ~Has(toR, w) /\ ~Has(toS, w)
  BY <1>1, <1>2 DEF Has
<1>6. \A u, w : ~HasPair(toR, u, w) /\ ~HasPair(toS, u, w)
  BY <1>1, <1>2 DEF HasPair
<1>7. Prepared
  BY <1>1 DEF Prepared
<1>8. Outgoing
  BY <1>1, <1>2 DEF Outgoing
<1>9. Incoming
  BY <1>1, <1>2 DEF Incoming
<1>10. Received
  BY <1>1, <1>3 DEF Received, StoredIsPrefix
<1>11. Lockstep
  BY <1>1, <1>5, <1>6 DEF Lockstep, Opening
<1>12. Parting
  BY <1>1, <1>5, <1>6 DEF Parting
<1> QED
  BY <1>4, <1>7, <1>8, <1>9, <1>10, <1>11, <1>12 DEF PunterInv

LEMMA PunterStep ==
  ASSUME PunterInv, [Next]_vars
  PROVE  PunterInv'
<1>0. Shaped
  BY DEF PunterInv
<1>1. CASE SendStart
  <2>1. sAt = "off" /\ toS' = toS /\ UNCHANGED <<ahead, isLast, rAt, stored>>
    BY <1>1 DEF SendStart, receiver
  <2>2. Grows(toS', toS, {})
    BY <1>0, <2>1, RecvSaying
  <2>3. CASE Enter("goo", sBlk)
    <3>1. sAt' = "goo" /\ sBlk' = sBlk /\ toR' = toR \o <<Token("GOO")>>
      BY <2>3 DEF Enter, Says
    <3>2. Grows(toR', toR, {Token("GOO")})
      BY <1>0, <3>1, GrowsByOne DEF Shaped
    <3>3. Shaped'
      BY <1>0, <2>1, <2>2, <3>1, <3>2, SendShaped, BlocksAre DEF Shaped, SendPlaces
    <3> QED
      BY <2>1, <2>2, <3>1, <3>2, <3>3, SendOpens
  <2>4. CASE sAt' = "err" /\ UNCHANGED <<sTries, sBlk, toR>>
    <3>1. Grows(toR', toR, {})
      BY <1>0, <2>4, GrowsNone DEF Shaped
    <3>2. Shaped'
      BY <1>0, <2>1, <2>2, <2>4, <3>1, SendShaped DEF Shaped, SendPlaces, Ended
    <3> QED
      BY <2>1, <2>2, <2>4, <3>1, <3>2, SendGivesUp DEF SendEnds, Ended
  <2> QED
    BY <1>1, <2>3, <2>4 DEF SendStart
<1>2. CASE SendHears
  <2> DEFINE h == ReadItem(toS, 3)
  <2>1. /\ Sending /\ Ready(toS, 3) /\ toS' = AfterRead(toS, 3)
        /\ IF h.what = Wants(sAt) THEN Expected ELSE Again
        /\ UNCHANGED <<rAt, stored>>
    BY <1>2 DEF SendHears, receiver
  <2>2. /\ Grows(toS', toS, {})
        /\ Real(h) => h \in Items(toS) /\ Follows(toS', toS, h)
    BY <1>0, <2>1, Reading DEF Shaped
  <2> HIDE DEF h
  <2>3. CASE h.what = Wants(sAt)
    <3>1. Real(h)
      BY <2>3 DEF Real, Wants
    <3> QED
      BY <2>1, <2>2, <2>3, <3>1, SendIsHeard
  <2>4. CASE h.what # Wants(sAt)
    BY <2>1, <2>2, <2>4, SendSaysAgain
  <2> QED
    BY <2>3, <2>4
<1>3. CASE SendTimesOut
  <2>1. Sending /\ toS' = << >> /\ Again /\ UNCHANGED <<rAt, stored>>
    BY <1>3 DEF SendTimesOut, receiver
  <2>2. Grows(toS', toS, {})
    BY <1>0, <2>1, GrowsNone DEF Shaped
  <2> QED
    BY <2>1, <2>2, SendSaysAgain
<1>4. CASE RecvStart
  <2>1. /\ rAt = "off" /\ toR' = toR /\ UNCHANGED <<sAt, sBlk, ahead, isLast, stored>>
        /\ \/ rAt' = "goo" /\ toS' = Append(toS, Token("GOO"))
           \/ rAt' = "err" /\ toS' = toS
    BY <1>4 DEF RecvStart, sender
  <2>2. Grows(toR', toR, {})
    BY <1>0, <2>1, GrowsNone DEF Shaped
  <2>3. CASE rAt' = "goo" /\ toS' = Append(toS, Token("GOO"))
    <3>1. Grows(toS', toS, {Token("GOO")})
      BY <1>0, <2>3, RecvSaying
    <3>2. Shaped'
      BY <1>0, <2>1, <2>2, <2>3, <3>1, RecvShaped DEF Shaped, RecvPlaces
    <3> QED
      BY <2>1, <2>2, <2>3, <3>1, <3>2, RecvGooAgain
  <2> QED
    BY <2>1, <2>2, <2>3, RecvGivesUp DEF RecvEnds, Ended
<1>5. CASE RecvHears
  <2> DEFINE h == ReadItem(toR, Awaits)
  <2>1. /\ Ready(toR, Awaits) /\ toR' = AfterRead(toR, Awaits)
        /\ Dialogue(h.what) \/ BlockAck(h.what) \/ BlockRead(h)
        /\ UNCHANGED <<sAt, sBlk, ahead, isLast>>
    BY <1>5 DEF RecvHears, sender
  <2>2. /\ Grows(toR', toR, {})
        /\ Real(h) => h \in Items(toR) /\ Follows(toR', toR, h)
    BY <1>0, <2>1, Reading DEF Shaped
  <2> HIDE DEF h
  <2> QED
    BY <2>1, <2>2, RecvIsTold, RecvIsOffered, RecvIsSent
<1>6. CASE RecvTimesOut
  <2>1. /\ Receiving /\ toR' = << >> /\ UNCHANGED <<sAt, sBlk, ahead, isLast, stored>>
        /\ \/ rAt = "goo" /\ rAt' = "goo" /\ toS' = Append(toS, Token("GOO"))
           \/ /\ rAt \in {"info", "data"} /\ toS' = Append(toS, Token("BAD"))
              /\ rAt' \in {IF rAt = "info" THEN "ackInfo" ELSE "ackData", "err"}
           \/ /\ rAt' = "err" /\ rAt # "endB"
              /\ toS' = toS \/ toS' = Append(toS, Token("BAD"))
           \/ rAt = "endB" /\ rAt' = "ok" /\ toS' = toS
    BY <1>6 DEF RecvTimesOut, sender
  <2>2. Grows(toR', toR, {})
    BY <1>0, <2>1, GrowsNone DEF Shaped
  <2>3. CASE rAt = "goo" /\ rAt' = "goo" /\ toS' = Append(toS, Token("GOO"))
    <3>1. Grows(toS', toS, {Token("GOO")})
      BY <1>0, <2>3, RecvSaying
    <3>2. Shaped'
      BY <1>0, <2>1, <2>2, <2>3, <3>1, RecvShaped DEF Shaped, RecvPlaces
    <3> QED
      BY <2>1, <2>2, <2>3, <3>1, <3>2, RecvGooAgain
  <2>4. CASE /\ rAt \in {"info", "data"} /\ toS' = Append(toS, Token("BAD"))
             /\ rAt' \in {IF rAt = "info" THEN "ackInfo" ELSE "ackData", "err"}
    BY <2>1, <2>2, <2>4, RecvRejects
  <2>5. CASE /\ rAt' = "err" /\ rAt # "endB"
             /\ toS' = toS \/ toS' = Append(toS, Token("BAD"))
    BY <2>1, <2>2, <2>5, RecvGivesUp DEF RecvEnds, Ended, Receiving
  <2>6. CASE rAt = "endB" /\ rAt' = "ok" /\ toS' = toS
    <3>1. Grows(toS', toS, {})
      BY <1>0, <2>6, RecvSaying
    <3>2. Shaped'
      BY <1>0, <2>1, <2>2, <2>6, <3>1, RecvShaped DEF Shaped, RecvPlaces, Ended
    <3> QED
      BY <2>1, <2>2, <2>6, <3>1, <3>2, RecvDone
  <2> QED
    BY <2>1, <2>3, <2>4, <2>5, <2>6
<1>7. CASE LineFault
  <2>1. UNCHANGED <<sAt, sBlk, ahead, isLast, rAt, stored>>
    BY <1>7 DEF LineFault, sender, receiver
  <2>2. Grows(toR', toR, {}) /\ Grows(toS', toS, {})
    BY <1>0, <1>7, MangledIsLess, GrowsNone DEF LineFault, Shaped
  <2>3. Shaped'
    BY <1>0, <2>1, <2>2, RecvShaped DEF Shaped
  <2> QED
    BY <2>1, <2>2, <2>3, LineLoses
<1>8. CASE UNCHANGED vars
  <2>1. UNCHANGED <<toR, toS, sAt, sBlk, ahead, isLast, rAt, stored>>
    BY <1>8 DEF vars, line, sender, receiver
  <2>2. Grows(toR', toR, {}) /\ Grows(toS', toS, {})
    BY <1>0, <2>1, GrowsNone DEF Shaped
  <2>3. Shaped'
    BY <1>0, <2>1, <2>2, RecvShaped DEF Shaped
  <2> QED
    BY <2>1, <2>2, <2>3, LineLoses
<1> QED
  BY <1>1, <1>2, <1>3, <1>4, <1>5, <1>6, <1>7, <1>8 DEF Next, Finished

(* A transfer by Punter is one of its module.                                 *)
LEMMA PunterInvAlways == TransfersSpec => []PunterInv
<1>1. TransfersInit => PunterInv
  BY PunterStarts DEF TransfersInit, NoPunter
<1>2. [TransfersNext]_transferVars => [Next]_vars
  BY DEF TransfersNext, ByPunter, ByZmodem, transferVars
<1>3. PunterInv /\ [Next]_vars => PunterInv'
  BY PunterStep
<1> QED
  BY <1>1, <1>2, <1>3, PTL DEF TransfersSpec

(* However much is lost, damaged or late, and however often a block is sent   *)
(* again, punter_recv has stored a beginning of the file that punter_send     *)
(* reads, every chunk once and in order.                                      *)
THEOREM StoredChunksAreInOrder == TransfersSpec => []StoredIsPrefix
<1>1. PunterInv => StoredIsPrefix
  BY DEF PunterInv, Received
<1> QED
  BY <1>1, PunterInvAlways, PTL

(* An end of a Punter transfer that reports success has the other's word for  *)
(* it: every block that was made is stored, and after the sender's report the *)
(* receiver does not fail any more.                                           *)
THEOREM SuccessIsWarranted == TransfersSpec => []SuccessIsAgreed
<1>1. PunterInv => SuccessIsAgreed
  BY DEF PunterInv, Parting, SuccessIsAgreed
<1> QED
  BY <1>1, PunterInvAlways, PTL

-----------------------------------------------------------------------------
(* Types: what a transfer by Punter reads, sends and stores is of the file.   *)

(* The chunks of a file: all but the last are full, and the last one has a    *)
(* byte at least and no more than a payload holds.                            *)
LEMMA ChunksAre ==
  ASSUME size \in FileSizes
  PROVE  /\ size \in Nat \ {0} /\ PayloadMax \in Nat \ {0}
         /\ Chunks \in Nat \ {0}
         /\ size - (Chunks - 1) * PayloadMax \in 1..PayloadMax
<1>1. size \in Nat \ {0} /\ PayloadMax \in Nat \ {0}
  BY PunterAssumption
<1> DEFINE P == PayloadMax
           N == size + P - 1
           q == N \div P
           m == N % P
<1>2. N \in Nat /\ N >= P /\ P \in Nat /\ P > 0
  BY <1>1
<1> HIDE DEF N, P
<1>3. N = P * q + m /\ q \in Int /\ m \in 0..(P - 1)
  BY <1>2
<1> HIDE DEF q, m
<1>4. q >= 1
  <2>1. CASE q <= 0
    <3>1. P * q <= 0
      BY <1>2, <1>3, <2>1
    <3> QED
      BY <1>2, <1>3, <3>1
  <2> QED
    BY <1>3, <2>1
<1>5. size - (q - 1) * P = m + 1
  <2>1. size = N - P + 1
    BY <1>1 DEF N, P
  <2>2. (q - 1) * P = P * q - P
    BY <1>2, <1>3
  <2> QED
    BY <2>1, <2>2, <1>2, <1>3
<1>6. Chunks = q
  BY DEF Chunks, q, N, P
<1> QED
  BY <1>1, <1>2, <1>3, <1>4, <1>5, <1>6 DEF P

LEMMA ChunkLenIs ==
  ASSUME size \in FileSizes, NEW k \in 0..Chunks
  PROVE  AheadLen(k) \in 0..(Header + PayloadMax)
<1>1. ChunkLen(k) \in 1..PayloadMax
  BY ChunksAre DEF ChunkLen
<1>2. PayloadMax \in Nat
  BY ChunksAre
<1> HIDE DEF ChunkLen
<1> QED
  BY <1>1, <1>2 DEF AheadLen, Header

(* What a block says: the chunk it carries is one of the file's, or none, and *)
(* the block to follow is no longer than a header and a payload.              *)
OfFile(b) == b.chunk \in 0..Chunks /\ b.next \in 0..(Header + PayloadMax)

(* The chunk read ahead is one of the file's, and not the last unless it is   *)
(* known to be; punter_recv's buffer holds whatever block it waits for.       *)
PunterTyped ==
  /\ size \in FileSizes
  /\ sTries \in 0..Retries /\ rTries \in 0..Retries /\ luck \in 0..MaxFaults
  /\ ahead \in 0..Chunks /\ isLast \in BOOLEAN /\ (~isLast => ahead < Chunks)
  /\ OfFile(sBlk)
  /\ \A x \in Items(toR) : IsBlock(x) => OfFile(x)
  /\ need \in 0..(Header + PayloadMax)
  /\ \A k \in DOMAIN stored : stored[k] \in 1..Chunks

(* A step of punter_send, one of punter_recv, each from what it changes.      *)
LEMMA SendTyped ==
  ASSUME PunterTyped, UNCHANGED <<size, rTries, need, stored>>,
         NEW X, Grows(toR', toR, X), \A x \in X : IsBlock(x) => OfFile(x),
         sTries' \in 0..Retries, luck' \in 0..MaxFaults,
         ahead' \in 0..Chunks, isLast' \in BOOLEAN, ~isLast' => ahead' < Chunks,
         OfFile(sBlk')
  PROVE  PunterTyped'
<1>1. Chunks' = Chunks
  BY DEF Chunks
<1>2. \A x \in Items(toR') : IsBlock(x) => OfFile(x)
  <2>1. ASSUME NEW x \in Items(toR'), IsBlock(x)
        PROVE  OfFile(x)
    <3>1. x \in Items(toR) \cup X
      BY <2>1 DEF Grows, IsBlock, Real
    <3> QED
      BY <2>1, <3>1 DEF PunterTyped
  <2> QED
    BY <2>1
<1>3. \A x \in Items(toR') : IsBlock(x) => (x.chunk \in 0..Chunks' /\ x.next \in 0..(Header + PayloadMax))
  BY <1>1, <1>2 DEF OfFile
<1>4. sBlk'.chunk \in 0..Chunks' /\ sBlk'.next \in 0..(Header + PayloadMax)
  BY <1>1 DEF OfFile
<1>5. /\ ahead' \in 0..Chunks' /\ isLast' \in BOOLEAN /\ (~isLast' => ahead' < Chunks')
  BY <1>1
<1>6. (\A k \in DOMAIN stored : stored[k] \in 1..Chunks)'
  BY <1>1 DEF PunterTyped
<1> QED
  BY <1>3, <1>4, <1>5, <1>6 DEF PunterTyped, OfFile, IsBlock

LEMMA RecvTyped ==
  ASSUME PunterTyped, UNCHANGED <<size, sTries, sBlk, ahead, isLast>>,
         Grows(toR', toR, {}), rTries' \in 0..Retries, luck' \in 0..MaxFaults,
         need' \in 0..(Header + PayloadMax),
         \A k \in DOMAIN stored' : stored'[k] \in 1..Chunks
  PROVE  PunterTyped'
<1>1. Chunks' = Chunks
  BY DEF Chunks
<1>2. \A x \in Items(toR') : IsBlock(x) => OfFile(x)
  BY DEF Grows, IsBlock, Real, PunterTyped
<1>3. \A x \in Items(toR') : IsBlock(x) => (x.chunk \in 0..Chunks' /\ x.next \in 0..(Header + PayloadMax))
  BY <1>1, <1>2 DEF OfFile
<1>4. sBlk'.chunk \in 0..Chunks' /\ sBlk'.next \in 0..(Header + PayloadMax)
  BY <1>1 DEF OfFile, PunterTyped
<1>5. /\ ahead' \in 0..Chunks' /\ isLast' \in BOOLEAN /\ (~isLast' => ahead' < Chunks')
  BY <1>1 DEF PunterTyped
<1>6. (\A k \in DOMAIN stored : stored[k] \in 1..Chunks)'
  BY <1>1
<1> QED
  BY <1>3, <1>4, <1>5, <1>6 DEF PunterTyped, OfFile, IsBlock

(* What punter_send says is tokens or its block.                              *)
LEMMA SaidOfFile ==
  ASSUME Shaped, NEW at, NEW blk, OfFile(blk), toR' = toR \o Says(at, blk)
  PROVE  \E X : Grows(toR', toR, X) /\ \A x \in X : IsBlock(x) => OfFile(x)
<1>1. \A x : toR \o <<x>> = Append(toR, x) /\ Grows(Append(toR, x), toR, {x})
  BY GrowsByOne DEF Shaped
<1>2. toR \o << >> = toR /\ Grows(toR, toR, {})
  BY GrowsNone, EmptyAtEnd DEF Shaped
<1>3. ~IsBlock(Token("GOO")) /\ ~IsBlock(Token("SYN")) /\ ~IsBlock(Token("ACK"))
  BY DEF IsBlock, Token, Item
<1>4. \/ Says(at, blk) = << >>
      \/ Says(at, blk) = <<blk>>
      \/ Says(at, blk) = <<Token("GOO")>>
      \/ Says(at, blk) = <<Token("SYN")>>
      \/ Says(at, blk) = <<Token("ACK")>>
  BY DEF Says
<1>5. PICK X : Grows(toR', toR, X) /\ (X = {} \/ X = {blk} \/ X = {Token("GOO")} \/ X = {Token("SYN")} \/ X = {Token("ACK")})
  BY <1>1, <1>2, <1>4
<1> QED
  BY <1>3, <1>5

(* A chunk read ahead is one of the file's.                                   *)
LEMMA AheadTyped ==
  ASSUME PunterTyped, NEW k \in 1..Chunks, ReadAhead(k)
  PROVE  /\ ahead' \in 0..Chunks /\ isLast' \in BOOLEAN /\ (~isLast' => ahead' < Chunks)
         /\ luck' \in 0..MaxFaults
<1>1. Chunks \in Nat /\ size \in FileSizes
  BY ChunksAre DEF PunterTyped
<1>2. CASE ahead' = k /\ isLast' = LastRead(k) /\ UNCHANGED luck
  <2>1. isLast' \in BOOLEAN /\ (~isLast' => k # Chunks)
    BY <1>2 DEF LastRead
  <2> QED
    BY <1>1, <1>2, <2>1 DEF PunterTyped
<1>3. CASE luck > 0 /\ luck' = luck - 1 /\ ahead' = 0 /\ isLast' = TRUE
  <2>1. luck \in 0..MaxFaults /\ MaxFaults \in Nat
    BY PunterAssumption DEF PunterTyped
  <2>2. luck' \in 0..MaxFaults
    BY ONLY <1>3, <2>1
  <2>3. 0 \in 0..Chunks
    BY <1>1
  <2>4. isLast'
    BY <1>3
  <2> QED
    BY <1>3, <2>2, <2>3, <2>4, Zenon
<1> QED
  BY <1>2, <1>3 DEF ReadAhead

(* The steps of punter_send.                                                  *)
LEMMA PreparesOfFile ==
  ASSUME PunterTyped, Shaped, PrepareData
  PROVE  /\ sTries' \in 0..Retries /\ luck' \in 0..MaxFaults
         /\ ahead' \in 0..Chunks /\ isLast' \in BOOLEAN /\ (~isLast' => ahead' < Chunks)
         /\ OfFile(sBlk') /\ toR' = toR \o Says("ackData", sBlk')
<1>1. Chunks \in Nat /\ size \in FileSizes /\ Retries \in Nat /\ PayloadMax \in Nat
  BY ChunksAre, PunterAssumption DEF PunterTyped
<1>2. /\ ahead' \in 0..Chunks /\ isLast' \in BOOLEAN /\ (~isLast' => ahead' < Chunks)
      /\ luck' \in 0..MaxFaults
  <2>1. CASE ~isLast /\ ReadAhead(ahead + 1)
    <3>1. ahead + 1 \in 1..Chunks
      BY <1>1, <2>1 DEF PunterTyped
    <3> QED
      BY <2>1, <3>1, AheadTyped
  <2>2. CASE isLast /\ UNCHANGED <<ahead, isLast, luck>>
    BY <2>2 DEF PunterTyped
  <2> QED
    BY <2>1, <2>2 DEF PrepareData
<1>3. /\ sTries' = Retries /\ sBlk' = DataBlock /\ toR' = toR \o Says("ackData", DataBlock)
  BY DEF PrepareData, Enter
<1>4. AheadLen(ahead') \in 0..(Header + PayloadMax) /\ Header \in 0..(Header + PayloadMax)
  BY <1>1, <1>2, ChunkLenIs DEF Header
<1>5. DataBlock.chunk = ahead /\ DataBlock.next = IF isLast THEN Header ELSE AheadLen(ahead')
  BY DEF DataBlock, Item
<1>6. OfFile(DataBlock)
  BY <1>4, <1>5 DEF OfFile, PunterTyped
<1> QED
  BY <1>1, <1>2, <1>3, <1>6

LEMMA ExpectedTyped ==
  ASSUME PunterTyped, Shaped, Expected, UNCHANGED <<size, rTries, need, stored>>
  PROVE  PunterTyped'
<1>1. /\ Chunks \in Nat /\ 1 \in 1..Chunks /\ size \in FileSizes
      /\ Retries \in 0..Retries /\ PayloadMax \in Nat
  BY ChunksAre, PunterAssumption DEF PunterTyped
<1>2. OfFile(sBlk) /\ OfFile(TypeBlock) /\ OfFile(InfoBlock)
  <2>1. AheadLen(ahead) \in 0..(Header + PayloadMax)
    BY <1>1, ChunkLenIs DEF PunterTyped
  <2>2. /\ InfoBlock.chunk = 0 /\ InfoBlock.next = AheadLen(ahead)
        /\ TypeBlock.chunk = 0 /\ TypeBlock.next = Header
    BY DEF InfoBlock, TypeBlock, Item
  <2>3. Header \in 0..(Header + PayloadMax) /\ 0 \in 0..Chunks
    BY <1>1 DEF Header
  <2> QED
    BY <2>1, <2>2, <2>3 DEF OfFile, PunterTyped
<1>3. ASSUME NEW at, NEW blk, OfFile(blk), Enter(at, blk), UNCHANGED <<ahead, isLast, luck>>
      PROVE  PunterTyped'
  <2>1. PICK X : Grows(toR', toR, X) /\ \A x \in X : IsBlock(x) => OfFile(x)
    BY <1>3, SaidOfFile DEF Enter
  <2>2. sTries' \in 0..Retries /\ OfFile(sBlk')
    BY <1>1, <1>3 DEF Enter
  <2> QED
    BY <1>3, <2>1, <2>2, SendTyped DEF PunterTyped
<1>4. ASSUME NEW at, EndPhase(at)
      PROVE  PunterTyped'
  <2>1. Grows(toR', toR, {Token("SB")}) /\ ~IsBlock(Token("SB"))
    BY <1>4, GrowsByOne DEF EndPhase, Shaped, IsBlock, Token, Item
  <2>2. sTries' \in 0..Retries /\ UNCHANGED <<sBlk, ahead, isLast, luck>>
    BY <1>1, <1>4 DEF EndPhase
  <2> QED
    BY <1>2, <2>1, <2>2, SendTyped DEF PunterTyped
<1>5. CASE PrepareData
  <2>1. /\ sTries' \in 0..Retries /\ luck' \in 0..MaxFaults
        /\ ahead' \in 0..Chunks /\ isLast' \in BOOLEAN /\ (~isLast' => ahead' < Chunks)
        /\ OfFile(sBlk') /\ toR' = toR \o Says("ackData", sBlk')
    BY <1>5, PreparesOfFile
  <2>2. PICK X : Grows(toR', toR, X) /\ \A x \in X : IsBlock(x) => OfFile(x)
    BY <2>1, SaidOfFile
  <2> QED
    BY <2>1, <2>2, SendTyped
<1>6. CASE ReadAhead(1) /\ Enter("ackInfo", sBlk)
  <2>1. /\ luck' \in 0..MaxFaults
        /\ ahead' \in 0..Chunks /\ isLast' \in BOOLEAN /\ (~isLast' => ahead' < Chunks)
    BY <1>1, <1>6, AheadTyped
  <2>2. sTries' \in 0..Retries /\ OfFile(sBlk') /\ toR' = toR \o Says("ackInfo", sBlk)
    BY <1>1, <1>2, <1>6 DEF Enter
  <2>3. PICK X : Grows(toR', toR, X) /\ \A x \in X : IsBlock(x) => OfFile(x)
    BY <1>2, <2>2, SaidOfFile
  <2> QED
    BY <2>1, <2>2, <2>3, SendTyped
<1>7. CASE sAt \in DOMAIN Then /\ Enter(Then[sAt], CASE sAt = "ackType" -> TypeBlock
                                                   [] sAt = "ackInfo" -> InfoBlock
                                                   [] OTHER -> sBlk)
           /\ UNCHANGED <<ahead, isLast, luck>>
  <2> DEFINE blk == CASE sAt = "ackType" -> TypeBlock
                      [] sAt = "ackInfo" -> InfoBlock
                      [] OTHER -> sBlk
             at == Then[sAt]
  <2>1. OfFile(blk)
    BY <1>2
  <2>2. Enter(at, blk)
    BY <1>7
  <2> HIDE DEF at, blk
  <2> QED
    BY <1>3, <1>7, <2>1, <2>2
<1>8. CASE Enter("ackB", sBlk) /\ UNCHANGED <<ahead, isLast, luck>>
  BY <1>2, <1>3, <1>8
<1> QED
  BY <1>4, <1>5, <1>6, <1>7, <1>8 DEF Expected

LEMMA AgainTyped ==
  ASSUME PunterTyped, Shaped, Again, UNCHANGED <<size, rTries, need, stored>>,
         luck' \in 0..MaxFaults
  PROVE  PunterTyped'
<1>1. sTries' \in 0..Retries
  BY PunterAssumption DEF PunterTyped, Again
<1>2. UNCHANGED <<sBlk, ahead, isLast>> /\ (toR' = toR \o Says(sAt, sBlk) \/ toR' = toR)
  BY DEF Again
<1>3. PICK X : Grows(toR', toR, X) /\ \A x \in X : IsBlock(x) => OfFile(x)
  <2>1. CASE toR' = toR
    BY <2>1, GrowsNone DEF Shaped
  <2>2. CASE toR' = toR \o Says(sAt, sBlk)
    BY <2>2, SaidOfFile DEF PunterTyped
  <2> QED
    BY <1>2, <2>1, <2>2
<1> QED
  BY <1>1, <1>2, <1>3, SendTyped DEF PunterTyped

(* The steps of punter_recv.                                                  *)
LEMMA AgainReceives ==
  ASSUME PunterTyped, Shaped, NEW at, NEW tokens, RecvAgain(at, tokens),
         UNCHANGED <<size, sTries, sBlk, ahead, isLast>>, Grows(toR', toR, {})
  PROVE  PunterTyped'
<1>1. rTries' \in 0..Retries
  BY PunterAssumption DEF PunterTyped, RecvAgain
<1>2. UNCHANGED <<need, stored, luck>>
  BY DEF RecvAgain
<1> QED
  BY <1>1, <1>2, RecvTyped DEF PunterTyped

LEMMA ReplyReceives ==
  ASSUME PunterTyped, Shaped, NEW at, NEW tokens, Reply(tokens, at),
         UNCHANGED <<size, sTries, sBlk, ahead, isLast>>, Grows(toR', toR, {})
  PROVE  PunterTyped'
<1>1. rTries' \in 0..Retries
  BY PunterAssumption DEF Reply
<1>2. UNCHANGED <<need, stored, luck>>
  BY DEF Reply
<1> QED
  BY <1>1, <1>2, RecvTyped DEF PunterTyped

LEMMA DialogueTyped ==
  ASSUME PunterTyped, Shaped, NEW h, h \in Items(toR) \/ ~IsBlock(h),
         Dialogue(h.what) \/ BlockAck(h.what) \/ BlockRead(h),
         UNCHANGED <<size, sTries, sBlk, ahead, isLast>>, Grows(toR', toR, {})
  PROVE  PunterTyped'
<1>1. CASE Dialogue(h.what)
  <2>1. \/ \E at, tokens : Reply(tokens, at)
        \/ RecvAgain("goo", <<Token("GOO")>>)
    BY <1>1, Zenon DEF Dialogue
  <2> QED
    BY <2>1, ReplyReceives, AgainReceives
<1>2. CASE BlockAck(h.what)
  <2>1. \/ UNCHANGED <<rTries, need, stored, luck>>
        \/ \E at, tokens : RecvAgain(at, tokens)
    BY <1>2, Zenon DEF BlockAck
  <2>2. CASE UNCHANGED <<rTries, need, stored, luck>>
    BY <2>2, RecvTyped DEF PunterTyped
  <2> QED
    BY <2>1, <2>2, AgainReceives
<1>3. CASE BlockRead(h)
  <2>1. \/ \E at, tokens : Reply(tokens, at) \/ RecvAgain(at, tokens)
        \/ IsBlock(h) /\ Accept(h)
    BY <1>3, Zenon DEF BlockRead, IsBlock
  <2>2. CASE IsBlock(h) /\ Accept(h)
    <3>1. OfFile(h) /\ Retries \in Nat /\ MaxFaults \in Nat
      BY <2>2, PunterAssumption DEF PunterTyped
    <3>2. CASE /\ Goes(h, IF rAt = "data" /\ h.chunk # 0 THEN Append(stored, h.chunk) ELSE stored)
               /\ UNCHANGED luck
      <4>1. need' = h.next /\ rTries' \in 0..Retries /\ UNCHANGED luck
        BY <3>1, <3>2 DEF Goes
      <4>2. stored' = stored \/ (h.chunk # 0 /\ stored' = Append(stored, h.chunk))
        BY <3>2 DEF Goes
      <4>3. \A k \in DOMAIN stored' : stored'[k] \in 1..Chunks
        <5>1. CASE stored' = stored
          BY <5>1 DEF PunterTyped
        <5>2. CASE h.chunk # 0 /\ stored' = Append(stored, h.chunk)
          <6>1. h.chunk \in 1..Chunks
            BY <3>1, <5>2, ChunksAre DEF OfFile, PunterTyped
          <6>2. stored \in Seq(Nat) /\ h.chunk \in Nat /\ DOMAIN stored = 1..Len(stored)
            BY <6>1, ChunksAre DEF Shaped, PunterTyped
          <6>3. /\ DOMAIN stored' = 1..(Len(stored) + 1)
                /\ \A k \in 1..(Len(stored) + 1) : stored'[k] = IF k <= Len(stored) THEN stored[k] ELSE h.chunk
            BY <5>2, <6>2
          <6> QED
            BY <6>1, <6>2, <6>3 DEF PunterTyped
        <5> QED
          BY <4>2, <5>1, <5>2
      <4> QED
        BY <3>1, <4>1, <4>3, RecvTyped DEF OfFile, PunterTyped
    <3>3. CASE WriteFails /\ luck' = luck - 1 /\ rTries' = 0 /\ UNCHANGED <<need, stored>>
      <4>1. luck' \in 0..MaxFaults /\ rTries' \in 0..Retries
        BY <3>1, <3>3 DEF WriteFails, PunterTyped
      <4> QED
        BY <3>3, <4>1, RecvTyped DEF PunterTyped
    <3> QED
      BY <2>2, <3>2, <3>3 DEF Accept
  <2> QED
    BY <2>1, <2>2, ReplyReceives, AgainReceives
<1> QED
  BY <1>1, <1>2, <1>3

(* The invariant.                                                             *)
LEMMA PunterTypedStarts == Init => PunterTyped
<1> SUFFICES ASSUME Init PROVE PunterTyped
  OBVIOUS
<1>1. size \in FileSizes /\ Chunks \in Nat \ {0} /\ PayloadMax \in Nat
  BY ChunksAre DEF Init
<1>2. sBlk.chunk = 0 /\ sBlk.next = 0 /\ 0 \in 0..Chunks /\ 0 \in 0..(Header + PayloadMax)
  BY <1>1 DEF Init, NoBlock, Item, Header
<1>3. Items(toR) = {} /\ DOMAIN stored = {}
  <2>1. Len(<< >>) = 0 /\ 1..0 = {} /\ DOMAIN << >> = {}
    BY EmptySeq
  <2> QED
    BY <2>1 DEF Init, Items
<1>4. sTries \in 0..Retries /\ rTries \in 0..Retries /\ luck \in 0..MaxFaults
  BY PunterAssumption DEF Init
<1>5. ahead \in 0..Chunks /\ isLast \in BOOLEAN /\ ahead < Chunks
  <2>1. ahead = 0 /\ isLast = FALSE
    BY DEF Init
  <2>2. 0 \in 0..Chunks /\ 0 < Chunks
    BY <1>1
  <2> QED
    BY <2>1, <2>2
<1>6. need \in 0..(Header + PayloadMax)
  BY <1>2 DEF Init
<1> QED
  BY <1>1, <1>2, <1>3, <1>4, <1>5, <1>6 DEF PunterTyped, OfFile

LEMMA PunterTypedStep ==
  ASSUME PunterTyped, Shaped, [Next]_vars
  PROVE  PunterTyped'
<1>0. /\ Retries \in Nat \ {0} /\ MaxFaults \in Nat
      /\ luck \in 0..MaxFaults /\ sTries \in 0..Retries /\ rTries \in 0..Retries
  BY PunterAssumption DEF PunterTyped
<1>1. CASE SendStart
  <2>1. UNCHANGED <<size, rTries, need, stored, ahead, isLast>>
    BY <1>1 DEF SendStart, receiver
  <2>2. CASE Enter("goo", sBlk) /\ UNCHANGED luck
    <3>1. PICK X : Grows(toR', toR, X) /\ \A x \in X : IsBlock(x) => OfFile(x)
      BY <2>2, SaidOfFile DEF Enter, PunterTyped
    <3>2. sTries' \in 0..Retries /\ sBlk' = sBlk
      BY <1>0, <2>2 DEF Enter
    <3> QED
      BY <2>1, <2>2, <3>1, <3>2, SendTyped DEF PunterTyped
  <2>3. CASE luck > 0 /\ luck' = luck - 1 /\ UNCHANGED <<sTries, sBlk, toR>>
    <3>1. luck' \in 0..MaxFaults /\ Grows(toR', toR, {})
      BY <1>0, <2>3, GrowsNone DEF Shaped
    <3> QED
      BY <2>1, <2>3, <3>1, SendTyped DEF PunterTyped
  <2> QED
    BY <1>1, <2>2, <2>3 DEF SendStart
<1>2. CASE SendHears
  <2>1. UNCHANGED <<size, rTries, need, stored>> /\ (Expected \/ (Again /\ UNCHANGED luck))
    BY <1>2 DEF SendHears, receiver
  <2> QED
    BY <1>0, <2>1, ExpectedTyped, AgainTyped
<1>3. CASE SendTimesOut
  <2>1. /\ UNCHANGED <<size, rTries, need, stored>> /\ Again
        /\ luck' = luck \/ (luck > 0 /\ luck' = luck - 1)
    BY <1>3, Zenon DEF SendTimesOut, receiver, Slow
  <2>2. luck' \in 0..MaxFaults
    BY <1>0, <2>1
  <2> QED
    BY <2>1, <2>2, AgainTyped
<1>4. CASE RecvStart
  <2>1. /\ UNCHANGED <<size, sTries, sBlk, ahead, isLast, need, stored, toR>>
        /\ rTries' = Retries \/ rTries' = rTries
        /\ luck' = luck \/ (luck > 0 /\ luck' = luck - 1)
    BY <1>4, Zenon DEF RecvStart, sender
  <2>2. luck' \in 0..MaxFaults /\ rTries' \in 0..Retries
    BY <1>0, <2>1
  <2>3. Grows(toR', toR, {})
    BY <2>1, GrowsNone DEF Shaped
  <2> QED
    BY <2>1, <2>2, <2>3, RecvTyped DEF PunterTyped
<1>5. CASE RecvHears
  <2> DEFINE h == ReadItem(toR, Awaits)
  <2>1. /\ Ready(toR, Awaits) /\ toR' = AfterRead(toR, Awaits)
        /\ Dialogue(h.what) \/ BlockAck(h.what) \/ BlockRead(h)
        /\ UNCHANGED <<size, sTries, sBlk, ahead, isLast>>
    BY <1>5 DEF RecvHears, sender
  <2>2. Grows(toR', toR, {}) /\ (h \in Items(toR) \/ ~Real(h))
    BY <2>1, Reading DEF Shaped
  <2> HIDE DEF h
  <2>3. h \in Items(toR) \/ ~IsBlock(h)
    BY <2>2 DEF IsBlock, Real
  <2> QED
    BY <2>1, <2>2, <2>3, DialogueTyped
<1>6. CASE RecvTimesOut
  <2>1. /\ UNCHANGED <<size, sTries, sBlk, ahead, isLast, need, stored>> /\ toR' = << >>
        /\ luck' = luck \/ (luck > 0 /\ luck' = luck - 1)
    BY <1>6, Zenon DEF RecvTimesOut, sender, Slow
  <2>2. rTries' = 0 \/ (rTries > 1 /\ rTries' = rTries - 1)
    BY <1>6 DEF RecvTimesOut
  <2>3. luck' \in 0..MaxFaults /\ rTries' \in 0..Retries
    BY <1>0, <2>1, <2>2
  <2>4. Grows(toR', toR, {})
    BY <2>1, GrowsNone DEF Shaped
  <2> QED
    BY <2>1, <2>3, <2>4, RecvTyped DEF PunterTyped
<1>7. CASE LineFault
  <2>1. /\ UNCHANGED <<size, sTries, sBlk, ahead, isLast, rTries, need, stored>>
        /\ luck > 0 /\ luck' = luck - 1
    BY <1>7 DEF LineFault, sender, receiver
  <2>2. Grows(toR', toR, {})
    BY <1>7, MangledIsLess, GrowsNone DEF LineFault, Shaped
  <2>3. luck' \in 0..MaxFaults
    BY <1>0, <2>1
  <2> QED
    BY <2>1, <2>2, <2>3, RecvTyped DEF PunterTyped
<1>8. CASE UNCHANGED vars
  <2>1. UNCHANGED <<size, sTries, sBlk, ahead, isLast, rTries, need, stored, toR, luck>>
    BY <1>8 DEF vars, line, sender, receiver
  <2>2. Grows(toR', toR, {})
    BY <2>1, GrowsNone DEF Shaped
  <2> QED
    BY <2>1, <2>2, RecvTyped DEF PunterTyped
<1> QED
  BY <1>1, <1>2, <1>3, <1>4, <1>5, <1>6, <1>7, <1>8 DEF Next, Finished

-----------------------------------------------------------------------------
(* Types of a transfer.                                                       *)

ZPlaces == {"off", "rqinit", "rpos", "stream", "eof", "fin",
            "file", "name", "zdata", "data", "last"} \cup ZEnded
ZCounted == zAt \in ZPlaces /\ retries \in 0..10

(* The loops of zmodem.c count up to their limits only.                       *)
LEMMA RetryCounts ==
  ASSUME ZCounted, NEW limit \in 0..10, NEW frames, Retry(limit, frames)
  PROVE  ZCounted'
<1>1. CASE zAt' = zAt /\ retries' = retries + 1 /\ retries + 1 < limit
  BY <1>1 DEF ZCounted
<1>2. CASE GoTo("err")
  BY <1>2 DEF GoTo, ZCounted, ZPlaces, ZEnded
<1> QED
  BY <1>1, <1>2 DEF Retry

LEMMA GoesOn ==
  ASSUME NEW at \in ZPlaces, GoTo(at)
  PROVE  ZCounted'
<1> QED
  BY DEF GoTo, ZCounted

LEMMA SendHeaderCounts ==
  ASSUME ZCounted, NEW f, SendHeader(f)
  PROVE  ZCounted'
<1>1. \/ \E at \in {"rpos", "cancel", "stream", "ok", "fin"} : GoTo(at)
      \/ \E limit \in {4, 5, 10} : \E frames : Retry(limit, frames)
  BY Zenon DEF SendHeader
<1>2. {"rpos", "cancel", "stream", "ok", "fin"} \subseteq ZPlaces
  BY DEF ZPlaces, ZEnded
<1> QED
  BY <1>1, <1>2, GoesOn, RetryCounts

LEMMA RecvHeaderCounts ==
  ASSUME ZCounted, NEW f, RecvHeader(f)
  PROVE  ZCounted'
<1>1. \/ \E at \in {"name", "ok", "cancel", "data"} : GoTo(at)
      \/ \E limit \in {5, 10} : \E frames : Retry(limit, frames)
      \/ zAt' = zAt /\ retries' = 1
  BY Zenon DEF RecvHeader
<1>2. {"name", "ok", "cancel", "data"} \subseteq ZPlaces
  BY DEF ZPlaces, ZEnded
<1>3. CASE zAt' = zAt /\ retries' = 1
  BY <1>3 DEF ZCounted
<1> QED
  BY <1>1, <1>2, <1>3, GoesOn, RetryCounts

LEMMA ZCountedStep ==
  ASSUME ZCounted, [ZNext]_zVars
  PROVE  ZCounted'
<1>1. CASE UNCHANGED <<zAt, retries>>
  BY <1>1 DEF ZCounted
<1>2. CASE ZStart
  <2>1. \E at \in {"rqinit", "file", "err"} : GoTo(at)
    BY <1>2, Zenon DEF ZStart
  <2> QED
    BY <2>1, GoesOn DEF ZPlaces, ZEnded
<1>3. CASE Stream
  <2>1. \E at \in {"eof", "stream"} : GoTo(at)
    BY <1>3, Zenon DEF Stream
  <2> QED
    BY <2>1, GoesOn DEF ZPlaces, ZEnded
<1>4. ASSUME NEW f, RecvName(f)
      PROVE  ZCounted'
  <2>1. \E at \in {"zdata", "err"} : GoTo(at)
    BY <1>4, Zenon DEF RecvName
  <2> QED
    BY <2>1, GoesOn DEF ZPlaces, ZEnded
<1>5. ASSUME NEW p, RecvData(p)
      PROVE  ZCounted'
  <2>1. (\E at \in {"last", "data", "err", "cancel"} : GoTo(at)) \/ UNCHANGED <<zAt, retries>>
    BY <1>5, Zenon DEF RecvData
  <2> QED
    BY <1>1, <2>1, GoesOn DEF ZPlaces, ZEnded
<1>6. CASE ZHears
  <2>1. \/ \E f : SendHeader(f) \/ RecvHeader(f) \/ RecvName(f)
        \/ \E p : RecvData(p)
    BY <1>6, Zenon DEF ZHears
  <2> QED
    BY <1>4, <1>5, <2>1, SendHeaderCounts, RecvHeaderCounts
<1>7. CASE ZTimesOut
  <2>1. SendHeader("none") \/ RecvHeader("none") \/ GoTo("err")
    BY <1>7, Zenon DEF ZTimesOut
  <2> QED
    BY <2>1, SendHeaderCounts, RecvHeaderCounts, GoesOn DEF ZPlaces, ZEnded
<1>8. CASE TermHears \/ TermStreams \/ TermActs \/ ZLineFault \/ ZFinished \/ UNCHANGED zVars
  <2>1. UNCHANGED <<zAt, retries>>
    BY <1>8 DEF TermHears, TermStreams, TermActs, ZLineFault, ZFinished, Board, zBoard, zVars
  <2> QED
    BY <1>1, <2>1
<1> QED
  BY <1>2, <1>3, <1>6, <1>7, <1>8 DEF ZNext

(* Every count of a transfer stays within its limit, whatever the size of the *)
(* file and however many faults it meets: the tries of punter.c and the loops *)
(* of zmodem.c, the chunk read ahead, the chunks that are stored, and the     *)
(* length of the block that punter_recv waits for, which its buffer holds.    *)
THEOREM TransfersAreTyped == TransfersSpec => []TransfersTypeOK
<1>1. TransfersInit => PunterTyped /\ protocol \in {"punter", "zmodem"}
  BY PunterTypedStarts DEF TransfersInit, NoPunter
<1>2. TransfersInit => ZCounted
  BY DEF TransfersInit, NoZmodem, ZInit, ZCounted, ZPlaces
<1>3. PunterInv => Shaped
  BY DEF PunterInv
<1>4. [TransfersNext]_transferVars => /\ [Next]_vars /\ [ZNext]_zVars /\ protocol' = protocol
  BY DEF TransfersNext, ByPunter, ByZmodem, transferVars
<1>5. /\ PunterTyped /\ ZCounted /\ protocol \in {"punter", "zmodem"} /\ PunterInv
      /\ [TransfersNext]_transferVars
      => (PunterTyped /\ ZCounted /\ protocol \in {"punter", "zmodem"})'
  BY <1>3, <1>4, PunterTypedStep, ZCountedStep
<1>6. /\ PunterTyped /\ ZCounted /\ protocol \in {"punter", "zmodem"} /\ PunterInv
      /\ ZTyped /\ EndInv
      => TransfersTypeOK
  <2> SUFFICES ASSUME PunterTyped, ZCounted, protocol \in {"punter", "zmodem"}, PunterInv, ZTyped
               PROVE  TransfersTypeOK
    OBVIOUS
  <2>1. sAt \in Steps \cup {"ready"} /\ rAt \in Steps \cup {"endA", "endB"}
    BY <1>3 DEF Shaped, SendPlaces, RecvPlaces, Steps, Ended
  <2>2. TypeOK
    BY <2>1, Zenon DEF PunterTyped, TypeOK
  <2>3. ZTypeOK
    BY DEF ZTyped, ZCounted, ZPlaces, ZTypeOK
  <2> QED
    BY <2>2, <2>3 DEF TransfersTypeOK
<1> QED
  BY <1>1, <1>2, <1>5, <1>6, PunterInvAlways, TransfersAreZmodem, EndInvAlways, PTL DEF TransfersSpec
=============================================================================
