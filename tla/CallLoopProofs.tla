---------------------------- MODULE CallLoopProofs ----------------------------
(* What holds of the board's thread and of the modem line for every size of   *)
(* the receive ring, every number of callers and everything they may type.    *)
EXTENDS CallLoop, SequenceTheorems, TLAPS

-----------------------------------------------------------------------------
(* The modem line.                                                            *)

(* What is used of counting modulo n.                                         *)
LEMMA ModIsWithin ==
  ASSUME NEW n \in Nat \ {0}, NEW x \in Int
  PROVE  x % n \in 0..(n - 1)
OBVIOUS

(* Numbers below n stay, and those below its double lose n.                   *)
LEMMA ModIsSmall ==
  ASSUME NEW n \in Nat \ {0}, NEW x \in 0..(2 * n - 1)
  PROVE  x % n = IF x < n THEN x ELSE x - n
<1>1. x < n => x % n = x
  OBVIOUS
<1>2. x >= n => x % n = x - n
  OBVIOUS
<1> QED
  BY <1>1, <1>2

(* Those a little below 0 gain it.                                            *)
LEMMA ModIsBelow ==
  ASSUME NEW n \in Nat \ {0}, NEW x \in (-n + 1)..(-1)
  PROVE  x % n = x + n
OBVIOUS

(* Two numbers less than n apart differ modulo n, even if one of them has     *)
(* gone round the multiples of n.                                             *)
LEMMA ModsDiffer ==
  ASSUME NEW n \in Nat \ {0}, NEW x \in Int, NEW y \in Int,
         NEW d \in 1..(n - 1), NEW q \in Int, y - x = d + n * q
  PROVE  x % n # y % n
<1>1. SUFFICES ASSUME x % n = y % n PROVE FALSE
  OBVIOUS
<1>2. ASSUME NEW z \in Int
      PROVE  z \div n \in Int /\ z = n * (z \div n) + (z % n)
  OBVIOUS
<1> DEFINE m == (y \div n) - (x \div n) - q
<1>3. m \in Int /\ d = n * m
  BY <1>1, <1>2
<1>4. (m >= 1 => n * m >= n) /\ (m <= 0 => n * m <= 0)
  <2> HIDE DEF m
  <2> QED  BY <1>3
<1> QED
  BY <1>3, <1>4

(* What travels on the line.                                                  *)
Tokens == [kind : Kinds, call : 0..MaxCalls, n : 0..MaxTyped]

(* What the constants are.                                                    *)
LEMMA LineSizes ==
  /\ RingSize \in Nat \ {0} /\ Wrap \in Nat \ {0} /\ RingSize < Wrap
  /\ MaxCalls \in Nat /\ MaxTyped \in Nat
  /\ 0 \in 0..MaxCalls /\ 0 \in 0..MaxTyped
  /\ Typed \subseteq Kinds
BY NetLineAssumption

(* A token is a byte that is there.                                           *)
LEMMA TokensAreBytes ==
  /\ Tokens \subseteq ByteRecord /\ None \in ByteRecord /\ None \notin Tokens
BY LineSizes DEF Tokens, ByteRecord, None, Kinds

(* A result code is three tokens.                                             *)
LEMMA ResultTyped ==
  ASSUME NEW kind \in Kinds, NEW c \in 0..MaxCalls
  PROVE  /\ Result(kind, c) \in Seq(Tokens) /\ Len(Result(kind, c)) = 3
         /\ Result(kind, c)[1] = Byte("CR", c, 0)
         /\ Result(kind, c)[2] = Byte(kind, c, 0)
         /\ Result(kind, c)[3] = Byte("CR", c, 0)
<1>1. Byte("CR", c, 0) \in Tokens /\ Byte(kind, c, 0) \in Tokens
  BY LineSizes DEF Tokens, Byte, Kinds
<1> QED
  BY <1>1 DEF Result

(* The counters of the ring, and the places in it they name.                  *)
LEMMA CountersTyped ==
  ASSUME NEW c \in 0..(Wrap - 1)
  PROVE  Bump(c) \in 0..(Wrap - 1) /\ Slot(c) \in 0..(RingSize - 1)
<1>1. c \in Int /\ c + 1 \in Int
  OBVIOUS
<1>2. Wrap \in Nat \ {0} /\ RingSize \in Nat \ {0}
  BY LineSizes
<1>3. (c + 1) % Wrap \in 0..(Wrap - 1) /\ c % RingSize \in 0..(RingSize - 1)
  BY <1>1, <1>2, ModIsWithin
<1> QED
  BY <1>3 DEF Bump, Slot

(* How many bytes the ring holds between two counters, and the place of the   *)
(* one with i before it.                                                      *)
Held(h, t) == (t - h) % Wrap
Place(h, i) == Slot((h + i) % Wrap)

(* Counting in the ring.                                                      *)
LEMMA RingCounts ==
  ASSUME NEW h \in 0..(Wrap - 1), NEW t \in 0..(Wrap - 1)
  PROVE  /\ Held(h, t) = IF h <= t THEN t - h ELSE t - h + Wrap
         /\ Held(h, t) \in 0..(Wrap - 1)
         /\ Held(h, t) = 0 <=> h = t
<1>1. Wrap \in Nat \ {0} /\ t - h \in Int /\ -Wrap < t - h /\ t - h < Wrap
  BY LineSizes
<1>2. CASE h <= t
  <2>1. t - h \in 0..(2 * Wrap - 1) /\ t - h < Wrap
    BY <1>1, <1>2
  <2>2. (t - h) % Wrap = t - h
    BY <1>1, <2>1, ModIsSmall
  <2> QED
    BY <1>1, <1>2, <2>1, <2>2 DEF Held
<1>3. CASE ~(h <= t)
  <2>1. t - h \in (-Wrap + 1)..(-1)
    BY <1>1, <1>3
  <2>2. (t - h) % Wrap = t - h + Wrap
    BY <1>1, <2>1, ModIsBelow
  <2> QED
    BY <1>1, <1>3, <2>1, <2>2 DEF Held
<1> QED
  BY <1>2, <1>3

(* A step of a counter.                                                       *)
LEMMA BumpIs ==
  ASSUME NEW c \in 0..(Wrap - 1)
  PROVE  Bump(c) = IF c = Wrap - 1 THEN 0 ELSE c + 1
<1> DEFINE y == c + 1
<1>1. Wrap \in Nat \ {0} /\ y \in 0..(2 * Wrap - 1)
  BY LineSizes
<1>2. y % Wrap = IF y < Wrap THEN y ELSE y - Wrap
  <2> HIDE DEF y
  <2> QED  BY <1>1, ModIsSmall
<1> QED
  BY <1>1, <1>2 DEF Bump

(* Taking a byte: every other one is a place nearer.                          *)
LEMMA RingTakes ==
  ASSUME NEW h \in 0..(Wrap - 1), NEW t \in 0..(Wrap - 1), h # t
  PROVE  /\ Held(Bump(h), t) = Held(h, t) - 1
         /\ Place(h, 0) = Slot(h)
         /\ \A i \in 0..(Wrap - 2) : Place(Bump(h), i) = Place(h, i + 1)
<1>1. Wrap \in Nat \ {0} /\ Wrap > 1
  BY LineSizes
<1>2. Bump(h) \in 0..(Wrap - 1) /\ Bump(h) = IF h = Wrap - 1 THEN 0 ELSE h + 1
  BY CountersTyped, BumpIs
<1>3. Held(Bump(h), t) = Held(h, t) - 1
  <2>1. Held(Bump(h), t) = IF Bump(h) <= t THEN t - Bump(h) ELSE t - Bump(h) + Wrap
    BY <1>2, RingCounts
  <2>2. Held(h, t) = IF h <= t THEN t - h ELSE t - h + Wrap
    BY RingCounts
  <2> QED
    BY <1>1, <1>2, <2>1, <2>2
<1>4. Place(h, 0) = Slot(h)
  <2>1. h + 0 = h /\ h \in 0..(2 * Wrap - 1) /\ h < Wrap
    BY <1>1
  <2>2. h % Wrap = h
    BY <1>1, <2>1, ModIsSmall
  <2> QED
    BY <2>1, <2>2 DEF Place
<1>5. ASSUME NEW i \in 0..(Wrap - 2)
      PROVE  Place(Bump(h), i) = Place(h, i + 1)
  <2>1. h + (i + 1) \in Int /\ Bump(h) + i \in Int
    BY <1>1, <1>2
  <2>2. CASE h # Wrap - 1
    <3>1. Bump(h) + i = h + (i + 1)
      BY <1>1, <1>2, <2>2
    <3> QED
      BY <3>1 DEF Place
  <2>3. CASE h = Wrap - 1
    <3> DEFINE y == h + (i + 1)
    <3>1. /\ Bump(h) + i = i /\ i \in 0..(2 * Wrap - 1) /\ i < Wrap
          /\ y \in 0..(2 * Wrap - 1) /\ ~(y < Wrap) /\ y - Wrap = i
      BY <1>1, <1>2, <2>3
    <3>2. (Bump(h) + i) % Wrap = i
      BY <1>1, <3>1, ModIsSmall
    <3>3. y % Wrap = i
      <4> HIDE DEF y
      <4> QED  BY <1>1, <3>1, ModIsSmall
    <3> QED
      BY <3>2, <3>3 DEF Place
  <2> QED
    BY <1>1, <1>2, <2>2, <2>3
<1> QED
  BY <1>3, <1>4, <1>5

(* Filling it: a ring that has room counts one more, and the place that is    *)
(* written is not one of a byte that waits.                                   *)
LEMMA RingFills ==
  ASSUME NEW h \in 0..(Wrap - 1), NEW t \in 0..(Wrap - 1)
  PROVE  /\ Held(h, Bump(t)) = IF Held(h, t) = Wrap - 1 THEN 0 ELSE Held(h, t) + 1
         /\ Place(h, Held(h, t)) = Slot(t)
         /\ Held(h, t) < RingSize =>
              \A i \in 0..(Held(h, t) - 1) : Place(h, i) # Slot(t)
<1> DEFINE c == Held(h, t)
<1>1. /\ Wrap \in Nat \ {0} /\ RingSize \in Nat \ {0} /\ RingSize < Wrap
      /\ Bump(t) \in 0..(Wrap - 1) /\ Bump(t) = IF t = Wrap - 1 THEN 0 ELSE t + 1
  BY CountersTyped, BumpIs, LineSizes
<1>2. c = (IF h <= t THEN t - h ELSE t - h + Wrap) /\ c \in 0..(Wrap - 1)
  BY RingCounts
<1>3. Held(h, Bump(t)) = IF c = Wrap - 1 THEN 0 ELSE c + 1
  <2>1. Held(h, Bump(t)) = IF h <= Bump(t) THEN Bump(t) - h ELSE Bump(t) - h + Wrap
    BY <1>1, RingCounts
  <2> HIDE DEF c
  <2> QED
    BY <1>1, <1>2, <2>1
<1>4. (h + c) % Wrap = t
  <2> HIDE DEF c
  <2> DEFINE y == h + c
  <2>1. y \in 0..(2 * Wrap - 1) /\ t = IF y < Wrap THEN y ELSE y - Wrap
    BY <1>1, <1>2
  <2>2. y % Wrap = IF y < Wrap THEN y ELSE y - Wrap
    <3> HIDE DEF y
    <3> QED  BY <1>1, <2>1, ModIsSmall
  <2> QED
    BY <2>1, <2>2
<1>5. Place(h, c) = Slot(t)
  BY <1>4 DEF Place
<1>6. ASSUME c < RingSize, NEW i \in 0..(c - 1)
      PROVE  Place(h, i) # Slot(t)
  <2> HIDE DEF c
  <2> DEFINE y == h + i
             x == y % Wrap
  <2>1. h + i \in Int /\ c - i \in 1..(RingSize - 1)
    BY <1>1, <1>2, <1>6
  <2>2. y \in 0..(2 * Wrap - 1)
    BY <1>1, <1>2
  <2>3. x = IF y < Wrap THEN y ELSE y - Wrap
    <3> HIDE DEF y
    <3> QED  BY <1>1, <2>2, ModIsSmall
  <2>4. x \in Int
    <3> HIDE DEF x
    <3> QED  BY <1>1, <2>1, <2>3
  <2>5. t - x = c - i \/ t - x = c - i - Wrap \/ t - x = c - i + Wrap
    <3> HIDE DEF x
    <3> QED  BY <1>1, <1>2, <2>1, <2>2, <2>3
  <2>6. PICK k \in Int : Wrap = RingSize * k
    <3>1. Wrap \div RingSize \in Int
      BY <1>1
    <3>2. Wrap = RingSize * (Wrap \div RingSize) + (Wrap % RingSize)
      BY <1>1
    <3>3. Wrap % RingSize = 0 /\ RingSize * (Wrap \div RingSize) \in Int
      BY <1>1, <3>1, NetLineAssumption
    <3>4. Wrap = RingSize * (Wrap \div RingSize)
      BY <3>2, <3>3
    <3> QED
      BY <3>1, <3>4
  <2>7. PICK q \in Int : t - x = (c - i) + RingSize * q
    <3> HIDE DEF x
    <3>1. CASE t - x = c - i
      <4>1. t - x = (c - i) + RingSize * 0
        BY <1>1, <1>2, <3>1
      <4> QED
        BY <4>1
    <3>2. CASE t - x = c - i - Wrap
      <4>1. t - x = (c - i) + RingSize * (-k)
        BY <1>1, <1>2, <2>6, <3>2
      <4> QED
        BY <4>1
    <3>3. CASE t - x = c - i + Wrap
      <4>1. t - x = (c - i) + RingSize * k
        BY <1>1, <1>2, <2>6, <3>3
      <4> QED
        BY <4>1
    <3> QED
      BY <2>5, <3>1, <3>2, <3>3
  <2>8. x % RingSize # t % RingSize
    <3> DEFINE d == c - i
    <3>1. t \in Int /\ d \in 1..(RingSize - 1) /\ t - x = d + RingSize * q
      BY <1>1, <2>1, <2>7
    <3> HIDE DEF x, d
    <3> QED  BY <1>1, <2>4, <3>1, ModsDiffer
  <2> QED
    BY <2>8 DEF Place, Slot
<1> QED
  BY <1>3, <1>5, <1>6

(* What is on its way to the driver: the ring, the register of the ACIA and   *)
(* the wire, in one queue.                                                    *)
InRing == Held(head, tail)
InReg == IF reg = None THEN 0 ELSE 1
Under == InRing + InReg + Len(wire)
Queue == [i \in 1..Under |->
            IF i <= InRing THEN buf[Place(head, i - 1)]
            ELSE IF reg # None /\ i = InRing + 1 THEN reg
            ELSE wire[i - InRing - InReg]]

(* The types, and that only bytes that came wait in the ring.                 *)
RingTyped == \A i \in 1..InRing : buf[Place(head, i - 1)] \in Tokens
LineTyped ==
  /\ TypeOK /\ RingTyped
  /\ wire \in Seq(Tokens) /\ reg \in Tokens \cup {None}
  /\ live \in {0, calls}

(* The queue holds tokens.                                                    *)
LEMMA QueueTyped ==
  ASSUME LineTyped
  PROVE  /\ InRing \in 0..(Wrap - 1) /\ InReg \in {0, 1} /\ Len(wire) \in Nat
         /\ Under \in Nat
         /\ Queue \in [1..Under -> Tokens]
<1>1. InRing \in 0..(Wrap - 1)
  BY RingCounts DEF LineTyped, TypeOK, InRing
<1>2. InReg \in {0, 1} /\ Len(wire) \in Nat /\ Wrap \in Nat /\ wire \in Seq(Tokens)
  BY LineSizes DEF LineTyped, InReg
<1>3. Under \in Nat
  BY <1>1, <1>2 DEF Under
<1>4. ASSUME NEW i \in 1..Under
      PROVE  Queue[i] \in Tokens
  <2>1. CASE i <= InRing
    BY <1>1, <2>1 DEF Queue, LineTyped, RingTyped
  <2>2. CASE ~(i <= InRing) /\ reg # None /\ i = InRing + 1
    BY <2>2 DEF Queue, LineTyped
  <2>3. CASE ~(i <= InRing) /\ ~(reg # None /\ i = InRing + 1)
    <3>1. i - InRing - InReg \in 1..Len(wire)
      BY <1>1, <1>2, <2>3 DEF Under, InReg
    <3> QED
      BY <1>2, <2>3, <3>1 DEF Queue
  <2> QED
    BY <2>1, <2>2, <2>3
<1> QED
  BY <1>1, <1>2, <1>3, <1>4 DEF Queue

(* The queue moves up by k, or is followed by more.                           *)
MovesUp(k) ==
  /\ Under' = Under - k
  /\ \A i \in 1..Under' : Queue'[i] = Queue[i + k]
FollowedBy(s) ==
  /\ Under' = Under + Len(s)
  /\ \A i \in 1..Under : Queue'[i] = Queue[i]
  /\ \A i \in 1..Len(s) : Queue'[Under + i] = s[i]

(* What leaves the line alone leaves the queue.                               *)
LEMMA QueueStays ==
  ASSUME LineTyped, UNCHANGED <<ring, wire>>
  PROVE  /\ MovesUp(0) /\ InRing' = InRing
         /\ RingTyped' /\ wire' \in Seq(Tokens) /\ reg' \in Tokens \cup {None}
<1>1. /\ UNCHANGED <<head, tail, buf, reg, wire>>
      /\ InRing' = InRing /\ InReg' = InReg
  BY DEF ring, InRing, InReg
<1>2. Queue' = Queue /\ Under' = Under
  BY <1>1 DEF Queue, Under
<1>3. Under \in Nat
  BY QueueTyped
<1>4. Under - 0 = Under /\ \A i \in 1..Under : i + 0 = i
  BY <1>3
<1>5. MovesUp(0)
  BY <1>2, <1>4 DEF MovesUp
<1> QED
  BY <1>1, <1>5 DEF RingTyped, LineTyped

(* process_inbound takes the first byte.                                      *)
LEMMA QueueTaken ==
  ASSUME LineTyped, TakeByte
  PROVE  /\ MovesUp(1) /\ RingTyped' /\ InRing' < InRing
         /\ Under \in Nat \ {0} /\ buf[Slot(head)] = Queue[1] /\ Queue[1] \in Tokens
<1>1. /\ head \in 0..(Wrap - 1) /\ tail \in 0..(Wrap - 1) /\ head # tail
      /\ head' = Bump(head) /\ UNCHANGED <<tail, reg, buf, wire>>
  BY DEF LineTyped, TypeOK, TakeByte, modem
<1>2. /\ InRing \in 0..(Wrap - 1) /\ InReg \in {0, 1} /\ Len(wire) \in Nat /\ Wrap \in Nat
      /\ Under \in Nat /\ Queue \in [1..Under -> Tokens]
  BY QueueTyped, LineSizes
<1>3. InRing # 0 /\ InRing' = InRing - 1
  BY <1>1, RingCounts, RingTakes DEF InRing
<1>4. Under' = Under - 1 /\ InReg' = InReg /\ Under # 0
  BY <1>1, <1>2, <1>3 DEF Under, InReg
<1>5. Place(head, 0) = Slot(head) /\ \A i \in 0..(Wrap - 2) : Place(head', i) = Place(head, i + 1)
  BY <1>1, RingTakes
<1>6. ASSUME NEW i \in 1..InRing'
      PROVE  Place(head', i - 1) = Place(head, (i + 1) - 1)
  <2>1. i - 1 \in 0..(Wrap - 2) /\ (i - 1) + 1 = (i + 1) - 1
    BY <1>2, <1>3
  <2> QED
    BY <1>5, <2>1
<1>7. RingTyped'
  <2>1. ASSUME NEW i \in 1..InRing'
        PROVE  buf'[Place(head', i - 1)] \in Tokens
    <3>1. i + 1 \in 1..InRing
      BY <1>2, <1>3
    <3> QED
      BY <1>1, <1>6, <3>1 DEF LineTyped, RingTyped
  <2> QED
    BY <2>1 DEF RingTyped
<1>8. ASSUME NEW i \in 1..Under'
      PROVE  Queue'[i] = Queue[i + 1]
  <2>1. i + 1 \in 1..Under
    BY <1>2, <1>4
  <2>2. Queue'[i] = IF i <= InRing' THEN buf[Place(head', i - 1)]
                    ELSE IF reg # None /\ i = InRing' + 1 THEN reg
                    ELSE wire[i - InRing' - InReg]
    BY <1>1, <1>4 DEF Queue
  <2>3. Queue[i + 1] = IF i + 1 <= InRing THEN buf[Place(head, (i + 1) - 1)]
                       ELSE IF reg # None /\ i + 1 = InRing + 1 THEN reg
                       ELSE wire[(i + 1) - InRing - InReg]
    BY <2>1 DEF Queue
  <2>4. CASE i <= InRing'
    <3>1. i \in 1..InRing' /\ i + 1 <= InRing
      BY <1>2, <1>3, <2>4
    <3> QED
      BY <1>6, <2>2, <2>3, <2>4, <3>1
  <2>5. CASE ~(i <= InRing')
    <3>1. /\ ~(i + 1 <= InRing) /\ (i = InRing' + 1 <=> i + 1 = InRing + 1)
          /\ i - InRing' - InReg = (i + 1) - InRing - InReg
      BY <1>2, <1>3, <2>5
    <3> QED
      BY <2>2, <2>3, <2>5, <3>1
  <2> QED
    BY <2>4, <2>5
<1>9. Queue[1] = buf[Slot(head)] /\ Queue[1] \in Tokens
  <2>1. 1 \in 1..Under /\ 1 <= InRing /\ 1 - 1 = 0
    BY <1>2, <1>3, <1>4
  <2> QED
    BY <1>2, <1>5, <2>1 DEF Queue
<1> QED
  BY <1>2, <1>3, <1>4, <1>7, <1>8, <1>9 DEF MovesUp

(* net_disconnect leaves nothing in the ring.                                 *)
LEMMA QueueFlushed ==
  ASSUME LineTyped, head' = tail, UNCHANGED <<tail, buf, reg, wire>>
  PROVE  MovesUp(InRing) /\ RingTyped' /\ InRing' = 0
<1>1. /\ InRing \in 0..(Wrap - 1) /\ InReg \in {0, 1} /\ Len(wire) \in Nat /\ Wrap \in Nat
      /\ Under \in Nat
  BY QueueTyped, LineSizes
<1>2. InRing' = 0
  BY RingCounts DEF LineTyped, TypeOK, InRing
<1>3. Under' = Under - InRing /\ InReg' = InReg /\ Under' \in Nat
  BY <1>1, <1>2 DEF Under, InReg
<1>4. RingTyped'
  BY <1>2 DEF RingTyped
<1>5. ASSUME NEW i \in 1..Under'
      PROVE  Queue'[i] = Queue[i + InRing]
  <2>1. i + InRing \in 1..Under
    BY <1>1, <1>3
  <2>2. Queue'[i] = IF i <= InRing' THEN buf[Place(head', i - 1)]
                    ELSE IF reg # None /\ i = InRing' + 1 THEN reg
                    ELSE wire[i - InRing' - InReg]
    BY <1>3 DEF Queue
  <2>3. Queue[i + InRing] = IF i + InRing <= InRing THEN buf[Place(head, (i + InRing) - 1)]
                            ELSE IF reg # None /\ i + InRing = InRing + 1 THEN reg
                            ELSE wire[(i + InRing) - InRing - InReg]
    BY <2>1 DEF Queue
  <2>4. /\ ~(i <= InRing') /\ ~(i + InRing <= InRing)
        /\ (i = InRing' + 1 <=> i + InRing = InRing + 1)
        /\ i - InRing' - InReg = (i + InRing) - InRing - InReg
    BY <1>1, <1>2, <1>3
  <2> QED
    BY <2>2, <2>3, <2>4
<1> QED
  BY <1>2, <1>3, <1>4, <1>5 DEF MovesUp

(* A byte that reaches the ACIA stays where it is in the queue; one that      *)
(* finds another there is lost.                                               *)
Loses(k) ==
  /\ Under' = Under - 1
  /\ \A i \in 1..Under' : Queue'[i] = Queue[IF i < k THEN i ELSE i + 1]

(* A byte that comes to the register leaves the queue as it is, or loses one. *)
LEMMA QueueArrives ==
  ASSUME LineTyped, Arrive
  PROVE  /\ RingTyped' /\ wire' \in Seq(Tokens) /\ reg' \in Tokens
         /\ MovesUp(0) \/ ("overrun" \in Faults /\ \E k \in Nat : Loses(k))
<1>1. /\ wire # << >> /\ wire \in Seq(Tokens) /\ wire' = Tail(wire)
      /\ reg' = (IF reg = None THEN Head(wire) ELSE reg)
      /\ reg = None \/ "overrun" \in Faults
      /\ UNCHANGED <<buf, head, tail>>
  BY DEF Arrive, LineTyped
<1>2. /\ Head(wire) = wire[1] /\ Head(wire) \in Tokens /\ Tail(wire) \in Seq(Tokens)
      /\ Len(Tail(wire)) = Len(wire) - 1 /\ Len(wire) \in Nat \ {0}
      /\ \A i \in 1..(Len(wire) - 1) : Tail(wire)[i] = wire[i + 1]
  BY <1>1
<1>3. reg' \in Tokens /\ reg' # None /\ InReg' = 1 /\ InRing' = InRing
  BY <1>1, <1>2, TokensAreBytes DEF LineTyped, InReg, InRing
<1>4. /\ InRing \in Nat /\ InReg \in {0, 1} /\ Under \in Nat /\ Wrap \in Nat
  BY QueueTyped, LineSizes
<1>5. RingTyped'
  BY <1>1, <1>3 DEF RingTyped, LineTyped
<1>6. Under' = InRing + 1 + (Len(wire) - 1) /\ Under' \in Nat
  BY <1>1, <1>2, <1>3, <1>4 DEF Under
<1>7. ASSUME NEW i \in 1..Under'
      PROVE  Queue'[i] = IF i <= InRing THEN buf[Place(head, i - 1)]
                         ELSE IF i = InRing + 1 THEN reg' ELSE wire[i - InRing]
  <2>1. Queue'[i] = IF i <= InRing THEN buf[Place(head, i - 1)]
                    ELSE IF i = InRing + 1 THEN reg' ELSE Tail(wire)[i - InRing - 1]
    BY <1>1, <1>3 DEF Queue
  <2>2. ~(i <= InRing) /\ i # InRing + 1 =>
          i - InRing - 1 \in 1..(Len(wire) - 1) /\ (i - InRing - 1) + 1 = i - InRing
    BY <1>2, <1>4, <1>6
  <2> QED
    BY <1>2, <2>1, <2>2
<1>8. CASE reg = None
  <2>1. InReg = 0 /\ Under' = Under /\ Under - 0 = Under
    BY <1>2, <1>4, <1>6, <1>8 DEF Under, InReg
  <2>2. ASSUME NEW i \in 1..Under'
        PROVE  Queue'[i] = Queue[i + 0]
    <3>1. i + 0 = i /\ i - InRing - 0 = i - InRing /\ (i = InRing + 1 => i - InRing = 1)
      BY <1>4, <1>6
    <3>2. Queue[i] = IF i <= InRing THEN buf[Place(head, i - 1)] ELSE wire[i - InRing]
      BY <1>8, <2>1, <3>1 DEF Queue
    <3> QED
      BY <1>1, <1>2, <1>7, <1>8, <3>1, <3>2
  <2> QED
    BY <1>1, <1>2, <1>3, <1>5, <2>1, <2>2 DEF MovesUp
<1>9. CASE reg # None
  <2> DEFINE k == InRing + 2
  <2>1. InReg = 1 /\ Under' = Under - 1 /\ reg' = reg
    BY <1>1, <1>2, <1>4, <1>6, <1>9 DEF Under, InReg
  <2>2. ASSUME NEW i \in 1..Under'
        PROVE  Queue'[i] = Queue[IF i < k THEN i ELSE i + 1]
    <3>1. CASE i < k
      <4>1. i \in 1..Under /\ (i <= InRing \/ i = InRing + 1)
        BY <1>4, <2>1, <3>1
      <4>2. Queue[i] = IF i <= InRing THEN buf[Place(head, i - 1)] ELSE reg
        BY <1>9, <4>1 DEF Queue
      <4> QED
        BY <1>7, <2>1, <3>1, <4>1, <4>2
    <3>2. CASE ~(i < k)
      <4>1. /\ i + 1 \in 1..Under /\ ~(i + 1 <= InRing) /\ i + 1 # InRing + 1
            /\ (i + 1) - InRing - 1 = i - InRing /\ ~(i <= InRing) /\ i # InRing + 1
        BY <1>4, <2>1, <3>2
      <4>2. Queue[i + 1] = wire[i - InRing]
        BY <2>1, <4>1 DEF Queue
      <4> QED
        BY <1>7, <3>2, <4>1, <4>2
    <3> QED
      BY <3>1, <3>2
  <2>3. k \in Nat
    BY <1>4
  <2>4. Loses(k)
    BY <2>1, <2>2 DEF Loses
  <2> QED
    BY <1>1, <1>2, <1>3, <1>5, <1>9, <2>3, <2>4
<1> QED
  BY <1>8, <1>9

(* The interrupt puts it in the ring, behind the others if the ring has room. *)
LEMMA QueueFills ==
  ASSUME LineTyped, Isr
  PROVE  /\ RingTyped' /\ reg' = None
         /\ "overflow" \notin Faults => MovesUp(0) /\ InRing' <= RingSize
<1>1. /\ head \in 0..(Wrap - 1) /\ tail \in 0..(Wrap - 1)
      /\ head' = head /\ tail' = Bump(tail) /\ buf' = [buf EXCEPT ![Slot(tail)] = reg]
      /\ reg \in Tokens /\ reg # None /\ reg' = None /\ wire' = wire
      /\ InRing < RingSize \/ "overflow" \in Faults
  BY DEF LineTyped, TypeOK, Isr, modem, Slot, InRing, Held
<1>2. /\ InRing \in 0..(Wrap - 1) /\ Len(wire) \in Nat /\ Under \in Nat
      /\ Wrap \in Nat \ {0} /\ RingSize \in Nat \ {0} /\ RingSize < Wrap
      /\ InReg = 1 /\ InReg' = 0
  BY <1>1, QueueTyped, LineSizes DEF InReg
<1>3. InRing' = IF InRing = Wrap - 1 THEN 0 ELSE InRing + 1
  BY <1>1, RingFills DEF InRing
<1>4. Place(head, InRing) = Slot(tail) /\ Slot(tail) \in 0..(RingSize - 1)
  BY <1>1, RingFills, CountersTyped DEF InRing
<1>5. buf \in [0..(RingSize - 1) -> ByteRecord]
  BY DEF LineTyped, TypeOK
<1>6. buf'[Slot(tail)] = reg /\ \A j \in 0..(RingSize - 1) : j # Slot(tail) => buf'[j] = buf[j]
  BY <1>1, <1>4, <1>5
<1>7. ASSUME NEW i \in 1..InRing
      PROVE  Place(head, i - 1) \in 0..(RingSize - 1)
  <2> DEFINE c == (head + (i - 1)) % Wrap
             y == head + (i - 1)
  <2>1. y \in Int
    BY <1>1, <1>2
  <2>2. y % Wrap \in 0..(Wrap - 1)
    <3> HIDE DEF y
    <3> QED  BY <1>2, <2>1, ModIsWithin
  <2>3. c \in 0..(Wrap - 1)
    BY <2>2
  <2>4. Slot(c) \in 0..(RingSize - 1)
    <3> HIDE DEF c
    <3> QED  BY <2>3, CountersTyped
  <2> QED
    BY <2>4 DEF Place
<1>8. RingTyped'
  <2>1. ASSUME NEW i \in 1..InRing'
        PROVE  buf'[Place(head', i - 1)] \in Tokens
    <3>1. CASE i \in 1..InRing
      BY <1>1, <1>6, <1>7, <3>1 DEF LineTyped, RingTyped
    <3>2. CASE i \notin 1..InRing
      <4>1. i - 1 = InRing
        BY <1>2, <1>3, <3>2
      <4> QED
        BY <1>1, <1>4, <1>6, <4>1
    <3> QED
      BY <3>1, <3>2
  <2> QED
    BY <2>1 DEF RingTyped
<1>9. ASSUME "overflow" \notin Faults
      PROVE  MovesUp(0) /\ InRing' <= RingSize
  <2>1. InRing < RingSize /\ InRing' = InRing + 1 /\ InRing' <= RingSize
    BY <1>1, <1>2, <1>3, <1>9
  <2>2. Under' = Under /\ Under - 0 = Under
    BY <1>1, <1>2, <2>1 DEF Under
  <2>3. \A i \in 0..(InRing - 1) : Place(head, i) # Slot(tail)
    BY <1>1, <2>1, RingFills DEF InRing
  <2>4. ASSUME NEW i \in 1..Under'
        PROVE  Queue'[i] = Queue[i + 0]
    <3>1. i + 0 = i /\ i \in 1..Under
      BY <1>2, <2>2
    <3>2. Queue'[i] = IF i <= InRing + 1 THEN buf'[Place(head, i - 1)]
                      ELSE wire[i - (InRing + 1) - 0]
      BY <1>1, <1>2, <2>1 DEF Queue
    <3>3. Queue[i] = IF i <= InRing THEN buf[Place(head, i - 1)]
                     ELSE IF i = InRing + 1 THEN reg ELSE wire[i - InRing - 1]
      BY <1>1, <1>2, <3>1 DEF Queue
    <3>4. CASE i <= InRing
      <4>1. i \in 1..InRing /\ i - 1 \in 0..(InRing - 1) /\ i <= InRing + 1
        BY <1>2, <3>1, <3>4
      <4>2. buf'[Place(head, i - 1)] = buf[Place(head, i - 1)]
        BY <1>6, <1>7, <2>3, <4>1
      <4> QED
        BY <3>1, <3>2, <3>3, <3>4, <4>1, <4>2
    <3>5. CASE i = InRing + 1
      <4>1. i - 1 = InRing /\ ~(i <= InRing)
        BY <1>2, <3>5
      <4> QED
        BY <1>4, <1>6, <3>1, <3>2, <3>3, <3>5, <4>1
    <3>6. CASE ~(i <= InRing) /\ i # InRing + 1
      <4>1. ~(i <= InRing + 1) /\ i - (InRing + 1) - 0 = i - InRing - 1
        BY <1>2, <3>1, <3>6
      <4> QED
        BY <3>1, <3>2, <3>3, <3>6, <4>1
    <3> QED
      BY <3>4, <3>5, <3>6
  <2> QED
    BY <2>1, <2>2, <2>4 DEF MovesUp
<1> QED
  BY <1>1, <1>8, <1>9

(* What is sent follows the queue.                                            *)
LEMMA QueueFollowed ==
  ASSUME LineTyped, NEW s \in Seq(Tokens), wire' = wire \o s, UNCHANGED ring
  PROVE  FollowedBy(s) /\ wire' \in Seq(Tokens) /\ RingTyped' /\ InRing' = InRing
<1>1. UNCHANGED <<head, tail, buf, reg>> /\ InRing' = InRing /\ InReg' = InReg
  BY DEF ring, InRing, InReg
<1>2. /\ InRing \in 0..(Wrap - 1) /\ InReg \in {0, 1} /\ Len(wire) \in Nat /\ Wrap \in Nat
      /\ Under \in Nat /\ Len(s) \in Nat
  BY QueueTyped, LineSizes
<1>3. /\ wire \in Seq(Tokens) /\ wire' \in Seq(Tokens) /\ Len(wire') = Len(wire) + Len(s)
      /\ \A i \in 1..Len(wire) : wire'[i] = wire[i]
      /\ \A i \in 1..Len(s) : wire'[Len(wire) + i] = s[i]
  <2>1. wire \in Seq(Tokens)
    BY DEF LineTyped
  <2>2. wire \o s \in Seq(Tokens) /\ Len(wire \o s) = Len(wire) + Len(s)
    BY <2>1
  <2>3. \A i \in 1..Len(wire) : (wire \o s)[i] = wire[i]
    BY <2>1
  <2>4. ASSUME NEW i \in 1..Len(s)
        PROVE  (wire \o s)[Len(wire) + i] = s[i]
    BY <2>1
  <2> QED
    BY <2>1, <2>2, <2>3, <2>4
<1>4. Under' = Under + Len(s)
  BY <1>1, <1>2, <1>3 DEF Under
<1>5. ASSUME NEW i \in 1..Under'
      PROVE  Queue'[i] = IF i <= InRing THEN buf[Place(head, i - 1)]
                         ELSE IF reg # None /\ i = InRing + 1 THEN reg
                         ELSE wire'[i - InRing - InReg]
  BY <1>1 DEF Queue
<1>6. ASSUME NEW i \in 1..Under
      PROVE  Queue'[i] = Queue[i]
  <2>1. i \in 1..Under'
    BY <1>2, <1>4
  <2>2. ~(i <= InRing) /\ ~(reg # None /\ i = InRing + 1) =>
          i - InRing - InReg \in 1..Len(wire)
    BY <1>2 DEF Under, InReg
  <2> QED
    BY <1>3, <1>5, <2>1, <2>2 DEF Queue
<1>7. ASSUME NEW i \in 1..Len(s)
      PROVE  Queue'[Under + i] = s[i]
  <2>1. Under + i \in 1..Under' /\ Under = InRing + InReg + Len(wire)
    BY <1>2, <1>4 DEF Under
  <2>2. ~(Under + i <= InRing) /\ (Under + i) - InRing - InReg = Len(wire) + i
    BY <1>2, <2>1
  <2>3. reg # None => InReg = 1
    BY DEF InReg
  <2>4. reg # None => Under + i # InRing + 1
    BY <1>2, <2>1, <2>3
  <2> QED
    BY <1>3, <1>5, <2>1, <2>2, <2>4
<1>8. RingTyped'
  BY <1>1 DEF RingTyped, LineTyped
<1> QED
  BY <1>1, <1>3, <1>4, <1>6, <1>7, <1>8 DEF FollowedBy

(* What is cut off was at the end of it.                                      *)
CutOff ==
  /\ Under' <= Under
  /\ \A i \in 1..Under' : Queue'[i] = Queue[i]

(* What the modem throws away is the end of the queue.                        *)
LEMMA QueueCut ==
  ASSUME LineTyped, wire' = << >>, UNCHANGED ring
  PROVE  CutOff /\ wire' \in Seq(Tokens) /\ RingTyped' /\ InRing' = InRing
<1>1. UNCHANGED <<head, tail, buf, reg>> /\ InRing' = InRing /\ InReg' = InReg
  BY DEF ring, InRing, InReg
<1>2. /\ InRing \in 0..(Wrap - 1) /\ InReg \in {0, 1} /\ Len(wire) \in Nat /\ Wrap \in Nat
      /\ Len(wire') = 0 /\ wire' \in Seq(Tokens)
  BY QueueTyped, LineSizes
<1>3. Under' = InRing + InReg /\ Under' <= Under
  BY <1>1, <1>2 DEF Under
<1>4. ASSUME NEW i \in 1..Under'
      PROVE  Queue'[i] = Queue[i]
  <2>1. i \in 1..Under /\ (i <= InRing \/ (reg # None /\ i = InRing + 1))
    BY <1>2, <1>3 DEF InReg, Under
  <2> QED
    BY <1>1, <2>1 DEF Queue
<1>5. RingTyped'
  BY <1>1 DEF RingTyped, LineTyped
<1> QED
  BY <1>1, <1>2, <1>3, <1>4, <1>5 DEF CutOff
(* The driver leaves values of their types.                                   *)
LEMMA DriverTyped ==
  ASSUME LineTyped, InsideDriver \/ Disconnect \/ \E w \in {0, 1} : Rx(w)
  PROVE  TypeOK'
<1> USE DEF TypeOK
<1>0. TypeOK /\ live \in {0, calls}
  BY DEF LineTyped
<1>1. CASE \E w \in {0, 1} : Rx(w)
  BY <1>0, <1>1, TokensAreBytes DEF Rx, driver, ring, modem, ghost
<1>2. CASE Carrier
  BY <1>0, <1>2 DEF Carrier, ring, modem, ghost
<1>3. CASE Track
  BY <1>0, <1>3 DEF Track, ring, modem, ghost
<1>4. CASE Release
  BY <1>0, <1>4 DEF Release, ring, modem, ghost
<1>5. CASE Answer
  BY <1>0, <1>5 DEF Answer, ring, modem, ghost
<1>6. CASE TakeByte
  <2> DEFINE b == buf[Slot(head)]
  <2>1. b \in Tokens /\ b \in ByteRecord
    BY <1>6, QueueTaken, TokensAreBytes
  <2>2. b.call \in 0..MaxCalls /\ b.n \in 0..MaxTyped /\ b.kind \in Kinds
    BY <2>1 DEF Tokens
  <2>3. Bump(head) \in 0..(Wrap - 1)
    BY <1>0, CountersTyped
  <2>4. state' \in {"idle", "connected", "dropping"} /\ atConn' \in BOOLEAN
    BY <1>0, <1>6 DEF TakeByte
  <2>5. line' \in {"", "junk"} \cup Kinds
    <3>1. line' = IF b.kind = "CR" THEN "" ELSE Extended(b.kind)
      BY <1>6 DEF TakeByte
    <3>2. CASE b.kind = "CR"
      BY <3>1, <3>2
    <3>3. CASE b.kind # "CR" /\ line = ""
      <4>1. Extended(b.kind) = IF b.kind = "data" THEN "junk" ELSE b.kind
        BY <3>3 DEF Extended
      <4>2. line' \in {"junk", b.kind}
        BY <3>1, <3>3, <4>1
      <4> QED
        BY <2>2, <4>2
    <3>4. CASE b.kind # "CR" /\ line = "CONNECT"
      <4>1. Extended(b.kind) = "CONNECT"
        BY <3>4 DEF Extended
      <4> QED
        BY <3>1, <3>4, <4>1 DEF Kinds
    <3>5. CASE b.kind # "CR" /\ line # "" /\ line # "CONNECT"
      <4>1. Extended(b.kind) = "junk"
        BY <3>5 DEF Extended
      <4> QED
        BY <3>1, <3>5, <4>1
    <3> QED
      BY <3>2, <3>3, <3>4, <3>5
  <2>6. /\ serving' \in 0..MaxCalls /\ answered' \subseteq 0..MaxCalls
        /\ out' \in ByteRecord /\ last' \in 0..MaxTyped
    <3> HIDE DEF b
    <3>1. \/ serving' = b.call /\ answered' = answered \cup {b.call}
          \/ serving' = serving /\ answered' = answered
      BY <1>6 DEF TakeByte, ghost, b
    <3>2. \/ out' = b /\ last' \in {last, b.n}
          \/ out' = out /\ last' = last
      BY <1>6 DEF TakeByte, b
    <3> QED
      BY <1>0, <2>1, <2>2, <3>1, <3>2
  <2>7. UNCHANGED <<sawInactive, wasActive, reg, buf, tail, pc, want, modem>> /\ head' = Bump(head)
    BY <1>6 DEF TakeByte
  <2> QED
    BY <1>0, <2>3, <2>4, <2>5, <2>6, <2>7 DEF modem
<1>7. CASE RxReturn
  BY <1>0, <1>7 DEF RxReturn, driver, ring, modem, ghost
<1>8. CASE HangUp
  BY <1>0, <1>8 DEF HangUp, modem, ghost
<1>9. CASE Disconnect
  BY <1>0, <1>9, TokensAreBytes DEF Disconnect, driver, ring, ghost
<1> QED
  BY <1>1, <1>2, <1>3, <1>4, <1>5, <1>6, <1>7, <1>8, <1>9 DEF InsideDriver

(* Steps of the driver that take no byte and drop none leave the queue.       *)
LEMMA DriverLeaves ==
  ASSUME LineTyped,
         \/ \E w \in {0, 1} : Rx(w)
         \/ Carrier \/ Track \/ Release \/ Answer \/ RxReturn \/ Disconnect
         \/ UNCHANGED vars
  PROVE  /\ UNCHANGED <<ring, wire>>
         /\ MovesUp(0) /\ InRing' = InRing
         /\ RingTyped' /\ wire' \in Seq(Tokens) /\ reg' \in Tokens \cup {None}
         /\ UNCHANGED <<dsr, live, calls, sent, last>>
<1>1. UNCHANGED <<ring, wire>> /\ UNCHANGED <<dsr, live, calls, sent, last>>
  BY DEF Rx, Carrier, Track, Release, Answer, RxReturn, Disconnect, modem, vars
<1> QED
  BY <1>1, QueueStays

(* What the callers and the modem send.                                       *)
Sends(s) == s \in Seq(Tokens) /\ wire' = wire \o s /\ UNCHANGED ring

(* A call sends its result code, if there are any.                            *)
LEMMA ConnectSends ==
  ASSUME LineTyped, Connect
  PROVE  Sends(IF TcpSer THEN Result("CONNECT", calls + 1) ELSE << >>)
<1>0. wire \in Seq(Tokens) /\ << >> \in Seq(Tokens) /\ wire = wire \o << >>
  BY EmptySeq, ConcatEmptySeq DEF LineTyped
<1>1. calls + 1 \in 0..MaxCalls
  <2>1. calls \in 0..MaxCalls /\ calls < MaxCalls /\ MaxCalls \in Nat
    BY LineSizes DEF Connect, LineTyped, TypeOK
  <2> QED
    BY <2>1
<1>2. Result("CONNECT", calls + 1) \in Seq(Tokens)
  BY <1>1, ResultTyped DEF Kinds
<1> QED
  BY <1>0, <1>2 DEF Connect, Sends

(* A caller sends a byte.                                                     *)
LEMMA TypeSends ==
  ASSUME LineTyped, NEW kind \in Typed, Type(kind)
  PROVE  /\ Sends(<<Byte(kind, live, sent + 1)>>)
         /\ Byte(kind, live, sent + 1) \in Tokens
<1>1. sent + 1 \in 0..MaxTyped /\ kind \in Kinds /\ live \in 0..MaxCalls
  <2>1. sent \in 0..MaxTyped /\ sent < MaxTyped /\ MaxTyped \in Nat
    BY LineSizes DEF Type, LineTyped, TypeOK
  <2>2. kind \in Kinds /\ live \in 0..MaxCalls
    BY LineSizes DEF LineTyped, TypeOK
  <2> QED
    BY <2>1, <2>2
<1>2. Byte(kind, live, sent + 1) \in Tokens
  BY <1>1 DEF Byte, Tokens
<1>3. Append(wire, Byte(kind, live, sent + 1)) = wire \o <<Byte(kind, live, sent + 1)>>
  BY <1>2 DEF LineTyped
<1> QED
  BY <1>2, <1>3 DEF Type, Sends

(* The end of a call sends its result code, if there are any.                 *)
LEMMA DownSends ==
  ASSUME LineTyped, Down, ~(~TcpSer /\ hang)
  PROVE  Sends(IF TcpSer THEN Result("NOCARRIER", live) ELSE << >>)
<1>0. wire \in Seq(Tokens) /\ << >> \in Seq(Tokens) /\ wire = wire \o << >>
  BY EmptySeq, ConcatEmptySeq DEF LineTyped
<1>1. Result("NOCARRIER", live) \in Seq(Tokens)
  BY ResultTyped DEF Kinds, LineTyped, TypeOK
<1> QED
  BY <1>0, <1>1 DEF Down, Sends

(* The types without that of the text.                                        *)
TextOK == line \in {"", "junk"} \cup Kinds
OthersOK ==
  /\ state \in {"idle", "connected", "dropping"}
  /\ atConn \in BOOLEAN /\ sawInactive \in BOOLEAN /\ wasActive \in BOOLEAN
  /\ reg \in ByteRecord /\ buf \in [0..(RingSize - 1) -> ByteRecord]
  /\ head \in 0..(Wrap - 1) /\ tail \in 0..(Wrap - 1)
  /\ pc \in {"out", "carrier", "track", "release", "answer", "drain", "hang"}
  /\ want \in {0, 1} /\ out \in ByteRecord
  /\ dsr \in BOOLEAN /\ wire \in Seq(ByteRecord)
  /\ live \in 0..MaxCalls /\ hang \in BOOLEAN
  /\ calls \in 0..MaxCalls /\ sent \in 0..MaxTyped
  /\ serving \in 0..MaxCalls /\ answered \subseteq 0..MaxCalls
  /\ last \in 0..MaxTyped

(* The two make up the type invariant.                                        *)
LEMMA TypeParts == TypeOK <=> TextOK /\ OthersOK
BY Zenon DEF TypeOK, TextOK, OthersOK

(* Every step keeps the types.                                                *)
LEMMA LineTypedStep ==
  ASSUME LineTyped, [Next]_vars, UNCHANGED Modem
  PROVE  LineTyped'
<1>0. TypeOK /\ live \in {0, calls} /\ TextOK /\ OthersOK
  BY TypeParts DEF LineTyped
<1>1. CASE InsideDriver \/ Disconnect \/ \E w \in {0, 1} : Rx(w)
  <2>1. TypeOK'
    BY <1>1, DriverTyped
  <2>2. live' \in {0, calls'}
    BY <1>0, <1>1 DEF InsideDriver, Rx, Carrier, Track, Release, Answer, TakeByte, RxReturn,
       HangUp, Disconnect, modem
  <2>3. RingTyped' /\ wire' \in Seq(Tokens) /\ reg' \in Tokens \cup {None}
    <3>1. CASE TakeByte
      <4>1. UNCHANGED <<wire, reg>>
        BY <3>1 DEF TakeByte, modem
      <4> QED
        BY <3>1, <4>1, QueueTaken DEF LineTyped
    <3>2. CASE HangUp
      <4>1. head' = tail /\ UNCHANGED <<tail, buf, reg, wire>>
        BY <3>2 DEF HangUp, modem
      <4> QED
        BY <4>1, QueueFlushed DEF LineTyped
    <3>3. CASE ~TakeByte /\ ~HangUp
      BY <1>1, <3>3, DriverLeaves DEF InsideDriver
    <3> QED
      BY <3>1, <3>2, <3>3
  <2> QED
    BY <2>1, <2>2, <2>3 DEF LineTyped
<1>2. CASE UNCHANGED vars
  <2>1. RingTyped' /\ wire' \in Seq(Tokens) /\ reg' \in Tokens \cup {None}
    BY <1>2, DriverLeaves
  <2>2. UNCHANGED <<state, line, atConn, sawInactive, wasActive, reg, buf, head, tail, pc, want, out,
                    dsr, wire, live, hang, calls, sent, serving, answered, last>>
    BY <1>2 DEF vars, driver, ring, call, modem, ghost
  <2>3. TypeOK' /\ live' \in {0, calls'}
    <3>1. TextOK' /\ line' = line
      BY <1>0, <2>2 DEF TextOK
    <3>2. OthersOK' /\ live' \in {0, calls'}
      BY <1>0, <2>2 DEF OthersOK
    <3> QED
      BY <3>1, <3>2, Zenon DEF TypeOK, TextOK, OthersOK
  <2> QED
    BY <2>1, <2>3 DEF LineTyped
<1>3. CASE Arrive
  <2>1. RingTyped' /\ wire' \in Seq(Tokens) /\ reg' \in Tokens
    BY <1>3, QueueArrives
  <2>2. TypeOK' /\ live' \in {0, calls'}
    <3>1. reg' \in ByteRecord /\ wire' \in Seq(ByteRecord)
      BY <2>1, TokensAreBytes
    <3>2. UNCHANGED <<state, line, atConn, sawInactive, wasActive, buf, head, tail, pc, want, out,
                      dsr, live, hang, calls, sent, serving, answered, last>>
      BY <1>3 DEF Arrive, driver, call, ghost
    <3>3. TextOK'
      BY <1>0, <3>2 DEF TextOK
    <3>4. OthersOK' /\ live' \in {0, calls'}
      BY <1>0, <3>1, <3>2 DEF OthersOK
    <3> QED
      BY <3>3, <3>4, Zenon DEF TypeOK, TextOK, OthersOK
  <2> QED
    BY <2>1, <2>2 DEF LineTyped
<1>4. CASE Isr
  <2>1. RingTyped' /\ reg' = None
    BY <1>4, QueueFills
  <2>2. TypeOK' /\ live' \in {0, calls'} /\ wire' \in Seq(Tokens)
    <3>1. Bump(tail) \in 0..(Wrap - 1) /\ None \in ByteRecord
      BY <1>0, CountersTyped, TokensAreBytes DEF TypeOK
    <3>2. UNCHANGED <<state, line, atConn, sawInactive, wasActive, head, pc, want, out, wire,
                      dsr, live, hang, calls, sent, serving, answered, last>>
      BY <1>4 DEF Isr, driver, call, modem, ghost
    <3>3. buf' \in [0..(RingSize - 1) -> ByteRecord] /\ tail' \in 0..(Wrap - 1)
      <4>1. buf' = [buf EXCEPT ![tail % RingSize] = reg] /\ tail' = Bump(tail) /\ reg \in ByteRecord
        BY <1>0, <1>4 DEF OthersOK, Isr
      <4>2. buf \in [0..(RingSize - 1) -> ByteRecord]
        BY <1>0 DEF TypeOK
      <4> QED
        BY <3>1, <4>1, <4>2
    <3>4. wire' \in Seq(Tokens)
      BY <3>2 DEF LineTyped
    <3>5. TextOK'
      BY <1>0, <3>2 DEF TextOK
    <3>6. OthersOK' /\ live' \in {0, calls'}
      BY <1>0, <2>1, <3>1, <3>2, <3>3 DEF OthersOK
    <3> QED
      BY <3>4, <3>5, <3>6, Zenon DEF TypeOK, TextOK, OthersOK
  <2> QED
    BY <2>1, <2>2 DEF LineTyped
<1>50. ASSUME UNCHANGED <<driver, ring, call, ghost, last>>, wire' \in Seq(Tokens),
             wire' \in Seq(ByteRecord), RingTyped', live' \in 0..MaxCalls,
             dsr' \in BOOLEAN, live' \in {0, calls'}, hang' \in BOOLEAN,
             calls' \in 0..MaxCalls, sent' \in 0..MaxTyped
      PROVE  LineTyped'
  <2>1. UNCHANGED <<state, line, atConn, sawInactive, wasActive, reg, buf, head, tail, pc, want,
                    out, serving, answered, last>>
    BY <1>50 DEF driver, ring, call, ghost
  <2>2. TextOK'
    BY <1>0, <2>1 DEF TextOK
  <2>3. OthersOK'
    BY <1>0, <1>50, <2>1 DEF OthersOK
  <2>4. TypeOK'
    BY <2>2, <2>3, Zenon DEF TypeOK, TextOK, OthersOK
  <2> QED
    BY <1>50, <2>1, <2>4 DEF LineTyped
<1>5. ASSUME NEW s, Sends(s), UNCHANGED <<driver, call, ghost, last>>,
             dsr' \in BOOLEAN, live' \in {0, calls'}, hang' \in BOOLEAN,
             calls' \in 0..MaxCalls, sent' \in 0..MaxTyped
      PROVE  LineTyped'
  <2>1. /\ s \in Seq(Tokens) /\ wire' = wire \o s /\ UNCHANGED ring
    BY <1>5 DEF Sends
  <2>2. wire' \in Seq(Tokens) /\ RingTyped'
    BY <2>1, QueueFollowed
  <2>3. wire' \in Seq(ByteRecord) /\ live' \in 0..MaxCalls
    BY <1>5, <2>2, LineSizes, TokensAreBytes
  <2> QED
    BY <1>5, <2>1, <2>2, <2>3, <1>50
<1>6. CASE Connect
  <2>1. /\ UNCHANGED <<hang, sent, driver, call, ghost, last>> /\ dsr' \in BOOLEAN
        /\ live' \in {0, calls'} /\ calls' \in 0..MaxCalls
    <3>1. /\ calls' = calls + 1 /\ live' = calls + 1 /\ calls < MaxCalls
          /\ UNCHANGED <<hang, sent, driver, call, ghost, last>>
          /\ dsr' = TRUE \/ dsr' = dsr
      BY <1>6 DEF Connect
    <3>2. calls \in 0..MaxCalls /\ MaxCalls \in Nat /\ dsr \in BOOLEAN
      BY <1>0, LineSizes DEF OthersOK
    <3>3. calls' \in 0..MaxCalls /\ live' \in {0, calls'}
      BY <3>1, <3>2
    <3>4. dsr' \in BOOLEAN
      BY <3>1, <3>2
    <3> QED
      BY <3>1, <3>3, <3>4
  <2> QED
    BY <1>0, <1>5, <1>6, <2>1, ConnectSends DEF TypeOK
<1>7. ASSUME NEW kind \in Typed, Type(kind)
      PROVE  LineTyped'
  <2>1. UNCHANGED <<dsr, live, hang, calls, driver, call, ghost, last>> /\ sent' \in 0..MaxTyped
    <3>1. /\ sent' = sent + 1 /\ sent < MaxTyped
          /\ UNCHANGED <<dsr, live, hang, calls, driver, call, ghost, last>>
      BY <1>7 DEF Type
    <3>2. sent \in 0..MaxTyped /\ MaxTyped \in Nat
      BY <1>0, LineSizes DEF OthersOK
    <3> QED
      BY <3>1, <3>2
  <2> QED
    BY <1>0, <1>5, <1>7, <2>1, TypeSends DEF TypeOK
<1>8. CASE Down
  <2>1. /\ UNCHANGED <<calls, sent, driver, ring, call, ghost, last>> /\ dsr' \in BOOLEAN
        /\ live' = 0 /\ hang' = FALSE
    BY <1>0, <1>8 DEF Down, TypeOK
  <2>2. CASE ~TcpSer /\ hang
    <3>1. wire' = << >> /\ wire' \in Seq(Tokens) /\ RingTyped'
      BY <1>8, <2>1, <2>2, QueueCut DEF Down
    <3>2. wire' \in Seq(ByteRecord) /\ 0 \in 0..MaxCalls
      BY <3>1, LineSizes
    <3> QED
      BY <1>0, <2>1, <3>1, <3>2, <1>50 DEF OthersOK
  <2>3. CASE ~(~TcpSer /\ hang)
    BY <1>0, <1>5, <1>8, <2>1, <2>3, DownSends DEF TypeOK
  <2> QED
    BY <2>2, <2>3
<1> QED
  BY <1>1, <1>2, <1>3, <1>4, <1>6, <1>7, <1>8 DEF Next, Outside, CallerLeaves, ModemHangsUp

(* At first there is nothing on the line.                                     *)
LEMMA LineInit ==
  ASSUME Init
  PROVE  LineTyped /\ Under = 0 /\ InRing = 0
<1>1. 0 \in 0..(Wrap - 1) /\ {0} \subseteq 0..MaxCalls
  BY LineSizes
<1>2. InRing = 0
  BY <1>1, RingCounts DEF Init, InRing
<1>3. wire = << >> /\ << >> \in Seq(Tokens) /\ << >> \in Seq(ByteRecord) /\ Len(wire) = 0
  BY EmptySeq DEF Init
<1>4. Under = 0
  <2>1. InReg = 0 /\ Len(wire) = 0
    BY <1>3 DEF Init, InReg
  <2> QED
    BY <1>2, <2>1 DEF Under
<1>5. TypeOK
  BY <1>1, <1>3, LineSizes, TokensAreBytes DEF Init, TypeOK
<1>6. RingTyped
  BY <1>2 DEF RingTyped
<1> QED
  BY <1>2, <1>3, <1>4, <1>5, <1>6 DEF LineTyped, Init

(* Whatever the callers, the modem and the driver do, and whatever goes       *)
(* wrong, what travels on the line and what the driver keeps of it have their *)
(* types, and only bytes that came are ever read from the ring.               *)
THEOREM LineIsTyped == Spec => [](TypeOK /\ RingTyped)
<1>1. Init => LineTyped
  BY LineInit
<1>2. LineTyped /\ [Next /\ UNCHANGED Modem]_<<vars, Modem>> => LineTyped'
  BY LineTypedStep
<1>3. LineTyped => TypeOK /\ RingTyped
  BY DEF LineTyped
<1> QED
  BY <1>1, <1>2, <1>3, PTL DEF Spec

-----------------------------------------------------------------------------
(* The caller's bytes in order.                                               *)

(* The queue keeps some of its tokens, in their order.                        *)
Thins ==
  \E f \in [1..Under' -> 1..Under] :
    /\ \A i, j \in 1..Under' : i < j => f[i] < f[j]
    /\ \A i \in 1..Under' : Queue'[i] = Queue[f[i]]

(* The same of the queue as a formula that can be primed.                     *)
LEMMA QueueTypes == LineTyped => Under \in Nat /\ Queue \in [1..Under -> Tokens]
BY QueueTyped

(* It does so when it moves up, when it loses one and when its end is cut.    *)
LEMMA QueueThins ==
  ASSUME LineTyped, LineTyped',
         \/ \E k \in Nat : MovesUp(k)
         \/ \E k \in Nat : Loses(k)
         \/ CutOff
  PROVE  Thins
<1>1. Under' \in Nat
  <2>1. (Under \in Nat)'
    BY QueueTypes, PTL
  <2> QED
    BY <2>1
<1>2. Under \in Nat
  BY QueueTyped
<1>3. ASSUME NEW k \in Nat, MovesUp(k)
      PROVE  Thins
  <2> DEFINE f == [i \in 1..Under' |-> i + k]
  <2>1. Under' = Under - k
    BY <1>3 DEF MovesUp
  <2>2. f \in [1..Under' -> 1..Under] /\ \A i, j \in 1..Under' : i < j => f[i] < f[j]
    BY <1>1, <1>2, <2>1
  <2>3. \A i \in 1..Under' : Queue'[i] = Queue[f[i]]
    BY <1>3 DEF MovesUp
  <2> HIDE DEF f
  <2> QED
    BY <2>2, <2>3 DEF Thins
<1>4. ASSUME NEW k \in Nat, Loses(k)
      PROVE  Thins
  <2> DEFINE f == [i \in 1..Under' |-> IF i < k THEN i ELSE i + 1]
  <2>1. Under' = Under - 1
    BY <1>4 DEF Loses
  <2>2. f \in [1..Under' -> 1..Under] /\ \A i, j \in 1..Under' : i < j => f[i] < f[j]
    BY <1>1, <1>2, <2>1
  <2>3. \A i \in 1..Under' : Queue'[i] = Queue[f[i]]
    BY <1>4 DEF Loses
  <2> HIDE DEF f
  <2> QED
    BY <2>2, <2>3 DEF Thins
<1>5. CASE CutOff
  <2> DEFINE f == [i \in 1..Under' |-> i]
  <2>1. Under' <= Under
    BY <1>5 DEF CutOff
  <2>2. f \in [1..Under' -> 1..Under] /\ \A i, j \in 1..Under' : i < j => f[i] < f[j]
    BY <1>1, <1>2, <2>1
  <2>3. \A i \in 1..Under' : Queue'[i] = Queue[f[i]]
    BY <1>5 DEF CutOff
  <2> HIDE DEF f
  <2> QED
    BY <2>2, <2>3 DEF Thins
<1> QED
  BY <1>3, <1>4, <1>5

(* The numbers of the bytes in the queue rise, above that of the last one     *)
(* handed out and up to that of the last one sent; result codes have none.    *)
Numbered ==
  /\ last <= sent
  /\ \A i \in 1..Under : Queue[i].n # 0 => last < Queue[i].n /\ Queue[i].n <= sent
  /\ \A i, j \in 1..Under :
       i < j /\ Queue[i].n # 0 /\ Queue[j].n # 0 => Queue[i].n < Queue[j].n

(* A queue that thins stays so.                                               *)
LEMMA ThinsKeepsNumbers ==
  ASSUME LineTyped, Numbered, Thins, UNCHANGED <<last, sent>>
  PROVE  Numbered'
<1>1. PICK f \in [1..Under' -> 1..Under] :
        /\ \A i, j \in 1..Under' : i < j => f[i] < f[j]
        /\ \A i \in 1..Under' : Queue'[i] = Queue[f[i]]
  BY DEF Thins
<1>2. \A i \in 1..Under' : Queue'[i].n # 0 => last < Queue'[i].n /\ Queue'[i].n <= sent
  BY <1>1 DEF Numbered
<1>3. \A i, j \in 1..Under' :
        i < j /\ Queue'[i].n # 0 /\ Queue'[j].n # 0 => Queue'[i].n < Queue'[j].n
  BY <1>1 DEF Numbered
<1> QED
  BY <1>2, <1>3 DEF Numbered

(* So does one from which a byte is handed out.                               *)
LEMMA TakingKeepsNumbers ==
  ASSUME LineTyped, Numbered, TakeByte
  PROVE  /\ Numbered'
         /\ out' = out \/ (out' = Queue[1] /\ (Queue[1].n = 0 \/ Queue[1].n > last))
<1>1. /\ MovesUp(1) /\ Under \in Nat \ {0} /\ buf[Slot(head)] = Queue[1]
      /\ Queue[1] \in Tokens /\ sent' = sent
  BY QueueTaken DEF TakeByte, modem
<1>2. Under' = Under - 1 /\ Under' \in Nat /\ \A i \in 1..Under' : Queue'[i] = Queue[i + 1]
  BY <1>1 DEF MovesUp
<1>3. \/ out' = out /\ last' = last
      \/ out' = Queue[1] /\ last' = IF Queue[1].n = 0 THEN last ELSE Queue[1].n
  BY <1>1 DEF TakeByte
<1>4. /\ 1 \in 1..Under /\ \A i \in 1..Under' : i + 1 \in 1..Under /\ 1 < i + 1
      /\ \A i, j \in 1..Under' : i < j => i + 1 < j + 1
  BY <1>1, <1>2
<1>5. Queue[1].n # 0 => last < Queue[1].n /\ Queue[1].n <= sent
  BY <1>4 DEF Numbered
<1>6. \A i \in 1..Under' :
        Queue'[i].n # 0 => /\ last < Queue'[i].n /\ Queue'[i].n <= sent
                           /\ Queue[1].n # 0 => Queue[1].n < Queue'[i].n
  BY <1>2, <1>4 DEF Numbered
<1>7. \A i, j \in 1..Under' :
        i < j /\ Queue'[i].n # 0 /\ Queue'[j].n # 0 => Queue'[i].n < Queue'[j].n
  BY <1>2, <1>4 DEF Numbered
<1>8. last' <= sent' /\ (last' = last \/ (Queue[1].n # 0 /\ last' = Queue[1].n))
  BY <1>1, <1>3, <1>5 DEF Numbered
<1>9. Numbered'
  BY <1>1, <1>6, <1>7, <1>8 DEF Numbered
<1>10. Queue[1].n = 0 \/ Queue[1].n > last
  <2>1. Queue[1].n \in Nat /\ last \in Nat
    BY <1>1, TypeParts DEF Tokens, LineTyped, OthersOK
  <2> QED
    BY <1>5, <2>1
<1> QED
  BY <1>3, <1>9, <1>10

(* And one that is followed by a result code or by the next byte.             *)
LEMMA SendingKeepsNumbers ==
  ASSUME LineTyped, Numbered, NEW s, Sends(s), UNCHANGED last, sent' \in Nat,
         \/ sent' = sent /\ \A i \in 1..Len(s) : s[i].n = 0
         \/ sent' = sent + 1 /\ Len(s) = 1 /\ s[1].n = sent + 1
  PROVE  Numbered'
<1>1. FollowedBy(s) /\ Len(s) \in Nat
  BY QueueFollowed DEF Sends
<1>2. /\ Under \in Nat /\ Under' = Under + Len(s)
      /\ \A i \in 1..Under : Queue'[i] = Queue[i]
      /\ \A i \in 1..Len(s) : Queue'[Under + i] = s[i]
  BY <1>1, QueueTyped DEF FollowedBy
<1>3. sent \in Nat /\ last \in Nat /\ sent <= sent' /\ last <= sent
  BY TypeParts DEF LineTyped, OthersOK, Numbered
<1>4. ASSUME NEW i \in 1..Under', i \notin 1..Under, Queue'[i].n # 0
      PROVE  sent' = sent + 1 /\ i = Under + 1 /\ Queue'[i].n = sent + 1
  <2>1. i - Under \in 1..Len(s) /\ Under + (i - Under) = i
    BY <1>1, <1>2, <1>4
  <2>2. Queue'[i] = s[i - Under]
    BY <1>2, <2>1
  <2>3. sent' = sent + 1 /\ Len(s) = 1 /\ s[1].n = sent + 1
    BY <1>4, <2>1, <2>2
  <2>4. i - Under = 1 /\ i = Under + 1
    BY <1>2, <2>1, <2>3
  <2> QED
    BY <2>2, <2>3, <2>4
<1>5. ASSUME NEW i \in 1..Under', Queue'[i].n # 0
      PROVE  /\ last < Queue'[i].n /\ Queue'[i].n <= sent'
             /\ i \in 1..Under => Queue'[i].n <= sent
  <2>1. CASE i \in 1..Under
    <3>1. Queue[i].n \in Nat /\ last < Queue[i].n /\ Queue[i].n <= sent /\ Queue'[i] = Queue[i]
      BY <1>2, <1>5, <2>1, QueueTyped DEF Numbered, Tokens
    <3> QED
      BY <1>3, <3>1
  <2>2. CASE i \notin 1..Under
    BY <1>3, <1>4, <1>5, <2>2
  <2> QED
    BY <2>1, <2>2
<1>6. ASSUME NEW i \in 1..Under', NEW j \in 1..Under', i < j,
             Queue'[i].n # 0, Queue'[j].n # 0
      PROVE  Queue'[i].n < Queue'[j].n
  <2>1. CASE j \in 1..Under
    <3>1. i \in 1..Under
      BY <1>2, <1>6, <2>1
    <3> QED
      BY <1>2, <1>6, <2>1, <3>1 DEF Numbered
  <2>2. CASE j \notin 1..Under
    <3>1. j = Under + 1 /\ Queue'[j].n = sent + 1
      BY <1>4, <1>6, <2>2
    <3>2. i \in 1..Under
      BY <1>2, <1>6, <3>1
    <3>3. Queue[i].n \in Nat /\ Queue[i].n <= sent /\ Queue'[i] = Queue[i]
      BY <1>2, <1>6, <3>2, QueueTyped DEF Numbered, Tokens
    <3> QED
      BY <1>3, <3>1, <3>3
  <2> QED
    BY <2>1, <2>2
<1>7. last' <= sent'
  BY <1>3
<1> QED
  BY <1>5, <1>6, <1>7 DEF Numbered

(* The queue thins at every step but those that send.                         *)
LEMMA QueueOnlyThins ==
  ASSUME LineTyped, LineTyped', "overflow" \notin Faults,
         \/ \E w \in {0, 1} : Rx(w)
         \/ Carrier \/ Track \/ Release \/ Answer \/ RxReturn \/ Disconnect
         \/ TakeByte \/ HangUp \/ Arrive \/ Isr \/ (Down /\ ~TcpSer /\ hang)
         \/ UNCHANGED vars
  PROVE  Thins
<1>1. CASE \/ \E w \in {0, 1} : Rx(w)
           \/ Carrier \/ Track \/ Release \/ Answer \/ RxReturn \/ Disconnect
           \/ UNCHANGED vars
  <2>1. MovesUp(0) /\ 0 \in Nat
    BY <1>1, DriverLeaves
  <2> QED
    BY <2>1, QueueThins
<1>2. CASE HangUp
  <2>1. head' = tail /\ UNCHANGED <<tail, buf, reg, wire>>
    BY <1>2 DEF HangUp, modem
  <2>2. MovesUp(InRing) /\ InRing \in Nat
    BY <2>1, QueueFlushed, QueueTyped
  <2> QED
    BY <2>2, QueueThins
<1>3. CASE Arrive
  <2>1. MovesUp(0) \/ \E k \in Nat : Loses(k)
    BY <1>3, QueueArrives
  <2> QED
    BY <2>1, QueueThins
<1>4. CASE Isr
  <2>1. MovesUp(0) /\ 0 \in Nat
    BY <1>4, QueueFills
  <2> QED
    BY <2>1, QueueThins
<1>5. CASE TakeByte
  <2>1. MovesUp(1) /\ 1 \in Nat
    BY <1>5, QueueTaken
  <2> QED
    BY <2>1, QueueThins
<1>6. CASE Down /\ ~TcpSer /\ hang
  <2>1. wire' = << >> /\ UNCHANGED ring
    BY <1>6 DEF Down
  <2>2. CutOff
    BY <2>1, QueueCut
  <2> QED
    BY <2>2, QueueThins
<1> QED
  BY <1>1, <1>2, <1>3, <1>4, <1>5, <1>6

(* A step thins the queue, hands out its first byte or sends something after  *)
(* it.                                                                        *)
LEMMA QueueSteps ==
  ASSUME LineTyped, LineTyped', [Next]_vars, "overflow" \notin Faults
  PROVE  \/ Thins /\ UNCHANGED <<last, sent>> /\ (out' = out \/ out' = None)
         \/ TakeByte
         \/ \E s : /\ Sends(s) /\ UNCHANGED <<last, out>>
                   /\ \/ sent' = sent /\ \A i \in 1..Len(s) : s[i].n = 0
                      \/ sent' = sent + 1 /\ Len(s) = 1 /\ s[1].n = sent + 1
<1>1. CASE \/ \E w \in {0, 1} : Rx(w)
           \/ Carrier \/ Track \/ Release \/ Answer \/ RxReturn \/ Disconnect
           \/ UNCHANGED vars
  <2>1. Thins /\ UNCHANGED <<last, sent>>
    BY <1>1, DriverLeaves, QueueOnlyThins
  <2>2. out' = out \/ out' = None
    BY <1>1 DEF Rx, Carrier, Track, Release, Answer, RxReturn, Disconnect, vars, call
  <2> QED
    BY <2>1, <2>2
<1>2. CASE HangUp
  <2>1. UNCHANGED <<last, sent, out>>
    BY <1>2 DEF HangUp, modem
  <2> QED
    BY <1>2, <2>1, QueueOnlyThins
<1>3. CASE Arrive
  <2>1. UNCHANGED <<last, sent, out>>
    BY <1>3 DEF Arrive, call
  <2> QED
    BY <1>3, <2>1, QueueOnlyThins
<1>4. CASE Isr
  <2>1. UNCHANGED <<last, sent, out>>
    BY <1>4 DEF Isr, call, modem
  <2> QED
    BY <1>4, <2>1, QueueOnlyThins
<1>5. ASSUME NEW kind \in Kinds, NEW c \in 0..MaxCalls,
             NEW s \in {Result(kind, c), << >>}
      PROVE  \A i \in 1..Len(s) : s[i].n = 0
  <2>1. CASE s = << >>
    BY <2>1
  <2>2. CASE s = Result(kind, c)
    <3>1. /\ Len(s) = 3 /\ s[1] = Byte("CR", c, 0) /\ s[2] = Byte(kind, c, 0)
          /\ s[3] = Byte("CR", c, 0)
      BY <2>2, ResultTyped
    <3>2. s[1].n = 0 /\ s[2].n = 0 /\ s[3].n = 0
      BY <3>1 DEF Byte
    <3> QED
      BY <3>1, <3>2
  <2> QED
    BY <2>1, <2>2
<1>6. CASE Connect
  <2>1. UNCHANGED <<last, sent, out>> /\ calls + 1 = calls' /\ calls' \in 0..MaxCalls
    <3>1. calls' \in 0..MaxCalls
      <4>1. OthersOK'
        BY Zenon DEF LineTyped, TypeOK, OthersOK
      <4> QED
        BY <4>1 DEF OthersOK
    <3> QED
      BY <1>6, <3>1 DEF Connect, call
  <2>2. "CONNECT" \in Kinds
    BY DEF Kinds
  <2>3. Sends(IF TcpSer THEN Result("CONNECT", calls + 1) ELSE << >>)
    BY <1>6, ConnectSends
  <2> DEFINE s == IF TcpSer THEN Result("CONNECT", calls + 1) ELSE << >>
  <2>4. s \in {Result("CONNECT", calls'), << >>}
    BY <2>1
  <2>5. \A i \in 1..Len(s) : s[i].n = 0
    <3> HIDE DEF s
    <3> QED  BY <1>5, <2>1, <2>2, <2>4
  <2> HIDE DEF s
  <2> QED
    BY <2>1, <2>3, <2>5 DEF s
<1>7. ASSUME NEW kind \in Typed, Type(kind)
      PROVE  \E s : /\ Sends(s) /\ UNCHANGED <<last, out>>
                   /\ sent' = sent + 1 /\ Len(s) = 1 /\ s[1].n = sent + 1
  <2> DEFINE s == <<Byte(kind, live, sent + 1)>>
  <2>1. Sends(s)
    BY <1>7, TypeSends
  <2>2. Len(s) = 1 /\ s[1].n = sent + 1
    BY DEF Byte
  <2>3. UNCHANGED <<last, out>> /\ sent' = sent + 1
    BY <1>7 DEF Type, call
  <2> HIDE DEF s
  <2> QED
    BY <2>1, <2>2, <2>3
<1>8. CASE Down
  <2>1. UNCHANGED <<last, sent, out>>
    BY <1>8 DEF Down, call
  <2>2. CASE ~TcpSer /\ hang
    BY <1>8, <2>1, <2>2, QueueOnlyThins
  <2>3. CASE ~(~TcpSer /\ hang)
    <3> DEFINE s == IF TcpSer THEN Result("NOCARRIER", live) ELSE << >>
    <3>1. Sends(s)
      BY <1>8, <2>3, DownSends
    <3>2. s \in {Result("NOCARRIER", live), << >>} /\ "NOCARRIER" \in Kinds
      BY DEF Kinds
    <3>3. live \in 0..MaxCalls
      BY TypeParts DEF LineTyped, OthersOK
    <3>4. \A i \in 1..Len(s) : s[i].n = 0
      <4> HIDE DEF s
      <4> QED  BY <1>5, <3>2, <3>3
    <3> HIDE DEF s
    <3> QED
      BY <2>1, <3>1, <3>4
  <2> QED
    BY <2>2, <2>3
<1> QED
  BY <1>1, <1>2, <1>3, <1>4, <1>6, <1>7, <1>8
     DEF Next, InsideDriver, Outside, CallerLeaves, ModemHangsUp

(* Every step keeps the numbers in order, and hands out none that is not      *)
(* above the last.                                                            *)
LEMMA NumberedStep ==
  ASSUME LineTyped, LineTyped', Numbered, [Next]_vars, "overflow" \notin Faults
  PROVE  /\ Numbered'
         /\ out' # None /\ out = None => out'.n = 0 \/ out'.n > last
<1>1. CASE Thins /\ UNCHANGED <<last, sent>> /\ (out' = out \/ out' = None)
  BY <1>1, ThinsKeepsNumbers
<1>2. CASE TakeByte
  BY <1>2, TakingKeepsNumbers
<1>3. ASSUME NEW s, Sends(s), UNCHANGED <<last, out>>,
             \/ sent' = sent /\ \A i \in 1..Len(s) : s[i].n = 0
             \/ sent' = sent + 1 /\ Len(s) = 1 /\ s[1].n = sent + 1
      PROVE  Numbered' /\ out' = out
  <2>1. sent' \in Nat
    <3>1. OthersOK'
      BY Zenon DEF LineTyped, TypeOK, OthersOK
    <3> QED
      BY <3>1 DEF OthersOK
  <2> QED
    BY <1>3, <2>1, SendingKeepsNumbers
<1> QED
  BY <1>1, <1>2, <1>3, QueueSteps

(* If the ring is never filled past its end, the driver hands out what a      *)
(* caller typed in the order it was sent and no byte twice: whatever is typed,*)
(* with either modem, through hangups, lost bytes and callers that follow one *)
(* another faster than the driver polls.                                      *)
THEOREM BytesStayInOrder ==
  ASSUME "overflow" \notin Faults
  PROVE  Spec => PayloadInOrder
<1>1. Init => LineTyped /\ Numbered
  <2>1. Init => Under = 0 /\ last = 0 /\ sent = 0
    BY LineInit DEF Init
  <2> QED
    BY <2>1, LineInit DEF Numbered
<1>2. LineTyped /\ Numbered /\ [Next /\ UNCHANGED Modem]_<<vars, Modem>>
        => (LineTyped /\ Numbered)'
  BY LineTypedStep, NumberedStep
<1>3. LineTyped /\ LineTyped' /\ Numbered /\ [Next /\ UNCHANGED Modem]_<<vars, Modem>>
        => [out' # None /\ out = None => out'.n = 0 \/ out'.n > last]_vars
  BY NumberedStep
<1> QED
  BY <1>1, <1>2, <1>3, PTL DEF Spec, PayloadInOrder

-----------------------------------------------------------------------------
(* Whose bytes they are.                                                      *)

(* The parser of result codes is at the start of a line.                      *)
AtLineStart == line = ""

(* What process_inbound does with a byte b.                                   *)
LEMMA TakesByte ==
  ASSUME TakeByte, NEW b, b = buf[Slot(head)]
  PROVE  /\ b.kind = "CR" => AtLineStart'
         /\ b.kind = "NOCARRIER" /\ AtLineStart => line' = "NOCARRIER"
         /\ line' = "CONNECT" =>
              /\ b.kind # "CR"
              /\ line = "CONNECT" \/ (AtLineStart /\ b.kind = "CONNECT")
         /\ state = "connected" \/ state' # "connected" => UNCHANGED ghost
         /\ state' = "connected" /\ state = "connected" =>
              ~(b.kind = "CR" /\ line = "NOCARRIER") /\ (atConn => atConn')
         /\ state' = "connected" /\ state # "connected" =>
              /\ b.kind = "CR" /\ line = "CONNECT"
              /\ atConn' /\ serving' = b.call /\ answered' = answered \cup {b.call}
         /\ state' \in {state, "connected", "dropping"}
         /\ out' = out \/ (out' = b /\ atConn /\ state' = "connected")
         /\ state # "connected" \/ out = None
         /\ pc = "drain"
         /\ UNCHANGED <<pc, wasActive, sawInactive, modem>>
<1>0. line' = (IF b.kind = "CR" THEN "" ELSE Extended(b.kind))
  BY Zenon DEF TakeByte
<1>1. b.kind = "CR" => AtLineStart'
  BY <1>0, Zenon DEF AtLineStart
<1>2. b.kind = "NOCARRIER" /\ AtLineStart => line' = "NOCARRIER"
  BY <1>0, Zenon DEF AtLineStart, Extended
<1>3. line' = "CONNECT" =>
        /\ b.kind # "CR"
        /\ line = "CONNECT" \/ (AtLineStart /\ b.kind = "CONNECT")
  <2>1. line' = "CONNECT" => b.kind # "CR"
    BY <1>0, Zenon
  <2>2. line' = "CONNECT" /\ AtLineStart => b.kind = "CONNECT"
    <3>1. SUFFICES ASSUME line' = "CONNECT", AtLineStart PROVE b.kind = "CONNECT"
      OBVIOUS
    <3>2. line' = IF b.kind = "data" THEN "junk" ELSE b.kind
      BY <1>0, <2>1, <3>1, Zenon DEF AtLineStart, Extended
    <3> QED
      BY <3>1, <3>2, Zenon
  <2>3. line' = "CONNECT" /\ ~AtLineStart => line = "CONNECT"
    <3>1. SUFFICES ASSUME line' = "CONNECT", ~AtLineStart, line # "CONNECT" PROVE FALSE
      OBVIOUS
    <3>2. Extended(b.kind) = "junk"
      BY <3>1, Zenon DEF AtLineStart, Extended
    <3> QED
      BY <1>0, <2>1, <3>1, <3>2, Zenon
  <2> QED
    BY <2>1, <2>2, <2>3
<1> DEFINE e == Event(b)
<1>4. /\ state' = (CASE e = "CONNECT" /\ state = "idle" -> "connected"
                    [] e = "NOCARRIER" -> "dropping"
                    [] OTHER -> state)
      /\ atConn' = (e = "CONNECT" \/ (atConn /\ e # "NOCARRIER"))
  BY Zenon DEF TakeByte
<1>5. IF state # "connected" /\ state' = "connected"
      THEN serving' = b.call /\ answered' = answered \cup {b.call}
      ELSE UNCHANGED ghost
  BY Zenon DEF TakeByte
<1>6. /\ b.kind = "CR" /\ line = "NOCARRIER" => e = "NOCARRIER"
      /\ e = "CONNECT" => b.kind = "CR" /\ line = "CONNECT"
      /\ e \in {"none", "CONNECT", "NOCARRIER"}
  BY DEF Event
<1>7. /\ out' = out \/ (out' = b /\ atConn /\ state' = "connected")
      /\ state # "connected" \/ out = None
      /\ pc = "drain" /\ UNCHANGED <<pc, wasActive, sawInactive, modem>>
  BY Zenon DEF TakeByte, Full
<1> HIDE DEF e
<1>8. /\ state' = "connected" /\ state = "connected" => e # "NOCARRIER"
      /\ state' = "connected" /\ state # "connected" => e = "CONNECT"
      /\ state' \in {state, "connected", "dropping"}
  <2>1. CASE e = "CONNECT" /\ state = "idle"
    BY <1>4, <2>1
  <2>2. CASE ~(e = "CONNECT" /\ state = "idle") /\ e = "NOCARRIER"
    BY <1>4, <2>2
  <2>3. CASE ~(e = "CONNECT" /\ state = "idle") /\ e # "NOCARRIER"
    BY <1>4, <2>3
  <2> QED
    BY <2>1, <2>2, <2>3
<1> QED
  BY <1>1, <1>2, <1>3, <1>4, <1>5, <1>6, <1>7, <1>8

(* The calls the tokens are of, and that of the next one to come.             *)
NextCall == IF live # 0 THEN live ELSE calls + 1
Calls == [i \in 1..(Under + 1) |-> IF i <= Under THEN Queue[i].call ELSE NextCall]

(* They move with the tokens.                                                 *)
LEMMA CallsMoveUp ==
  ASSUME LineTyped, LineTyped', NEW k \in Nat, MovesUp(k), UNCHANGED <<live, calls>>
  PROVE  \A i \in 1..(Under' + 1) : i + k \in 1..(Under + 1) /\ Calls'[i] = Calls[i + k]
<1>1. Under \in Nat /\ Under' = Under - k /\ \A i \in 1..Under' : Queue'[i] = Queue[i + k]
  BY QueueTyped DEF MovesUp
<1>2. Under' \in Nat
  <2>1. (Under \in Nat)'
    BY QueueTypes, PTL
  <2> QED
    BY <2>1
<1>3. NextCall' = NextCall
  BY DEF NextCall
<1> SUFFICES ASSUME NEW i \in 1..(Under' + 1)
             PROVE  i + k \in 1..(Under + 1) /\ Calls'[i] = Calls[i + k]
  OBVIOUS
<1>4. i + k \in 1..(Under + 1) /\ (i <= Under' <=> i + k <= Under)
  BY <1>1, <1>2
<1>5. i <= Under' => Queue'[i] = Queue[i + k]
  BY <1>1, <1>2
<1> QED
  BY <1>3, <1>4, <1>5 DEF Calls

(* A token that is sent is of the call that is to come.                       *)
LEMMA CallsFollow ==
  ASSUME LineTyped, NEW s \in Seq(Tokens), FollowedBy(s),
         \A i \in 1..Len(s) : s[i].call = NextCall,
         Len(s) = 0 => NextCall' = NextCall
  PROVE  /\ \A i \in 1..(Under + 1) : Calls'[i] = Calls[i]
         /\ \A i \in 1..Len(s) : Calls'[Under + i] = NextCall
         /\ Calls'[Under' + 1] = NextCall'
<1>1. /\ Under \in Nat /\ Len(s) \in Nat /\ Under' = Under + Len(s)
      /\ \A i \in 1..Under : Queue'[i] = Queue[i]
      /\ \A i \in 1..Len(s) : Queue'[Under + i] = s[i]
  BY QueueTyped DEF FollowedBy
<1>2. \A i \in 1..(Under' + 1) : Calls'[i] = IF i <= Under' THEN Queue'[i].call ELSE NextCall'
  BY DEF Calls
<1>3. ASSUME NEW i \in 1..Len(s)
      PROVE  Calls'[Under + i] = NextCall
  <2>1. Under + i \in 1..(Under' + 1) /\ Under + i <= Under'
    BY <1>1
  <2> QED
    BY <1>1, <1>2, <2>1
<1>4. Under' + 1 \in 1..(Under' + 1) /\ ~(Under' + 1 <= Under')
  BY <1>1
<1>5. Calls'[Under' + 1] = NextCall'
  BY <1>2, <1>4
<1>6. ASSUME NEW i \in 1..(Under + 1)
      PROVE  Calls'[i] = Calls[i]
  <2>1. CASE i <= Under
    <3>1. i \in 1..Under /\ i \in 1..(Under' + 1) /\ i <= Under'
      BY <1>1, <2>1
    <3> QED
      BY <1>1, <1>2, <2>1, <3>1 DEF Calls
  <2>2. CASE ~(i <= Under)
    <3>1. i = Under + 1 /\ Calls[i] = NextCall
      BY <1>1, <2>2 DEF Calls
    <3>2. CASE Len(s) = 0
      BY <1>1, <1>5, <3>1, <3>2
    <3>3. CASE Len(s) # 0
      <4>1. 1 \in 1..Len(s)
        BY <1>1, <3>3
      <4> QED
        BY <1>3, <3>1, <4>1
    <3> QED
      BY <3>2, <3>3
  <2> QED
    BY <2>1, <2>2
<1> QED
  BY <1>3, <1>5, <1>6

(* A result code is a line of its own, and what follows CONNECT is of the     *)
(* caller who connects.                                                       *)
IsCode(i) == Queue[i].n = 0 /\ Queue[i].kind # "CR"
CodeStands(i) ==
  /\ i + 1 \in 1..Under /\ Queue[i + 1].kind = "CR"
  /\ IF i = 1 THEN AtLineStart ELSE Queue[i - 1].kind = "CR"
  /\ Queue[i].kind = "CONNECT" => Calls[i] = Calls[i + 1] /\ Calls[i + 1] = Calls[i + 2]
Coded == \A i \in 1..Under : IsCode(i) => CodeStands(i)
OnlyCodesConnect == \A i \in 1..Under : Queue[i].kind = "CONNECT" => Queue[i].n = 0

(* One call ends where NO CARRIER says so, and a board that is connected has  *)
(* not missed it.                                                             *)
EndsCall(i) ==
  /\ Queue[i].kind = "CR"
  /\ IF i = 1 THEN state = "connected" => line = "NOCARRIER"
              ELSE Queue[i - 1].kind = "NOCARRIER" /\ Queue[i - 1].n = 0
Parted == \A i \in 1..Under : Calls[i] # Calls[i + 1] => EndsCall(i)

(* When CONNECT has been read the end of the line is next.                    *)
Opening == line = "CONNECT" => /\ Under # 0 /\ Queue[1].kind = "CR"
                               /\ Calls[1] = Calls[2]

(* The next byte is of the caller the driver is connected to, and so is the   *)
(* one it hands out.                                                          *)
Served == state = "connected" => atConn /\ Calls[1] = serving
Handing == out # None => /\ out.call = serving /\ pc \in {"drain", "out"}
                         /\ pc = "drain" => state = "connected"

TcpInv ==
  /\ Coded /\ OnlyCodesConnect /\ Parted /\ Opening /\ Served /\ Handing
  /\ ~wasActive

(* A queue that moves up keeps the structure of the line: what stood behind   *)
(* the first token stands behind the next, if the parser has seen it.         *)
LEMMA MovingKeepsStructure ==
  ASSUME LineTyped, LineTyped', Coded, OnlyCodesConnect, Parted,
         NEW k \in 0..Under, MovesUp(k), UNCHANGED <<live, calls>>,
         \/ k = 0 /\ line' = line /\ (state' = "connected" => state = "connected")
         \/ AtLineStart' /\ state' # "connected"
         \/ k = 1 /\ (Queue[1].kind = "CR" => AtLineStart')
                  /\ (Queue[1].kind = "NOCARRIER" /\ AtLineStart => line' = "NOCARRIER")
  PROVE  Coded' /\ OnlyCodesConnect' /\ Parted'
<1>1. /\ Under \in Nat /\ Under' \in Nat /\ Under' = Under - k /\ k \in Nat
      /\ \A i \in 1..Under' : Queue'[i] = Queue[i + k]
  <2>1. (Under \in Nat)'
    BY QueueTypes, PTL
  <2> QED
    BY <2>1, QueueTyped DEF MovesUp
<1>2. \A i \in 1..(Under' + 1) : i + k \in 1..(Under + 1) /\ Calls'[i] = Calls[i + k]
  BY <1>1, CallsMoveUp
<1>3. OnlyCodesConnect'
  <2>1. \A i \in 1..Under' : i + k \in 1..Under
    BY <1>1
  <2> QED
    BY <1>1, <2>1 DEF OnlyCodesConnect
<1>4. ASSUME NEW i \in 1..Under', Queue'[i].n = 0, Queue'[i].kind # "CR"
      PROVE  CodeStands(i)'
  <2>1. i + k \in 1..Under /\ Queue'[i] = Queue[i + k]
    BY <1>1
  <2>2. CodeStands(i + k)
    BY <1>4, <2>1 DEF Coded, IsCode
  <2>3. (i + k) + 1 \in 1..Under /\ Queue[(i + k) + 1].kind = "CR"
    BY <2>2 DEF CodeStands
  <2>4. /\ i + 1 \in 1..Under' /\ (i + 1) + k = (i + k) + 1
        /\ i + 2 \in 1..(Under' + 1) /\ (i + 2) + k = (i + k) + 2 /\ i \in 1..(Under' + 1)
    BY <1>1, <2>3
  <2>5. Queue'[i + 1].kind = "CR"
    BY <1>1, <2>3, <2>4
  <2>6. Queue'[i].kind = "CONNECT" => Calls'[i] = Calls'[i + 1] /\ Calls'[i + 1] = Calls'[i + 2]
    <3>1. Queue[i + k].kind = "CONNECT" =>
            Calls[i + k] = Calls[(i + k) + 1] /\ Calls[(i + k) + 1] = Calls[(i + k) + 2]
      BY <2>2 DEF CodeStands
    <3>2. /\ Calls'[i] = Calls[i + k] /\ Calls'[i + 1] = Calls[(i + k) + 1]
          /\ Calls'[i + 2] = Calls[(i + k) + 2]
      <4>1. i + 1 \in 1..(Under' + 1)
        BY <1>1, <2>4
      <4> QED
        BY <1>2, <2>4, <4>1
    <3> QED
      BY <2>1, <3>1, <3>2
  <2>7. IF i = 1 THEN AtLineStart' ELSE Queue'[i - 1].kind = "CR"
    <3>1. CASE i # 1
      <4>1. i + k # 1 /\ i - 1 \in 1..Under' /\ (i - 1) + k = (i + k) - 1
        BY <1>1, <3>1
      <4>2. Queue[(i + k) - 1].kind = "CR"
        BY <2>2, <4>1 DEF CodeStands
      <4> QED
        BY <1>1, <3>1, <4>1, <4>2
    <3>2. CASE i = 1 /\ k = 0
      <4>1. i + k = 1 /\ (line' = line \/ AtLineStart')
        BY <1>1, <3>2
      <4>2. AtLineStart
        BY <2>2, <4>1 DEF CodeStands
      <4>3. AtLineStart'
        BY <4>1, <4>2, Zenon DEF AtLineStart
      <4> QED
        BY <3>2, <4>3
    <3>3. CASE i = 1 /\ k # 0
      <4>1. CASE k = 1
        <5>1. i + k # 1 /\ (i + k) - 1 = 1
          BY <3>3, <4>1
        <5>2. Queue[1].kind = "CR"
          BY <2>2, <5>1 DEF CodeStands
        <5> QED
          BY <3>3, <4>1, <5>2
      <4>2. CASE k # 1
        BY <3>3, <4>2
      <4> QED
        BY <4>1, <4>2
    <3> QED
      BY <3>1, <3>2, <3>3
  <2> QED
    BY <2>4, <2>5, <2>6, <2>7 DEF CodeStands
<1>5. ASSUME NEW i \in 1..Under', Calls'[i] # Calls'[i + 1]
      PROVE  EndsCall(i)'
  <2>1. /\ i + k \in 1..Under /\ Queue'[i] = Queue[i + k]
        /\ i \in 1..(Under' + 1) /\ i + 1 \in 1..(Under' + 1) /\ (i + 1) + k = (i + k) + 1
    BY <1>1
  <2>2. Calls[i + k] # Calls[(i + k) + 1]
    BY <1>2, <1>5, <2>1
  <2>3. EndsCall(i + k)
    BY <2>1, <2>2 DEF Parted
  <2>4. Queue'[i].kind = "CR"
    BY <2>1, <2>3 DEF EndsCall
  <2>5. CASE i # 1
    <3>1. i + k # 1 /\ i - 1 \in 1..Under' /\ (i - 1) + k = (i + k) - 1
      BY <1>1, <2>5
    <3>2. Queue[(i + k) - 1].kind = "NOCARRIER" /\ Queue[(i + k) - 1].n = 0
      BY <2>3, <3>1 DEF EndsCall
    <3>3. Queue'[i - 1].kind = "NOCARRIER" /\ Queue'[i - 1].n = 0
      BY <1>1, <3>1, <3>2
    <3> QED
      BY <2>4, <2>5, <3>3 DEF EndsCall
  <2>6. CASE i = 1
    <3>1. SUFFICES ASSUME state' = "connected" PROVE line' = "NOCARRIER"
      BY <2>4, <2>6 DEF EndsCall
    <3>2. CASE k = 0
      <4>1. i + k = 1 /\ state = "connected" /\ line' = line
        BY <2>6, <3>1, <3>2
      <4>2. line = "NOCARRIER"
        BY <2>3, <4>1 DEF EndsCall
      <4> QED
        BY <4>1, <4>2
    <3>3. CASE k # 0
      <4>1. k = 1 /\ (Queue[1].kind = "NOCARRIER" /\ AtLineStart => line' = "NOCARRIER")
        BY <3>1, <3>3
      <4>2. i + k # 1 /\ (i + k) - 1 = 1 /\ 1 \in 1..Under
        BY <1>1, <2>1, <2>6, <4>1
      <4>3. Queue[1].kind = "NOCARRIER" /\ Queue[1].n = 0
        BY <2>3, <4>2 DEF EndsCall
      <4>4. CodeStands(1)
        BY <4>2, <4>3 DEF Coded, IsCode
      <4>5. AtLineStart
        BY <4>4 DEF CodeStands
      <4> QED
        BY <4>1, <4>3, <4>5
    <3> QED
      BY <3>2, <3>3
  <2> QED
    BY <2>5, <2>6
<1>6. Coded'
  <2>1. \A i \in 1..Under' : (IsCode(i))' => CodeStands(i)'
    BY <1>4 DEF IsCode
  <2> QED
    BY <2>1 DEF Coded
<1>7. Parted'
  BY <1>5 DEF Parted
<1> QED
  BY <1>3, <1>6, <1>7

(* What is sent: codes are lines, and before another call there is one.       *)
WellSent(s) ==
  /\ \A j \in 1..Len(s) : s[j].call = NextCall
  /\ \A j \in 1..Len(s) : s[j].n = 0 /\ s[j].kind # "CR" =>
       /\ j # 1 /\ j + 1 \in 1..Len(s) /\ s[j + 1].kind = "CR" /\ s[j - 1].kind = "CR"
       /\ s[j].kind = "CONNECT" => NextCall' = NextCall
  /\ \A j \in 1..Len(s) : s[j].kind = "CONNECT" => s[j].n = 0
  /\ NextCall' # NextCall =>
       /\ Len(s) > 1 /\ s[Len(s)].kind = "CR"
       /\ s[Len(s) - 1].kind = "NOCARRIER" /\ s[Len(s) - 1].n = 0

(* A queue that is followed by such a message keeps its structure.            *)
LEMMA FollowingKeepsStructure ==
  ASSUME LineTyped, Coded, OnlyCodesConnect, Parted,
         NEW s \in Seq(Tokens), FollowedBy(s), WellSent(s), UNCHANGED <<line, state>>
  PROVE  /\ Coded' /\ OnlyCodesConnect' /\ Parted'
         /\ \A i \in 1..(Under + 1) : Calls'[i] = Calls[i]
<1>1. /\ Under \in Nat /\ Len(s) \in Nat /\ Under' = Under + Len(s)
      /\ \A i \in 1..Under : Queue'[i] = Queue[i]
      /\ \A j \in 1..Len(s) : Queue'[Under + j] = s[j]
  BY QueueTyped DEF FollowedBy
<1>2. /\ \A i \in 1..(Under + 1) : Calls'[i] = Calls[i]
      /\ \A j \in 1..Len(s) : Calls'[Under + j] = NextCall
      /\ Calls'[Under' + 1] = NextCall'
  <2>1. Len(s) = 0 => NextCall' = NextCall
    BY DEF WellSent
  <2> QED
    BY <2>1, CallsFollow DEF WellSent
<1>3. ASSUME NEW i \in 1..Under', i \notin 1..Under
      PROVE  i - Under \in 1..Len(s) /\ Under + (i - Under) = i /\ Queue'[i] = s[i - Under]
  <2>1. i - Under \in 1..Len(s) /\ Under + (i - Under) = i
    BY <1>1, <1>3
  <2> QED
    BY <1>1, <2>1
<1>4. OnlyCodesConnect'
  <2>1. ASSUME NEW i \in 1..Under', Queue'[i].kind = "CONNECT"
        PROVE  Queue'[i].n = 0
    <3>1. CASE i \in 1..Under
      BY <1>1, <2>1, <3>1 DEF OnlyCodesConnect
    <3>2. CASE i \notin 1..Under
      BY <1>3, <2>1, <3>2 DEF WellSent
    <3> QED
      BY <3>1, <3>2
  <2> QED
    BY <2>1 DEF OnlyCodesConnect
<1>5. AtLineStart' <=> AtLineStart
  BY Zenon DEF AtLineStart
<1>6. ASSUME NEW i \in 1..Under', Queue'[i].n = 0, Queue'[i].kind # "CR"
      PROVE  CodeStands(i)'
  <2>1. CASE i \in 1..Under
    <3>1. CodeStands(i)
      BY <1>1, <1>6, <2>1 DEF Coded, IsCode
    <3>2. i + 1 \in 1..Under /\ Queue[i + 1].kind = "CR"
      BY <3>1 DEF CodeStands
    <3>3. /\ i + 1 \in 1..Under' /\ i \in 1..(Under + 1) /\ i + 1 \in 1..(Under + 1)
          /\ i + 2 \in 1..(Under + 1) /\ (i # 1 => i - 1 \in 1..Under)
      BY <1>1, <2>1, <3>2
    <3>4. Queue'[i + 1].kind = "CR"
      BY <1>1, <3>2
    <3>5. IF i = 1 THEN AtLineStart' ELSE Queue'[i - 1].kind = "CR"
      BY <1>1, <1>5, <3>1, <3>3 DEF CodeStands
    <3>6. Queue'[i].kind = "CONNECT" => Calls'[i] = Calls'[i + 1] /\ Calls'[i + 1] = Calls'[i + 2]
      BY <1>1, <1>2, <2>1, <3>1, <3>3 DEF CodeStands
    <3> QED
      BY <3>3, <3>4, <3>5, <3>6 DEF CodeStands
  <2>2. CASE i \notin 1..Under
    <3> DEFINE j == i - Under
    <3>1. j \in 1..Len(s) /\ Under + j = i /\ Queue'[i] = s[j]
      BY <1>3, <2>2
    <3> HIDE DEF j
    <3>2. /\ j # 1 /\ j + 1 \in 1..Len(s) /\ s[j + 1].kind = "CR" /\ s[j - 1].kind = "CR"
          /\ s[j].kind = "CONNECT" => NextCall' = NextCall
      BY <1>6, <3>1 DEF WellSent
    <3>3. /\ i + 1 \in 1..Under' /\ i + 1 = Under + (j + 1) /\ i - 1 = Under + (j - 1)
          /\ j - 1 \in 1..Len(s) /\ i # 1
      BY <1>1, <3>1, <3>2
    <3>4. Queue'[i + 1].kind = "CR" /\ Queue'[i - 1].kind = "CR"
      BY <1>1, <3>2, <3>3
    <3>5. Calls'[i] = NextCall /\ Calls'[i + 1] = NextCall
      BY <1>2, <3>1, <3>2, <3>3
    <3>7. /\ i = Under + j /\ j \in Nat /\ Under \in Nat /\ Len(s) \in Nat
          /\ Under' = Under + Len(s)
      BY <1>1, <3>1
    <3>6. Queue'[i].kind = "CONNECT" => Calls'[i + 2] = NextCall
      <4>1. SUFFICES ASSUME Queue'[i].kind = "CONNECT" PROVE Calls'[i + 2] = NextCall
        OBVIOUS
      <4>2. NextCall' = NextCall
        BY <3>1, <3>2, <4>1
      <4>3. CASE j + 2 \in 1..Len(s)
        <5>1. Under + (j + 2) = i + 2
          BY <3>7
        <5>2. Calls'[Under + (j + 2)] = NextCall
          BY <1>2, <4>3
        <5> QED
          BY <5>1, <5>2
      <4>4. CASE j + 2 \notin 1..Len(s)
        <5>1. j + 1 = Len(s)
          BY <3>2, <3>7, <4>4
        <5>2. i + 2 = Under' + 1
          BY <3>7, <5>1
        <5> QED
          BY <1>2, <4>2, <5>2
      <4> QED
        BY <4>3, <4>4
    <3> QED
      BY <3>3, <3>4, <3>5, <3>6 DEF CodeStands
  <2> QED
    BY <2>1, <2>2
<1>7. ASSUME NEW i \in 1..Under', Calls'[i] # Calls'[i + 1]
      PROVE  EndsCall(i)'
  <2>1. CASE i \in 1..Under
    <3>1. i \in 1..(Under + 1) /\ i + 1 \in 1..(Under + 1) /\ (i # 1 => i - 1 \in 1..Under)
      BY <1>1, <2>1
    <3>2. EndsCall(i)
      BY <1>2, <1>7, <2>1, <3>1 DEF Parted
    <3> QED
      BY <1>1, <2>1, <3>1, <3>2 DEF EndsCall
  <2>2. CASE i \notin 1..Under
    <3> DEFINE j == i - Under
    <3>1. j \in 1..Len(s) /\ Under + j = i /\ Queue'[i] = s[j]
      BY <1>3, <2>2
    <3> HIDE DEF j
    <3>2. Calls'[i] = NextCall
      BY <1>2, <3>1
    <3>3. j = Len(s)
      <4>1. SUFFICES ASSUME j # Len(s) PROVE FALSE
        OBVIOUS
      <4>0. j \in Nat /\ Under \in Nat /\ Len(s) \in Nat /\ i = Under + j
        BY <1>1, <3>1
      <4>2. j + 1 \in 1..Len(s)
        BY <3>1, <4>0, <4>1
      <4>4. Under + (j + 1) = i + 1
        BY <4>0
      <4>3. Calls'[i + 1] = NextCall
        BY <1>2, <4>2, <4>4
      <4> QED
        BY <1>7, <3>2, <4>3
    <3>4. i + 1 = Under' + 1 /\ NextCall' # NextCall
      BY <1>1, <1>2, <1>7, <3>1, <3>2, <3>3
    <3>5. /\ Len(s) > 1 /\ s[Len(s)].kind = "CR"
          /\ s[Len(s) - 1].kind = "NOCARRIER" /\ s[Len(s) - 1].n = 0
      BY <3>4 DEF WellSent
    <3>6. j - 1 \in 1..Len(s) /\ i - 1 = Under + (j - 1) /\ i # 1 /\ j - 1 = Len(s) - 1
      BY <1>1, <3>1, <3>3, <3>5
    <3>7. Queue'[i - 1] = s[Len(s) - 1]
      BY <1>1, <3>6
    <3> QED
      BY <3>1, <3>3, <3>5, <3>6, <3>7 DEF EndsCall
  <2> QED
    BY <2>1, <2>2
<1>8. Coded'
  <2>1. \A i \in 1..Under' : (IsCode(i))' => CodeStands(i)'
    BY <1>6 DEF IsCode
  <2> QED
    BY <2>1 DEF Coded
<1>9. Parted'
  BY <1>7 DEF Parted
<1> QED
  BY <1>2, <1>4, <1>8, <1>9

(* All that callers and the modem send is of that form.                       *)
LEMMA AllIsWellSent ==
  ASSUME LineTyped, TcpSer, "CONNECT" \notin Typed,
         Connect \/ Down \/ \E kind \in Typed : Type(kind)
  PROVE  \E s \in Seq(Tokens) :
           Sends(s) /\ FollowedBy(s) /\ WellSent(s)
<1>0. /\ live \in 0..MaxCalls /\ calls \in 0..MaxCalls /\ sent \in 0..MaxTyped
      /\ live \in {0, calls}
  BY TypeParts DEF LineTyped, OthersOK
<1>1. ASSUME NEW s, Sends(s), WellSent(s)
      PROVE  \E t \in Seq(Tokens) : Sends(t) /\ FollowedBy(t) /\ WellSent(t)
  <2>1. s \in Seq(Tokens) /\ FollowedBy(s)
    BY <1>1, QueueFollowed DEF Sends
  <2> QED
    BY <1>1, <2>1
<1>2. ASSUME NEW kind \in {"CONNECT", "NOCARRIER"}, NEW c \in 0..MaxCalls, c = NextCall,
             kind = "CONNECT" => NextCall' = NextCall,
             Sends(Result(kind, c))
      PROVE  WellSent(Result(kind, c))
  <2> DEFINE s == Result(kind, c)
  <2>1. /\ Len(s) = 3 /\ s[1] = Byte("CR", c, 0) /\ s[2] = Byte(kind, c, 0)
        /\ s[3] = Byte("CR", c, 0)
    <3>1. kind \in Kinds
      BY DEF Kinds
    <3> QED
      BY <3>1, ResultTyped
  <2> HIDE DEF s
  <2>2. \A j \in 1..Len(s) : j = 1 \/ j = 2 \/ j = 3
    BY <2>1
  <2>3. /\ s[1].kind = "CR" /\ s[1].call = c /\ s[2].kind = kind /\ s[2].call = c /\ s[2].n = 0
        /\ s[3].kind = "CR" /\ s[3].call = c
    BY <2>1 DEF Byte
  <2>4. \A j \in 1..Len(s) : s[j].kind # "CR" => j = 2
    BY <2>2, <2>3
  <2>5. 2 + 1 = 3 /\ 2 - 1 = 1 /\ 3 \in 1..Len(s) /\ Len(s) > 1 /\ Len(s) - 1 = 2 /\ Len(s) = 3 /\ 2 # 1
    BY <2>1
  <2>6. \A j \in 1..Len(s) : s[j].call = NextCall
    BY <1>2, <2>2, <2>3
  <2>7. \A j \in 1..Len(s) : s[j].n = 0 /\ s[j].kind # "CR" =>
         /\ j # 1 /\ j + 1 \in 1..Len(s) /\ s[j + 1].kind = "CR" /\ s[j - 1].kind = "CR"
         /\ s[j].kind = "CONNECT" => NextCall' = NextCall
    BY <1>2, <2>3, <2>4, <2>5
  <2>8. \A j \in 1..Len(s) : s[j].kind = "CONNECT" => s[j].n = 0
    BY <2>3, <2>4
  <2>9. NextCall' # NextCall =>
         /\ Len(s) > 1 /\ s[Len(s)].kind = "CR"
         /\ s[Len(s) - 1].kind = "NOCARRIER" /\ s[Len(s) - 1].n = 0
    BY <1>2, <2>3, <2>5
  <2>10. WellSent(s)
    BY <2>6, <2>7, <2>8, <2>9 DEF WellSent
  <2> QED
    BY <2>10 DEF s
<1>3. CASE Connect
  <2>1. live = 0 /\ live' = calls + 1 /\ calls' = calls + 1 /\ calls < MaxCalls
    BY <1>3 DEF Connect
  <2>2. NextCall = calls + 1 /\ NextCall' = calls + 1 /\ calls + 1 \in 0..MaxCalls
    BY <1>0, <2>1, LineSizes DEF NextCall
  <2>3. Sends(Result("CONNECT", calls + 1))
    BY <1>3, ConnectSends
  <2> QED
    BY <1>1, <1>2, <2>2, <2>3
<1>4. CASE Down
  <2>1. live # 0 /\ Sends(Result("NOCARRIER", live))
    BY <1>4, DownSends DEF Down
  <2>2. NextCall = live
    BY <2>1 DEF NextCall
  <2> QED
    BY <1>0, <1>1, <1>2, <2>1, <2>2
<1>5. ASSUME NEW kind \in Typed, Type(kind)
      PROVE  \E s \in Seq(Tokens) : Sends(s) /\ FollowedBy(s) /\ WellSent(s)
  <2> DEFINE s == <<Byte(kind, live, sent + 1)>>
  <2>1. Sends(s)
    BY <1>5, TypeSends
  <2>2. /\ Len(s) = 1 /\ s[1].kind = kind /\ s[1].call = live /\ s[1].n = sent + 1
    BY DEF Byte
  <2>3. live # 0 /\ UNCHANGED <<live, calls>>
    BY <1>5 DEF Type
  <2>4. NextCall' = NextCall /\ NextCall = live /\ sent + 1 # 0 /\ kind # "CONNECT"
    BY <1>0, <2>3 DEF NextCall
  <2> HIDE DEF s
  <2>5. \A j \in 1..Len(s) : j = 1
    BY <2>2
  <2>6. WellSent(s)
    BY <2>2, <2>4, <2>5 DEF WellSent
  <2> QED
    BY <1>1, <2>1, <2>6
<1> QED
  BY <1>3, <1>4, <1>5
(* Steps that leave the queue, the parser and the calls.                      *)
LEMMA StayingKeepsTcp ==
  ASSUME LineTyped, LineTyped', TcpInv, MovesUp(0),
         UNCHANGED <<line, atConn, wasActive, ghost, live, calls>>,
         state' = "connected" => state = "connected",
         out' # None => /\ out' = out /\ pc' \in {"drain", "out"}
                        /\ pc' = "drain" => state' = "connected"
  PROVE  TcpInv'
<1>1. /\ Under \in Nat /\ Under' = Under
      /\ \A i \in 1..Under' : Queue'[i] = Queue[i]
      /\ \A i \in 1..(Under' + 1) : Calls'[i] = Calls[i]
  <2>1. Under \in Nat /\ 0 \in Nat
    BY QueueTyped
  <2>2. \A i \in 1..(Under' + 1) : Calls'[i] = Calls[i + 0]
    BY <2>1, CallsMoveUp
  <2> QED
    BY <2>1, <2>2 DEF MovesUp
<1>2. Coded' /\ OnlyCodesConnect' /\ Parted'
  <2>1. 0 \in 0..Under /\ line' = line
    BY QueueTyped
  <2> QED
    BY <2>1, MovingKeepsStructure DEF TcpInv
<1>3. Opening'
  <2>1. SUFFICES ASSUME line' = "CONNECT"
                 PROVE  Under' # 0 /\ Queue'[1].kind = "CR" /\ Calls'[1] = Calls'[2]
    BY DEF Opening
  <2>2. line = "CONNECT"
    BY <2>1
  <2>3. Under # 0 /\ Queue[1].kind = "CR" /\ Calls[1] = Calls[2]
    BY <2>2 DEF TcpInv, Opening
  <2>4. 1 \in 1..Under' /\ 1 \in 1..(Under' + 1) /\ 2 \in 1..(Under' + 1)
    BY <1>1, <2>3
  <2> QED
    BY <1>1, <2>3, <2>4
<1>4. Served'
  <2>1. 1 \in 1..(Under' + 1)
    BY <1>1
  <2>2. serving' = serving /\ atConn' = atConn /\ Calls'[1] = Calls[1]
    BY <1>1, <2>1 DEF ghost
  <2> QED
    BY <2>2 DEF TcpInv, Served
<1>5. Handing'
  BY DEF TcpInv, Handing, ghost
<1> QED
  BY <1>2, <1>3, <1>4, <1>5 DEF TcpInv

(* A byte goes through process_inbound.                                       *)
LEMMA TakingKeepsTcp ==
  ASSUME LineTyped, LineTyped', TcpInv, TakeByte
  PROVE  TcpInv'
<1> DEFINE b == Queue[1]
<1>0. /\ MovesUp(1) /\ Under \in Nat \ {0} /\ buf[Slot(head)] = b /\ b \in Tokens
  BY QueueTaken
<1>1. /\ b.kind = "CR" => AtLineStart'
      /\ b.kind = "NOCARRIER" /\ AtLineStart => line' = "NOCARRIER"
      /\ line' = "CONNECT" => b.kind # "CR" /\ (line = "CONNECT" \/ (AtLineStart /\ b.kind = "CONNECT"))
      /\ state = "connected" \/ state' # "connected" => UNCHANGED ghost
      /\ state' = "connected" /\ state = "connected" =>
           ~(b.kind = "CR" /\ line = "NOCARRIER") /\ (atConn => atConn')
      /\ state' = "connected" /\ state # "connected" =>
           b.kind = "CR" /\ line = "CONNECT" /\ atConn' /\ serving' = b.call
      /\ out' = out \/ (out' = b /\ atConn /\ state' = "connected")
      /\ state # "connected" \/ out = None
      /\ pc = "drain" /\ UNCHANGED <<pc, wasActive, modem>>
  BY <1>0, TakesByte
<1>2. UNCHANGED <<live, calls>>
  BY <1>1 DEF modem
<1> HIDE DEF b
<1>3. /\ Under' \in Nat /\ Under' = Under - 1 /\ 1 \in 0..Under /\ 1 \in 1..Under
      /\ \A i \in 1..Under' : Queue'[i] = Queue[i + 1]
      /\ \A i \in 1..(Under' + 1) : Calls'[i] = Calls[i + 1]
  <2>1. (Under \in Nat)'
    BY QueueTypes, PTL
  <2>2. \A i \in 1..(Under' + 1) : Calls'[i] = Calls[i + 1]
    BY <1>0, <1>2, CallsMoveUp
  <2> QED
    BY <1>0, <2>1, <2>2 DEF MovesUp
<1>4. Calls'[1] = Calls[2] /\ Calls[1] = b.call
  <2>1. 1 \in 1..(Under' + 1) /\ 1 + 1 = 2 /\ 1 \in 1..(Under + 1) /\ 1 <= Under
    BY <1>0, <1>3
  <2> QED
    BY <1>3, <2>1 DEF Calls, b
<1>5. Coded' /\ OnlyCodesConnect' /\ Parted'
  <2>1. Coded /\ OnlyCodesConnect /\ Parted
    BY DEF TcpInv
  <2>2. /\ Queue[1].kind = "CR" => AtLineStart'
        /\ Queue[1].kind = "NOCARRIER" /\ AtLineStart => line' = "NOCARRIER"
    BY <1>1 DEF b
  <2> QED
    BY <1>0, <1>2, <1>3, <2>1, <2>2, MovingKeepsStructure
<1>6. Opening'
  <2>1. SUFFICES ASSUME line' = "CONNECT"
                 PROVE  Under' # 0 /\ Queue'[1].kind = "CR" /\ Calls'[1] = Calls'[2]
    BY DEF Opening
  <2>2. b.kind # "CR" /\ (line = "CONNECT" \/ (AtLineStart /\ b.kind = "CONNECT"))
    BY <1>1, <2>1
  <2>3. line # "CONNECT"
    BY <2>2 DEF TcpInv, Opening, b
  <2>4. b.kind = "CONNECT" /\ b.n = 0
    BY <1>3, <2>2, <2>3 DEF TcpInv, OnlyCodesConnect, b
  <2>5. CodeStands(1)
    BY <1>3, <2>2, <2>4 DEF TcpInv, Coded, IsCode, b
  <2>6. /\ 2 \in 1..Under /\ Queue[2].kind = "CR" /\ Calls[2] = Calls[3]
    BY <2>4, <2>5 DEF CodeStands, b
  <2>7. /\ 1 \in 1..Under' /\ 1 \in 1..(Under' + 1) /\ 2 \in 1..(Under' + 1)
        /\ 1 + 1 = 2 /\ 2 + 1 = 3 /\ Under' # 0
    BY <1>0, <1>3, <2>6
  <2> QED
    BY <1>3, <2>6, <2>7
<1>7. Served'
  <2>1. SUFFICES ASSUME state' = "connected"
                 PROVE  atConn' /\ Calls'[1] = serving'
    BY DEF Served
  <2>2. CASE state = "connected"
    <3>1. atConn /\ Calls[1] = serving /\ serving' = serving /\ atConn'
      BY <1>1, <2>1, <2>2 DEF TcpInv, Served, ghost
    <3>2. Calls[1] = Calls[2]
      <4>1. SUFFICES ASSUME Calls[1] # Calls[2] PROVE FALSE
        OBVIOUS
      <4>2. EndsCall(1)
        BY <1>3, <4>1 DEF TcpInv, Parted
      <4>3. Queue[1].kind = "CR" /\ line = "NOCARRIER"
        BY <2>2, <4>2 DEF EndsCall
      <4> QED
        BY <1>1, <2>1, <2>2, <4>3 DEF b
    <3> QED
      BY <1>4, <3>1, <3>2
  <2>3. CASE state # "connected"
    <3>1. line = "CONNECT" /\ atConn' /\ serving' = b.call
      BY <1>1, <2>1, <2>3
    <3>2. Calls[1] = Calls[2]
      BY <3>1 DEF TcpInv, Opening
    <3> QED
      BY <1>4, <3>1, <3>2
  <2> QED
    BY <2>2, <2>3
<1>8. Handing'
  <2>1. SUFFICES ASSUME out' # None
                 PROVE  /\ out'.call = serving' /\ pc' \in {"drain", "out"}
                        /\ pc' = "drain" => state' = "connected"
    BY DEF Handing
  <2>2. out = None
    BY <1>1 DEF TcpInv, Handing
  <2>3. out' = b /\ atConn /\ state' = "connected"
    BY <1>1, <2>1, <2>2
  <2>4. out'.call = serving'
    BY <1>1, <1>4, <2>3 DEF TcpInv, Served, ghost
  <2> QED
    BY <1>1, <2>3, <2>4
<1>9. ~wasActive'
  BY <1>1 DEF TcpInv
<1> QED
  BY <1>5, <1>6, <1>7, <1>8, <1>9 DEF TcpInv

(* The line is hung up: what waits in the ring is gone.                       *)
LEMMA HangingUpKeepsTcp ==
  ASSUME LineTyped, LineTyped', TcpInv, HangUp
  PROVE  TcpInv'
<1>1. /\ head' = tail /\ UNCHANGED <<tail, buf, reg, wire, live, calls, out>>
      /\ state' = "dropping" /\ AtLineStart' /\ ~wasActive' /\ pc = "hang"
  BY Zenon DEF HangUp, modem, AtLineStart
<1>2. MovesUp(InRing) /\ InRing \in 0..Under
  <2>1. InRing \in Nat /\ InReg \in {0, 1} /\ Len(wire) \in Nat
    BY QueueTyped, LineSizes
  <2>2. InRing \in 0..Under
    BY <2>1 DEF Under
  <2> QED
    BY <1>1, <2>2, QueueFlushed
<1>3. Coded' /\ OnlyCodesConnect' /\ Parted'
  <2>1. state' # "connected" /\ UNCHANGED <<live, calls>> /\ Coded /\ OnlyCodesConnect /\ Parted
    BY <1>1 DEF TcpInv
  <2> QED
    BY <1>1, <1>2, <2>1, MovingKeepsStructure
<1>4. line' # "CONNECT"
  BY <1>1, Zenon DEF AtLineStart
<1>5. out' = None
  BY <1>1 DEF TcpInv, Handing
<1>6. Opening' /\ Served' /\ Handing'
  BY <1>1, <1>4, <1>5 DEF Opening, Served, Handing
<1> QED
  BY <1>1, <1>3, <1>6 DEF TcpInv

(* A caller comes, types or leaves.                                           *)
LEMMA SendingKeepsTcp ==
  ASSUME LineTyped, LineTyped', TcpInv, TcpSer, "CONNECT" \notin Typed,
         Connect \/ Down \/ \E kind \in Typed : Type(kind)
  PROVE  TcpInv'
<1>1. PICK s \in Seq(Tokens) : Sends(s) /\ FollowedBy(s) /\ WellSent(s)
  BY AllIsWellSent
<1>2. UNCHANGED <<driver, call, ghost>>
  BY DEF Connect, Down, Type
<1>3. UNCHANGED <<line, state, atConn, wasActive, pc, out, serving>>
  BY <1>2 DEF driver, call, ghost
<1>4. /\ Coded' /\ OnlyCodesConnect' /\ Parted'
      /\ \A i \in 1..(Under + 1) : Calls'[i] = Calls[i]
  BY <1>1, <1>3, FollowingKeepsStructure DEF TcpInv
<1>5. /\ Under \in Nat /\ Under' \in Nat /\ Under' >= Under
      /\ \A i \in 1..Under : Queue'[i] = Queue[i]
  <2>1. Under \in Nat /\ Len(s) \in Nat
    BY QueueTyped
  <2> QED
    BY <1>1, <2>1 DEF FollowedBy
<1>6. Opening'
  <2>1. SUFFICES ASSUME line' = "CONNECT"
                 PROVE  Under' # 0 /\ Queue'[1].kind = "CR" /\ Calls'[1] = Calls'[2]
    BY DEF Opening
  <2>2. line = "CONNECT"
    BY <1>3, <2>1
  <2>3. Under # 0 /\ Queue[1].kind = "CR" /\ Calls[1] = Calls[2]
    BY <2>2 DEF TcpInv, Opening
  <2>4. 1 \in 1..Under /\ 1 \in 1..(Under + 1) /\ 2 \in 1..(Under + 1)
    BY <1>5, <2>3
  <2> QED
    BY <1>4, <1>5, <2>3, <2>4
<1>7. Served'
  <2>1. 1 \in 1..(Under + 1)
    BY <1>5
  <2> QED
    BY <1>3, <1>4, <2>1 DEF TcpInv, Served
<1>8. Handing' /\ ~wasActive'
  BY <1>3 DEF TcpInv, Handing
<1> QED
  BY <1>4, <1>6, <1>7, <1>8 DEF TcpInv

(* The interrupt moves a byte on, and the driver does everything else.        *)
LEMMA TcpStep ==
  ASSUME LineTyped, LineTyped', TcpInv, TcpSer, "CONNECT" \notin Typed,
         "overflow" \notin Faults, "overrun" \notin Faults, [Next]_vars
  PROVE  TcpInv'
<1>1. CASE \/ \E w \in {0, 1} : Rx(w)
           \/ Carrier \/ Track \/ Release \/ Answer \/ RxReturn \/ Disconnect
           \/ UNCHANGED vars
  <2>1. MovesUp(0) /\ UNCHANGED <<live, calls>>
    BY <1>1, DriverLeaves
  <2>2. ~wasActive /\ AtMode
    BY DEF TcpInv, TcpSer, AtMode
  <2>3. UNCHANGED <<line, atConn, ghost>>
    BY <1>1, <2>2 DEF Rx, Carrier, Track, Release, Answer, RxReturn, Disconnect, vars, driver
  <2>4. wasActive' = wasActive
    <3>1. CASE Track
      <4>1. wasActive \in BOOLEAN
        BY TypeParts DEF LineTyped, OthersOK
      <4>2. wasActive = FALSE
        BY <2>2, <4>1
      <4>3. wasActive' = (wasActive \/ (~AtMode /\ state = "connected" /\ dsr))
        BY <3>1 DEF Track
      <4>4. wasActive' = FALSE
        BY <2>2, <4>3, Zenon
      <4> QED
        BY <4>2, <4>4
    <3>2. CASE ~Track
      BY <1>1, <2>2, <3>2 DEF Rx, Carrier, Release, Answer, RxReturn, Disconnect, vars, driver
    <3> QED
      BY <3>1, <3>2
  <2>5. state' = "connected" => state = "connected"
    BY <1>1, <2>2 DEF Rx, Carrier, Track, Release, Answer, RxReturn, Disconnect, vars, driver
  <2>6. out' # None => /\ out' = out /\ pc' \in {"drain", "out"}
                       /\ pc' = "drain" => state' = "connected"
    <3>1. SUFFICES ASSUME out' # None
                   PROVE  /\ out' = out /\ pc' \in {"drain", "out"}
                          /\ pc' = "drain" => state' = "connected"
      OBVIOUS
    <3>2. out' = out
      BY <1>1, <3>1 DEF Rx, Carrier, Track, Release, Answer, RxReturn, Disconnect, vars, call
    <3>3. pc \in {"drain", "out"} /\ (pc = "drain" => state = "connected")
      BY <3>1, <3>2 DEF TcpInv, Handing
    <3>4. RxReturn \/ UNCHANGED vars
      BY <1>1, <3>1, <3>3 DEF Rx, Carrier, Track, Release, Answer, Disconnect
    <3>5. pc' = "out" \/ (pc' = pc /\ state' = state)
      BY <3>4 DEF RxReturn, vars, call, driver
    <3> QED
      BY <3>2, <3>3, <3>5
  <2> QED
    BY <2>1, <2>3, <2>4, <2>5, <2>6, StayingKeepsTcp
<1>2. CASE Arrive \/ Isr
  <2>1. MovesUp(0)
    BY <1>2, QueueArrives, QueueFills
  <2>2. UNCHANGED <<driver, call, ghost, live, calls>>
    BY <1>2 DEF Arrive, Isr, modem
  <2>3. UNCHANGED <<line, atConn, wasActive, state, pc, out>>
    BY <2>2 DEF driver, call
  <2>4. out' # None => /\ out' = out /\ pc' \in {"drain", "out"}
                       /\ pc' = "drain" => state' = "connected"
    BY <2>3 DEF TcpInv, Handing
  <2> QED
    BY <2>1, <2>2, <2>3, <2>4, StayingKeepsTcp
<1>3. CASE Connect \/ Down \/ \E kind \in Typed : Type(kind)
  BY <1>3, SendingKeepsTcp
<1>4. CASE TakeByte
  BY <1>4, TakingKeepsTcp
<1>5. CASE HangUp
  BY <1>5, HangingUpKeepsTcp
<1> QED
  BY <1>1, <1>2, <1>3, <1>4, <1>5
     DEF Next, InsideDriver, Outside, CallerLeaves, ModemHangsUp

(* With result codes, and while no byte is lost and no caller types the text  *)
(* of CONNECT, what the driver hands out is of the caller it connected to     *)
(* last: nothing of an earlier call passes for the next caller's input.       *)
THEOREM PayloadIsTheCallers ==
  ASSUME "overflow" \notin Faults, "overrun" \notin Faults, "CONNECT" \notin Typed
  PROVE  Spec => []PayloadIsOfServedCall
<1> DEFINE I == LineTyped /\ (TcpSer => TcpInv)
<1>1. Init => I
  <2> SUFFICES ASSUME Init PROVE I
    OBVIOUS
  <2>1. LineTyped /\ Under = 0
    BY LineInit
  <2>2. /\ state = "idle" /\ line # "CONNECT" /\ out = None /\ ~wasActive
    BY Zenon DEF Init
  <2>3. Coded /\ OnlyCodesConnect /\ Parted
    BY <2>1 DEF Coded, OnlyCodesConnect, Parted
  <2>4. Opening /\ Served /\ Handing
    BY <2>2 DEF Opening, Served, Handing
  <2> QED
    BY <2>1, <2>2, <2>3, <2>4 DEF TcpInv
<1>2. I /\ [Next /\ UNCHANGED Modem]_<<vars, Modem>> => I'
  <2> SUFFICES ASSUME I, [Next /\ UNCHANGED Modem]_<<vars, Modem>>
               PROVE  I'
    OBVIOUS
  <2>1. [Next]_vars /\ UNCHANGED Modem
    OBVIOUS
  <2>2. LineTyped'
    BY <2>1, LineTypedStep
  <2>3. TcpSer' => TcpSer
    BY <2>1 DEF TcpSer
  <2> QED
    BY <2>1, <2>2, <2>3, TcpStep
<1>3. I => PayloadIsOfServedCall
  BY DEF TcpInv, Handing, PayloadIsOfServedCall
<1> QED
  BY <1>1, <1>2, <1>3, PTL DEF Spec

-----------------------------------------------------------------------------
(* A caller is connected once.                                                *)

(* With result codes a CONNECT under way is of a caller who has not been      *)
(* connected, and of no two the same.                                         *)
Connects(i) == Queue[i].kind = "CONNECT"
Unused ==
  /\ answered \subseteq 0..calls
  /\ \A i \in 1..Under : Queue[i].call \in 0..calls
  /\ \A i \in 1..Under : Connects(i) => Queue[i].call \notin answered
  /\ \A i, j \in 1..Under : Connects(i) /\ Connects(j) /\ Queue[i].call = Queue[j].call => i = j

(* Nor is the one whose CONNECT has been read.                                *)
Opened ==
  line = "CONNECT" => /\ Calls[1] \notin answered
                      /\ \A i \in 1..Under : Connects(i) => Queue[i].call # Calls[1]

(* The queue that lost tokens has no other ones.                              *)
LEMMA ThinsKeepsUnused ==
  ASSUME LineTyped, LineTyped', Unused, Thins, UNCHANGED <<answered, calls>>
  PROVE  Unused'
<1>1. PICK f \in [1..Under' -> 1..Under] :
           /\ \A i, j \in 1..Under' : i < j => f[i] < f[j]
           /\ \A i \in 1..Under' : Queue'[i] = Queue[f[i]]
  BY DEF Thins
<1>2. /\ Under \in Nat /\ Under' \in Nat
      /\ \A i \in 1..Under' : f[i] \in 1..Under /\ (Connects(i)' <=> Connects(f[i]))
  <2>1. (Under \in Nat)' /\ Under \in Nat
    BY QueueTypes, PTL
  <2> QED
    BY <1>1, <2>1 DEF Connects
<1>3. \A i, j \in 1..Under' : f[i] = f[j] => i = j
  <2>1. SUFFICES ASSUME NEW i \in 1..Under', NEW j \in 1..Under', i # j
                 PROVE  f[i] # f[j]
    OBVIOUS
  <2>2. i < j \/ j < i
    BY <1>2, <2>1
  <2>3. f[i] < f[j] \/ f[j] < f[i]
    BY <1>1, <2>2
  <2>4. f[i] \in Int /\ f[j] \in Int
    BY <1>2
  <2> QED
    BY <2>3, <2>4
<1>4. answered' \subseteq 0..calls' /\ \A i \in 1..Under' : Queue'[i].call \in 0..calls'
  BY <1>1, <1>2 DEF Unused
<1>5. \A i \in 1..Under' : Connects(i)' => Queue'[i].call \notin answered'
  BY <1>1, <1>2 DEF Unused
<1>6. \A i, j \in 1..Under' :
        Connects(i)' /\ Connects(j)' /\ Queue'[i].call = Queue'[j].call => i = j
  <2>1. SUFFICES ASSUME NEW i \in 1..Under', NEW j \in 1..Under', Connects(i)', Connects(j)',
                        Queue'[i].call = Queue'[j].call
                 PROVE  f[i] = f[j]
    BY <1>3
  <2>2. /\ f[i] \in 1..Under /\ f[j] \in 1..Under /\ Connects(f[i]) /\ Connects(f[j])
        /\ Queue[f[i]].call = Queue[f[j]].call
    BY <1>1, <1>2, <2>1
  <2> QED
    BY <2>2 DEF Unused
<1> QED
  BY <1>4, <1>5, <1>6 DEF Unused

(* The driver connects to the caller whose CONNECT it has read, who is none   *)
(* of those it has connected to.                                              *)
LEMMA TakingAnswersOnce ==
  ASSUME LineTyped, LineTyped', TcpInv, Unused, Opened, TakeByte
  PROVE  /\ Unused' /\ Opened'
         /\ state # "connected" /\ state' = "connected" => serving' \notin answered
<1> DEFINE b == Queue[1]
<1>0. /\ MovesUp(1) /\ Under \in Nat \ {0} /\ buf[Slot(head)] = b /\ b \in Tokens
  BY QueueTaken
<1>1. /\ line' = "CONNECT" => b.kind # "CR" /\ (line = "CONNECT" \/ (AtLineStart /\ b.kind = "CONNECT"))
      /\ state = "connected" \/ state' # "connected" => UNCHANGED ghost
      /\ state' = "connected" /\ state # "connected" =>
           b.kind = "CR" /\ line = "CONNECT" /\ serving' = b.call /\ answered' = answered \cup {b.call}
      /\ UNCHANGED modem
  BY <1>0, TakesByte
<1>2. UNCHANGED <<live, calls>>
  BY <1>1 DEF modem
<1> HIDE DEF b
<1>3. /\ Under' \in Nat /\ Under' = Under - 1 /\ 1 \in 1..Under
      /\ \A i \in 1..Under' : i + 1 \in 1..Under /\ i + 1 # 1 /\ Queue'[i] = Queue[i + 1]
      /\ \A i \in 1..Under' : Connects(i)' => Connects(i + 1)
  <2>1. (Under \in Nat)'
    BY QueueTypes, PTL
  <2>2. \A i \in 1..Under' : Queue'[i] = Queue[i + 1]
    BY <1>0 DEF MovesUp
  <2>3. Under' = Under - 1 /\ 1 \in 1..Under
    BY <1>0 DEF MovesUp
  <2>4. \A i \in 1..Under' : i + 1 \in 1..Under /\ i + 1 # 1
    BY <1>0, <2>1, <2>3
  <2> QED
    BY <2>1, <2>2, <2>3, <2>4 DEF Connects
<1>4. Calls[1] = b.call /\ Calls'[1] = Calls[2]
  <2>1. \A i \in 1..(Under' + 1) : Calls'[i] = Calls[i + 1]
    BY <1>0, <1>2, CallsMoveUp
  <2>2. 1 \in 1..(Under' + 1) /\ 1 + 1 = 2 /\ 1 \in 1..(Under + 1) /\ 1 <= Under
    BY <1>0, <1>3
  <2> QED
    BY <2>1, <2>2 DEF Calls, b
<1>5. CASE state' = "connected" /\ state # "connected"
  <2>1. /\ line = "CONNECT" /\ line' # "CONNECT" /\ serving' = b.call
        /\ answered' = answered \cup {b.call}
    BY <1>1, <1>5
  <2>2. b.call \notin answered /\ \A i \in 1..Under : Connects(i) => Queue[i].call # b.call
    BY <1>4, <2>1 DEF Opened
  <2>3. b.call \in 0..calls
    BY <1>3 DEF Unused, b
  <2>4. answered' \subseteq 0..calls' /\ \A i \in 1..Under' : Queue'[i].call \in 0..calls'
    BY <1>2, <1>3, <2>1, <2>3 DEF Unused
  <2>5. \A i \in 1..Under' : Connects(i)' => Queue'[i].call \notin answered'
    BY <1>3, <2>1, <2>2 DEF Unused
  <2>6. \A i, j \in 1..Under' :
          Connects(i)' /\ Connects(j)' /\ Queue'[i].call = Queue'[j].call => i = j
    <3>1. SUFFICES ASSUME NEW i \in 1..Under', NEW j \in 1..Under', Connects(i)', Connects(j)',
                          Queue'[i].call = Queue'[j].call
                   PROVE  i + 1 = j + 1
      BY <1>3
    <3>2. /\ i + 1 \in 1..Under /\ j + 1 \in 1..Under /\ Connects(i + 1) /\ Connects(j + 1)
          /\ Queue[i + 1].call = Queue[j + 1].call
      BY <1>3, <3>1
    <3> QED
      BY <3>2 DEF Unused
  <2>7. Unused'
    BY <2>4, <2>5, <2>6 DEF Unused
  <2>8. Opened'
    BY <2>1 DEF Opened
  <2> QED
    BY <2>1, <2>2, <2>7, <2>8
<1>6. CASE ~(state' = "connected" /\ state # "connected")
  <2>1. UNCHANGED <<answered, calls>>
    BY <1>1, <1>2, <1>6 DEF ghost
  <2>2. Unused'
    <3>1. Thins
      <4>1. 1 \in Nat
        OBVIOUS
      <4> QED
        BY <1>0, <4>1, QueueThins
    <3> QED
      BY <2>1, <3>1, ThinsKeepsUnused
  <2>3. Opened'
    <3>1. SUFFICES ASSUME line' = "CONNECT"
                   PROVE  /\ Calls'[1] \notin answered'
                          /\ \A i \in 1..Under' : Connects(i)' => Queue'[i].call # Calls'[1]
      BY DEF Opened
    <3>2. b.kind # "CR" /\ (line = "CONNECT" \/ (AtLineStart /\ b.kind = "CONNECT"))
      BY <1>1, <3>1
    <3>3. b.kind = "CONNECT"
      BY <3>2 DEF TcpInv, Opening, b
    <3>4. b.n = 0
      BY <1>3, <3>3 DEF TcpInv, OnlyCodesConnect, b
    <3>5. CodeStands(1)
      BY <1>3, <3>2, <3>4 DEF TcpInv, Coded, IsCode, b
    <3>6. Calls'[1] = b.call
      BY <1>4, <3>3, <3>5 DEF CodeStands, b
    <3>7. Connects(1) /\ b.call \notin answered
      BY <1>3, <3>3 DEF Connects, Unused, b
    <3>8. ASSUME NEW i \in 1..Under', Connects(i)'
          PROVE  Queue'[i].call # b.call
      <4>1. i + 1 \in 1..Under /\ i + 1 # 1 /\ Connects(i + 1) /\ Queue'[i] = Queue[i + 1]
        BY <1>3, <3>8
      <4> QED
        BY <1>3, <3>7, <4>1 DEF Unused, b
    <3> QED
      BY <2>1, <3>6, <3>7, <3>8
  <2> QED
    BY <1>6, <2>2, <2>3
<1> QED
  BY <1>5, <1>6

(* What a message adds is of a caller known, and its CONNECT of a new one.    *)
LEMMA SendingKeepsUnused ==
  ASSUME LineTyped, Opening, Unused, Opened,
         NEW s \in Seq(Tokens), FollowedBy(s), UNCHANGED <<answered, line>>,
         calls' \in {calls, calls + 1},
         \A j \in 1..Len(s) : s[j].call \in 0..calls',
         \A j \in 1..Len(s) : s[j].kind = "CONNECT" => j = 2 /\ s[j].call = calls + 1
  PROVE  Unused' /\ Opened'
<1>1. /\ Under \in Nat /\ Len(s) \in Nat /\ Under' = Under + Len(s)
      /\ \A i \in 1..Under : Queue'[i] = Queue[i]
      /\ \A j \in 1..Len(s) : Queue'[Under + j] = s[j]
      /\ calls \in Nat
  <2>1. OthersOK /\ MaxCalls \in Nat
    BY TypeParts, LineSizes DEF LineTyped
  <2> QED
    BY <2>1, QueueTyped DEF FollowedBy, OthersOK
<1>2. ASSUME NEW i \in 1..Under', i \notin 1..Under
      PROVE  \E j \in 1..Len(s) : i = Under + j /\ Queue'[i] = s[j]
  <2>1. i - Under \in 1..Len(s) /\ i = Under + (i - Under)
    BY <1>1, <1>2
  <2> QED
    BY <1>1, <2>1
<1>3. ASSUME NEW i \in 1..Under'
      PROVE  /\ Queue'[i].call \in 0..calls'
             /\ Connects(i)' => \/ i \in 1..Under /\ Connects(i) /\ Queue'[i] = Queue[i]
                                \/ i = Under + 2 /\ Queue'[i].call = calls + 1
  <2>1. CASE i \in 1..Under
    <3>1. Queue[i].call \in 0..calls /\ Queue'[i] = Queue[i]
      BY <1>1, <2>1 DEF Unused
    <3> QED
      BY <1>1, <2>1, <3>1 DEF Connects
  <2>2. CASE i \notin 1..Under
    BY <1>2, <2>2 DEF Connects
  <2> QED
    BY <2>1, <2>2
<1>4. \A i \in 1..Under : Queue[i].call # calls + 1
  BY <1>1 DEF Unused
<1>5. calls + 1 \notin answered
  BY <1>1 DEF Unused
<1>6. Unused'
  <2>1. answered' \subseteq 0..calls'
    BY <1>1 DEF Unused
  <2>2. \A i \in 1..Under' : Connects(i)' => Queue'[i].call \notin answered'
    BY <1>3, <1>5 DEF Unused
  <2>3. \A i, j \in 1..Under' :
          Connects(i)' /\ Connects(j)' /\ Queue'[i].call = Queue'[j].call => i = j
    BY <1>3, <1>4 DEF Unused
  <2> QED
    BY <1>3, <2>1, <2>2, <2>3 DEF Unused
<1>7. Opened'
  <2>1. SUFFICES ASSUME line' = "CONNECT"
                 PROVE  /\ Calls'[1] \notin answered'
                        /\ \A i \in 1..Under' : Connects(i)' => Queue'[i].call # Calls'[1]
    BY DEF Opened
  <2>2. line = "CONNECT"
    BY <2>1
  <2>3. Under # 0
    BY <2>2 DEF Opening
  <2>4. 1 \in 1..Under /\ 1 \in 1..Under' /\ 1 \in 1..(Under + 1) /\ 1 \in 1..(Under' + 1)
        /\ 1 <= Under /\ 1 <= Under'
    BY <1>1, <2>3
  <2>5. Calls[1] = Queue[1].call /\ Calls'[1] = Queue[1].call
    BY <1>1, <2>4 DEF Calls
  <2>6. Calls[1] \notin answered /\ \A i \in 1..Under : Connects(i) => Queue[i].call # Calls[1]
    BY <2>2 DEF Opened
  <2> QED
    BY <1>3, <1>4, <2>4, <2>5, <2>6
<1> QED
  BY <1>6, <1>7

(* With result codes every step connects to a new caller.                     *)
LEMMA TcpAnswersOnce ==
  ASSUME LineTyped, LineTyped', TcpInv, Unused, Opened, TcpSer, "CONNECT" \notin Typed,
         "overflow" \notin Faults, "overrun" \notin Faults, [Next]_vars
  PROVE  /\ Unused' /\ Opened'
         /\ state # "connected" /\ state' = "connected" => serving' \notin answered
<1>0. /\ live \in 0..MaxCalls /\ calls \in 0..MaxCalls /\ sent \in 0..MaxTyped
      /\ live \in {0, calls}
  BY TypeParts DEF LineTyped, OthersOK
<1>1. ASSUME \/ \E w \in {0, 1} : Rx(w)
             \/ Carrier \/ Track \/ Release \/ Answer \/ RxReturn \/ Disconnect
             \/ Arrive \/ Isr \/ UNCHANGED vars
      PROVE  Unused' /\ Opened' /\ (state' = "connected" => state = "connected")
  <2>1. MovesUp(0) /\ Thins
    BY <1>1, DriverLeaves, QueueArrives, QueueFills, QueueOnlyThins
  <2>2. AtMode
    BY DEF TcpSer, AtMode
  <2>3. UNCHANGED <<live, calls>>
    BY <1>1, DriverLeaves DEF Arrive, Isr, modem
  <2>4. UNCHANGED answered
    BY <1>1, <2>2 DEF Rx, Carrier, Track, Release, Answer, RxReturn, Disconnect, Arrive, Isr,
       vars, ghost
  <2>5. line' = line \/ AtLineStart'
    BY <1>1, Zenon DEF Rx, Carrier, Track, Release, Answer, RxReturn, Disconnect, Arrive, Isr,
       vars, driver, AtLineStart
  <2>6. state' = "connected" => state = "connected"
    BY <1>1, <2>2 DEF Rx, Carrier, Track, Release, Answer, RxReturn, Disconnect, Arrive, Isr,
       vars, driver
  <2>7. Unused'
    BY <2>1, <2>3, <2>4, ThinsKeepsUnused
  <2>8. Opened'
    <3>1. SUFFICES ASSUME line' = "CONNECT"
                   PROVE  /\ Calls'[1] \notin answered'
                          /\ \A i \in 1..Under' : Connects(i)' => Queue'[i].call # Calls'[1]
      BY DEF Opened
    <3>2. ~AtLineStart'
      BY <3>1, Zenon DEF AtLineStart
    <3>3. line = "CONNECT"
      BY <2>5, <3>1, <3>2
    <3>4. /\ Under \in Nat /\ Under' = Under
          /\ \A i \in 1..Under' : Queue'[i] = Queue[i]
          /\ Calls'[1] = Calls[1]
      <4>1. Under \in Nat /\ 0 \in Nat
        BY QueueTyped
      <4>2. \A i \in 1..(Under' + 1) : Calls'[i] = Calls[i + 0]
        BY <2>1, <2>3, <4>1, CallsMoveUp
      <4> QED
        BY <2>1, <4>1, <4>2 DEF MovesUp
    <3>5. \A i \in 1..Under' : Connects(i)' => Connects(i)
      BY <3>4 DEF Connects
    <3> QED
      BY <2>4, <3>3, <3>4, <3>5 DEF Opened
  <2> QED
    BY <2>6, <2>7, <2>8
<1>2. CASE TakeByte
  BY <1>2, TakingAnswersOnce
<1>3. CASE HangUp
  <2>1. UNCHANGED <<answered, calls>> /\ state' = "dropping" /\ AtLineStart'
    BY <1>3, Zenon DEF HangUp, ghost, modem, AtLineStart
  <2>2. line' # "CONNECT"
    BY <2>1, Zenon DEF AtLineStart
  <2>3. Unused'
    BY <1>3, <2>1, QueueOnlyThins, ThinsKeepsUnused
  <2> QED
    BY <2>1, <2>2, <2>3 DEF Opened
<1>4. ASSUME NEW s, Sends(s), UNCHANGED <<driver, ghost>>, calls' \in {calls, calls + 1},
             \A j \in 1..Len(s) : s[j].call \in 0..calls',
             \A j \in 1..Len(s) : s[j].kind = "CONNECT" => j = 2 /\ s[j].call = calls + 1
      PROVE  Unused' /\ Opened' /\ state' = state
  <2>1. UNCHANGED <<answered, line, state>>
    BY <1>4 DEF driver, ghost
  <2>2. s \in Seq(Tokens) /\ FollowedBy(s)
    BY <1>4, QueueFollowed DEF Sends
  <2> QED
    BY <1>4, <2>1, <2>2, SendingKeepsUnused DEF TcpInv
<1>5. ASSUME NEW kind \in Kinds, NEW c \in 0..MaxCalls, c <= calls', kind = "CONNECT" => c = calls + 1
      PROVE  \A j \in 1..Len(Result(kind, c)) :
               /\ Result(kind, c)[j].call \in 0..calls'
               /\ Result(kind, c)[j].kind = "CONNECT" => j = 2 /\ Result(kind, c)[j].call = calls + 1
  <2> DEFINE s == Result(kind, c)
  <2>1. /\ Len(s) = 3 /\ s[1] = Byte("CR", c, 0) /\ s[2] = Byte(kind, c, 0)
        /\ s[3] = Byte("CR", c, 0)
    BY ResultTyped
  <2> HIDE DEF s
  <2>2. \A j \in 1..Len(s) : j = 1 \/ j = 2 \/ j = 3
    BY <2>1
  <2>3. c \in 0..calls'
    <3>1. OthersOK'
      BY Zenon DEF LineTyped, TypeOK, OthersOK
    <3>2. calls' \in Nat /\ c \in Nat
      BY <3>1, LineSizes DEF OthersOK
    <3> QED
      BY <1>5, <3>2
  <2>4. /\ s[1].kind = "CR" /\ s[1].call = c /\ s[2].kind = kind /\ s[2].call = c
        /\ s[3].kind = "CR" /\ s[3].call = c
    BY <2>1 DEF Byte
  <2>5. \A j \in 1..Len(s) :
               /\ s[j].call \in 0..calls'
               /\ s[j].kind = "CONNECT" => j = 2 /\ s[j].call = calls + 1
    BY <1>5, <2>2, <2>3, <2>4
  <2> QED
    BY <2>5 DEF s
<1>6. CASE Connect
  <2>1. /\ Sends(Result("CONNECT", calls + 1)) /\ "CONNECT" \in Kinds
        /\ UNCHANGED <<driver, ghost>> /\ calls' = calls + 1 /\ calls < MaxCalls
    BY <1>6, ConnectSends DEF Connect, Kinds
  <2>2. calls + 1 \in 0..MaxCalls /\ calls + 1 <= calls'
    BY <1>0, <2>1, LineSizes
  <2> QED
    BY <1>4, <1>5, <2>1, <2>2
<1>7. CASE Down
  <2>1. /\ Sends(Result("NOCARRIER", live)) /\ "NOCARRIER" \in Kinds
        /\ UNCHANGED <<driver, ghost>> /\ calls' = calls
    BY <1>7, DownSends DEF Down, Kinds
  <2>2. live <= calls'
    BY <1>0, <2>1, LineSizes
  <2> QED
    BY <1>0, <1>4, <1>5, <2>1, <2>2
<1>8. ASSUME NEW kind \in Typed, Type(kind)
      PROVE  Unused' /\ Opened' /\ state' = state
  <2> DEFINE s == <<Byte(kind, live, sent + 1)>>
  <2>1. Sends(s)
    BY <1>8, TypeSends
  <2>2. Len(s) = 1 /\ s[1].kind = kind /\ s[1].call = live
    BY DEF Byte
  <2>3. UNCHANGED <<driver, ghost>> /\ calls' = calls /\ kind # "CONNECT"
    BY <1>8 DEF Type
  <2>4. live \in 0..calls'
    BY <1>0, <2>3, LineSizes
  <2> HIDE DEF s
  <2>5. \A j \in 1..Len(s) : j = 1
    BY <2>2
  <2> QED
    BY <1>4, <2>1, <2>2, <2>3, <2>4, <2>5
<1> QED
  BY <1>1, <1>2, <1>3, <1>4, <1>6, <1>7, <1>8
     DEF Next, InsideDriver, Outside, CallerLeaves, ModemHangsUp

(* With the DSR line no result code ever comes, the line is up while there is *)
(* a caller on it, and a caller who was connected is remembered while he is   *)
(* still on the line, unless the modem is hanging up on him.                  *)
NoCodes == line # "CONNECT" /\ \A i \in 1..Under : ~Connects(i)
CarriesCall ==
  /\ dsr <=> live # 0
  /\ answered \subseteq 0..calls
  /\ live # 0 /\ live \in answered =>
       hang \/ (state # "idle" /\ wasActive /\ pc # "hang")

(* What is sent stands behind what was there.                                 *)
LEMMA SentFollows ==
  ASSUME LineTyped, NEW s, Sends(s)
  PROVE  /\ Under \in Nat /\ Len(s) \in Nat /\ Under' = Under + Len(s)
         /\ \A i \in 1..Under : Queue'[i] = Queue[i]
         /\ \A j \in 1..Len(s) : Queue'[Under + j] = s[j]
<1>1. s \in Seq(Tokens) /\ wire' = wire \o s /\ UNCHANGED ring
  BY DEF Sends
<1>2. FollowedBy(s) /\ Len(s) \in Nat
  BY <1>1, QueueFollowed
<1>3. Under \in Nat
  BY QueueTyped
<1> QED
  BY <1>2, <1>3, Zenon DEF FollowedBy

(* No step brings a CONNECT.                                                  *)
LEMMA NoCodesStep ==
  ASSUME LineTyped, LineTyped', NoCodes, ~TcpSer, "CONNECT" \notin Typed,
         "overflow" \notin Faults, [Next]_vars
  PROVE  NoCodes'
<1>1. ASSUME Thins
      PROVE  \A i \in 1..Under' : ~Connects(i)'
  BY <1>1 DEF Thins, NoCodes, Connects
<1>2. ASSUME NEW s, Sends(s), \A j \in 1..Len(s) : s[j].kind # "CONNECT"
      PROVE  \A i \in 1..Under' : ~Connects(i)'
  <2>1. /\ Under \in Nat /\ Len(s) \in Nat /\ Under' = Under + Len(s)
        /\ \A i \in 1..Under : Queue'[i] = Queue[i]
        /\ \A j \in 1..Len(s) : Queue'[Under + j] = s[j]
    BY <1>2, SentFollows
  <2>2. SUFFICES ASSUME NEW i \in 1..Under' PROVE Queue'[i].kind # "CONNECT"
    BY DEF Connects
  <2>3. CASE i \in 1..Under
    BY <2>1, <2>3 DEF NoCodes, Connects
  <2>4. CASE i \notin 1..Under
    <3>1. i - Under \in 1..Len(s) /\ Under + (i - Under) = i
      BY <2>1, <2>4
    <3> QED
      BY <1>2, <2>1, <3>1
  <2> QED
    BY <2>3, <2>4
<1>3. ASSUME Connect \/ (Down /\ ~hang)
      PROVE  \A i \in 1..Under' : ~Connects(i)'
  <2> DEFINE s == << >>
  <2>1. Sends(s)
    BY <1>3, ConnectSends, DownSends
  <2>2. \A j \in 1..Len(s) : s[j].kind # "CONNECT"
    OBVIOUS
  <2> HIDE DEF s
  <2> QED
    BY <1>2, <2>1, <2>2
<1>4. ASSUME NEW kind \in Typed, Type(kind)
      PROVE  \A i \in 1..Under' : ~Connects(i)'
  <2> DEFINE s == <<Byte(kind, live, sent + 1)>>
  <2>1. Sends(s)
    BY <1>4, TypeSends
  <2>2. Len(s) = 1 /\ s[1].kind # "CONNECT"
    BY DEF Byte
  <2> HIDE DEF s
  <2>3. \A j \in 1..Len(s) : j = 1
    BY <2>2
  <2> QED
    BY <1>2, <2>1, <2>2, <2>3
<1>5. \A i \in 1..Under' : ~Connects(i)'
  <2>1. \/ \E w \in {0, 1} : Rx(w)
        \/ Carrier \/ Track \/ Release \/ Answer \/ RxReturn \/ Disconnect
        \/ TakeByte \/ HangUp \/ Arrive \/ Isr \/ UNCHANGED vars
        \/ Connect \/ Down \/ \E kind \in Typed : Type(kind)
    BY DEF Next, InsideDriver, Outside, CallerLeaves, ModemHangsUp
  <2>2. CASE \/ \E w \in {0, 1} : Rx(w)
             \/ Carrier \/ Track \/ Release \/ Answer \/ RxReturn \/ Disconnect
             \/ TakeByte \/ HangUp \/ Arrive \/ Isr \/ (Down /\ ~TcpSer /\ hang)
             \/ UNCHANGED vars
    BY <1>1, <2>2, QueueOnlyThins
  <2>3. CASE Connect \/ (Down /\ ~hang) \/ \E kind \in Typed : Type(kind)
    BY <1>3, <1>4, <2>3
  <2> QED
    BY <2>1, <2>2, <2>3
<1>6. line' # "CONNECT"
  <2>1. CASE TakeByte
    <3>1. /\ Under \in Nat \ {0} /\ buf[Slot(head)] = Queue[1]
      BY <2>1, QueueTaken
    <3>2. line' = "CONNECT" => line = "CONNECT" \/ Queue[1].kind = "CONNECT"
      BY <2>1, <3>1, TakesByte
    <3>3. 1 \in 1..Under
      BY <3>1
    <3> QED
      BY <3>2, <3>3 DEF NoCodes, Connects
  <2>2. CASE ~TakeByte
    <3>1. line' = line \/ AtLineStart'
      BY <2>2, Zenon DEF Next, InsideDriver, Outside, CallerLeaves, ModemHangsUp,
         Rx, Carrier, Track, Release, Answer, RxReturn, Disconnect, HangUp, Arrive, Isr,
         Connect, Type, Down, vars, driver, AtLineStart
    <3>2. AtLineStart' => line' # "CONNECT"
      BY Zenon DEF AtLineStart
    <3> QED
      BY <3>1, <3>2 DEF NoCodes
  <2> QED
    BY <2>1, <2>2
<1> QED
  BY <1>5, <1>6 DEF NoCodes

(* With the DSR line the driver takes a carrier for a new call on a line that *)
(* is free.  The caller it served is no longer there then, or the modem has   *)
(* not hung up on him yet.                                                    *)
LEMMA CarrierAnswersOnce ==
  ASSUME LineTyped, LineTyped', NoCodes, CarriesCall, ~TcpSer, [Next]_vars
  PROVE  /\ CarriesCall'
         /\ state # "connected" /\ state' = "connected" /\ serving' \in answered => hang
<1>0. /\ live \in Nat /\ calls \in Nat /\ live \in {0, calls} /\ ~AtMode
      /\ wasActive \in BOOLEAN /\ state \in {"idle", "connected", "dropping"}
      /\ answered \subseteq 0..calls
  <2>1. OthersOK
    BY TypeParts DEF LineTyped
  <2> QED
    BY <2>1, LineSizes DEF OthersOK, LineTyped, TcpSer, AtMode, CarriesCall
<1> DEFINE Met == live # 0 /\ live \in answered
           Kept == hang \/ (state # "idle" /\ wasActive /\ pc # "hang")
           KeptNext == hang' \/ (state' # "idle" /\ wasActive' /\ pc' # "hang")
           Again == state # "connected" /\ state' = "connected" /\ serving' \in answered
<1>1. ASSUME UNCHANGED <<dsr, live, calls, ghost>>, state' = "connected" => state = "connected",
             Met => KeptNext
      PROVE  CarriesCall' /\ (Again => hang)
  BY <1>1 DEF CarriesCall, ghost
<1>2. Met => dsr /\ Kept
  BY DEF CarriesCall
<1>3. CASE \/ \E w \in {0, 1} : Rx(w)
           \/ RxReturn \/ Disconnect \/ Arrive \/ Isr \/ UNCHANGED vars
           \/ \E kind \in Typed : Type(kind)
  <2>1. UNCHANGED <<dsr, live, calls, ghost, state, wasActive>>
    BY <1>3 DEF Rx, RxReturn, Disconnect, Arrive, Isr, Type, modem, vars, driver
  <2>2. \/ pc' # "hang" /\ hang' = hang
        \/ pc' = pc /\ hang' = hang
        \/ hang' = (live # 0)
    BY <1>3 DEF Rx, RxReturn, Disconnect, Arrive, Isr, Type, modem, vars, call
  <2>3. Met => KeptNext
    BY <1>2, <2>1, <2>2
  <2> HIDE DEF Met, KeptNext
  <2> QED
    BY <1>1, <2>1, <2>3
<1>4. CASE Carrier
  <2>1. /\ UNCHANGED <<dsr, live, calls, ghost, wasActive, hang>> /\ pc' # "hang"
        /\ state' \in {state, "dropping"}
    BY <1>4 DEF Carrier, modem
  <2>2. Met => KeptNext
    BY <1>2, <2>1
  <2> HIDE DEF Met, KeptNext
  <2> QED
    BY <1>1, <2>1, <2>2
<1>5. CASE Track
  <2>1. /\ UNCHANGED <<dsr, live, calls, ghost, state, hang>> /\ pc' # "hang"
        /\ wasActive' = (wasActive \/ (~AtMode /\ state = "connected" /\ dsr))
    BY <1>5 DEF Track, modem
  <2>2. wasActive => wasActive'
    BY <2>1, Zenon
  <2>3. Met => KeptNext
    BY <1>2, <2>1, <2>2
  <2> HIDE DEF Met, KeptNext
  <2> QED
    BY <1>1, <2>1, <2>3
<1>6. CASE Release
  <2>1. /\ UNCHANGED <<dsr, live, calls, ghost, wasActive, hang>> /\ pc' # "hang"
        /\ state' = state \/ (state' = "idle" /\ (~dsr \/ ~wasActive))
    BY <1>6 DEF Release, modem
  <2>2. Met => KeptNext
    BY <1>2, <2>1
  <2>3. state' = "connected" => state = "connected"
    BY <2>1
  <2> HIDE DEF Met, KeptNext
  <2> QED
    BY <1>1, <2>1, <2>2, <2>3
<1>7. CASE Answer
  <2>1. UNCHANGED <<dsr, live, calls, hang>> /\ pc' = "drain"
    BY <1>7 DEF Answer, modem
  <2>2. CASE state = "idle" /\ sawInactive /\ dsr
    <3>1. /\ state' = "connected" /\ wasActive' = TRUE /\ serving' = live
          /\ answered' = answered \cup {live} /\ state = "idle"
      BY <1>0, <1>7, <2>2 DEF Answer
    <3>2. live # 0 /\ (live \in answered => hang)
      BY <1>2, <2>2 DEF CarriesCall
    <3>3. live \in 0..calls
      BY <1>0
    <3> QED
      BY <1>0, <2>1, <3>1, <3>2, <3>3 DEF CarriesCall
  <2>3. CASE ~(state = "idle" /\ sawInactive /\ dsr)
    <3>1. UNCHANGED <<ghost, state, wasActive>>
      BY <1>7, <2>3 DEF Answer
    <3>2. Met => KeptNext
      BY <1>2, <2>1, <3>1
    <3> HIDE DEF Met, KeptNext
    <3> QED
      BY <1>1, <2>1, <3>1, <3>2
  <2> QED
    BY <2>2, <2>3
<1>8. CASE TakeByte
  <2>1. PICK b : b = buf[Slot(head)]
    OBVIOUS
  <2>2. /\ state = "connected" \/ state' # "connected" => UNCHANGED ghost
        /\ state' = "connected" /\ state # "connected" => line = "CONNECT"
        /\ state' \in {state, "connected", "dropping"} /\ pc = "drain"
        /\ UNCHANGED <<pc, wasActive, modem>>
    BY <1>8, <2>1, TakesByte
  <2>3. state' = "connected" => state = "connected"
    BY <2>2 DEF NoCodes
  <2>4. UNCHANGED <<dsr, live, calls, ghost, hang>>
    BY <2>2, <2>3 DEF modem
  <2>5. Met => KeptNext
    BY <1>2, <2>2, <2>3, <2>4
  <2> HIDE DEF Met, KeptNext
  <2> QED
    BY <1>1, <2>3, <2>4, <2>5
<1>9. CASE HangUp
  <2>1. /\ UNCHANGED <<dsr, live, calls, ghost, hang>> /\ state' = "dropping" /\ pc = "hang"
    BY <1>9 DEF HangUp, modem
  <2>2. Met => KeptNext
    BY <1>2, <2>1
  <2> HIDE DEF Met, KeptNext
  <2> QED
    BY <1>1, <2>1, <2>2
<1>10. CASE Connect
  <2>1. /\ live' = calls + 1 /\ calls' = calls + 1 /\ dsr' = TRUE
        /\ UNCHANGED <<driver, ghost>>
    BY <1>10 DEF Connect
  <2>2. live' # 0 /\ live' \notin answered /\ answered \subseteq 0..calls'
    BY <1>0, <2>1
  <2> QED
    BY <2>1, <2>2 DEF CarriesCall, driver, ghost
<1>11. CASE Down
  <2>1. live' = 0 /\ calls' = calls /\ dsr' = FALSE /\ UNCHANGED <<driver, ghost>>
    BY <1>11 DEF Down
  <2> QED
    BY <1>0, <2>1 DEF CarriesCall, driver, ghost
<1> QED
  BY <1>3, <1>4, <1>5, <1>6, <1>7, <1>8, <1>9, <1>10, <1>11
     DEF Next, InsideDriver, Outside, CallerLeaves, ModemHangsUp

(* What holds of the line with the one modem and with the other.              *)
AnswersInv ==
  /\ LineTyped
  /\ TcpSer => TcpInv /\ Unused /\ Opened
  /\ ~TcpSer => NoCodes /\ CarriesCall
AnswersOnce ==
  state # "connected" /\ state' = "connected" /\ serving' \in answered => ~TcpSer /\ hang

(* It holds at first.                                                         *)
LEMMA AnswersInit == Init => AnswersInv
<1> SUFFICES ASSUME Init PROVE AnswersInv
  OBVIOUS
<1>1. LineTyped /\ Under = 0
  BY LineInit
<1>2. line # "CONNECT"
  BY Zenon DEF Init
<1>3. /\ state = "idle" /\ out = None /\ ~wasActive
  BY Zenon DEF Init
<1>4. Coded /\ OnlyCodesConnect /\ Parted
  BY <1>1 DEF Coded, OnlyCodesConnect, Parted
<1>5. Opening /\ Served /\ Handing
  BY <1>2, <1>3 DEF Opening, Served, Handing
<1>6. answered = {} /\ live = 0
  BY Zenon DEF Init
<1>7. Unused /\ Opened /\ NoCodes
  BY <1>1, <1>2, <1>6 DEF Unused, Opened, NoCodes
<1>8. ~TcpSer => CarriesCall
  <2>1. ~TcpSer => dsr = FALSE
    BY Zenon DEF Init, TcpSer
  <2> QED
    BY <1>6, <2>1 DEF CarriesCall
<1> QED
  BY <1>1, <1>3, <1>4, <1>5, <1>7, <1>8 DEF TcpInv, AnswersInv

(* Every step keeps it, and none connects to a caller again, but on the       *)
(* Ultimate while its modem hangs up.                                         *)
LEMMA AnswersStep ==
  ASSUME "overflow" \notin Faults, "overrun" \notin Faults, "CONNECT" \notin Typed,
         AnswersInv, [Next /\ UNCHANGED Modem]_<<vars, Modem>>
  PROVE  AnswersInv' /\ AnswersOnce
<1>1. [Next]_vars /\ UNCHANGED Modem
  OBVIOUS
<1>2. LineTyped /\ LineTyped'
  BY <1>1, LineTypedStep DEF AnswersInv
<1>3. TcpSer' <=> TcpSer
  BY <1>1 DEF TcpSer
<1>4. CASE TcpSer
  <2>1. TcpInv /\ Unused /\ Opened
    BY <1>4 DEF AnswersInv
  <2>2. TcpInv'
    BY <1>1, <1>2, <1>4, <2>1, TcpStep
  <2>3. Unused' /\ Opened' /\ AnswersOnce
    BY <1>1, <1>2, <1>4, <2>1, TcpAnswersOnce DEF AnswersOnce
  <2> QED
    BY <1>2, <1>3, <1>4, <2>2, <2>3 DEF AnswersInv
<1>5. CASE ~TcpSer
  <2>1. NoCodes /\ CarriesCall
    BY <1>5 DEF AnswersInv
  <2>2. NoCodes'
    BY <1>1, <1>2, <1>5, <2>1, NoCodesStep
  <2>3. CarriesCall' /\ AnswersOnce
    BY <1>1, <1>2, <1>5, <2>1, CarrierAnswersOnce DEF AnswersOnce
  <2> QED
    BY <1>2, <1>3, <1>5, <2>2, <2>3 DEF AnswersInv
<1> QED
  BY <1>4, <1>5

(* However late the driver polls, if no byte is lost and nobody types         *)
(* CONNECT, a caller is connected once.  Only on the Ultimate is a line that  *)
(* the board has hung up on taken for a new call, and only between            *)
(* net_disconnect, which clears s_dsr_was_active and does not wait, and the   *)
(* moment its modem has hung up.                                              *)
THEOREM CallersAreAnsweredOnce ==
  ASSUME "overflow" \notin Faults, "overrun" \notin Faults, "CONNECT" \notin Typed
  PROVE  Spec => AnsweredAgainInHangup
<1>1. AnswersInv /\ [Next /\ UNCHANGED Modem]_<<vars, Modem>>
        => AnswersInv' /\ [AnswersOnce]_vars
  BY AnswersStep
<1>2. [AnswersOnce]_vars =>
        [state # "connected" /\ state' = "connected" /\ serving' \in answered
           => ~TcpSer /\ hang]_vars
  BY DEF AnswersOnce
<1> QED
  BY <1>1, <1>2, AnswersInit, PTL DEF Spec, AnsweredAgainInHangup

-----------------------------------------------------------------------------
(* The caller log.                                                            *)

(* Between sessions nothing is owed; in a session the login is, once there    *)
(* was one, and nobody logs in twice.                                         *)
Between == {"wfc", "ring", "settle", "settled"}

LoginOwed ==
  /\ owed = IF at \in Between THEN 0 ELSE IF user THEN 1 ELSE 0
  /\ stage = "login" => ~user

(* A step of the thread that moves between two places of a session and leaves *)
(* stage, user and what is owed alone keeps this.                             *)
Moves == /\ at' \in Between <=> at \in Between
         /\ UNCHANGED <<stage, user, owed>>

(* Such a step changes nothing that counts.                                   *)
LEMMA MovesKeep == LoginOwed /\ Moves => LoginOwed'
BY DEF LoginOwed, Moves

(* Every step of the board and of the world around it keeps what is owed.     *)
LEMMA LoginOwedStep ==
  ASSUME LoginOwed, [LoopNext /\ UNCHANGED Modem]_<<allVars, Modem>>
  PROVE  LoginOwed'
<1>1. CASE Poll \/ NoCall \/ Settle
  BY <1>1 DEF Poll, NoCall, Settle, Receive, Go, session, LoginOwed, Between
<1>2. CASE NewCall \/ LocalLogon
  BY <1>2 DEF NewCall, LocalLogon, Begin, Go, LoginOwed, Between
<1>3. CASE Detect \/ Top \/ Carried \/ Step \/ NoKey \/ Getc
  BY <1>3, MovesKeep DEF Detect, Top, Carried, Step, NoKey, Getc, Receive, Go,
     session, Moves, Between
<1>4. CASE Detected
  BY <1>4, MovesKeep DEF Detected, Go, Drop, Watch, session, Moves, Between
<1>5. CASE Goodbye
  BY <1>5 DEF Goodbye, Go, LoginOwed, Between
<1>6. CASE LocalStep
  BY <1>6 DEF LocalStep, Go, LogIn, Leave, Stay, LoginOwed, Between
<1>7. CASE Key
  BY <1>7 DEF Key, Go, Drop, LogIn, Leave, Stay, LoginOwed, Between
<1>8. CASE Idle
  BY <1>8, MovesKeep DEF Idle, IdleCheck, Hanging, Go, Drop, session, Moves,
     Between
<1>9. CASE Spy("spy", "time") \/ TimeCheck \/ Back
  BY <1>9, MovesKeep DEF Spy, TimeCheck, Back, Hanging, Go, Drop, session,
     Moves, Between
<1>10. CASE LoopPoll
  BY <1>10, MovesKeep DEF LoopPoll, Spy, Hanging, Go, Drop, session, Moves,
     Between
<1>11. CASE End
  BY <1>11 DEF End, Go, Drop, LoginOwed, Between
<1>12. CASE UNCHANGED loop \/ IdleRunsOut \/ TimeRunsOut
  BY <1>12, MovesKeep DEF loop, session, IdleRunsOut, TimeRunsOut, Moves
<1>13. CASE UNCHANGED <<allVars, Modem>>
  BY <1>13, MovesKeep DEF allVars, loop, session, Moves
<1> QED
  BY <1>1, <1>2, <1>3, <1>4, <1>5, <1>6, <1>7, <1>8, <1>9, <1>10, <1>11,
     <1>12, <1>13 DEF LoopNext, Thread, World

(* Whatever the callers, the modem, the clock and the SysOp do and whatever   *)
(* goes wrong on the line, each login has its entry in CALLERS by the time    *)
(* the board waits for the next call, and nobody else has one.                *)
THEOREM LoginsAreLogged == LoopSpec => []EachLoginIsLogged
<1>1. LoopInit => LoginOwed
  BY DEF LoopInit, LoginOwed, Between
<1>2. LoginOwed => EachLoginIsLogged
  BY DEF LoginOwed, EachLoginIsLogged, Between
<1> QED
  BY <1>1, <1>2, LoginOwedStep, PTL DEF LoopSpec

-----------------------------------------------------------------------------
(* The session and its caller.                                                *)

(* The board is a client of the driver: what it does to the line is to call   *)
(* net_rx and net_disconnect.                                                 *)
LEMMA LoopStepsTheLine ==
  [LoopNext /\ UNCHANGED Modem]_<<allVars, Modem>>
    => [Next /\ UNCHANGED Modem]_<<vars, Modem>>
<1> SUFFICES ASSUME [LoopNext /\ UNCHANGED Modem]_<<allVars, Modem>>
             PROVE  [Next]_vars /\ UNCHANGED Modem
  OBVIOUS
<1>1. CASE UNCHANGED <<allVars, Modem>>
  BY <1>1 DEF allVars
<1>2. CASE Thread /\ UNCHANGED Modem
  <2>1. \/ \E w \in {0, 1} : Rx(w)
        \/ Disconnect \/ InsideDriver \/ UNCHANGED vars
    BY <1>2 DEF Thread, Poll, NewCall, LocalLogon, NoCall, Detect, Detected, Top, Carried,
       Goodbye, Step, LocalStep, Key, NoKey, Getc, Idle, IdleCheck, Hanging, Spy, TimeCheck,
       Back, LoopPoll, End, Settle, Receive, Drop, Go
  <2> QED
    BY <1>2, <2>1 DEF Next
<1>3. CASE (World \/ IdleRunsOut \/ TimeRunsOut) /\ UNCHANGED Modem
  BY <1>3 DEF World, IdleRunsOut, TimeRunsOut, Next
<1> QED
  BY <1>1, <1>2, <1>3 DEF LoopNext

(* So what is proved of the driver with any client holds of the board: its    *)
(* line is the one of NetLine.                                                *)
THEOREM TheBoardIsAClient == LoopSpec => Spec
<1>1. LoopInit => Init
  BY DEF LoopInit
<1> QED
  BY <1>1, LoopStepsTheLine, PTL DEF LoopSpec, Spec

(* Unless callers are quick, all that is under way is of the last of them,    *)
(* and he is the one the driver is connected to.  The DSR line is up while    *)
(* there is a caller.                                                         *)
LastOnly == \A i \in 1..Under : Queue[i].call = calls
ServesLast == state = "connected" => serving = calls /\ calls \in answered
Bridges == ~TcpSer => (dsr <=> live # 0)

(* What is sent is of the last caller.                                        *)
LEMMA SendingKeepsLast ==
  ASSUME LineTyped, LastOnly, NEW s, Sends(s), calls' = calls \/ Under = 0,
         \A j \in 1..Len(s) : s[j].call = calls'
  PROVE  LastOnly'
<1>1. /\ Under \in Nat /\ Len(s) \in Nat /\ Under' = Under + Len(s)
      /\ \A i \in 1..Under : Queue'[i] = Queue[i]
      /\ \A j \in 1..Len(s) : Queue'[Under + j] = s[j]
  BY SentFollows
<1>2. ASSUME NEW i \in 1..Under' PROVE Queue'[i].call = calls'
  <2>1. CASE i \in 1..Under
    <3>1. Under # 0
      BY <1>1, <2>1
    <3> QED
      BY <1>1, <2>1, <3>1 DEF LastOnly
  <2>2. CASE i \notin 1..Under
    <3>1. i - Under \in 1..Len(s) /\ Under + (i - Under) = i
      BY <1>1, <1>2, <2>2
    <3> QED
      BY <1>1, <3>1
  <2> QED
    BY <2>1, <2>2
<1> QED
  BY <1>2 DEF LastOnly

(* Every step of the line keeps both; a byte that is handed out is of the     *)
(* last caller, and asked for.                                                *)
LEMMA LastStep ==
  ASSUME LineTyped, LineTyped', LastOnly, ServesLast, Bridges, [Next]_vars, UNCHANGED Modem,
         "quick" \notin Faults, "overflow" \notin Faults
  PROVE  /\ LastOnly' /\ ServesLast' /\ Bridges'
         /\ \/ out' = out \/ out' = None
            \/ out'.call = calls /\ want # 0 /\ pc = "drain" /\ state' = "connected"
         /\ answered \subseteq answered'
<1>0. /\ live \in Nat /\ calls \in Nat /\ live \in {0, calls}
      /\ live \in 0..MaxCalls /\ calls \in 0..MaxCalls /\ want \in {0, 1}
  <2>1. OthersOK
    BY TypeParts DEF LineTyped
  <2> QED
    BY <2>1, LineSizes DEF OthersOK, LineTyped
<1>1. ASSUME Thins, UNCHANGED calls PROVE LastOnly'
  BY <1>1 DEF Thins, LastOnly
<1>2. ASSUME UNCHANGED <<state, calls, ghost>>
      PROVE  ServesLast' /\ answered \subseteq answered'
  BY <1>2 DEF ServesLast, ghost
<1>9. Bridges'
  <2>1. CASE Connect \/ Down
    <3>1. ~TcpSer => (dsr' <=> live' # 0)
      BY <1>0, <2>1 DEF Connect, Down
    <3> QED
      BY <3>1 DEF Bridges, TcpSer
  <2>2. CASE ~(Connect \/ Down)
    <3>1. UNCHANGED <<dsr, live>>
      BY <2>2 DEF Next, InsideDriver, Outside, CallerLeaves, ModemHangsUp, Rx, Carrier, Track,
         Release, Answer, TakeByte, RxReturn, Disconnect, HangUp, Arrive, Isr, Type, vars, modem
    <3> QED
      BY <3>1 DEF Bridges, TcpSer
  <2> QED
    BY <2>1, <2>2
<1>3. CASE \/ \E w \in {0, 1} : Rx(w)
           \/ Carrier \/ Track \/ Release \/ RxReturn \/ Disconnect \/ HangUp
           \/ Arrive \/ Isr \/ (Down /\ ~TcpSer /\ hang) \/ UNCHANGED vars
  <2>1. Thins
    BY <1>3, QueueOnlyThins
  <2>2. UNCHANGED <<calls, ghost>> /\ (out' = out \/ out' = None)
    BY <1>3 DEF Rx, Carrier, Track, Release, RxReturn, Disconnect, HangUp, Arrive, Isr, Down,
       vars, modem, call
  <2>3. state' = "connected" => state = "connected"
    BY <1>3 DEF Rx, Carrier, Track, Release, RxReturn, Disconnect, HangUp, Arrive, Isr, Down,
       vars, driver
  <2> QED
    BY <1>1, <1>9, <2>1, <2>2, <2>3 DEF ServesLast, ghost
<1>4. CASE Answer
  <2>1. Thins /\ UNCHANGED <<live, calls, out, dsr>>
    BY <1>4, QueueOnlyThins DEF Answer, modem
  <2>2. CASE UNCHANGED <<state, ghost>>
    BY <1>1, <1>2, <1>9, <2>1, <2>2
  <2>3. CASE ~UNCHANGED <<state, ghost>>
    <3>1. dsr /\ ~AtMode /\ serving' = live /\ answered' = answered \cup {live}
      BY <1>4, <2>3 DEF Answer, ghost
    <3>2. live = calls
      BY <1>0, <3>1 DEF Bridges, AtMode, TcpSer
    <3> QED
      BY <1>1, <1>9, <2>1, <3>1, <3>2 DEF ServesLast
  <2> QED
    BY <2>2, <2>3
<1>5. CASE TakeByte
  <2>1. /\ buf[Slot(head)] = Queue[1] /\ Under \in Nat \ {0} /\ Thins
    BY <1>5, QueueTaken, QueueOnlyThins
  <2>2. Queue[1].call = calls
    <3>1. 1 \in 1..Under
      BY <2>1
    <3> QED
      BY <3>1 DEF LastOnly
  <2>3. /\ state = "connected" \/ state' # "connected" => UNCHANGED ghost
        /\ state' = "connected" /\ state # "connected" =>
             serving' = Queue[1].call /\ answered' = answered \cup {Queue[1].call}
        /\ out' = out \/ (out' = Queue[1] /\ state' = "connected")
        /\ pc = "drain" /\ UNCHANGED modem
    BY <1>5, <2>1, TakesByte
  <2>4. out' = out \/ want > 0
    BY <1>5, Zenon DEF TakeByte
  <2>5. out' = out \/ (out'.call = calls /\ want # 0 /\ pc = "drain" /\ state' = "connected")
    BY <1>0, <2>2, <2>3, <2>4
  <2>6. LastOnly' /\ calls' = calls
    BY <1>1, <2>1, <2>3 DEF modem
  <2>7. ServesLast' /\ answered \subseteq answered'
    <3>1. CASE state' = "connected" /\ state # "connected"
      BY <2>2, <2>3, <2>6, <3>1 DEF ServesLast
    <3>2. CASE ~(state' = "connected" /\ state # "connected")
      BY <2>3, <2>6, <3>2 DEF ServesLast, ghost
    <3> QED
      BY <3>1, <3>2
  <2> QED
    BY <1>9, <2>5, <2>6, <2>7
<1>6. ASSUME NEW kind \in Kinds, NEW c \in 0..MaxCalls, NEW s, s \in {<< >>, Result(kind, c)}
      PROVE  \A j \in 1..Len(s) : s[j].call = c
  <2>1. CASE s = << >>
    BY <2>1
  <2>2. CASE s = Result(kind, c)
    <3>1. /\ Len(s) = 3 /\ s[1] = Byte("CR", c, 0) /\ s[2] = Byte(kind, c, 0)
          /\ s[3] = Byte("CR", c, 0)
      BY <2>2, ResultTyped
    <3>2. s[1].call = c /\ s[2].call = c /\ s[3].call = c
      BY <3>1 DEF Byte
    <3> QED
      BY <3>1, <3>2
  <2> QED
    BY <1>6, <2>1, <2>2
<1>7. CASE Connect
  <2>1. /\ UNCHANGED <<driver, ghost, out>> /\ calls' = calls + 1 /\ calls < MaxCalls
        /\ state # "connected" /\ wire = << >> /\ reg = None /\ head = tail
    BY <1>7 DEF Connect, call
  <2>2. calls + 1 \in 0..MaxCalls
    BY <1>0, <2>1, LineSizes
  <2>3. Under = 0
    <3>1. InRing = 0
      BY <2>1, TypeParts, RingCounts DEF LineTyped, OthersOK, InRing
    <3> QED
      BY <2>1, <3>1 DEF Under, InReg
  <2> DEFINE s == IF TcpSer THEN Result("CONNECT", calls + 1) ELSE << >>
  <2>4. Sends(s) /\ s \in {<< >>, Result("CONNECT", calls + 1)}
    BY <1>7, ConnectSends
  <2> HIDE DEF s
  <2>5. \A j \in 1..Len(s) : s[j].call = calls'
    <3>1. "CONNECT" \in Kinds
      BY DEF Kinds
    <3> QED
      BY <1>6, <2>1, <2>2, <2>4, <3>1
  <2>6. LastOnly'
    BY <2>3, <2>4, <2>5, SendingKeepsLast
  <2>7. state' = state /\ answered' = answered
    BY <2>1 DEF driver, ghost
  <2> QED
    BY <1>9, <2>1, <2>6, <2>7 DEF ServesLast
<1>8. CASE Down /\ ~(~TcpSer /\ hang)
  <2>1. /\ UNCHANGED <<state, ghost, out, calls>> /\ live = calls
    BY <1>0, <1>8 DEF Down, call, driver
  <2> DEFINE s == IF TcpSer THEN Result("NOCARRIER", live) ELSE << >>
  <2>2. Sends(s) /\ s \in {<< >>, Result("NOCARRIER", live)}
    BY <1>8, DownSends
  <2> HIDE DEF s
  <2>3. \A j \in 1..Len(s) : s[j].call = calls'
    <3>1. "NOCARRIER" \in Kinds
      BY DEF Kinds
    <3> QED
      BY <1>0, <1>6, <2>1, <2>2, <3>1
  <2>4. LastOnly'
    BY <2>1, <2>2, <2>3, SendingKeepsLast
  <2> QED
    BY <1>2, <1>9, <2>1, <2>4
<1>10. CASE \E kind \in Typed : Type(kind)
  <2>1. PICK kind \in Typed : Type(kind)
    BY <1>10
  <2>2. /\ UNCHANGED <<state, ghost, out, calls>> /\ live = calls
    BY <1>0, <2>1 DEF Type, call, driver
  <2> DEFINE s == <<Byte(kind, live, sent + 1)>>
  <2>3. Sends(s)
    BY <2>1, TypeSends
  <2>4. Len(s) = 1 /\ s[1].call = calls'
    BY <2>2 DEF Byte
  <2> HIDE DEF s
  <2>5. \A j \in 1..Len(s) : s[j].call = calls'
    BY <2>4
  <2>6. LastOnly'
    BY <2>2, <2>3, <2>5, SendingKeepsLast
  <2> QED
    BY <1>2, <1>9, <2>2, <2>6
<1> QED
  <2>1. \/ \E w \in {0, 1} : Rx(w)
        \/ Carrier \/ Track \/ Release \/ RxReturn \/ Disconnect \/ HangUp
        \/ Arrive \/ Isr \/ UNCHANGED vars
        \/ Answer \/ TakeByte \/ Connect \/ Down \/ \E kind \in Typed : Type(kind)
    BY DEF Next, InsideDriver, Outside, CallerLeaves, ModemHangsUp
  <2> QED
    BY <1>3, <1>4, <1>5, <1>7, <1>8, <1>10, <2>1

(* The session is begun for the last caller, who stays the last while it      *)
(* lasts, if callers do not dial before the board waits for them.             *)
SessionPlaces == {"detect", "detected", "top", "carrier", "step", "getc", "read",
                  "idle", "spy", "time", "back", "poll", "end"}

SessionInv ==
  /\ at \in SessionPlaces /\ ~local => caller = calls /\ calls \in answered
  /\ at \in SessionPlaces /\ out # None => out.call = calls
  /\ at = "ring" => out = None /\ want = 0

(* What the thread does within a session: on its own, reading or hanging up.  *)
Within ==
  /\ at \in SessionPlaces /\ at' \in SessionPlaces
  /\ UNCHANGED <<local, caller>>
  /\ UNCHANGED vars \/ Disconnect \/ \E w \in {0, 1} : Rx(w)

(* Begins, ends and what lies between sessions.                               *)
Outwith ==
  \/ NewCall \/ LocalLogon
  \/ at' \in {"wfc", "settle", "settled"}
  \/ at' = "ring" /\ Rx(0)

(* All that the thread does is one or the other, or the driver's.             *)
LEMMA ThreadIsWithin ==
  ASSUME LoopNext
  PROVE  \/ Within \/ Outwith
         \/ InsideDriver /\ UNCHANGED loop
         \/ World
<1>1. CASE Poll \/ NoCall \/ Settle \/ NewCall \/ LocalLogon
  BY <1>1 DEF Poll, NoCall, Settle, Receive, Go, Outwith
<1>2. CASE End
  BY <1>2 DEF End, Go, Drop, Outwith
<1>3. CASE Detect \/ Detected \/ Top \/ Carried \/ Goodbye \/ Step \/ LocalStep
  BY <1>3 DEF Detect, Detected, Top, Carried, Goodbye, Step, LocalStep, Receive, Drop, Go,
     Watch, session, SessionPlaces, Within
<1>4. CASE Key
  BY <1>4 DEF Key, Drop, Go, SessionPlaces, Within
<1>5. CASE NoKey \/ Getc \/ Idle \/ Spy("spy", "time") \/ TimeCheck \/ Back \/ LoopPoll
  BY <1>5 DEF NoKey, Getc, Idle, IdleCheck, Spy, TimeCheck, Back, LoopPoll, Hanging, Receive,
     Drop, Go, session, SessionPlaces, Within
<1>6. CASE IdleRunsOut \/ TimeRunsOut
  BY <1>6 DEF IdleRunsOut, TimeRunsOut, InSession, SessionPlaces, Within
<1> QED
  BY <1>1, <1>2, <1>3, <1>4, <1>5, <1>6 DEF LoopNext, Thread

(* Every step keeps what holds of the session and its caller.                 *)
LEMMA SessionStep ==
  ASSUME LineTyped, LineTyped', LastOnly, ServesLast, Bridges, SessionInv,
         ~Eager, "quick" \notin Faults, "overflow" \notin Faults,
         [LoopNext /\ UNCHANGED Modem]_<<allVars, Modem>>
  PROVE  SessionInv'
<1>1. /\ \/ out' = out \/ out' = None
         \/ out'.call = calls /\ want # 0 /\ pc = "drain" /\ state' = "connected"
      /\ answered \subseteq answered'
  BY LoopStepsTheLine, LastStep
<1>2. CASE UNCHANGED <<allVars, Modem>>
  BY <1>2 DEF SessionInv, allVars, vars, loop, session, call, modem, ghost
<1>3. CASE Within
  <2>1. calls' = calls /\ (out' = out \/ out' = None)
    BY <1>3 DEF Within, vars, Disconnect, Rx, modem, call
  <2>2. at' # "ring"
    BY <1>3 DEF Within, SessionPlaces
  <2> QED
    BY <1>1, <1>3, <2>1, <2>2 DEF Within, SessionInv
<1>4. CASE NewCall
  <2>1. /\ state = "connected" /\ at = "ring" /\ at' = "detect" /\ UNCHANGED vars
        /\ caller' = serving
    BY <1>4 DEF NewCall, Go, Begin
  <2>2. UNCHANGED <<calls, answered, out>>
    BY <2>1 DEF vars, modem, ghost, call
  <2> QED
    BY <2>1, <2>2 DEF ServesLast, SessionInv
<1>5. CASE LocalLogon
  <2>1. at = "ring" /\ at' = "top" /\ local' = TRUE /\ UNCHANGED <<calls, out>>
    BY <1>5 DEF LocalLogon, Go, Begin, vars, modem, call
  <2> QED
    BY <2>1 DEF SessionInv
<1>6. CASE at' \in {"wfc", "settle", "settled"}
  BY <1>6 DEF SessionInv, SessionPlaces
<1>7. CASE at' = "ring" /\ Rx(0)
  BY <1>7 DEF SessionInv, SessionPlaces, Rx
<1>8. CASE InsideDriver /\ UNCHANGED loop
  <2>1. UNCHANGED <<want, calls, at, local, caller>>
    BY <1>8 DEF InsideDriver, Carrier, Track, Release, Answer, TakeByte, RxReturn, HangUp,
       modem, loop, session
  <2> QED
    BY <1>1, <2>1 DEF SessionInv
<1>9. CASE World
  <2>1. /\ UNCHANGED <<want, out, at, local, caller, answered>>
        /\ calls' # calls => at = "wfc"
    BY <1>9 DEF World, Outside, CallerLeaves, ModemHangsUp, Connect, Type, Down, Arrive, Isr,
       call, ghost, loop, session
  <2>2. "wfc" \notin SessionPlaces
    BY DEF SessionPlaces
  <2> QED
    BY <2>1, <2>2 DEF SessionInv
<1> QED
  BY <1>2, <1>3, <1>4, <1>5, <1>6, <1>7, <1>8, <1>9, ThreadIsWithin DEF Outwith

(* What holds of the line under a session and of the session.                 *)
ServiceInv == LineTyped /\ LastOnly /\ ServesLast /\ Bridges /\ SessionInv

(* It holds at first.                                                         *)
LEMMA ServiceInit == LoopInit => ServiceInv
<1> SUFFICES ASSUME LoopInit PROVE ServiceInv
  OBVIOUS
<1>1. Init /\ at = "wfc"
  BY DEF LoopInit
<1>2. LineTyped /\ Under = 0
  BY <1>1, LineInit
<1>3. state = "idle" /\ live = 0 /\ (~TcpSer => dsr = FALSE)
  BY <1>1, Zenon DEF Init, TcpSer
<1>4. LastOnly /\ ServesLast /\ Bridges
  BY <1>2, <1>3 DEF LastOnly, ServesLast, Bridges
<1>5. SessionInv
  BY <1>1 DEF SessionInv, SessionPlaces
<1> QED
  BY <1>2, <1>4, <1>5 DEF ServiceInv

(* Every step of the board keeps it.                                          *)
LEMMA ServiceStep ==
  ASSUME ~Eager, "quick" \notin Faults, "overflow" \notin Faults,
         ServiceInv, [LoopNext /\ UNCHANGED Modem]_<<allVars, Modem>>
  PROVE  ServiceInv'
<1>1. [Next]_vars /\ UNCHANGED Modem
  BY LoopStepsTheLine
<1>2. LineTyped'
  BY <1>1, LineTypedStep DEF ServiceInv
<1>3. LastOnly' /\ ServesLast' /\ Bridges'
  BY <1>1, <1>2, LastStep DEF ServiceInv
<1> QED
  BY <1>2, <1>3, SessionStep DEF ServiceInv

(* A session acts on nobody's keys but those of the caller it was begun for,  *)
(* with either modem and whatever is typed, as long as the next caller dials  *)
(* when the board waits for a call: not before the driver has noticed that    *)
(* the last one is gone, and not while his session is being ended.            *)
THEOREM SessionsServeOneCall ==
  ASSUME ~Eager, "quick" \notin Faults, "overflow" \notin Faults
  PROVE  LoopSpec => []SessionServesOneCall
<1>1. ServiceInv /\ [LoopNext /\ UNCHANGED Modem]_<<allVars, Modem>> => ServiceInv'
  BY ServiceStep
<1>2. ServiceInv => SessionServesOneCall
  BY DEF ServiceInv, SessionInv, SessionServesOneCall, InSession, SessionPlaces
<1> QED
  BY <1>1, <1>2, ServiceInit, PTL DEF LoopSpec

(* A SysOp at the console is never hung up on.  With result codes a session is *)
(* begun for a caller the driver has answered; once he was hung up on he gets  *)
(* no byte through, since the driver has not answered him a second time.      *)
LocalPlaces == {"top", "step", "poll", "end"}

OverInv ==
  /\ at \in SessionPlaces /\ local => at \in LocalPlaces /\ ~dropped
  /\ TcpSer =>
       /\ state = "connected" => serving \in answered
       /\ at \in SessionPlaces /\ ~local => caller \in answered
       /\ at \in SessionPlaces /\ dropped =>
            /\ out = None \/ out.call # caller
            /\ pc = "hang" \/ state # "connected" \/ serving # caller

(* How the driver connects: it goes on with the caller it has, or notes that  *)
(* it has answered another; and what it hands out it hands out connected.     *)
LEMMA Connecting ==
  ASSUME [Next]_vars
  PROVE  /\ answered \subseteq answered'
         /\ state' = "connected" =>
              \/ state = "connected" /\ serving' = serving
              \/ state # "connected" /\ serving' \in answered'
         /\ out' = out \/ out' = None \/ (pc = "drain" /\ state' = "connected")
<1>1. CASE \/ \E w \in {0, 1} : Rx(w)
           \/ RxReturn \/ Disconnect \/ Arrive \/ Isr \/ UNCHANGED vars
           \/ (\E kind \in Typed : Type(kind)) \/ Connect \/ Down
           \/ Carrier \/ Track \/ Release
  <2>1. /\ UNCHANGED ghost /\ out' \in {out, None}
        /\ state' = "connected" => state = "connected"
    BY <1>1 DEF Rx, RxReturn, Disconnect, Arrive, Isr, Type, Connect, Down, Carrier, Track,
       Release, vars, driver, call
  <2> QED
    BY <2>1 DEF ghost
<1>2. CASE HangUp
  BY <1>2, Zenon DEF HangUp, ghost
<1>3. CASE Answer
  <2>1. out' = out
    BY <1>3 DEF Answer
  <2>2. CASE ~AtMode /\ state = "idle" /\ sawInactive /\ dsr
    BY <1>3, <2>1, <2>2 DEF Answer
  <2>3. CASE ~(~AtMode /\ state = "idle" /\ sawInactive /\ dsr)
    BY <1>3, <2>1, <2>3 DEF Answer, ghost
  <2> QED
    BY <2>2, <2>3
<1>4. CASE TakeByte
  <2>1. PICK b : b = buf[Slot(head)]
    OBVIOUS
  <2>2. /\ state = "connected" \/ state' # "connected" => UNCHANGED ghost
        /\ state' = "connected" /\ state # "connected" =>
             serving' = b.call /\ answered' = answered \cup {b.call}
        /\ out' = out \/ (out' = b /\ atConn /\ state' = "connected")
        /\ pc = "drain"
    BY <1>4, <2>1, TakesByte
  <2> QED
    BY <2>2 DEF ghost
<1> QED
  BY <1>1, <1>2, <1>3, <1>4 DEF Next, InsideDriver, Outside, CallerLeaves, ModemHangsUp

(* Whoever is dropped, the line is hung up; and it is no local session.       *)
LEMMA DropsHangUp ==
  ASSUME LoopNext, Within, local => at \in LocalPlaces
  PROVE  /\ local => at' \in LocalPlaces /\ dropped' = dropped
         /\ dropped' = dropped \/ Disconnect
<1>1. CASE Poll \/ NoCall \/ Settle \/ NewCall \/ LocalLogon \/ End
  BY <1>1 DEF Poll, NoCall, Settle, NewCall, LocalLogon, End, Receive, Go, Drop, Within,
     SessionPlaces
<1>2. CASE Detect \/ Detected
  BY <1>2 DEF Detect, Detected, Receive, Drop, Go, Watch, session, LocalPlaces
<1>3. CASE Top \/ Carried \/ Goodbye \/ Step \/ LocalStep
  BY <1>3 DEF Top, Carried, Goodbye, Step, LocalStep, Receive, Go, session, LocalPlaces
<1>4. CASE Key
  BY <1>4 DEF Key, Drop, Go, LocalPlaces
<1>5. CASE NoKey \/ Getc \/ Idle \/ TimeCheck \/ Back
  BY <1>5 DEF NoKey, Getc, Idle, IdleCheck, TimeCheck, Back, Hanging, Receive, Drop, Go,
     session, LocalPlaces
<1>6. CASE Spy("spy", "time")
  BY <1>6 DEF Spy, Hanging, Drop, Go, session, LocalPlaces
<1>7. CASE LoopPoll
  BY <1>7 DEF LoopPoll, Spy, Hanging, Drop, Go, session, LocalPlaces
<1>8. CASE IdleRunsOut \/ TimeRunsOut
  BY <1>8 DEF IdleRunsOut, TimeRunsOut
<1>9. CASE (InsideDriver \/ World) /\ UNCHANGED loop
  BY <1>9 DEF loop, session
<1> QED
  BY <1>1, <1>2, <1>3, <1>4, <1>5, <1>6, <1>7, <1>8, <1>9 DEF LoopNext, Thread, World

(* Every step keeps it.                                                       *)
LEMMA OverStep ==
  ASSUME AnswersInv, AnswersInv', AnswersOnce, OverInv,
         [LoopNext /\ UNCHANGED Modem]_<<allVars, Modem>>
  PROVE  OverInv'
<1>1. /\ answered \subseteq answered'
      /\ state' = "connected" =>
           \/ state = "connected" /\ serving' = serving
           \/ state # "connected" /\ serving' \in answered'
      /\ out' = out \/ out' = None \/ (pc = "drain" /\ state' = "connected")
  BY LoopStepsTheLine, Connecting
<1>2. UNCHANGED Modem /\ (TcpSer' <=> TcpSer)
  BY LoopStepsTheLine DEF TcpSer
<1>3. TcpSer /\ state' = "connected" => serving' \in answered'
  BY <1>1 DEF OverInv
<1>4. TcpSer /\ state' = "connected" /\ state # "connected" => serving' \notin answered
  BY DEF AnswersOnce
<1>5. CASE UNCHANGED <<allVars, Modem>>
  BY <1>5 DEF OverInv, allVars, vars, loop, session, call, driver, ghost, TcpSer
<1>6. CASE LoopNext /\ Within
  <2>1. /\ local => at' \in LocalPlaces /\ dropped' = dropped
        /\ dropped' = dropped \/ Disconnect
    BY <1>6, DropsHangUp DEF OverInv, Within
  <2>2. at \in SessionPlaces /\ UNCHANGED <<local, caller>>
    BY <1>6 DEF Within
  <2>3. TcpSer /\ ~local => caller \in answered'
    BY <1>1, <2>2 DEF OverInv
  <2>4. CASE Disconnect
    <3>1. out' = None /\ pc' = "hang"
      BY <2>4 DEF Disconnect
    <3> QED
      BY <1>2, <1>3, <2>1, <2>2, <2>3, <3>1 DEF OverInv
  <2>5. CASE UNCHANGED vars /\ ~Disconnect
    <3>1. UNCHANGED <<out, pc, state, serving>>
      BY <2>5 DEF vars, call, driver, ghost
    <3> QED
      BY <1>2, <1>3, <2>1, <2>2, <2>3, <2>5, <3>1 DEF OverInv
  <2>6. CASE (\E w \in {0, 1} : Rx(w)) /\ ~Disconnect
    <3>1. out' = None /\ pc = "out" /\ UNCHANGED <<state, serving>>
      BY <2>6 DEF Rx, driver, ghost
    <3> QED
      BY <1>2, <1>3, <2>1, <2>2, <2>3, <2>6, <3>1 DEF OverInv
  <2> QED
    BY <1>6, <2>4, <2>5, <2>6 DEF Within
<1>7. CASE NewCall \/ LocalLogon
  <2>1. /\ dropped' = FALSE /\ at' \in {"detect", "top"} /\ (local' => at' = "top")
        /\ ~local' => state = "connected" /\ caller' = serving
    BY <1>7 DEF NewCall, LocalLogon, Go, Begin
  <2>2. TcpSer /\ ~local' => caller' \in answered'
    BY <1>1, <2>1 DEF OverInv
  <2> QED
    BY <1>2, <1>3, <2>1, <2>2 DEF OverInv, LocalPlaces
<1>8. CASE at' \in {"wfc", "settle", "settled", "ring"}
  BY <1>2, <1>3, <1>8 DEF OverInv, SessionPlaces
<1>9. CASE InsideDriver /\ UNCHANGED loop
  <2>1. UNCHANGED <<at, local, dropped, caller>>
    BY <1>9 DEF loop, session
  <2>2. SUFFICES ASSUME TcpSer, at \in SessionPlaces, dropped
                 PROVE  /\ out' = None \/ out'.call # caller
                        /\ pc' = "hang" \/ state' # "connected" \/ serving' # caller
    BY <1>1, <1>2, <1>3, <2>1 DEF OverInv
  <2>3. /\ ~local /\ caller \in answered
        /\ out = None \/ out.call # caller
        /\ pc = "hang" \/ state # "connected" \/ serving # caller
    BY <2>2 DEF OverInv
  <2>4. CASE pc = "hang"
    <3>1. HangUp
      BY <1>9, <2>4 DEF InsideDriver, Carrier, Track, Release, Answer, TakeByte, RxReturn
    <3>2. state' = "dropping" /\ out' = out
      BY <3>1 DEF HangUp
    <3> QED
      BY <2>3, <3>2
  <2>5. CASE pc # "hang"
    <3>1. state' # "connected" \/ serving' # caller
      BY <1>1, <1>4, <2>2, <2>3, <2>5
    <3>2. out' # None => out'.call = serving'
      BY <1>2, <2>2 DEF AnswersInv, TcpInv, Handing
    <3> QED
      BY <1>1, <2>3, <3>1, <3>2
  <2> QED
    BY <2>4, <2>5
<1>10. CASE World
  <2>1. UNCHANGED <<at, local, dropped, caller, out, pc, state, serving>>
    BY <1>10 DEF World, Outside, CallerLeaves, ModemHangsUp, Connect, Type, Down, Arrive, Isr,
       call, driver, ghost, loop, session
  <2> QED
    BY <1>1, <1>2, <1>3, <2>1 DEF OverInv
<1> QED
  <2>1. CASE LoopNext
    BY <1>6, <1>7, <1>8, <1>9, <1>10, <2>1, ThreadIsWithin DEF Outwith
  <2> QED
    BY <1>5, <2>1

(* With result codes, if no byte is lost and nobody types CONNECT, a caller   *)
(* the board has hung up on, idle, out of time or kicked, is not served any   *)
(* more, however eager callers are and however long the modem takes: though   *)
(* his session runs on until its loop looks at the carrier, and the modem may *)
(* still pass on what he types, no byte of his comes through.                 *)
THEOREM DroppedCallersAreOver ==
  ASSUME "overflow" \notin Faults, "overrun" \notin Faults, "CONNECT" \notin Typed
  PROVE  LoopSpec => DroppedIsNotServed
<1>1. LoopInit => AnswersInv /\ OverInv
  <2>1. LoopInit => Init /\ OverInv
    <3> SUFFICES ASSUME LoopInit PROVE OverInv
      BY DEF LoopInit
    <3>1. state = "idle" /\ at = "wfc"
      BY Zenon DEF LoopInit, Init
    <3> QED
      BY <3>1 DEF OverInv, SessionPlaces
  <2> QED
    BY <2>1, AnswersInit
<1>2. AnswersInv /\ OverInv /\ [LoopNext /\ UNCHANGED Modem]_<<allVars, Modem>>
        => (AnswersInv /\ OverInv)'
  <2> SUFFICES ASSUME AnswersInv, OverInv, [LoopNext /\ UNCHANGED Modem]_<<allVars, Modem>>
               PROVE  AnswersInv' /\ OverInv'
    OBVIOUS
  <2>1. AnswersInv' /\ AnswersOnce
    BY LoopStepsTheLine, AnswersStep
  <2> QED
    BY <2>1, OverStep
<1>3. OverInv => [TcpSer /\ dropped /\ ~InDriver /\ at = "read" /\ at' # at
                    => out = None \/ out.call # caller]_allVars
  BY DEF OverInv, SessionPlaces
<1> QED
  BY <1>1, <1>2, <1>3, PTL DEF LoopSpec, DroppedIsNotServed

=============================================================================
