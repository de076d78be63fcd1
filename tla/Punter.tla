-------------------------------- MODULE Punter --------------------------------
(***************************************************************************)
(* The Punter file transfer, src/net/punter.c: punter_send at one end of a *)
(* line and punter_recv at the other.  One of the two ends is the board,   *)
(* the other the caller's terminal; the file holds both halves of the      *)
(* protocol and no other definition of it is at hand.                      *)
(*                                                                         *)
(* The line carries items of a number of bytes: three-byte tokens, blocks  *)
(* and junk.  The code reads a number of bytes, not an item, so a block    *)
(* read as tokens, or a token lost in the middle of a block, is junk.      *)
(* Payloads are chunks of the file, known by their number.  A checksum     *)
(* finds every damage.                                                     *)
(***************************************************************************)
EXTENDS Integers, Sequences, SequencesExt

CONSTANTS
  FileSizes,   \* sizes of the files that are sent, in bytes
  PayloadMax,  \* PAYLOAD_MAX, 248
  Retries,     \* P_RETRIES, 10
  MaxFaults,   \* bound: how many faults a transfer meets
  Faults       \* a subset of FaultKinds

(* An item on the line is damaged, loses a byte, or is lost; a timer runs  *)
(* out although the other end is at work; a disk operation fails.          *)
FaultKinds == {"damage", "clip", "lose", "late", "open", "read", "write"}

ASSUME PunterAssumption ==
  /\ FileSizes \subseteq Nat \ {0}
  /\ PayloadMax \in Nat \ {0} /\ Retries \in Nat \ {0} /\ MaxFaults \in Nat
  /\ Faults \subseteq FaultKinds

VARIABLES
  size,     \* the size of the file that is sent
  toR,      \* items under way to the receiver
  toS,      \* items under way to the sender
  sAt,      \* where punter_send is
  sTries,   \* tries left of its p_hs or p_send_blk
  sBlk,     \* its s_blk
  ahead,    \* the chunk of the file in s_nxt
  isLast,   \* cur_is_last
  rAt,      \* where punter_recv is
  rTries,   \* tries left of its p_hs or p_recv_blk
  need,     \* next_blk_len
  stored,   \* the chunks written to the file
  luck      \* bound: faults still to come

line     == <<toR, toS>>
sender   == <<sAt, sTries, sBlk, ahead, isLast>>
receiver == <<rAt, rTries, need, stored>>
vars     == <<size, line, sender, receiver, luck>>

Header == 7
Chunks == (size + PayloadMax - 1) \div PayloadMax
ChunkLen(k) == IF k = Chunks THEN size - (k - 1) * PayloadMax ELSE PayloadMax

(* What is on the line: n is the length in bytes; of a block, chunk is its *)
(* payload (0: none), next the length of the block to follow, last whether *)
(* its index is 0xFFFF.                                                    *)
Item(what, n, chunk, next, last) ==
  [what |-> what, n |-> n, chunk |-> chunk, next |-> next, last |-> last]
Token(t) == Item(t, 3, 0, 0, FALSE)
Junk(n) == Item("junk", n, 0, 0, FALSE)
NoBlock == Item("none", 0, 0, 0, FALSE)

TypeBlock == Item("block", Header + 1, 0, Header, TRUE)

-----------------------------------------------------------------------------
(* prx: a read of n bytes ends when they are there.                        *)
BytesOf(items) == FoldLeft(LAMBDA sum, item : sum + item.n, 0, items)
Ready(items, n) == items # << >> /\ BytesOf(items) >= n
ReadItem(items, n) == IF Head(items).n = n THEN Head(items) ELSE Junk(n)
AfterRead(items, n) ==
  LET k == CHOOSE i \in 1..Len(items) :
             Ready(SubSeq(items, 1, i), n) /\ ~Ready(SubSeq(items, 1, i - 1), n)
      over == BytesOf(SubSeq(items, 1, k)) - n
  IN  (IF over > 0 THEN <<Junk(over)>> ELSE << >>) \o SubSeq(items, k + 1, Len(items))

Ended == {"ok", "err"}

Init ==
  /\ size \in FileSizes
  /\ toR = << >> /\ toS = << >>
  /\ sAt = "off" /\ sTries = 0 /\ sBlk = NoBlock /\ ahead = 0 /\ isLast = FALSE
  /\ rAt = "off" /\ rTries = 0 /\ need = 0 /\ stored = << >>
  /\ luck = MaxFaults

-----------------------------------------------------------------------------
(* punter_send                                                             *)

(* What it sends at the start of every try, and the token it waits for.    *)
Says(at, blk) ==
  CASE at = "goo"                         -> <<Token("GOO")>>
    [] at \in {"syncA", "syncB"}          -> <<Token("SYN")>>
    [] at = "ready"                       -> << >>
    [] at \in {"type", "info", "data"}    -> <<blk>>
    [] OTHER                              -> <<Token("ACK")>>
Wants(at) ==
  CASE at \in {"goo", "ready", "type", "info", "data"} -> "GOO"
    [] at \in {"syncA", "syncB"}                       -> "SYN"
    [] OTHER                                           -> "SB"

Enter(at, blk) ==
  /\ sAt' = at /\ sTries' = Retries /\ sBlk' = blk
  /\ toR' = toR \o Says(at, blk)

(* Reading the next chunk ahead.  A failed read counts as the end.         *)
LastReadBug(k) == k = Chunks + 1
LastRead(k) == k = Chunks
ReadAhead(k) ==
  \/ /\ ahead' = k /\ isLast' = LastRead(k)
     /\ UNCHANGED luck
  \/ /\ "read" \in Faults /\ luck > 0 /\ luck' = luck - 1
     /\ ahead' = 0 /\ isLast' = TRUE
AheadLen(k) == Header + (IF k = 0 THEN 0 ELSE ChunkLen(k))

InfoBlock == Item("block", Header, 0, AheadLen(ahead), FALSE)

(* The block of the chunk read ahead.  Unless that was the last the next   *)
(* chunk is read first: cur_is_last speaks of it from then on.             *)
DataBlockBug ==                            \* the buffer is read over first
  Item("block", AheadLen(ahead'), ahead', IF isLast THEN Header ELSE AheadLen(ahead'), isLast')
DataBlock ==
  Item("block", AheadLen(ahead), ahead, IF isLast THEN Header ELSE AheadLen(ahead'), isLast')
PrepareData ==
  /\ \/ ~isLast /\ ReadAhead(ahead + 1)
     \/ isLast /\ UNCHANGED <<ahead, isLast, luck>>
  /\ Enter("ackData", DataBlock)

Then == [goo |-> "ackType", ackType |-> "type", type |-> "ackA", ackA |-> "syncA",
         ackInfo |-> "info", ackData |-> "data", ackB |-> "syncB"]

(* The last S/B of a phase is not waited for.                              *)
EndPhase(at) ==
  /\ sAt' = at /\ toR' = Append(toR, Token("SB")) /\ sTries' = Retries
  /\ UNCHANGED <<sBlk, ahead, isLast, luck>>

(* The token it waited for is there.                                       *)
Expected ==
  \/ /\ sAt \in DOMAIN Then
     /\ Enter(Then[sAt], CASE sAt = "ackType" -> TypeBlock
                           [] sAt = "ackInfo" -> InfoBlock
                           [] OTHER -> sBlk)
     /\ UNCHANGED <<ahead, isLast, luck>>
  \/ sAt = "syncA" /\ EndPhase("ready")
  \/ sAt = "ready" /\ ReadAhead(1) /\ Enter("ackInfo", sBlk)
  \/ sAt = "info" /\ PrepareData
  \/ sAt = "data" /\ ~isLast /\ PrepareData
  \/ sAt = "data" /\ isLast /\ Enter("ackB", sBlk) /\ UNCHANGED <<ahead, isLast, luck>>
  \/ sAt = "syncB" /\ EndPhase("ok")

(* Anything else, or nothing: p_hs sends its token again, p_send_blk its   *)
(* block, until the tries are used up.                                     *)
AgainBug ==                                \* tries that are not counted
  /\ UNCHANGED <<sBlk, ahead, isLast, sAt, sTries>>
  /\ toR' = Says(sAt, sBlk)
Again ==
  /\ UNCHANGED <<sBlk, ahead, isLast>>
  /\ \/ /\ sTries > 1 /\ sTries' = sTries - 1
        /\ toR' = toR \o Says(sAt, sBlk) /\ sAt' = sAt
     \/ /\ sTries = 1 /\ sTries' = 0 /\ sAt' = "err" /\ UNCHANGED toR

(* disk_open, then the first token.                                        *)
SendStart ==
  /\ sAt = "off"
  /\ \/ /\ Enter("goo", sBlk) /\ UNCHANGED luck
     \/ /\ "open" \in Faults /\ luck > 0 /\ luck' = luck - 1
        /\ sAt' = "err" /\ UNCHANGED <<sTries, sBlk, toR>>
  /\ UNCHANGED <<size, toS, ahead, isLast, receiver>>

Sending == sAt \notin Ended \cup {"off"}

SendHears ==
  /\ Sending /\ Ready(toS, 3)
  /\ toS' = AfterRead(toS, 3)
  /\ IF ReadItem(toS, 3).what = Wants(sAt)
     THEN Expected
     ELSE Again /\ UNCHANGED luck
  /\ UNCHANGED <<size, receiver>>

-----------------------------------------------------------------------------
(* punter_recv                                                             *)

(* The bytes it waits for.                                                 *)
Awaits ==
  CASE rAt = "type" -> Header + 1
    [] rAt = "info" -> Header
    [] rAt = "data" -> need
    [] OTHER        -> 3
Receiving == rAt \notin Ended \cup {"off"}

(* The file is opened for writing, replacing one of that name, before the  *)
(* first token.                                                            *)
RecvStart ==
  /\ rAt = "off"
  /\ \/ /\ rAt' = "goo" /\ rTries' = Retries
        /\ toS' = Append(toS, Token("GOO")) /\ UNCHANGED luck
     \/ /\ "open" \in Faults /\ luck > 0 /\ luck' = luck - 1
        /\ rAt' = "err" /\ UNCHANGED <<rTries, toS>>
  /\ UNCHANGED <<size, toR, sender, need, stored>>

(* One step of the dialogue: answer with tokens and go on.                 *)
Reply(tokens, at) ==
  /\ toS' = toS \o tokens /\ rAt' = at
  /\ rTries' = (IF at \in {"ackInfo", "ackData"} THEN Retries ELSE 0)
  /\ UNCHANGED <<need, stored, luck>>

(* A try of p_hs or p_recv_blk is used up.                                 *)
RecvAgain(at, tokens) ==
  /\ \/ /\ rTries > 1 /\ rTries' = rTries - 1
        /\ rAt' = at /\ toS' = toS \o tokens
     \/ /\ rTries = 1 /\ rTries' = 0 /\ rAt' = "err"
        /\ toS' = (IF rAt \in {"info", "data"} THEN toS \o tokens ELSE toS)
  /\ UNCHANGED <<need, stored, luck>>

(* The dialogue outside the blocks.  Only the first step and the ACKs of   *)
(* p_recv_blk have tries; elsewhere a wrong token is the end.              *)
Dialogue(t) ==
  \/ /\ rAt = "goo"
     /\ IF t = "GOO" THEN Reply(<< >>, "ackType") ELSE RecvAgain("goo", <<Token("GOO")>>)
  \/ /\ rAt = "ackType"
     /\ IF t = "ACK" THEN Reply(<<Token("SB")>>, "type") ELSE Reply(<< >>, "err")
  \/ /\ rAt = "ackA"
     /\ IF t = "ACK" THEN Reply(<<Token("SB")>>, "syncA") ELSE Reply(<< >>, "err")
  \/ /\ rAt = "syncA"
     /\ IF t = "SYN" THEN Reply(<<Token("SYN")>>, "endA") ELSE Reply(<< >>, "err")
  \/ /\ rAt = "endA"
     /\ IF t = "SB" THEN Reply(<<Token("GOO")>>, "ackInfo") ELSE Reply(<< >>, "err")
  \/ /\ rAt = "ackB"
     /\ IF t = "ACK" THEN Reply(<<Token("SB")>>, "syncB") ELSE Reply(<< >>, "err")
  \/ /\ rAt = "syncB"
     /\ IF t = "SYN" THEN Reply(<<Token("SYN")>>, "endB") ELSE Reply(<< >>, "err")
  \/ /\ rAt = "endB" /\ Reply(<< >>, "ok")     \* whatever the last token is

(* p_recv_blk waits for an ACK before every try; the block's s_blk[4..6]   *)
(* say what follows.  The payload is written after the block was accepted. *)
BlockAck(t) ==
  \/ /\ rAt = "ackInfo"
     /\ IF t = "ACK"
        THEN /\ toS' = Append(toS, Token("SB")) /\ rAt' = "info"
             /\ UNCHANGED <<rTries, need, stored, luck>>
        ELSE RecvAgain("ackInfo", << >>)
  \/ /\ rAt = "ackData"
     /\ IF t = "ACK"
        THEN /\ toS' = Append(toS, Token("SB")) /\ rAt' = "data"
             /\ UNCHANGED <<rTries, need, stored, luck>>
        ELSE RecvAgain("ackData", << >>)

FollowedBy(b) == IF b.last THEN "ackB" ELSE "ackData"

WriteFails == "write" \in Faults /\ luck > 0

Goes(b, chunks) ==
  /\ need' = b.next /\ stored' = chunks /\ rAt' = FollowedBy(b)
  /\ rTries' = (IF rAt' = "ackData" THEN Retries ELSE 0)

AcceptBug(b) ==                            \* the result of disk_putc ignored
  \/ /\ Goes(b, IF rAt = "data" /\ b.chunk # 0 THEN Append(stored, b.chunk) ELSE stored)
     /\ UNCHANGED luck
  \/ WriteFails /\ luck' = luck - 1 /\ rAt = "data" /\ Goes(b, stored)
Accept(b) ==
  \/ /\ Goes(b, IF rAt = "data" /\ b.chunk # 0 THEN Append(stored, b.chunk) ELSE stored)
     /\ UNCHANGED luck
  \/ /\ WriteFails /\ luck' = luck - 1
     /\ rAt = "data" /\ b.chunk # 0
     /\ rAt' = "err" /\ rTries' = 0 /\ UNCHANGED <<need, stored>>

BlockRead(b) ==
  \/ /\ rAt = "type"
     /\ IF b.what = "block"
        THEN Reply(<<Token("GOO")>>, "ackA")
        ELSE Reply(<<Token("BAD")>>, "err")
  \/ /\ rAt \in {"info", "data"} /\ b.what = "block"
     /\ toS' = Append(toS, Token("GOO")) /\ Accept(b)
  \/ /\ rAt \in {"info", "data"} /\ b.what # "block"
     /\ RecvAgain(IF rAt = "info" THEN "ackInfo" ELSE "ackData", <<Token("BAD")>>)

RecvHears ==
  /\ Receiving /\ Ready(toR, Awaits)
  /\ toR' = AfterRead(toR, Awaits)
  /\ LET item == ReadItem(toR, Awaits)
     IN  Dialogue(item.what) \/ BlockAck(item.what) \/ BlockRead(item)
  /\ UNCHANGED <<size, sender>>

-----------------------------------------------------------------------------
(* Timers.  A read of one second runs out when the bytes cannot come any   *)
(* more, the other end being not there or waiting itself, or, as a fault,  *)
(* while the other end is slow (a 1541 takes longer than that for a block).*)
(* The bytes read so far are gone.                                         *)
SenderIsStuck == ~Sending \/ ~Ready(toS, 3)
ReceiverIsStuck == ~Receiving \/ ~Ready(toR, Awaits)

Slow(stuck) ==
  IF stuck THEN UNCHANGED luck
           ELSE "late" \in Faults /\ luck > 0 /\ luck' = luck - 1

SendTimesOut ==
  /\ Sending /\ ~Ready(toS, 3) /\ Slow(ReceiverIsStuck)
  /\ toS' = << >> /\ Again
  /\ UNCHANGED <<size, receiver>>

(* Where there are no tries a timeout is the end, but for the last token;  *)
(* an ACK that p_recv_blk waits for in vain is the end at once.            *)
RecvTimesOut ==
  /\ Receiving /\ ~Ready(toR, Awaits) /\ Slow(SenderIsStuck)
  /\ toR' = << >>
  /\ \/ /\ rAt = "goo" /\ rTries > 1 /\ rTries' = rTries - 1
        /\ toS' = Append(toS, Token("GOO")) /\ rAt' = rAt
     \/ /\ rAt \in {"info", "data"} /\ rTries > 1 /\ rTries' = rTries - 1
        /\ toS' = Append(toS, Token("BAD"))
        /\ rAt' = (IF rAt = "info" THEN "ackInfo" ELSE "ackData")
     \/ /\ \/ rAt = "goo" /\ rTries = 1
           \/ rAt \in {"ackType", "ackA", "syncA", "endA", "ackInfo", "ackData", "ackB", "syncB"}
        /\ rAt' = "err" /\ rTries' = 0 /\ UNCHANGED toS
     \/ /\ \/ rAt = "type"
           \/ rAt \in {"info", "data"} /\ rTries = 1
        /\ rAt' = "err" /\ rTries' = 0
        /\ toS' = Append(toS, Token("BAD"))
     \/ /\ rAt = "endB" /\ rAt' = "ok" /\ rTries' = 0 /\ UNCHANGED toS
  /\ UNCHANGED <<size, sender, need, stored>>

-----------------------------------------------------------------------------
(* The line: an item arrives as junk, with a byte less, or not at all.     *)
Mangled(items, i) ==
  { ReplaceAt(items, i, Junk(items[i].n)) : x \in Faults \cap {"damage"} }
  \cup { ReplaceAt(items, i, Junk(items[i].n - 1)) : x \in Faults \cap {"clip"} }
  \cup { RemoveAt(items, i) : x \in Faults \cap {"lose"} }

LineFault ==
  /\ luck > 0 /\ luck' = luck - 1
  /\ \/ /\ \E i \in 1..Len(toR) : toR[i].n > 0 /\ toR' \in Mangled(toR, i)
        /\ UNCHANGED toS
     \/ /\ \E i \in 1..Len(toS) : toS[i].n > 0 /\ toS' \in Mangled(toS, i)
        /\ UNCHANGED toR
  /\ UNCHANGED <<size, sender, receiver>>

Finished ==
  /\ sAt \in Ended /\ rAt \in Ended
  /\ UNCHANGED vars

Next ==
  \/ SendStart \/ SendHears \/ SendTimesOut
  \/ RecvStart \/ RecvHears \/ RecvTimesOut
  \/ LineFault \/ Finished

Spec == Init /\ [][Next]_vars

-----------------------------------------------------------------------------
(* Properties                                                              *)

Steps == {"off", "goo", "ackType", "type", "ackA", "syncA", "ackInfo", "info",
          "ackData", "data", "ackB", "syncB"} \cup Ended

TypeOK ==
  /\ size \in FileSizes
  /\ sAt \in Steps \cup {"ready"} /\ sTries \in 0..Retries
  /\ rAt \in Steps \cup {"endA", "endB"} /\ rTries \in 0..Retries
  /\ ahead \in 0..Chunks /\ isLast \in BOOLEAN /\ luck \in 0..MaxFaults
  /\ need \in 0..(Header + PayloadMax)
  /\ \A k \in DOMAIN stored : stored[k] \in 1..Chunks

(* What the receiver has written is a beginning of the file that is sent,  *)
(* every chunk once and in order, whatever the line loses, damages or      *)
(* delays and however often a block is sent again.                         *)
StoredIsPrefix == \A k \in DOMAIN stored : stored[k] = k

(* An end that reports success has the other end's word for it: every      *)
(* block that the sender made is stored, and the receiver does not fail    *)
(* after the sender has reported success.                                  *)
SuccessIsAgreed ==
  /\ sAt = "ok" \/ rAt = "ok" => isLast /\ Len(stored) = sBlk.chunk
  /\ sAt = "ok" => rAt \in {"endB", "ok"}

(* "Data blocks (index starts at 1; last block gets index 0xFFFF)": when   *)
(* the sender reports success the whole file has been stored.              *)
WholeFileIsStored == sAt = "ok" => Len(stored) = Chunks

=============================================================================
