-------------------------------- MODULE Zmodem --------------------------------
(***************************************************************************)
(* The Zmodem transfer, src/net/zmodem.c, which features/xfer.c runs:      *)
(* zmodem_send or zmodem_recv at the board's end and the caller's terminal *)
(* program at the other.  The terminal is not in the repository; it is a   *)
(* Zmodem that follows the protocol as the code expects it, starts again   *)
(* where a ZRPOS says, and may give up.                                    *)
(*                                                                         *)
(* The line carries frames: headers, and subpackets of data known by the   *)
(* number of their chunk, "final" the one that ends with ZCRCE.  A CRC     *)
(* finds every damage.  What hunts for a header passes over everything     *)
(* else; what reads a subpacket takes the bytes of a header for data.      *)
(* Each definition named ...Bug is the next one with a mistake in it; only *)
(* the mutants listed in PROJECT.json use them.                            *)
(***************************************************************************)
EXTENDS Integers, Sequences

CONSTANTS
  Roles,      \* a subset of {"send", "recv"}: what the board does
  FileChunks, \* lengths of files in subpackets of 255 bytes
  Resends,    \* bound: how often the terminal starts again
  ZLuck,      \* bound: how many faults a transfer meets
  ZFaults     \* a subset of {"damage", "lose", "late", "open", "read", "write", "cancel"}

ASSUME ZmodemAssumption ==
  /\ Roles \subseteq {"send", "recv"} /\ FileChunks \subseteq Nat
  /\ Resends \in Nat /\ ZLuck \in Nat
  /\ ZFaults \subseteq {"damage", "lose", "late", "open", "read", "write", "cancel"}

VARIABLES
  role,    \* what the board does
  fileLen,  \* the length of the file
  zAt,     \* where zmodem_send or zmodem_recv is
  retries, \* its loop counter
  fpos,    \* the chunks sent, or written, so far
  disk,    \* recv: the chunks written to the file, in their order
  toTerm,  \* frames under way to the terminal
  toBoard, \* frames under way to the board
  tAt,     \* the state of the terminal
  tPos,    \* the chunks it has stored, or sent, so far
  tAgain,  \* bound: how often it has started again
  zLuck    \* bound: faults still to come

zBoard   == <<zAt, retries, fpos, disk>>
zLine    == <<toTerm, toBoard>>
terminal == <<tAt, tPos, tAgain>>
zVars    == <<role, fileLen, zBoard, zLine, terminal, zLuck>>

ZEnded == {"ok", "err", "cancel"}

Frame(t, n) == [t |-> t, n |-> n]
HeaderTypes == {"ZRQINIT", "ZRINIT", "ZFILE", "ZRPOS", "ZDATA", "ZEOF", "ZFIN", "ZSKIP"}
Hdr(t) == Frame(t, 0)
CAN == Frame("CAN", 0)             \* z_send_cancel, or CTRL-X five times
DataPacket(k) == Frame(IF k = fileLen THEN "final" ELSE "packet", k)

-----------------------------------------------------------------------------
(* Receiving.                                                              *)

First(items, types) ==
  CHOOSE i \in 0..Len(items) :
    /\ \A j \in 1..(i - 1) : items[j].t \notin types
    /\ IF i = 0 THEN \A j \in 1..Len(items) : items[j].t \notin types
                ELSE items[i].t \in types
After(items, i) == SubSeq(items, i + 1, Len(items))

(* z_recv_header: a header of which a digit is wrong ends the wait.        *)
HeaderStops == HeaderTypes \cup {"CAN", "broken"}
HeaderAt(items) == First(items, HeaderStops)

(* z_recv_data_pkt: up to the end of a subpacket; anything before it, and  *)
(* any damage, is a CRC error.                                             *)
PacketStops == {"packet", "final", "name", "bad", "CAN"}
PacketAt(items) == First(items, PacketStops)
PacketBug(items, i) ==                     \* the CRC is not compared
  IF items[i].t = "bad" THEN Frame("final", 0) ELSE items[i]
Packet(items, i) ==
  IF items[i].t = "CAN" \/ i = 1 THEN items[i] ELSE Frame("bad", 0)

(* What the board waits for, and what there is.  z_rx_byte waits ten       *)
(* seconds for each byte.                                                  *)
WaitsForPacket == zAt \in {"name", "data"}
NextAt(items) == IF WaitsForPacket THEN PacketAt(items) ELSE HeaderAt(items)
Heard(items) == IF WaitsForPacket THEN Packet(items, NextAt(items)) ELSE items[NextAt(items)]

Transmits(frames) == toTerm' = toTerm \o frames
GoTo(at) == zAt' = at /\ retries' = 0
Retry(limit, frames) ==
  IF retries + 1 < limit
  THEN zAt' = zAt /\ retries' = retries + 1 /\ Transmits(frames)
  ELSE GoTo("err") /\ UNCHANGED toTerm

-----------------------------------------------------------------------------
(* zmodem_send                                                             *)

ZInit ==
  /\ role \in Roles /\ fileLen \in FileChunks
  /\ zAt = "off" /\ retries = 0 /\ fpos = 0 /\ disk = << >>
  /\ toTerm = << >> /\ toBoard = << >>
  /\ tAt = "on" /\ tPos = 0 /\ tAgain = 0 /\ zLuck = ZLuck

Misfortune(f) == f \in ZFaults /\ zLuck > 0 /\ zLuck' = zLuck - 1

ZStart ==
  /\ zAt = "off"
  /\ \/ /\ role = "send" /\ GoTo("rqinit") /\ Transmits(<<Hdr("ZRQINIT")>>) /\ UNCHANGED zLuck
     \/ /\ role = "recv" /\ GoTo("file") /\ Transmits(<<Hdr("ZRINIT")>>) /\ UNCHANGED zLuck
     \/ /\ role = "send" /\ Misfortune("open") /\ GoTo("err") /\ UNCHANGED toTerm
  /\ UNCHANGED <<role, fileLen, fpos, disk, toBoard, terminal>>

(* The frame f, "none" after a timeout or a broken header.                 *)
SendHeader(f) ==
  \/ /\ zAt = "rqinit"
     /\ CASE f = "ZRINIT" -> GoTo("rpos") /\ Transmits(<<Hdr("ZFILE"), Frame("name", 0)>>)
          [] f = "CAN"    -> GoTo("cancel") /\ Transmits(<<CAN>>)
          [] OTHER        -> Retry(4, <<Hdr("ZRQINIT")>>)
  \/ /\ zAt = "rpos"
     /\ CASE f = "ZRPOS" -> GoTo("stream") /\ Transmits(<<Hdr("ZDATA")>>)
          [] f = "ZSKIP" -> GoTo("ok") /\ UNCHANGED toTerm
          [] f = "CAN"   -> GoTo("cancel") /\ Transmits(<<CAN>>)
          [] OTHER       -> Retry(5, << >>)
  \/ /\ zAt = "eof"
     /\ \/ f = "CAN" /\ GoTo("cancel") /\ Transmits(<<CAN>>)
        \/ f = "ZRINIT" /\ GoTo("fin") /\ Transmits(<<Hdr("ZFIN")>>)
        \/ f \notin {"CAN", "ZRINIT"} /\
             LET again == IF f = "ZRPOS" THEN <<Frame("ZEOF", fpos)>> ELSE << >>
             IN  IF retries + 1 < 10
                 THEN Retry(10, again)
                 ELSE GoTo("fin") /\ Transmits(again \o <<Hdr("ZFIN")>>)
  \/ /\ zAt = "fin" /\ GoTo("ok") /\ UNCHANGED toTerm  \* whatever it answers

IsLastBug == fpos' + 1 >= fileLen          \* one too early
IsLast == fpos' = fileLen                  \* a short read, or disk_eof

(* The file goes out without a look at what comes in.  A read that fails   *)
(* counts as the end.                                                      *)
Stream ==
  /\ zAt = "stream"
  /\ \/ /\ fpos < fileLen /\ fpos' = fpos + 1 /\ UNCHANGED zLuck
        /\ IF IsLast
           THEN GoTo("eof") /\ Transmits(<<DataPacket(fpos'), Frame("ZEOF", fpos')>>)
           ELSE GoTo("stream") /\ Transmits(<<DataPacket(fpos')>>)
     \/ /\ IF fileLen = 0 THEN UNCHANGED zLuck ELSE Misfortune("read")
        /\ UNCHANGED fpos
        /\ GoTo("eof") /\ Transmits(<<Frame("ZEOF", fpos)>>)
  /\ UNCHANGED <<role, fileLen, disk, toBoard, terminal>>

-----------------------------------------------------------------------------
(* zmodem_recv                                                             *)

RecvHeader(f) ==
  \/ /\ zAt = "file"
     /\ CASE f = "ZFILE"   -> GoTo("name") /\ UNCHANGED toTerm
          [] f = "ZFIN"    -> GoTo("ok") /\ Transmits(<<Hdr("ZRINIT")>>)
          [] f = "CAN"     -> GoTo("cancel") /\ Transmits(<<CAN>>)
          [] f = "ZRQINIT" -> zAt' = zAt /\ retries' = 1 /\ Transmits(<<Hdr("ZRINIT")>>)
          [] OTHER         -> Retry(10, << >>)
  \/ /\ zAt = "zdata"
     /\ CASE f = "ZDATA" -> GoTo("data") /\ UNCHANGED toTerm
          [] f = "CAN"   -> GoTo("cancel") /\ Transmits(<<CAN>>)
          [] OTHER       -> Retry(5, << >>)
  \/ /\ zAt = "last"
     /\ \/ f = "CAN" /\ GoTo("cancel") /\ Transmits(<<CAN>>)
        \/ f = "ZFIN" /\ GoTo("ok") /\ Transmits(<<Frame("OO", 0)>>)
        \/ f \notin {"CAN", "ZFIN"} /\
             IF retries + 1 < 10 THEN Retry(10, << >>) ELSE GoTo("ok") /\ Transmits(<<Frame("OO", 0)>>)

(* The name, which is not used; then the file is opened.                   *)
RecvName(f) ==
  /\ zAt = "name"
  /\ \/ f = "name" /\ GoTo("zdata") /\ Transmits(<<Frame("ZRPOS", 0)>>) /\ UNCHANGED zLuck
     \/ f = "name" /\ Misfortune("open") /\ GoTo("err") /\ Transmits(<<CAN>>)
     \/ f # "name" /\ GoTo("err") /\ Transmits(<<CAN>>) /\ UNCHANGED zLuck
  /\ UNCHANGED <<fpos, disk>>

(* After a CRC error the terminal is told where to go on, and the board    *)
(* reads on.                                                               *)
RecvData(p) ==
  /\ zAt = "data"
  /\ \/ /\ p.t \in {"packet", "final"}
        /\ disk' = Append(disk, p.n) /\ fpos' = fpos + (IF p.n = 0 THEN 0 ELSE 1)
        /\ IF p.t = "final" THEN GoTo("last") /\ Transmits(<<Hdr("ZRINIT")>>)
                            ELSE GoTo("data") /\ UNCHANGED toTerm
        /\ UNCHANGED zLuck
     \/ /\ p.t \in {"packet", "final"} /\ p.n # 0 /\ Misfortune("write")
        /\ GoTo("err") /\ Transmits(<<CAN>>) /\ UNCHANGED <<disk, fpos>>
     \/ /\ p.t \in {"bad", "name"} /\ Transmits(<<Frame("ZRPOS", fpos)>>)
        /\ UNCHANGED <<zAt, retries, disk, fpos, zLuck>>
     \/ /\ p.t = "CAN" /\ GoTo("cancel") /\ Transmits(<<CAN>>) /\ UNCHANGED <<disk, fpos, zLuck>>

Hearing == zAt \notin ZEnded \cup {"off", "stream"}

ZHears ==
  /\ Hearing /\ NextAt(toBoard) # 0
  /\ toBoard' = After(toBoard, NextAt(toBoard))
  /\ LET p == Heard(toBoard)
         f == IF p.t = "broken" THEN "none" ELSE p.t
     IN  \/ /\ SendHeader(f) \/ (role = "recv" /\ RecvHeader(f))
            /\ UNCHANGED <<fpos, disk, zLuck>>
         \/ RecvName(f)
         \/ RecvData(p)
  /\ UNCHANGED <<role, fileLen, terminal>>

(* Ten seconds without a byte, or no carrier: the terminal is gone, waits  *)
(* itself or, as a fault, is slow.                                         *)
TermIsSilent == tAt # "stream" /\ (tAt = "gone" \/ toTerm = << >>)
ZTimesOut ==
  /\ Hearing /\ NextAt(toBoard) = 0
  /\ IF TermIsSilent THEN UNCHANGED zLuck ELSE Misfortune("late")
  /\ toBoard' = << >>
  /\ \/ SendHeader("none") \/ (role = "recv" /\ RecvHeader("none"))
     \/ zAt = "name" /\ GoTo("err") /\ Transmits(<<CAN>>)
     \/ zAt = "data" /\ GoTo("err") /\ UNCHANGED toTerm
  /\ UNCHANGED <<role, fileLen, fpos, disk, terminal>>

-----------------------------------------------------------------------------
(* The terminal, and the line.                                             *)

Answers(frames) == toBoard' = toBoard \o frames
Board(v) == UNCHANGED <<role, fileLen, zBoard, v>>

(* It receives the file the board sends.                                   *)
TermReceives(f) ==
  /\ role = "send"
  /\ CASE f.t = "ZRQINIT" -> Answers(<<Hdr("ZRINIT")>>) /\ UNCHANGED <<tAt, tPos>>
       [] f.t = "name" -> /\ \/ Answers(<<Frame("ZRPOS", 0)>>)
                             \/ Answers(<<Hdr("ZSKIP")>>)
                          /\ UNCHANGED <<tAt, tPos>>
       [] f.t \in {"packet", "final"} /\ f.n = tPos + 1 ->
            tPos' = f.n /\ UNCHANGED <<tAt, toBoard>>
       [] f.t = "ZEOF" /\ f.n = tPos -> Answers(<<Hdr("ZRINIT")>>) /\ UNCHANGED <<tAt, tPos>>
       [] \/ f.t \in {"packet", "final"} /\ f.n # tPos + 1
          \/ f.t = "ZEOF" /\ f.n # tPos
          \/ f.t = "bad" ->
            Answers(<<Frame("ZRPOS", tPos)>>) /\ UNCHANGED <<tAt, tPos>>
       [] f.t = "ZFIN" -> Answers(<<Hdr("ZFIN")>>) /\ tAt' = "done" /\ UNCHANGED tPos
       [] f.t = "CAN"  -> tAt' = "gone" /\ UNCHANGED <<tPos, toBoard>>
       [] OTHER        -> UNCHANGED <<tAt, tPos, toBoard>>
  /\ UNCHANGED tAgain

(* It sends a file, its headers in binary.                                 *)
TermSends(f) ==
  /\ role = "recv"
  /\ \/ /\ f.t = "ZRINIT" /\ tAt = "on" /\ tAt' = "offered"
        /\ Answers(<<Hdr("ZFILE"), Frame("name", 0)>>) /\ UNCHANGED <<tPos, tAgain>>
     \/ /\ f.t = "ZRINIT" /\ tAt = "sent" /\ tAt' = "done"
        /\ Answers(<<Hdr("ZFIN")>>) /\ UNCHANGED <<tPos, tAgain>>
     \/ /\ f.t = "ZRPOS" /\ tAt \in {"offered", "stream", "sent"}
        /\ IF tAgain < Resends
           THEN /\ tAgain' = tAgain + 1 /\ tPos' = f.n /\ tAt' = "stream"
                /\ Answers(<<Hdr("ZDATA")>>)
           ELSE tAt' = "gone" /\ Answers(<<CAN>>) /\ UNCHANGED <<tPos, tAgain>>
     \/ /\ f.t \in {"CAN", "OO"} /\ tAt' = "gone" /\ UNCHANGED <<tPos, tAgain, toBoard>>
     \/ /\ ~(f.t = "ZRINIT" /\ tAt \in {"on", "sent"})
        /\ ~(f.t = "ZRPOS" /\ tAt \in {"offered", "stream", "sent"})
        /\ f.t \notin {"CAN", "OO"}
        /\ UNCHANGED <<terminal, toBoard>>

TermHears ==
  /\ tAt # "gone" /\ toTerm # << >> /\ toTerm' = Tail(toTerm)
  /\ TermReceives(Head(toTerm)) \/ TermSends(Head(toTerm))
  /\ Board(zLuck)

TermStreams ==
  /\ tAt = "stream"
  /\ IF tPos + 1 >= fileLen
     THEN /\ Answers(<<DataPacket(fileLen), Frame("ZEOF", fileLen)>>)
          /\ tPos' = fileLen /\ tAt' = "sent"
     ELSE Answers(<<DataPacket(tPos + 1)>>) /\ tPos' = tPos + 1 /\ tAt' = "stream"
  /\ UNCHANGED tAgain /\ Board(<<toTerm, zLuck>>)

(* It asks first; it has nothing to send; it goes, or the caller does.     *)
TermActs ==
  /\ \/ /\ role = "recv" /\ tAt = "on" /\ tAgain < Resends
        /\ \/ tAgain' = tAgain + 1 /\ Answers(<<Hdr("ZRQINIT")>>) /\ UNCHANGED tAt
           \/ tAt' = "gone" /\ Answers(<<Hdr("ZFIN")>>) /\ UNCHANGED tAgain
        /\ UNCHANGED zLuck
     \/ /\ tAt # "gone" /\ tAt' = "gone" /\ Misfortune("cancel")
        /\ Answers(<<CAN>>) \/ UNCHANGED toBoard
        /\ UNCHANGED tAgain
  /\ UNCHANGED tPos /\ Board(toTerm)

Garbled(items, i) ==
  LET put(t) == [items EXCEPT ![i] = Frame(t, 0)]
  IN  (IF "lose" \in ZFaults THEN {SubSeq(items, 1, i - 1) \o After(items, i)} ELSE {})
      \cup (IF "damage" \notin ZFaults THEN {}
            ELSE {put("junk"), put(IF items[i].t \in HeaderTypes THEN "broken" ELSE "bad")})
ZLineFault ==
  /\ zLuck > 0 /\ zLuck' = zLuck - 1
  /\ \/ (\E i \in 1..Len(toTerm) : toTerm' \in Garbled(toTerm, i)) /\ UNCHANGED toBoard
     \/ (\E i \in 1..Len(toBoard) : toBoard' \in Garbled(toBoard, i)) /\ UNCHANGED toTerm
  /\ UNCHANGED <<role, fileLen, zBoard, terminal>>

ZFinished ==
  /\ zAt \in ZEnded /\ (tAt = "gone" \/ toTerm = << >>) /\ tAt # "stream"
  /\ UNCHANGED zVars

ZNext ==
  \/ ZStart \/ Stream \/ ZHears \/ ZTimesOut
  \/ TermHears \/ TermStreams \/ TermActs
  \/ ZLineFault \/ ZFinished

ZSpec == ZInit /\ [][ZNext]_zVars

-----------------------------------------------------------------------------
(* Properties                                                              *)

ZTypeOK ==
  /\ zAt \in {"off", "rqinit", "rpos", "stream", "eof", "fin",
              "file", "name", "zdata", "data", "last"} \cup ZEnded
  /\ retries \in 0..10 /\ fpos \in Nat
  /\ tAt \in {"on", "offered", "stream", "sent", "done", "gone"}

(* When nothing goes wrong on the line, a file that the board has received *)
(* is the terminal's, and a terminal that the board takes leave of has the *)
(* whole of the board's.                                                   *)
CleanTransferIsWhole ==
  zLuck = ZLuck =>
    /\ zAt = "ok" /\ disk # << >> => disk = (IF fileLen = 0 THEN <<0>> ELSE [k \in 1..fileLen |-> k])
    /\ role = "send" /\ tAt = "done" => tPos = fileLen

(* Whatever is lost or damaged, the board never takes a file for complete  *)
(* that breaks off: the last chunk it has written is the file's last.      *)
CompleteReachesTheEnd == zAt = "ok" /\ disk # << >> => disk[Len(disk)] = fileLen

=============================================================================
