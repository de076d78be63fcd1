------------------------------- MODULE NetLine -------------------------------
(***************************************************************************)
(* The modem line: the driver (src/platform/cbmdos/net.c) with its parser  *)
(* of modem result codes (src/net/at_response.c), the interrupt that fills *)
(* the receive ring, and the modem at the other end of the wire, which is  *)
(* either the Ultimate 64 (U64: the DSR line follows the TCP session) or   *)
(* VICE with tcpser (result codes only; DSR reads the same all the time).  *)
(*                                                                         *)
(* net_rx reads the DSR line four times and the ring once per byte; every  *)
(* read is a step, and the modem and the interrupt move between them.  The *)
(* client is the most general one: any net_rx or net_disconnect at any     *)
(* time.  Bytes are tokens: a result code is one token, "CR" ends a line   *)
(* and "data" stands for everything else.                                  *)
(***************************************************************************)
EXTENDS Integers, Sequences, FiniteSets

CONSTANTS
  Modems,     \* the modem types the board may resolve to at boot
  RingSize,   \* bytes of the receive ring, 128
  Wrap,       \* modulus of the ring counters, 256
  MaxCalls,   \* bound: how many callers connect
  MaxTyped,   \* bound: how many bytes the callers send
  Typed,      \* what a caller sends, a subset of Kinds
  WireLen,    \* bound: tokens on their way to the ACIA
  Faults      \* a subset of FaultKinds

Kinds == {"data", "CR", "CONNECT", "NOCARRIER"}

(* A new TCP session may follow the old one faster than the driver polls; a *)
(* byte may reach the ACIA before the last one was fetched; the ring may be *)
(* filled past its end; tcpser may need longer to hang up than the three    *)
(* seconds net_disconnect gives it ("lazy").  The Ultimate is given none.   *)
FaultKinds == {"quick", "overrun", "overflow", "lazy"}

ASSUME NetLineAssumption ==
  /\ Modems \subseteq {"U64", "VICE"}
  /\ RingSize \in Nat \ {0}
  /\ Wrap \in Nat /\ Wrap > RingSize /\ Wrap % RingSize = 0
  /\ MaxCalls \in Nat /\ MaxTyped \in Nat /\ WireLen \in Nat
  /\ Typed \subseteq Kinds
  /\ Faults \subseteq FaultKinds

VARIABLES
  Modem,        \* the resolved modem type, fixed at boot
  state,        \* s_state
  line,         \* s_at.line: "", a result code, or "junk"
  atConn,       \* s_at.connected
  sawInactive,  \* s_saw_dsr_inactive
  wasActive,    \* s_dsr_was_active
  reg,          \* the receive register of the ACIA, or None
  buf,          \* s_rx_buf
  head,         \* s_rx_head
  tail,         \* s_rx_tail
  pc,           \* the step net_rx or net_disconnect is at, "out" outside
  want,         \* the bytes that net_rx is asked for, 0 or 1
  out,          \* the byte net_rx has put in the buffer, or None
  dsr,          \* the DSR line: a TCP session is bridged
  wire,         \* tokens on their way to the ACIA
  live,         \* the caller on the line, 0 when none
  hang,         \* the modem was told to hang up and has not done it yet
  calls,        \* history: how many callers have connected
  sent,         \* history: how many bytes the callers have sent
  serving,      \* history: the caller the driver last connected to
  answered,     \* history: the callers the driver has connected to
  last          \* history: the number of the last byte handed out

driver == <<state, line, atConn, sawInactive, wasActive>>
ring   == <<reg, buf, head, tail>>
call   == <<pc, want, out>>
modem  == <<dsr, wire, live, hang, calls, sent>>
ghost  == <<serving, answered>>
vars   == <<driver, ring, call, modem, ghost, last>>

None == [kind |-> "none", call |-> 0, n |-> 0]

(* "Resolved once at net_init time": no step changes Modem.                *)

(* The bytes a caller sends are numbered.                                  *)
Byte(kind, c, n) == [kind |-> kind, call |-> c, n |-> n]

TcpSer == Modem = "VICE"     \* the modem of the emulator

(* resolve_modem_type and net_init: VICE forces result codes, U64 the DSR  *)
(* line.                                                                   *)
AtModeBug == FALSE                                \* as before s_at_mode
AtMode == Modem = "VICE"

(* The ring counters are bytes.                                            *)
Bump(counter) == (counter + 1) % Wrap

Init ==
  /\ Modem \in Modems
  /\ state = "idle" /\ line = "" /\ atConn = FALSE /\ wasActive = FALSE
  /\ reg = None /\ buf = [i \in 0..(RingSize - 1) |-> None]
  /\ head = 0 /\ tail = 0
  /\ pc = "out" /\ want = 0 /\ out = None
  /\ dsr \in (IF Modem = "VICE" THEN BOOLEAN ELSE {FALSE})
  /\ sawInactive = ~dsr
  /\ wire = << >> /\ live = 0 /\ hang = FALSE /\ calls = 0 /\ sent = 0
  /\ serving = 0 /\ answered = {} /\ last = 0

-----------------------------------------------------------------------------
(* The AT parser.                                                          *)

(* One more byte of a line.  A line that starts with CONNECT is that code  *)
(* whatever follows (the speed); the others must match to the end.         *)
Extended(kind) ==
  CASE line = "" -> IF kind = "data" THEN "junk" ELSE kind
    [] line = "CONNECT" -> "CONNECT"
    [] OTHER -> "junk"

(* The event a byte completes: only a line end completes one, and while    *)
(* connected only NO CARRIER counts.                                       *)
EventBug(b) ==                             \* deaf while connected
  IF b.kind = "CR" /\ ~atConn /\ line \in {"CONNECT", "NOCARRIER"}
  THEN line
  ELSE "none"
Event(b) ==
  IF b.kind # "CR" THEN "none"
  ELSE IF line = "NOCARRIER" \/ (line = "CONNECT" /\ ~atConn) THEN line
  ELSE "none"

-----------------------------------------------------------------------------
(* net_rx.                                                                 *)

Rx(w) ==
  /\ pc = "out"
  /\ pc' = "carrier" /\ want' = w /\ out' = None
  /\ UNCHANGED <<driver, ring, modem, ghost, last>>

(* The first reading of DSR: the caller of a session that had a carrier is *)
(* gone.                                                                   *)
Carrier ==
  /\ pc = "carrier"
  /\ pc' = "track"
  /\ IF state = "connected" /\ wasActive /\ ~dsr
     THEN state' = "dropping" /\ line' = "" /\ atConn' = FALSE
     ELSE UNCHANGED <<state, line, atConn>>
  /\ UNCHANGED <<sawInactive, wasActive, want, out, ring, modem, ghost, last>>

(* The second: this session has a carrier.                                 *)
Track ==
  /\ pc = "track"
  /\ pc' = "release"
  /\ wasActive' = (wasActive \/ (~AtMode /\ state = "connected" /\ dsr))
  /\ UNCHANGED <<state, line, atConn, sawInactive, want, out, ring, modem,
                 ghost, last>>

(* The third: the line is free again.                                      *)
ReleaseBug ==                              \* waits in vain for DSR
  /\ pc = "release"
  /\ pc' = "answer"
  /\ IF state = "dropping" /\ ~dsr /\ wasActive
     THEN state' = "idle" /\ sawInactive' = TRUE
     ELSE UNCHANGED <<state, sawInactive>>
  /\ UNCHANGED <<line, atConn, wasActive, want, out, ring, modem, ghost, last>>
Release ==
  /\ pc = "release"
  /\ pc' = "answer"
  /\ IF state = "dropping" /\ (~dsr \/ ~wasActive)
     THEN state' = "idle" /\ sawInactive' = TRUE
     ELSE UNCHANGED <<state, sawInactive>>
  /\ UNCHANGED <<line, atConn, wasActive, want, out, ring, modem, ghost, last>>

(* The fourth: a carrier on a free line is a new call.                     *)
Answer ==
  /\ pc = "answer"
  /\ pc' = "drain"
  /\ sawInactive' = (sawInactive \/ ~dsr)
  /\ IF ~AtMode /\ state = "idle" /\ sawInactive /\ dsr
     THEN /\ state' = "connected" /\ atConn' = TRUE /\ wasActive' = TRUE
          /\ serving' = live /\ answered' = answered \cup {live}
     ELSE UNCHANGED <<state, atConn, wasActive, ghost>>
  /\ UNCHANGED <<line, want, out, ring, modem, last>>

(* One byte from the ring through process_inbound.                         *)
Full == state = "connected" /\ (want = 0 \/ out # None)

SlotBug(counter) == (counter + 1) % RingSize
Slot(counter) == counter % RingSize

TakeByte ==
  LET b == buf[Slot(head)]
      e == Event(b)
      app == atConn
      state2 == CASE e = "CONNECT" /\ state = "idle" -> "connected"
                  [] e = "NOCARRIER" -> "dropping"
                  [] OTHER -> state
  IN  /\ pc = "drain"
      /\ head # tail
      /\ ~Full
      /\ head' = Bump(head)
      /\ line' = IF b.kind = "CR" THEN "" ELSE Extended(b.kind)
      /\ atConn' = (e = "CONNECT" \/ (atConn /\ e # "NOCARRIER"))
      /\ state' = state2
      /\ IF state # "connected" /\ state2 = "connected"
         THEN serving' = b.call /\ answered' = answered \cup {b.call}
         ELSE UNCHANGED ghost
      /\ IF app /\ state2 = "connected" /\ want > 0
         THEN out' = b /\ last' = IF b.n = 0 THEN last ELSE b.n
         ELSE UNCHANGED <<out, last>>
      /\ UNCHANGED <<sawInactive, wasActive, reg, buf, tail, pc, want, modem>>

RxReturn ==
  /\ pc = "drain"
  /\ head = tail \/ Full
  /\ pc' = "out"
  /\ UNCHANGED <<driver, ring, want, out, modem, ghost, last>>

-----------------------------------------------------------------------------
(* net_disconnect.  With result codes, +++ and ATH go out first and the    *)
(* modem has seconds to answer them; otherwise DTR falls and nothing is    *)
(* waited for.  Either way the modem is told to hang up.                   *)
Disconnect ==
  /\ pc = "out"
  /\ pc' = "hang" /\ out' = None
  /\ hang' = (live # 0)
  /\ UNCHANGED <<driver, ring, want, dsr, wire, live, calls, sent, ghost, last>>

HangUp ==
  /\ pc = "hang"
  /\ ~hang \/ ~TcpSer \/ "lazy" \in Faults
  /\ pc' = "out"
  /\ state' = "dropping" /\ line' = "" /\ atConn' = FALSE
  /\ sawInactive' = FALSE /\ wasActive' = FALSE
  /\ head' = tail
  /\ UNCHANGED <<want, out, reg, buf, tail, modem, ghost, last>>

-----------------------------------------------------------------------------
(* The modem and the callers.                                              *)

(* A result code is a line of its own.                                     *)
Result(kind, c) == <<Byte("CR", c, 0), Byte(kind, c, 0), Byte("CR", c, 0)>>

(* The modem answers by itself (ATS0=1).  Unless callers are quick, the    *)
(* next one comes when the driver has noticed that the last one is gone.   *)
Connect ==
  /\ live = 0 /\ ~hang
  /\ calls < MaxCalls
  /\ "quick" \in Faults
       \/ (state # "connected" /\ pc = "out" /\ wire = << >> /\ reg = None
           /\ head = tail)
  /\ calls' = calls + 1
  /\ live' = calls + 1
  /\ IF TcpSer
     THEN Len(wire) + 3 <= WireLen
          /\ wire' = wire \o Result("CONNECT", calls + 1) /\ UNCHANGED dsr
     ELSE dsr' = TRUE /\ UNCHANGED wire
  /\ UNCHANGED <<hang, sent, driver, ring, call, ghost, last>>

(* The caller sends a byte.                                                *)
Type(kind) ==
  /\ live # 0
  /\ sent < MaxTyped /\ Len(wire) < WireLen
  /\ sent' = sent + 1
  /\ wire' = Append(wire, Byte(kind, live, sent + 1))
  /\ UNCHANGED <<dsr, live, hang, calls, driver, ring, call, ghost, last>>

(* The line goes down.  The Ultimate passes on what it has received, then  *)
(* drops DSR; tcpser sends a result code.                                  *)
Down ==
  /\ live # 0
  /\ live' = 0 /\ hang' = FALSE
  /\ IF TcpSer
     THEN Len(wire) + 3 <= WireLen
          /\ wire' = wire \o Result("NOCARRIER", live) /\ UNCHANGED dsr
     ELSE dsr' = FALSE /\ wire' = IF hang THEN << >> ELSE wire
  /\ UNCHANGED <<calls, sent, driver, ring, call, ghost, last>>

CallerLeaves == ~hang /\ (TcpSer \/ wire = << >>) /\ Down
ModemHangsUp == hang /\ Down

(* A byte reaches the ACIA, which holds only one.                          *)
Arrive ==
  /\ wire # << >>
  /\ reg = None \/ "overrun" \in Faults
  /\ wire' = Tail(wire)
  /\ reg' = IF reg = None THEN Head(wire) ELSE reg
  /\ UNCHANGED <<dsr, live, hang, calls, sent, driver, buf, head, tail, call,
                 ghost, last>>

(* acia_irq_isr: it does not look how full the ring is.                    *)
Isr ==
  /\ reg # None
  /\ (tail - head) % Wrap < RingSize \/ "overflow" \in Faults
  /\ buf' = [buf EXCEPT ![tail % RingSize] = reg]
  /\ tail' = Bump(tail)
  /\ reg' = None
  /\ UNCHANGED <<driver, head, call, modem, ghost, last>>

-----------------------------------------------------------------------------
InsideDriver ==
  \/ Carrier \/ Track \/ Release \/ Answer \/ TakeByte \/ RxReturn \/ HangUp

Outside ==
  \/ Connect
  \/ \E kind \in Typed : Type(kind)
  \/ CallerLeaves
  \/ ModemHangsUp
  \/ Arrive
  \/ Isr

Next ==
  \/ \E w \in {0, 1} : Rx(w)
  \/ Disconnect
  \/ InsideDriver
  \/ Outside

Spec == Init /\ [][Next /\ UNCHANGED Modem]_<<vars, Modem>>

-----------------------------------------------------------------------------
(* Properties.                                                             *)

ByteRecord == [kind : Kinds \cup {"none"}, call : 0..MaxCalls, n : 0..MaxTyped]

(* The variables have their types.                                         *)
TypeOK ==
  /\ state \in {"idle", "connected", "dropping"}
  /\ line \in {"", "junk"} \cup Kinds
  /\ atConn \in BOOLEAN /\ sawInactive \in BOOLEAN /\ wasActive \in BOOLEAN
  /\ reg \in ByteRecord /\ buf \in [0..(RingSize - 1) -> ByteRecord]
  /\ head \in 0..(Wrap - 1) /\ tail \in 0..(Wrap - 1)
  /\ pc \in {"out", "carrier", "track", "release", "answer", "drain", "hang"}
  /\ want \in {0, 1} /\ out \in ByteRecord
  /\ dsr \in BOOLEAN /\ wire \in Seq(ByteRecord)
  /\ live \in 0..MaxCalls /\ hang \in BOOLEAN
  /\ calls \in 0..MaxCalls /\ sent \in 0..MaxTyped
  /\ serving \in 0..MaxCalls /\ answered \subseteq 0..MaxCalls
  /\ last \in 0..MaxTyped

(* With result codes, a byte net_rx hands out was sent by the caller the   *)
(* driver is connected to: nothing of an earlier call, left over in the ring, the register or  *)
(* the line, is ever taken for the new caller's input.                     *)
PayloadIsOfServedCall == TcpSer /\ out # None => out.call = serving

(* The caller's bytes are handed out at most once and in the order they    *)
(* were sent (those of a result code, which pass through while connected,  *)
(* carry no number).                                                       *)
PayloadInOrder ==
  [][out' # None /\ out = None => out'.n = 0 \/ out'.n > last]_vars

(* "Each call cycle requires a real inactive -> active edge" (net.c): a    *)
(* caller is connected once.  A line the board has hung up on is taken for *)
(* a new call only on the Ultimate, and only while its modem is still      *)
(* hanging up: net_disconnect does not wait, and has forgotten the carrier. *)
AnsweredAgainInHangup ==
  [][state # "connected" /\ state' = "connected" /\ serving' \in answered
       => ~TcpSer /\ hang]_vars

=============================================================================
