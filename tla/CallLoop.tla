------------------------------ MODULE CallLoop ------------------------------
(***************************************************************************)
(* The board's only thread: main_loop (src/main.c) with terminal detection *)
(* (src/hal/term.c), session_step and the character reads of              *)
(* src/session/session.c, as the client of the modem driver of NetLine.    *)
(* Every session passes through here, whatever its caller does; a feature  *)
(* (boards, files, mail, ...) is a loop that waits on sess_getc and leaves *)
(* when the carrier is gone, or, in the editor, one that does not look.    *)
(***************************************************************************)
EXTENDS NetLine

CONSTANTS
  Operator,     \* what the SysOp does: a subset of {"logon", "kick"}
  IdleTimeout,  \* idle_timeout_mins is not 0
  DailyLimit,   \* the caller's level has a MINS/DAY limit
  Confirms,     \* callers use the editor's ABORT? prompt
  Eager         \* callers dial while the last session is still being ended

ASSUME CallLoopAssumption ==
  /\ Operator \subseteq {"logon", "kick"}
  /\ {IdleTimeout, DailyLimit, Confirms, Eager} \subseteq BOOLEAN

VARIABLES
  at,         \* where the thread is, see Places
  reader,     \* who waits for a byte: "step", "feature" or "confirm"
  local,      \* session.is_local
  stage,      \* session.state
  idle,       \* the caller's idle limit has run out
  idleFired,  \* s_idle_fired
  time,       \* MINS/DAY: "off", "armed" or "out"
  user,       \* session.user_id # 0
  caller,     \* history: the call the session was begun for, 0 if local
  dropped,    \* history: the board has hung up on this session's caller
  owed        \* history: logins without an entry in CALLERS yet

session == <<reader, local, stage, idle, idleFired, time, user, caller,
             dropped, owed>>
loop    == <<at, session>>
allVars == <<vars, loop>>

Places == {"wfc", "ring", "detect", "detected", "top", "carrier", "step",
           "getc", "read", "idle", "spy", "time", "back", "poll", "end",
           "settle", "settled"}

LoopInit ==
  /\ Init
  /\ at = "wfc" /\ reader = "step" /\ local = FALSE /\ stage = "over"
  /\ idle = FALSE /\ idleFired = FALSE /\ time = "off" /\ user = FALSE
  /\ caller = 0 /\ dropped = FALSE /\ owed = 0

InDriver == pc # "out"

(* The thread goes on, without the driver.                                 *)
Go(from, to) ==
  /\ ~InDriver
  /\ at = from /\ at' = to
  /\ UNCHANGED vars

(* It calls net_rx, or hangs up.                                           *)
Receive(from, w, to) == at = from /\ at' = to /\ Rx(w)
Drop(from, to) == at = from /\ at' = to /\ Disconnect

-----------------------------------------------------------------------------
(* Waiting for a call.                                                     *)

Poll == Receive("wfc", 0, "ring") /\ UNCHANGED session

(* session_init.                                                           *)
Begin(isLocal) ==
  /\ local' = isLocal /\ caller' = IF isLocal THEN 0 ELSE serving
  /\ stage' = "login" /\ user' = FALSE /\ time' = "off" /\ dropped' = FALSE
  /\ reader' = "step" /\ idle' = FALSE
  /\ UNCHANGED <<idleFired, owed>>

NewCall == state = "connected" /\ Go("ring", "detect") /\ Begin(FALSE)

LocalLogon ==
  /\ "logon" \in Operator
  /\ state # "connected"
  /\ Go("ring", "top") /\ Begin(TRUE)

NoCall == state # "connected" /\ Go("ring", "wfc") /\ UNCHANGED session

(* Terminal detection, until a choice is made, three were wrong, the       *)
(* caller is gone or idle.                                                 *)
Detect == Receive("detect", 1, "detected") /\ UNCHANGED session

(* session_spy_init starts the idle watchdog.                              *)
Watch ==
  /\ idle' = FALSE /\ idleFired' = FALSE
  /\ UNCHANGED <<reader, local, stage, time, user, caller, owed>>

Detected ==
  LET byte == out # None
      gone == ~byte /\ state # "connected"
  IN  \/ (byte \/ gone) /\ Go("detected", "top") /\ Watch /\ UNCHANGED dropped
      \/ /\ byte \/ (~gone /\ ~idle)
         /\ Go("detected", "detect") /\ UNCHANGED session
      \/ /\ byte \/ (~gone /\ idle)
         /\ ~InDriver /\ Drop("detected", "top") /\ Watch /\ dropped' = TRUE

-----------------------------------------------------------------------------
(* The session loop.                                                       *)

(* While the session lives, a remote one needs a carrier.                  *)
Top ==
  IF local THEN Go("top", "step") /\ UNCHANGED session
           ELSE Receive("top", 0, "carrier") /\ UNCHANGED session

Check == state = "connected"
Carried ==
  /\ Go("carrier", IF Check THEN "step" ELSE "end")
  /\ UNCHANGED session

(* session_step: the prompt, the goodbye, or one byte of input.            *)
Goodbye ==
  /\ stage = "bye"
  /\ Go("step", "poll") /\ stage' = "over"
  /\ UNCHANGED <<reader, local, idle, idleFired, time, user, caller, dropped,
                 owed>>

Step ==
  /\ stage # "bye"
  /\ ~local
  /\ Receive("step", 1, "read")
  /\ UNCHANGED session

(* What a key does at the login prompts and in a menu.  The first menu     *)
(* arms the daily limit.                                                   *)
LogIn ==
  /\ stage = "login" /\ stage' = "menu"
  /\ user' = TRUE /\ owed' = owed + 1
  /\ time' = IF DailyLimit /\ ~local THEN "armed" ELSE "off"
Leave == stage' = "bye" /\ UNCHANGED <<user, owed, time>>
Stay == UNCHANGED <<stage, user, owed, time>>

LocalStep ==
  /\ local /\ stage # "bye"
  /\ Go("step", "poll")
  /\ LogIn \/ Leave \/ Stay
  /\ UNCHANGED <<reader, local, idle, idleFired, caller, dropped>>

(* A byte came: the idle watchdog starts again.                            *)
Key ==
  /\ at = "read" /\ ~InDriver /\ out # None
  /\ idle' = FALSE
  /\ UNCHANGED <<local, idleFired, caller>>
  /\ \/ /\ reader = "step"
        /\ Go("read", "poll") /\ (LogIn \/ Leave \/ Stay)
        /\ UNCHANGED <<reader, dropped>>
     \/ /\ reader = "step" /\ stage = "login"          \* too many tries
        /\ Drop("read", "poll") /\ stage' = "over" /\ dropped' = TRUE
        /\ UNCHANGED <<reader, user, owed, time>>
     \/ /\ reader = "step" /\ stage = "menu"           \* into a feature
        /\ Go("read", "getc") /\ reader' = "feature"
        /\ UNCHANGED dropped /\ Stay
     \/ /\ reader = "feature"                          \* out of it
        /\ Go("read", "poll") /\ reader' = "step"
        /\ UNCHANGED dropped /\ Stay
     \/ /\ reader = "feature"
        /\ Go("read", "getc")
        /\ reader' \in {"feature"} \cup (IF Confirms THEN {"confirm"} ELSE {})
        /\ UNCHANGED dropped /\ Stay
     \/ /\ reader = "confirm"
        /\ Go("read", "getc") /\ reader' = "feature"
        /\ UNCHANGED dropped /\ Stay

NoKey == out = None /\ Go("read", "idle") /\ UNCHANGED session

(* sess_getc: sess_rx_byte and, when nothing came, the SysOp's keys and    *)
(* the daily limit.                                                        *)
Getc == Receive("getc", 1, "read") /\ UNCHANGED session

Hanging(from, to) ==
  /\ ~InDriver
  /\ Drop(from, to) /\ dropped' = TRUE
  /\ UNCHANGED <<reader, local, stage, idle, user, caller, owed>>

(* sess_idle_check.                                                        *)
IdleCheckBug(to) ==                        \* fires when it has fired
  IF idle /\ idleFired
  THEN Hanging("idle", to) /\ UNCHANGED <<idleFired, time>>
  ELSE Go("idle", to) /\ UNCHANGED session
IdleCheck(to) ==
  IF idle /\ ~idleFired
  THEN Hanging("idle", to) /\ idleFired' = TRUE /\ UNCHANGED time
  ELSE Go("idle", to) /\ UNCHANGED session

Idle == IdleCheck(IF reader = "step" THEN "poll" ELSE "spy")

(* session_spy_poll: F2 drops the caller.                                  *)
Spy(from, to) ==
  \/ Go(from, to) /\ UNCHANGED session
  \/ /\ "kick" \in Operator /\ ~local
     /\ Hanging(from, to) /\ UNCHANGED <<idleFired, time>>

(* session_time_check, which runs at the reads of a feature only.          *)
TimeCheck ==
  IF time = "out"
  THEN Hanging("time", "back") /\ time' = "off" /\ UNCHANGED idleFired
  ELSE Go("time", "back") /\ UNCHANGED session

(* The feature looks at the carrier; the ABORT? prompt does not.           *)
LooksBug == {"step"}
Looks == {"feature"}
Back ==
  LET unwinds == reader \in Looks /\ state # "connected"
  IN  /\ Go("back", IF unwinds THEN "poll" ELSE "getc")
      /\ reader' = IF unwinds THEN "step" ELSE reader
      /\ UNCHANGED <<local, stage, idle, idleFired, time, user, caller,
                     dropped, owed>>

LoopPoll == Spy("poll", IF stage = "over" THEN "end" ELSE "top")

(* After the session: callers_log and session_done, then the line is       *)
(* released and the driver polled twice.                                   *)
EndBug ==                                  \* logs who did not log in
  /\ ~InDriver
  /\ at = "end"
  /\ owed' = owed - 1
  /\ IF local THEN Go("end", "wfc") ELSE Drop("end", "settle")
  /\ UNCHANGED <<reader, local, stage, idle, idleFired, time, caller, user,
                 dropped>>
End ==
  /\ ~InDriver
  /\ owed' = owed - IF user THEN 1 ELSE 0
  /\ IF local THEN Go("end", "wfc") ELSE Drop("end", "settle")
  /\ UNCHANGED <<reader, local, stage, idle, idleFired, time, caller, user,
                 dropped>>

Settle ==
  /\ Receive("settle", 0, "settled") \/ Receive("settled", 0, "wfc")
  /\ UNCHANGED session

-----------------------------------------------------------------------------
InSession ==
  at \in {"detect", "detected", "top", "carrier", "step", "getc", "read",
          "idle", "spy", "time", "back", "poll"}

(* The clock.                                                              *)
IdleRunsOut ==
  /\ IdleTimeout /\ InSession /\ ~local /\ ~idle
  /\ idle' = TRUE
  /\ UNCHANGED <<vars, at, reader, local, stage, idleFired, time, user,
                 caller, dropped, owed>>

TimeRunsOut ==
  /\ time = "armed" /\ InSession
  /\ time' = "out"
  /\ UNCHANGED <<vars, at, reader, local, stage, idle, idleFired, user,
                 caller, dropped, owed>>

Thread ==
  \/ Poll \/ NewCall \/ LocalLogon \/ NoCall
  \/ Detect \/ Detected
  \/ Top \/ Carried \/ Goodbye \/ Step \/ LocalStep
  \/ Key \/ NoKey \/ Getc \/ Idle \/ Spy("spy", "time") \/ TimeCheck \/ Back
  \/ LoopPoll \/ End \/ Settle
  \/ InsideDriver /\ UNCHANGED loop

(* Unless callers are eager, they dial when the board waits for a call.    *)
World ==
  /\ Outside
  /\ calls' # calls => Eager \/ at = "wfc"
  /\ UNCHANGED loop

LoopNext == Thread \/ World \/ IdleRunsOut \/ TimeRunsOut

LoopSpec == LoopInit /\ [][LoopNext /\ UNCHANGED Modem]_<<allVars, Modem>>

(* The thread runs, the clock ticks, bytes under way arrive, and the modem *)
(* does hang up.                                                           *)
LoopFairSpec ==
  /\ LoopSpec
  /\ WF_allVars(Thread)
  /\ WF_allVars(IdleRunsOut)
  /\ WF_allVars(TimeRunsOut)
  /\ WF_allVars(Arrive /\ UNCHANGED loop)
  /\ WF_allVars(Isr /\ UNCHANGED loop)
  /\ WF_allVars(ModemHangsUp /\ UNCHANGED loop)

-----------------------------------------------------------------------------
(* Properties.                                                             *)

(* The variables have their types.                                         *)
LoopTypeOK ==
  /\ TypeOK
  /\ at \in Places /\ reader \in {"step", "feature", "confirm"}
  /\ {local, idle, idleFired, user, dropped} \subseteq BOOLEAN
  /\ stage \in {"login", "menu", "bye", "over"}
  /\ time \in {"off", "armed", "out"}
  /\ caller \in 0..MaxCalls
  /\ owed \in 0..1

(* "Run session until logoff or carrier drop" (main.c): a session acts on  *)
(* nobody's keys but those of the caller it was begun for.                 *)
SessionServesOneCall ==
  InSession /\ ~local /\ out # None => out.call = caller

(* A session that hangs up on its caller is over: net_disconnect leaves    *)
(* NET_CONNECTED, "which the net_state checks in every feature loop (and   *)
(* the main loop) detect to unwind the session" (session.c).  Nothing that *)
(* is typed reaches it any more.                                           *)
DroppedIsOver ==
  [][dropped /\ ~InDriver /\ at = "read" /\ at' # at => out = None]_allVars

(* With result codes this is so of the caller who was hung up on, idle,    *)
(* out of time or kicked: the session takes no key of his any more.        *)
DroppedIsNotServed ==
  [][TcpSer /\ dropped /\ ~InDriver /\ at = "read" /\ at' # at
       => out = None \/ out.call # caller]_allVars

(* When the board waits for a call, CALLERS has one entry for each login.  *)
EachLoginIsLogged == at = "wfc" => owed = 0

(* A caller who has left does not keep the board: it waits for a call      *)
(* again, unless the next caller is on the line.                           *)
BoardComesBack ==
  live = 0 /\ InSession /\ ~local ~> at = "wfc" \/ live # 0

(* A caller who stays on the line gets a session of his own.               *)
EachCallIsTaken ==
  \A c \in 1..MaxCalls : live = c ~> live # c \/ (InSession /\ caller = c)

(* A silent caller is dropped when the idle limit has run out.             *)
IdleCallersAreDropped ==
  InSession /\ idle ~> ~idle \/ at = "wfc"

=============================================================================
