-------------------------------- MODULE Reader --------------------------------
(***************************************************************************)
(* The message reader (src/features/bulletin.c) and each caller's read     *)
(* pointers (src/data/usrptr.c, the file USR.PTR): moving through boards   *)
(* and messages, and what this marks as read, is written back when the     *)
(* caller leaves.  A board is what MessageBoards promises, a growing list  *)
(* of messages that can be removed from view; how the message base keeps   *)
(* that promise write by write is MsgBase's subject.                       *)
(* Each definition named ...Bug is the next one with a mistake in it; only *)
(* the mutants listed in PROJECT.json use them.                            *)
(***************************************************************************)
EXTENDS Integers, FiniteSets, Sequences, FiniteSetsExt

CONSTANTS
  Boards,       \* ids of the boards, in the order of the directory
  Users,        \* user ids
  Ops,          \* the users who may kill any message
  Limit,        \* effective limit of a board
  PruneBatch,   \* CFG_MSG_PRUNE_BATCH
  MaxMsgs,      \* bound: messages posted, on all boards together
  ReaderFaults        \* a subset of ReaderFaultKinds

(* USR.PTR cannot be read when the caller enters, or not written when he   *)
(* leaves; the record of a board cannot be read; the power goes.           *)
ReaderFaultKinds == {"load", "save", "board", "power"}

ASSUME ReaderAssumption ==
  /\ Boards \subseteq Nat \ {0} /\ 1 \in Boards /\ IsFiniteSet(Boards)
  /\ Users \subseteq Nat \ {0} /\ Ops \subseteq Users
  /\ Limit \in Nat \ {0} /\ PruneBatch \in Nat \ {0} /\ MaxMsgs \in Nat
  /\ ReaderFaults \subseteq ReaderFaultKinds

VARIABLES
  index,    \* [board -> sequence of messages], the message base
  marks,    \* [user -> [board -> message]], the file USR.PTR
  at,       \* the loop that waits for a key: "menu", "boards" or "reading"
  reader,   \* s_sess->user_id, 0 when nobody reads
  ptr,      \* s_ptr, the caller's read pointers in memory
  cur,      \* s_board.id, 0 until a board was read
  curMsg,   \* s_cur_msg
  author,   \* s_cur_info.author_id
  key,      \* history: the last command, if it was "N"
  brought,  \* history: the board and message current when the caller came
  shown,    \* history: [board -> messages shown on this visit]
  read      \* history: [user -> [board -> highest one shown, saved visits]]

place == <<at, reader, cur>>
msg   == <<curMsg, author>>
readerVars == <<index, marks, place, ptr, msg, key, brought, shown, read>>

Nothing == <<0, 0>>

-----------------------------------------------------------------------------
Exists(m) == m \in DOMAIN index[cur]
Live(b)   == {m \in DOMAIN index[b] : index[b][m].live}

(* msg_next_unread_any: the first message in view above a mark.            *)
IsFirstAboveBug(mark, m) ==                \* the mark itself counts as new
  /\ m \in Live(cur) /\ m >= mark
  /\ \A n \in Live(cur) : n >= mark => m <= n
IsFirstAbove(mark, m) ==
  /\ m \in Live(cur) /\ m > mark
  /\ \A n \in Live(cur) : n > mark => m <= n

NoneAbove(mark) == \A n \in Live(cur) : n <= mark

(* usrptr_advance.                                                         *)
AdvancedBug(p, m) ==                       \* the mark can fall
  [p EXCEPT ![cur] = m]
Advanced(p, m) == IF m > p[cur] THEN [p EXCEPT ![cur] = m] ELSE p

(* display_msg shows a message in view and remembers it and its author;    *)
(* for any other number it prints a line and changes nothing.              *)
Display(m) ==
  IF m \in Live(cur)
  THEN /\ curMsg' = m
       /\ author' = index[cur][m].author
       /\ shown' = [shown EXCEPT ![cur] = @ \cup {m}]
  ELSE UNCHANGED <<msg, shown>>

(* msg_prune_quantity removes the oldest messages of a full board.         *)
Oldest(b) ==
  {m \in Live(b) : Cardinality({n \in Live(b) : n < m}) < PruneBatch}

Pruned(b) ==
  IF Cardinality(Live(b)) < Limit THEN index[b]
  ELSE [m \in DOMAIN index[b] |->
          IF m \in Oldest(b) THEN [index[b][m] EXCEPT !.live = FALSE]
          ELSE index[b][m]]

(* A message of an earlier visit was current when the caller came.         *)
LeftOver == brought[2] # 0

(* The highest message ever shown to the caller, this visit included.      *)
HighestShown(b) == Max(shown[b] \cup {read[reader][b]})

ReaderInit ==
  /\ index = [b \in Boards |-> << >>]
  /\ marks = [u \in Users |-> [b \in Boards |-> 0]]
  /\ at = "menu" /\ reader = 0 /\ cur = 0
  /\ ptr = [b \in Boards |-> 0]
  /\ curMsg = 0 /\ author = 0 /\ key = ""
  /\ brought = Nothing
  /\ shown = [b \in Boards |-> {}]
  /\ read = [u \in Users |-> [b \in Boards |-> 0]]

-----------------------------------------------------------------------------
(* Entering and leaving.                                                   *)

(* bull_load_board: no message of the board has been displayed yet.  If its *)
(* record cannot be read, which no caller of it looks at, everything stays. *)
LoadBoardBug(b) ==                         \* the last board's message stays
  cur' = b /\ UNCHANGED msg
LoadBoard(b) ==
  \/ cur' = b /\ curMsg' = 0 /\ UNCHANGED author
  \/ "board" \in ReaderFaults /\ UNCHANGED <<cur, msg>>

(* bulletin_run: usrptr_load clears the pointers before it opens the file, *)
(* and its result is not looked at; nor is that of loading the first board, *)
(* without which the board and the message of the last visit are current.  *)
Enter(u) ==
  /\ at = "menu"
  /\ at' = "boards" /\ reader' = u /\ key' = ""
  /\ \/ ptr' = marks[u]
     \/ "load" \in ReaderFaults /\ ptr' = [b \in Boards |-> 0]
  /\ LoadBoard(1)
  /\ brought' = <<cur', curMsg'>>
  /\ shown' = [b \in Boards |-> {}]
  /\ UNCHANGED <<index, marks, read>>

(* The pointers are a local variable; the board and the message are static. *)
Closed ==
  /\ at' = "menu" /\ reader' = 0 /\ key' = "" /\ brought' = Nothing
  /\ ptr' = [b \in Boards |-> 0]
  /\ shown' = [b \in Boards |-> {}]

(* Q at the boards prompt, or the carrier is gone: both loops break and    *)
(* the pointers are saved.                                                 *)
LeaveReader ==
  /\ at # "menu"
  /\ Closed
  /\ \/ /\ marks' = [marks EXCEPT ![reader] = ptr]
        /\ read' = [read EXCEPT ![reader] = IF LeftOver THEN ptr ELSE
                      [b \in Boards |-> HighestShown(b)]]
     \/ "save" \in ReaderFaults /\ UNCHANGED <<marks, read>>
  /\ UNCHANGED <<index, cur, msg>>

PowerLoss ==
  /\ "power" \in ReaderFaults
  /\ at # "menu"
  /\ Closed
  /\ cur' = 0 /\ curMsg' = 0 /\ author' = 0
  /\ UNCHANGED <<index, marks, read>>

-----------------------------------------------------------------------------
(* Commands of both loops.  Without a board they find nothing.             *)

Command(k) ==
  /\ cur # 0
  /\ key' = k
  /\ UNCHANGED <<marks, reader, brought, read>>

(* N, at the boards prompt R alone too: the next new message, if any.      *)
ReadNew ==
  /\ at # "menu"
  /\ Command("N")
  /\ \/ \E m \in Live(cur) :
          /\ IsFirstAbove(ptr[cur], m)
          /\ Display(m) /\ ptr' = Advanced(ptr, m)
          /\ at' = "reading"
     \/ NoneAbove(ptr[cur]) /\ UNCHANGED <<msg, shown, ptr, at>>
  /\ UNCHANGED <<index, cur>>

(* R#: any number.  It is marked if it is not the message shown before;    *)
(* the reading loop starts when any message of the board was shown.        *)
ReadNumber(m) ==
  /\ at # "menu"
  /\ Command("")
  /\ Display(m)
  /\ ptr' = IF curMsg' # curMsg THEN Advanced(ptr, curMsg') ELSE ptr
  /\ at' = IF curMsg' > 0 THEN "reading" ELSE at
  /\ UNCHANGED <<index, cur>>

(* A message is posted; a full board is pruned first.                      *)
AllMessages == UNION {{b} \X DOMAIN index[b] : b \in Boards}

Posted ==
  /\ Cardinality(AllMessages) < MaxMsgs
  /\ index' = [index EXCEPT ![cur] =
       Append(Pruned(cur), [author |-> reader, live |-> TRUE])]
  /\ UNCHANGED <<at, cur, ptr, msg, shown>>

-----------------------------------------------------------------------------
(* The boards prompt.                                                      *)

(* ENTER: the first message in view.                                       *)
ReadFirst ==
  /\ at = "boards"
  /\ Command("")
  /\ \/ \E m \in Live(cur) :
          /\ IsFirstAbove(0, m)
          /\ Display(m) /\ ptr' = Advanced(ptr, m)
          /\ at' = "reading"
     \/ NoneAbove(0) /\ UNCHANGED <<msg, shown, ptr, at>>
  /\ UNCHANGED <<index, cur>>

Post == at = "boards" /\ Command("") /\ Posted

(* +, - or a number.                                                       *)
ChangeBoard(b) ==
  /\ at = "boards"
  /\ LoadBoard(b)
  /\ key' = ""
  /\ UNCHANGED <<index, marks, at, reader, ptr, brought, shown, read>>

-----------------------------------------------------------------------------
(* The reading prompt.                                                     *)

(* ENTER: the message with the next number; past the highest number the    *)
(* loop ends.                                                              *)
ReadNext ==
  /\ at = "reading"
  /\ Command("")
  /\ \/ /\ ~Exists(curMsg + 1)
        /\ at' = "boards" /\ UNCHANGED <<msg, shown, ptr>>
     \/ /\ Exists(curMsg + 1)
        /\ Display(curMsg + 1) /\ UNCHANGED at
        /\ ptr' = IF curMsg + 1 \in Live(cur) THEN Advanced(ptr, curMsg')
                  ELSE ptr
  /\ UNCHANGED <<index, cur>>

Reply == at = "reading" /\ curMsg # 0 /\ Command("") /\ Posted

(* K: by the author or an operator; killing ends the loop.                 *)
Kill ==
  /\ at = "reading" /\ curMsg # 0
  /\ author = reader \/ reader \in Ops
  /\ Command("")
  /\ index' = [index EXCEPT ![cur][curMsg].live = FALSE]
  /\ curMsg' = 0 /\ at' = "boards"
  /\ UNCHANGED <<cur, ptr, author, shown>>

EndReading ==
  /\ at = "reading"
  /\ Command("")
  /\ at' = "boards"
  /\ UNCHANGED <<index, cur, ptr, msg, shown>>

-----------------------------------------------------------------------------
ReaderNext ==
  \/ \E u \in Users : Enter(u)
  \/ LeaveReader \/ PowerLoss
  \/ ReadNew \/ \E m \in 1..(MaxMsgs + 1) : ReadNumber(m)
  \/ ReadFirst \/ Post \/ \E b \in Boards : ChangeBoard(b)
  \/ ReadNext \/ Reply \/ Kill \/ EndReading

ReaderSpec == ReaderInit /\ [][ReaderNext]_readerVars

-----------------------------------------------------------------------------
(* Properties.                                                             *)

Message == [author : Users, live : BOOLEAN]
Pointers == [Boards -> 0..MaxMsgs]
Currents == (Boards \cup {0}) \X (0..MaxMsgs)

(* The variables have their types.                                         *)
ReaderTypeOK ==
  /\ index \in [Boards -> Seq(Message)]
  /\ marks \in [Users -> Pointers]
  /\ at \in {"menu", "boards", "reading"}
  /\ reader \in Users \cup {0} /\ cur \in Boards \cup {0}
  /\ ptr \in Pointers
  /\ curMsg \in 0..MaxMsgs /\ author \in Users \cup {0}
  /\ key \in {"", "N"} /\ brought \in Currents
  /\ shown \in [Boards -> SUBSET (1..MaxMsgs)]
  /\ read \in [Users -> Pointers]

(* The message that * replies to, K kills and R shows again is one of this *)
(* board, and it is its author that K is checked against.  The caller was  *)
(* shown it on this visit, also after a change of board, an unknown number, *)
(* a kill or a post, unless no board could be read when he came: then it   *)
(* may be the one that an earlier visit, his or another's, left.           *)
CurrentWasShown ==
  at # "menu" /\ curMsg # 0 =>
    /\ Exists(curMsg) /\ author = index[cur][curMsg].author
    /\ curMsg \in shown[cur] \/ brought = <<cur, curMsg>>

(* "hwm[board_id - 1] = last msg_id read on that board" (records.h): the   *)
(* mark is the highest number the caller was ever shown, whatever order he *)
(* read in, unless a visit's marks were lost, or a message was left over   *)
(* from an earlier visit: shown again, it is not marked.                   *)
MarkIsHighestRead ==
  at # "menu" /\ ~LeftOver => \A b \in Boards : ptr[b] = HighestShown(b)

(* The message shown as the next new one was never shown to this caller on *)
(* this or a saved visit, and no message above his last is passed over.    *)
NewIsNextUnread ==
  [][key' = "N" /\ curMsg' # curMsg /\ ~LeftOver
       => /\ curMsg' > HighestShown(cur)
          /\ \A m \in Live(cur) : m < curMsg' => m <= HighestShown(cur)]_readerVars

=============================================================================
