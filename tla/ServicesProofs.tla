---------------------------- MODULE ServicesProofs ----------------------------
(* What holds of the message reader, the file areas, the daily accounting,    *)
(* the configuration and the overlays, for every size, number and setting of  *)
(* theirs, and of all seven parts of the board beside each other.             *)
EXTENDS Services, AccountsProofs, TablesProofs, LeastNumber, SequenceTheorems

-----------------------------------------------------------------------------
(* The message reader.                                                        *)

(* What the proofs use of the variables' types.  That no list grows beyond    *)
(* MaxMsgs, the bound of the model, is left to ReaderTypeOK.                  *)
Lists == index \in [Boards -> Seq(Message)]

Marks == [Boards -> Nat]

ReaderTyped ==
  /\ Lists
  /\ marks \in [Users -> Marks]
  /\ ptr \in Marks /\ curMsg \in Nat
  /\ shown \in [Boards -> SUBSET Nat]
  /\ at \in {"menu", "boards", "reading"}
  /\ at # "menu" => reader \in Users
  /\ cur \in Boards \cup {0}

(* Messages in view have numbers.                                             *)
LEMMA LiveNumbers ==
  ASSUME Lists, NEW b \in Boards
  PROVE  Live(b) \subseteq Nat /\ Live(b) = {m \in 1..Len(index[b]) : index[b][m].live}
<1>1. index[b] \in Seq(Message)
  BY DEF Lists
<1>2. DOMAIN index[b] = 1..Len(index[b]) /\ Len(index[b]) \in Nat
  BY <1>1, LenProperties
<1> QED
  BY <1>2 DEF Live

(* Messages that are removed from view stay in the list.                      *)
LEMMA PrunedIsList ==
  ASSUME Lists, NEW b \in Boards
  PROVE  Pruned(b) \in Seq(Message)
<1>1. index[b] \in Seq(Message)
  BY DEF Lists
<1>2. CASE Cardinality(Live(b)) < Limit
  BY <1>1, <1>2 DEF Pruned
<1>3. CASE ~(Cardinality(Live(b)) < Limit)
  <2>1. DOMAIN index[b] = 1..Len(index[b]) /\ Len(index[b]) \in Nat
        /\ index[b] \in [1..Len(index[b]) -> Message]
    BY <1>1, LenProperties
  <2>2. \A r \in Message : [r EXCEPT !.live = FALSE] \in Message
    BY DEF Message
  <2>3. \A m \in DOMAIN index[b] :
          (IF m \in Oldest(b) THEN [index[b][m] EXCEPT !.live = FALSE]
           ELSE index[b][m]) \in Message
    BY <2>1, <2>2
  <2>4. Pruned(b) \in [1..Len(index[b]) -> Message]
    BY <1>3, <2>1, <2>3 DEF Pruned
  <2> QED
    BY <2>1, <2>4, IsASeq
<1> QED
  BY <1>2, <1>3

(* The lists stay lists of messages.                                         *)
LEMMA ListsStep ==
  ASSUME ReaderTyped, [ReaderNext]_readerVars
  PROVE  Lists'
<1> USE DEF ReaderTyped
<1>1. CASE UNCHANGED index
  BY <1>1 DEF Lists
<1>2. CASE Posted /\ at # "menu" /\ cur # 0
  <2>1. cur \in Boards /\ reader \in Users
    BY <1>2
  <2>2. [author |-> reader, live |-> TRUE] \in Message
    BY <2>1 DEF Message
  <2>3. Append(Pruned(cur), [author |-> reader, live |-> TRUE]) \in Seq(Message)
    BY <2>1, <2>2, PrunedIsList, AppendProperties
  <2> QED
    BY <1>2, <2>1, <2>3 DEF Posted, Lists
<1>3. CASE Kill
  <2>1. cur \in Boards
    BY <1>3 DEF Kill, Command
  <2>2. index[cur] \in Seq(Message)
    BY <2>1 DEF Lists
  <2>3. Len(index[cur]) \in Nat /\ index[cur] \in [1..Len(index[cur]) -> Message]
    BY <2>2, LenProperties
  <2>4. \A r \in Message : [r EXCEPT !.live = FALSE] \in Message
    BY DEF Message
  <2>5. [index[cur] EXCEPT ![curMsg].live = FALSE] \in [1..Len(index[cur]) -> Message]
    BY <2>3, <2>4
  <2>6. [index[cur] EXCEPT ![curMsg].live = FALSE] \in Seq(Message)
    BY <2>3, <2>5, IsASeq
  <2> QED
    BY <1>3, <2>1, <2>6 DEF Kill, Lists
<1>4. CASE Post \/ Reply
  BY <1>2, <1>4 DEF Post, Reply, Command
<1>5. CASE (\E u \in Users : Enter(u)) \/ LeaveReader \/ PowerLoss
  BY <1>1, <1>5 DEF Enter, LeaveReader, PowerLoss
<1>6. CASE ReadNew \/ (\E m \in 1..(MaxMsgs + 1) : ReadNumber(m)) \/ ReadFirst
  BY <1>1, <1>6 DEF ReadNew, ReadNumber, ReadFirst
<1>7. CASE (\E b \in Boards : ChangeBoard(b)) \/ ReadNext \/ EndReading
  BY <1>1, <1>7 DEF ChangeBoard, ReadNext, EndReading
<1>8. CASE UNCHANGED readerVars
  BY <1>1, <1>8 DEF readerVars
<1> QED
  BY <1>3, <1>4, <1>5, <1>6, <1>7, <1>8 DEF ReaderNext

(* A message keeps its number and its author.                                *)
Kept ==
  \A b \in Boards : \A m \in DOMAIN index[b] :
    m \in DOMAIN index'[b] /\ index'[b][m].author = index[b][m].author

LEMMA KeptStep ==
  ASSUME ReaderTyped, [ReaderNext]_readerVars
  PROVE  Kept
<1> USE DEF ReaderTyped
<1>1. CASE UNCHANGED index
  BY <1>1 DEF Kept
<1>2. CASE Posted /\ at # "menu" /\ cur # 0
  <2>1. cur \in Boards /\ reader \in Users
    BY <1>2
  <2>2. index[cur] \in Seq(Message) /\ Pruned(cur) \in Seq(Message)
    BY <2>1, PrunedIsList DEF Lists
  <2>3. [author |-> reader, live |-> TRUE] \in Message
    BY <2>1 DEF Message
  <2>4. \A m \in DOMAIN index[cur] : m \in DOMAIN Pruned(cur)
                                     /\ Pruned(cur)[m].author = index[cur][m].author
    <3>1. \A m \in DOMAIN index[cur] :
            (IF m \in Oldest(cur) THEN [index[cur][m] EXCEPT !.live = FALSE]
             ELSE index[cur][m]).author = index[cur][m].author
      <4>1. \A m \in DOMAIN index[cur] : index[cur][m] \in Message
        BY <2>2, LenProperties
      <4> QED
        BY <4>1 DEF Message
    <3> QED
      BY <3>1 DEF Pruned
  <2>5. \A m \in DOMAIN Pruned(cur) :
          /\ m \in DOMAIN Append(Pruned(cur), [author |-> reader, live |-> TRUE])
          /\ Append(Pruned(cur), [author |-> reader, live |-> TRUE])[m] = Pruned(cur)[m]
    BY <2>2, <2>3, AppendProperties, LenProperties
  <2>6. /\ index'[cur] = Append(Pruned(cur), [author |-> reader, live |-> TRUE])
        /\ \A b \in Boards : b # cur => index'[b] = index[b]
    BY <1>2, <2>1 DEF Posted, Lists
  <2>7. \A m \in DOMAIN index[cur] :
          m \in DOMAIN index'[cur] /\ index'[cur][m].author = index[cur][m].author
    BY <2>4, <2>5, <2>6
  <2> QED
    BY <2>6, <2>7 DEF Kept
<1>3. CASE Kill
  <2>1. cur \in Boards
    BY <1>3 DEF Kill, Command
  <2>2. index[cur] \in Seq(Message)
    BY <2>1 DEF Lists
  <2>3. \A m \in DOMAIN index[cur] : index[cur][m] \in Message
    BY <2>2, LenProperties
  <2>4. /\ index'[cur] = [index[cur] EXCEPT ![curMsg].live = FALSE]
        /\ \A b \in Boards : b # cur => index'[b] = index[b]
    BY <1>3, <2>1 DEF Kill, Lists
  <2>5. \A m \in DOMAIN index[cur] :
          m \in DOMAIN index'[cur] /\ index'[cur][m].author = index[cur][m].author
    BY <2>3, <2>4 DEF Message
  <2> QED
    BY <2>4, <2>5 DEF Kept
<1>4. CASE Post \/ Reply
  BY <1>2, <1>4 DEF Post, Reply, Command
<1>5. CASE (\E u \in Users : Enter(u)) \/ LeaveReader \/ PowerLoss
  BY <1>1, <1>5 DEF Enter, LeaveReader, PowerLoss
<1>6. CASE ReadNew \/ (\E m \in 1..(MaxMsgs + 1) : ReadNumber(m)) \/ ReadFirst
  BY <1>1, <1>6 DEF ReadNew, ReadNumber, ReadFirst
<1>7. CASE (\E b \in Boards : ChangeBoard(b)) \/ ReadNext \/ EndReading
  BY <1>1, <1>7 DEF ChangeBoard, ReadNext, EndReading
<1>8. CASE UNCHANGED readerVars
  BY <1>1, <1>8 DEF readerVars
<1> QED
  BY <1>3, <1>4, <1>5, <1>6, <1>7, <1>8 DEF ReaderNext

(* What each way of reading does: one message in view is shown and the mark   *)
(* moves up to it, or nothing is shown.                                       *)
Reads(m) ==
  /\ at # "menu" /\ cur # 0 /\ m \in Live(cur)
  /\ curMsg' = m /\ author' = index[cur][m].author
  /\ shown' = [shown EXCEPT ![cur] = @ \cup {m}]
  /\ ptr' = Advanced(ptr, m) \/ (ptr' = ptr /\ m = curMsg)
  /\ cur' = cur /\ at' # "menu"
  /\ UNCHANGED <<index, marks, reader, brought, read>>

ShowsNothing ==
  /\ at # "menu" /\ at' # "menu"
  /\ UNCHANGED <<msg, shown, ptr, cur, marks, reader, brought, read>>

(* What the steps of the reader come to.                                      *)
LEMMA ReaderSteps ==
  ASSUME [ReaderNext]_readerVars
  PROVE  \/ \E u \in Users : Enter(u)
         \/ LeaveReader \/ PowerLoss
         \/ \E m \in Live(cur) : Reads(m)
         \/ ShowsNothing
         \/ at # "menu" /\ \E b \in Boards : ChangeBoard(b)
         \/ at # "menu" /\ Kill
         \/ UNCHANGED readerVars
<1>1. CASE ReadNew
  <2>1. CASE NoneAbove(ptr[cur]) /\ UNCHANGED <<msg, shown, ptr, at>>
    BY <1>1, <2>1 DEF ReadNew, Command, ShowsNothing
  <2>2. ASSUME NEW m \in Live(cur), Display(m), ptr' = Advanced(ptr, m),
               at' = "reading"
        PROVE  Reads(m)
    BY <1>1, <2>2 DEF ReadNew, Command, Display, Reads
  <2> QED
    BY <1>1, <2>1, <2>2 DEF ReadNew
<1>2. ASSUME NEW m \in 1..(MaxMsgs + 1), ReadNumber(m)
      PROVE  ShowsNothing \/ \E n \in Live(cur) : Reads(n)
  <2>0. at' # "menu"
    BY <1>2 DEF ReadNumber
  <2>1. CASE m \in Live(cur)
    <3>1. /\ curMsg' = m /\ author' = index[cur][m].author
          /\ shown' = [shown EXCEPT ![cur] = @ \cup {m}]
      BY <1>2, <2>1 DEF ReadNumber, Display
    <3>2. ptr' = Advanced(ptr, m) \/ (ptr' = ptr /\ m = curMsg)
      BY <1>2, <3>1 DEF ReadNumber
    <3> QED
      BY <1>2, <2>0, <2>1, <3>1, <3>2 DEF ReadNumber, Command, Reads
  <2>2. CASE m \notin Live(cur)
    <3>1. UNCHANGED <<msg, shown>>
      BY <1>2, <2>2 DEF ReadNumber, Display
    <3>2. ptr' = ptr
      BY <1>2, <3>1 DEF ReadNumber, msg
    <3> QED
      BY <1>2, <2>0, <3>1, <3>2 DEF ReadNumber, Command, ShowsNothing
  <2> QED
    BY <2>1, <2>2
<1>3. CASE ReadFirst
  <2>1. CASE NoneAbove(0) /\ UNCHANGED <<msg, shown, ptr, at>>
    BY <1>3, <2>1 DEF ReadFirst, Command, ShowsNothing
  <2>2. ASSUME NEW m \in Live(cur), Display(m), ptr' = Advanced(ptr, m),
               at' = "reading"
        PROVE  Reads(m)
    BY <1>3, <2>2 DEF ReadFirst, Command, Display, Reads
  <2> QED
    BY <1>3, <2>1, <2>2 DEF ReadFirst
<1>4. CASE Post \/ Reply
  BY <1>4 DEF Post, Reply, Posted, Command, ShowsNothing
<1>5. CASE ReadNext
  <2>1. CASE at' = "boards" /\ UNCHANGED <<msg, shown, ptr>>
    BY <1>5, <2>1 DEF ReadNext, Command, ShowsNothing
  <2>2. CASE /\ Display(curMsg + 1) /\ UNCHANGED at
             /\ ptr' = IF curMsg + 1 \in Live(cur) THEN Advanced(ptr, curMsg')
                       ELSE ptr
    <3>1. CASE curMsg + 1 \in Live(cur)
      BY <1>5, <2>2, <3>1 DEF ReadNext, Command, Display, Reads
    <3>2. CASE curMsg + 1 \notin Live(cur)
      BY <1>5, <2>2, <3>2 DEF ReadNext, Command, Display, ShowsNothing
    <3> QED
      BY <3>1, <3>2
  <2> QED
    BY <1>5, <2>1, <2>2 DEF ReadNext
<1>6. CASE EndReading
  BY <1>6 DEF EndReading, Command, ShowsNothing
<1>7. CASE (\E b \in Boards : ChangeBoard(b)) \/ Kill
  BY <1>7 DEF ChangeBoard, Kill
<1> QED
  BY <1>1, <1>2, <1>3, <1>4, <1>5, <1>6, <1>7 DEF ReaderNext

(* At first the variables are of these types.                                *)
LEMMA ReaderTypedInit == ReaderInit => ReaderTyped
<1> SUFFICES ASSUME ReaderInit PROVE ReaderTyped
  OBVIOUS
<1>1. << >> \in Seq(Message)
  BY EmptySeq
<1> QED
  BY <1>1 DEF ReaderInit, ReaderTyped, Lists, Marks

(* Moving a mark keeps its type.                                              *)
LEMMA AdvancedTyped ==
  ASSUME ptr \in Marks, NEW m \in Nat
  PROVE  Advanced(ptr, m) \in Marks
BY DEF Advanced, Marks

(* The loops there are.                                                      *)
LEMMA AtStep ==
  ASSUME ReaderTyped, [ReaderNext]_readerVars
  PROVE  at' \in {"menu", "boards", "reading"}
<1> USE DEF ReaderTyped
<1>1. CASE (\E u \in Users : Enter(u)) \/ LeaveReader \/ PowerLoss
  BY <1>1 DEF Enter, LeaveReader, PowerLoss, Closed
<1>2. CASE ReadNew \/ (\E m \in 1..(MaxMsgs + 1) : ReadNumber(m)) \/ ReadFirst
  BY <1>2 DEF ReadNew, ReadNumber, ReadFirst
<1>3. CASE Post \/ Reply \/ (\E b \in Boards : ChangeBoard(b))
  BY <1>3 DEF Post, Reply, Posted, ChangeBoard
<1>4. CASE ReadNext \/ Kill \/ EndReading
  BY <1>4 DEF ReadNext, Kill, EndReading
<1>5. CASE UNCHANGED readerVars
  BY <1>5 DEF readerVars, place
<1> QED
  BY <1>1, <1>2, <1>3, <1>4, <1>5 DEF ReaderNext

(* Every step keeps the types.                                                *)
LEMMA ReaderTypedStep ==
  ASSUME ReaderTyped, [ReaderNext]_readerVars
  PROVE  ReaderTyped'
<1> USE DEF ReaderTyped
<1>0. Lists'
  BY ListsStep
<1>z. [b \in Boards |-> 0] \in Marks /\ [b \in Boards |-> {}] \in [Boards -> SUBSET Nat]
  BY DEF Marks
<1>1. ASSUME NEW u \in Users, Enter(u) PROVE ReaderTyped'
  <2>1. marks[u] \in Marks
    OBVIOUS
  <2>2. ptr' \in Marks
    BY <1>1, <1>z, <2>1 DEF Enter
  <2>3. cur' \in Boards \cup {0} /\ curMsg' \in Nat
    <3>1. LoadBoard(1)
      BY <1>1, Zenon DEF Enter
    <3> QED
      BY <3>1, ReaderAssumption DEF LoadBoard, msg
  <2>4. /\ at' = "boards" /\ reader' = u /\ marks' = marks
        /\ shown' = [b \in Boards |-> {}]
    BY <1>1, Zenon DEF Enter
  <2> QED
    BY <1>0, <1>z, <2>2, <2>3, <2>4
<1>2. CASE LeaveReader
  <2>1. at' = "menu" /\ UNCHANGED <<curMsg, cur>> /\ ptr' \in Marks
        /\ shown' \in [Boards -> SUBSET Nat]
    BY <1>2, <1>z DEF LeaveReader, Closed, msg
  <2>2. marks' \in [Users -> Marks]
    BY <1>2 DEF LeaveReader
  <2> QED
    BY <1>0, <2>1, <2>2
<1>3. CASE PowerLoss
  BY <1>0, <1>3, <1>z DEF PowerLoss, Closed
<1>4. ASSUME NEW m \in Live(cur), Reads(m) PROVE ReaderTyped'
  <2>1. cur \in Boards
    BY <1>4 DEF Reads
  <2>2. m \in Nat
    BY <2>1, LiveNumbers
  <2>3. ptr' \in Marks
    BY <1>4, <2>2, AdvancedTyped DEF Reads
  <2>4. shown' \in [Boards -> SUBSET Nat]
    BY <1>4, <2>1, <2>2 DEF Reads
  <2>5. at' \in {"menu", "boards", "reading"}
    BY AtStep
  <2> QED
    BY <1>0, <1>4, <2>1, <2>2, <2>3, <2>4, <2>5 DEF Reads
<1>5. CASE ShowsNothing
  BY <1>0, <1>5, AtStep DEF ShowsNothing, msg
<1>6. CASE at # "menu" /\ \E b \in Boards : ChangeBoard(b)
  <2>1. PICK b \in Boards : ChangeBoard(b)
    BY <1>6
  <2>2. /\ cur' \in {b, cur} /\ curMsg' \in {0, curMsg}
        /\ UNCHANGED <<index, at, ptr, shown, marks, reader>>
    BY <2>1 DEF ChangeBoard, LoadBoard, msg
  <2> QED
    BY <1>0, <2>2
<1>7. CASE at # "menu" /\ Kill
  BY <1>0, <1>7 DEF Kill, Command
<1>8. CASE UNCHANGED readerVars
  BY <1>0, <1>8 DEF readerVars, place, msg
<1> QED
  BY <1>1, <1>2, <1>3, <1>4, <1>5, <1>6, <1>7, <1>8, ReaderSteps

(* The message that the program holds to be current is one of the board that  *)
(* it holds to be current, and its author is known, also between visits.      *)
StaticsFit ==
  curMsg # 0 =>
    cur \in Boards /\ Exists(curMsg) /\ author = index[cur][curMsg].author

(* Nothing that is posted, killed or pruned changes the current message.      *)
LEMMA StaticsKept ==
  ASSUME ReaderTyped, StaticsFit, [ReaderNext]_readerVars, UNCHANGED <<cur, msg>>
  PROVE  StaticsFit'
BY KeptStep DEF StaticsFit, Kept, Exists, msg

(* The current message was shown on this visit or left by an earlier one.     *)
LEMMA CurrentStep ==
  ASSUME ReaderTyped, StaticsFit, CurrentWasShown, [ReaderNext]_readerVars
  PROVE  StaticsFit' /\ CurrentWasShown'
<1>1. ASSUME NEW u \in Users, Enter(u) PROVE StaticsFit' /\ CurrentWasShown'
  <2>1. StaticsFit'
    BY <1>1, StaticsKept DEF Enter, LoadBoard, StaticsFit
  <2> QED
    BY <1>1, <2>1 DEF Enter, StaticsFit, CurrentWasShown
<1>2. CASE LeaveReader
  BY <1>2, StaticsKept DEF LeaveReader, Closed, CurrentWasShown
<1>3. CASE PowerLoss
  BY <1>3 DEF PowerLoss, Closed, StaticsFit, CurrentWasShown
<1>4. ASSUME NEW m \in Live(cur), Reads(m) PROVE StaticsFit' /\ CurrentWasShown'
  <2>1. cur \in Boards /\ shown \in [Boards -> SUBSET Nat] /\ m \in DOMAIN index[cur]
    BY <1>4 DEF Reads, ReaderTyped, Live
  <2>2. StaticsFit'
    BY <1>4, <2>1 DEF Reads, StaticsFit, Exists
  <2>3. curMsg' \in shown'[cur']
    BY <1>4, <2>1 DEF Reads
  <2> QED
    BY <2>2, <2>3 DEF StaticsFit, CurrentWasShown
<1>5. CASE ShowsNothing
  <2>1. StaticsFit'
    BY <1>5, StaticsKept DEF ShowsNothing
  <2>2. curMsg' # 0 => curMsg' \in shown'[cur'] \/ brought' = <<cur', curMsg'>>
    BY <1>5 DEF ShowsNothing, CurrentWasShown, msg
  <2> QED
    BY <2>1, <2>2 DEF StaticsFit, CurrentWasShown
<1>6. CASE at # "menu" /\ \E b \in Boards : ChangeBoard(b)
  <2>1. CASE curMsg' = 0
    BY <2>1 DEF StaticsFit, CurrentWasShown
  <2>2. CASE UNCHANGED <<cur, msg>>
    <3>1. StaticsFit'
      BY <2>2, StaticsKept
    <3>2. curMsg' # 0 => curMsg' \in shown'[cur'] \/ brought' = <<cur', curMsg'>>
      BY <1>6, <2>2 DEF ChangeBoard, CurrentWasShown, msg
    <3> QED
      BY <3>1, <3>2 DEF StaticsFit, CurrentWasShown
  <2> QED
    BY <1>6, <2>1, <2>2 DEF ChangeBoard, LoadBoard
<1>7. CASE Kill
  BY <1>7 DEF Kill, StaticsFit, CurrentWasShown
<1>8. CASE UNCHANGED readerVars
  <2>1. StaticsFit'
    BY <1>8, StaticsKept DEF readerVars, place
  <2> QED
    BY <1>8, <2>1 DEF readerVars, place, msg, StaticsFit, CurrentWasShown
<1> QED
  BY <1>1, <1>2, <1>3, <1>4, <1>5, <1>6, <1>7, <1>8, ReaderSteps

(* The message that *, K and R act on is one of the board they act on, and K   *)
(* asks for its author.  The caller was shown it on this visit: a change of   *)
(* board, an unknown number, a kill and the pruning of a full board leave no  *)
(* other behind.  Only when no board could be read as he came may it be one   *)
(* that an earlier visit left.  It holds whatever fails.                      *)
THEOREM CurrentAlwaysWasShown == ReaderSpec => []CurrentWasShown
<1>1. ReaderInit => StaticsFit /\ CurrentWasShown
  BY DEF ReaderInit, StaticsFit, CurrentWasShown
<1>2. ReaderTyped /\ StaticsFit /\ CurrentWasShown /\ [ReaderNext]_readerVars
        => ReaderTyped' /\ StaticsFit' /\ CurrentWasShown'
  BY ReaderTypedStep, CurrentStep
<1> QED
  BY <1>1, <1>2, ReaderTypedInit, PTL DEF ReaderSpec

-----------------------------------------------------------------------------
(* The read pointers.                                                         *)

(* USR.PTR can be read when the caller enters: the program goes on with       *)
(* zeros when it cannot.                                                      *)
LoadsWork == "load" \notin ReaderFaults

IsHighest(x, S) == x \in S /\ \A y \in S : y <= x

(* The file has what was shown on the visits it was written after, and the    *)
(* pointers in memory what was shown on this one as well.                     *)
Marked ==
  /\ marks = read
  /\ at # "menu" /\ ~LeftOver =>
       \A b \in Boards : IsHighest(ptr[b], shown[b] \cup {read[reader][b]})

(* A highest member is what Max yields.                                      *)
LEMMA HighestIsMax ==
  ASSUME NEW S \in SUBSET Nat, NEW x, IsHighest(x, S)
  PROVE  Max(S) = x
<1>1. x \in S /\ \A y \in S : x >= y
  BY DEF IsHighest
<1>2. Max(S) \in S /\ \A y \in S : Max(S) >= y
  BY <1>1 DEF Max
<1>3. Max(S) \in Nat /\ x \in Nat /\ Max(S) >= x /\ x >= Max(S)
  BY <1>1, <1>2
<1> QED
  BY <1>3

(* The pointer in memory is the highest message shown.                       *)
LEMMA MarkIs ==
  ASSUME ReaderTyped, Marked, at # "menu", ~LeftOver, NEW b \in Boards
  PROVE  HighestShown(b) = ptr[b]
<1>1. shown[b] \in SUBSET Nat /\ read[reader][b] \in Nat
  BY DEF ReaderTyped, Marked, Marks
<1>2. shown[b] \cup {read[reader][b]} \in SUBSET Nat
  BY <1>1
<1> QED
  BY <1>2, HighestIsMax DEF HighestShown, Marked

(* Reading, leaving, failing to save and losing power keep the marks in step *)
(* with what was shown.                                                      *)
LEMMA MarkedStep ==
  ASSUME LoadsWork, ReaderTyped, CurrentWasShown, Marked, [ReaderNext]_readerVars
  PROVE  Marked'
<1>t. /\ marks \in [Users -> Marks] /\ ptr \in Marks
      /\ shown \in [Boards -> SUBSET Nat]
      /\ at # "menu" => reader \in Users
      /\ cur \in Boards \cup {0}
  BY DEF ReaderTyped
<1>1. ASSUME NEW u \in Users, Enter(u) PROVE Marked'
  <2>1. ptr' = marks[u] /\ marks' = marks /\ read' = read /\ reader' = u
        /\ shown' = [b \in Boards |-> {}]
    BY <1>1 DEF Enter, LoadsWork
  <2>2. \A b \in Boards : marks[u][b] \in Nat
    BY <1>t DEF Marks
  <2>3. \A b \in Boards : shown'[b] = {} /\ ptr'[b] = read'[reader'][b]
    BY <2>1 DEF Marked
  <2>4. \A b \in Boards : IsHighest(ptr'[b], shown'[b] \cup {read'[reader'][b]})
    BY <2>1, <2>2, <2>3 DEF IsHighest
  <2> QED
    BY <2>1, <2>4 DEF Marked
<1>2. CASE LeaveReader
  <2>1. CASE /\ marks' = [marks EXCEPT ![reader] = ptr]
             /\ read' = [read EXCEPT ![reader] = IF LeftOver THEN ptr ELSE
                           [b \in Boards |-> HighestShown(b)]]
    <3>1. CASE LeftOver
      BY <1>2, <2>1, <3>1 DEF LeaveReader, Closed, Marked
    <3>2. CASE ~LeftOver
      <4>1. \A b \in Boards : HighestShown(b) = ptr[b]
        BY <1>2, <3>2, MarkIs DEF LeaveReader
      <4>2. ptr = [b \in Boards |-> ptr[b]]
        BY <1>t DEF Marks
      <4>3. [b \in Boards |-> HighestShown(b)] = ptr
        BY <4>1, <4>2
      <4> QED
        BY <1>2, <2>1, <3>2, <4>3 DEF LeaveReader, Closed, Marked
    <3> QED
      BY <3>1, <3>2
  <2>2. CASE UNCHANGED <<marks, read>>
    BY <1>2, <2>2 DEF LeaveReader, Closed, Marked
  <2> QED
    BY <1>2, <2>1, <2>2 DEF LeaveReader
<1>3. CASE PowerLoss
  BY <1>3 DEF PowerLoss, Closed, Marked
<1>4. ASSUME NEW m \in Live(cur), Reads(m) PROVE Marked'
  <2>0. SUFFICES ASSUME ~LeftOver PROVE Marked'
    <3>1. LeftOver' = LeftOver
      BY <1>4 DEF Reads, LeftOver
    <3> QED
      BY <1>4, <3>1 DEF Reads, Marked
  <2>1. cur \in Boards /\ reader \in Users /\ at # "menu"
    BY <1>4, <1>t DEF Reads
  <2>2. m \in Nat /\ ptr[cur] \in Nat
    BY <1>t, <2>1, LiveNumbers DEF Marks, ReaderTyped
  <2>3. /\ marks' = marks /\ read' = read /\ reader' = reader
        /\ shown' = [shown EXCEPT ![cur] = @ \cup {m}]
    BY <1>4 DEF Reads
  <2>4. /\ \A b \in Boards : b # cur => ptr'[b] = ptr[b]
        /\ ptr'[cur] = IF m > ptr[cur] THEN m ELSE ptr[cur]
    <3>1. CASE ptr' = Advanced(ptr, m)
      BY <1>t, <2>1, <3>1 DEF Advanced, Marks
    <3>2. CASE ptr' = ptr /\ m = curMsg
      <4>1. m <= ptr[cur]
        <5>1. CASE m = 0
          BY <2>2, <5>1
        <5>2. CASE m # 0
          <6>1. m \in shown[cur]
            BY <2>0, <2>1, <3>2, <5>2 DEF CurrentWasShown, LeftOver
          <6> QED
            BY <2>0, <2>1, <6>1 DEF Marked, IsHighest
        <5> QED
          BY <5>1, <5>2
      <4> QED
        BY <2>2, <3>2, <4>1
    <3> QED
      BY <1>4, <3>1, <3>2 DEF Reads
  <2>5. ASSUME NEW b \in Boards
        PROVE  IsHighest(ptr'[b], shown'[b] \cup {read'[reader'][b]})
    <3>1. IsHighest(ptr[b], shown[b] \cup {read[reader][b]})
      BY <2>0, <2>1 DEF Marked
    <3>2. CASE b # cur
      <4>1. shown'[b] = shown[b]
        BY <1>t, <2>3, <3>2
      <4> QED
        BY <2>3, <2>4, <3>1, <3>2, <4>1
    <3>3. CASE b = cur
      <4>1. shown'[b] = shown[b] \cup {m}
        BY <1>t, <2>3, <3>3
      <4>2. shown[b] \subseteq Nat /\ read[reader][b] \in Nat
        BY <1>t, <2>1 DEF Marked, Marks
      <4>3. \A y \in shown[b] \cup {read[reader][b]} : y \in Nat /\ y <= ptr[b]
        BY <3>1, <4>2 DEF IsHighest
      <4>4. CASE m > ptr[b]
        <5>1. ptr'[b] = m
          BY <2>4, <3>3, <4>4
        <5>2. \A y \in shown[b] \cup {m} \cup {read[reader][b]} : y <= m
          BY <2>2, <3>3, <4>3, <4>4
        <5> QED
          BY <2>3, <4>1, <5>1, <5>2 DEF IsHighest
      <4>5. CASE ~(m > ptr[b])
        <5>1. ptr'[b] = ptr[b] /\ m <= ptr[b]
          BY <2>2, <2>4, <3>3, <4>5
        <5> QED
          BY <2>3, <3>1, <4>1, <4>3, <5>1 DEF IsHighest
      <4> QED
        BY <4>4, <4>5
    <3> QED
      BY <3>2, <3>3
  <2> QED
    BY <2>3, <2>5 DEF Marked
<1>5. CASE ShowsNothing
  BY <1>5 DEF ShowsNothing, Marked, LeftOver
<1>6. CASE at # "menu" /\ \E b \in Boards : ChangeBoard(b)
  BY <1>6 DEF ChangeBoard, Marked, LeftOver
<1>7. CASE at # "menu" /\ Kill
  BY <1>7 DEF Kill, Command, Marked, LeftOver
<1>8. CASE UNCHANGED readerVars
  BY <1>8 DEF readerVars, place, Marked, LeftOver
<1> QED
  BY <1>1, <1>2, <1>3, <1>4, <1>5, <1>6, <1>7, <1>8, ReaderSteps

ReaderInv == ReaderTyped /\ StaticsFit /\ CurrentWasShown /\ Marked

(* The invariant of the reader.                                              *)
LEMMA ReaderInvAlways ==
  ASSUME LoadsWork
  PROVE  ReaderSpec => []ReaderInv
<1>1. ReaderInit => ReaderInv
  BY ReaderTypedInit DEF ReaderInit, ReaderInv, StaticsFit, CurrentWasShown, Marked
<1>2. ReaderInv /\ [ReaderNext]_readerVars => ReaderInv'
  BY ReaderTypedStep, CurrentStep, MarkedStep DEF ReaderInv
<1> QED
  BY <1>1, <1>2, PTL DEF ReaderSpec

(* A caller's mark on a board is the highest message number he was ever shown *)
(* there, in whatever order and by whatever command he read, over all visits  *)
(* whose marks could be saved; also through power losses, failed saves and    *)
(* boards that cannot be read, but not on a visit on which an earlier one's   *)
(* message was still current.                                                 *)
THEOREM MarksAreHighestRead ==
  ASSUME LoadsWork
  PROVE  ReaderSpec => []MarkIsHighestRead
<1>1. ReaderInv => MarkIsHighestRead
  BY MarkIs DEF ReaderInv, MarkIsHighestRead
<1> QED
  BY <1>1, ReaderInvAlways, PTL

(* N shows the first message in view that this caller has never been shown,   *)
(* unless an earlier visit's message was still current when he came.          *)
THEOREM NewIsAlwaysNextUnread ==
  ASSUME LoadsWork
  PROVE  ReaderSpec => NewIsNextUnread
<1>1. ASSUME ReaderInv, [ReaderNext]_readerVars, key' = "N", curMsg' # curMsg,
             ~LeftOver
      PROVE  /\ curMsg' > HighestShown(cur)
             /\ \A m \in Live(cur) : m < curMsg' => m <= HighestShown(cur)
  <2>1. ReadNew
    <3>1. ~(\E u \in Users : Enter(u)) /\ ~LeaveReader /\ ~PowerLoss
      BY <1>1 DEF Enter, LeaveReader, PowerLoss, Closed
    <3>2. ~(\E m \in 1..(MaxMsgs + 1) : ReadNumber(m)) /\ ~ReadFirst /\ ~Post
      BY <1>1 DEF ReadNumber, ReadFirst, Post, Command
    <3>3. /\ ~(\E b \in Boards : ChangeBoard(b))
          /\ ~ReadNext /\ ~Reply /\ ~Kill /\ ~EndReading
      BY <1>1 DEF ChangeBoard, ReadNext, Reply, Kill, EndReading, Command
    <3>4. ~UNCHANGED readerVars
      BY <1>1 DEF readerVars, msg
    <3> QED
      BY <1>1, <3>1, <3>2, <3>3, <3>4 DEF ReaderNext
  <2>2. PICK m \in Live(cur) : IsFirstAbove(ptr[cur], m) /\ Display(m)
    BY <1>1, <2>1 DEF ReadNew, msg
  <2>3. curMsg' = m
    BY <2>2 DEF Display
  <2>4. at # "menu" /\ cur \in Boards
    BY <1>1, <2>1 DEF ReadNew, Command, ReaderInv, ReaderTyped
  <2>5. HighestShown(cur) = ptr[cur] /\ ptr[cur] \in Nat
    BY <1>1, <2>4, MarkIs DEF ReaderInv, ReaderTyped, Marks
  <2>6. Live(cur) \subseteq Nat
    BY <1>1, <2>4, LiveNumbers DEF ReaderInv, ReaderTyped
  <2>7. m > ptr[cur] /\ \A n \in Live(cur) : n > ptr[cur] => m <= n
    BY <2>2 DEF IsFirstAbove
  <2>8. \A n \in Live(cur) : n < m => n <= ptr[cur]
    BY <2>5, <2>6, <2>7
  <2> QED
    BY <2>3, <2>5, <2>7, <2>8
<1>2. ReaderInv /\ [ReaderNext]_readerVars =>
        [key' = "N" /\ curMsg' # curMsg /\ ~LeftOver
           => /\ curMsg' > HighestShown(cur)
              /\ \A m \in Live(cur) : m < curMsg' => m <= HighestShown(cur)]_readerVars
  BY <1>1
<1> QED
  BY <1>2, ReaderInvAlways, PTL DEF ReaderSpec, NewIsNextUnread

-----------------------------------------------------------------------------
(* Usage: the minutes of the day.                                             *)

(* The lesser of two numbers.                                                 *)
LEMMA MinOfTwo ==
  ASSUME NEW a \in Nat, NEW b \in Nat
  PROVE  /\ Min({a, b}) = IF a <= b THEN a ELSE b
         /\ Min({a, b}) \in Nat
<1> DEFINE c == IF a <= b THEN a ELSE b
<1>1. c \in {a, b} /\ \A y \in {a, b} : c <= y
  OBVIOUS
<1>2. Min({a, b}) \in {a, b} /\ \A y \in {a, b} : Min({a, b}) <= y
  BY <1>1 DEF Min
<1> QED
  BY <1>1, <1>2

(* What the watch shows of the minutes it has run: whole days are missing.    *)
WatchTells ==
  visit.start # DayLen =>
    /\ Shown(visit.start) <= visit.online
    /\ visit.online < DayLen => visit.online = Shown(visit.start)

(* A visit is never charged with more minutes than it took, and with as many  *)
(* as long as the clock can tell them.                                        *)
LEMMA ElapsedIsTime ==
  ASSUME now.minute \in 0..(DayLen - 1), NEW start \in 0..(DayLen - 1),
         NEW online \in Nat, Shown(start) <= online,
         online < DayLen => online = Shown(start)
  PROVE  /\ Elapsed(start) \in Nat /\ Elapsed(start) <= online
         /\ online <= ElapsedMax => Elapsed(start) = online
<1>1. DayLen \in Nat /\ DayLen > 0 /\ ElapsedMax \in Nat /\ ElapsedMax < DayLen
  BY UsageAssumption
<1>2. Shown(start) \in Nat
  BY <1>1 DEF Shown
<1> DEFINE s == Shown(start)
<1>3. Elapsed(start) = IF s <= ElapsedMax THEN s ELSE ElapsedMax
  BY <1>1, <1>2, MinOfTwo DEF Elapsed
<1> HIDE DEF s
<1>4. s \in Nat /\ s <= online /\ (online < DayLen => online = s)
  BY <1>2 DEF s
<1> QED
  BY <1>1, <1>3, <1>4

(* The days that went by, what USR.DAY and the history say of them, and the   *)
(* visit on line.  No minutes were saved under a date that the record of the  *)
(* caller has not reached: this is why a record of another day may be cleared.*)
UsageInv ==
  /\ now.day \in Nat /\ now.minute \in Nat /\ now.minute < DayLen
  /\ date # NoDay => date \in Days /\ date <= now.day
  /\ now.day \in Days
  /\ usrDay \in [DayUsers -> [day : Nat, mins : Nat]]
  /\ accrued \in [DayUsers -> [Days -> Nat]]
  /\ visit.start \in 0..DayLen /\ visit.online \in Nat
  /\ visit.start # DayLen => visit.user \in DayUsers /\ date # NoDay
  /\ WatchTells
  /\ \A u \in DayUsers :
       /\ usrDay[u].day \in Days \cup {NoDay}
       /\ usrDay[u].day <= IF date = NoDay THEN now.day ELSE date
       /\ \A d \in Days : d > usrDay[u].day => accrued[u][d] = 0
  /\ MinutesAreOfTheDay

(* The watch keeps telling the minutes it has run, over midnight as well.     *)
LEMMA WatchGoesOn ==
  ASSUME UsageInv, Minute
  PROVE  WatchTells' /\ visit'.start = visit.start /\ visit'.user = visit.user
         /\ visit'.online \in {visit.online, visit.online + 1}
<1>1. /\ DayLen \in Nat /\ now.minute \in 0..(DayLen - 1)
      /\ visit.start \in 0..DayLen /\ visit.online \in Nat
  BY UsageAssumption DEF UsageInv
<1>2. now'.minute = IF now.minute + 1 < DayLen THEN now.minute + 1 ELSE 0
  <2>1. CASE now.minute + 1 < DayLen
    <3>1. now' = [now EXCEPT !.minute = @ + 1]
      BY <2>1 DEF Minute
    <3> QED
      BY <2>1, <3>1
  <2>2. CASE ~(now.minute + 1 < DayLen)
    <3>1. now' = [day |-> now.day + 1, minute |-> 0]
      BY <2>2 DEF Minute
    <3> QED
      BY <2>2, <3>1
  <2> QED
    BY <2>1, <2>2
<1>3. CASE visit.start = DayLen
  <2>1. visit' = visit
    BY <1>3 DEF Minute
  <2>2. WatchTells'
    BY <1>3, <2>1 DEF WatchTells
  <2> QED
    BY <2>1, <2>2
<1>4. CASE visit.start # DayLen
  <2>1. visit' = [visit EXCEPT !.online = @ + 1]
    BY <1>4 DEF Minute
  <2>2. visit'.start = visit.start /\ visit'.online = visit.online + 1 /\ visit'.user = visit.user
    BY <2>1
  <2> DEFINE start == visit.start
             old == IF now.minute >= start THEN now.minute - start
                                           ELSE now.minute + DayLen - start
             new == IF now'.minute >= start THEN now'.minute - start
                                            ELSE now'.minute + DayLen - start
  <2>3. old = Shown(visit.start) /\ new = Shown(visit.start)'
    BY <2>2 DEF Shown
  <2>4. old <= visit.online /\ (visit.online < DayLen => visit.online = old)
    BY <1>4, <2>3 DEF UsageInv, WatchTells
  <2>5. /\ new <= visit.online + 1
        /\ visit.online + 1 < DayLen => visit.online + 1 = new
    BY <1>1, <1>2, <1>4, <2>4
  <2> HIDE DEF old, new
  <2> QED
    BY <2>2, <2>3, <2>5 DEF WatchTells
<1> QED
  BY <1>3, <1>4

(* The record that session_done works on is of the date, and what it says was *)
(* used is no more than was; it is all unless the record could not be read.   *)
LEMMA RecordOfTheDay ==
  ASSUME UsageInv, NEW u \in DayUsers, NEW rec \in DayLoaded(u), date \in Days
  PROVE  /\ OfDay(rec) = [day |-> date, mins |-> OfDay(rec).mins]
         /\ OfDay(rec).mins \in Nat
         /\ OfDay(rec).mins <= Min({accrued[u][date], DayLen})
         /\ <<u, date>> \notin uncounted /\ OfDay(rec) = OfDay(usrDay[u])
              => OfDay(rec).mins = Min({accrued[u][date], DayLen})
<1>0. /\ NoDay = 0 /\ Days = 1..LastDay /\ LastDay \in Nat /\ DayLen \in Nat
  BY UsageAssumption DEF NoDay, Days
<1> DEFINE all == accrued[u][date]
<1>1. all \in Nat /\ usrDay[u] \in [day : Nat, mins : Nat]
  BY DEF UsageInv
<1>2. Min({all, DayLen}) \in Nat
  BY <1>0, <1>1, MinOfTwo
<1>3. rec \in [day : Nat, mins : Nat] /\ (rec = usrDay[u] \/ rec.day = NoDay)
  BY <1>0, <1>1 DEF DayLoaded, NoRecord
<1>4. CASE rec.day = date
  <2>1. rec = usrDay[u] /\ OfDay(rec) = rec /\ rec = [day |-> date, mins |-> rec.mins]
        /\ usrDay[u].day = date /\ date # NoDay
    BY <1>0, <1>3, <1>4 DEF OfDay
  <2>2. /\ rec.mins <= Min({all, DayLen})
        /\ <<u, date>> \notin uncounted => rec.mins = Min({all, DayLen})
    BY <2>1 DEF UsageInv, MinutesAreOfTheDay
  <2> QED
    BY <1>3, <2>1, <2>2
<1>5. CASE rec.day # date
  <2>1. OfDay(rec) = [day |-> date, mins |-> 0] /\ OfDay(rec).mins = 0
    BY <1>5 DEF OfDay
  <2>2. ASSUME <<u, date>> \notin uncounted, OfDay(rec) = OfDay(usrDay[u])
        PROVE  Min({all, DayLen}) = 0
    <3>1. CASE usrDay[u].day = date
      <4>1. OfDay(usrDay[u]) = usrDay[u] /\ date # NoDay
        BY <1>0, <3>1 DEF OfDay
      <4>2. usrDay[u].mins = Min({all, DayLen})
        BY <2>2, <3>1, <4>1 DEF UsageInv, MinutesAreOfTheDay
      <4> QED
        BY <2>1, <2>2, <4>1, <4>2
    <3>2. CASE usrDay[u].day # date
      <4>1. usrDay[u].day <= date
        BY <1>0 DEF UsageInv
      <4>2. date > usrDay[u].day
        BY <1>0, <1>1, <3>2, <4>1
      <4>3. all = 0
        BY <4>2 DEF UsageInv
      <4>4. Min({all, DayLen}) = IF all <= DayLen THEN all ELSE DayLen
        BY <1>0, <1>1, MinOfTwo
      <4> HIDE DEF all
      <4> QED
        BY <1>0, <4>3, <4>4
    <3> QED
      BY <3>1, <3>2
  <2> HIDE DEF all
  <2> QED
    BY <1>2, <2>1, <2>2 DEF all
<1> QED
  BY <1>4, <1>5

(* What session_done writes.                                                  *)
LEMMA ChargeIsRight ==
  ASSUME UsageInv, visit.start # DayLen, NEW rec \in DayLoaded(visit.user),
         Charge(visit.user, rec)
  PROVE  LET u == visit.user
         IN  /\ u \in DayUsers /\ date \in Days
             /\ usrDay'[u].day = date /\ usrDay'[u].mins \in Nat
             /\ usrDay'[u].mins <= DayLen
             /\ usrDay' \in [DayUsers -> [day : Nat, mins : Nat]]
             /\ usrDay'[u].mins <= Min({accrued'[u][date], DayLen})
             /\ <<u, date>> \notin uncounted'
                  => usrDay'[u].mins = Min({accrued'[u][date], DayLen})
<1> DEFINE u == visit.user
           add == Elapsed(visit.start)
           had == OfDay(rec).mins
           all == accrued[u][date]
           took == visit.online
<1>0. /\ DayLen \in Nat /\ now.minute \in 0..(DayLen - 1)
      /\ visit.start \in 0..(DayLen - 1) /\ Days \subseteq Nat
  BY UsageAssumption DEF UsageInv, Days
<1>1. u \in DayUsers /\ date \in Days /\ all \in Nat /\ took \in Nat
  BY DEF UsageInv
<1>2. add \in Nat /\ add <= took /\ (took <= ElapsedMax => add = took)
  BY <1>0, <1>1, ElapsedIsTime DEF UsageInv, WatchTells
<1>3. /\ OfDay(rec) = [day |-> date, mins |-> had] /\ had \in Nat
      /\ had <= Min({all, DayLen})
      /\ <<u, date>> \notin uncounted /\ OfDay(rec) = OfDay(usrDay[u])
           => had = Min({all, DayLen})
  BY <1>1, RecordOfTheDay
<1>4. Charged(rec, add) = [day |-> date, mins |-> Min({had + add, DayLen})]
  <2> HIDE DEF had, add
  <2> QED
    BY <1>3 DEF Charged
<1>5. /\ usrDay' = [usrDay EXCEPT ![u] = Charged(rec, add)]
      /\ accrued' = [accrued EXCEPT ![u][date] = @ + took]
      /\ uncounted' = IF took > ElapsedMax \/ OfDay(rec) # OfDay(usrDay[u])
                      THEN uncounted \cup {<<u, date>>} ELSE uncounted
  BY DEF Charge
<1>6. ElapsedMax \in Nat
  BY UsageAssumption
<1> HIDE DEF u, add, had, all, took
<1>7. /\ Min({had + add, DayLen}) \in Nat
      /\ Min({had + add, DayLen}) <= Min({all + took, DayLen})
      /\ had = Min({all, DayLen}) /\ add = took
           => Min({had + add, DayLen}) = Min({all + took, DayLen})
  <2>1. DayLen \in Nat /\ had \in Nat /\ all \in Nat /\ add \in Nat /\ took \in Nat
    BY <1>0, <1>1, <1>2, <1>3
  <2>2. had <= Min({all, DayLen}) /\ add <= took
    BY <1>2, <1>3
  <2>3. had + add \in Nat /\ all + took \in Nat
    BY ONLY <2>1
  <2>4. /\ Min({all, DayLen}) = IF all <= DayLen THEN all ELSE DayLen
        /\ Min({had + add, DayLen}) = IF had + add <= DayLen THEN had + add ELSE DayLen
        /\ Min({all + took, DayLen}) = IF all + took <= DayLen THEN all + took ELSE DayLen
    BY ONLY <2>1, <2>3, MinOfTwo
  <2>5. Min({had + add, DayLen}) \in Nat
    BY ONLY <2>1, <2>3, MinOfTwo
  <2> QED
    BY ONLY <2>1, <2>2, <2>4, <2>5
<1>8. had + add \in Nat
  BY <1>2, <1>3
<1>9. Min({had + add, DayLen}) <= DayLen
  BY <1>0, <1>8, MinOfTwo
<1>10. accrued'[u][date] = all + took
  BY <1>1, <1>5 DEF UsageInv, all
<1>11. usrDay'[u] = [day |-> date, mins |-> Min({had + add, DayLen})]
  BY <1>1, <1>4, <1>5 DEF UsageInv
<1>12. usrDay' \in [DayUsers -> [day : Nat, mins : Nat]]
  <2>1. Charged(rec, add) \in [day : Nat, mins : Nat]
    BY <1>0, <1>1, <1>4, <1>7
  <2> QED
    BY <1>5, <2>1 DEF UsageInv
<1>13. <<u, date>> \notin uncounted' => Min({had + add, DayLen}) = Min({all + took, DayLen})
  <2> SUFFICES ASSUME <<u, date>> \notin uncounted'
               PROVE  Min({had + add, DayLen}) = Min({all + took, DayLen})
    OBVIOUS
  <2>1. ~(took > ElapsedMax) /\ OfDay(rec) = OfDay(usrDay[u]) /\ <<u, date>> \notin uncounted
    BY <1>5
  <2>2. add = took
    BY <1>1, <1>2, <1>6, <2>1
  <2>3. had = Min({all, DayLen})
    BY <1>3, <2>1
  <2> QED
    BY <1>7, <2>2, <2>3
<1>14. /\ usrDay'[u].day = date /\ usrDay'[u].mins = Min({had + add, DayLen})
  BY <1>11
<1>15. /\ u \in DayUsers /\ date \in Days
       /\ usrDay'[u].day = date /\ usrDay'[u].mins \in Nat
       /\ usrDay'[u].mins <= DayLen
       /\ usrDay' \in [DayUsers -> [day : Nat, mins : Nat]]
       /\ usrDay'[u].mins <= Min({accrued'[u][date], DayLen})
       /\ <<u, date>> \notin uncounted'
            => usrDay'[u].mins = Min({accrued'[u][date], DayLen})
  BY <1>1, <1>7, <1>9, <1>10, <1>12, <1>13, <1>14
<1> QED
  BY <1>15 DEF u

(* Every step of the day counter keeps the invariant.                         *)
LEMMA UsageStep ==
  ASSUME UsageInv, [UsageNext]_usageVars
  PROVE  UsageInv'
<1> USE DEF UsageInv
<1>0. /\ NoDay = 0 /\ LastDay \in Nat /\ Days = 1..LastDay
      /\ DayLen \in Nat /\ DayLen > 0
  BY UsageAssumption DEF NoDay, Days
<1>n. Nobody.start = DayLen /\ Nobody.online = 0
  BY DEF Nobody
<1>1. CASE StartDay
  <2>1. /\ date = NoDay /\ date' = now.day /\ visit' = Nobody
        /\ UNCHANGED <<now, usrDay, history>>
    BY <1>1 DEF StartDay
  <2>2. MinutesAreOfTheDay' /\ WatchTells'
    BY <1>n, <2>1 DEF MinutesAreOfTheDay, WatchTells, history
  <2> QED
    BY <1>0, <1>n, <2>1, <2>2 DEF history
<1>2. CASE Minute
  <2>1. UNCHANGED <<date, usrDay, history>>
    BY <1>2 DEF Minute
  <2>2. /\ now'.day \in Nat /\ now'.minute \in Nat /\ now'.day >= now.day
        /\ now'.day \in Days /\ now'.minute < DayLen
    <3>1. CASE now.minute + 1 < DayLen
      <4>1. now' = [now EXCEPT !.minute = @ + 1]
        BY <1>2, <3>1 DEF Minute
      <4>2. now'.day = now.day /\ now'.minute = now.minute + 1
        BY <4>1
      <4> QED
        BY <4>2, <3>1
    <3>2. CASE ~(now.minute + 1 < DayLen)
      <4>1. now.day < LastDay /\ now' = [day |-> now.day + 1, minute |-> 0]
        BY <1>2, <3>2 DEF Minute
      <4>2. now'.day = now.day + 1 /\ now'.minute = 0
        BY <4>1
      <4> QED
        BY <1>0, <4>1, <4>2
    <3> QED
      BY <3>1, <3>2
  <2>3. MinutesAreOfTheDay'
    BY <2>1 DEF MinutesAreOfTheDay, history
  <2>4. /\ WatchTells' /\ visit'.start = visit.start /\ visit'.user = visit.user
        /\ visit'.online \in Nat
    BY <1>2, WatchGoesOn
  <2>5. /\ date' = date /\ usrDay' = usrDay /\ accrued' = accrued
    BY <2>1 DEF history
  <2>6. /\ date' # NoDay => date' \in Days /\ date' <= now'.day
        /\ \A v \in DayUsers :
             usrDay'[v].day <= IF date' = NoDay THEN now'.day ELSE date'
    BY <1>0, <2>2, <2>5
  <2>7. /\ usrDay' \in [DayUsers -> [day : Nat, mins : Nat]]
        /\ accrued' \in [DayUsers -> [Days -> Nat]]
        /\ \A v \in DayUsers :
             /\ usrDay'[v].day \in Days \cup {NoDay}
             /\ \A d \in Days : d > usrDay'[v].day => accrued'[v][d] = 0
    BY <2>5
  <2>8. /\ visit'.start \in 0..DayLen
        /\ visit'.start # DayLen => visit'.user \in DayUsers /\ date' # NoDay
    BY <2>4, <2>5
  <2> QED
    BY <2>2, <2>3, <2>4, <2>6, <2>7, <2>8
<1>3. CASE \E u \in DayUsers : TimeBegin(u)
  <2>1. PICK u \in DayUsers, start \in {now.minute, DayLen} :
          /\ date # NoDay
          /\ visit' = [user |-> u, start |-> start, online |-> 0]
          /\ UNCHANGED <<now, date, usrDay, history>>
    BY <1>3 DEF TimeBegin
  <2>2. visit'.user = u /\ visit'.start = start /\ visit'.online = 0
    BY <2>1
  <2>3. MinutesAreOfTheDay'
    BY <2>1 DEF MinutesAreOfTheDay, history
  <2>4. start \in 0..DayLen
    BY <1>0
  <2>5. WatchTells'
    <3>1. Shown(now.minute) = 0
      BY DEF Shown
    <3>2. visit'.start # DayLen => Shown(visit.start)' = Shown(now.minute)
      BY <2>1, <2>2 DEF Shown
    <3> QED
      BY <2>2, <3>1, <3>2 DEF WatchTells
  <2> QED
    BY <2>1, <2>2, <2>3, <2>4, <2>5 DEF history
<1>4. CASE CountPost \/ LogCaller \/ UNCHANGED usageVars
  <2>1. UNCHANGED <<now, date, usrDay, visit, history>>
    BY <1>4 DEF CountPost, LogCaller, usageVars
  <2>2. MinutesAreOfTheDay' /\ WatchTells'
    BY <2>1 DEF MinutesAreOfTheDay, WatchTells, Shown, history
  <2> QED
    BY <2>1, <2>2 DEF history
<1>5. CASE LosePower
  <2>1. /\ date # NoDay /\ date' = NoDay /\ visit' = Nobody
        /\ UNCHANGED <<now, usrDay, history>>
    BY <1>5 DEF LosePower
  <2>2. MinutesAreOfTheDay' /\ WatchTells'
    BY <1>n, <2>1 DEF MinutesAreOfTheDay, WatchTells, history
  <2>3. \A u \in DayUsers : usrDay'[u].day <= now'.day
    BY <1>0, <2>1
  <2> QED
    BY <1>0, <1>n, <2>1, <2>2, <2>3 DEF history
<1>6. CASE Accrue
  <2>1. visit' = Nobody /\ UNCHANGED <<now, date>>
    BY <1>6 DEF Accrue
  <2>2. WatchTells'
    BY <1>n, <2>1 DEF WatchTells
  <2>3. CASE UNCHANGED <<usrDay, history>>
    <3>1. MinutesAreOfTheDay'
      BY <2>3 DEF MinutesAreOfTheDay, history
    <3> QED
      BY <1>0, <1>n, <2>1, <2>2, <2>3, <3>1 DEF history
  <2>4. ASSUME visit.start # DayLen, NEW rec \in DayLoaded(visit.user),
               Charge(visit.user, rec)
        PROVE  UsageInv'
    <3> DEFINE u == visit.user
    <3>1. /\ u \in DayUsers /\ date \in Days
          /\ usrDay'[u].day = date /\ usrDay'[u].mins \in Nat
          /\ usrDay' \in [DayUsers -> [day : Nat, mins : Nat]]
          /\ usrDay'[u].mins <= Min({accrued'[u][date], DayLen})
          /\ <<u, date>> \notin uncounted'
               => usrDay'[u].mins = Min({accrued'[u][date], DayLen})
      BY <2>4, ChargeIsRight
    <3>2. /\ accrued' = [accrued EXCEPT ![u][date] = @ + visit.online]
          /\ \A v \in DayUsers \ {u} : usrDay'[v] = usrDay[v]
          /\ uncounted \subseteq uncounted'
      BY <2>4 DEF Charge
    <3> HIDE DEF u
    <3>3. accrued' \in [DayUsers -> [Days -> Nat]]
      BY <3>1, <3>2
    <3>4. \A v \in DayUsers \ {u} : accrued'[v] = accrued[v]
      BY <3>2
    <3>5. \A d \in Days \ {date} : accrued'[u][d] = accrued[u][d]
      BY <3>1, <3>2
    <3>6. usrDay[u].day <= date /\ usrDay[u].day \in Nat
      BY <1>0, <3>1
    <3>7. ASSUME NEW d \in Days, d > date
          PROVE  accrued'[u][d] = 0
      <4>1. d # date /\ d > usrDay[u].day
        BY <1>0, <3>1, <3>6, <3>7
      <4> QED
        BY <3>1, <3>5, <4>1
    <3>8. MinutesAreOfTheDay'
      <4> SUFFICES ASSUME NEW v \in DayUsers, usrDay'[v].day # NoDay
                   PROVE  /\ usrDay'[v].mins <= Min({accrued'[v][usrDay'[v].day], DayLen})
                          /\ <<v, usrDay'[v].day>> \notin uncounted' =>
                               usrDay'[v].mins = Min({accrued'[v][usrDay'[v].day], DayLen})
        BY DEF MinutesAreOfTheDay
      <4>1. CASE v = u
        BY <3>1, <4>1
      <4>2. CASE v # u
        BY <3>2, <3>4, <4>2 DEF MinutesAreOfTheDay
      <4> QED
        BY <4>1, <4>2
    <3>9. date # NoDay
      BY <1>0, <3>1
    <3>10. ASSUME NEW v \in DayUsers
          PROVE  /\ usrDay'[v].day \in Days \cup {NoDay}
                 /\ usrDay'[v].day <= date
                 /\ \A d \in Days : d > usrDay'[v].day => accrued'[v][d] = 0
      <4>1. CASE v = u
        BY <1>0, <3>1, <3>7, <4>1
      <4>2. CASE v # u
        <5>1. usrDay'[v] = usrDay[v] /\ accrued'[v] = accrued[v]
          BY <3>2, <3>4, <4>2
        <5>2. usrDay[v].day <= date
          BY <3>9
        <5> QED
          BY <5>1, <5>2
      <4> QED
        BY <4>1, <4>2
    <3>11. /\ date' = date /\ now' = now /\ visit'.start = DayLen /\ visit'.online = 0
           /\ DayLen \in 0..DayLen
      BY <1>0, <1>n, <2>1
    <3>12. \A v \in DayUsers :
             /\ usrDay'[v].day \in Days \cup {NoDay}
             /\ usrDay'[v].day <= IF date' = NoDay THEN now'.day ELSE date'
             /\ \A d \in Days : d > usrDay'[v].day => accrued'[v][d] = 0
      BY <3>9, <3>10, <3>11
    <3> QED
      BY <2>2, <3>1, <3>3, <3>8, <3>11, <3>12
  <2> QED
    BY <1>6, <2>3, <2>4 DEF Accrue
<1> QED
  BY <1>1, <1>2, <1>3, <1>4, <1>5, <1>6 DEF UsageNext

(* The first day has begun and nobody has called.                             *)
LEMMA UsageStart ==
  ASSUME UsageInit
  PROVE  UsageInv
<1>1. /\ NoDay = 0 /\ Days = 1..LastDay /\ LastDay \in Nat /\ LastDay > 0
      /\ DayLen \in Nat /\ DayLen > 0
  BY UsageAssumption DEF NoDay, Days
<1>2. /\ now.day = 1 /\ now.minute = 0 /\ date = NoDay
      /\ visit.start = DayLen /\ visit.online = 0
  BY DEF UsageInit, Nobody
<1>3. /\ usrDay \in [DayUsers -> [day : Nat, mins : Nat]]
      /\ accrued \in [DayUsers -> [Days -> Nat]]
      /\ \A u \in DayUsers : /\ usrDay[u].day = NoDay
                             /\ \A d \in Days : accrued[u][d] = 0
  BY <1>1 DEF UsageInit, NoRecord
<1>4. MinutesAreOfTheDay /\ WatchTells
  BY <1>2, <1>3 DEF MinutesAreOfTheDay, WatchTells
<1> QED
  BY <1>1, <1>2, <1>3, <1>4 DEF UsageInv

(* What USR.DAY charges to a date is no more than the caller's saved visits   *)
(* under that date really took, nor than a day, whatever midnights, failed    *)
(* reads, failed writes and power losses come between; and it is all of them, *)
(* each once, unless one was longer than the clock can tell or the record     *)
(* could not be read back.                                                    *)
THEOREM MinutesStayOfTheDay == UsageSpec => []MinutesAreOfTheDay
<1>1. UsageInit => UsageInv
  BY UsageStart
<1>2. UsageInv /\ [UsageNext]_usageVars => UsageInv'
  BY UsageStep
<1>3. UsageInv => MinutesAreOfTheDay
  BY DEF UsageInv
<1> QED
  BY <1>1, <1>2, <1>3, PTL DEF UsageSpec

-----------------------------------------------------------------------------
(* Files: what is uploaded is listed.                                         *)

EntryNames == Names \cup {NoFile.name}
EntryRecords == [name : EntryNames, downloads : 0..1, upload : Nat]

(* The record that a new entry takes is the first one that holds none.        *)
LEMMA FreeEntryIsFirst ==
  ASSUME NEW a, FreeEntry(a) # 0
  PROVE  /\ FreeEntry(a) \in EntryNums
         /\ entries[a][FreeEntry(a)] = NoFile
         /\ \A m \in 1..(FreeEntry(a) - 1) : entries[a][m] # NoFile
<1> DEFINE T == {n \in EntryNums : entries[a][n] = NoFile}
<1>1. T # {} /\ T \in SUBSET Nat /\ EntryMax \in Nat
  BY FilesAssumption DEF FreeEntry, EntryNums
<1>2. PICK least \in T : \A n \in T : least <= n
  BY <1>1, LeastNumberExists
<1>3. least \in Nat /\ least \in 1..EntryMax
  BY <1>1, <1>2 DEF EntryNums
<1>4. ASSUME NEW m \in 1..(least - 1)
      PROVE  entries[a][m] # NoFile
  <2>1. m \in EntryNums /\ ~(least <= m)
    BY <1>1, <1>3 DEF EntryNums
  <2> QED
    BY <2>1, <1>2
<1>5. \E n \in EntryNums : /\ entries[a][n] = NoFile
                           /\ \A m \in 1..(n - 1) : entries[a][m] # NoFile
  BY <1>2, <1>4
<1>6. ~ \A n \in EntryNums : entries[a][n] # NoFile
  BY <1>1
<1> QED
  BY <1>5, <1>6 DEF FreeEntry

(* The areas in memory and on the disk.  That entries are listed is inductive *)
(* because a record once taken is written again only with the entry it holds. *)
FilesInv ==
  /\ area = [id |-> area.id, total |-> area.total]
  /\ areaIdx # 0 => area.id \in AreaNums
  /\ entries \in [AreaNums -> [EntryNums -> EntryRecords]]
  /\ uploads \in Nat
  /\ \A x \in added : x[1] \in AreaNums
  /\ UploadsAreListed

(* Entries of an area listed before stay listed if records that hold none are *)
(* the only ones that get another upload.                                     *)
LEMMA StillListed ==
  ASSUME UploadsAreListed, NEW x \in added,
         \A n \in EntryNums : entries[x[1]][n] # NoFile =>
           /\ entries'[x[1]][n] # NoFile
           /\ entries'[x[1]][n].upload = entries[x[1]][n].upload
  PROVE  \E n \in EntryNums : /\ entries'[x[1]][n].upload = x[2]
                              /\ \A m \in 1..n : entries'[x[1]][m] # NoFile
<1>1. PICK n \in EntryNums : /\ entries[x[1]][n].upload = x[2]
                             /\ \A m \in 1..n : entries[x[1]][m] # NoFile
  BY DEF UploadsAreListed
<1>2. n \in Nat /\ n \in 1..n /\ 1..n \subseteq EntryNums
  BY FilesAssumption DEF EntryNums
<1> QED
  BY <1>1, <1>2

(* An entry written anew, and one whose download was counted, are entries.    *)
LEMMA NewEntry ==
  ASSUME NEW name \in Names, NEW downloads \in 0..1, NEW upload \in Nat,
         downloads # 0 \/ upload # 0
  PROVE  LET r == [name |-> name, downloads |-> downloads, upload |-> upload]
         IN  r \in EntryRecords /\ r # NoFile
<1>1. [name |-> name, downloads |-> downloads, upload |-> upload] \in EntryRecords
  BY DEF EntryRecords, EntryNames
<1>2. [name |-> name, downloads |-> downloads, upload |-> upload] # NoFile
  BY DEF NoFile
<1> QED
  BY <1>1, <1>2

(* An entry whose download is counted is still an entry, of the same upload.  *)
LEMMA CountedEntry ==
  ASSUME NEW fe \in EntryRecords
  PROVE  /\ [fe EXCEPT !.downloads = 1] \in EntryRecords
         /\ [fe EXCEPT !.downloads = 1].upload = fe.upload
         /\ [fe EXCEPT !.downloads = 1] # NoFile
<1>1. [fe EXCEPT !.downloads = 1] \in EntryRecords
  BY DEF EntryRecords
<1>2. [fe EXCEPT !.downloads = 1].upload = fe.upload
  BY DEF EntryRecords
<1>3. [fe EXCEPT !.downloads = 1].downloads = 1
  BY DEF EntryRecords
<1>4. ASSUME NEW r, r.downloads = 1
      PROVE  r # NoFile
  <2>1. NoFile.downloads = 0
    BY DEF NoFile
  <2> QED
    BY <1>4, <2>1
<1> DEFINE r == [fe EXCEPT !.downloads = 1]
<1>5. r \in EntryRecords /\ r.upload = fe.upload /\ r.downloads = 1
  BY <1>1, <1>2, <1>3
<1> HIDE DEF r
<1>6. r # NoFile
  BY <1>4, <1>5
<1> QED
  BY <1>5, <1>6 DEF r

(* A download writes nothing but the counter of the entry it took.            *)
LEMMA DownloadKeeps ==
  ASSUME FilesInv, NEW typedNum \in Nat, Download(typedNum)
  PROVE  FilesInv'
<1> DEFINE n == RecNum(typedNum)
           a == area.id
           fe == ByRecNum(a, n)
<1>1. /\ areaIdx # 0 /\ fe # NoFile
      /\ SaveEntry(a, n, [fe EXCEPT !.downloads = 1]) \/ UNCHANGED entries
      /\ UNCHANGED <<areaIdx, area, uploads, added>>
  BY DEF Download
<1>2. a \in AreaNums
  BY <1>1 DEF FilesInv
<1>3. n \in EntryNums /\ fe = entries[a][n]
  BY <1>1 DEF ByRecNum
<1> HIDE DEF n, a, fe
<1>4. fe \in EntryRecords
  BY <1>2, <1>3 DEF FilesInv
<1> DEFINE r == [fe EXCEPT !.downloads = 1]
<1>5. r \in EntryRecords /\ r.upload = fe.upload /\ r # NoFile
  BY <1>4, CountedEntry
<1> HIDE DEF r
<1>6. CASE UNCHANGED entries
  <2>1. UploadsAreListed'
    BY <1>1, <1>6 DEF FilesInv, UploadsAreListed
  <2> QED
    BY <1>1, <1>6, <2>1 DEF FilesInv, AreaNums
<1>7. CASE entries' = [entries EXCEPT ![a][n] = r]
  <2>1. entries' \in [AreaNums -> [EntryNums -> EntryRecords]]
    BY <1>2, <1>3, <1>5, <1>7 DEF FilesInv
  <2>2. ASSUME NEW x \in added, NEW m \in EntryNums, entries[x[1]][m] # NoFile
        PROVE  /\ entries'[x[1]][m] # NoFile
               /\ entries'[x[1]][m].upload = entries[x[1]][m].upload
    <3>1. x[1] \in AreaNums
      BY DEF FilesInv
    <3>2. entries \in [AreaNums -> [EntryNums -> EntryRecords]]
      BY DEF FilesInv
    <3>3. CASE x[1] = a /\ m = n
      BY <3>3, <3>2, <1>2, <1>3, <1>5, <1>7
    <3>4. CASE ~(x[1] = a /\ m = n)
      <4>1. entries'[x[1]][m] = entries[x[1]][m]
        BY <3>1, <3>2, <3>4, <1>2, <1>3, <1>7
      <4> QED
        BY <4>1, <2>2
    <3> QED
      BY <3>3, <3>4
  <2>3. UploadsAreListed'
    BY <1>1, <2>2, StillListed DEF FilesInv, UploadsAreListed, EntryNums
  <2> QED
    BY <1>1, <2>1, <2>3 DEF FilesInv, AreaNums, EntryNums
<1> QED
  BY <1>1, <1>6, <1>7 DEF SaveEntry, r

(* An upload that is announced has its entry in the record that was written   *)
(* for it.                                                                    *)
LEMMA UploadKeeps ==
  ASSUME FilesInv, NEW name \in Names, Upload(name)
  PROVE  FilesInv'
<1> DEFINE a == area.id
           new == [name |-> name, downloads |-> 0, upload |-> uploads']
<1>1. /\ areaIdx # 0 /\ uploads' = uploads + 1 /\ uploads \in Nat
      /\ UNCHANGED areaIdx
      /\ a \in AreaNums
  BY DEF Upload, FilesInv
<1>2. \/ AddEntry(a, new) /\ area' = [area EXCEPT !.total = @ + 1]
      \/ UNCHANGED <<entries, added, area>>
  BY DEF Upload
<1>3. area'.id = a /\ area' = [id |-> area'.id, total |-> area'.total]
  <2>1. CASE area' = [area EXCEPT !.total = @ + 1]
    <3>1. area = [id |-> a, total |-> area.total]
      BY DEF FilesInv
    <3>2. area' = [id |-> a, total |-> area.total + 1]
      BY <2>1, <3>1
    <3> QED
      BY <3>2
  <2>2. CASE UNCHANGED area
    BY <2>2 DEF FilesInv
  <2> QED
    BY <1>2, <2>1, <2>2
<1> HIDE DEF a
<1>4. CASE UNCHANGED <<entries, added>>
  <2>1. UploadsAreListed'
    BY <1>4 DEF FilesInv, UploadsAreListed
  <2> QED
    BY <1>1, <1>3, <1>4, <2>1 DEF FilesInv, AreaNums
<1>5. CASE /\ FreeEntry(a) # 0
           /\ entries' = [entries EXCEPT ![a][FreeEntry(a)] = new]
           /\ added' = added \cup {<<a, uploads'>>}
  <2> DEFINE k == FreeEntry(a)
  <2>1. /\ k \in EntryNums /\ entries[a][k] = NoFile
        /\ \A m \in 1..(k - 1) : entries[a][m] # NoFile
    BY <1>5, FreeEntryIsFirst
  <2>2. entries' = [entries EXCEPT ![a][k] = new]
    BY <1>5
  <2> HIDE DEF k
  <2>3. new \in EntryRecords /\ new # NoFile /\ new.upload = uploads'
    <3>1. uploads' \in Nat /\ uploads' # 0
      BY <1>1
    <3>2. new.upload = uploads'
      OBVIOUS
    <3> QED
      BY <3>1, <3>2, NewEntry
  <2> HIDE DEF new
  <2>4. entries \in [AreaNums -> [EntryNums -> EntryRecords]]
    BY DEF FilesInv
  <2>5. entries' \in [AreaNums -> [EntryNums -> EntryRecords]]
    BY <1>1, <2>1, <2>2, <2>3, <2>4
  <2>6. \A b \in AreaNums : \A m \in EntryNums :
          entries'[b][m] = IF b = a /\ m = k THEN new ELSE entries[b][m]
    BY <1>1, <2>1, <2>2, <2>4
  <2>7. ASSUME NEW x \in added'
        PROVE  /\ x[1] \in AreaNums
               /\ \E n \in EntryNums : /\ entries'[x[1]][n].upload = x[2]
                                       /\ \A m \in 1..n : entries'[x[1]][m] # NoFile
    <3>1. CASE x \in added
      <4>1. x[1] \in AreaNums
        BY <3>1 DEF FilesInv
      <4>2. \A m \in EntryNums : entries[x[1]][m] # NoFile =>
              entries'[x[1]][m] = entries[x[1]][m]
        BY <4>1, <2>1, <2>6
      <4>3. UploadsAreListed
        BY DEF FilesInv
      <4> QED
        BY <3>1, <4>1, <4>2, <4>3, StillListed
    <3>2. CASE x = <<a, uploads'>>
      <4>1. entries'[a][k].upload = uploads'
        BY <1>1, <2>1, <2>3, <2>6
      <4>2. ASSUME NEW m \in 1..k
            PROVE  entries'[a][m] # NoFile
        <5>1. m \in EntryNums /\ (m = k \/ m \in 1..(k - 1))
          BY <2>1, FilesAssumption DEF EntryNums
        <5> QED
          BY <5>1, <1>1, <2>1, <2>3, <2>6
      <4> QED
        BY <3>2, <4>1, <4>2, <1>1, <2>1
    <3> QED
      BY <3>1, <3>2, <1>5
  <2>8. UploadsAreListed'
    BY <2>7 DEF UploadsAreListed, EntryNums
  <2> QED
    BY <1>1, <1>3, <2>5, <2>7, <2>8 DEF FilesInv, AreaNums, EntryNums
<1> QED
  BY <1>2, <1>4, <1>5 DEF AddEntry

(* Moving about in the browser changes no entry.                              *)
LEMMA MovingKeeps ==
  ASSUME FilesInv,
         \/ \E l \in CallerLevels : EnterFiles(l)
         \/ LeaveFiles
         \/ \E fwd \in BOOLEAN : ShiftArea(fwd)
         \/ \E n \in 1..(Len(Areas) + 1) : JumpArea(n)
         \/ UNCHANGED fileVars
  PROVE  FilesInv'
<1>1. UNCHANGED <<entries, uploads, added>>
  BY DEF EnterFiles, LeaveFiles, ShiftArea, JumpArea, fileVars
<1>2. Len(Areas) \in Nat /\ (Areas # << >> => Len(Areas) > 0)
  BY FilesAssumption, EmptySeq
<1>3. areaIdx' # 0 => area'.id \in AreaNums
  <2>1. ASSUME NEW l \in CallerLevels, EnterFiles(l)
        PROVE  areaIdx' # 0 => area'.id \in AreaNums
    BY <1>2, <2>1 DEF EnterFiles, Loaded, AreaNums
  <2>2. ASSUME NEW fwd \in BOOLEAN, ShiftArea(fwd)
        PROVE  area'.id \in AreaNums
    BY <2>2 DEF ShiftArea, Loaded
  <2>3. ASSUME NEW n \in 1..(Len(Areas) + 1), JumpArea(n)
        PROVE  area'.id \in AreaNums
    BY <1>2, <2>3 DEF JumpArea, Loaded, AreaNums
  <2>4. CASE LeaveFiles
    BY <2>4 DEF LeaveFiles
  <2>5. CASE UNCHANGED fileVars
    BY <2>5 DEF FilesInv, fileVars
  <2> QED
    BY <2>1, <2>2, <2>3, <2>4, <2>5
<1>4. UploadsAreListed'
  BY <1>1 DEF FilesInv, UploadsAreListed
<1>5. area' = [id |-> area'.id, total |-> area'.total]
  BY DEF FilesInv, EnterFiles, LeaveFiles, ShiftArea, JumpArea, fileVars,
         Loaded, NoArea
<1> QED
  BY <1>1, <1>3, <1>4, <1>5 DEF FilesInv, AreaNums

(* Nothing is uploaded yet and nothing listed.                               *)
LEMMA FilesStart ==
  ASSUME FilesInit
  PROVE  FilesInv
<1>1. NoFile \in EntryRecords
  <2>1. /\ NoFile = [name |-> NoFile.name, downloads |-> 0, upload |-> 0]
        /\ NoFile.name \in EntryNames /\ 0 \in 0..1
    BY DEF NoFile, EntryNames
  <2> QED
    BY <2>1 DEF EntryRecords
<1>2. /\ areaIdx = 0 /\ uploads = 0 /\ added = {} /\ area = NoArea
      /\ entries \in [AreaNums -> [EntryNums -> EntryRecords]]
  BY <1>1 DEF FilesInit
<1>3. UploadsAreListed
  BY <1>2 DEF UploadsAreListed
<1> QED
  BY <1>2, <1>3 DEF FilesInv, NoArea

(* Every entry that an upload has written stays in the area it was uploaded   *)
(* to and can be chosen there, for any number of areas, files and callers and *)
(* whatever transfers and writes fail.                                        *)
THEOREM UploadsStayListed == FilesSpec => []UploadsAreListed
<1>1. FilesInit => FilesInv
  BY FilesStart
<1>2. FilesInv /\ [FilesNext]_fileVars => FilesInv'
  <2> SUFFICES ASSUME FilesInv, [FilesNext]_fileVars PROVE FilesInv'
    OBVIOUS
  <2>1. 0..(2 * EntryMax + 1) \subseteq Nat
    BY FilesAssumption
  <2> QED
    BY <2>1, MovingKeeps, DownloadKeeps, UploadKeeps DEF FilesNext
<1>3. FilesInv => UploadsAreListed
  BY DEF FilesInv
<1> QED
  BY <1>1, <1>2, <1>3, PTL DEF FilesSpec

-----------------------------------------------------------------------------
(* Overlays: the code that is called is the code that is loaded.              *)

(* Everything that stands on the system device stands on the partition of the *)
(* overlays, and no door that runs at login shows a file.                     *)
OnePartition ==
  /\ \A p \in Placements : \A h \in Homes : p[h] \in {0, p["overlays"]}
  /\ \A p \in Placements : DoorPlaces \subseteq {0, p["overlays"]}
  /\ ~ShowsAtLogin

Layers == Seq(Ovls \cup {"door"})

(* When the waiting screen is in the zone, unless it could not be loaded.     *)
(* wfcLoaded alone does not say so: a door at login leaves it set, so the way *)
(* through the menus is part of it.                                           *)
ZoneInv ==
  /\ places \in Placements /\ partition = places.overlays
  /\ frames \in Layers
  /\ frames = << >> /\ wfcLoaded => zone = "WFC" \/ broken
  /\ frames # << >> /\ path # << >> => ~wfcLoaded
  /\ guest \in {"off", "none"} => frames = << >> /\ path = << >> /\ ~known
  /\ ~known => frames = << >> /\ path = << >>
  /\ CodeIsInTheZone

(* Nothing moves the drive.                                                   *)
LEMMA StaysOnPartition ==
  ASSUME OnePartition, ZoneInv
  PROVE  /\ \A h \in Homes : After(places[h]) = places.overlays
         /\ After(places.system) = places.overlays
         /\ After(places.msgs) = places.overlays
         /\ After(places.files) = places.overlays
         /\ After(places.doors) = places.overlays
         /\ \A p \in DoorPlaces : After(p) = places.overlays
         /\ places.overlays = partition
<1>1. /\ \A h \in Homes : places[h] \in {0, places.overlays}
      /\ DoorPlaces \subseteq {0, places.overlays}
      /\ partition = places.overlays
  BY DEF OnePartition, ZoneInv
<1>2. \A h \in Homes : After(places[h]) = places.overlays
  BY <1>1 DEF After
<1>3. /\ "system" \in Homes /\ "msgs" \in Homes /\ "files" \in Homes /\ "doors" \in Homes
  BY DEF Homes
<1> QED
  BY <1>1, <1>2, <1>3 DEF After

(* What is fetched from the partition of the overlays stands in the zone,     *)
(* unless the load failed.                                                    *)
LEMMA FetchedStands ==
  ASSUME NEW p, NEW o, NEW left, FetchOver(p, o, left), p = places.overlays
  PROVE  zone' = o \/ broken'
BY DEF FetchOver

(* Calls into the zone and what becomes of the call stack.                    *)
LEMMA Stacked ==
  ASSUME frames \in Layers, NEW o \in Ovls \cup {"door"}
  PROVE  /\ << >> \in Layers /\ <<o>> \in Layers /\ <<o>> # << >>
         /\ Append(frames, o) \in Layers /\ Append(frames, o) # << >>
         /\ frames # << >> => Front(frames) \in Layers
<1>1. Append(frames, o) \in Layers /\ Append(frames, o) # << >>
  BY AppendProperties DEF Layers
<1>2. <<o>> = Append(<< >>, o) /\ << >> \in Layers
  BY DEF Layers
<1>3. <<o>> \in Layers /\ <<o>> # << >>
  BY DEF Layers
<1>4. frames # << >> => Front(frames) \in Layers
  BY EmptySeq, LenProperties, SubSeqProperties DEF Layers, Front
<1> QED
  BY <1>1, <1>2, <1>3, <1>4

(* Code is fetched before it is run, so that is what stands in the zone.      *)
LEMMA FetchedIsRun ==
  ASSUME NEW o, JumpTo(o), zone' = o \/ broken'
  PROVE  CodeIsInTheZone'
<1>1. jump' = <<o, zone'>>
  BY DEF JumpTo
<1> QED
  BY <1>1 DEF CodeIsInTheZone, InCode

(* The waiting screen, logging in, the session's panel.                       *)
LEMMA CallKeepsZone ==
  ASSUME OnePartition, ZoneInv, InCode,
         StartBoard \/ WaitForCall \/ LogInToDoors \/ SignUp \/ CloseSession
  PROVE  ZoneInv'
<1> USE DEF ZoneInv
<1>0. "DOORS" \in Ovls \cup {"door"}
  BY DEF Ovls
<1>1. CASE StartBoard
  <2>1. /\ guest = "off" /\ partition' = places.overlays
        /\ Fetch("WFC") /\ wfcLoaded' = TRUE /\ JumpTo("WFC")
        /\ UNCHANGED <<places, frames, known, path>>
    BY <1>1, StaysOnPartition DEF StartBoard
  <2>2. zone' = "WFC" \/ broken'
    BY <2>1, FetchedStands DEF Fetch
  <2>3. CodeIsInTheZone'
    BY <2>1, <2>2, FetchedIsRun
  <2> QED
    BY <2>1, <2>2, <2>3
<1>2. CASE WaitForCall
  <2>1. /\ guest = "none"
        /\ IF wfcLoaded THEN UNCHANGED <<zone, broken>> ELSE FetchOver(partition, "WFC", zone)
        /\ wfcLoaded' = TRUE /\ JumpTo("WFC")
        /\ UNCHANGED <<places, frames, known, path>>
    BY <1>2 DEF WaitForCall
  <2>2. partition' = places.overlays
    <3>1. partition' \in {partition} \cup {After(places[h]) : h \in {"system", "msgs", "files"}}
      BY <1>2 DEF WaitForCall
    <3>2. {"system", "msgs", "files"} \subseteq Homes
      BY DEF Homes
    <3> QED
      BY <3>1, <3>2, StaysOnPartition
  <2>3. zone' = "WFC" \/ broken'
    <3>1. CASE wfcLoaded
      BY <2>1, <3>1
    <3>2. CASE ~wfcLoaded
      <4>1. FetchOver(partition, "WFC", zone)
        BY <2>1, <3>2
      <4> QED
        BY <4>1, FetchedStands
    <3> QED
      BY <3>1, <3>2
  <2>4. CodeIsInTheZone'
    BY <2>1, <2>3, FetchedIsRun
  <2> QED
    BY <2>1, <2>2, <2>3, <2>4
<1>3. CASE LogInToDoors
  <2>1. /\ guest \notin {"off", "none"} /\ ~known /\ known' = TRUE
        /\ partition' = places.overlays
        /\ zone' = "DOORS" \/ broken'
        /\ frames' = <<"DOORS">> /\ JumpTo("DOORS")
        /\ UNCHANGED <<places, wfcLoaded, guest, path>>
    <3>1. /\ guest \in {"local", "remote"} /\ ~known /\ known' = TRUE
          /\ FetchOver(After(places.system), "DOORS", zone)
          /\ partition' = IF places.doors = 0 THEN After(places.system) ELSE places.doors
          /\ frames' = <<"DOORS">> /\ JumpTo("DOORS")
          /\ UNCHANGED <<places, wfcLoaded, guest, path>>
      BY <1>3 DEF LogInToDoors
    <3>2. zone' = "DOORS" \/ broken'
      BY <3>1, StaysOnPartition, FetchedStands
    <3>3. places.doors # 0 => places.doors = places.overlays
      BY StaysOnPartition DEF After
    <3>4. partition' = places.overlays
      BY <3>1, <3>3, StaysOnPartition
    <3> QED
      BY <3>1, <3>2, <3>4
  <2>2. frames' \in Layers /\ frames' # << >>
    BY <1>0, <2>1, Stacked
  <2>3. CodeIsInTheZone'
    BY <2>1, FetchedIsRun
  <2> QED
    BY <2>1, <2>2, <2>3
<1>4. CASE SignUp
  <2>1. /\ guest \notin {"off", "none"} /\ ~known /\ known' = TRUE
        /\ partition' = places.overlays
        /\ UNCHANGED <<places, zone, broken, wfcLoaded, frames, guest, jump>>
    BY <1>4, StaysOnPartition DEF SignUp
  <2>2. CodeIsInTheZone'
    BY <2>1 DEF CodeIsInTheZone, InCode
  <2> QED
    BY <2>1, <2>2
<1>5. CASE CloseSession
  <2>1. /\ frames = << >> /\ ~known' /\ path' = << >>
        /\ partition' = places.overlays
        /\ UNCHANGED <<places, zone, broken, wfcLoaded, frames, jump>>
    BY <1>5, StaysOnPartition DEF CloseSession
  <2>2. CodeIsInTheZone'
    BY <2>1 DEF CodeIsInTheZone, InCode
  <2> QED
    BY <2>1, <2>2
<1> QED
  BY <1>1, <1>2, <1>3, <1>4, <1>5

(* The panel is drawn while its code is in the zone.                          *)
LEMMA PanelIsInTheZone ==
  ASSUME ZoneInv, DrawPanel, wfcLoaded => zone = "WFC" \/ broken, UNCHANGED <<zone, broken>>
  PROVE  CodeIsInTheZone'
<1>1. jump' = jump \/ (wfcLoaded /\ jump' = <<"WFC", zone>>)
  BY DEF DrawPanel
<1> QED
  BY <1>1 DEF ZoneInv, CodeIsInTheZone, InCode

(* Files that are shown, and the menus.                                       *)
LEMMA MenuKeepsZone ==
  ASSUME OnePartition, ZoneInv,
         \/ Tick \/ Show \/ ShowMenu \/ EnterMenu \/ MenuAction \/ BackOut
         \/ UnknownCommand \/ UNCHANGED overlayVars
  PROVE  ZoneInv'
<1>1. CASE Tick
  <2>1. /\ frames = << >> /\ DrawPanel
        /\ UNCHANGED <<places, zone, broken, wfcLoaded, partition, frames, guest, known, path>>
    BY <1>1 DEF Tick, session
  <2>2. CodeIsInTheZone'
    BY <2>1, PanelIsInTheZone DEF ZoneInv
  <2> QED
    BY <2>1, <2>2 DEF ZoneInv
<1>2. CASE Show \/ ShowMenu
  <2>1. /\ frames = << >> \/ path # << >>
        /\ DisplayFile
        /\ UNCHANGED <<places, zone, broken, wfcLoaded, frames, guest, known, path>>
    BY <1>2 DEF Show, ShowMenu, InMenu, session, DisplayFile, OnePartition
  <2>2. partition' = places.overlays
    BY <2>1, StaysOnPartition DEF DisplayFile
  <2>3. wfcLoaded => zone = "WFC" \/ broken
    BY <2>1 DEF ZoneInv
  <2>4. CodeIsInTheZone'
    <3>1. CASE DrawPanel
      BY <3>1, <2>1, <2>3, PanelIsInTheZone
    <3>2. CASE UNCHANGED jump
      BY <2>1, <3>2 DEF ZoneInv, CodeIsInTheZone, InCode
    <3> QED
      BY <2>1, <3>1, <3>2 DEF DisplayFile
  <2> QED
    BY <2>1, <2>2, <2>4 DEF ZoneInv
<1>3. CASE EnterMenu \/ MenuAction \/ BackOut \/ UnknownCommand
  <2>1. /\ frames = << >> /\ path # << >> /\ partition' = places.overlays
        /\ UNCHANGED <<places, zone, broken, wfcLoaded, frames, guest, known, jump>>
    <3>1. CASE MenuAction
      BY <3>1, StaysOnPartition DEF MenuAction, Asked, InMenu, ZoneInv
    <3>2. CASE EnterMenu \/ BackOut \/ UnknownCommand
      BY <3>2 DEF EnterMenu, BackOut, UnknownCommand, Asked, InMenu, ZoneInv
    <3> QED
      BY <1>3, <3>1, <3>2
  <2>2. CodeIsInTheZone'
    BY <2>1 DEF ZoneInv, CodeIsInTheZone, InCode
  <2> QED
    BY <2>1, <2>2 DEF ZoneInv
<1>4. CASE UNCHANGED overlayVars
  <2>1. UNCHANGED <<places, zone, broken, wfcLoaded, partition, frames, guest, known, path, jump>>
    BY <1>4 DEF overlayVars
  <2>2. CodeIsInTheZone'
    BY <2>1 DEF ZoneInv, CodeIsInTheZone, InCode
  <2> QED
    BY <2>1, <2>2 DEF ZoneInv
<1> QED
  BY <1>1, <1>2, <1>3, <1>4

(* The features, and Zmodem in the place of the file areas.                   *)
LEMMA FeatureKeepsZone ==
  ASSUME OnePartition, ZoneInv, InCode,
         \/ \E o \in DOMAIN FileOf : Feature(o)
         \/ UseFiles \/ EndFeature \/ StartZmodem \/ ReturnToFiles
  PROVE  ZoneInv'
<1> USE DEF ZoneInv
<1>0. DOMAIN FileOf = {"MSGS", "FILES", "DOORS"} /\ {"MSGS", "FILES", "DOORS", "ZMODEM"} \subseteq Ovls
  BY DEF FileOf, Ovls
<1>1. ASSUME NEW o \in DOMAIN FileOf, Feature(o)
      PROVE  ZoneInv'
  <2>1. /\ frames = << >> /\ path # << >>
        /\ Fetch(o) /\ wfcLoaded' = FALSE /\ JumpTo(o) /\ frames' = <<o>>
        /\ UNCHANGED <<places, partition, guest, known, path>>
    BY <1>1 DEF Feature, Asked, InMenu, session
  <2>2. frames' \in Layers
    BY <1>0, <2>1, Stacked
  <2>3. CodeIsInTheZone'
    BY <2>1, FetchedStands, FetchedIsRun DEF Fetch
  <2> QED
    BY <2>1, <2>2, <2>3
<1>2. CASE UseFiles
  <2>1. PICK o \in DOMAIN FileOf : Runs(o) /\ partition' = After(places[FileOf[o]])
    BY <1>2 DEF UseFiles
  <2>2. FileOf[o] \in Homes
    BY DEF FileOf, Homes
  <2>3. partition' = places.overlays
    BY <2>1, <2>2, StaysOnPartition
  <2>4. UNCHANGED <<places, zone, broken, wfcLoaded, frames, jump, guest, known, path>>
    BY <1>2 DEF UseFiles, session
  <2>5. CodeIsInTheZone'
    BY <2>4 DEF CodeIsInTheZone, InCode
  <2> QED
    BY <2>3, <2>4, <2>5
<1>3. CASE EndFeature
  <2>1. /\ frames # << >> /\ frames' = << >> /\ partition' = places.overlays
        /\ zone' = "WFC" \/ broken'
        /\ wfcLoaded' = TRUE
        /\ UNCHANGED <<places, jump, guest, known>>
    <3>1. frames # << >>
      <4>1. Len(frames) = 1
        BY <1>3 DEF EndFeature
      <4>2. Len(<< >>) = 0
        OBVIOUS
      <4>3. ASSUME frames = << >> PROVE FALSE
        <5>1. Len(frames) = 0
          BY <4>2, <4>3
        <5> QED
          BY <4>1, <5>1
      <4> QED
        BY <4>3
    <3>2. partition' = places.overlays
      BY <1>3, StaysOnPartition DEF EndFeature
    <3>3. ~(wfcLoaded /\ path # << >>)
      BY <3>1
    <3>4. Fetch("WFC")
      BY <1>3, <3>3 DEF EndFeature
    <3>5. zone' = "WFC" \/ broken'
      BY <3>2, <3>4, FetchedStands DEF Fetch
    <3> QED
      BY <1>3, <3>1, <3>2, <3>5 DEF EndFeature
  <2>2. CodeIsInTheZone'
    BY <2>1 DEF CodeIsInTheZone, InCode
  <2>3. << >> \in Layers
    BY DEF Layers
  <2> QED
    BY <2>1, <2>2, <2>3
<1>4. CASE StartZmodem
  <2>1. /\ frames # << >> /\ frames' = Append(frames, "ZMODEM")
        /\ Fetch("ZMODEM") /\ wfcLoaded' = FALSE /\ JumpTo("ZMODEM")
        /\ UNCHANGED <<places, partition, guest, known, path>>
    BY <1>4 DEF StartZmodem, Runs, session
  <2>2. frames' \in Layers
    BY <1>0, <2>1, Stacked
  <2>3. CodeIsInTheZone'
    BY <2>1, FetchedStands, FetchedIsRun DEF Fetch
  <2> QED
    BY <2>1, <2>2, <2>3
<1>5. CASE ReturnToFiles
  <2>1. /\ frames # << >> /\ frames' = Front(frames)
        /\ partition' = places.overlays
        /\ Fetch("FILES") /\ wfcLoaded' = FALSE /\ JumpTo("FILES")
        /\ UNCHANGED <<places, guest, known, path>>
    BY <1>5, StaysOnPartition DEF ReturnToFiles, Runs, session
  <2>2. frames' \in Layers
    BY <1>0, <2>1, Stacked
  <2>3. CodeIsInTheZone'
    BY <2>1, FetchedStands, FetchedIsRun DEF Fetch
  <2> QED
    BY <2>1, <2>2, <2>3
<1> QED
  BY <1>1, <1>2, <1>3, <1>4, <1>5

(* The doors: OVL_DOORS is back before its code goes on.                      *)
LEMMA DoorKeepsZone ==
  ASSUME OnePartition, ZoneInv, RunDoor \/ DoorReturns \/ DoorFails
  PROVE  ZoneInv'
<1> USE DEF ZoneInv
<1>1. CASE RunDoor
  <2>1. PICK p \in DoorPlaces : partition' = After(p)
    BY <1>1 DEF RunDoor
  <2>2. /\ frames # << >> /\ frames' = Append(frames, "door")
        /\ partition' = places.overlays
        /\ zone' = "door" /\ JumpTo("door")
        /\ UNCHANGED <<places, wfcLoaded, guest, known, path>>
    BY <1>1, <2>1, StaysOnPartition DEF RunDoor, Runs, session
  <2>3. frames' \in Layers /\ frames' # << >>
    BY <2>2, Stacked
  <2>4. CodeIsInTheZone'
    BY <2>2, FetchedIsRun
  <2> QED
    BY <2>2, <2>3, <2>4
<1>2. CASE DoorReturns \/ DoorFails
  <2>1. /\ frames # << >> /\ frames' \in {frames, Front(frames)}
        /\ partition' = places.overlays
        /\ \E left : ReloadDoors(left)
    <3>1. CASE DoorReturns
      BY <3>1 DEF DoorReturns, Runs
    <3>2. CASE DoorFails
      BY <3>2, StaysOnPartition DEF DoorFails, Runs
    <3> QED
      BY <1>2, <3>1, <3>2
  <2>2. /\ zone' = "DOORS" \/ broken'
        /\ wfcLoaded' = FALSE /\ JumpTo("DOORS")
        /\ UNCHANGED <<places, guest, known, path>>
    BY <2>1, FetchedStands DEF ReloadDoors, session
  <2>3. frames' \in Layers
    BY <2>1, Stacked DEF Ovls
  <2>4. CodeIsInTheZone'
    BY <2>2, FetchedIsRun
  <2> QED
    BY <2>1, <2>2, <2>3, <2>4
<1> QED
  BY <1>1, <1>2

(* Off and on, all is as it was at first.                                     *)
LEMMA PlugPulledKeepsZone ==
  ASSUME ZoneInv, PullPlug
  PROVE  ZoneInv'
<1>1. /\ places' = places /\ partition' = places.overlays
      /\ frames' = << >> /\ wfcLoaded' = FALSE /\ path' = << >> /\ known' = FALSE
      /\ jump'[1] = jump'[2]
  BY DEF PullPlug
<1>2. frames' \in Layers
  <2>1. << >> \in Layers
    BY DEF Layers
  <2> QED
    BY <1>1, <2>1
<1>3. CodeIsInTheZone'
  BY <1>1 DEF CodeIsInTheZone, InCode
<1> QED
  BY <1>1, <1>2, <1>3 DEF ZoneInv

(* On a board of one partition, code of an overlay or a door is entered,      *)
(* called back and returned into only while it stands in the zone, or after   *)
(* the load of it failed, however features, transfers and doors follow one    *)
(* another and fail.                                                          *)
THEOREM CodeStaysInTheZone ==
  ASSUME OnePartition
  PROVE  OverlaysSpec => []CodeIsInTheZone
<1>1. OverlaysInit => ZoneInv
  <2> SUFFICES ASSUME OverlaysInit PROVE ZoneInv
    OBVIOUS
  <2>1. /\ places \in Placements /\ partition = places.overlays
        /\ frames = << >> /\ ~wfcLoaded /\ path = << >> /\ ~known
        /\ jump = <<"", "">>
    BY DEF OverlaysInit
  <2>2. frames \in Layers
    <3>1. << >> \in Layers
      BY DEF Layers
    <3> QED
      BY <2>1, <3>1
  <2>3. CodeIsInTheZone
    BY <2>1 DEF CodeIsInTheZone, InCode
  <2> QED
    BY <2>1, <2>2, <2>3 DEF ZoneInv
<1>2. ZoneInv /\ [OverlaysNext]_overlayVars => ZoneInv'
  BY CallKeepsZone, MenuKeepsZone, FeatureKeepsZone, DoorKeepsZone, PlugPulledKeepsZone
     DEF OverlaysNext, OverlaysStep
<1>3. ZoneInv => CodeIsInTheZone
  BY DEF ZoneInv
<1> QED
  BY <1>1, <1>2, <1>3, PTL DEF OverlaysSpec

-----------------------------------------------------------------------------
(* Config: the drives and the partitions they stand on.                       *)

(* A configuration that is written and read again is the same.                *)
LEMMA FormatParses ==
  ASSUME NEW spec \in Specs
  PROVE  /\ ParseSpec(Format(spec)) = spec
         /\ Format(spec) \in Texts /\ Format(spec) # << >>
<1>1. spec = [device |-> spec.device, drive |-> spec.drive, init |-> spec.init]
  BY DEF Specs
<1>2. CASE spec.init # 0
  <2>1. Format(spec) = <<spec.device, spec.drive, spec.init>>
    BY <1>2 DEF Format
  <2> QED
    BY <1>1, <2>1 DEF ParseSpec, Texts
<1>3. CASE spec.init = 0 /\ spec.drive # 0
  <2>1. Format(spec) = <<spec.device, spec.drive>>
    BY <1>3 DEF Format
  <2> QED
    BY <1>1, <1>3, <2>1 DEF ParseSpec, Texts
<1>4. CASE spec.init = 0 /\ spec.drive = 0
  <2>1. Format(spec) = <<spec.device>>
    BY <1>4 DEF Format
  <2> QED
    BY <1>1, <1>4, <2>1 DEF ParseSpec, Texts
<1> QED
  BY <1>2, <1>3, <1>4

(* What is parsed from a text that was written is a place a file can be at.   *)
LEMMA ParsedIsSpec ==
  ASSUME NEW t \in Texts
  PROVE  ParseSpec(t) \in Specs
<1>1. PICK spec \in Specs : t = Format(spec)
  BY DEF Texts
<1> QED
  BY <1>1, FormatParses

(* The cache of disk.c, if it says anything, says where that drive stands.    *)
DriveStates == [current : [Devices -> Partitions], cached : Places \cup {Nowhere}]
CacheIsTrue(d) == d.cached # Nowhere => d.current[d.cached[1]] = d.cached[2]
Tracked(d) == d \in DriveStates /\ CacheIsTrue(d)
(* A selection that is not refused has the drive on the partition asked for.  *)
Lands(sel, device, n) == sel.ok /\ n # 0 => sel.drives.current[device] = n
Asking == {0} \cup Partitions

(* Drives as records.                                                         *)
LEMMA DriveRecord ==
  ASSUME NEW stands \in [Devices -> Partitions], NEW told \in Places \cup {Nowhere},
         told # Nowhere => stands[told[1]] = told[2]
  PROVE  Tracked([current |-> stands, cached |-> told])
BY DEF Tracked, DriveStates, CacheIsTrue

(* Forgetting where a drive stands makes nothing wrong.                       *)
LEMMA ForgottenIsTracked ==
  ASSUME NEW d, Tracked(d)
  PROVE  Tracked([d EXCEPT !.cached = Nowhere])
<1>1. [d EXCEPT !.cached = Nowhere] = [current |-> d.current, cached |-> Nowhere]
  BY DEF Tracked, DriveStates
<1>2. d.current \in [Devices -> Partitions]
  BY DEF Tracked, DriveStates
<1> QED
  BY <1>1, <1>2, DriveRecord

(* After a drive is told a partition the cache may say so.                    *)
LEMMA CommandedIsTracked ==
  ASSUME NEW d, Tracked(d), NEW device \in Devices, NEW n \in Asking
  PROVE  /\ Tracked(Commanded(d, device, n))
         /\ n # 0 => /\ Tracked([Commanded(d, device, n) EXCEPT !.cached = <<device, n>>])
                     /\ [Commanded(d, device, n) EXCEPT !.cached = <<device, n>>].current[device] = n
<1> DEFINE c == IF n = 0 THEN d.current ELSE [d.current EXCEPT ![device] = n]
<1>1. d.current \in [Devices -> Partitions]
  BY DEF Tracked, DriveStates
<1>2. c \in [Devices -> Partitions] /\ (n # 0 => c[device] = n)
  BY <1>1 DEF Asking
<1>3. Commanded(d, device, n) = [current |-> c, cached |-> Nowhere]
  BY DEF Commanded
<1> HIDE DEF c
<1>4. Tracked(Commanded(d, device, n))
  BY <1>2, <1>3, DriveRecord
<1>5. ASSUME n # 0
      PROVE  /\ Tracked([Commanded(d, device, n) EXCEPT !.cached = <<device, n>>])
             /\ [Commanded(d, device, n) EXCEPT !.cached = <<device, n>>].current[device] = n
  <2>1. [Commanded(d, device, n) EXCEPT !.cached = <<device, n>>]
          = [current |-> c, cached |-> <<device, n>>]
    BY <1>3
  <2>2. <<device, n>> \in Places
    BY <1>5 DEF Places, Asking
  <2>3. Tracked([current |-> c, cached |-> <<device, n>>])
    BY <1>2, <1>5, <2>2, DriveRecord
  <2> QED
    BY <1>2, <1>5, <2>1, <2>3
<1> QED
  BY <1>4, <1>5

(* A selection that reports success leaves the drive where it was asked to    *)
(* be: if the cache saves the command, the drive stands there already.        *)
LEMMA SelectedLands ==
  ASSUME NEW d, Tracked(d), NEW device \in Devices, NEW n \in Asking,
         NEW sel \in Selected(d, device, n)
  PROVE  Tracked(sel.drives) /\ Lands(sel, device, n)
<1>1. CASE n = 0 \/ d.cached = <<device, n>>
  <2>1. sel = [ok |-> TRUE, drives |-> d]
    BY <1>1 DEF Selected
  <2>2. n # 0 => d.current[device] = n
    <3>1. <<device, n>> # Nowhere
      BY ConfigAssumption DEF Nowhere
    <3> QED
      BY <1>1, <3>1 DEF Tracked, CacheIsTrue
  <2> QED
    BY <2>1, <2>2 DEF Lands
<1>2. CASE ~(n = 0 \/ d.cached = <<device, n>>)
  <2> DEFINE e == [Commanded(d, device, n) EXCEPT !.cached = <<device, n>>]
  <2>1. \/ sel = [ok |-> TRUE, drives |-> e]
        \/ sel = [ok |-> FALSE, drives |-> [d EXCEPT !.cached = Nowhere]]
    BY <1>2 DEF Selected
  <2>2. Tracked(e) /\ e.current[device] = n
    BY <1>2, CommandedIsTracked
  <2> HIDE DEF e
  <2>3. CASE sel = [ok |-> TRUE, drives |-> e]
    BY <2>2, <2>3 DEF Lands
  <2>4. CASE sel = [ok |-> FALSE, drives |-> [d EXCEPT !.cached = Nowhere]]
    <3>1. sel.ok = FALSE /\ sel.drives = [d EXCEPT !.cached = Nowhere]
      BY <2>4
    <3> QED
      BY <3>1, ForgottenIsTracked DEF Lands
  <2> QED
    BY <2>1, <2>3, <2>4
<1> QED
  BY <1>1, <1>2

(* Scratching a file may move the drive, and forgets so.                      *)
LEMMA ScratchedIsTracked ==
  ASSUME NEW d, Tracked(d), NEW device \in Devices, NEW n \in Asking,
         NEW scr \in Scratched(d, device, n)
  PROVE  Tracked(scr.drives)
<1>1. PICK sel \in Selected(d, device, n) :
        scr = [sel EXCEPT !.drives = IF sel.ok THEN Commanded(sel.drives, device, 0) ELSE @]
  BY DEF Scratched
<1>2. Tracked(sel.drives)
  BY SelectedLands
<1>3. Tracked(Commanded(sel.drives, device, 0))
  BY <1>2, CommandedIsTracked DEF Asking
<1>4. sel = [ok |-> sel.ok, drives |-> sel.drives]
  BY DEF Selected
<1>5. scr.drives = IF sel.ok THEN Commanded(sel.drives, device, 0) ELSE sel.drives
  BY <1>1, <1>4
<1> QED
  BY <1>2, <1>3, <1>5

(* Using a file of a place lands where the place says.                        *)
LEMMA UsedLands ==
  ASSUME NEW d, Tracked(d), NEW spec \in Specs, NEW sel \in Used(d, spec)
  PROVE  Tracked(sel.drives) /\ Lands(sel, spec.device, spec.drive)
<1>1. spec.device \in Devices /\ spec.drive \in Asking /\ spec.init \in Asking
  BY DEF Specs, Asking
<1>2. PICK told \in InitSent(d, spec) :
        sel \in IF told.ok THEN Selected(told.drives, spec.device, spec.drive) ELSE {told}
  BY DEF Used
<1>3. Tracked(told.drives)
  <2>1. \/ told = [ok |-> TRUE, drives |-> d]
        \/ told = [ok |-> TRUE, drives |-> Commanded(d, spec.device, spec.init)]
        \/ told = [ok |-> FALSE, drives |-> [d EXCEPT !.cached = Nowhere]]
    BY DEF InitSent
  <2>2. Tracked(Commanded(d, spec.device, spec.init))
    BY <1>1, CommandedIsTracked
  <2>3. Tracked([d EXCEPT !.cached = Nowhere])
    BY ForgottenIsTracked
  <2>4. CASE told = [ok |-> TRUE, drives |-> d]
    BY <2>4
  <2>5. CASE told = [ok |-> TRUE, drives |-> Commanded(d, spec.device, spec.init)]
    <3>1. told.drives = Commanded(d, spec.device, spec.init)
      BY <2>5
    <3> QED
      BY <3>1, <2>2
  <2>6. CASE told = [ok |-> FALSE, drives |-> [d EXCEPT !.cached = Nowhere]]
    <3>1. told.drives = [d EXCEPT !.cached = Nowhere]
      BY <2>6
    <3> QED
      BY <3>1, <2>3
  <2> QED
    BY <2>1, <2>4, <2>5, <2>6
<1>4. CASE told.ok
  BY <1>1, <1>2, <1>3, <1>4, SelectedLands
<1>5. CASE ~told.ok
  BY <1>2, <1>3, <1>5 DEF Lands
<1> QED
  BY <1>4, <1>5

(* What a handler records of the partition it got.                            *)
GotAsked(l) == l.wanted # 0 => l.got = l.wanted
(* What is recorded of an operation that landed.                              *)
LEMMA LandingIsAsked ==
  ASSUME NEW sel, NEW device, NEW n, Lands(sel, device, n), NEW l \in Landing(sel, device, n)
  PROVE  GotAsked(l)
<1>1. sel.ok /\ l = [wanted |-> n, got |-> sel.drives.current[device]]
  BY DEF Landing
<1> QED
  BY <1>1 DEF Lands, GotAsked

(* What is on the disk, and what a program makes of it.                       *)
SettingsOrNone == {0} \cup Settings
DiskTexts == [settings : SettingsOrNone, bbs_id : SettingsOrNone,
              system : Texts \cup {<< >>}, msgs : Texts \cup {<< >>}]
DiskStates == [Places -> [config : DiskTexts, access : SettingsOrNone]]
SameButId(x, y) == x.settings = y.settings /\ x.system = y.system /\ x.msgs = y.msgs

(* The configuration before a file is read.                                   *)
LEMMA DefaultsTyped ==
  ASSUME NEW device \in Devices
  PROVE  Defaults(device) \in CfgRecords
BY ConfigAssumption DEF Defaults, CfgRecords, Specs

(* The configuration after a file is read.                                    *)
LEMMA AppliedTyped ==
  ASSUME NEW device \in Devices, NEW text \in DiskTexts
  PROVE  Applied(device, text) \in CfgRecords
<1>1. Defaults(device).system \in Specs /\ Defaults(device).msgs \in Specs
  BY DefaultsTyped DEF CfgRecords
<1>2. /\ text.settings \in SettingsOrNone /\ text.bbs_id \in SettingsOrNone
      /\ text.system # << >> => text.system \in Texts
      /\ text.msgs # << >> => text.msgs \in Texts
  BY DEF DiskTexts
<1>3. /\ text.system # << >> => ParseSpec(text.system) \in Specs
      /\ text.msgs # << >> => ParseSpec(text.msgs) \in Specs
  BY <1>2, ParsedIsSpec
<1> QED
  BY <1>1, <1>2, <1>3 DEF Applied, CfgRecords, SettingsOrNone

(* A file that was written to the end reads back as it was; where it is read  *)
(* says nothing.                                                              *)
LEMMA WrittenReadsBack ==
  ASSUME NEW cfg \in CfgRecords, NEW lines \in 0..AllLines
  PROVE  /\ Written(cfg, lines) \in DiskTexts
         /\ \A device : SameButId(Applied(device, Written(cfg, AllLines)), cfg)
<1>1. /\ cfg.settings \in SettingsOrNone /\ cfg.system \in Specs /\ cfg.msgs \in Specs
      /\ 0 \in SettingsOrNone
  BY DEF CfgRecords, SettingsOrNone
<1>2. /\ Format(cfg.system) \in Texts /\ Format(cfg.system) # << >>
      /\ ParseSpec(Format(cfg.system)) = cfg.system
      /\ Format(cfg.msgs) \in Texts /\ Format(cfg.msgs) # << >>
      /\ ParseSpec(Format(cfg.msgs)) = cfg.msgs
  BY <1>1, FormatParses
<1>3. Written(cfg, lines) \in DiskTexts
  <2> DEFINE a == IF lines >= 1 THEN cfg.settings ELSE 0
             b == IF lines >= 2 THEN Format(cfg.system) ELSE << >>
             c == IF lines >= 3 THEN Format(cfg.msgs) ELSE << >>
  <2>1. a \in SettingsOrNone /\ b \in Texts \cup {<< >>} /\ c \in Texts \cup {<< >>}
    BY <1>1, <1>2
  <2>2. Written(cfg, lines) = [EmptyConfig EXCEPT !.settings = a, !.system = b, !.msgs = c]
    BY DEF Written
  <2> HIDE DEF a, b, c
  <2>3. [EmptyConfig EXCEPT !.settings = a, !.system = b, !.msgs = c] \in DiskTexts
    BY <1>1, <2>1 DEF EmptyConfig, DiskTexts
  <2> QED
    BY <2>2, <2>3
<1>4. /\ Written(cfg, AllLines).settings = cfg.settings
      /\ Written(cfg, AllLines).system = Format(cfg.system)
      /\ Written(cfg, AllLines).msgs = Format(cfg.msgs)
  BY DEF Written, EmptyConfig, AllLines
<1>5. ASSUME NEW device
      PROVE  SameButId(Applied(device, Written(cfg, AllLines)), cfg)
  BY <1>2, <1>4 DEF Applied, SameButId
<1> QED
  BY <1>3, <1>5

(* Where the drive stands is a place.                                         *)
LEMMA SpotIsPlace ==
  ASSUME NEW d, Tracked(d), NEW device \in Devices
  PROVE  Spot(device, d) \in Places
BY DEF Spot, Tracked, DriveStates, Places

(* A file of a place is written over.                                         *)
LEMMA WrittenOver ==
  ASSUME NEW D \in DiskStates, NEW p \in Places, NEW text \in DiskTexts
  PROVE  /\ [D EXCEPT ![p].config = text] \in DiskStates
         /\ [D EXCEPT ![p].config = text][p].config = text
<1>1. D[p] \in [config : DiskTexts, access : SettingsOrNone]
  BY DEF DiskStates
<1>2. [D[p] EXCEPT !.config = text] \in [config : DiskTexts, access : SettingsOrNone]
  BY <1>1
<1> QED
  BY <1>1, <1>2 DEF DiskStates

(* A save that reports success has put all of the file on the partition it    *)
(* names.                                                                     *)
LEMMA SavedIsThere ==
  ASSUME NEW d, Tracked(d), disk \in DiskStates, NEW cfg \in CfgRecords,
         NEW save \in Saved(d, cfg)
  PROVE  /\ Tracked(save.drives) /\ save.disk \in DiskStates
         /\ \A l \in save.landed : GotAsked(l)
         /\ save.ok /\ cfg.system.drive # 0 =>
              save.disk[<<cfg.system.device, cfg.system.drive>>].config = Written(cfg, AllLines)
<1> DEFINE device == cfg.system.device
           n == cfg.system.drive
<1>1. device \in Devices /\ n \in Asking /\ SavedDrive(cfg) = n
  BY DEF CfgRecords, Specs, Asking, SavedDrive
<1>2. PICK scr \in Scratched(d, device, n) : \E sel \in Selected(scr.drives, device, n) :
        \E lines \in LinesOut : save = SaveFrom(scr, sel, lines, cfg)
  BY <1>1 DEF Saved
<1>3. PICK sel \in Selected(scr.drives, device, n) :
        \E lines \in LinesOut : save = SaveFrom(scr, sel, lines, cfg)
  BY <1>2
<1>4. PICK lines \in LinesOut : save = SaveFrom(scr, sel, lines, cfg)
  BY <1>3
<1>5. lines \in 0..AllLines
  BY DEF LinesOut, AllLines
<1>6. Tracked(scr.drives)
  BY <1>1, ScratchedIsTracked
<1>7. Tracked(sel.drives) /\ Lands(sel, device, n)
  BY <1>1, <1>6, SelectedLands
<1> DEFINE emptied == IF scr.ok
                      THEN [disk EXCEPT ![Spot(device, scr.drives)].config = EmptyConfig]
                      ELSE disk
           text == Written(cfg, lines)
           spot == Spot(device, sel.drives)
<1>8. /\ save.drives = sel.drives /\ save.landed = Landing(sel, device, n)
      /\ save.ok = (sel.ok /\ lines = AllLines)
      /\ save.disk = IF sel.ok THEN [emptied EXCEPT ![spot].config = text] ELSE emptied
  BY <1>1, <1>4 DEF SaveFrom
<1>9. text \in DiskTexts /\ spot \in Places
  BY <1>1, <1>5, <1>7, WrittenReadsBack, SpotIsPlace
<1>10. emptied \in DiskStates
  <2>1. EmptyConfig \in DiskTexts
    BY DEF EmptyConfig, DiskTexts, SettingsOrNone
  <2>2. Spot(device, scr.drives) \in Places
    BY <1>1, <1>6, SpotIsPlace
  <2> QED
    BY <2>1, <2>2, WrittenOver
<1>11. save.ok /\ n # 0 => spot = <<device, n>> /\ sel.ok /\ text = Written(cfg, AllLines)
  BY <1>7, <1>8 DEF Lands, Spot
<1>12. \A l \in Landing(sel, device, n) : GotAsked(l)
  BY <1>7, LandingIsAsked
<1> HIDE DEF emptied, text, spot, device, n
<1>13. /\ [emptied EXCEPT ![spot].config = text] \in DiskStates
       /\ [emptied EXCEPT ![spot].config = text][spot].config = text
  BY <1>9, <1>10, WrittenOver
<1>14. save.disk \in DiskStates
  BY <1>8, <1>10, <1>13
<1>15. save.ok /\ n # 0 => save.disk[<<device, n>>].config = Written(cfg, AllLines)
  BY <1>8, <1>11, <1>13
<1> QED
  BY <1>7, <1>8, <1>12, <1>14, <1>15 DEF device, n

(* What the last report says is what is there: the part of the invariant that *)
(* connects the operator's screen with the partition drives start on.  The    *)
(* cache need not be true while no program runs, drives may be reset then.    *)
ReportedIsThere ==
  \A device \in Devices : reported.at = <<device, PowerUp>> =>
    SameButId(Applied(device, disk[<<device, PowerUp>>].config), reported.cfg)

ConfigInv ==
  /\ drives \in DriveStates
  /\ running # "none" => CacheIsTrue(drives)
  /\ bbs_cfg \in CfgRecords
  /\ disk \in DiskStates
  /\ reported.cfg \in CfgRecords
  /\ OperationsLandWhereAsked
  /\ ReportedIsThere

(* While a program runs the cache is right.                                   *)
LEMMA RunningIsTracked ==
  ASSUME ConfigInv, running # "none"
  PROVE  Tracked(drives) /\ bbs_cfg.system \in Specs /\ bbs_cfg.msgs \in Specs
BY DEF ConfigInv, Tracked, CfgRecords

(* A report is not at the place of another.                                   *)
LEMMA UntoldSaysNothing ==
  ASSUME NEW device \in Devices
  PROVE  Untold.at # <<device, PowerUp>> /\ Untold.cfg \in CfgRecords
<1>1. Untold.at = <<0, 0>> /\ device # 0
  BY ConfigAssumption DEF Untold, Nowhere
<1>2. Untold.cfg = Defaults(MsgDevice) /\ MsgDevice \in Devices
  BY ConfigAssumption DEF Untold
<1> QED
  BY <1>1, <1>2, DefaultsTyped

(* An operation that writes nothing lands where it asked.                     *)
LEMMA UseKeepsConfig ==
  ASSUME ConfigInv, running # "none", UNCHANGED <<disk, bbs_cfg, running, reported>>,
         NEW sel, NEW device, NEW n, Tracked(sel.drives), Lands(sel, device, n),
         drives' = sel.drives, landed' = Landing(sel, device, n)
  PROVE  ConfigInv'
<1>1. \A l \in landed' : GotAsked(l)
  BY LandingIsAsked
<1>2. OperationsLandWhereAsked'
  BY <1>1 DEF OperationsLandWhereAsked, GotAsked
<1>3. ReportedIsThere'
  BY DEF ConfigInv, ReportedIsThere
<1>4. drives' \in DriveStates /\ CacheIsTrue(drives')
  BY DEF Tracked
<1>5. CacheIsTrue(drives)'
  BY <1>4 DEF CacheIsTrue
<1> QED
  BY <1>2, <1>3, <1>4, <1>5 DEF ConfigInv

(* The operations that only read leave the disk alone and land where asked.   *)
LEMMA FilesKeepConfig ==
  ASSUME ConfigInv, UseSystem \/ UseMessages \/ AccessMenu \/ LookUpLimits
  PROVE  ConfigInv'
<1>1. ASSUME NEW spec \in Specs, UseFileOf(spec)
      PROVE  ConfigInv'
  <2>1. running # "none" /\ UNCHANGED <<disk, bbs_cfg, running, reported>>
    BY <1>1 DEF UseFileOf
  <2>2. PICK sel \in Used(drives, spec) :
          drives' = sel.drives /\ landed' = Landing(sel, spec.device, spec.drive)
    BY <1>1 DEF UseFileOf
  <2>3. Tracked(drives)
    BY <2>1, RunningIsTracked
  <2>4. Tracked(sel.drives) /\ Lands(sel, spec.device, spec.drive)
    BY <2>3, UsedLands
  <2> QED
    BY <2>1, <2>2, <2>4, UseKeepsConfig
<1>2. ASSUME running # "none", ReadLevels, UNCHANGED <<disk, bbs_cfg, running, reported>>
      PROVE  ConfigInv'
  <2> DEFINE system == bbs_cfg.system
  <2>1. PICK sel \in Selected(drives, system.device, system.drive) :
          drives' = sel.drives /\ landed' = Landing(sel, system.device, system.drive)
    BY <1>2 DEF ReadLevels
  <2>2. Tracked(drives) /\ system.device \in Devices /\ system.drive \in Asking
    BY <1>2, RunningIsTracked DEF Specs, Asking
  <2>3. Tracked(sel.drives) /\ Lands(sel, system.device, system.drive)
    BY <2>2, SelectedLands
  <2> QED
    BY <1>2, <2>1, <2>3, UseKeepsConfig
<1>3. CASE UseSystem \/ UseMessages
  <2>1. running # "none"
    BY <1>3 DEF UseSystem, UseMessages, UseFileOf
  <2> QED
    BY <1>1, <1>3, <2>1, RunningIsTracked DEF UseSystem, UseMessages
<1>4. CASE AccessMenu \/ LookUpLimits
  BY <1>2, <1>4 DEF AccessMenu, LookUpLimits
<1> QED
  BY <1>3, <1>4

(* Programs come and go.                                                      *)
LEMMA ProgramsKeepConfig ==
  ASSUME ConfigInv,
         \/ \E prog \in {"BOOT", "CONFIGURE"}, device \in Devices : LoadProgram(prog, device)
         \/ QuitProgram \/ ResetDrives \/ UNCHANGED configVars
  PROVE  ConfigInv'
<1>1. ASSUME NEW prog, NEW device \in Devices, LoadProgram(prog, device)
      PROVE  ConfigInv'
  <2>1. /\ bbs_cfg' = Applied(device, disk[Spot(device, drives)].config)
        /\ drives' = [drives EXCEPT !.cached = Nowhere]
        /\ landed' = {} /\ UNCHANGED <<disk, reported>>
    BY <1>1 DEF LoadProgram
  <2>2. drives' = [current |-> drives.current, cached |-> Nowhere]
        /\ drives.current \in [Devices -> Partitions]
    BY <2>1 DEF ConfigInv, DriveStates
  <2>3. Tracked(drives')
    BY <2>2, DriveRecord
  <2>4. Spot(device, drives) \in Places
    BY <2>2 DEF Spot, Places
  <2>5. disk[Spot(device, drives)].config \in DiskTexts
    BY <2>4 DEF ConfigInv, DiskStates
  <2>6. bbs_cfg' \in CfgRecords
    BY <2>1, <2>5, AppliedTyped
  <2>7. OperationsLandWhereAsked'
    BY <2>1 DEF OperationsLandWhereAsked
  <2>8. ReportedIsThere'
    BY <2>1 DEF ConfigInv, ReportedIsThere
  <2>9. drives' \in DriveStates /\ CacheIsTrue(drives)'
    BY <2>3 DEF Tracked, CacheIsTrue
  <2> QED
    BY <2>1, <2>6, <2>7, <2>8, <2>9 DEF ConfigInv
<1>2. CASE QuitProgram \/ UNCHANGED configVars
  <2>1. /\ running' = "none" \/ running' = running
        /\ UNCHANGED <<drives, disk, bbs_cfg, landed, reported>>
    BY <1>2 DEF QuitProgram, configVars
  <2>2. OperationsLandWhereAsked' /\ ReportedIsThere'
    BY <2>1 DEF ConfigInv, OperationsLandWhereAsked, ReportedIsThere
  <2> QED
    BY <2>1, <2>2 DEF ConfigInv, CacheIsTrue
<1>3. CASE ResetDrives
  <2>1. /\ running' = "none"
        /\ drives' = [drives EXCEPT !.current = [d \in Devices |-> PowerUp]]
        /\ UNCHANGED <<disk, bbs_cfg, landed, reported>>
    BY <1>3 DEF ResetDrives
  <2>2. drives' \in DriveStates
    BY <2>1, ConfigAssumption DEF ConfigInv, DriveStates
  <2>3. OperationsLandWhereAsked' /\ ReportedIsThere'
    BY <2>1 DEF ConfigInv, OperationsLandWhereAsked, ReportedIsThere
  <2> QED
    BY <2>1, <2>2, <2>3 DEF ConfigInv
<1> QED
  BY <1>1, <1>2, <1>3

(* BBS_ID is the one setting that a hand edit gives.                          *)
LEMMA HandEditKeepsConfig ==
  ASSUME ConfigInv, NEW device \in Devices, NEW n \in Settings, HandEdit(device, n)
  PROVE  ConfigInv'
<1> DEFINE p == <<device, PowerUp>>
<1>1. /\ running' = running /\ running = "none"
      /\ disk' = [disk EXCEPT ![p].config.bbs_id = n]
      /\ UNCHANGED <<drives, bbs_cfg, landed, reported>>
  BY DEF HandEdit
<1>2. p \in Places /\ disk \in DiskStates
  BY ConfigAssumption DEF ConfigInv, Places
<1> HIDE DEF p
<1>3. disk[p] \in [config : DiskTexts, access : SettingsOrNone]
  BY <1>2 DEF DiskStates
<1> DEFINE text == [disk[p].config EXCEPT !.bbs_id = n]
<1>4. /\ text \in DiskTexts /\ text.settings = disk[p].config.settings
      /\ text.system = disk[p].config.system /\ text.msgs = disk[p].config.msgs
  BY <1>3 DEF DiskTexts, SettingsOrNone
<1>5. disk' = [disk EXCEPT ![p].config = text]
  BY <1>1
<1> HIDE DEF text
<1>6. disk' \in DiskStates /\ disk'[p].config = text
      /\ \A q \in Places \ {p} : disk'[q] = disk[q]
  BY <1>2, <1>4, <1>5, WrittenOver DEF DiskStates
<1>7. ReportedIsThere'
  <2>1. SUFFICES ASSUME NEW other \in Devices, reported.at = <<other, PowerUp>>
                 PROVE  SameButId(Applied(other, disk'[<<other, PowerUp>>].config), reported.cfg)
    BY <1>1 DEF ReportedIsThere
  <2>2. SameButId(Applied(other, disk[<<other, PowerUp>>].config), reported.cfg)
    BY <2>1 DEF ConfigInv, ReportedIsThere
  <2>3. <<other, PowerUp>> \in Places
    BY ConfigAssumption DEF Places
  <2>4. CASE <<other, PowerUp>> = p
    BY <2>2, <2>4, <1>4, <1>6 DEF SameButId, Applied
  <2>5. CASE <<other, PowerUp>> # p
    BY <2>2, <2>3, <2>5, <1>6
  <2> QED
    BY <2>4, <2>5
<1>8. OperationsLandWhereAsked'
  BY <1>1 DEF ConfigInv, OperationsLandWhereAsked
<1> QED
  BY <1>1, <1>6, <1>7, <1>8 DEF ConfigInv

(* What the SysOp gives, saved or not.                                        *)
LEMMA EditKeepsConfig ==
  ASSUME ConfigInv, NEW cfg \in CfgRecords, NEW status \in BOOLEAN, Edit(cfg, status)
  PROVE  ConfigInv'
<1> DEFINE system == bbs_cfg.system
<1>1. running = "CONFIGURE" /\ bbs_cfg' = cfg
  BY DEF Edit
<1>2. Tracked(drives) /\ system \in Specs /\ cfg.system \in Specs
  BY <1>1, RunningIsTracked DEF CfgRecords
<1>3. PICK before \in (IF status THEN Used(drives, system) ELSE {[ok |-> FALSE, drives |-> drives]}),
           off \in (IF "power" \in ConfigFaults THEN BOOLEAN ELSE {FALSE}) :
        \E save \in Saved(before.drives, cfg) :
        \E after \in (IF save.ok /\ status THEN Used(save.drives, cfg.system)
                      ELSE {[ok |-> FALSE, drives |-> save.drives]}) :
          /\ save.cut /\ ~off => "full" \in ConfigFaults
          /\ drives' = after.drives /\ disk' = save.disk
          /\ landed' = Landing(before, system.device, system.drive) \cup save.landed
                         \cup Landing(after, cfg.system.device, cfg.system.drive)
          /\ running' = IF off THEN "none" ELSE running
          /\ reported' = IF save.ok /\ ~off
                         THEN [at |-> <<cfg.system.device, cfg.system.drive>>, cfg |-> cfg]
                         ELSE Untold
  BY Zenon DEF Edit
<1>4. PICK save \in Saved(before.drives, cfg) :
        \E after \in (IF save.ok /\ status THEN Used(save.drives, cfg.system)
                      ELSE {[ok |-> FALSE, drives |-> save.drives]}) :
          /\ drives' = after.drives /\ disk' = save.disk
          /\ landed' = Landing(before, system.device, system.drive) \cup save.landed
                         \cup Landing(after, cfg.system.device, cfg.system.drive)
          /\ reported' = IF save.ok /\ ~off
                         THEN [at |-> <<cfg.system.device, cfg.system.drive>>, cfg |-> cfg]
                         ELSE Untold
  BY <1>3
<1>5. PICK after \in (IF save.ok /\ status THEN Used(save.drives, cfg.system)
                      ELSE {[ok |-> FALSE, drives |-> save.drives]}) :
          /\ drives' = after.drives /\ disk' = save.disk
          /\ landed' = Landing(before, system.device, system.drive) \cup save.landed
                         \cup Landing(after, cfg.system.device, cfg.system.drive)
          /\ reported' = IF save.ok /\ ~off
                         THEN [at |-> <<cfg.system.device, cfg.system.drive>>, cfg |-> cfg]
                         ELSE Untold
  BY <1>4
<1>6. Tracked(before.drives) /\ Lands(before, system.device, system.drive)
  <2>1. CASE status
    BY <1>2, <2>1, <1>3, UsedLands
  <2>2. CASE ~status
    <3>1. before = [ok |-> FALSE, drives |-> drives]
      BY <2>2, <1>3
    <3> QED
      BY <3>1, <1>2 DEF Lands
  <2> QED
    BY <2>1, <2>2
<1>7. disk \in DiskStates
  BY DEF ConfigInv
<1>8. /\ Tracked(save.drives) /\ save.disk \in DiskStates
      /\ \A l \in save.landed : GotAsked(l)
      /\ save.ok /\ cfg.system.drive # 0 =>
           save.disk[<<cfg.system.device, cfg.system.drive>>].config = Written(cfg, AllLines)
  BY <1>6, <1>7, SavedIsThere
<1>9. Tracked(after.drives) /\ Lands(after, cfg.system.device, cfg.system.drive)
  <2>1. CASE save.ok /\ status
    BY <1>2, <1>8, <2>1, <1>5, UsedLands
  <2>2. CASE ~(save.ok /\ status)
    <3>1. after = [ok |-> FALSE, drives |-> save.drives]
      BY <2>2, <1>5
    <3> QED
      BY <3>1, <1>8 DEF Lands
  <2> QED
    BY <2>1, <2>2
<1> HIDE DEF system
<1>10. \A l \in landed' : GotAsked(l)
  <2>1. \A l \in Landing(before, system.device, system.drive) : GotAsked(l)
    BY <1>6, LandingIsAsked
  <2>2. \A l \in Landing(after, cfg.system.device, cfg.system.drive) : GotAsked(l)
    BY <1>9, LandingIsAsked
  <2> QED
    BY <1>5, <1>8, <2>1, <2>2
<1>11. OperationsLandWhereAsked'
  BY <1>10 DEF OperationsLandWhereAsked, GotAsked
<1>12. reported'.cfg \in CfgRecords /\ ReportedIsThere'
  <2>1. CASE save.ok /\ ~off
    <3>1. reported' = [at |-> <<cfg.system.device, cfg.system.drive>>, cfg |-> cfg]
      BY <2>1, <1>5
    <3>2. reported'.at = <<cfg.system.device, cfg.system.drive>> /\ reported'.cfg = cfg
      BY <3>1
    <3>3. ASSUME NEW device \in Devices, reported'.at = <<device, PowerUp>>
          PROVE  SameButId(Applied(device, disk'[<<device, PowerUp>>].config), reported'.cfg)
      <4>1. cfg.system.device = device /\ cfg.system.drive = PowerUp /\ PowerUp # 0
        BY <3>2, <3>3, ConfigAssumption
      <4>2. disk'[<<device, PowerUp>>].config = Written(cfg, AllLines)
        BY <4>1, <2>1, <1>5, <1>8
      <4>3. 0 \in 0..AllLines
        BY DEF AllLines
      <4> QED
        BY <3>2, <4>2, <4>3, WrittenReadsBack
    <3> QED
      BY <3>2, <3>3 DEF ReportedIsThere
  <2>2. CASE ~(save.ok /\ ~off)
    <3>1. reported' = Untold
      BY <2>2, <1>5
    <3>2. MsgDevice \in Devices
      BY ConfigAssumption
    <3> QED
      BY <3>1, <3>2, UntoldSaysNothing DEF ReportedIsThere
  <2> QED
    BY <2>1, <2>2
<1>13. drives' \in DriveStates /\ CacheIsTrue(drives)' /\ disk' \in DiskStates
  BY <1>5, <1>8, <1>9 DEF Tracked, CacheIsTrue
<1> QED
  BY <1>1, <1>11, <1>12, <1>13 DEF ConfigInv

(* The table of access levels is written over; CONFIG stays as it was.        *)
LEMMA LevelsWrittenOver ==
  ASSUME NEW D \in DiskStates, NEW p \in Places, NEW v \in SettingsOrNone
  PROVE  /\ [D EXCEPT ![p].access = v] \in DiskStates
         /\ \A q \in Places : [D EXCEPT ![p].access = v][q].config = D[q].config
<1>1. \A q \in Places : D[q] \in [config : DiskTexts, access : SettingsOrNone]
  BY DEF DiskStates
<1>2. /\ [D[p] EXCEPT !.access = v] \in [config : DiskTexts, access : SettingsOrNone]
      /\ [D[p] EXCEPT !.access = v].config = D[p].config
  BY <1>1
<1> QED
  BY <1>1, <1>2 DEF DiskStates

(* Saving the access levels scratches and writes one file, where asked.       *)
LEMMA EditLevelKeepsConfig ==
  ASSUME ConfigInv, NEW v \in Settings, EditLevel(v)
  PROVE  ConfigInv'
<1> DEFINE device == bbs_cfg.system.device
           n == bbs_cfg.system.drive
           emptied(scr) == IF scr.ok
             THEN [disk EXCEPT ![Spot(device, scr.drives)].access = 0] ELSE disk
<1>1. running = "CONFIGURE" /\ UNCHANGED <<bbs_cfg, running, reported>>
  BY DEF EditLevel
<1>2. Tracked(drives) /\ device \in Devices /\ n \in Asking
  BY <1>1, RunningIsTracked DEF Specs, Asking
<1>3. PICK scr \in Scratched(drives, device, n) :
        \E sel \in Selected(scr.drives, device, n) :
        \E kept \in {v} \cup (IF "full" \in ConfigFaults THEN {0} ELSE {}) :
          /\ drives' = sel.drives /\ landed' = Landing(sel, device, n)
          /\ disk' = IF sel.ok
               THEN [emptied(scr) EXCEPT ![Spot(device, sel.drives)].access = kept]
               ELSE emptied(scr)
  BY DEF EditLevel
<1>4. PICK sel \in Selected(scr.drives, device, n),
           kept \in {v} \cup (IF "full" \in ConfigFaults THEN {0} ELSE {}) :
          /\ drives' = sel.drives /\ landed' = Landing(sel, device, n)
          /\ disk' = IF sel.ok
               THEN [emptied(scr) EXCEPT ![Spot(device, sel.drives)].access = kept]
               ELSE emptied(scr)
  BY <1>3
<1>5. kept \in SettingsOrNone /\ 0 \in SettingsOrNone
  BY DEF SettingsOrNone
<1>6. Tracked(scr.drives)
  BY <1>2, ScratchedIsTracked
<1>7. Tracked(sel.drives) /\ Lands(sel, device, n)
  BY <1>2, <1>6, SelectedLands
<1>8. disk \in DiskStates /\ Spot(device, scr.drives) \in Places /\ Spot(device, sel.drives) \in Places
  BY <1>2, <1>6, <1>7, SpotIsPlace DEF ConfigInv
<1>9. /\ emptied(scr) \in DiskStates
      /\ \A q \in Places : emptied(scr)[q].config = disk[q].config
  BY <1>5, <1>8, LevelsWrittenOver
<1> DEFINE D == emptied(scr)
<1> HIDE DEF emptied, D
<1>10. /\ disk' \in DiskStates
       /\ \A q \in Places : disk'[q].config = disk[q].config
  <2>1. /\ D \in DiskStates /\ \A q \in Places : D[q].config = disk[q].config
        /\ disk' = IF sel.ok THEN [D EXCEPT ![Spot(device, sel.drives)].access = kept] ELSE D
    BY <1>4, <1>9 DEF D
  <2>2. /\ [D EXCEPT ![Spot(device, sel.drives)].access = kept] \in DiskStates
        /\ \A q \in Places :
             [D EXCEPT ![Spot(device, sel.drives)].access = kept][q].config = D[q].config
    BY <2>1, <1>5, <1>8, LevelsWrittenOver
  <2> QED
    BY <2>1, <2>2
<1>11. ReportedIsThere'
  <2>1. \A d \in Devices : <<d, PowerUp>> \in Places
    BY ConfigAssumption DEF Places
  <2> QED
    BY <2>1, <1>1, <1>10 DEF ConfigInv, ReportedIsThere
<1>12. OperationsLandWhereAsked'
  BY <1>4, <1>7, LandingIsAsked DEF OperationsLandWhereAsked, GotAsked
<1>13. drives' \in DriveStates /\ CacheIsTrue(drives)'
  BY <1>4, <1>7 DEF Tracked, CacheIsTrue
<1> QED
  BY <1>1, <1>10, <1>11, <1>12, <1>13 DEF ConfigInv

(* Every step keeps the invariant.                                            *)
LEMMA ConfigStep ==
  ASSUME ConfigInv, [ConfigNext]_configVars
  PROVE  ConfigInv'
<1>1. ASSUME NEW v \in Settings, EditSettings(v) \/ EditLine(v) \/ EditLevel(v)
      PROVE  ConfigInv'
  <2>1. [bbs_cfg EXCEPT !.settings = v] \in CfgRecords
    BY DEF ConfigInv, CfgRecords
  <2> QED
    BY <1>1, <2>1, EditKeepsConfig, EditLevelKeepsConfig DEF EditSettings, EditLine
<1>2. ASSUME NEW s \in SystemSpecs, NEW m \in MsgSpecs, EditDevices(SpecOf(s), SpecOf(m))
      PROVE  ConfigInv'
  <2>1. SpecOf(s) \in Specs /\ SpecOf(m) \in Specs
    BY ConfigAssumption DEF SpecOf, Specs
  <2>2. /\ ParseSpec(Format(SpecOf(s))) \in Specs
        /\ ParseSpec(Format(SpecOf(m))) \in Specs
    BY <2>1, FormatParses
  <2> DEFINE a == ParseSpec(Format(SpecOf(s)))
             b == ParseSpec(Format(SpecOf(m)))
  <2>3. Edit([bbs_cfg EXCEPT !.system = a, !.msgs = b], FALSE)
    BY <1>2 DEF EditDevices
  <2>4. a \in Specs /\ b \in Specs
    BY <2>2
  <2> HIDE DEF a, b
  <2>5. [bbs_cfg EXCEPT !.system = a, !.msgs = b] \in CfgRecords
    BY <2>4 DEF ConfigInv, CfgRecords
  <2> QED
    BY <2>3, <2>5, EditKeepsConfig
<1>3. ASSUME NEW device \in Devices, NEW n \in Settings, HandEdit(device, n)
      PROVE  ConfigInv'
  BY <1>3, HandEditKeepsConfig
<1>4. CASE UseSystem \/ UseMessages \/ AccessMenu \/ LookUpLimits
  BY <1>4, FilesKeepConfig
<1>5. CASE \/ \E prog \in {"BOOT", "CONFIGURE"}, device \in Devices : LoadProgram(prog, device)
           \/ QuitProgram \/ ResetDrives \/ UNCHANGED configVars
  BY <1>5, ProgramsKeepConfig
<1> QED
  BY <1>1, <1>2, <1>3, <1>4, <1>5 DEF ConfigNext

(* So it always holds.                                                        *)
LEMMA ConfigAlways == ConfigSpec => []ConfigInv
<1>1. ConfigInit => ConfigInv
  <2> SUFFICES ASSUME ConfigInit PROVE ConfigInv
    OBVIOUS
  <2>1. MsgDevice \in Devices /\ PowerUp \in Partitions
    BY ConfigAssumption
  <2>2. drives \in DriveStates
    BY <2>1 DEF ConfigInit, DriveStates
  <2>3. bbs_cfg \in CfgRecords
    BY <2>1, DefaultsTyped DEF ConfigInit
  <2>4. disk \in DiskStates
    BY DEF ConfigInit, DiskStates, DiskTexts, SettingsOrNone, EmptyConfig
  <2>5. OperationsLandWhereAsked /\ running = "none"
    BY DEF ConfigInit, OperationsLandWhereAsked
  <2>6. reported.cfg \in CfgRecords /\ ReportedIsThere
    BY <2>1, UntoldSaysNothing DEF ConfigInit, ReportedIsThere
  <2> QED
    BY <2>2, <2>3, <2>4, <2>5, <2>6 DEF ConfigInv
<1>2. ConfigInv /\ [ConfigNext]_configVars => ConfigInv'
  BY ConfigStep
<1> QED
  BY <1>1, <1>2, PTL DEF ConfigSpec

(* Whatever init commands and commands moved the drive or were refused, and   *)
(* whatever shares it, an operation that names a partition is done there.     *)
THEOREM OperationsLand == ConfigSpec => []OperationsLandWhereAsked
<1>1. ConfigInv => OperationsLandWhereAsked
  BY DEF ConfigInv
<1> QED
  BY <1>1, ConfigAlways, PTL

(* What the operator was told is saved is what the next program started from  *)
(* that device runs with.                                                     *)
THEOREM ReportsAreLoaded == ConfigSpec => ReportedIsLoaded
<1>1. ASSUME ConfigInv, NEW device \in Devices,
             \E prog \in {"BOOT", "CONFIGURE"} : LoadProgram(prog, device),
             reported.at = <<device, PowerUp>>
      PROVE  [bbs_cfg' EXCEPT !.bbs_id = 0] = [reported.cfg EXCEPT !.bbs_id = 0]
  <2>1. /\ bbs_cfg' = Applied(device, disk[Spot(device, drives)].config)
        /\ Spot(device, drives) = <<device, PowerUp>>
    BY <1>1 DEF LoadProgram, Spot
  <2>2. SameButId(bbs_cfg', reported.cfg)
    BY <1>1, <2>1 DEF ConfigInv, ReportedIsThere
  <2>3. <<device, PowerUp>> \in Places
    BY ConfigAssumption DEF Places
  <2>4. disk[<<device, PowerUp>>].config \in DiskTexts
    BY <1>1, <2>3 DEF ConfigInv, DiskStates
  <2>5. bbs_cfg' \in CfgRecords /\ reported.cfg \in CfgRecords
    BY <1>1, <2>1, <2>4, AppliedTyped DEF ConfigInv
  <2> QED
    BY <2>2, <2>5 DEF SameButId, CfgRecords
<1>2. ConfigInv =>
        [\A device \in Devices :
           (\E prog \in {"BOOT", "CONFIGURE"} : LoadProgram(prog, device))
           /\ reported.at = <<device, PowerUp>>
           => [bbs_cfg' EXCEPT !.bbs_id = 0] = [reported.cfg EXCEPT !.bbs_id = 0]]_configVars
  BY <1>1
<1> QED
  BY <1>2, ConfigAlways, PTL DEF ReportedIsLoaded

-----------------------------------------------------------------------------
(* Types: the message reader.                                                 *)

(* No board has more messages than there are at all.                          *)
Fits == \A b \in Boards : Len(index[b]) <= MaxMsgs

LEMMA NoMoreThanAll ==
  ASSUME Lists, NEW b \in Boards
  PROVE  Len(index[b]) <= Cardinality(AllMessages) /\ Cardinality(AllMessages) \in Nat
<1> DEFINE List(c) == {c} \X DOMAIN index[c]
           L == {List(c) : c \in Boards}
           f == [c \in Boards |-> List(c)]
<1>1. ASSUME NEW c \in Boards
      PROVE  /\ IsFiniteSet(List(c)) /\ Cardinality(List(c)) = Len(index[c])
  <2>1. index[c] \in Seq(Message)
    BY DEF Lists
  <2>2. DOMAIN index[c] = 1..Len(index[c]) /\ Len(index[c]) \in Nat
    BY <2>1, LenProperties
  <2>3. IsFiniteSet(DOMAIN index[c]) /\ Cardinality(DOMAIN index[c]) = Len(index[c])
    BY <2>2, FS_Interval
  <2>4. IsFiniteSet({c}) /\ Cardinality({c}) = 1
    BY FS_Singleton
  <2>5. IsFiniteSet(List(c)) /\ Cardinality(List(c)) = Cardinality({c}) * Cardinality(DOMAIN index[c])
    BY <2>3, <2>4, FS_Product
  <2>6. Cardinality({c}) * Cardinality(DOMAIN index[c]) = Len(index[c])
    BY <2>2, <2>3, <2>4
  <2> QED
    BY <2>5, <2>6
<1>2. IsFiniteSet(L)
  <2>1. f \in Surjection(Boards, L)
    BY DEF Surjection
  <2> HIDE DEF f, L
  <2> QED
    BY <2>1, FS_Surjection, ReaderAssumption
<1>3. IsFiniteSet(AllMessages)
  <2>1. \A T \in L : IsFiniteSet(T)
    BY <1>1
  <2>2. AllMessages = UNION L
    BY DEF AllMessages
  <2> HIDE DEF L
  <2> QED
    BY <1>2, <2>1, <2>2, FS_UNION
<1>4. List(b) \subseteq AllMessages
  BY DEF AllMessages
<1> HIDE DEF List
<1> QED
  BY <1>1, <1>3, <1>4, FS_Subset, FS_CardinalityType

(* Posting adds one message to a board, behind the others.                    *)
LEMMA PrunedIsAsLong ==
  ASSUME Lists, NEW b \in Boards
  PROVE  Len(Pruned(b)) = Len(index[b]) /\ Len(index[b]) \in Nat
<1>1. index[b] \in Seq(Message) /\ Pruned(b) \in Seq(Message)
  BY PrunedIsList DEF Lists
<1>2. DOMAIN Pruned(b) = DOMAIN index[b]
  BY DEF Pruned
<1>3. DOMAIN index[b] = 1..Len(index[b]) /\ DOMAIN Pruned(b) = 1..Len(Pruned(b))
      /\ Len(index[b]) \in Nat /\ Len(Pruned(b)) \in Nat
  BY <1>1, LenProperties
<1> QED
  BY <1>2, <1>3

LEMMA FitsStep ==
  ASSUME ReaderTyped, Fits, [ReaderNext]_readerVars
  PROVE  Fits'
<1> USE DEF Fits
<1>t. Lists /\ \A b \in Boards : index[b] \in Seq(Message)
  BY DEF ReaderTyped, Lists
<1>1. CASE UNCHANGED index
  BY <1>1
<1>2. CASE Posted /\ at # "menu" /\ cur # 0
  <2>1. cur \in Boards /\ reader \in Users
    BY <1>2 DEF ReaderTyped
  <2> DEFINE new == [author |-> reader, live |-> TRUE]
  <2>2. index' = [index EXCEPT ![cur] = Append(Pruned(cur), new)]
    BY <1>2 DEF Posted
  <2>3. Pruned(cur) \in Seq(Message) /\ new \in Message
    BY <1>t, <2>1, PrunedIsList DEF Message
  <2>4. Len(Append(Pruned(cur), new)) = Len(Pruned(cur)) + 1
    BY <2>3, AppendProperties
  <2>5. Len(Append(Pruned(cur), new)) <= MaxMsgs
    <3>1. Cardinality(AllMessages) < MaxMsgs /\ MaxMsgs \in Nat
      BY <1>2, ReaderAssumption DEF Posted
    <3>2. /\ Len(index[cur]) <= Cardinality(AllMessages) /\ Cardinality(AllMessages) \in Nat
          /\ Len(Pruned(cur)) = Len(index[cur]) /\ Len(index[cur]) \in Nat
      BY <1>t, <2>1, NoMoreThanAll, PrunedIsAsLong
    <3> QED
      BY <2>4, <3>1, <3>2
  <2> HIDE DEF new
  <2>6. ASSUME NEW b \in Boards
        PROVE  Len(index'[b]) <= MaxMsgs
    <3>1. index'[b] = IF b = cur THEN Append(Pruned(cur), new) ELSE index[b]
      BY <2>2, <1>t, <2>1 DEF Lists
    <3> QED
      BY <2>5, <3>1
  <2> QED
    BY <2>6
<1>3. CASE Kill
  <2>1. cur \in Boards
    BY <1>3 DEF Kill, Command, ReaderTyped
  <2> DEFINE list == [index[cur] EXCEPT ![curMsg].live = FALSE]
  <2>2. index' = [index EXCEPT ![cur] = list]
    BY <1>3 DEF Kill
  <2>3. Lists'
    BY ListsStep
  <2>4. ASSUME NEW b \in Boards
        PROVE  Len(index'[b]) <= MaxMsgs
    <3>1. DOMAIN index'[b] = DOMAIN index[b]
      BY <1>t, <2>1, <2>2 DEF Lists
    <3>2. index'[b] \in Seq(Message)
      BY <2>3 DEF Lists
    <3>3. DOMAIN index[b] = 1..Len(index[b]) /\ DOMAIN index'[b] = 1..Len(index'[b])
          /\ Len(index[b]) \in Nat /\ Len(index'[b]) \in Nat
      BY <1>t, <3>2, LenProperties
    <3> QED
      BY <3>1, <3>3
  <2> QED
    BY <2>4
<1>4. CASE Post \/ Reply
  BY <1>2, <1>4 DEF Post, Reply, Command
<1>5. CASE (\E u \in Users : Enter(u)) \/ LeaveReader \/ PowerLoss
  BY <1>1, <1>5 DEF Enter, LeaveReader, PowerLoss
<1>6. CASE ReadNew \/ (\E m \in 1..(MaxMsgs + 1) : ReadNumber(m)) \/ ReadFirst
  BY <1>1, <1>6 DEF ReadNew, ReadNumber, ReadFirst
<1>7. CASE (\E b \in Boards : ChangeBoard(b)) \/ ReadNext \/ EndReading
  BY <1>1, <1>7 DEF ChangeBoard, ReadNext, EndReading
<1>8. CASE UNCHANGED readerVars
  BY <1>1, <1>8 DEF readerVars
<1> QED
  BY <1>3, <1>4, <1>5, <1>6, <1>7, <1>8 DEF ReaderNext

(* What HighestShown yields.                                                  *)
LEMMA HighestIsThere ==
  ASSUME NEW n \in Nat, NEW S \in SUBSET (0..n), S # {}
  PROVE  Max(S) \in S
<1> DEFINE T == {n - x : x \in S}
<1>1. T \in SUBSET Nat /\ T # {}
  <2>1. \A x \in S : x \in 0..n
    OBVIOUS
  <2>2. \A x \in S : n - x \in Nat
    BY <2>1
  <2>3. PICK x : x \in S
    OBVIOUS
  <2>4. n - x \in T
    BY <2>3
  <2> QED
    BY <2>2, <2>4
<1>2. PICK m \in T : \A t \in T : m <= t
  BY <1>1, LeastNumberExists
<1>3. PICK x \in S : m = n - x
  BY <1>2
<1>4. \A y \in S : x >= y
  <2>1. ASSUME NEW y \in S
        PROVE  x >= y
    <3>1. n - y \in T
      OBVIOUS
    <3>2. m <= n - y
      BY <1>2, <3>1
    <3> QED
      BY <1>3, <3>2
  <2> QED
    BY <2>1
<1>5. \E h \in S : \A y \in S : h >= y
  BY <1>4
<1> QED
  BY <1>5 DEF Max

LEMMA ReaderTypeStep ==
  ASSUME ReaderTyped, Fits, ReaderTypeOK, [ReaderNext]_readerVars
  PROVE  ReaderTypeOK'
<1>t. /\ index \in [Boards -> Seq(Message)] /\ marks \in [Users -> Pointers]
      /\ at \in {"menu", "boards", "reading"}
      /\ reader \in Users \cup {0} /\ cur \in Boards \cup {0} /\ ptr \in Pointers
      /\ curMsg \in 0..MaxMsgs /\ author \in Users \cup {0} /\ key \in {"", "N"}
      /\ shown \in [Boards -> SUBSET (1..MaxMsgs)] /\ read \in [Users -> Pointers]
      /\ at # "menu" => reader \in Users
  BY DEF ReaderTypeOK, ReaderTyped
<1>u. brought \in Currents
  BY DEF ReaderTypeOK
<1>0. MaxMsgs \in Nat /\ 1 \in Boards
  BY ReaderAssumption
<1>n. 0 \in 0..MaxMsgs
  BY <1>0
<1>a. index' \in [Boards -> Seq(Message)] /\ at' \in {"menu", "boards", "reading"}
  BY ListsStep, AtStep DEF Lists
<1>z. [b \in Boards |-> 0] \in Pointers /\ [b \in Boards |-> {}] \in [Boards -> SUBSET (1..MaxMsgs)]
  BY <1>0 DEF Pointers
<1>k. key' \in {"", "N"}
  BY <1>t, Zenon DEF ReaderNext, Enter, LeaveReader, PowerLoss, Closed, ReadNew, ReadNumber, ReadFirst,
     Post, ChangeBoard, ReadNext, Reply, Kill, EndReading, Command, readerVars
<1>b. brought' \in {brought, Nothing, <<cur', curMsg'>>}
  BY Zenon DEF ReaderNext, Enter, LeaveReader, PowerLoss, Closed, ReadNew, ReadNumber, ReadFirst,
     Post, ChangeBoard, ReadNext, Reply, Kill, EndReading, Command, readerVars
<1>l. ASSUME at # "menu", cur # 0, NEW m \in Live(cur)
      PROVE  m \in 1..MaxMsgs /\ index[cur][m].author \in Users
  <2>1. cur \in Boards /\ index[cur] \in Seq(Message)
    BY <1>t, <1>l
  <2>2. m \in 1..Len(index[cur]) /\ Len(index[cur]) \in Nat /\ Len(index[cur]) <= MaxMsgs
        /\ index[cur][m] \in Message
    BY <1>l, <2>1, LiveNumbers, LenProperties DEF ReaderTyped, Fits
  <2> QED
    BY <1>0, <2>2 DEF Message
<1>d. ASSUME NEW m, at # "menu", cur # 0, Display(m)
      PROVE  /\ curMsg' \in 0..MaxMsgs /\ author' \in Users \cup {0}
             /\ shown' \in [Boards -> SUBSET (1..MaxMsgs)]
  <2>1. CASE m \in Live(cur)
    <3>1. m \in 1..MaxMsgs /\ index[cur][m].author \in Users /\ cur \in Boards
      BY <1>d, <1>l, <1>t, <2>1
    <3>2. /\ curMsg' = m /\ author' = index[cur][m].author
          /\ shown' = [shown EXCEPT ![cur] = @ \cup {m}]
      BY <1>d, <2>1 DEF Display
    <3>3. shown' \in [Boards -> SUBSET (1..MaxMsgs)]
      BY <1>t, <3>1, <3>2
    <3>4. m \in 0..MaxMsgs
      BY <1>0, <3>1
    <3> QED
      BY <3>1, <3>2, <3>3, <3>4
  <2>2. CASE m \notin Live(cur)
    BY <1>d, <1>t, <2>2 DEF Display, msg
  <2> QED
    BY <2>1, <2>2
<1>p. ASSUME NEW m \in 0..MaxMsgs
      PROVE  Advanced(ptr, m) \in Pointers
  BY <1>t DEF Advanced, Pointers
<1>q. ASSUME marks' \in [Users -> Pointers], reader' \in Users \cup {0}, cur' \in Boards \cup {0},
             ptr' \in Pointers, curMsg' \in 0..MaxMsgs, author' \in Users \cup {0},
             shown' \in [Boards -> SUBSET (1..MaxMsgs)], read' \in [Users -> Pointers]
      PROVE  ReaderTypeOK'
  <2>1. Pointers' = Pointers
    BY DEF Pointers
  <2>2. /\ index' \in [Boards -> Seq(Message)] /\ at' \in {"menu", "boards", "reading"}
        /\ key' \in {"", "N"}
    BY <1>a, <1>k, Zenon
  <2>3. Message' = Message
    BY DEF Message
  <2>4. (brought \in Currents)'
    BY ONLY <1>b, <1>n, <1>q, <1>u, SMT DEF Nothing, Currents
  <2>5. /\ (index \in [Boards -> Seq(Message)])' /\ (marks \in [Users -> Pointers])'
        /\ (ptr \in Pointers)' /\ (read \in [Users -> Pointers])'
    BY ONLY <1>q, <2>1, <2>2, <2>3, Zenon
  <2> QED
    BY ONLY <1>q, <2>2, <2>4, <2>5, Zenon DEF ReaderTypeOK
<1>1. ASSUME NEW u \in Users, Enter(u)
      PROVE  ReaderTypeOK'
  <2>1. ptr' \in Pointers
    BY <1>1, <1>t, <1>z DEF Enter
  <2>2. /\ reader' = u /\ cur' \in {1, cur} /\ curMsg' \in {0, curMsg} /\ author' = author
        /\ shown' = [b \in Boards |-> {}] /\ UNCHANGED <<marks, read>>
    BY <1>1 DEF Enter, LoadBoard, msg
  <2>3. /\ marks' \in [Users -> Pointers] /\ reader' \in Users \cup {0} /\ cur' \in Boards \cup {0}
       /\ ptr' \in Pointers /\ curMsg' \in 0..MaxMsgs /\ author' \in Users \cup {0}
       /\ shown' \in [Boards -> SUBSET (1..MaxMsgs)] /\ read' \in [Users -> Pointers]
    BY <1>0, <1>n, <1>t, <1>z, <2>1, <2>2
  <2> QED
    BY <1>q, <2>3
<1>2. CASE LeaveReader
  <2>1. Closed /\ at # "menu"
    BY <1>2 DEF LeaveReader
  <2>2. /\ reader' = 0 /\ UNCHANGED <<cur, curMsg, author>> /\ ptr' \in Pointers
        /\ shown' \in [Boards -> SUBSET (1..MaxMsgs)]
    BY <1>2, <1>z, <2>1 DEF LeaveReader, Closed, msg
  <2>3. marks' \in [Users -> Pointers]
    BY <1>2, <1>t DEF LeaveReader
  <2>4. read' \in [Users -> Pointers]
    <3>1. CASE read' = [read EXCEPT ![reader] = IF LeftOver THEN ptr ELSE
                                     [b \in Boards |-> HighestShown(b)]]
      <4>1. ASSUME NEW b \in Boards
            PROVE  HighestShown(b) \in 0..MaxMsgs
        <5> DEFINE S == shown[b] \cup {read[reader][b]}
        <5>1. S \in SUBSET (0..MaxMsgs) /\ S # {}
          <6>1. reader \in Users /\ read[reader][b] \in 0..MaxMsgs /\ shown[b] \in SUBSET (1..MaxMsgs)
            BY <1>t, <2>1 DEF Pointers
          <6>2. 1..MaxMsgs \subseteq 0..MaxMsgs
            BY <1>0
          <6> QED
            BY <6>1, <6>2
        <5> HIDE DEF S
        <5>2. Max(S) \in S
          BY <1>0, <5>1, HighestIsThere
        <5> QED
          BY <5>1, <5>2 DEF HighestShown, S
      <4>2. [b \in Boards |-> HighestShown(b)] \in Pointers
        BY <4>1 DEF Pointers
      <4> QED
        BY <1>t, <3>1, <4>2
    <3>2. CASE read' = read
      BY <1>t, <3>2
    <3> QED
      BY <1>2, <3>1, <3>2 DEF LeaveReader
  <2>5. /\ marks' \in [Users -> Pointers] /\ reader' \in Users \cup {0} /\ cur' \in Boards \cup {0}
       /\ ptr' \in Pointers /\ curMsg' \in 0..MaxMsgs /\ author' \in Users \cup {0}
       /\ shown' \in [Boards -> SUBSET (1..MaxMsgs)] /\ read' \in [Users -> Pointers]
    BY <1>t, <2>2, <2>3, <2>4
  <2> QED
    BY <1>q, <2>5
<1>3. CASE PowerLoss
  <2>1. /\ reader' = 0 /\ cur' = 0 /\ curMsg' = 0 /\ author' = 0 /\ ptr' \in Pointers
        /\ shown' \in [Boards -> SUBSET (1..MaxMsgs)] /\ UNCHANGED <<marks, read>>
    BY <1>3, <1>z DEF PowerLoss, Closed
  <2>2. /\ marks' \in [Users -> Pointers] /\ reader' \in Users \cup {0} /\ cur' \in Boards \cup {0}
       /\ ptr' \in Pointers /\ curMsg' \in 0..MaxMsgs /\ author' \in Users \cup {0}
       /\ shown' \in [Boards -> SUBSET (1..MaxMsgs)] /\ read' \in [Users -> Pointers]
    BY <1>n, <1>t, <2>1
  <2> QED
    BY <1>q, <2>2
<1>4. ASSUME NEW m, at # "menu", cur # 0, Display(m), ptr' = ptr \/ ptr' \in Pointers,
             UNCHANGED <<marks, reader, cur, read>>
      PROVE  ReaderTypeOK'
  <2>1. ptr' \in Pointers
    BY <1>4, <1>t
  <2>2. /\ marks' \in [Users -> Pointers] /\ reader' \in Users \cup {0} /\ cur' \in Boards \cup {0}
       /\ ptr' \in Pointers /\ curMsg' \in 0..MaxMsgs /\ author' \in Users \cup {0}
       /\ shown' \in [Boards -> SUBSET (1..MaxMsgs)] /\ read' \in [Users -> Pointers]
    BY <1>4, <1>d, <1>t, <2>1
  <2> QED
    BY <1>q, <2>2
<1>5. CASE UNCHANGED <<msg, shown, ptr, cur, marks, reader, read>>
  BY <1>5, <1>q, <1>t DEF msg
<1>6. CASE ReadNew \/ ReadFirst
  <2>1. CASE UNCHANGED <<msg, shown, ptr>>
    BY <1>5, <1>6, <2>1 DEF ReadNew, ReadFirst, Command
  <2>2. ASSUME NEW m \in Live(cur), Display(m), ptr' = Advanced(ptr, m)
        PROVE  ReaderTypeOK'
    <3>1. at # "menu" /\ cur # 0 /\ UNCHANGED <<marks, reader, cur, read>>
      BY <1>6 DEF ReadNew, ReadFirst, Command
    <3>2. m \in 0..MaxMsgs
      BY <1>0, <1>l, <3>1
    <3>3. ptr' \in Pointers
      BY <1>p, <2>2, <3>2
    <3> QED
      BY <1>4, <2>2, <3>1, <3>3
  <2> QED
    BY <1>6, <2>1, <2>2 DEF ReadNew, ReadFirst
<1>7. ASSUME NEW m \in 1..(MaxMsgs + 1), ReadNumber(m)
      PROVE  ReaderTypeOK'
  <2>1. at # "menu" /\ cur # 0 /\ Display(m) /\ UNCHANGED <<marks, reader, cur, read>>
    BY <1>7 DEF ReadNumber, Command
  <2>2. curMsg' \in 0..MaxMsgs
    BY <1>d, <2>1
  <2>3. ptr' = ptr \/ ptr' \in Pointers
    BY <1>7, <1>p, <2>2 DEF ReadNumber
  <2> QED
    BY <1>4, <2>1, <2>3
<1>8. CASE ReadNext
  <2>1. at # "menu" /\ cur # 0 /\ UNCHANGED <<marks, reader, cur, read>>
    BY <1>8 DEF ReadNext, Command
  <2>2. CASE UNCHANGED <<msg, shown, ptr>>
    BY <1>5, <2>1, <2>2
  <2>3. CASE /\ Display(curMsg + 1)
             /\ ptr' = IF curMsg + 1 \in Live(cur) THEN Advanced(ptr, curMsg') ELSE ptr
    <3>1. curMsg' \in 0..MaxMsgs
      BY <1>d, <2>1, <2>3
    <3>2. ptr' = ptr \/ ptr' \in Pointers
      BY <1>p, <2>3, <3>1
    <3> QED
      BY <1>4, <2>1, <2>3, <3>2
  <2> QED
    BY <1>8, <2>2, <2>3 DEF ReadNext
<1>9. CASE Post \/ Reply \/ EndReading \/ UNCHANGED readerVars
  BY <1>5, <1>9 DEF Post, Reply, Posted, EndReading, Command, readerVars, place
<1>10. ASSUME NEW b \in Boards, ChangeBoard(b)
       PROVE  ReaderTypeOK'
  <2>1. /\ cur' \in {b, cur} /\ curMsg' \in {0, curMsg} /\ author' = author
        /\ UNCHANGED <<ptr, shown, marks, reader, read>>
    BY <1>10 DEF ChangeBoard, LoadBoard, msg
  <2>2. /\ marks' \in [Users -> Pointers] /\ reader' \in Users \cup {0} /\ cur' \in Boards \cup {0}
       /\ ptr' \in Pointers /\ curMsg' \in 0..MaxMsgs /\ author' \in Users \cup {0}
       /\ shown' \in [Boards -> SUBSET (1..MaxMsgs)] /\ read' \in [Users -> Pointers]
    BY <1>n, <1>t, <2>1
  <2> QED
    BY <1>q, <2>2
<1>11. CASE Kill
  <2>1. curMsg' = 0 /\ UNCHANGED <<cur, ptr, author, shown, marks, reader, read>>
    BY <1>11 DEF Kill, Command
  <2>2. /\ marks' \in [Users -> Pointers] /\ reader' \in Users \cup {0} /\ cur' \in Boards \cup {0}
       /\ ptr' \in Pointers /\ curMsg' \in 0..MaxMsgs /\ author' \in Users \cup {0}
       /\ shown' \in [Boards -> SUBSET (1..MaxMsgs)] /\ read' \in [Users -> Pointers]
    BY <1>n, <1>t, <2>1
  <2> QED
    BY <1>q, <2>2
<1> QED
  BY <1>1, <1>2, <1>3, <1>6, <1>7, <1>8, <1>9, <1>10, <1>11 DEF ReaderNext

(* No mark, no message on display and no message shown lies beyond the        *)
(* messages there are, whatever is posted, pruned or lost.                    *)
THEOREM ReaderIsTyped == ReaderSpec => []ReaderTypeOK
<1>1. ReaderInit => Fits /\ ReaderTypeOK
  <2> SUFFICES ASSUME ReaderInit PROVE Fits /\ ReaderTypeOK
    OBVIOUS
  <2>1. << >> \in Seq(Message) /\ Len(<< >>) = 0 /\ MaxMsgs \in Nat
    BY EmptySeq, ReaderAssumption
  <2>2. [b \in Boards |-> 0] \in Pointers
    BY <2>1 DEF Pointers
  <2>3. [b \in Boards |-> {}] \in [Boards -> SUBSET (1..MaxMsgs)]
    OBVIOUS
  <2>4. Fits
    <3>1. index = [b \in Boards |-> << >>]
      BY Zenon DEF ReaderInit
    <3> QED
      BY <2>1, <3>1 DEF Fits
  <2>5. 0 \in 0..MaxMsgs
    BY <2>1
  <2>6. index \in [Boards -> Seq(Message)] /\ marks \in [Users -> Pointers] /\ read \in [Users -> Pointers]
    BY <2>1, <2>2, Zenon DEF ReaderInit
  <2>7. brought \in Currents
    BY <2>5 DEF ReaderInit, Nothing, Currents
  <2> QED
    BY <2>2, <2>3, <2>4, <2>5, <2>6, <2>7, Zenon DEF ReaderInit, ReaderTypeOK
<1>2. ReaderTyped /\ Fits /\ ReaderTypeOK /\ [ReaderNext]_readerVars
        => ReaderTyped' /\ Fits' /\ ReaderTypeOK'
  BY ReaderTypedStep, FitsStep, ReaderTypeStep
<1> QED
  BY <1>1, <1>2, ReaderTypedInit, PTL DEF ReaderSpec

-----------------------------------------------------------------------------
(* Types: the file areas.                                                     *)

(* An area in memory counts as many files as its record on the disk, and no   *)
(* area counts more than there were uploads.                                  *)
AreaCounts ==
  /\ area.id \in 0..Len(Areas)
  /\ area.total = IF area.id = 0 THEN 0 ELSE totals[area.id]
  /\ totals \in [AreaNums -> Nat] /\ \A a \in AreaNums : totals[a] <= uploads
  /\ uploads \in Nat /\ uploads <= MaxUploads

(* What is stored, listed and asked for is an upload or what is left of one.  *)
FileContents ==
  /\ level \in CallerLevels \cup {0} /\ areaIdx \in 0..Len(Areas)
  /\ \A a \in AreaNums : \A n \in EntryNums : entries[a][n].upload <= MaxUploads
  /\ store \in [Names -> 0..Damaged]

(* The variables of the model after a step that moves about in the browser.   *)
LEMMA MovingCounts ==
  ASSUME FilesInv, AreaCounts, FileContents,
         \/ \E l \in CallerLevels : EnterFiles(l)
         \/ LeaveFiles
         \/ \E fwd \in BOOLEAN : ShiftArea(fwd)
         \/ \E n \in 1..(Len(Areas) + 1) : JumpArea(n)
         \/ UNCHANGED fileVars
  PROVE  AreaCounts' /\ FileContents'
<1>1. UNCHANGED <<totals, entries, store, uploads>>
  BY DEF EnterFiles, LeaveFiles, ShiftArea, JumpArea, fileVars
<1>2. Len(Areas) \in Nat /\ (Areas # << >> => Len(Areas) > 0)
  BY FilesAssumption, EmptySeq
<1>3. \/ area' = NoArea
      \/ \E a \in AreaNums : area' = Loaded(a)
      \/ area' = area
  BY <1>2 DEF EnterFiles, LeaveFiles, ShiftArea, JumpArea, fileVars, AreaNums
<1>4. area'.id \in 0..Len(Areas)
      /\ area'.total = IF area'.id = 0 THEN 0 ELSE totals'[area'.id]
  <2>1. CASE area' = NoArea
    BY <2>1, <1>2 DEF NoArea
  <2>2. ASSUME NEW a \in AreaNums, area' = Loaded(a)
        PROVE  area'.id = a /\ area'.total = totals[a] /\ a # 0 /\ a \in 0..Len(Areas)
    BY <2>2, <1>2 DEF Loaded, AreaNums
  <2>3. CASE area' = area
    BY <2>3, <1>1 DEF AreaCounts
  <2> QED
    BY <1>1, <1>3, <2>1, <2>2, <2>3
<1>5. areaIdx' \in 0..Len(Areas)
  BY <1>2 DEF EnterFiles, LeaveFiles, ShiftArea, JumpArea, fileVars, AreaNums, FileContents
<1>6. level' \in CallerLevels \cup {0}
  BY DEF EnterFiles, LeaveFiles, ShiftArea, JumpArea, fileVars, FileContents
<1> QED
  BY <1>1, <1>4, <1>5, <1>6 DEF AreaCounts, FileContents, AreaNums, EntryNums

(* A download writes back an entry of the same upload.                        *)
LEMMA DownloadCounts ==
  ASSUME FilesInv, AreaCounts, FileContents, NEW typedNum \in Nat, Download(typedNum)
  PROVE  AreaCounts' /\ FileContents'
<1> DEFINE n == RecNum(typedNum)
           a == area.id
           fe == ByRecNum(a, n)
<1>1. /\ areaIdx # 0 /\ fe # NoFile
      /\ SaveEntry(a, n, [fe EXCEPT !.downloads = 1]) \/ UNCHANGED entries
      /\ UNCHANGED <<level, areaIdx, area, totals, store, uploads>>
  BY DEF Download
<1>2. a \in AreaNums
  BY <1>1 DEF FilesInv
<1>3. n \in EntryNums /\ fe = entries[a][n]
  BY <1>1 DEF ByRecNum
<1> HIDE DEF n, a, fe
<1>4. fe \in EntryRecords /\ fe.upload <= MaxUploads
  BY <1>2, <1>3 DEF FilesInv, FileContents
<1> DEFINE r == [fe EXCEPT !.downloads = 1]
<1>5. r.upload = fe.upload
  BY <1>4, CountedEntry
<1>6. entries' = entries \/ entries' = [entries EXCEPT ![a][n] = r]
  BY <1>1 DEF SaveEntry
<1> HIDE DEF r
<1>7. ASSUME NEW b \in AreaNums, NEW m \in EntryNums
      PROVE  entries'[b][m].upload <= MaxUploads
  <2>1. entries \in [AreaNums -> [EntryNums -> EntryRecords]]
    BY DEF FilesInv
  <2>2. entries'[b][m] \in {entries[b][m], r}
    BY <2>1, <1>2, <1>3, <1>6
  <2> QED
    BY <2>2, <1>4, <1>5 DEF FileContents
<1>8. AreaCounts'
  BY <1>1 DEF AreaCounts, AreaNums
<1> QED
  BY <1>1, <1>7, <1>8 DEF FileContents, AreaNums, EntryNums

(* An upload is one more, in the area, on the disk and altogether.            *)
LEMMA UploadCounts ==
  ASSUME FilesInv, AreaCounts, FileContents, NEW name \in Names, Upload(name)
  PROVE  AreaCounts' /\ FileContents'
<1> DEFINE a == area.id
           new == [name |-> name, downloads |-> 0, upload |-> uploads']
<1>1. /\ areaIdx # 0 /\ uploads' = uploads + 1 /\ uploads \in Nat /\ uploads < MaxUploads
      /\ UNCHANGED <<areaIdx, level>> /\ MaxUploads \in Nat
      /\ a \in AreaNums /\ a # 0 /\ a \in 0..Len(Areas) /\ Len(Areas) \in Nat
  BY FilesAssumption DEF Upload, FilesInv, AreaCounts, AreaNums
<1>2. \/ /\ AddEntry(a, new) /\ area' = [area EXCEPT !.total = @ + 1]
         /\ totals' = [totals EXCEPT ![a] = area'.total]
      \/ UNCHANGED <<entries, area, totals>>
  BY DEF Upload
<1>3. \/ \E c \in {uploads', Damaged} : store' = [store EXCEPT ![name] = c]
      \/ UNCHANGED store
  BY DEF Upload
<1>4. area = [id |-> a, total |-> area.total] /\ area.total = totals[a]
  BY <1>1 DEF FilesInv, AreaCounts
<1>5. totals \in [AreaNums -> Nat] /\ \A b \in AreaNums : totals[b] <= uploads
  BY DEF AreaCounts
<1> HIDE DEF a, new
<1>6. AreaCounts'
  <2>1. CASE /\ area' = [area EXCEPT !.total = @ + 1]
             /\ totals' = [totals EXCEPT ![a] = area'.total]
    <3>1. area'.id = a /\ area'.total = totals[a] + 1
      BY <2>1, <1>4
    <3>2. totals' = [totals EXCEPT ![a] = totals[a] + 1]
      BY <2>1, <3>1
    <3>3. totals' \in [AreaNums -> Nat] /\ totals'[a] = totals[a] + 1
      BY <3>2, <1>1, <1>5
    <3>4. ASSUME NEW b \in AreaNums
          PROVE  totals'[b] <= uploads'
      <4>1. totals'[b] = totals[b] \/ totals'[b] = totals[b] + 1
        BY <3>2, <1>1, <1>5
      <4> QED
        BY <4>1, <1>1, <1>5
    <3> QED
      BY <3>1, <3>3, <3>4, <1>1 DEF AreaCounts, AreaNums
  <2>2. CASE UNCHANGED <<area, totals>>
    <3>1. ASSUME NEW b \in AreaNums
          PROVE  totals[b] <= uploads'
      BY <1>1, <1>5
    <3> QED
      BY <2>2, <3>1, <1>1, <1>5, <1>4 DEF AreaCounts, AreaNums, a
  <2> QED
    BY <2>1, <2>2, <1>2
<1>7. ASSUME NEW b \in AreaNums, NEW m \in EntryNums
      PROVE  entries'[b][m].upload <= MaxUploads
  <2>1. entries \in [AreaNums -> [EntryNums -> EntryRecords]]
    BY DEF FilesInv
  <2>2. new.upload <= MaxUploads
    BY <1>1 DEF new
  <2>3. CASE entries' = entries
    BY <2>3 DEF FileContents
  <2>4. CASE FreeEntry(a) # 0 /\ entries' = [entries EXCEPT ![a][FreeEntry(a)] = new]
    <3> DEFINE k == FreeEntry(a)
    <3>1. k \in EntryNums
      BY <2>4, FreeEntryIsFirst
    <3>2. entries' = [entries EXCEPT ![a][k] = new]
      BY <2>4
    <3> HIDE DEF k
    <3>3. entries'[b][m] \in {entries[b][m], new}
      BY <2>1, <3>1, <3>2, <1>1
    <3> QED
      BY <3>3, <2>2 DEF FileContents
  <2> QED
    BY <2>3, <2>4, <1>2 DEF AddEntry
<1>8. store' \in [Names -> 0..Damaged]
  <2>1. uploads' \in 0..Damaged /\ Damaged \in 0..Damaged
    BY <1>1 DEF Damaged
  <2> QED
    BY <2>1, <1>3 DEF FileContents
<1> QED
  BY <1>1, <1>6, <1>7, <1>8 DEF FileContents, AreaNums, EntryNums

(* Everything in the browser, on the disk and in the entries is of its type,  *)
(* for any number of areas, names and uploads.                                *)
THEOREM FilesAreTyped == FilesSpec => []FilesTypeOK
<1>1. FilesInit => FilesInv /\ AreaCounts /\ FileContents
  <2> SUFFICES ASSUME FilesInit PROVE FilesInv /\ AreaCounts /\ FileContents
    OBVIOUS
  <2>1. FilesInv
    BY FilesStart
  <2>2. Len(Areas) \in Nat /\ MaxUploads \in Nat
    BY FilesAssumption
  <2>3. AreaCounts
    <3>1. area.id = 0 /\ area.total = 0
      BY DEF FilesInit, NoArea
    <3>2. totals = [a \in AreaNums |-> 0] /\ uploads = 0
      BY DEF FilesInit
    <3> QED
      BY <2>2, <3>1, <3>2 DEF AreaCounts
  <2>4. store \in [Names -> 0..Damaged]
    BY <2>2 DEF FilesInit, Damaged, Absent
  <2>5. ASSUME NEW a \in AreaNums, NEW n \in EntryNums
        PROVE  entries[a][n].upload <= MaxUploads
    <3>1. NoFile.upload = 0
      BY DEF NoFile
    <3>2. entries[a][n] = NoFile
      BY Zenon DEF FilesInit
    <3> QED
      BY <3>1, <3>2, <2>2
  <2> QED
    BY <2>1, <2>2, <2>3, <2>4, <2>5 DEF FilesInit, FileContents
<1>2. FilesInv /\ AreaCounts /\ FileContents /\ [FilesNext]_fileVars
        => FilesInv' /\ AreaCounts' /\ FileContents'
  <2> SUFFICES ASSUME FilesInv, AreaCounts, FileContents, [FilesNext]_fileVars
               PROVE  FilesInv' /\ AreaCounts' /\ FileContents'
    OBVIOUS
  <2>1. 0..(2 * EntryMax + 1) \subseteq Nat
    BY FilesAssumption
  <2>2. FilesInv'
    BY <2>1, MovingKeeps, DownloadKeeps, UploadKeeps DEF FilesNext
  <2>3. AreaCounts' /\ FileContents'
    BY <2>1, MovingCounts, DownloadCounts, UploadCounts DEF FilesNext
  <2> QED
    BY <2>2, <2>3
<1>3. FilesInv /\ AreaCounts /\ FileContents => FilesTypeOK
  <2> SUFFICES ASSUME FilesInv, AreaCounts, FileContents PROVE FilesTypeOK
    OBVIOUS
  <2>1. \A a \in AreaNums : totals[a] \in 0..MaxUploads
    BY FilesAssumption DEF AreaCounts
  <2>2. totals \in [AreaNums -> 0..MaxUploads]
    BY <2>1 DEF AreaCounts
  <2>3. area.total \in 0..MaxUploads
    BY <2>1, FilesAssumption DEF AreaCounts, AreaNums
  <2>4. area \in [id : 0..Len(Areas), total : 0..MaxUploads]
    BY <2>3 DEF AreaCounts, FilesInv
  <2>5. ASSUME NEW a \in AreaNums, NEW n \in EntryNums
        PROVE  entries[a][n] \in
                 [name : EntryNames, downloads : 0..1, upload : 0..MaxUploads]
    <3>1. entries[a][n] \in EntryRecords
      BY DEF FilesInv
    <3>2. entries[a][n].upload \in 0..MaxUploads
      BY <3>1, FilesAssumption DEF FileContents, EntryRecords
    <3> QED
      BY <3>1, <3>2 DEF EntryRecords
  <2>6. entries \in [AreaNums -> [EntryNums ->
          [name : EntryNames, downloads : 0..1, upload : 0..MaxUploads]]]
    BY <2>5 DEF FilesInv
  <2>7. EntryNames = Names \cup {""}
    BY Zenon DEF EntryNames, NoFile
  <2>8. level \in CallerLevels \cup {0} /\ areaIdx \in 0..Len(Areas)
        /\ store \in [Names -> 0..Damaged]
    BY DEF FileContents
  <2> QED
    BY ONLY <2>2, <2>4, <2>6, <2>7, <2>8, Zenon DEF FilesTypeOK
<1> QED
  BY <1>1, <1>2, <1>3, PTL DEF FilesSpec

-----------------------------------------------------------------------------
(* Types: the day's accounts.                                                 *)

(* The minutes since the first day began.                                     *)
Time == (now.day - 1) * DayLen + now.minute

(* The visits saved under any one date, and the one on line with them, took   *)
(* no longer than the time that has passed: no minute is charged twice.       *)
MinutesPassed ==
  /\ Time \in Nat
  /\ \A u \in DayUsers : \A d \in Days : accrued[u][d] + visit.online <= Time

(* The counters of the day, on the disk and in memory.                        *)
Stamped == [day : {NoDay} \cup Days, calls : 0..MaxLogged, posts : 0..MaxLogged]
Counted == [calls : 0..MaxLogged, posts : 0..MaxLogged]
CountsTyped == sysCnt \in Stamped /\ today \in Counted

(* The clock, the visit on line, the records of callers and what they miss.   *)
Visits == [user : {NoCaller} \cup DayUsers, start : 0..DayLen, online : Nat]
VisitTyped ==
  /\ now = [day |-> now.day, minute |-> now.minute]
  /\ visit \in Visits
  /\ visit # Nobody => date # NoDay
  /\ visit.user \notin DayUsers => visit.online = 0
  /\ ending \in BOOLEAN
  /\ \A u \in DayUsers : usrDay[u].mins <= DayLen
  /\ uncounted \subseteq DayUsers \X Days

(* Days are as long as one another.                                           *)
LEMMA DaysAdd ==
  ASSUME NEW day \in Nat \ {0}, NEW len \in Nat
  PROVE  /\ day * len = (day - 1) * len + len
         /\ (day - 1) * len \in Nat
<1>1. day - 1 \in Nat /\ day = (day - 1) + 1
  OBVIOUS
<1> DEFINE k == day - 1
<1>2. k \in Nat => (k + 1) * len = k * len + len /\ k * len \in Nat
  OBVIOUS
<1> QED
  BY <1>1, <1>2

LEMMA DaysGrow ==
  ASSUME NEW a \in Nat, NEW b \in Nat, a <= b, NEW len \in Nat
  PROVE  a * len <= b * len
OBVIOUS

(* Time goes on with the clock, and never comes to the end of the last day.   *)
LEMMA TimePasses ==
  ASSUME UsageInv, [UsageNext]_usageVars, Time \in Nat
  PROVE  /\ Time' \in Nat
         /\ \/ ~Minute /\ UNCHANGED now /\ Time' = Time
            \/ /\ Minute /\ Time' = Time + 1
               /\ now'.minute = IF now.minute + 1 < DayLen THEN now.minute + 1 ELSE 0
<1>1. now.day \in Nat \ {0} /\ now.minute \in 0..(DayLen - 1) /\ DayLen \in Nat
  BY UsageAssumption DEF UsageInv, Days
<1>2. CASE Minute
  <2>1. CASE now.minute + 1 < DayLen
    <3>1. now' = [now EXCEPT !.minute = @ + 1]
      BY <1>2, <2>1 DEF Minute
    <3>2. now'.day = now.day /\ now'.minute = now.minute + 1
      BY <3>1 DEF UsageInv
    <3>3. (now.day - 1) * DayLen \in Nat
      BY <1>1, DaysAdd
    <3> QED
      BY <1>1, <1>2, <2>1, <3>2, <3>3 DEF Time
  <2>2. CASE ~(now.minute + 1 < DayLen)
    <3>1. now' = [day |-> now.day + 1, minute |-> 0]
      BY <1>2, <2>2 DEF Minute
    <3>2. now'.day - 1 = now.day /\ now'.minute = 0 /\ now.minute = DayLen - 1
      BY <1>1, <2>2, <3>1
    <3>3. now.day * DayLen = (now.day - 1) * DayLen + DayLen /\ (now.day - 1) * DayLen \in Nat
      BY <1>1, DaysAdd
    <3>4. Time' = now.day * DayLen + 0
      BY <3>2 DEF Time
    <3> QED
      BY <1>1, <1>2, <2>2, <3>2, <3>3, <3>4 DEF Time
  <2> QED
    BY <2>1, <2>2
<1>3. CASE ~Minute
  <2>1. UNCHANGED now
    BY <1>3 DEF UsageNext, StartDay, TimeBegin, CountPost, LogCaller, Accrue, LosePower,
       usageVars
  <2> QED
    BY <1>3, <2>1 DEF Time
<1> QED
  BY <1>2, <1>3

(* A minute that is charged has passed.                                       *)
LEMMA MinutesPassedStep ==
  ASSUME UsageInv, VisitTyped, MinutesPassed, [UsageNext]_usageVars
  PROVE  MinutesPassed'
<1>0. Time \in Nat /\ visit.online \in Nat /\ accrued \in [DayUsers -> [Days -> Nat]]
  BY DEF UsageInv, MinutesPassed
<1>1. /\ Time' \in Nat
      /\ \/ ~Minute /\ UNCHANGED now /\ Time' = Time
         \/ Minute /\ Time' = Time + 1
  BY <1>0, TimePasses
<1>n. Nobody.online = 0
  BY DEF Nobody
<1> SUFFICES ASSUME NEW u \in DayUsers, NEW d \in Days
             PROVE  accrued'[u][d] + visit'.online <= Time'
  BY <1>1 DEF MinutesPassed
<1>2. accrued[u][d] \in Nat /\ accrued[u][d] + visit.online <= Time
  BY <1>0 DEF MinutesPassed
<1>3. CASE Minute
  <2>1. accrued' = accrued /\ visit'.online \in {visit.online, visit.online + 1}
    BY <1>3, WatchGoesOn DEF Minute, history
  <2>2. Time' = Time + 1
    BY <1>1, <1>3
  <2> QED
    BY <1>0, <1>2, <2>1, <2>2
<1>4. CASE ~Minute
  <2>1. Time' = Time
    BY <1>1, <1>4
  <2>2. CASE visit'.online \in {0, visit.online} /\ UNCHANGED accrued
    BY <1>0, <1>2, <2>1, <2>2
  <2>3. ASSUME visit.start # DayLen, NEW rec, Charge(visit.user, rec), visit' = Nobody
        PROVE  accrued'[u][d] + visit'.online <= Time'
    <3> DEFINE v == visit.user
    <3>1. accrued' = [accrued EXCEPT ![v][date] = @ + visit.online]
      BY <2>3 DEF Charge
    <3>2. v \in DayUsers /\ date \in Days /\ visit'.online = 0
      BY <1>n, <2>3 DEF UsageInv
    <3> HIDE DEF v
    <3>3. accrued'[u][d] \in {accrued[u][d], accrued[u][d] + visit.online}
      BY <1>0, <3>1, <3>2
    <3> QED
      BY <1>0, <1>2, <2>1, <3>2, <3>3
  <2>4. CASE StartDay \/ LosePower \/ CountPost \/ LogCaller \/ UNCHANGED usageVars
    <3>1. visit' \in {Nobody, visit} /\ UNCHANGED accrued
      BY <2>4 DEF StartDay, LosePower, CountPost, LogCaller, usageVars, history
    <3> QED
      BY <1>n, <2>2, <3>1
  <2>5. CASE \E v \in DayUsers : TimeBegin(v)
    <3>1. PICK v \in DayUsers, start \in {now.minute, DayLen} :
            visit' = [user |-> v, start |-> start, online |-> 0]
      BY <2>5 DEF TimeBegin
    <3>2. visit'.online = 0 /\ UNCHANGED accrued
      BY <2>5, <3>1 DEF TimeBegin, history
    <3> QED
      BY <2>2, <3>2
  <2>6. CASE Accrue
    <3>1. CASE UNCHANGED history
      <4>1. visit' = Nobody /\ UNCHANGED accrued
        BY <2>6, <3>1 DEF Accrue, history
      <4> QED
        BY <1>n, <2>2, <4>1
    <3> QED
      BY <2>3, <2>6, <3>1 DEF Accrue
  <2> QED
    BY <1>4, <2>4, <2>5, <2>6 DEF UsageNext
<1> QED
  BY <1>3, <1>4

(* What is written to SYSCNT, or left there, are counts with a date.          *)
LEMMA SavedCounts ==
  ASSUME CountsTyped, NEW calls \in 0..MaxLogged, NEW posts \in 0..MaxLogged,
         date' \in Days, sysCnt' \in CountSaves(calls, posts) \cup {sysCnt}
  PROVE  sysCnt' \in Stamped
<1>1. 0 \in 0..MaxLogged
  BY UsageAssumption
<1> QED
  BY <1>1 DEF CountSaves, CountsTyped, Stamped

(* The counters stay counters.                                                *)
LEMMA CountsStep ==
  ASSUME UsageInv, VisitTyped, CountsTyped, [UsageNext]_usageVars
  PROVE  CountsTyped'
<1>1. MaxLogged \in Nat /\ 0 \in 0..MaxLogged
  BY UsageAssumption
<1>2. /\ sysCnt \in Stamped /\ today \in Counted
      /\ sysCnt.calls \in 0..MaxLogged /\ sysCnt.posts \in 0..MaxLogged
      /\ today.calls \in 0..MaxLogged /\ today.posts \in 0..MaxLogged
  BY DEF CountsTyped, Stamped, Counted
<1>3. CASE StartDay
  <2>1. date' \in Days
    BY <1>3 DEF StartDay, UsageInv
  <2>2. CASE today' = [calls |-> sysCnt.calls, posts |-> sysCnt.posts] /\ UNCHANGED sysCnt
    BY <1>2, <2>2 DEF CountsTyped, Stamped, Counted
  <2>3. CASE today' = [calls |-> 0, posts |-> 0] /\ sysCnt' \in CountSaves(0, 0)
    <3>1. sysCnt' \in Stamped
      BY <1>1, <2>1, <2>3, SavedCounts
    <3>2. today' \in Counted
      BY <1>1, <2>3 DEF Counted
    <3> QED
      BY <3>1, <3>2 DEF CountsTyped, Stamped, Counted
  <2> QED
    BY <1>3, <2>2, <2>3 DEF StartDay
<1>4. CASE CountPost
  <2>1. /\ today.posts < MaxLogged /\ today' = [today EXCEPT !.posts = @ + 1]
        /\ date' = date /\ sysCnt' \in CountSaves(today.calls, today'.posts)
    BY <1>4 DEF CountPost
  <2>2. date' \in Days
    BY <1>4, <2>1 DEF CountPost, VisitTyped, UsageInv
  <2>3. today.posts + 1 \in 0..MaxLogged
    BY <1>1, <1>2, <2>1
  <2>4. today' \in Counted /\ today'.posts \in 0..MaxLogged
    BY <1>2, <2>1, <2>3 DEF Counted
  <2>5. sysCnt' \in Stamped
    BY <1>2, <2>1, <2>2, <2>4, SavedCounts
  <2> QED
    BY <2>4, <2>5 DEF CountsTyped, Stamped, Counted
<1>5. CASE LogCaller
  <2>1. CASE UNCHANGED <<sysCnt, today>>
    BY <1>2, <2>1 DEF CountsTyped, Stamped, Counted
  <2>2. CASE CountCall
    <3>1. /\ today.calls < MaxLogged /\ today' = [today EXCEPT !.calls = @ + 1]
          /\ date' = date /\ sysCnt' \in CountSaves(today'.calls, today.posts)
      BY <1>5, <2>2 DEF LogCaller, CountCall
    <3>2. date' \in Days
      BY <1>5, <3>1 DEF LogCaller, VisitTyped, UsageInv
    <3>3. today.calls + 1 \in 0..MaxLogged
      BY <1>1, <1>2, <3>1
    <3>4. today' \in Counted /\ today'.calls \in 0..MaxLogged
      BY <1>2, <3>1, <3>3 DEF Counted
    <3>5. sysCnt' \in Stamped
      BY <1>2, <3>1, <3>2, <3>4, SavedCounts
    <3> QED
      BY <3>4, <3>5 DEF CountsTyped, Stamped, Counted
  <2> QED
    BY <1>5, <2>1, <2>2 DEF LogCaller
<1>6. CASE LosePower
  <2>1. today' = [calls |-> 0, posts |-> 0] /\ UNCHANGED sysCnt
    BY <1>6 DEF LosePower
  <2> QED
    BY <1>1, <1>2, <2>1 DEF CountsTyped, Stamped, Counted
<1>7. CASE Minute \/ (\E u \in DayUsers : TimeBegin(u)) \/ Accrue \/ UNCHANGED usageVars
  <2>1. UNCHANGED <<sysCnt, today>>
    BY <1>7 DEF Minute, TimeBegin, Accrue, usageVars
  <2> QED
    BY <1>2, <2>1 DEF CountsTyped, Stamped, Counted
<1> QED
  BY <1>3, <1>4, <1>5, <1>6, <1>7 DEF UsageNext

(* Only a board that has its date is called, no record has more than a day's  *)
(* minutes, and minutes are missed by callers on dates.                       *)
LEMMA VisitStep ==
  ASSUME UsageInv, VisitTyped, [UsageNext]_usageVars
  PROVE  VisitTyped'
<1>1. DayLen \in Nat /\ NoDay = 0 /\ NoDay \notin Days
  BY UsageAssumption DEF NoDay, Days
<1>2. /\ now = [day |-> now.day, minute |-> now.minute] /\ now.minute \in 0..DayLen
      /\ visit \in Visits
      /\ visit # Nobody => date # NoDay
      /\ visit.user \notin DayUsers => visit.online = 0
      /\ ending \in BOOLEAN
      /\ uncounted \subseteq DayUsers \X Days
  BY <1>1 DEF VisitTyped, UsageInv
<1>3. now' = [day |-> now'.day, minute |-> now'.minute]
  <2>1. CASE Minute
    BY <1>2, <2>1 DEF Minute
  <2>2. CASE ~Minute
    <3>1. UNCHANGED now
      BY <2>2 DEF UsageNext, StartDay, TimeBegin, CountPost, LogCaller, Accrue, LosePower,
         usageVars
    <3> QED
      BY <1>2, <3>1
  <2> QED
    BY <2>1, <2>2
<1>4. /\ visit' \in Visits /\ (visit' # Nobody => date' # NoDay)
      /\ visit'.user \notin DayUsers => visit'.online = 0
  <2>1. Nobody \in Visits /\ Nobody.online = 0
    BY <1>1 DEF Nobody, Visits
  <2>2. CASE StartDay \/ LosePower \/ Accrue
    <3>1. visit' = Nobody
      BY <2>2 DEF StartDay, LosePower, Accrue
    <3> QED
      BY <2>1, <3>1
  <2>3. CASE UNCHANGED <<visit, date>>
    BY <1>2, <2>3 DEF Nobody
  <2>4. CASE \E u \in DayUsers : TimeBegin(u)
    <3>1. PICK u \in DayUsers, start \in {now.minute, DayLen} :
            /\ date # NoDay /\ UNCHANGED date
            /\ visit' = [user |-> u, start |-> start, online |-> 0]
      BY <2>4 DEF TimeBegin
    <3>2. start \in 0..DayLen
      BY <1>1, <1>2
    <3> QED
      BY <3>1, <3>2 DEF Visits
  <2>5. CASE Minute
    <3>1. /\ UNCHANGED date
          /\ visit' = IF visit.start = DayLen THEN visit ELSE [visit EXCEPT !.online = @ + 1]
      BY <2>5 DEF Minute
    <3>2. visit' \in Visits /\ visit'.user = visit.user
      BY <1>2, <3>1 DEF Visits
    <3>3. visit' # Nobody => date # NoDay
      <4>1. CASE visit.start = DayLen
        BY <1>2, <3>1, <4>1
      <4>2. CASE visit.start # DayLen
        BY <4>2 DEF UsageInv
      <4> QED
        BY <4>1, <4>2
    <3>4. visit'.user \notin DayUsers => visit'.online = 0
      <4>1. CASE visit.start = DayLen
        BY <1>2, <3>1, <4>1
      <4>2. CASE visit.start # DayLen
        BY <3>2, <4>2 DEF UsageInv
      <4> QED
        BY <4>1, <4>2
    <3> QED
      BY <3>1, <3>2, <3>3, <3>4
  <2>6. CountPost \/ LogCaller \/ UNCHANGED usageVars => UNCHANGED <<visit, date>>
    BY DEF CountPost, LogCaller, usageVars
  <2> QED
    BY <2>2, <2>3, <2>4, <2>5, <2>6 DEF UsageNext
<1>5. ending' \in BOOLEAN
  BY <1>2 DEF UsageNext, StartDay, Minute, TimeBegin, CountPost, LogCaller, Accrue,
     LosePower, usageVars
<1>6. /\ \A u \in DayUsers : usrDay'[u].mins <= DayLen
      /\ uncounted' \subseteq DayUsers \X Days
  <2>1. CASE UNCHANGED <<usrDay, uncounted>>
    BY <1>2, <2>1 DEF VisitTyped
  <2>2. ASSUME visit.start # DayLen, NEW rec \in DayLoaded(visit.user),
               Charge(visit.user, rec)
        PROVE  /\ \A u \in DayUsers : usrDay'[u].mins <= DayLen
               /\ uncounted' \subseteq DayUsers \X Days
    <3> DEFINE v == visit.user
    <3>1. v \in DayUsers /\ date \in Days /\ usrDay'[v].mins <= DayLen
      BY <2>2, ChargeIsRight
    <3>2. /\ \A u \in DayUsers \ {v} : usrDay'[u] = usrDay[u]
          /\ uncounted' \in {uncounted, uncounted \cup {<<v, date>>}}
      BY <2>2 DEF Charge, UsageInv
    <3> HIDE DEF v
    <3>3. \A u \in DayUsers : usrDay'[u].mins <= DayLen
      BY <3>1, <3>2 DEF VisitTyped
    <3> QED
      BY <1>2, <3>1, <3>2, <3>3
  <2>3. CASE Accrue
    BY <2>1, <2>2, <2>3 DEF Accrue, history
  <2>4. CASE ~Accrue
    <3>1. UNCHANGED <<usrDay, uncounted>>
      BY <2>4 DEF UsageNext, StartDay, Minute, TimeBegin, CountPost, LogCaller, LosePower,
         usageVars, history
    <3> QED
      BY <2>1, <3>1
  <2> QED
    BY <2>3, <2>4
<1>7. Visits' = Visits /\ Nobody' = Nobody
  BY DEF Visits, Nobody
<1> QED
  BY <1>3, <1>4, <1>5, <1>6, <1>7 DEF VisitTyped

(* Every counter of the day, of the callers and of the history is of its      *)
(* type, for any length of the day and any number of days and callers: no     *)
(* minutes run past the day, nor past the time that passed.                   *)
THEOREM UsageIsTyped == UsageSpec => []UsageTypeOK
<1>1. UsageInit => UsageInv /\ VisitTyped /\ MinutesPassed /\ CountsTyped
  <2> SUFFICES ASSUME UsageInit
               PROVE  UsageInv /\ VisitTyped /\ MinutesPassed /\ CountsTyped
    OBVIOUS
  <2>0. DayLen \in Nat /\ MaxLogged \in Nat /\ DayLen > 0
    BY UsageAssumption
  <2>1. UsageInv
    BY UsageStart
  <2>2. /\ now = [day |-> 1, minute |-> 0] /\ date = NoDay /\ visit = Nobody /\ ending = FALSE
        /\ usrDay = [u \in DayUsers |-> NoRecord]
        /\ accrued = [u \in DayUsers |-> [d \in Days |-> 0]] /\ uncounted = {}
        /\ sysCnt = [day |-> NoDay, calls |-> 0, posts |-> 0]
        /\ today = [calls |-> 0, posts |-> 0]
    BY DEF UsageInit
  <2>3. VisitTyped
    <3>1. now = [day |-> now.day, minute |-> now.minute]
      BY ONLY <2>2
    <3>2. visit \in Visits /\ visit = Nobody /\ visit.online = 0
      BY <2>0, <2>2 DEF Nobody, Visits
    <3>3. \A u \in DayUsers : usrDay[u].mins <= DayLen
      <4>1. \A u \in DayUsers : usrDay[u].mins = 0
        BY ONLY <2>2 DEF NoRecord
      <4> QED
        BY <2>0, <4>1
    <3> QED
      BY <2>0, <2>2, <3>1, <3>2, <3>3 DEF VisitTyped
  <2>4. MinutesPassed
    <3>1. now.day - 1 = 0 /\ now.minute = 0 /\ visit.online = 0
      BY <2>2 DEF Nobody
    <3>2. Time = 0
      BY <2>0, <3>1 DEF Time
    <3>3. \A u \in DayUsers : \A d \in Days : accrued[u][d] = 0
      BY <2>2
    <3> QED
      BY <3>1, <3>2, <3>3 DEF MinutesPassed
  <2>5. CountsTyped
    BY <2>0, <2>2 DEF CountsTyped, Stamped, Counted
  <2> QED
    BY <2>1, <2>3, <2>4, <2>5
<1>2. UsageInv /\ VisitTyped /\ MinutesPassed /\ CountsTyped /\ [UsageNext]_usageVars
        => UsageInv' /\ VisitTyped' /\ MinutesPassed' /\ CountsTyped'
  BY UsageStep, VisitStep, MinutesPassedStep, CountsStep
<1>3. UsageInv /\ VisitTyped /\ MinutesPassed /\ CountsTyped => UsageTypeOK
  <2> SUFFICES ASSUME UsageInv, VisitTyped, MinutesPassed, CountsTyped PROVE UsageTypeOK
    OBVIOUS
  <2>0. /\ DayLen \in Nat /\ DayLen > 0 /\ LastDay \in Nat \ {0}
        /\ Days = 1..LastDay /\ NoDay = 0
    BY UsageAssumption DEF Days, NoDay
  <2>1. now \in [day : Days, minute : 0..(DayLen - 1)]
    BY <2>0 DEF UsageInv, VisitTyped
  <2>2. /\ date \in {NoDay} \cup Days /\ ending \in BOOLEAN
        /\ uncounted \subseteq DayUsers \X Days
    BY DEF UsageInv, VisitTyped
  <2>3. ASSUME NEW u \in DayUsers
        PROVE  usrDay[u] \in [day : {NoDay} \cup Days, mins : 0..DayLen]
    <3>1. /\ usrDay[u] \in [day : Nat, mins : Nat] /\ usrDay[u].day \in {NoDay} \cup Days
          /\ usrDay[u].mins <= DayLen
      BY DEF UsageInv, VisitTyped
    <3> QED
      BY <2>0, <3>1
  <2>4. usrDay \in [DayUsers -> [day : {NoDay} \cup Days, mins : 0..DayLen]]
    BY <2>3 DEF UsageInv
  <2>5. /\ sysCnt \in [day : {NoDay} \cup Days, calls : 0..MaxLogged, posts : 0..MaxLogged]
        /\ today \in [calls : 0..MaxLogged, posts : 0..MaxLogged]
    BY DEF CountsTyped, Stamped, Counted
  <2>6. Time \in Nat /\ LastDay * DayLen \in Nat /\ Time <= LastDay * DayLen
    <3>1. /\ now.day \in Nat \ {0} /\ now.day <= LastDay
          /\ now.minute \in Nat /\ now.minute < DayLen
      BY <2>0 DEF UsageInv
    <3>2. /\ now.day * DayLen = (now.day - 1) * DayLen + DayLen
          /\ (now.day - 1) * DayLen \in Nat
      BY <2>0, <3>1, DaysAdd
    <3>3. now.day * DayLen <= LastDay * DayLen /\ LastDay * DayLen \in Nat
      BY <2>0, <3>1, DaysGrow
    <3> DEFINE before == (now.day - 1) * DayLen
               through == now.day * DayLen
               end == LastDay * DayLen
    <3>4. Time = before + now.minute /\ Time \in Nat
      BY DEF Time, MinutesPassed
    <3>5. end \in Nat /\ through <= end /\ through = before + DayLen /\ before \in Nat
      BY <3>2, <3>3
    <3> HIDE DEF before, through, end
    <3>6. through \in Nat
      BY <2>0, <3>5
    <3>7. Time <= end
      BY ONLY <2>0, <3>1, <3>4, <3>5, <3>6
    <3> QED
      BY <3>4, <3>5, <3>7 DEF end
  <2> DEFINE end == LastDay * DayLen
  <2>7. ASSUME NEW u \in DayUsers, NEW d \in Days
        PROVE  accrued[u][d] \in 0..end /\ visit.online \in 0..end
    <3>1. /\ accrued[u][d] \in Nat /\ visit.online \in Nat
          /\ accrued[u][d] + visit.online <= Time
      BY DEF UsageInv, MinutesPassed
    <3>2. Time \in Nat /\ end \in Nat /\ Time <= end
      BY <2>6
    <3> HIDE DEF end
    <3> QED
      BY ONLY <3>1, <3>2
  <2>8. accrued \in [DayUsers -> [Days -> 0..end]]
    <3>1. accrued \in [DayUsers -> [Days -> Nat]]
      BY DEF UsageInv
    <3> HIDE DEF end
    <3> QED
      BY ONLY <2>7, <3>1
  <2>9. visit \in [user : {NoCaller} \cup DayUsers, start : 0..DayLen, online : 0..end]
    <3>1. visit \in Visits
      BY DEF VisitTyped
    <3>2. visit.online \in 0..end
      <4>1. CASE visit.user \in DayUsers
        <5>1. 1 \in Days
          BY <2>0
        <5> HIDE DEF end
        <5> QED
          BY <2>7, <4>1, <5>1
      <4>2. CASE visit.user \notin DayUsers
        <5>1. visit.online = 0
          BY <4>2 DEF VisitTyped
        <5> QED
          BY <2>6, <5>1
      <4> QED
        BY <4>1, <4>2
    <3> HIDE DEF end
    <3> QED
      BY <3>1, <3>2 DEF Visits
  <2> QED
    BY ONLY <2>1, <2>2, <2>4, <2>5, <2>8, <2>9, Zenon DEF UsageTypeOK
<1> QED
  BY <1>1, <1>2, <1>3, PTL DEF UsageSpec

-----------------------------------------------------------------------------
(* Types: the configuration.                                                  *)

(* What is kept of the operator's work: the table in memory, the program that *)
(* runs, the partitions an operation got, the last report and the saves.      *)
Landings == [wanted : Asking, got : Partitions]
OperatorTyped ==
  /\ levels \in SettingsOrNone
  /\ running \in {"none", "BOOT", "CONFIGURE"}
  /\ landed \subseteq Landings
  /\ reported.at \in (Devices \X Asking) \cup {Nowhere}
  /\ saves \in 0..MaxSaves

(* An operation that landed got a partition of the drive.                     *)
LEMMA LandingTyped ==
  ASSUME NEW sel, Tracked(sel.drives), NEW device \in Devices, NEW n \in Asking
  PROVE  Landing(sel, device, n) \subseteq Landings
<1>1. sel.drives.current[device] \in Partitions
  BY DEF Tracked, DriveStates
<1> QED
  BY <1>1 DEF Landing, Landings

(* So did a save.                                                             *)
LEMMA SavedTyped ==
  ASSUME NEW d, Tracked(d), NEW cfg \in CfgRecords, NEW save \in Saved(d, cfg)
  PROVE  save.landed \subseteq Landings
<1> DEFINE device == cfg.system.device
           n == cfg.system.drive
<1>1. device \in Devices /\ n \in Asking /\ SavedDrive(cfg) = n
  BY DEF CfgRecords, Specs, Asking, SavedDrive
<1>2. PICK scr \in Scratched(d, device, n) : \E sel \in Selected(scr.drives, device, n) :
        \E lines \in LinesOut : save = SaveFrom(scr, sel, lines, cfg)
  BY <1>1 DEF Saved
<1>3. PICK sel \in Selected(scr.drives, device, n) :
        \E lines \in LinesOut : save = SaveFrom(scr, sel, lines, cfg)
  BY <1>2
<1>4. Tracked(scr.drives)
  BY <1>1, ScratchedIsTracked
<1>5. Tracked(sel.drives)
  BY <1>1, <1>4, SelectedLands
<1>6. save.landed = Landing(sel, device, n)
  BY <1>1, <1>3 DEF SaveFrom
<1> QED
  BY <1>1, <1>5, <1>6, LandingTyped

(* The table of the access levels, if it was read, is one of the disk.        *)
LEMMA ReadLevelsTyped ==
  ASSUME ConfigInv, running # "none", ReadLevels
  PROVE  levels' \in SettingsOrNone /\ landed' \subseteq Landings
<1> DEFINE system == bbs_cfg.system
<1>1. PICK sel \in Selected(drives, system.device, system.drive) :
        /\ landed' = Landing(sel, system.device, system.drive)
        /\ levels' = IF sel.ok THEN AccessTable(Spot(system.device, sel.drives)) ELSE 0
  BY DEF ReadLevels
<1>2. Tracked(drives) /\ system.device \in Devices /\ system.drive \in Asking
  BY RunningIsTracked DEF Specs, Asking
<1>3. Tracked(sel.drives)
  BY <1>2, SelectedLands
<1>4. Spot(system.device, sel.drives) \in Places
  BY <1>2, <1>3, SpotIsPlace
<1>5. AccessTable(Spot(system.device, sel.drives)) \in SettingsOrNone
  BY <1>4 DEF AccessTable, ConfigInv, DiskStates
<1> QED
  BY <1>1, <1>2, <1>3, <1>5, LandingTyped DEF SettingsOrNone

(* A file of the system or the boards that is used is used on a partition.    *)
LEMMA UseFileTyped ==
  ASSUME ConfigInv, NEW spec \in Specs, UseFileOf(spec)
  PROVE  landed' \subseteq Landings
<1>1. running # "none"
  BY DEF UseFileOf
<1>2. PICK sel \in Used(drives, spec) : landed' = Landing(sel, spec.device, spec.drive)
  BY DEF UseFileOf
<1>3. Tracked(drives)
  BY <1>1, RunningIsTracked
<1>4. Tracked(sel.drives)
  BY <1>3, UsedLands
<1>5. spec.device \in Devices /\ spec.drive \in Asking
  BY DEF Specs, Asking
<1> QED
  BY <1>2, <1>4, <1>5, LandingTyped

(* An edit says where it saved, or that it did not.                           *)
LEMMA EditTyped ==
  ASSUME ConfigInv, OperatorTyped, NEW cfg \in CfgRecords, NEW status \in BOOLEAN,
         Edit(cfg, status)
  PROVE  OperatorTyped'
<1> DEFINE system == bbs_cfg.system
           before0 == IF status THEN Used(drives, system) ELSE {[ok |-> FALSE, drives |-> drives]}
           after0(save) == IF save.ok /\ status THEN Used(save.drives, cfg.system)
                           ELSE {[ok |-> FALSE, drives |-> save.drives]}
<1>1. /\ running = "CONFIGURE" /\ saves < MaxSaves /\ saves' = saves + 1
      /\ UNCHANGED levels
  BY DEF Edit
<1>2. \E before \in before0 :
      \E save \in Saved(before.drives, cfg) :
      \E after \in after0(save) :
        /\ landed' = Landing(before, system.device, system.drive) \cup save.landed
                       \cup Landing(after, cfg.system.device, cfg.system.drive)
        /\ running' \in {"none", running}
        /\ reported'.at \in {<<cfg.system.device, cfg.system.drive>>, Untold.at}
  <2>1. PICK before \in before0, off \in (IF "power" \in ConfigFaults THEN BOOLEAN ELSE {FALSE}) :
          \E save \in Saved(before.drives, cfg) :
          \E after \in after0(save) :
            /\ save.cut /\ ~off => "full" \in ConfigFaults
            /\ drives' = after.drives /\ disk' = save.disk
            /\ landed' = Landing(before, system.device, system.drive) \cup save.landed
                           \cup Landing(after, cfg.system.device, cfg.system.drive)
            /\ running' = IF off THEN "none" ELSE running
            /\ reported' = IF save.ok /\ ~off
                           THEN [at |-> <<cfg.system.device, cfg.system.drive>>, cfg |-> cfg]
                           ELSE Untold
    BY Zenon DEF Edit
  <2>2. PICK save \in Saved(before.drives, cfg) :
          \E after \in after0(save) :
            /\ landed' = Landing(before, system.device, system.drive) \cup save.landed
                           \cup Landing(after, cfg.system.device, cfg.system.drive)
            /\ running' = IF off THEN "none" ELSE running
            /\ reported' = IF save.ok /\ ~off
                           THEN [at |-> <<cfg.system.device, cfg.system.drive>>, cfg |-> cfg]
                           ELSE Untold
    BY <2>1
  <2>3. reported'.at \in {<<cfg.system.device, cfg.system.drive>>, Untold.at}
    BY <2>2
  <2>4. running' \in {"none", running}
    BY <2>2
  <2> QED
    BY <2>2, <2>3, <2>4, Zenon
<1>3. PICK before \in before0 :
      \E save \in Saved(before.drives, cfg) :
      \E after \in after0(save) :
        landed' = Landing(before, system.device, system.drive) \cup save.landed
                       \cup Landing(after, cfg.system.device, cfg.system.drive)
  BY <1>2
<1>4. PICK save \in Saved(before.drives, cfg) :
      \E after \in after0(save) :
        landed' = Landing(before, system.device, system.drive) \cup save.landed
                       \cup Landing(after, cfg.system.device, cfg.system.drive)
  BY <1>3
<1>5. PICK after \in after0(save) :
        landed' = Landing(before, system.device, system.drive) \cup save.landed
                       \cup Landing(after, cfg.system.device, cfg.system.drive)
  BY <1>4
<1>6. Tracked(drives) /\ system \in Specs /\ cfg.system \in Specs
  BY <1>1, RunningIsTracked DEF CfgRecords
<1>7. Tracked(before.drives)
  <2>1. CASE status
    BY <1>6, <2>1, <1>3, UsedLands
  <2>2. CASE ~status
    <3>1. before = [ok |-> FALSE, drives |-> drives]
      BY <2>2, <1>3
    <3> QED
      BY <3>1, <1>6
  <2> QED
    BY <2>1, <2>2
<1>8. disk \in DiskStates
  BY DEF ConfigInv
<1>9. Tracked(save.drives) /\ save.landed \subseteq Landings
  BY <1>7, <1>8, SavedIsThere, SavedTyped
<1>10. Tracked(after.drives)
  <2>1. CASE save.ok /\ status
    BY <1>6, <1>9, <2>1, <1>5, UsedLands
  <2>2. CASE ~(save.ok /\ status)
    <3>1. after = [ok |-> FALSE, drives |-> save.drives]
      BY <2>2, <1>5
    <3> QED
      BY <3>1, <1>9
  <2> QED
    BY <2>1, <2>2
<1>11. /\ system.device \in Devices /\ system.drive \in Asking
       /\ cfg.system.device \in Devices /\ cfg.system.drive \in Asking
  BY <1>6 DEF Specs, Asking
<1>12. /\ Landing(before, system.device, system.drive) \subseteq Landings
       /\ Landing(after, cfg.system.device, cfg.system.drive) \subseteq Landings
  BY <1>7, <1>10, <1>11, LandingTyped
<1>13. landed' \subseteq Landings
  BY <1>5, <1>9, <1>12
<1>14. running' \in {"none", "CONFIGURE"}
  BY <1>1, <1>2
<1>15. reported'.at \in (Devices \X Asking) \cup {Nowhere}
  <2>1. Untold.at = Nowhere
    BY DEF Untold
  <2> QED
    BY <1>2, <1>11, <2>1
<1>16. saves' \in 0..MaxSaves
  BY <1>1, ConfigAssumption DEF OperatorTyped
<1>17. levels' \in SettingsOrNone
  BY <1>1 DEF OperatorTyped
<1> QED
  BY <1>13, <1>14, <1>15, <1>16, <1>17 DEF OperatorTyped

(* So is what the table of the access levels is changed to.                   *)
LEMMA EditLevelTyped ==
  ASSUME ConfigInv, OperatorTyped, NEW v \in Settings, EditLevel(v)
  PROVE  OperatorTyped'
<1> DEFINE device == bbs_cfg.system.device
           n == bbs_cfg.system.drive
<1>1. /\ running = "CONFIGURE" /\ UNCHANGED <<running, reported>>
      /\ levels' = v /\ saves < MaxSaves /\ saves' = saves + 1
  BY DEF EditLevel
<1>2. Tracked(drives) /\ device \in Devices /\ n \in Asking
  BY <1>1, RunningIsTracked DEF Specs, Asking
<1>3. PICK scr \in Scratched(drives, device, n) :
        \E sel \in Selected(scr.drives, device, n) : landed' = Landing(sel, device, n)
  BY DEF EditLevel
<1>4. PICK sel \in Selected(scr.drives, device, n) : landed' = Landing(sel, device, n)
  BY <1>3
<1>5. Tracked(scr.drives)
  BY <1>2, ScratchedIsTracked
<1>6. Tracked(sel.drives)
  BY <1>2, <1>5, SelectedLands
<1>7. landed' \subseteq Landings
  BY <1>2, <1>4, <1>6, LandingTyped
<1>8. saves' \in 0..MaxSaves
  BY <1>1, ConfigAssumption DEF OperatorTyped
<1> QED
  BY <1>1, <1>7, <1>8 DEF OperatorTyped, SettingsOrNone

(* Every step keeps them.                                                     *)
LEMMA OperatorStep ==
  ASSUME ConfigInv, OperatorTyped, [ConfigNext]_configVars
  PROVE  OperatorTyped'
<1>1. ASSUME NEW v \in Settings, EditSettings(v) \/ EditLine(v) \/ EditLevel(v)
      PROVE  OperatorTyped'
  <2>1. [bbs_cfg EXCEPT !.settings = v] \in CfgRecords
    BY DEF ConfigInv, CfgRecords
  <2> QED
    BY <1>1, <2>1, EditTyped, EditLevelTyped DEF EditSettings, EditLine
<1>2. ASSUME NEW s \in SystemSpecs, NEW m \in MsgSpecs, EditDevices(SpecOf(s), SpecOf(m))
      PROVE  OperatorTyped'
  <2>1. SpecOf(s) \in Specs /\ SpecOf(m) \in Specs
    BY ConfigAssumption DEF SpecOf, Specs
  <2> DEFINE a == ParseSpec(Format(SpecOf(s)))
             b == ParseSpec(Format(SpecOf(m)))
  <2>2. a \in Specs /\ b \in Specs
    BY <2>1, FormatParses
  <2>3. Edit([bbs_cfg EXCEPT !.system = a, !.msgs = b], FALSE)
    BY <1>2 DEF EditDevices
  <2> HIDE DEF a, b
  <2>4. [bbs_cfg EXCEPT !.system = a, !.msgs = b] \in CfgRecords
    BY <2>2 DEF ConfigInv, CfgRecords
  <2> QED
    BY <2>3, <2>4, EditTyped
<1>3. CASE UseSystem \/ UseMessages
  <2>1. /\ running # "none" /\ UNCHANGED <<levels, running, reported, saves>>
    BY <1>3 DEF UseSystem, UseMessages, UseFileOf
  <2>2. landed' \subseteq Landings
    BY <1>3, <2>1, RunningIsTracked, UseFileTyped DEF UseSystem, UseMessages
  <2> QED
    BY <2>1, <2>2 DEF OperatorTyped
<1>4. CASE AccessMenu \/ LookUpLimits
  <2>1. running # "none" /\ ReadLevels /\ UNCHANGED <<running, reported, saves>>
    BY <1>4 DEF AccessMenu, LookUpLimits
  <2>2. levels' \in SettingsOrNone /\ landed' \subseteq Landings
    BY <2>1, ReadLevelsTyped
  <2> QED
    BY <2>1, <2>2 DEF OperatorTyped
<1>5. ASSUME NEW prog \in {"BOOT", "CONFIGURE"}, NEW device \in Devices, LoadProgram(prog, device)
      PROVE  OperatorTyped'
  <2>1. /\ running' = prog /\ levels' = 0 /\ landed' = {} /\ UNCHANGED <<reported, saves>>
    BY <1>5 DEF LoadProgram
  <2> QED
    BY <2>1 DEF OperatorTyped, SettingsOrNone
<1>6. CASE QuitProgram \/ ResetDrives \/ UNCHANGED configVars
           \/ \E device \in Devices : \E n \in Settings : HandEdit(device, n)
  <2>1. /\ running' \in {"none", running}
        /\ UNCHANGED <<levels, landed, reported, saves>>
    BY <1>6 DEF QuitProgram, ResetDrives, configVars, HandEdit
  <2> QED
    BY <2>1 DEF OperatorTyped
<1> QED
  BY <1>1, <1>2, <1>3, <1>4, <1>5, <1>6 DEF ConfigNext

(* What drives, disks, memory and the operator's screen hold is of its type,  *)
(* for any devices, partitions and specifications.                            *)
THEOREM ConfigIsTyped == ConfigSpec => []ConfigTypeOK
<1>1. ConfigInit => OperatorTyped
  <2> SUFFICES ASSUME ConfigInit PROVE OperatorTyped
    OBVIOUS
  <2>1. levels = 0 /\ running = "none" /\ landed = {} /\ reported = Untold /\ saves = 0
    BY DEF ConfigInit
  <2>2. reported.at = Nowhere
    BY <2>1 DEF Untold
  <2>3. 0 \in 0..MaxSaves
    BY ConfigAssumption
  <2> QED
    BY <2>1, <2>2, <2>3 DEF OperatorTyped, SettingsOrNone
<1>2. ConfigInv /\ OperatorTyped /\ [ConfigNext]_configVars => OperatorTyped'
  BY OperatorStep
<1>3. ConfigInv /\ OperatorTyped => ConfigTypeOK
  BY DEF ConfigInv, OperatorTyped, ConfigTypeOK, DriveStates, DiskStates, DiskTexts,
         SettingsOrNone, Asking, Landings
<1> QED
  BY <1>1, <1>2, <1>3, ConfigAlways, PTL DEF ConfigSpec

-----------------------------------------------------------------------------
(* Types: the overlays.                                                       *)

InZone == Ovls \cup {"", "door"}
Guests == {"off", "none", "local", "remote"}

(* What stands in the zone, and where the drive stands.                       *)
ZoneTyped ==
  /\ places \in Placements /\ partition \in Nat
  /\ zone \in InZone /\ broken \in BOOLEAN
FlagsTyped ==
  /\ wfcLoaded \in BOOLEAN /\ known \in BOOLEAN /\ wide \in BOOLEAN /\ menuShown \in BOOLEAN
  /\ guest \in Guests

(* No more than a feature and what it called is on the stack: what Zmodem or  *)
(* a door calls does not come back into the zone.                             *)
StackTyped ==
  /\ frames \in Layers /\ Len(frames) <= 2
  /\ Len(frames) = 2 => Last(frames) \in {"ZMODEM", "door"}

(* Menus are open, and features run, only for a caller who is known and has   *)
(* not been noise to the end; so a caller never counts past the limit.        *)
MenusTyped ==
  /\ path \in Seq(DOMAIN Submenus) /\ Len(path) <= 6
  /\ noise \in 0..NoiseLimit
  /\ path # << >> \/ frames # << >> => known = TRUE /\ noise < NoiseLimit
  /\ known # TRUE => noise = 0

(* Selecting a partition has the drive on one.                                *)
LEMMA AfterIsPartition ==
  ASSUME ZoneTyped
  PROVE  /\ \A h \in Homes : After(places[h]) \in Nat
         /\ \A p \in DoorPlaces : After(p) \in Nat
         /\ places.doors \in Nat
         /\ places.overlays \in Nat
         /\ {"system", "msgs", "files"} \subseteq Homes
<1>1. places \in [Homes -> Nat] /\ DoorPlaces \subseteq Nat /\ partition \in Nat
  BY OverlaysAssumption DEF ZoneTyped
<1>2. {"overlays", "system", "msgs", "files", "doors"} \subseteq Homes
  BY DEF Homes
<1> QED
  BY <1>1, <1>2 DEF After

(* Whatever is fetched, an overlay is in the zone, what was there, or nothing *)
(* that can be run.                                                           *)
LEMMA FetchedIsTyped ==
  ASSUME ZoneTyped
  PROVE  /\ \A p, left : \A o \in Ovls :
              left \in InZone /\ FetchOver(p, o, left) => zone' \in InZone /\ broken' \in BOOLEAN
         /\ zone \in InZone /\ broken \in BOOLEAN
         /\ {"WFC", "MSGS", "DOORS", "FILES", "ZMODEM"} \subseteq Ovls
         /\ {"WFC", "MSGS", "DOORS", "FILES", "ZMODEM", "door"} \subseteq InZone
<1>1. {"WFC", "MSGS", "DOORS", "FILES", "ZMODEM"} \subseteq Ovls
  BY DEF Ovls
<1>2. Ovls \subseteq InZone /\ "door" \in InZone /\ "" \in InZone
  BY Zenon DEF InZone
<1>3. zone \in InZone /\ broken \in BOOLEAN
  BY DEF ZoneTyped
<1>4. ASSUME NEW p, NEW left \in InZone, NEW o \in Ovls, FetchOver(p, o, left)
      PROVE  zone' \in InZone /\ broken' \in BOOLEAN
  <2>1. zone' \in {left, o, ""} /\ broken' \in {TRUE, FALSE}
    BY <1>4, Zenon DEF FetchOver
  <2> QED
    BY <1>2, <2>1, Zenon
<1> QED
  BY <1>1, <1>2, <1>3, <1>4, Zenon

(* The drive stands on a partition and an overlay or a door in the zone.      *)
LEMMA ZoneTypedStep ==
  ASSUME ZoneTyped, [OverlaysNext]_overlayVars
  PROVE  ZoneTyped'
<1>1. places' = places
  BY DEF OverlaysNext, OverlaysStep, overlayVars, StartBoard, WaitForCall, Tick, Show, DisplayFile, LogInToDoors,
     SignUp, ShowMenu, EnterMenu, MenuAction, BackOut, UnknownCommand, CloseSession, Feature,
     UseFiles, EndFeature, StartZmodem, ReturnToFiles, RunDoor, DoorReturns, DoorFails, ReloadDoors, PullPlug
<1>2. partition \in Nat /\ places \in Placements
  BY DEF ZoneTyped
<1>3. partition' \in Nat
  <2>0. CASE WaitForCall
    <3>1. partition' \in {partition} \cup {After(places[h]) : h \in {"system", "msgs", "files"}}
      BY <2>0 DEF WaitForCall
    <3> QED
      BY <3>1, <1>2, AfterIsPartition
  <2>1. CASE StartBoard \/ Tick \/ Show \/ LogInToDoors \/ SignUp \/ PullPlug
    BY <2>1, <1>2, AfterIsPartition DEF StartBoard, Tick, Show, DisplayFile,
       LogInToDoors, SignUp, PullPlug
  <2>2. CASE ShowMenu \/ EnterMenu \/ MenuAction \/ BackOut \/ UnknownCommand \/ CloseSession
    BY <2>2, <1>2, AfterIsPartition DEF ShowMenu, DisplayFile, EnterMenu, MenuAction, BackOut,
       UnknownCommand, CloseSession
  <2>3. CASE UseFiles
    <3>1. PICK o \in DOMAIN FileOf : partition' = After(places[FileOf[o]])
      BY <2>3 DEF UseFiles
    <3>2. FileOf[o] \in Homes
      BY DEF FileOf, Homes
    <3> QED
      BY <3>1, <3>2, AfterIsPartition
  <2>4. CASE \/ \E o \in DOMAIN FileOf : Feature(o)
             \/ EndFeature \/ StartZmodem \/ ReturnToFiles
    BY <2>4, <1>2, AfterIsPartition DEF Feature, EndFeature, StartZmodem, ReturnToFiles
  <2>5. CASE RunDoor \/ DoorReturns \/ DoorFails \/ UNCHANGED overlayVars
    BY <2>5, <1>2, AfterIsPartition DEF RunDoor, DoorReturns, DoorFails, overlayVars
  <2> QED
    BY <2>0, <2>1, <2>2, <2>3, <2>4, <2>5 DEF OverlaysNext, OverlaysStep
<1>4. zone' \in InZone /\ broken' \in BOOLEAN
  <2>1. CASE StartBoard \/ WaitForCall \/ LogInToDoors
    <3>1. UNCHANGED <<zone, broken>> \/ \E p : \E o \in {"WFC", "DOORS"} : FetchOver(p, o, zone)
      BY <2>1, Zenon DEF StartBoard, WaitForCall, LogInToDoors, Fetch
    <3> QED
      BY <3>1, FetchedIsTyped
  <2>2. CASE Tick \/ Show \/ SignUp \/ ShowMenu \/ EnterMenu \/ MenuAction \/ BackOut
             \/ UnknownCommand \/ CloseSession \/ UseFiles \/ UNCHANGED overlayVars
    <3>1. zone' = zone /\ broken' = broken
      BY <2>2 DEF Tick, Show, DisplayFile, SignUp, ShowMenu, EnterMenu, MenuAction, BackOut,
         UnknownCommand, CloseSession, UseFiles, overlayVars
    <3> QED
      BY <3>1, FetchedIsTyped
  <2>3. ASSUME NEW o \in DOMAIN FileOf, Feature(o)
        PROVE  zone' \in InZone /\ broken' \in BOOLEAN
    <3>1. o \in Ovls
      BY DEF FileOf, Ovls
    <3>2. FetchOver(partition', o, zone)
      BY <2>3 DEF Feature, Fetch
    <3> QED
      BY <3>1, <3>2, FetchedIsTyped
  <2>4. CASE EndFeature \/ StartZmodem \/ ReturnToFiles
    <3>1. \/ UNCHANGED <<zone, broken>>
          \/ \E o \in {"WFC", "ZMODEM", "FILES"} : FetchOver(partition', o, zone)
      BY <2>4, Zenon DEF EndFeature, StartZmodem, ReturnToFiles, Fetch
    <3> QED
      BY <3>1, FetchedIsTyped
  <2>5. CASE RunDoor
    BY <2>5, FetchedIsTyped DEF RunDoor
  <2>6. CASE DoorReturns \/ DoorFails
    <3>1. \E left \in {zone, "door"} : FetchOver(partition', "DOORS", left)
      BY <2>6, Zenon DEF DoorReturns, DoorFails, ReloadDoors
    <3> QED
      BY <3>1, FetchedIsTyped
  <2>7. CASE PullPlug
    <3>1. zone' = "" /\ broken' = FALSE
      BY <2>7, Zenon DEF PullPlug
    <3> QED
      BY <3>1, Zenon DEF InZone
  <2> QED
    BY <2>1, <2>2, <2>3, <2>4, <2>5, <2>6, <2>7 DEF OverlaysNext, OverlaysStep
<1> QED
  BY <1>1, <1>2, <1>3, <1>4 DEF ZoneTyped

(* The switches are on or off.                                                *)
LEMMA FlagsTypedStep ==
  ASSUME FlagsTyped, [OverlaysNext]_overlayVars
  PROVE  FlagsTyped'
<1>0. /\ wfcLoaded \in BOOLEAN /\ known \in BOOLEAN /\ wide \in BOOLEAN
      /\ menuShown \in BOOLEAN /\ guest \in Guests
      /\ {"off", "none", "local", "remote"} \subseteq Guests
  BY DEF FlagsTyped, Guests
<1>1. CASE StartBoard \/ WaitForCall \/ LogInToDoors \/ SignUp \/ CloseSession \/ PullPlug
  BY <1>1, <1>0 DEF StartBoard, WaitForCall, LogInToDoors, SignUp, CloseSession, PullPlug,
     FlagsTyped
<1>2. CASE Tick \/ Show \/ ShowMenu \/ EnterMenu \/ MenuAction \/ BackOut \/ UnknownCommand
  BY <1>2, <1>0 DEF Tick, Show, DisplayFile, ShowMenu, EnterMenu, MenuAction, BackOut,
     UnknownCommand, session, FlagsTyped
<1>3. CASE \/ \E o \in DOMAIN FileOf : Feature(o)
           \/ UseFiles \/ EndFeature \/ StartZmodem \/ ReturnToFiles
  BY <1>3, <1>0 DEF Feature, UseFiles, EndFeature, StartZmodem, ReturnToFiles, session, FlagsTyped
<1>4. CASE RunDoor \/ DoorReturns \/ DoorFails \/ UNCHANGED overlayVars
  BY <1>4, <1>0 DEF RunDoor, DoorReturns, DoorFails, ReloadDoors, overlayVars, session, FlagsTyped
<1> QED
  BY <1>1, <1>2, <1>3, <1>4 DEF OverlaysNext, OverlaysStep

(* One more on the stack, one less, and one alone.                            *)
LEMMA StackSizes ==
  ASSUME NEW S, NEW s \in Seq(S), NEW o \in S
  PROVE  /\ Len(s) \in Nat /\ << >> \in Seq(S) /\ Len(<< >>) = 0
         /\ Append(s, o) \in Seq(S) /\ Len(Append(s, o)) = Len(s) + 1
         /\ Last(Append(s, o)) = o
         /\ <<o>> \in Seq(S) /\ Len(<<o>>) = 1
         /\ s # << >> => /\ Len(s) > 0
                         /\ Front(s) \in Seq(S) /\ Len(Front(s)) = Len(s) - 1
                         /\ Last(s) \in S
<1>1. Len(s) \in Nat /\ \A i \in 1..Len(s) : s[i] \in S
  BY LenProperties, ElementOfSeq
<1>2. << >> \in Seq(S) /\ Len(<< >>) = 0 /\ (s # << >> => Len(s) > 0)
  BY EmptySeq
<1>3. /\ Append(s, o) \in Seq(S) /\ Len(Append(s, o)) = Len(s) + 1
      /\ Append(s, o)[Len(s) + 1] = o
  BY AppendProperties
<1>4. <<o>> \in Seq(S) /\ Len(<<o>>) = 1
  OBVIOUS
<1>5. s # << >> => Front(s) \in Seq(S) /\ Len(Front(s)) = Len(s) - 1
  <2>1. /\ SubSeq(s, 1, Len(s) - 1) \in Seq(S)
        /\ Len(SubSeq(s, 1, Len(s) - 1)) =
             IF 1 <= Len(s) - 1 THEN (Len(s) - 1) - 1 + 1 ELSE 0
    BY <1>1, SubSeqProperties
  <2>2. Front(s) = SubSeq(s, 1, Len(s) - 1)
    BY DEF Front
  <2> DEFINE n == Len(s)
             k == Len(SubSeq(s, 1, Len(s) - 1))
  <2>3. n \in Nat /\ (s # << >> => n > 0) /\ k = IF 1 <= n - 1 THEN (n - 1) - 1 + 1 ELSE 0
    BY <1>1, <1>2, <2>1
  <2> HIDE DEF n, k
  <2>4. s # << >> => k = n - 1
    BY ONLY <2>3
  <2> QED
    BY <2>1, <2>2, <2>4, Zenon DEF n, k
<1> QED
  BY <1>1, <1>2, <1>3, <1>4, <1>5 DEF Last

(* The stack grows by what a feature calls, and shrinks again.                *)
LEMMA StackTypedStep ==
  ASSUME StackTyped, MenusTyped, [OverlaysNext]_overlayVars
  PROVE  StackTyped'
<1> DEFINE S == Ovls \cup {"door"}
<1>0. /\ {"MSGS", "DOORS", "FILES", "ZMODEM", "door"} \subseteq S /\ Layers = Seq(S)
      /\ DOMAIN FileOf = {"MSGS", "DOORS", "FILES"}
  BY DEF Ovls, Layers, FileOf
<1> HIDE DEF S
<1>1. /\ frames \in Seq(S) /\ Len(frames) \in Nat /\ Len(frames) <= 2
      /\ Len(frames) = 2 => Last(frames) \in {"ZMODEM", "door"}
  BY <1>0, StackSizes DEF StackTyped
<1>2. ASSUME frames' = frames \/ Len(frames') <= 1, frames' \in Seq(S)
      PROVE  StackTyped'
  <2>1. Len(frames') \in Nat
    BY <1>2, <1>0, StackSizes
  <2>2. CASE frames' = frames
    BY <2>2 DEF StackTyped
  <2>3. CASE Len(frames') <= 1
    <3> DEFINE n == Len(frames')
    <3>1. n \in Nat /\ n <= 1
      BY <2>1, <2>3
    <3> HIDE DEF n
    <3>2. n # 2 /\ n <= 2
      BY ONLY <3>1
    <3>3. frames' \in Layers
      BY <1>0, <1>2
    <3> QED
      BY <3>2, <3>3, Zenon DEF StackTyped, n
  <2> QED
    BY <1>2, <2>2, <2>3
<1>3. ASSUME NEW o \in {"ZMODEM", "door"}, frames # << >>,
             Last(frames) \in {"FILES", "DOORS"}, frames' = Append(frames, o)
      PROVE  StackTyped'
  <2>1. Len(frames) # 2
    BY <1>1, <1>3
  <2>2. frames' \in Seq(S) /\ Len(frames') = Len(frames) + 1 /\ Last(frames') = o
    BY <1>0, <1>1, <1>3, StackSizes
  <2>3. Len(frames') <= 2
    <3> DEFINE n == Len(frames)
               k == Len(frames')
    <3>1. n \in Nat /\ n <= 2 /\ n # 2 /\ k = n + 1
      BY <1>1, <2>1, <2>2
    <3> HIDE DEF n, k
    <3>2. k <= 2
      BY ONLY <3>1
    <3> QED
      BY <3>2 DEF k
  <2> QED
    BY <1>0, <1>3, <2>2, <2>3 DEF StackTyped
<1>4. CASE LogInToDoors \/ EndFeature \/ PullPlug \/ \E o \in DOMAIN FileOf : Feature(o)
  <2>1. frames' = << >> \/ \E o \in S : frames' = <<o>>
    BY <1>0, <1>4 DEF LogInToDoors, EndFeature, PullPlug, Feature
  <2>2. frames' \in Seq(S) /\ Len(frames') <= 1
    <3>1. CASE frames' = << >>
      <4>1. Len(frames') = 0 /\ frames' \in Seq(S)
        BY <3>1, <1>0, <1>1, StackSizes
      <4> QED
        BY <4>1
    <3>2. ASSUME NEW o \in S, frames' = <<o>>
          PROVE  frames' \in Seq(S) /\ Len(frames') <= 1
      <4>1. Len(<<o>>) = 1 /\ <<o>> \in Seq(S)
        BY <1>1, StackSizes
      <4>2. Len(frames') = 1 /\ frames' \in Seq(S)
        BY <3>2, <4>1, Zenon
      <4> QED
        BY <4>2
    <3> QED
      BY <2>1, <3>1, <3>2
  <2> QED
    BY <1>2, <2>2
<1>5. CASE ReturnToFiles \/ DoorReturns
  <2>1. frames # << >> /\ frames' = Front(frames)
    BY <1>5 DEF ReturnToFiles, DoorReturns, Runs
  <2>2. frames' \in Seq(S) /\ Len(frames') = Len(frames) - 1
    BY <1>0, <1>1, <2>1, StackSizes
  <2>3. Len(frames') <= 1
    BY <1>1, <2>2
  <2> QED
    BY <1>2, <2>2, <2>3
<1>6. CASE StartZmodem
  BY <1>3, <1>6 DEF StartZmodem, Runs
<1>7. CASE RunDoor
  BY <1>3, <1>7 DEF RunDoor, Runs
<1>8. CASE frames' = frames
  BY <1>1, <1>2, <1>8
<1>9. \/ frames' = frames \/ LogInToDoors \/ EndFeature \/ \E o \in DOMAIN FileOf : Feature(o)
      \/ PullPlug \/ ReturnToFiles \/ DoorReturns \/ StartZmodem \/ RunDoor
  BY DEF OverlaysNext, OverlaysStep, overlayVars, StartBoard, WaitForCall, Tick, Show, DisplayFile, SignUp,
     ShowMenu, EnterMenu, MenuAction, BackOut, UnknownCommand, CloseSession, UseFiles, DoorFails
<1> QED
  BY <1>4, <1>5, <1>6, <1>7, <1>8, <1>9

(* The menus and the noise.                                                   *)
LEMMA MenusTypedStep ==
  ASSUME MenusTyped, [OverlaysNext]_overlayVars
  PROVE  MenusTyped'
<1> DEFINE M == DOMAIN Submenus
<1>0. /\ "main" \in M /\ \A m \in M : Submenus[m] \subseteq M
      /\ NoiseLimit \in Nat /\ NoiseLimit > 0
  BY OverlaysAssumption DEF Submenus
<1> HIDE DEF M
<1>1. /\ path \in Seq(M) /\ Len(path) \in Nat /\ Len(path) <= 6
      /\ noise \in 0..NoiseLimit
      /\ path # << >> \/ frames # << >> => known = TRUE /\ noise < NoiseLimit
      /\ known # TRUE => noise = 0
  BY <1>0, StackSizes DEF MenusTyped, M
<1>2. << >> \in Seq(M) /\ Len(<< >>) = 0 /\ <<"main">> \in Seq(M) /\ Len(<<"main">>) = 1
  BY <1>0, <1>1, StackSizes
<1>3. CASE UNCHANGED <<path, noise, known>> /\ (frames' # << >> => frames # << >>)
  BY <1>1, <1>3 DEF MenusTyped, M
<1>4. CASE \/ Tick \/ Show \/ ShowMenu \/ MenuAction \/ StartBoard \/ WaitForCall \/ UseFiles
           \/ ReturnToFiles \/ StartZmodem \/ RunDoor \/ DoorReturns \/ DoorFails
           \/ UNCHANGED overlayVars \/ \E o \in DOMAIN FileOf : Feature(o)
  <2>1. UNCHANGED <<path, noise, known>>
    BY <1>4 DEF Tick, Show, DisplayFile, ShowMenu, MenuAction, StartBoard, WaitForCall, UseFiles,
       ReturnToFiles, StartZmodem, RunDoor, DoorReturns, DoorFails, ReloadDoors, Feature,
       overlayVars, session
  <2>2. CASE \E o \in DOMAIN FileOf : Feature(o)
    <3>1. path # << >>
      BY <2>2 DEF Feature, Asked, InMenu
    <3> QED
      BY <1>1, <2>1, <3>1 DEF MenusTyped, M
  <2>3. CASE ~(\E o \in DOMAIN FileOf : Feature(o))
    <3>1. frames' # << >> => frames # << >>
      BY <1>4, <2>3 DEF Tick, Show, DisplayFile, ShowMenu, MenuAction, StartBoard, WaitForCall,
         UseFiles, ReturnToFiles, StartZmodem, RunDoor, DoorReturns, DoorFails, overlayVars, Runs
    <3> QED
      BY <1>3, <2>1, <3>1
  <2> QED
    BY <2>2, <2>3
<1>5. CASE LogInToDoors \/ SignUp
  <2>1. /\ known' = TRUE /\ known # TRUE /\ noise' = noise
        /\ path' = path \/ path' = <<"main">>
    BY <1>5 DEF LogInToDoors, SignUp
  <2>2. noise = 0 /\ path' \in Seq(M) /\ Len(path') <= 6
    <3>1. CASE path' = path
      BY <1>1, <2>1, <3>1
    <3>2. CASE path' = <<"main">>
      <4>1. path' \in Seq(M) /\ Len(path') = 1
        BY <1>2, <3>2, Zenon
      <4> QED
        BY <1>1, <2>1, <4>1
    <3> QED
      BY <2>1, <3>1, <3>2
  <2> QED
    BY <1>0, <2>1, <2>2 DEF MenusTyped, M
<1>6. CASE EnterMenu
  <2>1. /\ path # << >> /\ Len(path) <= 5 /\ UNCHANGED <<frames, known, noise>>
        /\ \E m \in Submenus[Last(path)] : path' = Append(path, m)
    BY <1>6 DEF EnterMenu, Asked, InMenu
  <2>2. PICK m \in M : path' = Append(path, m)
    <3>1. Last(path) \in M
      BY <1>0, <1>1, <2>1, StackSizes
    <3> QED
      BY <1>0, <2>1, <3>1
  <2>3. path' \in Seq(M) /\ Len(path') = Len(path) + 1
    BY <1>1, <2>2, StackSizes
  <2> QED
    BY <1>1, <2>1, <2>3 DEF MenusTyped, M
<1>7. CASE BackOut
  <2>1. /\ path # << >> /\ path' = Front(path) /\ UNCHANGED <<frames, known, noise>>
    BY <1>7 DEF BackOut, Asked, InMenu
  <2>2. path' \in Seq(M) /\ Len(path') = Len(path) - 1
    BY <1>0, <1>1, <2>1, StackSizes
  <2> QED
    BY <1>1, <2>1, <2>2 DEF MenusTyped, M
<1>8. CASE UnknownCommand
  <2>1. /\ path # << >> /\ frames = << >> /\ UNCHANGED <<frames, known>>
    BY <1>8 DEF UnknownCommand, Asked, InMenu
  <2>2. known = TRUE /\ noise < NoiseLimit
    BY <1>1, <2>1
  <2>3. CASE UNCHANGED <<noise, path>>
    BY <1>1, <2>1, <2>3 DEF MenusTyped, M
  <2>4. CASE noise' = noise + 1 /\ path' = IF noise' >= NoiseLimit THEN << >> ELSE path
    <3>1. noise' \in 0..NoiseLimit
      BY <1>0, <1>1, <2>2, <2>4
    <3>2. path' \in Seq(M) /\ Len(path') <= 6
      BY <1>1, <1>2, <2>4
    <3>3. path' # << >> => noise' < NoiseLimit
      BY <1>0, <2>4, <3>1
    <3> QED
      BY <2>1, <2>2, <3>1, <3>2, <3>3 DEF MenusTyped, M
  <2> QED
    BY <1>8, <2>3, <2>4 DEF UnknownCommand
<1>9. CASE CloseSession \/ PullPlug
  <2>1. frames' = << >> /\ path' = << >> /\ noise' = 0 /\ known' = FALSE
    BY <1>9 DEF CloseSession, PullPlug
  <2> QED
    BY <1>0, <1>2, <2>1 DEF MenusTyped, M
<1>10. CASE EndFeature
  <2>1. /\ Len(frames) = 1 /\ frames' = << >> /\ path' = <<"main">>
        /\ UNCHANGED <<known, noise>>
    BY <1>10 DEF EndFeature
  <2>2. frames # << >>
    <3>1. ASSUME frames = << >> PROVE FALSE
      <4>1. Len(frames) = 0
        BY <3>1, <1>2
      <4> QED
        BY <2>1, <4>1
    <3> QED
      BY <3>1
  <2> QED
    BY <1>1, <1>2, <2>1, <2>2 DEF MenusTyped, M
<1> QED
  BY <1>4, <1>5, <1>6, <1>7, <1>8, <1>9, <1>10 DEF OverlaysNext, OverlaysStep

(* The zone, the drive, the call stack and the menus are of their types, on   *)
(* whatever partitions the parts stand: the stack is never deeper than two,   *)
(* the menus than six, and no caller is noise for longer than is borne.       *)
THEOREM OverlaysAreTyped == OverlaysSpec => []OverlaysTypeOK
<1>1. OverlaysInit => ZoneTyped /\ FlagsTyped /\ StackTyped /\ MenusTyped
  <2> SUFFICES ASSUME OverlaysInit PROVE ZoneTyped /\ FlagsTyped /\ StackTyped /\ MenusTyped
    OBVIOUS
  <2>1. zone \in InZone /\ broken \in BOOLEAN
    BY Zenon DEF OverlaysInit, InZone
  <2>2. /\ places \in Placements /\ partition = places.overlays
        /\ wfcLoaded = FALSE /\ frames = << >> /\ guest = "off" /\ known = FALSE
        /\ wide = FALSE /\ path = << >> /\ noise = 0 /\ menuShown = FALSE
    BY Zenon DEF OverlaysInit
  <2>3. places.overlays \in Nat /\ NoiseLimit \in Nat
    BY <2>2, OverlaysAssumption DEF Homes
  <2>4. Len(<< >>) = 0 /\ << >> \in Layers /\ << >> \in Seq(DOMAIN Submenus)
    BY EmptySeq DEF Layers
  <2>5. ZoneTyped
    BY <2>1, <2>2, <2>3 DEF ZoneTyped
  <2>6. FlagsTyped
    BY <2>2 DEF FlagsTyped, Guests
  <2>7. StackTyped
    BY <2>2, <2>4 DEF StackTyped
  <2>8. MenusTyped
    BY <2>2, <2>3, <2>4 DEF MenusTyped
  <2> QED
    BY <2>5, <2>6, <2>7, <2>8
<1>2. ZoneTyped /\ FlagsTyped /\ StackTyped /\ MenusTyped /\ [OverlaysNext]_overlayVars
        => ZoneTyped' /\ FlagsTyped' /\ StackTyped' /\ MenusTyped'
  BY ZoneTypedStep, FlagsTypedStep, StackTypedStep, MenusTypedStep
<1>3. ZoneTyped /\ FlagsTyped /\ StackTyped /\ MenusTyped => OverlaysTypeOK
  BY Zenon DEF ZoneTyped, FlagsTyped, StackTyped, MenusTyped, OverlaysTypeOK, InZone, Guests, Layers
<1> QED
  BY <1>1, <1>2, <1>3, PTL DEF OverlaysSpec

-----------------------------------------------------------------------------
(* What a download sends.                                                     *)

(* Every entry has a name that callers give to files, and the drive has a     *)
(* file of that name.                                                         *)
Stored ==
  \A a \in AreaNums, n \in EntryNums :
    entries[a][n] # NoFile => /\ entries[a][n].name \in Names
                              /\ store[entries[a][n].name] # Absent

(* Moving about in the browser touches neither the drive nor what was sent.   *)
LEMMA MovingStores ==
  ASSUME Stored, DownloadSendsTheUpload,
         \/ \E l \in CallerLevels : EnterFiles(l)
         \/ LeaveFiles
         \/ \E fwd \in BOOLEAN : ShiftArea(fwd)
         \/ \E n \in 1..(Len(Areas) + 1) : JumpArea(n)
         \/ UNCHANGED fileVars
  PROVE  Stored' /\ DownloadSendsTheUpload'
<1>1. UNCHANGED <<entries, store, sent>>
  BY DEF EnterFiles, LeaveFiles, ShiftArea, JumpArea, fileVars
<1> QED
  BY <1>1 DEF Stored, DownloadSendsTheUpload, AreaNums, EntryNums

(* A download sends what the drive has under the entry's name, which the      *)
(* drive knows if it is a full one, and writes the entry back as it was.      *)
LEMMA DownloadStores ==
  ASSUME FullNames = Names, FilesInv, Stored, DownloadSendsTheUpload,
         NEW typedNum \in Nat, Download(typedNum)
  PROVE  Stored' /\ DownloadSendsTheUpload'
<1> DEFINE n == RecNum(typedNum)
           a == area.id
           fe == ByRecNum(a, n)
           r == [fe EXCEPT !.downloads = 1]
<1>1. /\ areaIdx # 0 /\ fe # NoFile
      /\ \/ SaveEntry(a, n, r) /\ sent' = <<fe.upload, OnDrive(fe.name)>>
         \/ UNCHANGED <<entries, sent>>
      /\ UNCHANGED store
  BY DEF Download
<1>2. a \in AreaNums
  BY <1>1 DEF FilesInv
<1>3. n \in EntryNums /\ fe = entries[a][n]
  BY <1>1 DEF ByRecNum
<1> HIDE DEF n, a, fe
<1>4. fe \in EntryRecords
  BY <1>2, <1>3 DEF FilesInv
<1>5. fe.name \in Names /\ store[fe.name] # Absent
  BY <1>1, <1>2, <1>3 DEF Stored
<1>6. r.name = fe.name
  BY <1>4 DEF EntryRecords
<1> HIDE DEF r
<1>7. entries' = entries \/ entries' = [entries EXCEPT ![a][n] = r]
  BY <1>1 DEF SaveEntry
<1>8. ASSUME NEW b \in AreaNums, NEW m \in EntryNums, entries'[b][m] # NoFile
      PROVE  entries'[b][m].name \in Names /\ store[entries'[b][m].name] # Absent
  <2>1. entries \in [AreaNums -> [EntryNums -> EntryRecords]]
    BY DEF FilesInv
  <2>2. entries'[b][m] \in {entries[b][m], r}
    BY <2>1, <1>2, <1>3, <1>7
  <2> QED
    BY <2>2, <1>5, <1>6, <1>8 DEF Stored
<1>9. DownloadSendsTheUpload'
  <2>1. CASE sent' = <<fe.upload, OnDrive(fe.name)>>
    <3>1. OnDrive(fe.name) # Absent
      BY <1>5 DEF OnDrive
    <3> QED
      BY <2>1, <3>1 DEF DownloadSendsTheUpload
  <2>2. CASE UNCHANGED sent
    BY <2>2 DEF DownloadSendsTheUpload
  <2> QED
    BY <1>1, <2>1, <2>2
<1> QED
  BY <1>1, <1>8, <1>9 DEF Stored, AreaNums, EntryNums

(* An upload that does not fail has put its file before its entry is written, *)
(* and takes no file away.                                                    *)
LEMMA UploadStores ==
  ASSUME "line" \notin FileFaults, FilesInv, FilesTypeOK, Stored,
         DownloadSendsTheUpload, NEW name \in Names, Upload(name)
  PROVE  Stored' /\ DownloadSendsTheUpload'
<1> DEFINE a == area.id
           new == [name |-> name, downloads |-> 0, upload |-> uploads']
<1>1. /\ areaIdx # 0 /\ uploads' = uploads + 1 /\ uploads \in Nat /\ a \in AreaNums
      /\ store' = [store EXCEPT ![name] = uploads']
      /\ AddEntry(a, new) /\ UNCHANGED sent
  BY DEF Upload, FilesInv
<1> HIDE DEF a
<1>2. store \in [Names -> 0..Damaged] /\ uploads' # Absent
  <2>1. store \in [Names -> 0..Damaged]
    BY Zenon DEF FilesTypeOK
  <2>2. uploads' # Absent
    BY <1>1 DEF Absent
  <2> QED
    BY <2>1, <2>2
<1>3. ASSUME NEW other \in Names, other = name \/ store[other] # Absent
      PROVE  store'[other] # Absent
  BY <1>1, <1>2, <1>3
<1>4. new.name = name
  OBVIOUS
<1> HIDE DEF new
<1>5. ASSUME NEW b \in AreaNums, NEW m \in EntryNums, entries'[b][m] # NoFile
      PROVE  entries'[b][m].name \in Names /\ store'[entries'[b][m].name] # Absent
  <2>1. entries \in [AreaNums -> [EntryNums -> EntryRecords]]
    BY DEF FilesInv
  <2>2. entries'[b][m] \in {entries[b][m], new}
    <3>1. CASE UNCHANGED entries
      BY <3>1
    <3>2. CASE FreeEntry(a) # 0 /\ entries' = [entries EXCEPT ![a][FreeEntry(a)] = new]
      <4> DEFINE k == FreeEntry(a)
      <4>1. k \in EntryNums
        BY <3>2, <1>1, FreeEntryIsFirst
      <4>2. entries' = [entries EXCEPT ![a][k] = new]
        BY <3>2
      <4> HIDE DEF k
      <4> QED
        BY <2>1, <4>1, <4>2, <1>1
    <3> QED
      BY <3>1, <3>2, <1>1 DEF AddEntry
  <2>3. CASE entries'[b][m] = new
    BY <2>3, <1>3, <1>4
  <2>4. CASE entries'[b][m] = entries[b][m]
    <3>1. entries[b][m].name \in Names /\ store[entries[b][m].name] # Absent
      BY <2>4, <1>5 DEF Stored
    <3> QED
      BY <2>4, <3>1, <1>3
  <2> QED
    BY <2>2, <2>3, <2>4
<1>6. DownloadSendsTheUpload'
  BY <1>1 DEF DownloadSendsTheUpload
<1> QED
  BY <1>5, <1>6 DEF Stored, AreaNums, EntryNums

(* What the program's README.md promises of a download holds, for any number  *)
(* of areas, callers and files and also when entries cannot be written, if    *)
(* all names fill their 15 characters and no transfer fails: the blanks that  *)
(* fentry_pack leaves behind a shorter name are all that breaks it.           *)
THEOREM FullNamesAreSent ==
  ASSUME FullNames = Names, "line" \notin FileFaults
  PROVE  FilesSpec => []DownloadSendsTheUpload
<1> DEFINE I == FilesInv /\ Stored /\ DownloadSendsTheUpload
<1>1. FilesInit => I
  <2> SUFFICES ASSUME FilesInit PROVE I
    OBVIOUS
  <2>1. FilesInv
    BY FilesStart
  <2>2. Stored
    BY DEF FilesInit, Stored
  <2>3. DownloadSendsTheUpload
    BY DEF FilesInit, DownloadSendsTheUpload
  <2> QED
    BY <2>1, <2>2, <2>3
<1>2. I /\ FilesTypeOK /\ [FilesNext]_fileVars => I'
  <2> SUFFICES ASSUME I, FilesTypeOK, [FilesNext]_fileVars PROVE I'
    OBVIOUS
  <2>1. 0..(2 * EntryMax + 1) \subseteq Nat
    BY FilesAssumption
  <2>2. CASE \/ \E l \in CallerLevels : EnterFiles(l)
             \/ LeaveFiles
             \/ \E fwd \in BOOLEAN : ShiftArea(fwd)
             \/ \E n \in 1..(Len(Areas) + 1) : JumpArea(n)
             \/ UNCHANGED fileVars
    BY <2>2, MovingKeeps, MovingStores
  <2>3. ASSUME NEW n \in 0..(2 * EntryMax + 1), Download(n)
        PROVE  I'
    BY <2>1, <2>3, DownloadKeeps, DownloadStores
  <2>4. ASSUME NEW name \in Names, Upload(name)
        PROVE  I'
    BY <2>4, UploadKeeps, UploadStores
  <2> QED
    BY <2>2, <2>3, <2>4 DEF FilesNext
<1> QED
  BY <1>1, <1>2, FilesAreTyped, PTL DEF FilesSpec

-----------------------------------------------------------------------------
(* The parts together.                                                        *)

AllParts == <<service, accountVars, readerVars, tableVars, fileVars, usageVars, configVars,
              overlayVars>>

(* Whatever the caller and the SysOp do with the parts of the board, each     *)
(* part sees only behaviours of its own module, so all that is proved of one  *)
(* part alone holds of it beside the others.                                  *)
THEOREM PartsAreThemselves ==
  ServicesSpec => /\ AccountsSpec /\ ReaderSpec /\ TablesSpec /\ FilesSpec
                  /\ UsageSpec /\ ConfigSpec /\ OverlaysSpec
<1>1. ServicesInit => /\ AccountsInit /\ ReaderInit /\ TablesInit /\ FilesInit
                      /\ UsageInit /\ ConfigInit /\ OverlaysInit
  BY DEF ServicesInit
<1>2. [ServicesNext]_AllParts =>
        /\ [AccountsNext]_accountVars /\ [ReaderNext]_readerVars
        /\ [TablesNext]_tableVars /\ [FilesNext]_fileVars
        /\ [UsageNext]_usageVars /\ [ConfigNext]_configVars
        /\ [OverlaysNext]_overlayVars
  BY DEF ServicesNext, AllParts
<1> QED
  BY <1>1, <1>2, PTL DEF ServicesSpec, AllParts, AccountsSpec, ReaderSpec, TablesSpec,
     FilesSpec, UsageSpec, ConfigSpec, OverlaysSpec

(* Every part of the board keeps all its states of their types, side by side, *)
(* for any number of accounts, boards, areas, days, devices and overlays.     *)
THEOREM ServicesAreTyped == ServicesSpec => []ServicesTypeOK
<1> DEFINE Chosen == service \in ServiceNames
<1>1. ServicesInit => Chosen
  BY DEF ServicesInit
<1>2. Chosen /\ [ServicesNext]_AllParts => Chosen'
  BY DEF ServicesNext, AllParts
<1>3. /\ Chosen
      /\ AccountsTypeOK /\ ReaderTypeOK /\ TablesTypeOK /\ FilesTypeOK
      /\ UsageTypeOK /\ ConfigTypeOK /\ OverlaysTypeOK
      => ServicesTypeOK
  BY DEF ServicesTypeOK
<1> HIDE DEF Chosen
<1>4. ServicesSpec => []Chosen
  BY <1>1, <1>2, PTL DEF ServicesSpec, AllParts
<1> QED
  BY <1>3, <1>4, PartsAreThemselves, AccountsAreTyped, ReaderIsTyped, TablesAreTyped,
     FilesAreTyped, UsageIsTyped, ConfigIsTyped, OverlaysAreTyped, PTL

(* So all that is promised of a part is kept beside the others: by the        *)
(* accounts when their file is loaded and scanned completely, by the reader   *)
(* when the marks are loaded, by the overlays on one partition, and by the    *)
(* record tables, the file areas, the accounting and the drives always.       *)
THEOREM PromisesAreKept ==
  ASSUME "load" \notin Faults, "read" \notin Faults, LoadsWork, OnePartition
  PROVE  ServicesSpec => /\ []CopyIsTheFile /\ []HandlesAreUnique /\ []CallerIsOwner
                         /\ []RegistrationIsComplete /\ AccountsAreKept
                         /\ []CurrentWasShown /\ []MarkIsHighestRead /\ NewIsNextUnread
                         /\ []ListIsComplete /\ FreshIsEmpty /\ EntriesStay
                         /\ []UploadsAreListed /\ []MinutesAreOfTheDay
                         /\ []OperationsLandWhereAsked /\ ReportedIsLoaded
                         /\ []CodeIsInTheZone
BY PartsAreThemselves, CopyIsAlwaysTheFile, HandlesStayUnique, CallersAreOwners,
   RegistrationsAreComplete, AccountsStay, CurrentAlwaysWasShown, MarksAreHighestRead,
   NewIsAlwaysNextUnread, ListsAreComplete, NewStartsEmpty, EntriesAreTheirOwn,
   UploadsStayListed, MinutesStayOfTheDay, OperationsLand, ReportsAreLoaded,
   CodeStaysInTheZone, PTL

=============================================================================
