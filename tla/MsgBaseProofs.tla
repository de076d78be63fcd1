---------------------------- MODULE MsgBaseProofs ----------------------------
(* What holds of the message base for every number and size of boards, every *)
(* limit and every length of message.                                        *)
EXTENDS MsgBase, TLAPS, SequenceTheorems

-----------------------------------------------------------------------------
(* Lemmas about the operators of the message base.                           *)

(* A zeroed record, an empty directory record and no post are well typed.    *)
LEMMA ConstantsTyped ==
  /\ Absent \in IndexRecord
  /\ EmptyDir \in DirRecord
  /\ NoPost \in PostRecord
BY MsgBaseAssumption
   DEF Absent, EmptyDir, NoPost, IndexRecord, DirRecord, PostRecord

(* Writing to a text file leaves a sequence of bytes whose length is that of *)
(* the part kept and of the part written.                                    *)
LEMMA WrittenIsText ==
  ASSUME TypeOK, NEW b \in Boards, NEW off \in Nat, NEW count \in Nat,
         NEW t \in Nat
  PROVE  /\ Written(b, off, count, t) \in Seq(Nat)
         /\ Len(Written(b, off, count, t)) =
              (IF off = 0 THEN 0 ELSE Len(txt[b])) + count
<1> DEFINE old == IF off = 0 THEN 0 ELSE Len(txt[b])
<1>1. txt[b] \in Seq(Nat)
  BY DEF TypeOK
<1>2. old \in Nat /\ old <= Len(txt[b])
  BY <1>1, LenProperties
<1>3. \A i \in 1..(old + count) :
        (IF i <= old THEN txt[b][i] ELSE t) \in Nat
  BY <1>1, <1>2, ElementOfSeq
<1>4. Written(b, off, count, t) \in [1..(old + count) -> Nat]
  BY <1>3 DEF Written
<1>5. old + count \in Nat
  BY <1>2
<1> QED
  BY <1>4, <1>5, IsASeq, LenProperties

(* Whatever is read of the index is a well typed record.                     *)
LEMMA GetTyped ==
  ASSUME TypeOK, cur \in Boards, NEW i \in RecNums
  PROVE  Get(i) \in IndexRecord
BY DEF TypeOK, Get

(* Putting a well typed record keeps the index and bank 0 well typed.        *)
LEMMA PutTyped ==
  ASSUME TypeOK, cur \in Boards, NEW r \in IndexRecord, Put(r)
  PROVE  /\ idx' \in [Boards -> [RecNums -> IndexRecord]]
         /\ reu' \in [RecNums -> IndexRecord]
BY DEF TypeOK, Put

(* So does loading bank 0 from a board's index.                              *)
LEMMA LoadTyped ==
  ASSUME TypeOK, NEW b \in Boards, IndexLoad(b)
  PROVE  reu' \in [RecNums -> IndexRecord]
<1>1. \A k \in 0..MaxPerBoard : Loaded(b, k) \in [RecNums -> IndexRecord]
  BY ConstantsTyped, MsgBaseAssumption DEF TypeOK, Loaded
<1> QED
  BY <1>1, MsgBaseAssumption DEF TypeOK, IndexLoad

(* The changes an operation makes to single fields keep records well typed.  *)
LEMMA DeleTyped ==
  ASSUME NEW r \in IndexRecord
  PROVE  [r EXCEPT !.dele = TRUE] \in IndexRecord
BY DEF IndexRecord

(* A record whose reply is counted is still a record.                         *)
LEMMA CountReplyTyped ==
  ASSUME NEW r \in IndexRecord
  PROVE  CountReply(r) \in IndexRecord
<1>1. (r.replies + 1) % 256 \in 0..255
  BY DEF IndexRecord
<1> QED
  BY <1>1 DEF CountReply, IndexRecord

(* So is a directory with one message less.                                   *)
LEMMA OneLessTyped ==
  ASSUME NEW d \in DirRecord
  PROVE  [d EXCEPT !.count = OneLess(@)] \in DirRecord
<1>1. OneLess(d.count) \in Nat
  BY DEF DirRecord, OneLess
<1> QED
  BY <1>1 DEF DirRecord

(* And a directory with one more.                                             *)
LEMMA DirAfterPostTyped ==
  ASSUME new \in PostRecord, NEW d \in DirRecord
  PROVE  DirAfterPost(d) \in DirRecord
<1>1. (new.off + new.len) % Word \in 0..(Word - 1)
  BY MsgBaseAssumption DEF PostRecord
<1>2. /\ d.count + 1 \in Nat
      /\ new.id \in 0..(MaxPerBoard + 1) /\ d.high \in 0..(MaxPerBoard + 1)
  BY DEF DirRecord, PostRecord
<1> QED
  BY <1>1, <1>2 DEF DirRecord, DirAfterPost

(* A reply joins the thread of its parent, or starts one.                    *)
LEMMA RootTyped ==
  ASSUME TypeOK, cur \in Boards, NEW id \in RecNums
  PROVE  RootOf(id) \in 0..(MaxPerBoard + 1)
<1>1. CASE new.parent = 0 \/ Orphaned
  BY <1>1, MsgBaseAssumption DEF RootOf, RecNums
<1>2. CASE ~(new.parent = 0 \/ Orphaned)
  <2>1. new.parent \in RecNums
    BY <1>2, MsgBaseAssumption DEF TypeOK, PostRecord, RecNums
  <2>2. Get(new.parent).root \in 0..(MaxPerBoard + 1)
    BY <2>1, GetTyped DEF IndexRecord
  <2> QED
    BY <1>2, <2>2 DEF RootOf
<1> QED
  BY <1>1, <1>2

-----------------------------------------------------------------------------
(* Type correctness, with any faults.                                        *)

LEMMA GiveUpTyped ==
  ASSUME GiveUp
  PROVE  /\ pc' = "idle" /\ loc' \in DirRecord /\ new' \in PostRecord
         /\ scan' \in 1..(MaxPerBoard + 1) /\ pruned' \in Nat
BY ConstantsTyped, MsgBaseAssumption DEF GiveUp

(* Admitting a message or refusing it leaves values of their types.           *)
LEMMA AdmissionTyped ==
  ASSUME NEW board \in DirRecord, NEW post \in PostRecord,
         Admit(board, post) \/ Refuse(board)
  PROVE  /\ pc' \in {"idle", "commit"} /\ loc' \in DirRecord
         /\ new' \in PostRecord
         /\ scan' \in 1..(MaxPerBoard + 1) /\ pruned' \in Nat
BY GiveUpTyped, MsgBaseAssumption DEF Admit, Refuse

(* So does a commit whose text is written part of the way.                    *)
LEMMA PartialCommitTyped ==
  ASSUME TypeOK, cur \in Boards, PartialCommit
  PROVE  txt' \in [Boards -> Seq(Nat)]
<1>1. PICK off \in 0..(Word - 1), c \in 0..new.len :
        txt' = [txt EXCEPT ![cur] = Written(cur, off, c, new.tag)]
  BY DEF PartialCommit
<1>2. new.tag \in Nat /\ new.len \in Nat
  BY MsgBaseAssumption DEF TypeOK, PostRecord
<1>3. off \in Nat /\ c \in Nat
  BY <1>2, MsgBaseAssumption
<1>4. Written(cur, off, c, new.tag) \in Seq(Nat)
  BY <1>2, <1>3, WrittenIsText
<1> QED
  BY <1>1, <1>4 DEF TypeOK

(* An operation only runs while a board is entered.                        *)
Busy == pc # "idle" => cur \in Boards

(* An operation runs only while the caller is on a board.                    *)
LEMMA BusyStep ==
  ASSUME TypeOK, Busy, [Next]_vars
  PROVE  Busy'
<1> USE DEF TypeOK, Busy
<1>1. CASE \E b \in Boards : LoadBoard(b)
  BY <1>1 DEF LoadBoard
<1>2. CASE LeaveBoards
  BY <1>2 DEF LeaveBoards
<1>3. CASE \E i \in RecNums : DisplayMsg(i)
  BY <1>3 DEF DisplayMsg
<1>4. CASE \E p \in RecNums \cup {0}, len \in Lens : StartPost(p, len)
  BY <1>4, MsgBaseAssumption DEF StartPost
<1>5. CASE \E i \in RecNums : PruneRecord(i)
  BY <1>5 DEF PruneRecord
<1>6. CASE PruneSave
  BY <1>6 DEF PruneSave
<1>7. CASE CommitBody \/ LinkThread \/ PutRecord
  BY <1>7 DEF CommitBody, LinkThread, PutRecord
<1>8. CASE SaveBoard
  BY <1>8 DEF SaveBoard
<1>9. CASE KillRecord \/ KillSave
  BY <1>9 DEF KillRecord, KillSave
<1>10. CASE DiskError
  BY <1>10 DEF DiskError, GiveUp
<1>11. CASE Crash
  BY <1>11 DEF Crash, GiveUp
<1>12. CASE UNCHANGED vars
  BY <1>12 DEF vars, disk
<1> QED
  BY <1>1, <1>2, <1>3, <1>4, <1>5, <1>6, <1>7, <1>8, <1>9, <1>10, <1>11,
     <1>12 DEF Next

(* Every step keeps the types.                                               *)
LEMMA TypeStep ==
  ASSUME TypeOK, Busy, [Next]_vars
  PROVE  TypeOK'
<1>a. /\ MaxPerBoard \in Nat /\ MaxLen \in Nat /\ Word \in Nat \ {0}
      /\ Lens \subseteq 0..MaxLen
      /\ RecNums = 1..(MaxPerBoard + 1)
  BY MsgBaseAssumption DEF RecNums
<1>1. ASSUME NEW b \in Boards, LoadBoard(b)
      PROVE  TypeOK'
  <2>1. reu' \in [RecNums -> IndexRecord]
    BY <1>1, LoadTyped DEF LoadBoard
  <2> QED
    BY <1>1, <1>a, <2>1 DEF LoadBoard, TypeOK, disk
<1>2. CASE LeaveBoards
  BY <1>2, <1>a DEF LeaveBoards, TypeOK, disk
<1>3. ASSUME NEW i \in RecNums, DisplayMsg(i)
      PROVE  TypeOK'
  BY <1>3, <1>a DEF DisplayMsg, TypeOK, disk
<1>4. ASSUME NEW p \in RecNums \cup {0}, NEW len \in Lens, StartPost(p, len)
      PROVE  TypeOK'
  <2> DEFINE post == [NoPost EXCEPT !.tag = sent + 1, !.parent = p,
                                    !.len = len]
  <2>1. post \in PostRecord
    <3>1. /\ sent + 1 \in Nat /\ p \in 0..(MaxPerBoard + 1)
          /\ len \in 0..MaxLen
      BY <1>a DEF TypeOK
    <3> QED
      BY <3>1, ConstantsTyped DEF PostRecord
  <2>2. cur \in Boards /\ dir[cur] \in DirRecord
    BY <1>4 DEF StartPost, TypeOK
  <2>3. CASE Admit(dir[cur], post) \/ Refuse(dir[cur])
    BY <1>4, <2>1, <2>2, <2>3, AdmissionTyped DEF StartPost, TypeOK, disk
  <2>4. CASE pc' = "prune" /\ loc' = dir[cur] /\ new' = post
             /\ UNCHANGED <<scan, pruned>>
    BY <1>4, <2>1, <2>2, <2>4 DEF StartPost, TypeOK, disk
  <2> QED
    BY <1>4, <2>3, <2>4 DEF StartPost
<1>5. ASSUME NEW i \in RecNums, PruneRecord(i)
      PROVE  TypeOK'
  <2>0. cur \in Boards
    BY <1>5 DEF PruneRecord, Busy
  <2>1. [Get(i) EXCEPT !.dele = TRUE] \in IndexRecord
    BY <2>0, GetTyped, DeleTyped
  <2>2. /\ idx' \in [Boards -> [RecNums -> IndexRecord]]
        /\ reu' \in [RecNums -> IndexRecord]
    BY <1>5, <2>0, <2>1, PutTyped DEF PruneRecord, TypeOK
  <2>3. loc' \in DirRecord
    BY <1>5, OneLessTyped DEF PruneRecord, TypeOK
  <2>4. i \in 1..MaxPerBoard
    BY <1>5, <1>a DEF PruneRecord, NextToPrune, Prunable, TypeOK
  <2>5. scan' \in 1..(MaxPerBoard + 1) /\ pruned' \in Nat
    BY <1>5, <1>a, <2>4 DEF PruneRecord, TypeOK
  <2> QED
    BY <1>5, <2>2, <2>3, <2>5 DEF PruneRecord, TypeOK
<1>6. CASE PruneSave
  <2>1. cur \in Boards
    BY <1>6 DEF PruneSave, Busy
  <2> QED
    BY <1>6, <2>1, AdmissionTyped DEF PruneSave, TypeOK
<1>7. CASE CommitBody
  <2>1. cur \in Boards /\ new.tag \in Nat /\ new.len \in Nat
    BY <1>7, <1>a DEF CommitBody, Busy, TypeOK, PostRecord
  <2>2. PICK off \in 0..(Word - 1) :
          /\ txt' = [txt EXCEPT ![cur] = Written(cur, off, new.len, new.tag)]
          /\ new' = [new EXCEPT !.off = off]
    BY <1>7 DEF CommitBody
  <2>3. Written(cur, off, new.len, new.tag) \in Seq(Nat)
    <3>1. off \in Nat
      BY <1>a
    <3> QED
      BY <2>1, <3>1, WrittenIsText
  <2>4. new' \in PostRecord
    BY <2>2 DEF TypeOK, PostRecord
  <2> QED
    BY <1>7, <2>2, <2>3, <2>4 DEF CommitBody, TypeOK
<1>8. CASE LinkThread
  <2>0. cur \in Boards
    BY <1>8 DEF LinkThread, Busy
  <2>1. \A i \in RecNums : CountReply(Get(i)) \in IndexRecord
    BY <2>0, GetTyped, CountReplyTyped
  <2>2. new.parent \in 0..(MaxPerBoard + 1)
    BY DEF TypeOK, PostRecord
  <2>3. /\ idx' \in [Boards -> [RecNums -> IndexRecord]]
        /\ reu' \in [RecNums -> IndexRecord]
    <3>1. CASE new.parent # 0 /\ Put(CountReply(Get(new.parent)))
      <4>1. new.parent \in RecNums
        BY <1>a, <2>2, <3>1
      <4> QED
        BY <2>0, <2>1, <3>1, <4>1, PutTyped
    <3>2. CASE UNCHANGED <<idx, reu>>
      BY <3>2 DEF TypeOK
    <3> QED
      BY <1>8, <3>1, <3>2 DEF LinkThread
  <2>4. \A id \in RecNums : RootOf(id) \in 0..(MaxPerBoard + 1)
    BY <2>0, RootTyped
  <2>5. new' \in PostRecord
    <3>1. PICK id \in RecNums :
            new' = [new EXCEPT !.id = id, !.root = RootOf(id)]
      BY <1>8 DEF LinkThread
    <3>2. id \in 0..(MaxPerBoard + 1) /\ RootOf(id) \in 0..(MaxPerBoard + 1)
      BY <1>a, <2>4
    <3> QED
      BY <3>1, <3>2 DEF TypeOK, PostRecord
  <2> QED
    BY <1>8, <2>3, <2>5 DEF LinkThread, TypeOK
<1>9. CASE PutRecord
  <2>0. cur \in Boards
    BY <1>9 DEF PutRecord, Busy
  <2> DEFINE r == [id |-> new.id, parent |-> new.parent, root |-> new.root,
                   dele |-> FALSE, replies |-> 0, off |-> new.off,
                   len |-> new.len]
  <2>1. r \in IndexRecord
    BY DEF TypeOK, PostRecord, IndexRecord
  <2>2. /\ idx' \in [Boards -> [RecNums -> IndexRecord]]
        /\ reu' \in [RecNums -> IndexRecord]
    BY <1>9, <2>0, <2>1, PutTyped DEF PutRecord
  <2> QED
    BY <1>9, <2>2 DEF PutRecord, TypeOK
<1>10. CASE SaveBoard
  <2>1. cur \in Boards
    BY <1>10 DEF SaveBoard, Busy
  <2>2. reu' \in [RecNums -> IndexRecord]
    BY <1>10, <2>1, LoadTyped DEF SaveBoard
  <2>3. DirAfterPost(loc) \in DirRecord
    BY DirAfterPostTyped DEF TypeOK
  <2>4. posts' \subseteq [board : Boards, id : 0..(MaxPerBoard + 1),
                          tag : Nat, parent : 0..(MaxPerBoard + 1),
                          len : 0..MaxLen]
    BY <1>10, <2>1 DEF SaveBoard, TypeOK, PostRecord
  <2> QED
    BY <1>10, <2>2, <2>3, <2>4, GiveUpTyped DEF SaveBoard, TypeOK
<1>11. CASE KillRecord
  <2>1. cur \in Boards /\ curMsg \in RecNums
    BY <1>11, <1>a DEF KillRecord, TypeOK
  <2>2. [Get(curMsg) EXCEPT !.dele = TRUE] \in IndexRecord
    BY <2>1, GetTyped, DeleTyped
  <2>3. /\ idx' \in [Boards -> [RecNums -> IndexRecord]]
        /\ reu' \in [RecNums -> IndexRecord]
    BY <1>11, <2>1, <2>2, PutTyped DEF KillRecord, TypeOK
  <2>4. curMsg' \in 0..(MaxPerBoard + 1)
    BY <1>11, <1>a DEF KillRecord, TypeOK
  <2>5. /\ pc' \in {"idle", "prune", "commit", "link", "put", "save", "kill"}
        /\ UNCHANGED <<txt, dir, cur, loc, new, scan, pruned, posts, sent>>
    BY <1>11 DEF KillRecord, TypeOK
  <2> QED
    BY <2>3, <2>4, <2>5 DEF TypeOK
<1>12. CASE KillSave
  <2>1. cur \in Boards
    BY <1>12 DEF KillSave, Busy
  <2>2. [dir[cur] EXCEPT !.count = OneLess(@)] \in DirRecord
    BY <2>1, OneLessTyped DEF TypeOK
  <2> QED
    BY <1>12, <1>a, <2>1, <2>2 DEF KillSave, TypeOK
<1>13. CASE DiskError
  <2>1. txt' \in [Boards -> Seq(Nat)]
    BY <1>13, PartialCommitTyped DEF DiskError, Busy, TypeOK
  <2> QED
    BY <1>13, <2>1, GiveUpTyped DEF DiskError, TypeOK
<1>14. CASE Crash
  <2>1. txt' \in [Boards -> Seq(Nat)]
    BY <1>14, PartialCommitTyped DEF Crash, Busy, TypeOK
  <2> QED
    BY <1>14, <1>a, <2>1, GiveUpTyped DEF Crash, TypeOK
<1>15. CASE UNCHANGED vars
  BY <1>15 DEF vars, disk, TypeOK
<1> QED
  BY <1>1, <1>2, <1>3, <1>4, <1>5, <1>6, <1>7, <1>8, <1>9, <1>10, <1>11,
     <1>12, <1>13, <1>14, <1>15 DEF Next

(* The initial values have their types.                                      *)
LEMMA InitTyped == Init => TypeOK /\ Busy
BY ConstantsTyped, MsgBaseAssumption, EmptySeq DEF Init, TypeOK, Busy, RecNums

(* The variables of the message base keep their types, whatever fails: no  *)
(* count, offset, number or reply counter leaves the range of its field,   *)
(* and every record is found where its number says.                        *)
THEOREM TypeCorrect == Spec => [](TypeOK /\ Busy)
<1>1. TypeOK /\ Busy /\ [Next]_vars => (TypeOK /\ Busy)'
  BY TypeStep, BusyStep
<1> QED
  BY InitTyped, <1>1, PTL DEF Spec

-----------------------------------------------------------------------------
(* Bank 0 and the disk.                                                      *)

(* A put changes the same record of both, whichever it is.                   *)
LEMMA PutMirrors ==
  ASSUME TypeOK, cur \in Boards, BankMirrorsIndex, UNCHANGED cur,
         NEW r \in IndexRecord, Put(r)
  PROVE  BankMirrorsIndex'
<1> SUFFICES ASSUME UseREU, NEW i \in 1..MaxPerBoard
             PROVE  reu'[i] = idx'[cur][i]
  BY DEF BankMirrorsIndex
<1>1. i \in RecNums
  BY MsgBaseAssumption DEF RecNums
<1>2. reu[i] = idx[cur][i]
  BY MsgBaseAssumption DEF BankMirrorsIndex
<1> QED
  BY <1>1, <1>2 DEF TypeOK, Put

(* A load that succeeds makes bank 0 the image of the board's index.         *)
LEMMA LoadMirrors ==
  ASSUME TypeOK, "load" \notin Faults, NEW b \in Boards, IndexLoad(b),
         cur' = b, UNCHANGED idx
  PROVE  BankMirrorsIndex'
<1>1. reu' = IF UseREU THEN Loaded(b, MaxPerBoard) ELSE reu
  BY DEF IndexLoad
<1>2. \A i \in 1..MaxPerBoard : i \in RecNums /\ i <= MaxPerBoard
  BY MsgBaseAssumption DEF RecNums
<1> QED
  BY <1>1, <1>2 DEF BankMirrorsIndex, Loaded

(* Every step that writes the index writes bank 0 as well.                   *)
LEMMA MirrorStep ==
  ASSUME TypeOK, Busy, BankMirrorsIndex, "load" \notin Faults, [Next]_vars
  PROVE  BankMirrorsIndex'
<1>u. UNCHANGED <<idx, reu, cur>> => BankMirrorsIndex'
  BY DEF BankMirrorsIndex
<1>z. cur' = 0 => BankMirrorsIndex'
  BY DEF BankMirrorsIndex
<1>1. ASSUME NEW b \in Boards, LoadBoard(b)
      PROVE  BankMirrorsIndex'
  BY <1>1, LoadMirrors DEF LoadBoard, disk
<1>2. CASE LeaveBoards
  BY <1>2, <1>z DEF LeaveBoards
<1>3. ASSUME NEW i \in RecNums, DisplayMsg(i)
      PROVE  BankMirrorsIndex'
  BY <1>3, <1>u DEF DisplayMsg, disk
<1>4. ASSUME NEW p \in RecNums \cup {0}, NEW len \in Lens, StartPost(p, len)
      PROVE  BankMirrorsIndex'
  BY <1>4, <1>u DEF StartPost, disk
<1>5. ASSUME NEW i \in RecNums, PruneRecord(i)
      PROVE  BankMirrorsIndex'
  <2>1. cur \in Boards /\ UNCHANGED cur
    BY <1>5 DEF PruneRecord, Busy
  <2>2. [Get(i) EXCEPT !.dele = TRUE] \in IndexRecord
    BY <2>1, GetTyped, DeleTyped
  <2> QED
    BY <1>5, <1>u, <2>1, <2>2, PutMirrors DEF PruneRecord
<1>6. CASE PruneSave \/ CommitBody \/ KillSave
  BY <1>6, <1>u DEF PruneSave, CommitBody, KillSave
<1>7. CASE LinkThread
  <2>1. cur \in Boards /\ UNCHANGED cur
    BY <1>7 DEF LinkThread, Busy
  <2>2. CASE new.parent # 0 /\ Put(CountReply(Get(new.parent)))
    <3>1. new.parent \in RecNums
      BY <2>2, MsgBaseAssumption DEF TypeOK, PostRecord, RecNums
    <3>2. CountReply(Get(new.parent)) \in IndexRecord
      BY <2>1, <3>1, GetTyped, CountReplyTyped
    <3> QED
      BY <2>1, <2>2, <3>2, PutMirrors
  <2>3. CASE UNCHANGED <<idx, reu>>
    BY <1>u, <2>1, <2>3
  <2> QED
    BY <1>7, <2>2, <2>3 DEF LinkThread
<1>8. CASE PutRecord
  <2> DEFINE r == [id |-> new.id, parent |-> new.parent, root |-> new.root,
                   dele |-> FALSE, replies |-> 0, off |-> new.off,
                   len |-> new.len]
  <2>1. cur \in Boards /\ UNCHANGED cur
    BY <1>8 DEF PutRecord, Busy
  <2>2. r \in IndexRecord
    BY DEF TypeOK, PostRecord, IndexRecord
  <2> QED
    BY <1>8, <2>1, <2>2, PutMirrors DEF PutRecord
<1>9. CASE SaveBoard
  <2>1. cur \in Boards
    BY <1>9 DEF SaveBoard, Busy
  <2> QED
    BY <1>9, <2>1, LoadMirrors DEF SaveBoard
<1>10. CASE KillRecord
  <2>1. cur \in Boards /\ curMsg \in RecNums /\ UNCHANGED cur
    BY <1>10, MsgBaseAssumption DEF KillRecord, TypeOK, RecNums
  <2>2. [Get(curMsg) EXCEPT !.dele = TRUE] \in IndexRecord
    BY <2>1, GetTyped, DeleTyped
  <2> QED
    BY <1>10, <1>u, <2>1, <2>2, PutMirrors DEF KillRecord
<1>11. CASE DiskError
  BY <1>11, <1>u DEF DiskError
<1>12. CASE Crash
  BY <1>12, <1>z DEF Crash
<1>13. CASE UNCHANGED vars
  BY <1>13, <1>u DEF vars, disk
<1> QED
  BY <1>1, <1>2, <1>3, <1>4, <1>5, <1>6, <1>7, <1>8, <1>9, <1>10, <1>11,
     <1>12, <1>13 DEF Next

(* As long as loads of bank 0 succeed, no crash, failed write or failed scan *)
(* makes what the caller is shown differ from what is on the disk.           *)
THEOREM BankIsCoherent ==
  ASSUME "load" \notin Faults
  PROVE  Spec => []BankMirrorsIndex
<1>1. Init => BankMirrorsIndex
  BY DEF Init, BankMirrorsIndex
<1>2. TypeOK /\ Busy /\ BankMirrorsIndex /\ [Next]_vars => BankMirrorsIndex'
  BY MirrorStep
<1> QED
  BY <1>1, <1>2, TypeCorrect, PTL DEF Spec

-----------------------------------------------------------------------------
(* The index: numbers, threads and text, write by write.                    *)


(* The program looks at neither the result of a scan of the index nor that  *)
(* of a load of bank 0; what follows is about runs in which both work.      *)
ReadsWork == "load" \notin Faults /\ "scan" \notin Faults

(* The room the figures of a record have.  Nothing in the program keeps a   *)
(* board within it; the theorems below say what holds for as long as it is. *)
TextFits == \A b \in Boards : \A i \in RecNums :
              idx[b][i].off + idx[b][i].len < Word

RepliesFit == \A b \in Boards : \A i \in RecNums : idx[b][i].replies < 255

InRoom == IndexIsBounded /\ TextFits /\ RepliesFit

(* The numbers in use of a board are 1, 2, ..., without a gap, and record i *)
(* has number i.                                                            *)
Dense ==
  \A b \in Boards : \A i \in RecNums :
    /\ idx[b][i].id \in {0, i}
    /\ idx[b][i].id # 0 => \A j \in 1..(i - 1) : idx[b][j].id # 0
    /\ idx[b][i].id = 0 => idx[b][i] = Absent

(* The slot of bank 0 that no load touches is free.                         *)
TopFree == UseREU => reu[MaxPerBoard + 1].id = 0

(* The message on display and the message replied to are on the board.      *)
ShownKnown == cur # 0 /\ curMsg # 0 => idx[cur][curMsg].id # 0

ParentKnown ==
  pc \in {"prune", "commit", "link", "put"} /\ new.parent # 0
    => idx[cur][new.parent].id # 0

(* A number, once chosen, is the next one, and the root is the thread's.    *)
Numbered ==
  pc = "put" =>
    /\ new.id \in RecNums
    /\ idx[cur][new.id].id = 0
    /\ \A j \in 1..(new.id - 1) : idx[cur][j].id # 0
    /\ new.root = IF new.parent = 0 THEN new.id ELSE idx[cur][new.parent].root

IndexInv ==
  /\ TypeOK /\ Busy /\ BankMirrorsIndex
  /\ Dense /\ TopFree /\ ShownKnown /\ ParentKnown /\ Numbered

(* What the constants are.                                                   *)
LEMMA Sizes ==
  /\ MaxPerBoard \in Nat /\ MaxPerBoard >= 1
  /\ MaxLen \in Nat /\ Word \in Nat /\ Word >= 1
  /\ RecNums = 1..(MaxPerBoard + 1)
BY MsgBaseAssumption DEF RecNums

(* The fields of an index record.                                            *)
LEMMA FieldsTyped ==
  ASSUME TypeOK, NEW b \in Boards, NEW i \in RecNums
  PROVE  /\ idx[b][i] \in IndexRecord
         /\ idx[b][i].id \in Nat /\ idx[b][i].parent \in Nat
         /\ idx[b][i].root \in Nat /\ idx[b][i].dele \in BOOLEAN
         /\ idx[b][i].replies \in Nat /\ idx[b][i].off \in Nat
         /\ idx[b][i].len \in Nat
<1>1. idx[b][i] \in IndexRecord
  BY DEF TypeOK
<1>2. /\ idx[b][i].id \in 0..(MaxPerBoard + 1)
      /\ idx[b][i].parent \in 0..(MaxPerBoard + 1)
      /\ idx[b][i].root \in 0..(MaxPerBoard + 1)
      /\ idx[b][i].dele \in BOOLEAN
      /\ idx[b][i].replies \in 0..255
      /\ idx[b][i].off \in 0..(Word - 1) /\ idx[b][i].len \in 0..MaxLen
  BY <1>1 DEF IndexRecord
<1>3. /\ 0..(MaxPerBoard + 1) \subseteq Nat /\ 0..255 \subseteq Nat
      /\ 0..(Word - 1) \subseteq Nat /\ 0..MaxLen \subseteq Nat
  BY Sizes
<1> QED
  BY <1>1, <1>2, <1>3, Zenon

(* The fields of the message in work.                                        *)
LEMMA NewTyped ==
  ASSUME TypeOK
  PROVE  /\ new.id \in 0..(MaxPerBoard + 1)
         /\ new.parent \in 0..(MaxPerBoard + 1)
         /\ new.root \in 0..(MaxPerBoard + 1)
         /\ new.off \in Nat /\ new.len \in Nat /\ new.tag \in Nat
BY Sizes DEF TypeOK, PostRecord

(* A record that exists is read as it is on the disk.                       *)
LEMMA GetIsDisk ==
  ASSUME TypeOK, cur \in Boards, IndexIsBounded, BankMirrorsIndex, TopFree,
         NEW i \in RecNums, Get(i).id # 0 \/ idx[cur][i].id # 0
  PROVE  i \in 1..MaxPerBoard /\ Get(i) = idx[cur][i]
<1>1. i # MaxPerBoard + 1
  BY DEF Get, IndexIsBounded, TopFree
<1>2. i \in 1..MaxPerBoard
  BY <1>1, Sizes
<1>3. cur # 0
  BY MsgBaseAssumption
<1> QED
  BY <1>2, <1>3 DEF Get, BankMirrorsIndex

(* The four things a step may do to the index.                              *)
Marks(i) ==
  /\ cur \in Boards
  /\ i \in 1..MaxPerBoard
  /\ IsLive(idx[cur][i])
  /\ idx' = [idx EXCEPT ![cur][i] = [idx[cur][i] EXCEPT !.dele = TRUE]]

Counts ==
  /\ cur \in Boards
  /\ pc = "link" /\ pc' = "put"
  /\ new.parent \in 1..MaxPerBoard
  /\ idx[cur][new.parent].id # 0
  /\ idx' = [idx EXCEPT ![cur][new.parent] = CountReply(idx[cur][new.parent])]

NewRecord ==
  [id |-> new.id, parent |-> new.parent, root |-> new.root, dele |-> FALSE,
   replies |-> 0, off |-> new.off, len |-> new.len]

Adds ==
  /\ cur \in Boards
  /\ pc = "put" /\ pc' = "save"
  /\ new.id \in 1..MaxPerBoard
  /\ idx' = [idx EXCEPT ![cur][new.id] = NewRecord]

(* The pruning loop marks one record that is in view, or writes nothing.     *)
LEMMA PruneMarks ==
  ASSUME IndexInv, IndexIsBounded, NEW i \in RecNums, PruneRecord(i)
  PROVE  (Marks(i) /\ Put([Get(i) EXCEPT !.dele = TRUE])) \/ UNCHANGED <<idx, reu>>
<1> USE DEF IndexInv
<1>1. cur \in Boards /\ i \in scan..MaxPerBoard /\ IsLive(Get(i))
  BY DEF PruneRecord, NextToPrune, Prunable, Busy
<1>2. i \in 1..MaxPerBoard /\ Get(i) = idx[cur][i]
  BY <1>1, GetIsDisk DEF IsLive
<1>3. idx[cur][i].id = i
  BY <1>1, <1>2 DEF Dense, IsLive
<1>4. [idx[cur][i] EXCEPT !.dele = TRUE].id = i
  BY <1>1, <1>3, FieldsTyped DEF IndexRecord
<1> QED
  BY <1>1, <1>2, <1>4 DEF PruneRecord, Put, Marks

(* So does a kill.                                                           *)
LEMMA KillMarks ==
  ASSUME IndexInv, IndexIsBounded, KillRecord
  PROVE  \/ Marks(curMsg) /\ pc' = "kill" /\ Put([Get(curMsg) EXCEPT !.dele = TRUE])
         \/ UNCHANGED <<idx, reu, pc>> /\ curMsg' = 0
<1> USE DEF IndexInv
<1>1. cur \in Boards /\ curMsg \in RecNums
  BY Sizes DEF KillRecord, TypeOK
<1>2. CASE IsLive(Get(curMsg)) /\ Put([Get(curMsg) EXCEPT !.dele = TRUE])
           /\ pc' = "kill"
  <2>1. curMsg \in 1..MaxPerBoard /\ Get(curMsg) = idx[cur][curMsg]
    BY <1>1, <1>2, GetIsDisk DEF IsLive
  <2>2. idx[cur][curMsg].id = curMsg
    BY <1>1, <1>2, <2>1 DEF Dense, IsLive
  <2>3. [idx[cur][curMsg] EXCEPT !.dele = TRUE].id = curMsg
    BY <1>1, <2>2, FieldsTyped DEF IndexRecord
  <2> QED
    BY <1>1, <1>2, <2>1, <2>3 DEF Put, Marks
<1> QED
  BY <1>2 DEF KillRecord

(* The parent is there, so a reply is counted and joins its thread.         *)
LEMMA LinkCounts ==
  ASSUME IndexInv, IndexIsBounded, LinkThread
  PROVE  /\ ~Orphaned
         /\ new.parent # 0 => new.parent \in 1..MaxPerBoard
                              /\ Get(new.parent) = idx[cur][new.parent]
         /\ \/ Counts /\ Put(CountReply(Get(new.parent)))
            \/ UNCHANGED <<idx, reu>>
<1> USE DEF IndexInv
<1>1. cur \in Boards /\ pc = "link" /\ pc' = "put"
  BY DEF LinkThread, Busy
<1>2. ASSUME new.parent # 0
      PROVE  /\ new.parent \in 1..MaxPerBoard
             /\ Get(new.parent) = idx[cur][new.parent]
             /\ idx[cur][new.parent].id = new.parent
  <2>1. new.parent \in RecNums
    BY <1>2, NewTyped, Sizes
  <2>2. idx[cur][new.parent].id # 0
    BY <1>1, <1>2 DEF ParentKnown
  <2> QED
    BY <1>1, <2>1, <2>2, GetIsDisk DEF Dense
<1>3. ~Orphaned
  BY <1>2 DEF Orphaned
<1>4. ASSUME new.parent # 0, Put(CountReply(Get(new.parent)))
      PROVE  Counts
  <2>1. CountReply(idx[cur][new.parent]).id = new.parent
    BY <1>1, <1>2, <1>4, Sizes, FieldsTyped DEF CountReply, IndexRecord
  <2> QED
    BY <1>1, <1>2, <1>4, <2>1 DEF Put, Counts
<1> QED
  BY <1>2, <1>3, <1>4 DEF LinkThread

(* The new record goes to a number that is not in use.                       *)
LEMMA PutAdds ==
  ASSUME IndexInv, IndexIsBounded', PutRecord
  PROVE  Adds /\ Put(NewRecord)
<1> USE DEF IndexInv
<1>1. cur \in Boards /\ pc = "put" /\ pc' = "save" /\ new.id \in RecNums
  BY DEF PutRecord, Busy, Numbered
<1>2. Put(NewRecord) /\ NewRecord.id = new.id
  BY DEF PutRecord, NewRecord
<1>3. idx' = [idx EXCEPT ![cur][new.id] = NewRecord]
  BY <1>2 DEF Put
<1>4. idx'[cur][new.id] = NewRecord
  BY <1>1, <1>3 DEF TypeOK
<1>5. new.id # MaxPerBoard + 1
  BY <1>1, <1>2, <1>4, Sizes DEF IndexIsBounded
<1> QED
  BY <1>1, <1>2, <1>3, <1>5, Sizes DEF Adds

(* The four things a step can do to the index.                               *)
LEMMA IndexStep ==
  ASSUME IndexInv, IndexIsBounded, IndexIsBounded', [Next]_vars
  PROVE  UNCHANGED idx \/ (\E i \in RecNums : Marks(i)) \/ Counts \/ Adds
<1>1. ASSUME NEW i \in RecNums, PruneRecord(i)
      PROVE  Marks(i) \/ UNCHANGED idx
  BY <1>1, PruneMarks
<1>2. CASE KillRecord
  <2>1. curMsg \in RecNums \/ UNCHANGED idx
    BY <1>2, KillMarks, Sizes DEF Marks
  <2> QED
    BY <1>2, <2>1, KillMarks
<1>3. CASE LinkThread
  BY <1>3, LinkCounts
<1>4. CASE PutRecord
  BY <1>4, PutAdds
<1>5. CASE (\E b \in Boards : LoadBoard(b)) \/ LeaveBoards
           \/ (\E i \in RecNums : DisplayMsg(i))
  BY <1>5 DEF LoadBoard, LeaveBoards, DisplayMsg, disk
<1>6. CASE \E p \in RecNums \cup {0}, len \in Lens : StartPost(p, len)
  BY <1>6 DEF StartPost, disk
<1>7. CASE PruneSave \/ CommitBody \/ SaveBoard \/ KillSave \/ DiskError \/ Crash
  BY <1>7 DEF PruneSave, CommitBody, SaveBoard, KillSave, DiskError, Crash
<1>8. CASE UNCHANGED vars
  BY <1>8 DEF vars, disk
<1> QED
  BY <1>1, <1>2, <1>3, <1>4, <1>5, <1>6, <1>7, <1>8 DEF Next

-----------------------------------------------------------------------------
(* A record that is there keeps what it says; its mark is only set and its  *)
(* replies only grow.                                                       *)
Kept(r, s) ==
  /\ s.id = r.id /\ s.parent = r.parent /\ s.root = r.root
  /\ s.off = r.off /\ s.len = r.len

(* What a step does to one record: a record in use keeps everything but its  *)
(* deletion mark and counter, a free one stays or becomes the new message.   *)
LEMMA RecordStep ==
  ASSUME IndexInv, IndexIsBounded, IndexIsBounded', [Next]_vars,
         NEW b \in Boards, NEW i \in RecNums
  PROVE  /\ idx[b][i].id # 0 => Kept(idx[b][i], idx'[b][i])
         /\ idx[b][i].id # 0 /\ idx[b][i].dele => idx'[b][i].dele
         /\ \/ idx[b][i].id # 0
            \/ idx'[b][i] = idx[b][i]
            \/ Adds /\ b = cur /\ i = new.id /\ idx'[b][i] = NewRecord
<1> USE DEF IndexInv
<1>0. /\ idx \in [Boards -> [RecNums -> IndexRecord]]
      /\ idx[b][i] \in IndexRecord
      /\ RecNums = 1..(MaxPerBoard + 1) /\ MaxPerBoard \in Nat
  BY FieldsTyped, Sizes DEF TypeOK
<1>1. CASE UNCHANGED idx
  BY <1>1 DEF Kept
<1>2. ASSUME NEW k \in RecNums, Marks(k)
      PROVE  /\ Kept(idx[b][i], idx'[b][i])
             /\ idx[b][i].dele => idx'[b][i].dele
             /\ idx[b][i].id # 0 \/ idx'[b][i] = idx[b][i]
  <2>1. CASE b = cur /\ i = k
    BY <1>0, <1>2, <2>1 DEF Marks, IsLive, Kept, IndexRecord
  <2>2. CASE ~(b = cur /\ i = k)
    BY <1>0, <1>2, <2>2 DEF Marks, Kept
  <2> QED
    BY <2>1, <2>2
<1>3. ASSUME Counts
      PROVE  /\ Kept(idx[b][i], idx'[b][i])
             /\ idx[b][i].dele => idx'[b][i].dele
             /\ idx[b][i].id # 0 \/ idx'[b][i] = idx[b][i]
  <2>0. new.parent \in RecNums
    BY <1>0, <1>3 DEF Counts
  <2>1. CASE b = cur /\ i = new.parent
    <3>1. idx'[b][i] = CountReply(idx[b][i])
      BY <1>0, <1>3, <2>0, <2>1 DEF Counts
    <3> QED
      BY <1>0, <1>3, <2>1, <3>1 DEF Counts, CountReply, Kept, IndexRecord
  <2>2. CASE ~(b = cur /\ i = new.parent)
    BY <1>0, <1>3, <2>0, <2>2 DEF Counts, Kept
  <2> QED
    BY <2>1, <2>2
<1>4. ASSUME Adds
      PROVE  /\ idx[b][i].id # 0 => idx'[b][i] = idx[b][i]
             /\ idx'[b][i] # idx[b][i] =>
                   b = cur /\ i = new.id /\ idx'[b][i] = NewRecord
  <2>0. new.id \in RecNums /\ idx[cur][new.id].id = 0
    BY <1>0, <1>4 DEF Adds, Numbered
  <2> QED
    BY <1>0, <1>4, <2>0 DEF Adds
<1>5. UNCHANGED idx \/ (\E k \in RecNums : Marks(k)) \/ Counts \/ Adds
  BY IndexStep
<1> QED
  BY <1>1, <1>2, <1>3, <1>4, <1>5 DEF Kept

(* A record that was added or is there stays there.                         *)
LEMMA KnownStays ==
  ASSUME IndexInv, IndexIsBounded, IndexIsBounded', [Next]_vars,
         NEW b \in Boards, NEW i \in RecNums, idx[b][i].id # 0
  PROVE  idx'[b][i].id # 0
BY RecordStep DEF Kept

(* The numbers stay without a gap.                                           *)
LEMMA DenseStep ==
  ASSUME IndexInv, IndexIsBounded, IndexIsBounded', [Next]_vars
  PROVE  Dense'
<1> SUFFICES ASSUME NEW b \in Boards, NEW i \in RecNums
             PROVE  /\ idx'[b][i].id \in {0, i}
                    /\ idx'[b][i].id # 0 =>
                         \A j \in 1..(i - 1) : idx'[b][j].id # 0
                    /\ idx'[b][i].id = 0 => idx'[b][i] = Absent
  BY DEF Dense
<1> DEFINE r == idx[b][i]  s == idx'[b][i]
<1>0. \A j \in 1..(i - 1) : j \in RecNums
  BY Sizes
<1>1. r.id \in {0, i} /\ (r.id = 0 => r = Absent)
      /\ (r.id # 0 => \A j \in 1..(i - 1) : idx[b][j].id # 0)
  BY DEF IndexInv, Dense
<1>2. CASE r.id # 0
  <2>1. s.id = r.id
    BY <1>2, RecordStep DEF Kept
  <2>2. \A j \in 1..(i - 1) : idx'[b][j].id # 0
    BY <1>0, <1>1, <1>2, KnownStays
  <2> QED
    BY <1>1, <1>2, <2>1, <2>2
<1>3. CASE s = r
  <2>1. \A j \in 1..(i - 1) : idx[b][j].id # 0 => idx'[b][j].id # 0
    BY <1>0, KnownStays
  <2> QED
    BY <1>1, <1>3, <2>1
<1>4. CASE Adds /\ b = cur /\ i = new.id /\ s = NewRecord
  <2>1. s.id = i /\ i # 0
    BY <1>4, Sizes DEF NewRecord
  <2>2. \A j \in 1..(i - 1) : idx'[b][j].id # 0
    BY <1>0, <1>4, KnownStays DEF IndexInv, Numbered, Adds
  <2> QED
    BY <2>1, <2>2
<1> QED
  BY <1>2, <1>3, <1>4, RecordStep

(* The free slot of bank 0 stays free.                                      *)
LEMMA PutTop ==
  ASSUME TypeOK, TopFree, NEW r \in IndexRecord, r.id # MaxPerBoard + 1, Put(r)
  PROVE  TopFree'
BY Sizes DEF TopFree, Put, TypeOK

(* A load of bank 0 leaves the slot behind the last record alone.            *)
LEMMA LoadTop ==
  ASSUME TypeOK, TopFree, NEW b \in Boards, IndexLoad(b)
  PROVE  TopFree'
<1>1. \A k \in 0..MaxPerBoard :
        Loaded(b, k)[MaxPerBoard + 1] = reu[MaxPerBoard + 1]
  BY Sizes DEF Loaded
<1> QED
  BY <1>1, Sizes DEF TopFree, IndexLoad

(* That slot stays free.                                                     *)
LEMMA TopFreeStep ==
  ASSUME IndexInv, IndexIsBounded, IndexIsBounded', [Next]_vars
  PROVE  TopFree'
<1> USE DEF IndexInv
<1>u. UNCHANGED reu => TopFree'
  BY DEF TopFree
<1>m. ASSUME NEW i, Marks(i), Put([Get(i) EXCEPT !.dele = TRUE])
      PROVE  TopFree'
  <2>1. cur \in Boards /\ i \in RecNums /\ i \in 1..MaxPerBoard
    BY <1>m, Sizes DEF Marks
  <2>2. Get(i) = idx[cur][i] /\ idx[cur][i].id = i
    BY <1>m, <2>1, GetIsDisk DEF Marks, IsLive, Dense
  <2>3. /\ [idx[cur][i] EXCEPT !.dele = TRUE] \in IndexRecord
        /\ [idx[cur][i] EXCEPT !.dele = TRUE].id = i
    <3>1. idx[cur][i] \in IndexRecord
      BY <2>1, FieldsTyped
    <3> QED
      BY <2>2, <3>1, DeleTyped DEF IndexRecord
  <2>4. i # MaxPerBoard + 1
    BY <2>1, Sizes
  <2> QED
    BY <1>m, <2>2, <2>3, <2>4, PutTop
<1>1. ASSUME NEW b \in Boards, LoadBoard(b)
      PROVE  TopFree'
  BY <1>1, LoadTop DEF LoadBoard
<1>2. CASE SaveBoard
  BY <1>2, LoadTop DEF SaveBoard, Busy
<1>3. ASSUME NEW i \in RecNums, PruneRecord(i)
      PROVE  TopFree'
  BY <1>3, <1>u, <1>m, PruneMarks
<1>4. CASE KillRecord
  BY <1>4, <1>u, <1>m, KillMarks
<1>5. CASE LinkThread
  <2>1. CASE Counts /\ Put(CountReply(Get(new.parent)))
    <3>1. cur \in Boards /\ new.parent \in RecNums /\ new.parent # 0
          /\ new.parent # MaxPerBoard + 1
      BY <2>1, Sizes DEF Counts
    <3>2. Get(new.parent) = idx[cur][new.parent]
          /\ idx[cur][new.parent].id = new.parent
      BY <1>5, <2>1, <3>1, LinkCounts DEF Dense, Counts
    <3>3. CountReply(Get(new.parent)) \in IndexRecord
      BY <3>1, <3>2, FieldsTyped, CountReplyTyped
    <3>4. CountReply(Get(new.parent)).id = new.parent
      BY <3>1, <3>2, FieldsTyped DEF CountReply, IndexRecord
    <3> QED
      BY <2>1, <3>1, <3>3, <3>4, PutTop
  <2> QED
    BY <1>5, <1>u, <2>1, LinkCounts
<1>6. CASE PutRecord
  <2>1. Put(NewRecord) /\ new.id # MaxPerBoard + 1
    BY <1>6, PutAdds, Sizes DEF Adds
  <2>2. NewRecord \in IndexRecord /\ NewRecord.id = new.id
    BY DEF NewRecord, TypeOK, PostRecord, IndexRecord
  <2> QED
    BY <2>1, <2>2, PutTop
<1>7. CASE LeaveBoards \/ (\E i \in RecNums : DisplayMsg(i))
  BY <1>7, <1>u DEF LeaveBoards, DisplayMsg
<1>8. CASE \E p \in RecNums \cup {0}, len \in Lens : StartPost(p, len)
  BY <1>8, <1>u DEF StartPost
<1>9. CASE PruneSave \/ CommitBody \/ KillSave \/ DiskError \/ Crash
  BY <1>9, <1>u DEF PruneSave, CommitBody, KillSave, DiskError, Crash
<1>10. CASE UNCHANGED vars
  BY <1>10, <1>u DEF vars
<1> QED
  BY <1>1, <1>2, <1>3, <1>4, <1>5, <1>6, <1>7, <1>8, <1>9, <1>10 DEF Next

(* The number msg_next_id finds is the first that is free.                  *)
LEMMA NextIdIsFree ==
  ASSUME TypeOK, Dense, IndexIsBounded, NEW b \in Boards, NEW id \in RecNums,
         IsNextId(b, MaxPerBoard, id)
  PROVE  idx[b][id].id = 0 /\ \A j \in 1..(id - 1) : idx[b][j].id # 0
<1> DEFINE S == {idx[b][i].id : i \in Scanned(b, MaxPerBoard)}
<1>0. /\ id \in 1..(MaxPerBoard + 1) /\ MaxPerBoard \in Nat
      /\ MaxPerBoard >= 1
      /\ \A j \in 1..MaxPerBoard : j \in RecNums
      /\ \A j \in 1..(id - 1) : j \in RecNums
      /\ MaxPerBoard + 1 \in RecNums
  BY Sizes
<1>1. \A j \in 1..MaxPerBoard :
        idx[b][j].id # 0 => idx[b][j].id = j /\ j \in S
  BY <1>0 DEF Dense, Scanned
<1>2. \A x \in S : x \in 1..MaxPerBoard /\ idx[b][x].id # 0
  BY <1>0 DEF Dense, Scanned
<1>3. IsMax(id - 1, S)
  BY DEF IsNextId
<1>4. \A x \in S : x <= id - 1
  BY <1>3 DEF IsMax
<1>5. idx[b][id].id = 0
  <2>1. CASE id = MaxPerBoard + 1
    BY <2>1 DEF IndexIsBounded
  <2>2. CASE id # MaxPerBoard + 1
    <3>1. id \in 1..MaxPerBoard
      BY <1>0, <2>2
    <3>2. id \notin S
      <4>1. ~(id <= id - 1)
        BY <1>0
      <4> QED
        BY <1>4, <4>1, Zenon
    <3> QED
      BY <1>1, <3>1, <3>2
  <2> QED
    BY <2>1, <2>2
<1>6. CASE S = {}
  <2>1. id - 1 = 0
    BY <1>3, <1>6 DEF IsMax
  <2> QED
    BY <1>0, <1>5, <2>1
<1>7. CASE S # {}
  <2>1. id - 1 \in S
    BY <1>3, <1>7 DEF IsMax
  <2>2. id - 1 \in RecNums /\ idx[b][id - 1].id # 0
    BY <1>0, <1>2, <2>1
  <2>3. \A j \in 1..((id - 1) - 1) : idx[b][j].id # 0
    BY <2>2 DEF Dense
  <2> QED
    BY <1>0, <1>5, <2>2, <2>3
<1> QED
  BY <1>6, <1>7

(* What a step does to the board entered and the message on display, and    *)
(* when an operation starts, goes on and chooses a number.                  *)
LEMMA CallerStep ==
  ASSUME [Next]_vars
  PROVE  \/ cur' = cur /\ curMsg' = curMsg
         \/ curMsg' = 0 /\ pc' = "idle"
         \/ UNCHANGED <<cur, pc, idx>> /\ \E i \in RecNums : DisplayMsg(i)
<1>1. CASE \E b \in Boards : LoadBoard(b)
  BY <1>1 DEF LoadBoard
<1>2. CASE LeaveBoards \/ (\E i \in RecNums : DisplayMsg(i))
  BY <1>2 DEF LeaveBoards, DisplayMsg, disk
<1>3. CASE \E p \in RecNums \cup {0}, len \in Lens : StartPost(p, len)
  BY <1>3 DEF StartPost
<1>4. CASE (\E i \in RecNums : PruneRecord(i)) \/ PruneSave
  BY <1>4 DEF PruneRecord, PruneSave
<1>5. CASE CommitBody \/ LinkThread \/ PutRecord \/ SaveBoard
  BY <1>5 DEF CommitBody, LinkThread, PutRecord, SaveBoard
<1>6. CASE KillRecord \/ KillSave
  BY <1>6 DEF KillRecord, KillSave
<1>7. CASE DiskError \/ Crash
  BY <1>7 DEF DiskError, Crash, GiveUp
<1>8. CASE UNCHANGED vars
  BY <1>8 DEF vars
<1> QED
  BY <1>1, <1>2, <1>3, <1>4, <1>5, <1>6, <1>7, <1>8 DEF Next

(* Where a message in work comes from.                                       *)
LEMMA PostingStep ==
  ASSUME [Next]_vars, pc' \in {"prune", "commit", "link", "put"}
  PROVE  /\ cur' = cur
         /\ \/ /\ pc \in {"prune", "commit", "link", "put"}
               /\ new'.parent = new.parent
            \/ /\ UNCHANGED idx
               /\ \E p \in {0, curMsg} : new'.parent = p
               /\ pc = "idle" /\ cur # 0
         /\ pc' = "put" => LinkThread \/ UNCHANGED vars
<1>1. CASE \E b \in Boards : LoadBoard(b)
  BY <1>1 DEF LoadBoard
<1>2. CASE LeaveBoards \/ (\E i \in RecNums : DisplayMsg(i))
  BY <1>2 DEF LeaveBoards, DisplayMsg
<1>3. CASE \E p \in RecNums \cup {0}, len \in Lens : StartPost(p, len)
  <2>1. PICK p \in RecNums \cup {0}, len \in Lens : StartPost(p, len)
    BY <1>3
  <2>2. new' = [NoPost EXCEPT !.tag = sent + 1, !.parent = p, !.len = len]
    BY <2>1 DEF StartPost, Admit, Refuse, GiveUp
  <2>3. new'.parent = p
    BY <2>2 DEF NoPost
  <2>4. pc' # "put"
    BY <2>1 DEF StartPost, Admit, Refuse, GiveUp
  <2> QED
    BY <2>1, <2>3, <2>4 DEF StartPost, disk
<1>4. CASE \E i \in RecNums : PruneRecord(i)
  BY <1>4 DEF PruneRecord
<1>5. CASE PruneSave
  BY <1>5 DEF PruneSave, Admit, Refuse, GiveUp
<1>6. CASE CommitBody
  <2>1. PICK off : new' = [new EXCEPT !.off = off]
    BY <1>6 DEF CommitBody
  <2>2. new'.parent = new.parent
    BY <2>1
  <2> QED
    BY <1>6, <2>2 DEF CommitBody
<1>7. CASE LinkThread
  <2>1. PICK id : new' = [new EXCEPT !.id = id, !.root = RootOf(id)]
    BY <1>7 DEF LinkThread
  <2>2. new'.parent = new.parent
    BY <2>1
  <2> QED
    BY <1>7, <2>2 DEF LinkThread
<1>8. CASE PutRecord \/ SaveBoard \/ KillRecord \/ KillSave
  BY <1>8 DEF PutRecord, SaveBoard, KillRecord, KillSave, GiveUp
<1>9. CASE DiskError \/ Crash
  BY <1>9 DEF DiskError, Crash, GiveUp
<1>10. CASE UNCHANGED vars
  BY <1>10 DEF vars
<1> QED
  BY <1>1, <1>2, <1>3, <1>4, <1>5, <1>6, <1>7, <1>8, <1>9, <1>10 DEF Next

(* The message on display stays in the index.                                *)
LEMMA ShownStep ==
  ASSUME IndexInv, IndexIsBounded, IndexIsBounded', [Next]_vars
  PROVE  ShownKnown'
<1> USE DEF IndexInv
<1> SUFFICES ASSUME cur' # 0, curMsg' # 0
             PROVE  idx'[cur'][curMsg'].id # 0
  BY DEF ShownKnown
<1>1. CASE cur' = cur /\ curMsg' = curMsg
  <2>1. cur \in Boards /\ curMsg \in RecNums /\ idx[cur][curMsg].id # 0
    BY <1>1, Sizes DEF TypeOK, ShownKnown
  <2> QED
    BY <1>1, <2>1, KnownStays
<1>2. ASSUME UNCHANGED <<cur, pc, idx>>, NEW i \in RecNums, DisplayMsg(i)
      PROVE  idx'[cur'][curMsg'].id # 0
  <2>1. cur \in Boards /\ IsLive(Get(i)) /\ curMsg' = i
    BY <1>2 DEF DisplayMsg, TypeOK
  <2>2. Get(i) = idx[cur][i]
    BY <2>1, GetIsDisk DEF IsLive
  <2> QED
    BY <1>2, <2>1, <2>2 DEF IsLive
<1> QED
  BY <1>1, <1>2, CallerStep

(* So does the message replied to.                                           *)
LEMMA ParentStep ==
  ASSUME IndexInv, IndexIsBounded, IndexIsBounded', [Next]_vars
  PROVE  ParentKnown'
<1> USE DEF IndexInv
<1> SUFFICES ASSUME pc' \in {"prune", "commit", "link", "put"},
                    new'.parent # 0
             PROVE  idx'[cur'][new'.parent].id # 0
  BY DEF ParentKnown
<1>1. CASE pc \in {"prune", "commit", "link", "put"}
           /\ new'.parent = new.parent
  <2>1. cur \in Boards /\ new.parent \in RecNums
        /\ idx[cur][new.parent].id # 0
    BY <1>1, NewTyped, Sizes DEF Busy, ParentKnown
  <2> QED
    BY <1>1, <2>1, KnownStays, PostingStep
<1>2. CASE UNCHANGED idx /\ new'.parent = curMsg /\ cur # 0
  BY <1>2, PostingStep DEF ShownKnown
<1> QED
  BY <1>1, <1>2, PostingStep

(* The number and root that are chosen are right when the record is written. *)
LEMMA NumberedStep ==
  ASSUME ReadsWork, IndexInv, IndexIsBounded, IndexIsBounded', [Next]_vars
  PROVE  Numbered'
<1> USE DEF IndexInv
<1> SUFFICES ASSUME pc' = "put", LinkThread
             PROVE  Numbered'
  <2>1. UNCHANGED vars => Numbered'
    BY DEF vars, Numbered
  <2> QED
    BY <2>1, PostingStep DEF Numbered
<1>0. cur \in Boards /\ cur' = cur
  BY DEF LinkThread, Busy
<1>1. PICK id \in RecNums :
        /\ IsNextId(cur, MaxPerBoard, id)
        /\ new' = [new EXCEPT !.id = id, !.root = RootOf(id)]
  BY DEF LinkThread, ScanLengths, ReadsWork
<1>2. idx[cur][id].id = 0 /\ \A j \in 1..(id - 1) : idx[cur][j].id # 0
  BY <1>0, <1>1, NextIdIsFree
<1>3. /\ new'.id = id /\ new'.parent = new.parent
      /\ new'.root = RootOf(id)
  BY <1>1 DEF TypeOK, PostRecord
<1>4. idx'[cur][id].id = 0
  <2>1. pc # "put"
    BY DEF LinkThread
  <2> QED
    BY <1>0, <1>2, <2>1, RecordStep DEF Adds
<1>5. \A j \in 1..(id - 1) : idx'[cur][j].id # 0
  <2>1. \A j \in 1..(id - 1) : j \in RecNums
    BY Sizes
  <2> QED
    BY <1>0, <1>2, <2>1, KnownStays
<1>6. RootOf(id) = IF new.parent = 0 THEN id ELSE idx'[cur][new.parent].root
  <2>1. CASE new.parent = 0
    BY <2>1 DEF RootOf
  <2>2. CASE new.parent # 0
    <3>1. RootOf(id) = idx[cur][new.parent].root
      BY <2>2, LinkCounts DEF RootOf
    <3>2. new.parent \in RecNums /\ idx[cur][new.parent].id # 0
      BY <2>2, NewTyped, Sizes DEF ParentKnown, LinkThread
    <3> QED
      BY <1>0, <2>2, <3>1, <3>2, RecordStep DEF Kept
  <2> QED
    BY <2>1, <2>2
<1> QED
  BY <1>0, <1>1, <1>3, <1>4, <1>5, <1>6 DEF Numbered

(* The invariant of the index holds at first.                                *)
LEMMA IndexInit == Init => IndexInv
<1>1. Init => TypeOK /\ Busy
  BY InitTyped
<1>2. Init => BankMirrorsIndex /\ ShownKnown /\ ParentKnown /\ Numbered
  BY DEF Init, BankMirrorsIndex, ShownKnown, ParentKnown, Numbered
<1>3. Init => Dense
  BY DEF Init, Dense, Absent
<1>4. Init => TopFree
  BY Sizes DEF Init, TopFree, Absent
<1> QED
  BY <1>1, <1>2, <1>3, <1>4 DEF IndexInv

(* And every step keeps it.                                                  *)
LEMMA IndexInvStep ==
  ASSUME ReadsWork, IndexInv, IndexIsBounded, IndexIsBounded', [Next]_vars
  PROVE  IndexInv'
<1>1. TypeOK' /\ Busy' /\ BankMirrorsIndex'
  BY TypeStep, BusyStep, MirrorStep DEF IndexInv, ReadsWork
<1> QED
  BY <1>1, DenseStep, TopFreeStep, ShownStep, ParentStep, NumberedStep
  DEF IndexInv

-----------------------------------------------------------------------------
(* Threads.                                                                 *)

(* The place of a record in a thread, and that of a root that can be found. *)
InThread(b, i) ==
  LET r == idx[b][i]
  IN  /\ r.root \in RecNums
      /\ r.parent = 0 => r.root = i
      /\ r.parent # 0 =>
           /\ r.parent < i
           /\ idx[b][r.parent].id # 0
           /\ r.root = idx[b][r.parent].root
      /\ r.root <= i
      /\ idx[b][r.root].id # 0
      /\ idx[b][r.root].root = r.root

Threaded == \A b \in Boards : \A i \in RecNums :
              idx[b][i].id # 0 => InThread(b, i)

(* A new record joins the thread of its parent; the others stay in theirs.   *)
LEMMA ThreadedStep ==
  ASSUME IndexInv, IndexIsBounded, IndexIsBounded', Threaded, [Next]_vars
  PROVE  Threaded'
<1> USE DEF IndexInv
<1> SUFFICES ASSUME NEW b \in Boards, NEW i \in RecNums, idx'[b][i].id # 0
             PROVE  InThread(b, i)'
  BY DEF Threaded
<1> DEFINE r == idx[b][i]  s == idx'[b][i]
<1>0. /\ i \in 1..(MaxPerBoard + 1) /\ MaxPerBoard \in Nat
      /\ \A n \in 1..(MaxPerBoard + 1) : n \in RecNums
  BY Sizes
<1>k. \A n \in RecNums : idx[b][n].id # 0 =>
        idx'[b][n].id # 0 /\ idx'[b][n].root = idx[b][n].root
  BY RecordStep DEF Kept
<1>1. CASE r.id # 0
  <2>1. s.parent = r.parent /\ s.root = r.root
    BY <1>1, RecordStep DEF Kept
  <2>2. InThread(b, i)
    BY <1>1 DEF Threaded
  <2>3. r.parent # 0 => r.parent \in RecNums
    <3>1. r \in IndexRecord
      BY FieldsTyped
    <3> QED
      BY <1>0, <3>1 DEF IndexRecord
  <2> QED
    BY <1>k, <2>1, <2>2, <2>3 DEF InThread
<1>2. CASE r.id = 0
  <2>1. Adds /\ b = cur /\ i = new.id /\ s = NewRecord
    BY <1>2, RecordStep
  <2>2. /\ s.parent = new.parent /\ s.root = new.root
        /\ new.root = IF new.parent = 0 THEN i
                      ELSE idx[b][new.parent].root
        /\ \A j \in 1..(i - 1) : idx[b][j].id # 0
    BY <2>1 DEF NewRecord, Adds, Numbered
  <2>3. CASE new.parent = 0
    <3>1. s.parent = 0 /\ s.root = i
      BY <2>2, <2>3
    <3> QED
      BY <1>0, <3>1 DEF InThread
  <2>4. CASE new.parent # 0
    <3> DEFINE p == new.parent
    <3>1. p \in RecNums /\ idx[b][p].id # 0
      BY <1>0, <2>1, <2>4, NewTyped DEF Adds, ParentKnown
    <3>n. p \in Nat /\ p >= 1 /\ i \in Nat /\ idx[b][p].root \in Nat
      BY <1>0, <3>1, NewTyped, FieldsTyped, Sizes
    <3>2. p < i
      <4>1. p # i
        BY <1>2, <3>1
      <4>2. ~(i < p)
        <5>1. \A j \in 1..(p - 1) : idx[b][j].id # 0
          BY <3>1 DEF Dense
        <5> QED
          BY <1>0, <1>2, <3>n, <5>1
      <4> QED
        BY <3>n, <4>1, <4>2
    <3>3. InThread(b, p)
      BY <3>1 DEF Threaded
    <3>4. s.parent = p /\ s.root = idx[b][p].root
      BY <2>2, <2>4
    <3>5. idx[b][p].root <= p /\ idx[b][p].root \in RecNums
          /\ idx[b][idx[b][p].root].id # 0
          /\ idx[b][idx[b][p].root].root = idx[b][p].root
      BY <3>3 DEF InThread
    <3>6. s.root <= i
      BY <3>n, <3>2, <3>4, <3>5
    <3>7. idx'[b][p].id # 0 /\ idx'[b][p].root = idx[b][p].root
          /\ idx'[b][s.root].id # 0 /\ idx'[b][s.root].root = s.root
      BY <1>k, <3>1, <3>4, <3>5
    <3> QED
      BY <2>4, <3>2, <3>4, <3>5, <3>6, <3>7 DEF InThread
  <2> QED
    BY <2>3, <2>4
<1>3. r.id \in Nat
  BY FieldsTyped
<1> QED
  BY <1>1, <1>2

(* Whatever crashes or fails to be written, every message of a board with   *)
(* room stays in one thread, under an older parent that is there.           *)
THEOREM ThreadsHold ==
  ASSUME ReadsWork
  PROVE  Spec /\ []IndexIsBounded => []ThreadsAreTrees
<1>1. Init => IndexInv /\ Threaded
  BY IndexInit DEF Init, Threaded, Absent
<1>2. IndexInv /\ Threaded /\ IndexIsBounded /\ IndexIsBounded' /\ [Next]_vars
        => IndexInv' /\ Threaded'
  BY IndexInvStep, ThreadedStep
<1>3. Threaded => ThreadsAreTrees
  BY DEF Threaded, InThread, ThreadsAreTrees
<1> QED
  BY <1>1, <1>2, <1>3, PTL DEF Spec

-----------------------------------------------------------------------------
(* Records are settled.                                                     *)

(* A step only deletes a record or counts a reply to it.                     *)
LEMMA SettledStep ==
  ASSUME IndexInv, IndexIsBounded, IndexIsBounded', RepliesFit, [Next]_vars,
         NEW b \in Boards, NEW i \in RecNums, idx[b][i].id # 0
  PROVE  /\ idx'[b][i] = [idx[b][i] EXCEPT !.dele = idx'[b][i].dele,
                                           !.replies = idx'[b][i].replies]
         /\ idx[b][i].dele => idx'[b][i].dele
         /\ idx'[b][i].replies >= idx[b][i].replies
<1> USE DEF IndexInv
<1>1. idx[b][i] \in IndexRecord /\ idx'[b][i] \in IndexRecord
  <2>1. TypeOK'
    BY TypeStep
  <2> QED
    BY <2>1 DEF TypeOK
<1>2. Kept(idx[b][i], idx'[b][i]) /\ (idx[b][i].dele => idx'[b][i].dele)
  BY RecordStep
<1>3. idx'[b][i] = [idx[b][i] EXCEPT !.dele = idx'[b][i].dele,
                                     !.replies = idx'[b][i].replies]
  BY <1>1, <1>2 DEF Kept, IndexRecord
<1>4. idx'[b][i].replies >= idx[b][i].replies
  <2>1. idx[b][i].replies \in Nat /\ idx[b][i].replies < 255
    BY FieldsTyped DEF RepliesFit
  <2>2. \/ idx'[b][i] = idx[b][i]
        \/ idx'[b][i] = [idx[b][i] EXCEPT !.dele = TRUE]
        \/ idx'[b][i] = CountReply(idx[b][i])
    <3>1. \A k : Marks(k) => k \in RecNums
      BY Sizes DEF Marks
    <3>2. Counts => new.parent \in RecNums
      BY Sizes DEF Counts
    <3>3. Adds => new.id \in RecNums /\ idx[cur][new.id].id = 0
      BY Sizes DEF Adds, Numbered
    <3>4. idx \in [Boards -> [RecNums -> IndexRecord]]
      BY DEF TypeOK
    <3>5. (\E k \in RecNums : Marks(k)) =>
             \/ idx'[b][i] = idx[b][i]
             \/ idx'[b][i] = [idx[b][i] EXCEPT !.dele = TRUE]
      <4>1. ASSUME NEW k \in RecNums, Marks(k)
            PROVE  \/ idx'[b][i] = idx[b][i]
                   \/ idx'[b][i] = [idx[b][i] EXCEPT !.dele = TRUE]
        <5>1. CASE b = cur /\ i = k
          BY <3>4, <4>1, <5>1 DEF Marks
        <5>2. CASE ~(b = cur /\ i = k)
          BY <3>4, <4>1, <5>2 DEF Marks
        <5> QED
          BY <5>1, <5>2
      <4> QED
        BY <4>1
    <3>6. Counts => \/ idx'[b][i] = idx[b][i]
                    \/ idx'[b][i] = CountReply(idx[b][i])
      BY <3>2, <3>4 DEF Counts
    <3>7. Adds => idx'[b][i] = idx[b][i]
      BY <3>3, <3>4 DEF Adds
    <3> QED
      BY <3>5, <3>6, <3>7, IndexStep
  <2>3. CASE idx'[b][i] = CountReply(idx[b][i])
    <3>1. idx'[b][i].replies = (idx[b][i].replies + 1) % 256
      BY <1>1, <2>3 DEF CountReply, IndexRecord
    <3>2. (idx[b][i].replies + 1) % 256 = idx[b][i].replies + 1
      BY <2>1
    <3> QED
      BY <2>1, <3>1, <3>2
  <2>4. CASE idx'[b][i] # CountReply(idx[b][i])
    <3>1. idx'[b][i].replies = idx[b][i].replies
      BY <1>1, <2>2, <2>4 DEF IndexRecord
    <3> QED
      BY <2>1, <3>1
  <2> QED
    BY <2>3, <2>4
<1> QED
  BY <1>2, <1>3, <1>4

(* What the index says of a message is settled when it is written, whatever *)
(* crashes or fails to be written, while the board has room and no message  *)
(* has 255 replies.                                                         *)
THEOREM RecordsSettle ==
  ASSUME ReadsWork
  PROVE  Spec /\ []IndexIsBounded /\ []RepliesFit => RecordsAreSettled
<1>1. Init => IndexInv
  BY IndexInit
<1>2. IndexInv /\ IndexIsBounded /\ IndexIsBounded' /\ [Next]_vars => IndexInv'
  BY IndexInvStep
<1>3. IndexInv /\ IndexIsBounded /\ IndexIsBounded' /\ RepliesFit /\ [Next]_vars
        => [\A b \in Boards : \A i \in RecNums :
              idx[b][i].id # 0 =>
                /\ idx'[b][i] = [idx[b][i] EXCEPT !.dele = idx'[b][i].dele,
                                                  !.replies = idx'[b][i].replies]
                /\ idx[b][i].dele => idx'[b][i].dele
                /\ idx'[b][i].replies >= idx[b][i].replies]_vars
  BY SettledStep
<1> QED
  BY <1>1, <1>2, <1>3, PTL DEF Spec, RecordsAreSettled

-----------------------------------------------------------------------------
(* Bodies.                                                                  *)

EndOf(b, i) == idx[b][i].off + idx[b][i].len

(* The text being written lies behind every body of the board.              *)
Behind == pc \in {"link", "put"} => \A i \in RecNums : EndOf(cur, i) <= new.off

(* The end msg_body_eof finds is the largest end of the records there are.  *)
LEMMA EofIsLargest ==
  ASSUME TypeOK, Dense, IndexIsBounded, TextFits,
         NEW b \in Boards, NEW e \in Nat, IsBodyEof(b, MaxPerBoard, e)
  PROVE  /\ \A i \in RecNums : EndOf(b, i) <= e
         /\ e = 0 \/ \E i \in RecNums : idx[b][i].id # 0 /\ EndOf(b, i) = e
<1> DEFINE S == {(idx[b][i].off + idx[b][i].len) % Word :
                   i \in Scanned(b, MaxPerBoard)}
<1>0. \A i \in RecNums : EndOf(b, i) \in Nat /\ EndOf(b, i) % Word = EndOf(b, i)
  <2> SUFFICES ASSUME NEW i \in RecNums
               PROVE  EndOf(b, i) \in Nat /\ EndOf(b, i) % Word = EndOf(b, i)
    OBVIOUS
  <2>1. idx[b][i].off \in Nat /\ idx[b][i].len \in Nat
    BY FieldsTyped
  <2>2. EndOf(b, i) \in Nat
    BY <2>1 DEF EndOf
  <2>3. EndOf(b, i) < Word
    BY DEF TextFits, EndOf
  <2> QED
    BY <2>2, <2>3, Sizes
<1>1. IsMax(e, S)
  BY DEF IsBodyEof
<1>2. \A i \in RecNums : idx[b][i].id # 0 => EndOf(b, i) \in S
  <2> SUFFICES ASSUME NEW i \in RecNums, idx[b][i].id # 0
               PROVE  EndOf(b, i) \in S
    OBVIOUS
  <2>1. i \in 1..MaxPerBoard
    BY Sizes DEF IndexIsBounded
  <2>2. i \in Scanned(b, MaxPerBoard)
    BY <2>1 DEF Scanned
  <2>3. (idx[b][i].off + idx[b][i].len) % Word \in S
    BY <2>2
  <2> QED
    BY <1>0, <2>3 DEF EndOf
<1>3. \A x \in S : \E i \in RecNums : idx[b][i].id # 0 /\ EndOf(b, i) = x
  <2>1. Scanned(b, MaxPerBoard) \subseteq RecNums
    BY Sizes DEF Scanned
  <2> QED
    BY <1>0, <2>1 DEF Scanned, EndOf
<1>4. \A i \in RecNums : idx[b][i].id = 0 => EndOf(b, i) = 0
  BY DEF Dense, Absent, EndOf
<1>5. \A x \in S : x <= e
  BY <1>1 DEF IsMax
<1>6. e = 0 \/ e \in S
  BY <1>1 DEF IsMax
<1> HIDE DEF S
<1>7. \A i \in RecNums : EndOf(b, i) <= e
  BY <1>2, <1>4, <1>5
<1> QED
  BY <1>3, <1>6, <1>7

(* The record that is added is the message in work.                          *)
LEMMA AddedIs ==
  ASSUME TypeOK, Adds
  PROVE  new.id \in RecNums /\ idx'[cur][new.id] = NewRecord
<1>1. new.id \in RecNums
  BY Sizes DEF Adds
<1> QED
  BY <1>1 DEF Adds, TypeOK

(* A step moves the end of no body; it may add one behind them all.         *)
LEMMA EndStep ==
  ASSUME IndexInv, IndexIsBounded, IndexIsBounded', [Next]_vars,
         NEW b \in Boards, NEW i \in RecNums
  PROVE  \/ /\ idx'[b][i].off = idx[b][i].off
            /\ idx'[b][i].len = idx[b][i].len
         \/ /\ Adds /\ b = cur /\ i = new.id
            /\ idx'[b][i].off = new.off
            /\ idx'[b][i].len = new.len
BY RecordStep DEF Kept, NewRecord

(* While a text is written no record is added to the board.                  *)
LEMMA WritingStep ==
  ASSUME [Next]_vars, pc' \in {"link", "put"}
  PROVE  CommitBody \/ LinkThread \/ UNCHANGED vars
<1>1. CASE \E b \in Boards : LoadBoard(b)
  BY <1>1 DEF LoadBoard
<1>2. CASE LeaveBoards \/ (\E i \in RecNums : DisplayMsg(i))
  BY <1>2 DEF LeaveBoards, DisplayMsg
<1>3. CASE \E p \in RecNums \cup {0}, len \in Lens : StartPost(p, len)
  BY <1>3 DEF StartPost, Admit, Refuse, GiveUp
<1>4. CASE \E i \in RecNums : PruneRecord(i)
  BY <1>4 DEF PruneRecord
<1>5. CASE PruneSave
  BY <1>5 DEF PruneSave, Admit, Refuse, GiveUp
<1>6. CASE PutRecord \/ SaveBoard \/ KillRecord \/ KillSave
  BY <1>6 DEF PutRecord, SaveBoard, KillRecord, KillSave, GiveUp
<1>7. CASE DiskError \/ Crash
  BY <1>7 DEF DiskError, Crash, GiveUp
<1> QED
  BY <1>1, <1>2, <1>3, <1>4, <1>5, <1>6, <1>7 DEF Next

(* The text in work stays behind every body.                                 *)
LEMMA BehindStep ==
  ASSUME ReadsWork, IndexInv, IndexIsBounded, IndexIsBounded', TextFits, Behind,
         [Next]_vars
  PROVE  Behind'
<1> USE DEF IndexInv
<1> SUFFICES ASSUME pc' \in {"link", "put"}, NEW i \in RecNums
             PROVE  EndOf(cur, i)' <= new'.off
  BY DEF Behind
<1>1. CASE CommitBody
  <2>1. cur \in Boards /\ cur' = cur /\ UNCHANGED idx
    BY <1>1 DEF CommitBody, Busy
  <2>2. PICK off \in 0..(Word - 1) :
          IsBodyEof(cur, MaxPerBoard, off) /\ new' = [new EXCEPT !.off = off]
    BY <1>1 DEF CommitBody, ScanLengths, ReadsWork
  <2>3. off \in Nat
    BY Sizes
  <2>4. EndOf(cur, i) <= off
    BY <2>1, <2>2, <2>3, EofIsLargest
  <2>5. new'.off = off
    BY <2>2 DEF TypeOK, PostRecord
  <2> QED
    BY <2>1, <2>4, <2>5 DEF EndOf
<1>2. CASE LinkThread
  <2>1. cur \in Boards /\ cur' = cur /\ pc = "link"
    BY <1>2 DEF LinkThread, Busy
  <2>2. new'.off = new.off
    <3>1. PICK id : new' = [new EXCEPT !.id = id, !.root = RootOf(id)]
      BY <1>2 DEF LinkThread
    <3> QED
      BY <3>1 DEF TypeOK, PostRecord
  <2>3. idx'[cur][i].off = idx[cur][i].off /\ idx'[cur][i].len = idx[cur][i].len
    BY <2>1, EndStep DEF Adds
  <2> QED
    BY <2>1, <2>2, <2>3 DEF Behind, EndOf
<1>3. CASE UNCHANGED vars
  BY <1>3 DEF vars, Behind, EndOf
<1> QED
  BY <1>1, <1>2, <1>3, WritingStep

(* A record that is added names bytes no other record names.                 *)
LEMMA DisjointStep ==
  ASSUME IndexInv, IndexIsBounded, IndexIsBounded', Behind, BodiesAreDisjoint,
         [Next]_vars
  PROVE  BodiesAreDisjoint'
<1> SUFFICES ASSUME NEW b \in Boards, NEW i \in RecNums, NEW j \in RecNums,
                    i # j, idx'[b][i].len > 0, idx'[b][j].len > 0
             PROVE  \/ idx'[b][i].off + idx'[b][i].len <= idx'[b][j].off
                    \/ idx'[b][j].off + idx'[b][j].len <= idx'[b][i].off
  BY DEF BodiesAreDisjoint
<1>1. \A n \in RecNums :
        Adds /\ b = cur => idx[b][n].off + idx[b][n].len <= new.off
  BY DEF Behind, EndOf, Adds
<1>2. CASE Adds /\ b = cur /\ i = new.id
  <2>1. idx'[b][i].off = new.off
    BY <1>2, AddedIs DEF IndexInv, NewRecord
  <2>2. idx'[b][j].off = idx[b][j].off /\ idx'[b][j].len = idx[b][j].len
    BY <1>2, EndStep
  <2> QED
    BY <1>1, <1>2, <2>1, <2>2
<1>3. CASE Adds /\ b = cur /\ j = new.id
  <2>1. idx'[b][j].off = new.off
    BY <1>3, AddedIs DEF IndexInv, NewRecord
  <2>2. idx'[b][i].off = idx[b][i].off /\ idx'[b][i].len = idx[b][i].len
    BY <1>3, EndStep
  <2> QED
    BY <1>1, <1>3, <2>1, <2>2
<1>4. CASE ~(Adds /\ b = cur /\ i = new.id) /\ ~(Adds /\ b = cur /\ j = new.id)
  BY <1>4, EndStep DEF BodiesAreDisjoint
<1> QED
  BY <1>2, <1>3, <1>4

(* No two messages share a byte of a text file, whatever crashes or fails   *)
(* to be written, while the boards have room and the file's end can be      *)
(* written in 16 bits.                                                      *)
THEOREM BodiesStayApart ==
  ASSUME ReadsWork
  PROVE  Spec /\ []IndexIsBounded /\ []TextFits => []BodiesAreDisjoint
<1>1. Init => IndexInv /\ Behind /\ BodiesAreDisjoint
  BY IndexInit DEF Init, Behind, BodiesAreDisjoint, Absent
<1>2. IndexInv /\ Behind /\ BodiesAreDisjoint /\ IndexIsBounded
      /\ IndexIsBounded' /\ TextFits /\ [Next]_vars
        => IndexInv' /\ Behind' /\ BodiesAreDisjoint'
  BY IndexInvStep, BehindStep, DisjointStep
<1> QED
  BY <1>1, <1>2, PTL DEF Spec

-----------------------------------------------------------------------------
(* How much fits.                                                           *)

Posting == {"prune", "commit", "link", "put"}

(* The messages handed to msg_post before the one it is working on.         *)
Before == IF pc \in Posting THEN sent - 1 ELSE sent

(* Every number, body and reply is owed to one of them.                     *)
Owed ==
  /\ sent <= MaxPosts /\ Before \in Nat
  /\ pc = "put" => new.id <= sent
  /\ pc \in {"link", "put"} => new.off <= Before * MaxLen
  /\ \A b \in Boards : \A i \in RecNums :
       /\ idx[b][i].id # 0 => i <= Before
       /\ EndOf(b, i) <= Before * MaxLen
       /\ idx[b][i].replies <= IF pc = "put" THEN sent ELSE Before

Few == MaxPosts <= MaxPerBoard /\ MaxPosts * MaxLen < Word /\ MaxPosts < 255

(* What is used of multiplication.                                           *)
LEMMA Products ==
  ASSUME NEW k \in Nat, NEW n \in Nat, NEW l \in Nat, k <= n
  PROVE  k * l <= n * l /\ (k + 1) * l = k * l + l /\ k * l \in Nat
<1>1. PICK d \in Nat : n = k + d
  <2>1. n - k \in Nat /\ n = k + (n - k)
    OBVIOUS
  <2> QED
    BY <2>1
<1>2. (k + d) * l = k * l + d * l
  OBVIOUS
<1>3. d * l \in Nat /\ k * l \in Nat
  OBVIOUS
<1>4. (k + 1) * l = k * l + l
  OBVIOUS
<1> QED
  BY <1>1, <1>2, <1>3, <1>4

(* Under the bound Few, what is owed to the messages sent fits.              *)
LEMMA OwedFits ==
  ASSUME TypeOK, Dense, Few, Owed
  PROVE  InRoom
<1>0. /\ MaxPosts \in Nat /\ Before \in Nat /\ sent \in Nat /\ MaxLen \in Nat
      /\ Before <= MaxPosts /\ sent <= MaxPosts
  BY MsgBaseAssumption DEF Owed, Before, TypeOK
<1>1. IndexIsBounded
  <2> SUFFICES ASSUME NEW b \in Boards
               PROVE  idx[b][MaxPerBoard + 1].id = 0
    BY DEF IndexIsBounded
  <2>1. ~(MaxPerBoard + 1 <= Before) /\ MaxPerBoard + 1 \in RecNums
    BY <1>0, Sizes DEF Few
  <2> QED
    BY <2>1 DEF Owed
<1>2. TextFits
  <2> SUFFICES ASSUME NEW b \in Boards, NEW i \in RecNums
               PROVE  EndOf(b, i) < Word
    BY DEF TextFits, EndOf
  <2>1. EndOf(b, i) <= Before * MaxLen
    BY DEF Owed
  <2>2. Before * MaxLen <= MaxPosts * MaxLen /\ Before * MaxLen \in Nat
        /\ MaxPosts * MaxLen \in Nat
    BY <1>0, Products
  <2>3. EndOf(b, i) \in Nat
    BY FieldsTyped DEF EndOf
  <2> QED
    BY <2>1, <2>2, <2>3, Sizes DEF Few
<1>3. RepliesFit
  BY <1>0, FieldsTyped DEF RepliesFit, Owed, Few
<1> QED
  BY <1>1, <1>2, <1>3 DEF InRoom

(* How a step moves the number of messages sent.                             *)
LEMMA SentMoves ==
  ASSUME [Next]_vars
  PROVE  \/ UNCHANGED <<sent, pc>>
         \/ UNCHANGED sent /\ pc \in Posting \ {"put"} /\ pc' \in Posting
         \/ UNCHANGED sent /\ pc = "put" /\ pc' = "save"
         \/ UNCHANGED sent /\ pc' = "idle"
         \/ UNCHANGED sent /\ pc = "idle" /\ pc' = "kill"
         \/ /\ sent < MaxPosts /\ sent' = sent + 1
            /\ pc = "idle" /\ pc' \in {"idle", "prune", "commit"}
<1> USE DEF Posting
<1>1. CASE (\E b \in Boards : LoadBoard(b)) \/ LeaveBoards
           \/ (\E i \in RecNums : DisplayMsg(i))
  BY <1>1 DEF LoadBoard, LeaveBoards, DisplayMsg
<1>3. CASE \E p \in RecNums \cup {0}, len \in Lens : StartPost(p, len)
  BY <1>3 DEF StartPost, Admit, Refuse, GiveUp
<1>4. CASE (\E i \in RecNums : PruneRecord(i))
  BY <1>4 DEF PruneRecord
<1>5. CASE PruneSave
  BY <1>5 DEF PruneSave, Admit, Refuse, GiveUp
<1>6. CASE CommitBody \/ SaveBoard
  BY <1>6 DEF CommitBody, SaveBoard, GiveUp
<1>7. CASE LinkThread \/ PutRecord
  BY <1>7 DEF LinkThread, PutRecord
<1>8. CASE KillRecord \/ KillSave
  BY <1>8 DEF KillRecord, KillSave
<1>9. CASE DiskError \/ Crash
  BY <1>9 DEF DiskError, Crash, GiveUp
<1>11. CASE UNCHANGED vars
  BY <1>11 DEF vars
<1> QED
  BY <1>1, <1>3, <1>4, <1>5, <1>6, <1>7, <1>8, <1>9, <1>11 DEF Next

(* It never passes the bound.                                                *)
LEMMA SentStep ==
  ASSUME TypeOK, sent <= MaxPosts, Before \in Nat, [Next]_vars
  PROVE  /\ sent' \in Nat /\ sent' <= MaxPosts /\ sent' >= sent
         /\ Before' \in Nat /\ Before' >= Before
         /\ pc = "put" /\ pc' # "put" => Before' >= sent
<1>1. sent \in Nat /\ MaxPosts \in Nat
  BY MsgBaseAssumption DEF TypeOK
<1>2. "put" \in Posting /\ "save" \notin Posting /\ "kill" \notin Posting
      /\ "idle" \notin Posting
  BY DEF Posting
<1> QED
  BY <1>1, <1>2, SentMoves DEF Before

(* A new number is at most the number of messages sent, so it is within the  *)
(* index.                                                                    *)
LEMMA BoundedStep ==
  ASSUME IndexInv, Owed, Few, [Next]_vars
  PROVE  IndexIsBounded'
<1> USE DEF IndexInv
<1>0. IndexIsBounded
  BY OwedFits DEF InRoom
<1> SUFFICES ASSUME NEW b \in Boards
             PROVE  idx'[b][MaxPerBoard + 1].id = 0
  BY DEF IndexIsBounded
<1>1. idx[b][MaxPerBoard + 1].id = 0 /\ MaxPerBoard + 1 \in RecNums
  BY <1>0, Sizes DEF IndexIsBounded
<1>2. idx \in [Boards -> [RecNums -> IndexRecord]]
  BY DEF TypeOK
<1>3. ASSUME NEW i, Marks(i)
      PROVE  idx'[b][MaxPerBoard + 1].id = 0
  <2>1. i # MaxPerBoard + 1
    BY <1>3, Sizes DEF Marks
  <2> QED
    BY <1>1, <1>2, <1>3, <2>1 DEF Marks
<1>4. ASSUME Counts
      PROVE  idx'[b][MaxPerBoard + 1].id = 0
  <2>1. new.parent # MaxPerBoard + 1
    BY <1>4, Sizes DEF Counts
  <2> QED
    BY <1>1, <1>2, <1>4, <2>1 DEF Counts
<1>5. ASSUME PutRecord
      PROVE  idx'[b][MaxPerBoard + 1].id = 0
  <2>1. new.id # MaxPerBoard + 1
    <3>1. new.id <= sent
      BY <1>5 DEF PutRecord, Owed
    <3>2. sent \in Nat /\ sent <= MaxPosts /\ MaxPosts \in Nat
      BY MsgBaseAssumption DEF Owed, TypeOK
    <3> QED
      BY <3>1, <3>2, NewTyped, Sizes DEF Few
  <2>2. idx' = [idx EXCEPT ![cur][new.id] = NewRecord]
    BY <1>5 DEF PutRecord, Put, NewRecord
  <2> QED
    BY <1>1, <1>2, <2>1, <2>2
<1>6. \/ UNCHANGED idx \/ (\E i : Marks(i)) \/ Counts \/ PutRecord
  <2>1. (\E i \in RecNums : PruneRecord(i)) => UNCHANGED idx \/ \E i : Marks(i)
    BY <1>0, PruneMarks
  <2>2. KillRecord => UNCHANGED idx \/ \E i : Marks(i)
    BY <1>0, KillMarks
  <2>3. LinkThread => UNCHANGED idx \/ Counts
    BY <1>0, LinkCounts
  <2>4. (\E b_1 \in Boards : LoadBoard(b_1)) \/ LeaveBoards
        \/ (\E i \in RecNums : DisplayMsg(i)) => UNCHANGED idx
    BY DEF LoadBoard, LeaveBoards, DisplayMsg, disk
  <2>5. (\E p \in RecNums \cup {0}, len \in Lens : StartPost(p, len))
          => UNCHANGED idx
    BY DEF StartPost, disk
  <2>6. PruneSave \/ CommitBody \/ SaveBoard \/ KillSave \/ DiskError \/ Crash
          => UNCHANGED idx
    BY DEF PruneSave, CommitBody, SaveBoard, KillSave, DiskError, Crash
  <2>7. UNCHANGED vars => UNCHANGED idx
    BY DEF vars, disk
  <2> QED
    BY <2>1, <2>2, <2>3, <2>4, <2>5, <2>6, <2>7 DEF Next
<1> QED
  BY <1>1, <1>3, <1>4, <1>5, <1>6

(* Only a reply that is counted raises a counter, and by one.               *)
LEMMA RepliesStep ==
  ASSUME IndexInv, IndexIsBounded, IndexIsBounded', RepliesFit, [Next]_vars,
         NEW b \in Boards, NEW i \in RecNums
  PROVE  \/ idx'[b][i].replies = idx[b][i].replies
         \/ Counts /\ b = cur /\ i = new.parent
            /\ idx'[b][i].replies = idx[b][i].replies + 1
         \/ Adds /\ b = cur /\ i = new.id /\ idx'[b][i].replies = 0
<1> USE DEF IndexInv
<1>1. /\ idx \in [Boards -> [RecNums -> IndexRecord]]
      /\ idx[b][i] \in IndexRecord
      /\ idx[b][i].replies \in Nat /\ idx[b][i].replies < 255
  BY FieldsTyped DEF TypeOK, RepliesFit
<1>2. ASSUME NEW k \in RecNums, Marks(k)
      PROVE  idx'[b][i].replies = idx[b][i].replies
  <2>1. CASE b = cur /\ i = k
    BY <1>1, <1>2, <2>1 DEF Marks, IndexRecord
  <2>2. CASE ~(b = cur /\ i = k)
    BY <1>1, <1>2, <2>2 DEF Marks
  <2> QED
    BY <2>1, <2>2
<1>3. ASSUME Counts
      PROVE  \/ idx'[b][i].replies = idx[b][i].replies
             \/ b = cur /\ i = new.parent
                /\ idx'[b][i].replies = idx[b][i].replies + 1
  <2>0. new.parent \in RecNums
    BY <1>3, Sizes DEF Counts
  <2>1. CASE b = cur /\ i = new.parent
    <3>1. idx'[b][i] = CountReply(idx[b][i])
      BY <1>1, <1>3, <2>0, <2>1 DEF Counts
    <3>2. idx'[b][i].replies = (idx[b][i].replies + 1) % 256
      BY <1>1, <3>1 DEF CountReply, IndexRecord
    <3>3. (idx[b][i].replies + 1) % 256 = idx[b][i].replies + 1
      BY <1>1
    <3> QED
      BY <2>1, <3>2, <3>3
  <2>2. CASE ~(b = cur /\ i = new.parent)
    BY <1>1, <1>3, <2>0, <2>2 DEF Counts
  <2> QED
    BY <2>1, <2>2
<1>4. ASSUME Adds
      PROVE  \/ idx'[b][i].replies = idx[b][i].replies
             \/ b = cur /\ i = new.id /\ idx'[b][i].replies = 0
  <2>1. CASE b = cur /\ i = new.id
    BY <1>4, <2>1, AddedIs DEF NewRecord
  <2>2. CASE ~(b = cur /\ i = new.id)
    BY <1>1, <1>4, <2>2, AddedIs DEF Adds
  <2> QED
    BY <2>1, <2>2
<1> QED
  BY <1>2, <1>3, <1>4, IndexStep

(* Every step keeps numbers, ends of text and replies within what is owed.   *)
LEMMA OwedStep ==
  ASSUME ReadsWork, IndexInv, Owed, Behind, Few, [Next]_vars
  PROVE  Owed'
<1> USE DEF IndexInv
<1>0. /\ InRoom /\ IndexIsBounded' /\ IndexIsBounded /\ TextFits /\ RepliesFit
  BY OwedFits, BoundedStep DEF InRoom
<1>1. /\ sent' \in Nat /\ sent' <= MaxPosts /\ sent' >= sent
      /\ Before' \in Nat /\ Before' >= Before
      /\ pc = "put" /\ pc' # "put" => Before' >= sent
  BY SentStep DEF Owed
<1>2. /\ sent \in Nat /\ Before \in Nat /\ MaxLen \in Nat
      /\ pc \in Posting => sent = Before + 1
  BY Sizes DEF TypeOK, Owed, Before
<1>3. /\ Before * MaxLen <= Before' * MaxLen
      /\ Before * MaxLen \in Nat /\ Before' * MaxLen \in Nat
      /\ (Before + 1) * MaxLen = Before * MaxLen + MaxLen
  <2>1. Before' <= Before'
    BY <1>1
  <2>2. Before' * MaxLen \in Nat
    BY <1>1, <1>2, <2>1, Products, Zenon
  <2>3. Before <= Before'
    BY <1>1, <1>2
  <2> QED
    BY <1>1, <1>2, <2>2, <2>3, Products, Zenon
<1>4. /\ \A b \in Boards : \A i \in RecNums :
           /\ idx[b][i].id # 0 => i <= Before
           /\ EndOf(b, i) <= Before * MaxLen
           /\ idx[b][i].replies <= IF pc = "put" THEN sent ELSE Before
      /\ pc = "put" => new.id <= sent
      /\ pc \in {"link", "put"} => new.off <= Before * MaxLen
  BY DEF Owed
<1>5. ASSUME pc' = "put"
      PROVE  new'.id <= sent'
  <2>1. CASE LinkThread
    <3>1. cur \in Boards /\ pc = "link"
      BY <2>1 DEF LinkThread, Busy
    <3>2. PICK id \in RecNums :
            /\ IsNextId(cur, MaxPerBoard, id)
            /\ new' = [new EXCEPT !.id = id, !.root = RootOf(id)]
      BY <2>1 DEF LinkThread, ScanLengths, ReadsWork
    <3>3. \A j \in 1..(id - 1) : idx[cur][j].id # 0
      BY <1>0, <3>1, <3>2, NextIdIsFree
    <3>4. id - 1 <= Before
      <4>1. id \in Nat /\ id >= 1
        BY Sizes
      <4>2. CASE id = 1
        BY <1>2, <4>2
      <4>3. CASE id # 1
        <5>1. id - 1 \in RecNums /\ id - 1 \in 1..(id - 1)
          BY <4>1, <4>3, Sizes
        <5> QED
          BY <1>4, <3>1, <3>3, <5>1
      <4> QED
        BY <4>2, <4>3
    <3>5. new'.id = id
      BY <3>2 DEF TypeOK, PostRecord
    <3>6. id \in Nat /\ pc \in Posting
      BY <3>1, Sizes DEF Posting
    <3> QED
      BY <1>1, <1>2, <3>4, <3>5, <3>6
  <2>2. CASE UNCHANGED vars
    BY <1>4, <1>5, <2>2 DEF vars
  <2> QED
    BY <1>5, <2>1, <2>2, PostingStep
<1>6. ASSUME pc' \in {"link", "put"}
      PROVE  new'.off <= Before' * MaxLen
  <2>0. new.off \in Nat
    BY NewTyped
  <2>1. CASE CommitBody
    <3>1. cur \in Boards
      BY <2>1 DEF CommitBody, Busy
    <3>2. PICK off \in 0..(Word - 1) :
            /\ IsBodyEof(cur, MaxPerBoard, off)
            /\ new' = [new EXCEPT !.off = off]
      BY <2>1 DEF CommitBody, ScanLengths, ReadsWork
    <3>3. new'.off = off /\ off \in Nat
      BY <3>2, Sizes DEF TypeOK, PostRecord
    <3>4. off = 0 \/ \E i \in RecNums : EndOf(cur, i) = off
      BY <1>0, <3>1, <3>2, <3>3, EofIsLargest
    <3>5. off <= Before * MaxLen
      BY <1>3, <1>4, <3>1, <3>4
    <3> QED
      BY <1>3, <3>3, <3>5
  <2>2. CASE LinkThread
    <3>1. PICK id : new' = [new EXCEPT !.id = id, !.root = RootOf(id)]
      BY <2>2 DEF LinkThread
    <3>2. new'.off = new.off
      BY <3>1 DEF TypeOK, PostRecord
    <3>3. new.off <= Before * MaxLen
      BY <1>4, <2>2 DEF LinkThread
    <3> QED
      BY <1>3, <2>0, <3>2, <3>3
  <2>3. CASE UNCHANGED vars
    <3>1. new'.off = new.off /\ pc \in {"link", "put"}
      BY <1>6, <2>3 DEF vars
    <3> QED
      BY <1>3, <1>4, <2>0, <3>1
  <2> QED
    BY <1>6, <2>1, <2>2, <2>3, WritingStep
<1>a. ASSUME Adds
      PROVE  /\ Before' >= sent /\ new.id <= Before'
             /\ new.off + new.len <= Before' * MaxLen
  <2>1. pc = "put" /\ pc' # "put" /\ pc \in Posting
    BY <1>a DEF Adds, Posting
  <2>2. Before + 1 <= Before'
    BY <1>1, <1>2, <2>1
  <2>3. (Before + 1) * MaxLen <= Before' * MaxLen
    <3>1. Before + 1 \in Nat
      BY <1>2
    <3> QED
      BY <1>1, <1>2, <2>2, <3>1, Products, Zenon
  <2>4. new.off <= Before * MaxLen /\ new.id <= sent
    BY <1>4, <2>1
  <2>5. new.len \in Nat /\ new.len <= MaxLen /\ new.off \in Nat /\ new.id \in Nat
    BY Sizes, NewTyped DEF TypeOK, PostRecord
  <2> QED
    BY <1>1, <1>2, <1>3, <2>1, <2>3, <2>4, <2>5
<1>7. ASSUME NEW b \in Boards, NEW i \in RecNums
      PROVE  /\ idx'[b][i].id # 0 => i <= Before'
             /\ EndOf(b, i)' <= Before' * MaxLen
             /\ idx'[b][i].replies <= IF pc' = "put" THEN sent' ELSE Before'
  <2>0. i \in Nat /\ EndOf(b, i) \in Nat /\ idx[b][i].replies \in Nat
    BY FieldsTyped, Sizes DEF EndOf
  <2>1. idx'[b][i].id # 0 => i <= Before'
    <3>1. idx'[b][i].id # 0 => idx[b][i].id # 0 \/ (Adds /\ i = new.id)
      BY <1>0, RecordStep
    <3> QED
      BY <1>1, <1>2, <1>4, <1>a, <2>0, <3>1
  <2>2. EndOf(b, i)' <= Before' * MaxLen
    <3>1. \/ EndOf(b, i)' = EndOf(b, i)
          \/ Adds /\ EndOf(b, i)' = new.off + new.len
      BY <1>0, EndStep DEF EndOf
    <3> QED
      BY <1>3, <1>4, <1>a, <2>0, <3>1
  <2>3. idx'[b][i].replies <= IF pc' = "put" THEN sent' ELSE Before'
    <3>1. CASE idx'[b][i].replies = idx[b][i].replies
      <4>1. idx[b][i].replies <= IF pc = "put" THEN sent ELSE Before
        BY <1>4
      <4>2. Before <= sent
        BY <1>2 DEF Before
      <4> QED
        BY <1>1, <1>2, <2>0, <3>1, <4>1, <4>2
    <3>2. CASE Counts /\ idx'[b][i].replies = idx[b][i].replies + 1
      <4>1. pc # "put" /\ pc \in Posting /\ pc' = "put"
        BY <3>2 DEF Counts, Posting
      <4>2. idx[b][i].replies <= Before
        BY <1>4, <4>1
      <4> QED
        BY <1>1, <1>2, <2>0, <3>2, <4>1, <4>2
    <3>3. CASE idx'[b][i].replies = 0
      BY <1>1, <3>3
    <3> QED
      BY <1>0, <3>1, <3>2, <3>3, RepliesStep
  <2> QED
    BY <2>1, <2>2, <2>3
<1> QED
  BY <1>1, <1>5, <1>6, <1>7 DEF Owed

(* A board whose callers have sent fewer messages than it has numbers, and  *)
(* fewer than 64K bytes in all, has room: the conditions of the theorems    *)
(* above are met from the start and for as long as that is so.              *)
THEOREM FewPostsFit ==
  ASSUME ReadsWork, Few
  PROVE  Spec => []InRoom
<1>1. Init => IndexInv /\ Owed /\ Behind
  <2>1. Init => Behind
    BY DEF Init, Behind
  <2>2. Init => Before = 0 /\ MaxPosts >= 0 /\ sent = 0
    BY MsgBaseAssumption DEF Init, Before, Posting
  <2>3. Init => \A b \in Boards : \A i \in RecNums :
                  idx[b][i].id = 0 /\ EndOf(b, i) = 0 /\ idx[b][i].replies = 0
    BY DEF Init, Absent, EndOf
  <2>4. Init => pc = "idle"
    BY DEF Init
  <2>5. 0 * MaxLen = 0
    BY Sizes
  <2>6. Init => Owed
    BY <2>2, <2>3, <2>4, <2>5 DEF Owed
  <2> QED
    BY <2>1, <2>6, IndexInit
<1>2. IndexInv /\ Owed /\ Behind /\ [Next]_vars => (IndexInv /\ Owed /\ Behind)'
  <2> SUFFICES ASSUME IndexInv, Owed, Behind, [Next]_vars
               PROVE  (IndexInv /\ Owed /\ Behind)'
    OBVIOUS
  <2>1. IndexIsBounded /\ TextFits /\ IndexIsBounded'
    BY OwedFits, BoundedStep DEF InRoom, IndexInv
  <2> QED
    BY <2>1, IndexInvStep, BehindStep, OwedStep
<1>3. IndexInv /\ Owed => InRoom
  BY OwedFits DEF IndexInv
<1> QED
  BY <1>1, <1>2, <1>3, PTL DEF Spec

(* With so few posts no such bound is left: through crashes and failed writes *)
(* of msg_post and msg_delete threads stay trees, records keep what they      *)
(* said, and no two of them share a byte of the text file.                    *)
THEOREM FewPostsKeepThreads ==
  ASSUME ReadsWork, Few
  PROVE  Spec => []ThreadsAreTrees /\ RecordsAreSettled /\ []BodiesAreDisjoint
<1>1. InRoom => IndexIsBounded /\ TextFits /\ RepliesFit
  BY DEF InRoom
<1> QED
  BY <1>1, FewPostsFit, ThreadsHold, RecordsSettle, BodiesStayApart, PTL

=============================================================================
