---------------------------- MODULE MsgCleanProofs ----------------------------
(* What holds of the message base when nothing fails, for every number and  *)
(* size of boards, every limit and every batch of the pruning loop.         *)
EXTENDS MsgBaseProofs, MsgBaseRefinement, FiniteSetTheorems

NothingFails == Faults = {}

(* When nothing fails, reads work.                                           *)
LEMMA NothingFailsReads == ASSUME NothingFails PROVE ReadsWork
BY DEF NothingFails, ReadsWork

(* The steps there are when nothing fails, and what they do to the index.   *)
LEMMA CleanSteps ==
  ASSUME NothingFails, IndexInv, IndexIsBounded, IndexIsBounded', [Next]_vars
  PROVE  \/ UNCHANGED idx /\ \E b \in Boards : LoadBoard(b)
         \/ UNCHANGED idx /\ LeaveBoards
         \/ UNCHANGED idx /\ \E i \in RecNums : DisplayMsg(i)
         \/ /\ UNCHANGED idx
            /\ \E p \in RecNums \cup {0}, len \in Lens : StartPost(p, len)
         \/ \E i \in RecNums : PruneRecord(i) /\ Marks(i)
         \/ UNCHANGED idx /\ PruneSave
         \/ UNCHANGED idx /\ CommitBody
         \/ /\ LinkThread
            /\ IF new.parent = 0 THEN UNCHANGED idx ELSE Counts
         \/ PutRecord /\ Adds
         \/ UNCHANGED idx /\ SaveBoard
         \/ KillRecord /\ Marks(curMsg) /\ pc' = "kill" /\ curMsg' = curMsg
         \/ UNCHANGED idx /\ KillRecord /\ pc' = pc
         \/ UNCHANGED idx /\ KillSave
         \/ UNCHANGED vars
<1>1. ASSUME NEW i \in RecNums, PruneRecord(i)
      PROVE  Marks(i)
  <2>1. cur \in Boards /\ i \in scan..MaxPerBoard /\ IsLive(Get(i))
    BY <1>1 DEF PruneRecord, NextToPrune, Prunable, Busy, IndexInv
  <2>2. i \in 1..MaxPerBoard /\ Get(i) = idx[cur][i]
    BY <2>1, GetIsDisk DEF IsLive, IndexInv
  <2>3. idx[cur][i].id = i
    BY <2>1, <2>2 DEF Dense, IsLive, IndexInv
  <2>4. [idx[cur][i] EXCEPT !.dele = TRUE].id = i
    BY <2>1, <2>3, FieldsTyped DEF IndexRecord, IndexInv
  <2> QED
    BY <1>1, <2>1, <2>2, <2>4 DEF PruneRecord, Put, Marks, NothingFails
<1>2. CASE KillRecord
  <2>1. \/ UNCHANGED <<idx, pc>>
        \/ KillRecord /\ Marks(curMsg) /\ pc' = "kill" /\ curMsg' = curMsg
    <3>1. CASE IsLive(Get(curMsg)) /\ pc' = "kill" /\ UNCHANGED curMsg
      <4>1. pc = "idle"
        BY <1>2 DEF KillRecord
      <4> QED
        BY <1>2, <3>1, <4>1, KillMarks
    <3> QED
      BY <1>2, <3>1 DEF KillRecord
  <2> QED
    BY <1>2, <2>1
<1>3. CASE LinkThread
  <2>1. CASE new.parent = 0
    BY <1>3, <2>1 DEF LinkThread
  <2>2. CASE new.parent # 0
    <3>1. Put(CountReply(Get(new.parent))) /\ ~Orphaned
      BY <1>3, <2>2, LinkCounts DEF LinkThread, NothingFails
    <3>2. cur \in Boards /\ pc = "link" /\ pc' = "put"
      BY <1>3 DEF LinkThread, Busy, IndexInv
    <3>3. new.parent \in 1..MaxPerBoard /\ Get(new.parent) = idx[cur][new.parent]
      BY <1>3, <2>2, LinkCounts
    <3>4. new.parent \in RecNums /\ idx[cur][new.parent].id = new.parent
      BY <2>2, <3>2, <3>3, Sizes DEF Dense, ParentKnown, IndexInv
    <3>5. CountReply(idx[cur][new.parent]).id = new.parent
      BY <3>2, <3>4, FieldsTyped DEF CountReply, IndexRecord, IndexInv
    <3>6. Counts
      BY <2>2, <3>1, <3>2, <3>3, <3>4, <3>5 DEF Put, Counts
    <3> QED
      BY <1>3, <2>2, <3>6
  <2> QED
    BY <2>1, <2>2
<1>4. CASE PutRecord
  BY <1>4, PutAdds
<1>5. CASE (\E b \in Boards : LoadBoard(b)) \/ LeaveBoards
           \/ (\E i \in RecNums : DisplayMsg(i))
  BY <1>5 DEF LoadBoard, LeaveBoards, DisplayMsg, disk
<1>6. CASE \E p \in RecNums \cup {0}, len \in Lens : StartPost(p, len)
  BY <1>6 DEF StartPost, disk
<1>7. CASE PruneSave \/ CommitBody \/ SaveBoard \/ KillSave
  BY <1>7 DEF PruneSave, CommitBody, SaveBoard, KillSave
<1>8. ~DiskError /\ ~Crash
  BY DEF DiskError, Crash, NothingFails
<1> QED
  BY <1>1, <1>2, <1>3, <1>4, <1>5, <1>6, <1>7, <1>8 DEF Next

-----------------------------------------------------------------------------
(* Counting the live messages.                                              *)

(* The messages in view can be counted.                                      *)
LEMMA LiveIsFinite ==
  ASSUME NEW b \in Boards
  PROVE  IsFiniteSet(Live(b)) /\ Cardinality(Live(b)) \in Nat
<1>1. IsFiniteSet(RecNums)
  BY Sizes, FS_Interval
<1>2. Live(b) \subseteq RecNums
  BY DEF Live
<1> QED
  BY <1>1, <1>2, FS_Subset, FS_CardinalityType

Size(b) == Cardinality(Live(b))

(* Marking one that is in view takes one off.                                *)
LEMMA MarkedLive ==
  ASSUME TypeOK, NEW i, Marks(i), NEW b \in Boards
  PROVE  /\ Size(b) \in Nat
         /\ b = cur => Size(b) >= 1 /\ Size(b)' = Size(b) - 1
         /\ b # cur => Size(b)' = Size(b)
<1>0. /\ i \in RecNums /\ cur \in Boards
      /\ idx \in [Boards -> [RecNums -> IndexRecord]]
      /\ IsFiniteSet(Live(b)) /\ Cardinality(Live(b)) \in Nat
  BY LiveIsFinite, Sizes DEF Marks, TypeOK
<1>1. CASE b = cur
  <2>1. \A j \in RecNums \ {i} : idx'[b][j] = idx[b][j]
    BY <1>0, <1>1 DEF Marks
  <2>2. ~IsLive(idx'[b][i]) /\ IsLive(idx[b][i])
    <3>1. idx'[b][i] = [idx[b][i] EXCEPT !.dele = TRUE]
          /\ idx[b][i] \in IndexRecord
      BY <1>0, <1>1 DEF Marks
    <3> QED
      BY <1>1, <3>1 DEF Marks, IsLive, IndexRecord
  <2>3. Live(b)' = Live(b) \ {i} /\ i \in Live(b)
    BY <1>0, <2>1, <2>2 DEF Live
  <2>4. /\ Cardinality(Live(b) \ {i}) = Cardinality(Live(b)) - 1
        /\ Cardinality(Live(b) \ {i}) \in Nat
    BY <1>0, <2>3, FS_RemoveElement, FS_CardinalityType
  <2> QED
    BY <1>0, <1>1, <2>3, <2>4 DEF Size
<1>2. CASE b # cur
  <2>1. idx'[b] = idx[b]
    BY <1>0, <1>2 DEF Marks
  <2>2. Live(b)' = Live(b)
    BY <2>1 DEF Live
  <2> QED
    BY <1>0, <1>2, <2>2 DEF Size
<1> QED
  BY <1>1, <1>2

(* A new record adds one.                                                    *)
LEMMA AddedLive ==
  ASSUME IndexInv, Adds, NEW b \in Boards
  PROVE  /\ Size(b) \in Nat
         /\ Size(b)' = IF b = cur THEN Size(b) + 1 ELSE Size(b)
<1> USE DEF IndexInv
<1>0. /\ new.id \in RecNums /\ cur \in Boards /\ idx[cur][new.id].id = 0
      /\ idx'[cur][new.id] = NewRecord /\ new.id # 0
      /\ idx \in [Boards -> [RecNums -> IndexRecord]]
      /\ IsFiniteSet(Live(b)) /\ Cardinality(Live(b)) \in Nat
  BY LiveIsFinite, AddedIs, Sizes DEF Adds, TypeOK, Numbered
<1>1. CASE b = cur
  <2>1. \A j \in RecNums \ {new.id} : idx'[b][j] = idx[b][j]
    BY <1>0, <1>1 DEF Adds
  <2>2. IsLive(idx'[b][new.id]) /\ ~IsLive(idx[b][new.id])
    BY <1>0, <1>1 DEF IsLive, NewRecord
  <2>3. Live(b)' = Live(b) \cup {new.id} /\ new.id \notin Live(b)
    BY <1>0, <2>1, <2>2 DEF Live
  <2> QED
    BY <1>0, <1>1, <2>3, FS_AddElement DEF Size
<1>2. CASE b # cur
  <2>1. idx'[b] = idx[b]
    BY <1>0, <1>2 DEF Adds
  <2>2. Live(b)' = Live(b)
    BY <2>1 DEF Live
  <2> QED
    BY <1>0, <1>2, <2>2 DEF Size
<1> QED
  BY <1>1, <1>2

(* Counting a reply changes none.                                            *)
LEMMA CountedLive ==
  ASSUME TypeOK, Counts \/ UNCHANGED idx, NEW b \in Boards
  PROVE  Size(b)' = Size(b)
<1>1. CASE UNCHANGED idx
  BY <1>1 DEF Size, Live
<1>2. CASE Counts
  <2>1. \A j \in RecNums : IsLive(idx'[b][j]) <=> IsLive(idx[b][j])
    <3> SUFFICES ASSUME NEW j \in RecNums
                 PROVE  IsLive(idx'[b][j]) <=> IsLive(idx[b][j])
      OBVIOUS
    <3>1. /\ idx \in [Boards -> [RecNums -> IndexRecord]]
          /\ idx[b][j] \in IndexRecord /\ new.parent \in RecNums
      BY <1>2, Sizes DEF TypeOK, Counts
    <3>2. CASE b = cur /\ j = new.parent
      <4>1. idx'[b][j] = CountReply(idx[b][j])
        BY <1>2, <3>1, <3>2 DEF Counts
      <4> QED
        BY <3>1, <4>1 DEF CountReply, IsLive, IndexRecord
    <3>3. CASE ~(b = cur /\ j = new.parent)
      BY <1>2, <3>1, <3>3 DEF Counts
    <3> QED
      BY <3>2, <3>3
  <2>2. Live(b)' = Live(b)
    BY <2>1 DEF Live
  <2> QED
    BY <2>2 DEF Size
<1> QED
  BY <1>1, <1>2

(* The count an operation works with, which it has still to save.           *)
Held(b) ==
  IF b # cur \/ pc = "idle" THEN dir[b].count
  ELSE IF pc = "kill" THEN dir[b].count - 1
  ELSE IF pc = "save" THEN loc.count + 1
  ELSE loc.count

Counted == \A b \in Boards : Size(b) = Held(b)

(* The operation works with a copy of the directory record.                  *)
LEMMA LocTyped ==
  ASSUME TypeOK
  PROVE  /\ loc.count \in Nat /\ loc.high \in Nat /\ loc.eof \in Nat
         /\ \A b \in Boards :
              dir[b].count \in Nat /\ dir[b].high \in Nat /\ dir[b].eof \in Nat
<1>1. /\ 0..(MaxPerBoard + 1) \subseteq Nat /\ 0..(Word - 1) \subseteq Nat
  BY Sizes
<1>2. loc \in DirRecord /\ \A b \in Boards : dir[b] \in DirRecord
  BY DEF TypeOK
<1> QED
  BY <1>1, <1>2 DEF DirRecord

(* The count that is held follows what is written to the index.              *)
LEMMA CountedStep ==
  ASSUME NothingFails, IndexInv, IndexIsBounded, IndexIsBounded', Counted,
         [Next]_vars
  PROVE  Counted'
<1> USE DEF IndexInv
<1> SUFFICES ASSUME NEW b \in Boards
             PROVE  Size(b)' = Held(b)'
  BY DEF Counted
<1>0. /\ Size(b) = Held(b) /\ Size(b) \in Nat
      /\ dir \in [Boards -> DirRecord] /\ loc \in DirRecord
      /\ loc.count \in Nat /\ dir[b].count \in Nat
  BY LiveIsFinite, LocTyped DEF Size, Counted, TypeOK
<1>u. UNCHANGED idx => Size(b)' = Size(b)
  BY CountedLive
<1>1. CASE UNCHANGED idx /\ \E b_1 \in Boards : LoadBoard(b_1)
  BY <1>0, <1>u, <1>1 DEF LoadBoard, Held, disk
<1>2. CASE UNCHANGED idx /\ (LeaveBoards \/ \E i \in RecNums : DisplayMsg(i))
  BY <1>0, <1>u, <1>2 DEF LeaveBoards, DisplayMsg, Held, disk
<1>3. CASE UNCHANGED idx
           /\ \E p \in RecNums \cup {0}, len \in Lens : StartPost(p, len)
  BY <1>0, <1>u, <1>3 DEF StartPost, Admit, Refuse, GiveUp, Held, disk
<1>4. ASSUME NEW i \in RecNums, PruneRecord(i), Marks(i)
      PROVE  Size(b)' = Held(b)'
  <2>1. /\ pc = "prune" /\ pc' = "prune" /\ UNCHANGED <<cur, dir>>
        /\ loc' = [loc EXCEPT !.count = OneLess(@)]
    BY <1>4 DEF PruneRecord
  <2>2. loc'.count = OneLess(loc.count)
    BY <1>0, <2>1 DEF DirRecord
  <2>3. CASE b = cur
    <3>1. Size(b) = loc.count /\ Size(b) >= 1 /\ Size(b)' = Size(b) - 1
      BY <1>0, <1>4, <2>1, <2>3, MarkedLive DEF Held
    <3>2. OneLess(loc.count) = loc.count - 1
      BY <1>0, <3>1 DEF OneLess
    <3> QED
      BY <2>1, <2>2, <2>3, <3>1, <3>2 DEF Held
  <2>4. CASE b # cur
    BY <1>0, <1>4, <2>1, <2>4, MarkedLive DEF Held
  <2> QED
    BY <2>3, <2>4
<1>5. CASE UNCHANGED idx /\ PruneSave
  BY <1>0, <1>u, <1>5 DEF PruneSave, Admit, Refuse, GiveUp, Held
<1>6. CASE UNCHANGED idx /\ CommitBody
  BY <1>0, <1>u, <1>6 DEF CommitBody, Held
<1>7. CASE LinkThread /\ (Counts \/ UNCHANGED idx)
  BY <1>0, <1>7, CountedLive DEF LinkThread, Held
<1>8. CASE PutRecord /\ Adds
  <2>1. Size(b)' = IF b = cur THEN Size(b) + 1 ELSE Size(b)
    BY <1>8, AddedLive
  <2> QED
    BY <1>0, <1>8, <2>1 DEF PutRecord, Held
<1>9. CASE UNCHANGED idx /\ SaveBoard
  <2>1. /\ pc = "save" /\ pc' = "idle" /\ cur' = cur
        /\ dir' = [dir EXCEPT ![cur] = DirAfterPost(loc)]
    BY <1>9 DEF SaveBoard, GiveUp
  <2>2. DirAfterPost(loc).count = loc.count + 1
    BY DEF DirAfterPost
  <2> QED
    BY <1>0, <1>u, <1>9, <2>1, <2>2 DEF Held
<1>10. CASE KillRecord /\ Marks(curMsg) /\ pc' = "kill"
  <2>1. pc = "idle" /\ UNCHANGED <<cur, dir>>
    BY <1>10 DEF KillRecord
  <2> QED
    BY <1>0, <1>10, <2>1, MarkedLive DEF Held
<1>11. CASE UNCHANGED idx /\ KillRecord /\ pc' = pc
  BY <1>0, <1>u, <1>11 DEF KillRecord, Held
<1>12. CASE UNCHANGED idx /\ KillSave
  <2>1. /\ pc = "kill" /\ pc' = "idle" /\ cur' = cur
        /\ dir' = [dir EXCEPT ![cur].count = OneLess(@)]
    BY <1>12 DEF KillSave
  <2>2. CASE b = cur
    <3>1. Size(b) = dir[b].count - 1
      BY <1>0, <2>1, <2>2 DEF Held
    <3>2. OneLess(dir[b].count) = dir[b].count - 1
      BY <1>0, <3>1 DEF OneLess
    <3>3. dir'[b] = [dir[b] EXCEPT !.count = OneLess(@)]
      BY <1>0, <2>1, <2>2
    <3>4. dir'[b].count = OneLess(dir[b].count)
      BY <1>0, <3>3 DEF DirRecord
    <3> QED
      BY <1>u, <1>12, <2>1, <3>1, <3>2, <3>4 DEF Held
  <2>3. CASE b # cur
    BY <1>0, <1>u, <1>12, <2>1, <2>3 DEF Held
  <2> QED
    BY <2>2, <2>3
<1>13. CASE UNCHANGED vars
  BY <1>0, <1>u, <1>13 DEF vars, disk, Held
<1> QED
  BY <1>1, <1>2, <1>3, <1>4, <1>5, <1>6, <1>7, <1>8, <1>9, <1>10, <1>11,
     <1>12, <1>13, CleanSteps

-----------------------------------------------------------------------------
(* Pruning and the limit.                                                   *)

(* The pruning loop starts at the first record, has deleted everything it   *)
(* has passed, and each message it deletes makes room for one more.         *)
Pruning ==
  /\ pc # "prune" => scan = 1 /\ pruned = 0
  /\ pc = "prune" => /\ loc.count + pruned = Limit
                     /\ \A j \in 1..(scan - 1) : ~IsLive(idx[cur][j])

Limited ==
  /\ \A b \in Boards : dir[b].count <= Limit
  /\ pc \in {"commit", "link", "put", "save"} => loc.count < Limit

(* What can be read of a board's records is what the index says.            *)
LEMMA GetIsLive ==
  ASSUME IndexInv, cur \in Boards, NEW i \in 1..MaxPerBoard
  PROVE  Get(i) = idx[cur][i]
<1>1. cur # 0
  BY MsgBaseAssumption
<1> QED
  BY <1>1 DEF Get, IndexInv, BankMirrorsIndex

(* When the loop finds nothing to delete there is nothing in view.           *)
LEMMA NoneToPrune ==
  ASSUME IndexInv, IndexIsBounded, Pruning, pc = "prune", Prunable = {}
  PROVE  Size(cur) = 0
<1> USE DEF IndexInv
<1>1. cur \in Boards
  BY DEF Busy
<1>2. scan \in 1..(MaxPerBoard + 1)
  BY DEF TypeOK
<1>3. ASSUME NEW j \in RecNums
      PROVE  ~IsLive(idx[cur][j])
  <2>0. j \in 1..(MaxPerBoard + 1) /\ MaxPerBoard \in Nat
    BY Sizes
  <2>1. CASE j = MaxPerBoard + 1
    BY <1>1, <2>1 DEF IndexIsBounded, IsLive
  <2>2. CASE j \in 1..(scan - 1)
    BY <2>2 DEF Pruning
  <2>3. CASE j \in scan..MaxPerBoard
    <3>1. j \notin Prunable /\ j \in 1..MaxPerBoard
      BY <2>0, <2>3
    <3>2. ~IsLive(Get(j))
      BY <2>3, <3>1 DEF Prunable
    <3> QED
      BY <1>1, <3>1, <3>2, GetIsLive
  <2> QED
    BY <1>2, <2>0, <2>1, <2>2, <2>3
<1>4. Live(cur) = {}
  BY <1>3 DEF Live
<1> QED
  BY <1>4, FS_EmptySet DEF Size

(* The loop has deleted everything below its place, and it ends below the    *)
(* limit.                                                                    *)
LEMMA PruningStep ==
  ASSUME NothingFails, IndexInv, IndexIsBounded, IndexIsBounded', Counted,
         Pruning, Limited, [Next]_vars
  PROVE  Pruning' /\ Limited'
<1> USE DEF IndexInv
<1>0. /\ dir \in [Boards -> DirRecord] /\ loc \in DirRecord
      /\ loc.count \in Nat /\ \A b \in Boards : dir[b].count \in Nat
      /\ Limit \in Nat /\ Limit >= 1 /\ pruned \in Nat
      /\ scan \in 1..(MaxPerBoard + 1)
  BY LocTyped, MsgBaseAssumption DEF TypeOK
<1>1. CASE \E b \in Boards : LoadBoard(b)
  BY <1>1 DEF LoadBoard, disk, Pruning, Limited
<1>2. CASE LeaveBoards \/ \E i \in RecNums : DisplayMsg(i)
  BY <1>2 DEF LeaveBoards, DisplayMsg, disk, Pruning, Limited
<1>3. ASSUME NEW p \in RecNums \cup {0}, NEW len \in Lens, StartPost(p, len)
      PROVE  Pruning' /\ Limited'
  <2>0. cur \in Boards /\ pc = "idle" /\ UNCHANGED dir
        /\ scan = 1 /\ pruned = 0
    BY <1>3 DEF StartPost, TypeOK, disk, Pruning
  <2>1. CASE pc' = "prune"
    <3>1. AtLimit(dir[cur]) /\ loc' = dir[cur] /\ UNCHANGED <<scan, pruned>>
      BY <1>3, <2>1 DEF StartPost, Admit, Refuse, GiveUp
    <3>2. dir[cur].count <= Limit /\ dir[cur].count >= Limit
          /\ dir[cur].count \in Nat
      BY <1>0, <2>0, <3>1 DEF AtLimit, Limited
    <3>3. loc'.count + pruned' = Limit
      BY <1>0, <2>0, <3>1, <3>2
    <3>4. \A j \in 1..(scan' - 1) : FALSE
      BY <2>0, <3>1
    <3> QED
      BY <2>0, <2>1, <3>3, <3>4 DEF Pruning, Limited
  <2>2. CASE pc' = "commit"
    <3>1. ~AtLimit(dir[cur]) /\ loc' = dir[cur] /\ scan' = 1 /\ pruned' = 0
      BY <1>3, <2>2 DEF StartPost, Admit, Refuse, GiveUp
    <3>2. loc'.count < Limit
      BY <1>0, <2>0, <3>1 DEF AtLimit
    <3> QED
      BY <2>0, <2>2, <3>1, <3>2 DEF Pruning, Limited
  <2>3. CASE pc' = "idle"
    <3>1. scan' = 1 /\ pruned' = 0
      BY <1>3, <2>3 DEF StartPost, Admit, Refuse, GiveUp
    <3> QED
      BY <2>0, <2>3, <3>1 DEF Pruning, Limited
  <2> QED
    BY <1>3, <2>1, <2>2, <2>3 DEF StartPost, Admit, Refuse, GiveUp
<1>4. ASSUME NEW i \in RecNums, PruneRecord(i), Marks(i)
      PROVE  Pruning' /\ Limited'
  <2>1. /\ pc = "prune" /\ pc' = "prune" /\ UNCHANGED <<cur, dir>>
        /\ loc' = [loc EXCEPT !.count = OneLess(@)]
        /\ scan' = i + 1 /\ pruned' = pruned + 1
        /\ NextToPrune(i)
    BY <1>4 DEF PruneRecord
  <2>2. loc'.count = loc.count - 1
    <3>1. loc.count >= 1
      BY <1>0, <1>4, <2>1, MarkedLive DEF Counted, Held, Marks
    <3>2. OneLess(loc.count) = loc.count - 1
      BY <1>0, <3>1 DEF OneLess
    <3> QED
      BY <1>0, <2>1, <3>2 DEF DirRecord
  <2>3. loc'.count + pruned' = Limit
    BY <1>0, <2>1, <2>2 DEF Pruning
  <2>4. ASSUME NEW j \in 1..(scan' - 1)
        PROVE  ~IsLive(idx'[cur][j])
    <3>0. /\ i \in 1..MaxPerBoard /\ cur \in Boards /\ MaxPerBoard \in Nat
          /\ idx \in [Boards -> [RecNums -> IndexRecord]]
      BY <1>4, Sizes DEF Marks, TypeOK
    <3>1. j \in 1..i /\ j \in 1..MaxPerBoard /\ j \in RecNums
      BY <2>1, <3>0, Sizes
    <3>2. CASE j = i
      <4>1. idx'[cur][j] = [idx[cur][j] EXCEPT !.dele = TRUE]
            /\ idx[cur][j] \in IndexRecord
        BY <1>4, <3>0, <3>1, <3>2 DEF Marks
      <4> QED
        BY <4>1 DEF IsLive, IndexRecord
    <3>3. CASE j # i
      <4>1. idx'[cur][j] = idx[cur][j]
        BY <1>4, <3>0, <3>1, <3>3 DEF Marks
      <4>2. CASE j \in 1..(scan - 1)
        BY <2>1, <4>1, <4>2 DEF Pruning
      <4>3. CASE j \in scan..MaxPerBoard
        <5>1. ~(i <= j)
          BY <3>0, <3>1, <3>3
        <5>2. j \notin Prunable
          BY <2>1, <5>1 DEF NextToPrune
        <5>3. ~IsLive(Get(j))
          BY <4>3, <5>2 DEF Prunable
        <5> QED
          BY <3>0, <3>1, <4>1, <5>3, GetIsLive
      <4> QED
        BY <1>0, <3>0, <3>1, <4>2, <4>3
    <3> QED
      BY <3>2, <3>3
  <2> QED
    BY <2>1, <2>3, <2>4 DEF Pruning, Limited
<1>5. CASE PruneSave
  <2>1. /\ pc = "prune" /\ cur \in Boards
        /\ pruned = PruneBatch \/ Prunable = {}
        /\ dir' = [dir EXCEPT ![cur] = loc]
        /\ pc' \in {"commit", "idle"} /\ (pc' = "commit" => loc' = loc)
        /\ scan' = 1 /\ pruned' = 0
    BY <1>5 DEF PruneSave, Admit, Refuse, GiveUp, Busy
  <2>2. loc.count < Limit
    <3>1. CASE Prunable = {}
      <4>1. loc.count = 0
        BY <2>1, <3>1, NoneToPrune DEF Counted, Held
      <4> QED
        BY <1>0, <4>1
    <3>2. CASE pruned = PruneBatch
      BY <1>0, <2>1, <3>2, MsgBaseAssumption DEF Pruning
    <3> QED
      BY <2>1, <3>1, <3>2
  <2>3. \A b \in Boards : dir'[b].count <= Limit
    <3> SUFFICES ASSUME NEW b \in Boards PROVE dir'[b].count <= Limit
      OBVIOUS
    <3>1. dir'[b] = IF b = cur THEN loc ELSE dir[b]
      BY <1>0, <2>1
    <3> QED
      BY <1>0, <2>2, <3>1 DEF Limited
  <2> QED
    BY <2>1, <2>2, <2>3 DEF Pruning, Limited
<1>6. CASE CommitBody \/ LinkThread \/ PutRecord
  BY <1>6 DEF CommitBody, LinkThread, PutRecord, Pruning, Limited
<1>9. CASE SaveBoard
  <2>1. /\ pc = "save" /\ pc' = "idle" /\ cur \in Boards
        /\ dir' = [dir EXCEPT ![cur] = DirAfterPost(loc)]
        /\ scan' = 1 /\ pruned' = 0
    BY <1>9 DEF SaveBoard, GiveUp, Busy
  <2>2. DirAfterPost(loc).count = loc.count + 1 /\ loc.count < Limit
    BY <2>1 DEF DirAfterPost, Limited
  <2>3. \A b \in Boards : dir'[b].count <= Limit
    <3> SUFFICES ASSUME NEW b \in Boards PROVE dir'[b].count <= Limit
      OBVIOUS
    <3>1. CASE b = cur
      BY <1>0, <2>1, <2>2, <3>1
    <3>2. CASE b # cur
      BY <1>0, <2>1, <3>2 DEF Limited
    <3> QED
      BY <3>1, <3>2
  <2> QED
    BY <2>1, <2>3 DEF Pruning, Limited
<1>10. CASE KillRecord
  BY <1>10 DEF KillRecord, Pruning, Limited
<1>12. CASE KillSave
  <2>1. /\ pc = "kill" /\ pc' = "idle" /\ cur \in Boards
        /\ dir' = [dir EXCEPT ![cur].count = OneLess(@)]
        /\ UNCHANGED <<scan, pruned>>
    BY <1>12 DEF KillSave, Busy
  <2>3. \A b \in Boards : dir'[b].count <= Limit
    <3> SUFFICES ASSUME NEW b \in Boards PROVE dir'[b].count <= Limit
      OBVIOUS
    <3>0. dir[b].count \in Nat /\ dir[b].count <= Limit
      BY <1>0 DEF Limited
    <3>1. CASE b = cur
      <4>1. dir'[b] = [dir[b] EXCEPT !.count = OneLess(@)] /\ dir[b] \in DirRecord
        BY <1>0, <2>1, <3>1
      <4>2. dir'[b].count = OneLess(dir[b].count)
        BY <4>1 DEF DirRecord
      <4> QED
        BY <1>0, <3>0, <4>2 DEF OneLess
    <3>2. CASE b # cur
      BY <1>0, <2>1, <3>2 DEF Limited
    <3> QED
      BY <3>1, <3>2
  <2> QED
    BY <2>1, <2>3 DEF Pruning, Limited
<1>13. CASE UNCHANGED vars
  BY <1>13 DEF vars, disk, Pruning, Limited
<1> QED
  BY <1>1, <1>2, <1>3, <1>4, <1>5, <1>6, <1>9, <1>10,
     <1>12, <1>13, CleanSteps

(* A message dies under its reader or as the oldest there is.               *)
LEMMA OldestStep ==
  ASSUME NothingFails, IndexInv, IndexIsBounded, IndexIsBounded', Pruning,
         [Next]_vars, NEW b \in Boards, NEW i \in RecNums,
         IsLive(idx[b][i]), ~IsLive(idx'[b][i])
  PROVE  \/ b = cur /\ i = curMsg /\ pc = "idle"
         \/ \A j \in 1..(i - 1) : ~IsLive(idx[b][j])
<1> USE DEF IndexInv
<1>0. idx \in [Boards -> [RecNums -> IndexRecord]]
  BY DEF TypeOK
<1>1. ASSUME NEW k, Marks(k)
      PROVE  b = cur /\ i = k
  BY <1>0, <1>1 DEF Marks
<1>2. ASSUME NEW k \in RecNums, PruneRecord(k), Marks(k)
      PROVE  \A j \in 1..(i - 1) : ~IsLive(idx[b][j])
  <2>1. b = cur /\ i = k /\ i \in 1..MaxPerBoard /\ cur \in Boards
        /\ MaxPerBoard \in Nat
    BY <1>1, <1>2, Sizes DEF Marks
  <2>2. pc = "prune" /\ NextToPrune(i)
    BY <1>2, <2>1 DEF PruneRecord
  <2> SUFFICES ASSUME NEW j \in 1..(i - 1)
               PROVE  ~IsLive(idx[b][j])
    OBVIOUS
  <2>3. j \in 1..MaxPerBoard /\ ~(i <= j) /\ scan \in 1..(MaxPerBoard + 1)
    BY <2>1 DEF TypeOK
  <2>4. CASE j \in 1..(scan - 1)
    BY <2>1, <2>2, <2>4 DEF Pruning
  <2>5. CASE j \in scan..MaxPerBoard
    <3>1. j \notin Prunable
      BY <2>2, <2>3 DEF NextToPrune
    <3>2. ~IsLive(Get(j))
      BY <2>5, <3>1 DEF Prunable
    <3> QED
      BY <2>1, <2>3, <3>2, GetIsLive
  <2> QED
    BY <2>1, <2>3, <2>4, <2>5
<1>3. CASE KillRecord /\ Marks(curMsg)
  BY <1>1, <1>3 DEF KillRecord
<1>4. Counts => FALSE
  <2> SUFFICES ASSUME Counts PROVE FALSE
    OBVIOUS
  <2>0. idx[b][i] \in IndexRecord /\ new.parent \in RecNums
    BY <1>0, Sizes DEF Counts
  <2>1. idx'[b][i] = idx[b][i] \/ idx'[b][i] = CountReply(idx[b][i])
    BY <1>0, <2>0 DEF Counts
  <2> QED
    BY <2>0, <2>1 DEF CountReply, IsLive, IndexRecord
<1>5. Adds => FALSE
  <2> SUFFICES ASSUME Adds PROVE FALSE
    OBVIOUS
  <2>1. idx'[b][i] = idx[b][i]
    <3>1. idx[cur][new.id].id = 0 /\ new.id \in RecNums
      BY Sizes DEF Adds, Numbered
    <3> QED
      BY <1>0, <3>1 DEF Adds, IsLive
  <2> QED
    BY <2>1
<1>6. UNCHANGED idx => FALSE
  OBVIOUS
<1>7. UNCHANGED vars => UNCHANGED idx
  BY DEF vars, disk
<1> QED
  BY <1>2, <1>3, <1>4, <1>5, <1>6, <1>7, CleanSteps

-----------------------------------------------------------------------------
(* The text file.                                                           *)

(* The file ends where the last body ends; while msg_post runs, where the   *)
(* body it has just written ends.                                           *)
Textual ==
  \A b \in Boards :
    IF b = cur /\ pc \in {"link", "put"}
    THEN new.off + new.len = Len(txt[b])
    ELSE /\ \A i \in RecNums : EndOf(b, i) <= Len(txt[b])
         /\ \/ Len(txt[b]) = 0
            \/ \E i \in RecNums : idx[b][i].id # 0 /\ EndOf(b, i) = Len(txt[b])

(* A new body is appended: nothing that was in the file moves.              *)
LEMMA CommitAppends ==
  ASSUME NothingFails, IndexInv, IndexIsBounded, TextFits, Textual, CommitBody
  PROVE  /\ cur \in Boards /\ UNCHANGED <<idx, cur>>
         /\ new'.off = Len(txt[cur])
         /\ new'.len = new.len /\ new'.tag = new.tag
         /\ \A b \in Boards : b # cur => txt'[b] = txt[b]
         /\ Len(txt'[cur]) = Len(txt[cur]) + new.len
         /\ \A k \in 1..Len(txt[cur]) : txt'[cur][k] = txt[cur][k]
         /\ \A k \in 1..new.len : txt'[cur][Len(txt[cur]) + k] = new.tag
<1> USE DEF IndexInv
<1> DEFINE size == Len(txt[cur])
<1>1. cur \in Boards /\ UNCHANGED <<idx, cur>> /\ pc = "commit"
  BY DEF CommitBody, Busy
<1>2. PICK off \in 0..(Word - 1) :
        /\ IsBodyEof(cur, MaxPerBoard, off)
        /\ txt' = [txt EXCEPT ![cur] = Written(cur, off, new.len, new.tag)]
        /\ new' = [new EXCEPT !.off = off]
  BY NothingFailsReads DEF CommitBody, ScanLengths, ReadsWork
<1>3. off \in Nat /\ size \in Nat /\ txt \in [Boards -> Seq(Nat)]
  BY <1>1, Sizes DEF TypeOK
<1>4. off = size
  <2>1. /\ \A i \in RecNums : EndOf(cur, i) <= off
        /\ off = 0 \/ \E i \in RecNums : idx[cur][i].id # 0 /\ EndOf(cur, i) = off
    BY <1>1, <1>2, <1>3, EofIsLargest
  <2>2. /\ \A i \in RecNums : EndOf(cur, i) <= size
        /\ size = 0 \/ \E i \in RecNums : idx[cur][i].id # 0 /\ EndOf(cur, i) = size
    BY <1>1 DEF Textual
  <2>3. off <= size
    BY <1>3, <2>1, <2>2
  <2>4. size <= off
    BY <1>3, <2>1, <2>2
  <2> QED
    BY <1>3, <2>3, <2>4
<1>5. new.len \in Nat /\ new.tag \in Nat
  BY NewTyped
<1>6. Written(cur, off, new.len, new.tag)
        = [i \in 1..(size + new.len) |-> IF i <= size THEN txt[cur][i] ELSE new.tag]
  BY <1>3, <1>4 DEF Written
<1>7. txt'[cur] = Written(cur, off, new.len, new.tag)
      /\ \A b \in Boards : b # cur => txt'[b] = txt[b]
  BY <1>1, <1>2, <1>3
<1>8. Len(txt'[cur]) = size + new.len
  <2>1. Len(Written(cur, off, new.len, new.tag))
          = (IF off = 0 THEN 0 ELSE Len(txt[cur])) + new.len
    BY <1>1, <1>3, <1>5, WrittenIsText
  <2> QED
    BY <1>3, <1>4, <1>7, <2>1
<1>9. \A k \in 1..size : txt'[cur][k] = txt[cur][k]
  BY <1>3, <1>5, <1>6, <1>7
<1>10. \A k \in 1..new.len : txt'[cur][size + k] = new.tag
  BY <1>3, <1>5, <1>6, <1>7
<1>11. new'.off = off /\ new'.len = new.len /\ new'.tag = new.tag
  BY <1>2 DEF TypeOK, PostRecord
<1> QED
  BY <1>1, <1>4, <1>7, <1>8, <1>9, <1>10, <1>11

(* Every other step leaves the texts alone.                                 *)
LEMMA TextStep ==
  ASSUME NothingFails, [Next]_vars
  PROVE  CommitBody \/ UNCHANGED txt
<1>1. CASE (\E b \in Boards : LoadBoard(b)) \/ LeaveBoards
           \/ (\E i \in RecNums : DisplayMsg(i))
  BY <1>1 DEF LoadBoard, LeaveBoards, DisplayMsg, disk
<1>2. CASE \E p \in RecNums \cup {0}, len \in Lens : StartPost(p, len)
  BY <1>2 DEF StartPost, disk
<1>3. CASE (\E i \in RecNums : PruneRecord(i)) \/ PruneSave \/ LinkThread
           \/ PutRecord \/ SaveBoard \/ KillRecord \/ KillSave
  BY <1>3 DEF PruneRecord, PruneSave, LinkThread, PutRecord, SaveBoard,
     KillRecord, KillSave
<1>4. ~DiskError /\ ~Crash
  BY DEF DiskError, Crash, NothingFails
<1>5. UNCHANGED vars => UNCHANGED txt
  BY DEF vars, disk
<1> QED
  BY <1>1, <1>2, <1>3, <1>4, <1>5 DEF Next

(* How msg_post goes through its last writes.                               *)
LEMMA WriterStep ==
  ASSUME NothingFails, TypeOK, [Next]_vars
  PROVE  \/ CommitBody
         \/ LinkThread /\ new'.off = new.off /\ new'.len = new.len
                       /\ new'.tag = new.tag
         \/ PutRecord
         \/ SaveBoard
         \/ UNCHANGED vars
         \/ pc \notin {"link", "put", "save"} /\ pc' \notin {"link", "put", "save"}
            /\ UNCHANGED posts
<1>1. CASE (\E b \in Boards : LoadBoard(b)) \/ LeaveBoards
           \/ (\E i \in RecNums : DisplayMsg(i))
  BY <1>1 DEF LoadBoard, LeaveBoards, DisplayMsg
<1>2. CASE \E p \in RecNums \cup {0}, len \in Lens : StartPost(p, len)
  BY <1>2 DEF StartPost, Admit, Refuse, GiveUp
<1>3. CASE (\E i \in RecNums : PruneRecord(i)) \/ PruneSave \/ KillRecord
           \/ KillSave
  BY <1>3 DEF PruneRecord, PruneSave, KillRecord, KillSave, Admit, Refuse, GiveUp
<1>4. CASE LinkThread
  <2>1. PICK id : new' = [new EXCEPT !.id = id, !.root = RootOf(id)]
    BY <1>4 DEF LinkThread
  <2>2. new'.off = new.off /\ new'.len = new.len /\ new'.tag = new.tag
    BY <2>1 DEF TypeOK, PostRecord
  <2> QED
    BY <1>4, <2>2
<1>5. ~DiskError /\ ~Crash
  BY DEF DiskError, Crash, NothingFails
<1> QED
  BY <1>1, <1>2, <1>3, <1>4, <1>5 DEF Next

(* The ends of the bodies, unless a record is added, stay where they were.  *)
LEMMA EndsStay ==
  ASSUME IndexInv, IndexIsBounded, IndexIsBounded', [Next]_vars, pc # "put",
         NEW b \in Boards, NEW i \in RecNums
  PROVE  /\ EndOf(b, i)' = EndOf(b, i)
         /\ idx[b][i].id # 0 <=> idx'[b][i].id # 0
<1>1. ~Adds
  BY DEF Adds
<1> QED
  BY <1>1, EndStep, RecordStep DEF EndOf, Kept

(* The last byte of a text file belongs to the last record, or to the        *)
(* message in work.                                                          *)
LEMMA TextualStep ==
  ASSUME NothingFails, IndexInv, IndexIsBounded, IndexIsBounded', TextFits,
         Behind, Textual, [Next]_vars
  PROVE  Textual'
<1> USE DEF IndexInv
<1>1. CASE CommitBody
  <2>1. cur \in Boards /\ cur' = cur /\ pc = "commit" /\ pc' = "link"
    BY <1>1 DEF CommitBody, Busy
  <2>2. new'.off + new'.len = Len(txt'[cur])
    BY <1>1, CommitAppends
  <2>3. \A b \in Boards : b # cur => txt'[b] = txt[b] /\ UNCHANGED idx
    BY <1>1, CommitAppends
  <2> QED
    BY <2>1, <2>2, <2>3 DEF Textual, EndOf
<1>2. CASE LinkThread /\ new'.off = new.off /\ new'.len = new.len
  <2>1. pc = "link" /\ pc' = "put" /\ cur' = cur /\ UNCHANGED txt
    BY <1>2 DEF LinkThread
  <2>2. \A b \in Boards : \A i \in RecNums :
          /\ EndOf(b, i)' = EndOf(b, i)
          /\ idx[b][i].id # 0 <=> idx'[b][i].id # 0
    BY <2>1, EndsStay
  <2> QED
    BY <1>2, <2>1, <2>2 DEF Textual
<1>3. CASE PutRecord
  <2>1. /\ pc = "put" /\ pc' = "save" /\ cur' = cur /\ UNCHANGED <<txt, new>>
        /\ cur \in Boards /\ Adds
    BY <1>3, PutAdds DEF PutRecord, Busy
  <2>2. ASSUME NEW b \in Boards
        PROVE  /\ \A i \in RecNums : EndOf(b, i)' <= Len(txt'[b])
               /\ \/ Len(txt'[b]) = 0
                  \/ \E i \in RecNums :
                       idx'[b][i].id # 0 /\ EndOf(b, i)' = Len(txt'[b])
    <3>1. CASE b = cur
      <4>1. new.off + new.len = Len(txt'[b])
        BY <2>1, <3>1 DEF Textual
      <4>2. new.id \in RecNums /\ new.id # 0 /\ idx'[b][new.id] = NewRecord
        BY <2>1, <3>1, AddedIs, Sizes DEF Adds
      <4>3. idx'[b][new.id].id # 0 /\ EndOf(b, new.id)' = Len(txt'[b])
        <5>1. EndOf(b, new.id)' = new.off + new.len
          BY <2>1, <4>2 DEF EndOf, NewRecord
        <5> QED
          BY <4>1, <4>2, <5>1 DEF NewRecord
      <4>4. ASSUME NEW i \in RecNums
            PROVE  EndOf(b, i)' <= Len(txt'[b])
        <5>0. new.off \in Nat /\ new.len \in Nat /\ EndOf(b, i) \in Nat
          BY NewTyped, FieldsTyped DEF EndOf
        <5>1. EndOf(b, i) <= new.off
          BY <2>1, <3>1 DEF Behind
        <5>2. EndOf(b, i)' = EndOf(b, i) \/ EndOf(b, i)' = new.off + new.len
          BY EndStep DEF EndOf
        <5> QED
          BY <4>1, <5>0, <5>1, <5>2
      <4>5. \E i \in RecNums : idx'[b][i].id # 0 /\ EndOf(b, i)' = Len(txt'[b])
        BY <2>1, <4>2, <4>3 DEF EndOf
      <4> QED
        BY <4>4, <4>5
    <3>2. CASE b # cur
      <4>1. idx'[b] = idx[b]
        BY <2>1, <3>2 DEF Adds, TypeOK
      <4>2. txt'[b] = txt[b]
        BY <2>1
      <4>3. \A i \in RecNums : EndOf(b, i)' = EndOf(b, i)
        BY <4>1 DEF EndOf
      <4>4. /\ \A i \in RecNums : EndOf(b, i) <= Len(txt[b])
            /\ \/ Len(txt[b]) = 0
               \/ \E i \in RecNums :
                    idx[b][i].id # 0 /\ EndOf(b, i) = Len(txt[b])
        BY <3>2 DEF Textual
      <4> QED
        BY <4>1, <4>2, <4>3, <4>4
    <3> QED
      BY <3>1, <3>2
  <2>3. pc' \notin {"link", "put"}
    BY <2>1
  <2> QED
    BY <2>2, <2>3 DEF Textual
<1>4. CASE UNCHANGED vars
  BY <1>4 DEF vars, disk, Textual, EndOf
<1>5. CASE pc \notin {"link", "put"} /\ pc' \notin {"link", "put"} /\ UNCHANGED txt
  <2>1. \A b \in Boards : \A i \in RecNums :
          /\ EndOf(b, i)' = EndOf(b, i)
          /\ idx[b][i].id # 0 <=> idx'[b][i].id # 0
    BY <1>5, EndsStay
  <2> QED
    BY <1>5, <2>1 DEF Textual
<1>6. CASE SaveBoard
  BY <1>5, <1>6 DEF SaveBoard, GiveUp
<1> QED
  BY <1>1, <1>2, <1>3, <1>4, <1>5, <1>6, WriterStep, TextStep

-----------------------------------------------------------------------------
(* The figures of the directory.                                            *)

Highest(b, h) ==
  /\ h # 0 => idx[b][h].id # 0
  /\ \A i \in RecNums : idx[b][i].id # 0 => i <= h

(* The highest number, in the directory or in the copy of the operation     *)
(* that has still to save it.                                               *)
TopOf(b) == IF b = cur /\ pc = "save" THEN new.id ELSE dir[b].high

Headed ==
  /\ \A b \in Boards : Highest(b, TopOf(b))
  /\ pc \in Posting => loc.high = dir[cur].high
  /\ pc = "save" => loc.high < new.id

(* The number chosen is above the highest one.                               *)
LEMMA NumberIsNext ==
  ASSUME IndexInv, pc = "put", Highest(cur, dir[cur].high)
  PROVE  dir[cur].high < new.id
<1> USE DEF IndexInv
<1>1. cur \in Boards /\ new.id \in RecNums /\ idx[cur][new.id].id = 0
      /\ \A j \in 1..(new.id - 1) : idx[cur][j].id # 0
  BY DEF Busy, Numbered
<1>2. dir[cur].high \in 0..(MaxPerBoard + 1) /\ new.id \in 1..(MaxPerBoard + 1)
      /\ MaxPerBoard \in Nat
  BY <1>1, Sizes DEF TypeOK, DirRecord
<1> DEFINE h == dir[cur].high
<1>3. CASE h = 0
  BY <1>2, <1>3
<1>4. CASE h # 0
  <2>1. idx[cur][h].id # 0 /\ h \in RecNums
    BY <1>2, <1>4, Sizes DEF Highest
  <2>2. \A j \in 1..(h - 1) : idx[cur][j].id # 0
    BY <1>1, <2>1 DEF Dense
  <2>3. h # new.id
    BY <1>1, <2>1
  <2>4. ~(new.id \in 1..(h - 1))
    BY <1>1, <2>2
  <2> QED
    BY <1>2, <2>3, <2>4
<1> QED
  BY <1>3, <1>4

(* The highest number is one of the index.                                   *)
LEMMA TopOfTyped ==
  ASSUME TypeOK, NEW b \in Boards
  PROVE  TopOf(b) \in 0..(MaxPerBoard + 1)
<1>1. dir[b] \in DirRecord
  BY DEF TypeOK
<1> QED
  BY <1>1, NewTyped DEF TopOf, DirRecord

(* The highest number is kept exact.                                         *)
LEMMA HeadedStep ==
  ASSUME NothingFails, IndexInv, IndexIsBounded, IndexIsBounded', Headed,
         [Next]_vars
  PROVE  Headed'
<1> USE DEF IndexInv
<1>0. /\ dir \in [Boards -> DirRecord] /\ loc \in DirRecord
      /\ pc # "idle" => cur \in Boards
  BY DEF TypeOK, Busy
<1>p. /\ "put" \in Posting /\ "prune" \in Posting /\ "commit" \in Posting
      /\ "link" \in Posting /\ "save" \notin Posting /\ "idle" \notin Posting
      /\ "kill" \notin Posting
  BY DEF Posting
<1>i. /\ \A b \in Boards : Highest(b, TopOf(b))
      /\ pc \in Posting => loc.high = dir[cur].high
      /\ pc = "save" => loc.high < new.id
  BY DEF Headed
(* Where no record is added, it is enough that the figure stays.            *)
<1>t. ASSUME pc # "put", \A b \in Boards : TopOf(b)' = TopOf(b)
      PROVE  \A b \in Boards : Highest(b, TopOf(b))'
  <2> SUFFICES ASSUME NEW b \in Boards
               PROVE  Highest(b, TopOf(b))'
    OBVIOUS
  <2>1. Highest(b, TopOf(b)) /\ TopOf(b) \in 0..(MaxPerBoard + 1)
    BY <1>i, TopOfTyped
  <2> DEFINE h == TopOf(b)
  <2>2. /\ h # 0 => h \in RecNums /\ idx'[b][h].id # 0
        /\ \A i \in RecNums : idx'[b][i].id # 0 => i <= h
    <3>1. \A i \in RecNums : idx'[b][i].id # 0 <=> idx[b][i].id # 0
      BY <1>t, RecordStep DEF Adds, Kept
    <3>2. h # 0 => h \in RecNums
      BY <2>1, Sizes
    <3> QED
      BY <2>1, <3>1, <3>2 DEF Highest
  <2>3. TopOf(b)' = h
    BY <1>t
  <2> HIDE DEF h
  <2> QED
    BY <2>2, <2>3 DEF Highest
<1>1. CASE \E b \in Boards : LoadBoard(b)
  <2>1. pc = "idle" /\ pc' = "idle" /\ UNCHANGED dir
    BY <1>1 DEF LoadBoard, disk
  <2> QED
    BY <1>p, <1>t, <2>1 DEF Headed, TopOf
<1>2. CASE LeaveBoards \/ \E i \in RecNums : DisplayMsg(i)
  <2>1. pc = "idle" /\ pc' = "idle" /\ UNCHANGED dir
    BY <1>2 DEF LeaveBoards, DisplayMsg, disk
  <2> QED
    BY <1>p, <1>t, <2>1 DEF Headed, TopOf
<1>3. CASE \E p \in RecNums \cup {0}, len \in Lens : StartPost(p, len)
  <2>1. /\ pc = "idle" /\ UNCHANGED <<dir, cur>> /\ pc' # "save"
        /\ pc' \in Posting => loc' = dir[cur]
    BY <1>3, <1>p DEF StartPost, Admit, Refuse, GiveUp, disk
  <2>2. \A b \in Boards : TopOf(b)' = TopOf(b)
    BY <2>1 DEF TopOf
  <2> QED
    BY <1>t, <2>1, <2>2 DEF Headed
<1>4. CASE \E i \in RecNums : PruneRecord(i)
  <2>1. /\ pc = "prune" /\ pc' = "prune" /\ UNCHANGED <<dir, cur>>
        /\ loc' = [loc EXCEPT !.count = OneLess(@)]
    BY <1>4 DEF PruneRecord
  <2>2. loc'.high = loc.high
    BY <1>0, <2>1 DEF DirRecord
  <2>3. \A b \in Boards : TopOf(b)' = TopOf(b)
    BY <2>1 DEF TopOf
  <2> QED
    BY <1>p, <1>i, <1>t, <2>1, <2>2, <2>3 DEF Headed
<1>5. CASE PruneSave
  <2>1. /\ pc = "prune" /\ cur' = cur /\ cur \in Boards
        /\ dir' = [dir EXCEPT ![cur] = loc]
        /\ pc' \in {"commit", "idle"} /\ (pc' = "commit" => loc' = loc)
    BY <1>0, <1>5 DEF PruneSave, Admit, Refuse, GiveUp
  <2>2. loc.high = dir[cur].high
    BY <1>i, <1>p, <2>1
  <2>3. \A b \in Boards : TopOf(b)' = TopOf(b)
    <3> SUFFICES ASSUME NEW b \in Boards PROVE TopOf(b)' = TopOf(b)
      OBVIOUS
    <3>1. dir'[b] = IF b = cur THEN loc ELSE dir[b]
      BY <1>0, <2>1
    <3> QED
      BY <2>1, <2>2, <3>1 DEF TopOf
  <2>4. pc' \in Posting => loc'.high = dir'[cur'].high
    BY <1>0, <1>p, <2>1
  <2>5. pc' # "save" /\ pc # "put"
    BY <2>1
  <2> QED
    BY <1>t, <2>3, <2>4, <2>5 DEF Headed
<1>6. CASE CommitBody
  <2>1. pc = "commit" /\ pc' = "link" /\ UNCHANGED <<dir, cur, loc>>
    BY <1>6 DEF CommitBody
  <2>2. \A b \in Boards : TopOf(b)' = TopOf(b)
    BY <2>1 DEF TopOf
  <2> QED
    BY <1>p, <1>i, <1>t, <2>1, <2>2 DEF Headed
<1>7. CASE LinkThread
  <2>1. pc = "link" /\ pc' = "put" /\ UNCHANGED <<dir, cur, loc>>
    BY <1>7 DEF LinkThread
  <2>2. \A b \in Boards : TopOf(b)' = TopOf(b)
    BY <2>1 DEF TopOf
  <2> QED
    BY <1>p, <1>i, <1>t, <2>1, <2>2 DEF Headed
<1>8. CASE PutRecord
  <2>1. /\ pc = "put" /\ pc' = "save" /\ cur \in Boards
        /\ UNCHANGED <<dir, cur, loc, new>> /\ Adds
    BY <1>0, <1>8, PutAdds DEF PutRecord
  <2>2. loc.high < new.id /\ Highest(cur, dir[cur].high)
    <3>1. TopOf(cur) = dir[cur].high /\ loc.high = dir[cur].high
      BY <1>i, <1>p, <2>1 DEF TopOf
    <3>2. Highest(cur, dir[cur].high)
      BY <1>i, <2>1, <3>1
    <3> QED
      BY <2>1, <3>1, <3>2, NumberIsNext
  <2>3. ASSUME NEW b \in Boards, b # cur
        PROVE  Highest(b, TopOf(b))'
    <3>1. TopOf(b)' = dir[b].high /\ Highest(b, dir[b].high)
      BY <1>i, <2>1, <2>3 DEF TopOf
    <3>2. idx'[b] = idx[b]
      BY <2>1, <2>3 DEF Adds, TypeOK
    <3> QED
      BY <3>1, <3>2 DEF Highest
  <2>4. Highest(cur, TopOf(cur))'
    <3>1. TopOf(cur)' = new.id /\ cur' = cur
      BY <2>1 DEF TopOf
    <3>2. idx'[cur][new.id] = NewRecord /\ new.id \in RecNums /\ new.id # 0
      BY <2>1, AddedIs, Sizes DEF Adds
    <3>3. idx'[cur][new.id].id # 0
      BY <3>2 DEF NewRecord
    <3>4. ASSUME NEW i \in RecNums, idx'[cur][i].id # 0
          PROVE  i <= new.id
      <4>0. i \in Nat /\ new.id \in Nat /\ dir[cur].high \in Nat
        BY <2>1, NewTyped, LocTyped, Sizes
      <4>1. CASE i = new.id
        BY <4>0, <4>1
      <4>2. CASE i # new.id
        <5>1. idx[cur][i].id # 0
          BY <2>1, <3>4, <4>2, RecordStep
        <5>2. i <= dir[cur].high
          BY <2>2, <5>1 DEF Highest
        <5>3. dir[cur].high < new.id
          BY <1>i, <1>p, <2>1, <2>2
        <5> QED
          BY <4>0, <5>2, <5>3
      <4> QED
        BY <4>1, <4>2
    <3> QED
      BY <3>1, <3>3, <3>4 DEF Highest
  <2>5. \A b \in Boards : Highest(b, TopOf(b))'
    <3> SUFFICES ASSUME NEW b \in Boards PROVE Highest(b, TopOf(b))'
      OBVIOUS
    <3>1. CASE b = cur
      BY <2>1, <2>4, <3>1 DEF Highest, TopOf
    <3> QED
      BY <2>3, <3>1
  <2>6. loc'.high < new'.id /\ pc' \notin Posting
    BY <1>p, <2>1, <2>2
  <2> QED
    BY <2>5, <2>6 DEF Headed
<1>9. CASE SaveBoard
  <2>1. /\ pc = "save" /\ pc' = "idle" /\ cur' = cur /\ cur \in Boards
        /\ dir' = [dir EXCEPT ![cur] = DirAfterPost(loc)]
    BY <1>0, <1>9 DEF SaveBoard, GiveUp
  <2>2. DirAfterPost(loc).high = new.id
    <3>1. loc.high < new.id
      BY <1>i, <2>1
    <3> QED
      BY <3>1 DEF DirAfterPost
  <2>3. \A b \in Boards : TopOf(b)' = TopOf(b)
    <3> SUFFICES ASSUME NEW b \in Boards PROVE TopOf(b)' = TopOf(b)
      OBVIOUS
    <3>1. dir'[b] = IF b = cur THEN DirAfterPost(loc) ELSE dir[b]
      BY <1>0, <2>1
    <3> QED
      BY <2>1, <2>2, <3>1 DEF TopOf
  <2> QED
    BY <1>p, <1>t, <2>1, <2>3 DEF Headed
<1>10. CASE KillRecord
  <2>1. pc = "idle" /\ pc' \in {"idle", "kill"} /\ UNCHANGED <<dir, cur>>
    BY <1>10 DEF KillRecord
  <2>2. \A b \in Boards : TopOf(b)' = TopOf(b)
    BY <2>1 DEF TopOf
  <2> QED
    BY <1>p, <1>t, <2>1, <2>2 DEF Headed
<1>12. CASE KillSave
  <2>1. /\ pc = "kill" /\ pc' = "idle" /\ cur' = cur /\ cur \in Boards
        /\ dir' = [dir EXCEPT ![cur].count = OneLess(@)]
    BY <1>0, <1>12 DEF KillSave
  <2>3. \A b \in Boards : TopOf(b)' = TopOf(b)
    <3> SUFFICES ASSUME NEW b \in Boards PROVE TopOf(b)' = TopOf(b)
      OBVIOUS
    <3>1. dir[b] \in DirRecord
          /\ (dir'[b] = [dir[b] EXCEPT !.count = OneLess(@)] \/ dir'[b] = dir[b])
      BY <1>0, <2>1
    <3>2. dir'[b].high = dir[b].high
      BY <3>1 DEF DirRecord
    <3> QED
      BY <2>1, <3>2 DEF TopOf
  <2> QED
    BY <1>p, <1>t, <2>1, <2>3 DEF Headed
<1>13. CASE UNCHANGED vars
  BY <1>13 DEF vars, disk, Headed, Highest, TopOf
<1> QED
  BY <1>1, <1>2, <1>3, <1>4, <1>5, <1>6, <1>7, <1>8, <1>9, <1>10,
     <1>12, <1>13, CleanSteps

(* The end of the text, in the directory or about to be saved there.        *)
EndKept ==
  /\ \A b \in Boards :
       b # cur \/ pc \notin {"link", "put", "save"} => dir[b].eof = Len(txt[b])
  /\ pc \in {"prune", "commit"} => loc.eof = dir[cur].eof
  /\ pc = "save" => new.off + new.len = Len(txt[cur])
                    /\ new.off + new.len < Word

(* So is the length of the text.                                             *)
LEMMA EndKeptStep ==
  ASSUME NothingFails, IndexInv, IndexIsBounded, IndexIsBounded', TextFits,
         TextFits', Textual, EndKept, [Next]_vars
  PROVE  EndKept'
<1> USE DEF IndexInv
<1>0. /\ dir \in [Boards -> DirRecord] /\ loc \in DirRecord
      /\ pc # "idle" => cur \in Boards
  BY DEF TypeOK, Busy
<1>i. /\ \A b \in Boards : b # cur \/ pc \notin {"link", "put", "save"}
                             => dir[b].eof = Len(txt[b])
      /\ pc \in {"prune", "commit"} => loc.eof = dir[cur].eof
      /\ pc = "save" => new.off + new.len = Len(txt[cur])
                        /\ new.off + new.len < Word
  BY DEF EndKept
<1>1. CASE \E b \in Boards : LoadBoard(b)
  BY <1>1, <1>i DEF LoadBoard, disk, EndKept
<1>2. CASE LeaveBoards \/ \E i \in RecNums : DisplayMsg(i)
  BY <1>2, <1>i DEF LeaveBoards, DisplayMsg, disk, EndKept
<1>3. CASE \E p \in RecNums \cup {0}, len \in Lens : StartPost(p, len)
  <2>1. /\ pc = "idle" /\ UNCHANGED <<dir, cur, txt>>
        /\ pc' \in {"idle", "prune", "commit"}
        /\ pc' # "idle" => loc' = dir[cur]
    BY <1>3 DEF StartPost, Admit, Refuse, GiveUp, disk
  <2> QED
    BY <1>i, <2>1 DEF EndKept
<1>4. CASE \E i \in RecNums : PruneRecord(i)
  <2>1. /\ pc = "prune" /\ pc' = "prune" /\ UNCHANGED <<dir, cur, txt>>
        /\ loc' = [loc EXCEPT !.count = OneLess(@)]
    BY <1>4 DEF PruneRecord
  <2>2. loc'.eof = loc.eof
    BY <1>0, <2>1 DEF DirRecord
  <2> QED
    BY <1>i, <2>1, <2>2 DEF EndKept
<1>5. CASE PruneSave
  <2>1. /\ pc = "prune" /\ UNCHANGED <<cur, txt>> /\ cur \in Boards
        /\ dir' = [dir EXCEPT ![cur] = loc]
        /\ pc' \in {"commit", "idle"} /\ (pc' = "commit" => loc' = loc)
    BY <1>0, <1>5 DEF PruneSave, Admit, Refuse, GiveUp
  <2>2. \A b \in Boards : dir'[b] = IF b = cur THEN loc ELSE dir[b]
    BY <1>0, <2>1
  <2> QED
    BY <1>i, <2>1, <2>2 DEF EndKept
<1>6. CASE CommitBody
  <2>1. pc = "commit" /\ pc' = "link" /\ UNCHANGED <<dir, cur, loc>>
    BY <1>6 DEF CommitBody
  <2>2. \A b \in Boards : b # cur => txt'[b] = txt[b]
    BY <1>6, CommitAppends
  <2> QED
    BY <1>i, <2>1, <2>2 DEF EndKept
<1>7. CASE LinkThread
  BY <1>7, <1>i DEF LinkThread, EndKept
<1>8. CASE PutRecord
  <2>1. /\ pc = "put" /\ pc' = "save" /\ cur \in Boards
        /\ UNCHANGED <<dir, cur, loc, new, txt>> /\ Adds
    BY <1>0, <1>8, PutAdds DEF PutRecord
  <2>2. new.off + new.len = Len(txt[cur])
    BY <2>1 DEF Textual
  <2>3. new.off + new.len < Word
    <3>1. new.id \in RecNums /\ idx'[cur][new.id] = NewRecord
      BY <2>1, AddedIs
    <3>2. idx'[cur][new.id].off + idx'[cur][new.id].len < Word
      BY <2>1, <3>1 DEF TextFits
    <3> QED
      BY <3>1, <3>2 DEF NewRecord
  <2> QED
    BY <1>i, <2>1, <2>2, <2>3 DEF EndKept
<1>9. CASE SaveBoard
  <2>1. /\ pc = "save" /\ pc' = "idle" /\ UNCHANGED <<cur, txt>> /\ cur \in Boards
        /\ dir' = [dir EXCEPT ![cur] = DirAfterPost(loc)]
    BY <1>0, <1>9 DEF SaveBoard, GiveUp
  <2>2. DirAfterPost(loc).eof = Len(txt[cur])
    <3>1. new.off + new.len = Len(txt[cur]) /\ new.off + new.len < Word
      BY <1>i, <2>1
    <3>2. (new.off + new.len) % Word = new.off + new.len
      <4>1. \A n \in Nat : n < Word => n % Word = n
        BY Sizes
      <4>2. new.off + new.len \in Nat
        BY NewTyped
      <4> QED
        BY <3>1, <4>1, <4>2
    <3> QED
      BY <3>1, <3>2 DEF DirAfterPost
  <2>3. \A b \in Boards : dir'[b] = IF b = cur THEN DirAfterPost(loc) ELSE dir[b]
    BY <1>0, <2>1
  <2> QED
    BY <1>i, <2>1, <2>2, <2>3 DEF EndKept
<1>10. CASE KillRecord
  BY <1>10, <1>i DEF KillRecord, EndKept
<1>12. CASE KillSave
  <2>1. /\ pc = "kill" /\ pc' = "idle" /\ UNCHANGED <<cur, txt>> /\ cur \in Boards
        /\ dir' = [dir EXCEPT ![cur].count = OneLess(@)]
    BY <1>0, <1>12 DEF KillSave
  <2>2. \A b \in Boards : dir'[b].eof = dir[b].eof
    <3> SUFFICES ASSUME NEW b \in Boards PROVE dir'[b].eof = dir[b].eof
      OBVIOUS
    <3>1. dir[b] \in DirRecord
          /\ (dir'[b] = [dir[b] EXCEPT !.count = OneLess(@)] \/ dir'[b] = dir[b])
      BY <1>0, <2>1
    <3> QED
      BY <3>1 DEF DirRecord
  <2> QED
    BY <1>i, <2>1, <2>2 DEF EndKept
<1>13. CASE UNCHANGED vars
  BY <1>13 DEF vars, disk, EndKept
<1> QED
  BY <1>1, <1>2, <1>3, <1>4, <1>5, <1>6, <1>7, <1>8, <1>9, <1>10,
     <1>12, <1>13, CleanSteps

-----------------------------------------------------------------------------
(* What was posted.                                                         *)

(* The bytes of a text from off on are len times tag.                       *)
InText(b, off, len, tag) ==
  /\ off + len <= Len(txt[b])
  /\ \A k \in 1..len : txt[b][off + k] = tag

Appended == pc \in {"link", "put", "save"} => InText(cur, new.off, new.len, new.tag)

Recorded ==
  pc = "save" =>
    LET r == idx[cur][new.id]
    IN  /\ new.id \in RecNums /\ r.id = new.id /\ r.parent = new.parent
        /\ r.len = new.len /\ r.off = new.off

ReadBack ==
  \A p \in posts :
    LET r == idx[p.board][p.id]
    IN  /\ p.id \in RecNums /\ r.id = p.id /\ r.parent = p.parent
        /\ r.len = p.len /\ InText(p.board, r.off, p.len, p.tag)

(* Text that is in a file stays where it is.                                 *)
LEMMA InTextStays ==
  ASSUME NothingFails, IndexInv, IndexIsBounded, TextFits, Textual, [Next]_vars,
         NEW b \in Boards, NEW off \in Nat, NEW len \in Nat, NEW tag \in Nat,
         InText(b, off, len, tag)
  PROVE  /\ off + len <= Len(txt'[b])
         /\ \A k \in 1..len : txt'[b][off + k] = tag
<1>1. CASE txt'[b] = txt[b]
  BY <1>1 DEF InText
<1>2. CASE CommitBody /\ b = cur
  <2>1. /\ Len(txt'[b]) = Len(txt[b]) + new.len
        /\ \A k \in 1..Len(txt[b]) : txt'[b][k] = txt[b][k]
    BY <1>2, CommitAppends
  <2>2. new.len \in Nat /\ Len(txt[b]) \in Nat
    BY NewTyped DEF IndexInv, TypeOK
  <2>3. off + len <= Len(txt[b]) /\ \A k \in 1..len : txt[b][off + k] = tag
    BY DEF InText
  <2>4. ASSUME NEW k \in 1..len
        PROVE  txt'[b][off + k] = tag
    <3>1. off + k \in 1..Len(txt[b])
      BY <2>2, <2>3
    <3> QED
      BY <2>1, <2>3, <3>1
  <2>5. off + len <= Len(txt'[b])
    BY <2>1, <2>2, <2>3
  <2> QED
    BY <2>4, <2>5 DEF InText
<1>3. CASE CommitBody /\ b # cur
  BY <1>1, <1>3, CommitAppends
<1> QED
  BY <1>1, <1>2, <1>3, TextStep

(* The text in work is in the file until its record is written.              *)
LEMMA AppendedStep ==
  ASSUME NothingFails, IndexInv, IndexIsBounded, IndexIsBounded', TextFits,
         Textual, Appended, Recorded, [Next]_vars
  PROVE  Appended' /\ Recorded'
<1> USE DEF IndexInv
<1>n. new.off \in Nat /\ new.len \in Nat /\ new.tag \in Nat
  BY NewTyped
<1>1. CASE CommitBody
  <2>1. pc' = "link" /\ cur' = cur /\ cur \in Boards
    BY <1>1 DEF CommitBody, Busy
  <2>2. /\ new'.off = Len(txt[cur]) /\ new'.len = new.len /\ new'.tag = new.tag
        /\ Len(txt'[cur]) = Len(txt[cur]) + new.len
        /\ \A k \in 1..new.len : txt'[cur][Len(txt[cur]) + k] = new.tag
    BY <1>1, CommitAppends
  <2>3. Len(txt[cur]) \in Nat
    BY <2>1 DEF TypeOK
  <2>4. /\ new'.off + new'.len <= Len(txt'[cur])
        /\ \A k \in 1..new'.len : txt'[cur][new'.off + k] = new'.tag
    BY <1>n, <2>2, <2>3
  <2> QED
    BY <2>1, <2>4 DEF Appended, Recorded, InText
<1>2. CASE LinkThread /\ new'.off = new.off /\ new'.len = new.len
           /\ new'.tag = new.tag
  <2>1. pc = "link" /\ pc' = "put" /\ UNCHANGED <<cur, txt>>
    BY <1>2 DEF LinkThread
  <2> QED
    BY <1>2, <2>1 DEF Appended, Recorded, InText
<1>3. CASE PutRecord
  <2>1. /\ pc = "put" /\ pc' = "save" /\ UNCHANGED <<txt, new, cur>> /\ Adds
    BY <1>3, PutAdds DEF PutRecord
  <2>2. new.id \in RecNums /\ idx'[cur][new.id] = NewRecord
    BY <2>1, AddedIs
  <2>3. Recorded'
    BY <2>1, <2>2 DEF Recorded, NewRecord
  <2>4. Appended'
    BY <2>1 DEF Appended, InText
  <2> QED
    BY <2>3, <2>4
<1>4. CASE SaveBoard
  <2>1. pc' = "idle"
    BY <1>4 DEF SaveBoard, GiveUp
  <2> QED
    BY <2>1 DEF Appended, Recorded
<1>5. CASE UNCHANGED vars
  BY <1>5 DEF vars, disk, Appended, Recorded, InText
<1>6. CASE pc' \notin {"link", "put", "save"}
  BY <1>6 DEF Appended, Recorded
<1> QED
  BY <1>1, <1>2, <1>3, <1>4, <1>5, <1>6, WriterStep

(* Only the last write of msg_post reports a message as posted.              *)
LEMMA PostMoves ==
  ASSUME NothingFails, TypeOK, [Next]_vars
  PROVE  UNCHANGED posts \/ SaveBoard
<1>1. CommitBody \/ LinkThread \/ PutRecord => UNCHANGED posts
  BY DEF CommitBody, LinkThread, PutRecord
<1>2. UNCHANGED vars => UNCHANGED posts
  BY DEF vars
<1> QED
  BY <1>1, <1>2, WriterStep

(* What was reported is read back after every later step.                    *)
LEMMA ReadBackStep ==
  ASSUME NothingFails, IndexInv, IndexIsBounded, IndexIsBounded', TextFits,
         Textual, Appended, Recorded, ReadBack, [Next]_vars
  PROVE  ReadBack'
<1> USE DEF IndexInv
<1>1. ASSUME NEW p \in posts
      PROVE  LET r == idx'[p.board][p.id]
             IN  /\ p.id \in RecNums /\ r.id = p.id /\ r.parent = p.parent
                 /\ r.len = p.len
                 /\ r.off + p.len <= Len(txt'[p.board])
                 /\ \A k \in 1..p.len : txt'[p.board][r.off + k] = p.tag
  <2>1. p.board \in Boards /\ p.len \in Nat /\ p.tag \in Nat
    <3>1. p \in [board : Boards, id : 0..(MaxPerBoard + 1), tag : Nat,
                 parent : 0..(MaxPerBoard + 1), len : 0..MaxLen]
      BY DEF TypeOK
    <3> QED
      BY <3>1, Sizes
  <2>2. /\ p.id \in RecNums /\ idx[p.board][p.id].id = p.id
        /\ idx[p.board][p.id].parent = p.parent
        /\ idx[p.board][p.id].len = p.len
        /\ InText(p.board, idx[p.board][p.id].off, p.len, p.tag)
    BY DEF ReadBack
  <2>3. p.id # 0 /\ idx[p.board][p.id].off \in Nat
    BY <2>1, <2>2, FieldsTyped, Sizes
  <2>4. Kept(idx[p.board][p.id], idx'[p.board][p.id])
    BY <2>1, <2>2, <2>3, RecordStep
  <2>5. /\ idx[p.board][p.id].off + p.len <= Len(txt'[p.board])
        /\ \A k \in 1..p.len :
             txt'[p.board][idx[p.board][p.id].off + k] = p.tag
    <3>1. /\ p.board \in Boards /\ p.len \in Nat /\ p.tag \in Nat
          /\ idx[p.board][p.id].off \in Nat
          /\ InText(p.board, idx[p.board][p.id].off, p.len, p.tag)
      BY ONLY <2>1, <2>2, <2>3
    <3>2. NothingFails /\ IndexInv /\ IndexIsBounded /\ TextFits /\ Textual /\ [Next]_vars
      OBVIOUS
    <3> HIDE DEF IndexInv
    <3>3. ASSUME NEW b \in Boards, NEW off \in Nat, NEW len \in Nat, NEW tag \in Nat,
                 InText(b, off, len, tag)
          PROVE  /\ off + len <= Len(txt'[b])
                 /\ \A k \in 1..len : txt'[b][off + k] = tag
      BY ONLY <3>2, <3>3, InTextStays
    <3>4. \A b \in Boards : \A off, len, tag \in Nat :
            InText(b, off, len, tag) =>
              /\ off + len <= Len(txt'[b])
              /\ \A k \in 1..len : txt'[b][off + k] = tag
      BY ONLY <3>3
    <3>5. \A off, len, tag \in Nat :
            InText(p.board, off, len, tag) =>
              /\ off + len <= Len(txt'[p.board])
              /\ \A k \in 1..len : txt'[p.board][off + k] = tag
      BY ONLY <3>1, <3>4
    <3>6. \A off \in Nat :
            InText(p.board, off, p.len, p.tag) =>
              /\ off + p.len <= Len(txt'[p.board])
              /\ \A k \in 1..p.len : txt'[p.board][off + k] = p.tag
      BY ONLY <3>1, <3>5
    <3> QED
      BY ONLY <3>1, <3>6
  <2> QED
    BY <2>2, <2>4, <2>5 DEF Kept
<1>2. CASE UNCHANGED posts
  BY <1>1, <1>2 DEF ReadBack, InText
<1>3. CASE SaveBoard
  <2> DEFINE q == [board |-> cur, id |-> new.id, tag |-> new.tag,
                   parent |-> new.parent, len |-> new.len]
  <2>1. /\ pc = "save" /\ UNCHANGED <<idx, txt>> /\ posts' = posts \cup {q}
    BY <1>3 DEF SaveBoard
  <2>2. /\ q.id \in RecNums /\ idx'[q.board][q.id].id = q.id
        /\ idx'[q.board][q.id].parent = q.parent
        /\ idx'[q.board][q.id].len = q.len
        /\ idx'[q.board][q.id].off = new.off
    BY <2>1 DEF Recorded
  <2>3. /\ new.off + q.len <= Len(txt'[q.board])
        /\ \A k \in 1..q.len : txt'[q.board][new.off + k] = q.tag
    BY <2>1 DEF Appended, InText
  <2>4. \A p \in posts' : p \in posts \/ p = q
    BY <2>1
  <2> HIDE DEF q
  <2> SUFFICES ASSUME NEW p \in posts'
               PROVE  LET r == idx'[p.board][p.id]
                      IN  /\ p.id \in RecNums /\ r.id = p.id
                          /\ r.parent = p.parent /\ r.len = p.len
                          /\ r.off + p.len <= Len(txt'[p.board])
                          /\ \A k \in 1..p.len :
                               txt'[p.board][r.off + k] = p.tag
    BY DEF ReadBack, InText
  <2>5. CASE p \in posts
    BY <1>1, <2>5
  <2>6. CASE p = q
    BY <2>2, <2>3, <2>6
  <2> QED
    BY <2>4, <2>5, <2>6
<1> QED
  BY <1>2, <1>3, PostMoves

-----------------------------------------------------------------------------
(* Replies.                                                                 *)

Children(b, i) == {j \in RecNums : idx[b][j].id # 0 /\ idx[b][j].parent = i}

(* A reply is counted one step before it is there.                          *)
RepliesOwed ==
  \A b \in Boards : \A i \in RecNums :
    idx[b][i].replies =
      Cardinality(Children(b, i))
        + (IF pc = "put" /\ b = cur /\ i = new.parent THEN 1 ELSE 0)

(* Replies can be counted.                                                   *)
LEMMA ChildrenFinite ==
  ASSUME NEW b \in Boards, NEW i
  PROVE  IsFiniteSet(Children(b, i)) /\ Cardinality(Children(b, i)) \in Nat
<1>1. IsFiniteSet(RecNums)
  BY Sizes, FS_Interval
<1>2. Children(b, i) \subseteq RecNums
  BY DEF Children
<1> QED
  BY <1>1, <1>2, FS_Subset, FS_CardinalityType

(* Only the record that is added becomes a child, and only of its parent.   *)
LEMMA ChildrenStep ==
  ASSUME IndexInv, IndexIsBounded, IndexIsBounded', [Next]_vars,
         NEW b \in Boards, NEW i \in RecNums
  PROVE  Cardinality(Children(b, i))' =
           IF Adds /\ b = cur /\ i = new.parent
           THEN Cardinality(Children(b, i)) + 1
           ELSE Cardinality(Children(b, i))
<1> USE DEF IndexInv
<1>0. /\ IsFiniteSet(Children(b, i)) /\ Cardinality(Children(b, i)) \in Nat
  BY ChildrenFinite
<1>1. \A j \in RecNums :
        (idx'[b][j].id # 0 /\ idx'[b][j].parent = i)
          <=> \/ idx[b][j].id # 0 /\ idx[b][j].parent = i
              \/ Adds /\ b = cur /\ j = new.id /\ i = new.parent
  <2> SUFFICES ASSUME NEW j \in RecNums
               PROVE  (idx'[b][j].id # 0 /\ idx'[b][j].parent = i)
                        <=> \/ idx[b][j].id # 0 /\ idx[b][j].parent = i
                            \/ Adds /\ b = cur /\ j = new.id /\ i = new.parent
    OBVIOUS
  <2>1. CASE Adds /\ b = cur /\ j = new.id
    <3>1. idx'[b][j] = NewRecord /\ idx[b][j].id = 0 /\ new.id # 0
      BY <2>1, AddedIs, Sizes DEF Adds, Numbered
    <3> QED
      BY <2>1, <3>1 DEF NewRecord
  <2>2. CASE ~(Adds /\ b = cur /\ j = new.id)
    BY <2>2, RecordStep DEF Kept
  <2> QED
    BY <2>1, <2>2
<1>2. CASE Adds /\ b = cur /\ i = new.parent
  <2>1. new.id \in RecNums /\ idx[b][new.id].id = 0
    BY <1>2, AddedIs DEF Adds, Numbered
  <2>2. Children(b, i)' = Children(b, i) \cup {new.id}
        /\ new.id \notin Children(b, i)
    BY <1>1, <1>2, <2>1 DEF Children
  <2>3. Cardinality(Children(b, i)')
          = Cardinality(Children(b, i)) + 1
    BY <1>0, <2>2, FS_AddElement
  <2> QED
    BY <1>2, <2>3
<1>3. CASE ~(Adds /\ b = cur /\ i = new.parent)
  <2>1. Children(b, i)' = Children(b, i)
    BY <1>1, <1>3 DEF Children
  <2> QED
    BY <1>3, <2>1
<1> QED
  BY <1>2, <1>3

(* The counter of a message is one ahead of its replies only while the reply *)
(* is written.                                                               *)
LEMMA RepliesOwedStep ==
  ASSUME NothingFails, IndexInv, IndexIsBounded, IndexIsBounded', RepliesFit,
         RepliesOwed, [Next]_vars
  PROVE  RepliesOwed'
<1> USE DEF IndexInv
<1> SUFFICES ASSUME NEW b \in Boards, NEW i \in RecNums
             PROVE  idx'[b][i].replies =
                      Cardinality(Children(b, i))'
                        + (IF pc' = "put" /\ b = cur' /\ i = new'.parent
                           THEN 1 ELSE 0)
  BY DEF RepliesOwed
<1>0. Cardinality(Children(b, i)) \in Nat
  BY ChildrenFinite
<1>1. idx[b][i].replies =
        Cardinality(Children(b, i))
          + (IF pc = "put" /\ b = cur /\ i = new.parent THEN 1 ELSE 0)
  BY DEF RepliesOwed
<1>2. CASE LinkThread /\ (IF new.parent = 0 THEN UNCHANGED idx ELSE Counts)
  <2>1. pc = "link" /\ pc' = "put" /\ cur' = cur /\ ~Adds
    BY <1>2 DEF LinkThread, Adds
  <2>2. new'.parent = new.parent
    BY <2>1, PostingStep
  <2>3. Cardinality(Children(b, i))' = Cardinality(Children(b, i))
    BY <2>1, ChildrenStep
  <2>4. i # 0 /\ idx[b][i].replies \in Nat
    BY FieldsTyped, Sizes
  <2>5. CASE b = cur /\ i = new.parent
    <3>1. Counts
      BY <1>2, <2>4, <2>5
    <3>2. idx'[b][i].replies = idx[b][i].replies + 1
      <4>1. idx'[b][i] = CountReply(idx[b][i]) /\ idx[b][i] \in IndexRecord
        BY <2>5, <3>1, FieldsTyped DEF Counts, TypeOK
      <4>2. idx'[b][i].replies = (idx[b][i].replies + 1) % 256
        BY <4>1 DEF CountReply, IndexRecord
      <4>3. idx[b][i].replies < 255
        BY DEF RepliesFit
      <4> QED
        BY <2>4, <4>2, <4>3
    <3> QED
      BY <1>0, <1>1, <2>1, <2>2, <2>3, <2>5, <3>2
  <2>6. CASE ~(b = cur /\ i = new.parent)
    <3>1. idx'[b][i].replies = idx[b][i].replies
      BY <2>1, <2>6, RepliesStep
    <3> QED
      BY <1>0, <1>1, <2>1, <2>2, <2>3, <2>6, <3>1
  <2> QED
    BY <2>5, <2>6
<1>3. CASE PutRecord /\ Adds
  <2>1. pc = "put" /\ pc' = "save" /\ cur' = cur /\ ~Counts
    BY <1>3 DEF PutRecord, Counts
  <2>2. Cardinality(Children(b, i))' =
          IF b = cur /\ i = new.parent THEN Cardinality(Children(b, i)) + 1
          ELSE Cardinality(Children(b, i))
    BY <1>3, ChildrenStep
  <2>3. idx'[b][i].replies = idx[b][i].replies
    <3>1. CASE b = cur /\ i = new.id
      <4>1. idx[b][i] = Absent
        BY <1>3, <3>1 DEF Numbered, Dense, Adds
      <4>2. idx'[b][i] = NewRecord
        BY <1>3, <3>1, AddedIs
      <4> QED
        BY <4>1, <4>2 DEF Absent, NewRecord
    <3>2. CASE ~(b = cur /\ i = new.id)
      BY <2>1, <3>2, RepliesStep
    <3> QED
      BY <3>1, <3>2
  <2> QED
    BY <1>0, <1>1, <2>1, <2>2, <2>3
<1>4. CASE UNCHANGED vars
  BY <1>1, <1>4 DEF vars, disk, Children
<1>5. CASE pc # "put" /\ pc' # "put"
  <2>1. ~Adds /\ ~Counts
    BY <1>5 DEF Adds, Counts
  <2> QED
    BY <1>0, <1>1, <1>5, <2>1, ChildrenStep, RepliesStep
<1>6. CASE CommitBody \/ SaveBoard
  BY <1>5, <1>6 DEF CommitBody, SaveBoard, GiveUp
<1>7. LinkThread => (IF new.parent = 0 THEN UNCHANGED idx ELSE Counts)
  <2> SUFFICES ASSUME LinkThread
               PROVE  IF new.parent = 0 THEN UNCHANGED idx ELSE Counts
    OBVIOUS
  <2>1. pc = "link" /\ pc' = "put"
    BY DEF LinkThread
  <2>2. CASE UNCHANGED vars
    BY <2>1, <2>2 DEF vars
  <2> QED
    BY <2>1, <2>2, CleanSteps
       DEF LoadBoard, LeaveBoards, DisplayMsg, StartPost, PruneRecord, PruneSave,
           CommitBody, PutRecord, SaveBoard, KillRecord, KillSave
<1> QED
  BY <1>2, <1>3, <1>4, <1>5, <1>6, <1>7, WriterStep, PutAdds

-----------------------------------------------------------------------------
(* The invariant of a message base in which nothing fails.                  *)

CleanInv ==
  /\ IndexInv /\ Behind /\ Counted /\ Pruning /\ Limited
  /\ Textual /\ Headed /\ EndKept /\ Appended /\ Recorded /\ ReadBack

Roomy == IndexIsBounded /\ TextFits

(* The invariant of runs in which nothing fails holds at first.              *)
LEMMA CleanInit == Init => CleanInv
<1> SUFFICES ASSUME Init PROVE CleanInv
  OBVIOUS
<1>1. IndexInv
  BY IndexInit
<1>2. /\ pc = "idle" /\ scan = 1 /\ pruned = 0 /\ posts = {}
      /\ \A b \in Boards : txt[b] = << >> /\ dir[b] = EmptyDir
      /\ \A b \in Boards : \A i \in RecNums : idx[b][i] = Absent
  BY DEF Init
<1>3. Behind /\ Pruning /\ Appended /\ Recorded /\ ReadBack
  BY <1>2 DEF Behind, Pruning, Appended, Recorded, ReadBack
<1>4. Limited
  <2>1. \A b \in Boards : dir[b].count = 0
    BY <1>2 DEF EmptyDir
  <2>2. Limit \in 1..255
    BY MsgBaseAssumption
  <2>3. \A b \in Boards : dir[b].count <= Limit
    BY ONLY <2>1, <2>2
  <2>4. pc \notin {"commit", "link", "put", "save"}
    BY ONLY <1>2
  <2> QED
    BY ONLY <2>3, <2>4 DEF Limited
<1>5. Counted
  <2>1. \A b \in Boards : Live(b) = {}
    <3>1. ~IsLive(Absent)
      BY DEF IsLive, Absent
    <3>2. \A b \in Boards : \A i \in RecNums : ~IsLive(idx[b][i])
      BY ONLY <1>2, <3>1
    <3> QED
      BY ONLY <3>2 DEF Live
  <2>2. \A b \in Boards : Size(b) = 0
    BY <2>1, FS_EmptySet DEF Size
  <2>3. \A b \in Boards : Held(b) = 0
    BY <1>2 DEF Held, EmptyDir
  <2> QED
    BY <2>2, <2>3 DEF Counted
<1>6. Textual
  BY <1>2 DEF Textual, EndOf, Absent
<1>7. Headed
  BY <1>2 DEF Headed, Highest, TopOf, EmptyDir, Absent, Posting
<1>8. EndKept
  BY <1>2 DEF EndKept, EmptyDir
<1> QED
  BY <1>1, <1>3, <1>4, <1>5, <1>6, <1>7, <1>8 DEF CleanInv

(* And every step keeps it.                                                  *)
LEMMA CleanStep ==
  ASSUME NothingFails, CleanInv, Roomy, Roomy', [Next]_vars
  PROVE  CleanInv'
<1> USE DEF CleanInv, Roomy
<1>1. IndexInv' /\ Behind'
  BY NothingFailsReads, IndexInvStep, BehindStep
<1>2. Counted' /\ Pruning' /\ Limited'
  BY CountedStep, PruningStep
<1>3. Textual' /\ Headed' /\ EndKept'
  BY TextualStep, HeadedStep, EndKeptStep
<1>4. Appended' /\ Recorded' /\ ReadBack'
  BY AppendedStep, ReadBackStep
<1> QED
  BY <1>1, <1>2, <1>3, <1>4

(* So it always holds.                                                       *)
LEMMA CleanAlways ==
  ASSUME NothingFails
  PROVE  Spec /\ []Roomy => []CleanInv
<1>1. CleanInv /\ Roomy /\ Roomy' /\ [Next]_vars => CleanInv'
  BY CleanStep
<1> QED
  BY CleanInit, <1>1, PTL DEF Spec

(* When nothing fails the cached count of a board, which the limit and the  *)
(* listing go by, is the number of messages there are.                      *)
THEOREM CountIsExact ==
  ASSUME NothingFails
  PROVE  Spec /\ []Roomy => []CountIsLive
<1>1. CleanInv => CountIsLive
  BY DEF CleanInv, Counted, Held, Size, CountIsLive
<1> QED
  BY <1>1, CleanAlways, PTL

(* The cached highest number and text length are those of the files.        *)
THEOREM HeaderStaysExact ==
  ASSUME NothingFails
  PROVE  Spec /\ []Roomy => []HeaderIsExact
<1>1. CleanInv => HeaderIsExact
  <2> SUFFICES ASSUME CleanInv, pc = "idle", NEW b \in Boards
               PROVE  /\ IsMax(dir[b].high, {idx[b][i].id : i \in RecNums})
                      /\ dir[b].eof = Len(txt[b])
    BY DEF HeaderIsExact
  <2>1. dir[b].eof = Len(txt[b])
    BY DEF CleanInv, EndKept
  <2>2. Highest(b, dir[b].high)
    BY DEF CleanInv, Headed, TopOf
  <2> DEFINE S == {idx[b][i].id : i \in RecNums}  h == dir[b].high
  <2>3. /\ h \in 0..(MaxPerBoard + 1) /\ 1 \in RecNums
        /\ h # 0 => h \in RecNums
        /\ RecNums \subseteq Nat /\ \A i \in RecNums : i >= 1
    <3>1. dir[b] \in DirRecord
      BY DEF CleanInv, IndexInv, TypeOK
    <3>2. h \in 0..(MaxPerBoard + 1)
      BY <3>1 DEF DirRecord
    <3> QED
      BY <3>2, Sizes
  <2>4. /\ \A i \in RecNums : idx[b][i].id = 0 \/ idx[b][i].id = i
        /\ \A i \in RecNums : idx[b][i].id # 0 => i <= h
        /\ h # 0 => idx[b][h].id # 0
    BY <2>2 DEF Highest, CleanInv, IndexInv, Dense
  <2>n. h \in Nat
    BY <2>3, Sizes
  <2> HIDE DEF h
  <2>5. \A x \in S : x <= h
    BY <2>3, <2>n, <2>4
  <2>6. h \in S
    <3>1. CASE h = 0
      <4>1. ~(1 <= h)
        BY <3>1
      <4>2. idx[b][1].id = 0
        BY <2>3, <2>4, <4>1
      <4> QED
        BY <2>3, <3>1, <4>2
    <3>2. CASE h # 0
      <4>1. idx[b][h].id = h /\ h \in RecNums
        BY <2>3, <2>4, <3>2
      <4> QED
        BY <4>1
    <3> QED
      BY <3>1, <3>2
  <2>7. S # {}
    BY <2>6
  <2> HIDE DEF S
  <2>8. IsMax(h, S)
    BY <2>5, <2>6, <2>7 DEF IsMax
  <2> QED
    BY <2>1, <2>8 DEF S, h
<1> QED
  BY <1>1, CleanAlways, PTL

(* Every message msg_post reported as posted can still be found under its   *)
(* number, with its parent and every byte of its text.                      *)
THEOREM PostsReadBack ==
  ASSUME NothingFails
  PROVE  Spec /\ []Roomy => []EveryPostReadsBack
<1>1. CleanInv => EveryPostReadsBack
  <2> SUFFICES ASSUME CleanInv, NEW p \in posts
               PROVE  LET r == idx[p.board][p.id]
                      IN  /\ r.id = p.id /\ r.parent = p.parent
                          /\ r.len = p.len
                          /\ Body(p.board, r) = [j \in 1..p.len |-> p.tag]
    BY DEF EveryPostReadsBack
  <2> DEFINE r == idx[p.board][p.id]
  <2>0. p.board \in Boards /\ p.len \in Nat
    <3>1. p \in [board : Boards, id : 0..(MaxPerBoard + 1), tag : Nat,
                 parent : 0..(MaxPerBoard + 1), len : 0..MaxLen]
      BY DEF TypeOK, CleanInv, IndexInv
    <3> QED
      BY <3>1, Sizes
  <2>1. /\ p.id \in RecNums /\ r.id = p.id /\ r.parent = p.parent
        /\ r.len = p.len /\ InText(p.board, r.off, p.len, p.tag)
    BY DEF CleanInv, ReadBack
  <2>2. r.off \in Nat /\ Len(txt[p.board]) \in Nat
    BY <2>0, <2>1, FieldsTyped DEF CleanInv, IndexInv, TypeOK
  <2>3. r.off + p.len <= Len(txt[p.board])
        /\ \A k \in 1..p.len : txt[p.board][r.off + k] = p.tag
    BY <2>1 DEF InText
  <2> HIDE DEF r
  <2>4. {k \in 1..r.len : r.off + k <= Len(txt[p.board])} = 1..p.len
    BY <2>0, <2>1, <2>2, <2>3
  <2>5. Body(p.board, r) = [j \in 1..p.len |-> p.tag]
    BY <2>3, <2>4 DEF Body
  <2> QED
    BY <2>1, <2>5 DEF r
<1> QED
  BY <1>1, CleanAlways, PTL

(* A message dies only under the reader who kills it or as the oldest one   *)
(* there is.                                                                *)
THEOREM OldestDieFirst ==
  ASSUME NothingFails
  PROVE  Spec /\ []Roomy => OldestGoFirst
<1>1. CleanInv /\ Roomy /\ Roomy' /\ [Next]_vars
        => [\A b \in Boards : \A i \in RecNums :
              IsLive(idx[b][i]) /\ ~IsLive(idx'[b][i])
                => \/ b = cur /\ i = curMsg /\ pc = "idle"
                   \/ \A j \in 1..(i - 1) : ~IsLive(idx[b][j])]_vars
  BY OldestStep DEF CleanInv, Roomy
<1> QED
  BY <1>1, CleanAlways, PTL DEF Spec, OldestGoFirst

(* A message's reply count is the number of its replies, while none has 255. *)
THEOREM RepliesStayCounted ==
  ASSUME NothingFails
  PROVE  Spec /\ []InRoom => []RepliesAreCounted
<1>1. Init => RepliesOwed
  <2> SUFFICES ASSUME Init, NEW b \in Boards, NEW i \in RecNums
               PROVE  idx[b][i].replies = Cardinality(Children(b, i)) + 0
    BY DEF RepliesOwed, Init
  <2>1. idx[b][i].replies = 0
    BY DEF Init, Absent
  <2>2. Children(b, i) = {}
    BY DEF Init, Absent, Children
  <2> QED
    BY <2>1, <2>2, FS_EmptySet
<1>2. CleanInv /\ InRoom /\ InRoom' /\ RepliesOwed /\ [Next]_vars
        => RepliesOwed'
  BY RepliesOwedStep DEF CleanInv, InRoom
<1>3. InRoom => Roomy
  BY DEF InRoom, Roomy
<1>4. RepliesOwed => RepliesAreCounted
  <2> SUFFICES ASSUME RepliesOwed, pc = "idle", NEW b \in Boards, NEW i \in RecNums
               PROVE  idx[b][i].replies = Cardinality(Children(b, i))
    BY DEF RepliesAreCounted, Children
  <2>1. Cardinality(Children(b, i)) \in Nat
    BY ChildrenFinite
  <2> QED
    BY <2>1 DEF RepliesOwed
<1> QED
  BY <1>1, <1>2, <1>3, <1>4, CleanAlways, PTL DEF Spec

-----------------------------------------------------------------------------
(* The message base implements MessageBoards.                               *)

(* A message in work is one the editor can hand over.                       *)
Sending == pc \in Posting => new.len \in Lens /\ new.tag \in 1..MaxPosts

(* It stays so until the record is written.                                  *)
LEMMA SendingStep ==
  ASSUME NothingFails, TypeOK, Sending, [Next]_vars
  PROVE  Sending'
<1>0. sent \in Nat /\ MaxPosts \in Nat
  BY MsgBaseAssumption DEF TypeOK
<1>1. CASE (\E b \in Boards : LoadBoard(b)) \/ LeaveBoards
           \/ (\E i \in RecNums : DisplayMsg(i))
  BY <1>1 DEF LoadBoard, LeaveBoards, DisplayMsg, Sending, Posting
<1>2. ASSUME NEW p \in RecNums \cup {0}, NEW len \in Lens, StartPost(p, len)
      PROVE  Sending'
  <2> DEFINE post == [NoPost EXCEPT !.tag = sent + 1, !.parent = p,
                                    !.len = len]
  <2>1. post.len = len /\ post.tag = sent + 1
    BY DEF NoPost
  <2>2. sent + 1 \in 1..MaxPosts
    BY <1>0, <1>2 DEF StartPost
  <2>3. pc' = "idle" \/ new' = post
    BY <1>2 DEF StartPost, Admit, Refuse, GiveUp
  <2> HIDE DEF post
  <2> QED
    BY <2>1, <2>2, <2>3 DEF Sending, Posting
<1>3. CASE \E i \in RecNums : PruneRecord(i)
  BY <1>3 DEF PruneRecord, Sending, Posting
<1>4. CASE PruneSave
  BY <1>4 DEF PruneSave, Admit, Refuse, GiveUp, Sending, Posting
<1>5. CASE CommitBody
  <2>1. PICK off : new' = [new EXCEPT !.off = off]
    BY <1>5 DEF CommitBody
  <2>2. new'.len = new.len /\ new'.tag = new.tag
    BY <2>1 DEF TypeOK, PostRecord
  <2> QED
    BY <1>5, <2>2 DEF CommitBody, Sending, Posting
<1>6. CASE LinkThread
  <2>1. PICK id : new' = [new EXCEPT !.id = id, !.root = RootOf(id)]
    BY <1>6 DEF LinkThread
  <2>2. new'.len = new.len /\ new'.tag = new.tag
    BY <2>1 DEF TypeOK, PostRecord
  <2> QED
    BY <1>6, <2>2 DEF LinkThread, Sending, Posting
<1>7. CASE PutRecord \/ SaveBoard \/ KillRecord \/ KillSave
  BY <1>7 DEF PutRecord, SaveBoard, KillRecord, KillSave, GiveUp, Sending, Posting
<1>8. ~DiskError /\ ~Crash
  BY DEF DiskError, Crash, NothingFails
<1>9. CASE UNCHANGED vars
  BY <1>9 DEF vars, Sending, Posting
<1> QED
  BY <1>1, <1>2, <1>3, <1>4, <1>5, <1>6, <1>7, <1>8, <1>9 DEF Next

(* The records in use are the first ones, so they are numbered as the shelf *)
(* numbers them.                                                            *)
LEMMA KnownIsTop ==
  ASSUME CleanInv, NEW b \in Boards
  PROVE  /\ Known(b) = 1..TopOf(b) /\ Cardinality(Known(b)) = TopOf(b)
         /\ TopOf(b) \in Nat /\ 1..TopOf(b) \subseteq RecNums
<1> DEFINE h == TopOf(b)
<1>1. h \in 0..(MaxPerBoard + 1) /\ MaxPerBoard \in Nat
      /\ RecNums = 1..(MaxPerBoard + 1)
  BY TopOfTyped, Sizes DEF CleanInv, IndexInv
<1>2. /\ h # 0 => idx[b][h].id # 0
      /\ \A i \in RecNums : idx[b][i].id # 0 => i <= h
  BY DEF CleanInv, Headed, Highest
<1>3. \A i \in RecNums : idx[b][i].id # 0 => \A j \in 1..(i - 1) : idx[b][j].id # 0
  BY DEF CleanInv, IndexInv, Dense
<1> HIDE DEF h
<1>4. \A i \in 1..h : i \in RecNums /\ idx[b][i].id # 0
  <2> SUFFICES ASSUME NEW i \in 1..h
               PROVE  i \in RecNums /\ idx[b][i].id # 0
    OBVIOUS
  <2>1. i \in RecNums /\ h # 0 /\ h \in RecNums
    BY <1>1
  <2>2. CASE i = h
    BY <1>2, <2>1, <2>2
  <2>3. CASE i # h
    <3>1. i \in 1..(h - 1)
      BY <1>1, <2>3
    <3> QED
      BY <1>2, <1>3, <2>1, <3>1
  <2> QED
    BY <2>1, <2>2, <2>3
<1>5. \A i \in RecNums : idx[b][i].id # 0 => i \in 1..h
  BY <1>1, <1>2
<1>6. Known(b) = 1..h
  BY <1>4, <1>5 DEF Known
<1>7. Cardinality(1..h) = h
  <2>1. h \in Nat /\ h \in Int /\ 1 \in Int
    BY <1>1
  <2>2. Cardinality(1..h) = IF 1 > h THEN 0 ELSE h - 1 + 1
    BY <2>1, FS_Interval
  <2> QED
    BY <2>1, <2>2
<1> QED
  BY <1>1, <1>4, <1>6, <1>7 DEF h

(* No body reaches beyond the end of its file.                              *)
LEMMA EndInText ==
  ASSUME CleanInv, NEW b \in Boards, NEW i \in RecNums
  PROVE  idx[b][i].off + idx[b][i].len <= Len(txt[b])
<1>a. TypeOK
  BY DEF CleanInv, IndexInv
<1>b. new.off \in Nat /\ new.len \in Nat
  BY <1>a, NewTyped
<1>c. idx[b][i].off \in Nat /\ idx[b][i].len \in Nat
  BY <1>a, FieldsTyped
<1>d. Len(txt[b]) \in Nat
  BY <1>a, LenProperties DEF TypeOK
<1>0. /\ new.off \in Nat /\ new.len \in Nat /\ EndOf(b, i) \in Nat
      /\ Len(txt[b]) \in Nat
  BY <1>b, <1>c, <1>d DEF EndOf
<1>1. CASE b = cur /\ pc \in {"link", "put"}
  <2>1. EndOf(b, i) <= new.off /\ new.off + new.len = Len(txt[b])
    BY <1>1 DEF CleanInv, Behind, Textual
  <2> QED
    BY <1>0, <2>1 DEF EndOf
<1>2. CASE ~(b = cur /\ pc \in {"link", "put"})
  BY <1>2 DEF CleanInv, Textual, EndOf
<1> QED
  BY <1>1, <1>2

(* The body of a record is all in the file.                                 *)
BodiesInFile ==
  \A b \in Boards : \A i \in RecNums :
    Body(b, idx[b][i]) = [j \in 1..idx[b][i].len |-> txt[b][idx[b][i].off + j]]

(* The end of a body is within its file, so all of it is read.               *)
LEMMA BodyIs == CleanInv => BodiesInFile
<1> SUFFICES ASSUME CleanInv, NEW b \in Boards, NEW i \in RecNums
             PROVE  Body(b, idx[b][i])
                      = [j \in 1..idx[b][i].len |-> txt[b][idx[b][i].off + j]]
  BY DEF BodiesInFile
<1>1. TypeOK
  BY DEF CleanInv, IndexInv
<1>2. idx[b][i].off \in Nat /\ idx[b][i].len \in Nat
  BY <1>1, FieldsTyped
<1>3. Len(txt[b]) \in Nat
  BY <1>1, LenProperties DEF TypeOK
<1>4. {k \in 1..idx[b][i].len : idx[b][i].off + k <= Len(txt[b])}
        = 1..idx[b][i].len
  BY <1>2, <1>3, EndInText
<1> QED
  BY <1>4 DEF Body

(* The text, number and thread of what can be seen stay.                    *)
LEMMA ShownStays ==
  ASSUME NothingFails, CleanInv, Roomy, Roomy', [Next]_vars,
         NEW b \in Boards, NEW i \in 1..TopOf(b)
  PROVE  /\ i \in RecNums /\ idx[b][i].id # 0
         /\ Shown(b, i)' = [Shown(b, i) EXCEPT !.live = ~idx'[b][i].dele]
<1>1. i \in RecNums /\ idx[b][i].id # 0
  BY KnownIsTop DEF Known
<1>2. Kept(idx[b][i], idx'[b][i])
  BY <1>1, RecordStep DEF CleanInv, Roomy
<1>3. CleanInv'
  BY CleanStep
<1>a. BodiesInFile /\ BodiesInFile'
  BY <1>3, BodyIs, PTL
<1>4. Body(b, idx[b][i])'
        = [j \in 1..idx'[b][i].len |-> txt'[b][idx'[b][i].off + j]]
  BY <1>1, <1>a DEF BodiesInFile
<1>5. Body(b, idx[b][i])
        = [j \in 1..idx[b][i].len |-> txt[b][idx[b][i].off + j]]
  BY <1>1, <1>a DEF BodiesInFile
<1>6. \A j \in 1..idx[b][i].len :
        txt'[b][idx[b][i].off + j] = txt[b][idx[b][i].off + j]
  <2>1. CASE UNCHANGED txt
    BY <2>1
  <2>2. CASE CommitBody
    <3>1. TypeOK
      BY DEF CleanInv, IndexInv
    <3>2. idx[b][i].off \in Nat /\ idx[b][i].len \in Nat
      BY <1>1, <3>1, FieldsTyped
    <3>3. Len(txt[b]) \in Nat
      BY <3>1, LenProperties DEF TypeOK
    <3>4. idx[b][i].off + idx[b][i].len <= Len(txt[b])
      BY <1>1, EndInText
    <3>5. \A k \in 1..Len(txt[b]) : txt'[b][k] = txt[b][k]
      <4>1. CASE b = cur
        BY <2>2, <4>1, CommitAppends DEF CleanInv, Roomy
      <4>2. CASE b # cur
        BY <2>2, <4>2, CommitAppends DEF CleanInv, Roomy
      <4> QED
        BY <4>1, <4>2
    <3> DEFINE off == idx[b][i].off
    <3> DEFINE len == idx[b][i].len
    <3> HIDE DEF off, len
    <3>6. \A j \in 1..len : off + j \in 1..Len(txt[b])
      BY <3>2, <3>3, <3>4 DEF off, len
    <3> QED
      BY <3>5, <3>6 DEF off, len
  <2> QED
    BY <2>1, <2>2, TextStep
<1>7. Body(b, idx[b][i])' = Body(b, idx[b][i])
  BY <1>2, <1>4, <1>5, <1>6 DEF Kept
<1> QED
  BY <1>1, <1>2, <1>7 DEF Shown, Kept

(* A list with one more element is the list with that element appended.      *)
LEMMA AppendIs ==
  ASSUME NEW n \in Nat, NEW f, f = [i \in 1..(n + 1) |-> f[i]],
         NEW s, s = [i \in 1..n |-> f[i]]
  PROVE  Len(s) = n /\ Append(s, f[n + 1]) = f
<1> DEFINE S == {f[i] : i \in 1..(n + 1)}
<1>1. s \in [1..n -> S] /\ f \in [1..(n + 1) -> S] /\ f[n + 1] \in S
  OBVIOUS
<1> HIDE DEF S
<1>2. s \in Seq(S) /\ f \in Seq(S) /\ n + 1 \in Nat
  <2>1. n + 1 \in Nat
    OBVIOUS
  <2>2. \A m \in Nat : [1..m -> S] \subseteq Seq(S)
    BY LenProperties, IsASeq
  <2> QED
    BY <1>1, <2>1, <2>2
<1>3. Len(s) = n /\ Len(f) = n + 1
  BY <1>1, <1>2, LenProperties
<1>4. /\ Append(s, f[n + 1]) \in Seq(S)
      /\ Len(Append(s, f[n + 1])) = n + 1
      /\ \A i \in 1..n : Append(s, f[n + 1])[i] = s[i]
      /\ Append(s, f[n + 1])[n + 1] = f[n + 1]
  BY <1>1, <1>2, <1>3, AppendProperties
<1>5. \A i \in 1..(n + 1) : Append(s, f[n + 1])[i] = f[i]
  <2>1. \A i \in 1..n : s[i] = f[i]
    OBVIOUS
  <2> QED
    BY <1>4, <2>1
<1> QED
  BY <1>2, <1>3, <1>4, <1>5, SeqEqual

(* The shelf of a board is what its first records show.                     *)
ShelfKnown ==
  /\ shelf = [b \in Boards |-> [i \in 1..TopOf(b) |-> Shown(b, i)]]
  /\ \A b \in Boards :
       /\ TopOf(b) \in Nat
       /\ Known(b) = 1..TopOf(b)
       /\ Cardinality(Known(b)) = TopOf(b)

(* The numbers in use are those up to the highest.                           *)
LEMMA ShelfIs == CleanInv => ShelfKnown
<1> SUFFICES ASSUME CleanInv PROVE ShelfKnown
  OBVIOUS
<1>1. \A b \in Boards :
        /\ TopOf(b) \in Nat
        /\ Known(b) = 1..TopOf(b)
        /\ Cardinality(Known(b)) = TopOf(b)
  BY KnownIsTop
<1> QED
  BY <1>1 DEF ShelfKnown, shelf

(* The list of a board grows by the record that is put, and only then.      *)
LEMMA TopStays ==
  ASSUME NothingFails, CleanInv, Roomy, Roomy', [Next]_vars, NEW b \in Boards,
         ~(Adds /\ b = cur)
  PROVE  TopOf(b)' = TopOf(b)
<1>1. CleanInv'
  BY CleanStep
<1>2. ShelfKnown /\ ShelfKnown'
  BY <1>1, ShelfIs, PTL
<1>3. \A i \in RecNums : idx'[b][i].id # 0 <=> idx[b][i].id # 0
  <2> SUFFICES ASSUME NEW i \in RecNums
               PROVE  idx'[b][i].id # 0 <=> idx[b][i].id # 0
    OBVIOUS
  <2>1. /\ idx[b][i].id # 0 => Kept(idx[b][i], idx'[b][i])
        /\ idx[b][i].id = 0 => idx'[b][i] = idx[b][i]
    BY RecordStep DEF CleanInv, Roomy
  <2> QED
    BY <2>1 DEF Kept
<1>4. Known(b)' = Known(b)
  BY <1>3 DEF Known
<1> QED
  BY <1>2, <1>4 DEF ShelfKnown

(* The record that is put is the next one.                                   *)
LEMMA TopGrows ==
  ASSUME NothingFails, CleanInv, Roomy, Roomy', PutRecord, Adds
  PROVE  /\ new.id = TopOf(cur) + 1 /\ TopOf(cur) \in Nat
         /\ TopOf(cur)' = new.id
<1>1. TopOf(cur)' = new.id
  BY DEF PutRecord, Adds, TopOf
<1>2. /\ new.id \in RecNums /\ idx[cur][new.id].id = 0 /\ cur \in Boards
      /\ \A j \in 1..(new.id - 1) : idx[cur][j].id # 0
  BY DEF Adds, CleanInv, IndexInv, Numbered
<1>3. Known(cur) = 1..TopOf(cur) /\ TopOf(cur) \in Nat
  BY <1>2, KnownIsTop
<1>4. new.id \in Nat /\ MaxPerBoard \in Nat /\ RecNums = 1..(MaxPerBoard + 1)
      /\ new.id \in 1..(MaxPerBoard + 1)
  BY <1>2, Sizes
<1>5. new.id \notin 1..TopOf(cur)
  BY <1>2, <1>3 DEF Known
<1>6. \A j \in 1..(new.id - 1) : j \in 1..TopOf(cur)
  <2> SUFFICES ASSUME NEW j \in 1..(new.id - 1) PROVE j \in 1..TopOf(cur)
    OBVIOUS
  <2>1. j \in RecNums
    BY <1>4
  <2> QED
    BY <1>2, <1>3, <2>1 DEF Known
<1> DEFINE h == TopOf(cur)
<1> DEFINE n == new.id
<1>7. n \notin 1..h /\ h \in Nat /\ n \in Nat /\ n >= 1
      /\ \A j \in 1..(n - 1) : j \in 1..h
  BY <1>3, <1>4, <1>5, <1>6
<1> HIDE DEF h, n
<1>8. n = h + 1
  <2>1. n > h
    BY <1>7
  <2>2. n - 1 <= h
    <3>1. CASE n = 1
      BY <1>7, <3>1
    <3>2. CASE n # 1
      <4>1. n - 1 \in 1..(n - 1)
        BY <1>7, <3>2
      <4>2. n - 1 \in 1..h
        BY <1>7, <4>1
      <4> QED
        BY <1>7, <4>2
    <3> QED
      BY <3>1, <3>2
  <2> QED
    BY <1>7, <2>1, <2>2
<1> QED
  BY <1>1, <1>3, <1>8 DEF h, n

(* A write that deletes and adds nothing is not seen.                       *)
LEMMA Unseen ==
  ASSUME NothingFails, CleanInv, Roomy, Roomy', [Next]_vars, ~Adds,
         \A b \in Boards : \A i \in RecNums : idx'[b][i].dele = idx[b][i].dele
  PROVE  shelf' = shelf
<1>1. CleanInv'
  BY CleanStep
<1>2. ShelfKnown /\ ShelfKnown'
  BY <1>1, ShelfIs, PTL
<1>3. \A b \in Boards : TopOf(b)' = TopOf(b)
  BY TopStays
<1>4. \A b \in Boards : \A i \in 1..TopOf(b) : Shown(b, i)' = Shown(b, i)
  <2> SUFFICES ASSUME NEW b \in Boards, NEW i \in 1..TopOf(b)
               PROVE  Shown(b, i)' = Shown(b, i)
    OBVIOUS
  <2>1. /\ i \in RecNums
        /\ Shown(b, i)' = [Shown(b, i) EXCEPT !.live = ~idx'[b][i].dele]
    BY ShownStays
  <2>2. idx'[b][i].dele = idx[b][i].dele
    BY <2>1
  <2> QED
    BY <2>1, <2>2 DEF Shown
<1> QED
  BY <1>2, <1>3, <1>4 DEF ShelfKnown

(* A message that is marked deleted is removed from view.                   *)
LEMMA Removed ==
  ASSUME NothingFails, CleanInv, Roomy, Roomy', [Next]_vars,
         NEW n, Marks(n), ~Adds
  PROVE  n \in DOMAIN shelf[cur] /\ Abstract!Remove(cur, n)
<1>1. CleanInv'
  BY CleanStep
<1>2. ShelfKnown /\ ShelfKnown'
  BY <1>1, ShelfIs, PTL
<1>3. \A b \in Boards : TopOf(b)' = TopOf(b)
  BY TopStays
<1>4. cur \in Boards /\ n \in RecNums /\ idx[cur][n].id # 0 /\ ~idx[cur][n].dele
  BY Sizes DEF Marks, IsLive
<1>5. n \in 1..TopOf(cur)
  BY <1>2, <1>4 DEF ShelfKnown, Known
<1>6. shelf[cur] = [i \in 1..TopOf(cur) |-> Shown(cur, i)]
  BY <1>2, <1>4 DEF ShelfKnown
<1>7. n \in DOMAIN shelf[cur] /\ shelf[cur][n].live
  <2>1. Shown(cur, n).live = ~idx[cur][n].dele
    BY DEF Shown
  <2>2. shelf[cur][n] = Shown(cur, n) /\ n \in DOMAIN shelf[cur]
    BY <1>5, <1>6
  <2>3. Shown(cur, n).live
    BY <1>4, <2>1
  <2> QED
    BY <2>2, <2>3
<1>8. \A b \in Boards : \A i \in RecNums :
        idx'[b][i].dele = IF b = cur /\ i = n THEN TRUE ELSE idx[b][i].dele
  <2> SUFFICES ASSUME NEW b \in Boards, NEW i \in RecNums
               PROVE  idx'[b][i].dele
                        = IF b = cur /\ i = n THEN TRUE ELSE idx[b][i].dele
    OBVIOUS
  <2>1. /\ idx \in [Boards -> [RecNums -> IndexRecord]]
        /\ idx[cur][n] \in IndexRecord
    BY <1>4 DEF CleanInv, IndexInv, TypeOK
  <2>2. [idx[cur][n] EXCEPT !.dele = TRUE].dele = TRUE
    BY <2>1 DEF IndexRecord
  <2>3. idx' = [idx EXCEPT ![cur][n] = [idx[cur][n] EXCEPT !.dele = TRUE]]
    BY DEF Marks
  <2> QED
    BY <1>4, <2>1, <2>2, <2>3
<1>9. \A b \in Boards : \A i \in 1..TopOf(b) :
        Shown(b, i)' = IF b = cur /\ i = n
                       THEN [Shown(b, i) EXCEPT !.live = FALSE]
                       ELSE Shown(b, i)
  <2> SUFFICES ASSUME NEW b \in Boards, NEW i \in 1..TopOf(b)
               PROVE  Shown(b, i)' = IF b = cur /\ i = n
                                     THEN [Shown(b, i) EXCEPT !.live = FALSE]
                                     ELSE Shown(b, i)
    OBVIOUS
  <2>1. /\ i \in RecNums
        /\ Shown(b, i)' = [Shown(b, i) EXCEPT !.live = ~idx'[b][i].dele]
    BY ShownStays
  <2>2. CASE b = cur /\ i = n
    <3>1. (~idx'[b][i].dele) = FALSE
      BY <1>4, <1>8, <2>2
    <3> QED
      BY <2>1, <2>2, <3>1
  <2>3. CASE ~(b = cur /\ i = n)
    <3>1. idx'[b][i].dele = idx[b][i].dele
      BY <1>8, <2>1, <2>3
    <3>2. Shown(b, i).live = ~idx[b][i].dele
      BY DEF Shown
    <3> QED
      BY <2>1, <2>3, <3>1, <3>2 DEF Shown
  <2> QED
    BY <2>2, <2>3
<1>10. shelf' = [shelf EXCEPT ![cur][n].live = FALSE]
  <2>1. shelf = [b \in Boards |-> [i \in 1..TopOf(b) |-> Shown(b, i)]]
    BY <1>2 DEF ShelfKnown
  <2>2. shelf' = [b \in Boards |-> [i \in 1..TopOf(b) |-> Shown(b, i)']]
    BY <1>2, <1>3 DEF ShelfKnown
  <2>3. shelf' = [b \in Boards |-> [i \in 1..TopOf(b) |->
                    IF b = cur /\ i = n THEN [Shown(b, i) EXCEPT !.live = FALSE]
                    ELSE Shown(b, i)]]
    BY <1>9, <2>2
  <2> QED
    BY <1>4, <1>5, <2>1, <2>3
<1> QED
  BY <1>7, <1>10 DEF Abstract!Remove, Abstract!Visible


(* The record that is put shows the text that was sent, as the next         *)
(* message.                                                                 *)
LEMMA PutShows ==
  ASSUME NothingFails, CleanInv, Roomy, Roomy', [Next]_vars, Sending,
         PutRecord, Adds, NEW b, b = cur, NEW n, n = new.id
  PROVE  /\ Shown(b, n)'
              = [text   |-> [j \in 1..new.len |-> new.tag],
                 parent |-> new.parent,
                 root   |-> new.root,
                 live   |-> TRUE]
         /\ [j \in 1..new.len |-> new.tag] \in Texts
<1>1. CleanInv'
  BY CleanStep
<1>2. BodiesInFile'
  BY <1>1, BodyIs, PTL
<1>3. b \in Boards /\ n \in RecNums /\ UNCHANGED txt /\ cur' = cur
      /\ pc = "put" /\ new' = new
  BY Sizes DEF Adds, PutRecord
<1>4. idx'[b][n] = NewRecord
  <2>1. idx \in [Boards -> [RecNums -> IndexRecord]]
    BY DEF CleanInv, IndexInv, TypeOK
  <2> QED
    BY <1>3, <2>1 DEF Adds
<1>5. Body(b, idx[b][n])'
        = [j \in 1..idx'[b][n].len
             |-> txt'[b][idx'[b][n].off + j]]
  BY <1>2, <1>3 DEF BodiesInFile
<1>6. \A j \in 1..new.len : txt'[b][new.off + j] = new.tag
  BY <1>3 DEF CleanInv, Appended, InText
<1>7. NewRecord.len = new.len /\ NewRecord.off = new.off
      /\ NewRecord.parent = new.parent /\ NewRecord.root = new.root
      /\ NewRecord.dele = FALSE
  BY DEF NewRecord
<1>8. Body(b, idx[b][n])' = [j \in 1..new.len |-> new.tag]
  BY <1>4, <1>5, <1>6, <1>7
<1>9. [j \in 1..new.len |-> new.tag] \in Texts
  <2>1. new.len \in Lens /\ new.tag \in 1..MaxPosts
    BY <1>3 DEF Sending, Posting
  <2> QED
    BY <2>1 DEF Texts
<1>10. Shown(b, n)'
        = [text   |-> Body(b, idx[b][n])',
           parent |-> idx'[b][n].parent,
           root   |-> idx'[b][n].root,
           live   |-> ~idx'[b][n].dele]
  BY <1>3 DEF Shown
<1>11. (~idx'[b][n].dele) = TRUE
  BY <1>4, <1>7
<1> QED
  BY <1>4, <1>7, <1>8, <1>9, <1>10, <1>11

(* The abstract specification has a Cardinality of its own.                 *)
LEMMA SameCardinality == \A S : Abstract!Cardinality(S) = Cardinality(S)
BY DEF Cardinality, Abstract!Cardinality

(* There is room on the board for the message that is put.                  *)
LEMMA RoomLeft ==
  ASSUME CleanInv, pc = "put", cur \in Boards
  PROVE  Abstract!Cardinality(Abstract!Visible(cur)) < Limit
<1>1. ShelfKnown
  BY ShelfIs
<1>2. shelf[cur] = [i \in 1..TopOf(cur) |-> Shown(cur, i)]
  BY <1>1 DEF ShelfKnown
<1>3. \A i \in 1..TopOf(cur) : Shown(cur, i).live <=> ~idx[cur][i].dele
  BY DEF Shown
<1>4. Abstract!Visible(cur) = {i \in 1..TopOf(cur) : ~idx[cur][i].dele}
  BY <1>2, <1>3 DEF Abstract!Visible
<1>5. Live(cur) = {i \in 1..TopOf(cur) : ~idx[cur][i].dele}
  <2>1. \A i : (i \in RecNums /\ idx[cur][i].id # 0) <=> i \in 1..TopOf(cur)
    BY <1>1 DEF ShelfKnown, Known
  <2> QED
    BY <2>1 DEF Live, IsLive
<1>6. Cardinality(Abstract!Visible(cur)) = loc.count
  BY <1>4, <1>5 DEF CleanInv, Counted, Size, Held
<1> QED
  BY <1>6, SameCardinality DEF CleanInv, Limited

(* The record that is put is the next message of the shelf.                 *)
LEMMA Posted ==
  ASSUME NothingFails, CleanInv, Roomy, Roomy', [Next]_vars, Sending,
         PutRecord, Adds
  PROVE  \E parent \in {0} \cup DOMAIN shelf[cur], text \in Texts :
           Abstract!Post(cur, parent, text)
<1> DEFINE text == [j \in 1..new.len |-> new.tag]
<1> DEFINE top == TopOf(cur)
<1>a. PICK c \in Boards, n \in RecNums : c = cur /\ n = new.id
  BY Sizes DEF Adds
<1> DEFINE added == Shown(c, n)'
<1> DEFINE before == [i \in 1..top |-> Shown(cur, i)]
<1>1. CleanInv'
  BY CleanStep
<1>2. ShelfKnown /\ ShelfKnown'
  BY <1>1, ShelfIs, PTL
<1>3. cur \in Boards /\ pc = "put"
  BY DEF Adds
<1>4. new.id = top + 1 /\ top \in Nat /\ TopOf(cur)' = new.id
  BY TopGrows
<1>5. shelf[cur] = before
  BY <1>2, <1>3 DEF ShelfKnown
<1>6. /\ added = [text |-> text, parent |-> new.parent, root |-> new.root,
                  live |-> TRUE]
      /\ text \in Texts
  BY <1>a, PutShows
<1>7. \A b \in Boards : \A i \in 1..TopOf(b) :
        ~(b = cur /\ i = new.id) => Shown(b, i)' = Shown(b, i)
  <2> SUFFICES ASSUME NEW b \in Boards, NEW i \in 1..TopOf(b),
                      ~(b = cur /\ i = new.id)
               PROVE  Shown(b, i)' = Shown(b, i)
    OBVIOUS
  <2>1. /\ i \in RecNums
        /\ Shown(b, i)' = [Shown(b, i) EXCEPT !.live = ~idx'[b][i].dele]
    BY ShownStays
  <2>2. idx \in [Boards -> [RecNums -> IndexRecord]]
    BY DEF CleanInv, IndexInv, TypeOK
  <2>3. idx'[b][i].dele = idx[b][i].dele
    BY <2>1, <2>2 DEF Adds
  <2> QED
    BY <2>1, <2>3 DEF Shown
<1>8. \A b \in Boards : b # cur => shelf'[b] = shelf[b]
  <2> SUFFICES ASSUME NEW b \in Boards, b # cur PROVE shelf'[b] = shelf[b]
    OBVIOUS
  <2>1. TopOf(b)' = TopOf(b)
    BY TopStays
  <2>2. /\ shelf'[b] = [i \in 1..TopOf(b)' |-> Shown(b, i)']
        /\ shelf[b] = [i \in 1..TopOf(b) |-> Shown(b, i)]
    BY <1>2 DEF ShelfKnown
  <2> QED
    BY <1>7, <2>1, <2>2
<1> DEFINE f == [i \in 1..(top + 1) |-> Shown(c, i)']
<1>9. shelf'[cur] = f
  <2>1. TopOf(c)' = top + 1
    <3>1. cur' = cur /\ new' = new /\ pc' = "save"
      BY DEF PutRecord
    <3> QED
      BY <1>a, <1>4, <3>1 DEF TopOf
  <2>2. shelf'[c] = [i \in 1..TopOf(c)' |-> Shown(c, i)']
    BY <1>2 DEF ShelfKnown
  <2> QED
    BY <1>a, <2>1, <2>2
<1>10. f[top + 1] = added
  <2>1. n \in 1..(top + 1) /\ n = top + 1
    BY <1>a, <1>4
  <2> QED
    BY <2>1
<1>11. before = [i \in 1..top |-> f[i]]
  <2>1. \A i \in 1..top : f[i] = Shown(cur, i)
    <3> SUFFICES ASSUME NEW i \in 1..top PROVE f[i] = Shown(cur, i)
      OBVIOUS
    <3>1. i \in 1..(top + 1) /\ i # new.id
      BY <1>4
    <3>2. Shown(c, i)' = Shown(c, i)
      BY <1>a, <1>7, <3>1
    <3> QED
      BY <1>a, <3>1, <3>2
  <2> QED
    BY <2>1
<1>12. f = [i \in 1..(top + 1) |-> f[i]]
  OBVIOUS
<1> HIDE DEF f, before, added, text, top
<1>13. Len(before) = top /\ Append(before, added) = f
  BY <1>4, <1>10, <1>11, <1>12, AppendIs
<1>14. shelf' = [shelf EXCEPT ![cur] = Append(@, added)]
  <2>1. shelf' = [b \in Boards |-> shelf'[b]] /\ shelf = [b \in Boards |-> shelf[b]]
    BY DEF shelf
  <2>2. shelf'[cur] = Append(shelf[cur], added)
    BY <1>5, <1>9, <1>13
  <2> HIDE DEF shelf
  <2> QED
    BY <1>3, <1>8, <2>1, <2>2
<1>15. new.parent \in {0} \cup DOMAIN shelf[cur]
  <2>1. new.parent # 0 => new.parent \in RecNums /\ idx[cur][new.parent].id # 0
    <3>1. new.parent \in 0..(MaxPerBoard + 1)
      BY NewTyped DEF CleanInv, IndexInv
    <3>2. new.parent # 0 => idx[cur][new.parent].id # 0
      BY <1>3 DEF CleanInv, IndexInv, ParentKnown
    <3> QED
      BY <3>1, <3>2, Sizes
  <2>2. DOMAIN shelf[cur] = 1..top
    BY <1>5 DEF before
  <2> QED
    BY <1>2, <1>3, <2>1, <2>2 DEF ShelfKnown, Known, top
<1>16. new.root = IF new.parent = 0 THEN Len(shelf[cur]) + 1
                  ELSE shelf[cur][new.parent].root
  <2>1. new.root = IF new.parent = 0 THEN new.id ELSE idx[cur][new.parent].root
    BY <1>3 DEF CleanInv, IndexInv, Numbered
  <2>2. Len(shelf[cur]) + 1 = new.id
    BY <1>4, <1>5, <1>13
  <2>3. new.parent # 0 => shelf[cur][new.parent].root = idx[cur][new.parent].root
    <3>1. new.parent # 0 => new.parent \in 1..top
      BY <1>5, <1>15 DEF before
    <3> QED
      BY <1>5, <3>1 DEF before, Shown
  <2> QED
    BY <2>1, <2>2, <2>3
<1>17. Abstract!Cardinality(Abstract!Visible(cur)) < Limit
  BY <1>3, RoomLeft
<1>18. Abstract!Post(cur, new.parent, text)
  BY <1>6, <1>14, <1>15, <1>16, <1>17 DEF Abstract!Post
<1> QED
  BY <1>6, <1>15, <1>18

(* Every step is a step of the list of messages, or is not seen.            *)
LEMMA AbstractStep ==
  ASSUME NothingFails, CleanInv, Roomy, Roomy', [Next]_vars, Sending
  PROVE  [Abstract!Next]_shelf
<1> USE DEF CleanInv, Roomy
<1>0. ASSUME UNCHANGED idx PROVE shelf' = shelf
  <2>1. ~Adds
    <3> SUFFICES ASSUME Adds PROVE FALSE
      OBVIOUS
    <3>1. idx[cur][new.id].id = 0 /\ new.id \in RecNums /\ new.id \in 1..MaxPerBoard
          /\ cur \in Boards
      BY DEF Adds, IndexInv, Numbered
    <3>2. idx \in [Boards -> [RecNums -> IndexRecord]]
      BY DEF IndexInv, TypeOK
    <3>3. idx'[cur][new.id].id = new.id
      BY <3>1, <3>2 DEF Adds, NewRecord
    <3> QED
      BY <1>0, <3>1, <3>3, Sizes
  <2> QED
    BY <1>0, <2>1, Unseen
<1>1. ASSUME NEW n, Marks(n), pc # "put" PROVE Abstract!Next
  <2>1. ~Adds /\ cur \in Boards
    BY <1>1 DEF Adds, Marks
  <2>2. n \in DOMAIN shelf[cur] /\ Abstract!Remove(cur, n)
    BY <1>1, <2>1, Removed
  <2> QED
    BY <2>1, <2>2 DEF Abstract!Next
<1>2. ASSUME Counts PROVE shelf' = shelf
  <2>1. ~Adds
    BY <1>2 DEF Counts, Adds
  <2>2. \A b \in Boards : \A i \in RecNums : idx'[b][i].dele = idx[b][i].dele
    <3>1. idx \in [Boards -> [RecNums -> IndexRecord]]
      BY DEF IndexInv, TypeOK
    <3>2. \A r : CountReply(r).dele = [r EXCEPT !.replies = (@ + 1) % 256].dele
      BY DEF CountReply
    <3>3. new.parent \in RecNums /\ cur \in Boards
      BY <1>2, Sizes DEF Counts
    <3>4. CountReply(idx[cur][new.parent]).dele = idx[cur][new.parent].dele
      <4>1. idx[cur][new.parent] \in IndexRecord
        BY <3>1, <3>3
      <4> QED
        BY <4>1 DEF CountReply, IndexRecord
    <3> QED
      BY <1>2, <3>1, <3>3, <3>4 DEF Counts
  <2> QED
    BY <2>1, <2>2, Unseen
<1>3. ASSUME PutRecord, Adds PROVE Abstract!Next
  <2>1. cur \in Boards
    BY <1>3 DEF Adds
  <2>2. \E parent \in {0} \cup DOMAIN shelf[cur], text \in Texts :
          Abstract!Post(cur, parent, text)
    BY <1>3, Posted
  <2> QED
    BY <2>1, <2>2 DEF Abstract!Next
<1>4. ASSUME NEW i \in RecNums, PruneRecord(i), Marks(i) PROVE Abstract!Next
  BY <1>1, <1>4 DEF PruneRecord
<1>5. ASSUME KillRecord, Marks(curMsg) PROVE Abstract!Next
  BY <1>1, <1>5 DEF KillRecord
<1>6. UNCHANGED vars => UNCHANGED idx
  BY DEF vars
<1> QED
  BY <1>0, <1>2, <1>3, <1>4, <1>5, <1>6, CleanSteps

(* At first every list is empty.                                             *)
LEMMA AbstractInit == Init => Abstract!Init
<1> SUFFICES ASSUME Init PROVE shelf = [b \in Boards |-> << >>]
  BY DEF Abstract!Init
<1>1. ShelfKnown
  BY CleanInit, ShelfIs
<1>2. \A b \in Boards : TopOf(b) = 0
  BY DEF Init, TopOf, EmptyDir
<1>3. \A b \in Boards : [i \in 1..TopOf(b) |-> Shown(b, i)] = << >>
  <2> SUFFICES ASSUME NEW b \in Boards
               PROVE  [i \in 1..TopOf(b) |-> Shown(b, i)] = << >>
    OBVIOUS
  <2>1. 1..TopOf(b) = {}
    BY <1>2
  <2> QED
    BY <2>1
<1> QED
  BY <1>1, <1>3 DEF ShelfKnown

(* What a reader is shown of the boards is what MessageBoards promises.     *)
(* When nothing fails and the 16-bit text offsets are enough, every write   *)
(* of msg_post, msg_prune_quantity and msg_delete adds one whole message at *)
(* the end of a list, removes one from view, or cannot be seen.             *)
THEOREM Implements ==
  ASSUME NothingFails
  PROVE  Spec /\ []Roomy => ImplementsMessageBoards
<1>1. Init => Sending
  BY DEF Init, Sending, Posting
<1>2. TypeOK /\ Sending /\ [Next]_vars => Sending'
  BY SendingStep
<1>3. CleanInv => TypeOK
  BY DEF CleanInv, IndexInv
<1>4. CleanInv /\ Roomy /\ Roomy' /\ [Next]_vars /\ Sending
        => [Abstract!Next]_shelf
  BY AbstractStep
<1> QED
  BY <1>1, <1>2, <1>3, <1>4, AbstractInit, CleanAlways, PTL
  DEF Spec, ImplementsMessageBoards, Abstract!Spec

(* With so few posts that none of the room runs out, all of this without a    *)
(* word about room: every post of msg_post reads back, the figures board_save *)
(* caches are those of the files, the oldest messages are pruned first, and   *)
(* the boards are what MessageBoards promises.                                *)
THEOREM FewPostsAreSafe ==
  ASSUME NothingFails, Few
  PROVE  Spec => /\ []CountIsLive /\ []HeaderIsExact /\ []EveryPostReadsBack
                 /\ []RepliesAreCounted /\ OldestGoFirst
                 /\ ImplementsMessageBoards
<1>1. InRoom => Roomy
  BY DEF InRoom, Roomy
<1>2. Spec => []InRoom
  BY FewPostsFit, NothingFailsReads
<1> QED
  BY <1>1, <1>2, CountIsExact, HeaderStaysExact, PostsReadBack, RepliesStayCounted,
     OldestDieFirst, Implements, PTL

=============================================================================
