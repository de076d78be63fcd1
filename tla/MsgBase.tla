------------------------------- MODULE MsgBase -------------------------------
(***************************************************************************)
(* The message base of one line: src/data/messages.c on top of the board   *)
(* directory (src/data/boards.c) and of REU bank 0 (src/hal/reu.c), driven *)
(* by the message feature (src/features/bulletin.c).                       *)
(*                                                                         *)
(* On disk each board has an index (B<n>.IDX, one record per message), a   *)
(* text file (B<n>.TXT, the bodies end to end) and a directory record that *)
(* caches three figures about them.  One message operation is several disk *)
(* writes; each write is a step of its own here, so that a crash or a disk *)
(* error can fall between any two of them.                                 *)
(***************************************************************************)
EXTENDS Integers, FiniteSets, Sequences

CONSTANTS
  Boards,        \* ids of the boards in the directory (1..CFG_MAX_BOARDS)
  MaxPerBoard,   \* CFG_MSG_MAX_PER_BOARD: the records every scan looks at
  PruneBatch,    \* CFG_MSG_PRUNE_BATCH
  Limit,         \* effective limit of a board: max_msgs, or the default
  MaxLen,        \* CFG_EDITOR_MAX_CHARS, the size of the compose buffer
  Lens,          \* lengths the editor hands over in the compose buffer
  Word,          \* 2^16: the modulus of a u16
  MaxPosts,      \* bound: how often a caller sends a message to msg_post
  UseREU,        \* bbs_cfg.reu_enabled
  Faults         \* what may go wrong, a subset of FaultKinds

(* A crash or reset between two writes; a write that fails; an index scan   *)
(* that fails; a load of REU bank 0 that fails.                             *)
FaultKinds == {"crash", "write", "scan", "load"}

ASSUME MsgBaseAssumption ==
  /\ Boards \subseteq Nat \ {0}
  /\ MaxPerBoard \in Nat \ {0}
  /\ PruneBatch \in Nat \ {0}
  /\ Limit \in 1..255
  /\ MaxLen \in Nat
  /\ Lens \subseteq 0..MaxLen
  /\ Word \in Nat \ {0}
  /\ MaxPosts \in Nat
  /\ UseREU \in BOOLEAN
  /\ Faults \subseteq FaultKinds

VARIABLES
  idx,      \* [board -> [record number -> index record]]: the B<n>.IDX files
  txt,      \* [board -> sequence of bytes]: the B<n>.TXT files; a byte is the
            \* number of the post that wrote it
  dir,      \* [board -> cached figures]: the BOARDS file
  reu,      \* [record number -> index record]: REU bank 0
  cur,      \* s_board.id: the board the caller is on, 0 when none
  curMsg,   \* s_cur_msg: the message last displayed, 0 when none
  pc,       \* the next disk write of the operation that runs, or "idle"
  loc,      \* the local directory record of that operation
  new,      \* the message msg_post is building
  scan,     \* rec_num of the pruning loop
  pruned,   \* pruned of the pruning loop
  posts,    \* history: the messages msg_post has reported as posted
  sent      \* history: how many messages were handed to msg_post

disk == <<idx, txt, dir>>
vars == <<idx, txt, dir, reu, cur, curMsg, pc, loc, new, scan, pruned,
          posts, sent>>

-----------------------------------------------------------------------------
(* Index records.  A record that was never written reads as zeros.         *)

RecNums == 1..(MaxPerBoard + 1)

Absent == [id |-> 0, parent |-> 0, root |-> 0, dele |-> FALSE,
           replies |-> 0, off |-> 0, len |-> 0]

NoPost == [tag |-> 0, parent |-> 0, len |-> 0, off |-> 0, id |-> 0, root |-> 0]

EmptyDir == [count |-> 0, high |-> 0, eof |-> 0]

IsLive(r) == r.id # 0 /\ ~r.dele

Live(b) == {i \in RecNums : IsLive(idx[b][i])}

(* The scans of a board's index see the first k records.  A scan that hits *)
(* a disk error stops and its caller is not told: it works with what was   *)
(* seen so far, which is nothing when the index could not be opened.       *)
ScanLengths == IF "scan" \in Faults THEN 0..MaxPerBoard ELSE {MaxPerBoard}

Scanned(b, k) == {i \in 1..k : idx[b][i].id # 0}

IsMax(m, S) == IF S = {} THEN m = 0 ELSE m \in S /\ \A x \in S : x <= m

(* Each definition named ...Bug is the next one with a mistake in it; only  *)
(* the mutants listed in PROJECT.json use them.                            *)

(* msg_next_id: one more than the highest id seen.                         *)
NextIdBug(b, k, id) ==          \* numbers of deleted messages come back
  IsMax(id - 1, {idx[b][i].id : i \in Scanned(b, k) \cap Live(b)})
IsNextId(b, k, id) == IsMax(id - 1, {idx[b][i].id : i \in Scanned(b, k)})

(* msg_body_eof: the highest end of a body seen, deleted ones included, in *)
(* 16-bit arithmetic.                                                      *)
BodyEofBug(b, k, e) ==          \* deleted bodies are not counted
  IsMax(e, {(idx[b][i].off + idx[b][i].len) % Word :
              i \in Scanned(b, k) \cap Live(b)})
IsBodyEof(b, k, e) ==
  IsMax(e, {(idx[b][i].off + idx[b][i].len) % Word : i \in Scanned(b, k)})

(* msg_index_get: with an REU every read is served from bank 0.            *)
Get(i) == IF UseREU THEN reu[i] ELSE idx[cur][i]

(* msg_index_put: the disk first, then bank 0.                             *)
PutBug(r) ==                    \* bank 0 is forgotten
  /\ idx' = [idx EXCEPT ![cur][r.id] = r]
  /\ UNCHANGED reu
Put(r) ==
  /\ idx' = [idx EXCEPT ![cur][r.id] = r]
  /\ reu' = IF UseREU THEN [reu EXCEPT ![r.id] = r] ELSE reu

(* reu_index_load: the first k records, zeros behind them up to the last   *)
(* one a scan looks at; the slot after that is not touched.                *)
Loaded(b, k) ==
  [i \in RecNums |-> IF i <= k THEN idx[b][i]
                     ELSE IF i <= MaxPerBoard THEN Absent ELSE reu[i]]

IndexLoad(b) ==
  \/ reu' = IF UseREU THEN Loaded(b, MaxPerBoard) ELSE reu
  \/ /\ "load" \in Faults     \* the result of the load is not looked at
     /\ UseREU
     /\ \/ UNCHANGED reu
        \/ \E k \in 0..(MaxPerBoard - 1) : reu' = Loaded(b, k)

(* reu_compose_commit: bytes of post t behind those already there; offset  *)
(* 0 replaces the file.                                                    *)
WrittenBug(b, off, count, t) == [i \in 1..count |-> t]     \* always DISK_WRITE
Written(b, off, count, t) ==
  LET old == IF off = 0 THEN 0 ELSE Len(txt[b])
  IN  [i \in 1..(old + count) |-> IF i <= old THEN txt[b][i] ELSE t]

(* What a reader of record r is shown: msg_body_each_line skips off bytes  *)
(* and reads len, less if the file ends before.                            *)
Body(b, r) ==
  [j \in {k \in 1..r.len : r.off + k <= Len(txt[b])} |-> txt[b][r.off + j]]

(* Board record, thread and counter arithmetic of msg_post, msg_delete and  *)
(* msg_prune_quantity.                                                      *)
AtLimit(board) == board.count >= Limit

OneLessBug(count) == count
OneLess(count) == IF count > 0 THEN count - 1 ELSE 0

DirAfterPostBug(board) ==       \* the end of the text is not moved
  [board EXCEPT !.count = @ + 1, !.high = new.id]
DirAfterPost(board) ==
  [count |-> board.count + 1,
   high  |-> IF new.id > board.high THEN new.id ELSE board.high,
   eof   |-> (new.off + new.len) % Word]

CountReplyBug(r) == [r EXCEPT !.replies = @ - 1]
CountReply(r) == [r EXCEPT !.replies = (@ + 1) % 256]

Orphaned == new.parent # 0 /\ Get(new.parent).id = 0

RootOfBug(id) == IF new.parent = 0 THEN id ELSE new.parent
RootOf(id) == IF new.parent = 0 \/ Orphaned THEN id ELSE Get(new.parent).root

(* The messages the pruning loop has still to look at and may delete; the   *)
(* sticky and frozen marks it also spares are never set by this program.    *)
Prunable == {i \in scan..MaxPerBoard : IsLive(Get(i))}

NextToPruneBug(i) == i \in Prunable /\ \A j \in Prunable : i >= j
NextToPrune(i) == i \in Prunable /\ \A j \in Prunable : i <= j

-----------------------------------------------------------------------------
Init ==
  /\ idx = [b \in Boards |-> [i \in RecNums |-> Absent]]
  /\ txt = [b \in Boards |-> << >>]
  /\ dir = [b \in Boards |-> EmptyDir]
  /\ reu = [i \in RecNums |-> Absent]
  /\ cur = 0
  /\ curMsg = 0
  /\ pc = "idle"
  /\ loc = EmptyDir
  /\ new = NoPost
  /\ scan = 1
  /\ pruned = 0
  /\ posts = {}
  /\ sent = 0

(* bull_load_board: the caller enters the message areas or changes board.  *)
LoadBoard(b) ==
  /\ pc = "idle"
  /\ cur' = b
  /\ curMsg' = 0
  /\ IndexLoad(b)
  /\ UNCHANGED <<disk, pc, loc, new, scan, pruned, posts, sent>>

(* bulletin_run returns: the next caller starts from bull_load_board.      *)
LeaveBoards ==
  /\ pc = "idle"
  /\ cur # 0
  /\ cur' = 0
  /\ curMsg' = 0
  /\ UNCHANGED <<disk, reu, pc, loc, new, scan, pruned, posts, sent>>

(* display_msg: any number may be typed; only a live record is shown.      *)
DisplayMsg(i) ==
  /\ pc = "idle"
  /\ cur # 0
  /\ IsLive(Get(i))
  /\ curMsg' = i
  /\ UNCHANGED <<disk, reu, cur, pc, loc, new, scan, pruned, posts, sent>>

-----------------------------------------------------------------------------
(* msg_post.                                                               *)

(* An operation that reports an error leaves what it has written.          *)
GiveUp ==
  /\ pc' = "idle"
  /\ loc' = EmptyDir
  /\ new' = NoPost
  /\ scan' = 1
  /\ pruned' = 0

(* The hard ceiling, looked at after the board record was read (again).    *)
Admit(board, post) ==
  /\ loc' = board
  /\ scan' = 1
  /\ pruned' = 0
  /\ new' = post
  /\ pc' = "commit"
  /\ board.count < MaxPerBoard

Refuse(board) == board.count >= MaxPerBoard /\ GiveUp

(* The caller saves the editor's text as a new message or as a reply to    *)
(* the message last displayed.                                             *)
StartPost(parent, len) ==
  LET post == [NoPost EXCEPT !.tag = sent + 1, !.parent = parent, !.len = len]
  IN  /\ pc = "idle"
      /\ cur # 0
      /\ sent < MaxPosts
      /\ parent \in {0, curMsg}
      /\ sent' = sent + 1
      /\ \/ /\ ~AtLimit(dir[cur])
            /\ Admit(dir[cur], post) \/ Refuse(dir[cur])
         \/ /\ AtLimit(dir[cur])
            /\ pc' = "prune"
            /\ loc' = dir[cur]
            /\ new' = post
            /\ UNCHANGED <<scan, pruned>>
      /\ UNCHANGED <<disk, reu, cur, curMsg, posts>>

(* msg_prune_quantity: the next message of the batch is soft-deleted; the  *)
(* result of the write is not looked at.                                   *)
PruneRecord(i) ==
  /\ pc = "prune"
  /\ pruned < PruneBatch
  /\ NextToPrune(i)
  /\ \/ Put([Get(i) EXCEPT !.dele = TRUE])
     \/ "write" \in Faults /\ UNCHANGED <<idx, reu>>
  /\ loc' = [loc EXCEPT !.count = OneLess(@)]
  /\ scan' = i + 1
  /\ pruned' = pruned + 1
  /\ UNCHANGED <<txt, dir, cur, curMsg, pc, new, posts, sent>>

(* The batch is complete: the directory record is saved, msg_post reads it *)
(* again and goes on.                                                      *)
PruneSave ==
  /\ pc = "prune"
  /\ pruned = PruneBatch \/ Prunable = {}
  /\ dir' = [dir EXCEPT ![cur] = loc]
  /\ Admit(loc, new) \/ Refuse(loc)
  /\ UNCHANGED <<idx, txt, reu, cur, curMsg, posts, sent>>

(* The text goes behind the last body the index knows of.                  *)
CommitBody ==
  /\ pc = "commit"
  /\ \E k \in ScanLengths, off \in 0..(Word - 1) :
       /\ IsBodyEof(cur, k, off)
       /\ txt' = [txt EXCEPT ![cur] = Written(cur, off, new.len, new.tag)]
       /\ new' = [new EXCEPT !.off = off]
  /\ pc' = "link"
  /\ UNCHANGED <<idx, dir, reu, cur, curMsg, loc, scan, pruned, posts, sent>>

(* The record's number, its place in a thread, and the parent's counter.   *)
LinkThread ==
  /\ pc = "link"
  /\ \E k \in ScanLengths, id \in RecNums :
       /\ IsNextId(cur, k, id)
       /\ new' = [new EXCEPT !.id = id, !.root = RootOf(id)]
  /\ \/ /\ new.parent # 0 /\ ~Orphaned
        /\ \/ Put(CountReply(Get(new.parent)))
           \/ "write" \in Faults /\ UNCHANGED <<idx, reu>>
     \/ /\ new.parent = 0 \/ Orphaned
        /\ UNCHANGED <<idx, reu>>
  /\ pc' = "put"
  /\ UNCHANGED <<txt, dir, cur, curMsg, loc, scan, pruned, posts, sent>>

PutRecord ==
  /\ pc = "put"
  /\ Put([id |-> new.id, parent |-> new.parent, root |-> new.root,
          dele |-> FALSE, replies |-> 0, off |-> new.off, len |-> new.len])
  /\ pc' = "save"
  /\ UNCHANGED <<txt, dir, cur, curMsg, loc, new, scan, pruned, posts, sent>>

(* The last write of msg_post; bull_do_post then loads the index again.    *)
SaveBoard ==
  /\ pc = "save"
  /\ dir' = [dir EXCEPT ![cur] = DirAfterPost(loc)]
  /\ posts' = posts \cup {[board |-> cur, id |-> new.id, tag |-> new.tag,
                           parent |-> new.parent, len |-> new.len]}
  /\ IndexLoad(cur)
  /\ GiveUp
  /\ UNCHANGED <<idx, txt, cur, curMsg, sent>>

-----------------------------------------------------------------------------
(* msg_delete, called by K in the reading loop.                            *)

KillRecord ==
  /\ pc = "idle"
  /\ cur # 0
  /\ curMsg # 0
  /\ \/ /\ Get(curMsg).dele          \* reported as killed; nothing to write
        /\ curMsg' = 0
        /\ UNCHANGED <<idx, reu, pc>>
     \/ /\ IsLive(Get(curMsg))
        /\ Put([Get(curMsg) EXCEPT !.dele = TRUE])
        /\ pc' = "kill"
        /\ UNCHANGED curMsg
  /\ UNCHANGED <<txt, dir, cur, loc, new, scan, pruned, posts, sent>>

KillSave ==
  /\ pc = "kill"
  /\ dir' = [dir EXCEPT ![cur].count = OneLess(@)]
  /\ curMsg' = 0
  /\ pc' = "idle"
  /\ UNCHANGED <<idx, txt, reu, cur, loc, new, scan, pruned, posts, sent>>

-----------------------------------------------------------------------------
(* What may go wrong.                                                      *)

(* disk_putc fails or the power goes while the text is being written: some *)
(* of the bytes are in the file, and no record names them.                 *)
PartialCommit ==
  \E off \in 0..(Word - 1), k \in ScanLengths :
    /\ IsBodyEof(cur, k, off)
    /\ \E c \in 0..new.len :
         txt' = [txt EXCEPT ![cur] = Written(cur, off, c, new.tag)]

(* A write fails: the operation reports an error and stops there.  The     *)
(* caller stays on the board and may go on.                                *)
DiskError ==
  /\ "write" \in Faults
  /\ \/ pc = "commit" /\ PartialCommit
     \/ pc \in {"prune", "put", "save", "kill"} /\ UNCHANGED txt
  /\ pc = "prune" => pruned = PruneBatch \/ Prunable = {}
  /\ GiveUp
  /\ UNCHANGED <<idx, dir, reu, cur, curMsg, posts, sent>>

(* Power loss or reset.  The REU keeps its contents; the program starts    *)
(* again with no board entered.                                            *)
Crash ==
  /\ "crash" \in Faults
  /\ pc # "idle"
  /\ \/ pc = "commit" /\ PartialCommit
     \/ UNCHANGED txt
  /\ GiveUp
  /\ cur' = 0
  /\ curMsg' = 0
  /\ UNCHANGED <<idx, dir, reu, posts, sent>>

-----------------------------------------------------------------------------
Next ==
  \/ \E b \in Boards : LoadBoard(b)
  \/ LeaveBoards
  \/ \E i \in RecNums : DisplayMsg(i)
  \/ \E parent \in RecNums \cup {0}, len \in Lens : StartPost(parent, len)
  \/ \E i \in RecNums : PruneRecord(i)
  \/ PruneSave
  \/ CommitBody
  \/ LinkThread
  \/ PutRecord
  \/ SaveBoard
  \/ KillRecord
  \/ KillSave
  \/ DiskError
  \/ Crash

Spec == Init /\ [][Next]_vars

-----------------------------------------------------------------------------
(* Properties.                                                             *)

IndexRecord == [id : 0..(MaxPerBoard + 1), parent : 0..(MaxPerBoard + 1),
                root : 0..(MaxPerBoard + 1), dele : BOOLEAN,
                replies : 0..255, off : 0..(Word - 1), len : 0..MaxLen]

DirRecord == [count : Nat, high : 0..(MaxPerBoard + 1), eof : 0..(Word - 1)]

PostRecord == [tag : Nat, parent : 0..(MaxPerBoard + 1), len : 0..MaxLen,
               off : 0..(Word - 1), id : 0..(MaxPerBoard + 1),
               root : 0..(MaxPerBoard + 1)]

(* The variables have their types.                                         *)
TypeOK ==
  /\ idx \in [Boards -> [RecNums -> IndexRecord]]
  /\ txt \in [Boards -> Seq(Nat)]
  /\ dir \in [Boards -> DirRecord]
  /\ reu \in [RecNums -> IndexRecord]
  /\ cur \in Boards \cup {0}
  /\ curMsg \in 0..(MaxPerBoard + 1)
  /\ pc \in {"idle", "prune", "commit", "link", "put", "save", "kill"}
  /\ loc \in DirRecord
  /\ new \in PostRecord
  /\ scan \in 1..(MaxPerBoard + 1)
  /\ pruned \in Nat
  /\ posts \subseteq [board : Boards, id : 0..(MaxPerBoard + 1), tag : Nat,
                      parent : 0..(MaxPerBoard + 1), len : 0..MaxLen]
  /\ sent \in Nat

(* Every message msg_post reported as posted is still in the index under   *)
(* the number it was given, deleted or not, with its parent, and reading   *)
(* its body yields the text that was posted and nothing else: later posts, *)
(* kills, prunes and changes of board neither overwrite nor shift it.      *)
EveryPostReadsBack ==
  \A p \in posts :
    LET r == idx[p.board][p.id]
    IN  /\ r.id = p.id /\ r.parent = p.parent /\ r.len = p.len
        /\ Body(p.board, r) = [j \in 1..p.len |-> p.tag]

(* No two records of a board ever share a byte of its text file, whatever  *)
(* went wrong on the way.                                                  *)
BodiesAreDisjoint ==
  \A b \in Boards : \A i, j \in RecNums :
    LET r == idx[b][i]
        s == idx[b][j]
    IN  (i # j /\ r.len > 0 /\ s.len > 0)
          => r.off + r.len <= s.off \/ s.off + s.len <= r.off

(* Between operations the cached msg_count of a board is the number of its *)
(* messages that are not deleted (records.h: "cached total non-deleted     *)
(* message count"), the figure the limit and the listing go by.            *)
CountIsLive ==
  pc = "idle" => \A b \in Boards : dir[b].count = Cardinality(Live(b))

(* Between operations msg_high_id is the highest number in the index and   *)
(* body_eof the length of the text file (records.h); ENTER in the reading  *)
(* loop stops at msg_high_id.                                              *)
HeaderIsExact ==
  pc = "idle" =>
    \A b \in Boards :
      /\ IsMax(dir[b].high, {idx[b][i].id : i \in RecNums})
      /\ dir[b].eof = Len(txt[b])

(* Every message is in one thread: its parent is an older message of the   *)
(* same board and of the same thread, and the thread's root is itself a    *)
(* root.  No message is an orphan.                                         *)
ThreadsAreTrees ==
  \A b \in Boards : \A i \in RecNums :
    LET r == idx[b][i]
    IN  r.id # 0 =>
          /\ r.parent = 0 => r.root = i
          /\ r.parent # 0 =>
               /\ r.parent < i
               /\ idx[b][r.parent].id # 0
               /\ r.root = idx[b][r.parent].root
          /\ r.root <= i
          /\ idx[b][r.root].id # 0
          /\ idx[b][r.root].root = r.root

(* A message's reply_count is the number of its direct children between    *)
(* operations (records.h: "direct child count").                           *)
RepliesAreCounted ==
  pc = "idle" =>
    \A b \in Boards : \A i \in RecNums :
      idx[b][i].replies =
        Cardinality({j \in RecNums : idx[b][j].id # 0 /\ idx[b][j].parent = i})

(* While a caller is on a board, REU bank 0 agrees with that board's index *)
(* on disk, record by record, also between the writes of one operation.    *)
BankMirrorsIndex ==
  UseREU /\ cur # 0 => \A i \in 1..MaxPerBoard : reu[i] = idx[cur][i]

(* A message dies only by the kill of the caller who has just read it, or  *)
(* by a prune that has already taken every older one: "the oldest messages *)
(* are auto-pruned" (README).                                              *)
OldestGoFirst ==
  [][\A b \in Boards : \A i \in RecNums :
       IsLive(idx[b][i]) /\ ~IsLive(idx'[b][i])
         => \/ b = cur /\ i = curMsg /\ pc = "idle"
            \/ \A j \in 1..(i - 1) : ~IsLive(idx[b][j])]_vars

(* What the index says of a message is settled when it is written: later   *)
(* writes only delete it or count a reply, and nothing brings it back.     *)
RecordsAreSettled ==
  [][\A b \in Boards : \A i \in RecNums :
       idx[b][i].id # 0 =>
         /\ idx'[b][i] = [idx[b][i] EXCEPT !.dele = idx'[b][i].dele,
                                           !.replies = idx'[b][i].replies]
         /\ idx[b][i].dele => idx'[b][i].dele
         /\ idx'[b][i].replies >= idx[b][i].replies]_vars

(* The index of a board holds at most CFG_MSG_MAX_PER_BOARD messages, and  *)
(* posting beyond that fails (README).                                     *)
IndexIsBounded == \A b \in Boards : idx[b][MaxPerBoard + 1].id = 0

=============================================================================
