-------------------------------- MODULE Tables --------------------------------
(***************************************************************************)
(* The four tables a SysOp keeps with CONFIGURE: message boards            *)
(* (src/data/boards.c), file areas (file_areas.c), polls (votes.c) and     *)
(* doors (doors.c), with their menus in src-editor/admin.  Each is a       *)
(* relative file whose record n has the number n; a deleted board, area or *)
(* poll keeps its record with a blank title, a deleted door is written     *)
(* over with zeros.  A zero record reads short, like one that was never    *)
(* written, and a scan of a table ends there.                              *)
(*                                                                         *)
(* Of a record the model keeps number, title, one field (display_order,    *)
(* access_level, option_count, cmd_key) and, of polls and doors, one flag  *)
(* (active, ENABLED).                                                      *)
(* Each definition named ...Bug is the next one with a mistake in it; only *)
(* the mutants listed in PROJECT.json use them.                            *)
(***************************************************************************)
EXTENDS Naturals, FiniteSets

CONSTANTS
  TableKinds,   \* a subset of Kinds of tables
  MaxSlots,     \* CFG_MAX_BOARDS 20, CFG_MAX_FILE_AREAS 8, CFG_MAX_VOTES 20, DOORS_MAX 16
  Titles,       \* titles that are not blank
  Values,       \* values of the field; an order number is not 0
  TableFaults   \* a subset of {"crash", "write", "scratch"}

ASSUME TablesAssumption ==
  /\ TableKinds \subseteq {"boards", "areas", "polls", "doors"}
  /\ MaxSlots \in Nat \ {0}
  /\ Titles \subseteq STRING \ {""}
  /\ Values \subseteq Nat \ {0} /\ {1, 2} \subseteq Values
  /\ TableFaults \subseteq {"crash", "write", "scratch"}

VARIABLES
  kind,      \* the table, one at a time
  table,     \* its records
  screen,    \* where CONFIGURE's menu for it is
  held,      \* the record it has in memory
  contents   \* files that belong to numbers: B<n>.IDX, B<n>.TXT, UD<n>

tableVars == <<kind, table, screen, held, contents>>

Slots == 1..MaxSlots
Entry(id, title, value, flag) == [id |-> id, title |-> title, value |-> value, flag |-> flag]
NoEntry == Entry(0, "", 0, FALSE)

Parts == [boards |-> {"IDX", "TXT"}, areas |-> {"UD"}, polls |-> {}, doors |-> {}]

-----------------------------------------------------------------------------
(* The data layer.                                                         *)

(* A scan meets the records up to the first that reads short.              *)
Scan == {i \in Slots : \A j \in 1..i : table[j].id # 0}

(* What a list shows.                                                      *)
BoardsListed == {i \in Scan : table[i].title # ""}
AreasListed  == {i \in Scan : table[i].title # ""}
PollsListed  == {i \in Scan : table[i].title # ""}
DoorsListed  == Scan
Listed ==
  CASE kind = "boards" -> BoardsListed
    [] kind = "areas"  -> AreasListed
    [] kind = "polls"  -> PollsListed
    [] kind = "doors"  -> DoorsListed

(* The place of an entry in it: boards go by display_order.                *)
BoardRankBug(i) ==                         \* equals share a place
  1 + Cardinality({j \in BoardsListed : table[j].value < table[i].value})
BoardRank(i) ==
  1 + Cardinality({j \in BoardsListed :
         \/ table[j].value < table[i].value
         \/ table[j].value = table[i].value /\ j < i})
SlotRank(i) == Cardinality({j \in Listed : j <= i})
Rank(i) == IF kind = "boards" THEN BoardRank(i) ELSE SlotRank(i)

(* The number of the entry at place n.  0: there is none.                  *)
ByIndex(n) ==
  LET there == {i \in Listed : Rank(i) = n}
  IN  IF there = {} THEN 0 ELSE CHOOSE i \in there : TRUE

(* A new entry is one above the highest number, those of deleted entries   *)
(* included.                                                               *)
HighestIdBug ==                            \* deleted entries passed over
  CHOOSE n \in 0..MaxSlots :
    /\ \A i \in Listed : table[i].id <= n
    /\ n = 0 \/ \E i \in Listed : table[i].id = n
HighestId ==
  CHOOSE n \in 0..MaxSlots :
    /\ \A i \in Scan : table[i].id <= n
    /\ n = 0 \/ \E i \in Scan : table[i].id = n
NewBoard(t) == Entry(HighestId + 1, t, HighestId + 1, FALSE)
NewArea(t, level) == Entry(HighestId + 1, t, level, FALSE)
NewPoll(t) == Entry(HighestId + 1, t, 2, TRUE)

(* A door gets the first slot without one; it is in memory only.           *)
FreeDoor ==
  IF \A i \in Slots : table[i].id # 0 THEN 0
  ELSE CHOOSE i \in Slots : table[i].id = 0 /\ \A j \in 1..(i - 1) : table[j].id # 0
NewDoor == Entry(FreeDoor, "", 0, TRUE)

Put(r) == table' = [table EXCEPT ![r.id] = r]
PutFails == "write" \in TableFaults /\ UNCHANGED table

(* Deleted by number: the record is read again, and left alone if it is    *)
(* deleted already.                                                        *)
Delete(i) ==
  \/ table[i].title # "" /\ Put([table[i] EXCEPT !.title = ""])
  \/ table[i].title = "" /\ UNCHANGED table
  \/ PutFails

-----------------------------------------------------------------------------
(* The menus of CONFIGURE.                                                 *)

To(s, r) == screen' = s /\ held' = r
ToMenu == To("menu", NoEntry)

TablesInit ==
  /\ kind \in TableKinds
  /\ table = [i \in Slots |-> NoEntry]
  /\ screen = "menu" /\ held = NoEntry
  /\ contents = {}

(* The number chosen from the list.                                        *)
Pick ==
  /\ screen = "menu"
  /\ \E n \in Slots : ByIndex(n) # 0 /\ To("picked", table[ByIndex(n)])
  /\ UNCHANGED <<kind, table, contents>>
LeaveEntry ==
  /\ screen = "picked" /\ ToMenu
  /\ UNCHANGED <<kind, table, contents>>

(* A title of blanks only is taken; the board is as good as deleted then,  *)
(* and its number is used up.  Any other is written at once and opened.    *)
CreateBoard(t) ==
  /\ kind = "boards" /\ screen = "menu" /\ HighestId < MaxSlots
  /\ \/ /\ Put(NewBoard(t))
        /\ IF t = "" THEN ToMenu ELSE To("new", NewBoard(t))
     \/ PutFails /\ ToMenu
  /\ UNCHANGED <<kind, contents>>

(* The editor, up to the next key S; it stays open if the write fails.  If *)
(* not, board_set_net_area reads the record again and writes it with the   *)
(* net tag, which the model leaves out; what comes of that is not asked.   *)
SaveBoard(t, order) ==
  /\ kind = "boards" /\ screen \in {"picked", "new"}
  /\ LET r == [held EXCEPT !.title = t, !.value = order]
     IN  \/ Put(r) /\ ToMenu
         \/ PutFails /\ To(screen, r)
  /\ UNCHANGED <<kind, contents>>

(* C: a new board goes, its number does not come back.                     *)
CancelBoard ==
  /\ kind = "boards" /\ screen = "new"
  /\ Delete(held.id) /\ ToMenu
  /\ UNCHANGED <<kind, contents>>

(* The record first, then B<n>.IDX, then B<n>.TXT; what the drive says to  *)
(* that is not asked.                                                      *)
DeleteBoard ==
  /\ kind = "boards" /\ screen = "picked"
  /\ \/ Put([table[held.id] EXCEPT !.title = ""]) /\ To("IDX", held)
     \/ PutFails /\ ToMenu
  /\ UNCHANGED <<kind, contents>>
Scratch ==
  /\ screen \in {"IDX", "TXT"}
  /\ \/ contents' = contents \ {<<held.id, screen>>}
     \/ "scratch" \in TableFaults /\ UNCHANGED contents
  /\ IF screen = "IDX" THEN To("TXT", held) ELSE ToMenu
  /\ UNCHANGED <<kind, table>>

(* UD<n> is left where it is when its area is deleted.                     *)
CreateArea(t, level) ==
  /\ kind = "areas" /\ screen = "menu" /\ HighestId < MaxSlots
  /\ Put(NewArea(t, level)) \/ PutFails
  /\ UNCHANGED <<kind, screen, held, contents>>
EditArea(t, level) ==
  /\ kind = "areas" /\ screen = "picked" /\ t # ""
  /\ Put([held EXCEPT !.title = t, !.value = level]) \/ PutFails
  /\ ToMenu /\ UNCHANGED <<kind, contents>>
DeleteArea ==
  /\ kind = "areas" /\ screen = "picked"
  /\ Delete(held.id) /\ ToMenu
  /\ UNCHANGED <<kind, contents>>

(* A poll is written with two options and again with the number chosen.    *)
CreatePoll(t) ==
  /\ kind = "polls" /\ screen = "menu" /\ HighestId < MaxSlots
  /\ \/ /\ Put(NewPoll(t))
        /\ IF t = "" THEN ToMenu ELSE To("options", NewPoll(t))
     \/ PutFails /\ ToMenu
  /\ UNCHANGED <<kind, contents>>
SetOptions(count) ==
  /\ kind = "polls" /\ screen = "options"
  /\ Put([table[held.id] EXCEPT !.value = count, !.flag = TRUE]) \/ PutFails
  /\ ToMenu /\ UNCHANGED <<kind, contents>>
TogglePoll ==
  /\ kind = "polls" /\ screen = "picked"
  /\ Put([held EXCEPT !.flag = ~@]) \/ PutFails
  /\ ToMenu /\ UNCHANGED <<kind, contents>>
DeletePoll ==
  /\ kind = "polls" /\ screen = "picked"
  /\ Delete(held.id) /\ ToMenu
  /\ UNCHANGED <<kind, contents>>

CreateDoor ==
  /\ kind = "doors" /\ screen = "menu" /\ FreeDoor # 0
  /\ To("draft", NewDoor)
  /\ UNCHANGED <<kind, table, contents>>
SaveDoor(t, key, enabled) ==
  /\ kind = "doors" /\ screen \in {"picked", "draft"} /\ t # ""
  /\ LET r == [held EXCEPT !.title = t, !.value = key, !.flag = enabled]
     IN  \/ Put(r) /\ ToMenu
         \/ PutFails /\ To(screen, r)
  /\ UNCHANGED <<kind, contents>>
CancelDoor ==
  /\ kind = "doors" /\ screen = "draft" /\ ToMenu
  /\ UNCHANGED <<kind, table, contents>>
DeleteDoor ==
  /\ kind = "doors" /\ screen = "picked"
  /\ table' = [table EXCEPT ![held.id] = NoEntry] \/ PutFails
  /\ ToMenu /\ UNCHANGED <<kind, contents>>

(* Numbers do not come back: a table that has given all of them takes no   *)
(* entry any more, however few it lists.                                   *)
Refuse ==
  /\ screen = "menu"
  /\ IF kind = "doors" THEN FreeDoor = 0 ELSE HighestId = MaxSlots
  /\ UNCHANGED tableVars

-----------------------------------------------------------------------------
(* Meanwhile.                                                              *)

(* The board runs and writes files of an entry: posts and uploads.         *)
Use(i) ==
  /\ screen = "menu" /\ i \in Listed
  /\ contents' = contents \cup {<<i, p>> : p \in Parts[kind]}
  /\ contents' # contents
  /\ UNCHANGED <<kind, table, screen, held>>

TablesCrash ==
  /\ "crash" \in TableFaults /\ screen # "menu"
  /\ ToMenu /\ UNCHANGED <<kind, table, contents>>

TablesNext ==
  \/ Pick \/ LeaveEntry \/ Scratch \/ Refuse \/ TablesCrash
  \/ CancelBoard \/ DeleteBoard \/ DeleteArea \/ DeletePoll \/ TogglePoll
  \/ CreateDoor \/ CancelDoor \/ DeleteDoor
  \/ \E i \in Slots : Use(i)
  \/ \E v \in Values : SetOptions(v)
  \/ \E t \in Titles \cup {""} :
       \/ CreateBoard(t) \/ CreatePoll(t)
       \/ \E v \in Values :
            \/ CreateArea(t, v) \/ EditArea(t, v) \/ SaveBoard(t, v)
            \/ \E enabled \in BOOLEAN : SaveDoor(t, v, enabled)

TablesSpec == TablesInit /\ [][TablesNext]_tableVars

-----------------------------------------------------------------------------
(* Properties                                                              *)

Entries == [id : 0..MaxSlots, title : Titles \cup {""}, value : Nat, flag : BOOLEAN]
IsLiveEntry(i) == table[i].id # 0 /\ (kind = "doors" \/ table[i].title # "")

TablesTypeOK ==
  /\ kind \in TableKinds
  /\ table \in [Slots -> Entries] /\ \A i \in Slots : table[i].id \in {0, i}
  /\ screen \in {"menu", "picked", "new", "options", "draft", "IDX", "TXT"}
  /\ held \in Entries
  /\ contents \subseteq Slots \X {"IDX", "TXT", "UD"}

(* Whatever is created, edited, cancelled or deleted, and wherever that    *)
(* fails or stops, an entry that is there changes only when the SysOp has  *)
(* that very entry open: a number is never given to two entries.           *)
EntriesStay ==
  [][\A i \in Slots :
       IsLiveEntry(i) /\ table'[i] # table[i]
         => held.id = i /\ screen \notin {"menu", "draft"}]_tableVars

(* A new board or area starts empty: it never takes over the messages or   *)
(* the list of files that a deleted one has left on the disk.              *)
FreshIsEmpty ==
  [][\A i \in Slots :
       ~IsLiveEntry(i) /\ (IsLiveEntry(i))' => \A c \in contents' : c[1] # i]_tableVars

(* The list shows every board, area and poll in one place and has no gap,  *)
(* whatever was deleted and however the boards are ordered; of the doors   *)
(* it shows those below the first slot without one.                        *)
ListIsComplete ==
  /\ \A i \in Slots :
       IsLiveEntry(i) /\ (kind = "doors" => \A j \in 1..i : IsLiveEntry(j))
         => \E n \in 1..Cardinality(Listed) : ByIndex(n) = i
  /\ \A n \in 1..Cardinality(Listed) : ByIndex(n) # 0

=============================================================================
