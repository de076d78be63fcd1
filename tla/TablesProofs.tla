------------------------------ MODULE TablesProofs ------------------------------
(* Proofs about the tables that CONFIGURE keeps, for every number of slots:     *)
(* no number goes to two entries, and what a deleted entry left on the disk     *)
(* never becomes a new one's.                                                   *)
EXTENDS Tables, LeastNumber

(* Which entry each screen is about.                                            *)
HeldInv ==
  /\ screen # "menu" => held.id \in Slots
  /\ screen = "draft" => kind = "doors" /\ table[held.id].id = 0
  /\ screen \in {"picked", "new", "options"} => IsLiveEntry(held.id)
  /\ screen \in {"new", "IDX", "TXT"} => kind = "boards"
  /\ screen = "options" => kind = "polls"

(* Records are used from the first on, doors excepted, and files belong to      *)
(* numbers that were given.                                                     *)
UsedInv ==
  /\ kind # "doors" =>
       \A i, j \in Slots : j <= i /\ table[i].id # 0 => table[j].id # 0
  /\ kind = "doors" => contents = {}
  /\ \A c \in contents : table[c[1]].id # 0

TablesInv == TablesTypeOK /\ HeldInv /\ UsedInv

(* What FreshIsEmpty and EntriesStay say of one step.                           *)
Fresh == \A i \in Slots :
  ~IsLiveEntry(i) /\ (IsLiveEntry(i))' => \A c \in contents' : c[1] # i
Stay == \A i \in Slots :
  IsLiveEntry(i) /\ table'[i] # table[i] => held.id = i /\ screen \notin {"menu", "draft"}

-------------------------------------------------------------------------------
(* The helpers.                                                                 *)

LEMMA SlotsAreNumbers ==
  /\ MaxSlots \in Nat \ {0}
  /\ Slots \subseteq Nat \ {0} /\ Slots \subseteq 0..MaxSlots /\ 0 \notin Slots
<1>1. MaxSlots \in Nat \ {0}
  BY TablesAssumption, Zenon
<1> QED
  BY <1>1 DEF Slots

(* The scan for the highest number finds it.                                  *)
LEMMA HighestIdBound ==
  ASSUME TablesTypeOK
  PROVE  /\ HighestId \in 0..MaxSlots
         /\ \A i \in Scan : table[i].id <= HighestId
         /\ HighestId = 0 \/ \E i \in Scan : table[i].id = HighestId
<1> DEFINE Above(n) == \A i \in Scan : table[i].id <= n
           U == {n \in 0..MaxSlots : Above(n)}
<1>1. /\ MaxSlots \in Nat
      /\ \A i \in Scan : i \in Slots /\ table[i].id \in 0..MaxSlots
  BY SlotsAreNumbers DEF TablesTypeOK, Entries, Scan
<1>2. MaxSlots \in U
  BY <1>1
<1>3. U \in SUBSET Nat /\ U # {}
  BY <1>1, <1>2
<1>4. PICK n \in U : \A m \in U : n <= m
  <2> HIDE DEF U
  <2> QED  BY <1>3, LeastNumberExists
<1>5. n = 0 \/ \E i \in Scan : table[i].id = n
  <2>1. SUFFICES ASSUME n # 0, \A i \in Scan : table[i].id # n PROVE FALSE
    OBVIOUS
  <2>2. n \in Nat /\ n - 1 \in 0..MaxSlots
    BY <1>1, <2>1
  <2>3. \A i \in Scan : table[i].id <= n - 1
    BY <1>1, <2>1, <2>2
  <2>4. n - 1 \in U
    BY <2>2, <2>3
  <2> QED
    BY <2>2, <2>4, <1>4
<1>6. \E k \in 0..MaxSlots :
        /\ \A i \in Scan : table[i].id <= k
        /\ k = 0 \/ \E i \in Scan : table[i].id = k
  BY <1>4, <1>5
<1> QED
  BY <1>6 DEF HighestId

(* The number a new entry gets was never given, and those before it were.       *)
LEMMA NewNumberIsUnused ==
  ASSUME TablesInv, kind # "doors", HighestId < MaxSlots
  PROVE  /\ HighestId + 1 \in Slots
         /\ table[HighestId + 1].id = 0
         /\ \A j \in Slots : j <= HighestId => table[j].id # 0
<1> DEFINE h == HighestId
<1>1. /\ h \in 0..MaxSlots
      /\ \A i \in Scan : table[i].id <= h
      /\ h = 0 \/ \E i \in Scan : table[i].id = h
  BY HighestIdBound DEF TablesInv
<1> HIDE DEF h
<1>2. h + 1 \in Slots /\ MaxSlots \in Nat /\ h \in Nat
  <2>1. h < MaxSlots  BY DEF h
  <2> QED  BY <1>1, <2>1, SlotsAreNumbers DEF Slots
<1>3. \A i \in Slots : table[i].id \in {0, i}
  BY DEF TablesInv, TablesTypeOK
<1>4. \A i, j \in Slots : j <= i /\ table[i].id # 0 => table[j].id # 0
  BY DEF TablesInv, UsedInv
<1>5. \A i \in Scan : i \in Slots /\ \A j \in 1..i : table[j].id # 0
  BY DEF Scan
<1>6. table[h + 1].id = 0
  <2>1. SUFFICES ASSUME table[h + 1].id # 0 PROVE FALSE
    OBVIOUS
  <2>2. \A j \in 1..(h + 1) : j \in Slots /\ j <= h + 1
    BY <1>2 DEF Slots
  <2>3. h + 1 \in Scan
    BY <2>1, <2>2, <1>2, <1>4 DEF Scan
  <2>4. table[h + 1].id = h + 1
    BY <2>1, <1>2, <1>3
  <2> QED
    BY <2>3, <2>4, <1>1, <1>2
<1>7. \A j \in Slots : j <= h => table[j].id # 0
  <2>1. SUFFICES ASSUME NEW j \in Slots, j <= h PROVE table[j].id # 0
    OBVIOUS
  <2>2. h # 0 /\ j \in 1..h
    BY <2>1, <1>2, SlotsAreNumbers
  <2>3. PICK i \in Scan : table[i].id = h
    BY <2>2, <1>1
  <2>4. i = h
    BY <2>2, <2>3, <1>3, <1>5
  <2> QED
    BY <2>2, <2>4, <1>5
<1> QED
  BY <1>2, <1>6, <1>7 DEF h

(* The number taken for a new door is in use by none.                         *)
LEMMA FreeDoorIsFree ==
  ASSUME TablesInv, FreeDoor # 0
  PROVE  FreeDoor \in Slots /\ table[FreeDoor].id = 0
<1> DEFINE U == {i \in Slots : table[i].id = 0}
<1>1. U # {} /\ U \in SUBSET Nat
  BY SlotsAreNumbers DEF FreeDoor
<1>2. PICK m \in U : \A n \in U : m <= n
  <2> HIDE DEF U
  <2> QED  BY <1>1, LeastNumberExists
<1>3. \A j \in 1..(m - 1) : j \in Slots /\ ~(m <= j)
  BY SlotsAreNumbers DEF Slots
<1>4. \E i \in Slots : table[i].id = 0 /\ \A j \in 1..(i - 1) : table[j].id # 0
  BY <1>2, <1>3
<1> QED
  BY <1>1, <1>4 DEF FreeDoor

(* What the list offers is a live entry.                                        *)
LEMMA ListedIsLive ==
  ASSUME TablesInv, NEW n \in Slots, ByIndex(n) # 0
  PROVE  ByIndex(n) \in Slots /\ IsLiveEntry(ByIndex(n)) /\ table[ByIndex(n)].id = ByIndex(n)
<1>1. \A i \in Listed : i \in Scan /\ (kind = "doors" \/ table[i].title # "")
  <2>1. kind \in {"boards", "areas", "polls", "doors"}
    BY TablesAssumption DEF TablesInv, TablesTypeOK
  <2> QED
    BY <2>1 DEF Listed, BoardsListed, AreasListed, PollsListed, DoorsListed
<1>2. \A i \in Scan : i \in Slots /\ table[i].id # 0
  BY SlotsAreNumbers DEF Scan, Slots
<1>3. ByIndex(n) \in Listed
  BY DEF ByIndex
<1> QED
  BY <1>1, <1>2, <1>3 DEF IsLiveEntry, TablesInv, TablesTypeOK

(* What a write of a record does, when it succeeds and when it fails.         *)
LEMMA PutEffect ==
  ASSUME TablesTypeOK, NEW r \in Entries, r.id \in Slots, Put(r)
  PROVE  /\ table' \in [Slots -> Entries]
         /\ \A i \in Slots : table'[i].id \in {0, i}
         /\ table'[r.id] = r
         /\ \A i \in Slots : i # r.id => table'[i] = table[i]
BY SlotsAreNumbers DEF Put, TablesTypeOK

-------------------------------------------------------------------------------
(* What a step may do to the table, and that each is sound.                     *)

ScreenOK ==
  /\ screen \in {"menu", "picked", "new", "options", "draft", "IDX", "TXT"}
  /\ held \in Entries
Sound == TablesInv' /\ Fresh /\ Stay

(* An entry that is written back has its type.                                *)
LEMMA EntriesTyped ==
  /\ NoEntry \in Entries /\ NoEntry.id = 0
  /\ \A id \in 0..MaxSlots, t \in Titles \cup {""}, v \in Nat, f \in BOOLEAN :
       Entry(id, t, v, f) \in Entries /\ Entry(id, t, v, f).id = id
                                      /\ Entry(id, t, v, f).title = t
  /\ Values \subseteq Nat
<1>1. Values \subseteq Nat
  BY TablesAssumption, Zenon
<1>2. \A id \in 0..MaxSlots, t \in Titles \cup {""}, v \in Nat, f \in BOOLEAN :
        Entry(id, t, v, f) \in Entries /\ Entry(id, t, v, f).id = id
                                       /\ Entry(id, t, v, f).title = t
  BY DEF Entry, Entries
<1>3. 0 \in 0..MaxSlots /\ 0 \in Nat /\ "" \in Titles \cup {""} /\ FALSE \in BOOLEAN
  BY SlotsAreNumbers
<1> QED
  BY <1>1, <1>2, <1>3 DEF NoEntry

(* Back in the menu nothing is asked of the record in memory.                   *)
LEMMA BackInMenu ==
  ASSUME ToMenu
  PROVE  ScreenOK' /\ HeldInv'
BY EntriesTyped DEF ToMenu, To, ScreenOK, HeldInv

(* The table is as it was.                                                      *)
LEMMA KeptIsSound ==
  ASSUME TablesInv, UNCHANGED <<kind, table, contents>>, ScreenOK', HeldInv'
  PROVE  Sound
<1>1. TablesTypeOK'
  BY DEF TablesInv, TablesTypeOK, ScreenOK
<1>2. UsedInv'
  BY DEF TablesInv, UsedInv
<1>3. Fresh /\ Stay
  BY DEF Fresh, Stay, IsLiveEntry
<1> QED
  BY <1>1, <1>2, <1>3 DEF Sound, TablesInv

(* A live record, open in memory, is written again.                             *)
LEMMA RewrittenIsSound ==
  ASSUME TablesInv, UNCHANGED <<kind, contents>>, ScreenOK', HeldInv',
         NEW r \in Entries, r.id \in Slots, Put(r), IsLiveEntry(r.id),
         held.id = r.id, screen \notin {"menu", "draft"}
  PROVE  Sound
<1>1. /\ table' \in [Slots -> Entries]
      /\ \A i \in Slots : table'[i].id \in {0, i}
      /\ table'[r.id] = r
      /\ \A i \in Slots : i # r.id => table'[i] = table[i]
  BY PutEffect DEF TablesInv
<1>2. r.id # 0 /\ table[r.id].id # 0
  BY SlotsAreNumbers DEF IsLiveEntry
<1>3. \A i \in Slots : table'[i].id # 0 <=> table[i].id # 0
  BY <1>1, <1>2
<1>4. \A c \in contents : c[1] \in Slots
  BY DEF TablesInv, TablesTypeOK
<1>5. UsedInv'
  BY <1>3, <1>4 DEF TablesInv, UsedInv
<1>6. TablesTypeOK'
  BY <1>1 DEF TablesInv, TablesTypeOK, ScreenOK
<1>7. ASSUME NEW i \in Slots, ~IsLiveEntry(i), (IsLiveEntry(i))' PROVE FALSE
  <2>1. i # r.id
    BY <1>7
  <2>2. table'[i] = table[i]
    BY <1>1, <2>1
  <2> QED
    BY <1>7, <2>2 DEF IsLiveEntry
<1>8. Fresh /\ Stay
  BY <1>1, <1>7 DEF Fresh, Stay
<1> QED
  BY <1>5, <1>6, <1>8 DEF Sound, TablesInv

(* A number that was never given, or a free slot for a door, gets a record.     *)
LEMMA AddedIsSound ==
  ASSUME TablesInv, UNCHANGED <<kind, contents>>, ScreenOK', HeldInv',
         NEW r \in Entries, r.id \in Slots, Put(r), table[r.id].id = 0,
         kind # "doors" => \A j \in Slots : j < r.id => table[j].id # 0
  PROVE  Sound
<1>1. /\ table' \in [Slots -> Entries]
      /\ \A i \in Slots : table'[i].id \in {0, i}
      /\ table'[r.id] = r
      /\ \A i \in Slots : i # r.id => table'[i] = table[i]
  BY PutEffect DEF TablesInv
<1>2. r.id \in Nat /\ r.id # 0 /\ \A i \in Slots : i \in Nat
  BY SlotsAreNumbers
<1>3. \A c \in contents : c[1] \in Slots /\ c[1] # r.id /\ table[c[1]].id # 0
  BY DEF TablesInv, TablesTypeOK, UsedInv
<1>4. ASSUME kind # "doors", NEW i \in Slots, NEW j \in Slots, j <= i, table'[i].id # 0
      PROVE  table'[j].id # 0
  <2>1. CASE j = r.id
    BY <2>1, <1>1, <1>2
  <2>2. CASE j # r.id /\ i = r.id
    <3>1. j < r.id
      BY <2>2, <1>2, <1>4
    <3> QED
      BY <3>1, <2>2, <1>1, <1>4
  <2>3. CASE j # r.id /\ i # r.id
    BY <2>3, <1>1, <1>4 DEF TablesInv, UsedInv
  <2> QED
    BY <2>1, <2>2, <2>3
<1>5. UsedInv'
  BY <1>1, <1>3, <1>4 DEF TablesInv, UsedInv
<1>6. TablesTypeOK'
  BY <1>1 DEF TablesInv, TablesTypeOK, ScreenOK
<1>7. ASSUME NEW i \in Slots, ~IsLiveEntry(i), (IsLiveEntry(i))' PROVE i = r.id
  <2>1. SUFFICES ASSUME i # r.id PROVE FALSE
    OBVIOUS
  <2>2. table'[i] = table[i]
    BY <1>1, <2>1
  <2> QED
    BY <1>7, <2>2 DEF IsLiveEntry
<1>8. Fresh
  BY <1>3, <1>7 DEF Fresh
<1>9. Stay
  BY <1>1 DEF Stay, IsLiveEntry
<1> QED
  BY <1>5, <1>6, <1>8, <1>9 DEF Sound, TablesInv

-------------------------------------------------------------------------------
(* One lemma for each group of actions.                                         *)

(* The record in memory is live where it is picked or new.                      *)
LEMMA HeldIsLive ==
  ASSUME TablesInv, screen \in {"picked", "new", "options"}
  PROVE  /\ held \in Entries /\ held.id \in Slots
         /\ table[held.id] \in Entries /\ table[held.id].id = held.id
         /\ IsLiveEntry(held.id)
         /\ screen \notin {"menu", "draft"}
BY DEF TablesInv, HeldInv, TablesTypeOK, IsLiveEntry

(* Deleting an entry keeps the invariant.                                     *)
LEMMA DeleteIsSound ==
  ASSUME TablesInv, screen \in {"picked", "new"}, Delete(held.id), ToMenu,
         UNCHANGED <<kind, contents>>
  PROVE  Sound
<1>1. ScreenOK' /\ HeldInv'
  BY BackInMenu
<1>2. CASE UNCHANGED table
  BY <1>1, <1>2, KeptIsSound
<1>3. CASE Put([table[held.id] EXCEPT !.title = ""])
  <2> DEFINE r == [table[held.id] EXCEPT !.title = ""]
  <2>1. r \in Entries /\ r.id = held.id
    BY HeldIsLive DEF Entries
  <2>2. Put(r) /\ r.id \in Slots /\ IsLiveEntry(r.id) /\ held.id = r.id
        /\ screen \notin {"menu", "draft"}
    BY <1>3, <2>1, HeldIsLive
  <2> HIDE DEF r
  <2> QED
    BY <1>1, <2>1, <2>2, RewrittenIsSound
<1> QED
  BY <1>2, <1>3 DEF Delete, PutFails

(* So does opening one.                                                       *)
LEMMA PickIsSound ==
  ASSUME TablesInv, Pick
  PROVE  Sound
<1>1. PICK n \in Slots : ByIndex(n) # 0 /\ To("picked", table[ByIndex(n)])
  BY DEF Pick
<1> DEFINE k == ByIndex(n)
<1>2. k \in Slots /\ IsLiveEntry(k) /\ table[k].id = k
  BY <1>1, ListedIsLive
<1>3. screen' = "picked" /\ held' = table[k] /\ UNCHANGED <<kind, table, contents>>
  BY <1>1 DEF To, Pick
<1> HIDE DEF k
<1>4. ScreenOK'
  BY <1>2, <1>3 DEF ScreenOK, TablesInv, TablesTypeOK
<1>5. HeldInv'
  BY <1>2, <1>3 DEF HeldInv, IsLiveEntry
<1> QED
  BY <1>3, <1>4, <1>5, KeptIsSound

(* Nothing is written.                                                          *)
LEMMA LeavingIsSound ==
  ASSUME TablesInv, LeaveEntry \/ Refuse \/ TablesCrash \/ CancelDoor
  PROVE  Sound
<1>1. CASE Refuse
  <2>1. UNCHANGED tableVars
    BY <1>1 DEF Refuse
  <2>2. ScreenOK' /\ HeldInv'
    BY <2>1 DEF tableVars, TablesInv, TablesTypeOK, ScreenOK, HeldInv, IsLiveEntry
  <2> QED
    BY <2>1, <2>2, KeptIsSound DEF tableVars
<1>2. CASE LeaveEntry \/ TablesCrash \/ CancelDoor
  <2>1. ToMenu /\ UNCHANGED <<kind, table, contents>>
    BY <1>2 DEF LeaveEntry, TablesCrash, CancelDoor
  <2> QED
    BY <2>1, BackInMenu, KeptIsSound
<1> QED
  BY <1>1, <1>2

(* So does creating a door.                                                   *)
LEMMA CreateDoorIsSound ==
  ASSUME TablesInv, CreateDoor
  PROVE  Sound
<1>1. FreeDoor \in Slots /\ table[FreeDoor].id = 0
  BY FreeDoorIsFree DEF CreateDoor
<1>2. /\ kind = "doors" /\ screen' = "draft" /\ held' = Entry(FreeDoor, "", 0, TRUE)
      /\ UNCHANGED <<kind, table, contents>>
  BY DEF CreateDoor, To, NewDoor
<1>3. held' \in Entries /\ held'.id = FreeDoor
  <2>1. FreeDoor \in 0..MaxSlots /\ "" \in Titles \cup {""} /\ 0 \in Nat /\ TRUE \in BOOLEAN
    BY <1>1, SlotsAreNumbers
  <2> QED
    BY <2>1, <1>2, EntriesTyped
<1>4. ScreenOK' /\ HeldInv'
  BY <1>1, <1>2, <1>3 DEF ScreenOK, HeldInv, IsLiveEntry
<1> QED
  BY <1>2, <1>4, KeptIsSound

(* What is created: it gets the number after the highest.                       *)
LEMMA NewRecordIsSound ==
  ASSUME TablesInv, kind # "doors", HighestId < MaxSlots, UNCHANGED <<kind, contents>>,
         NEW r \in Entries, r.id = HighestId + 1, Put(r), ScreenOK', HeldInv'
  PROVE  Sound
<1>1. r.id \in Slots /\ table[r.id].id = 0
  BY NewNumberIsUnused
<1>2. HighestId \in Nat /\ \A j \in Slots : j \in Nat
  <2>1. HighestId \in 0..MaxSlots
    BY HighestIdBound DEF TablesInv
  <2> HIDE DEF HighestId
  <2> QED
    BY <2>1, SlotsAreNumbers
<1>3. \A j \in Slots : j < r.id => table[j].id # 0
  <2>1. \A j \in Slots : j < HighestId + 1 => j <= HighestId
    BY <1>2
  <2> QED
    BY <2>1, NewNumberIsUnused
<1> QED
  BY <1>1, <1>3, AddedIsSound

(* A new entry has its type.                                                  *)
LEMMA NewTyped ==
  ASSUME TablesInv, kind # "doors", HighestId < MaxSlots,
         NEW t \in Titles \cup {""}, NEW v \in Values
  PROVE  /\ HighestId + 1 \in Slots
         /\ NewBoard(t) \in Entries /\ NewBoard(t).id = HighestId + 1 /\ NewBoard(t).title = t
         /\ NewArea(t, v) \in Entries /\ NewArea(t, v).id = HighestId + 1
         /\ NewPoll(t) \in Entries /\ NewPoll(t).id = HighestId + 1 /\ NewPoll(t).title = t
<1> DEFINE n == HighestId + 1
<1>1. n \in Slots
  BY NewNumberIsUnused
<1>2. /\ NewBoard(t) = Entry(n, t, n, FALSE)
      /\ NewArea(t, v) = Entry(n, t, v, FALSE)
      /\ NewPoll(t) = Entry(n, t, 2, TRUE)
  BY DEF NewBoard, NewArea, NewPoll
<1> HIDE DEF n
<1>3. n \in 0..MaxSlots /\ n \in Nat
  BY <1>1, SlotsAreNumbers
<1>4. v \in Nat /\ 2 \in Nat /\ TRUE \in BOOLEAN /\ FALSE \in BOOLEAN
  BY EntriesTyped
<1>5. /\ NewBoard(t) \in Entries /\ NewBoard(t).id = n /\ NewBoard(t).title = t
      /\ NewArea(t, v) \in Entries /\ NewArea(t, v).id = n
      /\ NewPoll(t) \in Entries /\ NewPoll(t).id = n /\ NewPoll(t).title = t
  <2>1. \A w \in Nat, f \in BOOLEAN :
          Entry(n, t, w, f) \in Entries /\ Entry(n, t, w, f).id = n
                                        /\ Entry(n, t, w, f).title = t
    BY <1>3, EntriesTyped
  <2>2. NewBoard(t) \in Entries /\ NewBoard(t).id = n /\ NewBoard(t).title = t
    BY <1>2, <1>3, <1>4, <2>1
  <2>3. NewArea(t, v) \in Entries /\ NewArea(t, v).id = n
    BY <1>2, <1>4, <2>1
  <2>4. NewPoll(t) \in Entries /\ NewPoll(t).id = n /\ NewPoll(t).title = t
    BY <1>2, <1>4, <2>1
  <2> QED
    BY <2>2, <2>3, <2>4
<1> QED
  BY <1>1, <1>5 DEF n

(* Creating a board, an area or a poll keeps the invariant.                   *)
LEMMA CreateIsSound ==
  ASSUME TablesInv, NEW t \in Titles \cup {""}, NEW v \in Values,
         CreateBoard(t) \/ CreatePoll(t) \/ CreateArea(t, v)
  PROVE  Sound
<1>1. kind # "doors" /\ HighestId < MaxSlots /\ UNCHANGED <<kind, contents>>
      /\ screen = "menu"
  BY DEF CreateBoard, CreatePoll, CreateArea
<1>2. /\ HighestId + 1 \in Slots
      /\ NewBoard(t) \in Entries /\ NewBoard(t).id = HighestId + 1 /\ NewBoard(t).title = t
      /\ NewArea(t, v) \in Entries /\ NewArea(t, v).id = HighestId + 1
      /\ NewPoll(t) \in Entries /\ NewPoll(t).id = HighestId + 1 /\ NewPoll(t).title = t
  BY <1>1, NewTyped
<1>3. CASE PutFails /\ ToMenu
  BY <1>1, <1>3, BackInMenu, KeptIsSound DEF PutFails
<1>4. CASE kind = "areas" /\ UNCHANGED <<screen, held>> /\ (Put(NewArea(t, v)) \/ PutFails)
  <2>1. ScreenOK' /\ HeldInv'
    BY <1>1, <1>4 DEF TablesInv, TablesTypeOK, ScreenOK, HeldInv
  <2>2. CASE PutFails
    BY <1>1, <2>1, <2>2, KeptIsSound DEF PutFails
  <2>3. CASE Put(NewArea(t, v))
    BY <1>1, <1>2, <2>1, <2>3, NewRecordIsSound
  <2> QED
    BY <1>4, <2>2, <2>3
<1>5. CASE kind = "boards" /\ Put(NewBoard(t))
           /\ IF t = "" THEN ToMenu ELSE To("new", NewBoard(t))
  <2>1. CASE t = ""
    BY <1>1, <1>2, <1>5, <2>1, BackInMenu, NewRecordIsSound
  <2>2. CASE t # ""
    <3>1. screen' = "new" /\ held' = NewBoard(t) /\ kind' = "boards"
      BY <1>1, <1>5, <2>2 DEF To
    <3>2. table'[held'.id] = held' /\ held'.id # 0 /\ held'.id \in Slots
      BY <3>1, <1>2, <1>5, SlotsAreNumbers, PutEffect DEF TablesInv
    <3>3. ScreenOK' /\ HeldInv'
      BY <3>1, <3>2, <1>2, <2>2 DEF ScreenOK, HeldInv, IsLiveEntry
    <3> QED
      BY <1>1, <1>2, <1>5, <3>3, NewRecordIsSound
  <2> QED
    BY <2>1, <2>2
<1>6. CASE kind = "polls" /\ Put(NewPoll(t))
           /\ IF t = "" THEN ToMenu ELSE To("options", NewPoll(t))
  <2>1. CASE t = ""
    BY <1>1, <1>2, <1>6, <2>1, BackInMenu, NewRecordIsSound
  <2>2. CASE t # ""
    <3>1. screen' = "options" /\ held' = NewPoll(t) /\ kind' = "polls"
      BY <1>1, <1>6, <2>2 DEF To
    <3>2. table'[held'.id] = held' /\ held'.id # 0 /\ held'.id \in Slots
      BY <3>1, <1>2, <1>6, SlotsAreNumbers, PutEffect DEF TablesInv
    <3>3. ScreenOK' /\ HeldInv'
      BY <3>1, <3>2, <1>2, <2>2 DEF ScreenOK, HeldInv, IsLiveEntry
    <3> QED
      BY <1>1, <1>2, <1>6, <3>3, NewRecordIsSound
  <2> QED
    BY <2>1, <2>2
<1>7. \/ PutFails /\ ToMenu
      \/ kind = "areas" /\ UNCHANGED <<screen, held>> /\ (Put(NewArea(t, v)) \/ PutFails)
      \/ kind = "boards" /\ Put(NewBoard(t)) /\ IF t = "" THEN ToMenu ELSE To("new", NewBoard(t))
      \/ kind = "polls" /\ Put(NewPoll(t)) /\ IF t = "" THEN ToMenu ELSE To("options", NewPoll(t))
  BY DEF CreateBoard, CreatePoll, CreateArea
<1> QED
  BY <1>3, <1>4, <1>5, <1>6, <1>7

(* What is edited: the record open in memory, or the one on the disk with its   *)
(* number, is written again, or the write fails.                                *)
LEMMA EditIsSound ==
  ASSUME TablesInv, screen \in {"picked", "new", "options"}, UNCHANGED <<kind, contents>>,
         NEW r \in Entries, r.id = held.id,
         \/ (Put(r) \/ PutFails) /\ ToMenu
         \/ PutFails /\ To(screen, r)
  PROVE  Sound
<1>1. /\ held.id \in Slots /\ IsLiveEntry(held.id) /\ screen \notin {"menu", "draft"}
  BY HeldIsLive
<1>2. CASE Put(r) /\ ToMenu
  BY <1>1, <1>2, BackInMenu, RewrittenIsSound
<1>3. CASE PutFails /\ ToMenu
  BY <1>3, BackInMenu, KeptIsSound DEF PutFails
<1>4. CASE PutFails /\ To(screen, r)
  <2>1. screen' = screen /\ held' = r /\ UNCHANGED <<kind, table, contents>>
    BY <1>4 DEF To, PutFails
  <2>2. ScreenOK'
    BY <2>1 DEF TablesInv, TablesTypeOK, ScreenOK
  <2>3. HeldInv'
    BY <2>1 DEF TablesInv, HeldInv, IsLiveEntry
  <2> QED
    BY <2>1, <2>2, <2>3, KeptIsSound
<1> QED
  BY <1>2, <1>3, <1>4


(* So does saving the entry that is open.                                     *)
LEMMA SaveIsSound ==
  ASSUME TablesInv, NEW t \in Titles \cup {""}, NEW v \in Values,
         SaveBoard(t, v) \/ EditArea(t, v) \/ SetOptions(v) \/ TogglePoll
  PROVE  Sound
<1>1. CASE SaveBoard(t, v) \/ EditArea(t, v)
  <2> DEFINE r == [held EXCEPT !.title = t, !.value = v]
  <2>1. /\ screen \in {"picked", "new", "options"} /\ UNCHANGED <<kind, contents>>
        /\ \/ (Put(r) \/ PutFails) /\ ToMenu
           \/ PutFails /\ To(screen, r)
    BY <1>1 DEF SaveBoard, EditArea
  <2>2. r \in Entries /\ r.id = held.id
    <3>1. v \in Nat /\ held \in Entries /\ table[held.id] \in Entries
          /\ table[held.id].id = held.id
      BY <2>1, HeldIsLive, EntriesTyped
    <3> QED
      BY <3>1 DEF Entries
  <2> HIDE DEF r
  <2> QED
    BY <2>1, <2>2, EditIsSound
<1>2. CASE SetOptions(v)
  <2> DEFINE r == [table[held.id] EXCEPT !.value = v, !.flag = TRUE]
  <2>1. /\ screen \in {"picked", "new", "options"} /\ UNCHANGED <<kind, contents>>
        /\ (Put(r) \/ PutFails) /\ ToMenu
    BY <1>2 DEF SetOptions
  <2>2. r \in Entries /\ r.id = held.id
    <3>1. v \in Nat /\ held \in Entries /\ table[held.id] \in Entries
          /\ table[held.id].id = held.id
      BY <2>1, HeldIsLive, EntriesTyped
    <3> QED
      BY <3>1 DEF Entries
  <2> HIDE DEF r
  <2> QED
    BY <2>1, <2>2, EditIsSound
<1>3. CASE TogglePoll
  <2> DEFINE r == [held EXCEPT !.flag = ~@]
  <2>1. /\ screen \in {"picked", "new", "options"} /\ UNCHANGED <<kind, contents>>
        /\ (Put(r) \/ PutFails) /\ ToMenu
    BY <1>3 DEF TogglePoll
  <2>2. r \in Entries /\ r.id = held.id
    BY <2>1, HeldIsLive DEF Entries
  <2> HIDE DEF r
  <2> QED
    BY <2>1, <2>2, EditIsSound
<1> QED
  BY <1>1, <1>2, <1>3

(* A door in the draft has a free slot; one that was picked is live.            *)
LEMMA SaveDoorIsSound ==
  ASSUME TablesInv, NEW t \in Titles \cup {""}, NEW v \in Values, NEW f \in BOOLEAN,
         SaveDoor(t, v, f)
  PROVE  Sound
<1> DEFINE r == [held EXCEPT !.title = t, !.value = v, !.flag = f]
<1>1. /\ kind = "doors" /\ screen \in {"picked", "draft"} /\ UNCHANGED <<kind, contents>>
      /\ (Put(r) /\ ToMenu) \/ (PutFails /\ To(screen, r))
  BY DEF SaveDoor
<1>2. held \in Entries /\ held.id \in Slots
  BY <1>1 DEF TablesInv, TablesTypeOK, HeldInv
<1>3. r \in Entries /\ r.id = held.id
  <2>1. v \in Nat
    BY EntriesTyped
  <2> QED
    BY <1>2, <2>1 DEF Entries
<1> HIDE DEF r
<1>4. CASE screen = "picked"
  BY <1>1, <1>3, <1>4, EditIsSound
<1>5. CASE screen = "draft" /\ Put(r) /\ ToMenu
  <2>1. table[r.id].id = 0
    BY <1>3, <1>5 DEF TablesInv, HeldInv
  <2> QED
    BY <2>1, <1>1, <1>2, <1>3, <1>5, BackInMenu, AddedIsSound
<1>6. CASE screen = "draft" /\ PutFails /\ To(screen, r)
  <2>1. screen' = screen /\ held' = r /\ UNCHANGED <<kind, table, contents>>
    BY <1>1, <1>6 DEF To, PutFails
  <2>2. ScreenOK'
    BY <2>1, <1>3 DEF TablesInv, TablesTypeOK, ScreenOK
  <2>3. HeldInv'
    BY <2>1, <1>3 DEF TablesInv, HeldInv, IsLiveEntry
  <2> QED
    BY <2>1, <2>2, <2>3, KeptIsSound
<1> QED
  BY <1>1, <1>4, <1>5, <1>6

(* A deleted door leaves its slot free; no file goes by the number of a door.   *)
LEMMA DeleteDoorIsSound ==
  ASSUME TablesInv, DeleteDoor
  PROVE  Sound
<1>1. /\ kind = "doors" /\ screen = "picked" /\ UNCHANGED <<kind, contents>> /\ ToMenu
      /\ table' = [table EXCEPT ![held.id] = NoEntry] \/ UNCHANGED table
  BY DEF DeleteDoor, PutFails
<1>2. ScreenOK' /\ HeldInv'
  BY <1>1, BackInMenu
<1>3. CASE UNCHANGED table
  BY <1>1, <1>2, <1>3, KeptIsSound
<1>4. CASE table' = [table EXCEPT ![held.id] = NoEntry]
  <2>1. held.id \in Slots /\ NoEntry \in Entries /\ NoEntry.id = 0
    BY <1>1, HeldIsLive, EntriesTyped
  <2>2. table \in [Slots -> Entries] /\ \A i \in Slots : table[i].id \in {0, i}
    BY DEF TablesInv, TablesTypeOK
  <2>3. table' \in [Slots -> Entries] /\ \A i \in Slots : table'[i].id \in {0, i}
    BY <1>4, <2>1, <2>2
  <2>4. TablesTypeOK'
    BY <2>3, <1>1, <1>2 DEF TablesInv, TablesTypeOK, ScreenOK
  <2>5. contents = {} /\ contents' = {} /\ kind' = "doors"
    BY <1>1 DEF TablesInv, UsedInv
  <2>6. UsedInv' /\ Fresh
    BY <2>5 DEF UsedInv, Fresh
  <2>7. \A i \in Slots : table'[i] # table[i] => i = held.id
    BY <1>4, <2>1, <2>2
  <2>8. Stay
    BY <2>7, <1>1 DEF Stay
  <2> QED
    BY <1>2, <2>4, <2>6, <2>8 DEF Sound, TablesInv
<1> QED
  BY <1>1, <1>3, <1>4

(* The record of a board is blanked before its files go.                        *)
LEMMA DeleteBoardIsSound ==
  ASSUME TablesInv, DeleteBoard
  PROVE  Sound
<1> DEFINE r == [table[held.id] EXCEPT !.title = ""]
<1>1. /\ kind = "boards" /\ screen = "picked" /\ UNCHANGED <<kind, contents>>
      /\ (Put(r) /\ To("IDX", held)) \/ (PutFails /\ ToMenu)
  BY DEF DeleteBoard
<1>2. r \in Entries /\ r.id = held.id /\ r.id \in Slots /\ IsLiveEntry(r.id) /\ held \in Entries
  BY <1>1, HeldIsLive DEF Entries
<1> HIDE DEF r
<1>3. CASE PutFails /\ ToMenu
  BY <1>1, <1>3, BackInMenu, KeptIsSound DEF PutFails
<1>4. CASE Put(r) /\ To("IDX", held)
  <2>1. screen' = "IDX" /\ held' = held /\ kind' = "boards"
    BY <1>1, <1>4 DEF To
  <2>2. ScreenOK' /\ HeldInv'
    BY <2>1, <1>2 DEF ScreenOK, HeldInv
  <2> QED
    BY <2>2, <1>1, <1>2, <1>4, RewrittenIsSound
<1> QED
  BY <1>1, <1>3, <1>4

(* Files of a number go, or are written while the number is given.              *)
LEMMA ScratchIsSound ==
  ASSUME TablesInv, Scratch
  PROVE  Sound
<1>1. /\ screen \in {"IDX", "TXT"} /\ UNCHANGED <<kind, table>> /\ contents' \subseteq contents
      /\ (screen' = "TXT" /\ held' = held) \/ ToMenu
  BY DEF Scratch, To
<1>2. ScreenOK' /\ HeldInv'
  <2>1. CASE ToMenu
    BY <2>1, BackInMenu
  <2>2. CASE screen' = "TXT" /\ held' = held
    BY <2>2, <1>1 DEF TablesInv, TablesTypeOK, HeldInv, ScreenOK
  <2> QED
    BY <1>1, <2>1, <2>2
<1>3. TablesTypeOK'
  BY <1>1, <1>2 DEF TablesInv, TablesTypeOK, ScreenOK
<1>4. UsedInv'
  BY <1>1 DEF TablesInv, UsedInv
<1>5. Fresh /\ Stay
  BY <1>1 DEF Fresh, Stay, IsLiveEntry
<1> QED
  BY <1>2, <1>3, <1>4, <1>5 DEF Sound, TablesInv

(* So does adding a file to an entry.                                         *)
LEMMA UseIsSound ==
  ASSUME TablesInv, NEW i \in Slots, Use(i)
  PROVE  Sound
<1>1. /\ i \in Listed /\ UNCHANGED <<kind, table, screen, held>>
      /\ contents' = contents \cup {<<i, p>> : p \in Parts[kind]}
  BY DEF Use
<1>2. kind \in {"boards", "areas", "polls", "doors"}
  BY TablesAssumption, Zenon DEF TablesInv, TablesTypeOK
<1>3. Parts[kind] \subseteq {"IDX", "TXT", "UD"} /\ (kind = "doors" => Parts[kind] = {})
  BY <1>2 DEF Parts
<1>4. table[i].id # 0
  <2>1. i \in Scan
    BY <1>1, <1>2 DEF Listed, BoardsListed, AreasListed, PollsListed, DoorsListed
  <2> QED
    BY <2>1, SlotsAreNumbers DEF Scan, Slots
<1>5. \A c \in contents' : c \in contents \/ (c[1] = i /\ c \in Slots \X {"IDX", "TXT", "UD"})
  BY <1>1, <1>3
<1>6. TablesTypeOK'
  BY <1>1, <1>5 DEF TablesInv, TablesTypeOK
<1>7. UsedInv'
  <2>1. \A c \in contents' : table'[c[1]].id # 0
    BY <1>1, <1>4, <1>5 DEF TablesInv, UsedInv
  <2>2. kind' = "doors" => contents' = {}
    BY <1>1, <1>3 DEF TablesInv, UsedInv
  <2> QED
    BY <2>1, <2>2, <1>1 DEF TablesInv, UsedInv
<1>8. HeldInv'
  BY <1>1 DEF TablesInv, HeldInv, IsLiveEntry
<1>9. Fresh /\ Stay
  BY <1>1 DEF Fresh, Stay, IsLiveEntry
<1> QED
  BY <1>6, <1>7, <1>8, <1>9 DEF Sound, TablesInv

-------------------------------------------------------------------------------
(* The theorems.                                                                *)

LEMMA InvInit ==
  ASSUME TablesInit
  PROVE  TablesInv
<1>1. TablesTypeOK
  BY EntriesTyped DEF TablesInit, TablesTypeOK
<1>2. \A i \in Slots : table[i].id = 0
  BY EntriesTyped DEF TablesInit
<1>3. HeldInv
  BY DEF TablesInit, HeldInv
<1>4. UsedInv
  BY <1>2 DEF TablesInit, UsedInv
<1> QED
  BY <1>1, <1>3, <1>4 DEF TablesInv

(* So does every step.                                                        *)
LEMMA StepIsSound ==
  ASSUME TablesInv, [TablesNext]_tableVars
  PROVE  Sound
<1>1. CASE UNCHANGED tableVars
  <2>1. ScreenOK' /\ HeldInv'
    BY <1>1 DEF tableVars, TablesInv, TablesTypeOK, ScreenOK, HeldInv, IsLiveEntry
  <2> QED
    BY <1>1, <2>1, KeptIsSound DEF tableVars
<1>2. CASE Pick
  BY <1>2, PickIsSound
<1>3. CASE LeaveEntry \/ Refuse \/ TablesCrash \/ CancelDoor
  BY <1>3, LeavingIsSound
<1>4. CASE CancelBoard \/ DeleteArea \/ DeletePoll
  <2>1. /\ screen \in {"picked", "new"} /\ Delete(held.id) /\ ToMenu
        /\ UNCHANGED <<kind, contents>>
    BY <1>4 DEF CancelBoard, DeleteArea, DeletePoll
  <2> QED
    BY <2>1, DeleteIsSound
<1>5. CASE TogglePoll \/ \E v \in Values : SetOptions(v)
  <2>1. "" \in Titles \cup {""} /\ 1 \in Values
    BY TablesAssumption, Zenon
  <2> QED
    BY <1>5, <2>1, SaveIsSound
<1>6. CASE DeleteBoard \/ Scratch \/ CreateDoor \/ DeleteDoor
  BY <1>6, DeleteBoardIsSound, ScratchIsSound, CreateDoorIsSound, DeleteDoorIsSound
<1>7. ASSUME NEW i \in Slots, Use(i) PROVE Sound
  BY <1>7, UseIsSound
<1>8. ASSUME NEW t \in Titles \cup {""}, CreateBoard(t) \/ CreatePoll(t) PROVE Sound
  <2>1. 1 \in Values
    BY TablesAssumption, Zenon
  <2> QED
    BY <1>8, <2>1, CreateIsSound
<1>9. ASSUME NEW t \in Titles \cup {""}, NEW v \in Values,
             CreateArea(t, v) \/ EditArea(t, v) \/ SaveBoard(t, v)
      PROVE  Sound
  BY <1>9, CreateIsSound, SaveIsSound
<1>10. ASSUME NEW t \in Titles \cup {""}, NEW v \in Values, NEW f \in BOOLEAN,
              SaveDoor(t, v, f)
       PROVE  Sound
  BY <1>10, SaveDoorIsSound
<1> QED
  BY <1>1, <1>2, <1>3, <1>4, <1>5, <1>6, <1>7, <1>8, <1>9, <1>10, Zenon DEF TablesNext

(* Places in a list: if R orders a finite set S, an element's place is one more *)
(* than there are elements before it, and every number up to the size of S is   *)
(* the place of exactly one.                                                    *)
Orders(R, S) ==
  /\ \A i \in S : <<i, i>> \notin R
  /\ \A i, j \in S : i # j => <<i, j>> \in R \/ <<j, i>> \in R
  /\ \A i, j, k \in S : <<i, j>> \in R /\ <<j, k>> \in R => <<i, k>> \in R
Ranks(place, R, S) == \A i \in S : place[i] = 1 + Cardinality({j \in S : <<j, i>> \in R})

AllPlaces(place, S) ==
  /\ \A i \in S : place[i] \in 1..Cardinality(S)
  /\ \A i, j \in S : place[i] = place[j] => i = j
  /\ \A n \in 1..Cardinality(S) : \E i \in S : place[i] = n

(* If an order has every two elements of a finite set one before the other,   *)
(* the places by that order are the numbers up to its size, each taken once.  *)
LEMMA EveryPlaceIsTaken ==
  ASSUME NEW S, IsFiniteSet(S), NEW R, NEW place, Orders(R, S), Ranks(place, R, S)
  PROVE  AllPlaces(place, S)
<1> USE DEF Orders, Ranks
<1> DEFINE Before(i) == {j \in S : <<j, i>> \in R}
<1>1. Cardinality(S) \in Nat
  BY FS_CardinalityType
<1>2. ASSUME NEW i \in S
      PROVE  /\ IsFiniteSet(Before(i)) /\ Cardinality(Before(i)) \in Nat
             /\ Cardinality(Before(i)) < Cardinality(S)
  <2>1. Before(i) \subseteq S /\ i \notin Before(i)
    OBVIOUS
  <2>2. IsFiniteSet(Before(i)) /\ Cardinality(Before(i)) <= Cardinality(S)
        /\ (Cardinality(Before(i)) = Cardinality(S) => Before(i) = S)
    BY <2>1, FS_Subset
  <2>3. Cardinality(Before(i)) \in Nat /\ Before(i) # S
    BY <2>1, <2>2, FS_CardinalityType
  <2> QED
    BY <1>1, <2>2, <2>3
<1>3. ASSUME NEW i \in S, NEW j \in S, <<i, j>> \in R
      PROVE  Cardinality(Before(i)) < Cardinality(Before(j))
  <2>1. Before(i) \subseteq Before(j) /\ i \in Before(j) /\ i \notin Before(i)
    BY <1>3
  <2>2. Cardinality(Before(i)) <= Cardinality(Before(j))
        /\ (Cardinality(Before(i)) = Cardinality(Before(j)) => Before(i) = Before(j))
    BY <1>2, <2>1, FS_Subset
  <2>3. Before(i) # Before(j)
    BY <2>1
  <2> HIDE DEF Before
  <2>4. Cardinality(Before(i)) \in Nat /\ Cardinality(Before(j)) \in Nat
    BY <1>2
  <2> QED
    BY <2>2, <2>3, <2>4
<1>4. \A i \in S : place[i] = 1 + Cardinality(Before(i))
  OBVIOUS
<1> HIDE DEF Before
<1>5. \A i \in S : place[i] \in 1..Cardinality(S)
  BY <1>1, <1>2, <1>4
<1>6. ASSUME NEW i \in S, NEW j \in S, place[i] = place[j], i # j
      PROVE  FALSE
  <2>1. Cardinality(Before(i)) \in Nat /\ Cardinality(Before(j)) \in Nat
    BY <1>2
  <2>2. Cardinality(Before(i)) = Cardinality(Before(j))
    BY <1>4, <1>6, <2>1
  <2>3. <<i, j>> \in R \/ <<j, i>> \in R
    BY <1>6
  <2> QED
    BY <1>3, <2>1, <2>2, <2>3
<1>7. \A i, j \in S : place[i] = place[j] => i = j
  BY <1>6
<1>8. \A n \in 1..Cardinality(S) : \E i \in S : place[i] = n
  <2> DEFINE f == [i \in S |-> place[i]]
             N == 1..Cardinality(S)
  <2>1. f \in Injection(S, N)
    <3>1. f \in [S -> N] /\ IsInjective(f)
      BY <1>5, <1>7 DEF IsInjective
    <3> QED
      BY <3>1 DEF Injection
  <2>2. IsFiniteSet(N) /\ Cardinality(N) = Cardinality(S)
    BY <1>1, FS_Interval
  <2> HIDE DEF N
  <2>3. f \in Surjection(S, N)
    <3> HIDE DEF f
    <3> QED
      BY <2>1, <2>2, FS_Injection
  <2>4. \A n \in N : \E i \in S : f[i] = n
    BY <2>3 DEF Surjection
  <2> QED
    BY <2>4 DEF N
<1> QED
  BY <1>5, <1>7, <1>8 DEF AllPlaces

(* By number, and by a value and then by number.                                *)
LEMMA ByNumber ==
  ASSUME NEW S, S \in SUBSET Nat, IsFiniteSet(S), NEW place,
         \A i \in S : place[i] = Cardinality({j \in S : j <= i})
  PROVE  AllPlaces(place, S)
<1> DEFINE R == {p \in S \X S : p[1] < p[2]}
<1>1. \A i, j \in S : <<i, j>> \in R <=> i < j
  OBVIOUS
<1> HIDE DEF R
<1>2. Orders(R, S)
  BY <1>1 DEF Orders
<1>3. ASSUME NEW i \in S
      PROVE  place[i] = 1 + Cardinality({j \in S : <<j, i>> \in R})
  <2> DEFINE Below == {j \in S : <<j, i>> \in R}
  <2>1. Below = {j \in S : j < i}
    BY <1>1
  <2>2. {j \in S : j <= i} = {j \in S : j < i} \cup {i} /\ i \notin {j \in S : j < i}
    <3>1. i \in Nat /\ S \subseteq Nat
      OBVIOUS
    <3>2. \A j \in S : j <= i <=> (j < i \/ j = i)
      BY <3>1
    <3>3. ~(i < i)
      BY <3>1
    <3>4. \A j : j \in {k \in S : k <= i} <=> j \in {k \in S : k < i} \cup {i}
      BY <3>2, Zenon
    <3> QED
      BY <3>3, <3>4, Zenon
  <2>3. IsFiniteSet(Below) /\ Cardinality(Below) \in Nat
    BY FS_Subset, FS_CardinalityType
  <2> HIDE DEF Below
  <2>4. Cardinality(Below \cup {i}) = Cardinality(Below) + 1
    BY <2>1, <2>2, <2>3, FS_AddElement
  <2>5. place[i] = Cardinality(Below \cup {i})
    BY <2>1, <2>2
  <2>6. place[i] = 1 + Cardinality(Below)
    BY <2>3, <2>4, <2>5
  <2> QED
    BY <2>6 DEF Below
<1>4. Ranks(place, R, S)
  BY <1>3 DEF Ranks
<1> QED
  BY <1>2, <1>4, EveryPlaceIsTaken

RanksByValue(place, value, S) ==
  \A i \in S : place[i] = 1 + Cardinality({j \in S :
    \/ value[j] < value[i]
    \/ value[j] = value[i] /\ j < i})
(* Places by a value, and by number where the values are equal.               *)
LEMMA ByValue ==
  ASSUME NEW S, S \in SUBSET Nat, IsFiniteSet(S), NEW value, \A i \in S : value[i] \in Nat,
         NEW place, RanksByValue(place, value, S)
  PROVE  AllPlaces(place, S)
<1> DEFINE Lower(j, i) == \/ value[j] < value[i]
                          \/ value[j] = value[i] /\ j < i
           R == {p \in S \X S : Lower(p[1], p[2])}
<1>1. \A i, j \in S : <<i, j>> \in R <=> Lower(i, j)
  OBVIOUS
<1>2. /\ \A i \in S : ~Lower(i, i)
      /\ \A i, j \in S : i # j => Lower(i, j) \/ Lower(j, i)
      /\ \A i, j, k \in S : Lower(i, j) /\ Lower(j, k) => Lower(i, k)
  OBVIOUS
<1>3. \A i \in S : place[i] = 1 + Cardinality({j \in S : Lower(j, i)})
  BY DEF RanksByValue
<1> HIDE DEF Lower, R
<1>4. Orders(R, S)
  BY <1>1, <1>2 DEF Orders
<1>5. ASSUME NEW i \in S
      PROVE  place[i] = 1 + Cardinality({j \in S : <<j, i>> \in R})
  <2>1. {j \in S : Lower(j, i)} = {j \in S : <<j, i>> \in R}
    BY <1>1
  <2> QED
    BY <1>3, <2>1
<1>6. Ranks(place, R, S)
  BY <1>5 DEF Ranks
<1> QED
  BY <1>4, <1>6, EveryPlaceIsTaken

(* What is listed: the entries that are there, of the doors those before the    *)
(* first slot without one.                                                      *)
LEMMA ListedEntries ==
  ASSUME TablesInv
  PROVE  /\ Listed \subseteq Slots
         /\ kind = "boards" => Listed = BoardsListed
         /\ \A i \in Slots : /\ IsLiveEntry(i)
                             /\ kind = "doors" => \A j \in 1..i : IsLiveEntry(j)
                             => i \in Listed
<1>1. kind \in {"boards", "areas", "polls", "doors"}
  BY TablesAssumption, Zenon DEF TablesInv, TablesTypeOK
<1>2. Scan \subseteq Slots
  BY DEF Scan
<1>3. /\ kind = "boards" => Listed = {i \in Scan : table[i].title # ""}
      /\ kind = "areas" => Listed = {i \in Scan : table[i].title # ""}
      /\ kind = "polls" => Listed = {i \in Scan : table[i].title # ""}
      /\ kind = "doors" => Listed = Scan
  BY DEF Listed, BoardsListed, AreasListed, PollsListed, DoorsListed
<1>4. ASSUME NEW i \in Slots, IsLiveEntry(i),
             kind = "doors" => \A j \in 1..i : IsLiveEntry(j)
      PROVE  i \in Listed
  <2>1. \A j \in 1..i : j \in Slots /\ j <= i
    BY SlotsAreNumbers DEF Slots
  <2>2. CASE kind = "doors"
    <3>1. \A j \in 1..i : table[j].id # 0
      BY <1>4, <2>2 DEF IsLiveEntry
    <3> QED
      BY <1>3, <2>2, <3>1 DEF Scan
  <2>3. CASE kind # "doors"
    <3>1. \A j \in 1..i : table[j].id # 0
      BY <1>4, <2>1, <2>3 DEF TablesInv, UsedInv, IsLiveEntry
    <3>2. i \in Scan /\ table[i].title # ""
      BY <1>4, <2>3, <3>1 DEF Scan, IsLiveEntry
    <3> QED
      BY <1>1, <1>3, <2>3, <3>2
  <2> QED
    BY <2>2, <2>3
<1>5. Listed \subseteq Slots
  BY <1>1, <1>2, <1>3
<1>6. kind = "boards" => Listed = BoardsListed
  BY <1>3 DEF BoardsListed
<1> QED
  BY <1>4, <1>5, <1>6

(* Boards by display order and then by number, the others by number: every      *)
(* place of the list is that of exactly one entry.                              *)
LEMMA RanksAreAllPlaces ==
  ASSUME TablesInv
  PROVE  /\ \A i \in Listed : Rank(i) \in 1..Cardinality(Listed)
         /\ \A i, j \in Listed : Rank(i) = Rank(j) => i = j
         /\ \A n \in 1..Cardinality(Listed) : \E i \in Listed : Rank(i) = n
<1> DEFINE place == [i \in Listed |-> Rank(i)]
           value == [i \in Listed |-> table[i].value]
<1>1. Listed \in SUBSET Nat /\ IsFiniteSet(Listed) /\ Listed \subseteq Slots
  <2>1. IsFiniteSet(Slots)
    BY SlotsAreNumbers, FS_Interval DEF Slots
  <2> QED
    BY <2>1, ListedEntries, SlotsAreNumbers, FS_Subset
<1>2. AllPlaces(place, Listed)
  <2>1. CASE kind = "boards"
    <3>1. \A i \in Listed : value[i] \in Nat
      BY <1>1 DEF TablesInv, TablesTypeOK, Entries
    <3>2. Listed = BoardsListed
      BY <2>1, ListedEntries
    <3>3. RanksByValue(place, value, Listed)
      <4>1. SUFFICES ASSUME NEW i \in Listed
                     PROVE  place[i] = 1 + Cardinality({j \in Listed :
                              \/ value[j] < value[i]
                              \/ value[j] = value[i] /\ j < i})
        BY DEF RanksByValue
      <4>2. place[i] = BoardRank(i)
        BY <2>1 DEF Rank
      <4>3. {j \in Listed : \/ value[j] < value[i]
                            \/ value[j] = value[i] /\ j < i}
            = {j \in BoardsListed : \/ table[j].value < table[i].value
                                    \/ table[j].value = table[i].value /\ j < i}
        BY <3>2
      <4> QED
        BY <4>2, <4>3 DEF BoardRank
    <3> HIDE DEF place, value
    <3> QED
      BY <1>1, <3>1, <3>3, ByValue
  <2>2. CASE kind # "boards"
    <3>1. \A i \in Listed : place[i] = Cardinality({j \in Listed : j <= i})
      BY <2>2 DEF Rank, SlotRank
    <3> HIDE DEF place
    <3> QED
      BY <1>1, <3>1, ByNumber
  <2> QED
    BY <2>1, <2>2
<1> QED
  BY <1>2 DEF AllPlaces

(* So a list shows every entry, each once, and nothing beside them.           *)
LEMMA ListHasNoGap ==
  ASSUME TablesInv
  PROVE  ListIsComplete
<1>1. /\ \A i \in Listed : Rank(i) \in 1..Cardinality(Listed)
      /\ \A i, j \in Listed : Rank(i) = Rank(j) => i = j
      /\ \A n \in 1..Cardinality(Listed) : \E i \in Listed : Rank(i) = n
  BY RanksAreAllPlaces
<1>2. ASSUME NEW n \in 1..Cardinality(Listed)
      PROVE  ByIndex(n) \in Listed /\ Rank(ByIndex(n)) = n
  <2>1. \E i \in Listed : Rank(i) = n
    BY <1>1
  <2> QED
    BY <2>1 DEF ByIndex
<1>3. \A n \in 1..Cardinality(Listed) : ByIndex(n) # 0
  BY <1>2, ListedEntries, SlotsAreNumbers
<1>4. ASSUME NEW i \in Slots, IsLiveEntry(i),
             kind = "doors" => \A j \in 1..i : IsLiveEntry(j)
      PROVE  \E n \in 1..Cardinality(Listed) : ByIndex(n) = i
  <2>1. i \in Listed
    BY <1>4, ListedEntries
  <2>2. Rank(i) \in 1..Cardinality(Listed)
    BY <1>1, <2>1
  <2>3. ByIndex(Rank(i)) \in Listed /\ Rank(ByIndex(Rank(i))) = Rank(i)
    BY <1>2, <2>2
  <2>4. ByIndex(Rank(i)) = i
    BY <1>1, <2>1, <2>3
  <2> QED
    BY <2>2, <2>4
<1> QED
  BY <1>3, <1>4 DEF ListIsComplete

(* The invariant always holds.                                                *)
LEMMA InvAlways == TablesSpec => []TablesInv
<1>1. TablesInit => TablesInv
  BY InvInit
<1>2. TablesInv /\ [TablesNext]_tableVars => TablesInv'
  BY StepIsSound DEF Sound
<1> QED
  BY <1>1, <1>2, PTL DEF TablesSpec

(* Records stand at their own number, and what CONFIGURE holds in memory is a   *)
(* record, for every number of slots.                                           *)
THEOREM TablesAreTyped == TablesSpec => []TablesTypeOK
<1>1. TablesInv => TablesTypeOK
  BY DEF TablesInv
<1> QED
  BY <1>1, InvAlways, PTL

(* A new board or area starts empty, however many were deleted before it and    *)
(* whatever scratching their files came to: board_create and file_area_create   *)
(* count deleted records.                                                       *)
THEOREM NewStartsEmpty == TablesSpec => FreshIsEmpty
<1>1. TablesInv /\ [TablesNext]_tableVars =>
        [\A i \in Slots :
           ~IsLiveEntry(i) /\ (IsLiveEntry(i))' => \A c \in contents' : c[1] # i]_tableVars
  BY StepIsSound DEF Sound, Fresh
<1> QED
  BY <1>1, InvAlways, PTL DEF TablesSpec, FreshIsEmpty

(* An entry that is there changes only when the SysOp has that entry open.      *)
THEOREM EntriesAreTheirOwn == TablesSpec => EntriesStay
<1>1. TablesInv /\ [TablesNext]_tableVars =>
        [\A i \in Slots :
           IsLiveEntry(i) /\ table'[i] # table[i]
             => held.id = i /\ screen \notin {"menu", "draft"}]_tableVars
  BY StepIsSound DEF Sound, Stay
<1> QED
  BY <1>1, InvAlways, PTL DEF TablesSpec, EntriesStay

(* The list shows every entry in a place of its own and has no gap: what the    *)
(* SysOp picks by its place in the list is what stands there, however the       *)
(* boards are ordered and whatever was deleted.                                 *)
THEOREM ListsAreComplete == TablesSpec => []ListIsComplete
<1>1. TablesInv => ListIsComplete
  BY ListHasNoGap
<1> QED
  BY <1>1, InvAlways, PTL

=============================================================================
