-------------------------------- MODULE Files --------------------------------
(***************************************************************************)
(* The file areas as callers use them: the browser src/features/files.c    *)
(* and the entry files UD<n> of src/data/file_entries.c.  Areas and what   *)
(* they demand are set up with CONFIGURE (Tables); the transfers are those *)
(* of Punter and Zmodem, of which only the outcome is kept here.           *)
(*                                                                         *)
(* Contents are known by the number of the upload they came with.          *)
(* Each definition named ...Bug is the next one with a mistake in it; only *)
(* the mutants listed in PROJECT.json use them.                            *)
(***************************************************************************)
EXTENDS Naturals, FiniteSets, Sequences

CONSTANTS
  Areas,        \* the records of UDS, [access, upload] each, none deleted
  CallerLevels, \* access levels of callers
  Names,        \* names that callers give to files
  FullNames,    \* those of 15 characters
  EntryMax,     \* 255, the largest record number that fits a byte
  MaxUploads,   \* bound: uploads
  FileFaults    \* a subset of {"entry", "line"}

(* An entry cannot be written; a transfer fails.                           *)
ASSUME FilesAssumption ==
  /\ Areas \in Seq([access : Nat, upload : Nat])
  /\ CallerLevels \subseteq Nat
  /\ FullNames \subseteq Names
  /\ EntryMax \in Nat \ {0} /\ MaxUploads \in Nat
  /\ FileFaults \subseteq {"entry", "line"}

VARIABLES
  level,     \* session.user.access_level, 0 when nobody is in the browser
  areaIdx,   \* area_idx, the area selected
  area,      \* the number of the record in memory, and its total_files
  totals,    \* total_files of the areas on the disk
  entries,   \* the entries of each area: name, downloads and upload
  store,     \* contents on the drive by name: an upload, Damaged or Absent
  uploads,   \* bound: how many uploads there were
  added,     \* history: the entries that were written, by area and upload
  sent       \* history: the upload asked for last and what was sent for it

fileVars == <<level, areaIdx, area, totals, entries, store, uploads, added, sent>>

AreaNums == 1..Len(Areas)
EntryNums == 1..EntryMax
Absent == 0
Damaged == MaxUploads + 1
NoFile == [name |-> "", downloads |-> 0, upload |-> 0]
NoArea == [id |-> 0, total |-> 0]

(* fentry_pack fills a name with blanks to 15 characters and fentry_unpack *)
(* leaves them: the drive knows a name that was read from an entry only if *)
(* it is a full one.                                                       *)
OnDrive(name) == IF name \in FullNames THEN store[name] ELSE Absent

-----------------------------------------------------------------------------
(* file_entries.c                                                          *)

(* Entries stand from 1 on; the first record that was never written reads  *)
(* short.                                                                  *)
ByRecNum(a, n) == IF n \in EntryNums THEN entries[a][n] ELSE NoFile

(* The first record without an entry.  0: the file is full.                *)
FreeEntryBug(a) ==                         \* one more than the files counted
  IF totals[a] + 1 <= EntryMax THEN totals[a] + 1 ELSE EntryMax
FreeEntry(a) ==
  IF \A n \in EntryNums : entries[a][n] # NoFile THEN 0
  ELSE CHOOSE n \in EntryNums : entries[a][n] = NoFile /\ \A m \in 1..(n - 1) : entries[a][m] # NoFile

(* Whether the entry could be written is not asked.                        *)
AddEntry(a, new) ==
  \/ /\ FreeEntry(a) # 0
     /\ entries' = [entries EXCEPT ![a][FreeEntry(a)] = new]
     /\ added' = added \cup {<<a, new.upload>>}
  \/ /\ FreeEntry(a) = 0 \/ "entry" \in FileFaults
     /\ UNCHANGED <<entries, added>>

SaveEntry(a, n, r) ==
  \/ entries' = [entries EXCEPT ![a][n] = r]
  \/ "entry" \in FileFaults /\ UNCHANGED entries

-----------------------------------------------------------------------------
(* files.c                                                                 *)

FilesInit ==
  /\ level = 0 /\ areaIdx = 0 /\ area = NoArea
  /\ totals = [a \in AreaNums |-> 0]
  /\ entries = [a \in AreaNums |-> [n \in EntryNums |-> NoFile]]
  /\ store = [n \in Names |-> Absent]
  /\ uploads = 0 /\ added = {} /\ sent = <<0, 0>>

Loaded(a) == [id |-> a, total |-> totals[a]]
Open(a) == Areas[a].access <= level

(* The first area is in memory even if the caller may not enter it.        *)
EnterFiles(l) ==
  /\ level = 0 /\ level' = l
  /\ area' = IF Areas # << >> THEN Loaded(1) ELSE NoArea
  /\ areaIdx' = IF Areas # << >> /\ Areas[1].access <= l THEN 1 ELSE 0
  /\ UNCHANGED <<totals, entries, store, uploads, added, sent>>
LeaveFiles ==
  /\ level # 0 /\ level' = 0 /\ areaIdx' = 0 /\ area' = NoArea
  /\ UNCHANGED <<totals, entries, store, uploads, added, sent>>

(* + and -: the next area, round and round, that the caller may enter.     *)
Distance(fwd, a) ==
  LET from == IF areaIdx = 0 /\ ~fwd THEN 1 ELSE areaIdx
      d == (IF fwd THEN a + Len(Areas) - from ELSE from + Len(Areas) - a) % Len(Areas)
  IN  IF d = 0 THEN Len(Areas) ELSE d
ShiftArea(fwd) ==
  /\ level # 0
  /\ \E a \in AreaNums :
       /\ Open(a) /\ \A b \in AreaNums : Open(b) => Distance(fwd, a) <= Distance(fwd, b)
       /\ area' = Loaded(a) /\ areaIdx' = a
  /\ UNCHANGED <<level, totals, entries, store, uploads, added, sent>>

(* A number: the record read last stays in memory, also if there is no     *)
(* such area or the caller may not enter it; only area_idx is kept.        *)
JumpArea(n) ==
  /\ level # 0 /\ Areas # << >>
  /\ area' = Loaded(IF n \in AreaNums THEN n ELSE Len(Areas))
  /\ areaIdx' = IF n \in AreaNums /\ Open(n) THEN n ELSE areaIdx
  /\ UNCHANGED <<level, totals, entries, store, uploads, added, sent>>

(* The list: up to the first record never written.  An entry demands what  *)
(* its area demanded.                                                      *)
Allowed(a) == Areas[a].access <= level
FilesShown(a) ==
  {n \in EntryNums : Allowed(a) /\ \A m \in 1..n : entries[a][m] # NoFile}

(* The number typed is kept in a byte.                                     *)
RecNum(typedNum) == typedNum % (EntryMax + 1)

(* What is sent under a name that is not there is an empty file.           *)
Download(typedNum) ==
  /\ areaIdx # 0
  /\ LET n  == RecNum(typedNum)
         fe == ByRecNum(area.id, n)
     IN  /\ fe # NoFile /\ Allowed(area.id)
         /\ \/ /\ SaveEntry(area.id, n, [fe EXCEPT !.downloads = 1])
               /\ sent' = <<fe.upload, OnDrive(fe.name)>>
            \/ "line" \in FileFaults /\ UNCHANGED <<entries, sent>>
  /\ UNCHANGED <<level, areaIdx, area, totals, store, uploads, added>>

(* An upload replaces the file of that name.  One that fails has replaced  *)
(* it too, or not come so far; one that a Zmodem sender ends before it has *)
(* begun counts as complete and has left the drive as it was.              *)
Upload(name) ==
  /\ areaIdx # 0 /\ Areas[area.id].upload <= level
  /\ uploads < MaxUploads /\ uploads' = uploads + 1
  /\ LET put(c) == store' = [store EXCEPT ![name] = c]
     IN  \/ /\ put(uploads') \/ ("line" \in FileFaults /\ UNCHANGED store)
            /\ AddEntry(area.id, [name |-> name, downloads |-> 0, upload |-> uploads'])
            /\ area' = [area EXCEPT !.total = @ + 1]
            /\ totals' = [totals EXCEPT ![area.id] = area'.total]
         \/ /\ "line" \in FileFaults
            /\ put(Damaged) \/ UNCHANGED store
            /\ UNCHANGED <<entries, added, area, totals>>
  /\ UNCHANGED <<level, areaIdx, sent>>

FilesNext ==
  \/ \E l \in CallerLevels : EnterFiles(l)
  \/ LeaveFiles
  \/ \E fwd \in BOOLEAN : ShiftArea(fwd)
  \/ \E n \in 1..(Len(Areas) + 1) : JumpArea(n)
  \/ \E n \in 0..(2 * EntryMax + 1) : Download(n)
  \/ \E name \in Names : Upload(name)

FilesSpec == FilesInit /\ [][FilesNext]_fileVars

-----------------------------------------------------------------------------
(* Properties                                                              *)

FilesTypeOK ==
  /\ level \in CallerLevels \cup {0} /\ areaIdx \in 0..Len(Areas)
  /\ area \in [id : 0..Len(Areas), total : 0..MaxUploads]
  /\ totals \in [AreaNums -> 0..MaxUploads]
  /\ entries \in [AreaNums -> [EntryNums ->
       [name : Names \cup {""}, downloads : 0..1, upload : 0..MaxUploads]]]
  /\ store \in [Names -> 0..Damaged]

(* Every entry that an upload has written stays in the area it was         *)
(* uploaded to and can be chosen there, whatever is up- and downloaded     *)
(* after it, whoever moves between areas meanwhile.                        *)
UploadsAreListed ==
  \A x \in added :
    \E n \in EntryNums :
      /\ entries[x[1]][n].upload = x[2]
      /\ \A m \in 1..n : entries[x[1]][m] # NoFile

(* "Files are stored as ordinary PRG/SEQ entries on the configured device  *)
(* - no special index. Uploaded files appear immediately for download.":   *)
(* a download that is complete has sent the file uploaded under the entry, *)
(* or what has replaced that since.                                        *)
DownloadSendsTheUpload == sent[1] # 0 => sent[2] # Absent

=============================================================================
