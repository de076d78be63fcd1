------------------------------- MODULE Overlays -------------------------------
(***************************************************************************)
(* The zone $9700-$BFFF that the overlays of src/main.c and the doors of   *)
(* src/features/doors.c take turns in, and the menus that lead to them     *)
(* (src/features/menu*.c).  Overlays are loaded by name from whatever      *)
(* partition of the system device is current, and whether a load worked is *)
(* not asked; files are opened after their partition has been selected.    *)
(* What the processor does in code that is not there may be anything, so   *)
(* the model ends there, until the machine is switched off.                *)
(* Each definition named ...Bug is the next one with a mistake in it; only *)
(* the mutants listed in PROJECT.json use them.                            *)
(***************************************************************************)
EXTENDS Naturals, Sequences, SequencesExt

CONSTANTS
  Placements,    \* where the overlays and the files of each part may stand
  DoorPlaces,    \* partitions of the door programs
  ShowsAtLogin,  \* whether a door that runs at login shows a file
  LoadFails,     \* whether the load of an overlay may fail
  NoiseLimit     \* MENU_GARBAGE_LIMIT

(* A partition is one of the system device.  0: none is selected, or       *)
(* another device is used.                                                 *)
Homes == {"overlays", "system", "msgs", "files", "doors"}
ASSUME OverlaysAssumption ==
  /\ Placements \subseteq [Homes -> Nat] /\ DoorPlaces \subseteq Nat
  /\ ShowsAtLogin \in BOOLEAN /\ LoadFails \in BOOLEAN
  /\ NoiseLimit \in Nat \ {0}

VARIABLES
  places,     \* the placement of this board
  zone,       \* what stands in the overlay zone; "" nothing that can be run
  broken,     \* history: the last load into the zone failed
  wfcLoaded,  \* wfc.ovl_wfc_loaded
  partition,  \* the current partition of the system device
  frames,     \* whose code in the zone is on the call stack, innermost last
  guest,      \* "off", then whose session runs: "none", "local", "remote"
  known,      \* session.user_id # 0
  wide,       \* spy_mode is SPY_MODE_80COL
  path,       \* parent_menus and current_menu, empty outside the menus
  noise,      \* menu_state.unknown_count
  menuShown,      \* menu_displayed
  jump        \* history: code in the zone run last, and what stood there

overlayVars == <<places, zone, broken, wfcLoaded, partition, frames, guest, known, wide, path,
                 noise, menuShown, jump>>
session == <<guest, known, wide, path, noise, menuShown>>

Ovls == {"WFC", "MSGS", "DOORS", "FILES", "ZMODEM"}
Submenus == [main |-> {"email", "prefs"}, email |-> {}, prefs |-> {}]
InMenu == frames = << >> /\ path # << >>
Runs(o) == frames # << >> /\ Last(frames) = o

OverlaysInit ==
  /\ places \in Placements
  /\ zone = "" /\ broken = FALSE /\ wfcLoaded = FALSE /\ partition = places.overlays
  /\ frames = << >>
  /\ guest = "off" /\ known = FALSE /\ wide = FALSE /\ path = << >> /\ noise = 0
  /\ menuShown = FALSE /\ jump = <<"", "">>

(* disk_select_partition, and krnio_load of an overlay: there is none on   *)
(* another partition, and a load that fails leaves what was there or a part *)
(* of both.                                                                *)
After(p) == IF p = 0 THEN partition ELSE p
FetchOver(p, o, left) ==
  \/ broken' = FALSE /\ zone' = IF p = places.overlays THEN o ELSE left
  \/ broken' = TRUE /\ LoadFails /\ zone' \in {left, ""}
Fetch(o) == FetchOver(partition', o, zone)
JumpTo(o) == jump' = <<o, zone'>>

(* OVL_BOOT has run by now: it read CONFIG, and main what else it needs.   *)
StartBoard ==
  /\ guest = "off" /\ guest' = "none"
  /\ partition' = After(places.system)
  /\ Fetch("WFC") /\ wfcLoaded' = TRUE /\ JumpTo("WFC")
  /\ UNCHANGED <<places, frames, known, wide, path, noise, menuShown>>

(* Off, and on again from the partition that the program is started from.  *)
PullPlug ==
  /\ zone' = "" /\ broken' = FALSE /\ wfcLoaded' = FALSE /\ partition' = places.overlays
  /\ frames' = << >> /\ guest' = "off" /\ known' = FALSE /\ wide' = FALSE /\ path' = << >>
  /\ noise' = 0 /\ menuShown' = FALSE /\ jump' = <<"", "">>
  /\ UNCHANGED places

(* The waiting screen: it counts the boards and areas and reads the log, and *)
(* a key may make it save SYSOP IS.  A new session is watched in 80 columns *)
(* only if it comes over the line.                                         *)
WaitForCall ==
  /\ guest = "none" /\ guest' \in {"none", "local", "remote"}
  /\ wide' \in BOOLEAN /\ (wide' => guest' = "remote")
  /\ partition' \in {partition} \cup {After(places[h]) : h \in {"system", "msgs", "files"}}
  /\ IF wfcLoaded THEN UNCHANGED <<zone, broken>> ELSE FetchOver(partition, "WFC", zone)
  /\ wfcLoaded' = TRUE /\ JumpTo("WFC")
  /\ UNCHANGED <<places, frames, known, path, noise, menuShown>>

(* The panel of 40 columns is drawn by OVL_WFC.                            *)
DrawPanel == jump' = IF wfcLoaded /\ ~wide THEN <<"WFC", zone>> ELSE jump
Tick ==
  /\ guest \in {"local", "remote"} /\ frames = << >>
  /\ DrawPanel
  /\ UNCHANGED <<places, zone, broken, wfcLoaded, partition, frames, session>>

(* session_display_file: the operator's own session draws the panel again. *)
DisplayFile ==
  /\ partition' = After(places.system)
  /\ (guest = "local" /\ known /\ DrawPanel) \/ UNCHANGED jump
  /\ UNCHANGED <<places, zone, broken, wfcLoaded, frames>>

(* By the board or by a door.                                              *)
Show ==
  /\ guest \in {"local", "remote"}
  /\ frames # << >> => Last(frames) # "ZMODEM"
  /\ path = << >> /\ frames # << >> => Runs("door") /\ ShowsAtLogin
  /\ DisplayFile /\ UNCHANGED session

(* Login leads to the doors that run at login with wfc.ovl_wfc_loaded as   *)
(* it was; a new user comes to the menu at once.                           *)
LogInToDoors ==
  /\ guest \in {"local", "remote"} /\ ~known /\ known' = TRUE
  /\ FetchOver(After(places.system), "DOORS", zone)
  /\ partition' = IF places.doors = 0 THEN After(places.system) ELSE places.doors
  /\ frames' = <<"DOORS">> /\ JumpTo("DOORS")
  /\ UNCHANGED <<places, wfcLoaded, guest, wide, path, noise, menuShown>>
SignUp ==
  /\ guest \in {"local", "remote"} /\ ~known /\ known' = TRUE
  /\ partition' = After(places.system) /\ path' = <<"main">>
  /\ UNCHANGED <<places, zone, broken, wfcLoaded, frames, guest, wide, noise, menuShown, jump>>

-----------------------------------------------------------------------------
(* The menus.  Every command is open to every level.                       *)

(* Whatever a command did, the menu is shown before the next is asked for. *)
ShowMenu ==
  /\ InMenu /\ ~menuShown /\ menuShown' = TRUE
  /\ DisplayFile /\ UNCHANGED <<guest, known, wide, path, noise>>
Asked == InMenu /\ menuShown

EnterMenu ==
  /\ Asked /\ Len(path) <= 5 /\ menuShown' = FALSE
  /\ \E m \in Submenus[Last(path)] : path' = Append(path, m)
  /\ UNCHANGED <<places, zone, broken, wfcLoaded, partition, frames, guest, known, wide, noise, jump>>

(* ? and the commands that only print; one saves the user record.          *)
MenuAction ==
  /\ Asked /\ menuShown' = FALSE
  /\ partition' \in {partition, After(places.system)}
  /\ UNCHANGED <<places, zone, broken, wfcLoaded, frames, guest, known, wide, path, noise, jump>>

(* Q.  Out of the main menu it ends the session.                           *)
BackOut ==
  /\ Asked /\ path' = Front(path) /\ menuShown' = FALSE
  /\ UNCHANGED <<places, zone, broken, wfcLoaded, partition, frames, guest, known, wide, noise, jump>>

UnknownCommand ==
  /\ Asked
  /\ IF guest = "local" THEN UNCHANGED <<noise, path>>
     ELSE noise' = noise + 1 /\ path' = IF noise' >= NoiseLimit THEN << >> ELSE path
  /\ UNCHANGED <<places, zone, broken, wfcLoaded, partition, frames, guest, known, wide, menuShown, jump>>

(* The board hangs up on the guest or the guest hangs up on the board.     *)
CloseSession ==
  /\ guest \in {"local", "remote"} /\ frames = << >>
  /\ guest' = "none" /\ known' = FALSE /\ wide' = FALSE /\ path' = << >> /\ noise' = 0
  /\ menuShown' = FALSE
  /\ partition' = IF known THEN After(places.system) ELSE partition
  /\ UNCHANGED <<places, zone, broken, wfcLoaded, frames, jump>>

-----------------------------------------------------------------------------
(* Features                                                                *)

(* M, F and D of the main menu.                                            *)
FeatureBug(o) ==                           \* leaves wfc.ovl_wfc_loaded
  /\ Asked /\ path = <<"main">>
  /\ UNCHANGED partition /\ Fetch(o) /\ frames' = <<o>> /\ JumpTo(o)
  /\ UNCHANGED <<places, wfcLoaded, session>>
Feature(o) ==
  /\ Asked /\ path = <<"main">>
  /\ UNCHANGED partition /\ Fetch(o) /\ wfcLoaded' = FALSE
  /\ frames' = <<o>> /\ JumpTo(o)
  /\ UNCHANGED <<places, session>>

(* A feature reads or writes files of its own.                             *)
FileOf == [MSGS |-> "msgs", FILES |-> "files", DOORS |-> "doors"]
UseFiles ==
  /\ \E o \in DOMAIN FileOf : Runs(o) /\ partition' = After(places[FileOf[o]])
  /\ UNCHANGED <<places, zone, broken, wfcLoaded, frames, jump, session>>

(* The reader saves the marks last.  The screen of the board is loaded     *)
(* before the menu is.                                                     *)
EndFeature ==
  /\ Len(frames) = 1 /\ Last(frames) # "door" /\ frames' = << >>
  /\ partition' = IF Runs("MSGS") THEN After(places.msgs) ELSE partition
  /\ IF wfcLoaded /\ path # << >> THEN UNCHANGED <<zone, broken>> ELSE Fetch("WFC")
  /\ wfcLoaded' = TRUE /\ path' = <<"main">> /\ menuShown' = FALSE
  /\ UNCHANGED <<places, jump, guest, known, wide, noise>>

(* A file goes in or out by Zmodem: OVL_FILES makes room and comes back.   *)
StartZmodem ==
  /\ Runs("FILES") /\ frames' = Append(frames, "ZMODEM")
  /\ UNCHANGED partition /\ Fetch("ZMODEM") /\ wfcLoaded' = FALSE /\ JumpTo("ZMODEM")
  /\ UNCHANGED <<places, session>>
ReturnToFiles ==
  /\ Runs("ZMODEM") /\ frames' = Front(frames)
  /\ partition' = After(places.files)
  /\ Fetch("FILES") /\ wfcLoaded' = FALSE /\ JumpTo("FILES")
  /\ UNCHANGED <<places, session>>

-----------------------------------------------------------------------------
(* Doors                                                                   *)

(* door_run up to the jump into the door.                                  *)
RunDoor ==
  /\ Runs("DOORS") /\ \E p \in DoorPlaces : partition' = After(p)
  /\ zone' = "door" /\ broken' = FALSE /\ frames' = Append(frames, "door") /\ JumpTo("door")
  /\ UNCHANGED <<places, wfcLoaded, session>>

(* reload_ovl, after the door, or without it: its partition is refused,    *)
(* its file does not load, or not to the end, or is of another ABI.        *)
ReloadDoors(left) ==
  /\ FetchOver(partition', "DOORS", left)
  /\ wfcLoaded' = FALSE /\ JumpTo("DOORS")
  /\ UNCHANGED <<places, session>>
DoorReturns ==
  /\ Runs("door") /\ frames' = Front(frames)
  /\ UNCHANGED partition /\ ReloadDoors(zone)
DoorFails ==
  /\ Runs("DOORS") /\ UNCHANGED frames
  /\ partition' \in {partition} \cup {After(p) : p \in DoorPlaces}
  /\ \E left \in {zone, "door"} : ReloadDoors(left)

(* The code that was run last was there.                                   *)
InCode == jump[1] = jump[2]

OverlaysStep ==
  /\ InCode
  /\ \/ StartBoard \/ WaitForCall \/ Tick \/ Show \/ LogInToDoors \/ SignUp
     \/ ShowMenu \/ EnterMenu \/ MenuAction \/ BackOut \/ UnknownCommand
     \/ CloseSession
     \/ \E o \in DOMAIN FileOf : Feature(o)
     \/ UseFiles \/ EndFeature \/ StartZmodem \/ ReturnToFiles
     \/ RunDoor \/ DoorReturns \/ DoorFails

OverlaysNext == PullPlug \/ OverlaysStep

OverlaysSpec == OverlaysInit /\ [][OverlaysNext]_overlayVars

-----------------------------------------------------------------------------
(* Properties                                                              *)

OverlaysTypeOK ==
  /\ places \in Placements /\ zone \in Ovls \cup {"", "door"}
  /\ broken \in BOOLEAN /\ wfcLoaded \in BOOLEAN
  /\ partition \in Nat /\ frames \in Seq(Ovls \cup {"door"}) /\ Len(frames) <= 2
  /\ guest \in {"off", "none", "local", "remote"} /\ known \in BOOLEAN /\ wide \in BOOLEAN
  /\ path \in Seq(DOMAIN Submenus) /\ Len(path) <= 6 /\ noise \in 0..NoiseLimit
  /\ menuShown \in BOOLEAN

(* Code of an overlay or a door is entered, called back or returned into   *)
(* only while it stands in the zone: "so it only draws while WFC is        *)
(* resident", "so action_doors_menu's code is always valid when it returns *)
(* here" (src/features/sysop.c, src/features/menu_actions.c).  All that    *)
(* excuses it is that the last load failed, which nobody asks.             *)
CodeIsInTheZone == InCode \/ broken

=============================================================================
