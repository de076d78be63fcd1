--------------------------------- MODULE Config --------------------------------
(* The configuration and the drives it names.  A device can have partitions;    *)
(* the one it stands on is state of the drive, which the board changes with     *)
(* CP<n> commands and remembers in a one-entry cache (disk.c).  CONFIG is read  *)
(* once at start, from the device the program was loaded from, and written by   *)
(* CONFIGURE, which scratches it first; so is the ACCESS table.                 *)
(* Each definition named ...Bug is the next one with a mistake in it; only      *)
(* the mutants listed in PROJECT.json use them.                                 *)
EXTENDS Naturals, Sequences, SequencesExt

CONSTANTS
  Devices,       \* bus device numbers
  Partitions,    \* partition numbers, from 1
  PowerUp,       \* the partition a drive stands on when it is switched on
  MsgDevice,     \* T64_DRIVE_MSGS, the default
  SystemSpecs,   \* what the operator enters for SYSDEV: <<device, partition, init>>
  MsgSpecs,      \* and for MSGDEV; init n > 0 is the command "CP<n>", 0 is none
  Settings,      \* values of the other settings and of ACCESS; 0 is the default
  MaxSaves,      \* bound: saves the operator makes
  ConfigFaults   \* subset of {"refuse", "full", "power"}

ASSUME ConfigAssumption ==
  /\ Devices \subseteq Nat \ {0} /\ Partitions \subseteq Nat \ {0}
  /\ PowerUp \in Partitions /\ MsgDevice \in Devices /\ MaxSaves \in Nat
  /\ SystemSpecs \cup MsgSpecs \subseteq
       Devices \X ({0} \cup Partitions) \X ({0} \cup Partitions)
  /\ Settings \subseteq Nat \ {0}
  /\ ConfigFaults \subseteq {"refuse", "full", "power"}

Specs == [device: Devices, drive: {0} \cup Partitions, init: {0} \cup Partitions]
Places == Devices \X Partitions
Nowhere == <<0, 0>>                          \* s_part_device = 0xFF

(* cfg_format_device_spec and cfg_parse_device_spec: trailing fields that say     *)
(* nothing are not written, and fields that are not there say nothing.           *)
Format(spec) == IF spec.init # 0 THEN <<spec.device, spec.drive, spec.init>>
                ELSE IF spec.drive # 0 THEN <<spec.device, spec.drive>>
                ELSE <<spec.device>>
ParseSpec(text) == [device |-> text[1],
                    drive |-> IF Len(text) >= 2 THEN text[2] ELSE 0,
                    init |-> IF Len(text) = 3 THEN text[3] ELSE 0]
Texts == {Format(s) : s \in Specs}

(* The text of CONFIG in the order cfg_save writes its lines: settings, devices.  *)
(* A line that is not there is 0 or <<>>.  BBS_ID is read but never written.      *)
EmptyConfig == [settings |-> 0, bbs_id |-> 0, system |-> <<>>, msgs |-> <<>>]
Written(cfg, lines) ==
  [EmptyConfig EXCEPT
     !.settings = IF lines >= 1 THEN cfg.settings ELSE 0,
     !.system = IF lines >= 2 THEN Format(cfg.system) ELSE <<>>,
     !.msgs = IF lines >= 3 THEN Format(cfg.msgs) ELSE <<>>]
AllLines == 3

VARIABLES
  drives,    \* current: partition each device stands on; cached: what disk.c believes
  disk,      \* CONFIG and ACCESS on every partition
  bbs_cfg,   \* the configuration in memory
  levels,    \* the access levels in memory
  running,   \* "none", "BOOT" or "CONFIGURE"
  landed,    \* history: partitions the last handler asked for, and those it got
  reported,  \* history: what the operator was last told is in CONFIG, and where
  saves

configVars == <<drives, disk, bbs_cfg, levels, running, landed, reported, saves>>

CfgRecords == [settings: {0} \cup Settings, bbs_id: {0} \cup Settings,
               system: Specs, msgs: Specs]
Defaults(device) ==
  [settings |-> 0, bbs_id |-> 0,
   system |-> [device |-> device, drive |-> 0, init |-> 0],
   msgs |-> [device |-> MsgDevice, drive |-> 0, init |-> 0]]
Untold == [at |-> Nowhere, cfg |-> Defaults(MsgDevice)]

ConfigTypeOK ==
  /\ drives \in [current: [Devices -> Partitions], cached: Places \cup {Nowhere}]
  /\ disk \in [Places -> [config: [settings: {0} \cup Settings,
                                   bbs_id: {0} \cup Settings,
                                   system: Texts \cup {<<>>}, msgs: Texts \cup {<<>>}],
                          access: {0} \cup Settings]]
  /\ bbs_cfg \in CfgRecords /\ levels \in {0} \cup Settings
  /\ running \in {"none", "BOOT", "CONFIGURE"}
  /\ landed \subseteq [wanted: {0} \cup Partitions, got: Partitions]
  /\ reported.at \in (Devices \X ({0} \cup Partitions)) \cup {Nowhere}
  /\ saves \in 0..MaxSaves

ConfigInit ==
  /\ drives = [current |-> [d \in Devices |-> PowerUp], cached |-> Nowhere]
  /\ disk = [p \in Places |-> [config |-> EmptyConfig, access |-> 0]]
  /\ bbs_cfg = Defaults(MsgDevice) /\ levels = 0 /\ running = "none"
  /\ landed = {} /\ reported = Untold /\ saves = 0

-------------------------------------------------------------------------------
(* disk.c over the state of the drives.                                         *)

(* disk_cmd: any command may move the drive, so the cache is dropped first.      *)
(* n > 0 is a CP<n> command, 0 any other.                                       *)
CommandedBug(d, device, n) ==                \* the cache outlives the command
  [d EXCEPT !.current = IF n = 0 THEN @ ELSE [@ EXCEPT ![device] = n]]
Commanded(d, device, n) ==
  [current |-> IF n = 0 THEN d.current ELSE [d.current EXCEPT ![device] = n],
   cached |-> Nowhere]

(* disk_select_partition: nothing is sent for partition 0 or for the partition   *)
(* that is cached; otherwise CP<n>, cached when the drive accepts it.            *)
Selected(d, device, n) ==
  IF n = 0 \/ d.cached = <<device, n>> THEN {[ok |-> TRUE, drives |-> d]}
  ELSE {[ok |-> TRUE,
         drives |-> [Commanded(d, device, n) EXCEPT !.cached = <<device, n>>]]}
       \cup (IF "refuse" \in ConfigFaults
             THEN {[ok |-> FALSE, drives |-> [d EXCEPT !.cached = Nowhere]]}
             ELSE {})

(* cfg_send_drive_init: the subsystem's command, if it has one.                  *)
InitSent(d, spec) ==
  IF spec.init = 0 THEN {[ok |-> TRUE, drives |-> d]}
  ELSE {[ok |-> TRUE, drives |-> Commanded(d, spec.device, spec.init)]}
       \cup (IF "refuse" \in ConfigFaults
             THEN {[ok |-> FALSE, drives |-> [d EXCEPT !.cached = Nowhere]]}
             ELSE {})

(* disk_scratch: the partition is selected, then the command is sent.            *)
Scratched(d, device, n) ==
  {[s EXCEPT !.drives = IF s.ok THEN Commanded(s.drives, device, 0) ELSE @]
     : s \in Selected(d, device, n)}

(* A file of a subsystem is used: its init command, its partition, its file.      *)
Used(d, spec) ==
  UNION {IF sent.ok THEN Selected(sent.drives, spec.device, spec.drive) ELSE {sent}
         : sent \in InitSent(d, spec)}

Spot(device, d) == <<device, d.current[device]>>
Landing(sel, device, n) ==
  IF sel.ok THEN {[wanted |-> n, got |-> sel.drives.current[device]]} ELSE {}

-------------------------------------------------------------------------------
(* cfg_apply over the lines of CONFIG: defaults, then every line that is there.   *)
Applied(device, text) ==
  LET base == Defaults(device)
  IN [settings |-> text.settings, bbs_id |-> text.bbs_id,
      system |-> IF text.system = <<>> THEN base.system ELSE ParseSpec(text.system),
      msgs |-> IF text.msgs = <<>> THEN base.msgs ELSE ParseSpec(text.msgs)]

(* A program is loaded from a device that stands on the partition it lives on;    *)
(* cfg_init then reads CONFIG there, with partition 0, before anything is known   *)
(* of partitions.                                                               *)
LoadProgram(prog, device) ==
  /\ running = "none" /\ drives.current[device] = PowerUp
  /\ running' = prog
  /\ bbs_cfg' = Applied(device, disk[Spot(device, drives)].config)
  /\ levels' = 0
  /\ drives' = [drives EXCEPT !.cached = Nowhere]
  /\ landed' = {} /\ UNCHANGED <<disk, reported, saves>>

(* The SysOp leaves the program: the drives stay where they are.                 *)
QuitProgram ==
  /\ running # "none" /\ running' = "none"
  /\ UNCHANGED <<drives, disk, bbs_cfg, levels, landed, reported, saves>>

(* The drives are reset or switched off and on between two programs.             *)
ResetDrives ==
  /\ running = "none"
  /\ drives' = [drives EXCEPT !.current = [d \in Devices |-> PowerUp]]
  /\ UNCHANGED <<disk, bbs_cfg, levels, running, landed, reported, saves>>

(* CONFIG is edited by hand, where the operator keeps it: he gives BBS_ID.        *)
HandEdit(device, n) ==
  /\ running = "none"
  /\ disk' = [disk EXCEPT ![<<device, PowerUp>>].config.bbs_id = n]
  /\ disk' # disk
  /\ UNCHANGED <<drives, bbs_cfg, levels, running, landed, reported, saves>>

(* A file of the system or of the message boards is read or written.             *)
UseFileOf(spec) ==
  /\ running # "none"
  /\ \E sel \in Used(drives, spec) :
       drives' = sel.drives /\ landed' = Landing(sel, spec.device, spec.drive)
  /\ UNCHANGED <<disk, bbs_cfg, levels, running, reported, saves>>
UseSystem == UseFileOf(bbs_cfg.system)
UseMessages == UseFileOf(bbs_cfg.msgs)

-------------------------------------------------------------------------------
(* cfg_save of cfg, the drives being as in d: CONFIG is scratched on the system     *)
(* partition; whatever came of that it is opened there for writing, and the lines   *)
(* go out until one fails.                                                        *)
SavedDriveBug(cfg) == 0                      \* wherever the drive stands
SavedDrive(cfg) == cfg.system.drive
LinesOut == {AllLines} \cup
            (IF ConfigFaults \cap {"full", "power"} = {} THEN {} ELSE 0..AllLines - 1)
SaveFrom(scr, sel, lines, cfg) ==
  LET device == cfg.system.device
      emptied == IF scr.ok
                 THEN [disk EXCEPT ![Spot(device, scr.drives)].config = EmptyConfig]
                 ELSE disk
  IN [drives |-> sel.drives, ok |-> sel.ok /\ lines = AllLines,
      cut |-> sel.ok /\ lines # AllLines,
      landed |-> Landing(sel, device, SavedDrive(cfg)),
      disk |-> IF sel.ok
               THEN [emptied EXCEPT ![Spot(device, sel.drives)].config =
                                       Written(cfg, lines)]
               ELSE emptied]
Saved(d, cfg) ==
  LET device == cfg.system.device
      n == SavedDrive(cfg)
  IN UNION {{SaveFrom(scr, sel, lines, cfg) :
               sel \in Selected(scr.drives, device, n), lines \in LinesOut}
            : scr \in Scratched(d, device, n)}

(* config.c: the new values go into memory before the save and stay there when it  *)
(* fails, to be written by the next one.  Files of the system are used before and,  *)
(* after a save that succeeded, behind it (STATUS in the settings form).            *)
Edit(cfg, status) ==
  LET system == bbs_cfg.system
  IN /\ running = "CONFIGURE" /\ saves < MaxSaves /\ saves' = saves + 1
     /\ bbs_cfg' = cfg
     /\ \E before \in (IF status THEN Used(drives, system)
                       ELSE {[ok |-> FALSE, drives |-> drives]}),
           off \in (IF "power" \in ConfigFaults THEN BOOLEAN ELSE {FALSE}) :
        \E save \in Saved(before.drives, cfg) :
        \E after \in (IF save.ok /\ status THEN Used(save.drives, cfg.system)
                      ELSE {[ok |-> FALSE, drives |-> save.drives]}) :
          /\ save.cut /\ ~off => "full" \in ConfigFaults
          /\ drives' = after.drives /\ disk' = save.disk
          /\ landed' = Landing(before, system.device, system.drive) \cup save.landed
                         \cup Landing(after, cfg.system.device, cfg.system.drive)
          /\ running' = IF off THEN "none" ELSE running
          /\ reported' = IF save.ok /\ ~off
                         THEN [at |-> <<cfg.system.device, cfg.system.drive>>, cfg |-> cfg]
                         ELSE Untold
     /\ UNCHANGED levels
EditSettings(v) == Edit([bbs_cfg EXCEPT !.settings = v], TRUE)
EditLine(v) == Edit([bbs_cfg EXCEPT !.settings = v], FALSE)
EditDevices(system, msgs) ==
  Edit([bbs_cfg EXCEPT !.system = ParseSpec(Format(system)),
                       !.msgs = ParseSpec(Format(msgs))], FALSE)

(* access_levels_load: what is in ACCESS on a partition; 0, the defaults, when      *)
(* there is no file.  The init command is not sent for this file.                 *)
AccessTable(place) == disk[place].access
ReadLevels ==
  LET system == bbs_cfg.system
  IN \E sel \in Selected(drives, system.device, system.drive) :
       /\ drives' = sel.drives
       /\ landed' = Landing(sel, system.device, system.drive)
       /\ levels' = IF sel.ok THEN AccessTable(Spot(system.device, sel.drives)) ELSE 0

(* admin_access_menu reads the table once; the board looks a caller's limits up     *)
(* each time, `levels` then being what it was told: 0, no limit, without a file.    *)
AccessMenu ==
  /\ running = "CONFIGURE" /\ ReadLevels
  /\ UNCHANGED <<disk, bbs_cfg, running, reported, saves>>
LookUpLimits ==
  /\ running = "BOOT" /\ ReadLevels
  /\ UNCHANGED <<disk, bbs_cfg, running, reported, saves>>

(* do_access_edit: the level is changed in memory and the whole table is written.  *)
(* A disk that is full leaves the defaults' lines missing, and nobody is told.    *)
EditLevel(v) ==
  LET device == bbs_cfg.system.device
      n == bbs_cfg.system.drive
  IN /\ running = "CONFIGURE" /\ levels' = v
     /\ saves < MaxSaves /\ saves' = saves + 1
     /\ \E scr \in Scratched(drives, device, n) :
        \E sel \in Selected(scr.drives, device, n) :
        \E kept \in {v} \cup (IF "full" \in ConfigFaults THEN {0} ELSE {}) :
          LET emptied == IF scr.ok
                THEN [disk EXCEPT ![Spot(device, scr.drives)].access = 0] ELSE disk
          IN /\ drives' = sel.drives /\ landed' = Landing(sel, device, n)
             /\ disk' = IF sel.ok
                THEN [emptied EXCEPT ![Spot(device, sel.drives)].access = kept]
                ELSE emptied
     /\ UNCHANGED <<bbs_cfg, running, reported>>

SpecOf(t) == [device |-> t[1], drive |-> t[2], init |-> t[3]]

ConfigNext ==
  \/ \E prog \in {"BOOT", "CONFIGURE"}, device \in Devices : LoadProgram(prog, device)
  \/ QuitProgram \/ ResetDrives \/ UseSystem \/ UseMessages \/ AccessMenu \/ LookUpLimits
  \/ \E device \in Devices, n \in Settings : HandEdit(device, n)
  \/ \E v \in Settings : EditSettings(v) \/ EditLine(v) \/ EditLevel(v)
  \/ \E s \in SystemSpecs, m \in MsgSpecs : EditDevices(SpecOf(s), SpecOf(m))

ConfigSpec == ConfigInit /\ [][ConfigNext]_configVars

-------------------------------------------------------------------------------
(* An operation that names a partition is done on that partition, whatever init  *)
(* commands moved the drive, whatever commands it refused and whatever subsystem  *)
(* used the same drive in between: the cache never answers for a drive that has    *)
(* been moved.                                                                  *)
OperationsLandWhereAsked == \A l \in landed : l.wanted # 0 => l.got = l.wanted

(* What the operator was told is saved is what the next program started from that  *)
(* device runs with, if the system partition he gave is the one drives start on:   *)
(* message boards on another partition of the drive, a refused command or an       *)
(* interrupted save in between never make an older or another file be read.        *)
ReportedIsLoaded ==
  [][\A device \in Devices :
       (\E prog \in {"BOOT", "CONFIGURE"} : LoadProgram(prog, device))
       /\ reported.at = <<device, PowerUp>>
       => [bbs_cfg' EXCEPT !.bbs_id = 0] = [reported.cfg EXCEPT !.bbs_id = 0]]_configVars

===============================================================================
