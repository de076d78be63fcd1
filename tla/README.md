# TURBO/64 BBS: formal models

This directory holds TLA+ models of the bulletin board in `src/`, a single-line
BBS for the Commodore 64, with the TLC configurations that check them and the
TLAPS proofs of what holds for every size of board. File and line numbers below
are relative to the repository.

1. [The system](#1-the-system)
2. [Modules and plan](#2-modules-and-plan)
3. [The message base](#3-the-message-base)
4. [The modem line](#4-the-modem-line)
5. [The call loop](#5-the-call-loop)
6. [Transfers: Punter and Zmodem](#6-transfers-punter-and-zmodem)
7. [The services](#7-the-services)
8. [Proofs](#8-proofs)
9. [Known limits of the code](#9-known-limits-of-the-code)
10. [What the models do not reach](#10-what-the-models-do-not-reach)

Run a check with `tlc -config MsgBase_sound.cfg MCMsgBase`, the proofs with
`tlapm MsgBaseProofs.tla`. `PROJECT.json` lists every run with the properties
it checks, the source lines of every definition, and for each checked property
a *mutant*: a mistake put into one definition (the operators named `...Bug`
beside the originals) that makes TLC find the property violated. The mutants
show that a property can fail; nothing else uses them.

## 1. The system

The board has one thread and one line. `main_loop` (src/main.c) polls the modem
driver, runs a session for a caller, releases the line and polls again. A
feature such as the message boards is a loop of its own that waits for keys
through `sess_getc` and must leave by itself when the carrier is gone. The only
concurrency is between this thread, the ACIA's receive interrupt, the modem and
the caller; the hard part of the rest is that every operation is a sequence of
slow disk writes, any of which may fail, with the machine switched off at any
moment, and that copies of disk records are kept in RAM or in the REU.

| Component | State | Operations | Correct when |
|---|---|---|---|
| Message base (messages.c, boards.c, reu.c) | per board an index file, a text file and a directory record with cached figures; REU bank 0 as a copy of one index | post, reply, kill, prune, change of board | each posted text reads back; threads are trees; cached figures, limits and bank 0 agree with the index |
| Reader (bulletin.c, usrptr.c) | current board and message; read pointers in RAM and on disk | enter, first, next, jump, ENTER, leave | every message not yet shown is offered once; moving on gets to the end; pointers do not go back |
| Modem driver (net.c, at_response.c) | line state, DSR flags, parser, receive ring | `net_rx`, `net_disconnect`, the interrupt | a call is answered once; a hangup is noticed; a caller's bytes come in order and are never another's |
| Main loop, session control (main.c, session.c, term.c) | session state, idle and daily limits, CALLERS | waiting, detection, session steps, hanging up, logoff | a session has one caller; a dropped caller is out; the board comes back; one log entry a login |
| User database (users.c) | USR LOG and USR PROF, the REU copy of USR LOG | look-up by handle or number, save, next number, delete, count | a number and a handle belong to one user; the copy agrees with the disk |
| Login, registration (auth.c, newuser.c, session.c) | attempt counters, registration step, collected fields | one key at a time | only the right password logs in; an account is created once, with what was confirmed |
| Daily usage and counters (usrday.c, syscnt.c, callers.c, access.c) | records keyed by date | accrue, reset on a new day | a day's usage is counted once and for that day |
| Menus (menu.c, menu_actions.c) | stack of parents, count of unknown keys | select, return | the stack holds the way back |
| Overlays (sysop.c, xfer.c, doors.c) | what code is in the zone at $9700 | load before a call, reload after it | code that is called is the code that is loaded |
| Files (files.c, file_areas.c, file_entries.c) | areas, entries, the files | list, download, upload | every upload is listed in its area and sends what was uploaded |
| Punter, Zmodem (punter.c, zmodem.c) | retry counters, block buffers | send, receive over a noisy line | success means the whole file arrived, once and in order |
| Doors (features/doors.c, data/doors.c) | slots of the door table | run, login chain | the overlay that called is back before it goes on |
| Boards, areas, polls (boards.c, votes.c, src-editor/admin) | one record a slot | create, edit, delete | no entry takes another's number or its leftover files; lists are complete |
| Disk, REL (disk.c, rel.c) | the open file, the selected partition | open, position, read, write | one file open; the partition selected is the one asked for |
| Configuration (cfg.c), CONFIGURE (src-editor/) | CONFIG, the tables above | edit while the board is down | what was saved is read back |

What is hard here: DSR changes between the four readings of one `net_rx`; bytes
and result codes of one call that arrive in the next; waits that do not look at
the carrier; hangups that the modem carries out late; crashes and disk errors
between the writes of one operation whose result nobody looks at; copies (bank
0, cached figures, the current message) that outlive what they are copies of;
16-bit offsets and 8-bit counters; limits that are scaled to hardware (100
messages, 128 bytes, 20 boards). PROJECT.json's `hazards` gives the line of
each, and the properties that watch it.

## 2. Modules and plan

| Module | Models | Checked by |
|---|---|---|
| `MsgBase`, `MessageBoards`, `MsgBaseRefinement`, `MCMsgBase`, `MsgBaseProofs`, `MsgCleanProofs` | message base, its abstract specification, the refinement, the proofs | msgbase, msgbase_faults, msgbase_overrun |
| `NetLine` | modem driver, interrupt, modem and callers | loop, loop_live |
| `CallLoop`, `MCCallLoop`, `CallLoopProofs` | main loop and session control as the client of `NetLine` (EXTENDS it); the proofs of both | loop, loop_live, loop_next, loop_kicked |
| `Punter`, `MCPunter` | both ends of the Punter transfer and the line between them | transfers, punter_whole |
| `Zmodem` | both directions of the Zmodem transfer, the terminal and the line | transfers |
| `Transfers`, `MCTransfers`, `TransfersProofs` | a transfer by either protocol, as files.c starts it; the proofs | transfers |
| `Reader` | message reader and read pointers, over boards as `MessageBoards` promises them | services |
| `Accounts`, `AccountsProofs`, `LeastNumber` | user file and REU copy, login, registration, the users menu of CONFIGURE | services |
| `Tables`, `TablesProofs` | boards, areas, polls and doors as CONFIGURE creates, edits and deletes them | services |
| `Files`, `MCFiles` | file areas as callers use them | services, downloads |
| `Usage` | minutes, calls and posts of a day | services |
| `Config` | CONFIG and ACCESS, devices, partitions and the cache of the selected one | services |
| `Overlays`, `MCOverlays` | the zone that overlays and doors share, the menus that lead to them | services, overlays |
| `Services`, `MCServices`, `ServicesProofs` | those seven, one at a time; the proofs of the five that have no module of their own for them, and of the whole | services |

`CallLoop` composes with `NetLine` by EXTENDS, since they share the driver's
state. `MsgBase` and `Reader` meet in `MessageBoards`: the one implements it,
the other uses it. `Accounts` stands for what `CallLoop` leaves open at the
login prompt, `Overlays` for the way from the menu to `Reader`, `Files` and the
doors, `Transfers` for what `Files` calls. `Tables` prepares what `Reader` and
`Files` find; `Config` says where all of it stands.

The plan is carried out: every safety property of a run that passes is also a
theorem; section 8 says what the liveness properties rest on instead.

## 3. The message base

**What it models.** `MsgBase` has the disk (`idx`, `txt`, `dir`), bank 0 of the
REU (`reu`), the caller's place (`cur`, `curMsg`) and the operation that runs
(`pc` with its locals). One disk write is one step. `StartPost`, `PruneRecord`,
`PruneSave`, `CommitBody`, `LinkThread`, `PutRecord` and `SaveBoard` are
`msg_post` in the order of its writes, pruning included; `KillRecord` and
`KillSave` are `msg_delete`; `LoadBoard`, `DisplayMsg` and `LeaveBoards` are
what bulletin.c does between them. A byte of text is the number of the post
that wrote it; a scan of the index is the set of records it saw, so that a scan
that stops early (`Faults` contains `"scan"`) is a smaller set. Sticky and
frozen messages are left out because nothing in the program sets those marks;
so are the functions nothing calls (listed under `components`).

**Abstract specification.** `MessageBoards` promises each board as a growing
list of messages that keep number, text, parent and root and can only be
removed from view, never more visible than the limit. `MsgBaseRefinement` maps
the index and the text file to that list; `ImplementsMessageBoards` is checked
by the run `msgbase`.

| Run | Bounds | What it shows |
|---|---|---|
| msgbase | 2 boards, 4 records, limit 2, prune 2, 4 posts of 2 bytes, no faults | every property below holds, pruning and changes of board included, and the write-by-write model implements `MessageBoards` |
| msgbase_faults | 1 board, 3 records, 3 posts of 1 or 2 bytes, crash and failed writes between any two writes | threads stay trees, bodies disjoint, records settled |
| msgbase_overrun | 1 board of 2 records, prune 1 | the violation listed under `findings` |

Four posts over a limit of two with a batch of two reach every shape the code
distinguishes: a board below, at and above its limit, a prune that finds fewer
than a batch, a reply to a message that a prune deletes, a kill between two
posts. Two boards are needed because bank 0 holds one of them. The word size is
64, so that offsets do not wrap in these runs.

**Finding.** The ceiling of 200 messages counts live messages while numbers grow
for ever: after enough prunes a board takes record 201, which no scan sees.

## 4. The modem line

**What it models.** `NetLine` has the driver's variables under their C names,
the ACIA register and the receive ring, and outside it the modem and up to
`MaxCalls` callers. Each of the four readings of DSR in `net_rx`
(`Carrier`, `Track`, `Release`, `Answer`) is a step, each byte taken from the
ring (`TakeByte`) another, so that the interrupt (`Isr`), the modem and the
callers move between any two. Bytes are tokens with the call they belong to
and a number, which is what the properties speak about; a result code is one
token framed by line ends. `Modem` selects the Ultimate 64 (DSR follows the
session) or VICE with tcpser (result codes, DSR constant).

The client of `NetLine` is the most general one, any `net_rx` or `net_disconnect` at any
time; the theorems are proved of it. TLC runs the driver with the client it has, the
call loop, in the run `loop`; `TheBoardIsAClient` (section 8) says that nothing
is lost by that.

`net_disconnect` waits for its modem only with result codes (three seconds). On
the Ultimate it lowers DTR and returns (src/platform/cbmdos/net.c:455-466), and so
does `HangUp`: the session may be bridged for as long as the modem takes (`hang`),
while the driver is polled again. What follows from that is in the property
`AnsweredAgainInHangup` and in the finding of `loop_kicked`.

The modem is chosen in the initial state. Two callers are what the hazards need
(the one before and the one after). The ring is two bytes and its counters wrap
at four so that both wraps happen in few bytes; in the code 128 divides 256 in
the same way. A caller may type the result code NO CARRIER as text.

`Faults` says what the environment may do beyond the ordinary: `"quick"` callers
follow one another before the driver has noticed, `"overrun"` loses a byte in
the ACIA, `"overflow"` fills the ring past its end, `"lazy"` is a tcpser that needs
longer to hang up than the three seconds `net_disconnect` gives it. A run names those
under which its properties are promised. That an answer comes at all is checked with the
call loop, whose thread polls fairly.

## 5. The call loop

**What it models.** `CallLoop` EXTENDS `NetLine` and replaces its general client
by the board's thread. `at` is where it stands, `reader` whose wait for a byte
it is in (a session step, a feature, the editor's ABORT? prompt). The waits are
modelled one call at a time: `sess_rx_byte`, the idle check, F2, the daily
limit, the look at the carrier. Login is one choice (a key may complete it, or
be the last wrong try); what a feature does with its keys is left to the other
modules. Time passes at any moment (`IdleRunsOut`, `TimeRunsOut`).

| Run | Bounds | What it shows |
|---|---|---|
| loop | either modem, quick and eager callers, lazy tcpser; 2 calls, 3 typed tokens, NO CARRIER among them; SysOp logs on and kicks, daily limit, ABORT? prompt | one CALLERS entry a login; bytes in order and of the caller being served; with result codes a caller hung up on is served no more; a caller is connected twice on one occasion only |
| loop_live | either modem, lazy tcpser, 2 calls of 2 bytes, fair thread and clock | the board comes back, callers are taken, idle ones dropped |
| loop_next | U64, 2 calls of 5 bytes, callers who dial at once | the violation listed under `findings`: the next caller is connected into the session of the last |
| loop_kicked | U64, 1 call of 5 bytes, SysOp kicks | the violation listed under `findings`: a caller who was dropped is connected again at once and goes on |

Three bytes take a caller through detection and login into a feature, five through
its prompt and out again. `loop_live` has no ABORT? prompt (`Confirms = FALSE`): with
it the board need not come back, see section 9. There, and in `loop_kicked`, callers
dial while the board waits for a call (`Eager = FALSE`).

What a session may rely on after it has hung up is said twice. `DroppedIsOver` is what
the comments promise: no key reaches the session any more. It is violated
on the Ultimate. `DroppedIsNotServed` is what the code keeps: with result codes the
session takes no key *of the caller it hung up on*, even if the next caller is already
there. On the Ultimate neither holds, and `AnsweredAgainInHangup` says how far it goes:
the caller is connected a second time only while the modem is hanging up on him,
which ends that session's connection too.

**Fairness** (`LoopFairSpec`): WF of the thread, of the clock, of bytes under
way and of the modem's hangup. The thread is the machine's only one, so it
always goes on; the clock ticks; nothing is assumed of callers or SysOp.

**Not modelled**: booting, F8, the attempt counters, all output.

## 6. Transfers: Punter and Zmodem

`Punter` has both ends of `punter_send` and `punter_recv` as state machines whose
states are the tokens or blocks they wait for (`sAt`, `rAt`), with the tries left,
and the line as two sequences of items with a length in bytes, since the code
reads bytes: a block read as tokens is junk. Timers run out when nothing can come
any more, or, as the fault `"late"`, while the other end is at work. The board may
be either end.

`Zmodem` has `zmodem_send` and `zmodem_recv` by the header or subpacket they wait
for (`zAt`), and the caller's terminal, which is not in the repository, as a
program that follows the protocol the code expects: it may ask to start again, skip
the file, give up, or go. What hunts for a header passes over all else, what reads a
subpacket takes a header's bytes for data; both are stated once (`HeaderAt`,
`PacketAt`). `zmodem_send` cannot seek and does not look at the line while it
streams, as in the code.

`Transfers` puts them together: a caller takes one or the other, and either blocks
the board.

| Run | Bounds | What it shows |
|---|---|---|
| transfers | Punter: files of 1 and 3 blocks, block size and tries as in the code, 2 faults of any kind. Zmodem: files of 0, 1 and 3 subpackets, both directions, 1 fault of any kind, 3 new starts | what Punter stores is a beginning of the file, its success is agreed on; a Zmodem transfer on a clean line is whole, and none that lost its end counts as complete; every transfer ends |
| punter_whole | files of 1 block, 1 full block and 2 blocks, no fault | the violation listed under `findings`: the last block of a file of several is not sent |

Two faults are the least that hit both a Punter block and its repetition, or both
directions; three blocks or subpackets have a first, a middle and a last. For
Zmodem a second fault was left out for the size of the instance; one at every point
of both directions is tried.

**Fairness**: WF of the board's end, whose timers run out, and of the other end,
which is a program that runs on. Nothing is assumed of the line or the caller.

## 7. The services

Seven parts of the board share no state but the disk, and of that each has files of
its own; the one thread runs one of them at a time. `Services` therefore chooses
one and lets the others stand still. Their instances are checked in one run,
`services`, which is their sum and not their product.

**Reader.** The board is a list as `MessageBoards` promises it (`index`), with
USR.PTR (`marks`) and the state of bulletin.c: the loop that waits for a key (`at`),
pointers in memory (`ptr`), the current message and its author. Each command that
changes state is an action. `shown` and `read` are history: what the caller was
shown on this visit and on those whose pointers were saved. Board and current message
are statics of bulletin.c and stay when the reader is left; `load_board` clears them
only when the board's record can be read (fault `"board"`), and its caller goes on
either way. So a caller may come in with the message of an earlier visit, perhaps of
another caller (`brought`, `LeftOver`). `CurrentWasShown` says what holds all the same: what
K, * and R act on was displayed on this visit and board, or was brought along and
is still current. A visit that starts so counts for `CurrentWasShown` only; the properties of the
marks leave it out. Read levels of boards, and the board record that `bull_do_post` reads again after
a post (src/features/bulletin.c:407), are not in `Reader`; what bank 0 holds after a
failed load is `MsgBase`'s subject. *Bounds*: 2 boards, 4 messages, limit 2, failing
board reads and saves: a prune while a caller reads, a deleted message before, at and
after the current one, an empty board.

**Accounts.** USR LOG (`users`), its copy in bank 2 of the REU (`cache`, `cached`),
which program runs, and login and registration under their C names. `Save` writes
disk and copy as `user_save` does; `ByHandle` and `NextId` are its scans, which
under the fault `"read"` stop anywhere. `session_reg_step` is one action a step. The
users menu of CONFIGURE works on the disk while the board is down and keeps the
record it picked. *Bounds*: 3 records (SYSOP, a caller, a full file), 4 handles: the
blank one, a reserved word, the same with a second word, another. This instance is
small because its six properties are proved for every size.

**Tables.** One table at a time, of boards, areas, polls or doors, with CONFIGURE's
menu for it and the files that belong to a number. Each write may fail, the power may
go on every screen, a scratch may do nothing and not be noticed. *Bounds*: 3 slots:
one deleted between two live, a full table.

**Files.** The areas, the record in memory, the entries of each area, the contents
on the drive by name; of a transfer the outcome. *Bounds*: 2 areas of which a caller
may enter one or both, record numbers in a byte that ends at 2, 3 uploads, so that an
entry file is full and numbers wrap.

**Usage.** The real clock beside `wfc.date`, which the operator enters when the
board starts (the right one, it is assumed) and which never moves after. What a visit
really took is counted minute by minute (`online`), apart from the clock that the code reads
it from, which knows the time of day only and has sixteen bits (`Shown`, `Elapsed`).
`usrday_load` takes a record that it cannot read, or not to its end, for one of a
caller who was never on line, and `session_done` writes over it (`DayLoaded`, `Charge`): the minutes
of the day are lost then, as the code says they may be (src/data/usrday.c:44). `uncounted`
notes such losses and visits that outlast the clock. *Bounds*: 2 days of 4 minutes,
elapsed time that saturates at 2, 2 callers, one exempt from the limit; failing reads and
writes, visits over midnight, restarts on the same and on the next day. The exempt stand
for the local SysOp too, whose watch is never armed.

**Config.** What each drive really stands on beside what disk.c believes; CONFIG and
ACCESS on every partition; the program that runs. `reported` is what the operator
was last told is saved, `landed` where operations went. *Bounds*: 2 devices of 2
partitions, the system on either device, the message boards on another partition of
it or where an init command leads; 2 saves, refused commands, full disks, power
loss.

**Overlays.** What stands in the zone at $9700, `wfc.ovl_wfc_loaded`, the partition
the system device stands on, the overlays and doors on the call stack, and the menus.
`jump` is the code entered last and what stood there. A load may fail (`LoadFails`), which
nobody asks: the zone then has what it had or something that is neither, and the thread
enters it all the same. What a processor does there may be anything, so the model ends
there, until the machine is switched off (`PullPlug`); `broken` is history and says that
the last load into the zone failed. *Bounds*: a board on one partition, with and without
selecting it, any load failing; the garbage limit is 3. Boards on several
partitions are the subject of the run `overlays`.

| Run | What it shows |
|---|---|
| services, reader | `CurrentWasShown`: the message acted on was displayed on this visit, unless a failed board read left one of an earlier visit; `MarkIsHighestRead`; `NewIsNextUnread` |
| services, accounts | `CopyIsTheFile`, `HandlesAreUnique`, `CallerIsOwner`, `RegistrationIsComplete`, `AccountsAreKept` |
| services, tables | `ListIsComplete`: a list has every entry in one place, also with equal order numbers; `FreshIsEmpty`: no new board or area takes over a deleted one's files |
| services, files | `UploadsAreListed`: an entry that was written stays and can be chosen in its area |
| services, usage | `MinutesAreOfTheDay`: a date is never charged with more than the visits saved under it really took, and with all of it unless the record could not be read or a visit outlasted the clock |
| services, config | `OperationsLandWhereAsked`: the cached partition is never stale; `ReportedIsLoaded`: what was reported as saved is what the next start loads |
| services, overlays | `CodeIsInTheZone`: on a board of one partition, code is entered, called back and returned into only while it stands in the zone, or right after a load that failed: a load that works mends everything |
| downloads | 1 area, 2 names, 2 uploads: the violation listed under `findings` |
| overlays | the system on partition 1, boards on partition 2 as README.md suggests: the violation listed under `findings` |

`DoorPlaces` and `ShowsAtLogin` restrict `services` to boards on which the property
is promised; section 9 says what happens on others.

## 8. Proofs

All theorems hold for every value of the constants under the assumptions named
in the modules (`...Assumption`), which every run evaluates, and under the
hypotheses their statements name. An invariant of a run is seldom inductive; each
part below says what had to be added and why. The lemmas come in the order of the
argument: types of the operators, then one lemma for each part of the invariant and
step, split by action.

| Module | Proves, for every size | Under |
|---|---|---|
| `MsgBaseProofs` | `BankMirrorsIndex`; `ThreadsAreTrees`, `RecordsAreSettled`, `BodiesAreDisjoint` | loads (and scans) that work; room for the figures |
| `MsgCleanProofs` | `CountIsLive`, `HeaderIsExact`, `EveryPostReadsBack`, `RepliesAreCounted`, `OldestGoFirst`, the refinement `ImplementsMessageBoards` | no faults; room |
| `CallLoopProofs` | `PayloadInOrder`, `PayloadIsOfServedCall`, `AnsweredAgainInHangup`, `EachLoginIsLogged`, `DroppedIsNotServed`, `SessionServesOneCall` | see below; `EachLoginIsLogged` always |
| `AccountsProofs` | all six properties of `Accounts` | complete loads and scans where needed |
| `TablesProofs` | `FreshIsEmpty`, `ListIsComplete`, and that entries are their own | nothing |
| `ServicesProofs` | the three properties of `Reader`, those of `Files`, `Usage`, `Config`, `Overlays`; that all parts' properties hold of `Services`; `ServicesTypeOK` | pointers that load; one partition; types under nothing |
| `TransfersProofs` | `CompleteReachesTheEnd`, `CleanTransferIsWhole` of Zmodem, `StoredIsPrefix`, `SuccessIsAgreed` of Punter; `TransfersTypeOK` | nothing |

`MsgBaseProofs`. `TypeCorrect`: `Spec => [](TypeOK /\ Busy)` for every board
size, limit, word size and set of faults. `Busy`, that an operation runs only
with a board entered, is the strengthening: without it `cur` could be 0 where a
write applies the index function to it. The lemmas give the type of each operator
(`Written`, `Get`, `Put`, `Loaded`, ...), and the step proof has one case per
action. `BankIsCoherent`: if loads of bank 0 succeed (`"load"` is not in
`Faults`), bank 0 equals the index of the caller's board after every single
write, through crashes, failed writes and failed scans; it rests on
`TypeCorrect` and on one lemma each for `Put` and `IndexLoad`.

The theorems about threads, records and bodies hold through crashes and failed
writes, in runs in which scans and loads work (`ReadsWork`; the program looks at
the result of neither). `IndexInv` is the invariant under them: types and bank 0,
the numbers in use are 1, 2, ... without a gap (`Dense`), the slot of bank 0 no load
touches is free (`TopFree`), the message on display and the one replied to are on the
board (`ShownKnown`, `ParentKnown`), and a number chosen is the next (`Numbered`).
`Dense` is what makes the rest go: a reply's parent is then an older record and not
one whose number the next post takes. Every step is shown to do one of four things
to the index (`Marks`, `Counts`, `Adds`, or nothing), and `Threaded`, `Behind` (the text
being written lies behind every body) and settled records follow from those alone.

Nothing in the code keeps numbers, offsets and reply counters in their range: the
theorems say what holds while they are (`IndexIsBounded`, `TextFits`, `RepliesFit`,
as `[]` premises). That these premises are not empty is a theorem too: in a board
that few posts are made to (`Few`: their number fits the records and the counter,
their text the word) they hold of every behaviour (`FewPostsFit`), so that
`FewPostsKeepThreads` has no premise of the kind. `Owed`, its invariant, charges every
number, byte and reply to a post that was handed to `msg_post`.

`MsgCleanProofs` is about runs in which nothing fails (`Faults = {}`); after a
crash the cached figures are wrong, as section 9 says. `CleanInv` adds to `IndexInv` and
`Behind` what each operation still owes between its writes:

| Part | Says |
|---|---|
| `Counted` | the count a board has, or the running operation has still to save, is that of its live records |
| `Pruning`, `Limited` | the pruning loop has deleted all it has passed, and what it deleted makes room; the limit is never exceeded |
| `Textual`, `Appended` | the text file ends where the last body ends, or the one just written, whose bytes are there |
| `Headed`, `EndKept` | highest number and end of text of the directory, or of the copy not yet saved |
| `Recorded`, `ReadBack` | what was posted is in the index and the text |

`RepliesOwed` is the invariant of the reply counters, which are one ahead while
`msg_post` has counted a reply that is not yet in the index. `Implements` is the
refinement proved step by step: `ShelfKnown` expresses the list that
`MsgBaseRefinement` reads off the files by the first records of each board, and
`AbstractStep` shows that writing the record appends to it, a mark hides one message,
and every other write is a stutter. `FewPostsAreSafe` states all six without premises on room.

`CallLoopProofs`. What is under way to the driver is in three places, the ring, the
ACIA's register and the wire; the proofs see them as one queue (`Queue`), of which
every step moves the head up, loses an element, cuts off the end, or adds to the end.
With that, `Numbered` (numbers in the queue rise, above the last handed out) gives
`BytesStayInOrder` for rings and counters of any size, unless the ring overflows.

Whose bytes they are rests, with a modem that sends result codes, on the codes that
part the calls. `TcpInv`: a code is a line of its own (`Coded`), calls are parted by
NO CARRIER (`Parted`), after CONNECT comes the end of its line and then that
caller (`Opening`), so that what is next while the driver is connected is of the
caller it serves (`Served`, `Handing`). Hypotheses: no byte is lost (a lost CR hides a
code) and nobody types CONNECT at a board that waits, where the parser would believe
him. `CallersAreAnsweredOnce` is about both modems and however long they take to hang up:
with result codes nobody is connected twice (`Unused`, `Opened`), with the DSR line
(`CarriesCall`) only who is still on it when `net_disconnect` has returned.

`TheBoardIsAClient` carries all of this from the general client of `NetLine` to the board's
thread. `LoginsAreLogged` needs no hypothesis: `LoginOwed` says what a session owes the
caller log at each place of it. `SessionsServeOneCall` is the property that the run
loop_next shows violated; it is proved for callers who dial only while the board waits
(`~Eager`) and are not quick, which says that the finding has no other cause: under them
the session's caller is the last one and all that is under way is his (`LastOnly`,
`ServesLast`, `SessionInv`). `DroppedCallersAreOver` puts both together and proves
`DroppedIsNotServed`: with result codes, whoever was hung up on is not served again, be the next
caller as quick and the modem as slow as may be. For the Ultimate there is no such theorem;
`loop_kicked` is the counterexample.

`AccountsProofs`. The inductive invariant has five parts, each with a lemma for
the step and each resting on those before it:

| Part | Says | Needs | Gives |
|---|---|---|---|
| `TypeInv` | types; a record stands at the number it bears, in the file and in the copy; counters are below their limit while their prompt is open | nothing | `AccountsAreTyped` |
| `CopyInv` | a copy that is in use is the file | no `"load"` | `CopyIsAlwaysTheFile` |
| `SessionInv` | the session's record is that of the account it logged in to, and of the handle and password typed | no `"load"` | `CallersAreOwners`, `AccountsStay` (which needs no `"read"` as well) |
| `NamesInv` | handles differ, and the record CONFIGURE picked has a name that is its own | no `"load"`, no `"read"` | `HandlesStayUnique` |
| `RegInv` | what each registration step may assume of the fields before it | nothing | `RegistrationsAreComplete` |

Why the strengthening is needed is plainest in `RegInv`: `RegistrationIsComplete`
speaks of the last steps only, while a caller gets there from any field of the
list. `RegInv` says that password and confirmation agree in every step from 4 on
and in step 1 when it was chosen from the list, but not in 2 and 3, the password's
own. The type proof needs that a non-empty set of
numbers has a least one (`NextId` and `ByHandle` choose it); `LeastNumber` proves
that from the well-foundedness of `\subset` on finite sets, without induction
over a predicate.

The assumptions on faults are needed. With `"load"` a copy counts as valid after a load
that stopped early, and then reads are served from leftovers of the REU; with
`"read"` a scan that stops early yields number 1 or another that is taken.

`TablesProofs`, under every set of faults. The invariant adds to the types which
entry each screen of CONFIGURE is about (`HeldInv`: what is picked or new is
live, a draft has a free slot) and how records are used (`UsedInv`: boards,
areas and polls fill the file from the first record on, and no file goes by a
number that was never given). From it `NewNumberIsUnused` follows, that the
number a new entry gets has neither a record nor files, and with it
`NewStartsEmpty` (the property `FreshIsEmpty`) and `EntriesAreTheirOwn`: an entry
changes only while the SysOp has it open. `UsedInv` is needed because a scan ends
at the first record that reads short: only without such gaps is the highest
number the scan meets the highest there is. Every action comes down to one of
three lemmas: the table is kept (`KeptIsSound`), a live record is written again
(`RewrittenIsSound`), or an unused number gets one (`AddedIsSound`).

`ListsAreComplete` is about the places that a list gives its entries. An entry's place is one more
than the number of entries before it, by order number and, if equal, by slot;
that such places are 1, 2, ..., each taken once, is proved of any order on a finite
set (`Ranks`), by cardinalities: the places differ, lie between 1 and the size of
the set, and so fill it.

`ServicesProofs` has the five parts that share its module.

- *Reader.* `CurrentWasShown` is inductive with types, whatever fails: what makes it more than a
  guard is that neither leaving nor a failed read clears anything. For the pointers `Marked` says that the
  file has what was shown on visits that were saved, and memory that of this one as
  well, which `NewIsNextUnread` needs too. Both need pointers that load
  (`LoadsWork`), see section 9.
- *Usage.* `UsageInv` adds that no minutes were saved under a date that the caller's
  record has not reached, and how the watch of the visit on line and the minutes it
  has run agree: the same up to whole days, so that what the clock shows is never more,
  and no less until it saturates. This holds under every set of faults.
- *Files.* `FilesInv`: while an area is selected, the record in memory has the number of an
  area. A record that holds an entry is written again only with what it holds.
- *Config.* `CacheIsTrue`, that the cache of disk.c names the partition the drive is
  on, is needed only while a program runs. `ReportedIsThere` connects what the operator
  was told with the partition that drives start on.
- *Overlays.* `ZoneInv` says when the waiting screen is in the zone: `wfcLoaded` is set, no
  overlay was left to come back to, and the caller is not on the way through the menus.
  `wfcLoaded` alone does not say that the waiting screen is there, the way through the menus
  is part of it. While a load that failed has not been made good the invariant says less:
  only that the next load makes it good. `OnePartition` is needed: on other boards the run `overlays`
  finds the violation.

`FullNamesAreSent` is about the property that the run downloads shows violated: if all
names fill their 15 characters and no transfer fails, a download never finds its file
gone. The invariant (`Stored`) is that every entry has a file of its name on the drive.
So the blanks are the only cause of that finding.

`PartsAreThemselves` shows that a behaviour of `Services` is one of each part, so
that the theorems of the modules hold of the whole. `PromisesAreKept` states sixteen
properties of all seven parts so, where accounts can be loaded and scanned, pointers loaded,
and everything stands on one partition; overlays that do not load, boards and records of the
day that cannot be read, and writes that fail are included.

`ServicesAreTyped` is the type invariant of the whole, under every set of faults. Most
of it is in `AccountsAreTyped` and `TablesProofs`; for the other five the ranges are not
inductive as they stand, because no guard of the code keeps them:

| Part | What has to be added |
|---|---|
| Reader | `Fits`: lists grow only while all boards together hold fewer than `MaxMsgs` messages, counted as one finite set |
| Files | `AreaCounts`, `FileContents`: the area in memory counts what its record on the disk counts, and neither more than there were uploads |
| Usage | `MinutesPassed`: minutes charged, and those of the visit on line with them, are no more than have passed; `VisitTyped`: when a visit has a start |
| Config | `OperatorTyped`, `Landings`: what was reported saved and where operations may land are devices and partitions that there are |
| Overlays | `StackTyped`: only a Zmodem transfer or a door is called from another overlay, so that returns are two deep at most; `MenusTyped`: whoever is in a submenu or an overlay is logged in and has not yet typed the unknown keys that end the call |

`TransfersProofs`, of `Transfers` as a whole. Of Zmodem, `CompleteFilesEnd` holds for any number of faults of every kind: `EndInv`
follows the one frame that ends a file, which no damage can make of another, from the
terminal to the disk. `CleanTransfersAreWhole` holds for any file, also with new starts that the
terminal asks for, until the first fault. Its invariant describes the line. To the terminal
there is one run of subpackets, without a gap, from the one it waits for to the last
sent, and ZFIN comes after it (`SendsWhole`); to the board, the file's frames in order,
of which what is stored and what is under way make up the whole (`ReceivesWhole`). The
states before the first subpacket (`Offering`, `Inquiry`, `Granted`) are needed because a
terminal's frames may cross the board's invitations.

`StoredChunksAreInOrder` and `SuccessIsWarranted` hold of a Punter transfer of a file of
any size, with any number of tries and of faults. `punter_recv` looks at a block's number
only to see whether it is the last, and the words for "arrived" are the same for all
blocks: nothing in a block tells a repeated one from the next. So the invariant (`PunterInv`) says which places both ends may be at, and in which order
words may stand on the line:

| Part | Says |
|---|---|
| `Prepared` | the block the sender holds, and the chunk it has read ahead |
| `Outgoing` | no block beyond the sender's is under way, and that one only as it is |
| `Incoming` | behind an ACK there is no block but the one awaited, and none of it before an ACK: a repeated block is not read as the next |
| `Lockstep` | the receiver is at the sender's block and no GOO is under way (`InStep`), or one ahead with one GOO and no ACK (`Replied`) |
| `Opening`, `Parting` | the same for the words of the two phases without data, where each is said twice |

Of the line only which items stand on it and which before which is used (`Items`,
`Pairs`): `Grows` and `Follows` say what a fault, a read or something sent does to that,
and the number of bytes a read takes never matters. `Reading`, `MangledIsLess` and
`GrowsByOne` prove it of the operators of the model; each step of either end is then one
lemma about the order alone.

`TransfersAreTyped` bounds both protocols at once, for every size and any number of
faults. The length that `punter_recv` waits for is the one the block before announced; `OfFile` says that every block on the line and the one the
sender holds name a chunk of the file and announce no more than a block can have, and
that a sender who has not come to the last block has a chunk to read ahead.

**Only model-checked**, and why: liveness, which needs fairness and ENABLED, for which
there is no proof rule here (`BoardComesBack`, `EachCallIsTaken`, `IdleCallersAreDropped`,
`TransfersEnd`).

## 9. Known limits of the code

The runs of kind *violation* show six of them. The models reproduce more, each
with a constant changed:

- `MsgBase`, crash between the body's bytes and its record: bytes that no record
  names shift the body of every later post (`Faults = {"crash"}`,
  `EveryPostReadsBack`). The end of a text wraps at 64 KB (small `Word`). A failed
  load leaves another board's records in bank 0 (`"load"`, `BankMirrorsIndex`). A
  failed scan is taken for an empty board, whose text is then replaced (`"scan"`).
- `NetLine`: on the Ultimate a caller who was hung up on is connected a second time if the
  board polls before DSR falls (run `loop_kicked`). At the end of a session the same happens
  between `End` and `Settle`: the main loop then begins a new session for the old caller, until the
  modem has hung up. A ring filled past its end gives its bytes out of order
  (`"overflow"`, `PayloadInOrder`). Bytes lost in the ACIA may be those of a result code
  (`"overrun"`, `PayloadIsOfServedCall`).
- `CallLoop`, the editor's ABORT? prompt (src/features/editor.c:114) does not look
  at the carrier: `BoardComesBack` fails with `Confirms = TRUE`. The daily limit is
  checked in `sess_getc` only (src/session/session.c:630); a caller who stays in the
  menus stays on line.
- `Reader`: when the board's record cannot be read, the caller is left with the board and the
  message of the last visit, which K, * and R act on though he never saw it
  (src/features/bulletin.c:247, 614). `CurrentWasShown` excepts just this. ENTER on a message deleted meanwhile neither moves on nor leaves
  (src/features/bulletin.c:535). Pointers that cannot be loaded count as zeros and
  are written back on leaving (`"load"`, `MarkIsHighestRead`).
- `Accounts`: CONFIGURE keeps the record it picked, so that saving account or
  profile (src-editor/admin/users.c:446, 547) after a password reset (575) writes
  the old password back. A board whose first record cannot be read at boot
  scratches the whole user file (src/main.c:235), which its comment takes for an
  empty one. A load of the REU copy that stops early is used (`"load"`), a scan that
  stops early yields a number that is taken (`"read"`). A handle that begins with a
  space can be registered; the account it makes counts as deleted.
- `Overlays` with `ShowsAtLogin = TRUE`: a door run at login that shows a file to a
  local caller has the session panel drawn by the door's bytes
  (src/features/doors.c:247-253 leaves `wfc.ovl_wfc_loaded` set). With other
  `Placements`, OVL_FILES after a Zmodem transfer and OVL_DOORS after a door are
  looked for on the partition that transfer or door used.

What follows is in the models but breaks no property, or concerns detail they
leave out:

- *Transfers.* A Punter block that arrives damaged is sent again at once while the
  receiver waits for a new ACK, so that between this file's own halves a repeat never
  succeeds; both ends then report an error. `zmodem_recv` stores what follows a
  damaged subpacket, so that a file reported complete can have holes or
  repetitions; only its end is sure. It reports success when ZFIN comes before any
  ZFILE (src/net/zmodem.c:404). `zmodem_send` reports success whatever the receiver
  answers to ZEOF, and counts a file that was skipped as downloaded; the comment at
  src/net/zmodem.c:332 says that ZRPOS aborts. A failed upload has already replaced
  a file of that name.
- *Files.* A refused or unknown area leaves another area's record in memory while
  the old one stays selected. Errors of entry and area writes are ignored. File
  numbers above 255 wrap. The flag `U` of README.md:499 is not checked by `fl_upload`.
- *Tables.* Numbers of deleted boards, areas and polls never come back: after 20
  creations no board can be created. A deleted door hides those behind it.
- *Overlays.* No load is asked whether it worked (src/features/sysop.c:103,
  src/features/menu_actions.c:68, 159, 177, src/features/doors.c:145, 249,
  src/features/xfer.c:28, 35): one disk error there and the board runs whatever stands in the zone.
  `CodeIsInTheZone` excepts just this, by `broken`.
- *Usage.* A record of the day that cannot be read loses the minutes used before it, and
  lifts the limit for the visit. `wfc.date` does not advance while the board runs, so that days are only
  told apart by restarts; visits are cut to whole minutes, elapsed time is modulo 24
  hours and ends at 65535 seconds; CALLS/DAY is not enforced; counters are lost if
  the power goes between scratch and write (src/data/syscnt.c:60).
- *Config.* With partition 0 a save goes to whatever partition the drive is on. A
  power loss between scratch and write loses CONFIG. BBS_ID, NEW_USER_CREDITS and
  CALL_TIME_LIMIT are never written; after a change of the system device CONFIG is
  on the new one while the next start reads the old. Errors of writing ACCESS are
  ignored. A drive switched off and on while a program runs is not noticed by the
  cache (such a step is not in the model). README.md:204 says of the init command
  that it is sent at startup; it is sent before every operation.
- *Doors.* Login doors run in slot order, not in `login_order` (src/features/doors.c:231,
  and the comment at 243).
- *Modem.* `net_disconnect` flushes a CONNECT that arrives while it waits
  (src/platform/cbmdos/net.c:443); bytes are lost while interrupts are masked for disk
  work (94).

## 10. What the models do not reach

Some hazards of the code are in the models while no property speaks of them, or are met
only with a constant changed, since the code promises nothing there: faults and the wrap of
the text in the message base (the sound run has none), overflow of the receive ring, the
ABORT? prompt, doors behind a deleted one, entries of a file area that failed to be
written or found no room, a resend after ZEOF, a record of the day that cannot be read, an overlay that
does not load. PROJECT.json says so at each (`note`), and section 9 says what happens.

Liveness is checked by TLC on the instances above and not proved, since the
proof system has no rule for fairness or ENABLED; nor are facts that need
induction over data (what a fold or a recursive function computes): the number
of bytes on Punter's line, the count of all messages of the reader.

Not modelled, with reasons in PROJECT.json under `components`: drawing, text tables
and the spy screens; the telnet filter; the editor's buffer; hardware clocks;
placeholders (chat, mail, votes cast); development tools; doors themselves. A second
file in one Zmodem batch is not modelled, nor are a drive's loss of power under a
running program and the parts of different services that could only meet through a
file one of them does not know.
