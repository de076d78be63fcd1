------------------------------- MODULE Services -------------------------------
(***************************************************************************)
(* The parts of the board that a session or the SysOp uses one at a time:  *)
(* accounts, the message reader, the record files that CONFIGURE keeps,    *)
(* the file areas, the daily accounting, the configuration, and the        *)
(* overlays they run in.  The board is one thread and the parts share no   *)
(* state but the disk, each with files of its own, so that whatever they   *)
(* do together is, for every part, a behaviour of its own module: one of   *)
(* them is chosen, and the others stand still.                             *)
(***************************************************************************)
EXTENDS Accounts, Reader, Tables, Files, Usage, Config, Overlays

VARIABLE service

ServiceNames == {"accounts", "reader", "tables", "files", "usage", "config", "overlays"}

(* A part that stands still does so in one of its first states.            *)
Choose(S) == CHOOSE x \in S : TRUE
ServicesInit ==
  /\ service \in ServiceNames
  /\ AccountsInit /\ (service # "accounts" => cache = Choose(Leftovers))
  /\ TablesInit /\ (service # "tables" => kind = Choose(TableKinds))
  /\ OverlaysInit /\ (service # "overlays" => places = Choose(Placements))
  /\ ReaderInit /\ FilesInit /\ UsageInit /\ ConfigInit

ServicesNext ==
  \/ /\ service = "accounts" /\ AccountsNext
     /\ UNCHANGED <<service, readerVars, tableVars, fileVars, usageVars, configVars, overlayVars>>
  \/ /\ service = "reader" /\ ReaderNext
     /\ UNCHANGED <<service, accountVars, tableVars, fileVars, usageVars, configVars, overlayVars>>
  \/ /\ service = "tables" /\ TablesNext
     /\ UNCHANGED <<service, accountVars, readerVars, fileVars, usageVars, configVars, overlayVars>>
  \/ /\ service = "files" /\ FilesNext
     /\ UNCHANGED <<service, accountVars, readerVars, tableVars, usageVars, configVars, overlayVars>>
  \/ /\ service = "usage" /\ UsageNext
     /\ UNCHANGED <<service, accountVars, readerVars, tableVars, fileVars, configVars, overlayVars>>
  \/ /\ service = "config" /\ ConfigNext
     /\ UNCHANGED <<service, accountVars, readerVars, tableVars, fileVars, usageVars, overlayVars>>
  \/ /\ service = "overlays" /\ OverlaysNext
     /\ UNCHANGED <<service, accountVars, readerVars, tableVars, fileVars, usageVars, configVars>>

ServicesSpec ==
  ServicesInit /\ [][ServicesNext]_<<service, accountVars, readerVars, tableVars, fileVars, usageVars, configVars, overlayVars>>

(* The states of every part are of their types.                            *)
ServicesTypeOK ==
  /\ service \in ServiceNames
  /\ AccountsTypeOK /\ ReaderTypeOK /\ TablesTypeOK /\ FilesTypeOK
  /\ UsageTypeOK /\ ConfigTypeOK /\ OverlaysTypeOK

=============================================================================
