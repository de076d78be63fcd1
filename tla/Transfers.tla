------------------------------ MODULE Transfers ------------------------------
(***************************************************************************)
(* File transfers as src/features/files.c chooses them: by Punter or by    *)
(* Zmodem.  A transfer is of one of the two and blocks the board until it  *)
(* is over, so that either is a behaviour of its own module.               *)
(***************************************************************************)
EXTENDS Punter, Zmodem

VARIABLE protocol

transferVars == <<protocol, vars, zVars>>

(* The transfer that does not take place, in any one of its first states.  *)
NoPunter == Init /\ size = CHOOSE n \in FileSizes : TRUE
NoZmodem ==
  /\ ZInit
  /\ role = CHOOSE r \in Roles : TRUE
  /\ fileLen = CHOOSE n \in FileChunks : TRUE

TransfersInit ==
  \/ protocol = "punter" /\ Init /\ NoZmodem
  \/ protocol = "zmodem" /\ ZInit /\ NoPunter

ByPunter(A) == protocol = "punter" /\ A /\ UNCHANGED <<protocol, zVars>>
ByZmodem(A) == protocol = "zmodem" /\ A /\ UNCHANGED <<protocol, vars>>

TransfersNext == ByPunter(Next) \/ ByZmodem(ZNext)

(* Both ends are programs that run on, and their timers run                *)
(* out.                                                                    *)
OneEnd == ByPunter(SendStart \/ SendHears \/ SendTimesOut)
OtherEnd == ByPunter(RecvStart \/ RecvHears \/ RecvTimesOut)
BoardEnd == ByZmodem(ZStart \/ Stream \/ ZHears \/ ZTimesOut)
TerminalEnd == ByZmodem(TermHears \/ TermStreams)
TransfersFairness ==
  WF_transferVars(OneEnd \/ BoardEnd) /\ WF_transferVars(OtherEnd \/ TerminalEnd)

TransfersSpec == TransfersInit /\ [][TransfersNext]_transferVars /\ TransfersFairness

-----------------------------------------------------------------------------
(* Properties                                                              *)

TransfersTypeOK == protocol \in {"punter", "zmodem"} /\ TypeOK /\ ZTypeOK

(* A transfer ends at the board's end, and by Punter at both ends, however *)
(* much is lost, damaged or late: nobody waits for ever for a caller who   *)
(* is gone.                                                                *)
TransfersEnd ==
  <>[](IF protocol = "punter" THEN sAt \in Ended /\ rAt \in Ended ELSE zAt \in ZEnded)

=============================================================================
