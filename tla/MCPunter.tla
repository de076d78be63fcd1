------------------------------- MODULE MCPunter -------------------------------
(* Punter with files of one, two and three blocks.                           *)
EXTENDS Punter

=============================================================================
