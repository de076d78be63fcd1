------------------------------ MODULE MCTransfers ------------------------------
(* Transfers of files of one and of three blocks, and of up to three           *)
(* subpackets.                                                                 *)
EXTENDS Transfers

=============================================================================
