------------------------------- MODULE MCFiles -------------------------------
(* Files with one area and nothing that fails.                               *)
EXTENDS Files

OneArea == <<[access |-> 1, upload |-> 1]>>

=============================================================================
