------------------------------ MODULE MCCallLoop ------------------------------
(* The call loop with two callers, a ring of two bytes and counters that wrap *)
(* after twice that.                                                          *)
EXTENDS CallLoop

===============================================================================
