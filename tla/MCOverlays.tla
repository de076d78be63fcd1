------------------------------ MODULE MCOverlays ------------------------------
(* Overlays on a board as README.md sets it up with partitions: the system on *)
(* partition 1 of a device, the message boards on partition 2 of the same.    *)
EXTENDS Overlays

BoardsOnAPartition ==
  {[overlays |-> 1, system |-> 1, msgs |-> 2, files |-> 0, doors |-> 0]}

=============================================================================
