------------------------------ MODULE MCServices ------------------------------
(* Services with small instances of its parts.                                 *)
EXTENDS Services

(* Handles that share their first word, which decides, and an empty one.       *)
SomeHandles == {Blank, <<"SYSOP", "">>, <<"SYSOP", "LEE">>, <<"ANN", "">>}

(* An area that every caller may use, and one that fewer may.                  *)
SomeAreas == <<[access |-> 1, upload |-> 1], [access |-> 2, upload |-> 2]>>

(* <<device, partition, init command>>: the system on partition 1 of either    *)
(* device; the messages on another partition, or where a command leads.        *)
SomeSystems == {<<8, 1, 0>>, <<9, 1, 0>>}
SomeMsgs == {<<8, 2, 0>>, <<8, 0, 2>>}

(* One partition for all that stands on the system device.                     *)
SomePlacements ==
  {[overlays |-> 1, system |-> 0, msgs |-> 0, files |-> 0, doors |-> 0],
   [overlays |-> 1, system |-> 1, msgs |-> 0, files |-> 1, doors |-> 1]}

===============================================================================
