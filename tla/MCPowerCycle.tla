---------------------------- MODULE MCPowerCycle ----------------------------
(* The two sides of a power cycle: the programs, and the files they leave.  *)
(* The steps of one do not depend on the other, so a behaviour follows one. *)
EXTENDS PowerCycle, Flash

VARIABLE side

Sides == side \in {"programs", "files"} /\ CycleInit /\ FlashInit
SidesNext ==
  /\ \/ side = "programs" /\ CycleNext /\ UNCHANGED flashVars
     \/ side = "files" /\ FlashNext /\ UNCHANGED cycleVars
  /\ UNCHANGED side

SidesSpec == Sides /\ [][SidesNext]_<<side, cycleVars, flashVars>> /\ CycleFairness
=============================================================================
