---------------------------- MODULE MCPartsRules ----------------------------
(***************************************************************************)
(* The parts used as their code needs it, which TLC evaluates: one task    *)
(* creates and deletes partitions, less urgent than those that use them,   *)
(* one task draws at a time, and a touch that a calibration detects lasts  *)
(* until its first reading.                                                *)
(***************************************************************************)
EXTENDS MCParts

ASSUME OneCreator /\ GettersFirst /\ OneDrawer /\ PenStays
=============================================================================
