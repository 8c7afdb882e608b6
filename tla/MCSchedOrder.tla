---------------------------- MODULE MCSchedOrder ----------------------------
(***************************************************************************)
(* The applications of MCSched that keep to the rule on which the order of *)
(* the READY list rests.                                                   *)
(***************************************************************************)
EXTENDS MCSched

ASSUME SetsOwnPriority
=============================================================================
