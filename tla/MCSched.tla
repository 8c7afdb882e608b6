------------------------------- MODULE MCSched -------------------------------
(***************************************************************************)
(* Model values of CoSched for TLC.  Task 1 is main_task, which creates    *)
(* and manages the others, as main.c does with the LED task.               *)
(***************************************************************************)
EXTENDS CoSched

(* The application of the safety run: task 1 suspends, awakes, deletes and *)
(* reprioritises task 2; task 3 suspends, reprioritises and exits itself   *)
(* and is awoken by task 2.                                                *)
OwnedSuspends == {<<1, 2>>, <<3, 3>>}
OwnedAwakes   == {<<1, 2>>, <<2, 3>>}
OwnedDeletes  == {<<1, 2>>, <<3, 3>>}
OwnedPrios    == {<<1, 2>>, <<3, 3>>}

(* The run about order: the same, but tasks 1 and 3 change their own       *)
(* priority only (SetsOwnPriority, which MCSchedOrder assumes).            *)
SelfPrios == {<<1, 1>>, <<3, 3>>}

(* The run without SetsOwnPriority: task 1 changes the priority of task 3, *)
(* which is ready, while task 2 awakes task 4.                             *)
OtherSuspends == {<<1, 1>>, <<2, 2>>}
OtherAwakes   == {<<2, 4>>}
OtherPrios    == {<<1, 3>>}

(* With three user TCBs the free list still runs empty: task 1 creates two *)
(* tasks, the second while the first may be running.                       *)
ASSUME SingleOwner
=============================================================================
