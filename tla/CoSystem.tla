------------------------------ MODULE CoSystem ------------------------------
(***************************************************************************)
(* The services of CooCox CoOS together: what a task, the tick and devices *)
(* can do next.                                                            *)
(***************************************************************************)
EXTENDS CoEcb

(* What a call does once it is made. *)
Finish(t) ==
  \/ Unlock(t) \/ DelayFinish(t)
  \/ EventFinish(t) \/ SemFinish(t) \/ FlagFinish(t) \/ TimerFinish(t) \/ EcbFinish(t)

Call(t) ==
  \/ DelayCall(t) \/ SemCall(t) \/ MailCall(t)
  \/ FlagCall(t) \/ TimerCall(t) \/ EcbCall(t)

Next ==
  \/ \E t \in Task : Finish(t) \/ Call(t)
  \/ Exception

(* As in CoSched: the timer never stops, exceptions are taken and kernel   *)
(* sections end, and so does the loop of RespondSRQ() if it finds the      *)
(* queue empty ever again.  Nothing obliges a task to call or a device to  *)
(* interrupt.                                                              *)
Fairness ==
  /\ WF_vars(PendSV)
  /\ SF_vars(SysTick_Handler)
  /\ WF_vars(Unlock(Tmr))
  /\ \A t \in Task : SF_vars(Finish(t))
  /\ SF_vars(\E c \in Context : RespondDone(c))

Spec == Init /\ [][Next]_vars

FairSpec == Spec /\ Fairness
=============================================================================
