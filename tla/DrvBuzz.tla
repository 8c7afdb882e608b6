------------------------------ MODULE DrvBuzz ------------------------------
(***************************************************************************)
(* The buzzer (drv_buzz.c), on while P3.26 is low: switched by the         *)
(* application and by the user button's interrupt (drv_userInt.c, main.c), *)
(* toggled by the interrupt of timer 0 for a tone.  The application stops  *)
(* a tone before it starts the next one.                                   *)
(***************************************************************************)
EXTENDS LpcTimer

CONSTANT Delays   \* delay_us of the tones

ASSUME DelaysAssumption == Delays \subseteq Nat

VARIABLES
  buzz,    \* the call in progress, TmrCounter, irqNum, level of the pin
  since    \* timer interrupts of this tone since it began or the pin was toggled

buzzVars == <<buzz, since>>

BuzzInit ==
  /\ buzz = [at |-> "rest", TmrCounter |-> 0, irqNum |-> 0, high |-> TRUE]
  /\ since = 0

Steps(from, to) == Done /\ buzz.at = from /\ UNCHANGED <<core, step>>
                   /\ buzz' = [buzz EXCEPT !.at = to]

drv_buzz_on ==
  /\ Done /\ buzz.at \in {"rest", "tone"}
  /\ buzz' = [buzz EXCEPT !.high = FALSE]
  /\ UNCHANGED <<since, timerVars, clockVars>>

drv_buzz_off ==
  /\ Done /\ buzz.at \in {"rest", "tone"}
  /\ buzz' = [buzz EXCEPT !.high = TRUE]
  /\ UNCHANGED <<since, timerVars, clockVars>>

(* drv_buzz_generateStart(): the half period, the timer and its interrupt, *)
(* the start of the timer, the first edge.                                 *)
GenerateStart ==
  /\ Done /\ buzz.at = "rest"
  /\ \E delay_us \in Delays :
       buzz' = [buzz EXCEPT !.at = "set", !.TmrCounter = delay_us \div 2]
  /\ since' = 0
  /\ UNCHANGED <<timerVars, clockVars>>

Configured ==
  /\ Steps("set", "enable")
  /\ sc' = TimerPower(sc, 0)
  /\ tim' = TIM_ConfigMatch(TIM_Init(tim, 0, 1),
                            [channel |-> 0, value |-> 1, on |-> {"int", "reset"}, output |-> 0])
  /\ nvic' = [nvic EXCEPT !.enabled = TRUE]
  /\ UNCHANGED since

Started ==
  /\ Steps("enable", "edge")
  /\ tim' = TIM_Cmd(tim, TRUE)
  /\ UNCHANGED <<since, nvic, sc>>

FirstEdge ==
  /\ Done /\ buzz.at = "edge"
  /\ buzz' = [buzz EXCEPT !.at = "tone", !.high = FALSE]
  /\ UNCHANGED <<since, timerVars, clockVars>>

(* drv_buzz_generateStop(): the interrupt may still come after the pin is  *)
(* set, and leaves it low.                                                 *)
GenerateStop ==
  /\ Done /\ buzz.at = "tone"
  /\ buzz' = [buzz EXCEPT !.at = "disable", !.high = TRUE]
  /\ UNCHANGED <<since, timerVars, clockVars>>

Disabled ==
  /\ Steps("disable", "stop")
  /\ nvic' = [nvic EXCEPT !.enabled = FALSE]
  /\ UNCHANGED <<since, tim, sc>>

Stopped ==
  /\ Steps("stop", "rest")
  /\ tim' = TIM_Cmd(tim, FALSE)
  /\ UNCHANGED <<since, nvic, sc>>

-----------------------------------------------------------------------------
(* Mutant: the pin is toggled when the counts are equal.                   *)
ToneEdgeAtEqual == buzz.TmrCounter = buzz.irqNum

ToneEdge == buzz.TmrCounter < buzz.irqNum

TIMER0_IRQHandler ==
  /\ nvic.enabled /\ nvic.pending
  /\ nvic' = [nvic EXCEPT !.pending = FALSE]
  /\ tim' = TIM_ClearIntPending(tim)
  /\ buzz' = IF ToneEdge THEN [buzz EXCEPT !.high = ~@, !.irqNum = 0]
                         ELSE [buzz EXCEPT !.irqNum = @ + 1]
  /\ since' = IF ToneEdge THEN 0 ELSE since + 1
  /\ UNCHANGED clockVars

(* EINT0_IRQHandler() calls button_interrupt().  Both interrupts have the  *)
(* same priority: neither interrupts the other.                            *)
EINT0_IRQHandler ==
  /\ Done
  /\ buzz' = [buzz EXCEPT !.high = ~@]
  /\ UNCHANGED <<since, timerVars, clockVars>>

BuzzNext ==
  \/ drv_buzz_on \/ drv_buzz_off
  \/ GenerateStart \/ Configured \/ Started \/ FirstEdge
  \/ GenerateStop \/ Disabled \/ Stopped
  \/ TIMER0_IRQHandler \/ EINT0_IRQHandler
  \/ Counts /\ UNCHANGED buzzVars

-----------------------------------------------------------------------------
(* A tone does not die: while it is generated the timer is powered, has    *)
(* not missed its match, will interrupt at it, and after TmrCounter + 1    *)
(* interrupts the next one toggles the pin, whatever the tones before left *)
(* in the registers and in the handler's count.                            *)
ToneAlive ==
  /\ since <= buzz.TmrCounter + 1
  /\ buzz.at = "tone" =>
       /\ tim.enabled /\ nvic.enabled /\ PowerOf[1] \in sc.power
       /\ tim.TC <= tim.MR[0]
       /\ {"int", "reset"} \subseteq tim.MCR[0]
=============================================================================
