------------------------------ MODULE LpcTimer ------------------------------
(***************************************************************************)
(* One timer of the LPC17xx and the functions of lpc17xx_timer.c that the  *)
(* drivers use, each a function of the timer's registers.  The counter     *)
(* runs beside the program; where it wraps is far beyond what matters.     *)
(***************************************************************************)
EXTENDS LpcClock, FiniteSets

VARIABLES
  tim,    \* LPC_TIM_TypeDef
  nvic    \* the timer's interrupt: enabled, pending

timerVars == <<tim, nvic>>

Channels == 0 .. 3

TimerInit ==
  /\ tim = [enabled |-> FALSE, TC |-> 0, PR |-> 0, MR |-> [c \in Channels |-> 0],
            MCR |-> [c \in Channels |-> {}], EMR |-> [c \in Channels |-> 0],
            mode |-> 0, IR |-> {}]
  /\ nvic = [enabled |-> FALSE, pending |-> FALSE]

(* Of each of the four timers, its bit of PCONP and its divider.           *)
PowerOf == <<1, 2, 22, 23>>
ClockOf == <<2, 4, 44, 46>>

getPClock(n) == CLKPWR_GetPCLK(ClockOf[n + 1])

(* In 64 bits, so that nothing is lost before the division.                *)
converUSecToVal(n, usec) == (getPClock(n) * 64 * usec) \div 1000000

(* TIM_Init() in timer mode: power, divider, count from 0.  It clears CCR, *)
(* not CTCR, which it never writes; both are as after reset.               *)
TimerPower(s, n) ==
  CLKPWR_SetPCLKDiv(CLKPWR_ConfigPPWR(s, PowerOf[n + 1], TRUE), ClockOf[n + 1], 0)

TIM_Init(t, n, usec) ==
  [t EXCEPT !.mode = 0, !.TC = 0, !.PR = converUSecToVal(n, usec) - 1, !.IR = {}]

TIM_Cmd(t, on) == [t EXCEPT !.enabled = on]

(* All flags are written back, so all are cleared.                         *)
TIM_ClearIntPending(t) == [t EXCEPT !.IR = {}]

TIM_ConfigMatch(t, m) ==
  [t EXCEPT !.MR[m.channel] = m.value, !.MCR[m.channel] = m.on, !.EMR[m.channel] = m.output]

-----------------------------------------------------------------------------
(* The hardware: the counter reaches its next value and is compared; at a  *)
(* match it starts again with the next count.                              *)
Matches(t) == {c \in Channels : t.MCR[c] # {} /\ t.MR[c] = t.TC}

Counted(t) ==
  LET resets == \E c \in Matches(t) : "reset" \in t.MCR[c]
      next   == [t EXCEPT !.TC = IF resets THEN 0 ELSE @ + 1]
      hit    == {c \in Matches(next) : "int" \in t.MCR[c]}
  IN  [next EXCEPT !.IR = @ \cup hit,
                   !.enabled = ~\E c \in Matches(next) : "stop" \in t.MCR[c]]

(* The bound of the counter, above every match value.                      *)
TopCount == 4

Counts ==
  /\ tim.enabled /\ tim.TC < TopCount
  /\ PowerOf[1] \in sc.power
  /\ tim' = Counted(tim)
  /\ nvic' = [nvic EXCEPT !.pending = @ \/ Counted(tim).IR # tim.IR]
  /\ UNCHANGED clockVars
=============================================================================
