------------------------------- MODULE CoDemo -------------------------------
(***************************************************************************)
(* The demo application (main.c and its drivers) as a user of the kernel:  *)
(* the tasks that run once main_task() has started the others, what they   *)
(* call in their loops, and the one device handler that posts.  They all   *)
(* have the highest priority, and log_touch_task() calls nothing.          *)
(***************************************************************************)
EXTENDS CoSystem

mainTask     == 1
logTouchTask == 2
ledTask      == 3

(* The flag of drv_pot_open(), which is reset automatically.               *)
adcDoneFlag == 0

DemoTasks == [tasks |-> 3, prio |-> [t \in Task |-> IF t = Idle THEN LowestPrio ELSE 0]]

(* drv_pot_getValue() waits for the conversion, with no timeout.           *)
drv_pot_getValue == {<<mainTask, {adcDoneFlag}, "one", 0>>}

(* ADC_IRQHandler() sets the flag. *)
ADC_IRQHandler == {<<"flag", adcDoneFlag, NoMail>>}

(* led_task() moves the lights and delays; the delays, in ticks.           *)
led_task(delays) == {<<ledTask, ticks>> : ticks \in delays}

DemoSetup ==
  [tasks |-> DemoTasks.tasks, prio |-> DemoTasks.prio, events |-> <<>>, timers |-> <<>>,
   flags |-> {adcDoneFlag}, auto |-> {adcDoneFlag}, locks |-> {}, counted |-> {}]

DemoCalls(delays) ==
  [op \in Services |-> CASE op = "waitFlags" -> drv_pot_getValue
                         [] op = "isr"       -> ADC_IRQHandler
                         [] op = "delay"     -> led_task(delays)
                         [] OTHER            -> {}]
=============================================================================
