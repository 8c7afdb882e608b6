------------------------------- MODULE DrvLed -------------------------------
(***************************************************************************)
(* The eight LEDs (drv_led.c) and their use by main_task (main.c): a task  *)
(* of its own shows one running light during the start-up, is deleted, and *)
(* is created again to show a growing bar.  The two tasks have the same    *)
(* priority and a third one never waits, so led_task can be preempted, or  *)
(* deleted, between any two of its steps, and time is left out: a delay    *)
(* ends at any later time.                                                 *)
(***************************************************************************)
EXTENDS Integers

CONSTANT PotValues     \* what drv_pot_getValue() returns

ASSUME LedAssumption == PotValues \subseteq Nat

Lights == 0 .. 7

VARIABLES
  led,      \* runningConf, the LEDs lit, and led_task: its place and its iter
  mainAt    \* where main_task is

ledVars == <<led, mainAt>>

(* settled: the task has shown a figure since it was created.              *)
LedTypeOK ==
  /\ led \in [ mode : {"OneWave", "Wave"}, delay : Nat, lit : SUBSET Lights, iter : Nat,
               at : {"none", "clear", "set", "next", "wrap", "wait"}, settled : BOOLEAN ]
  /\ mainAt \in {"startup", "startupRuns", "stopped", "speed"}

LedInit ==
  /\ led = [mode |-> "OneWave", delay |-> 0, lit |-> {}, iter |-> 1, at |-> "none",
            settled |-> FALSE]
  /\ mainAt = "startup"

-----------------------------------------------------------------------------
(* main_task.  ledTask is 0 whenever drv_led_start() is called; iter is    *)
(* static, and outlives the task.                                          *)
drv_led_start(mode, delay) ==
  led' = [led EXCEPT !.mode = mode, !.delay = delay, !.at = "clear", !.settled = FALSE]

StartsUp ==
  /\ mainAt = "startup"
  /\ drv_led_start("OneWave", 50)
  /\ mainAt' = "startupRuns"

(* After 400 ms. *)
drv_led_stop ==
  /\ mainAt = "startupRuns"
  /\ led' = [led EXCEPT !.at = "none"]
  /\ mainAt' = "stopped"

StartsWave ==
  /\ mainAt = "stopped"
  /\ drv_led_start("Wave", 500)
  /\ mainAt' = "speed"

drv_led_speed ==
  /\ mainAt = "speed"
  /\ \E v \in PotValues : led' = [led EXCEPT !.delay = IF v < 50 THEN 50 ELSE v]
  /\ UNCHANGED mainAt

-----------------------------------------------------------------------------
(* led_task. *)
drv_led_clear ==
  /\ led.at = "clear"
  /\ led' = [led EXCEPT !.lit = {}, !.at = "set"]
  /\ UNCHANGED mainAt

(* The LEDs of a value, of which a uint8_t keeps eight bits.               *)
Bits(n) == {i \in Lights : (n \div 2 ^ i) % 2 = 1}

(* What drv_led_set() can be given: pow(2, iter) - 1 is a double, and to   *)
(* make a uint8_t of one above 255 is undefined.                           *)
Figures ==
  CASE led.mode = "OneWave" -> {Bits(led.iter)}
    [] led.mode = "Wave" /\ led.iter <= 8 -> {Bits(2 ^ led.iter - 1)}
    [] OTHER -> SUBSET Lights

drv_led_set ==
  /\ led.at = "set"
  /\ \E on \in Figures : led' = [led EXCEPT !.lit = @ \cup on, !.at = "next"]
  /\ UNCHANGED mainAt

Advance ==
  /\ led.at = "next"
  /\ led' = [led EXCEPT !.iter = IF led.mode = "OneWave" THEN 2 * @ ELSE @ + 1, !.at = "wrap"]
  /\ UNCHANGED mainAt

(* Mutant: the running light leaves the row before it starts again.        *)
LastBeyond(mode) == IF mode = "OneWave" THEN 256 ELSE 8

Last(mode) == IF mode = "OneWave" THEN 128 ELSE 8

Wrap ==
  /\ led.at = "wrap"
  /\ led' = [led EXCEPT !.iter = IF @ > Last(led.mode) THEN 1 ELSE @, !.at = "wait"]
  /\ UNCHANGED mainAt

DelayEnds ==
  /\ led.at = "wait"
  /\ led' = [led EXCEPT !.at = "clear", !.settled = TRUE]
  /\ UNCHANGED mainAt

LedNext ==
  \/ StartsUp \/ drv_led_stop \/ StartsWave \/ drv_led_speed
  \/ drv_led_clear \/ drv_led_set \/ Advance \/ Wrap \/ DelayEnds

-----------------------------------------------------------------------------
(* Between two steps of led_task the row shows one light during start-up,  *)
(* and then a bar that begins at the first LED, but for the first figure   *)
(* of a new task: whatever place of the running light, or of the change of *)
(* iter, the old task was deleted at, one turn brings iter back into its   *)
(* range.                                                                  *)
LightsRight ==
  led.at = "wait" =>
    CASE led.mode = "OneWave" -> \E i \in Lights : led.lit = {i}
      [] led.mode = "Wave" /\ led.settled -> \E i \in Lights : led.lit = 0 .. i
      [] OTHER -> TRUE
=============================================================================
