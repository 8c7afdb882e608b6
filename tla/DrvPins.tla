------------------------------ MODULE DrvPins ------------------------------
(***************************************************************************)
(* What the drivers' load functions set up, each in its bits of registers  *)
(* that all of them share: pin functions and modes (lpc17xx_pinsel.c),     *)
(* port directions and levels, power and dividers.  A bank of two-bit      *)
(* fields is a function of the pin, a mask of a port a set of pins.        *)
(***************************************************************************)
EXTENDS LpcClock, FiniteSets

VARIABLES
  pins,    \* fun (PINSEL), mode (PINMODE), od (PINMODE_OD), out (FIODIR), high, edge
  loaded   \* the drivers that are loaded

pinVars == <<pins, loaded>>

Port(p, bits) == {p} \X bits

(* The fields of the registers that the drivers write.                     *)
Pins ==
  Port(0, {6, 7, 8, 9, 15, 16, 17, 18, 21}) \cup Port(1, {20, 21, 23, 24, 31})
  \cup Port(2, 0 .. 15) \cup Port(3, 16 .. 26) \cup {<<4, 28>>}

PinsInit ==
  /\ pins = [fun  |-> [p \in Pins |-> 0],
             mode |-> [p \in Pins |-> 0],
             od |-> {}, out |-> {}, high |-> {}, edge |-> {}]
  /\ loaded = {}

-----------------------------------------------------------------------------
(* lpc17xx_pinsel.c.                                                       *)
set_PinFunc(b, set, fun) == [b EXCEPT !.fun = [p \in Pins |-> IF p \in set THEN fun ELSE @[p]]]

set_ResistorMode(b, pin, mode) == [b EXCEPT !.mode[pin] = mode]

set_OpenDrainMode(b, pin, mode) ==
  [b EXCEPT !.od = IF mode = 1 THEN @ \cup {pin} ELSE @ \ {pin}]

PINSEL_ConfigPin(b, cfg) ==
  set_OpenDrainMode(
    set_ResistorMode(set_PinFunc(b, {cfg.pin}, cfg.fun), cfg.pin, cfg.mode), cfg.pin, cfg.od)

TriState == 2
PullDown == 3

(* Pins as outputs, at a level.                                            *)
Outputs(b, set, level) ==
  [b EXCEPT !.out = @ \cup set, !.high = IF level = 1 THEN @ \cup set ELSE @ \ set]

(* Bits of PINSEL that a driver only sets.                                 *)
OrFunc(b, set, fun) ==
  [b EXCEPT !.fun = [p \in Pins |->
     IF p \in set THEN CHOOSE f \in 0 .. 3 : \A i \in {0, 1} :
                         Field(f, i, 1) = 1 <=> Field(@[p], i, 1) = 1 \/ Field(fun, i, 1) = 1
                  ELSE @[p]]]

-----------------------------------------------------------------------------
Leds   == Port(2, 0 .. 7)
Buzzer == <<3, 26>>
Ssp1   == Port(0, 7 .. 9)
Ssp0   == Port(1, {20, 23, 24})
Spi    == Port(0, {15, 17, 18})

(* drv_led_load() *)
LedPins(b) == Outputs(set_PinFunc(b, Leds, 0), Leds, 0)

(* drv_buzz_load(): the mask is that of P3.16 to P3.23, P3.26 is GPIO only *)
(* because it is so after reset.                                           *)
BuzzPins(b) == Outputs(set_PinFunc(b, Port(3, 16 .. 23), 0), {Buzzer}, 1)

PotPins(b) == PINSEL_ConfigPin(b, [pin |-> <<1, 31>>, fun |-> 3, mode |-> TriState, od |-> 0])

UsrIntPins(b) ==
  [PINSEL_ConfigPin(b, [pin |-> <<2, 10>>, fun |-> 1, mode |-> PullDown, od |-> 0])
     EXCEPT !.edge = {0}]

LcdPins(b) ==
  LET light == Outputs(set_PinFunc(b, {<<4, 28>>}, 0), {<<4, 28>>}, 0)
      cs    == Outputs(set_PinFunc(light, {<<0, 6>>}, 0), {<<0, 6>>}, 1)
  IN  OrFunc(set_PinFunc(cs, Ssp1, 0), Ssp1, 2)

TcsPins(b) ==
  LET cs == Outputs(set_PinFunc(b, {<<1, 21>>}, 0), {<<1, 21>>}, 1)
      irq == [set_PinFunc(cs, {<<0, 21>>}, 0) EXCEPT !.out = @ \ {<<0, 21>>}]
  IN  OrFunc(irq, Ssp0, 3)

(* drv_sd_load() up to its first command: the select is P0.16, but it is   *)
(* bit 0 of the port that becomes an output and high.                      *)
SdPins(b) ==
  LET cs == Outputs(set_PinFunc(b, {<<0, 16>>}, 0), {<<0, 0>>}, 1)
  IN  [OrFunc(set_PinFunc(cs, Spi, 0), Spi, 3) EXCEPT !.high = @ \cup {<<0, 16>>}]

(* Power and divider of the serial interfaces.                             *)
OrDiv(s, type, div) ==
  [s EXCEPT !.div[type] = CHOOSE d \in 0 .. 3 : \A i \in {0, 1} :
     Field(d, i, 1) = 1 <=> Field(@, i, 1) = 1 \/ Field(div, i, 1) = 1]

LcdClock == OrDiv([sc EXCEPT !.power = @ \cup {10}], 20, 2)

TcsClock == OrDiv([sc EXCEPT !.power = @ \cup {21}, !.div[42] = 0], 42, 1)

SdClock == OrDiv([sc EXCEPT !.power = @ \cup {8}, !.div[16] = 0], 16, 2)

-----------------------------------------------------------------------------
Loads(driver, b, s) ==
  /\ Done
  /\ pins' = b /\ sc' = s
  /\ loaded' = loaded \cup {driver}
  /\ UNCHANGED <<core, step>>

Unloads(driver, b) ==
  /\ driver \in loaded
  /\ pins' = b
  /\ loaded' = loaded \ {driver}
  /\ UNCHANGED clockVars

drv_led_load     == Loads("led", LedPins(pins), sc)
drv_buzz_load    == Loads("buzz", BuzzPins(pins), sc)
drv_pot_load     == Loads("pot", PotPins(pins), sc)
drv_usr_int_load == Loads("usr_int", UsrIntPins(pins), sc)
drv_lcd_load     == Loads("lcd", LcdPins(pins), LcdClock)
drv_tcs_load     == Loads("tcs", TcsPins(pins), TcsClock)
drv_sd_load      == Loads("sd", SdPins(pins), SdClock)

drv_led_unload == Unloads("led", [pins EXCEPT !.out = @ \ Leds])

(* The direction that is cleared is that of P2.26.                         *)
drv_buzz_unload ==
  Unloads("buzz", [pins EXCEPT !.high = @ \cup {Buzzer}, !.out = @ \ {<<2, 26>>}])

PinsNext ==
  \/ drv_led_load \/ drv_buzz_load \/ drv_pot_load \/ drv_usr_int_load
  \/ drv_lcd_load \/ drv_tcs_load \/ drv_sd_load
  \/ drv_led_unload \/ drv_buzz_unload

-----------------------------------------------------------------------------
(* What each driver needs on the board, from the heads of the drivers:     *)
(* pins by function, outputs, inputs, powered blocks and dividers.         *)
Needs(driver) ==
  LET n == [fun |-> <<{}, {}, {}, {}>>, out |-> {}, in |-> {}, power |-> {}, div |-> {}]
  IN  CASE driver = "led"  -> [n EXCEPT !.fun[1] = Leds, !.out = Leds]
        [] driver = "buzz" -> [n EXCEPT !.fun[1] = {Buzzer}, !.out = {Buzzer}]
        [] driver = "pot"  -> [n EXCEPT !.fun[4] = {<<1, 31>>}]
        [] driver = "usr_int" -> [n EXCEPT !.fun[2] = {<<2, 10>>}]
        [] driver = "lcd"  -> [n EXCEPT !.fun[1] = {<<0, 6>>, <<4, 28>>}, !.fun[3] = Ssp1,
                                        !.out = {<<0, 6>>, <<4, 28>>},
                                        !.power = {10}, !.div = {<<20, 2>>}]
        [] driver = "tcs"  -> [n EXCEPT !.fun[1] = {<<1, 21>>, <<0, 21>>}, !.fun[4] = Ssp0,
                                        !.out = {<<1, 21>>}, !.in = {<<0, 21>>},
                                        !.power = {21}, !.div = {<<42, 1>>}]
        [] driver = "sd"   -> [n EXCEPT !.fun[1] = {<<0, 16>>}, !.fun[4] = Spi,
                                        !.power = {8}, !.div = {<<16, 2>>}]

(* In whatever order the drivers are loaded, loaded again and unloaded,    *)
(* no one disturbs what a loaded driver has set up.                        *)
SetupKept ==
  \A d \in loaded : LET n == Needs(d) IN
    /\ \A f \in 0 .. 3 : \A p \in n.fun[f + 1] : pins.fun[p] = f
    /\ n.out \subseteq pins.out
    /\ n.in \cap pins.out = {}
    /\ n.power \subseteq sc.power
    /\ \A td \in n.div : sc.div[td[1]] = td[2]
    /\ d = "pot" => pins.mode[<<1, 31>>] = TriState
    /\ d = "usr_int" => pins.mode[<<2, 10>>] = PullDown
=============================================================================
