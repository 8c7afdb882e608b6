------------------------------- MODULE LpcAdc -------------------------------
(***************************************************************************)
(* The converter of the LPC17xx and the functions of lpc17xx_adc.c that    *)
(* the potentiometer's driver uses, each a function of its registers.  Of  *)
(* a result matters which call of the driver it was converted for: the one *)
(* in progress ("fresh") or an earlier one ("stale").                      *)
(***************************************************************************)
EXTENDS LpcClock, FiniteSets

VARIABLE adc   \* ADCR, ADINTEN, and of channel 5 the result and its flags

AdcInit ==
  adc = [operational |-> FALSE, clkdiv |-> 0, start |-> 0, channels |-> {}, inten |-> {},
         busy |-> FALSE, done |-> FALSE, overrun |-> FALSE, result |-> "stale"]

PCAD   == 12
AdcClk == 24

(* Rates are in units of 64 Hz: 65 clocks a conversion.                    *)
Clocks(rate) == (rate * 65) \div 64

(* ADC_Init(): everything in ADCR is cleared, then the divider is set.     *)
ADC_Init(a, rate) ==
  [a EXCEPT !.operational = TRUE, !.start = 0, !.channels = {}, !.busy = FALSE,
            !.clkdiv = (CLKPWR_GetPCLK(AdcClk) \div Clocks(rate) - 1) % 256]

ADC_DeInit(a)       == [a EXCEPT !.operational = FALSE, !.busy = FALSE]
ADC_PowerdownCmd(a) == [a EXCEPT !.operational = FALSE]

ADC_IntConfig(a, channel)  == [a EXCEPT !.inten = @ \cup {channel}]
ADC_ChannelCmd(a, channel) == [a EXCEPT !.channels = @ \cup {channel}]

(* ADC_StartCmd(ADC_START_NOW): what was converted is from before.         *)
ADC_StartCmd(a) == [a EXCEPT !.start = 1, !.busy = TRUE, !.result = "stale"]

(* Reading the data register of a channel clears its flags.                *)
ADC_ChannelGetStatus(a) ==
  [status |-> a.done, after |-> [a EXCEPT !.done = FALSE, !.overrun = FALSE]]

ADC_ChannelGetData(a) == a.result

-----------------------------------------------------------------------------
(* The hardware converts if it is powered and a channel is selected.       *)
Converting == adc.busy /\ adc.operational /\ adc.channels # {} /\ PCAD \in sc.power

AfterConversion ==
  [adc EXCEPT !.busy = FALSE, !.done = TRUE, !.overrun = @ \/ adc.done, !.result = "fresh"]

(* What the converter's clock is, and the most it may be: 13 MHz.          *)
AdcRate == CLKPWR_GetPCLK(AdcClk) \div (adc.clkdiv + 1)
AdcMaxRate == 203125
=============================================================================
