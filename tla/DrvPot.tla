------------------------------- MODULE DrvPot -------------------------------
(***************************************************************************)
(* The potentiometer (drv_pot.c): a call of drv_pot_getValue() starts a    *)
(* conversion, enables the converter's interrupt and waits for a flag of   *)
(* the kernel, which the interrupt sets when it has stored the value.  One *)
(* task uses the driver.  The kernel's flags are what flag.c makes of      *)
(* them: with automatic reset a wait that is satisfied clears the flag.    *)
(***************************************************************************)
EXTENDS LpcAdc

CONSTANT MaxPotFlags   \* flags of the kernel that are free, 32 in the code

ASSUME PotAssumption == MaxPotFlags \in Nat \ {0}

VARIABLES
  pot,      \* the call in progress, adcValue, adcDoneFlag, the interrupt
  potFlags, \* the kernel's flags that this driver has created, never deleted
  got       \* what the last call returned

potVars == <<adc, pot, potFlags, got>>

PotInit ==
  /\ AdcInit
  /\ pot = [at |-> "closed", adcValue |-> "stale", adcDoneFlag |-> 0,
            enabled |-> FALSE, pending |-> FALSE]
  /\ potFlags = <<>>
  /\ got = "none"

(* CoCreateFlag(TRUE, FALSE).  Mutant: the arguments are swapped.          *)
DoneFlagSwapped == [auto |-> FALSE, set |-> TRUE]

DoneFlag == [auto |-> TRUE, set |-> FALSE]

drv_pot_open ==
  /\ Done /\ pot.at = "closed"
  /\ sc' = CLKPWR_ConfigPPWR(sc, PCAD, TRUE)
  /\ adc' = ADC_ChannelCmd(ADC_IntConfig(ADC_Init(adc, 200000), 5), 5)
  /\ \/ /\ Len(potFlags) < MaxPotFlags
        /\ potFlags' = Append(potFlags, DoneFlag)
        /\ pot' = [pot EXCEPT !.at = "open", !.adcDoneFlag = Len(potFlags) + 1]
     \/ /\ Len(potFlags) = MaxPotFlags      \* E_CREATE_FAIL: mdw_log_error() stops
        /\ pot' = [pot EXCEPT !.at = "stopped"]
        /\ UNCHANGED potFlags
  /\ UNCHANGED <<got, core, step>>

drv_pot_close ==
  /\ pot.at = "open"
  /\ sc' = CLKPWR_ConfigPPWR(sc, PCAD, FALSE)
  /\ adc' = ADC_PowerdownCmd(ADC_DeInit(adc))
  /\ pot' = [pot EXCEPT !.at = "closed"]
  /\ UNCHANGED <<potFlags, got, core, step>>

-----------------------------------------------------------------------------
drv_pot_getValue ==
  /\ pot.at = "open"
  /\ adc' = ADC_StartCmd(adc)
  /\ pot' = [pot EXCEPT !.at = "started", !.adcValue = "stale"]
  /\ UNCHANGED <<potFlags, got, clockVars>>

EnablesIrq ==
  /\ pot.at = "started"
  /\ pot' = [pot EXCEPT !.at = "wait", !.enabled = TRUE]
  /\ UNCHANGED <<adc, potFlags, got, clockVars>>

(* CoWaitForSingleFlag() without a timeout.                                *)
WaitTaken ==
  /\ pot.at = "wait"
  /\ potFlags[pot.adcDoneFlag].set
  /\ potFlags' = [potFlags EXCEPT ![pot.adcDoneFlag].set = ~potFlags[pot.adcDoneFlag].auto]
  /\ pot' = [pot EXCEPT !.at = "open"]
  /\ got' = pot.adcValue
  /\ UNCHANGED <<adc, clockVars>>

-----------------------------------------------------------------------------
Converts ==
  /\ Converting
  /\ adc' = AfterConversion
  /\ pot' = [pot EXCEPT !.pending = @ \/ 5 \in adc.inten]
  /\ UNCHANGED <<potFlags, got, clockVars>>

ADC_IRQHandler ==
  LET read == ADC_ChannelGetStatus(adc)
  IN  /\ pot.enabled /\ pot.pending
      /\ adc' = read.after
      /\ pot' = IF read.status
                  THEN [pot EXCEPT !.pending = FALSE, !.enabled = FALSE,
                                   !.adcValue = ADC_ChannelGetData(read.after)]
                  ELSE [pot EXCEPT !.pending = FALSE]
      /\ potFlags' = IF read.status
                       THEN [potFlags EXCEPT ![pot.adcDoneFlag].set = TRUE] ELSE potFlags
      /\ UNCHANGED <<got, clockVars>>

PotNext ==
  \/ drv_pot_open \/ drv_pot_close
  \/ drv_pot_getValue \/ EnablesIrq \/ WaitTaken
  \/ Converts \/ ADC_IRQHandler

-----------------------------------------------------------------------------
(* A call returns the value of the conversion that it started, never that  *)
(* of an earlier call, and it does not sleep without a conversion or an    *)
(* interrupt that will wake it.                                            *)
PotFresh ==
  /\ got \in {"none", "fresh"}
  /\ pot.at = "wait" =>
       Converting \/ (pot.pending /\ pot.enabled) \/ potFlags[pot.adcDoneFlag].set

(* "the A/D converter [clock] should be less than or equal to 13MHz"       *)
(* (comment in ADC_Init()).                                                *)
AdcClockInRange == adc.operational => AdcRate <= AdcMaxRate
=============================================================================
