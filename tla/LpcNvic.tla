------------------------------ MODULE LpcNvic ------------------------------
(***************************************************************************)
(* The exceptions of the processor: the vector table (startup_LPC17xx.c),  *)
(* the interrupt numbers (LPC17xx.h), the NVIC functions (core_cm3.h), the *)
(* priorities that CoInitOS() and the drivers set, and which handler       *)
(* interrupts which.  What the handlers do is in the modules of the kernel *)
(* and of the drivers, which rely on the nesting stated here.              *)
(***************************************************************************)
EXTENDS Integers, Sequences, FiniteSets

(* IRQn_Type.                                                              *)
IRQn ==
  [ NonMaskableInt |-> -14, MemoryManagement |-> -12, BusFault |-> -11, UsageFault |-> -10,
    SVCall |-> -5, DebugMonitor |-> -4, PendSV |-> -2, SysTick |-> -1,
    WDT |-> 0, TIMER0 |-> 1, TIMER1 |-> 2, TIMER2 |-> 3, TIMER3 |-> 4,
    UART0 |-> 5, UART1 |-> 6, UART2 |-> 7, UART3 |-> 8, PWM1 |-> 9,
    I2C0 |-> 10, I2C1 |-> 11, I2C2 |-> 12, SPI |-> 13, SSP0 |-> 14, SSP1 |-> 15,
    PLL0 |-> 16, RTC |-> 17, EINT0 |-> 18, EINT1 |-> 19, EINT2 |-> 20, EINT3 |-> 21,
    ADC |-> 22, BOD |-> 23, USB |-> 24, CAN |-> 25, DMA |-> 26, I2S |-> 27, ENET |-> 28,
    RIT |-> 29, MCPWM |-> 30, QEI |-> 31, PLL1 |-> 32, USBActivity |-> 33, CANActivity |-> 34 ]

Reserved == "0"

(* The entries of the vector table, from exception 0, the initial stack    *)
(* pointer; those of peripherals without "_IRQHandler".                    *)
g_pfnVectors ==
  << "pulStack", "Reset_Handler", "NMI_Handler", "HardFault_Handler", "MemManage_Handler",
     "BusFault_Handler", "UsageFault_Handler", Reserved, Reserved, Reserved, Reserved,
     "SVC_Handler", "DebugMon_Handler", Reserved, "PendSV_Handler", "SysTick_Handler",
     "WDT", "TIMER0", "TIMER1", "TIMER2", "TIMER3", "UART0", "UART1", "UART2", "UART3",
     "PWM1", "I2C0", "I2C1", "I2C2", "SPI", "SSP0", "SSP1", "PLL0", "RTC",
     "EINT0", "EINT1", "EINT2", "EINT3", "ADC", "BOD", "USB", "CAN", "DMA", "I2S", "ENET",
     "RIT", "MCPWM", "QEI", "PLL1", "USBActivity", "CANActivity" >>

(* The handlers that the kernel and the drivers define; every other name   *)
(* is a weak alias of Default_Handler(), which never returns.              *)
Defined == {"PendSV_Handler", "SysTick_Handler", "TIMER0", "EINT0", "ADC"}

(* What the processor runs for exception number n of IRQn_Type.            *)
HandlerOf(n) ==
  LET entry == g_pfnVectors[n + 17]
  IN  IF entry \in Defined THEN entry ELSE "Default_Handler"

(* Device interrupts with a driver, and what may be pending or active.     *)
Devices == {IRQn.TIMER0, IRQn.EINT0, IRQn.ADC}
Exceptions == Devices \cup {IRQn.PendSV, IRQn.SysTick}

VARIABLES
  exc,      \* priorities, what is enabled, pending and active, the last one on top
  boot,     \* where CoInitOS() is
  device    \* where the driver of each device interrupt is

excVars == <<exc, boot, device>>

NvicInit ==
  /\ exc = [prio |-> [n \in Exceptions |-> 0], enabled |-> {}, pending |-> {}, active |-> <<>>]
  /\ boot = "reset"
  /\ device = [n \in Devices |-> "closed"]

-----------------------------------------------------------------------------
NVIC_EnableIRQ(x, n)       == [x EXCEPT !.enabled = @ \cup {n}]
NVIC_DisableIRQ(x, n)      == [x EXCEPT !.enabled = @ \ {n}]
NVIC_ClearPendingIRQ(x, n) == [x EXCEPT !.pending = @ \ {n}]

(* Five bits of priority.                                                  *)
PrioBits == 5

NVIC_SetPriority(x, n, priority) ==
  [x EXCEPT !.prio[n] = (priority * 2 ^ (8 - PrioBits)) % 256]

(* Threads run while no exception is active.                               *)
InThread == exc.active = <<>>

(* CoInitOS(): the tick starts, then it gets the lowest priority, with     *)
(* PendSV.  The tick is always enabled from then on, and PendSV is.        *)
InitSysTick ==
  /\ InThread /\ boot = "reset"
  /\ exc' = [exc EXCEPT !.enabled = @ \cup {IRQn.SysTick, IRQn.PendSV}]
  /\ boot' = "ticks"
  /\ UNCHANGED device

(* Mutant: only one byte of the register is written.                       *)
LowestHalf == {IRQn.PendSV}

(* The exceptions in the two upper bytes of NVIC_SYS_PRI3.                 *)
Lowest == {IRQn.PendSV, IRQn.SysTick}

InitInt ==
  /\ InThread /\ boot = "ticks"
  /\ exc' = [exc EXCEPT !.prio = [n \in Exceptions |-> IF n \in Lowest THEN 248 ELSE @[n]]]
  /\ boot' = "done"
  /\ UNCHANGED device

(* The priority that all drivers give: 1 in the upper, 1 in the lower bits.*)
DevicePriority == 1 * 2 ^ 3 + 1

(* drv_pot_open(), drv_usr_int_open() and drv_buzz_generateStart() begin   *)
(* with the priority.                                                      *)
SetsPriority(n) ==
  /\ InThread /\ boot = "done" /\ device[n] = "closed"
  /\ exc' = NVIC_SetPriority(exc, n, DevicePriority)
  /\ device' = [device EXCEPT ![n] = IF n = IRQn.EINT0 THEN "clear" ELSE "ready"]
  /\ UNCHANGED boot

(* drv_usr_int_open() clears what came before it was called.              *)
ClearsPending(n) ==
  /\ InThread /\ device[n] = "clear"
  /\ exc' = NVIC_ClearPendingIRQ(exc, n)
  /\ device' = [device EXCEPT ![n] = "ready"]
  /\ UNCHANGED boot

(* drv_usr_int_open(), drv_buzz_generateStart(), drv_pot_getValue() *)
Enables(n) ==
  /\ InThread /\ device[n] = "ready"
  /\ exc' = NVIC_EnableIRQ(exc, n)
  /\ device' = [device EXCEPT ![n] = "open"]
  /\ UNCHANGED boot

(* drv_buzz_generateStop() *)
Disables ==
  /\ InThread /\ device[IRQn.TIMER0] = "open"
  /\ exc' = NVIC_DisableIRQ(exc, IRQn.TIMER0)
  /\ device' = [device EXCEPT ![IRQn.TIMER0] = "closed"]
  /\ UNCHANGED boot

-----------------------------------------------------------------------------
(* The hardware.  A device interrupt or the tick comes at any time, and    *)
(* PendSV when a thread or a handler that the kernel knows switches tasks. *)
Raised(n) ==
  /\ n \notin exc.pending
  /\ n = IRQn.SysTick => boot # "reset"
  /\ n = IRQn.PendSV => boot = "done" /\ (~InThread => Head(exc.active) # IRQn.TIMER0)
  /\ exc' = [exc EXCEPT !.pending = @ \cup {n}]
  /\ UNCHANGED <<boot, device>>

(* No priority grouping: seven bits preempt.  Lower numbers go first among *)
(* equals.                                                                 *)
Level(n) == exc.prio[n] \div 2

Before(n, o) == Level(n) < Level(o) \/ (Level(n) = Level(o) /\ n <= o)

Enters(n) ==
  LET ready == exc.pending \cap exc.enabled
  IN  /\ n \in ready /\ \A o \in ready : Before(n, o)
      /\ \A i \in DOMAIN exc.active : Level(n) < Level(exc.active[i])
      /\ exc' = [exc EXCEPT !.pending = @ \ {n}, !.active = <<n>> \o @]
      /\ UNCHANGED <<boot, device>>

(* A handler returns.  That of the converter disables its own interrupt,   *)
(* until the next drv_pot_getValue().  Default_Handler() does not return.  *)
Returns ==
  /\ exc.active # <<>> /\ HandlerOf(Head(exc.active)) # "Default_Handler"
  /\ LET n     == Head(exc.active)
         after == [exc EXCEPT !.active = Tail(@)]
     IN  IF n = IRQn.ADC
           THEN /\ exc' = NVIC_DisableIRQ(after, n)
                /\ device' = [device EXCEPT ![n] = "ready"]
           ELSE exc' = after /\ UNCHANGED device
  /\ UNCHANGED boot

NvicNext ==
  \/ InitSysTick \/ InitInt
  \/ \E n \in Devices : SetsPriority(n) \/ ClearsPending(n) \/ Enables(n)
  \/ Disables
  \/ \E n \in Exceptions : Raised(n) \/ Enters(n)
  \/ Returns

-----------------------------------------------------------------------------
(* What the modules of the kernel take for granted when they let a device  *)
(* handler be one step and PendSV and the tick exclude each other: neither *)
(* interrupts the other, no device handler interrupts another one, and     *)
(* what interrupts a device handler is nothing.  Every exception that is   *)
(* taken has a handler that returns.                                       *)
InterruptsNest ==
  \A i \in DOMAIN exc.active :
    /\ exc.active[i] \in Devices => i = 1
    /\ exc.active[i] \notin Devices => i = Len(exc.active)
    /\ HandlerOf(exc.active[i]) # "Default_Handler"
=============================================================================
