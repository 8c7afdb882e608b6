------------------------------ MODULE LpcClock ------------------------------
(***************************************************************************)
(* From reset to main(): SystemInit() (system_LPC17xx.c) starts the        *)
(* oscillator and the two PLLs, which the hardware readies in its own      *)
(* time; SystemCoreClock and lpc17xx_clkpwr.c tell the drivers the rates   *)
(* and switch dividers and power.                                          *)
(***************************************************************************)
EXTENDS Integers, Sequences

VARIABLES
  sc,     \* LPC_SC: registers, PLLs in effect, dividers (PCLKSEL), powered blocks (PCONP)
  core,   \* SystemCoreClock
  step    \* how far SystemInit() is

clockVars == <<sc, core, step>>

(* Rates are in units of 64 Hz, to stay within the integers of TLC.        *)
XTAL    == 187500    \* 12 MHz
RTC_CLK == 512       \* 32768 Hz
IRC_OSC == 62500     \* 4 MHz
MaxRate == 1562500   \* 100 MHz, what the flash accelerator's table allows

Field(v, low, width) == (v \div 2^low) % 2^width

PLL0CFG_Val   == \h50063
CLKSRCSEL_Val == 1
CCLKCFG_Val   == 3

Divided(rate, cfg) == (rate * 2 * (Field(cfg, 0, 15) + 1)) \div (Field(cfg, 16, 8) + 1)

Source(sel) == CASE sel = 1 -> XTAL [] sel = 2 -> RTC_CLK [] OTHER -> IRC_OSC

(* What the compiler makes of the settings.                                *)
CORE_CLK == Divided(Source(CLKSRCSEL_Val), PLL0CFG_Val) \div (CCLKCFG_Val + 1)

-----------------------------------------------------------------------------
(* SystemInit() is a list of writes, feeds of a PLL, and waits.            *)
Puts(reg, val)  == [op |-> "write", of |-> reg, val |-> val]
FeedPll(n)      == [op |-> "feed", of |-> n, val |-> 0]
Await(what)     == [op |-> "wait", of |-> what, val |-> 0]

SetUp(n, cfg) ==
  LET con == <<"PLL0CON", "PLL1CON">>[n + 1]
  IN  << Puts(<<"PLL0CFG", "PLL1CFG">>[n + 1], cfg), FeedPll(n),
         Puts(con, 1), FeedPll(n), Await(<<"PLOCK0", "PLOCK1">>[n + 1]),
         Puts(con, 3), FeedPll(n), Await(<<"PLLSTAT0", "PLLSTAT1">>[n + 1]) >>

SystemInit ==
  << Puts("SCS", 32), Await("oscillator"), Puts("CCLKCFG", CCLKCFG_Val),
     Puts("PCLKSEL", 0), Puts("CLKSRCSEL", CLKSRCSEL_Val) >>
  \o SetUp(0, PLL0CFG_Val) \o SetUp(1, \h23)
  \o << Puts("PCONP", \h042887DE), Puts("CLKOUTCFG", 0),
        Puts("FLASHCFG", \h303A), Puts("VTOR", 0) >>

Done == step > Len(SystemInit)

(* The peripherals with a divider, by the position of its two bits in      *)
(* PCLKSEL0 and PCLKSEL1, and those that are powered by a bit of PCONP.    *)
ClockTypes == {2 * i : i \in 0 .. 31} \ {10, 18, 34, 40, 56}

PowerBits == (1 .. 31) \ {5, 11, 20, 28}

(* After reset the registers are 0, the PLLs off, and the processor runs   *)
(* on the internal oscillator.                                             *)
Registers == {SystemInit[i].of : i \in {j \in 1 .. Len(SystemInit) : SystemInit[j].op = "write"}}

ClockInit ==
  /\ sc = [reg   |-> [r \in Registers \ {"PCLKSEL", "PCONP"} |-> 0],
           ready |-> FALSE,
           pll   |-> [n \in {0, 1} |-> [con |-> 0, cfg |-> 0, locked |-> FALSE]],
           div   |-> [type \in ClockTypes |-> 0],
           power |-> {1, 2, 3, 4, 6, 7, 8, 9, 10, 15, 19, 21, 26}]
  /\ core = CORE_CLK
  /\ step = 1

(* A PLL takes its registers when it is fed, and unlocks if it is switched *)
(* off or set to another rate.                                             *)
Fed(n) ==
  LET con == sc.reg[<<"PLL0CON", "PLL1CON">>[n + 1]]
      cfg == sc.reg[<<"PLL0CFG", "PLL1CFG">>[n + 1]]
  IN  [con |-> con, cfg |-> cfg,
       locked |-> sc.pll[n].locked /\ con # 0 /\ cfg = sc.pll[n].cfg]

(* The bits of PLL0STAT and PLL1STAT: connected and enabled.               *)
Connected(n) == sc.pll[n].con = 3
Enabled(n)   == sc.pll[n].con \in {1, 3}

(* Mutant: the wait looks whether the PLL is enabled, not whether it is    *)
(* locked.                                                                 *)
WaitEndsEnabled(what) ==
  CASE what = "oscillator" -> sc.ready
    [] what \in {"PLOCK0", "PLLSTAT0"} -> Connected(0) \/ Enabled(0)
    [] OTHER -> Connected(1) \/ Enabled(1)

(* The loops of SystemInit(): one of the two status bits is enough for the *)
(* last wait of a PLL.                                                     *)
WaitEnds(what) ==
  CASE what = "oscillator" -> sc.ready
    [] what = "PLOCK0"     -> sc.pll[0].locked
    [] what = "PLOCK1"     -> sc.pll[1].locked
    [] what = "PLLSTAT0"   -> Connected(0) \/ Enabled(0)
    [] what = "PLLSTAT1"   -> Connected(1) \/ Enabled(1)

Boots ==
  /\ ~Done
  /\ LET s == SystemInit[step] IN
       \/ s.op = "write" /\ s.of = "PCLKSEL" /\ sc' = [sc EXCEPT !.div = [type \in DOMAIN @ |-> 0]]
       \/ s.op = "write" /\ s.of = "PCONP"
          /\ sc' = [sc EXCEPT !.power = {b \in 0 .. 30 : Field(s.val, b, 1) = 1}]
       \/ s.op = "write" /\ s.of \notin {"PCLKSEL", "PCONP"} /\ sc' = [sc EXCEPT !.reg[s.of] = s.val]
       \/ s.op = "feed" /\ sc' = [sc EXCEPT !.pll[s.of] = Fed(s.of)]
       \/ s.op = "wait" /\ WaitEnds(s.of) /\ UNCHANGED sc
  /\ step' = step + 1
  /\ UNCHANGED core

-----------------------------------------------------------------------------
(* The hardware.                                                           *)
OscillatorStarts ==
  /\ Field(sc.reg["SCS"], 5, 1) = 1 /\ ~sc.ready
  /\ sc' = [sc EXCEPT !.ready = TRUE]
  /\ UNCHANGED <<core, step>>

SourceReady(n) == (n = 1 \/ sc.reg["CLKSRCSEL"] = 1) => sc.ready

PllLocks(n) ==
  /\ Enabled(n) /\ SourceReady(n) /\ ~sc.pll[n].locked
  /\ sc' = [sc EXCEPT !.pll[n].locked = TRUE]
  /\ UNCHANGED <<core, step>>

(* What the processor runs on.                                             *)
CpuRate ==
  LET source == Source(sc.reg["CLKSRCSEL"])
  IN  (IF Connected(0) THEN Divided(source, sc.pll[0].cfg) ELSE source) \div (sc.reg["CCLKCFG"] + 1)

-----------------------------------------------------------------------------
SystemCoreClockUpdate ==
  LET source  == Source(Field(sc.reg["CLKSRCSEL"], 0, 2))
      divider == Field(sc.reg["CCLKCFG"], 0, 8) + 1
  IN  /\ Done
      /\ core' = IF Connected(0) /\ Enabled(0)
                   THEN Divided(source, sc.pll[0].cfg) \div divider
                   ELSE source \div divider
      /\ UNCHANGED <<sc, step>>

(* lpc17xx_clkpwr.c, as functions of LPC_SC: a divider is two bits of      *)
(* PCLKSEL0 or PCLKSEL1, a block one bit of PCONP.                         *)
CLKPWR_SetPCLKDiv(s, type, div) == [s EXCEPT !.div[type] = div]

CLKPWR_GetPCLKSEL(type) == sc.div[type]

CLKPWR_GetPCLK(type) == core \div <<4, 1, 2, 8>>[CLKPWR_GetPCLKSEL(type) + 1]

CLKPWR_ConfigPPWR(s, block, on) ==
  [s EXCEPT !.power = IF on THEN @ \cup ({block} \cap PowerBits) ELSE (@ \ {block}) \cap PowerBits]

ClockNext == Boots \/ OscillatorStarts \/ (\E n \in {0, 1} : PllLocks(n)) \/ SystemCoreClockUpdate

-----------------------------------------------------------------------------
(* Nothing runs on an oscillator that has not started or a PLL that has    *)
(* not locked, the processor is never faster than it may be, whatever the  *)
(* order of the settings, and when main() begins SystemCoreClock is the    *)
(* rate the registers give.                                                *)
CpuClocked ==
  /\ \A n \in {0, 1} : Connected(n) => sc.pll[n].locked /\ SourceReady(n)
  /\ ~Connected(0) => SourceReady(0)
  /\ CpuRate <= MaxRate
  /\ Done => core = CpuRate
=============================================================================
