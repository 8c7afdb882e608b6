--------------------------- MODULE CoBoardProofs ---------------------------
(***************************************************************************)
(* What is proved of the parts beside the kernel (CoParts): how interrupts *)
(* nest, the figures of the LEDs, the start-up of the clock, what the      *)
(* drivers set up, the values of the potentiometer and the tone of the     *)
(* buzzer, each by an inductive invariant of the variables of its part.    *)
(* The parts share no step, so that every part's invariant has to be kept  *)
(* by its own steps only, and on a board by those of the clock and of the  *)
(* other drivers.                                                          *)
(***************************************************************************)
EXTENDS DrvPins, DrvBuzz, DrvPot, DrvLed, LpcNvic, SequenceTheorems, TLAPS

-----------------------------------------------------------------------------
(* Exceptions.  The inductive invariant: before CoInitOS() is done only    *)
(* the tick can be active, since no driver is open yet, and all priorities *)
(* are still equal (NothingOpen); afterwards the kernel's two exceptions   *)
(* have the lowest priority, and every device interrupt that is enabled or *)
(* active has the one that all drivers give (Levelled).                    *)
ExcRecord ==
  [prio : [Exceptions -> 0 .. 255], enabled : SUBSET Exceptions,
   pending : SUBSET Exceptions, active : Seq(Exceptions)]

ExcType ==
  /\ exc \in ExcRecord
  /\ boot \in {"reset", "ticks", "done"}
  /\ device \in [Devices -> {"closed", "clear", "ready", "open"}]

NothingOpen ==
  boot # "done" =>
    /\ \A n \in Devices : device[n] = "closed"
    /\ exc.enabled \cup Range(exc.active) \subseteq Lowest
    /\ IRQn.PendSV \notin exc.pending \cup Range(exc.active)

Levelled ==
  boot = "done" =>
    /\ \A n \in Lowest : exc.prio[n] = 248
    /\ \A n \in Devices :
         device[n] # "closed" \/ n \in exc.enabled \cup Range(exc.active) => exc.prio[n] = 72

(* At most a device handler on top of a handler of the kernel.             *)
Stacked ==
  /\ Len(exc.active) <= 2
  /\ \A i \in DOMAIN exc.active :
       /\ exc.active[i] \in Devices => i = 1
       /\ exc.active[i] \notin Devices => i = Len(exc.active)

NestInv == ExcType /\ NothingOpen /\ Levelled /\ Stacked

(* Every exception that may come has a handler that returns.               *)
LEMMA HandlersDefined ==
  \A n \in Exceptions : HandlerOf(n) # "Default_Handler"
BY DEF Exceptions, Devices, IRQn, HandlerOf, g_pfnVectors, Defined

(* A driver gives its interrupt 72, above the 248 of the kernel's.         *)
LEMMA DriversPriority ==
  \A x, n : NVIC_SetPriority(x, n, DevicePriority) = [x EXCEPT !.prio = [@ EXCEPT ![n] = 72]]
<1>1. (DevicePriority * 2 ^ (8 - PrioBits)) % 256 = 72
  BY DEF DevicePriority, PrioBits
<1> QED  BY <1>1 DEF NVIC_SetPriority

(* The fields of the record.                                               *)
LEMMA ExcFields ==
  ASSUME NEW x \in ExcRecord
  PROVE  /\ x.prio \in [Exceptions -> 0 .. 255] /\ x.enabled \in SUBSET Exceptions
         /\ x.pending \in SUBSET Exceptions /\ x.active \in Seq(Exceptions)
BY DEF ExcRecord

(* What has the type of each field in the field is a record of that type.  *)
LEMMA ExcWrites ==
  ASSUME NEW x \in ExcRecord
  PROVE  /\ \A p \in [Exceptions -> 0 .. 255] : [x EXCEPT !.prio = p] \in ExcRecord
         /\ \A a \in Seq(Exceptions) : [x EXCEPT !.active = a] \in ExcRecord
BY DEF ExcRecord

(* The exceptions are the three of the drivers and the two of the kernel.  *)
LEMMA ExceptionsAre ==
  /\ Exceptions = Devices \cup Lowest
  /\ Devices \cap Lowest = {}
  /\ IRQn.PendSV \in Lowest /\ IRQn.SysTick \in Lowest
  /\ \A n \in Lowest : n # IRQn.PendSV => n = IRQn.SysTick
BY DEF Exceptions, Devices, Lowest, IRQn

(* What the invariant says of nesting, and of the handlers.                *)
LEMMA NestImplies == NestInv => InterruptsNest
BY HandlersDefined DEF NestInv, InterruptsNest, Stacked, ExcType, ExcRecord

(* After reset nothing is enabled, pending or active.                      *)
LEMMA NestInit == NvicInit => NestInv
BY DEF NvicInit, NestInv, ExcType, ExcRecord, NothingOpen, Levelled, Stacked, Range

(* CoInitOS() starts the tick and lowers the kernel's exceptions.          *)
LEMMA BootKeepsNest ==
  ASSUME NestInv, InitSysTick \/ InitInt  PROVE NestInv'
<1>1. /\ ExcType /\ exc.active = <<>> /\ Range(exc.active) = {}
      /\ boot # "done" /\ device' = device
      /\ \A n \in Devices : device[n] = "closed"
      /\ exc.enabled \subseteq Lowest /\ IRQn.PendSV \notin exc.pending
  BY DEF NestInv, InThread, InitSysTick, InitInt, NothingOpen, Range
<1>2. CASE InitSysTick
  <2>1. /\ exc'.prio = exc.prio /\ exc'.enabled = exc.enabled \cup {IRQn.SysTick, IRQn.PendSV}
        /\ exc'.pending = exc.pending /\ exc'.active = exc.active
        /\ exc' \in ExcRecord
        /\ boot' = "ticks"
    <3> DEFINE e == exc.enabled \cup {IRQn.SysTick, IRQn.PendSV}
    <3>1. e \in SUBSET Exceptions /\ exc \in ExcRecord
      BY <1>1, ExceptionsAre DEF ExcType
    <3>2. exc' = [exc EXCEPT !.enabled = e] /\ boot' = "ticks"
      BY <1>2 DEF InitSysTick
    <3> HIDE DEF e
    <3>3. exc' \in ExcRecord
      BY <3>1, <3>2 DEF ExcRecord
    <3>4. /\ exc'.prio = exc.prio /\ exc'.enabled = e
          /\ exc'.pending = exc.pending /\ exc'.active = exc.active
      BY <3>1, <3>2 DEF ExcRecord
    <3> QED  BY <3>2, <3>3, <3>4 DEF e
  <2> QED  BY <1>1, <2>1, ExceptionsAre DEF NestInv, ExcType, NothingOpen, Levelled, Stacked
<1>3. CASE InitInt
  <2>1. /\ exc'.enabled = exc.enabled /\ exc'.active = exc.active
        /\ exc' \in ExcRecord
        /\ \A n \in Lowest : exc'.prio[n] = 248
        /\ boot' = "done"
    <3> DEFINE p == [n \in Exceptions |-> IF n \in Lowest THEN 248 ELSE exc.prio[n]]
    <3>1. p \in [Exceptions -> 0 .. 255] /\ \A n \in Lowest : p[n] = 248
      BY <1>1, ExceptionsAre, ExcFields DEF ExcType
    <3>2. exc' = [exc EXCEPT !.prio = p] /\ boot' = "done"
      BY <1>3 DEF InitInt
    <3> HIDE DEF p
    <3> QED  BY <1>1, <3>1, <3>2 DEF ExcType, ExcRecord
  <2> QED  BY <1>1, <2>1, ExceptionsAre DEF NestInv, ExcType, NothingOpen, Levelled, Stacked
<1> QED  BY <1>2, <1>3

(* What a driver may do in a thread: it enables no interrupt but its own,  *)
(* and none that has not the drivers' priority.                            *)
LEMMA ThreadKeepsNest ==
  ASSUME NestInv, InThread, ExcType',
         exc'.active = exc.active, exc'.pending \subseteq exc.pending, boot' = boot,
         \A n \in Lowest : exc'.prio[n] = exc.prio[n],
         boot # "done" => exc'.enabled \subseteq exc.enabled /\ device' = device,
         boot = "done" => \A n \in Devices :
           device'[n] # "closed" \/ n \in exc'.enabled => exc'.prio[n] = 72
  PROVE  NestInv'
<1>1. exc.active = <<>> /\ Range(exc.active) = {}
  BY DEF InThread, Range
<1> QED  BY <1>1 DEF NestInv, NothingOpen, Levelled, Stacked

(* A driver opens and closes in a thread.                                  *)
LEMMA DriversKeepNest ==
  ASSUME NestInv, NEW n \in Devices,
         SetsPriority(n) \/ ClearsPending(n) \/ Enables(n) \/ Disables
  PROVE  NestInv'
<1> n \in Exceptions
  BY ExceptionsAre
<1>1. /\ ExcType /\ InThread /\ boot' = boot /\ n \notin Lowest
      /\ boot # "done" => \A m \in Devices : device[m] = "closed"
      /\ boot = "done" => \A m \in Devices :
           device[m] # "closed" \/ m \in exc.enabled => exc.prio[m] = 72
      /\ IRQn.TIMER0 \in Devices
  BY ExceptionsAre
  DEF NestInv, SetsPriority, ClearsPending, Enables, Disables, NothingOpen, Levelled, Devices
<1>2. CASE SetsPriority(n)
  <2>1. /\ exc' = [exc EXCEPT !.prio = [@ EXCEPT ![n] = 72]]
        /\ device' = [device EXCEPT ![n] = IF n = IRQn.EINT0 THEN "clear" ELSE "ready"]
        /\ boot = "done"
    BY <1>2, DriversPriority DEF SetsPriority
  <2>2. /\ ExcType' /\ exc'.active = exc.active /\ exc'.pending = exc.pending
        /\ exc'.enabled = exc.enabled /\ exc'.prio = [exc.prio EXCEPT ![n] = 72]
    <3>1. exc \in ExcRecord /\ exc.prio \in [Exceptions -> 0 .. 255]
      BY <1>1, ExcFields DEF ExcType
    <3>2. [exc.prio EXCEPT ![n] = 72] \in [Exceptions -> 0 .. 255]
      <4>1. \A f \in [Exceptions -> 0 .. 255] :
              [f EXCEPT ![n] = 72] \in [Exceptions -> 0 .. 255]
        OBVIOUS
      <4> QED  BY <3>1, <4>1
    <3>3. exc' \in ExcRecord
      BY <2>1, <3>1, <3>2, ExcWrites
    <3>4. device' \in [Devices -> {"closed", "clear", "ready", "open"}]
      BY <1>1, <2>1 DEF ExcType
    <3>5. /\ exc'.active = exc.active /\ exc'.pending = exc.pending
          /\ exc'.enabled = exc.enabled /\ exc'.prio = [exc.prio EXCEPT ![n] = 72]
      BY <2>1, <3>1 DEF ExcRecord
    <3> QED  BY <1>1, <3>3, <3>4, <3>5 DEF ExcType
  <2>3. /\ \A m \in Lowest : exc'.prio[m] = exc.prio[m]
        /\ \A m \in Devices :
             device'[m] # "closed" \/ m \in exc'.enabled => exc'.prio[m] = 72
    BY <1>1, <2>1, <2>2, ExceptionsAre, ExcFields DEF ExcType
  <2> QED  BY <1>1, <2>1, <2>2, <2>3, ThreadKeepsNest
<1>3. CASE ClearsPending(n)
  <2>1. /\ exc' = [exc EXCEPT !.pending = @ \ {n}]
        /\ device' = [device EXCEPT ![n] = "ready"] /\ device[n] # "closed"
    BY <1>3 DEF ClearsPending, NVIC_ClearPendingIRQ
  <2>2. /\ ExcType' /\ exc'.active = exc.active /\ exc'.pending \subseteq exc.pending
        /\ exc'.enabled = exc.enabled /\ exc'.prio = exc.prio
    <3>1. exc \in ExcRecord
      BY <1>1 DEF ExcType
    <3>2. exc' \in ExcRecord
      BY <2>1, <3>1 DEF ExcRecord
    <3>3. device' \in [Devices -> {"closed", "clear", "ready", "open"}]
      BY <1>1, <2>1 DEF ExcType
    <3>4. /\ exc'.active = exc.active /\ exc'.pending = exc.pending \ {n}
          /\ exc'.enabled = exc.enabled /\ exc'.prio = exc.prio
      BY <2>1, <3>1 DEF ExcRecord
    <3> QED  BY <1>1, <3>2, <3>3, <3>4 DEF ExcType
  <2> QED  BY <1>1, <2>1, <2>2, ThreadKeepsNest DEF ExcType
<1>4. CASE Enables(n)
  <2>1. /\ exc' = [exc EXCEPT !.enabled = @ \cup {n}]
        /\ device' = [device EXCEPT ![n] = "open"] /\ device[n] # "closed"
    BY <1>4 DEF Enables, NVIC_EnableIRQ
  <2>2. /\ ExcType' /\ exc'.active = exc.active /\ exc'.pending = exc.pending
        /\ exc'.enabled = exc.enabled \cup {n} /\ exc'.prio = exc.prio
    <3>1. exc \in ExcRecord
      BY <1>1 DEF ExcType
    <3>2. exc' \in ExcRecord
      BY <2>1, <3>1 DEF ExcRecord
    <3>3. device' \in [Devices -> {"closed", "clear", "ready", "open"}]
      BY <1>1, <2>1 DEF ExcType
    <3>4. /\ exc'.active = exc.active /\ exc'.pending = exc.pending
          /\ exc'.enabled = exc.enabled \cup {n} /\ exc'.prio = exc.prio
      BY <2>1, <3>1 DEF ExcRecord
    <3> QED  BY <1>1, <3>2, <3>3, <3>4 DEF ExcType
  <2> QED  BY <1>1, <2>1, <2>2, ThreadKeepsNest DEF ExcType
<1>5. CASE Disables
  <2> DEFINE d == IRQn.TIMER0
  <2>1. /\ exc' = [exc EXCEPT !.enabled = @ \ {d}]
        /\ device' = [device EXCEPT ![d] = "closed"] /\ device[d] # "closed"
        /\ d \in Devices
    BY <1>1, <1>5 DEF Disables, NVIC_DisableIRQ
  <2> HIDE DEF d
  <2>2. /\ ExcType' /\ exc'.active = exc.active /\ exc'.pending = exc.pending
        /\ exc'.enabled = exc.enabled \ {d} /\ exc'.prio = exc.prio
    <3>1. exc \in ExcRecord
      BY <1>1 DEF ExcType
    <3>2. exc' \in ExcRecord
      BY <2>1, <3>1 DEF ExcRecord
    <3>3. device' \in [Devices -> {"closed", "clear", "ready", "open"}]
      BY <1>1, <2>1 DEF ExcType
    <3>4. /\ exc'.active = exc.active /\ exc'.pending = exc.pending
          /\ exc'.enabled = exc.enabled \ {d} /\ exc'.prio = exc.prio
      BY <2>1, <3>1 DEF ExcRecord
    <3> QED  BY <1>1, <3>2, <3>3, <3>4 DEF ExcType
  <2> QED  BY <1>1, <2>1, <2>2, ThreadKeepsNest DEF ExcType
<1> QED  BY <1>2, <1>3, <1>4, <1>5

(* An exception becomes pending.                                           *)
LEMMA RaisedKeepsNest ==
  ASSUME NestInv, NEW n \in Exceptions, Raised(n)  PROVE NestInv'
<1>1. /\ exc' = [exc EXCEPT !.pending = @ \cup {n}] /\ boot' = boot /\ device' = device
      /\ n = IRQn.PendSV => boot = "done"
      /\ ExcType
  BY DEF Raised, NestInv
<1>2. /\ ExcType' /\ exc'.active = exc.active /\ exc'.pending = exc.pending \cup {n}
      /\ exc'.enabled = exc.enabled /\ exc'.prio = exc.prio
  <2>1. exc' \in ExcRecord
    BY <1>1 DEF ExcType, ExcRecord
  <2>2. /\ exc'.active = exc.active /\ exc'.pending = exc.pending \cup {n}
        /\ exc'.enabled = exc.enabled /\ exc'.prio = exc.prio
    BY <1>1 DEF ExcType, ExcRecord
  <2> QED  BY <1>1, <2>1, <2>2 DEF ExcType
<1> QED  BY <1>1, <1>2 DEF NestInv, NothingOpen, Levelled, Stacked

(* The exceptions that are active when one enters: none, or one of the     *)
(* kernel's below a device interrupt.                                      *)
LEMMA EntersAbove ==
  ASSUME NestInv, NEW n \in Exceptions, Enters(n)
  PROVE  \/ exc.active = <<>>
         \/ n \in Devices /\ Len(exc.active) = 1 /\ exc.active[1] \in Lowest
<1>1. /\ ExcType /\ exc.active \in Seq(Exceptions)
      /\ n \in exc.enabled /\ n \in exc.pending
      /\ \A i \in 1 .. Len(exc.active) : Level(n) < Level(exc.active[i])
  BY ExcFields DEF NestInv, ExcType, Enters
<1>2. SUFFICES ASSUME exc.active # <<>>
               PROVE  n \in Devices /\ Len(exc.active) = 1 /\ exc.active[1] \in Lowest
  OBVIOUS
<1>3. Len(exc.active) \in 1 .. 2 /\ exc.active[1] \in Exceptions
  <2> DEFINE m == Len(exc.active)
  <2>1. m \in Nat /\ m >= 1
    BY <1>1, <1>2, EmptySeq
  <2>2. m <= 2
    BY DEF NestInv, Stacked
  <2>3. m \in 1 .. 2
    <3> HIDE DEF m
    <3> QED  BY <2>1, <2>2
  <2> QED  BY <1>1, <2>3, ElementOfSeq
<1>4. \A i \in 1 .. Len(exc.active) : exc.active[i] \in Range(exc.active)
  BY <1>1 DEF Range
<1>5. boot = "done"
  <2>1. SUFFICES ASSUME boot # "done"  PROVE FALSE
    OBVIOUS
  <2>2. n = IRQn.SysTick /\ exc.active[1] = IRQn.SysTick
    BY <1>1, <1>3, <1>4, <2>1, ExceptionsAre DEF NestInv, NothingOpen
  <2>3. Level(n) < Level(exc.active[1])
    BY <1>1, <1>3
  <2>4. exc.prio[n] \in 0 .. 255
    BY <1>1, ExcFields DEF ExcType
  <2> QED  BY <2>2, <2>3, <2>4 DEF Level
<1>6. /\ \A m \in Lowest : Level(m) = 124
      /\ n \in Devices => Level(n) = 36
      /\ \A i \in 1 .. Len(exc.active) :
           exc.active[i] \in Devices => Level(exc.active[i]) = 36
  BY <1>1, <1>4, <1>5 DEF NestInv, Levelled, Level
<1>7. \A i \in 1 .. Len(exc.active) : exc.active[i] \in Lowest
  BY <1>1, <1>6, ExceptionsAre
<1>8. n \in Devices
  BY <1>1, <1>3, <1>6, <1>7, ExceptionsAre
<1>9. Len(exc.active) = 1
  BY <1>1, <1>3, <1>7, ExceptionsAre DEF NestInv, Stacked
<1> QED  BY <1>3, <1>7, <1>8, <1>9

(* An exception is taken.                                                  *)
LEMMA EntersKeepsNest ==
  ASSUME NestInv, NEW n \in Exceptions, Enters(n)  PROVE NestInv'
<1>1. /\ exc' = [exc EXCEPT !.pending = @ \ {n}, !.active = <<n>> \o @]
      /\ boot' = boot /\ device' = device /\ n \in exc.enabled /\ n \in exc.pending
      /\ ExcType
  BY DEF Enters, NestInv
<1>2. /\ ExcType' /\ exc'.active = <<n>> \o exc.active /\ exc'.pending = exc.pending \ {n}
      /\ exc'.enabled = exc.enabled /\ exc'.prio = exc.prio
      /\ exc.active \in Seq(Exceptions)
  <2>1. exc \in ExcRecord /\ exc.active \in Seq(Exceptions)
    BY <1>1, ExcFields DEF ExcType
  <2>2. <<n>> \o exc.active \in Seq(Exceptions)
    BY <2>1
  <2>3. exc' \in ExcRecord
    BY <1>1, <2>1, <2>2 DEF ExcRecord
  <2>4. /\ exc'.active = <<n>> \o exc.active /\ exc'.pending = exc.pending \ {n}
        /\ exc'.enabled = exc.enabled /\ exc'.prio = exc.prio
    BY <1>1, <2>1 DEF ExcRecord
  <2> QED  BY <1>1, <2>1, <2>3, <2>4 DEF ExcType
<1>3. Range(exc'.active) = Range(exc.active) \cup {n}
  <2> DEFINE a == exc.active
             b == <<n>> \o exc.active
  <2>1. /\ Len(b) = Len(a) + 1 /\ b[1] = n /\ \A i \in 1 .. Len(a) : b[i + 1] = a[i]
        /\ a \in Seq(Exceptions) /\ b \in Seq(Exceptions)
    BY <1>2
  <2> HIDE DEF a, b
  <2>2. \A i \in 1 .. Len(b) : i = 1 \/ (i - 1 \in 1 .. Len(a) /\ b[i] = a[i - 1])
    BY <2>1
  <2>3. ASSUME NEW x \in Range(b)  PROVE x \in Range(a) \cup {n}
    BY <2>1, <2>2, <2>3 DEF Range
  <2>4. ASSUME NEW x \in Range(a)  PROVE x \in Range(b)
    <3>1. PICK i \in 1 .. Len(a) : x = a[i]
      BY <2>1, <2>4 DEF Range
    <3>2. i + 1 \in 1 .. Len(b) /\ b[i + 1] = x
      BY <2>1, <3>1
    <3> QED  BY <2>1, <3>2 DEF Range
  <2>5. n \in Range(b)
    <3>1. 1 \in 1 .. Len(b)
      BY <2>1
    <3> QED  BY <2>1, <3>1 DEF Range
  <2>6. Range(b) = Range(a) \cup {n}
    BY <2>3, <2>4, <2>5
  <2> QED  BY <1>2, <2>6 DEF a, b
<1>4. Stacked'
  <2>1. CASE exc.active = <<>>
    <3>1. Len(exc'.active) = 1
      BY <1>2, <2>1
    <3> QED  BY <1>2, <3>1 DEF Stacked
  <2>2. CASE n \in Devices /\ Len(exc.active) = 1 /\ exc.active[1] \in Lowest
    <3>1. Len(exc'.active) = 2 /\ exc'.active[1] = n /\ exc'.active[2] \in Lowest
      BY <1>2, <2>2
    <3> QED  BY <1>2, <2>2, <3>1, ExceptionsAre DEF Stacked
  <2> QED  BY <2>1, <2>2, EntersAbove
<1> QED  BY <1>1, <1>2, <1>3, <1>4 DEF NestInv, NothingOpen, Levelled

(* A handler returns, that of the converter with its interrupt disabled.   *)
LEMMA ReturnsKeepsNest ==
  ASSUME NestInv, Returns  PROVE NestInv'
<1> DEFINE n == Head(exc.active)
<1>1. /\ exc.active \in Seq(Exceptions) /\ exc.active # <<>> /\ boot' = boot
      /\ \/ exc' = [exc EXCEPT !.active = Tail(@)] /\ device' = device
         \/ /\ exc' = [exc EXCEPT !.active = Tail(@), !.enabled = @ \ {n}]
            /\ device' = [device EXCEPT ![n] = "ready"]
            /\ n = IRQn.ADC
      /\ ExcType
  <2>1. /\ exc.active \in Seq(Exceptions) /\ ExcType /\ exc \in ExcRecord
    BY ExcFields DEF NestInv, ExcType
  <2>2. CASE n = IRQn.ADC
    <3>1. exc' = NVIC_DisableIRQ([exc EXCEPT !.active = Tail(@)], n)
      BY <2>2 DEF Returns
    <3> QED  BY <2>1, <2>2, <3>1 DEF Returns, NVIC_DisableIRQ, ExcRecord
  <2> QED  BY <2>1, <2>2 DEF Returns
<1>2. /\ ExcType' /\ exc'.active = Tail(exc.active) /\ exc'.pending = exc.pending
      /\ exc'.enabled \subseteq exc.enabled /\ exc'.prio = exc.prio
  <2>1. exc \in ExcRecord /\ Tail(exc.active) \in Seq(Exceptions)
    BY <1>1, ExcFields DEF ExcType
  <2>2. device' \in [Devices -> {"closed", "clear", "ready", "open"}]
    BY <1>1 DEF ExcType
  <2> HIDE DEF n
  <2>3. exc' \in ExcRecord
    BY <1>1, <2>1 DEF ExcRecord
  <2>4. /\ exc'.active = Tail(exc.active) /\ exc'.pending = exc.pending
        /\ exc'.enabled \subseteq exc.enabled /\ exc'.prio = exc.prio
    BY <1>1, <2>1 DEF ExcRecord
  <2> QED  BY <1>1, <2>2, <2>3, <2>4 DEF ExcType
<1>3. /\ Range(exc'.active) \subseteq Range(exc.active) /\ n \in Range(exc.active)
      /\ Len(exc'.active) = Len(exc.active) - 1
      /\ \A i \in 1 .. Len(exc'.active) : exc'.active[i] = exc.active[i + 1]
  BY <1>1, <1>2 DEF Range
<1>4. Stacked'
  BY <1>1, <1>2, <1>3 DEF NestInv, Stacked, ExcType
<1>5. n = IRQn.ADC => boot = "done" /\ exc.prio[n] = 72 /\ n \in Devices
  BY <1>1, <1>3, ExceptionsAre DEF NestInv, NothingOpen, Levelled, Devices, Lowest, IRQn
<1> HIDE DEF n
<1>6. NothingOpen'
  BY <1>1, <1>2, <1>3, <1>5 DEF NestInv, NothingOpen
<1>7. Levelled'
  BY <1>1, <1>2, <1>3, <1>5 DEF NestInv, Levelled, ExcType
<1> QED  BY <1>2, <1>4, <1>6, <1>7 DEF NestInv

(* The invariant is inductive in the steps of the exceptions.              *)
LEMMA NestStep ==
  ASSUME NestInv, NvicNext  PROVE NestInv'
<1>1. CASE InitSysTick \/ InitInt
  BY <1>1, BootKeepsNest
<1>2. CASE \E n \in Devices : SetsPriority(n) \/ ClearsPending(n) \/ Enables(n)
  BY <1>2, DriversKeepNest
<1>3. CASE Disables
  BY <1>3, DriversKeepNest DEF Devices
<1>4. CASE \E n \in Exceptions : Raised(n) \/ Enters(n)
  BY <1>4, RaisedKeepsNest, EntersKeepsNest
<1>5. CASE Returns
  BY <1>5, ReturnsKeepsNest
<1> QED  BY <1>1, <1>2, <1>3, <1>4, <1>5 DEF NvicNext

(* Nothing of the exceptions changes.                                      *)
LEMMA NestStutter ==
  ASSUME NestInv, UNCHANGED excVars  PROVE NestInv'
BY DEF excVars, NestInv, ExcType, NothingOpen, Levelled, Stacked

-----------------------------------------------------------------------------
(* The LEDs.  The inductive invariant: led_task is created in a mode and   *)
(* deleted at the places of main_task (Phases); what the row shows after   *)
(* each step (Shows); and iter, which outlives the task, is in the range   *)
(* of the running light during start-up (OneInRange), and in that of the   *)
(* bar from the end of the first turn (WaveInRange).                       *)
Placed == {"next", "wrap", "wait"}

Powers == {1, 2, 4, 8, 16, 32, 64, 128}

Phases ==
  /\ mainAt = "startup" => led.at = "none" /\ led.iter = 1
  /\ mainAt = "startupRuns" => led.mode = "OneWave"
  /\ mainAt = "stopped" => led.at = "none"
  /\ mainAt = "speed" => led.mode = "Wave"

Shows ==
  /\ led.at = "set" => led.lit = {}
  /\ mainAt = "startupRuns" /\ led.at \in Placed => \E i \in Lights : led.lit = {i}
  /\ mainAt = "speed" /\ led.settled /\ led.at \in Placed =>
       \E i \in Lights : led.lit = 0 .. i

OneInRange ==
  mainAt = "startupRuns" =>
    led.iter \in IF led.at = "wrap" THEN {2 * n : n \in Powers} ELSE Powers

WaveInRange ==
  /\ led.iter >= 1
  /\ mainAt = "speed" /\ (led.at = "wait" \/ (led.settled /\ led.at \in {"clear", "set", "next"}))
       => led.iter <= 8

LedInv == LedTypeOK /\ Phases /\ Shows /\ OneInRange /\ WaveInRange

(* The figures of the running light are single lights, those of the bar    *)
(* begin at the first LED.                                                 *)
LEMMA FiguresShow ==
  /\ \A n \in Powers : \E i \in Lights : Bits(n) = {i}
  /\ \A n \in 1 .. 8 : \E i \in Lights : Bits(2 ^ n - 1) = 0 .. i
<1>1. /\ 2 ^ 0 = 1 /\ 2 ^ 1 = 2 /\ 2 ^ 2 = 4 /\ 2 ^ 3 = 8 /\ 2 ^ 4 = 16 /\ 2 ^ 5 = 32
      /\ 2 ^ 6 = 64 /\ 2 ^ 7 = 128 /\ 2 ^ 8 = 256
  OBVIOUS
<1>2. Lights = {0, 1, 2, 3, 4, 5, 6, 7}
  BY DEF Lights
<1>3. ASSUME NEW n \in Nat
      PROVE  /\ Bits(n) \subseteq {0, 1, 2, 3, 4, 5, 6, 7}
             /\ 0 \in Bits(n) <=> n % 2 = 1
             /\ 1 \in Bits(n) <=> (n \div 2) % 2 = 1
             /\ 2 \in Bits(n) <=> (n \div 4) % 2 = 1
             /\ 3 \in Bits(n) <=> (n \div 8) % 2 = 1
             /\ 4 \in Bits(n) <=> (n \div 16) % 2 = 1
             /\ 5 \in Bits(n) <=> (n \div 32) % 2 = 1
             /\ 6 \in Bits(n) <=> (n \div 64) % 2 = 1
             /\ 7 \in Bits(n) <=> (n \div 128) % 2 = 1
  <2>1. n \div 1 = n
    OBVIOUS
  <2> QED  BY <1>1, <1>2, <2>1 DEF Bits
<1>4. /\ Bits(1) = {0} /\ Bits(2) = {1} /\ Bits(4) = {2} /\ Bits(8) = {3}
      /\ Bits(16) = {4} /\ Bits(32) = {5} /\ Bits(64) = {6} /\ Bits(128) = {7}
  <2>1. Bits(1) = {0}  BY <1>3
  <2>2. Bits(2) = {1}  BY <1>3
  <2>3. Bits(4) = {2}  BY <1>3
  <2>4. Bits(8) = {3}  BY <1>3
  <2>5. Bits(16) = {4}  BY <1>3
  <2>6. Bits(32) = {5}  BY <1>3
  <2>7. Bits(64) = {6}  BY <1>3
  <2>8. Bits(128) = {7}  BY <1>3
  <2> QED  BY <2>1, <2>2, <2>3, <2>4, <2>5, <2>6, <2>7, <2>8
<1>5. /\ Bits(1) = 0 .. 0 /\ Bits(3) = 0 .. 1 /\ Bits(7) = 0 .. 2 /\ Bits(15) = 0 .. 3
      /\ Bits(31) = 0 .. 4 /\ Bits(63) = 0 .. 5 /\ Bits(127) = 0 .. 6 /\ Bits(255) = 0 .. 7
  <2>1. Bits(1) = 0 .. 0  BY <1>3
  <2>2. Bits(3) = 0 .. 1  BY <1>3
  <2>3. Bits(7) = 0 .. 2  BY <1>3
  <2>4. Bits(15) = 0 .. 3  BY <1>3
  <2>5. Bits(31) = 0 .. 4  BY <1>3
  <2>6. Bits(63) = 0 .. 5  BY <1>3
  <2>7. Bits(127) = 0 .. 6  BY <1>3
  <2>8. Bits(255) = 0 .. 7  BY <1>3
  <2> QED  BY <2>1, <2>2, <2>3, <2>4, <2>5, <2>6, <2>7, <2>8
<1>6. ASSUME NEW n \in 1 .. 8  PROVE 2 ^ n - 1 \in {1, 3, 7, 15, 31, 63, 127, 255}
  <2>1. n = 1 => 2 ^ n = 2  BY <1>1
  <2>2. n = 2 => 2 ^ n = 4  BY <1>1
  <2>3. n = 3 => 2 ^ n = 8  BY <1>1
  <2>4. n = 4 => 2 ^ n = 16  BY <1>1
  <2>5. n = 5 => 2 ^ n = 32  BY <1>1
  <2>6. n = 6 => 2 ^ n = 64  BY <1>1
  <2>7. n = 7 => 2 ^ n = 128  BY <1>1
  <2>8. n = 8 => 2 ^ n = 256  BY <1>1
  <2> QED  BY <2>1, <2>2, <2>3, <2>4, <2>5, <2>6, <2>7, <2>8
<1> QED  BY <1>2, <1>4, <1>5, <1>6 DEF Powers

(* What the invariant says of the row when the task waits.                 *)
LEMMA LedImplies == LedInv => LightsRight
<1> SUFFICES ASSUME LedInv, led.at = "wait"
             PROVE  CASE led.mode = "OneWave" -> \E i \in Lights : led.lit = {i}
                      [] led.mode = "Wave" /\ led.settled -> \E i \in Lights : led.lit = 0 .. i
                      [] OTHER -> TRUE
  BY DEF LightsRight
<1>1. mainAt = "startupRuns" \/ mainAt = "speed"
  BY DEF LedInv, LedTypeOK, Phases
<1>2. led.mode = "OneWave" => \E i \in Lights : led.lit = {i}
  BY <1>1 DEF LedInv, Phases, Shows, Placed
<1>3. led.mode = "Wave" /\ led.settled => \E i \in Lights : led.lit = 0 .. i
  BY <1>1 DEF LedInv, Phases, Shows, Placed
<1> QED  BY <1>2, <1>3

(* After reset no light is on and no task runs.                            *)
LEMMA LedInitial == LedInit => LedInv
BY DEF LedInit, LedInv, LedTypeOK, Phases, Shows, OneInRange, WaveInRange, Placed, Powers

(* What drv_led_start() makes of the LEDs.                                 *)
LEMMA LedStarts ==
  ASSUME LedTypeOK, NEW m \in {"OneWave", "Wave"}, NEW d \in Nat, drv_led_start(m, d),
         mainAt' \in {"startup", "startupRuns", "stopped", "speed"}
  PROVE  /\ LedTypeOK'
         /\ led'.mode = m /\ led'.at = "clear" /\ led'.iter = led.iter /\ led'.settled = FALSE
<1>1. led' = [led EXCEPT !.mode = m, !.delay = d, !.at = "clear", !.settled = FALSE]
  BY DEF drv_led_start
<1>2. LedTypeOK'
  BY <1>1 DEF LedTypeOK
<1>3. led'.mode = m /\ led'.at = "clear" /\ led'.iter = led.iter /\ led'.settled = FALSE
  BY <1>1 DEF LedTypeOK
<1> QED  BY <1>2, <1>3

(* main_task creates, deletes and delays led_task.                         *)
LEMMA MainKeepsLed ==
  ASSUME LedInv, StartsUp \/ drv_led_stop \/ StartsWave \/ drv_led_speed
  PROVE  LedInv'
<1>1. LedTypeOK /\ WaveInRange
  BY DEF LedInv
<1>2. CASE StartsUp
  <2>1. mainAt' = "startupRuns" /\ led.iter = 1 /\ drv_led_start("OneWave", 50)
    BY <1>2 DEF StartsUp, LedInv, Phases
  <2>2. /\ LedTypeOK'
        /\ led'.mode = "OneWave" /\ led'.at = "clear" /\ led'.iter = led.iter
    BY <1>1, <2>1, LedStarts
  <2> QED  BY <2>1, <2>2 DEF LedInv, Phases, Shows, OneInRange, WaveInRange, Placed, Powers
<1>3. CASE drv_led_stop
  <2>1. led' = [led EXCEPT !.at = "none"] /\ mainAt' = "stopped"
    BY <1>3 DEF drv_led_stop
  <2>2. LedTypeOK'
    BY <1>1, <2>1 DEF LedTypeOK
  <2>3. led'.at = "none" /\ led'.iter = led.iter
    BY <1>1, <2>1 DEF LedTypeOK
  <2> QED  BY <1>1, <2>1, <2>2, <2>3 DEF LedInv, Phases, Shows, OneInRange, WaveInRange, Placed
<1>4. CASE StartsWave
  <2>1. mainAt' = "speed" /\ drv_led_start("Wave", 500)
    BY <1>4 DEF StartsWave
  <2>2. /\ LedTypeOK'
        /\ led'.mode = "Wave" /\ led'.at = "clear" /\ led'.iter = led.iter
        /\ led'.settled = FALSE
    <3>1. /\ mainAt' \in {"startup", "startupRuns", "stopped", "speed"}
          /\ "Wave" \in {"OneWave", "Wave"} /\ 500 \in Nat
      BY <2>1
    <3> QED  BY <1>1, <2>1, <3>1, LedStarts
  <2> QED  BY <1>1, <2>1, <2>2 DEF LedInv, Phases, Shows, OneInRange, WaveInRange, Placed
<1>5. CASE drv_led_speed
  <2>1. PICK v \in PotValues : led' = [led EXCEPT !.delay = IF v < 50 THEN 50 ELSE v]
    BY <1>5 DEF drv_led_speed
  <2>2. mainAt' = mainAt
    BY <1>5 DEF drv_led_speed
  <2>3. (IF v < 50 THEN 50 ELSE v) \in Nat
    BY LedAssumption
  <2>4. LedTypeOK'
    BY <1>1, <2>1, <2>2, <2>3 DEF LedTypeOK
  <2>5. /\ led'.mode = led.mode /\ led'.lit = led.lit /\ led'.iter = led.iter
        /\ led'.at = led.at /\ led'.settled = led.settled
    <3> DEFINE delay == IF v < 50 THEN 50 ELSE v
    <3>1. led' = [led EXCEPT !.delay = delay]
      BY <2>1
    <3> HIDE DEF delay
    <3> QED  BY <1>1, <3>1 DEF LedTypeOK
  <2> QED  BY <2>2, <2>4, <2>5 DEF LedInv, Phases, Shows, OneInRange, WaveInRange
<1> QED  BY <1>2, <1>3, <1>4, <1>5

(* The task is not deleted: a step of led_task has one of two modes.       *)
LEMMA LedRuns ==
  ASSUME LedInv, led.at # "none"
  PROVE  \/ mainAt = "startupRuns" /\ led.mode = "OneWave"
         \/ mainAt = "speed" /\ led.mode = "Wave"
BY DEF LedInv, LedTypeOK, Phases

(* led_task darkens the row, shows the next figure and waits.              *)
LEMMA RowKeepsLed ==
  ASSUME LedInv, drv_led_clear \/ drv_led_set \/ DelayEnds
  PROVE  LedInv'
<1>1. LedTypeOK /\ mainAt' = mainAt /\ led.at # "none"
  BY DEF LedInv, drv_led_clear, drv_led_set, DelayEnds
<1>2. CASE drv_led_clear
  <2>1. led.at = "clear" /\ led' = [led EXCEPT !.lit = {}, !.at = "set"]
    BY <1>2 DEF drv_led_clear
  <2>2. LedTypeOK'
    BY <1>1, <2>1 DEF LedTypeOK
  <2>3. /\ led'.mode = led.mode /\ led'.lit = {} /\ led'.iter = led.iter
        /\ led'.at = "set" /\ led'.settled = led.settled
    BY <1>1, <2>1 DEF LedTypeOK
  <2> QED  BY <1>1, <2>1, <2>2, <2>3
           DEF LedInv, Phases, Shows, OneInRange, WaveInRange, Placed
<1>3. CASE drv_led_set
  <2>1. PICK on \in Figures : led' = [led EXCEPT !.lit = @ \cup on, !.at = "next"]
    BY <1>3 DEF drv_led_set
  <2>2. led.at = "set" /\ led.lit = {} /\ led.iter \in Nat /\ led.iter >= 1
    BY <1>1, <1>3 DEF drv_led_set, LedInv, Shows, WaveInRange, LedTypeOK
  <2>3. on \in SUBSET Lights
    BY DEF Figures, Bits
  <2>4. LedTypeOK'
    BY <1>1, <2>1, <2>3 DEF LedTypeOK
  <2>5. /\ led'.mode = led.mode /\ led'.lit = on /\ led'.iter = led.iter
        /\ led'.at = "next" /\ led'.settled = led.settled
    BY <1>1, <2>1, <2>2 DEF LedTypeOK
  <2>6. mainAt = "startupRuns" => \E i \in Lights : on = {i}
    <3>1. SUFFICES ASSUME mainAt = "startupRuns"  PROVE \E i \in Lights : on = {i}
      OBVIOUS
    <3>2. led.mode = "OneWave" /\ led.iter \in Powers
      BY <2>2, <3>1 DEF LedInv, Phases, OneInRange
    <3>3. on = Bits(led.iter)
      BY <3>2 DEF Figures
    <3> QED  BY <3>2, <3>3, FiguresShow
  <2>7. mainAt = "speed" /\ led.settled => \E i \in Lights : on = 0 .. i
    <3>1. SUFFICES ASSUME mainAt = "speed", led.settled  PROVE \E i \in Lights : on = 0 .. i
      OBVIOUS
    <3>2. led.mode = "Wave" /\ led.iter <= 8 /\ led.iter \in 1 .. 8
      BY <2>2, <3>1 DEF LedInv, Phases, WaveInRange
    <3>3. on = Bits(2 ^ led.iter - 1)
      BY <3>2 DEF Figures
    <3> QED  BY <3>2, <3>3, FiguresShow
  <2> QED  BY <1>1, <2>2, <2>4, <2>5, <2>6, <2>7
           DEF LedInv, Phases, Shows, OneInRange, WaveInRange
<1>4. CASE DelayEnds
  <2>1. led.at = "wait" /\ led' = [led EXCEPT !.at = "clear", !.settled = TRUE]
    BY <1>4 DEF DelayEnds
  <2>2. LedTypeOK'
    BY <1>1, <2>1 DEF LedTypeOK
  <2>3. /\ led'.mode = led.mode /\ led'.iter = led.iter /\ led'.at = "clear"
    BY <1>1, <2>1 DEF LedTypeOK
  <2> QED  BY <1>1, <2>1, <2>2, <2>3
           DEF LedInv, Phases, Shows, OneInRange, WaveInRange, Placed
<1> QED  BY <1>2, <1>3, <1>4

(* iter goes on, and back to 1 at the end of the row.                      *)
LEMMA IterKeepsLed ==
  ASSUME LedInv, Advance \/ Wrap  PROVE LedInv'
<1>1. LedTypeOK /\ mainAt' = mainAt /\ led.at # "none" /\ led.iter \in Nat /\ led.iter >= 1
  BY DEF LedInv, Advance, Wrap, LedTypeOK, WaveInRange
<1>2. CASE Advance
  <2> DEFINE next == IF led.mode = "OneWave" THEN 2 * led.iter ELSE led.iter + 1
  <2>1. led.at = "next" /\ led' = [led EXCEPT !.iter = next, !.at = "wrap"] /\ next \in Nat
    BY <1>1, <1>2 DEF Advance
  <2> HIDE DEF next
  <2>2. LedTypeOK'
    BY <1>1, <2>1 DEF LedTypeOK
  <2>3. /\ led'.mode = led.mode /\ led'.lit = led.lit /\ led'.iter = next
        /\ led'.at = "wrap" /\ led'.settled = led.settled
    BY <1>1, <2>1 DEF LedTypeOK
  <2>4. /\ mainAt = "startupRuns" => next \in {2 * n : n \in Powers}
        /\ next >= 1
    BY <1>1, <2>1 DEF next, LedInv, Phases, OneInRange
  <2> QED  BY <1>1, <2>1, <2>2, <2>3, <2>4
           DEF LedInv, Phases, Shows, OneInRange, WaveInRange, Placed
<1>3. CASE Wrap
  <2> DEFINE next == IF led.iter > Last(led.mode) THEN 1 ELSE led.iter
  <2>1. led.at = "wrap" /\ led' = [led EXCEPT !.iter = next, !.at = "wait"] /\ next \in Nat
    BY <1>1, <1>3 DEF Wrap
  <2> HIDE DEF next
  <2>2. LedTypeOK'
    BY <1>1, <2>1 DEF LedTypeOK
  <2>3. /\ led'.mode = led.mode /\ led'.lit = led.lit /\ led'.iter = next
        /\ led'.at = "wait" /\ led'.settled = led.settled
    BY <1>1, <2>1 DEF LedTypeOK
  <2>4. mainAt = "startupRuns" => next \in Powers
    <3>1. SUFFICES ASSUME mainAt = "startupRuns"  PROVE next \in Powers
      OBVIOUS
    <3>2. PICK n \in Powers : led.iter = 2 * n
      BY <2>1, <3>1 DEF LedInv, OneInRange
    <3>3. Last(led.mode) = 128
      BY <3>1 DEF LedInv, Phases, Last
    <3> QED  BY <3>2, <3>3 DEF next, Powers
  <2>5. /\ mainAt = "speed" => next <= 8
        /\ next >= 1
    BY <1>1 DEF next, LedInv, Phases, Last
  <2> QED  BY <1>1, <2>1, <2>2, <2>3, <2>4, <2>5
           DEF LedInv, Phases, Shows, OneInRange, WaveInRange, Placed
<1> QED  BY <1>2, <1>3

(* The invariant is inductive in the steps of the LEDs.                    *)
LEMMA LedStep ==
  ASSUME LedInv, LedNext \/ UNCHANGED ledVars  PROVE LedInv'
<1>1. CASE UNCHANGED ledVars
  BY <1>1 DEF ledVars, LedInv, LedTypeOK, Phases, Shows, OneInRange, WaveInRange
<1>2. CASE LedNext
  BY <1>2, MainKeepsLed, RowKeepsLed, IterKeepsLed DEF LedNext
<1> QED  BY <1>1, <1>2

-----------------------------------------------------------------------------
(* The clock.  What the drivers need of it: after SystemInit() nothing but *)
(* a driver switches power off, and the registers stay a record of the     *)
(* same fields, whatever is written.                                       *)
Holds(x, fields) == x = [f \in fields |-> x[f]]

ScFields == {"reg", "ready", "pll", "div", "power"}

(* A step of the clock takes no power from a driver.                       *)
LEMMA ClockKeepsPower ==
  ASSUME Holds(sc, ScFields), ClockNext
  PROVE  /\ Holds(sc', ScFields)
         /\ Done => Done' /\ sc'.power = sc.power
<1>1. CASE Boots
  <2>1. ~Done
    BY <1>1 DEF Boots
  <2>2. Holds(sc', ScFields)
    BY <1>1 DEF Boots, Holds, ScFields
  <2> QED  BY <2>1, <2>2
<1>2. CASE OscillatorStarts
  BY <1>2 DEF OscillatorStarts, Holds, ScFields, Done
<1>3. CASE \E n \in {0, 1} : PllLocks(n)
  BY <1>3 DEF PllLocks, Holds, ScFields, Done
<1>4. CASE SystemCoreClockUpdate
  BY <1>4 DEF SystemCoreClockUpdate, Done
<1> QED  BY <1>1, <1>2, <1>3, <1>4 DEF ClockNext

(* Nor does the load or the unload of another driver.                      *)
LEMMA PinsKeepPower ==
  ASSUME Holds(sc, ScFields), PinsNext
  PROVE  /\ Holds(sc', ScFields)
         /\ Done => Done' /\ sc.power \subseteq sc'.power
<1>1. step' = step
  BY DEF PinsNext, Loads, Unloads, clockVars, drv_led_load, drv_buzz_load, drv_pot_load,
         drv_usr_int_load, drv_lcd_load, drv_tcs_load, drv_sd_load, drv_led_unload,
         drv_buzz_unload
<1>2. sc' \in {sc, LcdClock, TcsClock, SdClock}
  BY DEF PinsNext, Loads, Unloads, clockVars, drv_led_load, drv_buzz_load, drv_pot_load,
         drv_usr_int_load, drv_lcd_load, drv_tcs_load, drv_sd_load, drv_led_unload,
         drv_buzz_unload
<1>3. ASSUME NEW x, Holds(x, ScFields), NEW type, NEW div
      PROVE  Holds(OrDiv(x, type, div), ScFields) /\ OrDiv(x, type, div).power = x.power
  <2>1. PICK v : OrDiv(x, type, div) = [x EXCEPT !.div[type] = v]
    BY DEF OrDiv
  <2> QED  BY <1>3, <2>1 DEF Holds, ScFields
<1>4. /\ Holds(LcdClock, ScFields) /\ sc.power \subseteq LcdClock.power
  <2> DEFINE x == [sc EXCEPT !.power = @ \cup {10}]
  <2>1. Holds(x, ScFields) /\ sc.power \subseteq x.power
    BY DEF Holds, ScFields
  <2> QED  BY <1>3, <2>1 DEF LcdClock
<1>5. /\ Holds(TcsClock, ScFields) /\ sc.power \subseteq TcsClock.power
  <2> DEFINE x == [sc EXCEPT !.power = @ \cup {21}, !.div[42] = 0]
  <2>1. Holds(x, ScFields) /\ sc.power \subseteq x.power
    BY DEF Holds, ScFields
  <2> QED  BY <1>3, <2>1 DEF TcsClock
<1>6. /\ Holds(SdClock, ScFields) /\ sc.power \subseteq SdClock.power
  <2> DEFINE x == [sc EXCEPT !.power = @ \cup {8}, !.div[16] = 0]
  <2>1. Holds(x, ScFields) /\ sc.power \subseteq x.power
    BY DEF Holds, ScFields
  <2> QED  BY <1>3, <2>1 DEF SdClock
<1>7. Holds(sc', ScFields) /\ sc.power \subseteq sc'.power
  BY <1>2, <1>4, <1>5, <1>6
<1> QED  BY <1>1, <1>7 DEF Done

-----------------------------------------------------------------------------
(* The start-up of the clock.  SystemInit() as a list of single steps:     *)
(* what is an instruction, and what stands at each place.                  *)
Named == {"SCS", "CCLKCFG", "PCLKSEL", "CLKSRCSEL", "PLL0CFG", "PLL0CON", "PLL1CFG", "PLL1CON",
           "PCONP", "CLKOUTCFG", "FLASHCFG", "VTOR",
           "oscillator", "PLOCK0", "PLOCK1", "PLLSTAT0", "PLLSTAT1"}

Instruction == [op : {"write", "feed", "wait"}, of : {0, 1} \cup Named, val : Nat]

(* The three operations make instructions.                                 *)
LEMMA InstructionsAre ==
  /\ \A reg \in Named, val \in Nat : Puts(reg, val) \in Instruction
  /\ \A what \in Named : Await(what) \in Instruction
  /\ \A n \in {0, 1} : FeedPll(n) \in Instruction
BY DEF Puts, FeedPll, Await, Instruction

(* The eight steps that set up a PLL.                                      *)
LEMMA SetUpIs ==
  ASSUME NEW n \in {0, 1}, NEW cfg \in Nat
  PROVE  LET q   == SetUp(n, cfg)
             con == IF n = 0 THEN "PLL0CON" ELSE "PLL1CON"
         IN  /\ q \in Seq(Instruction) /\ Len(q) = 8
             /\ q[1] = Puts(IF n = 0 THEN "PLL0CFG" ELSE "PLL1CFG", cfg) /\ q[2] = FeedPll(n)
             /\ q[3] = Puts(con, 1) /\ q[4] = FeedPll(n)
             /\ q[5] = Await(IF n = 0 THEN "PLOCK0" ELSE "PLOCK1")
             /\ q[6] = Puts(con, 3) /\ q[7] = FeedPll(n)
             /\ q[8] = Await(IF n = 0 THEN "PLLSTAT0" ELSE "PLLSTAT1")
<1> DEFINE con == IF n = 0 THEN "PLL0CON" ELSE "PLL1CON"
           o1 == Puts(IF n = 0 THEN "PLL0CFG" ELSE "PLL1CFG", cfg)
           o2 == FeedPll(n)
           o3 == Puts(con, 1)
           o5 == Await(IF n = 0 THEN "PLOCK0" ELSE "PLOCK1")
           o6 == Puts(con, 3)
           o8 == Await(IF n = 0 THEN "PLLSTAT0" ELSE "PLLSTAT1")
<1>1. SetUp(n, cfg) = <<o1, o2, o3, o2, o5, o6, o2, o8>>
  BY DEF SetUp
<1>2. /\ o1 \in Instruction /\ o2 \in Instruction /\ o3 \in Instruction
      /\ o5 \in Instruction /\ o6 \in Instruction /\ o8 \in Instruction
  BY InstructionsAre DEF Named
<1> HIDE DEF o1, o2, o3, o5, o6, o8
<1>3. LET q == SetUp(n, cfg) IN
      /\ q \in Seq(Instruction) /\ Len(q) = 8
      /\ q[1] = o1 /\ q[2] = o2 /\ q[3] = o3 /\ q[4] = o2 /\ q[5] = o5 /\ q[6] = o6
      /\ q[7] = o2 /\ q[8] = o8
  BY <1>1, <1>2
<1> QED  BY <1>3 DEF o1, o2, o3, o5, o6, o8

(* Two lists of instructions one after the other.                          *)
LEMMA Joined ==
  ASSUME NEW p \in Seq(Instruction), NEW q \in Seq(Instruction)
  PROVE  /\ p \o q \in Seq(Instruction) /\ Len(p \o q) = Len(p) + Len(q)
         /\ \A i \in 1 .. Len(p) : (p \o q)[i] = p[i]
         /\ \A i \in 1 .. Len(q) : (p \o q)[i + Len(p)] = q[i]
<1>1. /\ p \o q \in Seq(Instruction) /\ Len(p \o q) = Len(p) + Len(q)
      /\ \A i \in 1 .. Len(p) + Len(q) :
           (p \o q)[i] = IF i <= Len(p) THEN p[i] ELSE q[i - Len(p)]
  BY ConcatProperties
<1>2. Len(p) \in Nat /\ Len(q) \in Nat
  BY LenProperties
<1>3. \A i \in 1 .. Len(q) : /\ i + Len(p) \in 1 .. Len(p) + Len(q)
                             /\ ~(i + Len(p) <= Len(p)) /\ (i + Len(p)) - Len(p) = i
  BY <1>2
<1>4. \A i \in 1 .. Len(p) : i \in 1 .. Len(p) + Len(q) /\ i <= Len(p)
  BY <1>2
<1> QED  BY <1>1, <1>3, <1>4

(* The 25 steps of SystemInit(). *)
LEMMA StepsAre ==
  /\ Len(SystemInit) = 25
  /\ SystemInit[1] = Puts("SCS", 32) /\ SystemInit[2] = Await("oscillator")
  /\ SystemInit[3] = Puts("CCLKCFG", 3) /\ SystemInit[4] = Puts("PCLKSEL", 0)
  /\ SystemInit[5] = Puts("CLKSRCSEL", 1)
  /\ SystemInit[6] = Puts("PLL0CFG", PLL0CFG_Val) /\ SystemInit[7] = FeedPll(0)
  /\ SystemInit[8] = Puts("PLL0CON", 1) /\ SystemInit[9] = FeedPll(0)
  /\ SystemInit[10] = Await("PLOCK0")
  /\ SystemInit[11] = Puts("PLL0CON", 3) /\ SystemInit[12] = FeedPll(0)
  /\ SystemInit[13] = Await("PLLSTAT0")
  /\ SystemInit[14] = Puts("PLL1CFG", 35) /\ SystemInit[15] = FeedPll(1)
  /\ SystemInit[16] = Puts("PLL1CON", 1) /\ SystemInit[17] = FeedPll(1)
  /\ SystemInit[18] = Await("PLOCK1")
  /\ SystemInit[19] = Puts("PLL1CON", 3) /\ SystemInit[20] = FeedPll(1)
  /\ SystemInit[21] = Await("PLLSTAT1")
  /\ \E v \in Nat : SystemInit[22] = Puts("PCONP", v)
  /\ \E v \in Nat : SystemInit[23] = Puts("CLKOUTCFG", v)
  /\ \E v \in Nat : SystemInit[24] = Puts("FLASHCFG", v)
  /\ \E v \in Nat : SystemInit[25] = Puts("VTOR", v)
<1> DEFINE a == <<Puts("SCS", 32), Await("oscillator"), Puts("CCLKCFG", CCLKCFG_Val),
                  Puts("PCLKSEL", 0), Puts("CLKSRCSEL", CLKSRCSEL_Val)>>
           b == SetUp(0, PLL0CFG_Val)
           c == SetUp(1, \h23)
           x == \h042887DE
           y == \h303A
           d == <<Puts("PCONP", x), Puts("CLKOUTCFG", 0), Puts("FLASHCFG", y), Puts("VTOR", 0)>>
<1>0. x \in Nat /\ y \in Nat
  BY SMT
<1>5. SystemInit = ((a \o b) \o c) \o d
  BY SMT DEF SystemInit
<1> HIDE DEF x, y
<1>1. /\ a \in Seq(Instruction) /\ Len(a) = 5 /\ a[1] = Puts("SCS", 32)
      /\ a[2] = Await("oscillator") /\ a[3] = Puts("CCLKCFG", 3) /\ a[4] = Puts("PCLKSEL", 0)
      /\ a[5] = Puts("CLKSRCSEL", 1)
  BY InstructionsAre DEF Named, CCLKCFG_Val, CLKSRCSEL_Val
<1>2. /\ b \in Seq(Instruction) /\ Len(b) = 8 
      /\ b[1] = Puts("PLL0CFG", PLL0CFG_Val) /\ b[2] = FeedPll(0)
      /\ b[3] = Puts("PLL0CON", 1) /\ b[4] = FeedPll(0) /\ b[5] = Await("PLOCK0")
      /\ b[6] = Puts("PLL0CON", 3) /\ b[7] = FeedPll(0) /\ b[8] = Await("PLLSTAT0")
  <2>1. PLL0CFG_Val \in Nat
    BY DEF PLL0CFG_Val
  <2> QED  BY <2>1, SetUpIs
<1>3. /\ c \in Seq(Instruction) /\ Len(c) = 8 
      /\ c[1] = Puts("PLL1CFG", 35) /\ c[2] = FeedPll(1)
      /\ c[3] = Puts("PLL1CON", 1) /\ c[4] = FeedPll(1) /\ c[5] = Await("PLOCK1")
      /\ c[6] = Puts("PLL1CON", 3) /\ c[7] = FeedPll(1) /\ c[8] = Await("PLLSTAT1")
  BY SetUpIs
<1>4. /\ d \in Seq(Instruction) /\ Len(d) = 4 /\ d[1] = Puts("PCONP", x)
      /\ d[2] = Puts("CLKOUTCFG", 0) /\ d[3] = Puts("FLASHCFG", y) /\ d[4] = Puts("VTOR", 0)
  BY <1>0, InstructionsAre DEF Named
<1> HIDE DEF a, b, c, d
<1> DEFINE e == a \o b
           f == e \o c
           z == f \o d
<1>7. /\ e \in Seq(Instruction) /\ Len(e) = 13
      /\ e[1] = a[1] /\ e[2] = a[2] /\ e[3] = a[3] /\ e[4] = a[4] /\ e[5] = a[5]
      /\ e[6] = b[1] /\ e[7] = b[2] /\ e[8] = b[3] /\ e[9] = b[4]
      /\ e[10] = b[5] /\ e[11] = b[6] /\ e[12] = b[7] /\ e[13] = b[8]
  <2>1. /\ e \in Seq(Instruction) /\ Len(e) = Len(a) + Len(b)
        /\ \A i \in 1 .. Len(a) : e[i] = a[i]
        /\ \A i \in 1 .. Len(b) : e[i + Len(a)] = b[i]
    BY <1>1, <1>2, Joined
  <2> HIDE DEF e
  <2> QED  BY <1>1, <1>2, <2>1
<1> HIDE DEF e
<1>8. /\ f \in Seq(Instruction) /\ Len(f) = 21
      /\ (\A i \in 1 .. 13 : f[i] = e[i]) 
      /\ f[14] = c[1] /\ f[15] = c[2] /\ f[16] = c[3] /\ f[17] = c[4]
      /\ f[18] = c[5] /\ f[19] = c[6] /\ f[20] = c[7] /\ f[21] = c[8]
  <2>1. /\ f \in Seq(Instruction) /\ Len(f) = Len(e) + Len(c)
        /\ \A i \in 1 .. Len(e) : f[i] = e[i]
        /\ \A i \in 1 .. Len(c) : f[i + Len(e)] = c[i]
    BY <1>3, <1>7, Joined
  <2> HIDE DEF f
  <2> QED  BY <1>3, <1>7, <2>1
<1> HIDE DEF f
<1>9. /\ Len(z) = 25 /\ (\A i \in 1 .. 21 : z[i] = f[i])
      /\ z[22] = d[1] /\ z[23] = d[2] /\ z[24] = d[3] /\ z[25] = d[4]
  <2>1. /\ z \in Seq(Instruction) /\ Len(z) = Len(f) + Len(d)
        /\ \A i \in 1 .. Len(f) : z[i] = f[i]
        /\ \A i \in 1 .. Len(d) : z[i + Len(f)] = d[i]
    BY <1>4, <1>8, Joined
  <2> HIDE DEF z
  <2> QED  BY <1>4, <1>8, <2>1
<1> HIDE DEF z
<1>11. SystemInit = z
  BY <1>5 DEF e, f, z
<1> QED
  <2>1. /\ z[1] = a[1] /\ z[2] = a[2] /\ z[3] = a[3] /\ z[4] = a[4] /\ z[5] = a[5]
        /\ z[6] = b[1] /\ z[7] = b[2] /\ z[8] = b[3] /\ z[9] = b[4]
        /\ z[10] = b[5] /\ z[11] = b[6] /\ z[12] = b[7] /\ z[13] = b[8]
    <3>1. \A i \in 1 .. 13 : z[i] = e[i]
      BY <1>8, <1>9
    <3> QED  BY <1>7, <3>1
  <2>2. /\ z[14] = c[1] /\ z[15] = c[2] /\ z[16] = c[3] /\ z[17] = c[4]
        /\ z[18] = c[5] /\ z[19] = c[6] /\ z[20] = c[7] /\ z[21] = c[8]
    BY <1>8, <1>9
  <2> QED  BY <1>0, <1>1, <1>2, <1>3, <1>4, <1>9, <1>11, <2>1, <2>2

(* The inductive invariant of the start-up: what SystemInit() has written  *)
(* and fed before step, and that it has waited for what it uses.           *)
ClockRegisters == {"SCS", "CCLKCFG", "CLKSRCSEL", "PLL0CFG", "PLL0CON", "PLL1CFG", "PLL1CON"}

PllRecord == [con : Nat, cfg : Nat, locked : BOOLEAN]

ClockType ==
  /\ Holds(sc, ScFields) /\ step \in 1 .. 26 /\ sc.ready \in BOOLEAN
  /\ Holds(sc.reg, DOMAIN sc.reg) /\ ClockRegisters \subseteq DOMAIN sc.reg
  /\ sc.pll \in [{0, 1} -> PllRecord]

RegistersWritten ==
  /\ sc.reg["SCS"] = IF step > 1 THEN 32 ELSE 0
  /\ sc.reg["CCLKCFG"] = IF step > 3 THEN 3 ELSE 0
  /\ sc.reg["CLKSRCSEL"] = IF step > 5 THEN 1 ELSE 0
  /\ sc.reg["PLL0CFG"] = IF step > 6 THEN PLL0CFG_Val ELSE 0
  /\ sc.reg["PLL0CON"] = IF step > 11 THEN 3 ELSE IF step > 8 THEN 1 ELSE 0
  /\ sc.reg["PLL1CFG"] = IF step > 14 THEN 35 ELSE 0
  /\ sc.reg["PLL1CON"] = IF step > 19 THEN 3 ELSE IF step > 16 THEN 1 ELSE 0

PllsFed ==
  /\ sc.pll[0].cfg = IF step > 7 THEN PLL0CFG_Val ELSE 0
  /\ sc.pll[0].con = IF step > 12 THEN 3 ELSE IF step > 9 THEN 1 ELSE 0
  /\ sc.pll[1].cfg = IF step > 15 THEN 35 ELSE 0
  /\ sc.pll[1].con = IF step > 20 THEN 3 ELSE IF step > 17 THEN 1 ELSE 0

Awaited ==
  /\ step > 2 => sc.ready
  /\ step > 10 => sc.pll[0].locked
  /\ step > 18 => sc.pll[1].locked

ClockInv == ClockType /\ RegistersWritten /\ PllsFed /\ Awaited /\ core = CORE_CLK

(* What the invariant says of the rates.                                   *)
LEMMA ClockImplies == ClockInv => CpuClocked
<1> SUFFICES ASSUME ClockInv  PROVE CpuClocked
  OBVIOUS
<1>1. /\ step \in 1 .. 26 /\ core = CORE_CLK
      /\ ClockType /\ RegistersWritten /\ PllsFed /\ Awaited
  BY DEF ClockInv, ClockType
<1>2. (Connected(0) <=> step > 12) /\ (Connected(1) <=> step > 20)
  BY <1>1 DEF Connected, PllsFed
<1>3. \A n \in {0, 1} : Connected(n) => sc.pll[n].locked /\ SourceReady(n)
  BY <1>1, <1>2 DEF Awaited, SourceReady
<1>4. ~Connected(0) => SourceReady(0)
  BY <1>1, <1>2 DEF Awaited, SourceReady, RegistersWritten
<1>5. Divided(XTAL, PLL0CFG_Val) = 6250000
  BY DEF Divided, XTAL, PLL0CFG_Val, Field
<1>6. CORE_CLK = 1562500
  BY <1>5 DEF CORE_CLK, Source, CLKSRCSEL_Val, CCLKCFG_Val
<1>7. CASE step > 12
  <2>1. /\ sc.reg["CLKSRCSEL"] = 1 /\ sc.reg["CCLKCFG"] = 3 /\ sc.pll[0].cfg = PLL0CFG_Val
    BY <1>1, <1>7 DEF RegistersWritten, PllsFed
  <2>2. CpuRate = 1562500
    BY <1>2, <1>5, <1>7, <2>1 DEF CpuRate, Source
  <2> QED  BY <1>1, <1>3, <1>4, <1>6, <2>2 DEF CpuClocked, MaxRate
<1>8. CASE ~(step > 12)
  <2>1. ~Done
    BY <1>1, <1>8, StepsAre DEF Done
  <2>2. /\ sc.reg["CLKSRCSEL"] \in {0, 1} /\ sc.reg["CCLKCFG"] \in {0, 3}
    BY <1>1 DEF RegistersWritten
  <2>3. CpuRate \in {Source(0), Source(1), Source(0) \div 4, Source(1) \div 4}
    BY <1>2, <1>8, <2>2 DEF CpuRate, Source, XTAL, IRC_OSC
  <2>4. CpuRate <= MaxRate
    BY <2>3 DEF Source, XTAL, IRC_OSC, MaxRate
  <2> QED  BY <1>3, <1>4, <2>1, <2>4 DEF CpuClocked
<1> QED  BY <1>7, <1>8

(* Nothing is written after reset.                                         *)
LEMMA ClockInitial == ClockInit => ClockInv
<1> SUFFICES ASSUME ClockInit  PROVE ClockInv
  OBVIOUS
<1>1. ClockRegisters \subseteq Registers \ {"PCLKSEL", "PCONP"}
  <2> SUFFICES ASSUME NEW r \in ClockRegisters
               PROVE  \E j \in 1 .. 25 : SystemInit[j].op = "write" /\ SystemInit[j].of = r
    BY StepsAre DEF Registers, ClockRegisters
  <2>1. \A j \in 1 .. 25 : \A q \in ClockRegisters, v \in Nat :
          SystemInit[j] = Puts(q, v) => SystemInit[j].op = "write" /\ SystemInit[j].of = q
    BY DEF Puts
  <2>2. PLL0CFG_Val \in Nat
    BY DEF PLL0CFG_Val
  <2> QED  BY <2>1, <2>2, StepsAre DEF ClockRegisters
<1>2. /\ Holds(sc, ScFields) /\ step = 1 /\ sc.ready = FALSE /\ core = CORE_CLK
      /\ sc.reg = [r \in Registers \ {"PCLKSEL", "PCONP"} |-> 0]
      /\ sc.pll = [n \in {0, 1} |-> [con |-> 0, cfg |-> 0, locked |-> FALSE]]
  BY DEF ClockInit, Holds, ScFields
<1>3. ClockType
  <2>1. Holds(sc.reg, DOMAIN sc.reg) /\ ClockRegisters \subseteq DOMAIN sc.reg
    BY <1>1, <1>2 DEF Holds
  <2>2. sc.pll \in [{0, 1} -> PllRecord]
    BY <1>2 DEF PllRecord
  <2>3. step \in 1 .. 26
    BY <1>2
  <2>4. sc.ready \in BOOLEAN
    BY <1>2
  <2> QED  BY <1>2, <2>1, <2>2, <2>3, <2>4 DEF ClockType
<1>4. \A r \in ClockRegisters : sc.reg[r] = 0
  BY <1>1, <1>2
<1> QED  BY <1>2, <1>3, <1>4 DEF ClockInv, RegistersWritten, PllsFed, Awaited, ClockRegisters

(* What a step of SystemInit() writes.                                     *)
LEMMA BootWrites ==
  ASSUME ClockInv, Boots, NEW r, NEW v, SystemInit[step] = Puts(r, v)
  PROVE  /\ Holds(sc', ScFields) /\ sc'.ready = sc.ready /\ sc'.pll = sc.pll
         /\ IF r \in {"PCLKSEL", "PCONP"} THEN sc'.reg = sc.reg
                                          ELSE sc'.reg = [sc.reg EXCEPT ![r] = v]
<1> DEFINE i == SystemInit[step]
<1>1. i.op = "write" /\ i.of = r /\ i.val = v
  BY DEF Puts
<1>2. Holds(sc, ScFields)
  BY DEF ClockInv, ClockType
<1>3. \/ r = "PCLKSEL" /\ sc' = [sc EXCEPT !.div = [type \in DOMAIN @ |-> 0]]
      \/ r = "PCONP" /\ sc' = [sc EXCEPT !.power = {b \in 0 .. 30 : Field(v, b, 1) = 1}]
      \/ r \notin {"PCLKSEL", "PCONP"} /\ sc' = [sc EXCEPT !.reg[r] = v]
  BY <1>1 DEF Boots
<1>4. CASE r = "PCLKSEL"
  BY <1>2, <1>3, <1>4 DEF Holds, ScFields
<1>5. CASE r = "PCONP"
  BY <1>2, <1>3, <1>5 DEF Holds, ScFields
<1>6. CASE r \notin {"PCLKSEL", "PCONP"}
  BY <1>2, <1>3, <1>6 DEF Holds, ScFields
<1> QED  BY <1>4, <1>5, <1>6

(* A feed changes one PLL.                                                 *)
LEMMA BootFeeds ==
  ASSUME ClockInv, Boots, NEW n \in {0, 1}, SystemInit[step] = FeedPll(n)
  PROVE  /\ Holds(sc', ScFields) /\ sc'.ready = sc.ready /\ sc'.reg = sc.reg
         /\ sc'.pll = [sc.pll EXCEPT ![n] = Fed(n)]
<1>1. sc' = [sc EXCEPT !.pll[n] = Fed(n)]
  BY DEF FeedPll, Boots
<1>2. Holds(sc, ScFields)
  BY DEF ClockInv, ClockType
<1> HIDE DEF Fed
<1> QED  BY <1>1, <1>2 DEF Holds, ScFields

(* A wait changes nothing.                                                 *)
LEMMA BootWaits ==
  ASSUME ClockInv, Boots, NEW w, SystemInit[step] = Await(w)
  PROVE  sc' = sc /\ WaitEnds(w)
BY DEF Await, Boots

(* A write keeps the invariant if it is the one that step says.            *)
LEMMA WriteKeepsClock ==
  ASSUME ClockInv, Boots, NEW r \in ClockRegisters, NEW v, SystemInit[step] = Puts(r, v),
         \/ step = 1 /\ r = "SCS" /\ v = 32
         \/ step = 3 /\ r = "CCLKCFG" /\ v = 3
         \/ step = 5 /\ r = "CLKSRCSEL" /\ v = 1
         \/ step = 6 /\ r = "PLL0CFG" /\ v = PLL0CFG_Val
         \/ step = 8 /\ r = "PLL0CON" /\ v = 1
         \/ step = 11 /\ r = "PLL0CON" /\ v = 3
         \/ step = 14 /\ r = "PLL1CFG" /\ v = 35
         \/ step = 16 /\ r = "PLL1CON" /\ v = 1
         \/ step = 19 /\ r = "PLL1CON" /\ v = 3
  PROVE  ClockInv'
<1>1. /\ ClockType /\ RegistersWritten /\ PllsFed /\ Awaited /\ core' = CORE_CLK
      /\ step' = step + 1
  BY DEF ClockInv, Boots
<1>2. /\ Holds(sc', ScFields) /\ sc'.ready = sc.ready /\ sc'.pll = sc.pll
      /\ sc'.reg = [sc.reg EXCEPT ![r] = v]
  BY BootWrites DEF ClockRegisters
<1>3. /\ Holds(sc'.reg, DOMAIN sc'.reg) /\ DOMAIN sc'.reg = DOMAIN sc.reg
      /\ \A q \in ClockRegisters : sc'.reg[q] = IF q = r THEN v ELSE sc.reg[q]
  BY <1>1, <1>2 DEF ClockType, Holds
<1>4. ClockType'
  BY <1>1, <1>2, <1>3 DEF ClockType
<1>5. RegistersWritten'
  BY <1>1, <1>3 DEF RegistersWritten, ClockRegisters
<1>6. PllsFed' /\ Awaited'
  BY <1>1, <1>2 DEF PllsFed, Awaited
<1> QED  BY <1>1, <1>4, <1>5, <1>6 DEF ClockInv

(* Nor do the other writes touch what the processor's clock rests on.      *)
LEMMA OtherWriteKeepsClock ==
  ASSUME ClockInv, Boots, NEW r, NEW v, SystemInit[step] = Puts(r, v),
         r \in {"PCLKSEL", "PCONP", "CLKOUTCFG", "FLASHCFG", "VTOR"}, step \in {4} \cup 22 .. 25
  PROVE  ClockInv'
<1>1. /\ ClockType /\ RegistersWritten /\ PllsFed /\ Awaited /\ core' = CORE_CLK
      /\ step' = step + 1
  BY DEF ClockInv, Boots
<1>2. /\ Holds(sc', ScFields) /\ sc'.ready = sc.ready /\ sc'.pll = sc.pll
      /\ IF r \in {"PCLKSEL", "PCONP"} THEN sc'.reg = sc.reg ELSE sc'.reg = [sc.reg EXCEPT ![r] = v]
  BY BootWrites
<1>3. /\ Holds(sc'.reg, DOMAIN sc'.reg) /\ DOMAIN sc'.reg = DOMAIN sc.reg
      /\ \A q \in ClockRegisters : sc'.reg[q] = sc.reg[q]
  BY <1>1, <1>2 DEF ClockType, Holds, ClockRegisters
<1>4. ClockType'
  BY <1>1, <1>2, <1>3 DEF ClockType
<1>5. RegistersWritten'
  BY <1>1, <1>3 DEF RegistersWritten, ClockRegisters
<1>6. PllsFed' /\ Awaited'
  BY <1>1, <1>2 DEF PllsFed, Awaited
<1> QED  BY <1>1, <1>4, <1>5, <1>6 DEF ClockInv

(* A feed comes after the write of what it hands to the PLL, and the one   *)
(* that connects it leaves it locked.                                      *)
LEMMA FeedKeepsClock ==
  ASSUME ClockInv, Boots, NEW n \in {0, 1}, SystemInit[step] = FeedPll(n),
         step \in (IF n = 0 THEN {7, 9, 12} ELSE {15, 17, 20})
  PROVE  ClockInv'
<1>1. /\ ClockType /\ RegistersWritten /\ PllsFed /\ Awaited /\ core' = CORE_CLK
      /\ step' = step + 1
  BY DEF ClockInv, Boots
<1>2. /\ Holds(sc', ScFields) /\ sc'.ready = sc.ready /\ sc'.reg = sc.reg
      /\ sc'.pll = [sc.pll EXCEPT ![n] = Fed(n)]
  BY BootFeeds
<1>3. Fed(n) \in PllRecord
  <2>1. PLL0CFG_Val \in Nat
    BY DEF PLL0CFG_Val
  <2>2. /\ sc.reg["PLL0CFG"] \in Nat /\ sc.reg["PLL0CON"] \in Nat
        /\ sc.reg["PLL1CFG"] \in Nat /\ sc.reg["PLL1CON"] \in Nat
    BY <1>1, <2>1 DEF RegistersWritten
  <2>3. sc.pll[n].locked \in BOOLEAN
    BY <1>1 DEF ClockType, PllRecord
  <2> QED  BY <2>2, <2>3 DEF Fed, PllRecord
<1>4. ClockType' /\ RegistersWritten'
  BY <1>1, <1>2, <1>3 DEF ClockType, RegistersWritten
<1>5. /\ sc'.pll[n] = Fed(n)
      /\ \A m \in {0, 1} \ {n} : sc'.pll[m] = sc.pll[m]
  BY <1>1, <1>2 DEF ClockType
<1>6. /\ Fed(n).cfg = sc.reg[IF n = 0 THEN "PLL0CFG" ELSE "PLL1CFG"]
      /\ Fed(n).con = sc.reg[IF n = 0 THEN "PLL0CON" ELSE "PLL1CON"]
      /\ sc.pll[n].locked /\ Fed(n).con # 0 /\ Fed(n).cfg = sc.pll[n].cfg => Fed(n).locked
  <2> DEFINE cfg == sc.reg[IF n = 0 THEN "PLL0CFG" ELSE "PLL1CFG"]
             con == sc.reg[IF n = 0 THEN "PLL0CON" ELSE "PLL1CON"]
  <2>1. Fed(n) = [con |-> con, cfg |-> cfg,
                  locked |-> sc.pll[n].locked /\ con # 0 /\ cfg = sc.pll[n].cfg]
    BY DEF Fed
  <2> HIDE DEF con, cfg
  <2>2. Fed(n).cfg = cfg /\ Fed(n).con = con
    BY <2>1
  <2>3. Fed(n).locked = (sc.pll[n].locked /\ con # 0 /\ cfg = sc.pll[n].cfg)
    BY <2>1
  <2> QED  BY <2>2, <2>3, Zenon DEF con, cfg
<1> HIDE DEF Fed
<1>7. PllsFed'
  <2>1. CASE n = 0
    BY <1>1, <1>5, <1>6, <2>1 DEF RegistersWritten, PllsFed
  <2>2. CASE n = 1
    BY <1>1, <1>5, <1>6, <2>2 DEF RegistersWritten, PllsFed
  <2> QED  BY <2>1, <2>2
<1>8. Awaited'
  <2>1. CASE n = 0 /\ step = 12
    <3>1. sc.pll[0].locked /\ sc.pll[0].cfg = PLL0CFG_Val
      BY <1>1, <2>1 DEF PllsFed, Awaited
    <3>2. sc.reg["PLL0CFG"] = PLL0CFG_Val /\ sc.reg["PLL0CON"] = 3
      BY <1>1, <2>1 DEF RegistersWritten
    <3>3. sc'.pll[0].locked
      BY <1>5, <1>6, <2>1, <3>1, <3>2
    <3> QED  BY <1>1, <1>2, <2>1, <3>3 DEF Awaited
  <2>2. CASE n = 1 /\ step = 20
    <3>1. sc.pll[1].locked /\ sc.pll[1].cfg = 35
      BY <1>1, <2>2 DEF PllsFed, Awaited
    <3>2. sc.reg["PLL1CFG"] = 35 /\ sc.reg["PLL1CON"] = 3
      BY <1>1, <2>2 DEF RegistersWritten
    <3>3. sc'.pll[1].locked
      BY <1>5, <1>6, <2>2, <3>1, <3>2
    <3>4. sc'.pll[0].locked
      BY <1>1, <1>5, <2>2 DEF Awaited
    <3> QED  BY <1>1, <1>2, <2>2, <3>3, <3>4 DEF Awaited
  <2>3. CASE step \in {7, 9}
    BY <1>1, <1>2, <2>3 DEF Awaited
  <2>4. CASE n = 1 /\ step \in {15, 17}
    BY <1>1, <1>2, <1>5, <2>4 DEF Awaited
  <2> QED  BY <2>1, <2>2, <2>3, <2>4
<1> QED  BY <1>1, <1>4, <1>7, <1>8 DEF ClockInv

(* The waits before a connection are for a lock.                           *)
LEMMA WaitKeepsClock ==
  ASSUME ClockInv, Boots, NEW w, SystemInit[step] = Await(w),
         \/ step = 2 /\ w = "oscillator"
         \/ step = 10 /\ w = "PLOCK0"
         \/ step = 18 /\ w = "PLOCK1"
         \/ step \in {13, 21}
  PROVE  ClockInv'
<1>1. /\ ClockType /\ RegistersWritten /\ PllsFed /\ Awaited /\ core' = CORE_CLK
      /\ step' = step + 1 /\ sc' = sc /\ WaitEnds(w)
  BY BootWaits DEF ClockInv, Boots
<1>2. ClockType' /\ RegistersWritten' /\ PllsFed'
  BY <1>1 DEF ClockType, RegistersWritten, PllsFed
<1>3. /\ w = "oscillator" => sc.ready
      /\ w = "PLOCK0" => sc.pll[0].locked
      /\ w = "PLOCK1" => sc.pll[1].locked
  BY <1>1 DEF WaitEnds
<1>4. Awaited'
  BY <1>1, <1>3 DEF Awaited
<1> QED  BY <1>1, <1>2, <1>4 DEF ClockInv

(* Each of the 25 steps keeps the invariant.                               *)
LEMMA BootKeepsClock ==
  ASSUME ClockInv, Boots  PROVE ClockInv'
<1>1. step \in 1 .. 25
  BY StepsAre DEF ClockInv, ClockType, Boots, Done
<1>2. CASE step \in {1, 3, 5, 6, 8, 11, 14, 16, 19}
  BY <1>2, StepsAre, WriteKeepsClock DEF ClockRegisters
<1>3. CASE step \in {4} \cup 22 .. 25
  BY <1>3, StepsAre, OtherWriteKeepsClock
<1>4. CASE step \in {7, 9, 12, 15, 17, 20}
  BY <1>4, StepsAre, FeedKeepsClock
<1>5. CASE step \in {2, 10, 13, 18, 21}
  BY <1>5, StepsAre, WaitKeepsClock
<1> QED  BY <1>1, <1>2, <1>3, <1>4, <1>5

(* The oscillator and the PLLs are ready when they are; the code cannot    *)
(* tell when.                                                              *)
LEMMA ClockStep ==
  ASSUME ClockInv, ClockNext  PROVE ClockInv'
<1>1. /\ ClockType /\ RegistersWritten /\ PllsFed /\ Awaited /\ core = CORE_CLK
  BY DEF ClockInv
<1>2. CASE OscillatorStarts
  <2>1. /\ sc' = [sc EXCEPT !.ready = TRUE] /\ core' = core /\ step' = step
    BY <1>2 DEF OscillatorStarts
  <2>2. /\ Holds(sc', ScFields) /\ sc'.ready = TRUE /\ sc'.reg = sc.reg /\ sc'.pll = sc.pll
    BY <1>1, <2>1 DEF ClockType, Holds, ScFields
  <2> QED  BY <1>1, <2>1, <2>2 DEF ClockInv, ClockType, RegistersWritten, PllsFed, Awaited
<1>3. ASSUME NEW n \in {0, 1}, PllLocks(n)  PROVE ClockInv'
  <2>1. /\ sc' = [sc EXCEPT !.pll[n].locked = TRUE] /\ core' = core /\ step' = step
    BY <1>3 DEF PllLocks
  <2>2. /\ Holds(sc', ScFields) /\ sc'.ready = sc.ready /\ sc'.reg = sc.reg
        /\ sc'.pll = [sc.pll EXCEPT ![n] = [sc.pll[n] EXCEPT !.locked = TRUE]]
    BY <1>1, <2>1 DEF ClockType, Holds, ScFields
  <2>3. /\ [sc.pll[n] EXCEPT !.locked = TRUE] \in PllRecord
        /\ [sc.pll[n] EXCEPT !.locked = TRUE].con = sc.pll[n].con
        /\ [sc.pll[n] EXCEPT !.locked = TRUE].cfg = sc.pll[n].cfg
        /\ [sc.pll[n] EXCEPT !.locked = TRUE].locked = TRUE
    BY <1>1 DEF ClockType, PllRecord
  <2>4. ClockType' /\ RegistersWritten'
    BY <1>1, <2>1, <2>2, <2>3 DEF ClockType, RegistersWritten
  <2>5. \A m \in {0, 1} : /\ sc'.pll[m].con = sc.pll[m].con /\ sc'.pll[m].cfg = sc.pll[m].cfg
                          /\ sc.pll[m].locked => sc'.pll[m].locked
    BY <1>1, <2>2, <2>3 DEF ClockType
  <2>6. PllsFed' /\ Awaited'
    BY <1>1, <2>1, <2>2, <2>5 DEF PllsFed, Awaited
  <2> QED  BY <1>1, <2>1, <2>4, <2>6 DEF ClockInv
<1>4. CASE SystemCoreClockUpdate
  <2>1. /\ Done /\ sc' = sc /\ step' = step
        /\ core' = LET source  == Source(Field(sc.reg["CLKSRCSEL"], 0, 2))
                       divider == Field(sc.reg["CCLKCFG"], 0, 8) + 1
                   IN  IF Connected(0) /\ Enabled(0) THEN Divided(source, sc.pll[0].cfg) \div divider
                                                     ELSE source \div divider
    BY <1>4 DEF SystemCoreClockUpdate
  <2>2. step = 26
    BY <1>1, <2>1, StepsAre DEF Done, ClockType
  <2>3. /\ sc.reg["CLKSRCSEL"] = 1 /\ sc.reg["CCLKCFG"] = 3
        /\ sc.pll[0].cfg = PLL0CFG_Val /\ sc.pll[0].con = 3
    BY <1>1, <2>2 DEF RegistersWritten, PllsFed
  <2>4. Field(1, 0, 2) = 1 /\ Field(3, 0, 8) = 3
    BY DEF Field
  <2>5. core' = Divided(Source(1), PLL0CFG_Val) \div 4
    BY <2>1, <2>3, <2>4 DEF Connected, Enabled
  <2>6. core' = CORE_CLK
    BY <2>5 DEF CORE_CLK, CLKSRCSEL_Val, CCLKCFG_Val
  <2> QED  BY <1>1, <2>1, <2>6 DEF ClockInv, ClockType, RegistersWritten, PllsFed, Awaited
<1> QED  BY <1>2, <1>3, <1>4, BootKeepsClock DEF ClockNext

(* The drivers use the peripherals after SystemInit(), and leave what the  *)
(* processor's clock rests on as it is.                                    *)
SameRates(x, y) ==
  Holds(y, ScFields) /\ y.reg = x.reg /\ y.ready = x.ready /\ y.pll = x.pll

SameClock == SameRates(sc, sc') /\ core' = core /\ step' = step

(* Other power and dividers.                                               *)
LEMMA PeripheralsAre ==
  ASSUME NEW x, Holds(x, ScFields)
  PROVE  /\ SameRates(x, x)
         /\ \A p : SameRates(x, [x EXCEPT !.power = p])
         /\ \A type, v : SameRates(x, [x EXCEPT !.div[type] = v])
         /\ \A p, type, v : SameRates(x, [x EXCEPT !.power = p, !.div[type] = v])
<1>1. SameRates(x, x)
  BY DEF SameRates
<1>2. ASSUME NEW p  PROVE SameRates(x, [x EXCEPT !.power = p])
  BY DEF SameRates, Holds, ScFields
<1>3. ASSUME NEW type, NEW v  PROVE SameRates(x, [x EXCEPT !.div[type] = v])
  BY DEF SameRates, Holds, ScFields
<1>4. ASSUME NEW p, NEW type, NEW v
      PROVE  SameRates(x, [x EXCEPT !.power = p, !.div[type] = v])
  BY DEF SameRates, Holds, ScFields
<1> QED  BY <1>1, <1>2, <1>3, <1>4

(* Two changes one after the other.                                        *)
LEMMA SameTwice ==
  ASSUME NEW x, NEW y, NEW z, SameRates(x, y), SameRates(y, z)  PROVE SameRates(x, z)
BY DEF SameRates

(* The bits of a divider.                                                  *)
LEMMA OrDivIs ==
  ASSUME NEW x, Holds(x, ScFields), NEW type, NEW div
  PROVE  SameRates(x, OrDiv(x, type, div))
<1>1. PICK v : OrDiv(x, type, div) = [x EXCEPT !.div[type] = v]
  BY DEF OrDiv
<1>2. SameRates(x, [x EXCEPT !.div[type] = v])
  BY PeripheralsAre
<1> QED  BY <1>1, <1>2

(* Loads and unloads.                                                      *)
LEMMA PinsKeepClock ==
  ASSUME Holds(sc, ScFields), PinsNext  PROVE SameClock
<1>1. /\ core' = core /\ step' = step
      /\ sc' \in {sc, LcdClock, TcsClock, SdClock}
  BY DEF PinsNext, Loads, Unloads, clockVars, drv_led_load, drv_buzz_load, drv_pot_load,
         drv_usr_int_load, drv_lcd_load, drv_tcs_load, drv_sd_load, drv_led_unload,
         drv_buzz_unload
<1>2. \A x : SameRates(sc, x) => Holds(x, ScFields)
  BY DEF SameRates
<1>3. SameRates(sc, LcdClock)
  <2> DEFINE x == [sc EXCEPT !.power = @ \cup {10}]
  <2>1. SameRates(sc, x)
    BY PeripheralsAre
  <2>2. LcdClock = OrDiv(x, 20, 2)
    BY DEF LcdClock
  <2> HIDE DEF x
  <2> QED  BY <1>2, <2>1, <2>2, OrDivIs, SameTwice
<1>4. SameRates(sc, TcsClock)
  <2> DEFINE x == [sc EXCEPT !.power = @ \cup {21}, !.div[42] = 0]
  <2>1. SameRates(sc, x)
    BY PeripheralsAre
  <2>2. TcsClock = OrDiv(x, 42, 1)
    BY DEF TcsClock
  <2> HIDE DEF x
  <2> QED  BY <1>2, <2>1, <2>2, OrDivIs, SameTwice
<1>5. SameRates(sc, SdClock)
  <2> DEFINE x == [sc EXCEPT !.power = @ \cup {8}, !.div[16] = 0]
  <2>1. SameRates(sc, x)
    BY PeripheralsAre
  <2>2. SdClock = OrDiv(x, 16, 2)
    BY DEF SdClock
  <2> HIDE DEF x
  <2> QED  BY <1>2, <2>1, <2>2, OrDivIs, SameTwice
<1>6. SameRates(sc, sc)
  BY PeripheralsAre
<1> QED  BY <1>1, <1>3, <1>4, <1>5, <1>6 DEF SameClock

(* The potentiometer's driver switches its own power only.                 *)
LEMMA PotKeepsClock ==
  ASSUME Holds(sc, ScFields), PotNext
  PROVE  /\ SameClock /\ sc'.div = sc.div
         /\ (sc.power \ {PCAD}) \cap PowerBits \subseteq sc'.power
<1>1. CASE drv_pot_open
  <2>1. /\ core' = core /\ step' = step
        /\ sc' = [sc EXCEPT !.power = @ \cup ({PCAD} \cap PowerBits)]
    BY <1>1 DEF drv_pot_open, CLKPWR_ConfigPPWR
  <2>2. SameRates(sc, sc')
    BY <2>1, PeripheralsAre
  <2>3. sc'.div = sc.div /\ sc.power \subseteq sc'.power
    BY <2>1 DEF Holds, ScFields
  <2> QED  BY <2>1, <2>2, <2>3 DEF SameClock
<1>2. CASE drv_pot_close
  <2>1. /\ core' = core /\ step' = step
        /\ sc' = [sc EXCEPT !.power = (@ \ {PCAD}) \cap PowerBits]
    BY <1>2 DEF drv_pot_close, CLKPWR_ConfigPPWR
  <2>2. SameRates(sc, sc')
    BY <2>1, PeripheralsAre
  <2>3. sc'.div = sc.div /\ (sc.power \ {PCAD}) \cap PowerBits = sc'.power
    BY <2>1 DEF Holds, ScFields
  <2> QED  BY <2>1, <2>2, <2>3 DEF SameClock
<1>3. CASE drv_pot_getValue \/ EnablesIrq \/ WaitTaken \/ Converts \/ ADC_IRQHandler
  <2>1. core' = core /\ step' = step /\ sc' = sc
    BY <1>3 DEF drv_pot_getValue, EnablesIrq, WaitTaken, Converts, ADC_IRQHandler, clockVars
  <2>2. SameRates(sc, sc')
    BY <2>1, PeripheralsAre
  <2> QED  BY <2>1, <2>2 DEF SameClock
<1> QED  BY <1>1, <1>2, <1>3 DEF PotNext

(* The buzzer's timer.                                                     *)
LEMMA BuzzKeepsClock ==
  ASSUME Holds(sc, ScFields), BuzzNext  PROVE SameClock
<1>1. CASE Configured
  <2> DEFINE s1 == [sc EXCEPT !.power = @ \cup ({PowerOf[1]} \cap PowerBits)]
  <2>1. /\ core' = core /\ step' = step
        /\ sc' = [s1 EXCEPT !.div[ClockOf[1]] = 0]
    BY <1>1 DEF Configured, Steps, TimerPower, CLKPWR_SetPCLKDiv, CLKPWR_ConfigPPWR
  <2>2. SameRates(sc, s1)
    BY PeripheralsAre
  <2> HIDE DEF s1
  <2>3. SameRates(s1, sc')
    <3>1. Holds(s1, ScFields)
      BY <2>2 DEF SameRates
    <3>2. \A type, v : SameRates(s1, [s1 EXCEPT !.div[type] = v])
      BY <3>1, PeripheralsAre
    <3>3. SameRates(s1, [s1 EXCEPT !.div[ClockOf[1]] = 0])
      BY <3>2
    <3> QED  BY <2>1, <3>3
  <2> QED  BY <2>1, <2>2, <2>3, SameTwice DEF SameClock
<1>2. CASE /\ BuzzNext
           /\ ~Configured
  <2>1. core' = core /\ step' = step /\ sc' = sc
    BY <1>2 DEF BuzzNext, drv_buzz_on, drv_buzz_off, GenerateStart, Started,
                FirstEdge, GenerateStop, Disabled, Stopped, TIMER0_IRQHandler,
                EINT0_IRQHandler, Counts, Steps, clockVars
  <2>2. SameRates(sc, sc')
    BY <2>1, PeripheralsAre
  <2> QED  BY <2>1, <2>2 DEF SameClock
<1> QED  BY <1>1, <1>2

(* What the processor runs on does not change with the peripherals.        *)
LEMMA SameKeepsClock ==
  ASSUME ClockInv, SameClock  PROVE ClockInv'
BY DEF SameRates, SameClock, ClockInv, ClockType, RegistersWritten, PllsFed, Awaited

-----------------------------------------------------------------------------
(* The pins and the power that the drivers set up.                         *)
Drivers == {"led", "buzz", "pot", "usr_int", "lcd", "tcs", "sd"}

PinFields == {"fun", "mode", "od", "out", "high", "edge"}

(* What SetupKept asks of one driver.                                      *)
StandsSetUp(d) == LET n == Needs(d) IN
  /\ \A f \in 0 .. 3 : \A p \in n.fun[f + 1] : pins.fun[p] = f
  /\ n.out \subseteq pins.out
  /\ n.in \cap pins.out = {}
  /\ n.power \subseteq sc.power
  /\ \A td \in n.div : sc.div[td[1]] = td[2]
  /\ d = "pot" => pins.mode[<<1, 31>>] = TriState
  /\ d = "usr_int" => pins.mode[<<2, 10>>] = PullDown

(* The pins of a driver, its divider, and what its load and unload write.  *)
Own(d) ==
  CASE d = "led" -> Leds
    [] d = "buzz" -> {Buzzer}
    [] d = "pot" -> {<<1, 31>>}
    [] d = "usr_int" -> {<<2, 10>>}
    [] d = "lcd" -> {<<0, 6>>, <<4, 28>>} \cup Ssp1
    [] d = "tcs" -> {<<1, 21>>, <<0, 21>>} \cup Ssp0
    [] d = "sd" -> {<<0, 16>>} \cup Spi

Touched(d) ==
  Own(d) \cup (CASE d = "buzz" -> Port(3, 16 .. 23) \cup {<<2, 26>>}
                 [] d = "sd" -> {<<0, 0>>}
                 [] OTHER -> {})

OwnDiv(d) ==
  CASE d = "lcd" -> {20} [] d = "tcs" -> {42} [] d = "sd" -> {16} [] OTHER -> {}

(* No driver writes a pin or a divider of another one.                     *)
LEMMA DriversApart ==
  ASSUME NEW d \in Drivers, NEW e \in Drivers, d # e
  PROVE  Own(e) \cap Touched(d) = {} /\ OwnDiv(e) \cap OwnDiv(d) = {}
<1>1. OwnDiv(e) \cap OwnDiv(d) = {}
  BY DEF Drivers, OwnDiv
<1>2. ASSUME NEW p \in Own(e), p \in Touched(d)  PROVE FALSE
  BY <1>2 DEF Drivers, Own, Touched, Port, Leds, Buzzer, Ssp1, Ssp0, Spi
<1> QED  BY <1>1, <1>2

(* They are fields of the registers.                                       *)
LEMMA OwnPins ==
  ASSUME NEW d \in Drivers  PROVE Own(d) \subseteq Pins /\ OwnDiv(d) \subseteq ClockTypes
<1>1. Own(d) \subseteq Pins
  BY DEF Drivers, Own, Pins, Port, Leds, Buzzer, Ssp1, Ssp0, Spi
<1>2. OwnDiv(d) \subseteq ClockTypes
  BY DEF Drivers, OwnDiv, ClockTypes
<1> QED  BY <1>1, <1>2

(* The fields of what a driver needs.                                      *)
Asks(d, functions, out, in, power, div) ==
  LET n == Needs(d) IN
    /\ \A f \in 0 .. 3 : n.fun[f + 1] = functions[f + 1]
    /\ n.out = out /\ n.in = in /\ n.power = power /\ n.div = div

(* One or two of the four functions filled in.                             *)
LEMMA FunctionsAre ==
  ASSUME NEW a, NEW b
  PROVE  /\ [<<{}, {}, {}, {}>> EXCEPT ![1] = a] = <<a, {}, {}, {}>>
         /\ [<<{}, {}, {}, {}>> EXCEPT ![1] = a, ![3] = b] = <<a, {}, b, {}>>
         /\ [<<{}, {}, {}, {}>> EXCEPT ![1] = a, ![4] = b] = <<a, {}, {}, b>>
OBVIOUS

(* The seven drivers.                                                      *)
LEMMA NeedsAre ==
  /\ Asks("led", <<Leds, {}, {}, {}>>, Leds, {}, {}, {})
  /\ Asks("buzz", <<{Buzzer}, {}, {}, {}>>, {Buzzer}, {}, {}, {})
  /\ Asks("pot", <<{}, {}, {}, {<<1, 31>>}>>, {}, {}, {}, {})
  /\ Asks("usr_int", <<{}, {<<2, 10>>}, {}, {}>>, {}, {}, {}, {})
  /\ Asks("lcd", <<{<<0, 6>>, <<4, 28>>}, {}, Ssp1, {}>>, {<<0, 6>>, <<4, 28>>}, {}, {10},
          {<<20, 2>>})
  /\ Asks("tcs", <<{<<1, 21>>, <<0, 21>>}, {}, {}, Ssp0>>, {<<1, 21>>}, {<<0, 21>>}, {21},
          {<<42, 1>>})
  /\ Asks("sd", <<{<<0, 16>>}, {}, {}, Spi>>, {}, {}, {8}, {<<16, 2>>})
<1> DEFINE n == [fun |-> <<{}, {}, {}, {}>>, out |-> {}, in |-> {}, power |-> {}, div |-> {}]
<1>1. Asks("led", <<Leds, {}, {}, {}>>, Leds, {}, {}, {})
  <2> DEFINE a == Leds
             out == Leds
             in == {}
             div == {}
             f == [<<{}, {}, {}, {}>> EXCEPT ![1] = a]
  <2>1. Needs("led") = [fun |-> f, out |-> out, in |-> in, power |-> {}, div |-> div]
    BY DEF Needs
  <2> HIDE DEF a, out, in, div
  <2>2. f = <<a, {}, {}, {}>>
    BY FunctionsAre
  <2> HIDE DEF f
  <2>3. Asks("led", <<a, {}, {}, {}>>, out, in, {}, div)
    BY <2>1, <2>2 DEF Asks
  <2> QED  BY <2>3 DEF a, out, in, div
<1>2. Asks("buzz", <<{Buzzer}, {}, {}, {}>>, {Buzzer}, {}, {}, {})
  <2> DEFINE a == {Buzzer}
             out == {Buzzer}
             in == {}
             div == {}
             f == [<<{}, {}, {}, {}>> EXCEPT ![1] = a]
  <2>1. Needs("buzz") = [fun |-> f, out |-> out, in |-> in, power |-> {}, div |-> div]
    BY DEF Needs
  <2> HIDE DEF a, out, in, div
  <2>2. f = <<a, {}, {}, {}>>
    BY FunctionsAre
  <2> HIDE DEF f
  <2>3. Asks("buzz", <<a, {}, {}, {}>>, out, in, {}, div)
    BY <2>1, <2>2 DEF Asks
  <2> QED  BY <2>3 DEF a, out, in, div
<1>3. Asks("lcd", <<{<<0, 6>>, <<4, 28>>}, {}, Ssp1, {}>>, {<<0, 6>>, <<4, 28>>}, {}, {10},
          {<<20, 2>>})
  <2> DEFINE a == {<<0, 6>>, <<4, 28>>}
             b == Ssp1
             out == {<<0, 6>>, <<4, 28>>}
             in == {}
             div == {<<20, 2>>}
             f == [<<{}, {}, {}, {}>> EXCEPT ![1] = a, ![3] = b]
  <2>1. Needs("lcd") = [fun |-> f, out |-> out, in |-> in, power |-> {10}, div |-> div]
    BY DEF Needs
  <2> HIDE DEF a, b, out, in, div
  <2>2. f = <<a, {}, b, {}>>
    BY FunctionsAre
  <2> HIDE DEF f
  <2>3. Asks("lcd", <<a, {}, b, {}>>, out, in, {10}, div)
    BY <2>1, <2>2 DEF Asks
  <2> QED  BY <2>3 DEF a, b, out, in, div
<1>4. Asks("tcs", <<{<<1, 21>>, <<0, 21>>}, {}, {}, Ssp0>>, {<<1, 21>>}, {<<0, 21>>}, {21},
          {<<42, 1>>})
  <2> DEFINE a == {<<1, 21>>, <<0, 21>>}
             b == Ssp0
             out == {<<1, 21>>}
             in == {<<0, 21>>}
             div == {<<42, 1>>}
             f == [<<{}, {}, {}, {}>> EXCEPT ![1] = a, ![4] = b]
  <2>1. Needs("tcs") = [fun |-> f, out |-> out, in |-> in, power |-> {21}, div |-> div]
    BY DEF Needs
  <2> HIDE DEF a, b, out, in, div
  <2>2. f = <<a, {}, {}, b>>
    BY FunctionsAre
  <2> HIDE DEF f
  <2>3. Asks("tcs", <<a, {}, {}, b>>, out, in, {21}, div)
    BY <2>1, <2>2 DEF Asks
  <2> QED  BY <2>3 DEF a, b, out, in, div
<1>5. Asks("sd", <<{<<0, 16>>}, {}, {}, Spi>>, {}, {}, {8}, {<<16, 2>>})
  <2> DEFINE a == {<<0, 16>>}
             b == Spi
             out == {}
             in == {}
             div == {<<16, 2>>}
             f == [<<{}, {}, {}, {}>> EXCEPT ![1] = a, ![4] = b]
  <2>1. Needs("sd") = [fun |-> f, out |-> out, in |-> in, power |-> {8}, div |-> div]
    BY DEF Needs
  <2> HIDE DEF a, b, out, in, div
  <2>2. f = <<a, {}, {}, b>>
    BY FunctionsAre
  <2> HIDE DEF f
  <2>3. Asks("sd", <<a, {}, {}, b>>, out, in, {8}, div)
    BY <2>1, <2>2 DEF Asks
  <2> QED  BY <2>3 DEF a, b, out, in, div
<1>6. Asks("pot", <<{}, {}, {}, {<<1, 31>>}>>, {}, {}, {}, {})
  <2>1. Needs("pot") = [n EXCEPT !.fun[4] = {<<1, 31>>}]
    BY DEF Needs
  <2> QED  BY <2>1 DEF Asks
<1>7. Asks("usr_int", <<{}, {<<2, 10>>}, {}, {}>>, {}, {}, {}, {})
  <2>1. Needs("usr_int") = [n EXCEPT !.fun[2] = {<<2, 10>>}]
    BY DEF Needs
  <2> QED  BY <2>1 DEF Asks
<1> QED  BY <1>1, <1>2, <1>3, <1>4, <1>5, <1>6, <1>7

(* What a driver needs is within its pins.                                 *)
LEMMA NeedsOwn ==
  ASSUME NEW d \in Drivers
  PROVE  LET n == Needs(d) IN
         /\ \A f \in 0 .. 3 : n.fun[f + 1] \subseteq Own(d)
         /\ n.out \subseteq Own(d) /\ n.in \subseteq Own(d)
         /\ n.power \subseteq PowerBits \ {PCAD}
         /\ \A td \in n.div : td[1] \in OwnDiv(d)
         /\ d = "pot" => <<1, 31>> \in Own(d)
         /\ d = "usr_int" => <<2, 10>> \in Own(d)
<1> DEFINE n == Needs(d)
<1>1. \A f \in 0 .. 3 : n.fun[f + 1] \subseteq Own(d)
  BY NeedsAre DEF Asks, Drivers, Own
<1>2. n.out \subseteq Own(d) /\ n.in \subseteq Own(d)
  BY NeedsAre DEF Asks, Drivers, Own
<1>3. n.power \subseteq PowerBits \ {PCAD}
  <2>1. {8, 10, 21} \subseteq PowerBits \ {PCAD}
    BY DEF PowerBits, PCAD
  <2>2. n.power \in {{}, {8}, {10}, {21}}
    BY NeedsAre DEF Asks, Drivers
  <2> QED  BY <2>1, <2>2
<1>4. \A td \in n.div : td[1] \in OwnDiv(d)
  BY NeedsAre DEF Asks, Drivers, OwnDiv
<1>5. /\ d = "pot" => <<1, 31>> \in Own(d)
      /\ d = "usr_int" => <<2, 10>> \in Own(d)
  BY DEF Own
<1> QED  BY <1>1, <1>2, <1>3, <1>4, <1>5

(* A step that writes no other pins and dividers than these.               *)
Writes(set, types) ==
  /\ \A p \in Pins \ set : pins'.fun[p] = pins.fun[p] /\ pins'.mode[p] = pins.mode[p]
  /\ \A p : p \notin set => (p \in pins'.out <=> p \in pins.out)
  /\ (sc.power \ {PCAD}) \cap PowerBits \subseteq sc'.power
  /\ \A type \in ClockTypes \ types : sc'.div[type] = sc.div[type]

(* Such a step leaves the other drivers as they are set up.                *)
LEMMA OthersStand ==
  ASSUME NEW e \in Drivers, NEW set, NEW types, Writes(set, types),
         StandsSetUp(e), Own(e) \cap set = {}, OwnDiv(e) \cap types = {}
  PROVE  StandsSetUp(e)'
<1> DEFINE n == Needs(e)
<1>1. /\ \A f \in 0 .. 3 : n.fun[f + 1] \subseteq Own(e)
      /\ n.out \subseteq Own(e) /\ n.in \subseteq Own(e)
      /\ n.power \subseteq PowerBits \ {PCAD}
      /\ \A td \in n.div : td[1] \in OwnDiv(e)
      /\ e = "pot" => <<1, 31>> \in Own(e)
      /\ e = "usr_int" => <<2, 10>> \in Own(e)
  BY NeedsOwn
<1>2. n' = n
  BY DEF Needs
<1>3. Own(e) \subseteq Pins \ set /\ OwnDiv(e) \subseteq ClockTypes \ types
  BY OwnPins
<1> HIDE DEF n
<1>4. /\ \A f \in 0 .. 3 : \A p \in n.fun[f + 1] : pins'.fun[p] = f
      /\ n.out \subseteq pins'.out /\ n.in \cap pins'.out = {}
  BY <1>1, <1>3 DEF StandsSetUp, Writes, n
<1>5. /\ n.power \subseteq sc'.power
      /\ \A td \in n.div : sc'.div[td[1]] = td[2]
  BY <1>1, <1>3 DEF StandsSetUp, Writes, n
<1>6. /\ e = "pot" => pins'.mode[<<1, 31>>] = TriState
      /\ e = "usr_int" => pins'.mode[<<2, 10>>] = PullDown
  BY <1>1, <1>3 DEF StandsSetUp, Writes
<1> QED  BY <1>2, <1>4, <1>5, <1>6 DEF StandsSetUp, n

PinsHold(b) ==
  Holds(b, PinFields) /\ b.fun \in [Pins -> 0 .. 3] /\ b.mode \in [Pins -> 0 .. 3]

(* y is b with a function of some pins.                                    *)
Sets(b, y, set, fun) ==
  /\ PinsHold(y) /\ y.mode = b.mode /\ y.out = b.out
  /\ \A p \in Pins : y.fun[p] = IF p \in set THEN fun ELSE b.fun[p]

(* set_PinFunc() on a set of pins.                                         *)
LEMMA FunctionSets ==
  ASSUME NEW b, PinsHold(b), NEW set, NEW fun \in 0 .. 3
  PROVE  Sets(b, set_PinFunc(b, set, fun), set, fun)
<1> DEFINE g == [p \in Pins |-> IF p \in set THEN fun ELSE b.fun[p]]
<1>1. set_PinFunc(b, set, fun) = [b EXCEPT !.fun = g]
  BY DEF set_PinFunc
<1>2. /\ g \in [Pins -> 0 .. 3]
      /\ \A p \in Pins : g[p] = IF p \in set THEN fun ELSE b.fun[p]
  BY DEF PinsHold
<1> HIDE DEF g
<1> QED  BY <1>1, <1>2 DEF Sets, PinsHold, Holds, PinFields

(* To set all bits, or bits of a field that is 0 or has them already.      *)
LEMMA OrOfBits ==
  ASSUME NEW a \in 0 .. 3, NEW x \in 0 .. 3, a \in {0, x} \/ x = 3
  PROVE  (CHOOSE f \in 0 .. 3 : \A i \in {0, 1} :
            Field(f, i, 1) = 1 <=> Field(a, i, 1) = 1 \/ Field(x, i, 1) = 1) = x
<1> DEFINE Is(f) == \A i \in {0, 1} :
                      Field(f, i, 1) = 1 <=> Field(a, i, 1) = 1 \/ Field(x, i, 1) = 1
<1>1. \A y \in 0 .. 3 : /\ Field(y, 0, 1) = 1 <=> y \in {1, 3}
                        /\ Field(y, 1, 1) = 1 <=> y \in {2, 3}
  BY DEF Field
<1>2. \A f \in 0 .. 3 : Is(f) <=> f = x
  BY <1>1
<1> HIDE DEF Is
<1>3. (CHOOSE f \in 0 .. 3 : Is(f)) = x
  BY <1>2
<1> QED  BY <1>3 DEF Is

(* OrFunc() of pins that were cleared.                                     *)
LEMMA OrSets ==
  ASSUME NEW b, PinsHold(b), NEW set, NEW fun \in 0 .. 3,
         (\A p \in set \cap Pins : b.fun[p] = 0) \/ fun = 3
  PROVE  Sets(b, OrFunc(b, set, fun), set, fun)
<1> DEFINE Or(a) == CHOOSE f \in 0 .. 3 : \A i \in {0, 1} :
                      Field(f, i, 1) = 1 <=> Field(a, i, 1) = 1 \/ Field(fun, i, 1) = 1
           g == [p \in Pins |-> IF p \in set THEN Or(b.fun[p]) ELSE b.fun[p]]
<1>1. OrFunc(b, set, fun) = [b EXCEPT !.fun = g]
  BY DEF OrFunc
<1>2. \A a \in 0 .. 3 : a = 0 \/ fun = 3 => Or(a) = fun
  BY OrOfBits
<1> HIDE DEF Or
<1>3. /\ g \in [Pins -> 0 .. 3]
      /\ \A p \in Pins : g[p] = IF p \in set THEN fun ELSE b.fun[p]
  BY <1>2 DEF PinsHold
<1> HIDE DEF g
<1> QED  BY <1>1, <1>3 DEF Sets, PinsHold, Holds, PinFields

(* y is b with other outputs.                                              *)
Drives(b, y, out) == PinsHold(y) /\ y.fun = b.fun /\ y.mode = b.mode /\ y.out = out

(* Outputs() leaves functions and modes.                                   *)
LEMMA OutputsDrive ==
  ASSUME NEW b, PinsHold(b), NEW set, NEW level
  PROVE  Drives(b, Outputs(b, set, level), b.out \cup set)
BY DEF Outputs, Drives, PinsHold, Holds, PinFields

(* PINSEL_ConfigPin() writes one pin.                                      *)
LEMMA ConfigSets ==
  ASSUME NEW b, PinsHold(b), NEW pin \in Pins, NEW fun \in 0 .. 3, NEW mode \in 0 .. 3, NEW od
  PROVE  LET y == PINSEL_ConfigPin(b, [pin |-> pin, fun |-> fun, mode |-> mode, od |-> od])
         IN  /\ PinsHold(y) /\ y.out = b.out
             /\ \A p \in Pins : /\ y.fun[p] = IF p = pin THEN fun ELSE b.fun[p]
                                /\ y.mode[p] = IF p = pin THEN mode ELSE b.mode[p]
<1> DEFINE c == set_PinFunc(b, {pin}, fun)
           d == set_ResistorMode(c, pin, mode)
           y == set_OpenDrainMode(d, pin, od)
<1>1. PINSEL_ConfigPin(b, [pin |-> pin, fun |-> fun, mode |-> mode, od |-> od]) = y
  BY DEF PINSEL_ConfigPin
<1>2. Sets(b, c, {pin}, fun)
  BY FunctionSets
<1> HIDE DEF c
<1>3. /\ PinsHold(d) /\ d.out = c.out /\ d.fun = c.fun
      /\ d.mode = [c.mode EXCEPT ![pin] = mode]
  BY <1>2 DEF set_ResistorMode, Sets, PinsHold, Holds, PinFields
<1> HIDE DEF d
<1>4. PinsHold(y) /\ y.out = d.out /\ y.fun = d.fun /\ y.mode = d.mode
  BY <1>3 DEF set_OpenDrainMode, PinsHold, Holds, PinFields
<1> HIDE DEF y
<1>5. b.mode \in [Pins -> 0 .. 3]
  BY DEF PinsHold
<1> QED  BY <1>1, <1>2, <1>3, <1>4, <1>5 DEF Sets

(* The inductive invariant of the drivers: the display's divider is 0 or   *)
(* what its load makes of it, since that only sets bits, and the buzzer's  *)
(* pin keeps the function of after reset, since its load masks other pins. *)
PinsType ==
  /\ Holds(sc, ScFields) /\ Holds(sc.div, ClockTypes) /\ PinsHold(pins)
  /\ loaded \subseteq Drivers

PinsInv ==
  /\ PinsType
  /\ loaded # {} => Done
  /\ sc.div[20] \in {0, 2} /\ pins.fun[Buzzer] = 0
  /\ \A d \in loaded : StandsSetUp(d)

(* What the invariant says of the loaded drivers.                          *)
LEMMA PinsImplies == PinsInv => SetupKept
BY DEF PinsInv, SetupKept, StandsSetUp

(* Nothing is loaded after reset.                                          *)
LEMMA PinsInitial == ClockInit /\ PinsInit => PinsInv
<1> SUFFICES ASSUME ClockInit, PinsInit  PROVE PinsInv
  OBVIOUS
<1>1. /\ Holds(sc, ScFields) /\ sc.div = [type \in ClockTypes |-> 0]
  BY DEF ClockInit, Holds, ScFields
<1>2. /\ PinsHold(pins) /\ pins.fun = [p \in Pins |-> 0] /\ loaded = {}
  BY DEF PinsInit, PinsHold, Holds, PinFields
<1>3. Buzzer \in Pins /\ 20 \in ClockTypes
  BY DEF Buzzer, Pins, Port, ClockTypes
<1> QED  BY <1>1, <1>2, <1>3 DEF PinsInv, PinsType, Holds

(* The load of a driver, of which is to be shown: it writes its own pins   *)
(* and dividers, and sets up what it needs.                                *)
LEMMA LoadKeeps ==
  ASSUME PinsInv, NEW d \in Drivers, Done', loaded' = loaded \cup {d}, PinsType',
         Writes(Touched(d), OwnDiv(d)), StandsSetUp(d)',
         sc'.div[20] \in {0, 2}, pins'.fun[Buzzer] = 0
  PROVE  PinsInv'
<1>1. ASSUME NEW e \in loaded', e # d  PROVE StandsSetUp(e)'
  <2>1. e \in loaded /\ e \in Drivers /\ StandsSetUp(e)
    BY <1>1 DEF PinsInv, PinsType
  <2> QED  BY <1>1, <2>1, DriversApart, OthersStand
<1> QED  BY <1>1 DEF PinsInv

(* The pins only.                                                          *)
LEMMA PinLoadKeeps ==
  ASSUME PinsInv, NEW d \in Drivers, NEW y, Loads(d, y, sc), PinsHold(y),
         \A p \in Pins \ Touched(d) : y.fun[p] = pins.fun[p] /\ y.mode[p] = pins.mode[p],
         y.fun[Buzzer] = 0,
         \A p : p \notin Touched(d) => (p \in y.out <=> p \in pins.out), StandsSetUp(d)'
  PROVE  PinsInv'
<1>1. /\ Done' /\ loaded' = loaded \cup {d} /\ PinsType' /\ sc' = sc /\ pins' = y
  BY DEF Loads, Done, PinsInv, PinsType
<1>2. Writes(Touched(d), OwnDiv(d))
  BY <1>1 DEF Writes
<1> QED  BY <1>1, <1>2, LoadKeeps DEF PinsInv

(* The loads, one by one.                                                  *)
LEMMA LedLoads == ASSUME PinsInv, drv_led_load  PROVE PinsInv'
<1> DEFINE c == set_PinFunc(pins, Leds, 0)
           y == Outputs(c, Leds, 0)
<1>1. Loads("led", y, sc) /\ pins' = y /\ PinsHold(pins) /\ "led" \in Drivers
  BY DEF drv_led_load, LedPins, Loads, PinsInv, PinsType, Drivers
<1>2. Sets(pins, c, Leds, 0)
  BY <1>1, FunctionSets
<1> HIDE DEF c
<1>3. Drives(c, y, c.out \cup Leds)
  BY <1>2, OutputsDrive DEF Sets
<1> HIDE DEF y
<1>4. /\ PinsHold(y) /\ y.mode = pins.mode /\ y.out = pins.out \cup Leds
      /\ \A p \in Pins : y.fun[p] = IF p \in Leds THEN 0 ELSE pins.fun[p]
  BY <1>2, <1>3 DEF Sets, Drives
<1>5. Touched("led") = Leds /\ Leds \subseteq Pins /\ Buzzer \in Pins
  BY DEF Touched, Own, Leds, Pins, Port, Buzzer
<1>6. StandsSetUp("led")'
  <2>1. Needs("led")' = Needs("led")
    BY DEF Needs
  <2>2. Asks("led", <<Leds, {}, {}, {}>>, Leds, {}, {}, {})
    BY NeedsAre
  <2> QED  BY <1>1, <1>4, <1>5, <2>1, <2>2 DEF StandsSetUp, Asks
<1>7. y.fun[Buzzer] = 0
  BY <1>4, <1>5 DEF PinsInv
<1> QED  BY <1>1, <1>4, <1>5, <1>6, <1>7, PinLoadKeeps

(* The function of the buzzer's pin is that of after reset.                *)
LEMMA BuzzLoads == ASSUME PinsInv, drv_buzz_load  PROVE PinsInv'
<1> DEFINE set == Port(3, 16 .. 23)
           c == set_PinFunc(pins, set, 0)
           y == Outputs(c, {Buzzer}, 1)
<1>1. Loads("buzz", y, sc) /\ pins' = y /\ PinsHold(pins) /\ "buzz" \in Drivers
  BY DEF drv_buzz_load, BuzzPins, Loads, PinsInv, PinsType, Drivers
<1>2. Sets(pins, c, set, 0)
  BY <1>1, FunctionSets
<1> HIDE DEF c
<1>3. Drives(c, y, c.out \cup {Buzzer})
  BY <1>2, OutputsDrive DEF Sets
<1> HIDE DEF y
<1>4. /\ PinsHold(y) /\ y.mode = pins.mode /\ y.out = pins.out \cup {Buzzer}
      /\ \A p \in Pins : y.fun[p] = IF p \in set THEN 0 ELSE pins.fun[p]
  BY <1>2, <1>3 DEF Sets, Drives
<1>5. set \subseteq Touched("buzz") /\ Buzzer \in Touched("buzz") /\ Buzzer \in Pins
  BY DEF Touched, Own, Pins, Port, Buzzer
<1> HIDE DEF set
<1>7. y.fun[Buzzer] = 0
  BY <1>4, <1>5 DEF PinsInv
<1>6. StandsSetUp("buzz")'
  <2>1. Needs("buzz")' = Needs("buzz")
    BY DEF Needs
  <2>2. Asks("buzz", <<{Buzzer}, {}, {}, {}>>, {Buzzer}, {}, {}, {})
    BY NeedsAre
  <2> QED  BY <1>1, <1>4, <1>5, <1>7, <2>1, <2>2 DEF StandsSetUp, Asks
<1> QED  BY <1>1, <1>4, <1>5, <1>6, <1>7, PinLoadKeeps

(* The potentiometer's pin has no resistor.                                *)
LEMMA PotLoads == ASSUME PinsInv, drv_pot_load  PROVE PinsInv'
<1> DEFINE y == PINSEL_ConfigPin(pins, [pin |-> <<1, 31>>, fun |-> 3, mode |-> TriState, od |-> 0])
<1>1. Loads("pot", y, sc) /\ pins' = y /\ PinsHold(pins) /\ "pot" \in Drivers
  BY DEF drv_pot_load, PotPins, Loads, PinsInv, PinsType, Drivers
<1>2. <<1, 31>> \in Pins /\ TriState \in 0 .. 3 /\ Buzzer \in Pins /\ Buzzer # <<1, 31>>
  BY DEF Pins, Port, TriState, Buzzer
<1>3. /\ PinsHold(y) /\ y.out = pins.out
      /\ \A p \in Pins : /\ y.fun[p] = IF p = <<1, 31>> THEN 3 ELSE pins.fun[p]
                         /\ y.mode[p] = IF p = <<1, 31>> THEN TriState ELSE pins.mode[p]
  BY <1>1, <1>2, ConfigSets
<1> HIDE DEF y
<1>4. <<1, 31>> \in Touched("pot")
  BY DEF Touched, Own
<1>5. StandsSetUp("pot")'
  <2>1. Needs("pot")' = Needs("pot")
    BY DEF Needs
  <2>2. Asks("pot", <<{}, {}, {}, {<<1, 31>>}>>, {}, {}, {}, {})
    BY NeedsAre
  <2> QED  BY <1>1, <1>2, <1>3, <2>1, <2>2 DEF StandsSetUp, Asks
<1>6. y.fun[Buzzer] = 0
  BY <1>2, <1>3 DEF PinsInv
<1> QED  BY <1>1, <1>3, <1>4, <1>5, <1>6, PinLoadKeeps

(* The button's has one.                                                   *)
LEMMA UsrIntLoads == ASSUME PinsInv, drv_usr_int_load  PROVE PinsInv'
<1> DEFINE c == PINSEL_ConfigPin(pins, [pin |-> <<2, 10>>, fun |-> 1, mode |-> PullDown, od |-> 0])
           y == [c EXCEPT !.edge = {0}]
<1>1. Loads("usr_int", y, sc) /\ pins' = y /\ PinsHold(pins) /\ "usr_int" \in Drivers
  BY DEF drv_usr_int_load, UsrIntPins, Loads, PinsInv, PinsType, Drivers
<1>2. <<2, 10>> \in Pins /\ PullDown \in 0 .. 3 /\ Buzzer \in Pins /\ Buzzer # <<2, 10>>
  BY DEF Pins, Port, PullDown, Buzzer
<1>3. /\ PinsHold(c) /\ c.out = pins.out
      /\ \A p \in Pins : /\ c.fun[p] = IF p = <<2, 10>> THEN 1 ELSE pins.fun[p]
                         /\ c.mode[p] = IF p = <<2, 10>> THEN PullDown ELSE pins.mode[p]
  <2> DEFINE pin == <<2, 10>>
             x == PINSEL_ConfigPin(pins, [pin |-> pin, fun |-> 1, mode |-> PullDown, od |-> 0])
  <2>1. pin \in Pins /\ c = x
    BY <1>2
  <2> HIDE DEF pin, c
  <2>2. /\ PinsHold(x) /\ x.out = pins.out
        /\ \A p \in Pins : /\ x.fun[p] = IF p = pin THEN 1 ELSE pins.fun[p]
                           /\ x.mode[p] = IF p = pin THEN PullDown ELSE pins.mode[p]
    BY <1>1, <1>2, <2>1, ConfigSets
  <2> HIDE DEF x
  <2> QED  BY <2>1, <2>2 DEF pin
<1> HIDE DEF c
<1>4. PinsHold(y) /\ y.out = c.out /\ y.fun = c.fun /\ y.mode = c.mode
  BY <1>3 DEF PinsHold, Holds, PinFields
<1> HIDE DEF y
<1>5. <<2, 10>> \in Touched("usr_int")
  BY DEF Touched, Own
<1>6. StandsSetUp("usr_int")'
  <2>1. Needs("usr_int")' = Needs("usr_int")
    BY DEF Needs
  <2>2. Asks("usr_int", <<{}, {<<2, 10>>}, {}, {}>>, {}, {}, {}, {})
    BY NeedsAre
  <2> QED  BY <1>1, <1>2, <1>3, <1>4, <2>1, <2>2 DEF StandsSetUp, Asks
<1>7. y.fun[Buzzer] = 0
  BY <1>2, <1>3, <1>4 DEF PinsInv
<1> QED  BY <1>1, <1>3, <1>4, <1>5, <1>6, <1>7, PinLoadKeeps

(* y is b with a pin as an output.                                         *)
Selects(b, y, pin) ==
  /\ PinsHold(y) /\ y.mode = b.mode /\ y.out = b.out \cup {pin}
  /\ \A p \in Pins : y.fun[p] = IF p = pin THEN 0 ELSE b.fun[p]

(* The pin is cleared and driven.                                          *)
LEMMA Selected ==
  ASSUME NEW b, PinsHold(b), NEW pin, NEW level
  PROVE  Selects(b, Outputs(set_PinFunc(b, {pin}, 0), {pin}, level), pin)
<1> DEFINE c == set_PinFunc(b, {pin}, 0)
           y == Outputs(c, {pin}, level)
<1>1. Sets(b, c, {pin}, 0)
  BY FunctionSets
<1> HIDE DEF c
<1>2. Drives(c, y, c.out \cup {pin})
  BY <1>1, OutputsDrive DEF Sets
<1> HIDE DEF y
<1>3. Selects(b, y, pin)
  BY <1>1, <1>2 DEF Sets, Drives, Selects
<1> QED  BY <1>3 DEF y, c

(* The pins of a serial interface.                                         *)
LEMMA SerialSets ==
  ASSUME NEW b, PinsHold(b), NEW set, NEW fun \in 0 .. 3
  PROVE  Sets(b, OrFunc(set_PinFunc(b, set, 0), set, fun), set, fun)
<1> DEFINE c == set_PinFunc(b, set, 0)
           y == OrFunc(c, set, fun)
<1>1. Sets(b, c, set, 0)
  BY FunctionSets
<1> HIDE DEF c
<1>2. Sets(c, y, set, fun)
  BY <1>1, OrSets DEF Sets
<1> HIDE DEF y
<1>3. Sets(b, y, set, fun)
  BY <1>1, <1>2 DEF Sets
<1> QED  BY <1>3 DEF y, c

(* Power and divider of a serial interface: y is x with them.              *)
Supplies(x, y, block, type, div) ==
  /\ Holds(y, ScFields) /\ Holds(y.div, ClockTypes)
  /\ x.power \cup {block} \subseteq y.power
  /\ y.div[type] = div
  /\ \A other \in ClockTypes \ {type} : y.div[other] = x.div[other]

(* The divider was 0, or has been set before.                              *)
LEMMA OrDivPowers ==
  ASSUME NEW x, Holds(x, ScFields), Holds(x.div, ClockTypes), NEW type \in ClockTypes,
         NEW div \in 0 .. 3, x.div[type] \in {0, div}, NEW block \in x.power
  PROVE  Supplies(x, OrDiv(x, type, div), block, type, div)
<1> DEFINE Or(a) == CHOOSE d \in 0 .. 3 : \A i \in {0, 1} :
                      Field(d, i, 1) = 1 <=> Field(a, i, 1) = 1 \/ Field(div, i, 1) = 1
<1>1. OrDiv(x, type, div) = [x EXCEPT !.div[type] = Or(x.div[type])]
  BY DEF OrDiv
<1>2. Or(x.div[type]) = div
  <2>1. x.div[type] \in 0 .. 3
    OBVIOUS
  <2> QED  BY <2>1, OrOfBits
<1> HIDE DEF Or
<1>3. OrDiv(x, type, div) = [x EXCEPT !.div[type] = div]
  BY <1>1, <1>2
<1> QED  BY <1>3 DEF Supplies, Holds, ScFields

(* The three serial interfaces.                                            *)
LEMMA ClocksAre ==
  ASSUME Holds(sc, ScFields), Holds(sc.div, ClockTypes), sc.div[20] \in {0, 2}
  PROVE  /\ Supplies(sc, LcdClock, 10, 20, 2)
         /\ Supplies(sc, TcsClock, 21, 42, 1)
         /\ Supplies(sc, SdClock, 8, 16, 2)
<1>1. 20 \in ClockTypes /\ 42 \in ClockTypes /\ 16 \in ClockTypes
  BY DEF ClockTypes
<1>2. ASSUME NEW x, Holds(x, ScFields), Holds(x.div, ClockTypes), sc.power \subseteq x.power,
             NEW type \in ClockTypes, NEW div \in 0 .. 3, x.div[type] \in {0, div},
             NEW block \in x.power,
             \A other \in ClockTypes \ {type} : x.div[other] = sc.div[other]
      PROVE  Supplies(sc, OrDiv(x, type, div), block, type, div)
  <2>1. Supplies(x, OrDiv(x, type, div), block, type, div)
    BY <1>2, OrDivPowers
  <2> QED  BY <1>2, <2>1 DEF Supplies
<1>3. Supplies(sc, LcdClock, 10, 20, 2)
  <2> DEFINE x == [sc EXCEPT !.power = @ \cup {10}]
  <2>1. /\ Holds(x, ScFields) /\ x.div = sc.div /\ x.power = sc.power \cup {10}
    BY DEF Holds, ScFields
  <2>2. LcdClock = OrDiv(x, 20, 2)
    BY DEF LcdClock
  <2> HIDE DEF x
  <2> QED  BY <1>1, <1>2, <2>1, <2>2
<1>4. Supplies(sc, TcsClock, 21, 42, 1)
  <2> DEFINE x == [sc EXCEPT !.power = @ \cup {21}, !.div[42] = 0]
  <2>1. /\ Holds(x, ScFields) /\ x.div = [sc.div EXCEPT ![42] = 0]
        /\ x.power = sc.power \cup {21}
    BY DEF Holds, ScFields
  <2>2. TcsClock = OrDiv(x, 42, 1)
    BY DEF TcsClock
  <2> HIDE DEF x
  <2>3. /\ Holds(x.div, ClockTypes) /\ x.div[42] = 0
        /\ \A other \in ClockTypes \ {42} : x.div[other] = sc.div[other]
    BY <1>1, <2>1 DEF Holds
  <2>4. Holds(x, ScFields) /\ sc.power \subseteq x.power /\ 21 \in x.power
    BY <2>1
  <2>5. Supplies(sc, OrDiv(x, 42, 1), 21, 42, 1)
    BY <1>1, <1>2, <2>3, <2>4
  <2> QED  BY <2>2, <2>5
<1>5. Supplies(sc, SdClock, 8, 16, 2)
  <2> DEFINE x == [sc EXCEPT !.power = @ \cup {8}, !.div[16] = 0]
  <2>1. /\ Holds(x, ScFields) /\ x.div = [sc.div EXCEPT ![16] = 0]
        /\ x.power = sc.power \cup {8}
    BY DEF Holds, ScFields
  <2>2. SdClock = OrDiv(x, 16, 2)
    BY DEF SdClock
  <2> HIDE DEF x
  <2>3. /\ Holds(x.div, ClockTypes) /\ x.div[16] = 0
        /\ \A other \in ClockTypes \ {16} : x.div[other] = sc.div[other]
    BY <1>1, <2>1 DEF Holds
  <2>4. Holds(x, ScFields) /\ sc.power \subseteq x.power /\ 8 \in x.power
    BY <2>1
  <2>5. Supplies(sc, OrDiv(x, 16, 2), 8, 16, 2)
    BY <1>1, <1>2, <2>3, <2>4
  <2> QED  BY <2>2, <2>5
<1> QED  BY <1>3, <1>4, <1>5

(* The load of a driver with a serial interface.                           *)
LEMMA SerialLoadKeeps ==
  ASSUME PinsInv, NEW d \in Drivers, NEW y, NEW s, Loads(d, y, s), PinsHold(y),
         NEW block, NEW type \in OwnDiv(d), NEW div, Supplies(sc, s, block, type, div),
         type = 20 => div = 2,
         \A p \in Pins \ Touched(d) : y.fun[p] = pins.fun[p] /\ y.mode[p] = pins.mode[p],
         Buzzer \notin Touched(d),
         \A p : p \notin Touched(d) => (p \in y.out <=> p \in pins.out), StandsSetUp(d)'
  PROVE  PinsInv'
<1>1. /\ Done' /\ loaded' = loaded \cup {d} /\ PinsType' /\ sc' = s /\ pins' = y
  BY DEF Loads, Done, PinsInv, PinsType, Supplies
<1>2. Writes(Touched(d), OwnDiv(d))
  BY <1>1 DEF Writes, Supplies
<1>3. 20 \in ClockTypes /\ Buzzer \in Pins
  BY DEF ClockTypes, Pins, Port, Buzzer
<1>4. sc'.div[20] \in {0, 2} /\ pins'.fun[Buzzer] = 0
  BY <1>1, <1>3 DEF PinsInv, Supplies
<1> QED  BY <1>1, <1>2, <1>4, LoadKeeps DEF PinsInv

(* The display's load: light, select, interface.                           *)
LEMMA LcdLoads == ASSUME PinsInv, drv_lcd_load  PROVE PinsInv'
<1> DEFINE light == <<4, 28>>
           select == <<0, 6>>
           c == Outputs(set_PinFunc(pins, {light}, 0), {light}, 0)
           e == Outputs(set_PinFunc(c, {select}, 0), {select}, 1)
           y == OrFunc(set_PinFunc(e, Ssp1, 0), Ssp1, 2)
<1>1. Loads("lcd", y, LcdClock) /\ pins' = y /\ sc' = LcdClock
  BY DEF drv_lcd_load, LcdPins, Loads
<1>2. PinsHold(pins) /\ Supplies(sc, LcdClock, 10, 20, 2) /\ "lcd" \in Drivers
  BY ClocksAre DEF PinsInv, PinsType, Drivers
<1>3. Own("lcd") = {select, light} \cup Ssp1 /\ Touched("lcd") = Own("lcd") \cup {}
      /\ Own("lcd") \subseteq Pins /\ 20 \in OwnDiv("lcd")
  BY <1>2, OwnPins DEF Own, Touched, OwnDiv
<1>4. Buzzer \notin Own("lcd") /\ light \notin Ssp1 /\ select \notin Ssp1 /\ light # select
  BY DEF Own, Buzzer, Ssp1, Port
<1> HIDE DEF light, select
<1>5. Selects(pins, c, light)
  BY <1>2, Selected
<1> HIDE DEF c
<1>6. Selects(c, e, select)
  <2>1. PinsHold(c)
    BY <1>5 DEF Selects
  <2> QED  BY <2>1, Selected
<1> HIDE DEF e
<1>7. Sets(e, y, Ssp1, 2)
  BY <1>6, SerialSets DEF Selects
<1> HIDE DEF y
<1>8. /\ PinsHold(y) /\ y.mode = pins.mode /\ y.out = pins.out \cup {light, select}
      /\ \A p \in Pins : y.fun[p] = IF p \in Ssp1 THEN 2
                                    ELSE IF p \in {light, select} THEN 0 ELSE pins.fun[p]
  BY <1>5, <1>6, <1>7 DEF Selects, Sets
<1>9. StandsSetUp("lcd")'
  <2>1. Needs("lcd")' = Needs("lcd")
    BY DEF Needs
  <2>2. Asks("lcd", <<{select, light}, {}, Ssp1, {}>>, {select, light}, {}, {10}, {<<20, 2>>})
    BY NeedsAre DEF light, select
  <2>3. sc'.div[20] = 2 /\ 10 \in sc'.power
    BY <1>1, <1>2 DEF Supplies
  <2> QED  BY <1>1, <1>3, <1>4, <1>8, <2>1, <2>2, <2>3 DEF StandsSetUp, Asks
<1> QED  BY <1>1, <1>2, <1>3, <1>4, <1>8, <1>9, SerialLoadKeeps

(* That of the touch screen.                                               *)
LEMMA TcsLoads == ASSUME PinsInv, drv_tcs_load  PROVE PinsInv'
<1> DEFINE select == <<1, 21>>
           pen == <<0, 21>>
           c == Outputs(set_PinFunc(pins, {select}, 0), {select}, 1)
           f == set_PinFunc(c, {pen}, 0)
           e == [f EXCEPT !.out = @ \ {pen}]
           y == OrFunc(e, Ssp0, 3)
<1>1. Loads("tcs", y, TcsClock) /\ pins' = y /\ sc' = TcsClock
  BY DEF drv_tcs_load, TcsPins, Loads
<1>2. PinsHold(pins) /\ Supplies(sc, TcsClock, 21, 42, 1) /\ "tcs" \in Drivers
  BY ClocksAre DEF PinsInv, PinsType, Drivers
<1>3. Own("tcs") = {select, pen} \cup Ssp0 /\ Touched("tcs") = Own("tcs") \cup {}
      /\ Own("tcs") \subseteq Pins /\ 42 \in OwnDiv("tcs")
  BY <1>2, OwnPins DEF Own, Touched, OwnDiv
<1>4. Buzzer \notin Own("tcs") /\ pen \notin Ssp0 /\ select \notin Ssp0 /\ pen # select
  BY DEF Own, Buzzer, Ssp0, Port
<1> HIDE DEF pen, select
<1>5. Selects(pins, c, select)
  BY <1>2, Selected
<1> HIDE DEF c
<1>6. Sets(c, f, {pen}, 0)
  BY <1>5, FunctionSets DEF Selects
<1> HIDE DEF f
<1>7. PinsHold(e) /\ e.fun = f.fun /\ e.mode = f.mode /\ e.out = f.out \ {pen}
  BY <1>6 DEF Sets, PinsHold, Holds, PinFields
<1> HIDE DEF e
<1>8. Sets(e, y, Ssp0, 3)
  BY <1>7, OrSets
<1> HIDE DEF y
<1>9. /\ PinsHold(y) /\ y.mode = pins.mode /\ y.out = (pins.out \cup {select}) \ {pen}
      /\ \A p \in Pins : y.fun[p] = IF p \in Ssp0 THEN 3
                                    ELSE IF p \in {pen, select} THEN 0 ELSE pins.fun[p]
  BY <1>5, <1>6, <1>7, <1>8 DEF Selects, Sets
<1>10. StandsSetUp("tcs")'
  <2>1. Needs("tcs")' = Needs("tcs")
    BY DEF Needs
  <2>2. Asks("tcs", <<{select, pen}, {}, {}, Ssp0>>, {select}, {pen}, {21}, {<<42, 1>>})
    BY NeedsAre DEF pen, select
  <2>3. sc'.div[42] = 1 /\ 21 \in sc'.power
    BY <1>1, <1>2 DEF Supplies
  <2> QED  BY <1>1, <1>3, <1>4, <1>9, <2>1, <2>2, <2>3 DEF StandsSetUp, Asks
<1> QED  BY <1>1, <1>2, <1>3, <1>4, <1>9, <1>10, SerialLoadKeeps

(* That of the memory card, with an output that is not its select.         *)
LEMMA SdLoads == ASSUME PinsInv, drv_sd_load  PROVE PinsInv'
<1> DEFINE select == <<0, 16>>
           wrong == <<0, 0>>
           f == set_PinFunc(pins, {select}, 0)
           c == Outputs(f, {wrong}, 1)
           e == OrFunc(set_PinFunc(c, Spi, 0), Spi, 3)
           y == [e EXCEPT !.high = @ \cup {select}]
<1>1. Loads("sd", y, SdClock) /\ pins' = y /\ sc' = SdClock
  BY DEF drv_sd_load, SdPins, Loads
<1>2. PinsHold(pins) /\ Supplies(sc, SdClock, 8, 16, 2) /\ "sd" \in Drivers
  BY ClocksAre DEF PinsInv, PinsType, Drivers
<1>3. Own("sd") = {select} \cup Spi /\ Touched("sd") = Own("sd") \cup {wrong}
      /\ Own("sd") \subseteq Pins /\ 16 \in OwnDiv("sd")
  BY <1>2, OwnPins DEF Own, Touched, OwnDiv
<1>4. Buzzer \notin Touched("sd") /\ select \notin Spi
  BY DEF Own, Touched, Buzzer, Spi, Port
<1> HIDE DEF wrong, select
<1>5. Sets(pins, f, {select}, 0)
  BY <1>2, FunctionSets
<1> HIDE DEF f
<1>6. Drives(f, c, f.out \cup {wrong})
  BY <1>5, OutputsDrive DEF Sets
<1> HIDE DEF c
<1>7. Sets(c, e, Spi, 3)
  BY <1>6, SerialSets DEF Drives
<1> HIDE DEF e
<1>8. PinsHold(y) /\ y.fun = e.fun /\ y.mode = e.mode /\ y.out = e.out
  BY <1>7 DEF Sets, PinsHold, Holds, PinFields
<1> HIDE DEF y
<1>9. /\ y.mode = pins.mode /\ y.out = pins.out \cup {wrong}
      /\ \A p \in Pins : y.fun[p] = IF p \in Spi THEN 3
                                    ELSE IF p = select THEN 0 ELSE pins.fun[p]
  BY <1>5, <1>6, <1>7, <1>8 DEF Sets, Drives
<1>10. StandsSetUp("sd")'
  <2>1. Needs("sd")' = Needs("sd")
    BY DEF Needs
  <2>2. Asks("sd", <<{select}, {}, {}, Spi>>, {}, {}, {8}, {<<16, 2>>})
    BY NeedsAre DEF select
  <2>3. sc'.div[16] = 2 /\ 8 \in sc'.power
    BY <1>1, <1>2 DEF Supplies
  <2> QED  BY <1>1, <1>3, <1>4, <1>9, <2>1, <2>2, <2>3 DEF StandsSetUp, Asks
<1> QED  BY <1>1, <1>2, <1>3, <1>4, <1>8, <1>9, <1>10, SerialLoadKeeps

(* drv_led_unload() and drv_buzz_unload() *)
LEMMA UnloadKeeps ==
  ASSUME PinsInv, NEW d \in Drivers, NEW gone, NEW y, Unloads(d, y),
         PinsHold(y), y.fun = pins.fun, y.mode = pins.mode, y.out = pins.out \ gone,
         gone \subseteq Touched(d)
  PROVE  PinsInv'
<1>1. /\ pins' = y /\ loaded' = loaded \ {d} /\ sc' = sc /\ step' = step
  BY DEF Unloads, clockVars
<1>2. Writes(Touched(d), OwnDiv(d))
  BY <1>1 DEF Writes
<1>3. ASSUME NEW e \in loaded'  PROVE StandsSetUp(e)'
  <2>1. e \in loaded /\ e # d /\ e \in Drivers /\ StandsSetUp(e)
    BY <1>1, <1>3 DEF PinsInv, PinsType
  <2> QED  BY <1>2, <2>1, DriversApart, OthersStand
<1> QED  BY <1>1, <1>3 DEF PinsInv, PinsType, Done

(* Both take outputs of their own, or of nobody.                           *)
LEMMA PinsUnload ==
  ASSUME PinsInv, drv_led_unload \/ drv_buzz_unload  PROVE PinsInv'
<1>1. PinsHold(pins) /\ "led" \in Drivers /\ "buzz" \in Drivers
  BY DEF PinsInv, PinsType, Drivers
<1>2. CASE drv_led_unload
  <2> DEFINE y == [pins EXCEPT !.out = @ \ Leds]
  <2>1. Unloads("led", y)
    BY <1>2 DEF drv_led_unload
  <2>2. PinsHold(y) /\ y.fun = pins.fun /\ y.mode = pins.mode /\ y.out = pins.out \ Leds
    BY <1>1 DEF PinsHold, Holds, PinFields
  <2>3. Leds \subseteq Touched("led")
    BY DEF Touched, Own
  <2> HIDE DEF y
  <2> QED  BY <1>1, <2>1, <2>2, <2>3, UnloadKeeps
<1>3. CASE drv_buzz_unload
  <2> DEFINE y == [pins EXCEPT !.high = @ \cup {Buzzer}, !.out = @ \ {<<2, 26>>}]
  <2>1. Unloads("buzz", y)
    BY <1>3 DEF drv_buzz_unload
  <2>2. PinsHold(y) /\ y.fun = pins.fun /\ y.mode = pins.mode /\ y.out = pins.out \ {<<2, 26>>}
    BY <1>1 DEF PinsHold, Holds, PinFields
  <2>3. {<<2, 26>>} \subseteq Touched("buzz")
    BY DEF Touched, Own
  <2> HIDE DEF y
  <2> QED  BY <1>1, <2>1, <2>2, <2>3, UnloadKeeps
<1> QED  BY <1>2, <1>3

(* All steps of the drivers.                                               *)
LEMMA PinsStep == ASSUME PinsInv, PinsNext  PROVE PinsInv'
BY LedLoads, BuzzLoads, PotLoads, UsrIntLoads, LcdLoads, TcsLoads, SdLoads, PinsUnload
DEF PinsNext

(* The clock changes dividers before the first load only.                  *)
LEMMA ClockKeepsPins ==
  ASSUME PinsInv, ClockNext, UNCHANGED pinVars  PROVE PinsInv'
<1>1. pins' = pins /\ loaded' = loaded /\ Holds(sc', ScFields)
      /\ (Done => Done' /\ sc'.power = sc.power)
  BY ClockKeepsPower DEF pinVars, PinsInv, PinsType
<1>2. /\ Holds(sc'.div, ClockTypes) /\ sc'.div[20] \in {0, 2}
      /\ Done => sc'.div = sc.div
  <2>1. CASE Boots
    <3>1. ~Done
      BY <2>1 DEF Boots
    <3>2. sc'.div \in {sc.div, [type \in DOMAIN sc.div |-> 0]}
      BY <2>1 DEF Boots, PinsInv, PinsType, Holds, ScFields
    <3>3. 20 \in ClockTypes
      BY DEF ClockTypes
    <3> QED  BY <3>1, <3>2, <3>3 DEF PinsInv, PinsType, Holds
  <2>2. CASE OscillatorStarts \/ (\E n \in {0, 1} : PllLocks(n)) \/ SystemCoreClockUpdate
    <3>1. sc'.div = sc.div
      BY <2>2 DEF OscillatorStarts, PllLocks, SystemCoreClockUpdate, PinsInv, PinsType,
                  Holds, ScFields
    <3> QED  BY <3>1 DEF PinsInv, PinsType
  <2> QED  BY <2>1, <2>2 DEF ClockNext
<1>3. ASSUME NEW d \in loaded'  PROVE StandsSetUp(d)'
  <2>1. StandsSetUp(d) /\ sc'.power = sc.power /\ sc'.div = sc.div
    BY <1>1, <1>2, <1>3 DEF PinsInv
  <2>2. Needs(d)' = Needs(d)
    BY DEF Needs
  <2> QED  BY <1>1, <2>1, <2>2 DEF StandsSetUp
<1> QED  BY <1>1, <1>2, <1>3 DEF PinsInv, PinsType

(* The potentiometer switches its own power.                               *)
LEMMA PotKeepsPins ==
  ASSUME PinsInv, PotNext, UNCHANGED pinVars  PROVE PinsInv'
<1>1. /\ pins' = pins /\ loaded' = loaded /\ Holds(sc', ScFields) /\ step' = step
      /\ sc'.div = sc.div /\ (sc.power \ {PCAD}) \cap PowerBits \subseteq sc'.power
  BY PotKeepsClock DEF pinVars, PinsInv, PinsType, SameClock, SameRates
<1>2. Writes({}, {})
  BY <1>1 DEF Writes
<1>3. ASSUME NEW d \in loaded'  PROVE StandsSetUp(d)'
  BY <1>1, <1>2, <1>3, OthersStand DEF PinsInv, PinsType
<1> QED  BY <1>1, <1>3 DEF PinsInv, PinsType, Done

(* Nothing changes.                                                        *)
LEMMA PinsStutter ==
  ASSUME PinsInv, UNCHANGED <<pinVars, clockVars>>  PROVE PinsInv'
<1>1. pins' = pins /\ loaded' = loaded /\ sc' = sc /\ step' = step
  BY DEF pinVars, clockVars
<1>2. Writes({}, {})
  BY <1>1 DEF Writes
<1>3. ASSUME NEW d \in loaded'  PROVE StandsSetUp(d)'
  BY <1>1, <1>2, <1>3, OthersStand DEF PinsInv, PinsType
<1> QED  BY <1>1, <1>3 DEF PinsInv, PinsType, Done

-----------------------------------------------------------------------------
(* The potentiometer.  The inductive invariant says where the one          *)
(* conversion of a call is: running, waiting for the interrupt, or stored  *)
(* with the flag set (Conversion).  Outside of a call there is none, and   *)
(* nothing is left of the last one (Idle), so that a call cannot wake at a *)
(* conversion that it did not start.                                       *)
AdcFields ==
  {"operational", "clkdiv", "start", "channels", "inten", "busy", "done", "overrun", "result"}

PotRecord ==
  [at : {"closed", "open", "started", "wait", "stopped"}, adcValue : {"stale", "fresh"},
   adcDoneFlag : Nat, enabled : BOOLEAN, pending : BOOLEAN]

PotFlag == [auto : {TRUE}, set : BOOLEAN]

PotType ==
  /\ Holds(sc, ScFields) /\ Holds(adc, AdcFields)
  /\ adc.result \in {"stale", "fresh"} /\ adc.busy \in BOOLEAN /\ adc.done \in BOOLEAN
  /\ pot \in PotRecord
  /\ potFlags \in Seq(PotFlag)
  /\ got \in {"none", "fresh"}

(* What drv_pot_open() has set up.                                         *)
PotOpen ==
  /\ Done /\ PCAD \in sc.power
  /\ adc.operational /\ adc.channels # {} /\ 5 \in adc.inten
  /\ pot.adcDoneFlag \in DOMAIN potFlags

FlagSet == potFlags[pot.adcDoneFlag].set

Idle == ~adc.busy /\ ~adc.done /\ ~pot.pending /\ ~pot.enabled

(* The conversion of the call in progress has not ended yet, or waits for  *)
(* the handler.                                                            *)
Unread ==
  \/ adc.busy /\ ~adc.done /\ ~pot.pending
  \/ ~adc.busy /\ adc.done /\ pot.pending /\ adc.result = "fresh"

Conversion ==
  /\ pot.at \in {"closed", "open", "stopped"} => Idle
  /\ pot.at \in {"open", "started", "wait"} => PotOpen
  /\ pot.at = "open" => ~FlagSet
  /\ pot.at = "started" => Unread /\ ~pot.enabled /\ ~FlagSet
  /\ pot.at = "wait" =>
       \/ Unread /\ pot.enabled /\ ~FlagSet
       \/ Idle /\ FlagSet /\ pot.adcValue = "fresh"

PotInv == PotType /\ Conversion

(* What the invariant says of the values and of a call that waits.         *)
LEMMA PotImplies == PotInv => PotFresh
BY DEF PotInv, PotType, PotRecord, Conversion, PotFresh, Unread, Idle, FlagSet, PotOpen, Converting

(* After reset the driver is closed.                                       *)
LEMMA PotInitial == ClockInit /\ PotInit => PotInv
<1> SUFFICES ASSUME ClockInit, PotInit  PROVE PotInv
  OBVIOUS
<1>1. Holds(sc, ScFields)
  BY DEF ClockInit, Holds, ScFields
<1>2. Holds(adc, AdcFields) /\ adc.busy = FALSE /\ adc.done = FALSE /\ adc.result = "stale"
  BY DEF PotInit, AdcInit, Holds, AdcFields
<1>3. /\ pot = [at |-> "closed", adcValue |-> "stale", adcDoneFlag |-> 0,
                enabled |-> FALSE, pending |-> FALSE]
      /\ potFlags = <<>> /\ got = "none"
  BY DEF PotInit
<1>4. PotType
  <2>1. potFlags \in Seq(PotFlag)
    BY <1>3
  <2> QED  BY <1>1, <1>2, <1>3, <2>1 DEF PotType, PotRecord
<1> QED  BY <1>2, <1>3, <1>4 DEF PotInv, Conversion, Idle

(* Nothing but the power and the program's place changes.                  *)
LEMMA ClockKeepsPot ==
  ASSUME PotInv, UNCHANGED potVars, Holds(sc', ScFields),
         Done => Done' /\ sc.power \subseteq sc'.power
  PROVE  PotInv'
BY DEF potVars, PotInv, PotType, Conversion, PotOpen, FlagSet, Idle, Unread, Holds

(* The effect of writing a flag of the kernel.                             *)
LEMMA FlagWritten ==
  ASSUME NEW s \in Seq(PotFlag), NEW d \in DOMAIN s, NEW b \in BOOLEAN
  PROVE  /\ [s EXCEPT ![d].set = b] \in Seq(PotFlag)
         /\ DOMAIN [s EXCEPT ![d].set = b] = DOMAIN s
         /\ [s EXCEPT ![d].set = b][d].set = b
<1> DEFINE e == [s[d] EXCEPT !.set = b]
<1>1. d \in 1 .. Len(s) /\ s[d] \in PotFlag
  BY ElementOfSeq
<1>2. e \in PotFlag /\ e.set = b
  BY <1>1 DEF PotFlag
<1>3. [s EXCEPT ![d].set = b] = [s EXCEPT ![d] = e]
  OBVIOUS
<1> HIDE DEF e
<1>4. /\ [s EXCEPT ![d] = e] \in Seq(PotFlag)
      /\ DOMAIN [s EXCEPT ![d] = e] = DOMAIN s
      /\ [s EXCEPT ![d] = e][d] = e
  BY <1>1, <1>2, ExceptSeq
<1> QED  BY <1>2, <1>3, <1>4

(* drv_pot_open() powers the converter, enables its channel and makes a    *)
(* flag that is not set.                                                   *)
LEMMA OpenKeepsPot ==
  ASSUME PotInv, drv_pot_open  PROVE PotInv'
<1>1. /\ PotType /\ Done /\ pot.at = "closed" /\ Idle
      /\ got' = got /\ core' = core /\ step' = step
  BY DEF PotInv, Conversion, drv_pot_open
<1>2. /\ Holds(sc', ScFields) /\ PCAD \in sc'.power
  <2>1. sc' = [sc EXCEPT !.power = @ \cup ({PCAD} \cap PowerBits)]
    BY DEF drv_pot_open, CLKPWR_ConfigPPWR
  <2>2. PCAD \in PowerBits
    BY DEF PCAD, PowerBits
  <2> QED  BY <1>1, <2>1, <2>2 DEF PotType, Holds, ScFields
<1>3. /\ Holds(adc', AdcFields) /\ adc'.operational /\ adc'.channels # {} /\ 5 \in adc'.inten
      /\ adc'.busy = FALSE /\ adc'.done = adc.done /\ adc'.result = adc.result
  <2> DEFINE div == (CLKPWR_GetPCLK(AdcClk) \div Clocks(200000) - 1) % 256
             a1  == [adc EXCEPT !.operational = TRUE, !.start = 0, !.channels = {},
                                !.busy = FALSE, !.clkdiv = div]
             a2  == [a1 EXCEPT !.inten = @ \cup {5}]
  <2>1. adc' = [a2 EXCEPT !.channels = @ \cup {5}]
    BY DEF drv_pot_open, ADC_ChannelCmd, ADC_IntConfig, ADC_Init
  <2> HIDE DEF div
  <2>2. /\ Holds(a1, AdcFields) /\ a1.operational = TRUE /\ a1.busy = FALSE
        /\ a1.done = adc.done /\ a1.result = adc.result
    BY <1>1 DEF PotType, Holds, AdcFields
  <2> HIDE DEF a1
  <2>3. /\ Holds(a2, AdcFields) /\ a2.operational = TRUE /\ a2.busy = FALSE
        /\ a2.done = adc.done /\ a2.result = adc.result /\ 5 \in a2.inten
    BY <2>2 DEF Holds, AdcFields
  <2> HIDE DEF a2
  <2> QED  BY <2>1, <2>3 DEF Holds, AdcFields
<1>4. Idle /\ Done /\ pot.enabled = FALSE /\ pot.pending = FALSE
  BY <1>1 DEF Idle, PotType, PotRecord
<1>5. CASE /\ potFlags' = Append(potFlags, DoneFlag)
           /\ pot' = [pot EXCEPT !.at = "open", !.adcDoneFlag = Len(potFlags) + 1]
  <2>1. DoneFlag \in PotFlag /\ DoneFlag.set = FALSE
    BY DEF DoneFlag, PotFlag
  <2>2. /\ potFlags' \in Seq(PotFlag)
        /\ Len(potFlags') = Len(potFlags) + 1 /\ Len(potFlags) \in Nat
        /\ potFlags'[Len(potFlags) + 1] = DoneFlag
    <3>1. potFlags \in Seq(PotFlag)
      BY <1>1 DEF PotType, PotRecord
    <3>2. \A e \in PotFlag :
            /\ Append(potFlags, e) \in Seq(PotFlag)
            /\ Len(Append(potFlags, e)) = Len(potFlags) + 1 /\ Len(potFlags) \in Nat
            /\ Append(potFlags, e)[Len(potFlags) + 1] = e
      BY <3>1, AppendProperties, LenProperties
    <3> QED  BY <1>5, <2>1, <3>2
  <2>3. /\ pot' \in PotRecord
        /\ pot'.at = "open" /\ pot'.adcDoneFlag = Len(potFlags) + 1
        /\ pot'.enabled = FALSE /\ pot'.pending = FALSE
    <3> DEFINE flag == Len(potFlags) + 1
    <3>1. flag \in Nat /\ pot' = [pot EXCEPT !.at = "open", !.adcDoneFlag = flag]
      BY <1>5, <2>2
    <3> HIDE DEF flag
    <3>2. pot' \in PotRecord
      BY <1>1, <3>1 DEF PotType, PotRecord
    <3>3. /\ pot'.at = "open" /\ pot'.adcDoneFlag = flag
          /\ pot'.enabled = FALSE /\ pot'.pending = FALSE
      BY <1>1, <1>4, <3>1 DEF PotType, PotRecord
    <3> QED  BY <3>2, <3>3 DEF flag
  <2>4. pot'.adcDoneFlag \in DOMAIN potFlags' /\ potFlags'[pot'.adcDoneFlag].set = FALSE
    BY <2>1, <2>2, <2>3
  <2>5. PotType'
    BY <1>1, <1>2, <1>3, <2>2, <2>3 DEF PotType, PotRecord
  <2>6. Idle' /\ PotOpen' /\ ~FlagSet'
    BY <1>1, <1>2, <1>3, <1>4, <2>3, <2>4 DEF Idle, PotOpen, FlagSet, Done
  <2> QED  BY <2>3, <2>5, <2>6 DEF PotInv, Conversion
<1>6. CASE pot' = [pot EXCEPT !.at = "stopped"] /\ UNCHANGED potFlags
  <2>1. /\ pot' \in PotRecord
        /\ pot'.at = "stopped" /\ pot'.enabled = FALSE /\ pot'.pending = FALSE
    BY <1>1, <1>4, <1>6 DEF PotType, PotRecord
  <2>2. PotType'
    BY <1>1, <1>2, <1>3, <1>6, <2>1 DEF PotType, PotRecord
  <2>3. Idle'
    BY <1>3, <1>4, <2>1 DEF Idle
  <2> QED  BY <2>1, <2>2, <2>3 DEF PotInv, Conversion
<1> QED  BY <1>5, <1>6 DEF drv_pot_open

(* drv_pot_close() *)
LEMMA CloseKeepsPot ==
  ASSUME PotInv, drv_pot_close  PROVE PotInv'
<1>1. /\ PotType /\ Idle /\ pot.at = "open" /\ potFlags' = potFlags /\ got' = got
      /\ sc' = CLKPWR_ConfigPPWR(sc, PCAD, FALSE)
      /\ adc' = [[adc EXCEPT !.operational = FALSE, !.busy = FALSE] EXCEPT !.operational = FALSE]
      /\ pot' = [pot EXCEPT !.at = "closed"]
  BY DEF PotInv, Conversion, drv_pot_close, ADC_PowerdownCmd, ADC_DeInit
<1>2. Holds(sc', ScFields)
  BY <1>1 DEF PotType, CLKPWR_ConfigPPWR, Holds, ScFields
<1>3. /\ Holds(adc', AdcFields) /\ adc'.busy = FALSE /\ adc'.done = adc.done
      /\ adc'.result = adc.result
  BY <1>1 DEF PotType, Holds, AdcFields
<1>4. /\ pot' \in PotRecord
      /\ pot'.at = "closed" /\ pot'.enabled = pot.enabled /\ pot'.pending = pot.pending
  BY <1>1 DEF PotType, PotRecord
<1>5. PotType'
  BY <1>1, <1>2, <1>3, <1>4 DEF PotType, PotRecord
<1>6. Idle'
  BY <1>1, <1>3, <1>4 DEF Idle
<1> QED  BY <1>4, <1>5, <1>6 DEF PotInv, Conversion

(* drv_pot_getValue() starts a conversion and then enables the interrupt.  *)
LEMMA CallKeepsPot ==
  ASSUME PotInv, drv_pot_getValue \/ EnablesIrq  PROVE PotInv'
<1>1. /\ PotType /\ UNCHANGED <<potFlags, got>> /\ sc' = sc /\ step' = step
      /\ PotOpen /\ ~FlagSet
  BY DEF PotInv, Conversion, drv_pot_getValue, EnablesIrq, clockVars
<1>2. CASE drv_pot_getValue
  <2>1. /\ adc' = [adc EXCEPT !.start = 1, !.busy = TRUE, !.result = "stale"]
        /\ pot' = [pot EXCEPT !.at = "started", !.adcValue = "stale"]
        /\ Idle
    BY <1>2 DEF drv_pot_getValue, ADC_StartCmd, PotInv, Conversion
  <2>2. /\ Holds(adc', AdcFields) /\ adc'.busy = TRUE /\ adc'.done = adc.done
        /\ adc'.result = "stale" /\ adc'.operational = adc.operational
        /\ adc'.channels = adc.channels /\ adc'.inten = adc.inten
    BY <1>1, <2>1 DEF PotType, Holds, AdcFields
  <2>3. /\ pot' \in PotRecord /\ pot'.at = "started" /\ pot'.enabled = pot.enabled
        /\ pot'.pending = pot.pending /\ pot'.adcDoneFlag = pot.adcDoneFlag
    BY <1>1, <2>1 DEF PotType, PotRecord
  <2>4. PotType'
    BY <1>1, <2>2, <2>3 DEF PotType
  <2>5. Unread' /\ ~pot'.enabled
    BY <2>1, <2>2, <2>3 DEF Idle, Unread
  <2>6. PotOpen' /\ ~FlagSet'
    BY <1>1, <2>2, <2>3 DEF PotOpen, FlagSet, Done
  <2> QED  BY <2>3, <2>4, <2>5, <2>6 DEF PotInv, Conversion
<1>3. CASE EnablesIrq
  <2>1. adc' = adc /\ pot' = [pot EXCEPT !.at = "wait", !.enabled = TRUE] /\ Unread
    BY <1>3 DEF EnablesIrq, PotInv, Conversion
  <2>2. /\ pot' \in PotRecord /\ pot'.at = "wait" /\ pot'.enabled = TRUE
        /\ pot'.pending = pot.pending /\ pot'.adcDoneFlag = pot.adcDoneFlag
    BY <1>1, <2>1 DEF PotType, PotRecord
  <2>3. PotType'
    BY <1>1, <2>1, <2>2 DEF PotType
  <2>4. Unread' /\ PotOpen' /\ ~FlagSet'
    BY <1>1, <2>1, <2>2 DEF Unread, PotOpen, FlagSet, Done
  <2> QED  BY <2>2, <2>3, <2>4 DEF PotInv, Conversion
<1> QED  BY <1>2, <1>3

(* The wait is satisfied and clears the flag; the call returns.            *)
LEMMA TakenKeepsPot ==
  ASSUME PotInv, WaitTaken  PROVE PotInv'
<1> DEFINE d == pot.adcDoneFlag
<1>1. /\ PotType /\ adc' = adc /\ sc' = sc /\ step' = step
      /\ PotOpen /\ FlagSet /\ Idle /\ pot.adcValue = "fresh"
      /\ d \in DOMAIN potFlags
  BY DEF PotInv, Conversion, WaitTaken, clockVars, FlagSet, PotOpen
<1>2. pot' = [pot EXCEPT !.at = "open"] /\ got' = "fresh"
  BY <1>1 DEF WaitTaken
<1>3. potFlags' = [potFlags EXCEPT ![d].set = FALSE]
  <2>1. potFlags \in Seq(PotFlag) /\ potFlags[d] \in PotFlag
    BY <1>1, ElementOfSeq DEF PotType
  <2>2. potFlags[d].auto = TRUE
    BY <2>1 DEF PotFlag
  <2> QED  BY <2>2 DEF WaitTaken
<1>4. /\ potFlags' \in Seq(PotFlag) /\ DOMAIN potFlags' = DOMAIN potFlags
      /\ potFlags'[d].set = FALSE
  <2> HIDE DEF d
  <2> QED  BY <1>1, <1>3, FlagWritten DEF PotType
<1>5. /\ pot' \in PotRecord /\ pot'.at = "open" /\ pot'.enabled = pot.enabled
      /\ pot'.pending = pot.pending /\ pot'.adcDoneFlag = d
  BY <1>1, <1>2 DEF PotType, PotRecord
<1>6. PotType'
  BY <1>1, <1>2, <1>4, <1>5 DEF PotType
<1>7. Idle' /\ PotOpen' /\ ~FlagSet'
  BY <1>1, <1>4, <1>5 DEF Idle, PotOpen, FlagSet, Done
<1> QED  BY <1>5, <1>6, <1>7 DEF PotInv, Conversion

(* The converter finishes: only a call has started it.                     *)
LEMMA ConvertsKeepsPot ==
  ASSUME PotInv, Converts  PROVE PotInv'
<1>1. /\ PotType /\ UNCHANGED <<potFlags, got>> /\ sc' = sc /\ step' = step
      /\ adc.busy /\ pot.at \in {"started", "wait"}
      /\ PotOpen /\ Unread /\ ~FlagSet
      /\ pot.at = "started" => ~pot.enabled
      /\ pot.at = "wait" => pot.enabled
  BY DEF PotInv, PotType, PotRecord, Conversion, Converts, Converting, clockVars, Idle
<1>2. adc' = [adc EXCEPT !.busy = FALSE, !.done = TRUE, !.overrun = @ \/ adc.done,
                         !.result = "fresh"]
  BY DEF Converts, AfterConversion
<1>3. /\ Holds(adc', AdcFields) /\ adc'.busy = FALSE /\ adc'.done = TRUE
      /\ adc'.result = "fresh" /\ adc'.operational = adc.operational
      /\ adc'.channels = adc.channels /\ adc'.inten = adc.inten
  BY <1>1, <1>2 DEF PotType, Holds, AdcFields
<1>4. pot' = [pot EXCEPT !.pending = TRUE]
  BY <1>1 DEF Converts, PotOpen
<1>5. /\ pot' \in PotRecord /\ pot'.at = pot.at /\ pot'.enabled = pot.enabled
      /\ pot'.pending = TRUE /\ pot'.adcDoneFlag = pot.adcDoneFlag
  BY <1>1, <1>4 DEF PotType, PotRecord
<1>6. PotType'
  BY <1>1, <1>3, <1>5 DEF PotType
<1>7. Unread' /\ PotOpen' /\ ~FlagSet'
  BY <1>1, <1>3, <1>5 DEF Unread, PotOpen, FlagSet, Done
<1> QED  BY <1>1, <1>5, <1>6, <1>7 DEF PotInv, Conversion

(* The handler stores the value of the call that waits, and sets the flag. *)
LEMMA HandlerKeepsPot ==
  ASSUME PotInv, ADC_IRQHandler  PROVE PotInv'
<1> DEFINE d == pot.adcDoneFlag
<1>1. /\ PotType /\ UNCHANGED got /\ sc' = sc /\ step' = step
      /\ pot.at = "wait" /\ PotOpen /\ Unread /\ pot.pending
      /\ adc.done = TRUE /\ ~adc.busy /\ adc.result = "fresh" /\ d \in DOMAIN potFlags
  BY DEF PotInv, PotType, PotRecord, Conversion, ADC_IRQHandler, clockVars, Idle, Unread,
         PotOpen
<1>2. adc' = [adc EXCEPT !.done = FALSE, !.overrun = FALSE]
  BY DEF ADC_IRQHandler, ADC_ChannelGetStatus
<1>3. /\ Holds(adc', AdcFields) /\ adc'.busy = adc.busy /\ adc'.done = FALSE
      /\ adc'.result = "fresh" /\ adc'.operational = adc.operational
      /\ adc'.channels = adc.channels /\ adc'.inten = adc.inten
  BY <1>1, <1>2 DEF PotType, Holds, AdcFields
<1>4. /\ pot' = [pot EXCEPT !.pending = FALSE, !.enabled = FALSE, !.adcValue = "fresh"]
      /\ potFlags' = [potFlags EXCEPT ![d].set = TRUE]
  BY <1>1, <1>2, <1>3 DEF ADC_IRQHandler, ADC_ChannelGetStatus, ADC_ChannelGetData
<1>5. /\ potFlags' \in Seq(PotFlag) /\ DOMAIN potFlags' = DOMAIN potFlags
      /\ potFlags'[d].set = TRUE
  <2> HIDE DEF d
  <2> QED  BY <1>1, <1>4, FlagWritten DEF PotType
<1>6. /\ pot' \in PotRecord /\ pot'.at = "wait" /\ pot'.enabled = FALSE
      /\ pot'.pending = FALSE /\ pot'.adcDoneFlag = d /\ pot'.adcValue = "fresh"
  BY <1>1, <1>4 DEF PotType, PotRecord
<1>7. PotType'
  BY <1>1, <1>3, <1>5, <1>6 DEF PotType
<1>8. Idle' /\ PotOpen' /\ FlagSet'
  BY <1>1, <1>3, <1>5, <1>6 DEF Idle, PotOpen, FlagSet, Done
<1> QED  BY <1>6, <1>7, <1>8 DEF PotInv, Conversion

(* The invariant is inductive in the steps of the potentiometer.           *)
LEMMA PotStep ==
  ASSUME PotInv, PotNext  PROVE PotInv'
BY OpenKeepsPot, CloseKeepsPot, CallKeepsPot, TakenKeepsPot, ConvertsKeepsPot,
   HandlerKeepsPot
DEF PotNext

-----------------------------------------------------------------------------
(* The buzzer.  The inductive invariant: the handler's count is at least   *)
(* the number of interrupts since the last edge, which is never beyond the *)
(* half period of the last tone that began (CountExact); no channel but 0  *)
(* compares, none stops the timer (Compares); and a call of                *)
(* drv_buzz_generateStart() has reached what its place says (Prepared).    *)
(* What the tone before left in TC and in irqNum is not restricted.        *)
TimFields == {"enabled", "TC", "PR", "MR", "MCR", "EMR", "mode", "IR"}

BuzzRecord ==
  [at : {"rest", "set", "enable", "edge", "tone", "disable", "stop"}, TmrCounter : Nat,
   irqNum : Nat, high : BOOLEAN]

SoundType ==
  /\ Holds(sc, ScFields) /\ Holds(tim, TimFields)
  /\ nvic \in [enabled : BOOLEAN, pending : BOOLEAN]
  /\ buzz \in BuzzRecord /\ since \in Nat
  /\ tim.TC \in Nat /\ tim.MR \in [Channels -> Nat]
  /\ tim.MCR \in [Channels -> SUBSET {"int", "reset"}]

CountExact == since <= buzz.irqNum /\ since <= buzz.TmrCounter + 1

Compares == \A c \in Channels \ {0} : tim.MCR[c] = {}

Prepared ==
  /\ buzz.at \notin {"rest", "set"} => Done /\ PowerOf[1] \in sc.power
  /\ buzz.at \in {"enable", "edge", "tone"} =>
       /\ nvic.enabled
       /\ tim.TC <= 1 /\ tim.MR[0] = 1 /\ tim.MCR[0] = {"int", "reset"}
  /\ buzz.at \in {"edge", "tone"} => tim.enabled = TRUE

SoundInv == SoundType /\ CountExact /\ Compares /\ Prepared

(* What the invariant says of a tone.                                      *)
LEMMA SoundImplies == SoundInv => ToneAlive
BY DEF SoundInv, CountExact, Prepared, ToneAlive

(* After reset the timer is off and compares nothing.                      *)
LEMMA SoundInitial == ClockInit /\ TimerInit /\ BuzzInit => SoundInv
<1> SUFFICES ASSUME ClockInit, TimerInit, BuzzInit  PROVE SoundInv
  OBVIOUS
<1>1. Holds(sc, ScFields)
  BY DEF ClockInit, Holds, ScFields
<1>2. /\ Holds(tim, TimFields) /\ tim.TC = 0 /\ tim.MR = [c \in Channels |-> 0]
      /\ tim.MCR = [c \in Channels |-> {}]
      /\ nvic \in [enabled : BOOLEAN, pending : BOOLEAN]
  BY DEF TimerInit, Holds, TimFields
<1>3. /\ buzz \in BuzzRecord /\ buzz.at = "rest" /\ buzz.TmrCounter = 0 /\ buzz.irqNum = 0
      /\ since = 0
  BY DEF BuzzInit, BuzzRecord
<1>4. SoundType
  BY <1>1, <1>2, <1>3 DEF SoundType
<1> QED  BY <1>2, <1>3, <1>4 DEF SoundInv, CountExact, Compares, Prepared

(* Nothing but the power and the program's place changes.                  *)
LEMMA ClockKeepsSound ==
  ASSUME SoundInv, UNCHANGED <<timerVars, buzzVars>>, Holds(sc', ScFields),
         Done => Done' /\ sc.power \subseteq sc'.power
  PROVE  SoundInv'
BY DEF timerVars, buzzVars, SoundInv, SoundType, CountExact, Compares, Prepared, Holds

(* A step that leaves the timer, its interrupt and the clock alone and     *)
(* goes where nothing new is asked of them.                                *)
LEMMA CallKeepsSound ==
  ASSUME SoundInv, UNCHANGED <<timerVars, clockVars>>,
         buzz' \in BuzzRecord, since' \in Nat, CountExact',
         \/ buzz'.at = buzz.at
         \/ buzz'.at = "set"
         \/ buzz.at = "edge" /\ buzz'.at = "tone"
         \/ buzz.at = "tone" /\ buzz'.at = "disable"
  PROVE  SoundInv'
<1>1. SoundType'
  BY DEF SoundInv, SoundType, timerVars, clockVars, Holds
<1>2. Compares'
  BY DEF SoundInv, Compares, timerVars
<1>3. Prepared'
  BY DEF SoundInv, Prepared, timerVars, clockVars, Done
<1> QED  BY <1>1, <1>2, <1>3 DEF SoundInv

(* The application and the user button switch the pin; a tone begins with  *)
(* its half period and ends with the pin high.                             *)
LEMMA PinKeepsSound ==
  ASSUME SoundInv,
         drv_buzz_on \/ drv_buzz_off \/ GenerateStart \/ FirstEdge \/ GenerateStop
           \/ EINT0_IRQHandler
  PROVE  SoundInv'
<1>1. SoundType /\ CountExact /\ UNCHANGED <<timerVars, clockVars>>
  BY DEF SoundInv, drv_buzz_on, drv_buzz_off, GenerateStart, FirstEdge, GenerateStop,
         EINT0_IRQHandler
<1>2. ASSUME NEW high \in BOOLEAN, NEW at \in {buzz.at, "tone", "disable"},
             buzz' = [buzz EXCEPT !.at = at, !.high = high], since' = since,
             \/ at = buzz.at
             \/ buzz.at = "edge" /\ at = "tone"
             \/ buzz.at = "tone" /\ at = "disable"
      PROVE  SoundInv'
  <2>1. /\ buzz' \in BuzzRecord /\ buzz'.at = at /\ buzz'.irqNum = buzz.irqNum
        /\ buzz'.TmrCounter = buzz.TmrCounter
    BY <1>1, <1>2 DEF SoundType, BuzzRecord
  <2>2. since' \in Nat /\ CountExact'
    BY <1>1, <1>2, <2>1 DEF SoundType, CountExact
  <2> QED  BY <1>1, <1>2, <2>1, <2>2, CallKeepsSound
<1>3. buzz = [buzz EXCEPT !.at = buzz.at] /\ buzz.high \in BOOLEAN
  BY <1>1 DEF SoundType, BuzzRecord
<1>4. CASE drv_buzz_on
  <2>1. buzz' = [buzz EXCEPT !.at = buzz.at, !.high = FALSE] /\ since' = since
    BY <1>1, <1>4 DEF drv_buzz_on, SoundType, BuzzRecord
  <2> QED  BY <1>2, <2>1
<1>5. CASE drv_buzz_off
  <2>1. buzz' = [buzz EXCEPT !.at = buzz.at, !.high = TRUE] /\ since' = since
    BY <1>1, <1>5 DEF drv_buzz_off, SoundType, BuzzRecord
  <2> QED  BY <1>2, <2>1
<1>6. CASE EINT0_IRQHandler
  <2>1. buzz' = [buzz EXCEPT !.at = buzz.at, !.high = ~buzz.high] /\ since' = since
    BY <1>1, <1>6 DEF EINT0_IRQHandler, SoundType, BuzzRecord
  <2> QED  BY <1>2, <1>3, <2>1
<1>7. CASE FirstEdge
  <2>1. /\ buzz' = [buzz EXCEPT !.at = "tone", !.high = FALSE] /\ since' = since
        /\ buzz.at = "edge"
    BY <1>7 DEF FirstEdge
  <2> QED  BY <1>2, <2>1
<1>8. CASE GenerateStop
  <2>1. /\ buzz' = [buzz EXCEPT !.at = "disable", !.high = TRUE] /\ since' = since
        /\ buzz.at = "tone"
    BY <1>8 DEF GenerateStop
  <2> QED  BY <1>2, <2>1
<1>9. CASE GenerateStart
  <2>1. PICK delay_us \in Delays :
          buzz' = [buzz EXCEPT !.at = "set", !.TmrCounter = delay_us \div 2]
    BY <1>9 DEF GenerateStart
  <2>2. delay_us \div 2 \in Nat /\ since' = 0
    <3>1. delay_us \in Nat /\ \A n \in Nat : n \div 2 \in Nat
      BY DelaysAssumption
    <3> QED  BY <1>9, <3>1 DEF GenerateStart
  <2>3. /\ buzz' \in BuzzRecord /\ buzz'.at = "set" /\ buzz'.irqNum = buzz.irqNum
        /\ buzz'.TmrCounter = delay_us \div 2 /\ buzz.irqNum \in Nat
    <3> DEFINE n == delay_us \div 2
    <3>1. n \in Nat /\ buzz' = [buzz EXCEPT !.at = "set", !.TmrCounter = n]
      BY <2>1, <2>2
    <3> HIDE DEF n
    <3>2. /\ buzz' \in BuzzRecord /\ buzz'.at = "set" /\ buzz'.irqNum = buzz.irqNum
          /\ buzz'.TmrCounter = n /\ buzz.irqNum \in Nat
      BY <1>1, <3>1 DEF SoundType, BuzzRecord
    <3> QED  BY <3>2 DEF n
  <2>4. since' \in Nat /\ CountExact'
    BY <2>2, <2>3 DEF CountExact
  <2> QED  BY <1>1, <2>3, <2>4, CallKeepsSound
<1> QED  BY <1>4, <1>5, <1>6, <1>7, <1>8, <1>9

(* drv_buzz_generateStart() sets the timer up: power, match, interrupt.    *)
LEMMA ConfiguredKeepsSound ==
  ASSUME SoundInv, Configured  PROVE SoundInv'
<1>1. /\ SoundType /\ CountExact /\ Compares /\ since' = since /\ step' = step /\ Done
      /\ buzz' = [buzz EXCEPT !.at = "enable"]
      /\ nvic' = [nvic EXCEPT !.enabled = TRUE]
  BY DEF SoundInv, Configured, Steps
<1>2. Holds(sc', ScFields) /\ PowerOf[1] \in sc'.power
  <2> DEFINE s1 == [sc EXCEPT !.power = @ \cup ({PowerOf[1]} \cap PowerBits)]
  <2>1. Holds(s1, ScFields) /\ s1.power = sc.power \cup ({PowerOf[1]} \cap PowerBits)
    BY <1>1 DEF SoundType, Holds, ScFields
  <2>2. sc' = [s1 EXCEPT !.div[ClockOf[1]] = 0]
    BY DEF Configured, TimerPower, CLKPWR_SetPCLKDiv, CLKPWR_ConfigPPWR
  <2>3. PowerOf[1] \in PowerBits
    BY DEF PowerOf, PowerBits
  <2> HIDE DEF s1
  <2> QED  BY <2>1, <2>2, <2>3 DEF Holds, ScFields
<1>3. /\ Holds(tim', TimFields) /\ tim'.TC = 0 /\ tim'.MR = [tim.MR EXCEPT ![0] = 1]
      /\ tim'.MCR = [tim.MCR EXCEPT ![0] = {"int", "reset"}]
  <2> DEFINE pr == converUSecToVal(0, 1) - 1
             t1 == [tim EXCEPT !.mode = 0, !.TC = 0, !.PR = pr, !.IR = {}]
  <2>1. tim' = [t1 EXCEPT !.MR[0] = 1, !.MCR[0] = {"int", "reset"}, !.EMR[0] = 0]
    BY DEF Configured, TIM_ConfigMatch, TIM_Init
  <2> HIDE DEF pr
  <2>2. Holds(t1, TimFields) /\ t1.TC = 0 /\ t1.MR = tim.MR /\ t1.MCR = tim.MCR
    BY <1>1 DEF SoundType, Holds, TimFields
  <2> HIDE DEF t1
  <2> QED  BY <2>1, <2>2 DEF Holds, TimFields
<1>4. /\ nvic' \in [enabled : BOOLEAN, pending : BOOLEAN] /\ nvic'.enabled = TRUE
  BY <1>1 DEF SoundType
<1>5. /\ buzz' \in BuzzRecord /\ buzz'.at = "enable" /\ buzz'.irqNum = buzz.irqNum
      /\ buzz'.TmrCounter = buzz.TmrCounter
  BY <1>1 DEF SoundType, BuzzRecord
<1>6. /\ tim'.MR \in [Channels -> Nat] /\ tim'.MR[0] = 1
      /\ tim'.MCR \in [Channels -> SUBSET {"int", "reset"}] /\ tim'.MCR[0] = {"int", "reset"}
      /\ \A c \in Channels \ {0} : tim'.MCR[c] = tim.MCR[c]
  <2>1. 0 \in Channels
    BY DEF Channels
  <2>2. tim.MR \in [Channels -> Nat] /\ tim.MCR \in [Channels -> SUBSET {"int", "reset"}]
    BY <1>1 DEF SoundType
  <2> QED  BY <1>3, <2>1, <2>2
<1>7. SoundType'
  BY <1>1, <1>2, <1>3, <1>4, <1>5, <1>6 DEF SoundType
<1>8. CountExact' /\ Compares'
  BY <1>1, <1>5, <1>6 DEF CountExact, Compares
<1>9. Prepared'
  BY <1>1, <1>2, <1>3, <1>4, <1>5, <1>6 DEF Prepared, Done
<1> QED  BY <1>7, <1>8, <1>9 DEF SoundInv

(* The timer is started at the beginning of a tone and stopped at its end. *)
LEMMA SwitchKeepsSound ==
  ASSUME SoundInv, Started \/ Disabled \/ Stopped  PROVE SoundInv'
<1>1. /\ SoundType /\ CountExact /\ Compares /\ since' = since /\ sc' = sc /\ step' = step
  BY DEF SoundInv, Started, Disabled, Stopped, Steps
<1>2. ASSUME NEW on \in BOOLEAN, tim' = [tim EXCEPT !.enabled = on]
      PROVE  /\ Holds(tim', TimFields) /\ tim'.TC = tim.TC /\ tim'.MR = tim.MR
             /\ tim'.MCR = tim.MCR /\ tim'.enabled = on
  BY <1>1, <1>2 DEF SoundType, Holds, TimFields
<1>3. ASSUME NEW at \in {"edge", "stop", "rest"}, buzz' = [buzz EXCEPT !.at = at]
      PROVE  /\ buzz' \in BuzzRecord /\ buzz'.at = at /\ buzz'.irqNum = buzz.irqNum
             /\ buzz'.TmrCounter = buzz.TmrCounter
  BY <1>1, <1>3 DEF SoundType, BuzzRecord
<1>4. CASE Started
  <2>1. /\ tim' = [tim EXCEPT !.enabled = TRUE] /\ nvic' = nvic
        /\ buzz' = [buzz EXCEPT !.at = "edge"] /\ buzz.at = "enable"
    BY <1>4 DEF Started, Steps, TIM_Cmd
  <2>2. SoundType' /\ CountExact' /\ Compares'
    BY <1>1, <1>2, <1>3, <2>1 DEF SoundType, CountExact, Compares
  <2>3. Prepared'
    BY <1>1, <1>2, <1>3, <2>1 DEF SoundInv, Prepared, Done
  <2> QED  BY <2>2, <2>3 DEF SoundInv
<1>5. CASE Disabled
  <2>1. /\ tim' = tim /\ nvic' = [nvic EXCEPT !.enabled = FALSE]
        /\ buzz' = [buzz EXCEPT !.at = "stop"] /\ buzz.at = "disable"
    BY <1>5 DEF Disabled, Steps
  <2>2. nvic' \in [enabled : BOOLEAN, pending : BOOLEAN]
    BY <1>1, <2>1 DEF SoundType
  <2>3. SoundType' /\ CountExact' /\ Compares'
    BY <1>1, <1>3, <2>1, <2>2 DEF SoundType, CountExact, Compares
  <2>4. Prepared'
    BY <1>1, <1>3, <2>1 DEF SoundInv, Prepared, Done
  <2> QED  BY <2>3, <2>4 DEF SoundInv
<1>6. CASE Stopped
  <2>1. /\ tim' = [tim EXCEPT !.enabled = FALSE] /\ nvic' = nvic
        /\ buzz' = [buzz EXCEPT !.at = "rest"]
    BY <1>6 DEF Stopped, Steps, TIM_Cmd
  <2>2. SoundType' /\ CountExact' /\ Compares'
    BY <1>1, <1>2, <1>3, <2>1 DEF SoundType, CountExact, Compares
  <2>3. Prepared'
    BY <1>3, <2>1 DEF Prepared
  <2> QED  BY <2>2, <2>3 DEF SoundInv
<1> QED  BY <1>4, <1>5, <1>6

(* The handler counts, and begins again at an edge.                        *)
LEMMA TimerIrqKeepsSound ==
  ASSUME SoundInv, TIMER0_IRQHandler  PROVE SoundInv'
<1>1. /\ SoundType /\ CountExact /\ UNCHANGED clockVars
      /\ nvic' = [nvic EXCEPT !.pending = FALSE]
      /\ tim' = [tim EXCEPT !.IR = {}]
      /\ buzz.irqNum \in Nat /\ buzz.TmrCounter \in Nat /\ since \in Nat
  BY DEF SoundInv, TIMER0_IRQHandler, TIM_ClearIntPending, SoundType, BuzzRecord
<1>2. /\ Holds(tim', TimFields) /\ tim'.TC = tim.TC /\ tim'.MR = tim.MR
      /\ tim'.MCR = tim.MCR /\ tim'.enabled = tim.enabled
  BY <1>1 DEF SoundType, Holds, TimFields
<1>3. /\ nvic' \in [enabled : BOOLEAN, pending : BOOLEAN] /\ nvic'.enabled = nvic.enabled
  BY <1>1 DEF SoundType
<1>4. /\ buzz' \in BuzzRecord /\ buzz'.at = buzz.at /\ since' \in Nat /\ CountExact'
  <2>1. CASE ToneEdge
    <3>1. buzz' = [buzz EXCEPT !.high = ~@, !.irqNum = 0] /\ since' = 0
      BY <2>1 DEF TIMER0_IRQHandler
    <3>2. /\ buzz' \in BuzzRecord /\ buzz'.at = buzz.at /\ buzz'.irqNum = 0
          /\ buzz'.TmrCounter = buzz.TmrCounter
      BY <1>1, <3>1 DEF SoundType, BuzzRecord
    <3> QED  BY <1>1, <3>1, <3>2 DEF CountExact
  <2>2. CASE ~ToneEdge
    <3>1. buzz' = [buzz EXCEPT !.irqNum = @ + 1] /\ since' = since + 1
      BY <2>2 DEF TIMER0_IRQHandler
    <3>2. /\ buzz' \in BuzzRecord /\ buzz'.at = buzz.at /\ buzz'.irqNum = buzz.irqNum + 1
          /\ buzz'.TmrCounter = buzz.TmrCounter
      <4> DEFINE n == buzz.irqNum + 1
      <4>1. n \in Nat /\ buzz' = [buzz EXCEPT !.irqNum = n]
        BY <1>1, <3>1
      <4> HIDE DEF n
      <4>2. /\ buzz' \in BuzzRecord /\ buzz'.at = buzz.at /\ buzz'.irqNum = n
            /\ buzz'.TmrCounter = buzz.TmrCounter
        BY <1>1, <4>1 DEF SoundType, BuzzRecord
      <4> QED  BY <4>2 DEF n
    <3>3. buzz.irqNum <= buzz.TmrCounter
      BY <1>1, <2>2 DEF ToneEdge
    <3> QED  BY <1>1, <3>1, <3>2, <3>3 DEF CountExact
  <2> QED  BY <2>1, <2>2
<1>5. SoundType'
  BY <1>1, <1>2, <1>3, <1>4 DEF SoundType, clockVars
<1>6. Compares' /\ Prepared'
  BY <1>1, <1>2, <1>3, <1>4 DEF SoundInv, Compares, Prepared, clockVars, Done
<1> QED  BY <1>4, <1>5, <1>6 DEF SoundInv

(* The counter goes on: at the match it starts again, and while a tone is  *)
(* prepared or heard it is never beyond the match.                         *)
LEMMA CountsKeepsSound ==
  ASSUME SoundInv, Counts, UNCHANGED buzzVars  PROVE SoundInv'
<1> DEFINE resets == \E c \in Matches(tim) : "reset" \in tim.MCR[c]
           tc     == IF resets THEN 0 ELSE tim.TC + 1
           next   == [tim EXCEPT !.TC = tc]
           ir     == next.IR \cup {c \in Matches(next) : "int" \in next.MCR[c]}
           on     == ~\E c \in Matches(next) : "stop" \in next.MCR[c]
<1>1. /\ SoundType /\ CountExact /\ UNCHANGED <<clockVars, buzzVars>> /\ tim.TC \in Nat
      /\ Compares /\ Prepared
  BY DEF SoundInv, SoundType, Counts
<1>2. tim' = [next EXCEPT !.IR = ir, !.enabled = on]
  <2>1. tim' = Counted(tim)
    BY DEF Counts
  <2> QED  BY <2>1 DEF Counted, Matches
<1>3. tc \in Nat
  BY <1>1
<1>4. /\ Holds(next, TimFields) /\ next.TC = tc /\ next.MR = tim.MR /\ next.MCR = tim.MCR
  <2> HIDE DEF tc
  <2> QED  BY <1>1 DEF SoundType, Holds, TimFields
<1>5. on = TRUE
  <2>1. \A c \in Channels : "stop" \notin tim.MCR[c]
    BY <1>1 DEF SoundType
  <2> HIDE DEF next
  <2>2. Matches(next) \subseteq Channels
    BY DEF Matches
  <2> QED  BY <1>4, <2>1, <2>2
<1>6. /\ Holds(tim', TimFields) /\ tim'.TC = tc /\ tim'.MR = tim.MR /\ tim'.MCR = tim.MCR
      /\ tim'.enabled = TRUE
  <2> HIDE DEF next, tc, ir, on
  <2> QED  BY <1>2, <1>4, <1>5 DEF Holds, TimFields
<1>7. buzz.at \in {"enable", "edge", "tone"} => tc <= 1
  <2>1. SUFFICES ASSUME buzz.at \in {"enable", "edge", "tone"}  PROVE tc <= 1
    OBVIOUS
  <2>2. tim.TC <= 1 /\ tim.MR[0] = 1 /\ tim.MCR[0] = {"int", "reset"} /\ 0 \in Channels
    BY <1>1, <2>1 DEF Prepared, Channels
  <2>3. tim.TC = 1 => 0 \in Matches(tim)
    BY <2>2 DEF Matches
  <2>4. tim.TC = 1 => resets
    BY <2>2, <2>3
  <2> QED  BY <1>1, <2>2, <2>4
<1> HIDE DEF tc
<1>8. /\ nvic' \in [enabled : BOOLEAN, pending : BOOLEAN] /\ nvic'.enabled = nvic.enabled
  <2>1. PICK p \in BOOLEAN : nvic' = [nvic EXCEPT !.pending = p]
    BY DEF Counts
  <2> QED  BY <1>1, <2>1 DEF SoundType
<1>9. SoundType' /\ CountExact' /\ Compares'
  BY <1>1, <1>3, <1>6, <1>8 DEF SoundType, CountExact, Compares, clockVars, buzzVars
<1>10. Prepared'
  BY <1>1, <1>6, <1>7, <1>8 DEF Prepared, clockVars, buzzVars, Done
<1> QED  BY <1>9, <1>10 DEF SoundInv

(* The invariant is inductive in the steps of the buzzer.                  *)
LEMMA SoundStep ==
  ASSUME SoundInv, BuzzNext  PROVE SoundInv'
BY PinKeepsSound, ConfiguredKeepsSound, SwitchKeepsSound, TimerIrqKeepsSound, CountsKeepsSound
DEF BuzzNext
=============================================================================
