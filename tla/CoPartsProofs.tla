--------------------------- MODULE CoPartsProofs ---------------------------
(***************************************************************************)
(* Theorems about the parts beside the kernel: the invariants of           *)
(* CoBoardProofs and CoMemoryProofs, and that of the touch screen below,   *)
(* hold in every execution of CoParts, whatever the tones, the values of   *)
(* the potentiometer, the size of the heap, the blocks asked for, the      *)
(* memory areas, the users and the places of the pen.                      *)
(***************************************************************************)
EXTENDS CoParts, CoBoardProofs, CoMemoryProofs

(* Who may change the variables of a part: its own steps, in an execution  *)
(* about it.  The drivers of a board share the clock and the power with    *)
(* SystemInit() and with each other.                                       *)
LEMMA PartsApart ==
  ASSUME [PartsNext]_partVars
  PROVE  /\ part' = part
         /\ NvicNext \/ UNCHANGED excVars
         /\ LedNext \/ UNCHANGED ledVars
         /\ \/ part = "board" /\ PotNext
            \/ UNCHANGED potVars /\ (part = "board" => ClockNext \/ PinsNext \/ UNCHANGED clockVars)
         /\ \/ part = "buzzer" /\ BuzzNext
            \/ /\ UNCHANGED <<timerVars, buzzVars>>
               /\ part = "buzzer" => ClockNext \/ UNCHANGED clockVars
         /\ ClockNext \/ PinsNext \/ PotNext \/ BuzzNext \/ UNCHANGED clockVars
         /\ \/ part = "board" /\ PinsNext
            \/ /\ UNCHANGED pinVars
               /\ part = "board" => ClockNext \/ PotNext \/ UNCHANGED clockVars
<1>1. CASE UNCHANGED partVars
  BY <1>1 DEF partVars, stillVars, boardVars, soundVars
<1>2. CASE PartsNext
  <2>1. CASE \/ OnHeap \/ OnPartitions \/ OnDisplay \/ OnTouch
    BY <2>1 DEF OnHeap, OnPartitions, OnDisplay, OnTouch, stillVars, boardVars, soundVars
  <2>2. CASE OnClock /\ ClockNext
    BY <2>2 DEF OnClock, stillVars, boardVars, soundVars
  <2>3. CASE OnPins /\ PinsNext
    BY <2>3 DEF OnPins, stillVars, soundVars
  <2>4. CASE OnPot /\ PotNext
    BY <2>4 DEF OnPot, stillVars, soundVars
  <2>5. CASE OnBuzzer /\ BuzzNext
    BY <2>5 DEF OnBuzzer, stillVars, boardVars
  <2>6. CASE OnLeds /\ LedNext
    BY <2>6 DEF OnLeds, boardVars, soundVars
  <2>7. CASE OnExceptions /\ NvicNext
    BY <2>7 DEF OnExceptions, boardVars, soundVars
  <2> QED  BY <1>2, <2>1, <2>2, <2>3, <2>4, <2>5, <2>6, <2>7 DEF PartsNext
<1> QED  BY <1>1, <1>2

(* Interrupts nest as the modules of the kernel take for granted: no       *)
(* device handler is interrupted or interrupts another one, PendSV and the *)
(* tick exclude each other, and every exception that is taken has a        *)
(* handler that returns.                                                   *)
THEOREM NestingHolds == PartsSpec => []InterruptsNest
<1>1. PartsInit => NestInv
  BY NestInit DEF PartsInit
<1>2. NestInv /\ [PartsNext]_partVars => NestInv'
  BY PartsApart, NestStep, NestStutter
<1>3. NestInv => InterruptsNest
  BY NestImplies
<1> QED  BY <1>1, <1>2, <1>3, PTL DEF PartsSpec

(* Whatever led_task was doing when main_task deleted it, the row shows    *)
(* one light during the start-up, and afterwards, from the end of the      *)
(* first turn, a bar that begins at the first LED.                         *)
THEOREM LightsStayRight == PartsSpec => []LightsRight
<1>1. PartsInit => LedInv
  BY LedInitial DEF PartsInit
<1>2. LedInv /\ [PartsNext]_partVars => LedInv'
  BY PartsApart, LedStep
<1>3. LedInv => LightsRight
  BY LedImplies
<1> QED  BY <1>1, <1>2, <1>3, PTL DEF PartsSpec

(* The potentiometer is used, or all of it is as after reset.              *)
BoardInv == IF part = "board" THEN PotInv ELSE PotInit

(* Whatever happens on the board, the processor never runs on an           *)
(* oscillator or a PLL that is not ready nor too fast, and SystemCoreClock *)
(* is the rate of the registers.                                           *)
THEOREM CpuStaysClocked == PartsSpec => []CpuClocked
<1>1. PartsInit => ClockInv
  BY ClockInitial DEF PartsInit
<1>2. ClockInv /\ [PartsNext]_partVars => ClockInv'
  <2> SUFFICES ASSUME ClockInv, [PartsNext]_partVars  PROVE ClockInv'
    OBVIOUS
  <2>1. Holds(sc, ScFields)
    BY DEF ClockInv, ClockType
  <2>2. CASE ClockNext
    BY <2>2, ClockStep
  <2>3. CASE PinsNext \/ PotNext \/ BuzzNext
    BY <2>1, <2>3, PinsKeepClock, PotKeepsClock, BuzzKeepsClock, SameKeepsClock
  <2>4. CASE UNCHANGED clockVars
    BY <2>1, <2>4, SameKeepsClock DEF SameClock, SameRates, clockVars
  <2> QED  BY <2>2, <2>3, <2>4, PartsApart
<1>3. ClockInv => CpuClocked
  BY ClockImplies
<1> QED  BY <1>1, <1>2, <1>3, PTL DEF PartsSpec

(* The drivers are used, or none is loaded.                                *)
DriversInv == IF part = "board" THEN PinsInv ELSE PinsInit

(* No driver disturbs what a loaded driver has set up, in whatever order   *)
(* they are loaded, loaded again and unloaded, with the potentiometer in   *)
(* use.                                                                    *)
THEOREM SetupStays == PartsSpec => []SetupKept
<1>1. PartsInit => DriversInv
  BY PinsInitial DEF PartsInit, DriversInv
<1>2. DriversInv /\ [PartsNext]_partVars => DriversInv'
  <2> SUFFICES ASSUME DriversInv, [PartsNext]_partVars  PROVE DriversInv'
    OBVIOUS
  <2>1. part' = part
    BY PartsApart
  <2>2. CASE part # "board"
    <3>1. PinsInit /\ UNCHANGED pinVars
      BY <2>2, PartsApart DEF DriversInv
    <3> QED  BY <2>1, <2>2, <3>1 DEF DriversInv, PinsInit, pinVars
  <2>3. CASE part = "board"
    <3>1. PinsInv
      BY <2>3 DEF DriversInv
    <3>2. CASE PinsNext
      BY <2>1, <2>3, <3>1, <3>2, PinsStep DEF DriversInv
    <3>3. CASE UNCHANGED pinVars /\ ClockNext
      BY <2>1, <2>3, <3>1, <3>3, ClockKeepsPins DEF DriversInv
    <3>4. CASE UNCHANGED pinVars /\ PotNext
      BY <2>1, <2>3, <3>1, <3>4, PotKeepsPins DEF DriversInv
    <3>5. CASE UNCHANGED <<pinVars, clockVars>>
      BY <2>1, <2>3, <3>1, <3>5, PinsStutter DEF DriversInv
    <3> QED  BY <2>3, <3>2, <3>3, <3>4, <3>5, PartsApart
  <2> QED  BY <2>2, <2>3
<1>3. DriversInv => SetupKept
  <2>1. PinsInit => SetupKept
    BY DEF PinsInit, SetupKept
  <2> QED  BY <2>1, PinsImplies DEF DriversInv
<1> QED  BY <1>1, <1>2, <1>3, PTL DEF PartsSpec

(* drv_pot_getValue() returns the value of the conversion that it started, *)
(* and does not wait for one that will not come.                           *)
THEOREM PotStaysFresh == PartsSpec => []PotFresh
<1>1. PartsInit => BoardInv
  BY PotInitial DEF PartsInit, BoardInv
<1>2. BoardInv /\ [PartsNext]_partVars => BoardInv'
  <2> SUFFICES ASSUME BoardInv, [PartsNext]_partVars  PROVE BoardInv'
    OBVIOUS
  <2>1. part' = part
    BY PartsApart
  <2>2. CASE part # "board"
    <3>1. PotInit /\ UNCHANGED potVars
      BY <2>2, PartsApart DEF BoardInv
    <3> QED  BY <2>1, <2>2, <3>1 DEF BoardInv, PotInit, AdcInit, potVars
  <2>3. CASE part = "board"
    <3>1. PotInv /\ Holds(sc, ScFields)
      BY <2>3 DEF BoardInv, PotInv, PotType
    <3>2. CASE PotNext
      BY <2>1, <2>3, <3>1, <3>2, PotStep DEF BoardInv
    <3>3. CASE UNCHANGED potVars /\ (ClockNext \/ PinsNext \/ UNCHANGED clockVars)
      <4>1. /\ Holds(sc', ScFields)
            /\ Done => Done' /\ sc.power \subseteq sc'.power
        BY <3>1, <3>3, ClockKeepsPower, PinsKeepPower DEF clockVars, Done, Holds
      <4> QED  BY <2>1, <2>3, <3>1, <3>3, <4>1, ClockKeepsPot DEF BoardInv
    <3> QED  BY <2>3, <3>2, <3>3, PartsApart
  <2> QED  BY <2>2, <2>3
<1>3. BoardInv => PotFresh
  <2>1. PotInit => PotFresh
    BY DEF PotInit, PotFresh
  <2> QED  BY <2>1, PotImplies DEF BoardInv
<1> QED  BY <1>1, <1>2, <1>3, PTL DEF PartsSpec

(* The buzzer is used, or all of it is as after reset.                     *)
BuzzerInv == IF part = "buzzer" THEN SoundInv ELSE TimerInit /\ BuzzInit

(* A tone of the buzzer does not die, whatever was heard before it.        *)
THEOREM TonesStayAlive == PartsSpec => []ToneAlive
<1>1. PartsInit => BuzzerInv
  BY SoundInitial DEF PartsInit, BuzzerInv
<1>2. BuzzerInv /\ [PartsNext]_partVars => BuzzerInv'
  <2> SUFFICES ASSUME BuzzerInv, [PartsNext]_partVars  PROVE BuzzerInv'
    OBVIOUS
  <2>1. part' = part
    BY PartsApart
  <2>2. CASE part # "buzzer"
    <3>1. TimerInit /\ BuzzInit /\ UNCHANGED <<timerVars, buzzVars>>
      BY <2>2, PartsApart DEF BuzzerInv
    <3> QED  BY <2>1, <2>2, <3>1 DEF BuzzerInv, TimerInit, BuzzInit, timerVars, buzzVars
  <2>3. CASE part = "buzzer"
    <3>1. SoundInv /\ Holds(sc, ScFields)
      BY <2>3 DEF BuzzerInv, SoundInv, SoundType
    <3>2. CASE BuzzNext
      BY <2>1, <2>3, <3>1, <3>2, SoundStep DEF BuzzerInv
    <3>3. CASE UNCHANGED <<timerVars, buzzVars>> /\ (ClockNext \/ UNCHANGED clockVars)
      <4>1. /\ Holds(sc', ScFields)
            /\ Done => Done' /\ sc.power \subseteq sc'.power
        BY <3>1, <3>3, ClockKeepsPower DEF clockVars, Done, Holds
      <4> QED  BY <2>1, <2>3, <3>1, <3>3, <4>1, ClockKeepsSound DEF BuzzerInv
    <3> QED  BY <2>3, <3>2, <3>3, PartsApart
  <2> QED  BY <2>2, <2>3
<1>3. BuzzerInv => ToneAlive
  <2>1. BuzzInit => ToneAlive
    BY DEF BuzzInit, ToneAlive
  <2> QED  BY <2>1, SoundImplies DEF BuzzerInv
<1> QED  BY <1>1, <1>2, <1>3, PTL DEF PartsSpec

(* The memory services change their variables in their own calls only.     *)
HeapCall ==
  \/ \E n \in Requests : CoKmalloc(n)
  \/ \E b \in held : CoKfree(b) \/ Write(b)

MmCall ==
  \/ \E t \in Creators, a \in Areas : CoCreateMemPartition(t, a)
  \/ \E t \in Creators, i \in Mm : CoDelMemoryPartition(t, i)
  \/ \E t \in Users : Fills(t) \/ Clears(t) \/ GetsBlock(t)
  \/ \E t \in Users, i \in Mm : CoGetMemoryBuffer(t, i)
  \/ \E t, u \in Users : \E c \in has.blocks[u] : CoFreeMemoryBuffer(t, u, c[1], c[2])

LEMMA MemoryApart ==
  ASSUME [PartsNext]_partVars
  PROVE  (HeapCall \/ UNCHANGED heapVars) /\ (MmCall \/ UNCHANGED mmVars)
<1>1. CASE UNCHANGED partVars
  BY <1>1 DEF partVars
<1>2. CASE PartsNext
  <2>1. CASE OnHeap /\ HeapCall
    BY <2>1 DEF OnHeap
  <2>2. CASE OnPartitions /\ MmCall
    BY <2>2 DEF OnPartitions
  <2>3. CASE \/ OnDisplay \/ OnTouch \/ OnClock \/ OnPins
             \/ OnPot \/ OnBuzzer \/ OnLeds \/ OnExceptions
    BY <2>3 DEF OnDisplay, OnTouch, OnClock, OnPins, OnPot, OnBuzzer, OnLeds, OnExceptions
  <2> QED  BY <1>2, <2>1, <2>2, <2>3 DEF PartsNext, HeapCall, MmCall
<1> QED  BY <1>1, <1>2

(* Each block of a partition is in its free list or with one task, however *)
(* the calls of the tasks interleave; the hypotheses are how an            *)
(* application has to use mm.c: one task creates and deletes the           *)
(* partitions, and it is less urgent than those that get blocks, which are *)
(* so never between the test of the id and the section when it deletes.    *)
THEOREM PartitionsStaySound ==
  ASSUME OneCreator, GettersFirst  PROVE PartsSpec => []PartitionsSound
<1>1. PartsInit => MmInv
  BY MmInitial DEF PartsInit
<1>2. MmInv /\ [PartsNext]_partVars => MmInv'
  <2> SUFFICES ASSUME MmInv, [PartsNext]_partVars  PROVE MmInv'
    OBVIOUS
  <2>1. CASE UNCHANGED mmVars
    BY <2>1, MmStutter
  <2>2. CASE MmCall
    BY <2>2, OneCreator, GettersFirst, CreateKeepsMm, DelKeepsMm, FillsKeepsMm, ClearsKeepsMm,
       AsksKeepsMm, GetKeepsMm, FreeKeepsMm DEF MmCall
  <2> QED  BY <2>1, <2>2, MemoryApart
<1>3. MmInv => PartitionsSound
  BY MmImplies
<1> QED  BY <1>1, <1>2, <1>3, PTL DEF PartsSpec

(* HeapInv is an invariant, and under it no call touches the words of a    *)
(* buffer that somebody holds.                                             *)
LEMMA HeapInvariant == PartsSpec => []HeapInv
<1>1. PartsInit => HeapInv
  BY HeapInitial DEF PartsInit
<1>2. HeapInv /\ [PartsNext]_partVars => HeapInv'
  <2> SUFFICES ASSUME HeapInv, [PartsNext]_partVars  PROVE HeapInv'
    OBVIOUS
  <2>1. CASE UNCHANGED heapVars
    BY <2>1, HeapStutter DEF heapVars
  <2>2. CASE HeapCall
    BY <2>2, KmallocKeepsHeap, KfreeKeepsHeap, WriteKeepsHeap DEF HeapCall
  <2> QED  BY <2>1, <2>2, MemoryApart
<1> QED  BY <1>1, <1>2, PTL DEF PartsSpec

(* CoKmalloc() and CoKfree() keep the blocks of the heap side by side, the *)
(* free list complete and in order, neighbours that are free joined, and   *)
(* both links of every block right.                                        *)
THEOREM HeapStaysSound == PartsSpec => []HeapSound
<1>1. HeapInv => HeapSound
  BY HeapImplies
<1> QED  BY <1>1, HeapInvariant, PTL

(* The contents of a buffer change by the writes of its holder only.       *)
THEOREM BuffersStay == PartsSpec => BuffersKept
<1>1. HeapInv /\ [PartsNext]_partVars
        => [\A b \in held \cap held' :
              \/ \A a \in Words(b) : heap'.mem[a] = heap.mem[a]
              \/ Write(b)]_<<heap, held>>
  <2> SUFFICES ASSUME HeapInv, [PartsNext]_partVars, ~UNCHANGED <<heap, held>>,
                      NEW b \in held \cap held'
               PROVE  Kept(b) \/ Write(b)
    BY DEF Kept
  <2>1. HeapCall
    BY MemoryApart DEF heapVars
  <2>2. CASE \E n \in Requests : CoKmalloc(n)
    BY <2>2, KmallocKeepsWords
  <2>3. ASSUME NEW d \in held, CoKfree(d)  PROVE Kept(b)
    <3>1. b \in held \ {d}
      BY <2>3 DEF CoKfree
    <3> QED  BY <2>3, <3>1, KfreeKeepsWords
  <2>4. ASSUME NEW d \in held, Write(d)  PROVE Kept(b) \/ Write(b)
    BY <2>4, WriteKeepsWords
  <2> QED  BY <2>1, <2>2, <2>3, <2>4 DEF HeapCall
<1> QED  BY <1>1, HeapInvariant, PTL DEF BuffersKept, PartsSpec

-----------------------------------------------------------------------------
(* The touch screen.  A reading, a sample (which may be the average of the *)
(* last burst), and what the search in samples knows after each of them.   *)
Reading == [1 .. 2 -> 0 .. AdcMax]
Sample  == [1 .. 2 -> 0 .. 2 * AdcMax]
Extreme == [min : Nat, max : Nat, sum : Nat]

Compared(e, x) ==
  [min |-> IF x < e.min THEN x ELSE e.min,
   max |-> IF x >= e.min /\ x > e.max THEN x ELSE e.max,
   sum |-> e.sum + x]

Examined(v, f) ==
  /\ f \in [0 .. Len(v) -> Extreme]
  /\ f[0] = [min |-> 65535, max |-> 0, sum |-> 0]
  /\ \A i \in 1 .. Len(v) : f[i] = Compared(f[i - 1], v[i])

(* The search of TCS_Average_X_Y() goes through the samples one by one.    *)
LEMMA SearchIs ==
  ASSUME NEW v, v \in Seq(Nat)
  PROVE  \E f : Examined(v, f) /\ Extremes(v) = f[Len(v)]
<1> DEFINE n == Len(v)
           e0 == [min |-> 65535, max |-> 0, sum |-> 0]
           w == [k \in Nat |-> IF k \in 1 .. n THEN v[k] ELSE 0]
           X == [at : Nat, e : Extreme]
           g == [s \in X |-> [at |-> s.at + 1, e |-> Compared(s.e, w[s.at + 1])]]
           z == [at |-> 0, e |-> e0]
<1>1. n \in Nat /\ \A i \in 1 .. n : v[i] \in Nat
  BY LenProperties, ElementOfSeq
<1>2. w \in [Nat -> Nat] /\ \A k \in 1 .. n : w[k] = v[k]
  <2> HIDE DEF n
  <2> QED  BY <1>1
<1>3. e0 \in Extreme /\ \A e \in Extreme, x \in Nat : Compared(e, x) \in Extreme
  BY DEF Extreme, Compared
<1> HIDE DEF n, w, e0
<1>4. \A s \in X : [at |-> s.at + 1, e |-> Compared(s.e, w[s.at + 1])] \in X
  <2> TAKE s \in X
  <2>1. s.at + 1 \in Nat /\ s.e \in Extreme
    OBVIOUS
  <2>2. Compared(s.e, w[s.at + 1]) \in Extreme
    BY <1>2, <1>3, <2>1
  <2> QED  BY <2>1, <2>2
<1>5. g \in [X -> X] /\ z \in X
  <2>1. z \in X
    BY <1>3
  <2> HIDE DEF X, z
  <2> QED  BY <1>4, <2>1
<1>6. PICK F \in [0 .. n -> X] : Repeats(F, g, z, n)
  <2> HIDE DEF X, g, z
  <2> QED  BY <1>1, <1>5, Repeated
<1>7. F[0] = z /\ \A i \in 1 .. n : F[i] = g[F[i - 1]]
  <2> HIDE DEF X, g, z
  <2> QED  BY <1>6 DEF Repeats
<1> DEFINE f == [i \in 0 .. n |-> F[i].e]
           S == {i \in Nat : i <= n => F[i].at = i}
<1>8. ASSUME NEW i \in 1 .. n
      PROVE  /\ i - 1 \in 0 .. n
             /\ F[i].at = F[i - 1].at + 1
             /\ F[i].e = Compared(F[i - 1].e, w[F[i - 1].at + 1])
  <2>1. i - 1 \in 0 .. n
    BY <1>1
  <2>2. F[i - 1] \in X
    <3> HIDE DEF X
    <3> QED  BY <2>1
  <2>3. F[i] = g[F[i - 1]]
    <3> HIDE DEF X, g
    <3> QED  BY <1>7
  <2> HIDE DEF X
  <2> QED  BY <2>1, <2>2, <2>3
<1> HIDE DEF g
<1>9. 0 \in S
  BY <1>7
<1>10. ASSUME NEW i \in Nat, i \in S  PROVE i + 1 \in S
  <2> SUFFICES ASSUME i + 1 <= n  PROVE F[i + 1].at = i + 1
    OBVIOUS
  <2>1. i + 1 \in 1 .. n /\ (i + 1) - 1 = i /\ i <= n
    BY <1>1
  <2>2. F[i].at = i
    BY <1>10, <2>1
  <2>3. F[i + 1].at = F[(i + 1) - 1].at + 1
    BY <1>8, <2>1
  <2> QED  BY <2>1, <2>2, <2>3
<1>11. \A i \in Nat : i \in S
  <2> HIDE DEF S
  <2> QED  BY <1>9, <1>10, SetInduction
<1>12. \A i \in 1 .. n : f[i] = Compared(f[i - 1], v[i])
  <2> TAKE i \in 1 .. n
  <2>1. i - 1 \in Nat /\ i - 1 <= n /\ i - 1 \in 0 .. n /\ i \in 0 .. n /\ (i - 1) + 1 = i
    BY <1>1
  <2>2. F[i - 1].at = i - 1
    BY <1>11, <2>1
  <2>3. w[F[i - 1].at + 1] = v[i]
    BY <1>2, <2>1, <2>2
  <2>4. F[i].e = Compared(F[i - 1].e, v[i])
    BY <1>8, <2>3
  <2>5. f[i] = F[i].e /\ f[i - 1] = F[i - 1].e
    BY <2>1
  <2> QED  BY <2>4, <2>5
<1>13. f[0] = e0 /\ f \in [0 .. n -> Extreme]
  <2>1. \A i \in 0 .. n : F[i].e \in Extreme
    OBVIOUS
  <2>2. 0 \in 0 .. n
    BY <1>1
  <2> QED  BY <1>7, <2>1, <2>2
<1> HIDE DEF X, z, S
<1> HIDE DEF f
<1>14. Examined(v, f)
  BY <1>12, <1>13 DEF Examined, n, e0
<1> DEFINE entryAt(h, i) == IF i = 0 THEN e0
             ELSE LET e == h[i - 1]
                  IN  [min |-> IF v[i] < e.min THEN v[i] ELSE e.min,
                       max |-> IF v[i] >= e.min /\ v[i] > e.max THEN v[i] ELSE e.max,
                       sum |-> e.sum + v[i]]
           Is(h) == h = [i \in 0 .. n |-> entryAt(h, i)]
<1>15. \A h : \A i \in 0 .. n : entryAt(h, i) = IF i = 0 THEN e0 ELSE Compared(h[i - 1], v[i])
  BY DEF Compared
<1>16. Extremes(v) = (CHOOSE h : Is(h))[n]
  BY DEF Extremes, n, e0
<1> HIDE DEF entryAt
<1>17. Is(f)
  <2>1. \A i \in 0 .. n : f[i] = entryAt(f, i)
    <3> TAKE i \in 0 .. n
    <3>1. i = 0 \/ i \in 1 .. n
      BY <1>1
    <3> QED  BY <1>12, <1>13, <1>15, <3>1
  <2> QED  BY <1>13, <2>1
<1>18. ASSUME NEW h, Is(h)  PROVE h = f
  <2> DEFINE T == {i \in Nat : i <= n => h[i] = f[i]}
  <2>1. \A i \in 0 .. n : h[i] = IF i = 0 THEN e0 ELSE Compared(h[i - 1], v[i])
    BY <1>15, <1>18
  <2>2. h = [i \in 0 .. n |-> h[i]]
    BY <1>18
  <2> HIDE DEF Is
  <2>3. 0 \in T
    BY <1>1, <1>13, <2>1
  <2>4. ASSUME NEW i \in Nat, i \in T  PROVE i + 1 \in T
    <3> SUFFICES ASSUME i + 1 <= n  PROVE h[i + 1] = f[i + 1]
      OBVIOUS
    <3>1. i + 1 \in 1 .. n /\ i + 1 \in 0 .. n /\ i + 1 # 0 /\ (i + 1) - 1 = i /\ i <= n
      BY <1>1
    <3>2. h[i] = f[i]
      BY <2>4, <3>1
    <3>3. h[i + 1] = Compared(h[(i + 1) - 1], v[i + 1])
      BY <2>1, <3>1
    <3>4. f[i + 1] = Compared(f[(i + 1) - 1], v[i + 1])
      BY <1>12, <3>1
    <3> QED  BY <3>1, <3>2, <3>3, <3>4
  <2>5. \A i \in Nat : i \in T
    <3> HIDE DEF T
    <3> QED  BY <2>3, <2>4, SetInduction
  <2>6. \A i \in 0 .. n : h[i] = f[i]
    BY <1>1, <2>5
  <2> QED  BY <1>13, <2>2, <2>6
<1>19. (CHOOSE h : Is(h)) = f
  <2> HIDE DEF Is
  <2> QED  BY <1>17, <1>18
<1> QED  BY <1>14, <1>16, <1>19 DEF n

(* What it does with each coordinate's smallest, largest and sum.          *)
MinRuns(v, f) ==
  \A i \in 1 .. Len(v) :
    /\ v[i] < f[i - 1].min => f[i].min = v[i]
    /\ ~(v[i] < f[i - 1].min) => f[i].min = f[i - 1].min

MaxRuns(v, f) ==
  \A i \in 1 .. Len(v) :
    /\ v[i] >= f[i - 1].min /\ v[i] > f[i - 1].max => f[i].max = v[i]
    /\ ~(v[i] >= f[i - 1].min /\ v[i] > f[i - 1].max) => f[i].max = f[i - 1].max

SumRuns(v, f) == \A i \in 1 .. Len(v) : f[i].sum = f[i - 1].sum + v[i]

Runs(v, f) ==
  /\ Len(v) \in Nat
  /\ \A i \in 1 .. Len(v) : v[i] \in Nat
  /\ \A i \in 0 .. Len(v) : f[i].min \in Nat /\ f[i].max \in Nat /\ f[i].sum \in Nat
  /\ f[0].min = 65535 /\ f[0].max = 0 /\ f[0].sum = 0
  /\ MinRuns(v, f) /\ MaxRuns(v, f) /\ SumRuns(v, f)

LEMMA SearchFacts ==
  ASSUME NEW v, v \in Seq(Nat), NEW f, Examined(v, f)
  PROVE  Runs(v, f)
<1>1. Len(v) \in Nat /\ \A i \in 1 .. Len(v) : v[i] \in Nat
  BY LenProperties, ElementOfSeq
<1>2. \A i \in 0 .. Len(v) : f[i] \in Extreme
  <2>1. f \in [0 .. Len(v) -> Extreme]
    BY ONLY Examined(v, f) DEF Examined
  <2> QED  BY ONLY <2>1
<1>3. \A i \in 0 .. Len(v) : f[i].min \in Nat /\ f[i].max \in Nat /\ f[i].sum \in Nat
  BY ONLY <1>2 DEF Extreme
<1>4. f[0].min = 65535 /\ f[0].max = 0 /\ f[0].sum = 0
  BY DEF Examined
<1>5. ASSUME NEW i \in 1 .. Len(v)
      PROVE  /\ v[i] < f[i - 1].min => f[i].min = v[i]
             /\ ~(v[i] < f[i - 1].min) => f[i].min = f[i - 1].min
             /\ v[i] >= f[i - 1].min /\ v[i] > f[i - 1].max => f[i].max = v[i]
             /\ ~(v[i] >= f[i - 1].min /\ v[i] > f[i - 1].max) => f[i].max = f[i - 1].max
             /\ f[i].sum = f[i - 1].sum + v[i]
  <2>1. f[i] = Compared(f[i - 1], v[i])
    BY DEF Examined
  <2> QED  BY ONLY <2>1 DEF Compared
<1> HIDE DEF Examined
<1> QED  BY <1>1, <1>3, <1>4, <1>5 DEF Runs, MinRuns, MaxRuns, SumRuns

(* The search finds the smallest sample.                                   *)
LEMMA SmallestFound ==
  ASSUME NEW v, v \in Seq(Nat), NEW f, Examined(v, f), \A i \in 1 .. Len(v) : v[i] <= 65535
  PROVE  \A i \in 1 .. Len(v) :
           /\ \A j \in 1 .. i : f[i].min <= v[j]
           /\ \E j \in 1 .. i : f[i].min = v[j]
<1> DEFINE n == Len(v)
           Found(i) == /\ \A j \in 1 .. i : f[i].min <= v[j]
                       /\ \E j \in 1 .. i : f[i].min = v[j]
           S == {i \in Nat : i \in 1 .. n => Found(i)}
<1>1. /\ n \in Nat /\ \A i \in 1 .. n : v[i] \in Nat
      /\ \A i \in 0 .. n : f[i].min \in Nat
      /\ f[0].min = 65535
      /\ \A i \in 1 .. n :
           /\ v[i] < f[i - 1].min => f[i].min = v[i]
           /\ ~(v[i] < f[i - 1].min) => f[i].min = f[i - 1].min
  <2>1. Runs(v, f)
    BY SearchFacts
  <2> HIDE DEF n
  <2>2. n = Len(v)
    BY DEF n
  <2>3. /\ n \in Nat /\ \A i \in 1 .. n : v[i] \in Nat
        /\ \A i \in 0 .. n : f[i].min \in Nat
        /\ f[0].min = 65535
    BY ONLY <2>1, <2>2 DEF Runs
  <2>4. MinRuns(v, f)
    BY ONLY <2>1 DEF Runs
  <2>5. \A i \in 1 .. n :
           /\ v[i] < f[i - 1].min => f[i].min = v[i]
           /\ ~(v[i] < f[i - 1].min) => f[i].min = f[i - 1].min
    BY ONLY <2>2, <2>4 DEF MinRuns
  <2> QED  BY ONLY <2>3, <2>5
<1> HIDE DEF n
<1>2. 0 \in S
  OBVIOUS
<1>3. ASSUME NEW i \in Nat, i \in S  PROVE i + 1 \in S
  <2> SUFFICES ASSUME i + 1 \in 1 .. n  PROVE Found(i + 1)
    OBVIOUS
  <2>1. /\ (i + 1) - 1 = i /\ i \in 0 .. n
        /\ v[i + 1] < f[i].min => f[i + 1].min = v[i + 1]
        /\ ~(v[i + 1] < f[i].min) => f[i + 1].min = f[i].min
        /\ v[i + 1] \in Nat /\ f[i].min \in Nat /\ f[i + 1].min \in Nat
    BY <1>1
  <2>2. CASE i = 0
    <3>1. f[1].min = v[1] /\ v[1] \in Nat /\ i + 1 = 1
      BY <1>1, <2>1, <2>2 DEF n
    <3>2. \A j \in 1 .. i + 1 : j = 1
      BY <2>2
    <3> QED  BY <3>1, <3>2
  <2>3. CASE i # 0
    <3>1. i \in 1 .. n /\ Found(i)
      BY <1>3, <2>1, <2>3
    <3>2. \A j \in 1 .. i + 1 : j \in 1 .. i \/ j = i + 1
      OBVIOUS
    <3>3. \A j \in 1 .. i : j \in 1 .. i + 1 /\ v[j] \in Nat
      BY <1>1, <2>1
    <3>4. f[i + 1].min <= f[i].min /\ f[i + 1].min <= v[i + 1]
      BY ONLY <2>1
    <3>5. \A j \in 1 .. i + 1 : f[i + 1].min <= v[j]
      <4>1. \A j \in 1 .. i : f[i + 1].min <= v[j]
        BY <2>1, <3>1, <3>3, <3>4
      <4> QED  BY <3>2, <3>4, <4>1
    <3>6. \E j \in 1 .. i + 1 : f[i + 1].min = v[j]
      <4>1. f[i + 1].min = v[i + 1] \/ f[i + 1].min = f[i].min
        BY <2>1
      <4>2. i + 1 \in 1 .. i + 1
        OBVIOUS
      <4> QED  BY <3>1, <3>3, <4>1, <4>2
    <3> QED  BY <3>5, <3>6
  <2> QED  BY <2>2, <2>3
<1>4. \A i \in Nat : i \in S
  <2> HIDE DEF S
  <2> QED  BY ONLY <1>2, <1>3, SetInduction
<1>5. \A i \in 1 .. n : Found(i)
  <2> HIDE DEF Found
  <2> QED  BY ONLY <1>1, <1>4
<1> QED  BY ONLY <1>5 DEF n

(* It finds the largest, if that is not the first sample alone.            *)
LEMMA LargestFound ==
  ASSUME NEW v, v \in Seq(Nat), NEW f, Examined(v, f), \A i \in 1 .. Len(v) : v[i] <= 65535,
         NEW k \in 2 .. Len(v), \A i \in 1 .. Len(v) : v[i] <= v[k]
  PROVE  f[Len(v)].max = v[k]
<1> DEFINE n == Len(v)
           Top(i) == f[i].max <= v[k] /\ (i >= k => f[i].max = v[k])
           S == {i \in Nat : i <= n => Top(i)}
<1>1. /\ n \in Nat /\ \A i \in 1 .. n : v[i] \in Nat
      /\ \A i \in 0 .. n : f[i].min \in Nat /\ f[i].max \in Nat
      /\ f[0].max = 0
      /\ \A i \in 1 .. n :
           /\ v[i] >= f[i - 1].min /\ v[i] > f[i - 1].max => f[i].max = v[i]
           /\ ~(v[i] >= f[i - 1].min /\ v[i] > f[i - 1].max) => f[i].max = f[i - 1].max
  <2>1. Runs(v, f)
    BY SearchFacts
  <2>2. /\ n \in Nat /\ \A i \in 1 .. n : v[i] \in Nat
        /\ \A i \in 0 .. n : f[i].min \in Nat /\ f[i].max \in Nat
        /\ f[0].max = 0 /\ MaxRuns(v, f)
    BY ONLY <2>1 DEF Runs
  <2> QED  BY ONLY <2>2 DEF MaxRuns
<1>2. \A i \in 1 .. n : f[i].min <= v[1]
  <2>1. \A i \in 1 .. n : \A j \in 1 .. i : f[i].min <= v[j]
    BY ONLY v \in Seq(Nat), Examined(v, f), \A i \in 1 .. Len(v) : v[i] <= 65535, SmallestFound
  <2>2. \A i \in 1 .. n : 1 \in 1 .. i
    BY <1>1
  <2> QED  BY ONLY <2>1, <2>2
<1>3. k \in Nat /\ k >= 2 /\ k <= n /\ v[k] \in Nat /\ \A i \in 1 .. n : v[i] <= v[k]
  <2>1. k \in 1 .. n
    BY <1>1
  <2> QED  BY <1>1, <2>1
<1> HIDE DEF n
<1>4. 0 \in S
  BY <1>1, <1>3
<1>5. ASSUME NEW i \in Nat, i \in S  PROVE i + 1 \in S
  <2> SUFFICES ASSUME i + 1 <= n  PROVE Top(i + 1)
    OBVIOUS
  <2>1. /\ (i + 1) - 1 = i /\ i \in 0 .. n /\ i + 1 \in 1 .. n
        /\ v[i + 1] >= f[i].min /\ v[i + 1] > f[i].max => f[i + 1].max = v[i + 1]
        /\ ~(v[i + 1] >= f[i].min /\ v[i + 1] > f[i].max) => f[i + 1].max = f[i].max
    BY <1>1
  <2>2. Top(i) /\ v[i + 1] \in Nat /\ v[i + 1] <= v[k] /\ f[i].max \in Nat /\ f[i].min \in Nat
    BY <1>1, <1>3, <1>5, <2>1
  <2>3. f[i + 1].max <= v[k]
    BY <2>1, <2>2
  <2>4. CASE i + 1 = k
    <3>1. i \in 1 .. n /\ 1 \in 1 .. n
      BY <1>1, <1>3, <2>1, <2>4
    <3>2. f[i].min <= v[k] /\ v[1] \in Nat
      <4>1. f[i].min <= v[1] /\ v[1] <= v[k] /\ v[1] \in Nat
        BY ONLY <1>1, <1>2, <1>3, <3>1
      <4>2. f[i].min \in Nat /\ v[k] \in Nat
        BY ONLY <1>3, <2>2
      <4> HIDE DEF Top
      <4> QED  BY ONLY <4>1, <4>2
    <3> QED  BY ONLY <1>3, <2>1, <2>2, <2>3, <2>4, <3>2
  <2>5. CASE i + 1 # k
    BY <1>3, <2>1, <2>2, <2>3, <2>5
  <2> QED  BY <2>4, <2>5
<1>6. \A i \in Nat : i \in S
  <2> HIDE DEF S
  <2> QED  BY ONLY <1>4, <1>5, SetInduction
<1>7. n \in S
  <2> HIDE DEF S
  <2> QED  BY ONLY <1>1, <1>6
<1>8. f[n].max = v[k]
  BY ONLY <1>1, <1>3, <1>7
<1> QED  BY ONLY <1>8 DEF n

(* What it adds up.                                                        *)
LEMMA SumFound ==
  ASSUME NEW v, v \in Seq(Nat), NEW f, Examined(v, f)
  PROVE  LET Rest[i \in 0 .. Len(v)] == IF i = 0 THEN 0 ELSE Rest[i - 1] + v[i]
         IN  Rest[Len(v)] = f[Len(v)].sum
<1>0. /\ Len(v) \in Nat /\ f[0].sum = 0
      /\ \A i \in 1 .. Len(v) : f[i].sum = f[i - 1].sum + v[i]
  <2>1. Runs(v, f)
    BY SearchFacts
  <2>2. Len(v) \in Nat /\ f[0].sum = 0 /\ SumRuns(v, f)
    BY ONLY <2>1 DEF Runs
  <2> QED  BY ONLY <2>2 DEF SumRuns
<1> DEFINE n == Len(v)
           next(h, i) == IF i = 0 THEN 0 ELSE h[i - 1] + v[i]
           Is(h) == h = [i \in 0 .. n |-> next(h, i)]
           g == [i \in 0 .. n |-> f[i].sum]
           Rest[i \in 0 .. n] == IF i = 0 THEN 0 ELSE Rest[i - 1] + v[i]
<1>1. /\ n \in Nat /\ f[0].sum = 0
      /\ \A i \in 1 .. n : f[i].sum = f[i - 1].sum + v[i]
  BY ONLY <1>0
<1>2. Rest = CHOOSE h : Is(h)
  OBVIOUS
<1> HIDE DEF n, Rest
<1>3. Is(g)
  <2>1. \A i \in 0 .. n : g[i] = next(g, i)
    <3> TAKE i \in 0 .. n
    <3>1. CASE i = 0
      BY <1>1, <3>1
    <3>2. CASE i # 0
      <4>1. i \in 1 .. n /\ i - 1 \in 0 .. n
        BY <1>1, <3>2
      <4> QED  BY <1>1, <3>2, <4>1
    <3> QED  BY <3>1, <3>2
  <2>2. g = [i \in 0 .. n |-> g[i]]
    OBVIOUS
  <2> HIDE DEF g, next
  <2> QED  BY <2>1, <2>2
<1>4. ASSUME NEW h, Is(h)  PROVE h[n] = f[n].sum
  <2> DEFINE T == {i \in Nat : i <= n => h[i] = f[i].sum}
  <2>1. \A i \in 0 .. n : h[i] = next(h, i)
    <3> HIDE DEF next
    <3> QED  BY <1>4
  <2> HIDE DEF Is
  <2>2. 0 \in T
    BY <1>1, <2>1
  <2>3. ASSUME NEW i \in Nat, i \in T  PROVE i + 1 \in T
    <3> SUFFICES ASSUME i + 1 <= n  PROVE h[i + 1] = f[i + 1].sum
      OBVIOUS
    <3>1. i + 1 \in 1 .. n /\ i + 1 \in 0 .. n /\ i + 1 # 0 /\ (i + 1) - 1 = i /\ i <= n
      BY <1>1
    <3>2. h[i] = f[i].sum
      BY <2>3, <3>1
    <3>3. h[i + 1] = h[(i + 1) - 1] + v[i + 1]
      BY <2>1, <3>1
    <3>4. f[i + 1].sum = f[(i + 1) - 1].sum + v[i + 1]
      BY <1>1, <3>1
    <3> QED  BY <3>1, <3>2, <3>3, <3>4
  <2>4. \A i \in Nat : i \in T
    <3> HIDE DEF T
    <3> QED  BY ONLY <2>2, <2>3, SetInduction
  <2>5. n \in T
    <3> HIDE DEF T
    <3> QED  BY ONLY <1>1, <2>4
  <2> QED  BY ONLY <1>1, <2>5
<1>5. Is(CHOOSE h : Is(h))
  <2> HIDE DEF Is
  <2> QED  BY <1>3
<1>6. Rest[n] = f[n].sum
  <2> HIDE DEF Is
  <2> QED  BY <1>2, <1>4, <1>5
<1> QED  BY <1>6 DEF n, Rest

(* Dividing by m: of a multiple, and of what is at most one.               *)
LEMMA Divides ==
  ASSUME NEW m \in Nat, m # 0
  PROVE  /\ \A x \in Nat : (m * x) \div m = x
         /\ \A x \in Nat, B \in Nat : x <= m * B => x \div m \in 0 .. B
<1>1. \A x \in Nat : (m * x) \div m = x
  BY Z3
<1>2. \A x \in Nat, B \in Nat : x <= m * B => x \div m \in 0 .. B
  BY Z3
<1> QED  BY <1>1, <1>2

(* Samples that are all the same are their average.                        *)
LEMMA SameSamples ==
  ASSUME NEW v, v \in Seq(Nat), Len(v) >= 3, NEW x \in Nat, x <= 65535,
         \A i \in 1 .. Len(v) : v[i] = x
  PROVE  (Extremes(v).sum - Extremes(v).min - Extremes(v).max) \div (Len(v) - 2) = x
<1>0. \A i \in 1 .. Len(v) : v[i] <= 65535
  BY ONLY \A i \in 1 .. Len(v) : v[i] = x, x <= 65535
<1>1. PICK f : Examined(v, f) /\ Extremes(v) = f[Len(v)]
  BY ONLY v \in Seq(Nat), SearchIs
<1>2. Runs(v, f)
  BY ONLY v \in Seq(Nat), <1>1, SearchFacts
<1> DEFINE n == Len(v)
<1>3. n \in Nat /\ f[0].sum = 0 /\ \A i \in 1 .. n : f[i].sum = f[i - 1].sum + v[i]
  BY ONLY <1>2 DEF Runs, SumRuns
<1>4. n >= 3 /\ \A i \in 1 .. n : v[i] = x
  OBVIOUS
<1>5. \A i \in 1 .. n : /\ \A j \in 1 .. i : f[i].min <= v[j]
                        /\ \E j \in 1 .. i : f[i].min = v[j]
  BY ONLY v \in Seq(Nat), <1>0, <1>1, SmallestFound
<1>6. \A k \in 2 .. n : (\A i \in 1 .. n : v[i] <= v[k]) => f[n].max = v[k]
  <2> SUFFICES ASSUME NEW k \in 2 .. n, \A i \in 1 .. n : v[i] <= v[k]
               PROVE  f[n].max = v[k]
    OBVIOUS
  <2>1. k \in 2 .. Len(v) /\ \A i \in 1 .. Len(v) : v[i] <= v[k]
    OBVIOUS
  <2>2. f[Len(v)].max = v[k]
    BY ONLY v \in Seq(Nat), <1>0, <1>1, <2>1, LargestFound
  <2> QED  BY ONLY <2>2
<1> HIDE DEF n
<1>7. f[n].min = x
  <2>1. n \in 1 .. n
    BY ONLY <1>3, <1>4
  <2>2. PICK j \in 1 .. n : f[n].min = v[j]
    BY ONLY <1>5, <2>1
  <2> QED  BY ONLY <1>4, <2>2
<1>8. f[n].max = x
  <2>1. 2 \in 2 .. n /\ 2 \in 1 .. n
    BY ONLY <1>3, <1>4
  <2>2. v[2] = x
    BY ONLY <1>4, <2>1
  <2>3. \A i \in 1 .. n : v[i] <= v[2]
    BY ONLY <1>4, <2>2, x \in Nat
  <2>4. f[n].max = v[2]
    BY ONLY <1>6, <2>1, <2>3
  <2> QED  BY ONLY <2>2, <2>4
<1> DEFINE S == {i \in Nat : i <= n => f[i].sum = i * x}
<1>9. 0 \in S
  BY ONLY <1>3, x \in Nat
<1>10. ASSUME NEW i \in Nat, i \in S  PROVE i + 1 \in S
  <2> SUFFICES ASSUME i + 1 <= n  PROVE f[i + 1].sum = (i + 1) * x
    OBVIOUS
  <2>1. i + 1 \in 1 .. n /\ (i + 1) - 1 = i /\ i <= n
    BY ONLY <1>3, i \in Nat, i + 1 <= n
  <2>2. f[i].sum = i * x
    BY ONLY <1>10, <2>1
  <2>3. f[i + 1].sum = f[(i + 1) - 1].sum + v[i + 1] /\ v[i + 1] = x
    BY ONLY <1>3, <1>4, <2>1
  <2>4. i * x + x = (i + 1) * x
    BY ONLY i \in Nat, x \in Nat
  <2> QED  BY ONLY <2>1, <2>2, <2>3, <2>4
<1>11. Nat \subseteq S
  <2> HIDE DEF S
  <2> QED  BY ONLY <1>9, <1>10, SetInduction
<1>12. f[n].sum = n * x
  <2>1. n \in S /\ n <= n
    BY ONLY <1>3, <1>11
  <2> QED  BY ONLY <2>1
<1>13. f[n].sum - f[n].min - f[n].max = (n - 2) * x
  <2>1. n * x - x - x = (n - 2) * x
    BY ONLY <1>3, x \in Nat
  <2> QED  BY ONLY <1>7, <1>8, <1>12, <2>1
<1>14. n - 2 \in Nat /\ n - 2 # 0
  BY ONLY <1>3, <1>4
<1>15. ((n - 2) * x) \div (n - 2) = x
  <2>1. \A m \in Nat : m # 0 => (m * x) \div m = x
    BY ONLY x \in Nat, Divides
  <2> QED  BY ONLY <1>14, <2>1
<1> QED  BY ONLY <1>1, <1>13, <1>15 DEF n

(* Numbers.                                                                *)
LEMMA OneStepMore ==
  ASSUME NEW k \in Nat, NEW B \in Nat
  PROVE  /\ ((k - 1) - 2) * B \in Int /\ (k - 2) * B \in Int
         /\ ((k - 1) - 2) * B + B = (k - 2) * B
OBVIOUS

LEMMA TwiceAtMost ==
  ASSUME NEW n \in Nat, n >= 4, NEW A \in Nat
  PROVE  /\ 2 * A + (n - 2) * A <= (n - 2) * (2 * A)
         /\ (n - 2) * A \in Nat /\ (n - 2) * (2 * A) \in Nat
<1>1. PICK d \in Nat : n - 2 = 2 + d
  <2>1. n - 4 \in Nat /\ n - 2 = 2 + (n - 4)
    OBVIOUS
  <2> QED  BY <2>1
<1>2. (2 + d) * A = 2 * A + d * A /\ (2 + d) * (2 * A) = 4 * A + 2 * (d * A) /\ d * A \in Nat
  OBVIOUS
<1> QED  BY <1>1, <1>2

(* From the second sample on, each adds at most B to the sum without the   *)
(* smallest and the largest.                                               *)
Trimmed(e) == e.sum - e.min - e.max

LEMMA TrimmedGrows ==
  ASSUME NEW v, v \in Seq(Nat), NEW f, Examined(v, f), Len(v) >= 2, NEW B \in Nat,
         f[2].min <= B, f[2].max <= B, Trimmed(f[2]) >= 0,
         \A i \in 3 .. Len(v) : v[i] <= B
  PROVE  Trimmed(f[Len(v)]) \in Nat /\ Trimmed(f[Len(v)]) <= Trimmed(f[2]) + (Len(v) - 2) * B
<1> DEFINE n == Len(v)
           Holding(i) == /\ f[i].min <= B /\ f[i].max <= B
                         /\ Trimmed(f[i]) >= 0 /\ Trimmed(f[i]) <= Trimmed(f[2]) + (i - 2) * B
           S == {i \in Nat : i + 2 <= n => Holding(i + 2)}
<1>1. Runs(v, f)
  BY SearchFacts
<1>2. /\ n \in Nat /\ \A i \in 1 .. n : v[i] \in Nat
      /\ \A i \in 0 .. n : f[i].min \in Nat /\ f[i].max \in Nat /\ f[i].sum \in Nat
  BY ONLY <1>1 DEF Runs
<1>s. MinRuns(v, f) /\ MaxRuns(v, f) /\ SumRuns(v, f)
  BY ONLY <1>1 DEF Runs
<1>3. \A i \in 1 .. n : /\ v[i] < f[i - 1].min => f[i].min = v[i]
                        /\ ~(v[i] < f[i - 1].min) => f[i].min = f[i - 1].min
  BY ONLY <1>s DEF MinRuns
<1>4. \A i \in 1 .. n :
        /\ v[i] >= f[i - 1].min /\ v[i] > f[i - 1].max => f[i].max = v[i]
        /\ ~(v[i] >= f[i - 1].min /\ v[i] > f[i - 1].max) => f[i].max = f[i - 1].max
  BY ONLY <1>s DEF MaxRuns
<1>5. \A i \in 1 .. n : f[i].sum = f[i - 1].sum + v[i]
  BY ONLY <1>s DEF SumRuns
<1>6. n >= 2 /\ \A i \in 3 .. n : v[i] <= B
  OBVIOUS
<1> HIDE DEF n
<1>7. 0 \in S
  <2>1. f[2].min \in Nat /\ f[2].max \in Nat /\ f[2].sum \in Nat
    BY <1>2, <1>6
  <2>2. Trimmed(f[2]) \in Int /\ Trimmed(f[2]) <= Trimmed(f[2]) + (2 - 2) * B
    BY ONLY <2>1, B \in Nat DEF Trimmed
  <2> QED  BY <2>2
<1>8. ASSUME NEW i \in Nat, i \in S  PROVE i + 1 \in S
  <2> SUFFICES ASSUME (i + 1) + 2 <= n  PROVE Holding((i + 1) + 2)
    OBVIOUS
  <2> DEFINE k == i + 3
             d == f[k - 1]
             e == f[k]
             x == v[k]
  <2>1. /\ k \in 1 .. n /\ k - 1 \in 0 .. n /\ k \in 0 .. n /\ k \in 3 .. n
        /\ i + 2 <= n /\ i + 2 = k - 1 /\ (i + 1) + 2 = k /\ 2 \in 0 .. n
    <3>1. n \in Nat
      BY ONLY <1>2
    <3> QED  BY ONLY <3>1, i \in Nat, (i + 1) + 2 <= n
  <2>2. /\ d.min \in Nat /\ d.max \in Nat /\ d.sum \in Nat
        /\ e.min \in Nat /\ e.max \in Nat /\ e.sum \in Nat
        /\ x \in Nat /\ x <= B /\ k \in Nat
        /\ f[2].min \in Nat /\ f[2].max \in Nat /\ f[2].sum \in Nat
    <3> HIDE DEF k
    <3>1. k \in 1 .. n /\ k - 1 \in 0 .. n /\ k \in 0 .. n /\ k \in 3 .. n /\ 2 \in 0 .. n
      BY ONLY <2>1
    <3>2. k \in Nat
      BY ONLY <3>1
    <3> HIDE DEF d, e, x
    <3>3. d.min \in Nat /\ d.max \in Nat /\ d.sum \in Nat
      BY ONLY <1>2, <3>1 DEF d
    <3>4. e.min \in Nat /\ e.max \in Nat /\ e.sum \in Nat
      BY ONLY <1>2, <3>1 DEF e
    <3>5. x \in Nat /\ x <= B
      BY ONLY <1>2, <1>6, <3>1 DEF x
    <3>6. f[2].min \in Nat /\ f[2].max \in Nat /\ f[2].sum \in Nat
      BY ONLY <1>2, <3>1
    <3> QED  BY ONLY <3>2, <3>3, <3>4, <3>5, <3>6
  <2>3. Holding(k - 1)
    BY <1>8, <2>1
  <2>4. /\ x < d.min => e.min = x
        /\ ~(x < d.min) => e.min = d.min
    <3> HIDE DEF k
    <3> QED  BY <1>3, <2>1
  <2>5. /\ x >= d.min /\ x > d.max => e.max = x
        /\ ~(x >= d.min /\ x > d.max) => e.max = d.max
    <3> HIDE DEF k
    <3> QED  BY <1>4, <2>1
  <2>6. e.sum = d.sum + x
    <3> HIDE DEF k
    <3> QED  BY <1>5, <2>1
  <2>7. /\ d.min <= B /\ d.max <= B
        /\ Trimmed(d) >= 0 /\ Trimmed(d) <= Trimmed(f[2]) + ((k - 1) - 2) * B
    BY <2>3
  <2>a. k \in Nat
    OBVIOUS
  <2> HIDE DEF k, d, e, x
  <2>8. e.min <= B /\ e.max <= B
    BY <2>2, <2>4, <2>5, <2>7
  <2>9. Trimmed(e) >= Trimmed(d) /\ Trimmed(e) <= Trimmed(d) + B
    <3>1. e.sum - e.min - e.max >= d.sum - d.min - d.max
      BY ONLY <2>2, <2>4, <2>5, <2>6
    <3>2. e.sum - e.min - e.max <= d.sum - d.min - d.max + B
      BY ONLY <2>2, <2>4, <2>5, <2>6, <2>7, B \in Nat
    <3> QED  BY ONLY <3>1, <3>2 DEF Trimmed
  <2>10. /\ Trimmed(d) \in Int /\ Trimmed(e) \in Int /\ Trimmed(f[2]) \in Int
    BY ONLY <2>2 DEF Trimmed
  <2> DEFINE p == ((k - 1) - 2) * B
             q == (k - 2) * B
  <2>11. p \in Int /\ q \in Int /\ p + B = q
    BY ONLY <2>a, B \in Nat, OneStepMore
  <2> HIDE DEF p, q
  <2>12. Trimmed(e) >= 0 /\ Trimmed(e) <= Trimmed(f[2]) + q
    <3>1. Trimmed(d) >= 0 /\ Trimmed(d) <= Trimmed(f[2]) + p
      BY ONLY <2>7 DEF p
    <3> QED  BY ONLY <2>9, <2>10, <2>11, <3>1, B \in Nat
  <2>13. Holding(k)
    BY ONLY <2>8, <2>12 DEF e, q
  <2> QED  BY ONLY <2>1, <2>13
<1>9. Nat \subseteq S
  <2> HIDE DEF S
  <2> QED  BY ONLY <1>7, <1>8, SetInduction
<1>10. Holding(n)
  <2>1. n - 2 \in Nat /\ (n - 2) + 2 = n /\ n <= n
    BY ONLY <1>2, <1>6
  <2>2. n - 2 \in S
    BY ONLY <1>9, <2>1
  <2> HIDE DEF Holding
  <2> QED  BY ONLY <2>1, <2>2
<1>11. Trimmed(f[n]) \in Int
  <2>1. n \in 0 .. n
    BY ONLY <1>2
  <2> QED  BY ONLY <1>2, <2>1 DEF Trimmed
<1> QED  BY <1>10, <1>11 DEF n

(* What the search for the smallest begins with is larger.                 *)
Fits(x) == x < 65535

(* However often a sample is a stale one, the average stays in the bounds  *)
(* of a sample: only the first can be the average of an earlier burst that *)
(* no other is as large as.                                                *)
LEMMA AverageBound ==
  ASSUME NEW v, v \in Seq(Nat), Len(v) >= 4, NEW A \in Nat, Fits(2 * A),
         \A i \in 1 .. Len(v) : v[i] <= 2 * A,
         \A i \in 1 .. Len(v) : v[i] <= A \/ \A j \in 1 .. i : v[j] = v[1]
  PROVE  (Extremes(v).sum - Extremes(v).min - Extremes(v).max) \div (Len(v) - 2) \in 0 .. 2 * A
<1> DEFINE n == Len(v)
<1>0. 2 * A < 65535
  BY DEF Fits
<1>1. PICK f : Examined(v, f) /\ Extremes(v) = f[n]
  BY SearchIs
<1>2. Runs(v, f)
  BY <1>1, SearchFacts
<1>3. /\ n \in Nat /\ n >= 4 /\ v[1] \in Nat /\ v[2] \in Nat /\ v[1] <= 2 * A /\ v[2] <= 2 * A
      /\ f[1].min \in Nat /\ f[1].max \in Nat /\ f[1].sum \in Nat
      /\ f[2].min \in Nat /\ f[2].max \in Nat /\ f[2].sum \in Nat
      /\ f[0].min = 65535 /\ f[0].max = 0 /\ f[0].sum = 0
  <2>1. /\ Len(v) \in Nat /\ 1 \in 1 .. Len(v) /\ 2 \in 1 .. Len(v)
        /\ 1 \in 0 .. Len(v) /\ 2 \in 0 .. Len(v)
    BY LenProperties
  <2> QED  BY ONLY <1>2, <2>1, Len(v) >= 4, \A i \in 1 .. Len(v) : v[i] <= 2 * A DEF Runs
<1>4. /\ f[1].min = v[1] /\ f[1].max = 0 /\ f[1].sum = v[1]
  <2>1. /\ v[1] < f[1 - 1].min => f[1].min = v[1]
        /\ ~(v[1] >= f[1 - 1].min /\ v[1] > f[1 - 1].max) => f[1].max = f[1 - 1].max
        /\ f[1].sum = f[1 - 1].sum + v[1]
    <3>1. 1 \in 1 .. Len(v)
      BY <1>3
    <3>2. MinRuns(v, f) /\ MaxRuns(v, f) /\ SumRuns(v, f)
      BY ONLY <1>2 DEF Runs
    <3> QED  BY ONLY <3>1, <3>2 DEF MinRuns, MaxRuns, SumRuns
  <2> QED  BY <1>0, <1>3, <2>1
<1>5. 2 \in 1 .. Len(v) /\ 2 - 1 = 1
  BY ONLY <1>3 DEF n
<1>6. /\ v[2] < f[1].min => f[2].min = v[2]
      /\ ~(v[2] < f[1].min) => f[2].min = f[1].min
  BY ONLY <1>2, <1>5 DEF Runs, MinRuns
<1>7. /\ v[2] >= f[1].min /\ v[2] > f[1].max => f[2].max = v[2]
      /\ ~(v[2] >= f[1].min /\ v[2] > f[1].max) => f[2].max = f[1].max
  BY ONLY <1>2, <1>5 DEF Runs, MaxRuns
<1>8. f[2].sum = f[1].sum + v[2]
  BY ONLY <1>2, <1>5 DEF Runs, SumRuns
<1>9. /\ v[2] < v[1] => f[2].min = v[2] /\ f[2].max = 0
      /\ v[2] >= v[1] => f[2].min = v[1] /\ f[2].max = v[2]
      /\ f[2].sum = v[1] + v[2]
  <2>1. v[1] \in Nat /\ v[2] \in Nat
    BY ONLY <1>3
  <2>2. v[2] < v[1] => f[2].min = v[2] /\ f[2].max = 0
    BY ONLY <1>4, <1>6, <1>7, <2>1
  <2>3. v[2] >= v[1] => f[2].min = v[1] /\ f[2].max = v[2]
    <3>1. v[2] >= v[1] => f[2].min = v[1]
      BY ONLY <1>4, <1>6, <2>1
    <3>2. v[2] >= v[1] => f[2].max = v[2]
      BY ONLY <1>4, <1>7, <2>1
    <3> QED  BY ONLY <3>1, <3>2
  <2>4. f[2].sum = v[1] + v[2]
    BY ONLY <1>4, <1>8
  <2> QED  BY ONLY <2>2, <2>3, <2>4
<1>10. \A i \in 2 .. Len(v) : v[i] <= A \/ v[2] = v[1]
  <2> TAKE k \in 2 .. Len(v)
  <2>1. k \in 1 .. Len(v) /\ 2 \in 1 .. k
    BY ONLY k \in 2 .. Len(v), <1>3 DEF n
  <2> QED  BY ONLY <2>1, \A i \in 1 .. Len(v) : v[i] <= A \/ \A j \in 1 .. i : v[j] = v[1]
<1>11. \A i \in 3 .. Len(v) : i \in 2 .. Len(v) /\ i \in 1 .. Len(v)
  BY ONLY <1>3 DEF n
<1>12. Len(v) >= 2 /\ 2 * A \in Nat
  BY ONLY <1>3, A \in Nat DEF n
<1> HIDE DEF n
<1> DEFINE t == Trimmed(f[n])
<1>13. t \in Nat /\ t <= (n - 2) * (2 * A)
  <2>1. CASE v[2] >= v[1]
    <3>1. f[2].min = v[1] /\ f[2].max = v[2] /\ f[2].sum = v[1] + v[2]
      BY ONLY <1>9, <2>1
    <3>2. Trimmed(f[2]) = 0
      BY ONLY <1>3, <3>1 DEF Trimmed
    <3>3. f[2].min <= 2 * A /\ f[2].max <= 2 * A /\ Trimmed(f[2]) >= 0
      BY ONLY <1>3, <3>1, <3>2
    <3>4. \A i \in 3 .. Len(v) : v[i] <= 2 * A
      BY ONLY <1>11, \A i \in 1 .. Len(v) : v[i] <= 2 * A
    <3>5. t \in Nat /\ t <= Trimmed(f[2]) + (n - 2) * (2 * A)
      BY ONLY v \in Seq(Nat), <1>1, <1>12, <3>3, <3>4, TrimmedGrows DEF n, t
    <3>6. (n - 2) * (2 * A) \in Nat
      BY ONLY <1>3, A \in Nat, TwiceAtMost
    <3> HIDE DEF t
    <3> QED  BY ONLY <3>2, <3>5, <3>6
  <2>2. CASE v[2] < v[1]
    <3>1. v[2] # v[1] /\ f[2].min = v[2] /\ f[2].max = 0 /\ f[2].sum = v[1] + v[2]
      BY ONLY <1>3, <1>9, <2>2
    <3>2. v[2] <= A /\ \A i \in 3 .. Len(v) : v[i] <= A
      <4>1. 2 \in 2 .. Len(v)
        BY ONLY <1>3 DEF n
      <4> QED  BY ONLY <1>10, <1>11, <3>1, <4>1
    <3>3. Trimmed(f[2]) = v[1]
      BY ONLY <1>3, <3>1 DEF Trimmed
    <3>4. f[2].min <= A /\ f[2].max <= A /\ Trimmed(f[2]) >= 0
      BY ONLY <1>3, <3>1, <3>2, <3>3, A \in Nat
    <3>5. t \in Nat /\ t <= Trimmed(f[2]) + (n - 2) * A
      BY ONLY v \in Seq(Nat), A \in Nat, <1>1, <1>12, <3>2, <3>4, TrimmedGrows DEF n, t
    <3>6. /\ 2 * A + (n - 2) * A <= (n - 2) * (2 * A)
          /\ (n - 2) * A \in Nat /\ (n - 2) * (2 * A) \in Nat
      BY ONLY <1>3, A \in Nat, TwiceAtMost
    <3> DEFINE p == (n - 2) * A
               q == (n - 2) * (2 * A)
    <3>7. v[1] <= 2 * A /\ 2 * A \in Nat /\ v[1] \in Nat
      BY ONLY <1>3, <1>12
    <3>8. 2 * A + p <= q /\ p \in Nat /\ q \in Nat /\ t \in Nat /\ t <= v[1] + p
      BY ONLY <3>3, <3>5, <3>6
    <3> HIDE DEF t, p, q
    <3>9. t <= q
      BY ONLY <3>7, <3>8
    <3> QED  BY ONLY <3>8, <3>9 DEF q
  <2> QED  BY ONLY <1>3, <2>1, <2>2
<1> HIDE DEF t
<1>14. n - 2 \in Nat /\ n - 2 # 0
  BY ONLY <1>3
<1>15. t \div (n - 2) \in 0 .. 2 * A
  <2>1. \A m \in Nat : m # 0 =>
          \A x \in Nat, B \in Nat : x <= m * B => x \div m \in 0 .. B
    BY ONLY Divides
  <2> QED  BY ONLY <1>12, <1>13, <1>14, <2>1
<1> QED  BY ONLY <1>1, <1>15 DEF t, n, Trimmed

-----------------------------------------------------------------------------
(* The averages of both coordinates of samples.                            *)
LEMMA TouchConstants ==
  /\ AdcMax \in Nat /\ 2 * AdcMax \in Nat /\ 2 * AdcMax < 65535 /\ Fits(2 * AdcMax)
  /\ CalSamples \in Nat /\ CalSamples >= 3 /\ PointSamples \in Nat /\ PointSamples >= 4
BY TouchAssumption DEF Fits

LEMMA Coordinates ==
  ASSUME NEW samples, samples \in Seq(Sample), NEW c \in 1 .. 2
  PROVE  /\ Coordinate(samples, c) \in Seq(Nat)
         /\ Len(samples) \in Nat
         /\ Len(Coordinate(samples, c)) = Len(samples)
         /\ \A i \in 1 .. Len(samples) :
              /\ samples[i] \in Sample
              /\ Coordinate(samples, c)[i] = samples[i][c]
              /\ samples[i][c] \in Nat /\ samples[i][c] <= 2 * AdcMax
<1> DEFINE n == Len(samples)
<1>1. n \in Nat /\ \A i \in 1 .. n : samples[i] \in Sample
  BY LenProperties, ElementOfSeq
<1> HIDE DEF n
<1>2. \A s \in Sample : s[c] \in Nat /\ s[c] <= 2 * AdcMax
  BY TouchConstants DEF Sample
<1>3. Coordinate(samples, c) = [i \in 1 .. n |-> samples[i][c]]
  BY DEF Coordinate, n
<1>4. [i \in 1 .. n |-> samples[i][c]] \in [1 .. n -> Nat]
  BY <1>1, <1>2
<1>5. Coordinate(samples, c) \in Seq(Nat)
  BY ONLY <1>1, <1>3, <1>4
<1>6. Len(Coordinate(samples, c)) = n
  BY ONLY <1>1, <1>3
<1> QED  BY ONLY <1>1, <1>2, <1>3, <1>5, <1>6 DEF n

LEMMA AverageAt ==
  ASSUME NEW samples, samples \in Seq(Sample), NEW c \in 1 .. 2, NEW v, v = Coordinate(samples, c)
  PROVE  TCS_Average_X_Y(samples)[c] =
           (Extremes(v).sum - Extremes(v).min - Extremes(v).max) \div (Len(v) - 2)
<1>1. Len(v) = Len(samples)
  BY Coordinates
<1> QED  BY ONLY <1>1, c \in 1 .. 2, v = Coordinate(samples, c) DEF TCS_Average_X_Y

(* Samples of one place are averaged to this place.                        *)
LEMMA AverageSame ==
  ASSUME NEW samples, samples \in Seq(Sample), Len(samples) >= 3, NEW P \in Sample,
         \A i \in 1 .. Len(samples) : samples[i] = P
  PROVE  TCS_Average_X_Y(samples) = P
<1>1. ASSUME NEW c \in 1 .. 2  PROVE TCS_Average_X_Y(samples)[c] = P[c]
  <2>1. PICK v : v = Coordinate(samples, c)
    OBVIOUS
  <2>2. /\ v \in Seq(Nat) /\ Len(v) = Len(samples)
        /\ \A i \in 1 .. Len(samples) : v[i] = samples[i][c]
    BY ONLY samples \in Seq(Sample), c \in 1 .. 2, <2>1, Coordinates
  <2>3. P[c] \in Nat /\ P[c] <= 65535
    BY TouchConstants DEF Sample
  <2>4. Len(v) >= 3 /\ \A i \in 1 .. Len(v) : v[i] = P[c]
    BY ONLY <2>2, Len(samples) >= 3, \A i \in 1 .. Len(samples) : samples[i] = P
  <2>5. (Extremes(v).sum - Extremes(v).min - Extremes(v).max) \div (Len(v) - 2) = P[c]
    BY ONLY <2>2, <2>3, <2>4, SameSamples
  <2> QED  BY ONLY samples \in Seq(Sample), c \in 1 .. 2, <2>1, <2>5, AverageAt
<1>2. P = [c \in 1 .. 2 |-> P[c]]
  BY DEF Sample
<1>3. TCS_Average_X_Y(samples) = [c \in 1 .. 2 |-> TCS_Average_X_Y(samples)[c]]
  BY DEF TCS_Average_X_Y
<1> QED  BY ONLY <1>1, <1>2, <1>3

(* In a burst, a sample that is no reading of this burst is the sample     *)
(* that was left, and all before it are.                                   *)
Steady(samples) ==
  \A i \in 1 .. Len(samples) :
    samples[i] \in Reading \/ \A j \in 1 .. i : samples[j] = samples[1]

LEMMA AverageIsSample ==
  ASSUME NEW samples, samples \in Seq(Sample), Len(samples) >= 4, Steady(samples)
  PROVE  TCS_Average_X_Y(samples) \in Sample
<1>1. ASSUME NEW c \in 1 .. 2  PROVE TCS_Average_X_Y(samples)[c] \in 0 .. 2 * AdcMax
  <2>1. PICK v : v = Coordinate(samples, c)
    OBVIOUS
  <2>2. /\ v \in Seq(Nat) /\ Len(v) = Len(samples) /\ Len(samples) \in Nat
        /\ \A i \in 1 .. Len(samples) :
             /\ samples[i] \in Sample
             /\ v[i] = samples[i][c]
             /\ samples[i][c] \in Nat /\ samples[i][c] <= 2 * AdcMax
    BY ONLY samples \in Seq(Sample), c \in 1 .. 2, <2>1, Coordinates
  <2>3. Len(v) >= 4 /\ \A i \in 1 .. Len(v) : v[i] <= 2 * AdcMax
    BY ONLY <2>2, Len(samples) >= 4
  <2>4. ASSUME NEW i \in 1 .. Len(v)  PROVE v[i] <= AdcMax \/ \A j \in 1 .. i : v[j] = v[1]
    <3>1. i \in 1 .. Len(samples) /\ 1 \in 1 .. Len(samples)
          /\ \A j \in 1 .. i : j \in 1 .. Len(samples)
      BY ONLY i \in 1 .. Len(v), <2>2
    <3>2. CASE samples[i] \in Reading
      <4>1. samples[i][c] <= AdcMax
        BY <3>2, TouchConstants DEF Reading
      <4> QED  BY ONLY <2>2, <3>1, <4>1
    <3>3. CASE \A j \in 1 .. i : samples[j] = samples[1]
      BY ONLY <2>2, <3>1, <3>3
    <3> QED  BY ONLY Steady(samples), <3>1, <3>2, <3>3 DEF Steady
  <2>5. (Extremes(v).sum - Extremes(v).min - Extremes(v).max) \div (Len(v) - 2)
          \in 0 .. 2 * AdcMax
    <3>1. \A i \in 1 .. Len(v) : v[i] <= AdcMax \/ \A j \in 1 .. i : v[j] = v[1]
      BY ONLY <2>4
    <3>2. v \in Seq(Nat) /\ AdcMax \in Nat /\ Fits(2 * AdcMax)
      BY ONLY <2>2, TouchConstants
    <3> QED  BY ONLY <2>3, <3>1, <3>2, AverageBound
  <2>6. TCS_Average_X_Y(samples)[c] =
           (Extremes(v).sum - Extremes(v).min - Extremes(v).max) \div (Len(v) - 2)
    BY ONLY samples \in Seq(Sample), c \in 1 .. 2, <2>1, AverageAt
  <2> QED  BY ONLY <2>5, <2>6
<1>3. TCS_Average_X_Y(samples) = [c \in 1 .. 2 |-> TCS_Average_X_Y(samples)[c]]
  BY DEF TCS_Average_X_Y
<1> QED  BY ONLY <1>1, <1>3 DEF Sample

(* What is averaged is trimmed.                                            *)
Averaged == tcs.of # <<>> => Len(tcs.of) >= 3 /\ tcs.ave = TCS_Average_X_Y(tcs.of)

LEMMA TrimmedHolds ==
  ASSUME tcs.of \in Seq(Sample), Averaged
  PROVE  TrimmedAfterFirst
<1> DEFINE Goal(v, c) ==
      LET n      == Len(v)
          least  == CHOOSE i \in 1 .. n : \A j \in 1 .. n : v[i] <= v[j]
          most   == CHOOSE i \in 1 .. n : \A j \in 1 .. n : v[i] >= v[j]
          Rest[i \in 0 .. n] == IF i = 0 THEN 0 ELSE Rest[i - 1] + v[i]
      IN  (\E i \in 2 .. n : v[i] = v[most])
            => tcs.ave[c] = (Rest[n] - v[least] - v[most]) \div (n - 2)
<1>1. ASSUME NEW c \in 1 .. 2  PROVE Goal(Coordinate(tcs.of, c), c)
  <2> HIDE DEF Goal
  <2>1. PICK v : v = Coordinate(tcs.of, c)
    OBVIOUS
  <2>2. /\ v \in Seq(Nat) /\ Len(v) = Len(tcs.of) /\ Len(v) \in Nat
        /\ \A i \in 1 .. Len(v) : v[i] \in Nat /\ v[i] <= 2 * AdcMax
    BY ONLY tcs.of \in Seq(Sample), c \in 1 .. 2, <2>1, Coordinates
  <2> DEFINE n == Len(v)
             least  == CHOOSE i \in 1 .. n : \A j \in 1 .. n : v[i] <= v[j]
             most   == CHOOSE i \in 1 .. n : \A j \in 1 .. n : v[i] >= v[j]
             Rest[i \in 0 .. n] == IF i = 0 THEN 0 ELSE Rest[i - 1] + v[i]
  <2>3. \A i \in 1 .. Len(v) : v[i] <= 65535
    BY ONLY <2>2, TouchConstants
  <2>4. PICK f : Examined(v, f) /\ Extremes(v) = f[n]
    BY ONLY <2>2, SearchIs
  <2>5. Rest[n] = f[n].sum
    BY ONLY <2>2, <2>4, SumFound
  <2> SUFFICES ASSUME NEW k \in 2 .. n, v[k] = v[most]
               PROVE  tcs.ave[c] = (Rest[n] - v[least] - v[most]) \div (n - 2)
    BY <2>1 DEF Goal
  <2> HIDE DEF Rest
  <2>6. n \in Nat /\ n >= 2 /\ n \in 1 .. n /\ 1 \in 1 .. n
    BY ONLY <2>2, k \in 2 .. n
  <2>7. v[least] = f[n].min
    <3>1. \A i \in 1 .. n : /\ \A j \in 1 .. i : f[i].min <= v[j]
                            /\ \E j \in 1 .. i : f[i].min = v[j]
      <4>1. v \in Seq(Nat) /\ Examined(v, f)
        BY ONLY <2>2, <2>4
      <4> QED  BY ONLY <2>3, <4>1, SmallestFound
    <3>2. (\A j \in 1 .. n : f[n].min <= v[j]) /\ \E j \in 1 .. n : f[n].min = v[j]
      BY ONLY <2>6, <3>1
    <3> HIDE DEF n
    <3>3. PICK i \in 1 .. n : f[n].min = v[i]
      BY ONLY <3>2
    <3>4. \A j \in 1 .. n : v[i] <= v[j]
      BY ONLY <3>2, <3>3
    <3>5. least \in 1 .. n /\ \A j \in 1 .. n : v[least] <= v[j]
      BY ONLY <3>4, i \in 1 .. n
    <3>6. v[least] \in Nat /\ v[i] \in Nat /\ v[i] <= v[least] /\ v[least] <= v[i]
      BY ONLY <2>2, <3>4, <3>5, i \in 1 .. n DEF n
    <3> QED  BY ONLY <3>3, <3>6
  <2>8. most \in 1 .. n /\ \A j \in 1 .. n : v[most] >= v[j]
    <3> HIDE DEF n, most
    <3>1. PICK K \in Nat : \A i \in 1 .. n : v[i] \in Nat /\ v[i] <= K
      <4>1. 2 * AdcMax \in Nat /\ \A i \in 1 .. n : v[i] \in Nat /\ v[i] <= 2 * AdcMax
        BY ONLY <2>2, TouchConstants DEF n
      <4> DEFINE L == 2 * AdcMax
      <4>2. L \in Nat /\ \A i \in 1 .. n : v[i] \in Nat /\ v[i] <= L
        BY ONLY <4>1
      <4> HIDE DEF L
      <4> QED  BY ONLY <4>2
    <3> DEFINE S == {K - v[i] : i \in 1 .. n}
    <3>2. S \in SUBSET Nat
      BY ONLY <3>1
    <3>3. K - v[1] \in S
      BY ONLY <2>6
    <3>4. \A i \in 1 .. n : K - v[i] \in S
      OBVIOUS
    <3>5. \A x \in S : \E i \in 1 .. n : x = K - v[i]
      OBVIOUS
    <3> HIDE DEF S
    <3>6. Min(S) \in S /\ \A x \in S : Min(S) <= x
      BY ONLY <3>2, <3>3, LeastOf
    <3>7. PICK i \in 1 .. n : Min(S) = K - v[i]
      BY ONLY <3>5, <3>6
    <3>8. \A j \in 1 .. n : v[i] >= v[j]
      <4> TAKE j \in 1 .. n
      <4>1. K - v[i] <= K - v[j]
        BY ONLY <3>4, <3>6, <3>7, j \in 1 .. n
      <4>2. v[i] \in Nat /\ v[j] \in Nat /\ K \in Nat
        BY ONLY <3>1, i \in 1 .. n, j \in 1 .. n
      <4> QED  BY ONLY <4>1, <4>2
    <3> QED  BY ONLY <3>8, i \in 1 .. n DEF most
  <2>9. f[n].max = v[k]
    <3>1. \A i \in 1 .. Len(v) : v[i] <= v[k]
      <4>1. \A i \in 1 .. n : v[k] >= v[i]
        BY ONLY <2>8, v[k] = v[most]
      <4>2. k \in 1 .. n
        BY ONLY <2>6, k \in 2 .. n
      <4> QED  BY ONLY <2>2, <4>1, <4>2
    <3>2. k \in 2 .. Len(v)
      OBVIOUS
    <3>3. v \in Seq(Nat) /\ Examined(v, f) /\ \A i \in 1 .. Len(v) : v[i] <= 65535
      BY ONLY <2>2, <2>3, <2>4
    <3>4. f[Len(v)].max = v[k]
      BY ONLY <3>1, <3>2, <3>3, LargestFound
    <3> QED  BY ONLY <3>4
  <2>10. tcs.ave[c] = (Extremes(v).sum - Extremes(v).min - Extremes(v).max) \div (Len(v) - 2)
    <3>1. tcs.of # <<>>
      BY ONLY <2>2, <2>6
    <3>2. TCS_Average_X_Y(tcs.of)[c] =
            (Extremes(v).sum - Extremes(v).min - Extremes(v).max) \div (Len(v) - 2)
      BY ONLY tcs.of \in Seq(Sample), c \in 1 .. 2, <2>1, AverageAt
    <3> QED  BY ONLY Averaged, <3>1, <3>2 DEF Averaged
  <2>11. Len(v) = n /\ Extremes(v) = f[n]
    BY ONLY <2>4
  <2> HIDE DEF least, most, n
  <2>12. /\ Extremes(v).sum = Rest[n] /\ Extremes(v).min = v[least]
         /\ Extremes(v).max = v[most]
    BY ONLY <2>5, <2>7, <2>9, <2>11, v[k] = v[most]
  <2> QED  BY ONLY <2>10, <2>11, <2>12
<1>2. ASSUME NEW c \in 1 .. 2,
             \E i \in 2 .. Len(Coordinate(tcs.of, c)) : \A j \in 1 .. Len(Coordinate(tcs.of, c)) :
               Coordinate(tcs.of, c)[i] >= Coordinate(tcs.of, c)[j]
      PROVE  TrimmedIn(c)
  <2> DEFINE v      == Coordinate(tcs.of, c)
             n      == Len(v)
             most   == CHOOSE i \in 1 .. n : \A j \in 1 .. n : v[i] >= v[j]
  <2>1. n \in Nat /\ \A i \in 1 .. n : v[i] \in Nat
    BY ONLY tcs.of \in Seq(Sample), c \in 1 .. 2, Coordinates
  <2>2. Goal(v, c)
    BY ONLY <1>1, c \in 1 .. 2
  <2>3. PICK k \in 2 .. n : \A j \in 1 .. n : v[k] >= v[j]
    BY ONLY <1>2
  <2> HIDE DEF v, n, Goal
  <2>4. k \in 1 .. n
    BY ONLY <2>1, k \in 2 .. n
  <2>5. most \in 1 .. n /\ \A j \in 1 .. n : v[most] >= v[j]
    BY ONLY <2>3, <2>4
  <2> HIDE DEF most
  <2>6. v[k] = v[most]
    <3>1. v[k] >= v[most] /\ v[most] >= v[k] /\ v[k] \in Nat /\ v[most] \in Nat
      BY ONLY <2>1, <2>3, <2>4, <2>5
    <3> QED  BY ONLY <3>1
  <2> QED  BY ONLY <2>2, <2>6, k \in 2 .. n DEF TrimmedIn, Goal, most, n, v
<1> HIDE DEF Goal
<1> QED  BY ONLY <1>2 DEF TrimmedAfterFirst, TrimmedIn

(* What holds of the touch screen.                                         *)
TchFields == {"at", "dif", "buf", "ave", "of", "out", "points", "coef"}

TchType ==
  /\ Holds(tcs, TchFields)
  /\ tcs.dif \in Sample /\ tcs.buf \in Seq(Sample) /\ tcs.of \in Seq(Sample)
  /\ tcs.points \in Seq(Sample) /\ Len(tcs.points) <= 3
  /\ touched \in [1 .. 3 -> SUBSET Positions]
  /\ Holds(pen, {"down", "pos"}) /\ pen.down \in BOOLEAN /\ (pen.down => pen.pos \in Positions)

(* The points are of touches of their marks, and while one is taken, and   *)
(* before, there is room for it.                                           *)
PointsTaken ==
  /\ \A k \in 1 .. Len(tcs.points) : \E pos \in touched[k] : tcs.points[k] = Converted(pos)
  /\ tcs.at \in {"rest", "point", "pointRead", "detect", "read", "release", "draw", "exit"}
  /\ tcs.at \in {"detect", "read"} => Len(tcs.points) < 3
  /\ tcs.at = "exit" => Len(tcs.points) = 3
  /\ tcs.at \in {"point", "pointRead"} => tcs.points = <<>>

(* The pen that is detected touches the mark that is shown; all samples    *)
(* are the reading of its place, of which the first is taken while the pen *)
(* is there for certain.                                                   *)
MarkTouched ==
  /\ tcs.at = "draw" => ~pen.down
  /\ tcs.at = "detect" /\ pen.down => touched[Shown] = {pen.pos}
  /\ tcs.at = "read" =>
       \E P \in Positions :
         /\ touched[Shown] = {P} /\ (pen.down => pen.pos = P)
         /\ IF tcs.buf = <<>> THEN pen.down ELSE tcs.dif = Converted(P)
         /\ \A i \in 1 .. Len(tcs.buf) : tcs.buf[i] = Converted(P)

BurstSteady ==
  tcs.at \in {"point", "pointRead"} =>
    /\ Steady(tcs.buf)
    /\ tcs.dif \in Reading \/ \A i \in 1 .. Len(tcs.buf) : tcs.buf[i] = tcs.dif

TouchInv == TchType /\ Averaged /\ PointsTaken /\ MarkTouched /\ BurstSteady

-----------------------------------------------------------------------------
LEMMA ConvertedIs ==
  ASSUME NEW pos \in Positions
  PROVE  Converted(pos) \in Reading
<1>1. pos \in (0 .. AdcMax) \X (0 .. AdcMax) /\ AdcMax \in Nat
  BY TouchAssumption, TouchConstants
<1>2. AdcMax - pos[2] \in 0 .. AdcMax /\ pos[1] \in 0 .. AdcMax
  BY ONLY <1>1
<1> QED  BY ONLY <1>2 DEF Converted, Reading

LEMMA ReadingIs == Reading \subseteq Sample
<1>1. \A x \in 0 .. AdcMax : x \in 0 .. 2 * AdcMax
  BY TouchConstants
<1> QED  BY ONLY <1>1 DEF Reading, Sample

(* Under it every point is the touch of its mark, and the average is       *)
(* trimmed.                                                                *)
LEMMA TouchImplies == TouchInv => TouchRight
<1> SUFFICES ASSUME TouchInv  PROVE TrimmedAfterFirst /\ PointsOfMarks
  BY DEF TouchRight
<1>1. TrimmedAfterFirst
  <2>1. tcs.of \in Seq(Sample) /\ Averaged
    BY ONLY TouchInv DEF TouchInv, TchType
  <2> QED  BY ONLY <2>1, TrimmedHolds
<1>2. PointsOfMarks
  BY DEF TouchInv, PointsTaken, PointsOfMarks
<1> QED  BY ONLY <1>1, <1>2

LEMMA TouchInitial == TouchInit => TouchInv
<1> SUFFICES ASSUME TouchInit  PROVE TouchInv
  OBVIOUS
<1>1. /\ tcs.at = "rest" /\ tcs.dif = NoPoint /\ tcs.buf = <<>> /\ tcs.of = <<>>
      /\ tcs.points = <<>> /\ pen.down = FALSE
      /\ touched = [k \in 1 .. 3 |-> {}]
      /\ Holds(tcs, TchFields) /\ Holds(pen, {"down", "pos"})
  BY DEF TouchInit, Holds, TchFields
<1>2. NoPoint \in Sample
  BY TouchConstants DEF NoPoint, Sample
<1>3. TchType
  <2>1. tcs.buf \in Seq(Sample) /\ tcs.of \in Seq(Sample) /\ tcs.points \in Seq(Sample)
        /\ Len(tcs.points) = 0
    BY ONLY <1>1
  <2>2. touched \in [1 .. 3 -> SUBSET Positions]
    BY ONLY <1>1
  <2>3. tcs.dif \in Sample /\ pen.down \in BOOLEAN /\ ~pen.down
    BY ONLY <1>1, <1>2
  <2> QED  BY ONLY <1>1, <2>1, <2>2, <2>3 DEF TchType
<1>4. Averaged
  BY ONLY <1>1 DEF Averaged
<1>5. PointsTaken /\ MarkTouched /\ BurstSteady
  BY ONLY <1>1 DEF PointsTaken, MarkTouched, BurstSteady
<1> QED  BY ONLY <1>3, <1>4, <1>5 DEF TouchInv

LEMMA TouchStutter ==
  ASSUME TouchInv, UNCHANGED tchVars
  PROVE  TouchInv'
<1>1. tcs' = tcs /\ pen' = pen /\ touched' = touched
  BY DEF tchVars
<1> QED
  BY ONLY TouchInv, <1>1 DEF TouchInv, TchType, Averaged, PointsTaken, MarkTouched, BurstSteady, Shown

-----------------------------------------------------------------------------
(* The pen.                                                                *)
LEMMA PenKeeps ==
  ASSUME TouchInv, PenStays, PenDown \/ PenUp \/ PenMoves
  PROVE  TouchInv'
<1>1. tcs' = tcs
  BY DEF PenDown, PenUp, PenMoves
<1>2. /\ Averaged' /\ BurstSteady'
      /\ Shown' = Shown /\ Len(tcs.points) \in Nat /\ Shown = Len(tcs.points) + 1
  BY ONLY TouchInv, <1>1, LenProperties
     DEF TouchInv, TchType, Averaged, BurstSteady, Shown
<1>3. /\ TchType /\ PointsTaken /\ MarkTouched
  BY ONLY TouchInv DEF TouchInv
<1>4. CASE PenDown
  <2>1. PICK pos \in Positions :
          /\ ~pen.down /\ tcs.at # "draw" /\ pen' = [down |-> TRUE, pos |-> pos]
          /\ IF Calibrating /\ Shown <= 3
               THEN touched[Shown] \subseteq {pos} /\ touched' = [touched EXCEPT ![Shown] = {pos}]
               ELSE UNCHANGED touched
    BY ONLY <1>4 DEF PenDown
  <2>2. pen'.down = TRUE /\ pen'.pos = pos /\ Holds(pen', {"down", "pos"})
    BY ONLY <2>1 DEF Holds
  <2>3. touched \in [1 .. 3 -> SUBSET Positions]
    BY ONLY <1>3 DEF TchType
  <2>4. touched' \in [1 .. 3 -> SUBSET Positions]
    BY ONLY <2>1, <2>3, pos \in Positions
  <2>5. TchType'
    BY ONLY <1>1, <1>3, <2>2, <2>4, pos \in Positions DEF TchType
  <2>6. \A k \in 1 .. Len(tcs.points) : touched'[k] = touched[k]
    <3> TAKE k \in 1 .. Len(tcs.points)
    <3>1. k # Shown /\ k \in 1 .. 3
      BY ONLY <1>2, <1>3, k \in 1 .. Len(tcs.points) DEF TchType
    <3> QED  BY ONLY <2>1, <2>3, <3>1
  <2>7. PointsTaken'
    BY ONLY <1>1, <1>3, <2>6 DEF PointsTaken
  <2>8. ASSUME tcs.at \in {"detect", "read"}
        PROVE  /\ touched'[Shown] = {pos}
               /\ touched[Shown] \subseteq {pos}
    <3>1. Calibrating /\ Shown \in 1 .. 3 /\ Shown <= 3
      BY ONLY <1>2, <1>3, <2>8 DEF Calibrating, PointsTaken
    <3> QED  BY ONLY <2>1, <2>3, <3>1
  <2>9. MarkTouched'
    <3>1. tcs'.at # "draw"
      BY ONLY <1>1, <2>1
    <3>2. tcs'.at = "detect" => touched'[Shown'] = {pen'.pos}
      BY ONLY <1>1, <1>2, <2>2, <2>8
    <3>3. ASSUME tcs.at = "read"
          PROVE  /\ touched'[Shown'] = {pos} /\ pen'.pos = pos
                 /\ IF tcs.buf = <<>> THEN pen'.down ELSE tcs.dif = Converted(pos)
                 /\ \A i \in 1 .. Len(tcs.buf) : tcs.buf[i] = Converted(pos)
      <4>1. PICK P \in Positions :
              /\ touched[Shown] = {P}
              /\ IF tcs.buf = <<>> THEN pen.down ELSE tcs.dif = Converted(P)
              /\ \A i \in 1 .. Len(tcs.buf) : tcs.buf[i] = Converted(P)
        BY ONLY <1>3, <3>3 DEF MarkTouched
      <4>2. P = pos /\ touched'[Shown] = {pos}
        BY ONLY <2>8, <3>3, <4>1
      <4> QED  BY ONLY <1>2, <2>2, <4>1, <4>2
    <3> QED  BY ONLY <1>1, <3>1, <3>2, <3>3, pos \in Positions DEF MarkTouched
  <2> QED  BY ONLY <1>2, <2>5, <2>7, <2>9 DEF TouchInv
<1>5. CASE PenUp
  <2>1. /\ pen.down /\ ~(tcs.at = "read" /\ tcs.buf = <<>>) /\ touched' = touched
        /\ pen' = [pen EXCEPT !.down = FALSE]
    BY ONLY <1>5, PenStays DEF PenUp
  <2>2. pen'.down = FALSE /\ Holds(pen', {"down", "pos"})
    BY ONLY <1>3, <2>1 DEF TchType, Holds
  <2>3. TchType'
    BY ONLY <1>1, <1>3, <2>1, <2>2 DEF TchType
  <2>4. PointsTaken'
    BY ONLY <1>1, <1>3, <2>1 DEF PointsTaken
  <2>5. MarkTouched'
    BY ONLY <1>1, <1>2, <1>3, <2>1, <2>2 DEF MarkTouched
  <2> QED  BY ONLY <1>2, <2>3, <2>4, <2>5 DEF TouchInv
<1>6. CASE PenMoves
  <2>1. PICK pos \in Positions : /\ pen.down /\ ~Calibrating /\ touched' = touched
                                 /\ pen' = [pen EXCEPT !.pos = pos]
    BY ONLY <1>6 DEF PenMoves
  <2>2. pen'.pos = pos /\ pen'.down = pen.down /\ Holds(pen', {"down", "pos"})
    BY ONLY <1>3, <2>1 DEF TchType, Holds
  <2>3. TchType'
    BY ONLY <1>1, <1>3, <2>1, <2>2, pos \in Positions DEF TchType
  <2>4. PointsTaken'
    BY ONLY <1>1, <1>3, <2>1 DEF PointsTaken
  <2>5. MarkTouched'
    BY ONLY <1>1, <2>1 DEF MarkTouched, Calibrating
  <2> QED  BY ONLY <1>2, <2>3, <2>4, <2>5 DEF TouchInv
<1> QED  BY ONLY PenDown \/ PenUp \/ PenMoves, <1>4, <1>5, <1>6

(* drv_tcs_get_point().                                                    *)
LEMMA PointKeeps ==
  ASSUME TouchInv, drv_tcs_get_point \/ PointTouched \/ PointRead \/ PointEnds
  PROVE  TouchInv'
<1>1. TchType /\ Averaged /\ PointsTaken /\ MarkTouched /\ BurstSteady
  BY ONLY TouchInv DEF TouchInv
<1>2. pen' = pen /\ touched' = touched
  BY DEF drv_tcs_get_point, PointTouched, PointRead, PointEnds
<1>3. /\ Holds(tcs, TchFields) /\ tcs.dif \in Sample /\ tcs.buf \in Seq(Sample)
      /\ tcs.of \in Seq(Sample) /\ tcs.points \in Seq(Sample)
  BY ONLY <1>1 DEF TchType
<1>4. tcs.points = <<>>
  <2>1. tcs.points = <<>>
    BY ONLY drv_tcs_get_point \/ PointTouched \/ PointRead \/ PointEnds, <1>1
       DEF drv_tcs_get_point, PointTouched, PointRead, PointEnds, PointsTaken
  <2> QED  BY ONLY <2>1
<1>5. ASSUME Holds(tcs', TchFields), tcs'.dif \in Sample, tcs'.buf \in Seq(Sample),
             tcs'.of \in Seq(Sample), tcs'.points = <<>>,
             tcs'.at \in {"rest", "point", "pointRead"}, Averaged', BurstSteady'
      PROVE  TouchInv'
  <2>1. Len(tcs'.points) = 0 /\ tcs'.points \in Seq(Sample)
    BY ONLY <1>5
  <2>2. TchType'
    BY ONLY <1>1, <1>2, <1>5, <2>1 DEF TchType
  <2>3. PointsTaken'
    BY ONLY <1>5, <2>1 DEF PointsTaken
  <2>4. MarkTouched'
    BY ONLY <1>5 DEF MarkTouched
  <2> QED  BY ONLY <1>5, <2>2, <2>3, <2>4 DEF TouchInv
<1>6. CASE drv_tcs_get_point
  <2>1. /\ Holds(tcs', TchFields) /\ tcs'.at = "point" /\ tcs'.buf = <<>> /\ tcs'.of = <<>>
        /\ tcs'.dif = tcs.dif /\ tcs'.points = <<>>
    BY ONLY <1>3, <1>4, <1>6 DEF drv_tcs_get_point, Holds, TchFields
  <2>2. Averaged'
    BY ONLY <2>1 DEF Averaged
  <2>3. BurstSteady'
    BY ONLY <2>1 DEF BurstSteady, Steady
  <2>4. tcs'.buf \in Seq(Sample) /\ tcs'.of \in Seq(Sample)
    BY ONLY <2>1
  <2> QED  BY ONLY <1>3, <1>5, <2>1, <2>2, <2>3, <2>4
<1>7. CASE PointTouched
  <2>1. /\ Holds(tcs', TchFields) /\ tcs'.at = "pointRead" /\ tcs.at = "point"
        /\ tcs'.buf = tcs.buf /\ tcs'.of = tcs.of /\ tcs'.ave = tcs.ave
        /\ tcs'.dif = tcs.dif /\ tcs'.points = <<>>
    BY ONLY <1>3, <1>4, <1>7 DEF PointTouched, Holds, TchFields
  <2>2. Averaged'
    BY ONLY <1>1, <2>1 DEF Averaged
  <2>3. BurstSteady'
    BY ONLY <1>1, <2>1 DEF BurstSteady
  <2> QED  BY ONLY <1>3, <1>5, <2>1, <2>2, <2>3
<1>8. CASE PointRead
  <2> DEFINE x == TCS_SPI_Read_Hor
  <2>1. /\ Holds(tcs', TchFields) /\ tcs'.at = "point" /\ tcs.at = "pointRead"
        /\ tcs'.buf = Append(tcs.buf, x) /\ tcs'.of = tcs.of /\ tcs'.ave = tcs.ave
        /\ tcs'.dif = x /\ tcs'.points = <<>>
    BY ONLY <1>3, <1>4, <1>8 DEF PointRead, Holds, TchFields
  <2>2. x \in Reading \/ x = tcs.dif
    <3>1. pen.down => pen.pos \in Positions
      BY ONLY <1>1 DEF TchType
    <3> QED  BY ONLY <3>1, ConvertedIs DEF TCS_SPI_Read_Hor, drv_tcs_get_status_touch
  <2> HIDE DEF x
  <2>3. x \in Sample
    BY ONLY <1>3, <2>2, ReadingIs
  <2>4. Averaged'
    BY ONLY <1>1, <2>1 DEF Averaged
  <2>5. /\ Steady(tcs.buf)
        /\ tcs.dif \in Reading \/ \A i \in 1 .. Len(tcs.buf) : tcs.buf[i] = tcs.dif
    BY ONLY <1>1, <2>1 DEF BurstSteady
  <2> DEFINE n == Len(tcs.buf)
  <2>6. /\ n \in Nat /\ Len(tcs'.buf) = n + 1 /\ tcs'.buf[n + 1] = x
        /\ \A i \in 1 .. n : tcs'.buf[i] = tcs.buf[i]
        /\ tcs'.buf \in Seq(Sample)
    BY ONLY <1>3, <2>1, <2>3, AppendProperties, LenProperties
  <2>7. \A i \in 1 .. n + 1 : i \in 1 .. n \/ i = n + 1
    BY ONLY <2>6
  <2>8. tcs'.dif \in Reading \/ \A i \in 1 .. Len(tcs'.buf) : tcs'.buf[i] = tcs'.dif
    <3>1. CASE x \in Reading
      BY ONLY <2>1, <3>1
    <3>2. CASE x = tcs.dif
      <4>1. CASE \A i \in 1 .. n : tcs.buf[i] = tcs.dif
        <5> HIDE DEF n
        <5> QED  BY ONLY <2>1, <2>6, <2>7, <3>2, <4>1
      <4>2. CASE tcs.dif \in Reading
        BY ONLY <2>1, <3>2, <4>2
      <4> QED  BY ONLY <2>5, <4>1, <4>2
    <3> QED  BY ONLY <2>2, <3>1, <3>2
  <2>9. Steady(tcs'.buf)
    <3> SUFFICES ASSUME NEW i \in 1 .. Len(tcs'.buf)
                 PROVE  tcs'.buf[i] \in Reading \/ \A j \in 1 .. i : tcs'.buf[j] = tcs'.buf[1]
      BY DEF Steady
    <3>1. CASE i \in 1 .. n
      <4>1. tcs.buf[i] \in Reading \/ \A j \in 1 .. i : tcs.buf[j] = tcs.buf[1]
        BY ONLY <2>5, <3>1 DEF Steady
      <4>2. 1 \in 1 .. n /\ \A j \in 1 .. i : j \in 1 .. n
        BY ONLY <2>6, <3>1
      <4> QED  BY ONLY <2>6, <3>1, <4>1, <4>2
    <3>2. CASE i = n + 1
      <4>1. tcs'.dif = x /\ tcs'.buf[i] = x
        BY ONLY <2>1, <2>6, <3>2
      <4>2. \A j \in 1 .. i : j \in 1 .. Len(tcs'.buf)
        BY ONLY <2>6, <3>2
      <4>3. 1 \in 1 .. Len(tcs'.buf)
        BY ONLY <2>6
      <4> QED  BY ONLY <2>8, <4>1, <4>2, <4>3
    <3> QED  BY ONLY i \in 1 .. Len(tcs'.buf), <2>6, <2>7, <3>1, <3>2
  <2>10. BurstSteady'
    BY ONLY <2>8, <2>9 DEF BurstSteady
  <2> QED  BY ONLY <1>3, <1>5, <2>1, <2>3, <2>4, <2>6, <2>10
<1>9. CASE PointEnds
  <2> DEFINE ave == TCS_Average_X_Y(tcs.buf)
  <2>1. CASE Len(tcs.buf) = PointSamples
    <3>1. /\ Holds(tcs', TchFields) /\ tcs'.at = "rest" /\ tcs.at = "point"
          /\ tcs'.buf = tcs.buf /\ tcs'.of = tcs.buf /\ tcs'.ave = ave
          /\ tcs'.dif = ave /\ tcs'.points = <<>>
      BY ONLY <1>3, <1>4, <1>9, <2>1 DEF PointEnds, Holds, TchFields
    <3>2. Steady(tcs.buf)
      BY ONLY <1>1, <3>1 DEF BurstSteady
    <3>3. Len(tcs.buf) >= 4
      BY ONLY <2>1, TouchConstants
    <3>4. ave \in Sample
      BY ONLY <1>3, <3>2, <3>3, AverageIsSample
    <3>5. Averaged'
      BY ONLY <3>1, <3>3, TouchConstants, <2>1 DEF Averaged
    <3>6. BurstSteady'
      BY ONLY <3>1 DEF BurstSteady
    <3> HIDE DEF ave
    <3> QED  BY ONLY <1>3, <1>5, <3>1, <3>4, <3>5, <3>6
  <2>2. CASE Len(tcs.buf) # PointSamples
    <3>1. /\ Holds(tcs', TchFields) /\ tcs'.at = "rest"
          /\ tcs'.buf = tcs.buf /\ tcs'.of = tcs.of /\ tcs'.ave = tcs.ave
          /\ tcs'.dif = tcs.dif /\ tcs'.points = <<>>
      BY ONLY <1>3, <1>4, <1>9, <2>2 DEF PointEnds, Holds, TchFields
    <3>2. Averaged'
      BY ONLY <1>1, <3>1 DEF Averaged
    <3>3. BurstSteady'
      BY ONLY <3>1 DEF BurstSteady
    <3> QED  BY ONLY <1>3, <1>5, <3>1, <3>2, <3>3
  <2> QED  BY ONLY <2>1, <2>2
<1> QED
  BY ONLY drv_tcs_get_point \/ PointTouched \/ PointRead \/ PointEnds, <1>6, <1>7, <1>8, <1>9

-----------------------------------------------------------------------------
(* drv_tcs_calibrate().                                                    *)
LEMMA CalibrationKeeps ==
  ASSUME TouchInv, \/ drv_tcs_calibrate \/ Detects \/ Reads \/ Averages
                   \/ Released \/ Drawn \/ Exits
  PROVE  TouchInv'
<1>1. TchType /\ Averaged /\ PointsTaken /\ MarkTouched /\ BurstSteady
  BY ONLY TouchInv DEF TouchInv
<1>2. pen' = pen /\ touched' = touched
  BY DEF drv_tcs_calibrate, Detects, Reads, Averages, Released, Drawn, Exits
<1>3. /\ Holds(tcs, TchFields) /\ tcs.dif \in Sample /\ tcs.buf \in Seq(Sample)
      /\ tcs.of \in Seq(Sample) /\ tcs.points \in Seq(Sample) /\ Len(tcs.points) \in Nat
  BY ONLY <1>1, LenProperties DEF TchType
<1>5. ASSUME Holds(tcs', TchFields), tcs'.dif = tcs.dif, tcs'.of = tcs.of, tcs'.ave = tcs.ave,
             tcs'.points = tcs.points, tcs'.at \in {"detect", "release", "draw", "exit", "rest"},
             tcs'.buf \in Seq(Sample),
             tcs'.at = "detect" => Len(tcs.points) < 3, tcs'.at = "exit" => Len(tcs.points) = 3,
             tcs'.at \in {"detect", "draw"} => ~pen.down
      PROVE  TouchInv'
  <2>1. TchType'
    BY ONLY <1>1, <1>2, <1>3, <1>5 DEF TchType
  <2>2. Averaged'
    BY ONLY <1>1, <1>5 DEF Averaged
  <2>3. PointsTaken'
    BY ONLY <1>1, <1>2, <1>5 DEF PointsTaken
  <2>4. MarkTouched'
    BY ONLY <1>2, <1>5 DEF MarkTouched
  <2>5. BurstSteady'
    BY ONLY <1>5 DEF BurstSteady
  <2> QED  BY ONLY <2>1, <2>2, <2>3, <2>4, <2>5 DEF TouchInv
<1>6. CASE drv_tcs_calibrate
  <2>1. /\ Holds(tcs', TchFields) /\ tcs'.at = "detect" /\ tcs'.buf = tcs.buf
        /\ tcs'.of = tcs.of /\ tcs'.ave = tcs.ave
        /\ tcs'.dif = tcs.dif /\ tcs'.points = tcs.points
        /\ tcs.points = <<>> /\ ~pen.down
    BY ONLY <1>3, <1>6
       DEF drv_tcs_calibrate, Holds, TchFields, drv_tcs_get_status_touch
  <2>2. Len(tcs.points) < 3
    BY ONLY <2>1
  <2> QED  BY ONLY <1>3, <1>5, <2>1, <2>2
<1>7. CASE Detects
  <2>1. /\ Holds(tcs', TchFields) /\ tcs'.at = "read" /\ tcs'.buf = <<>> /\ tcs.at = "detect"
        /\ tcs'.of = tcs.of /\ tcs'.ave = tcs.ave
        /\ tcs'.dif = tcs.dif /\ tcs'.points = tcs.points /\ pen.down
    BY ONLY <1>3, <1>7 DEF Detects, Holds, TchFields, drv_tcs_get_status_touch
  <2>2. tcs'.buf \in Seq(Sample) /\ Len(tcs'.buf) = 0 /\ \A i \in 1 .. Len(tcs'.buf) : FALSE
    BY ONLY <2>1
  <2>3. TchType'
    BY ONLY <1>1, <1>2, <1>3, <2>1, <2>2 DEF TchType
  <2>4. Averaged'
    BY ONLY <1>1, <2>1 DEF Averaged
  <2>5. PointsTaken'
    BY ONLY <1>1, <1>2, <2>1 DEF PointsTaken
  <2>6. MarkTouched'
    <3>1. pen.pos \in Positions /\ touched[Shown] = {pen.pos}
      BY ONLY <1>1, <2>1 DEF MarkTouched, TchType
    <3>2. Shown' = Shown
      BY ONLY <2>1 DEF Shown
    <3> QED  BY ONLY <1>2, <2>1, <2>2, <3>1, <3>2 DEF MarkTouched
  <2>7. BurstSteady'
    BY ONLY <2>1 DEF BurstSteady
  <2> QED  BY ONLY <2>3, <2>4, <2>5, <2>6, <2>7 DEF TouchInv
<1>8. CASE Reads
  <2> DEFINE x == TCS_SPI_Read_Hor
             n == Len(tcs.buf)
  <2>1. /\ Holds(tcs', TchFields) /\ tcs'.at = "read" /\ tcs.at = "read"
        /\ tcs'.buf = Append(tcs.buf, x)
        /\ tcs'.of = tcs.of /\ tcs'.ave = tcs.ave
        /\ tcs'.dif = x /\ tcs'.points = tcs.points
    BY ONLY <1>3, <1>8 DEF Reads, Holds, TchFields
  <2>2. PICK P \in Positions :
          /\ touched[Shown] = {P} /\ (pen.down => pen.pos = P)
          /\ IF tcs.buf = <<>> THEN pen.down ELSE tcs.dif = Converted(P)
          /\ \A i \in 1 .. Len(tcs.buf) : tcs.buf[i] = Converted(P)
    BY ONLY <1>1, <2>1 DEF MarkTouched
  <2>3. x = Converted(P)
    BY ONLY <2>2 DEF TCS_SPI_Read_Hor, drv_tcs_get_status_touch
  <2> HIDE DEF x
  <2>4. x \in Sample
    BY ONLY <2>3, P \in Positions, ConvertedIs, ReadingIs
  <2>5. /\ n \in Nat /\ Len(tcs'.buf) = n + 1 /\ tcs'.buf[n + 1] = x
        /\ \A i \in 1 .. n : tcs'.buf[i] = tcs.buf[i]
        /\ tcs'.buf \in Seq(Sample)
    BY ONLY <1>3, <2>1, <2>4, AppendProperties, LenProperties
  <2>6. \A i \in 1 .. n + 1 : i \in 1 .. n \/ i = n + 1
    BY ONLY <2>5
  <2>7. \A i \in 1 .. Len(tcs'.buf) : tcs'.buf[i] = Converted(P)
    BY ONLY <2>2, <2>3, <2>5, <2>6
  <2>8. TchType'
    BY ONLY <1>1, <1>2, <1>3, <2>1, <2>4, <2>5 DEF TchType
  <2>9. Averaged'
    BY ONLY <1>1, <2>1 DEF Averaged
  <2>10. PointsTaken'
    BY ONLY <1>1, <1>2, <2>1 DEF PointsTaken
  <2>11. MarkTouched'
    <3>1. Shown' = Shown
      BY ONLY <2>1 DEF Shown
    <3>2. tcs'.buf # <<>>
      BY ONLY <2>5
    <3> QED  BY ONLY <1>2, <2>1, <2>2, <2>3, <2>7, <3>1, <3>2, P \in Positions DEF MarkTouched
  <2>12. BurstSteady'
    BY ONLY <2>1 DEF BurstSteady
  <2> QED  BY ONLY <2>8, <2>9, <2>10, <2>11, <2>12 DEF TouchInv
<1>9. CASE Averages
  <2> DEFINE ave == TCS_Average_X_Y(tcs.buf)
             n == Len(tcs.points)
  <2>1. /\ Holds(tcs', TchFields) /\ tcs'.at = "release" /\ tcs.at = "read"
        /\ tcs'.buf = tcs.buf /\ tcs'.of = tcs.buf /\ tcs'.ave = ave
        /\ tcs'.dif = tcs.dif /\ tcs'.points = Append(tcs.points, ave)
        /\ Len(tcs.buf) = CalSamples
    BY ONLY <1>3, <1>9 DEF Averages, Holds, TchFields
  <2>2. PICK P \in Positions :
          touched[Shown] = {P} /\ \A i \in 1 .. Len(tcs.buf) : tcs.buf[i] = Converted(P)
    BY ONLY <1>1, <2>1 DEF MarkTouched
  <2>3. Len(tcs.buf) >= 3 /\ Converted(P) \in Sample
    BY ONLY <2>1, P \in Positions, ConvertedIs, ReadingIs, TouchConstants
  <2>4. ave = Converted(P)
    BY ONLY <1>3, <2>2, <2>3, AverageSame
  <2>5. Averaged'
    BY ONLY <2>1, <2>3 DEF Averaged
  <2> HIDE DEF ave
  <2>6. /\ n \in Nat /\ n < 3 /\ Shown = n + 1
        /\ Len(tcs'.points) = n + 1 /\ tcs'.points[n + 1] = ave
        /\ \A k \in 1 .. n : tcs'.points[k] = tcs.points[k]
        /\ tcs'.points \in Seq(Sample)
    <3>1. n < 3
      BY ONLY <1>1, <2>1 DEF PointsTaken
    <3> QED  BY ONLY <1>3, <2>1, <2>3, <2>4, <3>1, AppendProperties DEF Shown
  <2>7. TchType'
    BY ONLY <1>1, <1>2, <1>3, <2>1, <2>6 DEF TchType
  <2>8. PointsTaken'
    <3>1. ASSUME NEW k \in 1 .. Len(tcs'.points)
          PROVE  \E pos \in touched'[k] : tcs'.points[k] = Converted(pos)
      <4>1. k \in 1 .. n \/ k = n + 1
        BY ONLY <2>6, <3>1
      <4>2. CASE k \in 1 .. n
        BY ONLY <1>1, <1>2, <2>6, <4>2 DEF PointsTaken
      <4>3. CASE k = n + 1
        BY ONLY <1>2, <2>2, <2>4, <2>6, <4>3
      <4> QED  BY ONLY <4>1, <4>2, <4>3
    <3> QED  BY ONLY <2>1, <3>1 DEF PointsTaken
  <2>9. MarkTouched' /\ BurstSteady'
    BY ONLY <2>1 DEF MarkTouched, BurstSteady
  <2> QED  BY ONLY <2>5, <2>7, <2>8, <2>9 DEF TouchInv
<1>10. CASE Released
  <2>1. /\ Holds(tcs', TchFields) /\ tcs'.at = "draw" /\ tcs'.buf = tcs.buf
        /\ tcs'.of = tcs.of /\ tcs'.ave = tcs.ave
        /\ tcs'.dif = tcs.dif /\ tcs'.points = tcs.points /\ ~pen.down
    BY ONLY <1>3, <1>10 DEF Released, Holds, TchFields, drv_tcs_get_status_touch
  <2> QED  BY ONLY <1>3, <1>5, <2>1
<1>11. CASE Drawn
  <2>1. /\ Holds(tcs', TchFields) /\ tcs'.at = IF Shown <= 3 THEN "detect" ELSE "exit"
        /\ tcs.at = "draw" /\ tcs'.buf = tcs.buf
        /\ tcs'.of = tcs.of /\ tcs'.ave = tcs.ave
        /\ tcs'.dif = tcs.dif /\ tcs'.points = tcs.points
    BY ONLY <1>3, <1>11 DEF Drawn, Holds, TchFields
  <2>2. ~pen.down /\ Len(tcs.points) <= 3 /\ Shown = Len(tcs.points) + 1
    BY ONLY <1>1, <2>1 DEF MarkTouched, TchType, Shown
  <2>3. CASE Shown <= 3
    <3>1. Len(tcs.points) < 3 /\ tcs'.at = "detect"
      BY ONLY <1>3, <2>1, <2>2, <2>3
    <3> QED  BY ONLY <1>3, <1>5, <2>1, <2>2, <3>1
  <2>4. CASE ~(Shown <= 3)
    <3>1. Len(tcs.points) = 3 /\ tcs'.at = "exit"
      <4>1. Len(tcs.points) \in Nat
        BY ONLY <1>3
      <4>2. Len(tcs.points) = 3
        <5>1. \A m \in Nat : m <= 3 /\ ~(m + 1 <= 3) => m = 3
          OBVIOUS
        <5>2. ~(Len(tcs.points) + 1 <= 3)
          BY ONLY <2>2, <2>4, Zenon
        <5> QED  BY ONLY <2>2, <4>1, <5>1, <5>2, Zenon
      <4>3. tcs'.at = "exit"
        BY ONLY <2>1, <2>4
      <4> QED  BY ONLY <4>2, <4>3
    <3> QED  BY ONLY <1>3, <1>5, <2>1, <2>2, <3>1
  <2> QED  BY ONLY <2>3, <2>4
<1>12. CASE Exits
  <2>1. /\ Holds(tcs', TchFields) /\ tcs'.at = "rest" /\ tcs.at = "exit"
        /\ tcs'.buf = tcs.buf /\ tcs'.of = tcs.of /\ tcs'.ave = tcs.ave
        /\ tcs'.dif = tcs.dif /\ tcs'.points = tcs.points
    BY ONLY <1>3, <1>12 DEF Exits, Holds, TchFields
  <2>2. Len(tcs.points) = 3 /\ tcs.points # <<>>
    <3>1. Len(tcs.points) = 3
      BY ONLY <1>1, <2>1 DEF PointsTaken
    <3> QED  BY ONLY <3>1
  <2>3. TchType'
    BY ONLY <1>1, <1>2, <1>3, <2>1 DEF TchType
  <2>4. Averaged'
    BY ONLY <1>1, <2>1 DEF Averaged
  <2>5. PointsTaken'
    BY ONLY <1>1, <1>2, <2>1 DEF PointsTaken
  <2>6. MarkTouched' /\ BurstSteady'
    BY ONLY <2>1, <2>2 DEF MarkTouched, BurstSteady
  <2> QED  BY ONLY <2>3, <2>4, <2>5, <2>6 DEF TouchInv
<1> QED
  BY ONLY drv_tcs_calibrate \/ Detects \/ Reads \/ Averages \/ Released \/ Drawn \/ Exits,
          <1>6, <1>7, <1>8, <1>9, <1>10, <1>11, <1>12

LEMMA TouchStep ==
  ASSUME TouchInv, PenStays, TouchNext \/ UNCHANGED tchVars
  PROVE  TouchInv'
BY PenKeeps, PointKeeps, CalibrationKeeps, TouchStutter DEF TouchNext

LEMMA TouchApart ==
  ASSUME [PartsNext]_partVars
  PROVE  TouchNext \/ UNCHANGED tchVars
<1>1. CASE UNCHANGED partVars
  BY <1>1 DEF partVars
<1>2. CASE PartsNext
  <2>1. CASE OnTouch /\ TouchNext
    BY <2>1
  <2>2. CASE \/ OnHeap \/ OnPartitions \/ OnDisplay \/ OnClock \/ OnPins \/ OnPot \/ OnBuzzer
             \/ OnLeds \/ OnExceptions
    BY <2>2 DEF OnHeap, OnPartitions, OnDisplay, OnClock, OnPins, OnPot, OnBuzzer, OnLeds,
                OnExceptions
  <2> QED  BY <1>2, <2>1, <2>2 DEF PartsNext
<1> QED  BY <1>1, <1>2

(* However the pen comes and goes between two readings, and moves while no *)
(* mark is shown, a touch is the average of its own samples, trimmed but   *)
(* for a first one that alone is the largest, and a calibration takes      *)
(* three touches of its three marks.  The hypothesis is about the user: a  *)
(* touch that a calibration has seen lasts until its first reading.        *)
THEOREM TouchesStayRight ==
  ASSUME PenStays  PROVE PartsSpec => []TouchRight
<1>1. PartsInit => TouchInv
  BY TouchInitial DEF PartsInit
<1>2. TouchInv /\ [PartsNext]_partVars => TouchInv'
  BY PenStays, TouchApart, TouchStep
<1>3. TouchInv => TouchRight
  BY TouchImplies
<1> QED  BY <1>1, <1>2, <1>3, PTL DEF PartsSpec
=============================================================================
