------------------------------ MODULE CoParts ------------------------------
(***************************************************************************)
(* The parts of the system beside the kernel's scheduler and services: the *)
(* two memory services, the display with the log console, the touch        *)
(* screen, the LEDs, the exceptions, and the board: from reset through     *)
(* SystemInit() to the loads of all drivers with the potentiometer in use, *)
(* or to the buzzer.  The parts in Part share no state, but for the clock: *)
(* an execution is about one of them.                                      *)
(***************************************************************************)
EXTENDS CoHeap, CoMm, MdwLog, DrvTch, DrvPins, DrvBuzz, DrvPot, DrvLed,
        LpcNvic

VARIABLE part

Part == {"heap", "partitions", "display", "touch", "leds", "exceptions", "board", "buzzer"}

heapVars    == <<heap, held>>
displayVars == <<lcdVars, logVars>>
boardVars   == <<pinVars, potVars>>
soundVars   == <<timerVars, buzzVars>>
stillVars   == <<ledVars, excVars>>

partVars == <<heapVars, mmVars, displayVars, tchVars, clockVars, boardVars, soundVars,
              stillVars, part>>

PartsTypeOK == HeapTypeOK /\ MmTypeOK /\ LedTypeOK /\ part \in Part

PartsInit ==
  /\ HeapInit /\ MmInit /\ LogInit /\ TouchInit
  /\ ClockInit /\ PinsInit /\ PotInit /\ TimerInit /\ BuzzInit /\ LedInit /\ NvicInit
  /\ part \in Part

OnHeap ==
  /\ part = "heap"
  /\ UNCHANGED <<mmVars, displayVars, tchVars, clockVars, boardVars, soundVars, stillVars, part>>

OnPartitions ==
  /\ part = "partitions"
  /\ UNCHANGED <<heapVars, displayVars, tchVars, clockVars, boardVars, soundVars, stillVars,
                 part>>

OnDisplay ==
  /\ part = "display"
  /\ UNCHANGED <<heapVars, mmVars, tchVars, clockVars, boardVars, soundVars, stillVars, part>>

OnTouch ==
  /\ part = "touch"
  /\ UNCHANGED <<heapVars, mmVars, displayVars, clockVars, boardVars, soundVars, stillVars, part>>

OnClock ==
  /\ part \in {"board", "buzzer"}
  /\ UNCHANGED <<heapVars, mmVars, displayVars, tchVars, boardVars, soundVars, stillVars, part>>

OnPins ==
  /\ part = "board"
  /\ UNCHANGED <<heapVars, mmVars, displayVars, tchVars, potVars, soundVars, stillVars, part>>

OnPot ==
  /\ part = "board"
  /\ UNCHANGED <<heapVars, mmVars, displayVars, tchVars, pinVars, soundVars, stillVars, part>>

OnBuzzer ==
  /\ part = "buzzer"
  /\ UNCHANGED <<heapVars, mmVars, displayVars, tchVars, boardVars, stillVars, part>>

OnLeds ==
  /\ part = "leds"
  /\ UNCHANGED <<heapVars, mmVars, displayVars, tchVars, clockVars, boardVars, soundVars, excVars,
                 part>>

OnExceptions ==
  /\ part = "exceptions"
  /\ UNCHANGED <<heapVars, mmVars, displayVars, tchVars, clockVars, boardVars, soundVars, ledVars,
                 part>>

PartsNext ==
  \/ OnHeap /\ \E n \in Requests : CoKmalloc(n)
  \/ OnHeap /\ \E b \in held : CoKfree(b)
  \/ OnHeap /\ \E b \in held : Write(b)
  \/ OnPartitions /\ \E t \in Creators, a \in Areas : CoCreateMemPartition(t, a)
  \/ OnPartitions /\ \E t \in Creators, i \in Mm : CoDelMemoryPartition(t, i)
  \/ OnPartitions /\ \E t \in Users : Fills(t)
  \/ OnPartitions /\ \E t \in Users : Clears(t)
  \/ OnPartitions /\ \E t \in Users, i \in Mm : CoGetMemoryBuffer(t, i)
  \/ OnPartitions /\ \E t \in Users : GetsBlock(t)
  \/ OnPartitions /\
       \E t, u \in Users : \E c \in has.blocks[u] : CoFreeMemoryBuffer(t, u, c[1], c[2])
  \/ OnDisplay /\ LogNext
  \/ OnTouch /\ TouchNext
  \/ OnClock /\ ClockNext
  \/ OnPins /\ PinsNext
  \/ OnPot /\ PotNext
  \/ OnBuzzer /\ BuzzNext
  \/ OnLeds /\ LedNext
  \/ OnExceptions /\ NvicNext

PartsSpec == PartsInit /\ [][PartsNext]_partVars
=============================================================================
