# A TLA+ model of the CooCox CoOS kernel and its demo board

The repository is CoOS 1.1.4, a preemptive kernel for Cortex-M3, configured for
an LPC1768 board and linked with drivers and a small demonstration program. This
directory holds TLA+ modules translated from the C code, the TLC configurations
that check them on small instances, and the proofs that TLAPS checks for all
instances. `PROJECT.json` maps every definition to the lines it stands for.

## 1. Inventory of the system

| Component | State | Operations | Interacts through |
|---|---|---|---|
| Scheduler and lock: `core.c`, `task.c` `Schedule()`, `port.c`, `arch.c` | `TCBRdy`, `TCBRunning`, `TCBNext`, `OSSchedLock`, `OSIntNesting`, `TaskSchedReq`, `OSTickCnt`, `OSCheckTime`, the PendSV pending bit | `OsSchedLock/Unlock`, `CoSchedLock/Unlock`, `CoEnterISR/ExitISR`, `Schedule`, `SysTick_Handler`, `PendSV_Handler` | everything: each service is a locked section that ends in `OsSchedUnlock()` |
| Tasks: `task.c` | `TCBTbl`, `FreeTCB`, each TCB's `state` and `prio` | create, delete, exit, suspend, awake, set priority | READY list, and the waiting lists for tasks that wait |
| Delay list: `time.c` | `DlyList`, `delayTick`, `TimeReq` | `CoTickDelay`, `CoTimeDelay`, `CoResetTaskDelayTick`, `TimeDispose` | the tick; timeouts of all blocking services |
| Service requests: `serviceReq.c` | ring `ServiceReq`, `IsrReq`, `TimeReq`, `TimerReq` | `InsertInSRQ`, `RespondSRQ` | written by interrupts, drained by `OsSchedUnlock()` |
| Events: `event.c` | `EventTbl`, `FreeEventList`, waiting lists (`eventTCBList`, `waitNext`, `waitPrev`, `eventID`) | `CreatEvent`, `DeleteEvent`, `EventTaskToWait`, `EventTaskToRdy`, `RemoveEventWaittingList` | semaphores, mailboxes, queues |
| Semaphores: `sem.c` | `eventCounter`, `initialEventCounter`, `pmail` | create, delete, accept, pend, post, `isr_PostSem` | events, delay list, service requests |
| Mailboxes, queues: `mbox.c`, `queue.c` | `eventPtr`, `QueueTbl`, `QueueIDVessel` | the same with a message | the same |
| Mutexes: `mutex.c` | `MutexTbl`, owner's `prio` and `mutexID` | enter, leave, `RemoveMutexList` | READY list (priority inheritance), `CoSetPriority`, `CoDelTask` |
| Flags: `flag.c` | `FlagCrl`, wait nodes on the stacks | create, delete, wait for one or several, accept, set, clear, `isr_SetFlag` | delay list, service requests |
| Timers: `timer.c` | `TmrTbl`, `TmrIDVessel`, `TmrList`, `TimerReq` | create, start, stop, set, delete, `TmrDispose` | the tick, callbacks that post |
| Heap and partitions: `kernelHeap.c`, `mm.c` | lists of blocks | allocate, free; create, delete | the scheduler lock |
| Exceptions: vector table, `core_cm3.h`, `OsArch.h` | enabled, pending, priority, active | enable, disable, set priority | which handler may interrupt which |
| Clock: `system_LPC17xx.c`, `lpc17xx_clkpwr.c` | `LPC_SC` registers, `SystemCoreClock` | `SystemInit`, power and dividers | all drivers |
| Button and buzzer, potentiometer: `drv_userInt.c`, `drv_buzz.c`, `drv_pot.c`, timer and converter libraries | registers, `TmrCounter`, `irqNum`, `adcValue` | load, open, start, stop, read, handlers | interrupts, a flag of the kernel |
| Display, console, touch screen: `drv_lcd.c`, `mdw_log_debug.c`, `drv_tch.c` | the controller's registers and memory, the line, the calibration | drawing calls, messages, points | SPI buses; two tasks draw |
| Demo: `main.c`, `drv_led.c` | LED configuration, `iter` | `main_task`, `led_task`, `log_touch_task` | delays, the flag of the potentiometer, creation and deletion of `led_task` |

What is hard in the kernel is the number of contexts. A task thread may be
interrupted anywhere by SysTick (which counts, wakes tasks and asks for a
switch), by device interrupts (which post, or queue a request when the scheduler
is locked) and, through the pending bit, by PendSV (which switches tasks and
stores 0 into the lock). The lock is a plain byte that all of them change; a
check made before it is taken, or after it is released, may be stale when it is
used. In the drivers it is what one call leaves behind for the next: registers
shared by all drivers, static variables, hardware that is ready in its own time.
`"hazards"` in `PROJECT.json` lists each such place with its line and the
properties that would notice it going wrong.

What makes each component correct: the READY list holds exactly the ready tasks
in order and the most urgent task runs; a locked section keeps the processor;
every task that blocks is in exactly the lists that can wake it; permits, mails
and requests are neither lost nor made up, and served in order; no wait ends
early and every timed one ends; timers expire when they are due; priorities lent
for a mutex are taken back; blocks of memory have one owner at a time; drivers
do not disturb each other and show, return and sound what they were asked for.

## 2. Modules

| Module | What it is |
|---|---|
| `CoKernel` | the kernel globals as one record `k`; the C functions of the scheduler as operators from record to record |
| `CoSched`, `MCSched`, `MCSchedOrder` | the tasks' calls, the tick, PendSV and device handlers as processes over `k` (`core.c`, `task.c`, `arch.c`, `port.c`) |
| `CoKernelProofs`, `CoSchedProofs`, `CoReadyProofs` | lemmas about the operators; the theorems about `CoSched`: types and lock; READY list and order |
| `CoEvent` | record `s` around `k`: waiting lists as pointers, delta list, request ring (`event.c`, `time.c`, `serviceReq.c`) |
| `CoService` | what posting, setting, expiring and serving do under the lock, for all services |
| `CoThread` | the contexts that run the services: tasks, tick, devices, `OsSchedUnlock()`, delays |
| `CoSem`, `CoMail`, `CoFlag`, `CoTimer`, `CoEcb` | one after the other, each extending the one before: semaphores, mailboxes and queues, flags, timers, creation and deletion of events |
| `CoSystem` | their composition: the next-state relation and the fairness |
| `CoRecordProofs`, `CoServiceProofs` | what the operators of `CoEvent` and `CoService` keep of the record `s`; the threads, and the theorems about `CoSystem` |
| `CoDemo`, `MCServices`, `MCServicesRace` | the demo's calls; applications that keep the usage rules, and that break one each |
| `CoFifo` | the bounded FIFO queue that the request ring and the queues of mails promise to be |
| `CoMutex`, `MCMutex` | mutexes and the deletion of their users, on top of `CoSem` (`mutex.c`, `CoDelTask`) |
| `CoLock` | the lock with a FIFO queue that a mutex promises to be |
| `CoHeap`, `CoMm` | the kernel heap, the memory partitions |
| `LpcNvic` | exceptions, priorities, handlers |
| `LpcClock`, `DrvPins` | `SystemInit()` and power; what the drivers' loads do to pins, ports and power |
| `LpcTimer`, `DrvBuzz` | timer library and buzzer |
| `LpcAdc`, `DrvPot` | converter library and potentiometer |
| `DrvLcd`, `MdwLog`, `DrvTch`, `DrvLed` | display, console, touch screen, LEDs |
| `CoParts`, `MCParts`, `MCPartsRules` | the composition of these parts; model values; the rules of `parts` |
| `CoBoardProofs`, `CoMemoryProofs`, `CoPartsProofs` | the invariants of exceptions, LEDs, clock, drivers' set-up, potentiometer and buzzer; those of heap and partitions; that of the touch screen and the theorems about `CoParts` |

### The kernel

A function that runs with the scheduler locked, or in an interrupt that nothing
of interest preempts, is one operator on the record, composed of those it calls
in the order it calls them. A thread is cut into several actions where another
context can see or change what it works on:

* inside `OsSchedUnlock()`: after the test of the lock, between `Schedule()`
  and the store of 0, and at each turn of `RespondSRQ()`;
* between a check made without the lock and the section that relies on it
  (`CallSuspend`/`CoSuspendTask`, `CoPendSem`/`PendBlocks`, the tests of the
  posts, the look at a timer's state, the look at a list of waiters);
* at loads and stores of shared words without the lock (`CoAcceptSem`,
  `CoSetFlag`, `CoClearFlag`, `CoStartTmr`, the marks and the contents of control
  blocks in `CoDelQueue`, `CoCreateTmr` and `CoDelTmr`). The stores into one control
  block in a row are one step.

`pc[t].at` says at which cut a thread stands and `pc[t].ret` where it goes on
after the unlock it is in; `Runs(t, at)` is true if it has the processor and no
exception of the kernel is pending or active. PendSV and SysTick have equal and
lowest priority, so neither interrupts the other; device handlers may come at
any step and are one step each, since they share one priority. `LpcNvic` is about
what these two sentences rely on. The assembler of `PendSV_Handler()` is one
step: a device handler inside it either finds `TCBRunning # TCBNext` and does
not schedule, as before the step, or finds them equal, as after it. The round
robin deadline is kept as the distance `robin` = `OSCheckTime - OSTickCnt`,
cut off at -1 since the code asks only whether it is zero or negative. READY and
delay lists, which share the links `TCBnext`/`TCBprev`, are sequences; waiting
lists and the list of timers keep their pointers, because removal by an
element's own links is where they could break. The nodes of tasks that wait for
flags are on their stacks: the list of nodes is a sequence of tasks. A mail is
one of a small set; a sender does not reuse it before it was received.

**Mutexes.** `CoMutex` extends `CoSem` and adds the record `mx`, which is
`MutexTbl` with `mutexID` and the list links of the TCBs, so that an owner may be
delayed, wait for a semaphore or be interrupted by all that `CoSem` has when it
is promoted. Enter and leave are one locked section each (the nested
`OsSchedUnlock()` of the `CoSetPriority()` they call only counts down), and
`CoDelTask()` is cut between its checks, its `CoLeaveMutexSection()` and its own
section. A call that would go on with `MutexTbl[INVALID_ID]`, or with links that
lead out of the mutex's list, stops at the place `"wild"`: the memory it would
then change is not modelled, that it gets there is what `NoWildCall` is about.
A task uses one mutex (`MutexAssumption`), since the TCB records only the last. A task
that was deleted is `gone` for the lock that `CoLock` describes: it has to be neither
owner nor in the queue.

**Applications and usage rules.** The kernel is open: any task may call
anything. The constants `Setup` and `Calls` give for each application its tasks,
objects and calls. Several kernel functions check first and lock later, so
some properties hold only for disciplined callers. The discipline is stated as
operators, each with its reason in a comment, and assumed by the MC modules:

| Rule | What an application keeps to |
|---|---|
| `SingleOwner` (CoSched) | a task is suspended, deleted and reprioritised by one task, awoken by one, and not deleted while it creates a task; ids are those that `CoCreateTask` returned |
| `SetsOwnPriority` (CoSched) | a task changes its own priority only |
| `OnePoster`, `AcceptAlone`, `LocksAreLocks` (CoSem) | a semaphore that is not a lock has one poster; one that is accepted has one user; no interrupt posts a lock |
| `MailRules` (CoMail) | a mailbox has one task that posts, or devices with one mail; a queue one task that posts, or room for all |
| `FlagRules` (CoFlag) | flags are set and cleared by one task that no user preempts, or by interrupts only; a flag somebody awaits together with others is not deleted |
| `TimerRules` (CoTimer) | one task controls a timer, and all of them if it creates any; it stops and deletes periodic ones only, sets a timer before it starts it again and not while it runs; no count is 0 |
| `EcbRules` (CoEcb) | an event is deleted by one task, with at most one task pending, which is more urgent than the deleter, and no mails in it; queues find an ECB, and who deletes them is more urgent than the others who create or delete |
| `RenewRules` (CoThread) | the delay of another task is renewed inside a `CoSchedLock()` section, and ended only if it is a plain delay |
| `MutexAssumption` (CoMutex) | one mutex per task (in `mutex_pair`, moreover, the task that deletes is more urgent than those at the mutex) |
| `OneCreator`, `GettersFirst` (CoMm) | one task creates and deletes partitions, and is less urgent than all others that use them |
| `OneDrawer` (DrvLcd) | a task draws only when no other call is under way |
| `PenStays` (DrvTch) | a touch that a calibration has detected lasts until its first reading |

What a rule is for is shown by `sched_prio`, which breaks `SetsOwnPriority`, by
`mutex_restore` and `mutex_links`, which have more waiters than `mutex_pair`, and by the
variants of runs that section 5 lists, each of which breaks one rule.

So the properties about mails, flags, timers and partitions do not say that the kernel
loses none, but that it loses none of an application that keeps to the rules. The demo
obeys the rules of the kernel (only `main_task` creates and deletes tasks, nobody sets
priorities, one task waits for the one flag, which one interrupt sets), and breaks
`OneDrawer`: `main_task` and `log_touch_task` both draw.

### The board

The parts in `CoParts` share no state but the clock and power registers, so an
execution is about one part, chosen at the start by the variable `part`; only
`"board"` and `"buzzer"` combine several modules: the clock from reset on, all
drivers' loads and the potentiometer, or the buzzer with its timer. The
hardware is what the code relies on: a PLL locks at any time after it was
enabled, a conversion ends, a counter counts, the pen comes, moves and goes.
Rates are in units of 64 Hz, for TLC's integers have 32 bits.

* `LpcClock`: `SystemInit()` as its list of writes, feeds and waits; `sc` is
  `LPC_SC` with the PLLs in effect.
* `DrvPins`: a bank of two-bit fields is a function of the pin, a mask a set of
  pins; each driver's load and unload is an action.
* `DrvBuzz`: `drv_buzz_generateStart()` and `Stop()` cut at each access that the
  timer's interrupt can see. A tone is stopped before the next one.
* `DrvPot`: `drv_pot_getValue()` cut between the start of the conversion, the
  enabling of the interrupt and the wait; one task uses it. Values are `"fresh"` or `"stale"`.
* `DrvLcd`: `lcd` is the controller with its address, window, entry mode and
  frame; a drawing call is the sequence of commands and data it sends. `wanted` is the picture
  that the calls were meant to paint, without addresses and loops: a line is painted with both
  of its ends. A call may be left after as many writes as a member of `Cuts` says, and goes on
  later; a run of equal points that the controller's own address makes is one write.
* `MdwLog`: opening of the console (one step, while the display is dark: nobody touches it
  before), messages, the answers of `log_touch_task`.
* `DrvTch`: the test for a touch and the reading that tests again, the trimmed average, the
  coordinates in words of twice `WordBits` bits from coefficients of `WordBits` bits, and the
  calibration. The pen comes and goes between any two steps. While a mark is shown it does not
  move, and touches one place of each mark; that is asked of the user. That it does not
  lift before the first reading is the rule `PenStays`.
* `DrvLed`: `led_task` of the start-up, its deletion at any step, the second `led_task` that
  inherits the static `iter`; time is left out, a delay ends at any later time.
* `LpcNvic`: who is enabled, pending and active, with the priorities that
  `CoInitOS()` and the drivers set. Drivers are opened after `CoInitOS()`.
* `CoHeap`: the heap is words that hold the code's own pointers; a used block is the
  negative of its address. `CoMm`: ids are taken in a section, control blocks
  and links written after it, as in the code.

## 3. Runs

| Run | Configuration | Bounds | Result |
|---|---|---|---|
| `sched_safety` | `MCSched.cfg` | 3 user tasks, 3 priorities, slice of 2 ticks, one nested section | 172 899 states, holds |
| `sched_order` | `MCSchedOrder.cfg` | 4 user tasks, 3 priorities, slice of 1 tick; two tasks set their own priority | 1 329 576 states, holds |
| `sched_prio` | `MCSchedPrio.cfg` | 5 user tasks, 3 priorities; a task sets the priority of another | violated: see Findings |
| `sched_robin` | `MCSchedRobin.cfg` | 2 tasks of one priority | violated: see Findings |
| `services_safety` | `MCServices.cfg` | 15 applications of 2 or 3 tasks, ring of 1 request, queues of 2 mails, 3 flags, 2 timers | about 640 000 states, holds |
| `services_live` | `MCServicesLive.cfg` | 2 applications of 2 tasks with delays, a device and a timer, ring of 2 requests, with fairness | about 27 000 states, holds |
| `sem_lost` | `MCServicesLost.cfg` | one waiter, one posting interrupt | violated: see Findings |
| `mutex_safety` | `MCMutex.cfg` | 3 tasks of different priority at one mutex, two of which also wait for a semaphore by priority | about 900 000 states, holds |
| `mutex_pair` | `MCMutexPair.cfg` | 2 tasks at a mutex, one in between, one above that deletes, with fairness | about 138 000 states, holds |
| `mutex_restore` | `MCMutexRestore.cfg` | 3 tasks at one mutex | violated: see Findings |
| `mutex_links` | `MCMutexLinks.cfg` | 3 tasks at one mutex, one above deletes a waiter | violated: see Findings |
| `parts` | `MCPartsRules.cfg` | heap of 12 words, 2 areas of 2 blocks, 3 users of partitions, display of 24 by 40 points, 2 drawing calls, each left once, 3 messages, 3 pen positions, 3 tones | 226 324 states, holds |

What the properties say:

* **Scheduler.** `ReadyListSound` (the lists and the states agree; no TCB is lost or in two lists), `RightTaskRuns` (a call
  that blocks does not come back before the task is switched off, and the most urgent
  task runs), `LockAccounting` (the lock byte covers all open sections, although
  three contexts store 0 into it), `LockKeepsProcessor` (no switch and no reset
  inside a section), `FifoWithinPrio`, `UrgentRuns`.
* **Waiting.** `ListsSound` (waiting lists consistent in both directions; delay
  list, list of nodes, READY list and states agree), `WaitsDecided` (a call
  returns only when its wait is over), `DelaysKept` (no wait ends early, a renewed one
  is as long as asked), `DelaysEnd`.
* **Semaphores.** `PermitsConserved` (a permit is in the counter, with a woken task or
  reported), `Exclusion`.
* **Mails.** `MailConserved` (each in one place), `MailsAreFifo` (a queue implements `CoFifo`).
* **Flags.** `NoFlagOverlooked` (nobody waits for flags that are set), `FlagsStay` (a woken
  task finds what it was woken for).
* **Timers.** `TimersSound` (list, states, links and counts agree), `TimersKept` (none
  expires early; late only by the ticks at which the first timer of the list already stands
  at 0 in a locked section: `SysTick_Handler()` counts down the first timer only, and not below 0),
  `TimersFire`.
* **Control blocks.** `EcbsConserved` (each is free, used, or in the hands of one call; that of
  a queue is marked exactly then, and is filled in while its queue exists).
* **Requests.** `RequestsServed`, and `SrqIsFifo`: the ring implements `CoFifo`, into which
  several items may come in one step: two timers that expire in one tick queue two requests.
  The runs have one timer where they check it; the theorem covers the rest.
* **Mutexes.** `MutexIsLock` (`mx` implements `CoLock`: one owner, hand-over in order of
  arrival, and a task that is deleted leaves, as the owner or from the queue). `mutex_safety`
  has three tasks that only exit by themselves, `mutex_pair` two with deletions from outside,
  so with one waiter at most; with two waiters it is violated (section 5). `NoInversion` (no owner less urgent than a waiter),
  `PriorityExact` (a priority is raised for a present waiter only; true for two tasks at a
  mutex, false for three), `MutexListsSound`, `NoWildCall`, `MutexServes` (a task of a
  priority in between that never stops does not keep a waiter waiting).
* **Memory.** `HeapSound` (the blocks tile the heap, the free ones are listed in order and
  merged, all links agree), `BuffersKept` (nothing writes into somebody's buffer),
  `PartitionsSound` (each block is free or with one task).
* **Board.** `CpuClocked` (nothing runs on an unlocked PLL or too fast; `SystemCoreClock` is
  the rate), `PotFresh` (a value belongs to
  the call that returns it, and no call sleeps for ever), `ToneAlive` (a tone does not die),
  `ScreenShows` (the display shows what was asked for whenever no call is under way),
  `TouchRight` (an average is of its own samples, trimmed but for a first one that alone is the
  largest, and the points of a calibration are of touches of their marks), `LightsRight` (the LEDs show a running
  light, then a bar), `InterruptsNest` (the nesting that the kernel's modules rely on).

Why the bounds are enough: in the application `trio` three tasks wait for one semaphore,
so the waiting list has a head, a middle and a tail, and removals by timeouts and posts reach
each; in `ring` a device and a task post at one queue; a ring of one is full
half of the time and a ring of two wraps; a queue of two mails is empty, half full
and full; two timers or two delayed tasks are before, at and behind each other;
two delays suffice for a tick between `TimeDispose()` and the reset of `TimeReq`;
priorities matter only by comparison, and three of them are what `sched_prio` needs to
put a list out of order for good. Twelve words are a heap of three small
blocks or one large one, with rests too small to be blocks. The arguments of the
drawing calls include the edges of the display, flat lines both ways (steep ones are in
section 5) and a text over
another. All counters of the kernel's models are bounded by what the code does (semaphores
by their maximum, nesting by `MaxSect`), so no state constraint is used. `CHECK_DEADLOCK`
stays on there: the tick is always possible. It is off in `MCParts`: the numbers
of drawing calls, messages and flags are bounded by constants (`MaxCalls`, `MaxLogged`,
`MaxPotFlags`), and `drv_pot_getValue()` stops for good when no flag is left.

**Fairness.** `Fairness` asks that a pending PendSV is taken, the tick never stops,
handlers end, and a call of a thread in the kernel goes on if it can again and again
(strong fairness, because each tick disables it for a moment). The loop of `RespondSRQ()`
is asked to end if it finds the queue empty infinitely often, and `DelaysEnd`,
`TimersFire` and `UrgentRuns` are conditional on the devices letting the queue run
empty: a device that interrupts faster than the loop turns would hold the kernel there.
`MutexServes` assumes less: that some thread in a kernel section advances again and
again, and that a task that runs leaves its mutex section. No task is obliged to make a
call and no device to interrupt; only sections entered by `CoSchedLock()` or
`CoEnterMutexSection()` must be left.

Each property of a passing run has a mutant in `PROJECT.json`: a variant of a
modelled function (defined just before it and marked *Mutant*) with a plausible
bug that TLC then reports.

## 4. Proofs

TLAPS checks the following for all values of the constants that satisfy the assumptions
named in the modules; where a theorem needs a usage rule, the rule is its hypothesis.

| Theorem | Module | Under |
|---|---|---|
| `TypeCorrect == Spec => []TypeOK` | `CoSchedProofs` | |
| `AccountsCorrect == Spec => []LockAccounting` | `CoSchedProofs` | |
| `LockedTaskKeepsProcessor == Spec => LockKeepsProcessor` | `CoSchedProofs` | |
| `ReadyListCorrect == Spec => []ReadyListSound` | `CoReadyProofs` | `SingleOwner` |
| `RightTaskAlwaysRuns == Spec => []RightTaskRuns` | `CoReadyProofs` | `SingleOwner`, `SetsOwnPriority` |
| `TurnsAreKept == Spec => FifoWithinPrio` | `CoReadyProofs` | the same |
| `ListsStaySound == Spec => []ListsSound` | `CoServiceProofs` | `StaticEvents`, `RenewRules` |
| `WaitsAreDecided == Spec => []WaitsDecided` | `CoServiceProofs` | the same |
| `PermitsStayConserved == Spec => [](PermitsConserved /\ CounterInRange)` | `CoServiceProofs` | the same and `Disciplined` |
| `LocksExclude == Spec => []Exclusion` | `CoServiceProofs` | the same and `Disciplined` |
| `RequestsStayInOrder == Spec => SrqIsFifo` | `CoServiceProofs` | `StaticEvents`, `RenewRules` |
| `DelaysStayKept == Spec => DelaysKept` | `CoServiceProofs` | the same |
| `NestingHolds == PartsSpec => []InterruptsNest` | `CoPartsProofs` | |
| `LightsStayRight == PartsSpec => []LightsRight` | `CoPartsProofs` | |
| `CpuStaysClocked == PartsSpec => []CpuClocked` | `CoPartsProofs` | |
| `SetupStays == PartsSpec => []SetupKept` (no driver disturbs a loaded one) | `CoPartsProofs` | |
| `PotStaysFresh == PartsSpec => []PotFresh` | `CoPartsProofs` | |
| `TonesStayAlive == PartsSpec => []ToneAlive` | `CoPartsProofs` | |
| `HeapStaysSound == PartsSpec => []HeapSound` | `CoPartsProofs` | |
| `BuffersStay == PartsSpec => BuffersKept` | `CoPartsProofs` | |
| `PartitionsStaySound == PartsSpec => []PartitionsSound` | `CoPartsProofs` | `OneCreator`, `GettersFirst` |
| `TouchesStayRight == PartsSpec => []TouchRight` | `CoPartsProofs` | `PenStays` |

**The lock.** `TypeOK` alone is not inductive: `OSSchedLock - 1` stays in `Nat` only because
the context at its unlock is counted in the lock. The inductive invariant `LockInv` is `TypeOK`
with `LockAccounting` and what supports it: the lock covers the open sections of
the running task and of the tick; tasks off the processor have none open; a switch
is pending, or the tick at its release, only with no section open.
`CoKernelProofs` states what `Schedule()` and the list operators do to types,
to the lock and to `TCBRunning`, so that each action needs a few facts only.
No usage rule is assumed: these theorems hold for undisciplined applications too.

**The READY list.** `ReadyListSound` says where each TCB is, but not why a call may do what it
does to it. The invariant `ReadyInv` adds that the states of the tasks agree with where their
threads are: a task at a call is `RUNNING`, one that has blocked itself is inside its
`OsSchedUnlock()` with a schedule requested, the task in the hands of a creator is in no list,
and the test that a suspension or a deletion was based on still holds when it takes the lock.
The last is where `SingleOwner` is needed.

**Order.** `TurnInv` says that the READY list is sorted except between the store of a new
priority and the repair of the list, and that the running task is at most as urgent as the
head only while a schedule is requested. It needs one rule more than `ReadyListSound`:
`CoSetPriority()` stores the priority of another, ready task before it takes the lock
(`task.c:632`), and a task that becomes ready in between is inserted into a list that is not
sorted (`sched_prio`). So `SetsOwnPriority` is a hypothesis, as it is of `sched_order`: tasks
change their own priority only.

**The services.** `ListsSound` says what the lists hold, but not why a step that takes a task
out of one finds it there. The invariant is `SystemInv`. Its first part, `Right`, is about the
record `s` alone: for each waiting list there is a sequence that the links follow in both
directions (`Chained`), the other lists are sequences without repetitions that hold the tasks
whose TCBs say so, a task is `WAITING` if and only if it is in one of them, a waiter has
nothing in its hands and waits for the event of its call (`WaitersRight`), the cells of a ring
that are in use hold mails or requests, and the permits in the counter and with the woken tasks
are the balance. `CoRecordProofs` has a lemma for each operator that says which part it changes
and that it keeps `Right` for all tasks but those it is in the midst of (the third argument of
`Right`).
The recursive ones (`TimeDispose`, `TmrDispose`, `WakeSatisfied`, `Those`) are done by the least
turn at which the invariant would break. The second part ties the record to the threads:
`LocksRight` counts the sections that the lock stands for, `RunningRight` says that the running
task is off the processor's list only inside its own `OsSchedUnlock()`, and `CallRight` what a
task has in its hands at its place in a call: a pointer to a node or an event only while it
waits, a mail or a permit if its endless wait is over. The third part, `PermitCall` and
`LocksKept`, is needed for the permits and holds under `Disciplined` only: what a post or an
accept has checked before its section still holds when it acts. A step concerns the
running task or an exception; `Apart` says once what it leaves to all the others, so that
each of the 60 actions has a lemma about its own task. TLC checked `SystemInv` as an invariant
of the applications of `MCServices` that obey the rules.

**The requests.** `RequestsStayInOrder` maps the ring to its contents, oldest first, and each
step to one of `CoFifo` or to none (`RingIsQueue`). All calls leave the ring alone (`Still`); a
request that comes in leaves those before it where they are, for cells less than a turn apart
are different (`CellsApart`), and so does the tick, however many timers expire (`Grows`); a turn
of `RespondSRQ()` takes the oldest (`OneServed`, `NextCell`), and an interrupt that finds the
scheduler unlocked leaves the ring empty.

**The delays.** The list stores differences, so what a task still has to wait is a sum over its
predecessors (`Due`), which a recursive function computes. `DueIs` says that only one function
adds the list up; so it is enough to name the sums of the list after an insertion
(`TicksMore`), a removal (`TicksLess`) or a tick (`TicksDown`) in terms of those before.
`InsertPlace` finds where `InsertDelayList()` stops. Serving requests and timeouts ends delays
only in due course (`DelaysServed`, part of what `Serves` says of each helper), most other steps
leave the delays alone (`Leaves`), and only two places of the `pc` matter to the property, that
of the tick and that of a renewal (`Calm`).

The hypotheses: `StaticEvents` (the events are those that `main()` creates before
`CoStartOS()`, as in the demo, so nobody deletes or creates one while others wait; applications
that do are only model-checked), `RenewRules`, and for the permits `Disciplined`, which is
`OnePoster`, `AcceptAlone`, `LocksAreLocks` and that locks are semaphores that `main()` made.

**The board.** `PartsApart` (`CoPartsProofs`) says which steps may change the variables of a
part; `CoBoardProofs` has one inductive invariant for each. `NestInv`: before `CoInitOS()` is
done nothing but the tick can come; afterwards the kernel's two exceptions have the lowest
priority and every enabled or active device the drivers' one, so at most two are stacked.
`LedInv`: what `led_task` shows at each place of its loop, and that `iter` comes back into its
range within a turn. `PotInv`: the converter, the interrupt's enable bit and the flag agree
about where a conversion is. `SoundInv`: the count of matches and the timer's registers at each
place of the calls. Start and stop rest on the clock only in that nobody takes power away from
what is on (`ClockKeepsPower`, `PinsKeepPower`).
`ClockInv`: each register and PLL holds what the step of `SystemInit()` says, and what was
waited for is ready (`StepsAre` lists the 25 steps); a driver changes power and dividers only.
`PinsInv`: a load writes none of the pins and dividers of another driver (`DriversApart`,
`OthersStand`). It needs two facts that the code does not state: P3.26 keeps the function of
after reset, because the buzzer's load masks other pins, and the display's divider is 0 or
already 2, because its load only sets bits.

**The memory.** `HeapSound` and `PartitionsSound` speak of lists and of what a walk along links
collects; the proofs of `CoMemoryProofs` do not follow a walk. `HeapInv` says that there
are a set `B` of addresses (the blocks) and a subset `F` (the free ones) such that each
header holds exactly the next and the previous element of `B` and, in free blocks, the
next one of `F`: a pointer is the nearest larger or smaller element of a set. Each branch of
`CoKmalloc()` and `CoKfree()` adds one address to these sets or takes some out, and changes
the nearest elements of their neighbours only (`AllocateIs`, `ReleaseIs`); which words that
writes is stated apart (`AllocateWords`, `ReleaseWords`), since `BuffersKept` needs it too.
`MmInv` says that for each partition there is a sequence without repetitions that its links
follow from `freeBlock` to 0, and that each block of its area is either in that sequence or
with exactly one user; with it are what the task in the midst of a creation or a deletion
owns (`OneAtWork`), that the areas in use are apart (`OwnAreas`), and that an id stays created
while a task stands between its test and the section of a get, which is where `GettersFirst`
is needed. That the walks of the
properties collect these sets or sequences is induction over numbers, done without an
induction theorem: a set of numbers that is not empty has a least element (`LeastOf`), and
the least number at which the walk would go wrong does not exist.

**The touch screen.** `TouchRight` speaks of what was read and of what was touched: an average
is that of its samples without one smallest and one largest, and the three points of a calibration
are the readings of touches of their own marks.
`TouchInv` adds which samples there can be. While a mark is taken all of them are the reading
of the place that was touched: the first because the pen is still there (`PenStays`), the others
because a reading without a touch repeats the last (`MarkTouched`). In `drv_tcs_get_point()` a
touch that ends between the test and the reading leaves the value of before in the buffer, which
may be an average, and only such samples can exceed the greatest reading (`BurstSteady`).
The search of `TCS_Average_X_Y()` is a recursive function: `SearchIs` says that it is
determined, `SmallestFound`, `LargestFound` and `SumFound` what it finds. A first sample
that is the only largest is never compared with the largest (`drv_tch.c:164`) and is not taken
out (section 5); what is proved is `TrimmedAfterFirst`, which leaves
this case out. An average can therefore be above all readings, and that
it stays below the 0xffff with which the search for the smallest begins needs a proof: it
is at most twice the greatest reading (`AverageBound`) if there are four samples or more,
and readings have 15 bits or less. `TouchAssumption` asks for both; the code has 20 samples of
12 bits. Equal samples are their own average (`SameSamples`).

Only model-checked: of the services the mails (`MailConserved`, `MailsAreFifo`), the flags, the
timers, and creation and deletion of events at run time; mutexes; display and
console; and all liveness, which TLAPS cannot prove. Induction over data and `RECURSIVE`
operators are out of its reach too, which is why recursion is written as functions here and
sums and walks are treated by least counterexamples.

## 5. Findings

With a run:

* `sched_robin`: `Schedule()` rotates equals only if called in the very tick in which
  `OSCheckTime == OSTickCnt` (`task.c:745`). A tick that falls into a locked section
  passes the deadline by, and time slicing of these tasks stops. All tasks of
  the demo have one priority, so this can starve them.
* `sched_prio`: `CoSetPriority()` stores the new priority of a ready task before it locks and
  reorders the list (`task.c:632`); a task inserted in between stays out of order, and a less
  urgent task runs than is ready.
* `sem_lost`: `CoPendSem()` unlocks between its test of the counter and
  `EventTaskToWait()` (`sem.c:206`). An interrupt that posts in between leaves a
  permit in the counter and the task waiting.
* `mutex_restore`: `CoLeaveMutexSection()` decides by a stale `hipriTaskID` what the next
  owner inherits (`mutex.c:247`); with two waiters a task keeps a lent priority for good.
* `mutex_links`: it leaves `TCBprev` of the new first waiter set (`mutex.c:256`), and
  `RemoveMutexList()` then writes into the list that the new owner is in.

By variants of runs, which TLC finds violated within a minute. `App` is set in
`MCServicesLost.cfg` and the property put in place of `PermitsReachWaiters`; the constants of
the last seven are set in `MCPartsRules.cfg`, with the module `MCParts` and the property alone.

| Variant | Violated | What the code does |
|---|---|---|
| `App = {"accept"}` | `CounterInRange` | `CoAcceptSem()` decrements after the unlock (`sem.c:139`); two callers wrap the counter to 65535 |
| `App = {"vessel"}` | `EcbsConserved` | `CoDelQueue()` changes `QueueIDVessel` without the lock and clears the control block after that (`queue.c:125`): a more urgent creator loses its mark or its block |
| `App = {"drop"}` | `MailConserved` | `RespondSRQ()` ignores that a mailbox is full (`serviceReq.c:132`): a mail that `isr_PostMail()` accepted is lost |
| `App = {"full"}` | `MailConserved` | `CoPostQueueMail()` tests for room before it locks (`queue.c:335`), and overwrites a mail that an interrupt posts in between |
| `App = {"clear"}` | `FlagsStay` | `CoClearFlag()` stores `flagRdy` without the lock (`flag.c:481`): a flag that an interrupt sets in between is gone, though its waiter was woken |
| `App = {"stop"}` | `TimersSound` | `CoStopTmr()` tests the state before it locks (`timer.c:268`): a one-shot timer that expires in between is taken out of the list twice, and another is lost from it |
| `mutex_links` with the property | `MutexIsLock` | when the first of several waiters is deleted, the head of the list stays at it (`mutex.c:310`): the mutex goes to the deleted task and the others are forgotten |
| `MmPrio <- AllEqual` | `PartitionsSound` | `CoGetMemoryBuffer()` tests the id before it locks (`mm.c:198`): after a deletion and a new creation in between a block lands outside of its list |
| `Drawings <- Steep` | `ScreenShows` | a steep line lacks its end point (`drv_lcd.c:420`) |
| `OneDrawer = FALSE` | `ScreenShows` | `log_touch_task` draws beside `main_task` without a lock (`mdw_log_debug.c:103`), and one call moves the address of the other |
| `PenStays = FALSE` | `TouchRight` | a pen that lifts after it was detected leaves the reading of the touch before (`drv_tch.c:112`) |
| no constant | `AverageTrimmed` | a first sample that alone is the largest is not cut (`drv_tch.c:164`) |
| no constant | `MarksFound` | coefficients without sign, widened to 64 bits, do not map the marks of a calibration to their places (`drv_tch.c:210`); nothing calls the calibration, and `drv_tcs.h:14` says not to use it unmodified |
| no constant | `AdcClockInRange` | `ADC_Init()` truncates the divider of the converter's clock to 0 (`lpc17xx_adc.c:78`): 25 MHz, where its comment asks for at most 13 MHz |

Met while modelling, and without a run:

* the usage rules of section 2, each of which stands for a place where the code breaks if it
  is not kept; an endless pend returns `E_OK` when its event is deleted (`sem.c:207`);
* `CoFreeMemoryBuffer()` accepts the address one past the partition (`mm.c:257`);
* the first figure of the second `led_task` is 2^128 - 1 converted to one byte
  (`drv_led.c:131`), for the start-up leaves `iter` at 128;
* a timer interrupt between the two accesses of `drv_buzz_generateStop()` may turn the buzzer
  on again (`drv_buzz.c:71`), and `drv_buzz.c:84` clears a bit of the wrong port;
* `drv_buzz.c:60` speaks of preemption priority 1 and sub-priority 1; as the priorities are not
  grouped, it is priority 9;
* `drv_sd_load()` makes P0.0 an output where P0.16 is meant (`drv_sd.c:19`);
* `log_touch_task` is created (`mdw_log_debug.c:39`) before the display and the touch screen
  are loaded.

## 6. Not modelled

* **Stacks**, overflow checks, the register save and restore; hooks and unit conversions,
  which keep no state.
* **Deletion, suspension and new priorities of tasks that wait for events or flags**: `CoSched`
  has no services and `CoThread` no task management; the product is out of TLC's reach
  with three tasks. `CoMutex` has the deletion of tasks at a mutex.
* **`CoSetPriority()` by the application for users of a mutex**, and nested mutexes: the
  code keeps one `mutexID` and one `originalPrio` per task, and what follows from that is
  plain from reading.
* **Splits inside list operations**: `InsertDelayList()` and `RemoveDelayList()` are one step,
  though the tick may decrement the head in between (`time.c:80`).
* **The SD card driver** beyond its set-up, bus timing, the display's analogue set-up.
* **Interrupted loads**: a driver's load is one step, for `main()` and `main_task` make all of
  them, and no other task or handler writes the registers that loads share.
* **Library functions that nothing calls**: capture and counter modes, burst mode, power-down,
  most of `core_cm3.h`; stubs of the C library; images and fonts.

What the plan has left: proofs about mails, flags and timers along the invariant of the
services (`Right`, with the rules of section 2 as hypotheses), about `EcbsConserved`, which
needs events that come and go in that invariant, and about the mutex as a lock (`MutexIsLock`).
