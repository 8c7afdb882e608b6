------------------------------- MODULE CoSched -------------------------------
(***************************************************************************)
(* Task management of CooCox CoOS: task.c and core.c with the system tick  *)
(* and the context switch of the Cortex-M3 port.                           *)
(*                                                                         *)
(* The processor runs, from the least to the most urgent context, the      *)
(* thread of task TCBRunning, PendSV and SysTick (one priority, so neither *)
(* preempts the other) and the device interrupts (one priority above them, *)
(* so a whole device handler is one step).  A thread is interruptible      *)
(* everywhere: an API call is cut where a context switch, or a handler     *)
(* that finds the scheduler unlocked, can come between what it read and    *)
(* what it does with it.                                                   *)
(***************************************************************************)
EXTENDS CoKernel

CONSTANTS
  Prios,          (* the priorities the application gives to its tasks        *)
  Creators,       (* the tasks that call CoCreateTask                         *)
  Suspends,       (* <<c, t>>: task c calls CoSuspendTask(t)                  *)
  Awakes,         (* <<c, t>>: task c calls CoAwakeTask(t)                    *)
  Deletes,        (* <<c, t>>: task c calls CoDelTask(t), or CoExitTask()     *)
  Reprioritises,  (* <<c, t>>: task c calls CoSetPriority(t, _)               *)
  Lockers,        (* the tasks that call CoSchedLock and CoSchedUnlock        *)
  Stray,          (* ids the application names before CoCreateTask gave them  *)
  MaxSect         (* bound: nesting of CoSchedLock in one task                *)

ASSUME SchedAssumption ==
  /\ Prios \subseteq Prio /\ Prios # {}
  /\ Creators \subseteq Task \ {Idle}
  /\ Suspends \subseteq Task \X Task
  /\ Awakes \subseteq Task \X Task
  /\ Deletes \subseteq Task \X Task
  /\ Reprioritises \subseteq Task \X Task
  /\ Lockers \subseteq Task \ {Idle}
  /\ Stray \subseteq Task
  /\ MaxSect \in Nat

Main == 1           (* the task that main() creates before CoStartOS()        *)

VARIABLES
  k,        (* the kernel record of CoKernel                                  *)
  pc,       (* where the thread of each task is                               *)
  sect,     (* CoSchedLock sections each task is in: the application's count  *)
  issued,   (* the task ids CoCreateTask has returned                         *)
  sysTick   (* where SysTick_Handler is                                       *)

vars == <<k, pc, sect, issued, sysTick>>

(* Where a thread can be: in the application ("user"), between the checks  *)
(* of an API call and its OsSchedLock(), or in OsSchedUnlock().            *)
Windows == {"fill", "suspend", "awake", "del", "prio", "reorder", "yield"}
At == {"user", "unlock", "release"} \cup Windows

(* ret is where the call goes on after OsSchedUnlock(), tgt the TCB it     *)
(* works on.                                                               *)
Thread == [at : At, tgt : Task, ret : {"user", "fill"}]

User == [at |-> "user", tgt |-> Idle, ret |-> "user"]

TypeOK ==
  /\ k \in Kernel
  /\ pc \in [Task -> Thread]
  /\ sect \in [Task -> Nat]
  /\ issued \in SUBSET Task
  /\ sysTick \in {"off", "unlock", "release"}

(* CreateTCBList() makes every TCB but the last one dormant: the state of   *)
(* that one is left at 0, which is TASK_READY.  The free TCBs are in the    *)
(* order of their ids; FreeTCBs(n) is what n tasks have left of them.       *)
CreatedState == [t \in Task |-> IF t = MaxTask THEN "READY" ELSE "DORMANT"]

FreeTCBs(n) == [i \in 1 .. MaxTask + 1 - n |-> i + n - 1]

(* CoStartOS() at its OsSchedUnlock(): CoInitOS() has locked the scheduler *)
(* and created the idle task, main() one task of its own.                  *)
Init ==
  /\ \E p \in Prios, r \in {-1, 0} :
       k = [ state        |-> [t \in Task |-> CASE t = Idle -> "RUNNING"
                                                [] t = Main -> "READY"
                                                [] OTHER -> CreatedState[t]],
             prio         |-> [t \in Task |-> CASE t = Idle -> LowestPrio
                                                [] t = Main -> p
                                                [] OTHER -> 0],
             TCBRdy       |-> <<Main>>,
             FreeTCB      |-> FreeTCBs(2),
             TCBRunning   |-> Idle,
             TCBNext      |-> Idle,
             OSSchedLock  |-> 1,
             OSIntNesting |-> 0,
             TaskSchedReq |-> TRUE,
             robin        |-> r,
             PendSV       |-> FALSE ]
  /\ pc = [t \in Task |-> IF t = Idle THEN [User EXCEPT !.at = "unlock"] ELSE User]
  /\ sect = [t \in Task |-> 0]
  /\ issued = {Idle, Main}
  /\ sysTick = "off"

-----------------------------------------------------------------------------
(* The thread of task t executes its next instruction at place "at". *)
Runs(t, at) ==
  /\ t = k.TCBRunning
  /\ ~k.PendSV
  /\ sysTick = "off"
  /\ pc[t].at = at

Goto(t, at, tgt) == pc' = [pc EXCEPT ![t] = [at |-> at, tgt |-> tgt, ret |-> "user"]]

(* The end of the body of an API call: on to its OsSchedUnlock(). *)
Unlocks(t) == Goto(t, "unlock", Idle)

Known(x) == x \in issued \cup Stray

(* OsSchedUnlock(). *)
UnlockNested(t) ==
  /\ Runs(t, "unlock") /\ k.OSSchedLock # 1
  /\ k' = [k EXCEPT !.OSSchedLock = @ - 1]
  /\ pc' = [pc EXCEPT ![t].at = pc[t].ret]
  /\ UNCHANGED <<sect, issued, sysTick>>

UnlockLast(t) ==
  /\ Runs(t, "unlock") /\ k.OSSchedLock = 1
  /\ k' = UnlockSchedule(k)
  /\ pc' = [pc EXCEPT ![t].at = "release"]
  /\ UNCHANGED <<sect, issued, sysTick>>

UnlockRelease(t) ==
  /\ Runs(t, "release")
  /\ k' = [k EXCEPT !.OSSchedLock = 0]
  /\ pc' = [pc EXCEPT ![t].at = pc[t].ret]
  /\ UNCHANGED <<sect, issued, sysTick>>

CoSchedLock(t) ==
  /\ Runs(t, "user") /\ t \in Lockers /\ sect[t] < MaxSect
  /\ k' = OsSchedLock(k)
  /\ sect' = [sect EXCEPT ![t] = @ + 1]
  /\ UNCHANGED <<pc, issued, sysTick>>

CoSchedUnlock(t) ==
  /\ Runs(t, "user") /\ sect[t] > 0
  /\ sect' = [sect EXCEPT ![t] = @ - 1]
  /\ Unlocks(t)
  /\ UNCHANGED <<k, issued, sysTick>>

-----------------------------------------------------------------------------
(* CoCreateTask() with valid parameters: AssignTCB() takes a TCB under the *)
(* lock, or none; the TCB is filled and put into the READY list, or left   *)
(* waiting.  It waits for no time, event, flag or mutex.                   *)
AssignTCB(t) ==
  /\ Runs(t, "user") /\ t \in Creators
  /\ IF k.FreeTCB = <<>>
     THEN /\ k' = OsSchedLock(k)
          /\ Unlocks(t)
     ELSE /\ k' = [OsSchedLock(k) EXCEPT !.FreeTCB = Tail(@)]
          /\ pc' = [pc EXCEPT ![t] = [at |-> "unlock", tgt |-> Head(k.FreeTCB),
                                      ret |-> "fill"]]
  /\ UNCHANGED <<sect, issued, sysTick>>

CreateTask(t) ==
  LET x == pc[t].tgt
  IN  /\ Runs(t, "fill")
      /\ \E p \in Prios, waiting \in BOOLEAN :
           LET filled == [k EXCEPT !.prio = [@ EXCEPT ![x] = p]]
           IN  /\ k' = IF waiting
                       THEN [filled EXCEPT !.state = [@ EXCEPT ![x] = "WAITING"]]
                       ELSE InsertToTCBRdyList(OsSchedLock(filled), x)
               /\ pc' = [pc EXCEPT ![x] = User,
                                   ![t] = IF waiting THEN User
                                          ELSE [User EXCEPT !.at = "unlock"]]
      /\ sect' = [sect EXCEPT ![x] = 0]
      /\ issued' = issued \cup {x}
      /\ UNCHANGED sysTick

(* CoSuspendTask(): the checks, made without the lock, then the body. *)
CallSuspend(t, x) ==
  /\ Runs(t, "user") /\ <<t, x>> \in Suspends /\ Known(x)
  /\ x # Idle
  /\ k.state[x] \notin {"DORMANT", "WAITING"}
  /\ k.OSSchedLock = 0
  /\ Goto(t, "suspend", x)
  /\ UNCHANGED <<k, sect, issued, sysTick>>

CoSuspendTask(t) ==
  LET x  == pc[t].tgt
      k1 == OsSchedLock(k)
      k2 == IF x # k.TCBRunning THEN RemoveFromTCBRdyList(k1, x)
                                ELSE RequestSchedule(k1)
  IN  /\ Runs(t, "suspend")
      /\ k' = [k2 EXCEPT !.state = [@ EXCEPT ![x] = "WAITING"]]
      /\ Unlocks(t)
      /\ UNCHANGED <<sect, issued, sysTick>>

(* CoAwakeTask(): the task has to be waiting, and for nothing else than    *)
(* this call; here no task waits for a delay, a flag, an event or a mutex. *)
CallAwake(t, x) ==
  /\ Runs(t, "user") /\ <<t, x>> \in Awakes /\ Known(x)
  /\ x # Idle
  /\ k.state[x] = "WAITING"
  /\ Goto(t, "awake", x)
  /\ UNCHANGED <<k, sect, issued, sysTick>>

CoAwakeTask(t) ==
  /\ Runs(t, "awake")
  /\ k' = InsertToTCBRdyList(OsSchedLock(k), pc[t].tgt)
  /\ Unlocks(t)
  /\ UNCHANGED <<sect, issued, sysTick>>

(* CoDelTask(), and CoExitTask() as CoDelTask() of the caller. *)
CallDel(t, x) ==
  /\ Runs(t, "user") /\ <<t, x>> \in Deletes /\ Known(x)
  /\ k.state[x] # "DORMANT"
  /\ x # Idle
  /\ k.state[x] = "RUNNING" => k.OSSchedLock = 0
  /\ Goto(t, "del", x)
  /\ UNCHANGED <<k, sect, issued, sysTick>>

CoDelTask(t) ==
  LET x  == pc[t].tgt
      k1 == OsSchedLock(k)
      k2 == IF k.state[x] = "READY" THEN RemoveFromTCBRdyList(k1, x) ELSE k1
  IN  /\ Runs(t, "del")
      /\ k' = [RequestSchedule(k2) EXCEPT !.state   = [@ EXCEPT ![x] = "DORMANT"],
                                          !.FreeTCB = <<x>> \o @]
      /\ Unlocks(t)
      /\ UNCHANGED <<sect, issued, sysTick>>

(* CoSetPriority() of a task that neither holds nor waits for a mutex or   *)
(* an event: the priority is stored at once, the list put right later.     *)
CallSetPriority(t, x) ==
  /\ Runs(t, "user") /\ <<t, x>> \in Reprioritises /\ Known(x)
  /\ x # Idle
  /\ k.state[x] # "DORMANT"
  /\ \E p \in Prios \ {k.prio[x]} : k' = [k EXCEPT !.prio = [@ EXCEPT ![x] = p]]
  /\ Goto(t, "prio", x)
  /\ UNCHANGED <<sect, issued, sysTick>>

PriorityStored(t) ==
  LET x == pc[t].tgt
  IN  /\ Runs(t, "prio")
      /\ Goto(t, CASE k.state[x] = "READY" -> "reorder"
                   [] k.state[x] = "RUNNING" /\ k.prio[x] > RdyPrio(k) -> "yield"
                   [] OTHER -> "user", x)
      /\ UNCHANGED <<k, sect, issued, sysTick>>

PriorityReorder(t) ==
  LET x == pc[t].tgt
  IN  /\ Runs(t, "reorder")
      /\ k' = InsertToTCBRdyList(RemoveFromTCBRdyList(OsSchedLock(k), x), x)
      /\ Unlocks(t)
      /\ UNCHANGED <<sect, issued, sysTick>>

PriorityYield(t) ==
  /\ Runs(t, "yield")
  /\ k' = RequestSchedule(OsSchedLock(k))
  /\ Unlocks(t)
  /\ UNCHANGED <<sect, issued, sysTick>>

-----------------------------------------------------------------------------
(* The exceptions.  PendSV has the lower number, so SysTick does not start *)
(* while it is pending.                                                    *)
PendSV ==
  /\ k.PendSV /\ sysTick = "off"
  /\ k' = PendSV_Handler(k)
  /\ UNCHANGED <<pc, sect, issued, sysTick>>

SysTick_Handler ==
  /\ sysTick = "off" /\ ~k.PendSV
  /\ k' = SysTickEntry(k)
  /\ sysTick' = "unlock"
  /\ UNCHANGED <<pc, sect, issued>>

(* The OsSchedUnlock() at the end of SysTick_Handler(). *)
SysTickNested ==
  /\ sysTick = "unlock" /\ k.OSSchedLock # 1
  /\ k' = [k EXCEPT !.OSSchedLock = @ - 1]
  /\ sysTick' = "off"
  /\ UNCHANGED <<pc, sect, issued>>

SysTickLast ==
  /\ sysTick = "unlock" /\ k.OSSchedLock = 1
  /\ k' = UnlockSchedule(k)
  /\ sysTick' = "release"
  /\ UNCHANGED <<pc, sect, issued>>

SysTickRelease ==
  /\ sysTick = "release"
  /\ k' = [k EXCEPT !.OSSchedLock = 0]
  /\ sysTick' = "off"
  /\ UNCHANGED <<pc, sect, issued>>

(* A device handler that brackets its own work with CoEnterISR() and       *)
(* CoExitISR() and calls nothing of the kernel, as EINT0_IRQHandler().     *)
DeviceISR ==
  /\ k' = CoExitISR(CoEnterISR(k))
  /\ UNCHANGED <<pc, sect, issued, sysTick>>

-----------------------------------------------------------------------------
(* The part of an API call that does not depend on the application. *)
Finish(t) ==
  \/ UnlockNested(t) \/ UnlockLast(t) \/ UnlockRelease(t)
  \/ CreateTask(t)
  \/ CoSuspendTask(t) \/ CoAwakeTask(t) \/ CoDelTask(t)
  \/ PriorityStored(t) \/ PriorityReorder(t) \/ PriorityYield(t)

Call(t) ==
  \/ CoSchedLock(t) \/ CoSchedUnlock(t)
  \/ AssignTCB(t)
  \/ \E x \in Task : \/ CallSuspend(t, x) \/ CallAwake(t, x)
                     \/ CallDel(t, x) \/ CallSetPriority(t, x)

TickHandler == SysTickNested \/ SysTickLast \/ SysTickRelease

Next ==
  \/ \E t \in Task : Finish(t) \/ Call(t)
  \/ PendSV \/ SysTick_Handler \/ TickHandler \/ DeviceISR

(* The timer interrupts for ever, a pending exception is taken, a handler  *)
(* and a kernel section end (a tick lasts far longer than both, so a       *)
(* thread interrupted by ticks still advances), and the application leaves *)
(* the CoSchedLock sections it enters.  Nothing obliges it to call.        *)
Fairness ==
  /\ WF_vars(PendSV)
  /\ SF_vars(SysTick_Handler)
  /\ WF_vars(TickHandler)
  /\ \A t \in Task : SF_vars(Finish(t)) /\ SF_vars(CoSchedUnlock(t))

Spec == Init /\ [][Next]_vars

FairSpec == Spec /\ Fairness

-----------------------------------------------------------------------------
(* What the application has to respect for the READY list to stay sound:   *)
(* each task is suspended, deleted and reprioritised by one task only, and *)
(* awoken by one task only, the one that may delete it unless it deletes   *)
(* itself; a task is not deleted by another while it creates a task or     *)
(* changes a priority; ids are those that CoCreateTask returned.           *)
Commands == Suspends \cup Deletes \cup Reprioritises

SingleOwner ==
  /\ \A t, c, d \in Task :
       /\ <<c, t>> \in Commands /\ <<d, t>> \in Commands => c = d
       /\ <<c, t>> \in Awakes /\ <<d, t>> \in Awakes => c = d
       /\ <<c, t>> \in Deletes /\ <<d, t>> \in Awakes => c \in {t, d}
       /\ <<c, t>> \in Deletes /\ c # t => t \notin Creators
       /\ <<c, t>> \in Deletes /\ c # t => <<t, d>> \notin Reprioritises
  /\ Stray = {}

(* For the order of the list: CoSetPriority() of another, ready task       *)
(* stores the priority before it takes the lock, and what is inserted      *)
(* before the repair finds its place in a list that is not sorted.         *)
SetsOwnPriority == \A c \in Reprioritises : c[1] = c[2]

(* The TCB that a thread has taken off the free list and not yet filled. *)
Filling(t, x) ==
  /\ pc[t].at = "fill" \/ pc[t].ret = "fill"
  /\ pc[t].tgt = x

(* No TCB is lost or in two places: the READY list holds each task whose   *)
(* state is TASK_READY once, the free list and the CoCreateTask() calls    *)
(* under way each dormant TCB once, and no other task is RUNNING than the  *)
(* one that has, or is about to get, the processor.                        *)
ReadyListSound ==
  /\ IsInjective(k.TCBRdy) /\ IsInjective(k.FreeTCB)
  /\ Range(k.TCBRdy) = {t \in issued : k.state[t] = "READY"}
  /\ \A x \in Task : \/ x \in Range(k.FreeTCB)
                      \/ \E t \in Task : Filling(t, x)
                   <=> k.state[x] = "DORMANT" \/ x \notin issued
  /\ \A x \in Range(k.FreeTCB), t \in Task : ~Filling(t, x)
  /\ \A t, u, x \in Task : Filling(t, x) /\ Filling(u, x) => t = u
  /\ \A t \in issued : k.state[t] = "RUNNING" => t = k.TCBNext

(* Nobody is between the store of a new priority and the repair of the     *)
(* READY list in CoSetPriority().                                          *)
Settled == \A t \in Task : pc[t].at \notin {"prio", "reorder", "yield"}

(* The right task runs.  The application never executes in a task that is  *)
(* not in TASK_RUNNING: a task that has suspended or deleted itself is off *)
(* the processor when its call is over.  And while it executes with the    *)
(* scheduler unlocked, no task of the READY list is more urgent, unless a  *)
(* schedule request is pending, which the next tick serves.  This needs    *)
(* SetsOwnPriority.                                                        *)
RightTaskRuns ==
  \A t \in Task : Runs(t, "user") =>
    /\ k.state[t] = "RUNNING"
    /\ k.OSSchedLock = 0 /\ Settled /\ ~k.TaskSchedReq =>
         \A u \in Range(k.TCBRdy) : k.prio[t] <= k.prio[u]

(* The sections of task t that are open: its CoSchedLock() sections and an *)
(* API call that has locked and is at its OsSchedUnlock().                 *)
Held(t) == sect[t] + (IF pc[t].at = "unlock" THEN 1 ELSE 0)

(* The one byte OSSchedLock, which all contexts increment and decrement    *)
(* and three of them store 0 into, never falls below the open sections of  *)
(* the running task and of the tick; a task that is off the processor, or  *)
(* about to lose it, has none open.                                        *)
LockAccounting ==
  /\ k.OSSchedLock >= Held(k.TCBRunning) + (IF sysTick = "off" THEN 0 ELSE 1)
  /\ \A t \in Task \ {k.TCBRunning} : Held(t) = 0
  /\ k.PendSV \/ sysTick = "release" => Held(k.TCBRunning) = 0

(* CoSchedLock() keeps the processor: no switch, and no store of 0 into    *)
(* OSSchedLock by PendSV or by an OsSchedUnlock() that was interrupted     *)
(* halfway, comes inside the section of any task.                          *)
LockKeepsProcessor ==
  [][\A t \in Task : sect[t] > 0 /\ sect'[t] > 0 =>
       k'.TCBRunning = t /\ k'.OSSchedLock >= sect'[t]]_vars

(* Tasks of one priority are served in the order they became ready: none   *)
(* that enters the READY list, or is behind in it, comes before another of *)
(* its priority that stays in it.  This needs SetsOwnPriority.             *)
FifoWithinPrio ==
  [][\A t \in Range(k.TCBRdy) \cap Range(k'.TCBRdy) :
     \A u \in Range(k'.TCBRdy) \ {t} :
       /\ u \in Range(k.TCBRdy) => PosOf(k.TCBRdy, t) < PosOf(k.TCBRdy, u)
       /\ k'.prio[t] = k'.prio[u] /\ k'.prio[t] = k.prio[t] /\ Settled
       => PosOf(k'.TCBRdy, t) < PosOf(k'.TCBRdy, u)]_vars

(* Round robin: a ready task of the same priority as the running one gets  *)
(* its turn.                                                               *)
RobinWaits(t) ==
  /\ t \in Range(k.TCBRdy) /\ t # k.TCBRunning
  /\ k.prio[t] = k.prio[k.TCBRunning]

RobinShares == \A t \in Task : RobinWaits(t) ~> ~RobinWaits(t)
=============================================================================
