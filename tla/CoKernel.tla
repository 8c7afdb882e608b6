------------------------------ MODULE CoKernel ------------------------------
(***************************************************************************)
(* The scheduling core of CooCox CoOS: the READY list, Schedule(), the     *)
(* scheduler lock, the exception handlers that enter and leave the kernel. *)
(*                                                                         *)
(* The global variables of core.c and task.c are one record, k, and every  *)
(* C function is an operator from a kernel record to the record it leaves, *)
(* so that a caller is the composition of what it calls, in its order.     *)
(* The modules of the components (CoSched, CoSem) own the variable k and   *)
(* say when, and in which context, these operators run.                    *)
(***************************************************************************)
EXTENDS Integers, Sequences, SequencesExt

CONSTANTS
  MaxTask,     (* the highest task id: CFG_MAX_USER_TASKS + SYS_TASK_NUM - 1  *)
  LowestPrio,  (* CFG_LOWEST_PRIO, the priority of the idle task; 0 is the    *)
               (* most urgent priority                                       *)
  Slice,       (* CFG_TIME_SLICE, the time slice in ticks of every task       *)
  NullPrio     (* what reading TCBRdy->prio yields when TCBRdy is NULL: the   *)
               (* byte the build has at that offset of address 0              *)

ASSUME KernelAssumption ==
  /\ MaxTask \in Nat /\ MaxTask >= 2
  /\ LowestPrio \in Nat
  /\ Slice \in Nat \ {0}
  /\ NullPrio \in Nat

Task == 0 .. MaxTask
Idle == 0
Prio == 0 .. LowestPrio

TaskState == {"READY", "RUNNING", "WAITING", "DORMANT"}

(***************************************************************************)
(* The kernel record.  TCBRdy and FreeTCB are the two singly-rooted lists  *)
(* of TCBs; robin is OSCheckTime - OSTickCnt, cut off below -1, which is   *)
(* all that the two comparisons of the code can tell; PendSV is the        *)
(* pending bit that SwitchContext() sets.                                  *)
(***************************************************************************)
Kernel == [ state        : [Task -> TaskState],
            prio         : [Task -> Nat],
            TCBRdy       : Seq(Task),
            FreeTCB      : Seq(Task),
            TCBRunning   : Task,
            TCBNext      : Task,
            OSSchedLock  : Nat,
            OSIntNesting : Nat,
            TaskSchedReq : BOOLEAN,
            robin        : Int,
            PendSV       : BOOLEAN ]

-----------------------------------------------------------------------------
(* The READY list. *)

PosOf(s, t) == CHOOSE i \in 1 .. Len(s) : s[i] = t

(* Mutant: a new task goes before its equals. *)
InsertPosBefore(s, prio, p) ==
  CHOOSE i \in 1 .. Len(s) + 1 :
    /\ \A j \in 1 .. i - 1 : prio[s[j]] < p
    /\ i <= Len(s) => p <= prio[s[i]]

(* Where a task of priority p goes: before the first task that is less     *)
(* urgent, so after every task of its own priority.                        *)
InsertPos(s, prio, p) ==
  CHOOSE i \in 1 .. Len(s) + 1 :
    /\ \A j \in 1 .. i - 1 : prio[s[j]] <= p
    /\ i <= Len(s) => p < prio[s[i]]

(* Mutant: a task that becomes the head of the list asks for no schedule.  *)
InsertQuietly(k, t) ==
  [k EXCEPT !.state  = [@ EXCEPT ![t] = "READY"],
            !.TCBRdy = InsertAt(@, InsertPos(@, k.prio, k.prio[t]), t)]

InsertToTCBRdyList(k, t) ==
  LET p     == k.prio[t]
      run   == k.TCBRunning
      first == k.TCBRdy = <<>> \/ p < k.prio[Head(k.TCBRdy)]
      renew == p = k.prio[run] /\ run # t /\ k.robin < 0
  IN  [k EXCEPT !.state        = [@ EXCEPT ![t] = "READY"],
                !.robin        = IF renew THEN Slice ELSE @,
                !.TaskSchedReq = first \/ @,
                !.TCBRdy       = InsertAt(@, InsertPos(@, k.prio, p), t)]

(* A task that is in no list has null links, which the code takes for the  *)
(* only task of the READY list.                                            *)
RemoveFromTCBRdyList(k, t) ==
  [k EXCEPT !.TCBRdy = IF t \in Range(@) THEN RemoveAt(@, PosOf(@, t))
                                         ELSE <<>>]

-----------------------------------------------------------------------------
(* Schedule(). *)

RdyPrio(k) == IF k.TCBRdy = <<>> THEN NullPrio ELSE k.prio[Head(k.TCBRdy)]

(* Mutants: the lock is not looked at; the caller's own lock is forgotten. *)
CanScheduleLocked(k) ==
  k.TCBRdy # <<>> /\ k.TCBRunning = k.TCBNext /\ k.OSIntNesting = 0

CanScheduleUnlocked(k) == CanScheduleLocked(k) /\ k.OSSchedLock = 0

CanSchedule(k) ==
  /\ k.TCBRdy # <<>>
  /\ k.TCBRunning = k.TCBNext
  /\ k.OSSchedLock <= 1
  /\ k.OSIntNesting = 0

(* Mutant: the task that gets the processor keeps its place in the list.   *)
SwitchToLinked(k, t) ==
  [k EXCEPT !.state = [@ EXCEPT ![t] = "RUNNING"], !.TCBNext = t, !.PendSV = TRUE]

(* The next task gets the processor by the PendSV exception.               *)
SwitchContext(k) == [k EXCEPT !.PendSV = TRUE]

(* Task t leaves the READY list for the processor; the slice is renewed    *)
(* when the new head of the list, if there is one, has its priority.       *)
SwitchTo(k, t) ==
  LET k1 == RemoveFromTCBRdyList(k, t)
  IN  SwitchContext([k1 EXCEPT !.state   = [@ EXCEPT ![t] = "RUNNING"],
                               !.TCBNext = t,
                               !.robin   = IF k.prio[t] = RdyPrio(k1) THEN Slice ELSE @])

Schedule(k) ==
  LET cur    == k.TCBRunning
      head   == Head(k.TCBRdy)
      k1     == [k EXCEPT !.TaskSchedReq = FALSE]
      yields == \/ k.prio[head] < k.prio[cur]
                \/ k.prio[head] = k.prio[cur] /\ k.robin = 0
  IN  IF ~CanSchedule(k) THEN k
      ELSE IF k.state[cur] # "RUNNING" THEN SwitchTo(k1, head)
      ELSE IF yields THEN SwitchTo(InsertToTCBRdyList(k1, cur), head)
      ELSE k1

-----------------------------------------------------------------------------
(* The scheduler lock and the exception handlers. *)

OsSchedLock(k) == [k EXCEPT !.OSSchedLock = @ + 1]

(* The part of OsSchedUnlock() between the service requests and the store  *)
(* of 0 into OSSchedLock.                                                  *)
UnlockSchedule(k) == IF k.TaskSchedReq THEN Schedule(k) ELSE k

(* Mutant: the running task blocks itself and asks for no schedule.        *)
RequestNothing(k) == k

RequestSchedule(k) == [k EXCEPT !.TaskSchedReq = TRUE]

(* Mutant: the tick does not lock what its OsSchedUnlock() will unlock.    *)
SysTickUnlocked(k) ==
  [k EXCEPT !.robin = IF @ < 0 THEN @ ELSE @ - 1, !.TaskSchedReq = TRUE]

(* SysTick_Handler() up to its call of OsSchedUnlock(), without the delay  *)
(* and timer lists.                                                        *)
SysTickEntry(k) ==
  [k EXCEPT !.OSSchedLock  = @ + 1,
            !.robin        = IF @ < 0 THEN @ ELSE @ - 1,
            !.TaskSchedReq = TRUE]

(* Load, change and store of one byte, with the interrupts masked.         *)
Inc8(n) == n + 1
Dec8(n) == n - 1

CoEnterISR(k) == [k EXCEPT !.OSIntNesting = Inc8(@)]

CoExitISR(k) ==
  LET k1 == [k EXCEPT !.OSIntNesting = Dec8(@)]
  IN  IF k1.OSIntNesting = 0 /\ k1.TaskSchedReq
      THEN [Schedule(OsSchedLock(k1)) EXCEPT !.OSSchedLock = @ - 1]
      ELSE k1

PendSV_Handler(k) ==
  [k EXCEPT !.TCBRunning  = k.TCBNext,
            !.OSSchedLock = 0,
            !.PendSV      = FALSE]
=============================================================================
