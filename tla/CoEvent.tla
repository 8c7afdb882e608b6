------------------------------ MODULE CoEvent ------------------------------
(***************************************************************************)
(* What the services of CooCox CoOS share: the event control blocks and    *)
(* their waiting lists (event.c), the list of tasks that wait for flags    *)
(* (flag.c), the delay list (time.c) and the queue of service requests     *)
(* that interrupts leave for the kernel (serviceReq.c).                    *)
(*                                                                         *)
(* As in CoKernel, all of it is one record s, whose field k is the kernel  *)
(* record, and each C function is an operator from record to record.       *)
(***************************************************************************)
EXTENDS CoKernel

CONSTANTS
  App,       (* the applications; an execution is one of one of them          *)
  MaxEvent,  (* CFG_MAX_EVENT                                                 *)
  MaxQueue,  (* CFG_MAX_QUEUE                                                 *)
  MaxFlag,   (* FLAG_MAX_NUM                                                  *)
  MaxTimer,  (* CFG_MAX_TMR                                                   *)
  MaxMail,   (* mails are the numbers 1 .. MaxMail, 0 is Co_NULL              *)
  MaxCell,   (* the length of the buffers of all queues                       *)
  SrqSize    (* CFG_MAX_SERVICE_REQUEST                                       *)

ASSUME EventAssumption ==
  /\ MaxEvent \in Nat /\ MaxQueue \in Nat /\ MaxFlag \in Nat /\ MaxTimer \in Nat
  /\ MaxMail \in Nat
  /\ MaxCell \in Nat \ {0} /\ SrqSize \in Nat \ {0}

NoTask == MaxTask + 1     (* the null pointer to a TCB                        *)
Link == Task \cup {NoTask}

Event == 0 .. MaxEvent - 1
NoEvent == MaxEvent       (* INVALID_ID in eventID                            *)
Queue == 0 .. MaxQueue - 1
Flag == 0 .. MaxFlag - 1
Timer == 0 .. MaxTimer - 1
NoTimer == MaxTimer       (* the null pointer to a timer                      *)

NoDelay == -1             (* INVALID_VALUE in delayTick                       *)

(* What a waiting task finds in pmail: Co_NULL, a mail, or the pointer -1, *)
(* which marks the post of a semaphore.                                    *)
NoMail == 0
Mail == 1 .. MaxMail
Woken == -1

Cells == 0 .. SrqSize - 1

EventType == {"sem", "mbox", "queue", "invalid"}
Request == {"sem", "mbox", "queue", "flag"} \X ({0} \cup Event \cup Flag) \X (0 .. MaxMail)
NoRequest == <<"sem", 0, NoMail>>

(* A queue control block, and a timer control block.                       *)
QCB == [ id : Nat, head : Nat, tail : Nat, qSize : Nat, qMaxSize : Nat,
         qStart : [0 .. MaxCell - 1 -> 0 .. MaxMail] ]

TmrCtrl == [ tmrType : {"oneshot", "periodic"}, tmrState : {"stopped", "running"},
             tmrCnt : Int, tmrReload : Nat, tmrCallBack : Event \cup {NoEvent},
             tmrNext : Timer \cup {NoTimer}, tmrPrev : Timer \cup {NoTimer} ]

(***************************************************************************)
(* The record.  The links of the waiting lists and of the timers are kept  *)
(* as the pointers they are; the READY list of k and DlyList share the     *)
(* links TCBnext and TCBprev, which every removal clears, and are          *)
(* sequences, as are the free ECBs and the nodes that wait for flags, each *)
(* of which lies on the stack of its task and stands for it.  The last     *)
(* three fields are history, not code: the permits of each semaphore, made *)
(* or posted and not reported to a task, the locks each task was told it   *)
(* has got and has not posted, and the mails that a post has accepted and  *)
(* nobody has received.                                                    *)
(***************************************************************************)
System == [ app                 : App,
            k                   : Kernel,
            eventType           : [Event -> EventType],
            eventSortType       : [Event -> {"fifo", "prio"}],
            eventCounter        : [Event -> Nat],
            initialEventCounter : [Event -> Nat],
            eventPtr            : [Event -> Nat],
            eventTCBList        : [Event -> Link],
            FreeEventList       : Seq(Event),
            eventID             : [Task -> Event \cup {NoEvent}],
            waitNext            : [Task -> Link],
            waitPrev            : [Task -> Link],
            pmail               : [Task -> {Woken, NoMail} \cup Mail],
            QueueTbl            : [Queue -> QCB],
            QueueIDVessel       : SUBSET Queue,
            flagActive          : SUBSET Flag,
            flagRdy             : SUBSET Flag,
            resetOpt            : SUBSET Flag,
            nodes               : Seq(Task),
            pnode               : [Task -> {"null", "node", "set"}],
            waitFlags           : [Task -> SUBSET Flag],
            waitType            : [Task -> {"one", "any", "all"}],
            DlyList             : Seq(Task),
            delayTick           : [Task -> Nat \cup {NoDelay}],
            TmrTbl              : [Timer -> TmrCtrl],
            TmrList             : Timer \cup {NoTimer},
            TmrIDVessel         : SUBSET Timer,
            cell                : [Cells -> Request],
            cnt                 : 0 .. SrqSize,
            head                : Cells,
            IsrReq              : BOOLEAN,
            TimeReq             : BOOLEAN,
            TimerReq            : BOOLEAN,
            balance             : [Event -> Int],
            holds               : [Task -> SUBSET Event],
            out                 : SUBSET Mail ]

InsertReady(s, t) == [s EXCEPT !.k = InsertToTCBRdyList(@, t)]

-----------------------------------------------------------------------------
(* The waiting list of an event (event.c). *)

(* The tasks that the links next lead to from first.                       *)
Linked(first, next) ==
  LET at[i \in 1 .. MaxTask + 2] ==
        IF i = 1 THEN first
        ELSE IF at[i - 1] = NoTask THEN NoTask ELSE next[at[i - 1]]
      n == CHOOSE i \in 0 .. MaxTask + 1 :
             /\ \A j \in 1 .. i : at[j] # NoTask
             /\ i = MaxTask + 1 \/ at[i + 1] = NoTask
  IN  [i \in 1 .. n |-> at[i]]

WaitList(s, e) == Linked(s.eventTCBList[e], s.waitNext)

EventTaskToWait(s, e, t) ==
  LET list == WaitList(s, e)
      i    == IF s.eventSortType[e] = "prio"
              THEN InsertPos(list, s.k.prio, s.k.prio[t])
              ELSE Len(list) + 1
      prev == IF i > 1 THEN list[i - 1] ELSE NoTask
      next == IF i <= Len(list) THEN list[i] ELSE NoTask
  IN  [s EXCEPT
         !.eventID      = [@ EXCEPT ![t] = e],
         !.eventTCBList = IF i = 1 THEN [@ EXCEPT ![e] = t] ELSE @,
         !.waitNext     = [u \in Task |-> CASE u = prev -> t
                                            [] u = t /\ next # NoTask -> next
                                            [] OTHER -> @[u]],
         !.waitPrev     = [u \in Task |-> CASE u = next -> t
                                            [] u = t /\ prev # NoTask -> prev
                                            [] OTHER -> @[u]],
         !.k            = RequestSchedule([@ EXCEPT !.state[t] = "WAITING"])]

(* Mutant: the links of the list decide nothing, the head is always reset. *)
RemoveAsHead(s, t) ==
  [s EXCEPT !.eventTCBList = [@ EXCEPT ![s.eventID[t]] = s.waitNext[t]],
            !.waitNext     = [@ EXCEPT ![t] = NoTask],
            !.waitPrev     = [@ EXCEPT ![t] = NoTask],
            !.eventID      = [@ EXCEPT ![t] = NoEvent]]

(* The task goes out of the list by its own links: with no predecessor it  *)
(* is the head.                                                            *)
RemoveEventWaittingList(s, t) ==
  LET next == s.waitNext[t]
      prev == s.waitPrev[t]
  IN  [s EXCEPT
         !.eventTCBList = IF prev = NoTask THEN [@ EXCEPT ![s.eventID[t]] = next]
                                           ELSE @,
         !.waitNext     = [u \in Task |-> CASE u = prev -> next
                                            [] u = t -> NoTask
                                            [] OTHER -> @[u]],
         !.waitPrev     = [u \in Task |-> CASE u = next -> prev
                                            [] u = t -> NoTask
                                            [] OTHER -> @[u]],
         !.eventID      = [@ EXCEPT ![t] = NoEvent]]

-----------------------------------------------------------------------------
(* The delay list (time.c): every task holds the ticks it waits longer     *)
(* than the task before it.                                                *)

Due(s) ==
  LET due[i \in 0 .. Len(s.DlyList)] ==
        IF i = 0 THEN 0 ELSE due[i - 1] + s.delayTick[s.DlyList[i]]
  IN  due

(* Mutant: the task behind the new one keeps its own ticks.                *)
InsertDelayAdding(s, t, ticks) ==
  LET due == Due(s)
      n   == Len(s.DlyList)
      i   == CHOOSE j \in 1 .. n + 1 :
               /\ \A l \in 1 .. j - 1 : due[l] <= ticks
               /\ j <= n => ticks < due[j]
  IN  [s EXCEPT !.DlyList   = InsertAt(@, i, t),
                !.delayTick = [@ EXCEPT ![t] = ticks - due[i - 1]],
                !.k         = RequestSchedule([@ EXCEPT !.state[t] = "WAITING"])]

InsertDelayList(s, t, ticks) ==
  LET due == Due(s)
      n   == Len(s.DlyList)
      i   == CHOOSE j \in 1 .. n + 1 :
               /\ \A l \in 1 .. j - 1 : due[l] <= ticks
               /\ j <= n => ticks < due[j]
      mine == ticks - due[i - 1]
  IN  IF ticks = 0 THEN s
      ELSE [s EXCEPT
              !.DlyList   = InsertAt(@, i, t),
              !.delayTick = [u \in Task |->
                               CASE u = t -> mine
                                 [] i <= n /\ u = s.DlyList[i] -> @[u] - mine
                                 [] OTHER -> @[u]],
              !.k         = RequestSchedule([@ EXCEPT !.state[t] = "WAITING"])]

(* The task behind gets the ticks of the removed one.                       *)
RemoveDelayList(s, t) ==
  LET i == PosOf(s.DlyList, t)
  IN  [s EXCEPT
         !.DlyList   = RemoveAt(@, i),
         !.delayTick = [u \in Task |->
                          CASE u = t -> NoDelay
                            [] i < Len(s.DlyList) /\ u = s.DlyList[i + 1] ->
                                 @[u] + @[t]
                            [] OTHER -> @[u]]]

-----------------------------------------------------------------------------
(* The tasks that wait for flags (flag.c). *)

FlagBlock(s, t, flags, type) ==
  [s EXCEPT !.nodes     = Append(@, t),
            !.pnode     = [@ EXCEPT ![t] = "node"],
            !.waitFlags = [@ EXCEPT ![t] = flags],
            !.waitType  = [@ EXCEPT ![t] = type]]

RemoveLinkNode(s, t) ==
  [s EXCEPT !.nodes = RemoveAt(@, PosOf(@, t)),
            !.pnode = [@ EXCEPT ![t] = "null"]]

(* Task t wakes, in the list of ready tasks unless it is still running, on *)
(* its way out of the call that made it wait.                              *)
Wake(s, t) ==
  IF t = s.k.TCBRunning THEN [s EXCEPT !.k.state[t] = "RUNNING"] ELSE InsertReady(s, t)

EndDelay(s, t) == IF s.delayTick[t] # NoDelay THEN RemoveDelayList(s, t) ELSE s

RemoveFromLink(s, t) ==
  Wake([EndDelay(RemoveLinkNode(s, t), t) EXCEPT !.pnode = [@ EXCEPT ![t] = "set"]], t)

-----------------------------------------------------------------------------
(* The tick and the delay list. *)

(* The head of the delay list times out.                                   *)
TimeOut(s) ==
  LET t  == Head(s.DlyList)
      s1 == IF s.eventID[t] # NoEvent THEN RemoveEventWaittingList(s, t) ELSE s
      s2 == IF s1.pnode[t] # "null" THEN RemoveLinkNode(s1, t) ELSE s1
  IN  InsertReady([s2 EXCEPT !.delayTick = [@ EXCEPT ![t] = NoDelay],
                             !.DlyList   = Tail(@)], t)

TimeDispose(s) ==
  LET n == CHOOSE i \in 0 .. Len(s.DlyList) :
             /\ \A j \in 1 .. i : s.delayTick[s.DlyList[j]] = 0
             /\ i < Len(s.DlyList) => s.delayTick[s.DlyList[i + 1]] # 0
      after[i \in 0 .. n] == IF i = 0 THEN s ELSE TimeOut(after[i - 1])
  IN  after[n]

isr_TimeDispose(s) ==
  IF s.k.OSSchedLock > 1 THEN [s EXCEPT !.IsrReq = TRUE, !.TimeReq = TRUE]
                         ELSE TimeDispose(s)

(* Mutant: a delay that a locked tick has left at 0 is not looked at again. *)
TickDelaysOnce(s) ==
  LET t == Head(s.DlyList)
  IN  CASE s.DlyList = <<>> -> s
        [] s.DlyList # <<>> /\ s.delayTick[t] = 0 -> s
        [] s.DlyList # <<>> /\ s.delayTick[t] > 1 ->
             [s EXCEPT !.delayTick[t] = @ - 1]
        [] OTHER -> isr_TimeDispose([s EXCEPT !.delayTick = [@ EXCEPT ![t] = 0]])

(* What SysTick_Handler() does with the delay list.                        *)
TickDelays(s) ==
  LET t == Head(s.DlyList)
  IN  CASE s.DlyList = <<>> -> s
        [] s.DlyList # <<>> /\ s.delayTick[t] > 1 ->
             [s EXCEPT !.delayTick[t] = @ - 1]
        [] OTHER -> isr_TimeDispose([s EXCEPT !.delayTick = [@ EXCEPT ![t] = 0]])

-----------------------------------------------------------------------------
(* The queue of service requests (serviceReq.c). *)

(* Mutant: the tail is computed from the counter after its increment.      *)
InsertPastTail(s, r) ==
  [s EXCEPT !.cell   = [@ EXCEPT ![(s.cnt + 1 + s.head) % SrqSize] = r],
            !.cnt    = @ + 1,
            !.IsrReq = TRUE]

InsertInSRQ(s, r) ==
  [s EXCEPT !.cell   = [@ EXCEPT ![(s.cnt + s.head) % SrqSize] = r],
            !.cnt    = @ + 1,
            !.IsrReq = TRUE]

SrqFull(s) == s.cnt >= SrqSize

NextRequest(s) == s.cell[s.head]

TakeRequest(s) ==
  [s EXCEPT !.head = (@ + 1) % SrqSize, !.cnt = @ - 1]

(* Mutant: IsrReq falls although a request has come in.                    *)
ClearBlindly(s) == [s EXCEPT !.IsrReq = FALSE]

ClearIsrReq(s) == [s EXCEPT !.IsrReq = (s.cnt # 0)]

(* The requests in the queue, oldest first. *)
Requests(s) == [i \in 1 .. s.cnt |-> s.cell[(s.head + i - 1) % SrqSize]]
=============================================================================
