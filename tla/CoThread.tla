------------------------------ MODULE CoThread ------------------------------
(***************************************************************************)
(* The contexts that run the services of CooCox CoOS: tasks, the system    *)
(* tick and device interrupts, OsSchedUnlock() with the requests it serves *)
(* (core.c, serviceReq.c), and CoTickDelay() (time.c).  The tasks are      *)
(* created before CoStartOS() and stay; CoSched is about their management. *)
(*                                                                         *)
(* A thread is cut where another context can see or change what it works   *)
(* on: at the end of every locked section, inside OsSchedUnlock(), where   *)
(* device interrupts queue requests, and between a check made without the  *)
(* lock and the section it guards.                                         *)
(***************************************************************************)
EXTENDS CoService, FiniteSetsExt

CONSTANTS
  Setup,  (* what main() creates in each application before CoStartOS()       *)
  Calls   (* the calls each task, and the requests devices, make in each      *)

MaxCount == 65535         (* eventCounter is a U16                            *)

(* Setup: the number of tasks, besides idle, and their priorities; the     *)
(* events, flags and timers; the flags that are reset automatically; the   *)
(* semaphores used as locks, which a task posts only when it has got them; *)
(* and the timers that are started only with a count and set only while    *)
(* they are stopped.                                                       *)
EventSetup == [type : EventType, sort : {"fifo", "prio"}, count : Nat, max : 0 .. MaxCount]
TimerSetup == [type : {"oneshot", "periodic"}, cnt : Nat, reload : Nat,
               callback : Event \cup {NoEvent}]

AppSetup == [ tasks : 0 .. MaxTask, prio : [Task -> Prio],
              events : Seq(EventSetup), timers : Seq(TimerSetup),
              flags : SUBSET Flag, auto : SUBSET Flag, locks : SUBSET Event,
              counted : SUBSET Timer ]

(* Calls: of each service the arguments of the calls, the calling task     *)
(* first, which is not the idle task, whose loop calls nothing; isr holds  *)
(* the requests of the devices.                                            *)
Caller == Task \ {Idle}
DeviceRequest ==
  ({"sem"} \X Event \X {NoMail}) \cup ({"mbox", "queue"} \X Event \X Mail)
    \cup ({"flag"} \X Flag \X {NoMail})
FlagType == {"one", "any", "all"}
DelOpt == {"nopend", "anyway"}

ArgumentTypes ==
  [ delay       |-> Caller \X Nat,
    renew       |-> Caller \X Task \X Nat,
    pendSem     |-> Caller \X Event \X Nat,
    postSem     |-> Caller \X Event,
    acceptSem   |-> Caller \X Event,
    pendMail    |-> Caller \X Event \X Nat,
    postMail    |-> Caller \X Event \X Mail,
    acceptMail  |-> Caller \X Event,
    create      |-> Caller \X EventType \X {"fifo", "prio"} \X Nat \X (0 .. MaxCount),
    delete      |-> Caller \X Event \X DelOpt,
    waitFlags   |-> Caller \X (SUBSET Flag) \X FlagType \X Nat,
    acceptFlags |-> Caller \X (SUBSET Flag) \X FlagType,
    setFlag     |-> Caller \X Flag,
    clearFlag   |-> Caller \X Flag,
    createFlag  |-> Caller \X BOOLEAN \X BOOLEAN,
    delFlag     |-> Caller \X Flag \X DelOpt,
    createTmr   |-> Caller \X {"oneshot", "periodic"} \X Nat \X Nat,
    startTmr    |-> Caller \X Timer,
    stopTmr     |-> Caller \X Timer,
    setTmr      |-> Caller \X Timer \X Nat \X Nat,
    delTmr      |-> Caller \X Timer,
    isr         |-> DeviceRequest ]

Services == DOMAIN ArgumentTypes

(* The queue control block of event e, if e is a queue.                    *)
QueueOf(events, e) == Cardinality({i \in 1 .. e : events[i].type = "queue"})

ASSUME ThreadAssumption ==
  \A a \in App :
    /\ Setup[a] \in AppSetup
    /\ Len(Setup[a].events) <= MaxEvent /\ Len(Setup[a].timers) <= MaxTimer
    /\ \A i \in 1 .. Len(Setup[a].events) :
         /\ Setup[a].events[i].count <= Setup[a].events[i].max
         /\ Setup[a].events[i].type = "queue" => Setup[a].events[i].max \in 1 .. MaxCell
    /\ QueueOf(Setup[a].events, Len(Setup[a].events)) <= MaxQueue
    /\ DOMAIN Calls[a] = Services
    /\ \A op \in Services : Calls[a][op] \subseteq ArgumentTypes[op]

Tmr == MaxTask + 1        (* the context of SysTick_Handler                   *)
Context == Task \cup {Tmr}

VARIABLES
  s,      (* the system record of CoEvent                                     *)
  pc      (* where every context is                                           *)

vars == <<s, pc>>

UnlockPlaces == { "unlock", "time", "reset", "timers", "timersReset", "drain", "clear",
                  "sched", "release" }
DelayPlaces == { "renew", "renewed" }
EventPlaces == { "block", "woken", "timed", "post", "accept", "store" }
ControlPlaces == { "init", "queued", "filled", "nopend", "ready", "emptied", "push", "bit",
                   "unbit", "wipe" }
FlagPlaces == { "take", "flagged", "flagtimed", "set", "setf", "walk", "clearf" }
TimerPlaces == { "fill", "insert", "remove", "stopped", "gone", "free" }
MutexPlaces == { "entered", "leave", "del", "wild" }     (* of CoMutex *)
At == {"off", "user"} \cup UnlockPlaces \cup DelayPlaces \cup EventPlaces \cup ControlPlaces
        \cup FlagPlaces \cup TimerPlaces \cup MutexPlaces

(* ret is where a context goes on after its OsSchedUnlock(); id, ticks and *)
(* val are the event or timer, the timeout, and the mail, the loaded       *)
(* counter or another value of its call, flags a loaded set of flags, and  *)
(* ids a loaded set of the ids of queues or timers.                        *)
Thread == [at : At, ret : At, id : Nat, ticks : Nat, val : Nat, flags : SUBSET Flag,
           ids : SUBSET Nat]

Rest(at) ==
  [at |-> at, ret |-> at, id |-> 0, ticks |-> 0, val |-> 0, flags |-> {}, ids |-> {}]

TypeOK ==
  /\ s \in System
  /\ pc \in [Context -> Thread]

(* The READY list after the creation of the tasks, in the order of their   *)
(* ids, when CoStartOS() has taken the idle task out of it.                *)
CreatedReady(tasks, prio) ==
  LET list[n \in 0 .. tasks] ==
        IF n = 0 THEN <<>>
        ELSE InsertAt(list[n - 1], InsertPos(list[n - 1], prio, prio[n]), n)
  IN  list[tasks]

(* A TCB without a task counts as dormant here, the last one too.          *)
StartKernel(tasks, prio) ==
  [ state        |-> [t \in Task |-> IF t = Idle THEN "RUNNING"
                                     ELSE IF t <= tasks THEN "READY" ELSE "DORMANT"],
    prio         |-> prio,
    TCBRdy       |-> CreatedReady(tasks, prio),
    FreeTCB      |-> [i \in 1 .. MaxTask - tasks |-> tasks + i],
    TCBRunning   |-> Idle,
    TCBNext      |-> Idle,
    OSSchedLock  |-> 1,
    OSIntNesting |-> 0,
    TaskSchedReq |-> TRUE,
    robin        |-> -1,
    PendSV       |-> FALSE ]

FreshQueue(q, size) ==
  [id |-> q, head |-> 0, tail |-> 0, qSize |-> 0, qMaxSize |-> size,
   qStart |-> [i \in 0 .. MaxCell - 1 |-> NoMail]]

FreshTimer(c) ==
  [tmrType |-> c.type, tmrState |-> "stopped", tmrCnt |-> c.cnt, tmrReload |-> c.reload,
   tmrCallBack |-> c.callback, tmrNext |-> NoTimer, tmrPrev |-> NoTimer]

NoTimerSetup == [type |-> "oneshot", cnt |-> 0, reload |-> 0, callback |-> NoEvent]

StartSystem(a, u) ==
  LET n       == Len(u.events)
      ev(e)   == u.events[e + 1]
      queues  == {e \in 0 .. n - 1 : ev(e).type = "queue"}
      size(q) == LET e == CHOOSE e \in queues : QueueOf(u.events, e) = q IN ev(e).max
      used    == {QueueOf(u.events, e) : e \in queues}
  IN  [ app                 |-> a,
        k                   |-> StartKernel(u.tasks, u.prio),
        eventType           |-> [e \in Event |-> IF e < n THEN ev(e).type ELSE "invalid"],
        eventSortType       |-> [e \in Event |-> IF e < n THEN ev(e).sort ELSE "fifo"],
        eventCounter        |-> [e \in Event |-> IF e < n THEN ev(e).count ELSE 0],
        initialEventCounter |-> [e \in Event |-> IF e < n THEN ev(e).max ELSE 0],
        eventPtr            |-> [e \in Event |-> IF e \in queues THEN QueueOf(u.events, e)
                                                                 ELSE NoMail],
        eventTCBList        |-> [e \in Event |-> NoTask],
        FreeEventList       |-> [i \in 1 .. MaxEvent - n |-> n + i - 1],
        eventID             |-> [t \in Task |-> NoEvent],
        waitNext            |-> [t \in Task |-> NoTask],
        waitPrev            |-> [t \in Task |-> NoTask],
        pmail               |-> [t \in Task |-> NoMail],
        QueueTbl            |-> [q \in Queue |-> IF q \in used THEN FreshQueue(q, size(q))
                                                            ELSE FreshQueue(0, 0)],
        QueueIDVessel       |-> used,
        flagActive          |-> u.flags,
        flagRdy             |-> {},
        resetOpt            |-> u.auto,
        nodes               |-> <<>>,
        pnode               |-> [t \in Task |-> "null"],
        waitFlags           |-> [t \in Task |-> {}],
        waitType            |-> [t \in Task |-> "one"],
        DlyList             |-> <<>>,
        delayTick           |-> [t \in Task |-> NoDelay],
        TmrTbl              |-> [i \in Timer |-> FreshTimer(IF i < Len(u.timers)
                                                            THEN u.timers[i + 1]
                                                            ELSE NoTimerSetup)],
        TmrList             |-> NoTimer,
        TmrIDVessel         |-> 0 .. Len(u.timers) - 1,
        cell                |-> [i \in Cells |-> NoRequest],
        cnt                 |-> 0,
        head                |-> 0,
        IsrReq              |-> FALSE,
        TimeReq             |-> FALSE,
        TimerReq            |-> FALSE,
        balance             |-> [e \in Event |-> IF e < n THEN ev(e).count ELSE 0],
        holds               |-> [t \in Task |-> {}],
        out                 |-> {} ]

Init ==
  /\ \E a \in App : s = StartSystem(a, Setup[a])
  /\ pc = [c \in Context |-> CASE c = Tmr  -> Rest("off")
                               [] c = Idle -> [Rest("user") EXCEPT !.at = "unlock"]
                               [] OTHER    -> Rest("user")]

-----------------------------------------------------------------------------
(* The contexts.  PendSV and SysTick do not preempt each other. *)
Runs(c, at) ==
  /\ pc[c].at = at
  /\ c # Tmr => /\ c = s.k.TCBRunning
                /\ ~s.k.PendSV
                /\ pc[Tmr].at = "off"

(* The call c of a service is made, by the task that it names first.       *)
Makes(op, c) == Runs(c[1], "user") /\ c \in Calls[s.app][op]

(* The arguments of the calls of a service.                                *)
Arguments(op) == {Tail(c) : c \in Calls[s.app][op]}

Goto(c, at) == pc' = [pc EXCEPT ![c].at = at]

(* On to OsSchedUnlock(), and from there to ret. *)
Unlocks(c, ret) == pc' = [pc EXCEPT ![c].at = "unlock", ![c].ret = ret]

(* To ret; a call that is over leaves nothing behind.                      *)
Continue(c) ==
  pc' = [pc EXCEPT ![c] = IF pc[c].ret \in {"user", "off"}
                              THEN Rest(pc[c].ret)
                              ELSE [pc[c] EXCEPT !.at = pc[c].ret]]

Return(t) == pc' = [pc EXCEPT ![t] = Rest("user")]

(* Nobody empties the waiting list of e, to delete the event.              *)
Live(e) ==
  \A t \in Task : pc[t].id = e => {pc[t].at, pc[t].ret} \cap {"ready", "emptied"} = {}

Lock(r) == [r EXCEPT !.k = OsSchedLock(@)]

(* OsSchedUnlock() and the RespondSRQ() it calls. *)
UnlockNested(c) ==
  /\ Runs(c, "unlock") /\ s.k.OSSchedLock # 1
  /\ s' = [s EXCEPT !.k.OSSchedLock = @ - 1]
  /\ Continue(c)

UnlockLast(c) ==
  /\ Runs(c, "unlock") /\ s.k.OSSchedLock = 1
  /\ Goto(c, IF s.IsrReq THEN "time" ELSE "sched")
  /\ UNCHANGED s

(* Without timers (CFG_TMR_EN) there is no request of theirs to look at.   *)
AfterTime == IF MaxTimer = 0 THEN "drain" ELSE "timers"

RespondTime(c) ==
  /\ Runs(c, "time")
  /\ s' = IF s.TimeReq THEN TimeDispose(s) ELSE s
  /\ Goto(c, IF s.TimeReq THEN "reset" ELSE AfterTime)

RespondReset(c) ==
  /\ Runs(c, "reset")
  /\ s' = [s EXCEPT !.TimeReq = FALSE]
  /\ Goto(c, AfterTime)

RespondTimers(c) ==
  /\ Runs(c, "timers")
  /\ s' = IF s.TimerReq THEN TmrDispose(s) ELSE s
  /\ Goto(c, IF s.TimerReq THEN "timersReset" ELSE "drain")

RespondTimersReset(c) ==
  /\ Runs(c, "timersReset")
  /\ s' = [s EXCEPT !.TimerReq = FALSE]
  /\ Goto(c, "drain")

RespondDrain(c) ==
  /\ Runs(c, "drain") /\ s.cnt # 0
  /\ s' = ServeRequest(s)
  /\ UNCHANGED pc

RespondDone(c) ==
  /\ Runs(c, "drain") /\ s.cnt = 0
  /\ Goto(c, "clear")
  /\ UNCHANGED s

RespondClear(c) ==
  /\ Runs(c, "clear")
  /\ s' = ClearIsrReq(s)
  /\ Goto(c, "sched")

UnlockSched(c) ==
  /\ Runs(c, "sched")
  /\ s' = [s EXCEPT !.k = UnlockSchedule(@)]
  /\ Goto(c, "release")

UnlockRelease(c) ==
  /\ Runs(c, "release")
  /\ s' = [s EXCEPT !.k.OSSchedLock = 0]
  /\ Continue(c)

Unlock(c) ==
  \/ UnlockNested(c) \/ UnlockLast(c)
  \/ RespondTime(c) \/ RespondReset(c)
  \/ RespondTimers(c) \/ RespondTimersReset(c)
  \/ RespondDrain(c) \/ RespondDone(c) \/ RespondClear(c)
  \/ UnlockSched(c) \/ UnlockRelease(c)

-----------------------------------------------------------------------------
(* CoTickDelay(), and CoTimeDelay() with the time it makes of its units.   *)
CoTickDelay(t, ticks) ==
  /\ Makes("delay", <<t, ticks>>)
  /\ s.k.OSSchedLock = 0
  /\ s' = InsertDelayList(Lock(s), t, ticks)
  /\ Unlocks(t, "user")

(* A task renews the delay of task u in a CoSchedLock() section of its own: *)
(* CoResetTaskDelayTick() looks at the delay before it locks, and works on *)
(* the wrong list if the tick ends the delay in between.                   *)
EntersSection(t, u, ticks) ==
  /\ Makes("renew", <<t, u, ticks>>)
  /\ s' = Lock(s)
  /\ pc' = [pc EXCEPT ![t] = [Rest("user") EXCEPT !.at = "renew", !.id = u, !.ticks = ticks]]

CoResetTaskDelayTick(t) ==
  LET u       == pc[t].id
      removed == RemoveDelayList(Lock(s), u)
  IN  /\ Runs(t, "renew")
      /\ IF s.delayTick[u] = NoDelay
         THEN Goto(t, "renewed") /\ UNCHANGED s
         ELSE /\ s' = IF pc[t].ticks = 0 THEN InsertReady(removed, u)
                                         ELSE InsertDelayList(removed, u, pc[t].ticks)
              /\ Unlocks(t, "renewed")

LeavesSection(t) == Runs(t, "renewed") /\ Unlocks(t, "user") /\ UNCHANGED s

DelayFinish(t) == CoResetTaskDelayTick(t) \/ LeavesSection(t)

DelayCall(t) ==
  \/ \E c \in Arguments("delay") : CoTickDelay(t, c[1])
  \/ \E c \in Arguments("renew") : EntersSection(t, c[1], c[2])

(* A delay is ended, by renewing it with 0 ticks, only of a task that waits *)
(* for nothing else; the event and the flag are told nothing.              *)
RenewRules ==
  \A a \in App : \A c \in Calls[a].renew :
    /\ c[2] # c[1]
    /\ c[3] = 0 => \A op \in {"pendSem", "pendMail", "waitFlags"} :
                     \A d \in Calls[a][op] : d[1] # c[2]

(* The exceptions. *)
PendSV ==
  /\ s.k.PendSV /\ pc[Tmr].at = "off"
  /\ s' = [s EXCEPT !.k = PendSV_Handler(@)]
  /\ UNCHANGED pc

SysTick_Handler ==
  /\ pc[Tmr].at = "off" /\ ~s.k.PendSV
  /\ s' = Tick(s)
  /\ Unlocks(Tmr, "off")

(* A device handler that posts or sets a flag, between CoEnterISR() and    *)
(* CoExitISR().  It does not use a buffer again before it was received.    *)
DeviceISR(q) ==
  /\ q[3] \notin s.out
  /\ LET entered == [s EXCEPT !.k = CoEnterISR(@)]
     IN  s' = [isr_Request(entered, q) EXCEPT !.k = CoExitISR(@)]
  /\ UNCHANGED pc

Exception ==
  \/ Unlock(Tmr) \/ PendSV \/ SysTick_Handler
  \/ \E q \in Calls[s.app].isr : DeviceISR(q)

-----------------------------------------------------------------------------
ElementsOf(list) == {list[i] : i \in 1 .. Len(list)}

(* The links of a waiting list agree in both directions and lead to each   *)
(* task that waits for the event once, the most urgent first where the     *)
(* event says so.                                                          *)
WaitListSound(e) ==
  LET list == WaitList(s, e)
  IN  /\ IsInjective(list)
      /\ ElementsOf(list) = {t \in Task : s.eventID[t] = e}
      /\ \A i \in 1 .. Len(list) :
           s.waitPrev[list[i]] = (IF i = 1 THEN NoTask ELSE list[i - 1])
      /\ s.eventSortType[e] = "prio" =>
           \A i, j \in 1 .. Len(list) : i < j => s.k.prio[list[i]] <= s.k.prio[list[j]]

QueuesSound ==
  /\ \A e \in Event : s.eventType[e] # "invalid" => WaitListSound(e)
  /\ \A t \in Task :
       IF s.eventID[t] = NoEvent THEN s.waitNext[t] = NoTask /\ s.waitPrev[t] = NoTask
                                 ELSE s.eventType[s.eventID[t]] # "invalid"
  /\ IsInjective(s.DlyList) /\ IsInjective(s.k.TCBRdy) /\ IsInjective(s.nodes)
  /\ ElementsOf(s.DlyList) = {t \in Task : s.delayTick[t] # NoDelay}
  /\ ElementsOf(s.k.TCBRdy) = {t \in Task : s.k.state[t] = "READY"}
  /\ ElementsOf(s.nodes) = {t \in Task : s.pnode[t] = "node"}

(* No list of the kernel is broken or holds a task it should not: besides  *)
(* the waiting lists, the delay list holds each task with a timeout once,  *)
(* the list of nodes each task that waits for flags, the READY list each   *)
(* ready task, a task in one of the first three is waiting, so in no READY *)
(* list, and nobody waits in the list of an event that has been deleted.   *)
ListsSound ==
  /\ QueuesSound
  /\ \A t \in Task :
       s.eventID[t] # NoEvent \/ s.delayTick[t] # NoDelay \/ s.pnode[t] = "node"
         <=> s.k.state[t] = "WAITING"

(* The ring of service requests is a bounded FIFO queue: nothing that an   *)
(* isr_ function has accepted is overwritten, served twice or overtaken.   *)
Srq == INSTANCE CoFifo WITH Item <- Request, Size <- SrqSize, queue <- Requests(s)

SrqIsFifo == Srq!Spec

(* The ticks a delayed task still has to wait.                             *)
TicksLeft(r, t) == Due(r)[PosOf(r.DlyList, t)]

TickStep == pc[Tmr].at = "off" /\ pc'[Tmr].at # "off"

(* The wait of t ends with what it waited for, or with the deletion of it. *)
WaitEnds(t) ==
  \/ s.pmail[t] = NoMail /\ s'.pmail[t] # NoMail
  \/ s.pnode[t] = "node" /\ s'.pnode[t] = "set"
  \/ \E u \in Task : pc[u].at = "ready"

(* The task that renews the delay of t, if one does.                       *)
Renewing(t) ==
  {u \in Task : pc[u].at = "renew" /\ pc[u].id = t /\ pc'[u].at # "renew"}

(* No wait ends early: only the tick shortens it, by one, whoever is put   *)
(* into the delay list or taken out of it, and a task that leaves the list *)
(* before its time has got what it waits for.  A renewed delay is as long  *)
(* as was asked for.                                                       *)
DelaysKept ==
  [][\A t \in Task : s.delayTick[t] # NoDelay =>
       LET left == TicksLeft(s, t)
           now  == left - (IF TickStep THEN 1 ELSE 0)
           wish == {pc[u].ticks : u \in Renewing(t)}
       IN  IF s'.delayTick[t] # NoDelay
           THEN TicksLeft(s', t) \in (IF wish = {} THEN {left, now} ELSE wish)
           ELSE now <= 0 \/ WaitEnds(t) \/ wish = {0}]_vars

(* Every delay and every timeout ends, although a tick that comes in a     *)
(* locked section only leaves a request, provided that the devices let the *)
(* queue of requests run empty now and then.                               *)
Waiting(t) == s.delayTick[t] # NoDelay

DelaysEnd == ([]<>(s.cnt = 0)) => \A t \in Task \ {Idle} : Waiting(t) ~> ~Waiting(t)

(* Every queued request is served, although the last look at IsrReq and    *)
(* the release of the lock are two steps.                                  *)
Queued(i) == s.cnt # 0 /\ s.head = i

RequestsServed == \A i \in Cells : Queued(i) ~> ~Queued(i)

(* A ready task more urgent than the running one and than all other ready  *)
(* tasks gets the processor, or stops being that task, whatever locked     *)
(* sections, interrupts and service requests put the switch off, provided  *)
(* that the queue of requests runs empty now and then.                     *)
Urgent(t) ==
  /\ t \in ToSet(s.k.TCBRdy)
  /\ s.k.prio[t] < s.k.prio[s.k.TCBRunning]
  /\ \A u \in ToSet(s.k.TCBRdy) \ {t} : s.k.prio[t] < s.k.prio[u]

UrgentRuns == ([]<>(s.cnt = 0)) => \A t \in Task : Urgent(t) ~> ~Urgent(t)
=============================================================================
