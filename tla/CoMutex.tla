------------------------------- MODULE CoMutex -------------------------------
(***************************************************************************)
(* Mutexes of CooCox CoOS (mutex.c): critical sections with priority       *)
(* inheritance, and the part of CoDelTask() that takes a task out of them. *)
(* They are composed with the services of CoSystem: an owner may be        *)
(* delayed, preempted or waiting for an event when it is promoted.         *)
(***************************************************************************)
EXTENDS CoSystem

CONSTANTS
  MaxMutex,  (* the mutexes that main() has created                           *)
  Enters,    (* <<t, m>>: task t enters and leaves mutex m                    *)
  Deletes    (* <<c, t>>: task c calls CoDelTask(t), or CoExitTask()          *)

Mutex == 0 .. MaxMutex - 1
NoMutex == MaxMutex       (* INVALID_ID in mutexID                            *)

(* No task uses two mutexes: mutexID would hold the last one only.         *)
ASSUME MutexAssumption ==
  /\ MaxMutex \in Nat
  /\ Enters \subseteq Task \X Mutex
  /\ Deletes \subseteq Task \X (Task \ {Idle})
  /\ \A a, b \in Enters : a[1] = b[1] => a = b

VARIABLES
  mx,        (* MutexTbl, and mutexID and the links of the tasks' TCBs        *)
  inside     (* history: the sections that CoEnterMutexSection() has let each *)
             (* task into and that it has not left                            *)

mvars == <<s, pc, mx, inside>>

(* mutexFlag is MUTEX_FREE where taskID is INVALID_ID.                     *)
MutexTbl == [ taskID       : [Mutex -> Link],
              hipriTaskID  : [Mutex -> Link],
              originalPrio : [Mutex -> Nat],
              waittingList : [Mutex -> Link],
              mutexID      : [Task -> Mutex \cup {NoMutex}],
              next         : [Task -> Link],
              prev         : [Task -> Link] ]

MutexTypeOK ==
  /\ TypeOK
  /\ mx \in MutexTbl
  /\ inside \in [Task -> SUBSET Mutex]

MutexInit ==
  /\ Init
  /\ mx = [ taskID       |-> [m \in Mutex |-> NoTask],
            hipriTaskID  |-> [m \in Mutex |-> NoTask],
            originalPrio |-> [m \in Mutex |-> 255],
            waittingList |-> [m \in Mutex |-> NoTask],
            mutexID      |-> [t \in Task |-> NoMutex],
            next         |-> [t \in Task |-> NoTask],
            prev         |-> [t \in Task |-> NoTask] ]
  /\ inside = [t \in Task |-> {}]

-----------------------------------------------------------------------------
(* Operators on r, the pair of the records s and mx, under the lock. *)

MutexList(r, m) == Linked(r.mx.waittingList[m], r.mx.next)

WithPrio(r, t, p) == [r EXCEPT !.s.k.prio[t] = p]

(* The most urgent priority in list if it is more urgent than p, or p.     *)
UrgentPrio(r, list, p) == Min({p} \cup {r.s.k.prio[list[i]] : i \in 1 .. Len(list)})

(* The first task of list with that priority, or none if there is none.    *)
UrgentTask(r, list, p, none) ==
  LET best == {i \in 1 .. Len(list) :
                 /\ r.s.k.prio[list[i]] < p
                 /\ r.s.k.prio[list[i]] = UrgentPrio(r, list, p)}
  IN  IF best = {} THEN none ELSE list[Min(best)]

(* Mutant: a promoted task keeps its place in the list it is in.           *)
RequeueNowhere(r, t) == r

(* A task whose priority has changed finds its place anew.                 *)
Requeue(r, t) ==
  LET e == r.s.eventID[t]
  IN  CASE r.s.k.state[t] = "READY" ->
             [r EXCEPT !.s.k = InsertToTCBRdyList(RemoveFromTCBRdyList(@, t), t)]
        [] r.s.k.state[t] # "READY" /\ e # NoEvent /\ r.s.eventSortType[e] = "prio" ->
             [r EXCEPT !.s = EventTaskToWait(RemoveEventWaittingList(@, t), e, t)]
        [] OTHER -> r

(* CoSetPriority() of the owner t of a mutex whose taskID the caller has   *)
(* set to INVALID_ID, so that t passes for a task that owns nothing, and   *)
(* the recursive call for the mutex it "waits" for ends at once.           *)
SetPriority(r, t, p) ==
  LET r1   == WithPrio(r, t, p)
      k1   == r1.s.k
      m    == r.mx.mutexID[t]
      hi   == UrgentTask(r1, MutexList(r1, m), r.mx.originalPrio[m], r.mx.taskID[m])
      r2   == IF m = NoMutex THEN r1 ELSE [r1 EXCEPT !.mx.hipriTaskID[m] = hi]
  IN  CASE k1.state[t] = "DORMANT" \/ r.s.k.prio[t] = p -> r
        [] k1.state[t] = "READY" /\ r.s.k.prio[t] # p -> Requeue(r1, t)
        [] k1.state[t] = "RUNNING" /\ r.s.k.prio[t] # p ->
             IF p > RdyPrio(k1) THEN [r1 EXCEPT !.s.k = RequestSchedule(@)] ELSE r1
        [] OTHER -> Requeue(r2, t)

-----------------------------------------------------------------------------
(* CoEnterMutexSection(). *)

Occupy(r, m, t) ==
  [r EXCEPT !.mx.originalPrio[m] = r.s.k.prio[t],
            !.mx.taskID[m]       = t,
            !.mx.hipriTaskID[m]  = t]

(* Mutant: the owner keeps its priority whoever waits.                     *)
PromoteNobody(r, m, t) == r

(* The owner gets the priority of a more urgent task that will wait.       *)
Promote(r, m, t) ==
  LET o == r.mx.taskID[m]
      p == r.s.k.prio[t]
  IN  IF r.s.k.prio[o] > p
      THEN Requeue([WithPrio(r, o, p) EXCEPT !.mx.hipriTaskID[m] = t], o)
      ELSE r

(* Mutant: the first waiter is linked behind the owner.                    *)
BlockBehindOwner(r, m, t) ==
  LET list == <<r.mx.taskID[m]>> \o MutexList(r, m)
      r1   == [r EXCEPT !.s.k = RequestSchedule([@ EXCEPT !.state[t] = "WAITING"]),
                        !.mx.next[t] = NoTask,
                        !.mx.prev[t] = Last(list)]
  IN  IF Len(list) = 1 THEN [r1 EXCEPT !.mx.waittingList[m] = t]
                       ELSE [r1 EXCEPT !.mx.next[Last(list)] = t]

(* Mutant: the last to come is the first in the list.                      *)
BlockFirst(r, m, t) ==
  [r EXCEPT !.s.k = RequestSchedule([@ EXCEPT !.state[t] = "WAITING"]),
            !.mx.waittingList[m] = t,
            !.mx.next[t]         = r.mx.waittingList[m]]

Block(r, m, t) ==
  LET list == MutexList(r, m)
      r1   == [r EXCEPT !.s.k = RequestSchedule([@ EXCEPT !.state[t] = "WAITING"]),
                        !.mx.next[t] = NoTask,
                        !.mx.prev[t] = IF list = <<>> THEN NoTask ELSE Last(list)]
  IN  IF list = <<>> THEN [r1 EXCEPT !.mx.waittingList[m] = t]
                     ELSE [r1 EXCEPT !.mx.next[Last(list)] = t]

EnterBody(r, m, t) ==
  LET r1 == [r EXCEPT !.mx.mutexID[t] = m]
  IN  IF r.mx.taskID[m] = NoTask THEN Occupy(r1, m, t)
                                 ELSE Block(Promote(r1, m, t), m, t)

-----------------------------------------------------------------------------
(* CoLeaveMutexSection(): the first waiter becomes the owner.              *)

(* The new owner gets the priority of the old one, if that was promoted,   *)
(* or else that of the most urgent waiter; the old owner gets its own      *)
(* priority back.  The TCBprev of the next waiter stays as it was.         *)
HandOn(r, m) ==
  LET o        == r.mx.taskID[m]
      list     == MutexList(r, m)
      n        == Head(list)
      first    == r.s.k.prio[n]
      promoted == r.mx.hipriTaskID[m] # o
      prio     == IF promoted THEN r.s.k.prio[o] ELSE UrgentPrio(r, list, first)
      hipri    == IF promoted THEN r.mx.hipriTaskID[m] ELSE UrgentTask(r, list, first, o)
      r1       == SetPriority([r EXCEPT !.mx.hipriTaskID[m] = hipri,
                                        !.mx.taskID[m]      = NoTask],
                              o, r.mx.originalPrio[m])
  IN  [r1 EXCEPT !.mx.waittingList[m] = r.mx.next[n],
                 !.mx.originalPrio[m] = first,
                 !.mx.taskID[m]       = n,
                 !.mx.next[n]         = NoTask,
                 !.mx.prev[n]         = NoTask,
                 !.s.k = InsertToTCBRdyList([@ EXCEPT !.prio[n] = prio], n)]

LeaveBody(r, m) ==
  LET r1 == [r EXCEPT !.mx.mutexID[r.mx.taskID[m]] = NoMutex]
  IN  IF r.mx.waittingList[m] = NoTask THEN [r1 EXCEPT !.mx.taskID[m] = NoTask]
                                       ELSE HandOn(r1, m)

-----------------------------------------------------------------------------
(* RemoveMutexList(): task t, which waits, is deleted.                     *)

(* Mutant: the list keeps its only task.                                   *)
UnlinkNothing(r, t) == [r EXCEPT !.mx.mutexID[t] = NoMutex]

(* t goes out of the list by its own links.  The head of the list is reset *)
(* only if t has no links, not if it is the first of several.              *)
Unlink(r, t) ==
  LET m    == r.mx.mutexID[t]
      next == r.mx.next[t]
      prev == r.mx.prev[t]
      only == next = NoTask /\ prev = NoTask
  IN  [r EXCEPT !.mx.mutexID[t]      = NoMutex,
                !.mx.waittingList[m] = IF only THEN NoTask ELSE @,
                !.mx.next = [u \in Task |-> CASE u = prev -> next
                                              [] u = t -> NoTask
                                              [] OTHER -> @[u]],
                !.mx.prev = [u \in Task |-> CASE u = next -> prev
                                              [] u = t -> NoTask
                                              [] OTHER -> @[u]]]

(* Mutant: the owner keeps the priority that the deleted task lent it.     *)
RemoveQuietly(r, t) == Unlink(r, t)

(* If t was the most urgent waiter, the owner's priority is set anew.      *)
RemoveMutexList(r, t) ==
  LET m    == r.mx.mutexID[t]
      o    == r.mx.taskID[m]
      r1   == Unlink(r, t)
      list == MutexList(r1, m)
      own  == r.mx.originalPrio[m]
      r2   == SetPriority([r1 EXCEPT !.mx.hipriTaskID[m] = UrgentTask(r1, list, own, o),
                                     !.mx.taskID[m]      = NoTask],
                          o, UrgentPrio(r1, list, own))
  IN  IF r.mx.hipriTaskID[m] = t THEN [r2 EXCEPT !.mx.taskID[m] = o] ELSE r1

(* TCBprev of t leads out of the list, into whatever list that task is in. *)
LeadsAstray(t) == mx.prev[t] # NoTask /\ mx.next[mx.prev[t]] # t

-----------------------------------------------------------------------------
(* The calls.  val is the mutex, or the task to delete.                    *)
World == [s |-> Lock(s), mx |-> mx]

Becomes(r) == s' = r.s /\ mx' = r.mx

(* A task does not enter the section it is in.                             *)
CoEnterMutexSection(t, m) ==
  /\ Runs(t, "user") /\ <<t, m>> \in Enters /\ m \notin inside[t]
  /\ s.k.OSSchedLock = 0
  /\ Becomes(EnterBody(World, m, t))
  /\ pc' = [pc EXCEPT ![t] = [Rest("entered") EXCEPT !.at = "unlock", !.val = m]]
  /\ UNCHANGED inside

EnterReturns(t) ==
  /\ Runs(t, "entered")
  /\ inside' = [inside EXCEPT ![t] = @ \cup {pc[t].val}]
  /\ Return(t)
  /\ UNCHANGED <<s, mx>>

CoLeaveMutexSection(t, m) ==
  /\ Runs(t, "user") /\ m \in inside[t]
  /\ Becomes(LeaveBody(World, m))
  /\ inside' = [inside EXCEPT ![t] = @ \ {m}]
  /\ Unlocks(t, "user")

(* CoDelTask(): its checks; CoLeaveMutexSection() for a task that was an   *)
(* owner at the check; and the deletion proper.                            *)
Owns(x) == mx.mutexID[x] # NoMutex /\ mx.taskID[mx.mutexID[x]] = x

CallDel(t, x) ==
  /\ Runs(t, "user") /\ <<t, x>> \in Deletes
  /\ s.k.state[x] # "DORMANT"
  /\ s.k.state[x] = "RUNNING" => s.k.OSSchedLock = 0
  /\ pc' = [pc EXCEPT ![t] = [Rest(IF Owns(x) THEN "leave" ELSE "del")
                                EXCEPT !.val = x]]
  /\ UNCHANGED <<s, mx, inside>>

(* A call that would work on MutexTbl[INVALID_ID], or on the links of a    *)
(* list it knows nothing of, ends "wild": what it does is not modelled.    *)
Wild(t) ==
  /\ pc' = [pc EXCEPT ![t].at = "wild"]
  /\ UNCHANGED <<s, mx, inside>>

DelLeaves(t) ==
  LET x == pc[t].val
      m == mx.mutexID[x]
  IN  /\ Runs(t, "leave")
      /\ IF m = NoMutex THEN Wild(t)
         ELSE /\ Becomes(LeaveBody(World, m))
              /\ inside' = [inside EXCEPT ![x] = {}]
              /\ Unlocks(t, "del")

(* The task leaves the lists that its state and its links say it is in.    *)
OutOfLists(r, x) ==
  LET r1 == IF r.s.delayTick[x] # NoDelay
            THEN [r EXCEPT !.s = RemoveDelayList(@, x)] ELSE r
      r2 == IF r1.s.eventID[x] # NoEvent
            THEN [r1 EXCEPT !.s = RemoveEventWaittingList(@, x)] ELSE r1
  IN  CASE r.s.k.state[x] = "READY" ->
             [r EXCEPT !.s.k = RemoveFromTCBRdyList(@, x)]
        [] r.s.k.state[x] = "WAITING" ->
             IF r.mx.mutexID[x] # NoMutex THEN RemoveMutexList(r2, x) ELSE r2
        [] OTHER -> r

CoDelTask(t) ==
  LET x == pc[t].val
      r == OutOfLists(World, x)
  IN  /\ Runs(t, "del")
      /\ IF s.k.state[x] = "WAITING" /\ mx.mutexID[x] # NoMutex /\ LeadsAstray(x)
         THEN Wild(t)
         ELSE /\ Becomes([r EXCEPT
                   !.mx.next[x] = IF r.s.k.FreeTCB = <<>> THEN NoTask
                                                          ELSE Head(r.s.k.FreeTCB),
                   !.s.k = [RequestSchedule(@) EXCEPT !.state[x] = "DORMANT",
                                                      !.FreeTCB  = <<x>> \o @]])
              /\ inside' = [inside EXCEPT ![x] = {}]
              /\ Unlocks(t, "user")

-----------------------------------------------------------------------------
(* What a call does once it is made. *)
MutexFinish(t) ==
  \/ Finish(t) /\ UNCHANGED <<mx, inside>>
  \/ EnterReturns(t) \/ DelLeaves(t) \/ CoDelTask(t)

MutexCall(t) ==
  \/ Call(t) /\ UNCHANGED <<mx, inside>>
  \/ \E m \in Mutex : CoEnterMutexSection(t, m) \/ CoLeaveMutexSection(t, m)
  \/ \E x \in Task : CallDel(t, x)

MutexNext ==
  \/ \E t \in Task : MutexFinish(t) \/ MutexCall(t)
  \/ Exception /\ UNCHANGED <<mx, inside>>

(* The timer never stops, exceptions are taken, kernel sections end, and a *)
(* task that runs leaves the section it is in.  No task is obliged to any  *)
(* other call, least of all to give up the processor.                      *)
MutexFairness ==
  /\ WF_vars(PendSV)
  /\ SF_vars(SysTick_Handler)
  /\ WF_vars(Unlock(Tmr))
  /\ SF_mvars(\E t \in Task : MutexFinish(t))
  /\ \A a \in Enters : SF_mvars(CoLeaveMutexSection(a[1], a[2]))

MutexSpec == MutexInit /\ [][MutexNext]_mvars

MutexFairSpec == MutexSpec /\ MutexFairness

-----------------------------------------------------------------------------
Waiters(m) == ElementsOf(MutexList([mx |-> mx], m))

AwaitsMutex(t, m) == mx.mutexID[t] = m /\ mx.taskID[m] # t

(* No list of the kernel is broken by the mutexes, which thread theirs     *)
(* through the same links: the list of a mutex holds each task that waits  *)
(* for it once, a waiting task waits for an event, a delay or a mutex, and *)
(* for one mutex only while it is in no other list; the lists by priority  *)
(* stay sorted when an owner that is in them is promoted.                  *)
MutexListsSound ==
  /\ QueuesSound
  /\ \A m \in Mutex :
       /\ IsInjective(MutexList([mx |-> mx], m))
       /\ Waiters(m) = {t \in Task : AwaitsMutex(t, m)}
       /\ mx.taskID[m] # NoTask => mx.mutexID[mx.taskID[m]] = m
       /\ mx.taskID[m] = NoTask => Waiters(m) = {}
  /\ \A t \in Task :
       LET elsewhere == \/ s.eventID[t] # NoEvent \/ s.delayTick[t] # NoDelay
                        \/ s.pnode[t] = "node"
           here      == \E m \in Mutex : t \in Waiters(m)
       IN  /\ s.k.state[t] = "WAITING" <=> elsewhere \/ here
           /\ ~(elsewhere /\ here)

(* No owner is less urgent than a task that waits for it, in whatever      *)
(* order and state they were promoted, handed the mutex or deleted.        *)
NoInversion ==
  \A m \in Mutex : \A t \in Waiters(m) : s.k.prio[mx.taskID[m]] <= s.k.prio[t]

(* No call of CoDelTask() meets a mutex or links that are not what it took *)
(* them for.                                                               *)
NoWildCall == \A t \in Task : pc[t].at # "wild"

(* Each mutex is a lock with one owner and a queue: it goes to those who   *)
(* wait in the order they came, and only a task that is deleted loses its  *)
(* turn, and no other with it.  It holds where no task is deleted while    *)
(* another waits behind it.                                                *)
Abstract == INSTANCE CoLock WITH
  LockId <- Mutex, Client <- Task, NoClient <- NoTask, owner <- mx.taskID,
  gone <- {t \in Task : s.k.state[t] = "DORMANT"},
  queue <- [m \in Mutex |-> MutexList([mx |-> mx], m)]

MutexIsLock == Abstract!Spec

(* Every priority is the one the application gave, raised to that of the   *)
(* most urgent task that waits for a mutex the task owns, and no further,  *)
(* also when that waiter is deleted.  It holds for two tasks at a mutex.   *)
Lent(t) == {s.k.prio[u] : u \in UNION {Waiters(m) : m \in {n \in Mutex : mx.taskID[n] = t}}}

PriorityExact ==
  \A t \in Task : s.k.state[t] # "DORMANT" =>
    s.k.prio[t] = Min({Setup[s.app].prio[t]} \cup Lent(t))

(* A task that neither owns nor awaits a mutex has the priority that the   *)
(* application gave it: what a mutex lent it has been reset.               *)
PriorityRestored ==
  \A t \in Task : mx.mutexID[t] = NoMutex => s.k.prio[t] = Setup[s.app].prio[t]

(* A task waits for a mutex only as long as its owner is inside or tasks   *)
(* more urgent than itself keep the processor; one of a priority between   *)
(* it and its owner that never stops does not keep it waiting.             *)
Outranked(t) == s.k.prio[s.k.TCBRunning] < s.k.prio[t]

MutexServes ==
  \A a \in Enters : AwaitsMutex(a[1], a[2]) ~> ~AwaitsMutex(a[1], a[2]) \/ Outranked(a[1])
=============================================================================
