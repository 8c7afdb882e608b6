--------------------------- MODULE CoSchedProofs ----------------------------
(***************************************************************************)
(* Theorems about CoSched, for every number of tasks and of priorities and *)
(* for every application: any set of calls, racing or not.                 *)
(***************************************************************************)
EXTENDS CoSched, CoKernelProofs

(* Type correctness needs the accounting of the lock: OsSchedUnlock()      *)
(* decrements a counter that must not be 0 then.  And the accounting needs *)
(* that a thread about to store 0 into OSSchedLock has no section open.    *)
ReleaseClosed == \A t \in Task : pc[t].at = "release" => sect[t] = 0

LockInv == TypeOK /\ LockAccounting /\ ReleaseClosed

(* Task ids are naturals; the idle task and main_task are two of them.     *)
LEMMA TaskFacts ==
  /\ Idle \in Task /\ Main \in Task /\ MaxTask \in Task
  /\ Prios \subseteq Nat
BY KernelAssumption, SchedAssumption DEF Task, Idle, Main, Prio

(* The accounts are right when CoStartOS() unlocks the scheduler for the   *)
(* first time.                                                             *)
LEMMA LockInit == Init => LockInv
<1> SUFFICES ASSUME Init  PROVE LockInv
  OBVIOUS
<1>1. PICK p \in Prios, r \in {-1, 0} :
       k = [ state        |-> [t \in Task |-> CASE t = Idle -> "RUNNING"
                                                [] t = Main -> "READY"
                                                [] OTHER -> CreatedState[t]],
             prio         |-> [t \in Task |-> CASE t = Idle -> LowestPrio
                                                [] t = Main -> p
                                                [] OTHER -> 0],
             TCBRdy       |-> <<Main>>,
             FreeTCB      |-> FreeTCBs(2),
             TCBRunning   |-> Idle,
             TCBNext      |-> Idle,
             OSSchedLock  |-> 1,
             OSIntNesting |-> 0,
             TaskSchedReq |-> TRUE,
             robin        |-> r,
             PendSV       |-> FALSE ]
  BY DEF Init
<1>2. FreeTCBs(2) \in Seq(Task)
  <2>1. MaxTask + 1 - 2 \in Nat  BY KernelAssumption
  <2>2. FreeTCBs(2) \in [1 .. MaxTask + 1 - 2 -> Task]
    BY <2>1, KernelAssumption DEF Task, FreeTCBs
  <2> QED  BY <2>1, <2>2, SeqDef
<1>3. <<Main>> \in Seq(Task)
  BY TaskFacts
<1>4. [t \in Task |-> CASE t = Idle -> "RUNNING"
                        [] t = Main -> "READY"
                        [] OTHER -> CreatedState[t]] \in [Task -> TaskState]
  <2>1. CreatedState \in [Task -> TaskState]  BY DEF CreatedState, TaskState
  <2> QED  BY <2>1 DEF TaskState
<1>5. [t \in Task |-> CASE t = Idle -> LowestPrio
                        [] t = Main -> p
                        [] OTHER -> 0] \in [Task -> Nat]
  BY TaskFacts, KernelAssumption
<1>6. k \in Kernel
  BY <1>1, <1>2, <1>3, <1>4, <1>5, TaskFacts DEF Kernel
<1>7. TypeOK
  BY <1>6, TaskFacts DEF Init, TypeOK, User, Thread, At
<1>8. k.OSSchedLock = 1 /\ k.TCBRunning = Idle /\ k.PendSV = FALSE
  BY <1>1
<1>9. LockAccounting
  BY <1>8, TaskFacts DEF Init, LockAccounting, Held, User
<1>10. ReleaseClosed
  BY DEF Init, ReleaseClosed, User
<1> QED  BY <1>7, <1>9, <1>10 DEF LockInv

-----------------------------------------------------------------------------
(* A step of the running thread keeps the accounts when it does not open   *)
(* more than it locks.                                                     *)
LEMMA ThreadKeepsAccounts ==
  ASSUME LockInv, NEW t \in Task, t = k.TCBRunning, ~k.PendSV, sysTick = "off",
         k' \in Kernel, k'.TCBRunning = k.TCBRunning, sysTick' = sysTick,
         pc' \in [Task -> Thread], sect' \in [Task -> Nat], issued' \subseteq Task,
         \A u \in Task \ {t} : Held(u)' = Held(u) \/ Held(u)' = 0,
         k'.OSSchedLock >= Held(t)',
         k'.PendSV => Held(t)' = 0,
         \A u \in Task : pc'[u].at = "release" => sect'[u] = 0
  PROVE  LockInv'
<1>1. TypeOK'
  BY DEF LockInv, TypeOK
<1>2. LockAccounting'
  <2>1. \A u \in Task \ {t} : Held(u)' = 0
    BY DEF LockInv, LockAccounting
  <2>2. Held(t)' \in Nat /\ k'.OSSchedLock \in Nat
    BY DEF Held, Kernel
  <2> QED  BY <2>1, <2>2 DEF LockAccounting
<1>3. ReleaseClosed'
  BY DEF ReleaseClosed
<1> QED  BY <1>1, <1>2, <1>3 DEF LockInv

(* OsSchedUnlock() in a thread.                                            *)
LEMMA UnlockKeepsAccounts ==
  ASSUME LockInv, NEW t \in Task,
         UnlockNested(t) \/ UnlockLast(t) \/ UnlockRelease(t)
  PROVE  LockInv'
<1>1. /\ k \in Kernel /\ pc \in [Task -> Thread] /\ sect \in [Task -> Nat]
      /\ issued \subseteq Task
      /\ k.OSSchedLock \in Nat
      /\ pc[t].ret \in {"user", "fill"} /\ pc[t].tgt \in Task
  BY DEF LockInv, TypeOK, Kernel, Thread
<1>2. /\ t = k.TCBRunning /\ ~k.PendSV /\ sysTick = "off" /\ sysTick' = sysTick
      /\ sect' = sect /\ issued' = issued
  BY DEF UnlockNested, UnlockLast, UnlockRelease, Runs
<1>3. k.OSSchedLock >= Held(t)
  BY <1>1, <1>2 DEF LockInv, LockAccounting, Held
<1>0. \A u \in Task : pc[u].at = "release" => sect[u] = 0
  BY DEF LockInv, ReleaseClosed
<1>4. CASE UnlockNested(t)
  <2>1. pc' = [pc EXCEPT ![t].at = pc[t].ret] /\ pc[t].at = "unlock"
    BY <1>4 DEF UnlockNested, Runs
  <2>2. pc' \in [Task -> Thread]
    BY <1>1, <2>1 DEF Thread, At, Windows
  <2>3. /\ \A u \in Task \ {t} : Held(u)' = Held(u)
        /\ Held(t) = sect[t] + 1 /\ Held(t)' = sect[t]
    BY <1>1, <1>2, <2>1 DEF Held, Thread
  <2>4. k' = [k EXCEPT !.OSSchedLock = k.OSSchedLock - 1] /\ k.OSSchedLock # 1
    BY <1>4 DEF UnlockNested
  <2>5. k.OSSchedLock - 1 \in Nat /\ k.OSSchedLock - 1 >= sect[t]
    BY <1>1, <1>3, <2>3
  <2>6. /\ k' \in Kernel /\ k'.TCBRunning = k.TCBRunning /\ k'.PendSV = k.PendSV
        /\ k'.OSSchedLock = k.OSSchedLock - 1
    BY <1>1, <2>4, <2>5 DEF Kernel
  <2>7. \A u \in Task : pc'[u].at = "release" => sect'[u] = 0
    BY <1>0, <1>1, <1>2, <2>1 DEF Thread
  <2> QED  BY <1>1, <1>2, <2>2, <2>3, <2>5, <2>6, <2>7, ThreadKeepsAccounts
<1>5. CASE UnlockLast(t)
  <2>1. pc' = [pc EXCEPT ![t].at = "release"] /\ pc[t].at = "unlock"
    BY <1>5 DEF UnlockLast, Runs
  <2>2. pc' \in [Task -> Thread]
    BY <1>1, <2>1 DEF Thread, At, Windows
  <2>3. /\ \A u \in Task \ {t} : Held(u)' = Held(u)
        /\ Held(t) = sect[t] + 1 /\ Held(t)' = sect[t]
    BY <1>1, <1>2, <2>1 DEF Held, Thread
  <2>4. k' = UnlockSchedule(k) /\ k.OSSchedLock = 1
    BY <1>5 DEF UnlockLast
  <2>5. sect[t] = 0
    BY <1>1, <1>3, <2>3, <2>4
  <2>6. k' \in Kernel /\ k'.TCBRunning = k.TCBRunning /\ k'.OSSchedLock = 1
    BY <1>1, <2>4, ScheduleFacts DEF UnlockSchedule
  <2>7. \A u \in Task : pc'[u].at = "release" => sect'[u] = 0
    BY <1>0, <1>1, <1>2, <2>1, <2>5 DEF Thread
  <2> QED  BY <1>1, <1>2, <2>2, <2>3, <2>5, <2>6, <2>7, ThreadKeepsAccounts
<1>6. CASE UnlockRelease(t)
  <2>1. pc' = [pc EXCEPT ![t].at = pc[t].ret] /\ pc[t].at = "release"
    BY <1>6 DEF UnlockRelease, Runs
  <2>2. pc' \in [Task -> Thread]
    BY <1>1, <2>1 DEF Thread, At, Windows
  <2>3. /\ \A u \in Task \ {t} : Held(u)' = Held(u)
        /\ Held(t) = sect[t] /\ Held(t)' = sect[t]
    BY <1>1, <1>2, <2>1 DEF Held, Thread
  <2>4. k' = [k EXCEPT !.OSSchedLock = 0]
    BY <1>6 DEF UnlockRelease
  <2>5. k' \in Kernel /\ k'.TCBRunning = k.TCBRunning /\ k'.PendSV = k.PendSV
        /\ k'.OSSchedLock = 0
    BY <1>1, <2>4 DEF Kernel
  <2>6. sect[t] = 0 /\ \A u \in Task : pc'[u].at = "release" => sect'[u] = 0
    BY <1>0, <1>1, <1>2, <2>1 DEF Thread
  <2> QED  BY <1>1, <1>2, <2>2, <2>3, <2>5, <2>6, ThreadKeepsAccounts
<1> QED  BY <1>4, <1>5, <1>6

(* A thread goes on without touching the lock, and opens no section.       *)
LEMMA GotoKeepsAccounts ==
  ASSUME LockInv, NEW t \in Task, NEW at \in At, NEW at2 \in At \ {"unlock", "release"},
         NEW x \in Task,
         Runs(t, at), Goto(t, at2, x),
         k' \in Kernel, k'.TCBRunning = k.TCBRunning, k'.PendSV = k.PendSV,
         k'.OSSchedLock = k.OSSchedLock,
         UNCHANGED <<sect, issued, sysTick>>
  PROVE  LockInv'
<1>1. /\ k \in Kernel /\ pc \in [Task -> Thread] /\ sect \in [Task -> Nat]
      /\ issued \subseteq Task /\ k.OSSchedLock \in Nat
      /\ \A u \in Task : pc[u].at = "release" => sect[u] = 0
  BY DEF LockInv, TypeOK, Kernel, ReleaseClosed
<1>2. t = k.TCBRunning /\ ~k.PendSV /\ sysTick = "off" /\ pc[t].at = at
  BY DEF Runs
<1>3. pc' = [pc EXCEPT ![t] = [at |-> at2, tgt |-> x, ret |-> "user"]]
  BY DEF Goto
<1>4. pc' \in [Task -> Thread]
  BY <1>1, <1>3 DEF Thread
<1>5. /\ \A u \in Task \ {t} : Held(u)' = Held(u)
      /\ Held(t)' = sect[t] /\ Held(t) >= sect[t] /\ Held(t) \in Nat
  BY <1>1, <1>3 DEF Held
<1>6. k.OSSchedLock >= Held(t)
  BY <1>1, <1>2, <1>5 DEF LockInv, LockAccounting
<1>7. \A u \in Task : pc'[u].at = "release" => sect'[u] = 0
  BY <1>1, <1>3
<1>8. k'.OSSchedLock >= Held(t)'
  BY <1>1, <1>5, <1>6
<1> QED  BY <1>1, <1>2, <1>4, <1>5, <1>7, <1>8, ThreadKeepsAccounts

(* The body of an API call takes the lock and goes to its OsSchedUnlock(). *)
LEMMA BodyKeepsAccounts ==
  ASSUME LockInv, NEW t \in Task, NEW at \in Windows \cup {"user"},
         Runs(t, at), Unlocks(t),
         k' \in Kernel, k'.TCBRunning = k.TCBRunning, k'.PendSV = k.PendSV,
         k'.OSSchedLock = k.OSSchedLock + 1,
         UNCHANGED <<sect, issued, sysTick>>
  PROVE  LockInv'
<1>1. /\ k \in Kernel /\ pc \in [Task -> Thread] /\ sect \in [Task -> Nat]
      /\ issued \subseteq Task /\ k.OSSchedLock \in Nat
      /\ \A u \in Task : pc[u].at = "release" => sect[u] = 0
  BY DEF LockInv, TypeOK, Kernel, ReleaseClosed
<1>2. t = k.TCBRunning /\ ~k.PendSV /\ sysTick = "off" /\ pc[t].at = at
  BY DEF Runs
<1>3. pc' = [pc EXCEPT ![t] = [at |-> "unlock", tgt |-> Idle, ret |-> "user"]]
  BY DEF Unlocks, Goto
<1>4. pc' \in [Task -> Thread]
  BY <1>1, <1>3, TaskFacts DEF Thread, At
<1>5. /\ \A u \in Task \ {t} : Held(u)' = Held(u)
      /\ Held(t)' = sect[t] + 1 /\ Held(t) = sect[t]
  BY <1>1, <1>2, <1>3 DEF Held, Windows
<1>6. k.OSSchedLock >= Held(t)
  BY <1>1, <1>2, <1>5 DEF LockInv, LockAccounting
<1>7. \A u \in Task : pc'[u].at = "release" => sect'[u] = 0
  BY <1>1, <1>3
<1>8. k'.OSSchedLock >= Held(t)'
  BY <1>1, <1>5, <1>6
<1> QED  BY <1>1, <1>2, <1>4, <1>5, <1>7, <1>8, ThreadKeepsAccounts

(* The checks at the head of the API calls.                                *)
LEMMA ChecksKeepAccounts ==
  ASSUME LockInv, NEW t \in Task, NEW x \in Task,
         \/ CallSuspend(t, x) \/ CallAwake(t, x) \/ CallDel(t, x)
         \/ CallSetPriority(t, x) \/ PriorityStored(t)
  PROVE  LockInv'
<1>1. k \in Kernel /\ pc \in [Task -> Thread] /\ pc[t].tgt \in Task
  BY DEF LockInv, TypeOK, Thread
<1>2. \A at2 \in {"suspend", "awake", "del", "prio", "reorder", "yield", "user"} :
        at2 \in At \ {"unlock", "release"}
  BY DEF At, Windows
<1>3. \A at \in {"user", "prio"} : at \in At
  BY DEF At, Windows
<1>4. CASE CallSuspend(t, x)
  BY <1>1, <1>2, <1>3, <1>4, GotoKeepsAccounts DEF CallSuspend
<1>5. CASE CallAwake(t, x)
  BY <1>1, <1>2, <1>3, <1>5, GotoKeepsAccounts DEF CallAwake
<1>6. CASE CallDel(t, x)
  BY <1>1, <1>2, <1>3, <1>6, GotoKeepsAccounts DEF CallDel
<1>7. CASE CallSetPriority(t, x)
  <2>1. /\ Runs(t, "user") /\ Goto(t, "prio", x)
        /\ \E p \in Prios \ {k.prio[x]} : k' = [k EXCEPT !.prio = [@ EXCEPT ![x] = p]]
        /\ UNCHANGED <<sect, issued, sysTick>>
    BY <1>7 DEF CallSetPriority
  <2>2. /\ k' \in Kernel /\ k'.TCBRunning = k.TCBRunning /\ k'.PendSV = k.PendSV
        /\ k'.OSSchedLock = k.OSSchedLock
    <3>1. PICK p \in Prios : k' = [k EXCEPT !.prio = [k.prio EXCEPT ![x] = p]]
      BY <2>1
    <3>2. [k.prio EXCEPT ![x] = p] \in [Task -> Nat]
      BY <1>1, TaskFacts DEF Kernel
    <3> QED  BY <1>1, <3>1, <3>2 DEF Kernel
  <2> QED  BY <1>2, <1>3, <2>1, <2>2, GotoKeepsAccounts
<1>8. CASE PriorityStored(t)
  <2> DEFINE y == pc[t].tgt
             at2 == CASE k.state[y] = "READY" -> "reorder"
                      [] k.state[y] = "RUNNING" /\ k.prio[y] > RdyPrio(k) -> "yield"
                      [] OTHER -> "user"
  <2>1. /\ Runs(t, "prio") /\ Goto(t, at2, y)
        /\ UNCHANGED <<k, sect, issued, sysTick>>
    BY <1>8 DEF PriorityStored
  <2>2. at2 \in {"reorder", "yield", "user"}
    OBVIOUS
  <2> HIDE DEF at2
  <2> QED  BY <1>1, <1>2, <1>3, <2>1, <2>2, GotoKeepsAccounts
<1> QED  BY <1>4, <1>5, <1>6, <1>7, <1>8

(* The bodies of the API calls.                                            *)
LEMMA BodiesKeepAccounts ==
  ASSUME LockInv, NEW t \in Task,
         \/ CoSuspendTask(t) \/ CoAwakeTask(t) \/ CoDelTask(t)
         \/ PriorityReorder(t) \/ PriorityYield(t)
  PROVE  LockInv'
<1> DEFINE x == pc[t].tgt
           m == OsSchedLock(k)
<1>1. k \in Kernel /\ x \in Task
  BY DEF LockInv, TypeOK, Thread
<1>2. /\ m \in Kernel /\ m.OSSchedLock = k.OSSchedLock + 1
      /\ m.TCBRunning = k.TCBRunning /\ m.PendSV = k.PendSV
      /\ m.state = k.state /\ m.FreeTCB = k.FreeTCB
  BY <1>1, LockFacts
<1> HIDE DEF m
<1>3. \A at \in {"suspend", "awake", "del", "reorder", "yield"} : at \in Windows
  BY DEF Windows
<1>4. CASE CoSuspendTask(t)
  <2> DEFINE k2 == IF x # k.TCBRunning THEN RemoveFromTCBRdyList(m, x)
                                       ELSE RequestSchedule(m)
  <2>1. /\ Runs(t, "suspend") /\ Unlocks(t)
        /\ k' = [k2 EXCEPT !.state = [k2.state EXCEPT ![x] = "WAITING"]]
        /\ UNCHANGED <<sect, issued, sysTick>>
    BY <1>4 DEF CoSuspendTask, m
  <2>2. /\ k2 \in Kernel /\ k2.OSSchedLock = m.OSSchedLock
        /\ k2.TCBRunning = m.TCBRunning /\ k2.PendSV = m.PendSV
    <3>1. CASE x # k.TCBRunning
      BY <1>1, <1>2, <3>1, RemoveFacts
    <3>2. CASE x = k.TCBRunning
      BY <1>2, <3>2, RequestFacts
    <3> QED  BY <3>1, <3>2
  <2> HIDE DEF k2
  <2>3. [k2.state EXCEPT ![x] = "WAITING"] \in [Task -> TaskState]
    BY <1>1, <2>2 DEF Kernel, TaskState
  <2>4. /\ k' \in Kernel /\ k'.OSSchedLock = k.OSSchedLock + 1
        /\ k'.TCBRunning = k.TCBRunning /\ k'.PendSV = k.PendSV
    BY <1>2, <2>1, <2>2, <2>3 DEF Kernel
  <2> QED  BY <1>3, <2>1, <2>4, BodyKeepsAccounts
<1>5. CASE CoAwakeTask(t)
  <2>1. /\ Runs(t, "awake") /\ Unlocks(t) /\ k' = InsertToTCBRdyList(m, x)
        /\ UNCHANGED <<sect, issued, sysTick>>
    BY <1>5 DEF CoAwakeTask, m
  <2>2. /\ k' \in Kernel /\ k'.OSSchedLock = k.OSSchedLock + 1
        /\ k'.TCBRunning = k.TCBRunning /\ k'.PendSV = k.PendSV
    BY <1>1, <1>2, <2>1, InsertFacts
  <2> QED  BY <1>3, <2>1, <2>2, BodyKeepsAccounts
<1>6. CASE CoDelTask(t)
  <2> DEFINE k2 == IF k.state[x] = "READY" THEN RemoveFromTCBRdyList(m, x) ELSE m
             k3 == RequestSchedule(k2)
  <2>1. /\ Runs(t, "del") /\ Unlocks(t)
        /\ k' = [k3 EXCEPT !.state   = [k3.state EXCEPT ![x] = "DORMANT"],
                           !.FreeTCB = <<x>> \o k3.FreeTCB]
        /\ UNCHANGED <<sect, issued, sysTick>>
    BY <1>6 DEF CoDelTask, m
  <2>2. /\ k2 \in Kernel /\ k2.OSSchedLock = m.OSSchedLock
        /\ k2.TCBRunning = m.TCBRunning /\ k2.PendSV = m.PendSV
    <3>1. CASE k.state[x] = "READY"
      BY <1>1, <1>2, <3>1, RemoveFacts
    <3>2. CASE k.state[x] # "READY"
      BY <1>2, <3>2
    <3> QED  BY <3>1, <3>2
  <2> HIDE DEF k2
  <2>3. /\ k3 \in Kernel /\ k3.OSSchedLock = m.OSSchedLock
        /\ k3.TCBRunning = m.TCBRunning /\ k3.PendSV = m.PendSV
    BY <2>2, RequestFacts
  <2> HIDE DEF k3
  <2>4. /\ [k3.state EXCEPT ![x] = "DORMANT"] \in [Task -> TaskState]
        /\ <<x>> \o k3.FreeTCB \in Seq(Task)
    <3>1. <<x>> \in Seq(Task) /\ k3.FreeTCB \in Seq(Task)
      BY <1>1, <2>3 DEF Kernel
    <3>2. <<x>> \o k3.FreeTCB \in Seq(Task)
      BY <3>1, ConcatProperties
    <3> QED  BY <1>1, <2>3, <3>2 DEF Kernel, TaskState
  <2>5. /\ k' \in Kernel /\ k'.OSSchedLock = k.OSSchedLock + 1
        /\ k'.TCBRunning = k.TCBRunning /\ k'.PendSV = k.PendSV
    BY <1>2, <2>1, <2>3, <2>4 DEF Kernel
  <2> QED  BY <1>3, <2>1, <2>5, BodyKeepsAccounts
<1>7. CASE PriorityReorder(t)
  <2> DEFINE r == RemoveFromTCBRdyList(m, x)
  <2>1. /\ Runs(t, "reorder") /\ Unlocks(t) /\ k' = InsertToTCBRdyList(r, x)
        /\ UNCHANGED <<sect, issued, sysTick>>
    BY <1>7 DEF PriorityReorder, m
  <2>2. /\ r \in Kernel /\ r.OSSchedLock = m.OSSchedLock
        /\ r.TCBRunning = m.TCBRunning /\ r.PendSV = m.PendSV
    BY <1>1, <1>2, RemoveFacts
  <2> HIDE DEF r
  <2>4. /\ k' \in Kernel /\ k'.OSSchedLock = k.OSSchedLock + 1
        /\ k'.TCBRunning = k.TCBRunning /\ k'.PendSV = k.PendSV
    BY <1>1, <1>2, <2>1, <2>2, InsertFacts
  <2> QED  BY <1>3, <2>1, <2>4, BodyKeepsAccounts
<1>8. CASE PriorityYield(t)
  <2>1. /\ Runs(t, "yield") /\ Unlocks(t) /\ k' = RequestSchedule(m)
        /\ UNCHANGED <<sect, issued, sysTick>>
    BY <1>8 DEF PriorityYield, m
  <2>2. /\ k' \in Kernel /\ k'.OSSchedLock = k.OSSchedLock + 1
        /\ k'.TCBRunning = k.TCBRunning /\ k'.PendSV = k.PendSV
    BY <1>2, <2>1, RequestFacts
  <2> QED  BY <1>3, <2>1, <2>2, BodyKeepsAccounts
<1> QED  BY <1>4, <1>5, <1>6, <1>7, <1>8

(* CoSchedLock() and CoSchedUnlock().                                      *)
LEMMA SectionsKeepAccounts ==
  ASSUME LockInv, NEW t \in Task, CoSchedLock(t) \/ CoSchedUnlock(t)
  PROVE  LockInv'
<1>1. /\ k \in Kernel /\ pc \in [Task -> Thread] /\ sect \in [Task -> Nat]
      /\ issued \subseteq Task /\ k.OSSchedLock \in Nat
      /\ \A u \in Task : pc[u].at = "release" => sect[u] = 0
  BY DEF LockInv, TypeOK, Kernel, ReleaseClosed
<1>2. /\ t = k.TCBRunning /\ ~k.PendSV /\ sysTick = "off" /\ pc[t].at = "user"
      /\ sysTick' = sysTick /\ issued' = issued
  BY DEF CoSchedLock, CoSchedUnlock, Runs
<1>3. k.OSSchedLock >= sect[t] /\ Held(t) = sect[t]
  BY <1>1, <1>2 DEF LockInv, LockAccounting, Held
<1>4. CASE CoSchedLock(t)
  <2>1. /\ k' = OsSchedLock(k) /\ pc' = pc
        /\ sect' = [sect EXCEPT ![t] = sect[t] + 1]
    BY <1>4 DEF CoSchedLock
  <2>2. /\ k' \in Kernel /\ k'.OSSchedLock = k.OSSchedLock + 1
        /\ k'.TCBRunning = k.TCBRunning /\ k'.PendSV = k.PendSV
    BY <1>1, <2>1, LockFacts
  <2>3. /\ sect' \in [Task -> Nat]
        /\ \A u \in Task \ {t} : Held(u)' = Held(u)
        /\ Held(t)' = sect[t] + 1
    BY <1>1, <1>2, <2>1 DEF Held
  <2>4. \A u \in Task : pc'[u].at = "release" => sect'[u] = 0
    BY <1>1, <1>2, <2>1
  <2>5. k'.OSSchedLock >= Held(t)'
    BY <1>1, <1>3, <2>2, <2>3
  <2> QED  BY <1>1, <1>2, <2>1, <2>2, <2>3, <2>4, <2>5, ThreadKeepsAccounts
<1>5. CASE CoSchedUnlock(t)
  <2>1. /\ k' = k /\ sect' = [sect EXCEPT ![t] = sect[t] - 1] /\ sect[t] > 0
        /\ pc' = [pc EXCEPT ![t] = [at |-> "unlock", tgt |-> Idle, ret |-> "user"]]
    BY <1>5 DEF CoSchedUnlock, Unlocks, Goto
  <2>2. sect[t] - 1 \in Nat
    BY <1>1, <2>1
  <2>3. sect' \in [Task -> Nat] /\ pc' \in [Task -> Thread]
    BY <1>1, <2>1, <2>2, TaskFacts DEF Thread, At
  <2>4. /\ \A u \in Task \ {t} : Held(u)' = Held(u)
        /\ Held(t)' = sect[t]
    BY <1>1, <1>2, <2>1, <2>2 DEF Held
  <2>5. \A u \in Task : pc'[u].at = "release" => sect'[u] = 0
    BY <1>1, <2>1
  <2>6. k'.OSSchedLock >= Held(t)' /\ k'.PendSV = k.PendSV
        /\ k'.TCBRunning = k.TCBRunning /\ k' \in Kernel
    BY <1>1, <1>3, <2>1, <2>4
  <2> QED  BY <1>1, <1>2, <2>3, <2>4, <2>5, <2>6, ThreadKeepsAccounts
<1> QED  BY <1>4, <1>5

(* CoCreateTask().                                                         *)
LEMMA CreationKeepsAccounts ==
  ASSUME LockInv, NEW t \in Task, AssignTCB(t) \/ CreateTask(t)
  PROVE  LockInv'
<1> DEFINE m == OsSchedLock(k)
           x == pc[t].tgt
<1>1. /\ k \in Kernel /\ pc \in [Task -> Thread] /\ sect \in [Task -> Nat]
      /\ issued \subseteq Task /\ k.OSSchedLock \in Nat /\ x \in Task
      /\ \A u \in Task : pc[u].at = "release" => sect[u] = 0
  BY DEF LockInv, TypeOK, Kernel, ReleaseClosed, Thread
<1>2. /\ t = k.TCBRunning /\ ~k.PendSV /\ sysTick = "off" /\ sysTick' = sysTick
      /\ pc[t].at \in {"user", "fill"}
  BY DEF AssignTCB, CreateTask, Runs
<1>3. k.OSSchedLock >= sect[t] /\ Held(t) = sect[t]
  BY <1>1, <1>2 DEF LockInv, LockAccounting, Held
<1>4. /\ m \in Kernel /\ m.OSSchedLock = k.OSSchedLock + 1
      /\ m.TCBRunning = k.TCBRunning /\ m.PendSV = k.PendSV /\ m.FreeTCB = k.FreeTCB
  BY <1>1, LockFacts
<1> HIDE DEF m
<1>5. CASE AssignTCB(t) /\ k.FreeTCB = <<>>
  <2>1. Runs(t, "user") /\ Unlocks(t) /\ k' = m /\ UNCHANGED <<sect, issued, sysTick>>
    BY <1>5 DEF AssignTCB, m
  <2> QED  BY <1>4, <2>1, BodyKeepsAccounts
<1>6. CASE AssignTCB(t) /\ k.FreeTCB # <<>>
  <2>1. /\ k' = [m EXCEPT !.FreeTCB = Tail(m.FreeTCB)]
        /\ pc' = [pc EXCEPT ![t] = [at |-> "unlock", tgt |-> Head(k.FreeTCB), ret |-> "fill"]]
        /\ sect' = sect /\ issued' = issued
    BY <1>6 DEF AssignTCB, m
  <2>2. Head(k.FreeTCB) \in Task /\ Tail(m.FreeTCB) \in Seq(Task)
    BY <1>1, <1>4, <1>6, HeadTailProperties DEF Kernel
  <2>3. /\ k' \in Kernel /\ k'.OSSchedLock = k.OSSchedLock + 1
        /\ k'.TCBRunning = k.TCBRunning /\ k'.PendSV = k.PendSV
    BY <1>4, <2>1, <2>2 DEF Kernel
  <2>4. pc' \in [Task -> Thread]
    BY <1>1, <2>1, <2>2 DEF Thread, At
  <2>5. /\ \A u \in Task \ {t} : Held(u)' = Held(u)
        /\ Held(t)' = sect[t] + 1
    BY <1>1, <2>1 DEF Held
  <2>6. \A u \in Task : pc'[u].at = "release" => sect'[u] = 0
    BY <1>1, <2>1
  <2>7. k'.OSSchedLock >= Held(t)'
    BY <1>1, <1>3, <2>3, <2>5
  <2> QED  BY <1>1, <1>2, <2>1, <2>3, <2>4, <2>5, <2>6, <2>7, ThreadKeepsAccounts
<1>7. CASE CreateTask(t)
  <2>1. PICK p \in Prios, waiting \in BOOLEAN :
          LET filled == [k EXCEPT !.prio = [@ EXCEPT ![x] = p]]
          IN  /\ k' = IF waiting
                      THEN [filled EXCEPT !.state = [@ EXCEPT ![x] = "WAITING"]]
                      ELSE InsertToTCBRdyList(OsSchedLock(filled), x)
              /\ pc' = [pc EXCEPT ![x] = User,
                                  ![t] = IF waiting THEN User
                                         ELSE [User EXCEPT !.at = "unlock"]]
    BY <1>7 DEF CreateTask
  <2> DEFINE filled == [k EXCEPT !.prio = [k.prio EXCEPT ![x] = p]]
             n == OsSchedLock(filled)
  <2>2. sect' = [sect EXCEPT ![x] = 0] /\ issued' = issued \cup {x}
    BY <1>7 DEF CreateTask
  <2>3. /\ filled \in Kernel /\ filled.OSSchedLock = k.OSSchedLock
        /\ filled.TCBRunning = k.TCBRunning /\ filled.PendSV = k.PendSV
    <3>1. [k.prio EXCEPT ![x] = p] \in [Task -> Nat]
      BY <1>1, TaskFacts DEF Kernel
    <3> QED  BY <1>1, <3>1 DEF Kernel
  <2> HIDE DEF filled
  <2>4. User \in Thread /\ [User EXCEPT !.at = "unlock"] \in Thread
    BY TaskFacts DEF User, Thread, At
  <2>5. pc' \in [Task -> Thread] /\ sect' \in [Task -> Nat] /\ issued' \subseteq Task
    BY <1>1, <2>1, <2>2, <2>4
  <2>6. /\ \A u \in Task \ {t} : Held(u)' = Held(u) \/ Held(u)' = 0
        /\ \A u \in Task : pc'[u].at = "release" => sect'[u] = 0
    BY <1>1, <2>1, <2>2 DEF Held, User
  <2>7. CASE waiting
    <3>1. k' = [filled EXCEPT !.state = [filled.state EXCEPT ![x] = "WAITING"]]
      BY <2>1, <2>7 DEF filled
    <3>2. [filled.state EXCEPT ![x] = "WAITING"] \in [Task -> TaskState]
      BY <1>1, <2>3 DEF Kernel, TaskState
    <3>3. /\ k' \in Kernel /\ k'.OSSchedLock = k.OSSchedLock
          /\ k'.TCBRunning = k.TCBRunning /\ k'.PendSV = k.PendSV
      BY <2>3, <3>1, <3>2 DEF Kernel
    <3>4. Held(t)' <= sect[t] /\ Held(t)' \in Nat
      BY <1>1, <2>1, <2>2, <2>7 DEF Held, User
    <3>5. k'.OSSchedLock >= Held(t)'
      BY <1>1, <1>3, <3>3, <3>4
    <3> QED  BY <1>1, <1>2, <2>5, <2>6, <3>3, <3>5, ThreadKeepsAccounts
  <2>8. CASE ~waiting
    <3>1. k' = InsertToTCBRdyList(n, x)
      BY <2>1, <2>8 DEF filled
    <3>2. /\ n \in Kernel /\ n.OSSchedLock = k.OSSchedLock + 1
          /\ n.TCBRunning = k.TCBRunning /\ n.PendSV = k.PendSV
      BY <2>3, LockFacts
    <3> HIDE DEF n
    <3>3. /\ k' \in Kernel /\ k'.OSSchedLock = k.OSSchedLock + 1
          /\ k'.TCBRunning = k.TCBRunning /\ k'.PendSV = k.PendSV
      BY <1>1, <3>1, <3>2, InsertFacts
    <3>4. Held(t)' <= sect[t] + 1 /\ Held(t)' \in Nat
      BY <1>1, <2>1, <2>2, <2>8 DEF Held, User
    <3>5. k'.OSSchedLock >= Held(t)'
      BY <1>1, <1>3, <3>3, <3>4
    <3> QED  BY <1>1, <1>2, <2>5, <2>6, <3>3, <3>5, ThreadKeepsAccounts
  <2> QED  BY <2>7, <2>8
<1> QED  BY <1>5, <1>6, <1>7

-----------------------------------------------------------------------------
(* The exceptions.                                                         *)
LEMMA ExceptionsKeepAccounts ==
  ASSUME LockInv, PendSV \/ SysTick_Handler \/ TickHandler \/ DeviceISR
  PROVE  LockInv'
<1> USE DEF LockInv
<1>1. /\ k \in Kernel /\ pc \in [Task -> Thread] /\ sect \in [Task -> Nat]
      /\ k.OSSchedLock \in Nat /\ k.TCBRunning \in Task /\ k.TCBNext \in Task
  BY DEF TypeOK, Kernel
<1>2. /\ \A u \in Task : Held(u) \in Nat
      /\ k.OSSchedLock >= Held(k.TCBRunning) + (IF sysTick = "off" THEN 0 ELSE 1)
      /\ \A u \in Task \ {k.TCBRunning} : Held(u) = 0
      /\ k.PendSV \/ sysTick = "release" => Held(k.TCBRunning) = 0
  BY <1>1 DEF LockAccounting, Held
<1>3. /\ pc' = pc /\ sect' = sect /\ issued' = issued
      /\ \A u \in Task : Held(u)' = Held(u)
  BY DEF PendSV, SysTick_Handler, TickHandler, SysTickNested, SysTickLast,
         SysTickRelease, DeviceISR, Held
<1>4. ReleaseClosed'
  BY <1>3 DEF ReleaseClosed
<1>5. ASSUME k' \in Kernel, sysTick' \in {"off", "unlock", "release"}  PROVE TypeOK'
  BY <1>3, <1>5 DEF TypeOK
<1>6. CASE PendSV
  <2>1. /\ k.PendSV /\ sysTick = "off" /\ sysTick' = "off"
        /\ k' = [k EXCEPT !.TCBRunning = k.TCBNext, !.OSSchedLock = 0, !.PendSV = FALSE]
        /\ k' \in Kernel
    BY <1>1, <1>6, PendSVFacts DEF PendSV
  <2>2. k'.TCBRunning = k.TCBNext /\ k'.OSSchedLock = 0 /\ k'.PendSV = FALSE
    BY <1>1, <2>1 DEF Kernel
  <2>3. \A u \in Task : Held(u)' = 0
    BY <1>2, <1>3, <2>1
  <2>4. LockAccounting'
    BY <1>1, <2>1, <2>2, <2>3 DEF LockAccounting
  <2> QED  BY <1>4, <1>5, <2>1, <2>4
<1>7. CASE SysTick_Handler
  <2>1. sysTick = "off" /\ ~k.PendSV /\ sysTick' = "unlock" /\ k' = SysTickEntry(k)
    BY <1>7 DEF SysTick_Handler
  <2>2. k' \in Kernel
    BY <1>1, <2>1, SysTickEntryFacts
  <2>3. PICK c \in Int : k' = [k EXCEPT !.OSSchedLock  = k.OSSchedLock + 1,
                                       !.robin        = c,
                                       !.TaskSchedReq = TRUE]
    BY <1>1, <2>1, SysTickEntryFacts
  <2>4. /\ k'.OSSchedLock = k.OSSchedLock + 1
        /\ k'.TCBRunning = k.TCBRunning /\ k'.PendSV = k.PendSV
    BY <1>1, <2>3 DEF Kernel
  <2>5. LockAccounting'
    BY <1>1, <1>2, <1>3, <2>1, <2>4 DEF LockAccounting
  <2> QED  BY <1>4, <1>5, <2>1, <2>2, <2>5
<1>8. CASE SysTickNested
  <2>1. /\ sysTick = "unlock" /\ sysTick' = "off" /\ k.OSSchedLock # 1
        /\ k' = [k EXCEPT !.OSSchedLock = k.OSSchedLock - 1]
    BY <1>8 DEF SysTickNested
  <2>2. /\ k.OSSchedLock - 1 \in Nat
        /\ k.OSSchedLock - 1 >= Held(k.TCBRunning)
    BY <1>1, <1>2, <2>1
  <2>3. /\ k' \in Kernel /\ k'.OSSchedLock = k.OSSchedLock - 1
        /\ k'.TCBRunning = k.TCBRunning /\ k'.PendSV = k.PendSV
    BY <1>1, <2>1, <2>2 DEF Kernel
  <2>4. LockAccounting'
    BY <1>1, <1>2, <1>3, <2>1, <2>2, <2>3 DEF LockAccounting
  <2> QED  BY <1>4, <1>5, <2>1, <2>3, <2>4
<1>9. CASE SysTickLast
  <2>1. /\ sysTick = "unlock" /\ sysTick' = "release" /\ k.OSSchedLock = 1
        /\ k' = UnlockSchedule(k)
    BY <1>9 DEF SysTickLast
  <2>2. k' \in Kernel /\ k'.TCBRunning = k.TCBRunning /\ k'.OSSchedLock = 1
    BY <1>1, <2>1, ScheduleFacts DEF UnlockSchedule
  <2>3. Held(k.TCBRunning) = 0
    BY <1>1, <1>2, <2>1
  <2>4. LockAccounting'
    BY <1>1, <1>2, <1>3, <2>1, <2>2, <2>3 DEF LockAccounting
  <2> QED  BY <1>4, <1>5, <2>1, <2>2, <2>4
<1>10. CASE SysTickRelease
  <2>1. /\ sysTick = "release" /\ sysTick' = "off"
        /\ k' = [k EXCEPT !.OSSchedLock = 0]
    BY <1>10 DEF SysTickRelease
  <2>2. /\ k' \in Kernel /\ k'.OSSchedLock = 0
        /\ k'.TCBRunning = k.TCBRunning /\ k'.PendSV = k.PendSV
    BY <1>1, <2>1 DEF Kernel
  <2>3. LockAccounting'
    BY <1>1, <1>2, <1>3, <2>1, <2>2 DEF LockAccounting
  <2> QED  BY <1>4, <1>5, <2>1, <2>2, <2>3
<1>11. CASE DeviceISR
  <2> DEFINE m == OsSchedLock(k)
             d == Schedule(m)
  <2>1. sysTick' = sysTick /\ k' = CoExitISR(CoEnterISR(k))
    BY <1>11 DEF DeviceISR
  <2>2. k' = k \/ k' = [d EXCEPT !.OSSchedLock = k.OSSchedLock]
    BY <1>1, <2>1, DeviceFacts
  <2>3. /\ m \in Kernel /\ m.OSSchedLock = k.OSSchedLock + 1
        /\ m.TCBRunning = k.TCBRunning /\ m.PendSV = k.PendSV
    BY <1>1, LockFacts
  <2> HIDE DEF m
  <2>4. d \in Kernel /\ d.TCBRunning = k.TCBRunning
    BY <2>3, ScheduleFacts
  <2>5. d.PendSV => k.PendSV \/ CanSchedule(m)
    <3>1. d = m \/ d = [m EXCEPT !.TaskSchedReq = FALSE] \/ CanSchedule(m)
      BY <2>3, ScheduleFacts
    <3> HIDE DEF d
    <3> QED  BY <2>3, <3>1 DEF Kernel
  <2> HIDE DEF d
  <2>6. CanSchedule(m) => k.OSSchedLock = 0
    BY <1>1, <2>3 DEF CanSchedule
  <2>7. /\ k' \in Kernel /\ k'.OSSchedLock = k.OSSchedLock
        /\ k'.TCBRunning = k.TCBRunning
        /\ k'.PendSV => k.PendSV \/ k.OSSchedLock = 0
    BY <1>1, <2>2, <2>4, <2>5, <2>6 DEF Kernel
  <2>8. k.OSSchedLock = 0 => Held(k.TCBRunning) = 0
    BY <1>1, <1>2
  <2>9. LockAccounting'
    BY <1>1, <1>2, <1>3, <2>1, <2>7, <2>8 DEF LockAccounting
  <2> QED  BY <1>4, <1>5, <2>1, <2>7, <2>9 DEF TypeOK
<1> QED  BY <1>6, <1>7, <1>8, <1>9, <1>10, <1>11 DEF TickHandler

(* A stuttering step keeps the accounts.                                   *)
LEMMA StutterKeepsAccounts ==
  ASSUME LockInv, UNCHANGED vars
  PROVE  LockInv'
BY DEF LockInv, TypeOK, LockAccounting, Held, ReleaseClosed, vars

(* Every step of every context keeps the accounts.                         *)
LEMMA LockStep == LockInv /\ [Next]_vars => LockInv'
<1> SUFFICES ASSUME LockInv, [Next]_vars  PROVE LockInv'
  OBVIOUS
<1>1. ASSUME NEW t \in Task, Finish(t)  PROVE LockInv'
  BY <1>1, TaskFacts, UnlockKeepsAccounts, CreationKeepsAccounts, BodiesKeepAccounts,
     ChecksKeepAccounts DEF Finish
<1>2. ASSUME NEW t \in Task, Call(t)  PROVE LockInv'
  BY <1>2, SectionsKeepAccounts, CreationKeepsAccounts, ChecksKeepAccounts DEF Call
<1>3. CASE PendSV \/ SysTick_Handler \/ TickHandler \/ DeviceISR
  BY <1>3, ExceptionsKeepAccounts
<1>4. CASE UNCHANGED vars
  BY <1>4, StutterKeepsAccounts
<1> QED  BY <1>1, <1>2, <1>3, <1>4 DEF Next

(* So the accounts are always right.                                       *)
LEMMA LockInvariant == Spec => []LockInv
BY LockInit, LockStep, PTL DEF Spec

-----------------------------------------------------------------------------
(* The state of the scheduler is always of its type; above all OSSchedLock *)
(* never wraps below 0, whatever calls the application makes.              *)
THEOREM TypeCorrect == Spec => []TypeOK
<1>1. LockInv => TypeOK  BY DEF LockInv
<1> QED  BY <1>1, LockInvariant, PTL

(* OSSchedLock counts at least every section that is open.                 *)
THEOREM AccountsCorrect == Spec => []LockAccounting
<1>1. LockInv => LockAccounting  BY DEF LockInv
<1> QED  BY <1>1, LockInvariant, PTL

(* Inside its CoSchedLock() sections a task keeps the processor and the    *)
(* scheduler stays locked, through every interrupt and every context in    *)
(* the middle of an OsSchedUnlock().                                       *)
THEOREM LockedTaskKeepsProcessor == Spec => LockKeepsProcessor
<1> DEFINE Keeps == \A t \in Task : sect[t] > 0 /\ sect'[t] > 0 =>
                      k'.TCBRunning = t /\ k'.OSSchedLock >= sect'[t]
<1>1. ASSUME LockInv, LockInv'  PROVE Keeps
  <2> SUFFICES ASSUME NEW t \in Task, sect'[t] > 0
               PROVE  k'.TCBRunning = t /\ k'.OSSchedLock >= sect'[t]
    OBVIOUS
  <2>1. sect'[t] \in Nat /\ k'.OSSchedLock \in Nat
    BY <1>1 DEF LockInv, TypeOK, Kernel
  <2>2. Held(t)' >= sect'[t] /\ Held(t)' \in Nat
    BY <2>1 DEF Held
  <2>3. k'.TCBRunning = t
    BY <1>1, <2>1, <2>2 DEF LockInv, LockAccounting
  <2> QED  BY <1>1, <2>1, <2>2, <2>3 DEF LockInv, LockAccounting
<1>2. LockInv /\ LockInv' => [Keeps]_vars
  BY <1>1
<1> QED  BY <1>2, LockInvariant, PTL DEF LockKeepsProcessor
=============================================================================
