---------------------------- MODULE CoReadyProofs ----------------------------
(***************************************************************************)
(* Theorems about the READY list of CoSched, for every number of tasks and *)
(* of priorities: it is sound in every application that respects           *)
(* SingleOwner, and the right task runs and the turns of equals are kept   *)
(* if, besides, a task sets no other task's priority than its own.         *)
(***************************************************************************)
EXTENDS CoSchedProofs

-----------------------------------------------------------------------------
(* The inductive invariant.  ReadyListSound alone does not survive a step  *)
(* of a call that acts on what it checked before it took the lock: what    *)
(* was checked must still hold (ChecksHold), which is so because nobody    *)
(* else may change it (SingleOwner) and the caller itself was running: a   *)
(* task that has blocked itself gets as far as the end of that call and no *)
(* further (OnProcessor), for its OsSchedUnlock() is the outermost one     *)
(* (LockExact) and finds a task to switch to (IdleReady).                  *)

(* OSSchedLock is the number of open sections, but while a thread is about *)
(* to store 0 into it.                                                     *)
LockExact ==
  LET t    == k.TCBRunning
      tick == IF sysTick = "off" THEN 0 ELSE 1
  IN  k.PendSV \/ pc[t].at = "release" \/ k.OSSchedLock = Held(t) + tick

(* PendSV is pending while, and only while, the next task is another one;  *)
(* and the next task runs or is about to be switched off.                  *)
OnProcessor ==
  LET t == k.TCBRunning
  IN  /\ k.OSIntNesting = 0
      /\ t \in issued /\ k.TCBNext \in issued
      /\ k.PendSV <=> t # k.TCBNext
      /\ \A u \in Task : k.state[u] = "RUNNING" => u = k.TCBNext
      /\ \/ k.state[k.TCBNext] = "RUNNING"
         \/ /\ ~k.PendSV /\ k.state[t] # "READY"
            /\ pc[t].at = "unlock" /\ sect[t] = 0 /\ k.TaskSchedReq

IdleReady == Idle \in issued /\ k.state[Idle] \in {"READY", "RUNNING"}

(* The call of t that is under way is one of the application's.            *)
Named(t, calls) == <<t, pc[t].tgt>> \in calls /\ pc[t].tgt \in issued /\ pc[t].tgt # Idle

(* What the call of t has checked still holds.                             *)
CheckHolds(t) ==
  LET x == pc[t].tgt
  IN  /\ pc[t].at = "suspend" =>
           Named(t, Suspends) /\ k.state[x] \in {"READY", "RUNNING"} /\ sect[t] = 0
      /\ pc[t].at = "awake" => Named(t, Awakes) /\ k.state[x] = "WAITING" /\ x # t
      /\ pc[t].at = "del" =>
           Named(t, Deletes) /\ k.state[x] # "DORMANT" /\ (x = t => sect[t] = 0)
      /\ pc[t].at \in {"prio", "reorder", "yield"} =>
           Named(t, Reprioritises) /\ k.state[x] # "DORMANT"
      /\ pc[t].at = "reorder" => x # t /\ k.state[x] \in {"READY", "RUNNING"}

ChecksHold == \A t \in Task : CheckHolds(t)

(* A TCB is filled by a task that lives: it comes to the end of its        *)
(* CoCreateTask(), for no other task deletes one that creates.             *)
FillsEnd ==
  \A t, x \in Task : Filling(t, x) =>
    /\ t \in Creators /\ t \in issued /\ k.state[t] # "DORMANT"
    /\ pc[t].at \in {"unlock", "release", "fill"}

ReadyInv ==
  /\ LockExact /\ OnProcessor /\ IdleReady
  /\ ChecksHold /\ FillsEnd /\ ReadyListSound

-----------------------------------------------------------------------------
(* Schedule() exchanges READY and RUNNING between two tasks, and keeps the *)
(* READY list that of the READY tasks.                                     *)
Listed(q, S) == IsInjective(q.TCBRdy) /\ Range(q.TCBRdy) = {t \in S : q.state[t] = "READY"}

(* No state but READY and RUNNING changes.                                 *)
Swaps(q, r) ==
  \A u \in Task : r.state[u] = q.state[u] \/ {q.state[u], r.state[u]} \subseteq {"READY", "RUNNING"}

(* What Schedule() makes of q, besides: nothing, or no more than to keep   *)
(* the running task, or the choice of a task of the list.                  *)
Scheduled(q, r, S) ==
  /\ Listed(r, S) /\ Swaps(q, r)
  /\ \A u \in Task : r.state[u] = "RUNNING" => u = r.TCBNext
  /\ \/ r = q /\ ~CanSchedule(q)
     \/ /\ r.TCBNext = q.TCBNext /\ r.PendSV = q.PendSV
        /\ r.state = q.state /\ r.state[q.TCBRunning] = "RUNNING"
        /\ q.TCBRunning = q.TCBNext
     \/ /\ r.TCBNext \in S /\ r.TCBNext # q.TCBRunning
        /\ r.PendSV = TRUE /\ r.state[r.TCBNext] = "RUNNING"

(* Schedule() puts the head of a complete READY list on the processor and  *)
(* the running task back on the list, or changes nothing at all.           *)
LEMMA ScheduleKeepsList ==
  ASSUME NEW q \in Kernel, NEW S \in SUBSET Task, Listed(q, S),
         q.TCBRunning \in S, q.state[q.TCBRunning] # "READY",
         \A u \in Task : q.state[u] = "RUNNING" => u = q.TCBNext
  PROVE  Scheduled(q, Schedule(q), S)
<1> DEFINE r    == Schedule(q)
           cur  == q.TCBRunning
           head == Head(q.TCBRdy)
<1>1. /\ q.state \in [Task -> TaskState] /\ cur \in Task
      /\ cur \notin Range(q.TCBRdy)
      /\ IsInjective(q.TCBRdy) /\ Range(q.TCBRdy) = {t \in S : q.state[t] = "READY"}
  BY DEF Kernel, Listed
<1>2. CASE r = q
  <2>1. CanSchedule(q) => q.state[cur] = "RUNNING" /\ cur = q.TCBNext
    <3>1. ASSUME CanSchedule(q)  PROVE cur = q.TCBNext
      BY <3>1 DEF CanSchedule
    <3>2. ASSUME CanSchedule(q), q.state[cur] # "RUNNING"  PROVE FALSE
      <4> DEFINE q1 == [q EXCEPT !.TaskSchedReq = FALSE]
      <4>1. r = SwitchTo(q1, head)
        BY <3>2 DEF Schedule
      <4>2. q1 \in Kernel /\ q1.state = q.state
        BY DEF Kernel
      <4>3. q.TCBRdy # <<>> /\ q.TCBRdy \in Seq(Task)
        BY <3>2 DEF CanSchedule, Kernel
      <4>4. head \in Range(q.TCBRdy) /\ head \in Task
        BY <4>3, HeadTailProperties DEF Range
      <4> HIDE DEF q1, head
      <4>5. SwitchTo(q1, head).state = [q1.state EXCEPT ![head] = "RUNNING"]
        BY <4>2, <4>4, SwitchToFacts
      <4> HIDE DEF r
      <4>6. r.state = [q.state EXCEPT ![head] = "RUNNING"]
        BY <4>1, <4>2, <4>5
      <4> QED  BY <1>1, <1>2, <4>4, <4>6 DEF r
    <3> QED  BY <3>1, <3>2
  <2> QED  BY <1>2, <2>1 DEF Scheduled, Swaps
<1>3. CASE r = [q EXCEPT !.TaskSchedReq = FALSE] /\ q.state[cur] = "RUNNING" /\ CanSchedule(q)
  <2>1. /\ r.state = q.state /\ r.TCBRdy = q.TCBRdy
        /\ r.TCBNext = q.TCBNext /\ r.PendSV = q.PendSV
    BY <1>3 DEF Kernel
  <2>2. cur = q.TCBNext
    BY <1>3 DEF CanSchedule
  <2> QED  BY <1>3, <2>1, <2>2 DEF Scheduled, Swaps, Listed
<1>4. CASE /\ head \in Range(q.TCBRdy) /\ r.TCBNext = head /\ r.PendSV = TRUE
           /\ q.state[cur] # "RUNNING" /\ CanSchedule(q)
           /\ r.state = [q.state EXCEPT ![head] = "RUNNING"]
           /\ IsInjective(r.TCBRdy) /\ Range(r.TCBRdy) = Range(q.TCBRdy) \ {head}
  <2>1. cur = q.TCBNext
    BY <1>4 DEF CanSchedule
  <2>2. head \in S /\ head \in Task /\ q.state[head] = "READY" /\ head # cur
    BY <1>1, <1>4
  <2>3. Range(r.TCBRdy) = {t \in S : r.state[t] = "READY"}
    BY <1>1, <1>4, <2>2
  <2>4. Swaps(q, r)
    BY <1>1, <1>4, <2>2 DEF Swaps
  <2>5. \A u \in Task : r.state[u] = "RUNNING" => u = r.TCBNext
    BY <1>1, <1>4, <2>1, <2>2
  <2>6. r.state[r.TCBNext] = "RUNNING"
    BY <1>1, <1>4, <2>2
  <2> HIDE DEF r
  <2>7. Scheduled(q, r, S)
    BY <1>4, <2>2, <2>3, <2>4, <2>5, <2>6 DEF Scheduled, Listed
  <2> QED  BY <2>7 DEF r
<1>5. CASE /\ head \in Range(q.TCBRdy) /\ r.TCBNext = head /\ r.PendSV = TRUE
           /\ q.state[cur] = "RUNNING"
           /\ r.state = [q.state EXCEPT ![cur] = "READY", ![head] = "RUNNING"]
           /\ IsInjective(r.TCBRdy) /\ Range(r.TCBRdy) = (Range(q.TCBRdy) \cup {cur}) \ {head}
  <2>2. head \in S /\ head \in Task /\ q.state[head] = "READY" /\ head # cur
    BY <1>1, <1>5
  <2>3. Range(r.TCBRdy) = {t \in S : r.state[t] = "READY"}
    BY <1>1, <1>5, <2>2
  <2>4. Swaps(q, r)
    BY <1>1, <1>5, <2>2 DEF Swaps
  <2>5. \A u \in Task : r.state[u] = "RUNNING" => u = r.TCBNext
    BY <1>1, <1>5, <2>2
  <2>6. r.state[r.TCBNext] = "RUNNING"
    BY <1>1, <1>5, <2>2
  <2> HIDE DEF r
  <2>7. Scheduled(q, r, S)
    BY <1>5, <2>2, <2>3, <2>4, <2>5, <2>6 DEF Scheduled, Listed
  <2> QED  BY <2>7 DEF r
<1> HIDE DEF r
<1> QED  BY <1>1, <1>2, <1>3, <1>4, <1>5, ScheduleFacts DEF r

-----------------------------------------------------------------------------
(* The free list: a TCB is pushed on it, and its head is taken off.        *)
LEMMA PushFacts ==
  ASSUME NEW s \in Seq(Task), NEW x \in Task
  PROVE  /\ <<x>> \o s \in Seq(Task)
         /\ Range(<<x>> \o s) = Range(s) \cup {x}
         /\ IsInjective(s) /\ x \notin Range(s) => IsInjective(<<x>> \o s)
<1> DEFINE r == <<x>> \o s
<1>1. r \in Seq(Task) /\ Len(r) = Len(s) + 1
  OBVIOUS
<1>2. \A i \in 1 .. Len(s) + 1 : r[i] = IF i = 1 THEN x ELSE s[i - 1]
  OBVIOUS
<1>3. DOMAIN r = 1 .. Len(s) + 1 /\ DOMAIN s = 1 .. Len(s) /\ Len(s) \in Nat
  BY <1>1
<1> HIDE DEF r
<1>4. Range(r) = Range(s) \cup {x}
  <2>1. \A j \in 1 .. Len(s) : s[j] = r[j + 1] /\ j + 1 \in 1 .. Len(s) + 1
    BY <1>2, <1>3
  <2>2. r[1] = x /\ 1 \in 1 .. Len(s) + 1
    BY <1>2, <1>3
  <2>3. Range(s) \cup {x} \subseteq Range(r)
    BY <1>3, <2>1, <2>2 DEF Range
  <2>4. ASSUME NEW i \in 1 .. Len(s) + 1  PROVE r[i] \in Range(s) \cup {x}
    <3>1. i = 1 \/ i - 1 \in 1 .. Len(s)
      BY <1>3
    <3> QED  BY <1>2, <1>3, <3>1 DEF Range
  <2> QED  BY <1>3, <2>3, <2>4 DEF Range
<1>5. ASSUME IsInjective(s), x \notin Range(s)  PROVE IsInjective(r)
  <2> SUFFICES ASSUME NEW i \in 1 .. Len(s) + 1, NEW j \in 1 .. Len(s) + 1, r[i] = r[j]
               PROVE  i = j
    BY <1>3 DEF IsInjective
  <2>1. \A h \in {i, j} : h = 1 \/ (h - 1 \in 1 .. Len(s) /\ r[h] = s[h - 1] /\ r[h] \in Range(s))
    BY <1>2, <1>3 DEF Range
  <2>2. r[1] = x
    BY <1>2, <1>3
  <2>3. CASE i = 1 \/ j = 1
    BY <1>5, <2>1, <2>2, <2>3
  <2>4. CASE i # 1 /\ j # 1
    <3>1. s[i - 1] = s[j - 1] /\ i - 1 \in DOMAIN s /\ j - 1 \in DOMAIN s
      BY <1>3, <2>1, <2>4
    <3>2. i - 1 = j - 1
      BY <1>5, <3>1 DEF IsInjective
    <3> QED  BY <1>3, <3>2
  <2> QED  BY <2>3, <2>4
<1> QED  BY <1>1, <1>4, <1>5 DEF r

(* What is left of a READY list when its head is taken off.                *)
LEMMA PopFacts ==
  ASSUME NEW s \in Seq(Task), s # <<>>, IsInjective(s)
  PROVE  /\ Head(s) \in Range(s) /\ Head(s) \in Task
         /\ Tail(s) \in Seq(Task)
         /\ Range(Tail(s)) = Range(s) \ {Head(s)}
         /\ IsInjective(Tail(s))
<1> DEFINE r == Tail(s)
<1>1. /\ r \in Seq(Task) /\ Len(r) = Len(s) - 1 /\ Len(s) \in Nat \ {0}
      /\ Head(s) = s[1] /\ Head(s) \in Task
      /\ \A i \in 1 .. Len(s) - 1 : r[i] = s[i + 1]
  BY HeadTailProperties, EmptySeq, LenProperties
<1>2. DOMAIN r = 1 .. Len(s) - 1 /\ DOMAIN s = 1 .. Len(s)
  BY <1>1
<1> HIDE DEF r
<1>3. \A i \in 1 .. Len(s) - 1 : i + 1 \in 1 .. Len(s) /\ i + 1 # 1
  BY <1>1
<1>4. \A i \in 1 .. Len(s) : i # 1 => i - 1 \in 1 .. Len(s) - 1 /\ r[i - 1] = s[i]
  BY <1>1
<1>5. 1 \in 1 .. Len(s)
  BY <1>1
<1>6. Range(r) = Range(s) \ {s[1]}
  <2>1. ASSUME NEW i \in 1 .. Len(s) - 1  PROVE r[i] \in Range(s) \ {s[1]}
    BY <1>1, <1>2, <1>3, <1>5 DEF Range, IsInjective
  <2>2. ASSUME NEW i \in 1 .. Len(s), s[i] # s[1]  PROVE s[i] \in Range(r)
    BY <1>2, <1>4, <2>2 DEF Range
  <2> QED  BY <1>2, <2>1, <2>2 DEF Range
<1>7. IsInjective(r)
  <2> SUFFICES ASSUME NEW i \in 1 .. Len(s) - 1, NEW j \in 1 .. Len(s) - 1, r[i] = r[j]
               PROVE  i = j
    BY <1>2 DEF IsInjective
  <2>1. i + 1 = j + 1
    BY <1>1, <1>2, <1>3 DEF IsInjective
  <2> QED  BY <1>1, <2>1
<1>8. Head(s) \in Range(s)
  BY <1>1, <1>2, <1>5 DEF Range
<1> QED  BY <1>1, <1>6, <1>7, <1>8 DEF r

-----------------------------------------------------------------------------
(* What is in a list is a task.                                            *)
LEMMA RangeOfTasks ==
  ASSUME NEW s \in Seq(Task)  PROVE Range(s) \subseteq Task
BY ElementOfSeq, LenProperties DEF Range

(* Where the invariant holds, a thread that executes is that of the next   *)
(* task, and the task is RUNNING but for the end of its last call.         *)
LEMMA Running ==
  ASSUME LockInv, ReadyInv, NEW t \in Task, NEW at \in At, Runs(t, at)
  PROVE  /\ t = k.TCBRunning /\ t = k.TCBNext /\ t \in issued /\ k.PendSV = FALSE
         /\ sysTick = "off" /\ k.OSIntNesting = 0
         /\ at # "unlock" => k.state[t] = "RUNNING"
         /\ at = "unlock" => k.OSSchedLock = sect[t] + 1
         /\ at \notin {"unlock", "release"} => k.OSSchedLock = sect[t]
         /\ \A u \in Task : k.state[u] = "RUNNING" => u = t
<1>1. /\ k \in Kernel /\ sect[t] \in Nat /\ k.OSSchedLock \in Nat /\ k.PendSV \in BOOLEAN
  BY DEF LockInv, TypeOK, Kernel
<1>2. t = k.TCBRunning /\ ~k.PendSV /\ sysTick = "off" /\ pc[t].at = at
  BY DEF Runs
<1>3. OnProcessor /\ LockExact
  BY DEF ReadyInv
<1>4. at # "release" => k.OSSchedLock = sect[t] + (IF at = "unlock" THEN 1 ELSE 0)
  BY <1>1, <1>2, <1>3 DEF LockExact, Held
<1>5. /\ t = k.TCBNext /\ t \in issued /\ k.OSIntNesting = 0
      /\ \A u \in Task : k.state[u] = "RUNNING" => u = k.TCBNext
      /\ k.state[t] = "RUNNING" \/ at = "unlock"
  BY <1>2, <1>3 DEF OnProcessor
<1> QED  BY <1>1, <1>2, <1>4, <1>5

(* What a call has checked survives a step that only exchanges READY and   *)
(* RUNNING.                                                                *)
LEMMA CheckStays ==
  ASSUME TypeOK, TypeOK', NEW u \in Task, CheckHolds(u),
         pc'[u] = pc[u], sect'[u] = sect[u], issued \subseteq issued',
         \/ k'.state[pc[u].tgt] = k.state[pc[u].tgt]
         \/ {k.state[pc[u].tgt], k'.state[pc[u].tgt]} \subseteq {"READY", "RUNNING"}
  PROVE  CheckHolds(u)'
BY DEF CheckHolds, Named

(* A thread that is in no window has nothing to hold.                      *)
LEMMA NoCheck ==
  ASSUME NEW t \in Task, pc'[t].at \in {"user", "unlock", "release", "fill"}
  PROVE  CheckHolds(t)'
BY DEF CheckHolds

(* The TCB that thread t is to fill stays the same, if there is one.       *)
FillGoesOn(t) ==
  \A x \in Task :
    /\ Filling(t, x)' <=> Filling(t, x)
    /\ Filling(t, x)' => pc'[t].at \in {"unlock", "release", "fill"}

(* A task that is not inside CoCreateTask() fills no control block.        *)
LEMMA FillsNothing ==
  ASSUME FillsEnd, NEW t \in Task, pc[t].at \notin {"unlock", "release", "fill"},
         pc'[t] = pc[t] \/ (pc'[t].at # "fill" /\ pc'[t].ret = "user")
  PROVE  FillGoesOn(t) /\ \A x \in Task : ~Filling(t, x) /\ ~Filling(t, x)'
BY DEF FillsEnd, FillGoesOn, Filling

(* A step of thread t that creates and deletes no task.                    *)
LEMMA QuietKeepsReady ==
  ASSUME LockInv, LockInv', ReadyInv, NEW t \in Task,
         Swaps(k, k'), Listed(k', issued), k'.FreeTCB = k.FreeTCB, issued' = issued,
         \A u \in Task : k'.state[u] = "RUNNING" => u = k'.TCBNext,
         \A u \in Task \ {t} : pc'[u] = pc[u] /\ sect'[u] = sect[u],
         CheckHolds(t)',
         FillGoesOn(t)
  PROVE  IdleReady' /\ ChecksHold' /\ FillsEnd' /\ ReadyListSound'
<1>1. /\ TypeOK /\ TypeOK' /\ issued \subseteq Task
      /\ \A u \in Task : pc[u].tgt \in Task
      /\ k.FreeTCB \in Seq(Task) /\ k.TCBRdy \in Seq(Task)
  BY DEF LockInv, TypeOK, Thread, Kernel
<1>2. /\ IdleReady /\ ChecksHold /\ FillsEnd /\ ReadyListSound
  BY DEF ReadyInv
<1>3. \A u \in Task : k'.state[u] = k.state[u]
                      \/ {k.state[u], k'.state[u]} \subseteq {"READY", "RUNNING"}
  BY DEF Swaps
<1>4. \A u, x \in Task :
        /\ Filling(u, x)' <=> Filling(u, x)
        /\ u # t => pc'[u] = pc[u]
        /\ u = t /\ Filling(u, x)' => pc'[u].at \in {"unlock", "release", "fill"}
  BY DEF Filling, FillGoesOn
<1>5. IdleReady'
  BY <1>2, <1>3, TaskFacts DEF IdleReady
<1>6. ChecksHold'
  BY <1>1, <1>2, <1>3, CheckStays DEF ChecksHold
<1>7. \A u \in Task : k.state[u] = "DORMANT" <=> k'.state[u] = "DORMANT"
  BY <1>3
<1>8. FillsEnd'
  BY <1>2, <1>4, <1>7 DEF FillsEnd
<1>9. ReadyListSound'
  BY <1>1, <1>2, <1>4, <1>7, RangeOfTasks DEF ReadyListSound, Listed
<1> QED  BY <1>5, <1>6, <1>8, <1>9

(* A step of a running thread that changes no task's state.                *)
LEMMA StillKeepsReady ==
  ASSUME LockInv, LockInv', ReadyInv, NEW t \in Task, NEW at \in At, Runs(t, at),
         k.state[t] = "RUNNING",
         k'.state = k.state, Listed(k', issued), k'.FreeTCB = k.FreeTCB,
         k'.TCBRunning = k.TCBRunning, k'.TCBNext = k.TCBNext, k'.PendSV = k.PendSV,
         k'.OSIntNesting = k.OSIntNesting,
         UNCHANGED <<issued, sysTick>>,
         \A u \in Task \ {t} : pc'[u] = pc[u] /\ sect'[u] = sect[u],
         CheckHolds(t)',
         FillGoesOn(t),
         k'.OSSchedLock = Held(t)' \/ pc'[t].at = "release"
  PROVE  ReadyInv'
<1>1. /\ t = k.TCBRunning /\ t = k.TCBNext /\ t \in issued /\ k.PendSV = FALSE
      /\ sysTick = "off" /\ k.OSIntNesting = 0
      /\ \A u \in Task : k.state[u] = "RUNNING" => u = t
  BY Running
<1>2. IdleReady' /\ ChecksHold' /\ FillsEnd' /\ ReadyListSound'
  BY <1>1, QuietKeepsReady DEF Swaps
<1>3. OnProcessor'
  BY <1>1 DEF OnProcessor
<1>4. Held(t)' \in Nat
  BY DEF LockInv, TypeOK, Held
<1>5. LockExact'
  BY <1>1, <1>4 DEF LockExact
<1> QED  BY <1>2, <1>3, <1>5 DEF ReadyInv

(* OsSchedUnlock() in a thread.  The outermost one of a task that has      *)
(* blocked itself takes it off the processor.                              *)
LEMMA UnlockKeepsReady ==
  ASSUME LockInv, LockInv', ReadyInv, NEW t \in Task,
         UnlockNested(t) \/ UnlockLast(t) \/ UnlockRelease(t)
  PROVE  ReadyInv'
<1>1. /\ k \in Kernel /\ pc \in [Task -> Thread] /\ sect \in [Task -> Nat]
      /\ issued \in SUBSET Task /\ k.OSSchedLock \in Nat
      /\ pc[t].ret \in {"user", "fill"} /\ pc[t] \in Thread
  BY DEF LockInv, TypeOK, Kernel, Thread
<1>2. /\ UNCHANGED <<sect, issued, sysTick>>
      /\ \E at \in At : Runs(t, at) /\ at \in {"unlock", "release"}
  BY DEF UnlockNested, UnlockLast, UnlockRelease, At
<1>3. /\ t = k.TCBRunning /\ t = k.TCBNext /\ t \in issued /\ k.PendSV = FALSE
      /\ sysTick = "off" /\ k.OSIntNesting = 0
      /\ \A u \in Task : k.state[u] = "RUNNING" => u = t
  BY <1>2, Running
<1>4. Listed(k, issued)
  BY <1>1 DEF ReadyInv, ReadyListSound, Listed
<1>5. ASSUME NEW at \in At, pc' = [pc EXCEPT ![t].at = at],
             at = "release" \/ at = pc[t].ret
      PROVE  /\ pc'[t].at = at
             /\ \A u \in Task \ {t} : pc'[u] = pc[u]
             /\ CheckHolds(t)'
             /\ FillGoesOn(t)
  <2>1. /\ pc'[t].at = at /\ pc'[t].ret = pc[t].ret /\ pc'[t].tgt = pc[t].tgt
        /\ \A u \in Task \ {t} : pc'[u] = pc[u]
    BY <1>1, <1>5 DEF Thread
  <2>2. FillGoesOn(t)
    <3>1. \A x \in Task : Filling(t, x) => pc[t].at \in {"unlock", "release", "fill"}
      BY DEF ReadyInv, FillsEnd
    <3>2. pc[t].at \in {"unlock", "release"}
      BY <1>2 DEF Runs
    <3> QED  BY <1>1, <1>5, <2>1, <3>1, <3>2 DEF Filling, FillGoesOn
  <2> QED  BY <1>1, <1>5, <2>1, <2>2, NoCheck
<1>6. "release" \in At /\ pc[t].ret \in At
  BY <1>1 DEF At, Windows
<1>7. CASE UnlockNested(t)
  <2>1. /\ pc' = [pc EXCEPT ![t].at = pc[t].ret] /\ Runs(t, "unlock") /\ "unlock" \in At
        /\ k' = [k EXCEPT !.OSSchedLock = k.OSSchedLock - 1] /\ k.OSSchedLock # 1
    BY <1>7 DEF UnlockNested, At
  <2>2. k.OSSchedLock = sect[t] + 1
    BY <2>1, Running
  <2>3. k.state[t] = "RUNNING"
    BY <1>1, <1>3, <2>1, <2>2 DEF ReadyInv, OnProcessor
  <2>4. /\ k'.state = k.state /\ k'.TCBRdy = k.TCBRdy /\ k'.FreeTCB = k.FreeTCB
        /\ k'.TCBRunning = k.TCBRunning /\ k'.TCBNext = k.TCBNext /\ k'.PendSV = k.PendSV
        /\ k'.OSIntNesting = k.OSIntNesting /\ k'.OSSchedLock = k.OSSchedLock - 1
    BY <1>1, <2>1 DEF Kernel
  <2>5. Listed(k', issued)
    BY <1>4, <2>4 DEF Listed
  <2>6. k'.OSSchedLock = Held(t)' \/ pc'[t].at = "release"
    BY <1>1, <1>2, <1>5, <1>6, <2>1, <2>2, <2>4 DEF Held
  <2> QED  BY <1>2, <1>5, <1>6, <2>1, <2>3, <2>4, <2>5, <2>6, StillKeepsReady
<1>8. CASE UnlockRelease(t)
  <2>1. /\ pc' = [pc EXCEPT ![t].at = pc[t].ret] /\ Runs(t, "release")
        /\ k' = [k EXCEPT !.OSSchedLock = 0] /\ pc[t].at = "release"
    BY <1>8 DEF UnlockRelease, Runs
  <2>2. k.state[t] = "RUNNING"
    BY <1>6, <2>1, Running
  <2>3. sect[t] = 0
    BY <2>1 DEF LockInv, ReleaseClosed
  <2>4. /\ k'.state = k.state /\ k'.TCBRdy = k.TCBRdy /\ k'.FreeTCB = k.FreeTCB
        /\ k'.TCBRunning = k.TCBRunning /\ k'.TCBNext = k.TCBNext /\ k'.PendSV = k.PendSV
        /\ k'.OSIntNesting = k.OSIntNesting /\ k'.OSSchedLock = 0
    BY <1>1, <2>1 DEF Kernel
  <2>5. Listed(k', issued)
    BY <1>4, <2>4 DEF Listed
  <2>6. k'.OSSchedLock = Held(t)' \/ pc'[t].at = "release"
    BY <1>1, <1>2, <1>5, <1>6, <2>1, <2>3, <2>4 DEF Held
  <2> QED  BY <1>2, <1>5, <1>6, <2>1, <2>2, <2>4, <2>5, <2>6, StillKeepsReady
<1>9. CASE UnlockLast(t)
  <2>1. /\ pc' = [pc EXCEPT ![t].at = "release"] /\ Runs(t, "unlock") /\ "unlock" \in At
        /\ k' = UnlockSchedule(k) /\ k.OSSchedLock = 1
    BY <1>9 DEF UnlockLast, At
  <2>2. k.state[t] # "READY" /\ (k.state[t] = "RUNNING" \/ k.TaskSchedReq)
    BY <1>3 DEF ReadyInv, OnProcessor
  <2>3. Scheduled(k, Schedule(k), issued)
    BY <1>1, <1>3, <1>4, <2>2, ScheduleKeepsList
  <2>4. k.state[t] # "RUNNING" => CanSchedule(k)
    <3>1. ASSUME k.state[t] # "RUNNING"  PROVE k.TCBRdy # <<>>
      <4>1. Idle \in Range(k.TCBRdy)
        BY <1>3, <1>4, <3>1, TaskFacts DEF Listed, ReadyInv, IdleReady
      <4> QED  BY <4>1 DEF Range
    <3> QED  BY <1>3, <2>1, <3>1 DEF CanSchedule
  <2>5. /\ k'.TCBRunning = t /\ k'.OSIntNesting = 0 /\ k'.FreeTCB = k.FreeTCB
    BY <1>1, <1>3, <2>1, ScheduleFacts DEF UnlockSchedule
  <2>6. /\ Listed(k', issued) /\ Swaps(k, k')
        /\ \A u \in Task : k'.state[u] = "RUNNING" => u = k'.TCBNext
    BY <1>3, <1>4, <2>1, <2>3 DEF UnlockSchedule, Scheduled, Swaps
  <2>7. /\ k'.TCBNext \in issued
        /\ k'.PendSV <=> t # k'.TCBNext
        /\ k'.state[k'.TCBNext] = "RUNNING"
    <3>1. CASE k' = k /\ (~k.TaskSchedReq \/ ~CanSchedule(k))
      BY <1>3, <2>2, <2>4, <3>1
    <3>2. CASE k' = Schedule(k) /\ CanSchedule(k)
      BY <1>3, <2>3, <3>2 DEF Scheduled
    <3>3. ~CanSchedule(k) => Schedule(k) = k
      BY DEF Schedule
    <3> QED  BY <2>1, <3>1, <3>2, <3>3 DEF UnlockSchedule
  <2>8. OnProcessor'
    BY <1>2, <1>3, <2>5, <2>6, <2>7 DEF OnProcessor
  <2>9. LockExact'
    BY <1>5, <1>6, <2>1, <2>5 DEF LockExact
  <2> QED  BY <1>2, <1>5, <1>6, <2>1, <2>5, <2>6, <2>8, <2>9, QuietKeepsReady DEF ReadyInv
<1> QED  BY <1>7, <1>8, <1>9

(* CoSchedLock() and CoSchedUnlock().                                      *)
LEMMA SectionsKeepReady ==
  ASSUME LockInv, LockInv', ReadyInv, NEW t \in Task, CoSchedLock(t) \/ CoSchedUnlock(t)
  PROVE  ReadyInv'
<1>1. /\ k \in Kernel /\ pc \in [Task -> Thread] /\ sect \in [Task -> Nat]
      /\ k.OSSchedLock \in Nat
  BY DEF LockInv, TypeOK, Kernel
<1>2. Runs(t, "user") /\ "user" \in At /\ pc[t].at = "user" /\ UNCHANGED <<issued, sysTick>>
  BY DEF CoSchedLock, CoSchedUnlock, Runs, At
<1>3. k.state[t] = "RUNNING" /\ k.OSSchedLock = sect[t]
  BY <1>2, Running
<1>4. Listed(k, issued)
  BY DEF ReadyInv, ReadyListSound, Listed
<1>5. CASE CoSchedLock(t)
  <2>1. /\ k' = OsSchedLock(k) /\ pc' = pc
        /\ sect' = [sect EXCEPT ![t] = sect[t] + 1]
    BY <1>5 DEF CoSchedLock
  <2>2. /\ k'.state = k.state /\ k'.TCBRdy = k.TCBRdy /\ k'.FreeTCB = k.FreeTCB
        /\ k'.TCBRunning = k.TCBRunning /\ k'.TCBNext = k.TCBNext /\ k'.PendSV = k.PendSV
        /\ k'.OSIntNesting = k.OSIntNesting /\ k'.OSSchedLock = k.OSSchedLock + 1
    BY <1>1, <2>1, LockFacts
  <2>3. Listed(k', issued)
    BY <1>4, <2>2 DEF Listed
  <2>4. k'.OSSchedLock = Held(t)'
    BY <1>1, <1>2, <1>3, <2>1, <2>2 DEF Held
  <2>5. CheckHolds(t)'
    BY <1>2, <2>1, NoCheck
  <2>6. /\ \A u \in Task \ {t} : pc'[u] = pc[u] /\ sect'[u] = sect[u]
        /\ FillGoesOn(t)
    BY <1>1, <1>2, <2>1, FillsNothing DEF ReadyInv
  <2> QED  BY <1>2, <1>3, <2>2, <2>3, <2>4, <2>5, <2>6, StillKeepsReady
<1>6. CASE CoSchedUnlock(t)
  <2>1. /\ k' = k /\ sect' = [sect EXCEPT ![t] = sect[t] - 1] /\ sect[t] > 0
        /\ pc' = [pc EXCEPT ![t] = [at |-> "unlock", tgt |-> Idle, ret |-> "user"]]
    BY <1>6 DEF CoSchedUnlock, Unlocks, Goto
  <2>2. k'.OSSchedLock = Held(t)'
    BY <1>1, <1>3, <2>1 DEF Held
  <2>3. CheckHolds(t)'
    BY <1>1, <2>1, NoCheck
  <2>4. /\ \A u \in Task \ {t} : pc'[u] = pc[u] /\ sect'[u] = sect[u]
        /\ FillGoesOn(t)
    BY <1>1, <1>2, <2>1, FillsNothing DEF ReadyInv
  <2> QED  BY <1>2, <1>3, <1>4, <2>1, <2>2, <2>3, <2>4, StillKeepsReady
<1> QED  BY <1>5, <1>6

(* A thread goes on to a window whose check holds, and changes no task's   *)
(* state.                                                                  *)
LEMMA GotoKeepsReady ==
  ASSUME LockInv, LockInv', ReadyInv, NEW t \in Task, NEW x \in Task,
         NEW at \in {"user", "prio"}, Runs(t, at),
         NEW at2 \in At \ {"unlock", "release", "fill"}, Goto(t, at2, x),
         k'.state = k.state, k'.TCBRdy = k.TCBRdy, k'.FreeTCB = k.FreeTCB,
         k'.TCBRunning = k.TCBRunning, k'.TCBNext = k.TCBNext, k'.PendSV = k.PendSV,
         k'.OSIntNesting = k.OSIntNesting, k'.OSSchedLock = k.OSSchedLock,
         UNCHANGED <<sect, issued, sysTick>>,
         CheckHolds(t)'
  PROVE  ReadyInv'
<1>1. pc \in [Task -> Thread] /\ sect \in [Task -> Nat]
  BY DEF LockInv, TypeOK
<1>2. pc' = [pc EXCEPT ![t] = [at |-> at2, tgt |-> x, ret |-> "user"]]
  BY DEF Goto
<1>3. at \in At \ {"unlock", "release"}
  BY DEF At, Windows
<1>4. k.state[t] = "RUNNING" /\ k.OSSchedLock = sect[t]
  BY <1>3, Running
<1>5. Listed(k', issued)
  BY DEF ReadyInv, ReadyListSound, Listed
<1>6. /\ \A u \in Task \ {t} : pc'[u] = pc[u] /\ sect'[u] = sect[u]
      /\ FillGoesOn(t)
      /\ k'.OSSchedLock = Held(t)'
  BY <1>1, <1>2, <1>4, FillsNothing DEF ReadyInv, Held, Runs
<1> QED  BY <1>3, <1>4, <1>5, <1>6, StillKeepsReady

(* The checks at the head of the API calls.                                *)
LEMMA ChecksKeepReady ==
  ASSUME LockInv, LockInv', ReadyInv, Stray = {}, NEW t \in Task, NEW x \in Task,
         CallSuspend(t, x) \/ CallAwake(t, x) \/ CallDel(t, x) \/ CallSetPriority(t, x)
  PROVE  ReadyInv'
<1>1. /\ k \in Kernel /\ pc \in [Task -> Thread] /\ sect \in [Task -> Nat]
      /\ k.state[x] \in TaskState
  BY DEF LockInv, TypeOK, Kernel
<1>2. Runs(t, "user") /\ "user" \in At /\ UNCHANGED <<sect, issued, sysTick>>
  BY DEF CallSuspend, CallAwake, CallDel, CallSetPriority, At
<1>3. /\ k.state[t] = "RUNNING" /\ k.OSSchedLock = sect[t]
      /\ \A u \in Task : k.state[u] = "RUNNING" => u = t
  BY <1>2, Running
<1>4. x \in issued /\ x # Idle
  BY DEF CallSuspend, CallAwake, CallDel, CallSetPriority, Known
<1>5. /\ k'.state = k.state /\ k'.TCBRdy = k.TCBRdy /\ k'.FreeTCB = k.FreeTCB
      /\ k'.TCBRunning = k.TCBRunning /\ k'.TCBNext = k.TCBNext /\ k'.PendSV = k.PendSV
      /\ k'.OSIntNesting = k.OSIntNesting /\ k'.OSSchedLock = k.OSSchedLock
  <2>1. k' = k \/ \E p \in Prios : k' = [k EXCEPT !.prio = [k.prio EXCEPT ![x] = p]]
    BY DEF CallSuspend, CallAwake, CallDel, CallSetPriority
  <2> QED  BY <1>1, <2>1 DEF Kernel
<1>6. ASSUME NEW at2 \in {"suspend", "awake", "del", "prio"}, Goto(t, at2, x)
      PROVE  /\ at2 \in At \ {"unlock", "release", "fill"}
             /\ pc'[t].at = at2 /\ pc'[t].tgt = x
  BY <1>1, <1>6 DEF Goto, At, Windows
<1>7. CASE CallSuspend(t, x)
  <2>1. /\ Goto(t, "suspend", x) /\ <<t, x>> \in Suspends
        /\ k.state[x] \in {"READY", "RUNNING"} /\ k.OSSchedLock = 0
    BY <1>1, <1>7 DEF CallSuspend, TaskState
  <2>2. CheckHolds(t)'
    BY <1>2, <1>3, <1>4, <1>5, <1>6, <2>1 DEF CheckHolds, Named
  <2> QED  BY <1>2, <1>5, <1>6, <2>1, <2>2, GotoKeepsReady
<1>8. CASE CallAwake(t, x)
  <2>1. Goto(t, "awake", x) /\ <<t, x>> \in Awakes /\ k.state[x] = "WAITING"
    BY <1>8 DEF CallAwake
  <2>2. CheckHolds(t)'
    BY <1>2, <1>3, <1>4, <1>5, <1>6, <2>1 DEF CheckHolds, Named
  <2> QED  BY <1>2, <1>5, <1>6, <2>1, <2>2, GotoKeepsReady
<1>9. CASE CallDel(t, x)
  <2>1. /\ Goto(t, "del", x) /\ <<t, x>> \in Deletes /\ k.state[x] # "DORMANT"
        /\ k.state[x] = "RUNNING" => k.OSSchedLock = 0
    BY <1>9 DEF CallDel
  <2>2. CheckHolds(t)'
    BY <1>2, <1>3, <1>4, <1>5, <1>6, <2>1 DEF CheckHolds, Named
  <2> QED  BY <1>2, <1>5, <1>6, <2>1, <2>2, GotoKeepsReady
<1>10. CASE CallSetPriority(t, x)
  <2>1. Goto(t, "prio", x) /\ <<t, x>> \in Reprioritises /\ k.state[x] # "DORMANT"
    BY <1>10 DEF CallSetPriority
  <2>2. CheckHolds(t)'
    BY <1>2, <1>3, <1>4, <1>5, <1>6, <2>1 DEF CheckHolds, Named
  <2> QED  BY <1>2, <1>5, <1>6, <2>1, <2>2, GotoKeepsReady
<1> QED  BY <1>7, <1>8, <1>9, <1>10

(* CoSetPriority() after its store of the priority.                        *)
LEMMA PriorityKeepsReady ==
  ASSUME LockInv, LockInv', ReadyInv, NEW t \in Task,
         PriorityStored(t) \/ PriorityReorder(t) \/ PriorityYield(t)
  PROVE  ReadyInv'
<1> DEFINE x == pc[t].tgt
           m == OsSchedLock(k)
<1>1. /\ k \in Kernel /\ pc \in [Task -> Thread] /\ sect \in [Task -> Nat]
      /\ k.OSSchedLock \in Nat /\ x \in Task
  BY DEF LockInv, TypeOK, Kernel, Thread
<1>2. PICK at \in At \ {"unlock", "release"} : Runs(t, at) /\ at \in {"prio", "reorder", "yield"}
  BY DEF PriorityStored, PriorityReorder, PriorityYield, At, Windows
<1>3. /\ k.state[t] = "RUNNING" /\ k.OSSchedLock = sect[t]
      /\ \A u \in Task : k.state[u] = "RUNNING" => u = t
      /\ UNCHANGED <<sect, issued, sysTick>>
  BY <1>2, Running DEF PriorityStored, PriorityReorder, PriorityYield
<1>4. CheckHolds(t) /\ pc[t].at = at
  BY <1>2 DEF ReadyInv, ChecksHold, Runs
<1>5. Listed(k, issued)
  BY DEF ReadyInv, ReadyListSound, Listed
<1>6. CASE PriorityStored(t)
  <2> DEFINE at2 == CASE k.state[x] = "READY" -> "reorder"
                      [] k.state[x] = "RUNNING" /\ k.prio[x] > RdyPrio(k) -> "yield"
                      [] OTHER -> "user"
  <2>1. Runs(t, "prio") /\ Goto(t, at2, x) /\ k' = k
    BY <1>6 DEF PriorityStored
  <2>2. /\ at2 \in {"reorder", "yield", "user"}
        /\ at2 = "reorder" => k.state[x] = "READY"
    OBVIOUS
  <2> HIDE DEF at2
  <2>3. at2 \in At \ {"unlock", "release", "fill"}
    BY <2>2 DEF At, Windows
  <2>4. pc'[t].at = at2 /\ pc'[t].tgt = x
    BY <1>1, <2>1 DEF Goto
  <2>5. CheckHolds(t)'
    BY <1>3, <1>4, <2>1, <2>2, <2>4 DEF CheckHolds, Named, Runs
  <2> QED  BY <1>1, <1>3, <2>1, <2>3, <2>5, GotoKeepsReady
<1>7. ASSUME Unlocks(t), k' \in Kernel,
             k'.state = k.state, Listed(k', issued), k'.FreeTCB = k.FreeTCB,
             k'.TCBRunning = k.TCBRunning, k'.TCBNext = k.TCBNext, k'.PendSV = k.PendSV,
             k'.OSIntNesting = k.OSIntNesting, k'.OSSchedLock = k.OSSchedLock + 1
      PROVE  ReadyInv'
  <2>1. pc' = [pc EXCEPT ![t] = [at |-> "unlock", tgt |-> Idle, ret |-> "user"]]
    BY <1>7 DEF Unlocks, Goto
  <2>2. CheckHolds(t)'
    BY <1>1, <2>1, NoCheck
  <2>3. /\ \A u \in Task \ {t} : pc'[u] = pc[u] /\ sect'[u] = sect[u]
        /\ FillGoesOn(t)
        /\ k'.OSSchedLock = Held(t)'
    <3>1. pc[t].at \notin {"unlock", "release", "fill"}
      BY <1>2 DEF Runs
    <3> QED  BY <1>1, <1>3, <1>7, <2>1, <3>1, FillsNothing DEF ReadyInv, Held
  <2> QED  BY <1>2, <1>3, <1>7, <2>2, <2>3, StillKeepsReady
<1>8. /\ m \in Kernel /\ m.OSSchedLock = k.OSSchedLock + 1
      /\ m.state = k.state /\ m.prio = k.prio
      /\ m.TCBRdy = k.TCBRdy /\ m.FreeTCB = k.FreeTCB
      /\ m.TCBRunning = k.TCBRunning /\ m.TCBNext = k.TCBNext
      /\ m.OSIntNesting = k.OSIntNesting /\ m.PendSV = k.PendSV
  BY <1>1, LockFacts
<1> HIDE DEF m
<1>9. CASE PriorityYield(t)
  <2>1. Unlocks(t) /\ k' = RequestSchedule(m)
    BY <1>9 DEF PriorityYield, m
  <2>2. /\ k' \in Kernel
        /\ k'.state = k.state /\ k'.TCBRdy = k.TCBRdy /\ k'.FreeTCB = k.FreeTCB
        /\ k'.TCBRunning = k.TCBRunning /\ k'.TCBNext = k.TCBNext /\ k'.PendSV = k.PendSV
        /\ k'.OSIntNesting = k.OSIntNesting /\ k'.OSSchedLock = k.OSSchedLock + 1
    BY <1>8, <2>1, RequestFacts
  <2>3. Listed(k', issued)
    BY <1>5, <2>2 DEF Listed
  <2> QED  BY <1>7, <2>1, <2>2, <2>3
<1>10. CASE PriorityReorder(t)
  <2> DEFINE n == RemoveFromTCBRdyList(m, x)
  <2>1. Unlocks(t) /\ k' = InsertToTCBRdyList(n, x) /\ pc[t].at = "reorder"
    BY <1>10 DEF PriorityReorder, m, Runs
  <2>2. x \in issued /\ k.state[x] = "READY"
    BY <1>1, <1>3, <1>4, <2>1 DEF CheckHolds, Named
  <2> HIDE DEF x
  <2>3. IsInjective(m.TCBRdy) /\ x \in Range(m.TCBRdy)
    BY <1>5, <1>8, <2>2 DEF Listed
  <2>4. /\ n \in Kernel /\ n.state = m.state /\ n.FreeTCB = m.FreeTCB
        /\ n.TCBRunning = m.TCBRunning /\ n.TCBNext = m.TCBNext /\ n.PendSV = m.PendSV
        /\ n.OSIntNesting = m.OSIntNesting /\ n.OSSchedLock = m.OSSchedLock
        /\ Range(n.TCBRdy) = Range(m.TCBRdy) \ {x} /\ IsInjective(n.TCBRdy)
    BY <1>1, <1>8, <2>3, RemoveFacts
  <2> HIDE DEF n
  <2>5. /\ k' \in Kernel
        /\ k'.state = [n.state EXCEPT ![x] = "READY"] /\ k'.FreeTCB = n.FreeTCB
        /\ k'.TCBRunning = n.TCBRunning /\ k'.TCBNext = n.TCBNext /\ k'.PendSV = n.PendSV
        /\ k'.OSIntNesting = n.OSIntNesting /\ k'.OSSchedLock = n.OSSchedLock
        /\ Range(k'.TCBRdy) = Range(n.TCBRdy) \cup {x} /\ IsInjective(k'.TCBRdy)
    <3>1. x \notin Range(n.TCBRdy)
      BY <2>4
    <3> QED  BY <1>1, <2>1, <2>4, <3>1, InsertFacts
  <2>6. k'.state = k.state
    BY <1>1, <1>8, <2>2, <2>4, <2>5 DEF Kernel
  <2>7. Listed(k', issued)
    BY <1>5, <1>8, <2>2, <2>4, <2>5, <2>6 DEF Listed
  <2> QED  BY <1>7, <1>8, <2>1, <2>4, <2>5, <2>6, <2>7
<1> QED  BY <1>6, <1>9, <1>10

-----------------------------------------------------------------------------
(* The body of a call that changes the state of task x to z.               *)
LEMMA BodyKeepsReady ==
  ASSUME LockInv, LockInv', ReadyInv, NEW t \in Task, NEW x \in Task,
         NEW at \in At \ {"unlock", "release", "fill"}, Runs(t, at), Unlocks(t),
         NEW z \in TaskState, k'.state = [k.state EXCEPT ![x] = z], z # "RUNNING",
         x \in issued, x # Idle, k.state[x] # "DORMANT",
         x = t => z # "READY" /\ sect[t] = 0 /\ k'.TaskSchedReq,
         k'.TCBRunning = k.TCBRunning, k'.TCBNext = k.TCBNext, k'.PendSV = k.PendSV,
         k'.OSIntNesting = k.OSIntNesting, k'.OSSchedLock = k.OSSchedLock + 1,
         UNCHANGED <<sect, issued, sysTick>>,
         Listed(k', issued),
         \/ z # "DORMANT" /\ k'.FreeTCB = k.FreeTCB
         \/ /\ z = "DORMANT" /\ k'.FreeTCB = <<x>> \o k.FreeTCB
            /\ x # t => x \notin Creators,
         \A u \in Task \ {t} : CheckHolds(u)'
  PROVE  ReadyInv'
<1>1. /\ pc \in [Task -> Thread] /\ sect \in [Task -> Nat] /\ k \in Kernel
      /\ k.state \in [Task -> TaskState] /\ issued \subseteq Task
      /\ k.FreeTCB \in Seq(Task)
  BY DEF LockInv, TypeOK, Kernel
<1>2. pc' = [pc EXCEPT ![t] = [at |-> "unlock", tgt |-> Idle, ret |-> "user"]]
  BY DEF Unlocks, Goto
<1>3. /\ t = k.TCBRunning /\ t = k.TCBNext /\ t \in issued /\ k.PendSV = FALSE
      /\ sysTick = "off" /\ k.OSIntNesting = 0
      /\ k.state[t] = "RUNNING" /\ k.OSSchedLock = sect[t]
      /\ \A u \in Task : k.state[u] = "RUNNING" => u = t
  BY Running
<1>4. /\ IdleReady /\ FillsEnd /\ ReadyListSound
  BY DEF ReadyInv
<1>5. LockExact'
  BY <1>1, <1>2, <1>3 DEF LockExact, Held
<1>6. OnProcessor'
  <2>1. \A u \in Task : k'.state[u] = "RUNNING" => u = t
    BY <1>1, <1>3
  <2>2. CASE x = t
    BY <1>1, <1>2, <1>3, <2>1, <2>2 DEF OnProcessor
  <2>3. CASE x # t
    BY <1>1, <1>3, <2>1, <2>3 DEF OnProcessor
  <2> QED  BY <2>2, <2>3
<1>7. IdleReady'
  BY <1>1, <1>4, TaskFacts DEF IdleReady
<1>8. ChecksHold'
  BY <1>1, <1>2, NoCheck DEF ChecksHold
<1>9. /\ \A u, y \in Task : Filling(u, y)' <=> Filling(u, y)
      /\ \A u \in Task : ~Filling(u, x)
      /\ \A y \in Task : ~Filling(t, y)
  <2>1. pc[t].at \notin {"unlock", "release", "fill"}
    BY DEF Runs
  <2>2. FillGoesOn(t) /\ \A y \in Task : ~Filling(t, y)
    BY <1>1, <1>2, <1>4, <2>1, FillsNothing
  <2>3. \A u, y \in Task : Filling(u, y)' <=> Filling(u, y)
    BY <1>1, <1>2, <2>2 DEF Filling, FillGoesOn
  <2>4. \A u \in Task : ~Filling(u, x)
    BY <1>4 DEF ReadyListSound
  <2> QED  BY <2>2, <2>3, <2>4
<1>10. FillsEnd'
  <2> SUFFICES ASSUME NEW u \in Task, NEW y \in Task, Filling(u, y)'
               PROVE  /\ u \in Creators /\ u \in issued' /\ k'.state[u] # "DORMANT"
                      /\ pc'[u].at \in {"unlock", "release", "fill"}
    BY DEF FillsEnd
  <2>1. u # t /\ Filling(u, y)
    BY <1>9
  <2> QED  BY <1>1, <1>2, <1>4, <2>1 DEF FillsEnd
<1>11. x \notin Range(k.FreeTCB)
  BY <1>4 DEF ReadyListSound
<1>12. /\ IsInjective(k'.FreeTCB)
       /\ Range(k'.FreeTCB) = Range(k.FreeTCB) \cup (IF z = "DORMANT" THEN {x} ELSE {})
  <2>1. CASE z # "DORMANT"
    BY <1>4, <2>1 DEF ReadyListSound
  <2>2. CASE z = "DORMANT"
    <3>1. k'.FreeTCB = <<x>> \o k.FreeTCB /\ IsInjective(k.FreeTCB)
      BY <1>4, <2>2 DEF ReadyListSound
    <3> QED  BY <1>1, <1>11, <2>2, <3>1, PushFacts
  <2> QED  BY <2>1, <2>2
<1>13. ReadyListSound'
  <2>1. ASSUME NEW y \in Task
        PROVE  (y \in Range(k'.FreeTCB) \/ \E u \in Task : Filling(u, y)')
               <=> (k'.state[y] = "DORMANT" \/ y \notin issued')
    <3>1. (y \in Range(k.FreeTCB) \/ \E u \in Task : Filling(u, y))
          <=> (k.state[y] = "DORMANT" \/ y \notin issued)
      BY <1>4 DEF ReadyListSound
    <3>2. (\E u \in Task : Filling(u, y)') <=> (\E u \in Task : Filling(u, y))
      BY <1>9
    <3>3. CASE y = x
      BY <1>1, <1>9, <1>11, <1>12, <3>2, <3>3
    <3>4. CASE y # x
      BY <1>1, <1>12, <3>1, <3>2, <3>4
    <3> QED  BY <3>3, <3>4
  <2>2. \A y \in Range(k'.FreeTCB), u \in Task : ~Filling(u, y)'
    BY <1>1, <1>4, <1>9, <1>12, RangeOfTasks DEF ReadyListSound
  <2>3. \A u, v, y \in Task : Filling(u, y)' /\ Filling(v, y)' => u = v
    BY <1>4, <1>9 DEF ReadyListSound
  <2> QED  BY <1>1, <1>3, <1>12, <2>1, <2>2, <2>3 DEF ReadyListSound, Listed
<1> QED  BY <1>5, <1>6, <1>7, <1>8, <1>10, <1>13 DEF ReadyInv

(* No other thread is in a window on x that the owner's change of x closes. *)
LEMMA SuspendKeepsReady ==
  ASSUME LockInv, LockInv', ReadyInv, SingleOwner, NEW t \in Task, CoSuspendTask(t)
  PROVE  ReadyInv'
<1> DEFINE x  == pc[t].tgt
           m  == OsSchedLock(k)
           k2 == IF x # k.TCBRunning THEN RemoveFromTCBRdyList(m, x)
                                     ELSE RequestSchedule(m)
<1>1. /\ k \in Kernel /\ x \in Task /\ issued \subseteq Task
      /\ pc \in [Task -> Thread] /\ sect \in [Task -> Nat]
  BY DEF LockInv, TypeOK, Thread
<1>2. /\ Runs(t, "suspend") /\ pc[t].at = "suspend" /\ "suspend" \in At \ {"unlock", "release", "fill"}
      /\ Unlocks(t) /\ UNCHANGED <<sect, issued, sysTick>>
      /\ k' = [k2 EXCEPT !.state = [k2.state EXCEPT ![x] = "WAITING"]]
  BY DEF CoSuspendTask, Runs, At, Windows
<1>3. /\ t = k.TCBRunning
      /\ k.state[t] = "RUNNING" /\ \A u \in Task : k.state[u] = "RUNNING" => u = t
  BY <1>2, Running
<1>4. /\ <<t, x>> \in Suspends /\ x \in issued /\ x # Idle
      /\ k.state[x] \in {"READY", "RUNNING"} /\ sect[t] = 0
  BY <1>2 DEF ReadyInv, ChecksHold, CheckHolds, Named
<1>5. Listed(k, issued)
  BY DEF ReadyInv, ReadyListSound, Listed
<1>6. /\ m \in Kernel /\ m.OSSchedLock = k.OSSchedLock + 1
      /\ m.state = k.state /\ m.TCBRdy = k.TCBRdy /\ m.FreeTCB = k.FreeTCB
      /\ m.TCBRunning = k.TCBRunning /\ m.TCBNext = k.TCBNext
      /\ m.OSIntNesting = k.OSIntNesting /\ m.PendSV = k.PendSV
  BY <1>1, LockFacts
<1> HIDE DEF m, x
<1>7. /\ k2 \in Kernel /\ k2.OSSchedLock = m.OSSchedLock
      /\ k2.state = m.state /\ k2.FreeTCB = m.FreeTCB
      /\ k2.TCBRunning = m.TCBRunning /\ k2.TCBNext = m.TCBNext
      /\ k2.OSIntNesting = m.OSIntNesting /\ k2.PendSV = m.PendSV
      /\ x = t => k2.TaskSchedReq
      /\ Range(k2.TCBRdy) = Range(m.TCBRdy) \ {x} /\ IsInjective(k2.TCBRdy)
  <2>1. CASE x # t
    <3>1. x \in Range(m.TCBRdy) /\ IsInjective(m.TCBRdy)
      BY <1>1, <1>3, <1>4, <1>5, <1>6, <2>1 DEF Listed
    <3>2. k2 = RemoveFromTCBRdyList(m, x)
      BY <1>3, <2>1
    <3> HIDE DEF k2
    <3> QED  BY <1>1, <1>6, <2>1, <3>1, <3>2, RemoveFacts
  <2>2. CASE x = t
    <3>1. x \notin Range(m.TCBRdy) /\ IsInjective(m.TCBRdy)
      BY <1>3, <1>5, <1>6, <2>2 DEF Listed
    <3>2. k2 = RequestSchedule(m)
      BY <1>3, <2>2
    <3> HIDE DEF k2
    <3>3. k2.TCBRdy = m.TCBRdy
      BY <1>6, <3>2, RequestFacts
    <3> QED  BY <1>6, <3>1, <3>2, <3>3, RequestFacts
  <2> QED  BY <2>1, <2>2
<1> HIDE DEF k2
<1>8. /\ k'.OSSchedLock = k2.OSSchedLock
      /\ k'.state = [k2.state EXCEPT ![x] = "WAITING"] /\ k'.FreeTCB = k2.FreeTCB
      /\ k'.TCBRunning = k2.TCBRunning /\ k'.TCBNext = k2.TCBNext
      /\ k'.OSIntNesting = k2.OSIntNesting /\ k'.PendSV = k2.PendSV
      /\ k'.TaskSchedReq = k2.TaskSchedReq /\ k'.TCBRdy = k2.TCBRdy
  BY <1>2, <1>7 DEF Kernel
<1>9. k'.state = [k.state EXCEPT ![x] = "WAITING"] /\ k.state \in [Task -> TaskState]
  BY <1>1, <1>6, <1>7, <1>8 DEF Kernel
<1>10. Listed(k', issued)
  BY <1>1, <1>5, <1>6, <1>7, <1>8, <1>9 DEF Listed
<1>11. ASSUME NEW u \in Task \ {t}  PROVE CheckHolds(u)'
  <2>1. /\ TypeOK /\ TypeOK' /\ CheckHolds(u) /\ pc'[u] = pc[u] /\ sect'[u] = sect[u]
        /\ issued' = issued /\ pc[u].tgt \in Task
    BY <1>1, <1>2 DEF LockInv, TypeOK, ReadyInv, ChecksHold, Unlocks, Goto, Thread
  <2>2. CASE pc[u].tgt # x
    BY <1>9, <2>1, <2>2, CheckStays
  <2>3. CASE pc[u].tgt = x
    <3>1. <<u, x>> \notin Suspends /\ <<u, x>> \notin Reprioritises /\ <<u, x>> \notin Deletes
      BY <1>1, <1>4 DEF SingleOwner, Commands
    <3>2. pc[u].at \notin {"suspend", "awake", "del", "prio", "reorder", "yield"}
      BY <1>4, <2>1, <2>3, <3>1 DEF CheckHolds, Named
    <3> QED  BY <2>1, <3>2 DEF CheckHolds
  <2> QED  BY <2>2, <2>3
<1>12. /\ k'.TCBRunning = k.TCBRunning /\ k'.TCBNext = k.TCBNext /\ k'.PendSV = k.PendSV
       /\ k'.OSIntNesting = k.OSIntNesting /\ k'.OSSchedLock = k.OSSchedLock + 1
       /\ k'.FreeTCB = k.FreeTCB
       /\ x = t => k'.TaskSchedReq
  BY <1>6, <1>7, <1>8
<1>13. "WAITING" \in TaskState
  BY DEF TaskState
<1> HIDE DEF ReadyInv
<1>14. k.state[x] # "DORMANT" /\ (x = t => sect[t] = 0)
  BY <1>4
<1>15. \A u \in Task \ {t} : CheckHolds(u)'
  BY <1>11
<1> QED  BY <1>1, <1>2, <1>4, <1>9, <1>10, <1>12, <1>13, <1>14, <1>15, BodyKeepsReady

(* CoAwakeTask() puts a waiting task on the READY list once and for all.   *)
LEMMA AwakeKeepsReady ==
  ASSUME LockInv, LockInv', ReadyInv, SingleOwner, NEW t \in Task, CoAwakeTask(t)
  PROVE  ReadyInv'
<1> DEFINE x == pc[t].tgt
           m == OsSchedLock(k)
<1>1. /\ k \in Kernel /\ x \in Task /\ issued \subseteq Task
      /\ pc \in [Task -> Thread] /\ sect \in [Task -> Nat]
  BY DEF LockInv, TypeOK, Thread
<1>2. /\ Runs(t, "awake") /\ pc[t].at = "awake" /\ "awake" \in At \ {"unlock", "release", "fill"}
      /\ Unlocks(t) /\ UNCHANGED <<sect, issued, sysTick>>
      /\ k' = InsertToTCBRdyList(m, x)
  BY DEF CoAwakeTask, Runs, At, Windows
<1>3. /\ <<t, x>> \in Awakes /\ x \in issued /\ x # Idle
      /\ k.state[x] = "WAITING" /\ x # t
  BY <1>2 DEF ReadyInv, ChecksHold, CheckHolds, Named
<1>4. Listed(k, issued)
  BY DEF ReadyInv, ReadyListSound, Listed
<1>5. /\ m \in Kernel /\ m.OSSchedLock = k.OSSchedLock + 1
      /\ m.state = k.state /\ m.TCBRdy = k.TCBRdy /\ m.FreeTCB = k.FreeTCB
      /\ m.TCBRunning = k.TCBRunning /\ m.TCBNext = k.TCBNext
      /\ m.OSIntNesting = k.OSIntNesting /\ m.PendSV = k.PendSV
  BY <1>1, LockFacts
<1> HIDE DEF m, x
<1>6. x \notin Range(m.TCBRdy) /\ IsInjective(m.TCBRdy)
  BY <1>3, <1>4, <1>5 DEF Listed
<1>7. /\ k'.OSSchedLock = m.OSSchedLock
      /\ k'.state = [m.state EXCEPT ![x] = "READY"] /\ k'.FreeTCB = m.FreeTCB
      /\ k'.TCBRunning = m.TCBRunning /\ k'.TCBNext = m.TCBNext
      /\ k'.OSIntNesting = m.OSIntNesting /\ k'.PendSV = m.PendSV
      /\ Range(k'.TCBRdy) = Range(m.TCBRdy) \cup {x} /\ IsInjective(k'.TCBRdy)
  BY <1>1, <1>2, <1>5, <1>6, InsertFacts
<1>8. /\ k'.state = [k.state EXCEPT ![x] = "READY"] /\ k.state \in [Task -> TaskState]
      /\ k'.TCBRunning = k.TCBRunning /\ k'.TCBNext = k.TCBNext /\ k'.PendSV = k.PendSV
      /\ k'.OSIntNesting = k.OSIntNesting /\ k'.OSSchedLock = k.OSSchedLock + 1
      /\ k'.FreeTCB = k.FreeTCB
  BY <1>1, <1>5, <1>7 DEF Kernel
<1>9. Listed(k', issued)
  BY <1>1, <1>3, <1>4, <1>5, <1>7, <1>8 DEF Listed
<1>10. ASSUME NEW u \in Task \ {t}  PROVE CheckHolds(u)'
  <2>1. /\ TypeOK /\ TypeOK' /\ CheckHolds(u) /\ pc'[u] = pc[u] /\ sect'[u] = sect[u]
        /\ issued' = issued /\ pc[u].tgt \in Task
    BY <1>1, <1>2 DEF LockInv, TypeOK, ReadyInv, ChecksHold, Unlocks, Goto, Thread
  <2>2. CASE pc[u].tgt # x
    BY <1>8, <2>1, <2>2, CheckStays
  <2>3. CASE pc[u].tgt = x
    <3>1. <<u, x>> \notin Awakes
      BY <1>1, <1>3 DEF SingleOwner
    <3>2. pc[u].at \notin {"suspend", "awake", "reorder"} /\ k'.state[x] = "READY"
      BY <1>1, <1>3, <1>8, <2>1, <2>3, <3>1 DEF CheckHolds, Named
    <3> QED  BY <2>1, <2>3, <3>2 DEF CheckHolds, Named
  <2> QED  BY <2>2, <2>3
<1> HIDE DEF ReadyInv
<1>11. "READY" \in TaskState /\ k.state[x] # "DORMANT"
  BY <1>3 DEF TaskState
<1>12. \A u \in Task \ {t} : CheckHolds(u)'
  BY <1>10
<1> QED  BY <1>1, <1>2, <1>3, <1>8, <1>9, <1>11, <1>12, BodyKeepsReady

(* CoDelTask() takes the task from the list it is on and gives its control *)
(* block back to the free ones.                                            *)
LEMMA DelKeepsReady ==
  ASSUME LockInv, LockInv', ReadyInv, SingleOwner, NEW t \in Task, CoDelTask(t)
  PROVE  ReadyInv'
<1> DEFINE x  == pc[t].tgt
           m  == OsSchedLock(k)
           k2 == IF k.state[x] = "READY" THEN RemoveFromTCBRdyList(m, x) ELSE m
           k3 == RequestSchedule(k2)
<1>1. /\ k \in Kernel /\ x \in Task /\ issued \subseteq Task
      /\ pc \in [Task -> Thread] /\ sect \in [Task -> Nat]
      /\ k.state \in [Task -> TaskState]
  BY DEF LockInv, TypeOK, Thread, Kernel
<1>2. /\ Runs(t, "del") /\ pc[t].at = "del" /\ "del" \in At \ {"unlock", "release", "fill"}
      /\ Unlocks(t) /\ UNCHANGED <<sect, issued, sysTick>>
      /\ k' = [k3 EXCEPT !.state   = [k3.state EXCEPT ![x] = "DORMANT"],
                         !.FreeTCB = <<x>> \o k3.FreeTCB]
  BY DEF CoDelTask, Runs, At, Windows
<1>3. /\ t = k.TCBRunning
      /\ k.state[t] = "RUNNING" /\ \A u \in Task : k.state[u] = "RUNNING" => u = t
  BY <1>2, Running
<1>4. /\ <<t, x>> \in Deletes /\ x \in issued /\ x # Idle
      /\ k.state[x] # "DORMANT" /\ (x = t => sect[t] = 0)
  BY <1>2 DEF ReadyInv, ChecksHold, CheckHolds, Named
<1>5. Listed(k, issued)
  BY DEF ReadyInv, ReadyListSound, Listed
<1>6. /\ m \in Kernel /\ m.OSSchedLock = k.OSSchedLock + 1
      /\ m.state = k.state /\ m.TCBRdy = k.TCBRdy /\ m.FreeTCB = k.FreeTCB
      /\ m.TCBRunning = k.TCBRunning /\ m.TCBNext = k.TCBNext
      /\ m.OSIntNesting = k.OSIntNesting /\ m.PendSV = k.PendSV
  BY <1>1, LockFacts
<1> HIDE DEF m, x
<1>7. /\ k2 \in Kernel /\ k2.OSSchedLock = m.OSSchedLock
      /\ k2.state = m.state /\ k2.FreeTCB = m.FreeTCB
      /\ k2.TCBRunning = m.TCBRunning /\ k2.TCBNext = m.TCBNext
      /\ k2.OSIntNesting = m.OSIntNesting /\ k2.PendSV = m.PendSV
      /\ Range(k2.TCBRdy) = Range(m.TCBRdy) \ {x} /\ IsInjective(k2.TCBRdy)
  <2>1. CASE k.state[x] = "READY"
    <3>1. x \in Range(m.TCBRdy) /\ IsInjective(m.TCBRdy)
      BY <1>4, <1>5, <1>6, <2>1 DEF Listed
    <3>2. k2 = RemoveFromTCBRdyList(m, x)
      BY <2>1
    <3> HIDE DEF k2
    <3> QED  BY <1>1, <1>6, <3>1, <3>2, RemoveFacts
  <2>2. CASE k.state[x] # "READY"
    <3>1. x \notin Range(m.TCBRdy) /\ IsInjective(m.TCBRdy)
      BY <1>5, <1>6, <2>2 DEF Listed
    <3> QED  BY <1>6, <2>2, <3>1
  <2> QED  BY <2>1, <2>2
<1> HIDE DEF k2
<1>8. /\ k3 \in Kernel /\ k3.TaskSchedReq = TRUE /\ k3.OSSchedLock = k2.OSSchedLock
      /\ k3.state = k2.state /\ k3.FreeTCB = k2.FreeTCB /\ k3.TCBRdy = k2.TCBRdy
      /\ k3.TCBRunning = k2.TCBRunning /\ k3.TCBNext = k2.TCBNext
      /\ k3.OSIntNesting = k2.OSIntNesting /\ k3.PendSV = k2.PendSV
  BY <1>7, RequestFacts
<1> HIDE DEF k3
<1>9. /\ k'.OSSchedLock = k3.OSSchedLock
      /\ k'.state = [k3.state EXCEPT ![x] = "DORMANT"]
      /\ k'.FreeTCB = <<x>> \o k3.FreeTCB
      /\ k'.TCBRunning = k3.TCBRunning /\ k'.TCBNext = k3.TCBNext
      /\ k'.OSIntNesting = k3.OSIntNesting /\ k'.PendSV = k3.PendSV
      /\ k'.TaskSchedReq = k3.TaskSchedReq /\ k'.TCBRdy = k3.TCBRdy
  BY <1>2, <1>8 DEF Kernel
<1>10. /\ k'.state = [k.state EXCEPT ![x] = "DORMANT"]
       /\ k'.TCBRunning = k.TCBRunning /\ k'.TCBNext = k.TCBNext /\ k'.PendSV = k.PendSV
       /\ k'.OSIntNesting = k.OSIntNesting /\ k'.OSSchedLock = k.OSSchedLock + 1
       /\ k'.FreeTCB = <<x>> \o k.FreeTCB /\ k'.TaskSchedReq
       /\ Range(k'.TCBRdy) = Range(k.TCBRdy) \ {x} /\ IsInjective(k'.TCBRdy)
  BY <1>6, <1>7, <1>8, <1>9
<1>11. Listed(k', issued)
  BY <1>1, <1>5, <1>10 DEF Listed
<1>12. ASSUME NEW u \in Task \ {t}  PROVE CheckHolds(u)'
  <2>1. /\ TypeOK /\ TypeOK' /\ CheckHolds(u) /\ pc'[u] = pc[u] /\ sect'[u] = sect[u]
        /\ issued' = issued /\ pc[u].tgt \in Task
    BY <1>1, <1>2 DEF LockInv, TypeOK, ReadyInv, ChecksHold, Unlocks, Goto, Thread
  <2>2. CASE pc[u].tgt # x
    BY <1>1, <1>10, <2>1, <2>2, CheckStays
  <2>3. CASE pc[u].tgt = x
    <3>1. <<u, x>> \notin Suspends /\ <<u, x>> \notin Reprioritises /\ <<u, x>> \notin Deletes
      BY <1>1, <1>4 DEF SingleOwner, Commands
    <3>2. <<u, x>> \in Awakes => x = t
      BY <1>1, <1>4 DEF SingleOwner
    <3>3. pc[u].at \notin {"suspend", "awake", "del", "prio", "reorder", "yield"}
      BY <1>3, <2>1, <2>3, <3>1, <3>2 DEF CheckHolds, Named
    <3> QED  BY <2>1, <3>3 DEF CheckHolds
  <2> QED  BY <2>2, <2>3
<1> HIDE DEF ReadyInv
<1>13. "DORMANT" \in TaskState
  BY DEF TaskState
<1>14. \A u \in Task \ {t} : CheckHolds(u)'
  BY <1>12
<1>15. x # t => x \notin Creators
  BY <1>1, <1>4 DEF SingleOwner
<1> QED  BY <1>1, <1>2, <1>4, <1>10, <1>11, <1>13, <1>14, <1>15, BodyKeepsReady

-----------------------------------------------------------------------------
(* CoCreateTask(): the TCB is taken off the free list.                     *)
LEMMA AssignKeepsReady ==
  ASSUME LockInv, LockInv', ReadyInv, NEW t \in Task, AssignTCB(t)
  PROVE  ReadyInv'
<1> DEFINE x == Head(k.FreeTCB)
           m == OsSchedLock(k)
<1>1. /\ k \in Kernel /\ pc \in [Task -> Thread] /\ sect \in [Task -> Nat]
      /\ k.FreeTCB \in Seq(Task) /\ k.OSSchedLock \in Nat /\ TypeOK /\ TypeOK'
  BY DEF LockInv, TypeOK, Kernel
<1>2. /\ Runs(t, "user") /\ "user" \in At \ {"unlock", "release"} /\ pc[t].at = "user"
      /\ t \in Creators /\ UNCHANGED <<sect, issued, sysTick>>
  BY DEF AssignTCB, Runs, At
<1>3. /\ t = k.TCBRunning /\ t = k.TCBNext /\ t \in issued /\ k.PendSV = FALSE
      /\ sysTick = "off" /\ k.OSIntNesting = 0
      /\ k.state[t] = "RUNNING" /\ k.OSSchedLock = sect[t]
      /\ \A u \in Task : k.state[u] = "RUNNING" => u = t
  BY <1>2, Running
<1>4. /\ IdleReady /\ ChecksHold /\ FillsEnd /\ ReadyListSound /\ Listed(k, issued)
      /\ IsInjective(k.FreeTCB)
  BY DEF ReadyInv, ReadyListSound, Listed
<1>5. /\ m \in Kernel /\ m.OSSchedLock = k.OSSchedLock + 1
      /\ m.state = k.state /\ m.TCBRdy = k.TCBRdy /\ m.FreeTCB = k.FreeTCB
      /\ m.TCBRunning = k.TCBRunning /\ m.TCBNext = k.TCBNext
      /\ m.OSIntNesting = k.OSIntNesting /\ m.PendSV = k.PendSV
  BY <1>1, LockFacts
<1>6. CASE k.FreeTCB = <<>>
  <2>1. k' = m /\ pc' = [pc EXCEPT ![t] = [at |-> "unlock", tgt |-> Idle, ret |-> "user"]]
    BY <1>6 DEF AssignTCB, Unlocks, Goto
  <2>2. /\ CheckHolds(t)' /\ Listed(k', issued)
        /\ \A u \in Task \ {t} : pc'[u] = pc[u] /\ sect'[u] = sect[u]
        /\ FillGoesOn(t)
        /\ k'.OSSchedLock = Held(t)'
    BY <1>1, <1>2, <1>3, <1>4, <1>5, <2>1, NoCheck, FillsNothing DEF Held, Listed
  <2> HIDE DEF m
  <2> QED  BY <1>2, <1>3, <1>5, <2>1, <2>2, StillKeepsReady
<1>7. CASE k.FreeTCB # <<>>
  <2>1. /\ k' = [m EXCEPT !.FreeTCB = Tail(m.FreeTCB)]
        /\ pc' = [pc EXCEPT ![t] = [at |-> "unlock", tgt |-> x, ret |-> "fill"]]
    BY <1>7 DEF AssignTCB
  <2>2. /\ x \in Range(k.FreeTCB) /\ x \in Task
        /\ Range(Tail(k.FreeTCB)) = Range(k.FreeTCB) \ {x}
        /\ IsInjective(Tail(k.FreeTCB))
    BY <1>1, <1>4, <1>7, PopFacts
  <2> HIDE DEF m, x
  <2>3. /\ k'.OSSchedLock = k.OSSchedLock + 1
        /\ k'.state = k.state /\ k'.TCBRdy = k.TCBRdy /\ k'.FreeTCB = Tail(k.FreeTCB)
        /\ k'.TCBRunning = k.TCBRunning /\ k'.TCBNext = k.TCBNext
        /\ k'.OSIntNesting = k.OSIntNesting /\ k'.PendSV = k.PendSV
    BY <1>5, <2>1 DEF Kernel
  <2>4. LockExact'
    BY <1>1, <1>2, <1>3, <2>1, <2>3 DEF LockExact, Held
  <2>5. OnProcessor'
    BY <1>2, <1>3, <2>3 DEF OnProcessor
  <2>6. IdleReady'
    BY <1>2, <1>4, <2>3 DEF IdleReady
  <2>7. ChecksHold'
    <3>1. CheckHolds(t)'
      BY <1>1, <2>1, NoCheck
    <3>2. ASSUME NEW u \in Task \ {t}  PROVE CheckHolds(u)'
      <4>1. pc'[u] = pc[u] /\ sect'[u] = sect[u] /\ CheckHolds(u)
        BY <1>1, <1>2, <1>4, <2>1 DEF ChecksHold
      <4> QED  BY <1>1, <1>2, <2>3, <4>1, CheckStays
    <3> QED  BY <3>1, <3>2 DEF ChecksHold
  <2>8. /\ \A u, y \in Task : Filling(u, y)' <=> IF u = t THEN y = x ELSE Filling(u, y)
        /\ \A y \in Task : ~Filling(t, y)
        /\ \A u \in Task : ~Filling(u, x)
    BY <1>1, <1>2, <1>4, <2>1, <2>2 DEF Filling, FillsEnd, ReadyListSound
  <2>9. FillsEnd'
    <3>1. \A u \in Task \ {t} : pc'[u] = pc[u]
      BY <1>1, <2>1
    <3>2. pc'[t].at = "unlock"
      BY <1>1, <2>1
    <3> QED  BY <1>1, <1>2, <1>3, <1>4, <2>3, <2>8, <3>1, <3>2 DEF FillsEnd
  <2>10. ReadyListSound'
    <3>1. \A y \in Task : y \in Range(k'.FreeTCB) <=> y \in Range(k.FreeTCB) /\ y # x
      BY <2>2, <2>3
    <3>2. \A y \in Range(k'.FreeTCB), u \in Task : ~Filling(u, y)'
      BY <1>1, <1>4, <2>2, <2>3, <2>8, RangeOfTasks DEF ReadyListSound
    <3>3. \A u, v, y \in Task : Filling(u, y)' /\ Filling(v, y)' => u = v
      BY <1>4, <2>8 DEF ReadyListSound
    <3>4. ASSUME NEW y \in Task
          PROVE  (y \in Range(k'.FreeTCB) \/ \E u \in Task : Filling(u, y)')
                 <=> (k'.state[y] = "DORMANT" \/ y \notin issued')
      <4>1. (y \in Range(k.FreeTCB) \/ \E u \in Task : Filling(u, y))
            <=> (k.state[y] = "DORMANT" \/ y \notin issued)
        BY <1>4 DEF ReadyListSound
      <4>2. k'.state[y] = k.state[y] /\ issued' = issued
        BY <1>2, <2>3
      <4>3. CASE y = x
        BY <2>2, <2>8, <4>1, <4>2, <4>3
      <4>4. CASE y # x
        BY <2>8, <3>1, <4>1, <4>2, <4>4
      <4> QED  BY <4>3, <4>4
    <3> QED  BY <1>2, <1>4, <2>2, <2>3, <3>2, <3>3, <3>4 DEF ReadyListSound
  <2> QED  BY <2>4, <2>5, <2>6, <2>7, <2>9, <2>10 DEF ReadyInv
<1> QED  BY <1>6, <1>7

(* CoCreateTask(): the TCB becomes a task.                                 *)
LEMMA CreateKeepsReady ==
  ASSUME LockInv, LockInv', ReadyInv, NEW t \in Task, CreateTask(t)
  PROVE  ReadyInv'
<1> DEFINE x == pc[t].tgt
<1>1. /\ k \in Kernel /\ pc \in [Task -> Thread] /\ sect \in [Task -> Nat]
      /\ issued \subseteq Task /\ x \in Task /\ TypeOK /\ TypeOK'
      /\ k.FreeTCB \in Seq(Task) /\ k.OSSchedLock \in Nat
      /\ k.state \in [Task -> TaskState]
  BY DEF LockInv, TypeOK, Kernel, Thread
<1>2. /\ Runs(t, "fill") /\ "fill" \in At \ {"unlock", "release"} /\ pc[t].at = "fill"
      /\ sect' = [sect EXCEPT ![x] = 0] /\ issued' = issued \cup {x} /\ sysTick' = sysTick
  BY DEF CreateTask, Runs, At, Windows
<1>3. /\ t = k.TCBRunning /\ t = k.TCBNext /\ t \in issued /\ k.PendSV = FALSE
      /\ sysTick = "off" /\ k.OSIntNesting = 0
      /\ k.state[t] = "RUNNING" /\ k.OSSchedLock = sect[t]
      /\ \A u \in Task : k.state[u] = "RUNNING" => u = t
  BY <1>2, Running
<1>4. /\ IdleReady /\ ChecksHold /\ FillsEnd /\ ReadyListSound /\ Listed(k, issued)
  BY DEF ReadyInv, ReadyListSound, Listed
<1>5. /\ Filling(t, x) /\ (k.state[x] = "DORMANT" \/ x \notin issued)
      /\ x # t /\ x # Idle
  <2>1. Filling(t, x)
    BY <1>1, <1>2 DEF Filling
  <2>2. k.state[x] = "DORMANT" \/ x \notin issued
    BY <1>1, <1>4, <2>1 DEF ReadyListSound
  <2> QED  BY <1>3, <1>4, <2>1, <2>2 DEF IdleReady
<1>6. x \notin Range(k.TCBRdy) /\ x \notin Range(k.FreeTCB)
  BY <1>1, <1>4, <1>5 DEF Listed, ReadyListSound
<1>7. PICK p \in Prios, waiting \in BOOLEAN :
        LET filled == [k EXCEPT !.prio = [@ EXCEPT ![x] = p]]
        IN  /\ k' = IF waiting
                    THEN [filled EXCEPT !.state = [@ EXCEPT ![x] = "WAITING"]]
                    ELSE InsertToTCBRdyList(OsSchedLock(filled), x)
            /\ pc' = [pc EXCEPT ![x] = User,
                                ![t] = IF waiting THEN User
                                       ELSE [User EXCEPT !.at = "unlock"]]
  BY DEF CreateTask
<1> DEFINE filled == [k EXCEPT !.prio = [k.prio EXCEPT ![x] = p]]
           n == OsSchedLock(filled)
           z == IF waiting THEN "WAITING" ELSE "READY"
<1>8. /\ filled \in Kernel /\ filled.OSSchedLock = k.OSSchedLock
      /\ filled.state = k.state /\ filled.TCBRdy = k.TCBRdy /\ filled.FreeTCB = k.FreeTCB
      /\ filled.TCBRunning = k.TCBRunning /\ filled.TCBNext = k.TCBNext
      /\ filled.OSIntNesting = k.OSIntNesting /\ filled.PendSV = k.PendSV
  <2>1. [k.prio EXCEPT ![x] = p] \in [Task -> Nat]
    BY <1>1, TaskFacts DEF Kernel
  <2> QED  BY <1>1, <2>1 DEF Kernel
<1>9. k' = IF waiting THEN [filled EXCEPT !.state = [filled.state EXCEPT ![x] = "WAITING"]]
           ELSE InsertToTCBRdyList(n, x)
  BY <1>7
<1> HIDE DEF filled
<1>10. /\ n \in Kernel /\ n.OSSchedLock = filled.OSSchedLock + 1
       /\ n.state = filled.state /\ n.TCBRdy = filled.TCBRdy /\ n.FreeTCB = filled.FreeTCB
       /\ n.TCBRunning = filled.TCBRunning /\ n.TCBNext = filled.TCBNext
       /\ n.OSIntNesting = filled.OSIntNesting /\ n.PendSV = filled.PendSV
  BY <1>8, LockFacts
<1> HIDE DEF n, x
<1>11. /\ k'.state = [k.state EXCEPT ![x] = z] /\ k'.FreeTCB = k.FreeTCB
       /\ k'.TCBRunning = k.TCBRunning /\ k'.TCBNext = k.TCBNext
       /\ k'.OSIntNesting = k.OSIntNesting /\ k'.PendSV = k.PendSV
       /\ k'.OSSchedLock = k.OSSchedLock + (IF waiting THEN 0 ELSE 1)
       /\ Range(k'.TCBRdy) = Range(k.TCBRdy) \cup (IF waiting THEN {} ELSE {x})
       /\ IsInjective(k'.TCBRdy)
  <2>1. CASE waiting
    <3>1. /\ k'.state = [filled.state EXCEPT ![x] = "WAITING"] /\ k'.FreeTCB = filled.FreeTCB
          /\ k'.TCBRunning = filled.TCBRunning /\ k'.TCBNext = filled.TCBNext
          /\ k'.OSIntNesting = filled.OSIntNesting /\ k'.PendSV = filled.PendSV
          /\ k'.OSSchedLock = filled.OSSchedLock /\ k'.TCBRdy = filled.TCBRdy
      BY <1>8, <1>9, <2>1 DEF Kernel
    <3> QED  BY <1>1, <1>4, <1>8, <2>1, <3>1 DEF Listed
  <2>2. CASE ~waiting
    <3>1. k' = InsertToTCBRdyList(n, x)
      BY <1>9, <2>2
    <3>2. IsInjective(n.TCBRdy) /\ x \notin Range(n.TCBRdy)
      BY <1>4, <1>6, <1>8, <1>10 DEF Listed
    <3>3. /\ k'.state = [n.state EXCEPT ![x] = "READY"] /\ k'.FreeTCB = n.FreeTCB
          /\ k'.TCBRunning = n.TCBRunning /\ k'.TCBNext = n.TCBNext
          /\ k'.OSIntNesting = n.OSIntNesting /\ k'.PendSV = n.PendSV
          /\ k'.OSSchedLock = n.OSSchedLock
          /\ Range(k'.TCBRdy) = Range(n.TCBRdy) \cup {x} /\ IsInjective(k'.TCBRdy)
      BY <1>1, <1>10, <3>1, <3>2, InsertFacts
    <3> QED  BY <1>8, <1>10, <2>2, <3>3
  <2> QED  BY <2>1, <2>2
<1>12. /\ \A u \in Task \ {t, x} : pc'[u] = pc[u] /\ sect'[u] = sect[u]
       /\ pc'[x] = User /\ sect'[t] = sect[t]
       /\ pc'[t].at = (IF waiting THEN "user" ELSE "unlock")
       /\ pc'[t].ret = "user" /\ pc'[t].tgt = Idle
  BY <1>1, <1>2, <1>5, <1>7 DEF User, x
<1>13. LockExact'
  <2>1. Held(t)' = sect[t] + (IF waiting THEN 0 ELSE 1)
    BY <1>1, <1>12 DEF Held
  <2>2. k'.OSSchedLock = Held(t)' /\ k'.TCBRunning = t /\ sysTick' = "off"
    BY <1>2, <1>3, <1>11, <2>1
  <2>3. Held(t)' \in Nat
    BY <1>1, <2>1
  <2> QED  BY <2>2, <2>3 DEF LockExact
<1>14. OnProcessor'
  BY <1>1, <1>2, <1>3, <1>5, <1>11 DEF OnProcessor
<1>15. IdleReady'
  BY <1>1, <1>2, <1>4, <1>5, <1>11, TaskFacts DEF IdleReady
<1>16. ChecksHold'
  <2>1. \A u \in {t, x} : CheckHolds(u)'
    BY <1>1, <1>12, NoCheck DEF User
  <2>2. ASSUME NEW u \in Task \ {t, x}  PROVE CheckHolds(u)'
    <3>1. /\ pc'[u] = pc[u] /\ sect'[u] = sect[u] /\ CheckHolds(u)
          /\ pc[u].tgt \in Task /\ issued \subseteq issued'
      BY <1>1, <1>2, <1>4, <1>12 DEF ChecksHold, Thread
    <3>2. CASE pc[u].tgt # x
      BY <1>1, <1>11, <3>1, <3>2, CheckStays
    <3>3. CASE pc[u].tgt = x
      <4>1. pc[u].at \notin {"suspend", "awake", "del", "prio", "reorder", "yield"}
        BY <1>5, <3>1, <3>3 DEF CheckHolds, Named
      <4> QED  BY <3>1, <4>1 DEF CheckHolds
    <3> QED  BY <3>2, <3>3
  <2> QED  BY <2>1, <2>2 DEF ChecksHold
<1>17. /\ \A u, y \in Task : Filling(u, y)' <=> Filling(u, y) /\ y # x
       /\ \A u, y \in Task : Filling(u, y)' => u \notin {t, x}
  <2>1. \A u, y \in Task : Filling(u, y)' <=> u \notin {t, x} /\ Filling(u, y)
    BY <1>1, <1>12 DEF Filling, User
  <2>2. \A y \in Task : ~Filling(x, y)
    BY <1>1, <1>4, <1>5 DEF FillsEnd
  <2>3. \A y \in Task : Filling(t, y) => y = x
    BY DEF Filling, x
  <2>4. \A u \in Task : Filling(u, x) => u = t
    BY <1>1, <1>4, <1>5 DEF ReadyListSound
  <2> QED  BY <2>1, <2>2, <2>3, <2>4
<1>18. FillsEnd'
  <2> SUFFICES ASSUME NEW u \in Task, NEW y \in Task, Filling(u, y)'
               PROVE  /\ u \in Creators /\ u \in issued' /\ k'.state[u] # "DORMANT"
                      /\ pc'[u].at \in {"unlock", "release", "fill"}
    BY DEF FillsEnd
  <2>1. u \notin {t, x} /\ Filling(u, y)
    BY <1>17
  <2> QED  BY <1>1, <1>2, <1>4, <1>11, <1>12, <2>1 DEF FillsEnd
<1>19. ReadyListSound'
  <2>1. Range(k'.TCBRdy) = {u \in issued' : k'.state[u] = "READY"}
    BY <1>1, <1>2, <1>4, <1>6, <1>11 DEF Listed
  <2>2. \A y \in Range(k'.FreeTCB) : y \in Task /\ y \in Range(k.FreeTCB) /\ y # x
    BY <1>1, <1>6, <1>11, RangeOfTasks
  <2>3. ASSUME NEW y \in Task
        PROVE  (y \in Range(k'.FreeTCB) \/ \E u \in Task : Filling(u, y)')
               <=> (k'.state[y] = "DORMANT" \/ y \notin issued')
    <3>1. (y \in Range(k.FreeTCB) \/ \E u \in Task : Filling(u, y))
          <=> (k.state[y] = "DORMANT" \/ y \notin issued)
      BY <1>4 DEF ReadyListSound
    <3>2. CASE y = x
      BY <1>1, <1>2, <1>6, <1>11, <1>17, <3>2
    <3>3. CASE y # x
      BY <1>1, <1>2, <1>11, <1>17, <3>1, <3>3
    <3> QED  BY <3>2, <3>3
  <2>4. \A y \in Range(k'.FreeTCB), u \in Task : ~Filling(u, y)'
    BY <1>4, <1>17, <2>2 DEF ReadyListSound
  <2>5. \A u, v, y \in Task : Filling(u, y)' /\ Filling(v, y)' => u = v
    BY <1>4, <1>17 DEF ReadyListSound
  <2>6. \A u \in issued' : k'.state[u] = "RUNNING" => u = k'.TCBNext
    BY <1>1, <1>2, <1>3, <1>11
  <2> QED  BY <1>4, <1>11, <2>1, <2>3, <2>4, <2>5, <2>6 DEF ReadyListSound
<1> QED  BY <1>13, <1>14, <1>15, <1>16, <1>18, <1>19 DEF ReadyInv

-----------------------------------------------------------------------------
(* A handler changes nothing of what threads have checked.                 *)
LEMMA HandlerKeepsReady ==
  ASSUME LockInv, LockInv', ReadyInv, UNCHANGED <<pc, sect, issued>>,
         Swaps(k, k'), Listed(k', issued), k'.FreeTCB = k.FreeTCB,
         \A u \in Task : k'.state[u] = "RUNNING" => u = k'.TCBNext
  PROVE  IdleReady' /\ ChecksHold' /\ FillsEnd' /\ ReadyListSound'
<1>1. /\ TypeOK /\ TypeOK' /\ pc[Idle] \in Thread /\ pc[Idle].tgt \in Task
      /\ k'.state[pc[Idle].tgt] = k.state[pc[Idle].tgt]
         \/ {k.state[pc[Idle].tgt], k'.state[pc[Idle].tgt]} \subseteq {"READY", "RUNNING"}
  BY TaskFacts DEF LockInv, TypeOK, Thread, Swaps
<1>2. CheckHolds(Idle)'
  BY <1>1, TaskFacts, CheckStays DEF ReadyInv, ChecksHold
<1>3. FillGoesOn(Idle)
  BY TaskFacts DEF ReadyInv, FillsEnd, Filling, FillGoesOn
<1> QED  BY <1>2, <1>3, TaskFacts, QuietKeepsReady

(* A handler calls Schedule() with the lock at q.OSSchedLock.              *)
LEMMA HandlerSchedules ==
  ASSUME LockInv, ReadyInv, UNCHANGED <<pc, sect, issued>>,
         NEW q \in Kernel,
         q.state = k.state, q.TCBRdy = k.TCBRdy, q.FreeTCB = k.FreeTCB,
         q.TCBRunning = k.TCBRunning, q.TCBNext = k.TCBNext, q.PendSV = k.PendSV,
         q.OSIntNesting = k.OSIntNesting, q.TaskSchedReq = k.TaskSchedReq,
         CanSchedule(q) => pc[k.TCBRunning].at # "unlock",
         NEW r, r = Schedule(q),
         k'.state = r.state, k'.TCBRdy = r.TCBRdy, k'.FreeTCB = r.FreeTCB,
         k'.TCBRunning = r.TCBRunning, k'.TCBNext = r.TCBNext, k'.PendSV = r.PendSV,
         k'.OSIntNesting = r.OSIntNesting, k'.TaskSchedReq = r.TaskSchedReq
  PROVE  /\ OnProcessor' /\ Swaps(k, k') /\ Listed(k', issued) /\ k'.FreeTCB = k.FreeTCB
         /\ \A u \in Task : k'.state[u] = "RUNNING" => u = k'.TCBNext
         /\ k'.TCBRunning = k.TCBRunning /\ (k.PendSV => k'.PendSV)
<1>1. k \in Kernel /\ issued \in SUBSET Task /\ k.TCBRunning \in Task
  BY DEF LockInv, TypeOK, Kernel
<1>2. OnProcessor /\ Listed(q, issued)
  BY DEF ReadyInv, ReadyListSound, Listed
<1>3. /\ k'.FreeTCB = k.FreeTCB /\ k'.TCBRunning = k.TCBRunning
      /\ k'.OSIntNesting = k.OSIntNesting
  BY ScheduleFacts
<1>4. CASE CanSchedule(q)
  <2>1. k.TCBRunning = k.TCBNext /\ k.state[k.TCBRunning] = "RUNNING" /\ ~k.PendSV
    BY <1>2, <1>4 DEF CanSchedule, OnProcessor
  <2>2. Scheduled(q, r, issued)
    BY <1>1, <1>2, <2>1, ScheduleKeepsList DEF OnProcessor
  <2>3. /\ Swaps(k, k') /\ Listed(k', issued)
        /\ \A u \in Task : k'.state[u] = "RUNNING" => u = k'.TCBNext
    BY <2>2 DEF Scheduled, Swaps, Listed
  <2>4. /\ k'.TCBNext \in issued /\ k'.state[k'.TCBNext] = "RUNNING"
        /\ k'.PendSV <=> k.TCBRunning # k'.TCBNext
    BY <1>2, <1>4, <2>1, <2>2 DEF Scheduled, OnProcessor
  <2>5. OnProcessor'
    BY <1>2, <1>3, <2>3, <2>4 DEF OnProcessor
  <2> QED  BY <1>3, <2>1, <2>3, <2>5
<1>5. CASE ~CanSchedule(q)
  <2>1. r = q
    BY <1>5 DEF Schedule
  <2> QED  BY <1>2, <1>3, <2>1 DEF OnProcessor, Swaps, Listed
<1> QED  BY <1>4, <1>5

(* The exceptions.                                                         *)
LEMMA ExceptionsKeepReady ==
  ASSUME LockInv, LockInv', ReadyInv, PendSV \/ SysTick_Handler \/ TickHandler \/ DeviceISR
  PROVE  ReadyInv'
<1>1. /\ k \in Kernel /\ pc \in [Task -> Thread] /\ sect \in [Task -> Nat]
      /\ k.OSSchedLock \in Nat /\ k.TCBRunning \in Task /\ k.TCBNext \in Task
      /\ k.PendSV \in BOOLEAN
  BY DEF LockInv, TypeOK, Kernel
<1>2. /\ \A u \in Task : Held(u) \in Nat
      /\ \A u \in Task : Held(u) = 0 => pc[u].at # "unlock"
  BY <1>1 DEF Held
<1>3. /\ k.OSSchedLock >= Held(k.TCBRunning) + (IF sysTick = "off" THEN 0 ELSE 1)
      /\ \A u \in Task \ {k.TCBRunning} : Held(u) = 0
      /\ k.PendSV \/ sysTick = "release" => Held(k.TCBRunning) = 0
  BY DEF LockInv, LockAccounting
<1>4. /\ UNCHANGED <<pc, sect, issued>>
      /\ \A u \in Task : Held(u)' = Held(u)
  BY DEF PendSV, SysTick_Handler, TickHandler, SysTickNested, SysTickLast,
         SysTickRelease, DeviceISR, Held
<1>5. OnProcessor /\ LockExact /\ Listed(k, issued)
  BY DEF ReadyInv, ReadyListSound, Listed
<1>6. ASSUME OnProcessor', LockExact', Swaps(k, k'), Listed(k', issued), k'.FreeTCB = k.FreeTCB
      PROVE  ReadyInv'
  <2>1. \A u \in Task : k'.state[u] = "RUNNING" => u = k'.TCBNext
    BY <1>6 DEF OnProcessor
  <2> QED  BY <1>4, <1>6, <2>1, HandlerKeepsReady DEF ReadyInv
<1>7. ASSUME k'.state = k.state, k'.TCBRdy = k.TCBRdy
      PROVE  Swaps(k, k') /\ Listed(k', issued)
  BY <1>5, <1>7 DEF Swaps, Listed
<1>8. CASE PendSV
  <2>1. /\ k.PendSV /\ sysTick = "off" /\ sysTick' = "off"
        /\ k' = [k EXCEPT !.TCBRunning = k.TCBNext, !.OSSchedLock = 0, !.PendSV = FALSE]
    BY <1>1, <1>8, PendSVFacts DEF PendSV
  <2>2. /\ k'.TCBRunning = k.TCBNext /\ k'.OSSchedLock = 0 /\ k'.PendSV = FALSE
        /\ k'.TCBNext = k.TCBNext /\ k'.OSIntNesting = k.OSIntNesting
        /\ k'.state = k.state /\ k'.TCBRdy = k.TCBRdy /\ k'.FreeTCB = k.FreeTCB
    BY <1>1, <2>1 DEF Kernel
  <2>3. OnProcessor'
    BY <1>4, <1>5, <2>1, <2>2 DEF OnProcessor
  <2>4. Held(k.TCBNext)' = 0
    <3>1. \A u \in Task : Held(u)' = 0
      BY <1>3, <1>4, <2>1
    <3> QED  BY <1>1, <1>4, <2>1, <2>2, <3>1 DEF Held
  <2>5. LockExact'
    BY <2>1, <2>2, <2>4 DEF LockExact, Held
  <2> QED  BY <1>6, <1>7, <2>2, <2>3, <2>5
<1>9. CASE SysTick_Handler
  <2>1. sysTick = "off" /\ ~k.PendSV /\ sysTick' = "unlock" /\ k' = SysTickEntry(k)
    BY <1>9 DEF SysTick_Handler
  <2>2. PICK c \in Int : k' = [k EXCEPT !.OSSchedLock  = k.OSSchedLock + 1,
                                       !.robin        = c,
                                       !.TaskSchedReq = TRUE]
    BY <1>1, <2>1, SysTickEntryFacts
  <2>3. /\ k'.TCBRunning = k.TCBRunning /\ k'.OSSchedLock = k.OSSchedLock + 1
        /\ k'.PendSV = k.PendSV /\ k'.TaskSchedReq = TRUE
        /\ k'.TCBNext = k.TCBNext /\ k'.OSIntNesting = k.OSIntNesting
        /\ k'.state = k.state /\ k'.TCBRdy = k.TCBRdy /\ k'.FreeTCB = k.FreeTCB
    BY <1>1, <2>2 DEF Kernel
  <2>4. OnProcessor'
    BY <1>4, <1>5, <2>3 DEF OnProcessor
  <2>5. LockExact'
    BY <1>1, <1>2, <1>4, <1>5, <2>1, <2>3 DEF LockExact
  <2> QED  BY <1>6, <1>7, <2>3, <2>4, <2>5
<1>10. CASE SysTickNested
  <2>1. /\ sysTick = "unlock" /\ sysTick' = "off"
        /\ k' = [k EXCEPT !.OSSchedLock = k.OSSchedLock - 1]
    BY <1>10 DEF SysTickNested
  <2>2. /\ k'.TCBRunning = k.TCBRunning /\ k'.OSSchedLock = k.OSSchedLock - 1
        /\ k'.PendSV = k.PendSV /\ k'.TaskSchedReq = k.TaskSchedReq
        /\ k'.TCBNext = k.TCBNext /\ k'.OSIntNesting = k.OSIntNesting
        /\ k'.state = k.state /\ k'.TCBRdy = k.TCBRdy /\ k'.FreeTCB = k.FreeTCB
    BY <1>1, <2>1 DEF Kernel
  <2>3. OnProcessor'
    BY <1>4, <1>5, <2>2 DEF OnProcessor
  <2>4. LockExact'
    BY <1>1, <1>2, <1>4, <1>5, <2>1, <2>2 DEF LockExact
  <2> QED  BY <1>6, <1>7, <2>2, <2>3, <2>4
<1>11. CASE SysTickLast
  <2>1. /\ sysTick = "unlock" /\ sysTick' = "release" /\ k.OSSchedLock = 1
        /\ k' = UnlockSchedule(k)
    BY <1>11 DEF SysTickLast
  <2>2. Held(k.TCBRunning) = 0 /\ pc[k.TCBRunning].at # "unlock"
    BY <1>1, <1>2, <1>3, <2>1
  <2>3. k'.OSSchedLock = 1 /\ k'.TCBRunning = k.TCBRunning
    BY <1>1, <2>1, ScheduleFacts DEF UnlockSchedule
  <2>4. LockExact'
    <3>1. Held(k.TCBRunning)' = 0
      BY <1>1, <1>4, <2>2, <2>3 DEF Held
    <3> QED  BY <2>1, <2>3, <3>1 DEF LockExact, Held
  <2>5. OnProcessor' /\ Swaps(k, k') /\ Listed(k', issued) /\ k'.FreeTCB = k.FreeTCB
    <3>1. CASE k' = k
      BY <1>4, <1>5, <3>1 DEF OnProcessor, Swaps
    <3>2. CASE k' = Schedule(k)
      BY <1>1, <1>4, <2>2, <3>2, HandlerSchedules
    <3> QED  BY <2>1, <3>1, <3>2 DEF UnlockSchedule
  <2> QED  BY <1>6, <2>4, <2>5
<1>12. CASE SysTickRelease
  <2>1. /\ sysTick = "release" /\ sysTick' = "off"
        /\ k' = [k EXCEPT !.OSSchedLock = 0]
    BY <1>12 DEF SysTickRelease
  <2>2. /\ k'.TCBRunning = k.TCBRunning /\ k'.OSSchedLock = 0
        /\ k'.PendSV = k.PendSV /\ k'.TaskSchedReq = k.TaskSchedReq
        /\ k'.TCBNext = k.TCBNext /\ k'.OSIntNesting = k.OSIntNesting
        /\ k'.state = k.state /\ k'.TCBRdy = k.TCBRdy /\ k'.FreeTCB = k.FreeTCB
    BY <1>1, <2>1 DEF Kernel
  <2>3. OnProcessor'
    BY <1>4, <1>5, <2>2 DEF OnProcessor
  <2>4. LockExact'
    <3>1. Held(k.TCBRunning)' = 0
      BY <1>1, <1>3, <1>4, <2>1, <2>2 DEF Held
    <3> QED  BY <2>1, <2>2, <3>1 DEF LockExact, Held
  <2> QED  BY <1>6, <1>7, <2>2, <2>3, <2>4
<1>13. CASE DeviceISR
  <2> DEFINE m == OsSchedLock(k)
             d == Schedule(m)
  <2>1. sysTick' = sysTick /\ (k' = k \/ k' = [d EXCEPT !.OSSchedLock = k.OSSchedLock])
    BY <1>1, <1>13, DeviceFacts DEF DeviceISR
  <2>2. /\ m \in Kernel /\ m.OSSchedLock = k.OSSchedLock + 1
        /\ m.state = k.state /\ m.TCBRdy = k.TCBRdy /\ m.FreeTCB = k.FreeTCB
        /\ m.TCBRunning = k.TCBRunning /\ m.TCBNext = k.TCBNext /\ m.PendSV = k.PendSV
        /\ m.OSIntNesting = k.OSIntNesting /\ m.TaskSchedReq = k.TaskSchedReq
    BY <1>1, LockFacts
  <2> HIDE DEF m
  <2>3. CanSchedule(m) => pc[k.TCBRunning].at # "unlock"
    <3>1. CanSchedule(m) => Held(k.TCBRunning) = 0
      BY <1>1, <1>2, <1>3, <2>2 DEF CanSchedule
    <3> QED  BY <1>1, <1>2, <3>1
  <2>4. CASE k' = k
    BY <1>4, <1>5, <1>6, <1>7, <2>1, <2>4 DEF OnProcessor, LockExact, Held
  <2>5. CASE k' = [d EXCEPT !.OSSchedLock = k.OSSchedLock]
    <3>1. d \in Kernel
      BY <2>2, ScheduleFacts
    <3>2. d = Schedule(m)
      OBVIOUS
    <3> HIDE DEF d
    <3>3. /\ k'.state = d.state /\ k'.TCBRdy = d.TCBRdy /\ k'.FreeTCB = d.FreeTCB
          /\ k'.TCBRunning = d.TCBRunning /\ k'.TCBNext = d.TCBNext /\ k'.PendSV = d.PendSV
          /\ k'.OSIntNesting = d.OSIntNesting /\ k'.TaskSchedReq = d.TaskSchedReq
          /\ k'.OSSchedLock = k.OSSchedLock
      BY <2>5, <3>1 DEF Kernel
    <3>4. /\ OnProcessor' /\ Swaps(k, k') /\ Listed(k', issued) /\ k'.FreeTCB = k.FreeTCB
          /\ k'.TCBRunning = k.TCBRunning /\ (k.PendSV => k'.PendSV)
      BY <1>4, <2>2, <2>3, <3>2, <3>3, HandlerSchedules
    <3>5. LockExact'
      BY <1>1, <1>4, <1>5, <2>1, <3>3, <3>4 DEF LockExact, Held
    <3> QED  BY <1>6, <3>4, <3>5
  <2> QED  BY <2>1, <2>4, <2>5
<1> QED  BY <1>8, <1>9, <1>10, <1>11, <1>12, <1>13 DEF TickHandler

-----------------------------------------------------------------------------
(* The lists are sound when CoStartOS() unlocks the scheduler.             *)
LEMMA ReadyInit == Init => ReadyInv
<1> SUFFICES ASSUME Init  PROVE ReadyInv
  OBVIOUS
<1> DEFINE started == [t \in Task |-> CASE t = Idle -> "RUNNING"
                                        [] t = Main -> "READY"
                                        [] OTHER -> CreatedState[t]]
<1>1. /\ k.state = started /\ k.TCBRdy = <<Main>> /\ k.FreeTCB = FreeTCBs(2)
      /\ k.TCBRunning = Idle /\ k.TCBNext = Idle /\ k.OSSchedLock = 1
      /\ k.OSIntNesting = 0 /\ k.TaskSchedReq = TRUE /\ k.PendSV = FALSE
  BY DEF Init
<1>2. /\ pc = [t \in Task |-> IF t = Idle THEN [User EXCEPT !.at = "unlock"] ELSE User]
      /\ sect = [t \in Task |-> 0] /\ issued = {Idle, Main} /\ sysTick = "off"
  BY DEF Init
<1>3. /\ Main # Idle /\ Idle \in Task /\ Main \in Task /\ Task \subseteq Nat
  BY TaskFacts DEF Idle, Main, Task
<1>4. /\ started[Idle] = "RUNNING" /\ started[Main] = "READY"
      /\ \A t \in Task : started[t] = "RUNNING" => t = Idle
  BY <1>3 DEF CreatedState
<1>5. \A t \in Task : pc[t].ret = "user" /\ pc[t].at \in {"user", "unlock"}
  BY <1>2 DEF User
<1>6. LockExact
  BY <1>1, <1>2, <1>3 DEF LockExact, Held, User
<1>7. OnProcessor
  BY <1>1, <1>2, <1>3, <1>4 DEF OnProcessor
<1>8. IdleReady
  BY <1>1, <1>2, <1>3, <1>4 DEF IdleReady
<1>9. ChecksHold
  BY <1>5 DEF ChecksHold, CheckHolds
<1>10. FillsEnd /\ \A t, x \in Task : ~Filling(t, x)
  BY <1>5 DEF FillsEnd, Filling
<1>11. ReadyListSound
  <2>1. IsInjective(<<Main>>) /\ Range(<<Main>>) = {Main}
    BY DEF IsInjective, Range
  <2>2. {Main} = {t \in issued : k.state[t] = "READY"}
    BY <1>1, <1>2, <1>3, <1>4
  <2>3. DOMAIN FreeTCBs(2) = 1 .. MaxTask - 1
        /\ \A i \in 1 .. MaxTask - 1 : FreeTCBs(2)[i] = i + 1
    BY KernelAssumption DEF FreeTCBs
  <2>4. IsInjective(FreeTCBs(2))
    <3>1. \A i, j \in 1 .. MaxTask - 1 : i + 1 = j + 1 => i = j
      BY KernelAssumption
    <3> QED  BY <2>3, <3>1 DEF IsInjective
  <2>5. \A x \in Task :
          /\ x \in Range(FreeTCBs(2)) <=> x \notin issued
          /\ x \in issued => k.state[x] # "DORMANT"
    <3>1. \A i \in 1 .. MaxTask - 1 : i + 1 # 0 /\ i + 1 # 1
      BY KernelAssumption
    <3>2. \A x \in Task \ {0, 1} : x - 1 \in 1 .. MaxTask - 1 /\ x = (x - 1) + 1
      BY KernelAssumption DEF Task
    <3>3. \A x \in Task : x \in Range(FreeTCBs(2)) <=> x \notin {0, 1}
      <4>1. Range(FreeTCBs(2)) = {i + 1 : i \in 1 .. MaxTask - 1}
        BY <2>3 DEF Range
      <4>2. ASSUME NEW x \in Task \ {0, 1}  PROVE x \in Range(FreeTCBs(2))
        BY <3>2, <4>1
      <4>3. 0 \notin Range(FreeTCBs(2)) /\ 1 \notin Range(FreeTCBs(2))
        BY <3>1, <4>1
      <4> QED  BY <4>2, <4>3
    <3>4. \A x \in {Idle, Main} : k.state[x] # "DORMANT"
      BY <1>1, <1>4
    <3> QED  BY <1>2, <3>3, <3>4 DEF Idle, Main
  <2>6. \A t \in issued : k.state[t] = "RUNNING" => t = k.TCBNext
    BY <1>1, <1>2, <1>3, <1>4
  <2>7. Range(k.FreeTCB) \subseteq Task
    BY LockInit, RangeOfTasks DEF LockInv, TypeOK, Kernel
  <2> HIDE DEF started
  <2>8. \A x \in Task : x \in Range(k.FreeTCB) <=> k.state[x] = "DORMANT" \/ x \notin issued
    BY <1>1, <2>5
  <2> QED  BY <1>1, <1>10, <2>1, <2>2, <2>4, <2>6, <2>7, <2>8 DEF ReadyListSound
<1> QED  BY <1>6, <1>7, <1>8, <1>9, <1>10, <1>11 DEF ReadyInv

(* A stuttering step keeps everything.                                     *)
LEMMA StutterKeepsReady ==
  ASSUME ReadyInv, UNCHANGED vars
  PROVE  ReadyInv'
BY DEF ReadyInv, LockExact, OnProcessor, IdleReady, ChecksHold, CheckHolds, Named,
       FillsEnd, Filling, ReadyListSound, Held, vars

(* Every step of every context keeps them.                                 *)
LEMMA ReadyStep ==
  ASSUME SingleOwner  PROVE LockInv /\ ReadyInv /\ [Next]_vars => ReadyInv'
<1> SUFFICES ASSUME LockInv, ReadyInv, [Next]_vars  PROVE ReadyInv'
  OBVIOUS
<1>1. LockInv' /\ Stray = {}
  BY LockStep DEF SingleOwner
<1>2. ASSUME NEW t \in Task, Finish(t)  PROVE ReadyInv'
  BY <1>1, <1>2, UnlockKeepsReady, CreateKeepsReady, SuspendKeepsReady, AwakeKeepsReady,
     DelKeepsReady, PriorityKeepsReady DEF Finish
<1>3. ASSUME NEW t \in Task, Call(t)  PROVE ReadyInv'
  BY <1>1, <1>3, SectionsKeepReady, AssignKeepsReady, ChecksKeepReady DEF Call
<1>4. CASE PendSV \/ SysTick_Handler \/ TickHandler \/ DeviceISR
  BY <1>1, <1>4, ExceptionsKeepReady
<1>5. CASE UNCHANGED vars
  BY <1>5, StutterKeepsReady
<1> QED  BY <1>2, <1>3, <1>4, <1>5 DEF Next

(* The inductive invariant of the READY list holds in every reachable      *)
(* state.                                                                  *)
LEMMA ReadyInvariant ==
  ASSUME SingleOwner  PROVE Spec => [](LockInv /\ ReadyInv)
<1>1. LockInv /\ ReadyInv /\ [Next]_vars => (LockInv /\ ReadyInv)'
  BY LockStep, ReadyStep
<1>2. Init => LockInv /\ ReadyInv
  BY LockInit, ReadyInit
<1> QED  BY <1>1, <1>2, PTL DEF Spec

-----------------------------------------------------------------------------
(* If each task has one owner, no TCB is ever lost or in two places: the   *)
(* READY list and the free list hold what they should, at every moment,    *)
(* although CoSuspendTask(), CoAwakeTask(), CoDelTask() and                *)
(* CoSetPriority() check without the lock what they then act on.           *)
THEOREM ReadyListCorrect ==
  ASSUME SingleOwner  PROVE Spec => []ReadyListSound
<1>1. LockInv /\ ReadyInv => ReadyListSound
  BY DEF ReadyInv
<1> QED  BY <1>1, ReadyInvariant, PTL

-----------------------------------------------------------------------------
(* The order of the READY list: the most urgent task runs, and tasks of    *)
(* one priority are served in turn, in every application that respects     *)
(* SingleOwner and SetsOwnPriority.                                        *)

-----------------------------------------------------------------------------
(* Lists sorted by priority, and steps that keep the turn of what waits.   *)
Ordered(s, prio) == \A i, j \in 1 .. Len(s) : i < j => prio[s[i]] <= prio[s[j]]

(* From list s to list r nobody overtakes a task of its own priority.      *)
InOrder(s, r, prio) ==
  \A t \in Range(s) \cap Range(r) : \A u \in Range(r) \ {t} :
    /\ u \in Range(s) => PosOf(s, t) < PosOf(s, u)
    /\ prio[t] = prio[u]
    => PosOf(r, t) < PosOf(r, u)

(* The place of a task of a list without repetition.                       *)
LEMMA PosOfItem ==
  ASSUME NEW s \in Seq(Task), IsInjective(s), NEW i \in 1 .. Len(s)
  PROVE  s[i] \in Range(s) /\ PosOf(s, s[i]) = i
<1>1. DOMAIN s = 1 .. Len(s)
  BY LenProperties
<1>2. s[i] \in Range(s)
  BY <1>1 DEF Range
<1>3. PosOf(s, s[i]) \in 1 .. Len(s) /\ s[PosOf(s, s[i])] = s[i]
  BY <1>2, PosOfFacts
<1> QED  BY <1>1, <1>2, <1>3 DEF IsInjective

(* The head of a sorted list is the most urgent task of it.                *)
LEMMA HeadIsFirst ==
  ASSUME NEW s \in Seq(Task), NEW prio \in [Task -> Nat], Ordered(s, prio), s # <<>>
  PROVE  /\ Head(s) \in Range(s) /\ Head(s) \in Task
         /\ \A u \in Range(s) : prio[Head(s)] <= prio[u]
<1>1. /\ Head(s) = s[1] /\ Len(s) \in Nat \ {0} /\ DOMAIN s = 1 .. Len(s)
      /\ 1 \in 1 .. Len(s) /\ s[1] \in Task
  BY HeadTailProperties, EmptySeq, LenProperties, ElementOfSeq
<1>2. ASSUME NEW i \in 1 .. Len(s)  PROVE prio[s[1]] <= prio[s[i]]
  <2>1. CASE i = 1
    BY <1>1, <2>1
  <2>2. CASE i # 1
    <3>1. 1 < i
      BY <2>2
    <3> QED  BY <1>1, <3>1 DEF Ordered
  <2> QED  BY <2>1, <2>2
<1> QED  BY <1>1, <1>2 DEF Range

(* A task taken out leaves the others in their order.                      *)
LEMMA RemovalKeepsOrder ==
  ASSUME NEW s \in Seq(Task), IsInjective(s), NEW i \in 1 .. Len(s), NEW prio,
         NEW r, r = RemoveAt(s, i)
  PROVE  /\ Ordered(s, prio) => Ordered(r, prio)
         /\ \A t, u \in Range(r) : PosOf(s, t) < PosOf(s, u) => PosOf(r, t) < PosOf(r, u)
         /\ InOrder(s, r, prio)
<1> DEFINE from(a) == IF a < i THEN a ELSE a + 1
<1>1. /\ r \in Seq(Task) /\ Len(r) = Len(s) - 1 /\ Len(s) \in Nat
      /\ \A a \in 1 .. Len(r) : r[a] = IF a < i THEN s[a] ELSE s[a + 1]
  BY RemoveAtFacts, LenProperties
<1>2. Range(r) \subseteq Range(s) /\ IsInjective(r)
  BY RemoveAtRange
<1>3. \A a \in 1 .. Len(r) : from(a) \in 1 .. Len(s) /\ r[a] = s[from(a)]
  BY <1>1
<1>4. \A a, b \in 1 .. Len(r) : a < b <=> from(a) < from(b)
  BY <1>1
<1> HIDE DEF from
<1>5. ASSUME Ordered(s, prio)  PROVE Ordered(r, prio)
  BY <1>3, <1>4, <1>5 DEF Ordered
<1>6. ASSUME NEW t \in Range(r), NEW u \in Range(r), PosOf(s, t) < PosOf(s, u)
      PROVE  PosOf(r, t) < PosOf(r, u)
  <2>1. PICK a \in 1 .. Len(r), b \in 1 .. Len(r) : t = r[a] /\ u = r[b]
    BY <1>1, LenProperties DEF Range
  <2>2. PosOf(r, t) = a /\ PosOf(r, u) = b
    BY <1>1, <1>2, <2>1, PosOfItem
  <2>3. PosOf(s, t) = from(a) /\ PosOf(s, u) = from(b)
    BY <1>3, <2>1, PosOfItem
  <2> QED  BY <1>4, <1>6, <2>2, <2>3
<1>7. InOrder(s, r, prio)
  BY <1>2, <1>6 DEF InOrder
<1> QED  BY <1>5, <1>6, <1>7

(* A task put in where InsertPos says goes behind all of its priority.     *)
LEMMA InsertionKeepsOrder ==
  ASSUME NEW s \in Seq(Task), IsInjective(s), NEW prio \in [Task -> Nat],
         Ordered(s, prio), NEW e \in Task, e \notin Range(s),
         NEW r, r = InsertAt(s, InsertPos(s, prio, prio[e]), e)
  PROVE  Ordered(r, prio) /\ InOrder(s, r, prio)
<1> DEFINE i == InsertPos(s, prio, prio[e])
           to(a) == IF a < i THEN a ELSE a + 1
<1>1. /\ i \in 1 .. Len(s) + 1
      /\ \A j \in 1 .. i - 1 : prio[s[j]] <= prio[e]
      /\ i <= Len(s) => prio[e] < prio[s[i]]
  BY InsertPosFacts
<1>0. r = InsertAt(s, i, e)
  OBVIOUS
<1> HIDE DEF i
<1>2. /\ r \in Seq(Task) /\ Len(r) = Len(s) + 1 /\ Len(s) \in Nat
      /\ \A j \in 1 .. Len(r) : r[j] = IF j < i THEN s[j]
                                       ELSE IF j = i THEN e ELSE s[j - 1]
  <2> DEFINE q == InsertAt(s, i, e)
  <2>1. /\ q \in Seq(Task) /\ Len(q) = Len(s) + 1
        /\ \A j \in 1 .. Len(s) + 1 : q[j] = IF j < i THEN s[j]
                                             ELSE IF j = i THEN e ELSE s[j - 1]
    <3>1. i \in 1 .. Len(s) + 1 /\ s \in Seq(Task) /\ e \in Task
      BY <1>1
    <3> HIDE DEF to
    <3>2. q \in Seq(Task)  BY ONLY <3>1, InsertAtFacts, SMTT(30)
    <3>3. Len(q) = Len(s) + 1  BY ONLY <3>1, InsertAtFacts, SMTT(30)
    <3>4. ASSUME NEW j \in 1 .. Len(s) + 1
          PROVE  q[j] = IF j < i THEN s[j] ELSE IF j = i THEN e ELSE s[j - 1]
      BY ONLY <3>1, <3>4, InsertAtFacts, SMTT(30)
    <3> HIDE DEF q
    <3> QED  BY ONLY <3>2, <3>3, <3>4
  <2> QED  BY <1>0, <2>1, LenProperties
<1>3. IsInjective(r) /\ Range(r) = Range(s) \cup {e}
  <2>1. /\ Range(InsertAt(s, i, e)) = Range(s) \cup {e}
        /\ IsInjective(InsertAt(s, i, e))
    BY <1>1, InsertAtRange
  <2> QED  BY <1>0, <2>1
<1>4. \A a \in 1 .. Len(s) : to(a) \in 1 .. Len(r) /\ r[to(a)] = s[a] /\ to(a) # i
  BY <1>1, <1>2
<1>5. \A a, b \in 1 .. Len(s) : a < b <=> to(a) < to(b)
  BY <1>1, <1>2
<1>6. i \in 1 .. Len(r) /\ r[i] = e
  BY <1>1, <1>2
<1>7. \A a \in 1 .. Len(s) : s[a] \in Task /\ prio[s[a]] \in Nat /\ prio[e] \in Nat
  BY ElementOfSeq
<1>8. \A a \in 1 .. Len(s) : IF to(a) < i THEN prio[s[a]] <= prio[e]
                                          ELSE prio[e] < prio[s[a]]
  <2> SUFFICES ASSUME NEW a \in 1 .. Len(s)
               PROVE  IF to(a) < i THEN prio[s[a]] <= prio[e] ELSE prio[e] < prio[s[a]]
    OBVIOUS
  <2>1. CASE a < i
    BY <1>1, <2>1
  <2>2. CASE a = i
    BY <1>1, <1>2, <2>2
  <2>3. CASE a > i
    <3>1. i \in 1 .. Len(s) /\ prio[s[i]] <= prio[s[a]] /\ prio[e] < prio[s[i]]
      BY <1>1, <1>2, <2>3 DEF Ordered
    <3>2. prio[e] < prio[s[a]]
      BY <1>7, <3>1
    <3> QED  BY <1>1, <2>3, <3>2
  <2> QED  BY <1>1, <2>1, <2>2, <2>3
<1>9. \A j \in 1 .. Len(r) : j = i \/ \E a \in 1 .. Len(s) : j = to(a)
  <2> SUFFICES ASSUME NEW j \in 1 .. Len(r), j # i  PROVE \E a \in 1 .. Len(s) : j = to(a)
    OBVIOUS
  <2>1. CASE j < i
    <3>1. j \in 1 .. Len(s) /\ j = to(j)
      BY <1>1, <1>2, <2>1
    <3> QED  BY <3>1
  <2>2. CASE j > i
    <3>1. j - 1 \in 1 .. Len(s) /\ j = to(j - 1)
      BY <1>1, <1>2, <2>2
    <3> QED  BY <3>1
  <2> QED  BY <1>1, <2>1, <2>2
<1> HIDE DEF to
<1>10. Ordered(r, prio)
  <2> SUFFICES ASSUME NEW g \in 1 .. Len(r), NEW h \in 1 .. Len(r), g < h
               PROVE  prio[r[g]] <= prio[r[h]]
    BY DEF Ordered
  <2>1. CASE g = i
    <3>1. PICK a \in 1 .. Len(s) : h = to(a)
      BY <1>9, <2>1
    <3> QED  BY <1>1, <1>4, <1>6, <1>7, <1>8, <2>1, <3>1
  <2>2. CASE h = i
    <3>1. PICK a \in 1 .. Len(s) : g = to(a)
      BY <1>9, <2>2
    <3> QED  BY <1>4, <1>6, <1>8, <2>2, <3>1
  <2>3. CASE g # i /\ h # i
    <3>1. PICK a \in 1 .. Len(s), b \in 1 .. Len(s) : g = to(a) /\ h = to(b)
      BY <1>9, <2>3
    <3> QED  BY <1>4, <1>5, <3>1 DEF Ordered
  <2> QED  BY <2>1, <2>2, <2>3
<1>11. InOrder(s, r, prio)
  <2> SUFFICES ASSUME NEW t \in Range(s), NEW u \in Range(r) \ {t}, prio[t] = prio[u],
                      u \in Range(s) => PosOf(s, t) < PosOf(s, u)
               PROVE  PosOf(r, t) < PosOf(r, u)
    BY DEF InOrder
  <2>1. PICK a \in 1 .. Len(s) : t = s[a]
    BY LenProperties DEF Range
  <2>2. PosOf(s, t) = a /\ PosOf(r, t) = to(a)
    BY <1>2, <1>3, <1>4, <2>1, PosOfItem
  <2>3. CASE u = e
    <3>1. PosOf(r, u) = i
      BY <1>2, <1>3, <1>6, <2>3, PosOfItem
    <3> QED  BY <1>7, <1>8, <2>1, <2>2, <2>3, <3>1
  <2>4. CASE u \in Range(s)
    <3>1. PICK b \in 1 .. Len(s) : u = s[b]
      BY <2>4, LenProperties DEF Range
    <3>2. PosOf(s, u) = b /\ PosOf(r, u) = to(b)
      BY <1>2, <1>3, <1>4, <3>1, PosOfItem
    <3> QED  BY <1>5, <2>2, <2>4, <3>2
  <2> QED  BY <1>3, <2>3, <2>4
<1> QED  BY <1>10, <1>11

-----------------------------------------------------------------------------
(* What the functions of the kernel make of a sorted list.                 *)
Turns(q, r) ==
  /\ Ordered(r.TCBRdy, r.prio)
  /\ InOrder(q.TCBRdy, r.TCBRdy, r.prio)

(* No task of the READY list is more urgent than t.                        *)
Foremost(t, q) == \A u \in Range(q.TCBRdy) : q.prio[t] <= q.prio[u]

(* The list stays, and so do the priorities of the tasks in it.            *)
LEMMA ListStays ==
  ASSUME NEW q \in Kernel, NEW r \in Kernel, Ordered(q.TCBRdy, q.prio),
         r.TCBRdy = q.TCBRdy, \A u \in Range(q.TCBRdy) : r.prio[u] = q.prio[u]
  PROVE  Turns(q, r)
<1>1. q.TCBRdy \in Seq(Task)
  BY DEF Kernel
<1>2. \A i \in 1 .. Len(q.TCBRdy) : q.TCBRdy[i] \in Range(q.TCBRdy)
  BY <1>1, LenProperties DEF Range
<1>3. Ordered(r.TCBRdy, r.prio)
  BY <1>2 DEF Ordered
<1>4. InOrder(q.TCBRdy, r.TCBRdy, r.prio)
  BY DEF InOrder
<1> QED  BY <1>3, <1>4 DEF Turns

(* RemoveFromTCBRdyList() of a task of the list.                           *)
LEMMA TaskRemoved ==
  ASSUME NEW q \in Kernel, IsInjective(q.TCBRdy), Ordered(q.TCBRdy, q.prio),
         NEW x \in Range(q.TCBRdy),
         NEW r, r = RemoveFromTCBRdyList(q, x)
  PROVE  /\ Turns(q, r)
         /\ \A t, u \in Range(r.TCBRdy) :
              PosOf(q.TCBRdy, t) < PosOf(q.TCBRdy, u) => PosOf(r.TCBRdy, t) < PosOf(r.TCBRdy, u)
<1> DEFINE s == q.TCBRdy
           i == PosOf(s, x)
<1>1. s \in Seq(Task) /\ x \in Task
  BY RangeOfTasks DEF Kernel
<1>2. i \in 1 .. Len(s)
  BY <1>1, PosOfFacts
<1>3. r.TCBRdy = RemoveAt(s, i) /\ r.prio = q.prio
  BY <1>1 DEF RemoveFromTCBRdyList, Kernel
<1> HIDE DEF i, s
<1>4. /\ Ordered(RemoveAt(s, i), q.prio)
      /\ \A t, u \in Range(RemoveAt(s, i)) :
           PosOf(s, t) < PosOf(s, u) => PosOf(RemoveAt(s, i), t) < PosOf(RemoveAt(s, i), u)
      /\ InOrder(s, RemoveAt(s, i), q.prio)
  BY <1>1, <1>2, RemovalKeepsOrder DEF s
<1> QED  BY <1>3, <1>4 DEF Turns, s

(* InsertToTCBRdyList() of a task that is not in the list.  If it asks for *)
(* no schedule, the task is no more urgent than the head of the list.      *)
LEMMA TaskInserted ==
  ASSUME NEW q \in Kernel, IsInjective(q.TCBRdy), Ordered(q.TCBRdy, q.prio),
         NEW x \in Task, x \notin Range(q.TCBRdy),
         NEW r, r = InsertToTCBRdyList(q, x)
  PROVE  /\ Turns(q, r)
         /\ ~r.TaskSchedReq =>
              ~q.TaskSchedReq /\ \A t \in Task : Foremost(t, q) => Foremost(t, r)
<1> DEFINE s == q.TCBRdy
           i == InsertPos(s, q.prio, q.prio[x])
<1>1. s \in Seq(Task) /\ q.prio \in [Task -> Nat] /\ q.TaskSchedReq \in BOOLEAN
  BY DEF Kernel
<1>2. /\ r.TCBRdy = InsertAt(s, i, x) /\ r.prio = q.prio
      /\ r.TaskSchedReq = (s = <<>> \/ q.prio[x] < q.prio[Head(s)] \/ q.TaskSchedReq)
  BY DEF InsertToTCBRdyList, Kernel
<1>3. Range(r.TCBRdy) = Range(s) \cup {x}
  BY InsertFacts
<1> HIDE DEF s
<1>4. Ordered(InsertAt(s, i, x), q.prio) /\ InOrder(s, InsertAt(s, i, x), q.prio)
  BY <1>1, InsertionKeepsOrder DEF s
<1>5. ASSUME ~r.TaskSchedReq
      PROVE  ~q.TaskSchedReq /\ \A t \in Task : Foremost(t, q) => Foremost(t, r)
  <2>1. s # <<>> /\ ~(q.prio[x] < q.prio[Head(s)]) /\ ~q.TaskSchedReq
    BY <1>2, <1>5
  <2>2. Head(s) \in Range(s) /\ Head(s) \in Task
    BY <1>1, <2>1, HeadIsFirst DEF s
  <2>3. ASSUME NEW t \in Task, Foremost(t, q)  PROVE Foremost(t, r)
    <3>1. q.prio[t] <= q.prio[Head(s)]
      BY <2>2, <2>3 DEF Foremost, s
    <3>2. q.prio[t] <= q.prio[x]
      BY <1>1, <2>1, <2>2, <3>1
    <3> QED  BY <1>2, <1>3, <2>3, <3>2 DEF Foremost, s
  <2> QED  BY <2>1, <2>3
<1> QED  BY <1>2, <1>4, <1>5 DEF Turns, s

(* Schedule().                                                             *)
LEMMA TaskScheduled ==
  ASSUME NEW q \in Kernel, IsInjective(q.TCBRdy), Ordered(q.TCBRdy, q.prio),
         CanSchedule(q) => q.TCBRunning \notin Range(q.TCBRdy),
         NEW r, r = Schedule(q)
  PROVE  /\ Turns(q, r)
         /\ r = q \/ Foremost(r.TCBNext, r)
<1> DEFINE s    == q.TCBRdy
           cur  == q.TCBRunning
           head == Head(s)
           yields == \/ q.prio[head] < q.prio[cur]
                     \/ q.prio[head] = q.prio[cur] /\ q.robin = 0
           k1   == [q EXCEPT !.TaskSchedReq = FALSE]
           k2   == InsertToTCBRdyList(k1, cur)
<1>1. CASE ~CanSchedule(q)
  <2>1. r = q
    BY <1>1 DEF Schedule
  <2> QED  BY <2>1, ListStays
<1>2. CASE CanSchedule(q)
  <2>1. /\ s \in Seq(Task) /\ s # <<>> /\ cur \in Task /\ cur \notin Range(s)
        /\ cur = q.TCBNext /\ q.prio \in [Task -> Nat] /\ q.prio[cur] \in Nat
    BY <1>2 DEF CanSchedule, Kernel
  <2>2. /\ k1 \in Kernel /\ k1.TCBRdy = s /\ k1.prio = q.prio /\ k1.TCBNext = cur
    BY <2>1 DEF Kernel
  <2>3. /\ head \in Range(s) /\ head \in Task
        /\ \A u \in Range(s) : q.prio[head] <= q.prio[u]
    BY <2>1, HeadIsFirst
  <2> HIDE DEF k1
  <2>4. CASE q.state[cur] # "RUNNING"
    <3>1. r = SwitchTo(k1, head)
      BY <1>2, <2>4 DEF Schedule, k1
    <3> DEFINE m == RemoveFromTCBRdyList(k1, head)
    <3> HIDE DEF head, s
    <3>2. /\ Turns(k1, m) /\ Range(m.TCBRdy) = Range(s) \ {head} /\ m.prio = q.prio
      BY <2>2, <2>3, TaskRemoved, RemoveFacts DEF s
    <3> HIDE DEF m
    <3>3. r.TCBRdy = m.TCBRdy /\ r.prio = q.prio /\ r.TCBNext = head
      <4>1. /\ SwitchTo(k1, head).TCBRdy = m.TCBRdy
            /\ SwitchTo(k1, head).prio = k1.prio /\ SwitchTo(k1, head).TCBNext = head
        BY <2>2, <2>3, SwitchToFacts DEF m
      <4> QED  BY <2>2, <3>1, <4>1
    <3> QED  BY <2>2, <2>3, <3>2, <3>3 DEF Turns, Foremost, s
  <2>5. CASE q.state[cur] = "RUNNING" /\ ~yields
    <3>1. r = k1
      BY <1>2, <2>5 DEF Schedule, k1
    <3>2. q.prio[cur] <= q.prio[head]
      BY <2>1, <2>3, <2>5
    <3>3. \A u \in Range(s) : u \in Task /\ q.prio[u] \in Nat
      BY <2>1, RangeOfTasks
    <3>4. \A u \in Range(s) : q.prio[cur] <= q.prio[u]
      BY <2>1, <2>3, <3>2, <3>3
    <3>5. Turns(q, r)
      BY <2>2, <3>1, ListStays
    <3> HIDE DEF s, cur, head
    <3> QED  BY <2>2, <3>1, <3>4, <3>5 DEF Foremost
  <2>6. CASE q.state[cur] = "RUNNING" /\ yields
    <3> HIDE DEF s, cur, head, k2
    <3>1. r = SwitchTo(k2, head)
      BY <1>2, <2>6 DEF Schedule, k1, k2, s, cur, head
    <3>2. q.prio[head] <= q.prio[cur]
      BY <2>1, <2>3, <2>6
    <3> DEFINE m == RemoveFromTCBRdyList(k2, head)
    <3>3. /\ k2 \in Kernel /\ Turns(k1, k2) /\ k2.prio = q.prio
          /\ Range(k2.TCBRdy) = Range(s) \cup {cur} /\ IsInjective(k2.TCBRdy)
      <4>1. /\ Turns(k1, InsertToTCBRdyList(k1, cur))
        BY <2>1, <2>2, TaskInserted DEF s
      <4>2. /\ InsertToTCBRdyList(k1, cur) \in Kernel
            /\ InsertToTCBRdyList(k1, cur).prio = k1.prio
            /\ Range(InsertToTCBRdyList(k1, cur).TCBRdy) = Range(k1.TCBRdy) \cup {cur}
            /\ IsInjective(InsertToTCBRdyList(k1, cur).TCBRdy)
        BY <2>1, <2>2, InsertFacts DEF s
      <4> QED  BY <2>2, <4>1, <4>2 DEF k2
    <3>4. /\ Turns(k2, m) /\ Range(m.TCBRdy) = (Range(s) \cup {cur}) \ {head}
          /\ m.prio = q.prio
          /\ \A t, u \in Range(m.TCBRdy) : PosOf(k2.TCBRdy, t) < PosOf(k2.TCBRdy, u)
                                             => PosOf(m.TCBRdy, t) < PosOf(m.TCBRdy, u)
      <4>1. head \in Range(k2.TCBRdy) /\ Ordered(k2.TCBRdy, k2.prio)
        BY <2>3, <3>3 DEF Turns
      <4>2. /\ Turns(k2, m)
            /\ \A t, u \in Range(m.TCBRdy) : PosOf(k2.TCBRdy, t) < PosOf(k2.TCBRdy, u)
                                               => PosOf(m.TCBRdy, t) < PosOf(m.TCBRdy, u)
        BY <3>3, <4>1, TaskRemoved
      <4>3. Range(m.TCBRdy) = Range(k2.TCBRdy) \ {head} /\ m.prio = k2.prio
        BY <2>3, <3>3, <4>1, RemoveFacts
      <4> QED  BY <3>3, <4>2, <4>3
    <3> HIDE DEF m
    <3>5. r.TCBRdy = m.TCBRdy /\ r.prio = q.prio /\ r.TCBNext = head
      <4>1. /\ SwitchTo(k2, head).TCBRdy = m.TCBRdy
            /\ SwitchTo(k2, head).prio = k2.prio /\ SwitchTo(k2, head).TCBNext = head
        BY <2>3, <3>3, SwitchToFacts DEF m
      <4> QED  BY <3>1, <3>3, <4>1
    <3>6. InOrder(s, m.TCBRdy, q.prio)
      BY <2>2, <3>3, <3>4 DEF Turns, InOrder
    <3> QED  BY <2>3, <3>2, <3>4, <3>5, <3>6 DEF Turns, Foremost, s
  <2> QED  BY <2>4, <2>5, <2>6
<1> QED  BY <1>1, <1>2

-----------------------------------------------------------------------------
(* The task that has, or is about to get, the processor is the most urgent *)
(* one, unless a schedule request is pending or it is about to make one.   *)
Requests == {"prio", "yield"}

Urgent ==
  LET n == k.TCBNext
  IN  k.state[n] = "RUNNING" /\ ~k.TaskSchedReq /\ pc[n].at \notin Requests
        => Foremost(n, k)

TurnInv == Ordered(k.TCBRdy, k.prio) /\ Urgent

(* A step that keeps the list sorted, the turns, and the right task.       *)
KeepsTurns == Turns(k, k') /\ Urgent'

(* A step that leaves the list and the priorities of its tasks.            *)
LEMMA QuietKeepsTurns ==
  ASSUME LockInv, LockInv', TurnInv,
         k'.TCBRdy = k.TCBRdy, \A u \in Range(k.TCBRdy) : k'.prio[u] = k.prio[u],
         k'.TCBNext = k.TCBNext, k'.state[k.TCBNext] = k.state[k.TCBNext],
         \/ k'.TaskSchedReq
         \/ pc'[k.TCBNext].at \in Requests
         \/ /\ k'.TaskSchedReq = k.TaskSchedReq
            /\ k'.prio[k.TCBNext] = k.prio[k.TCBNext]
            /\ pc[k.TCBNext].at \notin Requests \/ pc'[k.TCBNext] = pc[k.TCBNext]
  PROVE  KeepsTurns
<1>1. k \in Kernel /\ k' \in Kernel
  BY DEF LockInv, TypeOK
<1>2. Turns(k, k')
  BY <1>1, ListStays DEF TurnInv
<1>3. Urgent'
  BY DEF TurnInv, Urgent, Foremost
<1> QED  BY <1>2, <1>3 DEF KeepsTurns

(* Schedule(), by a thread or by a handler.                                *)
LEMMA ScheduleKeepsTurns ==
  ASSUME LockInv, ReadyInv, TurnInv,
         NEW q \in Kernel, q.TCBRdy = k.TCBRdy, q.prio = k.prio, q.state = k.state,
         q.TCBRunning = k.TCBRunning, q.TCBNext = k.TCBNext,
         q.TaskSchedReq = k.TaskSchedReq,
         NEW r, r = Schedule(q),
         k'.TCBRdy = r.TCBRdy, k'.prio = r.prio, k'.state = r.state,
         k'.TCBNext = r.TCBNext, k'.TaskSchedReq = r.TaskSchedReq,
         pc[k.TCBNext].at \notin Requests \/ pc' = pc
  PROVE  KeepsTurns
<1>1. CanSchedule(q) => q.TCBRunning \notin Range(q.TCBRdy)
  BY DEF ReadyInv, ReadyListSound, OnProcessor, CanSchedule
<1>2. IsInjective(q.TCBRdy) /\ Ordered(q.TCBRdy, q.prio)
  BY DEF ReadyInv, ReadyListSound, TurnInv
<1>3. Turns(q, r) /\ (r = q \/ Foremost(r.TCBNext, r))
  BY <1>1, <1>2, TaskScheduled
<1>4. Turns(k, k')
  BY <1>3 DEF Turns
<1>5. Urgent'
  BY <1>3 DEF TurnInv, Urgent, Foremost
<1> QED  BY <1>4, <1>5 DEF KeepsTurns

(* InsertToTCBRdyList() of another task, by the running thread.            *)
LEMMA InsertKeepsTurns ==
  ASSUME LockInv, ReadyInv, TurnInv,
         NEW t \in Task, t = k.TCBNext, k.state[t] = "RUNNING", pc[t].at \notin Requests,
         NEW x \in Task, x \notin Range(k.TCBRdy), x # t,
         NEW q \in Kernel, q.TCBRdy = k.TCBRdy, q.TaskSchedReq = k.TaskSchedReq,
         \A u \in Task \ {x} : q.prio[u] = k.prio[u], q.TCBNext = k.TCBNext,
         k' = InsertToTCBRdyList(q, x)
  PROVE  KeepsTurns
<1>1. /\ k \in Kernel /\ k.TCBRdy \in Seq(Task) /\ Range(k.TCBRdy) \subseteq Task
  BY RangeOfTasks DEF LockInv, TypeOK, Kernel
<1>2. IsInjective(q.TCBRdy) /\ Ordered(k.TCBRdy, k.prio)
  BY DEF ReadyInv, ReadyListSound, TurnInv
<1>3. Turns(k, q)
  BY <1>1, <1>2, ListStays
<1>4. /\ Turns(q, k')
      /\ ~k'.TaskSchedReq => ~q.TaskSchedReq /\ (Foremost(t, q) => Foremost(t, k'))
  BY <1>2, <1>3, TaskInserted DEF Turns
<1>5. k'.prio = q.prio /\ k'.TCBNext = q.TCBNext /\ Range(k'.TCBRdy) = Range(k.TCBRdy) \cup {x}
  BY InsertFacts
<1>6. Turns(k, k')
  BY <1>4 DEF Turns
<1>7. Foremost(t, k) => Foremost(t, q)
  BY <1>1 DEF Foremost
<1>8. Urgent'
  BY <1>4, <1>5, <1>7 DEF TurnInv, Urgent
<1> QED  BY <1>6, <1>8 DEF KeepsTurns

-----------------------------------------------------------------------------
(* OsSchedUnlock() in a thread.                                            *)
LEMMA UnlockKeepsTurns ==
  ASSUME LockInv, LockInv', ReadyInv, TurnInv, NEW t \in Task,
         UnlockNested(t) \/ UnlockLast(t) \/ UnlockRelease(t)
  PROVE  KeepsTurns
<1>1. k \in Kernel
  BY DEF LockInv, TypeOK
<1>2. PICK at \in {"unlock", "release"} : Runs(t, at)
  BY DEF UnlockNested, UnlockLast, UnlockRelease
<1>3. t = k.TCBNext /\ pc[t].at \notin Requests
  BY <1>2, Running DEF Runs, At, Requests
<1>4. CASE UnlockNested(t) \/ UnlockRelease(t)
  <2>1. PICK n \in Nat \cup {k.OSSchedLock - 1} : k' = [k EXCEPT !.OSSchedLock = n]
    BY <1>4 DEF UnlockNested, UnlockRelease
  <2>2. /\ k'.TCBRdy = k.TCBRdy /\ k'.prio = k.prio /\ k'.state = k.state
        /\ k'.TCBNext = k.TCBNext /\ k'.TaskSchedReq = k.TaskSchedReq
    BY <1>1, <2>1 DEF Kernel
  <2> QED  BY <1>3, <2>2, QuietKeepsTurns
<1>5. CASE UnlockLast(t)
  <2>1. k' = UnlockSchedule(k)
    BY <1>5 DEF UnlockLast
  <2>2. CASE k.TaskSchedReq
    <3>1. k' = Schedule(k)
      BY <2>1, <2>2 DEF UnlockSchedule
    <3> QED  BY <1>1, <1>3, <3>1, ScheduleKeepsTurns
  <2>3. CASE ~k.TaskSchedReq
    <3>1. k' = k
      BY <2>1, <2>3 DEF UnlockSchedule
    <3> QED  BY <1>3, <3>1, QuietKeepsTurns
  <2> QED  BY <2>2, <2>3
<1> QED  BY <1>4, <1>5

(* The calls of the application that change neither a state nor a          *)
(* priority: CoSchedLock(), CoSchedUnlock(), AssignTCB() and the checks.   *)
LEMMA CallKeepsTurns ==
  ASSUME LockInv, LockInv', ReadyInv, TurnInv, NEW t \in Task, NEW x \in Task,
         \/ CoSchedLock(t) \/ CoSchedUnlock(t) \/ AssignTCB(t)
         \/ CallSuspend(t, x) \/ CallAwake(t, x) \/ CallDel(t, x)
  PROVE  KeepsTurns
<1> DEFINE m == OsSchedLock(k)
<1>1. k \in Kernel
  BY DEF LockInv, TypeOK
<1>2. Runs(t, "user")
  BY DEF CoSchedLock, CoSchedUnlock, AssignTCB, CallSuspend, CallAwake, CallDel
<1>3. t = k.TCBNext /\ pc[t].at \notin Requests
  BY <1>2, Running DEF Runs, At, Requests
<1>4. /\ m \in Kernel /\ m.TCBRdy = k.TCBRdy /\ m.prio = k.prio /\ m.state = k.state
      /\ m.TCBNext = k.TCBNext /\ m.TaskSchedReq = k.TaskSchedReq
  BY <1>1, LockFacts
<1> HIDE DEF m
<1>5. k' \in {k, m, [m EXCEPT !.FreeTCB = Tail(m.FreeTCB)]}
  BY DEF CoSchedLock, CoSchedUnlock, AssignTCB, CallSuspend, CallAwake, CallDel, m
<1>6. /\ k'.TCBRdy = k.TCBRdy /\ k'.prio = k.prio /\ k'.state = k.state
      /\ k'.TCBNext = k.TCBNext /\ k'.TaskSchedReq = k.TaskSchedReq
  BY <1>4, <1>5 DEF Kernel
<1> QED  BY <1>3, <1>6, QuietKeepsTurns

(* CoCreateTask(): a TCB that is being filled is in no list.               *)
LEMMA CreateKeepsTurns ==
  ASSUME LockInv, LockInv', ReadyInv, TurnInv, NEW t \in Task, CreateTask(t)
  PROVE  KeepsTurns
<1> DEFINE x == pc[t].tgt
<1>1. /\ k \in Kernel /\ x \in Task /\ Range(k.TCBRdy) \subseteq Task
      /\ k.prio \in [Task -> Nat] /\ k.state \in [Task -> TaskState]
  BY RangeOfTasks DEF LockInv, TypeOK, Kernel, Thread
<1>2. Runs(t, "fill") /\ pc[t].at = "fill"
  BY DEF CreateTask, Runs
<1>3. t = k.TCBNext /\ pc[t].at \notin Requests /\ k.state[t] = "RUNNING" /\ t \in issued
  BY <1>2, Running DEF At, Windows, Requests
<1>4. Filling(t, x)
  BY <1>2 DEF Filling
<1>5. k.state[x] = "DORMANT" \/ x \notin issued
  BY <1>1, <1>4 DEF ReadyInv, ReadyListSound
<1>6. x # t /\ x \notin Range(k.TCBRdy)
  BY <1>3, <1>5 DEF ReadyInv, ReadyListSound
<1>7. PICK p \in Prios, waiting \in BOOLEAN :
        LET filled == [k EXCEPT !.prio = [k.prio EXCEPT ![x] = p]]
        IN  k' = IF waiting
                 THEN [filled EXCEPT !.state = [filled.state EXCEPT ![x] = "WAITING"]]
                 ELSE InsertToTCBRdyList(OsSchedLock(filled), x)
  BY DEF CreateTask
<1> DEFINE filled == [k EXCEPT !.prio = [k.prio EXCEPT ![x] = p]]
<1> HIDE DEF x
<1>8. /\ filled \in Kernel /\ filled.TCBRdy = k.TCBRdy /\ filled.state = k.state
      /\ filled.TCBNext = k.TCBNext /\ filled.TaskSchedReq = k.TaskSchedReq
      /\ \A u \in Task \ {x} : filled.prio[u] = k.prio[u]
  BY <1>1, TaskFacts DEF Kernel
<1> HIDE DEF filled
<1>9. CASE waiting
  <2>1. k' = [filled EXCEPT !.state = [filled.state EXCEPT ![x] = "WAITING"]]
    BY <1>7, <1>9 DEF filled, x
  <2>2. /\ k'.TCBRdy = k.TCBRdy /\ k'.TCBNext = k.TCBNext /\ k'.TaskSchedReq = k.TaskSchedReq
        /\ k'.state = [k.state EXCEPT ![x] = "WAITING"] /\ k'.prio = filled.prio
    BY <1>8, <2>1 DEF Kernel
  <2>3. \A u \in Range(k.TCBRdy) : k'.prio[u] = k.prio[u]
    BY <1>1, <1>6, <1>8, <2>2
  <2>4. k'.state[t] = k.state[t] /\ k'.prio[t] = k.prio[t]
    BY <1>1, <1>6, <1>8, <2>2
  <2> QED  BY <1>3, <2>2, <2>3, <2>4, QuietKeepsTurns
<1>10. CASE ~waiting
  <2> DEFINE q == OsSchedLock(filled)
  <2>1. k' = InsertToTCBRdyList(q, x)
    BY <1>7, <1>10 DEF filled, x
  <2>2. /\ q \in Kernel /\ q.TCBRdy = k.TCBRdy /\ q.TaskSchedReq = k.TaskSchedReq
        /\ q.TCBNext = k.TCBNext /\ \A u \in Task \ {x} : q.prio[u] = k.prio[u]
    BY <1>8, LockFacts
  <2> HIDE DEF q
  <2> QED  BY <1>1, <1>3, <1>6, <2>1, <2>2, InsertKeepsTurns
<1> QED  BY <1>9, <1>10

(* CoAwakeTask(): a waiting task is in no list.                            *)
LEMMA AwakeKeepsTurns ==
  ASSUME LockInv, LockInv', ReadyInv, TurnInv, NEW t \in Task, CoAwakeTask(t)
  PROVE  KeepsTurns
<1> DEFINE x == pc[t].tgt
           q == OsSchedLock(k)
<1>1. k \in Kernel /\ x \in Task
  BY DEF LockInv, TypeOK, Thread
<1>2. Runs(t, "awake") /\ pc[t].at = "awake" /\ k' = InsertToTCBRdyList(q, x)
  BY DEF CoAwakeTask, Runs
<1>3. t = k.TCBNext /\ pc[t].at \notin Requests /\ k.state[t] = "RUNNING"
  BY <1>2, Running DEF At, Windows, Requests
<1>4. k.state[x] = "WAITING" /\ x # t /\ x \notin Range(k.TCBRdy)
  BY <1>2 DEF ReadyInv, ChecksHold, CheckHolds, ReadyListSound
<1>5. /\ q \in Kernel /\ q.TCBRdy = k.TCBRdy /\ q.TaskSchedReq = k.TaskSchedReq
      /\ q.TCBNext = k.TCBNext /\ q.prio = k.prio
  BY <1>1, LockFacts
<1> HIDE DEF q, x
<1> QED  BY <1>1, <1>2, <1>3, <1>4, <1>5, InsertKeepsTurns

(* CoSuspendTask(): another task goes out of the list, the caller asks for *)
(* a schedule.                                                             *)
LEMMA SuspendKeepsTurns ==
  ASSUME LockInv, LockInv', ReadyInv, TurnInv, NEW t \in Task, CoSuspendTask(t)
  PROVE  KeepsTurns
<1> DEFINE x == pc[t].tgt
           q == OsSchedLock(k)
<1>1. k \in Kernel /\ x \in Task
  BY DEF LockInv, TypeOK, Thread
<1>2. Runs(t, "suspend") /\ pc[t].at = "suspend"
  BY DEF CoSuspendTask, Runs
<1>3. /\ t = k.TCBNext /\ t = k.TCBRunning /\ pc[t].at \notin Requests
      /\ \A u \in Task : k.state[u] = "RUNNING" => u = t
  BY <1>2, Running DEF At, Windows, Requests
<1>4. /\ q \in Kernel /\ q.TCBRdy = k.TCBRdy /\ q.TaskSchedReq = k.TaskSchedReq
      /\ q.TCBNext = k.TCBNext /\ q.prio = k.prio /\ q.state = k.state
  BY <1>1, LockFacts
<1> HIDE DEF q
<1>5. CASE x # t
  <2> DEFINE m == RemoveFromTCBRdyList(q, x)
  <2>1. x \in Range(q.TCBRdy)
    BY <1>2, <1>3, <1>4, <1>5
       DEF ReadyInv, ChecksHold, CheckHolds, Named, ReadyListSound
  <2>2. IsInjective(q.TCBRdy) /\ Ordered(q.TCBRdy, q.prio)
    BY <1>4 DEF ReadyInv, ReadyListSound, TurnInv
  <2> HIDE DEF x
  <2>3. Turns(q, m)
    BY <1>4, <2>1, <2>2, TaskRemoved
  <2>4. /\ m \in Kernel /\ m.prio = k.prio /\ m.state = k.state /\ m.TCBNext = k.TCBNext
        /\ m.TaskSchedReq = k.TaskSchedReq /\ Range(m.TCBRdy) = Range(k.TCBRdy) \ {x}
    <3>1. /\ m \in Kernel /\ m.prio = q.prio /\ m.state = q.state /\ m.TCBNext = q.TCBNext
          /\ m.TaskSchedReq = q.TaskSchedReq /\ Range(m.TCBRdy) = Range(q.TCBRdy) \ {x}
      BY <1>1, <1>4, <2>1, <2>2, RemoveFacts
    <3> QED  BY <1>4, <3>1
  <2> HIDE DEF m
  <2>5. k' = [m EXCEPT !.state = [m.state EXCEPT ![x] = "WAITING"]]
    BY <1>3, <1>5 DEF CoSuspendTask, m, q, x
  <2>6. /\ k'.TCBRdy = m.TCBRdy /\ k'.prio = k.prio /\ k'.TCBNext = k.TCBNext
        /\ k'.TaskSchedReq = k.TaskSchedReq /\ k'.state = [k.state EXCEPT ![x] = "WAITING"]
    BY <2>4, <2>5 DEF Kernel
  <2>7. Turns(k, k')
    BY <1>4, <2>3, <2>4, <2>6 DEF Turns
  <2>8. k'.state[t] = k.state[t]
    BY <1>1, <1>5, <2>6 DEF Kernel
  <2>9. Urgent'
    BY <1>3, <2>4, <2>6, <2>8 DEF TurnInv, Urgent, Foremost
  <2> QED  BY <2>7, <2>9 DEF KeepsTurns
<1>6. CASE x = t
  <2> DEFINE m == RequestSchedule(q)
  <2>1. /\ m \in Kernel /\ m.prio = k.prio /\ m.TCBNext = k.TCBNext
        /\ m.TaskSchedReq = TRUE /\ m.TCBRdy = k.TCBRdy
    BY <1>4, RequestFacts
  <2> HIDE DEF m
  <2>2. k' = [m EXCEPT !.state = [m.state EXCEPT ![t] = "WAITING"]]
    BY <1>3, <1>6 DEF CoSuspendTask, m, q
  <2>3. /\ k'.TCBRdy = k.TCBRdy /\ k'.prio = k.prio /\ k'.TCBNext = k.TCBNext
        /\ k'.TaskSchedReq = TRUE
    BY <2>1, <2>2 DEF Kernel
  <2>4. Turns(k, k')
    BY <1>1, <2>3, ListStays DEF LockInv, TypeOK, TurnInv
  <2> QED  BY <2>3, <2>4 DEF KeepsTurns, Urgent
<1> QED  BY <1>5, <1>6

(* CoDelTask() asks for a schedule.                                        *)
LEMMA DelKeepsTurns ==
  ASSUME LockInv, LockInv', ReadyInv, TurnInv, NEW t \in Task, CoDelTask(t)
  PROVE  KeepsTurns
<1> DEFINE x  == pc[t].tgt
           q  == OsSchedLock(k)
           k2 == IF k.state[x] = "READY" THEN RemoveFromTCBRdyList(q, x) ELSE q
           k3 == RequestSchedule(k2)
<1>1. k \in Kernel /\ x \in Task
  BY DEF LockInv, TypeOK, Thread
<1>2. /\ Runs(t, "del") /\ pc[t].at = "del"
      /\ k' = [k3 EXCEPT !.state   = [k3.state EXCEPT ![x] = "DORMANT"],
                         !.FreeTCB = <<x>> \o k3.FreeTCB]
  BY DEF CoDelTask, Runs
<1>3. x \in issued
  BY <1>2 DEF ReadyInv, ChecksHold, CheckHolds, Named
<1>4. /\ q \in Kernel /\ q.TCBRdy = k.TCBRdy /\ q.prio = k.prio
  BY <1>1, LockFacts
<1>5. IsInjective(q.TCBRdy) /\ Ordered(q.TCBRdy, q.prio)
  BY <1>4 DEF ReadyInv, ReadyListSound, TurnInv
<1> HIDE DEF q
<1>6. k2 \in Kernel /\ Turns(q, k2)
  <2>1. CASE k.state[x] = "READY"
    <3>1. x \in Range(q.TCBRdy)
      BY <1>1, <1>3, <1>4, <2>1 DEF ReadyInv, ReadyListSound
    <3> HIDE DEF x
    <3>2. Turns(q, RemoveFromTCBRdyList(q, x)) /\ RemoveFromTCBRdyList(q, x) \in Kernel
      BY <1>1, <1>4, <1>5, <3>1, TaskRemoved, RemoveFacts
    <3> QED  BY <2>1, <3>2
  <2>2. CASE k.state[x] # "READY"
    BY <1>4, <1>5, <2>2, ListStays
  <2> QED  BY <2>1, <2>2
<1> HIDE DEF k2
<1>7. k3 \in Kernel /\ k3.TaskSchedReq = TRUE /\ k3.prio = k2.prio /\ k3.TCBRdy = k2.TCBRdy
  BY <1>6, RequestFacts
<1> HIDE DEF k3, x
<1>8. k'.TaskSchedReq = TRUE /\ k'.prio = k3.prio /\ k'.TCBRdy = k3.TCBRdy
  BY <1>2, <1>7 DEF Kernel
<1>9. Turns(k, k')
  BY <1>4, <1>6, <1>7, <1>8 DEF Turns
<1> QED  BY <1>8, <1>9 DEF KeepsTurns, Urgent

(* CoSetPriority() of the caller: the task is in no list, and asks for a   *)
(* schedule unless it is still the most urgent one.                        *)
LEMMA PriorityKeepsTurns ==
  ASSUME LockInv, LockInv', ReadyInv, TurnInv, SetsOwnPriority, NEW t \in Task, NEW y \in Task,
         \/ CallSetPriority(t, y)
         \/ PriorityStored(t) \/ PriorityReorder(t) \/ PriorityYield(t)
  PROVE  KeepsTurns
<1> DEFINE q == OsSchedLock(k)
<1>1. /\ k \in Kernel /\ k.TCBRdy \in Seq(Task) /\ Range(k.TCBRdy) \subseteq Task
      /\ k.prio \in [Task -> Nat] /\ pc \in [Task -> Thread]
  BY RangeOfTasks DEF LockInv, TypeOK, Kernel
<1>2. PICK at \in {"user", "prio", "reorder", "yield"} : Runs(t, at)
  BY DEF CallSetPriority, PriorityStored, PriorityReorder, PriorityYield
<1>3. t = k.TCBNext /\ k.state[t] = "RUNNING" /\ t \notin Range(k.TCBRdy)
  BY <1>2, Running DEF At, Windows, ReadyInv, ReadyListSound
<1>4. pc[t].at \in {"prio", "reorder", "yield"} => pc[t].tgt = t
  BY DEF SetsOwnPriority, ReadyInv, ChecksHold, CheckHolds, Named
<1>5. CASE CallSetPriority(t, y)
  <2>1. y = t
    BY <1>5 DEF CallSetPriority, SetsOwnPriority
  <2>2. PICK p \in Prios : k' = [k EXCEPT !.prio = [k.prio EXCEPT ![t] = p]]
    BY <1>5, <2>1 DEF CallSetPriority
  <2>3. /\ k'.TCBRdy = k.TCBRdy /\ k'.prio = [k.prio EXCEPT ![t] = p] /\ k'.state = k.state
        /\ k'.TCBNext = k.TCBNext
    BY <1>1, <2>2 DEF Kernel
  <2>4. \A u \in Range(k.TCBRdy) : k'.prio[u] = k.prio[u]
    BY <1>1, <1>3, <2>3
  <2>5. pc'[t].at = "prio"
    BY <1>1, <1>5 DEF CallSetPriority, Goto
  <2> QED  BY <1>3, <2>3, <2>4, <2>5, QuietKeepsTurns DEF Requests
<1>6. CASE PriorityStored(t)
  <2>1. k' = k /\ pc[t].tgt = t
    BY <1>4, <1>6 DEF PriorityStored, Runs
  <2>2. CASE k.prio[t] > RdyPrio(k)
    <3>1. pc'[t].at = "yield"
      BY <1>1, <1>3, <1>6, <2>1, <2>2 DEF PriorityStored, Goto
    <3> QED  BY <1>3, <2>1, <3>1, QuietKeepsTurns DEF Requests
  <2>3. CASE ~(k.prio[t] > RdyPrio(k))
    <3>1. Foremost(t, k)
      <4>1. CASE k.TCBRdy = <<>>
        BY <4>1 DEF Foremost, Range
      <4>2. CASE k.TCBRdy # <<>>
        <5>1. /\ Head(k.TCBRdy) \in Task
              /\ \A u \in Range(k.TCBRdy) : k.prio[Head(k.TCBRdy)] <= k.prio[u]
          BY <1>1, <4>2, HeadIsFirst DEF TurnInv
        <5>2. k.prio[t] <= k.prio[Head(k.TCBRdy)]
          BY <1>1, <2>3, <4>2, <5>1 DEF RdyPrio
        <5> QED  BY <1>1, <5>1, <5>2 DEF Foremost
      <4> QED  BY <4>1, <4>2
    <3>2. Turns(k, k')
      BY <1>1, <2>1, ListStays DEF TurnInv
    <3> QED  BY <1>3, <2>1, <3>1, <3>2 DEF KeepsTurns, Urgent, Foremost
  <2> QED  BY <2>2, <2>3
<1>7. CASE PriorityReorder(t)
  <2>1. pc[t].at = "reorder"
    BY <1>7 DEF PriorityReorder, Runs
  <2> QED  BY <1>4, <2>1 DEF ReadyInv, ChecksHold, CheckHolds
<1>8. CASE PriorityYield(t)
  <2>1. q \in Kernel /\ q.TCBRdy = k.TCBRdy /\ q.prio = k.prio
    BY <1>1, LockFacts
  <2> HIDE DEF q
  <2>2. k' = RequestSchedule(q)
    BY <1>8 DEF PriorityYield, q
  <2>3. /\ k' \in Kernel /\ k'.TaskSchedReq = TRUE
        /\ k'.TCBRdy = k.TCBRdy /\ k'.prio = k.prio
    BY <2>1, <2>2, RequestFacts
  <2>4. Turns(k, k')
    BY <1>1, <2>3, ListStays DEF TurnInv
  <2> QED  BY <2>3, <2>4 DEF KeepsTurns, Urgent
<1> QED  BY <1>5, <1>6, <1>7, <1>8

(* The exceptions.                                                         *)
LEMMA ExceptionsKeepTurns ==
  ASSUME LockInv, LockInv', ReadyInv, TurnInv,
         PendSV \/ SysTick_Handler \/ TickHandler \/ DeviceISR
  PROVE  KeepsTurns
<1>1. k \in Kernel /\ k.OSSchedLock \in Nat
  BY DEF LockInv, TypeOK, Kernel
<1>2. UNCHANGED pc
  BY DEF PendSV, SysTick_Handler, TickHandler, SysTickNested, SysTickLast,
         SysTickRelease, DeviceISR
<1>3. ASSUME k'.TCBRdy = k.TCBRdy, k'.prio = k.prio, k'.state = k.state,
             k'.TCBNext = k.TCBNext, k'.TaskSchedReq \in {k.TaskSchedReq, TRUE}
      PROVE  KeepsTurns
  BY <1>2, <1>3, QuietKeepsTurns
<1>4. CASE PendSV
  <2>1. k' = [k EXCEPT !.TCBRunning = k.TCBNext, !.OSSchedLock = 0, !.PendSV = FALSE]
    BY <1>1, <1>4, PendSVFacts DEF PendSV
  <2>2. /\ k'.TCBRdy = k.TCBRdy /\ k'.prio = k.prio /\ k'.state = k.state
        /\ k'.TCBNext = k.TCBNext /\ k'.TaskSchedReq = k.TaskSchedReq
    BY <1>1, <2>1 DEF Kernel
  <2> QED  BY <1>3, <2>2
<1>5. CASE SysTick_Handler
  <2>1. PICK c \in Int : k' = [k EXCEPT !.OSSchedLock  = k.OSSchedLock + 1,
                                       !.robin        = c,
                                       !.TaskSchedReq = TRUE]
    BY <1>1, <1>5, SysTickEntryFacts DEF SysTick_Handler
  <2>2. /\ k'.TCBRdy = k.TCBRdy /\ k'.prio = k.prio /\ k'.state = k.state
        /\ k'.TCBNext = k.TCBNext /\ k'.TaskSchedReq = TRUE
    BY <1>1, <2>1 DEF Kernel
  <2> QED  BY <1>3, <2>2
<1>6. CASE SysTickNested \/ SysTickRelease
  <2>1. PICK n \in Nat \cup {k.OSSchedLock - 1} : k' = [k EXCEPT !.OSSchedLock = n]
    BY <1>6 DEF SysTickNested, SysTickRelease
  <2>2. /\ k'.TCBRdy = k.TCBRdy /\ k'.prio = k.prio /\ k'.state = k.state
        /\ k'.TCBNext = k.TCBNext /\ k'.TaskSchedReq = k.TaskSchedReq
    BY <1>1, <2>1 DEF Kernel
  <2> QED  BY <1>3, <2>2
<1>7. CASE SysTickLast
  <2>1. k' = IF k.TaskSchedReq THEN Schedule(k) ELSE k
    BY <1>7 DEF SysTickLast, UnlockSchedule
  <2>2. CASE k.TaskSchedReq
    BY <1>1, <1>2, <2>1, <2>2, ScheduleKeepsTurns
  <2>3. CASE ~k.TaskSchedReq
    BY <1>3, <2>1, <2>3
  <2> QED  BY <2>2, <2>3
<1>8. CASE DeviceISR
  <2> DEFINE q == OsSchedLock(k)
             r == Schedule(q)
  <2>1. k' = k \/ k' = [r EXCEPT !.OSSchedLock = k.OSSchedLock]
    BY <1>1, <1>8, DeviceFacts DEF DeviceISR
  <2>2. CASE k' = k
    BY <1>3, <2>2
  <2>3. CASE k' = [r EXCEPT !.OSSchedLock = k.OSSchedLock]
    <3>1. /\ q \in Kernel /\ q.TCBRdy = k.TCBRdy /\ q.prio = k.prio /\ q.state = k.state
          /\ q.TCBRunning = k.TCBRunning /\ q.TCBNext = k.TCBNext
          /\ q.TaskSchedReq = k.TaskSchedReq
      BY <1>1, LockFacts
    <3> HIDE DEF q
    <3>2. r \in Kernel
      BY <3>1, ScheduleFacts
    <3> HIDE DEF r
    <3>3. /\ k'.TCBRdy = r.TCBRdy /\ k'.prio = r.prio /\ k'.state = r.state
          /\ k'.TCBNext = r.TCBNext /\ k'.TaskSchedReq = r.TaskSchedReq
      BY <2>3, <3>2 DEF Kernel
    <3> QED  BY <1>2, <3>1, <3>3, ScheduleKeepsTurns DEF r
  <2> QED  BY <2>1, <2>2, <2>3
<1> QED  BY <1>4, <1>5, <1>6, <1>7, <1>8 DEF TickHandler

-----------------------------------------------------------------------------
(* CoStartOS() unlocks the scheduler with one task in the list and a       *)
(* schedule request pending.                                               *)
LEMMA TurnInit == Init => TurnInv
<1> SUFFICES ASSUME Init  PROVE TurnInv
  OBVIOUS
<1>1. k.TCBRdy = <<Main>> /\ k.TaskSchedReq = TRUE
  BY DEF Init
<1>2. Ordered(k.TCBRdy, k.prio)
  BY <1>1 DEF Ordered
<1> QED  BY <1>1, <1>2 DEF TurnInv, Urgent

(* Every step of every context keeps the turns.                            *)
LEMMA TurnStep ==
  ASSUME SetsOwnPriority, LockInv, ReadyInv, TurnInv, LockInv', Next
  PROVE  KeepsTurns
<1>1. ASSUME NEW t \in Task, Finish(t)  PROVE KeepsTurns
  BY <1>1, TaskFacts, UnlockKeepsTurns, CreateKeepsTurns, SuspendKeepsTurns, AwakeKeepsTurns,
     DelKeepsTurns, PriorityKeepsTurns DEF Finish
<1>2. ASSUME NEW t \in Task, Call(t)  PROVE KeepsTurns
  BY <1>2, TaskFacts, CallKeepsTurns, PriorityKeepsTurns DEF Call
<1>3. CASE PendSV \/ SysTick_Handler \/ TickHandler \/ DeviceISR
  BY <1>3, ExceptionsKeepTurns
<1> QED  BY <1>1, <1>2, <1>3 DEF Next

(* The inductive invariant of the READY list with that of its order.       *)
LEMMA TurnInvariant ==
  ASSUME SingleOwner, SetsOwnPriority  PROVE Spec => [](LockInv /\ ReadyInv /\ TurnInv)
<1> DEFINE Inv == LockInv /\ ReadyInv /\ TurnInv
<1>1. Inv /\ [Next]_vars => Inv'
  <2> SUFFICES ASSUME Inv, [Next]_vars  PROVE Inv'
    OBVIOUS
  <2>1. LockInv' /\ ReadyInv'
    BY LockStep, ReadyStep
  <2>2. CASE Next
    <3>1. TurnInv'
      BY <2>1, <2>2, TurnStep DEF KeepsTurns, Turns, TurnInv
    <3> QED  BY <2>1, <3>1
  <2>3. CASE UNCHANGED vars
    <3>1. TurnInv'
      BY <2>3 DEF TurnInv, Urgent, Foremost, vars
    <3> QED  BY <2>1, <3>1
  <2> QED  BY <2>1, <2>2, <2>3
<1>2. Init => Inv
  BY LockInit, ReadyInit, TurnInit
<1> QED  BY <1>1, <1>2, PTL DEF Spec

-----------------------------------------------------------------------------
(* If each task has one owner and changes no priority but its own, the     *)
(* application never executes in a task that has blocked or deleted        *)
(* itself, nor, with the scheduler unlocked and no request pending, while  *)
(* a more urgent task is ready.                                            *)
THEOREM RightTaskAlwaysRuns ==
  ASSUME SingleOwner, SetsOwnPriority  PROVE Spec => []RightTaskRuns
<1>1. LockInv /\ ReadyInv /\ TurnInv => RightTaskRuns
  <2> SUFFICES ASSUME LockInv, ReadyInv, TurnInv, NEW t \in Task, Runs(t, "user")
               PROVE  /\ k.state[t] = "RUNNING"
                      /\ k.OSSchedLock = 0 /\ Settled /\ ~k.TaskSchedReq =>
                           \A u \in Range(k.TCBRdy) : k.prio[t] <= k.prio[u]
    BY DEF RightTaskRuns
  <2>1. t = k.TCBNext /\ k.state[t] = "RUNNING" /\ pc[t].at = "user"
    BY Running DEF At, Runs
  <2> QED  BY <2>1 DEF TurnInv, Urgent, Foremost, Requests
<1> QED  BY <1>1, TurnInvariant, PTL

(* And tasks of one priority are served in the order they became ready,    *)
(* through preemption, round robin and every call of the application.      *)
THEOREM TurnsAreKept ==
  ASSUME SingleOwner, SetsOwnPriority  PROVE Spec => FifoWithinPrio
<1> DEFINE Keeps ==
      \A t \in Range(k.TCBRdy) \cap Range(k'.TCBRdy) :
      \A u \in Range(k'.TCBRdy) \ {t} :
        /\ u \in Range(k.TCBRdy) => PosOf(k.TCBRdy, t) < PosOf(k.TCBRdy, u)
        /\ k'.prio[t] = k'.prio[u] /\ k'.prio[t] = k.prio[t] /\ Settled
        => PosOf(k'.TCBRdy, t) < PosOf(k'.TCBRdy, u)
           Inv == LockInv /\ ReadyInv /\ TurnInv
<1>1. Inv /\ Inv' /\ [Next]_vars => [Keeps]_vars
  <2> SUFFICES ASSUME LockInv, ReadyInv, TurnInv, LockInv', Next  PROVE Keeps
    OBVIOUS
  <2>1. InOrder(k.TCBRdy, k'.TCBRdy, k'.prio)
    BY TurnStep DEF KeepsTurns, Turns
  <2> QED  BY <2>1 DEF InOrder
<1> QED  BY <1>1, TurnInvariant, PTL DEF FifoWithinPrio, Spec
=============================================================================
