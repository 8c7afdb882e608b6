--------------------------- MODULE CoServiceProofs ---------------------------
(***************************************************************************)
(* Proofs about the services of CooCox CoOS together (CoSystem): in an     *)
(* application that creates its events in main(), the lists of the kernel  *)
(* are always sound, blocking calls return only when their wait is over,   *)
(* no permit is lost or made up, semaphores used as locks exclude, the     *)
(* ring of requests is a queue, and delays are as long as was asked for.   *)
(***************************************************************************)
EXTENDS CoRecordProofs

-----------------------------------------------------------------------------
(* The threads.  p is the pc, x the place of one thread.                   *)
WaitPlaces == {"woken", "timed"}
NodePlaces == {"flagged", "flagtimed"}
Opens == UnlockPlaces \ {"release"}

(* Where a thread is, or goes on after its OsSchedUnlock().                *)
Carries(x) == IF x.at \in UnlockPlaces THEN x.ret ELSE x.at

(* The locks that a thread holds.                                          *)
HeldBy(x) == (IF x.at \in Opens THEN 1 ELSE 0)
               + (IF Carries(x) \in {"renew", "renewed"} THEN 1 ELSE 0)

Ids(p) == [t \in Task |-> p[t].id]

(* The lock counts the sections that the running task and the tick are in; *)
(* OsSchedUnlock() stores 0 into it last.                                  *)
LocksRight(k, p) ==
  LET run == p[k.TCBRunning]
      tmr == p[Tmr]
      n   == HeldBy(run) + HeldBy(tmr)
  IN  /\ \A t \in Task \ {k.TCBRunning} : HeldBy(p[t]) = 0
      /\ k.PendSV => HeldBy(run) = 0 /\ tmr.at \in {"off", "release"}
      /\ k.OSSchedLock = n \/ (k.OSSchedLock = n + 1 /\ (run.at = "release" \/ tmr.at = "release"))
      /\ run.at \in UnlockPlaces \ {"unlock"} => Carries(run) \notin {"renew", "renewed"}
      /\ tmr.at \in UnlockPlaces \ {"unlock"} => HeldBy(run) = 0 /\ k.OSSchedLock <= 1
      /\ k.OSIntNesting = 0

(* The running task runs, or waits in OsSchedUnlock(), or is to be         *)
(* replaced by the next one.                                               *)
RunningRight(k, p) ==
  LET run == k.TCBRunning
  IN  /\ \A t \in Task : k.state[t] = "RUNNING" => t = k.TCBNext
      /\ k.PendSV => k.state[k.TCBNext] = "RUNNING"
      /\ ~k.PendSV => k.TCBNext = run
      /\ ~k.PendSV /\ k.state[run] # "RUNNING" =>
           k.TaskSchedReq /\ p[run].at \in Opens /\ HeldBy(p[run]) = 1
      /\ k.PendSV /\ k.state[run] = "WAITING" => k.OSSchedLock = 1 /\ p[Tmr].at = "off"
      /\ k.state[Idle] \in {"READY", "RUNNING"}
      /\ p[Idle].at \in {"user"} \cup UnlockPlaces /\ p[Idle].ret = "user"

PlaceRight(x) ==
  /\ DOMAIN x = {"at", "ret", "id", "ticks", "val", "flags", "ids"}
  /\ x.at \in At /\ x.ret \in At /\ x.id \in Nat /\ x.ticks \in Nat /\ x.val \in Nat
  /\ x.ret # "remove" /\ (x.at = "remove" => x.ret \in {"stopped", "insert", "gone"})

PlacesRight(p) ==
  /\ DOMAIN p = Context
  /\ \A c \in Context : PlaceRight(p[c])
  /\ p[Tmr].at \in {"off"} \cup UnlockPlaces /\ p[Tmr].ret = "off"

(* What a task has in its hands is what its place in a call says.          *)
CallRight(r, x, t) ==
  LET at == Carries(x)
  IN  /\ at \notin {"off"} \cup ControlPlaces \cup UnlockPlaces \cup MutexPlaces
      /\ r.eventID[t] # NoEvent => at \in WaitPlaces
      /\ r.pnode[t] # "null" => at \in NodePlaces
      /\ r.pmail[t] # NoMail => at \in WaitPlaces
      /\ at \in WaitPlaces \cup {"block"} =>
           /\ x.id \in Event /\ r.eventType[x.id] # "invalid"
           /\ \E c \in Calls[r.app].pendSem \cup Calls[r.app].pendMail : c[1] = t
      /\ at \in NodePlaces => \E c \in Calls[r.app].waitFlags : c[1] = t
      /\ at = "woken" => /\ r.delayTick[t] = NoDelay
                         /\ r.eventID[t] # NoEvent \/ r.pmail[t] # NoMail
      /\ at = "flagged" => r.delayTick[t] = NoDelay /\ r.pnode[t] # "null"
      /\ at = "post" =>
           /\ x.id \in Event /\ r.eventType[x.id] # "invalid"
           /\ r.eventType[x.id] \in {"mbox", "queue"} => x.val \in Mail
      /\ at = "renew" => <<t, x.id, x.ticks>> \in Calls[r.app].renew
      /\ at \in {"accept", "store"} => x.id \in Event
      /\ at \in TimerPlaces => x.id \in Timer

(* A post finds room, and an accept the permit, that was seen before.      *)
PermitCall(r, x, t) ==
  LET e  == x.id
      at == Carries(x)
  IN  /\ at \in WaitPlaces \cup {"block"} => e \notin r.holds[t]
      /\ at = "post" /\ r.eventType[e] = "sem" =>
           /\ <<t, e>> \in Calls[r.app].postSem
           /\ IF e \in Setup[r.app].locks THEN e \in r.holds[t]
              ELSE r.eventCounter[e] < r.initialEventCounter[e]
      /\ at \in {"accept", "store"} =>
           /\ r.eventType[e] = "sem" /\ e \notin r.holds[t]
           /\ <<t, e>> \in Calls[r.app].acceptSem
           /\ r.eventCounter[e] > 0
           /\ at = "store" => x.val = r.eventCounter[e]

Holders(r, e) == {t \in Task : e \in r.holds[t]}

(* The locks are with the tasks that hold them.                            *)
LocksKept(r) ==
  /\ \A e \in Setup[r.app].locks :
       /\ e \in Event /\ r.eventType[e] = "sem"
       /\ r.initialEventCounter[e] >= Setup[r.app].events[e + 1].count
       /\ r.balance[e] + Cardinality(Holders(r, e)) = Setup[r.app].events[e + 1].count
  /\ \A t \in Task : r.holds[t] \subseteq Setup[r.app].locks

SystemRight(r, p) ==
  /\ Right(r, Ids(p), {})
  /\ PlacesRight(p) /\ LocksRight(r.k, p) /\ RunningRight(r.k, p)
  /\ \A t \in Task : CallRight(r, p[t], t)
  /\ Disciplined => LocksKept(r) /\ \A t \in Task : PermitCall(r, p[t], t)

SystemInv == SystemRight(s, pc)

-----------------------------------------------------------------------------
(* What a step of the tasks of A, or of an exception, does to the others,  *)
(* and to the semaphores: only the posters of a semaphore add to it, only  *)
(* its users take from it.                                                 *)
CountersApart(r, r2, A) ==
  Disciplined => \A e \in Event : r.eventType[e] = "sem" =>
    \/ r2.eventCounter[e] = r.eventCounter[e]
    \/ PostsFromIsr(r.app, e)
    \/ \E u \in A : \/ u \in Posters(r.app, e)
                    \/ u \in Users(r.app, e) /\ r2.eventCounter[e] < r.eventCounter[e]

TasksApart(r, r2, A) ==
  \A t \in Task \ A :
    /\ r2.holds[t] = r.holds[t]
    /\ r2.eventID[t] = r.eventID[t] \/ r2.eventID[t] = NoEvent
    /\ r2.pmail[t] = r.pmail[t] \/ r.eventID[t] # NoEvent
    /\ r2.pnode[t] = r.pnode[t] \/ r.pnode[t] = "node"
    /\ r.delayTick[t] = NoDelay =>
         /\ r2.delayTick[t] = NoDelay
         /\ r2.pnode[t] = r.pnode[t] \/ r2.pnode[t] = "set"
         /\ r.eventID[t] # NoEvent /\ r2.eventID[t] = NoEvent => r2.pmail[t] # NoMail

Apart(r, r2, A) ==
  /\ r2.app = r.app /\ r2.eventType = r.eventType
  /\ r2.initialEventCounter = r.initialEventCounter
  /\ CountersApart(r, r2, A) /\ TasksApart(r, r2, A)

(* The semaphores of E that are not lists of interrupts are those A posts. *)
ServesApart ==
  \A r, r2, E, A :
    /\ Serves(r, r2, E)
    /\ Disciplined => \A e \in E : e \in Event /\ r.eventType[e] = "sem" =>
         PostsFromIsr(r.app, e) \/ \E u \in A : u \in Posters(r.app, e)
    => Apart(r, r2, A)

LEMMA ServesAreApart == ServesApart
<1> SUFFICES ASSUME NEW r, NEW r2, NEW E, NEW A, Serves(r, r2, E),
                    Disciplined => \A e \in E : e \in Event /\ r.eventType[e] = "sem" =>
                      PostsFromIsr(r.app, e) \/ \E u \in A : u \in Posters(r.app, e)
             PROVE  Apart(r, r2, A)
  BY DEF ServesApart
<1>1. CountersApart(r, r2, A)
  BY DEF Serves, CountersApart
<1>2. TasksApart(r, r2, A)
  BY DEF Serves, TasksApart
<1> QED  BY <1>1, <1>2 DEF Serves, Apart

LEMMA SameApart ==
  ASSUME NEW r, NEW r2, NEW A,
         r2.app = r.app, r2.eventType = r.eventType,
         r2.initialEventCounter = r.initialEventCounter,
         r2.eventCounter = r.eventCounter,
         \A t \in Task \ A : /\ r2.holds[t] = r.holds[t] /\ r2.eventID[t] = r.eventID[t]
                             /\ r2.pmail[t] = r.pmail[t] /\ r2.pnode[t] = r.pnode[t]
                             /\ r.delayTick[t] = NoDelay => r2.delayTick[t] = NoDelay
  PROVE  Apart(r, r2, A)
<1>1. CountersApart(r, r2, A)
  BY DEF CountersApart
<1>2. TasksApart(r, r2, A)
  BY DEF TasksApart
<1> QED  BY <1>1, <1>2 DEF Apart

-----------------------------------------------------------------------------
(* The arguments of the calls.                                             *)
LEMMA CallTypes ==
  ASSUME NEW a \in App
  PROVE  /\ Calls[a].delay \subseteq Caller \X Nat
         /\ Calls[a].renew \subseteq Caller \X Task \X Nat
         /\ Calls[a].pendSem \subseteq Caller \X Event \X Nat
         /\ Calls[a].postSem \subseteq Caller \X Event
         /\ Calls[a].acceptSem \subseteq Caller \X Event
         /\ Calls[a].pendMail \subseteq Caller \X Event \X Nat
         /\ Calls[a].postMail \subseteq Caller \X Event \X Mail
         /\ Calls[a].acceptMail \subseteq Caller \X Event
         /\ Calls[a].waitFlags \subseteq Caller \X (SUBSET Flag) \X FlagType \X Nat
         /\ Calls[a].acceptFlags \subseteq Caller \X (SUBSET Flag) \X FlagType
         /\ Calls[a].setFlag \subseteq Caller \X Flag
         /\ Calls[a].clearFlag \subseteq Caller \X Flag
         /\ Calls[a].createFlag \subseteq Caller \X BOOLEAN \X BOOLEAN
         /\ Calls[a].delFlag \subseteq Caller \X Flag \X DelOpt
         /\ Calls[a].createTmr \subseteq Caller \X {"oneshot", "periodic"} \X Nat \X Nat
         /\ Calls[a].startTmr \subseteq Caller \X Timer
         /\ Calls[a].stopTmr \subseteq Caller \X Timer
         /\ Calls[a].setTmr \subseteq Caller \X Timer \X Nat \X Nat
         /\ Calls[a].delTmr \subseteq Caller \X Timer
         /\ Calls[a].isr \subseteq DeviceRequest
<1>1. \A op \in Services : Calls[a][op] \subseteq ArgumentTypes[op]
  BY ThreadAssumption
<1> DEFINE C == Calls[a]
<1> HIDE DEF C
<1>2. \A op \in Services : C[op] \subseteq ArgumentTypes[op]
  BY <1>1 DEF C
<1>3. /\ "delay" \in Services /\ "renew" \in Services /\ "pendSem" \in Services
      /\ "postSem" \in Services /\ "acceptSem" \in Services /\ "pendMail" \in Services
      /\ "postMail" \in Services /\ "acceptMail" \in Services /\ "waitFlags" \in Services
      /\ "acceptFlags" \in Services /\ "setFlag" \in Services /\ "clearFlag" \in Services
      /\ "createFlag" \in Services /\ "delFlag" \in Services /\ "createTmr" \in Services
      /\ "startTmr" \in Services /\ "stopTmr" \in Services /\ "setTmr" \in Services
      /\ "delTmr" \in Services /\ "isr" \in Services
  BY DEF Services, ArgumentTypes
<1> DEFINE T == ArgumentTypes
<1>4. /\ T.delay = Caller \X Nat
      /\ T.renew = Caller \X Task \X Nat
      /\ T.pendSem = Caller \X Event \X Nat
      /\ T.postSem = Caller \X Event
      /\ T.acceptSem = Caller \X Event
      /\ T.pendMail = Caller \X Event \X Nat
      /\ T.postMail = Caller \X Event \X Mail
      /\ T.acceptMail = Caller \X Event
      /\ T.waitFlags = Caller \X (SUBSET Flag) \X FlagType \X Nat
      /\ T.acceptFlags = Caller \X (SUBSET Flag) \X FlagType
      /\ T.setFlag = Caller \X Flag
      /\ T.clearFlag = Caller \X Flag
      /\ T.createFlag = Caller \X BOOLEAN \X BOOLEAN
      /\ T.delFlag = Caller \X Flag \X DelOpt
      /\ T.createTmr = Caller \X {"oneshot", "periodic"} \X Nat \X Nat
      /\ T.startTmr = Caller \X Timer
      /\ T.stopTmr = Caller \X Timer
      /\ T.setTmr = Caller \X Timer \X Nat \X Nat
      /\ T.delTmr = Caller \X Timer
      /\ T.isr = DeviceRequest
  BY DEF ArgumentTypes
<1>5. \A op \in Services : C[op] \subseteq T[op]
  BY <1>2
<1> HIDE DEF T
<1> QED  BY <1>3, <1>4, <1>5 DEF C

(* Rules of use.                                                           *)
LEMMA PostersFew ==
  ASSUME Disciplined, NEW a \in App, NEW e \in Event, e \notin Setup[a].locks,
         NEW u \in Task, u \in Posters(a, e)
  PROVE  /\ ~PostsFromIsr(a, e)
         /\ \A v \in Task : v \in Posters(a, e) => v = u
<1> DEFINE P == Posters(a, e)
<1>1. P \subseteq Task
  <2>1. Calls[a].postSem \subseteq Caller \X Event
    BY CallTypes
  <2> QED  BY <2>1 DEF Posters, Caller
<1>2. IsFiniteSet(P)
  BY <1>1, TaskFinite, FS_Subset
<1>3. Cardinality(P) + (IF PostsFromIsr(a, e) THEN 1 ELSE 0) <= 1
  BY DEF Disciplined, OnePoster
<1> HIDE DEF P
<1>4. Cardinality(P) \in Nat
  BY <1>2, FS_CardinalityType
<1>5. u \in P
  BY DEF P
<1>6. /\ IsFiniteSet(P \ {u}) /\ Cardinality(P \ {u}) \in Nat
      /\ Cardinality(P \ {u}) = Cardinality(P) - 1
  BY <1>2, <1>5, FS_RemoveElement, FS_CardinalityType
<1>7. ~PostsFromIsr(a, e)
  BY <1>3, <1>4, <1>6
<1>8. Cardinality(P \ {u}) = 0
  BY <1>3, <1>4, <1>6, <1>7
<1>9. P \ {u} = {}
  BY <1>6, <1>8, FS_EmptySet
<1> QED  BY <1>7, <1>9 DEF P

LEMMA AccepterAlone ==
  ASSUME Disciplined, NEW a \in App, NEW e \in Event,
         NEW u \in Task, <<u, e>> \in Calls[a].acceptSem
  PROVE  /\ ~PostsFromIsr(a, e)
         /\ \A v : v \in Users(a, e) => v = u
         /\ \A v : v \in Posters(a, e) => v = u
<1>1. Users(a, e) = {u} /\ ~PostsFromIsr(a, e)
  BY DEF Disciplined, AcceptAlone
<1> QED  BY <1>1 DEF Users

-----------------------------------------------------------------------------
(* The calls of the tasks that do not act.                                 *)
LEMMA CallsKept ==
  ASSUME NEW r, NEW r2, NEW A, Apart(r, r2, A), NEW t \in Task, t \notin A, NEW x,
         CallRight(r, x, t)
  PROVE  CallRight(r2, x, t)
<1>1. /\ r2.app = r.app /\ r2.eventType = r.eventType
      /\ r2.eventID[t] = r.eventID[t] \/ r2.eventID[t] = NoEvent
      /\ r2.pmail[t] = r.pmail[t] \/ r.eventID[t] # NoEvent
      /\ r2.pnode[t] = r.pnode[t] \/ r.pnode[t] = "node"
      /\ r.delayTick[t] = NoDelay =>
           /\ r2.delayTick[t] = NoDelay
           /\ r2.pnode[t] = r.pnode[t] \/ r2.pnode[t] = "set"
           /\ r.eventID[t] # NoEvent /\ r2.eventID[t] = NoEvent => r2.pmail[t] # NoMail
  BY DEF Apart, TasksApart
<1> DEFINE at == Carries(x)
<1>2. at \notin {"off"} \cup ControlPlaces \cup UnlockPlaces \cup MutexPlaces
  BY DEF CallRight
<1>3. /\ r2.eventID[t] # NoEvent => at \in WaitPlaces
      /\ r2.pnode[t] # "null" => at \in NodePlaces
      /\ r2.pmail[t] # NoMail => at \in WaitPlaces
  BY <1>1 DEF CallRight
<1>4. /\ at = "woken" => /\ r2.delayTick[t] = NoDelay
                         /\ r2.eventID[t] # NoEvent \/ r2.pmail[t] # NoMail
      /\ at = "flagged" => r2.delayTick[t] = NoDelay /\ r2.pnode[t] # "null"
  BY <1>1 DEF CallRight
<1> QED  BY <1>1, <1>2, <1>3, <1>4 DEF CallRight

LEMMA PermitCallsKept ==
  ASSUME Disciplined, NEW r, NEW r2, NEW A, A \subseteq Task, Apart(r, r2, A), r.app \in App,
         r.eventCounter \in [Event -> Nat], r.initialEventCounter \in [Event -> Nat],
         r2.eventCounter \in [Event -> Nat],
         NEW t \in Task, t \notin A, NEW x, CallRight(r, x, t), PermitCall(r, x, t)
  PROVE  PermitCall(r2, x, t)
<1> DEFINE e  == x.id
           at == Carries(x)
<1>1. /\ r2.app = r.app /\ r2.eventType = r.eventType
      /\ r2.initialEventCounter = r.initialEventCounter
      /\ r2.holds[t] = r.holds[t]
  BY DEF Apart, TasksApart
<1>2. at = "post" /\ r.eventType[e] = "sem" =>
           /\ <<t, e>> \in Calls[r.app].postSem
           /\ IF e \in Setup[r.app].locks THEN e \in r.holds[t]
              ELSE r2.eventCounter[e] < r.initialEventCounter[e]
  <2> SUFFICES ASSUME at = "post", r.eventType[e] = "sem", e \notin Setup[r.app].locks
               PROVE  r2.eventCounter[e] < r.initialEventCounter[e]
    BY DEF PermitCall
  <2>1. /\ e \in Event /\ <<t, e>> \in Calls[r.app].postSem
        /\ r.eventCounter[e] < r.initialEventCounter[e]
    BY DEF CallRight, PermitCall
  <2>2. t \in Posters(r.app, e)
    BY <2>1 DEF Posters
  <2>3. ~PostsFromIsr(r.app, e) /\ \A v \in Task : v \in Posters(r.app, e) => v = t
    BY <2>1, <2>2, PostersFew
  <2>4. r2.eventCounter[e] = r.eventCounter[e] \/ r2.eventCounter[e] < r.eventCounter[e]
    BY <2>1, <2>3 DEF Apart, CountersApart
  <2>5. /\ r2.eventCounter[e] \in Nat /\ r.eventCounter[e] \in Nat
        /\ r.initialEventCounter[e] \in Nat
    BY <2>1
  <2> HIDE DEF e
  <2> QED  BY <2>1, <2>4, <2>5
<1>3. at \in {"accept", "store"} =>
        /\ r.eventType[e] = "sem" /\ e \notin r.holds[t]
        /\ <<t, e>> \in Calls[r.app].acceptSem
        /\ r2.eventCounter[e] = r.eventCounter[e] /\ r.eventCounter[e] > 0
        /\ at = "store" => x.val = r.eventCounter[e]
  <2> SUFFICES ASSUME at \in {"accept", "store"}
               PROVE  /\ r.eventType[e] = "sem" /\ e \notin r.holds[t]
                      /\ <<t, e>> \in Calls[r.app].acceptSem
                      /\ r2.eventCounter[e] = r.eventCounter[e] /\ r.eventCounter[e] > 0
                      /\ at = "store" => x.val = r.eventCounter[e]
    OBVIOUS
  <2>1. /\ e \in Event /\ <<t, e>> \in Calls[r.app].acceptSem /\ r.eventType[e] = "sem"
        /\ e \notin r.holds[t] /\ r.eventCounter[e] > 0
        /\ at = "store" => x.val = r.eventCounter[e]
    BY DEF CallRight, PermitCall
  <2>2. /\ ~PostsFromIsr(r.app, e)
        /\ \A v : v \in Users(r.app, e) => v = t
        /\ \A v : v \in Posters(r.app, e) => v = t
    BY <2>1, AccepterAlone
  <2>3. r2.eventCounter[e] = r.eventCounter[e]
    BY <2>1, <2>2 DEF Apart, CountersApart
  <2> QED  BY <2>1, <2>3
<1>4. at \in WaitPlaces \cup {"block"} => e \notin r2.holds[t]
  BY <1>1 DEF PermitCall
<1> QED  BY <1>1, <1>2, <1>3, <1>4 DEF PermitCall

-----------------------------------------------------------------------------
(* Threads go on.                                                          *)
LEMMA RightIds ==
  ASSUME NEW r, NEW id, NEW id2, NEW X, Right(r, id, X),
         \A t \in Task : id2[t] = id[t] \/ (r.eventID[t] = NoEvent /\ r.pmail[t] = NoMail)
  PROVE  Right(r, id2, X)
<1>1. WaitersRight(r, id2)
  BY DEF Right, WaitersRight
<1>2. \A e : Given(r, id2, e) = Given(r, id, e)
  BY DEF Given, Woken, NoMail
<1>3. PermitsRight(r, id) => PermitsRight(r, id2)
  BY <1>2 DEF PermitsRight
<1> QED  BY <1>1, <1>3 DEF Right

(* The same call goes on.                                                  *)
SameCall(x, y) ==
  /\ Carries(y) = Carries(x)
  /\ Carries(x) = "user" \/ (y.id = x.id /\ y.ticks = x.ticks /\ y.val = x.val)

LEMMA CallSame ==
  ASSUME NEW r, NEW x, NEW y, NEW t, CallRight(r, x, t), SameCall(x, y)
  PROVE  CallRight(r, y, t)
<1>1. CASE Carries(x) = "user"
  BY <1>1 DEF CallRight, SameCall, WaitPlaces, NodePlaces, TimerPlaces
<1>2. CASE Carries(x) # "user"
  <2>1. Carries(y) = Carries(x) /\ y.id = x.id /\ y.ticks = x.ticks /\ y.val = x.val
    BY <1>2 DEF SameCall
  <2> QED  BY <2>1 DEF CallRight
<1> QED  BY <1>1, <1>2

LEMMA PermitCallSame ==
  ASSUME NEW r, NEW x, NEW y, NEW t, PermitCall(r, x, t), SameCall(x, y)
  PROVE  PermitCall(r, y, t)
<1>1. CASE Carries(x) = "user"
  BY <1>1 DEF PermitCall, SameCall, WaitPlaces
<1>2. CASE Carries(x) # "user"
  <2>1. Carries(y) = Carries(x) /\ y.id = x.id /\ y.ticks = x.ticks /\ y.val = x.val
    BY <1>2 DEF SameCall
  <2> QED  BY <2>1 DEF PermitCall
<1> QED  BY <1>1, <1>2

LEMMA StepRight ==
  ASSUME NEW r, NEW p, NEW r2, NEW p2, NEW A, A \subseteq Task,
         SystemRight(r, p), Right(r2, Ids(p2), {}), PlacesRight(p2),
         LocksRight(r2.k, p2), RunningRight(r2.k, p2), Apart(r, r2, A),
         \A t \in Task \ A : SameCall(p[t], p2[t]),
         \A t \in A : CallRight(r2, p2[t], t),
         Disciplined => LocksKept(r2) /\ \A t \in A : PermitCall(r2, p2[t], t)
  PROVE  SystemRight(r2, p2)
<1>1. \A t \in Task : CallRight(r2, p2[t], t)
  <2> SUFFICES ASSUME NEW t \in Task, t \notin A
               PROVE  CallRight(r2, p2[t], t)
    OBVIOUS
  <2>1. CallRight(r, p[t], t) /\ SameCall(p[t], p2[t])
    BY DEF SystemRight
  <2>2. CallRight(r2, p[t], t)
    BY <2>1, CallsKept
  <2> QED  BY <2>1, <2>2, CallSame
<1>2. ASSUME Disciplined PROVE \A t \in Task : PermitCall(r2, p2[t], t)
  <2> SUFFICES ASSUME NEW t \in Task, t \notin A
               PROVE  PermitCall(r2, p2[t], t)
    BY <1>2
  <2>1. CallRight(r, p[t], t) /\ PermitCall(r, p[t], t) /\ SameCall(p[t], p2[t])
    BY <1>2 DEF SystemRight
  <2>2. /\ r.app \in App
        /\ r.eventCounter \in [Event -> Nat] /\ r.initialEventCounter \in [Event -> Nat]
        /\ r2.eventCounter \in [Event -> Nat]
    BY DEF SystemRight, Right, Shape
  <2>3. PermitCall(r2, p[t], t)
    BY <1>2, <2>1, <2>2, PermitCallsKept
  <2> QED  BY <2>1, <2>3, PermitCallSame
<1> QED  BY <1>1, <1>2 DEF SystemRight

(* A task that has nothing in its hands.                                   *)
Free(r, t) == r.eventID[t] = NoEvent /\ r.pnode[t] = "null" /\ r.pmail[t] = NoMail

LEMMA FreeIs ==
  ASSUME NEW r, NEW x, NEW t, CallRight(r, x, t), Carries(x) \notin WaitPlaces \cup NodePlaces
  PROVE  Free(r, t)
BY DEF CallRight, Free

LEMMA FreeKept ==
  ASSUME NEW r, NEW r2, NEW A, NEW t \in Task \ A, TasksApart(r, r2, A), Free(r, t)
  PROVE  Free(r2, t)
BY DEF TasksApart, Free

(* Places at which a task only has its own arguments.                      *)
EasyPlaces == {"user", "renewed", "take", "set", "setf", "walk", "clearf"}

LEMMA CallEasy ==
  ASSUME NEW r, NEW x, NEW t, Free(r, t),
         Carries(x) \in EasyPlaces \/ (Carries(x) \in TimerPlaces /\ x.id \in Timer)
  PROVE  CallRight(r, x, t) /\ PermitCall(r, x, t)
<1>1. /\ Carries(x) \notin {"off"} \cup ControlPlaces \cup UnlockPlaces \cup MutexPlaces
      /\ Carries(x) \notin WaitPlaces \cup NodePlaces
      /\ Carries(x) \notin {"block", "post", "renew", "accept", "store"}
      /\ Carries(x) \in TimerPlaces => x.id \in Timer
  BY DEF EasyPlaces, TimerPlaces, ControlPlaces, UnlockPlaces, MutexPlaces, WaitPlaces, NodePlaces
<1> QED  BY <1>1 DEF CallRight, PermitCall, Free, WaitPlaces, NodePlaces

LEMMA LocksKeptSame ==
  ASSUME NEW r, NEW r2, LocksKept(r), r2.app = r.app, r2.eventType = r.eventType,
         r2.initialEventCounter = r.initialEventCounter,
         \A e \in Setup[r.app].locks : r2.balance[e] = r.balance[e],
         \A t \in Task : r2.holds[t] = r.holds[t]
  PROVE  LocksKept(r2)
<1>1. \A e : Holders(r2, e) = Holders(r, e)
  BY DEF Holders
<1> QED  BY <1>1 DEF LocksKept

(* Serving leaves the locks alone.                                         *)
LEMMA LocksKeptServed ==
  ASSUME Disciplined, NEW r, NEW r2, NEW E, r.app \in App, LocksKept(r), Serves(r, r2, E),
         \A e \in E : e \in Event /\ r.eventType[e] = "sem" => e \notin Setup[r.app].locks
  PROVE  LocksKept(r2)
<1>1. /\ r2.app = r.app /\ r2.eventType = r.eventType /\ r2.holds = r.holds
      /\ r2.initialEventCounter = r.initialEventCounter
  BY DEF Serves
<1>2. \A e \in Setup[r.app].locks : r2.balance[e] = r.balance[e]
  BY DEF Serves, LocksKept
<1> QED  BY <1>1, <1>2, LocksKeptSame

LEMMA DevicesNotLocks ==
  ASSUME Disciplined, NEW a \in App, NEW e \in Setup[a].locks
  PROVE  ~PostsFromIsr(a, e)
BY DEF Disciplined, LocksAreLocks

-----------------------------------------------------------------------------
(* The task that runs.                                                     *)
RunsIn(r, p, t, at) ==
  p[t].at = at /\ t = r.k.TCBRunning /\ ~r.k.PendSV /\ p[Tmr].at = "off"

LEMMA RunsHere ==
  ASSUME NEW t \in Task, NEW at, Runs(t, at)
  PROVE  RunsIn(s, pc, t, at)
<1>1. t # Tmr
  BY KernelAssumption DEF Task, Tmr
<1> QED  BY <1>1 DEF Runs, RunsIn

LEMMA Runner ==
  ASSUME NEW r, NEW p, SystemRight(r, p), NEW t \in Task, NEW at, RunsIn(r, p, t, at),
         at \notin Opens
  PROVE  /\ r.k.state[t] = "RUNNING" /\ ~Waits(r, t)
         /\ r.eventID[t] = NoEvent /\ r.delayTick[t] = NoDelay /\ r.pnode[t] # "node"
         /\ at \notin {"user"} \cup UnlockPlaces => t # Idle
<1>1. r.k.state[t] = "RUNNING"
  BY DEF SystemRight, RunningRight, RunsIn
<1>2. ~Waits(r, t)
  BY <1>1 DEF SystemRight, Right, StatesRight
<1>3. at \notin {"user"} \cup UnlockPlaces => t # Idle
  BY DEF SystemRight, RunningRight, RunsIn
<1> QED  BY <1>1, <1>2, <1>3 DEF Waits

(* The lock and the switch, when the running task goes on.                 *)
Goes(p, p2, t) == DOMAIN p2 = Context /\ \A c \in Context \ {t} : p2[c] = p[c]

LEMMA HeldNat ==
  ASSUME NEW x
  PROVE  HeldBy(x) \in Nat
BY DEF HeldBy

LEMMA TmrApart == Tmr \notin Task /\ Tmr \in Context /\ Task \subseteq Context
BY KernelAssumption DEF Task, Tmr, Context

LEMMA SwitchQuiet ==
  ASSUME NEW k \in Kernel, NEW p, LocksRight(k, p), RunningRight(k, p), NEW t \in Task,
         t = k.TCBRunning, ~k.PendSV, p[Tmr].at = "off", p[Tmr].ret = "off", t # Idle,
         p[t].at \notin UnlockPlaces,
         NEW p2, Goes(p, p2, t), p2[t].at \notin UnlockPlaces \ {"unlock"},
         HeldBy(p2[t]) = HeldBy(p[t])
  PROVE  LocksRight(k, p2) /\ RunningRight(k, p2)
<1>1. p2[Tmr] = p[Tmr] /\ \A u \in Task \ {t} : p2[u] = p[u]
  BY TmrApart DEF Goes
<1>2. "release" \in UnlockPlaces /\ "off" \notin UnlockPlaces
  BY DEF UnlockPlaces
<1>3. k.OSSchedLock = HeldBy(p[t]) + HeldBy(p[Tmr])
  BY <1>2 DEF LocksRight
<1>4. LocksRight(k, p2)
  BY <1>1, <1>2, <1>3 DEF LocksRight
<1>5. k.state[t] = "RUNNING"
  BY DEF RunningRight, Opens
<1>6. RunningRight(k, p2)
  <2>1. p2[Idle] = p[Idle]
    BY <1>1, KernelAssumption DEF Idle, Task
  <2> QED  BY <1>1, <1>5, <2>1 DEF RunningRight
<1> QED  BY <1>4, <1>6

(* A locked section of the running task.                                   *)
Locks(k, k2, t) ==
  /\ k2 \in Kernel /\ k2.prio = k.prio
  /\ k2.TCBRunning = k.TCBRunning /\ k2.TCBNext = k.TCBNext
  /\ k2.OSSchedLock = k.OSSchedLock + 1 /\ k2.OSIntNesting = k.OSIntNesting
  /\ k2.PendSV = k.PendSV
  /\ k.TaskSchedReq => k2.TaskSchedReq
  /\ \A u \in Task :
       \/ k2.state[u] = k.state[u]
       \/ k.state[u] = "WAITING" /\ k2.state[u] = "READY"
       \/ k.state[u] = "WAITING" /\ k2.state[u] = "RUNNING" /\ u = k.TCBRunning
       \/ u = t /\ k2.state[u] = "WAITING" /\ k2.TaskSchedReq

LEMMA SwitchLocks ==
  ASSUME NEW k \in Kernel, NEW p, LocksRight(k, p), RunningRight(k, p), NEW t \in Task,
         t = k.TCBRunning, ~k.PendSV, p[Tmr].at = "off", p[Tmr].ret = "off", t # Idle,
         p[t].at \notin UnlockPlaces, NEW k2, Locks(k, k2, t),
         NEW p2, Goes(p, p2, t), p2[t].at \notin UnlockPlaces \ {"unlock"},
         HeldBy(p2[t]) = HeldBy(p[t]) + 1,
         k2.state[t] = "RUNNING" \/ (p2[t].at = "unlock" /\ HeldBy(p2[t]) = 1)
  PROVE  LocksRight(k2, p2) /\ RunningRight(k2, p2)
<1>1. p2[Tmr] = p[Tmr] /\ \A u \in Task \ {t} : p2[u] = p[u]
  BY TmrApart DEF Goes
<1>2. "release" \in UnlockPlaces /\ "off" \notin UnlockPlaces
  BY DEF UnlockPlaces
<1>3. k.OSSchedLock = HeldBy(p[t]) + HeldBy(p[Tmr])
  BY <1>2 DEF LocksRight
<1>4. LocksRight(k2, p2)
  <2>1. HeldBy(p[t]) \in Nat /\ HeldBy(p[Tmr]) \in Nat
    BY HeldNat
  <2>2. k2.OSSchedLock = HeldBy(p2[t]) + HeldBy(p2[Tmr])
    BY <1>1, <1>3, <2>1 DEF Locks
  <2> QED  BY <1>1, <1>2, <2>2 DEF LocksRight, Locks
<1>5. k.state[t] = "RUNNING"
  BY DEF RunningRight, Opens
<1>6. RunningRight(k2, p2)
  <2>1. p2[Idle] = p[Idle] /\ Idle \in Task
    BY <1>1, KernelAssumption DEF Idle, Task
  <2>2. \A u \in Task : k2.state[u] = "RUNNING" => u = k2.TCBNext
    BY DEF Locks, RunningRight
  <2>3. k2.state[Idle] \in {"READY", "RUNNING"}
    BY <2>1 DEF Locks, RunningRight
  <2>4. k2.state[t] # "RUNNING" => k2.TaskSchedReq /\ p2[t].at \in Opens /\ HeldBy(p2[t]) = 1
    <3>1. k2.state[t] # "RUNNING" => k2.TaskSchedReq
      BY <1>5 DEF Locks
    <3>2. "unlock" \in Opens
      BY DEF Opens, UnlockPlaces
    <3> QED  BY <3>1, <3>2
  <2> QED  BY <1>1, <2>1, <2>2, <2>3, <2>4 DEF RunningRight, Locks
<1> QED  BY <1>4, <1>6

-----------------------------------------------------------------------------
(* Steps of a task that leave it with nothing but its arguments.           *)
LEMMA LockIs ==
  ASSUME NEW r, NEW id, NEW X, Right(r, id, X), NEW r1, r1 = Lock(r), NEW t
  PROVE  /\ Right(r1, id, X) /\ Only(r, r1, {"k"})
         /\ Locks(r.k, r1.k, t) /\ r1.k.state = r.k.state
<1> DEFINE k2 == OsSchedLock(r.k)
<1>1. r.k \in Kernel  BY DEF Right, Shape
<1>2. /\ k2 \in Kernel /\ k2.OSSchedLock = r.k.OSSchedLock + 1
      /\ k2.state = r.k.state /\ k2.prio = r.k.prio /\ k2.TCBRdy = r.k.TCBRdy
      /\ k2.TCBRunning = r.k.TCBRunning /\ k2.TCBNext = r.k.TCBNext
      /\ k2.OSIntNesting = r.k.OSIntNesting /\ k2.PendSV = r.k.PendSV
  BY <1>1, LockFacts
<1>3. r.k.TaskSchedReq => k2.TaskSchedReq
  BY <1>1 DEF OsSchedLock, Kernel
<1>4. r1 = [r EXCEPT !.k = k2]
  BY DEF Lock
<1> HIDE DEF k2
<1>5. Right(r1, id, X) /\ Only(r, r1, {"k"}) /\ r1.k = k2
  BY <1>2, <1>4, KernelSame
<1> QED  BY <1>2, <1>3, <1>5 DEF Locks

LEMMA LocksServes ==
  ASSUME NEW k, NEW k1, NEW k2, NEW t, Locks(k, k1, t), k1.state = k.state,
         KernelServes(k1, k2),
         \A u \in Task :
            \/ k2.state[u] = k1.state[u]
            \/ k1.state[u] = "WAITING" /\ k2.state[u] = "READY"
            \/ k1.state[u] = "WAITING" /\ k2.state[u] = "RUNNING" /\ u = k1.TCBRunning
  PROVE  Locks(k, k2, t)
BY DEF Locks, KernelServes

LEMMA ApartFrom ==
  ASSUME NEW r, NEW r1, NEW r2, NEW A, Only(r, r1, {"k"}), Apart(r1, r2, A)
  PROVE  Apart(r, r2, A)
<1>1. /\ r1.app = r.app /\ r1.eventType = r.eventType
      /\ r1.initialEventCounter = r.initialEventCounter /\ r1.eventCounter = r.eventCounter
      /\ r1.holds = r.holds /\ r1.eventID = r.eventID /\ r1.pmail = r.pmail
      /\ r1.pnode = r.pnode /\ r1.delayTick = r.delayTick
  BY DEF Only, Fields
<1>2. CountersApart(r, r2, A)
  BY <1>1 DEF Apart, CountersApart
<1>3. TasksApart(r, r2, A)
  BY <1>1 DEF Apart, TasksApart
<1> QED  BY <1>1, <1>2, <1>3 DEF Apart

LEMMA LocksKeptFrom ==
  ASSUME NEW r, NEW r1, Only(r, r1, {"k"}), LocksKept(r)
  PROVE  LocksKept(r1)
<1>1. /\ r1.app = r.app /\ r1.eventType = r.eventType
      /\ r1.initialEventCounter = r.initialEventCounter
      /\ r1.holds = r.holds /\ r1.balance = r.balance
  BY DEF Only, Fields
<1> QED  BY <1>1, LocksKeptSame

LEMMA PlacesGo ==
  ASSUME NEW p, PlacesRight(p), NEW t \in Task, NEW p2, Goes(p, p2, t), PlaceRight(p2[t])
  PROVE  PlacesRight(p2)
<1>1. t # Tmr /\ Tmr \in Context
  BY TmrApart
<1> QED  BY <1>1 DEF PlacesRight, Goes

LEMMA IdsGo ==
  ASSUME NEW r, NEW p, NEW X, Right(r, Ids(p), X), NEW t \in Task, NEW p2, Goes(p, p2, t),
         p2[t].id = p[t].id \/ (r.eventID[t] = NoEvent /\ r.pmail[t] = NoMail)
  PROVE  Right(r, Ids(p2), X)
<1>1. \A u \in Task : Ids(p2)[u] = Ids(p)[u] \/ (r.eventID[u] = NoEvent /\ r.pmail[u] = NoMail)
  BY TmrApart DEF Ids, Goes
<1> QED  BY <1>1, RightIds

(* A step of task t alone: what is to be shown of it.                      *)
LEMMA TaskStep ==
  ASSUME NEW r, NEW p, SystemRight(r, p), NEW t \in Task, NEW r2, NEW p2, Goes(p, p2, t),
         PlaceRight(p2[t]), Right(r2, Ids(p2), {}), Apart(r, r2, {t}),
         LocksRight(r2.k, p2), RunningRight(r2.k, p2), CallRight(r2, p2[t], t),
         Disciplined => LocksKept(r2) /\ PermitCall(r2, p2[t], t)
  PROVE  SystemRight(r2, p2)
<1>1. PlacesRight(p2)
  BY PlacesGo DEF SystemRight
<1>2. \A u \in Task \ {t} : SameCall(p[u], p2[u])
  BY TmrApart DEF SameCall, Goes
<1> QED  BY <1>1, <1>2, StepRight

EasyPlace(x) ==
  Carries(x) \in EasyPlaces \/ (Carries(x) \in TimerPlaces /\ x.id \in Timer)

LEMMA EasyQuiet ==
  ASSUME NEW r, NEW p, SystemRight(r, p), NEW t \in Task, t # Idle,
         NEW at, RunsIn(r, p, t, at), at \notin UnlockPlaces, Free(r, t),
         NEW r2, Right(r2, Ids(p), {}), Serves(r, r2, {}), r2.k = r.k,
         NEW p2, Goes(p, p2, t), PlaceRight(p2[t]), p2[t].at \notin UnlockPlaces \ {"unlock"},
         HeldBy(p2[t]) = HeldBy(p[t]), EasyPlace(p2[t])
  PROVE  SystemRight(r2, p2)
<1>1. Apart(r, r2, {t}) /\ Apart(r, r2, {})
  BY ServesAreApart DEF ServesApart
<1>2. Free(r2, t)
  BY <1>1, FreeKept DEF Apart
<1>3. CallRight(r2, p2[t], t) /\ PermitCall(r2, p2[t], t)
  BY <1>2, CallEasy DEF EasyPlace
<1>4. Right(r2, Ids(p2), {})
  BY <1>2, IdsGo DEF Free
<1>5. LocksRight(r2.k, p2) /\ RunningRight(r2.k, p2)
  <2>1. /\ r.k \in Kernel /\ LocksRight(r.k, p) /\ RunningRight(r.k, p) /\ p[Tmr].ret = "off"
        /\ p[t].at \notin UnlockPlaces
    BY DEF SystemRight, Right, Shape, PlacesRight, RunsIn
  <2> QED  BY <2>1, SwitchQuiet DEF RunsIn
<1>6. Disciplined => LocksKept(r2)
  <2>1. r.app \in App /\ (Disciplined => LocksKept(r))
    BY DEF SystemRight, Right, Shape
  <2> QED  BY <2>1, LocksKeptServed
<1> QED  BY <1>1, <1>3, <1>4, <1>5, <1>6, TaskStep

LEMMA EasyLocked ==
  ASSUME NEW r, NEW p, SystemRight(r, p), NEW t \in Task, t # Idle,
         NEW at, RunsIn(r, p, t, at), at \notin UnlockPlaces \cup {"renew", "renewed"}, Free(r, t),
         NEW r1, r1 = Lock(r), NEW E, E \cap Event = {},
         NEW r2, Right(r2, Ids(p), {}), Serves(r1, r2, E),
         NEW p2, Goes(p, p2, t), PlaceRight(p2[t]), p2[t].at = "unlock",
         Carries(p2[t]) # "renewed", EasyPlace(p2[t])
  PROVE  SystemRight(r2, p2)
<1>1. Right(r, Ids(p), {}) /\ r.k \in Kernel
  BY DEF SystemRight, Right, Shape
<1>2. Right(r1, Ids(p), {}) /\ Only(r, r1, {"k"}) /\ Locks(r.k, r1.k, t) /\ r1.k.state = r.k.state
  BY <1>1, LockIs
<1>3. Apart(r1, r2, {t}) /\ Apart(r1, r2, {})
  BY ServesAreApart DEF ServesApart
<1>4. Apart(r, r2, {t}) /\ Apart(r, r2, {})
  BY <1>2, <1>3, ApartFrom
<1>5. Free(r2, t)
  BY <1>4, FreeKept DEF Apart
<1>6. CallRight(r2, p2[t], t) /\ PermitCall(r2, p2[t], t)
  BY <1>5, CallEasy DEF EasyPlace
<1>7. Right(r2, Ids(p2), {})
  BY <1>5, IdsGo DEF Free
<1>8. Locks(r.k, r2.k, t)
  BY <1>2, LocksServes DEF Serves
<1>9. r2.k.state[t] = "RUNNING"
  <2>1. at \notin Opens
    BY DEF Opens
  <2>2. r.k.state[t] = "RUNNING"
    BY <2>1, Runner
  <2> QED  BY <2>2, <1>2 DEF Serves
<1>10. HeldBy(p2[t]) = HeldBy(p[t]) + 1
  <2>1. HeldBy(p[t]) = 0
    BY DEF HeldBy, Carries, RunsIn, Opens
  <2>2. "unlock" \in Opens /\ Carries(p2[t]) \notin {"renew", "renewed"}
    BY DEF Opens, UnlockPlaces, EasyPlace, EasyPlaces, TimerPlaces
  <2> QED  BY <2>1, <2>2 DEF HeldBy
<1>11. LocksRight(r2.k, p2) /\ RunningRight(r2.k, p2)
  <2>1. /\ LocksRight(r.k, p) /\ RunningRight(r.k, p) /\ p[Tmr].ret = "off"
        /\ p[t].at \notin UnlockPlaces
    BY DEF SystemRight, PlacesRight, RunsIn
  <2> QED  BY <2>1, <1>1, <1>8, <1>9, <1>10, SwitchLocks DEF RunsIn
<1>12. Disciplined => LocksKept(r2)
  <2>1. r1.app \in App /\ (Disciplined => LocksKept(r1))
    BY <1>2, LocksKeptFrom DEF SystemRight, Right, Shape
  <2> QED  BY <2>1, LocksKeptServed
<1> QED  BY <1>4, <1>6, <1>7, <1>11, <1>12, TaskStep

-----------------------------------------------------------------------------
(* The calls that are made.                                                *)
LEMMA CallersAct ==
  ASSUME NEW a \in App, NEW op \in Services, op # "isr", NEW d \in Calls[a][op]
  PROVE  d[1] \in Caller
<1>1. Calls[a][op] \subseteq ArgumentTypes[op]
  BY ThreadAssumption
<1>2. d \in ArgumentTypes[op]
  BY <1>1
<1>3. op \in { "delay", "renew", "pendSem", "postSem", "acceptSem", "pendMail", "postMail",
               "acceptMail", "create", "delete", "waitFlags", "acceptFlags", "setFlag",
               "clearFlag", "createFlag", "delFlag", "createTmr", "startTmr", "stopTmr",
               "setTmr", "delTmr" }
  BY DEF Services, ArgumentTypes
<1> QED  BY <1>2, <1>3 DEF ArgumentTypes

LEMMA AtUser ==
  ASSUME SystemInv, NEW t \in Task, Runs(t, "user")
  PROVE  /\ RunsIn(s, pc, t, "user") /\ Free(s, t) /\ s.app \in App /\ s.k.state[t] = "RUNNING"
         /\ s.delayTick[t] = NoDelay
<1>1. SystemRight(s, pc) /\ RunsIn(s, pc, t, "user")
  BY RunsHere DEF SystemInv
<1>2. s.k.state[t] = "RUNNING" /\ s.delayTick[t] = NoDelay
  BY <1>1, Runner DEF Opens, UnlockPlaces
<1>3. Carries(pc[t]) = "user"
  BY <1>1 DEF RunsIn, Carries, UnlockPlaces
<1>4. Free(s, t)
  BY <1>1, <1>3, FreeIs DEF SystemRight, WaitPlaces, NodePlaces
<1> QED  BY <1>1, <1>2, <1>4 DEF SystemRight, Right, Shape

LEMMA AtPlace ==
  ASSUME SystemInv, NEW t \in Task, NEW at, Runs(t, at), at \notin {"user"} \cup UnlockPlaces
  PROVE  /\ RunsIn(s, pc, t, at) /\ t # Idle /\ s.app \in App /\ s.k.state[t] = "RUNNING"
         /\ s.eventID[t] = NoEvent /\ s.delayTick[t] = NoDelay /\ s.pnode[t] # "node"
         /\ Carries(pc[t]) = at /\ CallRight(s, pc[t], t)
         /\ Disciplined => PermitCall(s, pc[t], t)
         /\ at \notin WaitPlaces \cup NodePlaces => Free(s, t)
<1>1. SystemRight(s, pc) /\ RunsIn(s, pc, t, at)
  BY RunsHere DEF SystemInv
<1>2. /\ s.k.state[t] = "RUNNING" /\ t # Idle
      /\ s.eventID[t] = NoEvent /\ s.delayTick[t] = NoDelay /\ s.pnode[t] # "node"
  BY <1>1, Runner DEF Opens
<1>3. Carries(pc[t]) = at
  BY <1>1 DEF RunsIn, Carries
<1>4. CallRight(s, pc[t], t) /\ (Disciplined => PermitCall(s, pc[t], t))
  BY <1>1 DEF SystemRight
<1>5. at \notin WaitPlaces \cup NodePlaces => Free(s, t)
  BY <1>3, <1>4, FreeIs
<1> QED  BY <1>1, <1>2, <1>3, <1>4, <1>5 DEF SystemRight, Right, Shape

(* The places that the calls go to.                                        *)
LEMMA Strings ==
  /\ {"user", "off"} \cup UnlockPlaces \cup DelayPlaces \cup EventPlaces \cup FlagPlaces
       \cup TimerPlaces \subseteq At
  /\ {"user", "off"} \cap UnlockPlaces = {} /\ DelayPlaces \cap UnlockPlaces = {}
  /\ EventPlaces \cap UnlockPlaces = {} /\ FlagPlaces \cap UnlockPlaces = {}
  /\ TimerPlaces \cap UnlockPlaces = {}
  /\ "unlock" \in Opens /\ "unlock" \in UnlockPlaces /\ Opens \subseteq UnlockPlaces
BY DEF At, UnlockPlaces, DelayPlaces, EventPlaces, FlagPlaces, TimerPlaces, Opens

LEMMA NewPlace ==
  ASSUME PlacesRight(pc), NEW t \in Task, NEW y, PlaceRight(y), pc' = [pc EXCEPT ![t] = y]
  PROVE  Goes(pc, pc', t) /\ pc'[t] = y
<1>1. t \in Context
  BY TmrApart
<1> QED  BY <1>1 DEF PlacesRight, Goes

LEMMA UnlocksGo ==
  ASSUME PlacesRight(pc), NEW t \in Task, NEW ret \in At, ret # "remove", Unlocks(t, ret)
  PROVE  /\ Goes(pc, pc', t) /\ PlaceRight(pc'[t])
         /\ pc'[t].at = "unlock" /\ pc'[t].ret = ret /\ Carries(pc'[t]) = ret
         /\ pc'[t].id = pc[t].id /\ pc'[t].ticks = pc[t].ticks /\ pc'[t].val = pc[t].val
<1> DEFINE x == pc[t]
           y == [x EXCEPT !.at = "unlock", !.ret = ret]
<1>1. PlaceRight(x) /\ t \in Context /\ DOMAIN pc = Context
  BY TmrApart DEF PlacesRight
<1>2. pc' = [pc EXCEPT ![t] = y]
  BY <1>1 DEF Unlocks
<1>3. /\ PlaceRight(y) /\ y.at = "unlock" /\ y.ret = ret
      /\ y.id = x.id /\ y.ticks = x.ticks /\ y.val = x.val
  BY <1>1, Strings DEF PlaceRight
<1> HIDE DEF y
<1>4. Goes(pc, pc', t) /\ pc'[t] = y
  BY <1>2, <1>3, NewPlace
<1>5. Carries(y) = ret
  BY <1>3, Strings DEF Carries
<1> QED  BY <1>3, <1>4, <1>5

LEMMA GotoGo ==
  ASSUME PlacesRight(pc), NEW t \in Task, NEW at \in At, at # "remove", Goto(t, at)
  PROVE  /\ Goes(pc, pc', t) /\ PlaceRight(pc'[t])
         /\ pc'[t].at = at /\ pc'[t].ret = pc[t].ret
         /\ pc'[t].id = pc[t].id /\ pc'[t].ticks = pc[t].ticks /\ pc'[t].val = pc[t].val
<1> DEFINE x == pc[t]
           y == [x EXCEPT !.at = at]
<1>1. PlaceRight(x) /\ t \in Context /\ DOMAIN pc = Context
  BY TmrApart DEF PlacesRight
<1>2. pc' = [pc EXCEPT ![t] = y]
  BY <1>1 DEF Goto
<1>3. /\ PlaceRight(y) /\ y.at = at /\ y.ret = x.ret
      /\ y.id = x.id /\ y.ticks = x.ticks /\ y.val = x.val
  BY <1>1 DEF PlaceRight
<1> HIDE DEF y
<1>4. Goes(pc, pc', t) /\ pc'[t] = y
  BY <1>2, <1>3, NewPlace
<1> QED  BY <1>3, <1>4

LEMMA ReturnGo ==
  ASSUME PlacesRight(pc), NEW t \in Task, Return(t)
  PROVE  /\ Goes(pc, pc', t) /\ PlaceRight(pc'[t]) /\ pc'[t].at = "user"
         /\ Carries(pc'[t]) = "user"
<1> DEFINE y == Rest("user")
<1>1. pc' = [pc EXCEPT ![t] = y]
  BY DEF Return
<1>2. PlaceRight(y) /\ y.at = "user" /\ Carries(y) = "user"
  BY Strings DEF Rest, PlaceRight, Carries
<1> HIDE DEF y
<1>3. Goes(pc, pc', t) /\ pc'[t] = y
  BY <1>1, <1>2, NewPlace
<1> QED  BY <1>2, <1>3

LEMMA WithTimerGo ==
  ASSUME PlacesRight(pc), NEW t \in Task, NEW i \in Timer, NEW at \in TimerPlaces \cup {"unlock"},
         NEW ret \in {"user", "stopped", "insert", "gone", "fill"},
         at = "remove" => ret \notin {"user", "fill"},
         WithTimer(t, i, at, ret)
  PROVE  /\ Goes(pc, pc', t) /\ PlaceRight(pc'[t]) /\ pc'[t].at = at /\ pc'[t].ret = ret
         /\ pc'[t].id = i
<1> DEFINE y == [Rest("user") EXCEPT !.at = at, !.ret = ret, !.id = i]
<1>1. pc' = [pc EXCEPT ![t] = y]
  BY DEF WithTimer
<1>2. PlaceRight(y) /\ y.at = at /\ y.ret = ret /\ y.id = i
  <2>1. at \in At /\ ret \in At /\ i \in Nat
    BY EventAssumption DEF At, TimerPlaces, UnlockPlaces, Timer
  <2>2. /\ DOMAIN y = {"at", "ret", "id", "ticks", "val", "flags", "ids"}
        /\ y.at = at /\ y.ret = ret /\ y.id = i /\ y.ticks = 0 /\ y.val = 0
    BY DEF Rest
  <2> HIDE DEF y
  <2> QED  BY <2>1, <2>2 DEF PlaceRight
<1> HIDE DEF y
<1>3. Goes(pc, pc', t) /\ pc'[t] = y
  BY <1>1, <1>2, NewPlace
<1> QED  BY <1>2, <1>3

-----------------------------------------------------------------------------
(* Calls and places with what is known there.                              *)
LEMMA Made ==
  ASSUME SystemInv, NEW t \in Task, NEW op \in Services, op # "isr", NEW c, c[1] = t,
         Makes(op, c)
  PROVE  /\ RunsIn(s, pc, t, "user") /\ Free(s, t) /\ s.app \in App /\ s.k.state[t] = "RUNNING"
         /\ s.delayTick[t] = NoDelay /\ t # Idle /\ c \in Calls[s.app][op]
         /\ PlacesRight(pc)
<1>1. Runs(t, "user") /\ c \in Calls[s.app][op]
  BY DEF Makes
<1>2. /\ RunsIn(s, pc, t, "user") /\ Free(s, t) /\ s.app \in App /\ s.k.state[t] = "RUNNING"
      /\ s.delayTick[t] = NoDelay
  BY <1>1, AtUser
<1>3. c[1] \in Caller
  BY <1>1, <1>2, CallersAct
<1> QED  BY <1>1, <1>2, <1>3 DEF Caller, SystemInv, SystemRight

EasyAt(x) ==
  x.at \in EasyPlaces \ {"renewed"} \/ (x.at \in TimerPlaces /\ x.id \in Timer)

LEMMA QuietStep ==
  ASSUME SystemInv, NEW t \in Task, t # Idle,
         NEW at, RunsIn(s, pc, t, at), at \notin UnlockPlaces \cup {"renew", "renewed"}, Free(s, t),
         Right(s', Ids(pc), {}), Serves(s, s', {}), s'.k = s.k,
         Goes(pc, pc', t), PlaceRight(pc'[t]), EasyAt(pc'[t])
  PROVE  SystemRight(s', pc')
<1>1. pc'[t].at \notin UnlockPlaces \cup {"renew", "renewed"}
  BY DEF EasyAt, EasyPlaces, TimerPlaces, UnlockPlaces
<1>2. Carries(pc'[t]) = pc'[t].at /\ Carries(pc[t]) = at /\ pc[t].at = at
  BY <1>1 DEF Carries, RunsIn
<1>3. HeldBy(pc'[t]) = HeldBy(pc[t])
  BY <1>1, <1>2 DEF HeldBy, Opens
<1>4. EasyPlace(pc'[t])
  BY <1>2 DEF EasyPlace, EasyAt
<1>5. SystemRight(s, pc)
  BY DEF SystemInv
<1> QED  BY <1>1, <1>3, <1>4, <1>5, EasyQuiet

Quiet == Right(s', Ids(pc), {}) /\ Serves(s, s', {}) /\ s'.k = s.k

LEMMA QuietSame ==
  ASSUME SystemInv, s' = s
  PROVE  Quiet
<1>1. Right(s, Ids(pc), {}) /\ s.k \in Kernel
  BY DEF SystemInv, SystemRight, Right, Shape
<1>2. Serves(s, s, {})
  BY <1>1, ServesNone
<1> QED  BY <1>1, <1>2 DEF Quiet

LEMMA QuietAside ==
  ASSUME SystemInv, Only(s, s', Aside)
  PROVE  Quiet
<1>1. Right(s, Ids(pc), {})
  BY DEF SystemInv, SystemRight
<1>2. Right(s', Ids(pc), {}) /\ Serves(s, s', {})
  BY <1>1, AsideChange
<1>3. s'.k = s.k
  BY DEF Only, Fields, Aside
<1> QED  BY <1>2, <1>3 DEF Quiet

LEMMA QuietTimers ==
  ASSUME SystemInv, TimersMoved(s, s')
  PROVE  Quiet
<1>1. Right(s, Ids(pc), {})
  BY DEF SystemInv, SystemRight
<1>2. Right(s', Ids(pc), {}) /\ Serves(s, s', {})
  BY <1>1, TimersMovedRight
<1>3. s'.k = s.k
  BY DEF TimersMoved, Only, Fields
<1> QED  BY <1>2, <1>3 DEF Quiet

LEMMA QuietGoes ==
  ASSUME SystemInv, NEW t \in Task, NEW at, Runs(t, at),
         at \notin {"user", "renew", "renewed"} \cup UnlockPlaces, Free(s, t), Quiet,
         Goes(pc, pc', t), PlaceRight(pc'[t]), EasyAt(pc'[t])
  PROVE  SystemRight(s', pc')
<1>1. RunsIn(s, pc, t, at) /\ t # Idle
  BY AtPlace
<1> QED  BY <1>1, QuietStep DEF Quiet

LEMMA QuietCall ==
  ASSUME SystemInv, NEW t \in Task, NEW op \in Services, op # "isr", NEW c, c[1] = t,
         Makes(op, c), Quiet, Goes(pc, pc', t), PlaceRight(pc'[t]), EasyAt(pc'[t])
  PROVE  SystemRight(s', pc')
<1>1. RunsIn(s, pc, t, "user") /\ t # Idle /\ Free(s, t)
  BY Made
<1>2. "user" \notin UnlockPlaces \cup {"renew", "renewed"}
  BY DEF UnlockPlaces
<1> QED  BY <1>1, <1>2, QuietStep DEF Quiet

LEMMA NewCall ==
  ASSUME PlacesRight(pc), NEW t \in Task, NEW y, pc' = [pc EXCEPT ![t] = y],
         DOMAIN y = {"at", "ret", "id", "ticks", "val", "flags", "ids"},
         y.at \in At, y.ret \in At, y.id \in Nat, y.ticks \in Nat, y.val \in Nat,
         y.at # "remove" /\ y.ret # "remove"
  PROVE  Goes(pc, pc', t) /\ pc'[t] = y /\ PlaceRight(pc'[t])
<1>1. PlaceRight(y)
  BY DEF PlaceRight
<1> QED  BY <1>1, NewPlace

-----------------------------------------------------------------------------
(* The calls that go on without a lock.                                    *)
LEMMA SetFlagKeeps ==
  ASSUME SystemInv, NEW t \in Task, NEW f, CoSetFlag(t, f)
  PROVE  SystemRight(s', pc')
<1> DEFINE c == <<t, f>>
           y == [Rest("user") EXCEPT !.at = "set", !.id = f]
<1>1. Makes("setFlag", c) /\ c[1] = t /\ "setFlag" \in Services
  BY DEF CoSetFlag, Services, ArgumentTypes
<1>2. PlacesRight(pc) /\ s.app \in App /\ c \in Calls[s.app].setFlag
  BY <1>1, Made
<1>3. f \in Nat
  <2>1. c \in Caller \X Flag
    BY <1>2, CallTypes
  <2> QED  BY <2>1, EventAssumption DEF Flag
<1>4. pc' = [pc EXCEPT ![t] = y] /\ s' = s
  BY DEF CoSetFlag
<1>5. /\ DOMAIN y = {"at", "ret", "id", "ticks", "val", "flags", "ids"}
      /\ y.at = "set" /\ y.ret = "user" /\ y.id = f /\ y.ticks = 0 /\ y.val = 0
  BY DEF Rest
<1>6. "set" \in At /\ "user" \in At /\ "set" \in EasyPlaces \ {"renewed"}
  BY DEF At, FlagPlaces, EasyPlaces
<1> HIDE DEF y, c
<1> y.at \in At /\ y.ret \in At /\ y.id \in Nat /\ y.ticks \in Nat /\ y.val \in Nat
      /\ y.at # "remove" /\ y.ret # "remove"
  BY <1>3, <1>5, <1>6
<1>7. Goes(pc, pc', t) /\ pc'[t] = y /\ PlaceRight(pc'[t])
  BY <1>2, <1>4, <1>5, NewCall
<1>8. EasyAt(pc'[t])
  BY <1>5, <1>6, <1>7 DEF EasyAt
<1>9. Quiet
  BY <1>4, QuietSame
<1> QED  BY <1>1, <1>7, <1>8, <1>9, QuietCall

LEMMA ClearFlagKeeps ==
  ASSUME SystemInv, NEW t \in Task, NEW f, CoClearFlag(t, f)
  PROVE  SystemRight(s', pc')
<1> DEFINE c == <<t, f>>
           y == [Rest("user") EXCEPT !.at = "clearf", !.id = f, !.flags = s.flagRdy]
<1>1. Makes("clearFlag", c) /\ c[1] = t /\ "clearFlag" \in Services
  BY DEF CoClearFlag, Services, ArgumentTypes
<1>2. PlacesRight(pc) /\ s.app \in App /\ c \in Calls[s.app].clearFlag
  BY <1>1, Made
<1>3. f \in Nat
  <2>1. c \in Caller \X Flag
    BY <1>2, CallTypes
  <2> QED  BY <2>1, EventAssumption DEF Flag
<1>4. pc' = [pc EXCEPT ![t] = y] /\ s' = s
  BY DEF CoClearFlag
<1>5. /\ DOMAIN y = {"at", "ret", "id", "ticks", "val", "flags", "ids"}
      /\ y.at = "clearf" /\ y.ret = "user" /\ y.id = f /\ y.ticks = 0 /\ y.val = 0
  BY DEF Rest
<1>6. "clearf" \in At /\ "user" \in At /\ "clearf" \in EasyPlaces \ {"renewed"}
  BY DEF At, FlagPlaces, EasyPlaces
<1> HIDE DEF y, c
<1> y.at \in At /\ y.ret \in At /\ y.id \in Nat /\ y.ticks \in Nat /\ y.val \in Nat
      /\ y.at # "remove" /\ y.ret # "remove"
  BY <1>3, <1>5, <1>6
<1>7. Goes(pc, pc', t) /\ pc'[t] = y /\ PlaceRight(pc'[t])
  BY <1>2, <1>4, <1>5, NewCall
<1>8. EasyAt(pc'[t])
  BY <1>5, <1>6, <1>7 DEF EasyAt
<1>9. Quiet
  BY <1>4, QuietSame
<1> QED  BY <1>1, <1>7, <1>8, <1>9, QuietCall

LEMMA AcceptFlagsKeeps ==
  ASSUME SystemInv, NEW t \in Task, NEW flags, NEW type, CoAcceptFlags(t, flags, type)
  PROVE  SystemRight(s', pc')
<1> DEFINE c == <<t, flags, type>>
           spring == IF Met(type, flags, s.flagRdy) THEN flags \cap s.flagRdy ELSE {}
           y == [Rest("user") EXCEPT !.at = "take", !.flags = spring]
<1>1. Makes("acceptFlags", c) /\ c[1] = t /\ "acceptFlags" \in Services
  BY DEF CoAcceptFlags, Services, ArgumentTypes
<1>2. PlacesRight(pc)
  BY <1>1, Made
<1>4. pc' = [pc EXCEPT ![t] = y] /\ s' = s
  BY DEF CoAcceptFlags
<1>5. /\ DOMAIN y = {"at", "ret", "id", "ticks", "val", "flags", "ids"}
      /\ y.at = "take" /\ y.ret = "user" /\ y.id = 0 /\ y.ticks = 0 /\ y.val = 0
  BY DEF Rest
<1>6. "take" \in At /\ "user" \in At /\ "take" \in EasyPlaces \ {"renewed"}
  BY DEF At, FlagPlaces, EasyPlaces
<1> HIDE DEF y, c
<1> y.at \in At /\ y.ret \in At /\ y.id \in Nat /\ y.ticks \in Nat /\ y.val \in Nat
      /\ y.at # "remove" /\ y.ret # "remove"
  BY <1>5, <1>6
<1>7. Goes(pc, pc', t) /\ pc'[t] = y /\ PlaceRight(pc'[t])
  BY <1>2, <1>4, <1>5, NewCall
<1>8. EasyAt(pc'[t])
  BY <1>5, <1>6, <1>7 DEF EasyAt
<1>9. Quiet
  BY <1>4, QuietSame
<1> QED  BY <1>1, <1>7, <1>8, <1>9, QuietCall

LEMMA SetLoadsKeeps ==
  ASSUME SystemInv, NEW t \in Task, SetLoads(t)
  PROVE  SystemRight(s', pc')
<1> DEFINE x == pc[t]
           y == [x EXCEPT !.at = "setf", !.flags = s.flagRdy]
<1>1. Runs(t, "set") /\ s' = s /\ "set" \notin {"user", "renew", "renewed"} \cup UnlockPlaces
  BY DEF SetLoads, UnlockPlaces
<1>2. Free(s, t) /\ PlacesRight(pc)
  BY <1>1, AtPlace DEF SystemInv, SystemRight, WaitPlaces, NodePlaces
<1>3. PlaceRight(x) /\ t \in Context /\ DOMAIN pc = Context
  BY <1>2, TmrApart DEF PlacesRight
<1>4. pc' = [pc EXCEPT ![t] = y]
  BY <1>3 DEF SetLoads
<1>5. "setf" \in At /\ "setf" \in EasyPlaces \ {"renewed"} /\ "setf" # "remove"
  BY DEF At, FlagPlaces, EasyPlaces
<1>6. PlaceRight(y) /\ y.at = "setf"
  BY <1>3, <1>5 DEF PlaceRight
<1> HIDE DEF y
<1>7. Goes(pc, pc', t) /\ pc'[t] = y
  BY <1>2, <1>4, <1>6, NewPlace
<1>8. EasyAt(pc'[t])
  BY <1>5, <1>6, <1>7 DEF EasyAt
<1>9. Quiet
  BY <1>1, QuietSame
<1> QED  BY <1>1, <1>2, <1>6, <1>7, <1>8, <1>9, QuietGoes

LEMMA SetStoresKeeps ==
  ASSUME SystemInv, NEW t \in Task, SetStores(t)
  PROVE  SystemRight(s', pc')
<1>1. Runs(t, "setf") /\ "setf" \notin {"user", "renew", "renewed"} \cup UnlockPlaces
  BY DEF SetStores, UnlockPlaces
<1>2. Free(s, t) /\ PlacesRight(pc) /\ DOMAIN s = Fields
  BY <1>1, AtPlace DEF SystemInv, SystemRight, WaitPlaces, NodePlaces, Right, Shape
<1>3. "walk" \in At /\ "walk" \in EasyPlaces \ {"renewed"} /\ "walk" # "remove"
  BY DEF At, FlagPlaces, EasyPlaces
<1>4. Goes(pc, pc', t) /\ PlaceRight(pc'[t]) /\ pc'[t].at = "walk"
  BY <1>2, <1>3, GotoGo DEF SetStores
<1>5. EasyAt(pc'[t])
  BY <1>3, <1>4 DEF EasyAt
<1>6. Only(s, s', Aside)
  BY <1>2 DEF SetStores, Only, Fields, Aside
<1>7. Quiet
  BY <1>6, QuietAside
<1> QED  BY <1>1, <1>2, <1>4, <1>5, <1>7, QuietGoes

LEMMA ClearStoresKeeps ==
  ASSUME SystemInv, NEW t \in Task, ClearStores(t)
  PROVE  SystemRight(s', pc')
<1>1. Runs(t, "clearf") /\ "clearf" \notin {"user", "renew", "renewed"} \cup UnlockPlaces
  BY DEF ClearStores, UnlockPlaces
<1>2. Free(s, t) /\ PlacesRight(pc) /\ DOMAIN s = Fields
  BY <1>1, AtPlace DEF SystemInv, SystemRight, WaitPlaces, NodePlaces, Right, Shape
<1>4. Goes(pc, pc', t) /\ PlaceRight(pc'[t]) /\ pc'[t].at = "user"
  BY <1>2, ReturnGo DEF ClearStores
<1>5. EasyAt(pc'[t])
  BY <1>4 DEF EasyAt, EasyPlaces
<1>6. Only(s, s', Aside)
  BY <1>2 DEF ClearStores, Only, Fields, Aside
<1>7. Quiet
  BY <1>6, QuietAside
<1> QED  BY <1>1, <1>2, <1>4, <1>5, <1>7, QuietGoes

LEMMA FlagTimesOutKeeps ==
  ASSUME SystemInv, NEW t \in Task, FlagTimesOut(t)
  PROVE  SystemRight(s', pc')
<1>1. /\ Runs(t, "flagtimed") /\ "flagtimed" \notin {"user", "renew", "renewed"} \cup UnlockPlaces
      /\ s.pnode[t] = "null"
  BY DEF FlagTimesOut, UnlockPlaces
<1>2. PlacesRight(pc) /\ DOMAIN s = Fields /\ s.pnode \in [Task -> {"null", "node", "set"}]
  BY DEF SystemInv, SystemRight, Right, Shape
<1>3. Free(s, t)
  <2>1. CallRight(s, pc[t], t) /\ Carries(pc[t]) = "flagtimed"
    BY <1>1, AtPlace
  <2> QED  BY <1>1, <2>1 DEF CallRight, Free, WaitPlaces
<1>4. Goes(pc, pc', t) /\ PlaceRight(pc'[t]) /\ pc'[t].at = "user"
  BY <1>2, ReturnGo DEF FlagTimesOut
<1>5. EasyAt(pc'[t])
  BY <1>4 DEF EasyAt, EasyPlaces
<1>6. Only(s, s', Aside)
  <2>1. s' = NodeGone(s, t)
    BY DEF FlagTimesOut
  <2>2. [s.pnode EXCEPT ![t] = "null"] = s.pnode
    BY <1>1, <1>2
  <2> QED  BY <1>2, <2>1, <2>2 DEF NodeGone, Only, Fields, Aside
<1>7. Quiet
  BY <1>6, QuietAside
<1> QED  BY <1>1, <1>3, <1>4, <1>5, <1>7, QuietGoes

-----------------------------------------------------------------------------
(* Timers, without a lock.                                                 *)
LEMMA StartTmrKeeps ==
  ASSUME SystemInv, NEW t \in Task, NEW i, CoStartTmr(t, i)
  PROVE  SystemRight(s', pc')
<1> DEFINE c == <<t, i>>
           d == [s.TmrTbl[i] EXCEPT !.tmrState = "running"]
<1>1. Makes("startTmr", c) /\ c[1] = t /\ "startTmr" \in Services
  BY DEF CoStartTmr, Services, ArgumentTypes
<1>2. PlacesRight(pc) /\ s.app \in App /\ c \in Calls[s.app].startTmr
  BY <1>1, Made
<1>3. i \in Timer
  <2>1. c \in Caller \X Timer
    BY <1>2, CallTypes
  <2> QED  BY <2>1
<1>4. Timed(s)
  BY RightTimed DEF SystemInv, SystemRight
<1>5. s' = [s EXCEPT !.TmrTbl = [s.TmrTbl EXCEPT ![i] = d]]
  BY <1>3, <1>4 DEF CoStartTmr, Timed
<1>6. d \in TmrCtrl /\ d.tmrCallBack = s.TmrTbl[i].tmrCallBack
  BY <1>3, <1>4 DEF Timed, TmrCtrl
<1> HIDE DEF d, c
<1>7. TimersMoved(s, s')
  BY <1>3, <1>4, <1>5, <1>6, TimerSet
<1>8. Quiet
  BY <1>7, QuietTimers
<1>9. /\ Goes(pc, pc', t) /\ PlaceRight(pc'[t]) /\ pc'[t].at = "insert" /\ pc'[t].id = i
  BY <1>2, <1>3, WithTimerGo DEF CoStartTmr, TimerPlaces
<1>10. EasyAt(pc'[t])
  BY <1>3, <1>9 DEF EasyAt, TimerPlaces
<1> QED  BY <1>1, <1>8, <1>9, <1>10, QuietCall

LEMMA StopTmrKeeps ==
  ASSUME SystemInv, NEW t \in Task, NEW i, CoStopTmr(t, i)
  PROVE  SystemRight(s', pc')
<1> DEFINE c == <<t, i>>
<1>1. Makes("stopTmr", c) /\ c[1] = t /\ "stopTmr" \in Services
  BY DEF CoStopTmr, Services, ArgumentTypes
<1>2. PlacesRight(pc) /\ s.app \in App /\ c \in Calls[s.app].stopTmr
  BY <1>1, Made
<1>3. i \in Timer
  <2>1. c \in Caller \X Timer
    BY <1>2, CallTypes
  <2> QED  BY <2>1
<1> HIDE DEF c
<1>8. Quiet
  BY QuietSame DEF CoStopTmr
<1>9. /\ Goes(pc, pc', t) /\ PlaceRight(pc'[t]) /\ pc'[t].at = "remove" /\ pc'[t].id = i
  BY <1>2, <1>3, WithTimerGo DEF CoStopTmr, TimerPlaces
<1>10. EasyAt(pc'[t])
  BY <1>3, <1>9 DEF EasyAt, TimerPlaces
<1> QED  BY <1>1, <1>8, <1>9, <1>10, QuietCall

LEMMA DelTmrKeeps ==
  ASSUME SystemInv, NEW t \in Task, NEW i, CoDelTmr(t, i)
  PROVE  SystemRight(s', pc')
<1> DEFINE c == <<t, i>>
           at == IF s.TmrTbl[i].tmrState = "running" THEN "remove" ELSE "gone"
<1>1. Makes("delTmr", c) /\ c[1] = t /\ "delTmr" \in Services
  BY DEF CoDelTmr, Services, ArgumentTypes
<1>2. PlacesRight(pc) /\ s.app \in App /\ c \in Calls[s.app].delTmr
  BY <1>1, Made
<1>3. i \in Timer
  <2>1. c \in Caller \X Timer
    BY <1>2, CallTypes
  <2> QED  BY <2>1
<1>4. WithTimer(t, i, at, "gone")
  BY DEF CoDelTmr
<1>5. at \in TimerPlaces
  BY DEF TimerPlaces
<1> HIDE DEF c, at
<1>8. Quiet
  BY QuietSame DEF CoDelTmr
<1>9. /\ Goes(pc, pc', t) /\ PlaceRight(pc'[t]) /\ pc'[t].at = at /\ pc'[t].id = i
  BY <1>2, <1>3, <1>4, <1>5, WithTimerGo
<1>10. EasyAt(pc'[t])
  BY <1>3, <1>5, <1>9 DEF EasyAt
<1> QED  BY <1>1, <1>8, <1>9, <1>10, QuietCall

LEMMA SetTmrCntKeeps ==
  ASSUME SystemInv, NEW t \in Task, NEW i, NEW cnt, NEW reload, CoSetTmrCnt(t, i, cnt, reload)
  PROVE  SystemRight(s', pc')
<1> DEFINE c == <<t, i, cnt, reload>>
           d == [s.TmrTbl[i] EXCEPT !.tmrCnt = cnt, !.tmrReload = reload]
<1>1. Makes("setTmr", c) /\ c[1] = t /\ "setTmr" \in Services
  BY DEF CoSetTmrCnt, Services, ArgumentTypes
<1>2. PlacesRight(pc) /\ s.app \in App /\ c \in Calls[s.app].setTmr
  BY <1>1, Made
<1>3. i \in Timer /\ cnt \in Nat /\ reload \in Nat
  <2>1. c \in Caller \X Timer \X Nat \X Nat
    BY <1>2, CallTypes
  <2> QED  BY <2>1
<1>4. Timed(s)
  BY RightTimed DEF SystemInv, SystemRight
<1>5. s' = [s EXCEPT !.TmrTbl = [s.TmrTbl EXCEPT ![i] = d]]
  BY <1>3, <1>4 DEF CoSetTmrCnt, Timed
<1>6. d \in TmrCtrl /\ d.tmrCallBack = s.TmrTbl[i].tmrCallBack
  <2> DEFINE x == s.TmrTbl[i]
  <2>1. x \in TmrCtrl /\ cnt \in Int /\ d = [x EXCEPT !.tmrCnt = cnt, !.tmrReload = reload]
    BY <1>3, <1>4 DEF Timed
  <2> HIDE DEF x, d
  <2>2. /\ DOMAIN d = DOMAIN x /\ d.tmrCnt = cnt /\ d.tmrReload = reload
        /\ d.tmrType = x.tmrType /\ d.tmrState = x.tmrState /\ d.tmrCallBack = x.tmrCallBack
        /\ d.tmrNext = x.tmrNext /\ d.tmrPrev = x.tmrPrev
    BY <2>1 DEF TmrCtrl
  <2>3. d \in TmrCtrl
    BY <1>3, <2>1, <2>2 DEF TmrCtrl
  <2> QED  BY <2>2, <2>3 DEF x
<1> HIDE DEF d, c
<1>7. TimersMoved(s, s')
  BY <1>3, <1>4, <1>5, <1>6, TimerSet
<1>8. Quiet
  BY <1>7, QuietTimers
<1>9. Goes(pc, pc', t) /\ PlaceRight(pc'[t]) /\ EasyAt(pc'[t])
  <2>1. CASE WithTimer(t, i, "remove", "insert")
    <3>1. /\ Goes(pc, pc', t) /\ PlaceRight(pc'[t]) /\ pc'[t].at = "remove" /\ pc'[t].id = i
      BY <1>2, <1>3, <2>1, WithTimerGo DEF TimerPlaces
    <3> QED  BY <1>3, <3>1 DEF EasyAt, TimerPlaces
  <2>2. CASE Return(t)
    <3>1. Goes(pc, pc', t) /\ PlaceRight(pc'[t]) /\ pc'[t].at = "user"
      BY <1>2, <2>2, ReturnGo
    <3> QED  BY <3>1 DEF EasyAt, EasyPlaces
  <2> QED  BY <2>1, <2>2 DEF CoSetTmrCnt
<1> QED  BY <1>1, <1>8, <1>9, QuietCall

LEMMA TimerStopsKeeps ==
  ASSUME SystemInv, NEW t \in Task, TimerStops(t)
  PROVE  SystemRight(s', pc')
<1> DEFINE i == pc[t].id
           d == [s.TmrTbl[i] EXCEPT !.tmrState = "stopped"]
<1>1. Runs(t, "stopped") /\ "stopped" \notin {"user", "renew", "renewed"} \cup UnlockPlaces
  BY DEF TimerStops, UnlockPlaces
<1>2. Free(s, t) /\ PlacesRight(pc) /\ i \in Timer
  <2>1. CallRight(s, pc[t], t) /\ Carries(pc[t]) = "stopped" /\ Free(s, t)
    BY <1>1, AtPlace DEF WaitPlaces, NodePlaces
  <2> QED  BY <2>1 DEF CallRight, TimerPlaces, SystemInv, SystemRight
<1>4. Timed(s)
  BY RightTimed DEF SystemInv, SystemRight
<1>5. s' = [s EXCEPT !.TmrTbl = [s.TmrTbl EXCEPT ![i] = d]]
  BY <1>2, <1>4 DEF TimerStops, Timed
<1>6. d \in TmrCtrl /\ d.tmrCallBack = s.TmrTbl[i].tmrCallBack
  BY <1>2, <1>4 DEF Timed, TmrCtrl
<1> HIDE DEF d, i
<1>7. TimersMoved(s, s')
  BY <1>2, <1>4, <1>5, <1>6, TimerSet
<1>8. Quiet
  BY <1>7, QuietTimers
<1>9. Goes(pc, pc', t) /\ PlaceRight(pc'[t]) /\ pc'[t].at = "user"
  BY <1>2, ReturnGo DEF TimerStops
<1>10. EasyAt(pc'[t])
  BY <1>9 DEF EasyAt, EasyPlaces
<1> QED  BY <1>1, <1>2, <1>8, <1>9, <1>10, QuietGoes

LEMMA TimerGoneKeeps ==
  ASSUME SystemInv, NEW t \in Task, TimerGone(t)
  PROVE  SystemRight(s', pc')
<1> DEFINE x == pc[t]
           y == [x EXCEPT !.at = "free", !.ids = s.TmrIDVessel \ {pc[t].id}]
<1>1. Runs(t, "gone") /\ s' = s /\ "gone" \notin {"user", "renew", "renewed"} \cup UnlockPlaces
  BY DEF TimerGone, UnlockPlaces
<1>2. Free(s, t) /\ PlacesRight(pc) /\ x.id \in Timer
  <2>1. CallRight(s, pc[t], t) /\ Carries(pc[t]) = "gone" /\ Free(s, t)
    BY <1>1, AtPlace DEF WaitPlaces, NodePlaces
  <2> QED  BY <2>1 DEF CallRight, TimerPlaces, SystemInv, SystemRight
<1>3. PlaceRight(x) /\ t \in Context /\ DOMAIN pc = Context
  BY <1>2, TmrApart DEF PlacesRight
<1>4. pc' = [pc EXCEPT ![t] = y]
  BY <1>3 DEF TimerGone
<1>5. "free" \in At /\ "free" \in TimerPlaces /\ "free" # "remove"
  BY DEF At, TimerPlaces
<1>6. PlaceRight(y) /\ y.at = "free" /\ y.id = x.id
  BY <1>3, <1>5 DEF PlaceRight
<1> HIDE DEF x, y
<1>7. Goes(pc, pc', t) /\ pc'[t] = y
  BY <1>2, <1>4, <1>6, NewPlace
<1>8. EasyAt(pc'[t])
  BY <1>2, <1>5, <1>6, <1>7 DEF EasyAt
<1>9. Quiet
  BY <1>1, QuietSame
<1> QED  BY <1>1, <1>2, <1>6, <1>7, <1>8, <1>9, QuietGoes

LEMMA TimerFreeKeeps ==
  ASSUME SystemInv, NEW t \in Task, TimerFree(t)
  PROVE  SystemRight(s', pc')
<1>1. Runs(t, "free") /\ "free" \notin {"user", "renew", "renewed"} \cup UnlockPlaces
  BY DEF TimerFree, UnlockPlaces
<1>2. Free(s, t) /\ PlacesRight(pc) /\ DOMAIN s = Fields
  BY <1>1, AtPlace DEF SystemInv, SystemRight, WaitPlaces, NodePlaces, Right, Shape
<1>4. Goes(pc, pc', t) /\ PlaceRight(pc'[t]) /\ pc'[t].at = "user"
  BY <1>2, ReturnGo DEF TimerFree
<1>5. EasyAt(pc'[t])
  BY <1>4 DEF EasyAt, EasyPlaces
<1>6. Only(s, s', Aside)
  BY <1>2 DEF TimerFree, Only, Fields, Aside
<1>7. Quiet
  BY <1>6, QuietAside
<1> QED  BY <1>1, <1>2, <1>4, <1>5, <1>7, QuietGoes

LEMMA TimerFillsKeeps ==
  ASSUME SystemInv, NEW t \in Task, TimerFills(t)
  PROVE  SystemRight(s', pc')
<1> DEFINE i == pc[t].id
<1>1. Runs(t, "fill") /\ "fill" \notin {"user", "renew", "renewed"} \cup UnlockPlaces
  BY DEF TimerFills, UnlockPlaces
<1>2. Free(s, t) /\ PlacesRight(pc) /\ i \in Timer /\ s.app \in App
  <2>1. CallRight(s, pc[t], t) /\ Carries(pc[t]) = "fill" /\ Free(s, t) /\ s.app \in App
    BY <1>1, AtPlace DEF WaitPlaces, NodePlaces
  <2> QED  BY <2>1 DEF CallRight, TimerPlaces, SystemInv, SystemRight
<1>3. PICK c \in Calls[s.app].createTmr :
         s' = [s EXCEPT !.TmrTbl[i] = FreshTimer([type |-> c[2], cnt |-> c[3], reload |-> c[4],
                                                  callback |-> NoEvent])]
  BY DEF TimerFills
<1> DEFINE new == FreshTimer([type |-> c[2], cnt |-> c[3], reload |-> c[4], callback |-> NoEvent])
<1>4. new \in TmrCtrl /\ new.tmrCallBack = NoEvent
  <2>1. c \in Caller \X {"oneshot", "periodic"} \X Nat \X Nat
    BY <1>2, <1>3, CallTypes
  <2>2. c[2] \in {"oneshot", "periodic"} /\ c[3] \in Nat /\ c[3] \in Int /\ c[4] \in Nat
    BY <2>1
  <2> QED  BY <2>2 DEF FreshTimer, TmrCtrl
<1>5. /\ Right(s, Ids(pc), {}) /\ DOMAIN s = Fields
      /\ s.TmrTbl \in [Timer -> TmrCtrl] /\ s.TmrList \in Timer \cup {NoTimer}
      /\ CallBacksRight(s) /\ RequestsRight(s) /\ DOMAIN s.cell = Cells
  BY DEF SystemInv, SystemRight, Right, Shape
<1>6. s' = [s EXCEPT !.TmrTbl = [s.TmrTbl EXCEPT ![i] = new]]
  BY <1>2, <1>3, <1>5
<1>7. Goes(pc, pc', t) /\ PlaceRight(pc'[t]) /\ pc'[t].at = "user"
  BY <1>2, ReturnGo DEF TimerFills
<1>8. EasyAt(pc'[t])
  BY <1>7 DEF EasyAt, EasyPlaces
<1> HIDE DEF i, new
<1>9. Quiet
  <2>1. Only(s, s', {"TmrTbl"}) /\ s'.TmrTbl = [s.TmrTbl EXCEPT ![i] = new]
    BY <1>5, <1>6 DEF Only, Fields
  <2>2. /\ s'.app = s.app /\ s'.cell = s.cell /\ s'.cnt = s.cnt /\ s'.head = s.head
        /\ s'.TmrList = s.TmrList /\ s'.k = s.k
    BY <2>1 DEF Only, Fields
  <2>3. s'.TmrTbl \in [Timer -> TmrCtrl]
    BY <1>4, <1>5, <2>1
  <2>4. CallBacksRight(s')
    BY <1>4, <1>5, <2>1, <2>2 DEF CallBacksRight
  <2>5. RequestsRight(s')
    BY <1>5, <2>2 DEF RequestsRight
  <2>6. Only(s, s', Aside \cup {"TmrTbl", "TmrList"})
    BY <2>1 DEF Only, Aside
  <2>7. Only(s, s', Aside \cup {"cell", "cnt", "head", "TmrTbl", "TmrList"})
    BY <2>6 DEF Only
  <2>8. Right(s', Ids(pc), {})
    BY <1>5, <2>2, <2>3, <2>4, <2>5, <2>7, AsideRight
  <2>9. Serves(s, s', {})
    BY <1>5, <2>6, ServesAside
  <2> QED  BY <2>2, <2>8, <2>9 DEF Quiet
<1> QED  BY <1>1, <1>2, <1>7, <1>8, <1>9, QuietGoes

-----------------------------------------------------------------------------
(* Locked sections that give the calling task nothing to hold.             *)
Section == Right(s', Ids(pc), {}) /\ Serves(Lock(s), s', {NoEvent})

LEMMA SectionLocked ==
  ASSUME SystemInv
  PROVE  /\ Right(Lock(s), Ids(pc), {}) /\ Only(s, Lock(s), {"k"}) /\ Lock(s).k \in Kernel
         /\ DOMAIN Lock(s) = Fields
         /\ \A t : Locks(s.k, Lock(s).k, t) /\ Lock(s).k.state = s.k.state
<1>1. Right(s, Ids(pc), {})
  BY DEF SystemInv, SystemRight
<1> DEFINE r1 == Lock(s)
<1>2. r1 = Lock(s)
  OBVIOUS
<1> HIDE DEF r1
<1>3. \A t : Right(r1, Ids(pc), {}) /\ Only(s, r1, {"k"}) /\ Locks(s.k, r1.k, t)
            /\ r1.k.state = s.k.state
  BY <1>1, <1>2, LockIs
<1>4. r1.k \in Kernel /\ DOMAIN r1 = Fields
  BY <1>3 DEF Right, Shape
<1> QED  BY <1>2, <1>3, <1>4

LEMMA SectionSame ==
  ASSUME SystemInv, s' = Lock(s)
  PROVE  Section
BY SectionLocked, ServesNone DEF Section

LEMMA SectionAside ==
  ASSUME SystemInv, Only(Lock(s), s', Aside)
  PROVE  Section
BY SectionLocked, AsideChange DEF Section

LEMMA SectionTimers ==
  ASSUME SystemInv, TimersMoved(Lock(s), s')
  PROVE  Section
BY SectionLocked, TimersMovedRight DEF Section

LEMMA LockedGoes ==
  ASSUME SystemInv, NEW t \in Task, NEW at, Runs(t, at),
         at \notin {"user", "renew", "renewed"} \cup UnlockPlaces, Free(s, t), Section,
         Goes(pc, pc', t), PlaceRight(pc'[t]), pc'[t].at = "unlock",
         pc'[t].ret = "user" \/ (pc'[t].ret \in TimerPlaces /\ pc'[t].id \in Timer)
  PROVE  SystemRight(s', pc')
<1>1. RunsIn(s, pc, t, at) /\ t # Idle /\ SystemRight(s, pc)
  BY AtPlace DEF SystemInv
<1>2. Carries(pc'[t]) = pc'[t].ret
  BY DEF Carries, UnlockPlaces
<1>3. EasyPlace(pc'[t]) /\ Carries(pc'[t]) # "renewed"
  BY <1>2 DEF EasyPlace, EasyPlaces, TimerPlaces
<1>4. {NoEvent} \cap Event = {}
  BY EventAssumption DEF NoEvent, Event
<1> QED  BY <1>1, <1>3, <1>4, EasyLocked DEF Section

LEMMA LockedCall ==
  ASSUME SystemInv, NEW t \in Task, NEW op \in Services, op # "isr", NEW c, c[1] = t,
         Makes(op, c), Section, Unlocks(t, "user")
  PROVE  SystemRight(s', pc')
<1>1. RunsIn(s, pc, t, "user") /\ t # Idle /\ Free(s, t) /\ SystemRight(s, pc) /\ PlacesRight(pc)
  BY Made DEF SystemInv
<1>2. "user" \notin UnlockPlaces \cup {"renew", "renewed"} /\ "user" \in At
  BY DEF UnlockPlaces, At
<1>3. Goes(pc, pc', t) /\ PlaceRight(pc'[t]) /\ pc'[t].at = "unlock" /\ Carries(pc'[t]) = "user"
  BY <1>1, <1>2, UnlocksGo
<1>4. EasyPlace(pc'[t]) /\ Carries(pc'[t]) # "renewed"
  BY <1>3 DEF EasyPlace, EasyPlaces
<1>5. {NoEvent} \cap Event = {}
  BY EventAssumption DEF NoEvent, Event
<1> QED  BY <1>1, <1>2, <1>3, <1>4, <1>5, EasyLocked DEF Section

LEMMA AcceptTakesKeeps ==
  ASSUME SystemInv, NEW t \in Task, AcceptTakes(t)
  PROVE  SystemRight(s', pc')
<1>1. Runs(t, "take") /\ "take" \notin {"user", "renew", "renewed"} \cup UnlockPlaces
  BY DEF AcceptTakes, UnlockPlaces
<1>2. Free(s, t) /\ PlacesRight(pc)
  BY <1>1, AtPlace DEF SystemInv, SystemRight, WaitPlaces, NodePlaces
<1>3. Goes(pc, pc', t) /\ PlaceRight(pc'[t]) /\ pc'[t].at = "unlock" /\ pc'[t].ret = "user"
  BY <1>2, UnlocksGo DEF AcceptTakes, At
<1>4. Only(Lock(s), s', Aside)
  <2>1. s' = [Lock(s) EXCEPT !.flagRdy = @ \ (pc[t].flags \cap Lock(s).resetOpt)]
    BY DEF AcceptTakes, Reset
  <2> QED  BY <2>1, SectionLocked DEF Only, Fields, Aside
<1> QED  BY <1>1, <1>2, <1>3, <1>4, SectionAside, LockedGoes

LEMMA SetWalksKeeps ==
  ASSUME SystemInv, NEW t \in Task, SetWalks(t)
  PROVE  SystemRight(s', pc')
<1>1. Runs(t, "walk") /\ "walk" \notin {"user", "renew", "renewed"} \cup UnlockPlaces
  BY DEF SetWalks, UnlockPlaces
<1>2. Free(s, t) /\ PlacesRight(pc)
  BY <1>1, AtPlace DEF SystemInv, SystemRight, WaitPlaces, NodePlaces
<1>3. Goes(pc, pc', t) /\ PlaceRight(pc'[t]) /\ pc'[t].at = "unlock" /\ pc'[t].ret = "user"
  BY <1>2, UnlocksGo DEF SetWalks, At
<1>4. s' = WakeSatisfied(Lock(s), pc[t].id)
  BY DEF SetWalks
<1>5. Section
  BY <1>4, SectionLocked, SatisfiedWoken DEF Section
<1> QED  BY <1>1, <1>2, <1>3, <1>5, LockedGoes

LEMMA TimerInsertsKeeps ==
  ASSUME SystemInv, NEW t \in Task, TimerInserts(t)
  PROVE  SystemRight(s', pc')
<1>1. Runs(t, "insert") /\ "insert" \notin {"user", "renew", "renewed"} \cup UnlockPlaces
  BY DEF TimerInserts, UnlockPlaces
<1>2. Free(s, t) /\ PlacesRight(pc) /\ pc[t].id \in Timer
  <2>1. CallRight(s, pc[t], t) /\ Carries(pc[t]) = "insert" /\ Free(s, t)
    BY <1>1, AtPlace DEF WaitPlaces, NodePlaces
  <2> QED  BY <2>1 DEF CallRight, TimerPlaces, SystemInv, SystemRight
<1>3. Goes(pc, pc', t) /\ PlaceRight(pc'[t]) /\ pc'[t].at = "unlock" /\ pc'[t].ret = "user"
  BY <1>2, UnlocksGo DEF TimerInserts, At
<1>4. s' = InsertTmrList(Lock(s), pc[t].id)
  BY DEF TimerInserts
<1>5. Timed(Lock(s))
  BY SectionLocked, RightTimed
<1>6. TimersMoved(Lock(s), s')
  BY <1>2, <1>4, <1>5, TimerInserted
<1> QED  BY <1>1, <1>2, <1>3, <1>6, SectionTimers, LockedGoes

LEMMA TimerRemovesKeeps ==
  ASSUME SystemInv, NEW t \in Task, TimerRemoves(t)
  PROVE  SystemRight(s', pc')
<1>1. Runs(t, "remove") /\ "remove" \notin {"user", "renew", "renewed"} \cup UnlockPlaces
  BY DEF TimerRemoves, UnlockPlaces
<1>2. Free(s, t) /\ PlacesRight(pc) /\ pc[t].id \in Timer /\ pc[t].at = "remove"
  <2>1. CallRight(s, pc[t], t) /\ Carries(pc[t]) = "remove" /\ Free(s, t)
    BY <1>1, AtPlace DEF WaitPlaces, NodePlaces
  <2> QED  BY <1>1, <2>1 DEF CallRight, TimerPlaces, SystemInv, SystemRight, Runs
<1>3. pc[t].ret \in {"stopped", "insert", "gone"}
  <2>1. PlaceRight(pc[t])
    BY <1>2, TmrApart DEF PlacesRight
  <2> QED  BY <1>2, <2>1 DEF PlaceRight
<1>4. /\ Goes(pc, pc', t) /\ PlaceRight(pc'[t]) /\ pc'[t].at = "unlock"
      /\ pc'[t].ret = pc[t].ret /\ pc'[t].id = pc[t].id
  <2>1. "unlock" \in At
    BY DEF At, UnlockPlaces
  <2> QED  BY <1>2, <2>1, GotoGo DEF TimerRemoves
<1>5. pc'[t].ret \in TimerPlaces
  BY <1>3, <1>4 DEF TimerPlaces
<1>6. s' = RemoveTmrList(Lock(s), pc[t].id)
  BY DEF TimerRemoves
<1>7. Timed(Lock(s))
  BY SectionLocked, RightTimed
<1>8. TimersMoved(Lock(s), s')
  BY <1>2, <1>6, <1>7, TimerRemoved
<1> QED  BY <1>1, <1>2, <1>4, <1>5, <1>8, SectionTimers, LockedGoes

-----------------------------------------------------------------------------
(* Calls that are one locked section.                                      *)
LEMMA CreateFlagKeeps ==
  ASSUME SystemInv, NEW t \in Task, NEW auto, NEW set, CoCreateFlag(t, auto, set)
  PROVE  SystemRight(s', pc')
<1> DEFINE free == Flag \ s.flagActive
           f == {CHOOSE i \in free : \A j \in free : i <= j}
           c == <<t, auto, set>>
<1>1. Makes("createFlag", c) /\ c[1] = t /\ "createFlag" \in Services
  BY DEF CoCreateFlag, Services, ArgumentTypes
<1>2. s' = IF free = {} THEN Lock(s)
           ELSE [Lock(s) EXCEPT !.flagActive = @ \cup f,
                                !.flagRdy    = IF set THEN @ \cup f ELSE @,
                                !.resetOpt   = IF auto THEN @ \cup f ELSE @]
  BY DEF CoCreateFlag
<1> HIDE DEF f, c, free
<1>3. Section
  <2>1. CASE free = {}
    BY <1>2, <2>1, SectionSame
  <2>2. CASE free # {}
    <3>1. Only(Lock(s), s', Aside)
      BY <1>2, <2>2, SectionLocked DEF Only, Fields, Aside
    <3> QED  BY <3>1, SectionAside
  <2> QED  BY <2>1, <2>2
<1>4. Unlocks(t, "user")
  BY DEF CoCreateFlag
<1> QED  BY <1>1, <1>3, <1>4, LockedCall

LEMMA DelFlagKeeps ==
  ASSUME SystemInv, NEW t \in Task, NEW f, NEW opt, CoDelFlag(t, f, opt)
  PROVE  SystemRight(s', pc')
<1> DEFINE c == <<t, f, opt>>
<1>1. Makes("delFlag", c) /\ c[1] = t /\ "delFlag" \in Services
  BY DEF CoDelFlag, Services, ArgumentTypes
<1>2. s' = Lock(s) \/ s' = Deleted(Lock(s), f)
  BY DEF CoDelFlag
<1> HIDE DEF c
<1>3. Section
  <2>1. CASE s' = Lock(s)
    BY <2>1, SectionSame
  <2>2. CASE s' = Deleted(Lock(s), f)
    BY <2>2, SectionLocked, FlagDeleted DEF Section
  <2> QED  BY <1>2, <2>1, <2>2
<1>4. Unlocks(t, "user")
  BY DEF CoDelFlag
<1> QED  BY <1>1, <1>3, <1>4, LockedCall

LEMMA CreateTmrKeeps ==
  ASSUME SystemInv, NEW t \in Task, NEW type, NEW cnt, NEW reload,
         CoCreateTmr(t, type, cnt, reload)
  PROVE  SystemRight(s', pc')
<1> DEFINE c == <<t, type, cnt, reload>>
           free == Timer \ s.TmrIDVessel
           i == CHOOSE j \in free : \A l \in free : j <= l
           r == Lock(s)
<1>1. Makes("createTmr", c) /\ c[1] = t /\ "createTmr" \in Services
  BY DEF CoCreateTmr, Services, ArgumentTypes
<1>2. CASE free = {}
  <2>1. s' = r /\ Unlocks(t, "user")
    BY <1>2 DEF CoCreateTmr
  <2> HIDE DEF c
  <2> QED  BY <1>1, <2>1, SectionSame, LockedCall
<1>3. CASE free # {}
  <2>1. s' = [r EXCEPT !.TmrIDVessel = @ \cup {i}] /\ WithTimer(t, i, "unlock", "fill")
    BY <1>3 DEF CoCreateTmr
  <2>2. /\ RunsIn(s, pc, t, "user") /\ t # Idle /\ Free(s, t) /\ SystemRight(s, pc)
        /\ PlacesRight(pc)
    BY <1>1, Made DEF SystemInv
  <2>3. i \in Timer
    <3>1. free \in SUBSET Nat
      BY EventAssumption DEF Timer
    <3> HIDE DEF free
    <3>2. i \in free
      BY <1>3, <3>1, LeastNat
    <3> QED  BY <3>2 DEF free
  <2> HIDE DEF c, free, i
  <2>4. Only(r, s', Aside)
    BY <2>1, SectionLocked DEF Only, Fields, Aside
  <2>5. Section
    BY <2>4, SectionAside
  <2>6. /\ Goes(pc, pc', t) /\ PlaceRight(pc'[t]) /\ pc'[t].at = "unlock"
        /\ pc'[t].ret = "fill" /\ pc'[t].id = i
    BY <2>1, <2>2, <2>3, WithTimerGo
  <2>7. Carries(pc'[t]) = "fill"
    BY <2>6 DEF Carries, UnlockPlaces
  <2>8. EasyPlace(pc'[t]) /\ Carries(pc'[t]) # "renewed"
    BY <2>3, <2>6, <2>7 DEF EasyPlace, TimerPlaces
  <2>9. {NoEvent} \cap Event = {} /\ "user" \notin UnlockPlaces \cup {"renew", "renewed"}
    BY EventAssumption DEF NoEvent, Event, UnlockPlaces
  <2> QED  BY <2>2, <2>5, <2>6, <2>8, <2>9, EasyLocked DEF Section
<1> QED  BY <1>2, <1>3

(* A mail is taken.                                                        *)
LEMMA MailTaken ==
  ASSUME NEW r, NEW id, Right(r, id, {}), NEW e \in Event, r.eventType[e] = "mbox",
         NEW r2, r2 = TakeMail(r, e)
  PROVE  Right(r2, id, {}) /\ Serves(r, r2, {NoEvent})
<1>1. /\ DOMAIN r = Fields /\ r.k \in Kernel /\ r.eventCounter \in [Event -> Nat]
      /\ DOMAIN r.pmail = Task /\ DOMAIN r.eventPtr = Event /\ r.balance \in [Event -> Int]
      /\ r.holds \in [Task -> SUBSET Event] /\ RingsRight(r)
      /\ Disciplined => PermitsRight(r, id)
  BY DEF Right, Shape
<1>2. /\ Only(r, r2, {"eventPtr", "eventCounter", "out"})
      /\ r2.eventPtr = [r.eventPtr EXCEPT ![e] = NoMail]
      /\ r2.eventCounter = [r.eventCounter EXCEPT ![e] = 0]
  BY <1>1 DEF TakeMail, Only, Fields
<1>3. /\ r2.eventType = r.eventType /\ r2.QueueTbl = r.QueueTbl /\ r2.pmail = r.pmail
      /\ r2.balance = r.balance /\ r2.holds = r.holds
      /\ r2.initialEventCounter = r.initialEventCounter
  BY <1>2 DEF Only, Fields
<1>4. RingsRight(r2)
  BY <1>1, <1>2, <1>3 DEF RingsRight
<1>5. \A f \in Event \ {e} : r2.eventCounter[f] = r.eventCounter[f]
  BY <1>1, <1>2
<1>6. Disciplined => PermitsRight(r2, id)
  BY <1>1, <1>3, <1>5, PermitsApart
<1>7. r2.eventCounter \in [Event -> Nat] /\ DOMAIN r2.eventPtr = Event
  BY <1>1, <1>2
<1>8. Only(r, r2, {"eventCounter", "eventPtr", "pmail", "QueueTbl", "balance", "holds", "out"})
  BY <1>2 DEF Only
<1>9. Right(r2, id, {})
  BY <1>1, <1>3, <1>4, <1>6, <1>7, <1>8, MailsChange
<1>10. Only(r, r2, {"eventCounter", "eventPtr", "QueueTbl", "balance", "out"})
  BY <1>2 DEF Only
<1>11. \A f \in Event \ {NoEvent} : r.eventType[f] = "sem" =>
           r2.eventCounter[f] = r.eventCounter[f] /\ r2.balance[f] = r.balance[f]
  BY <1>3, <1>5
<1>12. Serves(r, r2, {NoEvent})
  BY <1>1, <1>10, <1>11, ServesMails
<1> QED  BY <1>9, <1>12

LEMMA OldestTaken ==
  ASSUME NEW r, NEW id, Right(r, id, {}), NEW e \in Event, r.eventType[e] = "queue",
         HasQueueMail(r, e), NEW r2, r2 = TakeOldest(r, e)
  PROVE  Right(r2, id, {}) /\ Serves(r, r2, {NoEvent})
<1>1. /\ DOMAIN r = Fields /\ r.k \in Kernel /\ r.eventCounter \in [Event -> Nat]
      /\ DOMAIN r.pmail = Task /\ DOMAIN r.eventPtr = Event /\ r.balance \in [Event -> Int]
      /\ r.holds \in [Task -> SUBSET Event] /\ RingsRight(r)
      /\ Disciplined => PermitsRight(r, id)
  BY DEF Right, Shape
<1> DEFINE d == Dequeue(r, e)
<1>2. r2 = [d EXCEPT !.out = @ \ {OldestMail(r, e)}]
  BY DEF TakeOldest
<1>3. r.QueueTbl[r.eventPtr[e]].qSize > 0
  <2>1. r.eventPtr[e] \in Queue
    BY <1>1 DEF RingsRight
  <2>2. r.QueueTbl[r.eventPtr[e]].qSize \in Nat
    BY <1>1, <2>1 DEF RingsRight, RingRight
  <2> QED  BY <2>2 DEF HasQueueMail
<1>4. d = Dequeue(r, e)
  OBVIOUS
<1> HIDE DEF d
<1>5. RingsRight(d) /\ Only(r, d, {"QueueTbl"})
  BY <1>1, <1>3, <1>4, Dequeued
<1>6. Only(r, r2, {"QueueTbl", "out"}) /\ r2.QueueTbl = d.QueueTbl
  BY <1>2, <1>5 DEF Only, Fields
<1>7. /\ r2.eventType = r.eventType /\ r2.pmail = r.pmail /\ r2.eventCounter = r.eventCounter
      /\ r2.balance = r.balance /\ r2.holds = r.holds /\ r2.eventPtr = r.eventPtr
      /\ r2.initialEventCounter = r.initialEventCounter
      /\ d.eventType = r.eventType /\ d.eventPtr = r.eventPtr
  BY <1>5, <1>6 DEF Only, Fields
<1>8. RingsRight(r2)
  BY <1>5, <1>6, <1>7 DEF RingsRight
<1>9. Disciplined => PermitsRight(r2, id)
  BY <1>1, <1>7, PermitsFrame
<1>10. Only(r, r2, {"eventCounter", "eventPtr", "pmail", "QueueTbl", "balance", "holds", "out"})
  BY <1>6 DEF Only
<1>11. Right(r2, id, {})
  BY <1>1, <1>7, <1>8, <1>9, <1>10, MailsChange
<1>12. Only(r, r2, {"eventCounter", "eventPtr", "QueueTbl", "balance", "out"})
  BY <1>6 DEF Only
<1>13. Serves(r, r2, {NoEvent})
  BY <1>1, <1>7, <1>12, ServesMails
<1> QED  BY <1>11, <1>13

LEMMA AcceptMailKeeps ==
  ASSUME SystemInv, NEW t \in Task, NEW e, CoAcceptMail(t, e)
  PROVE  SystemRight(s', pc')
<1> DEFINE c == <<t, e>>
<1>1. Makes("acceptMail", c) /\ c[1] = t /\ "acceptMail" \in Services
  BY DEF CoAcceptMail, Services, ArgumentTypes
<1>2. e \in Event
  <2>1. s.app \in App /\ c \in Calls[s.app].acceptMail
    BY <1>1, Made
  <2>2. c \in Caller \X Event
    BY <2>1, CallTypes
  <2> QED  BY <2>2
<1>3. Lock(s).eventType[e] = "mbox"
  BY SectionLocked DEF CoAcceptMail, Only, Fields
<1>4. s' = Lock(s) \/ s' = TakeMail(Lock(s), e)
  BY DEF CoAcceptMail
<1> HIDE DEF c
<1>5. Section
  <2>1. CASE s' = Lock(s)
    BY <2>1, SectionSame
  <2>2. CASE s' = TakeMail(Lock(s), e)
    BY <1>2, <1>3, <2>2, SectionLocked, MailTaken DEF Section
  <2> QED  BY <1>4, <2>1, <2>2
<1>6. Unlocks(t, "user")
  BY DEF CoAcceptMail
<1> QED  BY <1>1, <1>5, <1>6, LockedCall

LEMMA AcceptQueueMailKeeps ==
  ASSUME SystemInv, NEW t \in Task, NEW e, CoAcceptQueueMail(t, e)
  PROVE  SystemRight(s', pc')
<1> DEFINE c == <<t, e>>
<1>1. Makes("acceptMail", c) /\ c[1] = t /\ "acceptMail" \in Services
  BY DEF CoAcceptQueueMail, Services, ArgumentTypes
<1>2. e \in Event
  <2>1. s.app \in App /\ c \in Calls[s.app].acceptMail
    BY <1>1, Made
  <2>2. c \in Caller \X Event
    BY <2>1, CallTypes
  <2> QED  BY <2>2
<1>3. Lock(s).eventType[e] = "queue" /\ (HasQueueMail(s, e) => HasQueueMail(Lock(s), e))
  BY SectionLocked DEF CoAcceptQueueMail, Only, Fields, HasQueueMail
<1>4. s' = Lock(s) \/ (HasQueueMail(s, e) /\ s' = TakeOldest(Lock(s), e))
  BY DEF CoAcceptQueueMail
<1> HIDE DEF c
<1>5. Section
  <2>1. CASE s' = Lock(s)
    BY <2>1, SectionSame
  <2>2. CASE HasQueueMail(s, e) /\ s' = TakeOldest(Lock(s), e)
    BY <1>2, <1>3, <2>2, SectionLocked, OldestTaken DEF Section
  <2> QED  BY <1>4, <2>1, <2>2
<1>6. Unlocks(t, "user")
  BY DEF CoAcceptQueueMail
<1> QED  BY <1>1, <1>5, <1>6, LockedCall

-----------------------------------------------------------------------------
(* A locked section of a task in general.                                  *)
LEMMA TaskLocked ==
  ASSUME SystemInv, NEW t \in Task, t # Idle, NEW at, RunsIn(s, pc, t, at),
         at \notin UnlockPlaces \cup {"renew", "renewed"},
         Right(s', Ids(pc'), {}), Apart(s, s', {t}), Locks(s.k, s'.k, t),
         Goes(pc, pc', t), PlaceRight(pc'[t]), pc'[t].at = "unlock",
         Carries(pc'[t]) \notin {"renew", "renewed"}, CallRight(s', pc'[t], t),
         Disciplined => LocksKept(s') /\ PermitCall(s', pc'[t], t)
  PROVE  SystemRight(s', pc')
<1>1. SystemRight(s, pc)
  BY DEF SystemInv
<1>2. HeldBy(pc[t]) = 0
  BY DEF HeldBy, Carries, RunsIn, Opens
<1>3. HeldBy(pc'[t]) = 1
  BY DEF HeldBy, Opens, UnlockPlaces
<1>4. LocksRight(s'.k, pc') /\ RunningRight(s'.k, pc')
  <2>1. /\ s.k \in Kernel /\ LocksRight(s.k, pc) /\ RunningRight(s.k, pc) /\ pc[Tmr].ret = "off"
        /\ pc[t].at \notin UnlockPlaces
    BY <1>1 DEF SystemRight, Right, Shape, PlacesRight, RunsIn
  <2>2. s'.k \in Kernel
    BY DEF Locks
  <2> QED  BY <2>1, <2>2, <1>2, <1>3, SwitchLocks DEF RunsIn
<1> QED  BY <1>1, <1>4, TaskStep

LEMMA WaitLocks ==
  ASSUME NEW k, NEW k1, NEW t \in Task, Locks(k, k1, t), NEW k2, k2 = WaitKernel(k1, t)
  PROVE  Locks(k, k2, t)
<1>1. k1 \in Kernel
  BY DEF Locks
<1>2. /\ k2 \in Kernel /\ k2.TaskSchedReq
      /\ k2.state = [k1.state EXCEPT ![t] = "WAITING"]
      /\ k2.prio = k1.prio
      /\ k2.TCBRunning = k1.TCBRunning /\ k2.TCBNext = k1.TCBNext
      /\ k2.OSSchedLock = k1.OSSchedLock /\ k2.OSIntNesting = k1.OSIntNesting
      /\ k2.PendSV = k1.PendSV
  BY <1>1, WaitKernelFacts
<1>3. DOMAIN k1.state = Task
  BY <1>1 DEF Kernel
<1>4. k2.state[t] = "WAITING" /\ \A u \in Task \ {t} : k2.state[u] = k1.state[u]
  BY <1>2, <1>3
<1> QED  BY <1>2, <1>4 DEF Locks

(* What a locked section starts from.                                      *)
LEMMA SectionStarts ==
  ASSUME SystemInv, NEW t \in Task, NEW r1, r1 = Lock(s)
  PROVE  /\ Right(r1, Ids(pc), {}) /\ Only(s, r1, {"k"}) /\ DOMAIN r1 = Fields
         /\ r1.k \in Kernel /\ Locks(s.k, r1.k, t) /\ r1.k.state = s.k.state
         /\ r1.delayTick = s.delayTick /\ r1.pnode = s.pnode /\ r1.eventID = s.eventID
         /\ r1.pmail = s.pmail /\ r1.eventType = s.eventType /\ r1.app = s.app
         /\ r1.holds = s.holds /\ r1.balance = s.balance
         /\ r1.initialEventCounter = s.initialEventCounter /\ r1.eventCounter = s.eventCounter
         /\ Disciplined => LocksKept(s)
<1>1. /\ Right(r1, Ids(pc), {}) /\ Only(s, r1, {"k"}) /\ DOMAIN r1 = Fields
      /\ r1.k \in Kernel /\ Locks(s.k, r1.k, t) /\ r1.k.state = s.k.state
  BY SectionLocked
<1>2. Disciplined => LocksKept(s)
  BY DEF SystemInv, SystemRight
<1> QED  BY <1>1, <1>2 DEF Only, Fields

-----------------------------------------------------------------------------
(* The flags: the node goes.                                               *)
LEMMA FlagReturnsKeeps ==
  ASSUME SystemInv, NEW t \in Task, FlagReturns(t)
  PROVE  SystemRight(s', pc')
<1>1. PICK at \in NodePlaces : Runs(t, at)
  BY DEF FlagReturns, NodePlaces
<1>2. at \notin {"user", "renew", "renewed"} \cup UnlockPlaces
  BY DEF NodePlaces, UnlockPlaces
<1>3. /\ RunsIn(s, pc, t, at) /\ t # Idle /\ s.eventID[t] = NoEvent /\ s.delayTick[t] = NoDelay
      /\ s.pnode[t] # "node" /\ Carries(pc[t]) = at /\ CallRight(s, pc[t], t) /\ PlacesRight(pc)
  BY <1>1, <1>2, AtPlace DEF SystemInv, SystemRight
<1>4. s.pmail[t] = NoMail
  BY <1>3 DEF CallRight, NodePlaces, WaitPlaces
<1> DEFINE r1 == Lock(s)
<1>5. r1 = Lock(s)
  OBVIOUS
<1>6. s' = Reset(NodeGone(r1, t), pc[t].flags \cap s.flagRdy)
  BY DEF FlagReturns
<1> HIDE DEF r1
<1>7. /\ Right(r1, Ids(pc), {}) /\ Only(s, r1, {"k"}) /\ DOMAIN r1 = Fields
      /\ Locks(s.k, r1.k, t) /\ r1.delayTick = s.delayTick /\ r1.pnode = s.pnode
      /\ r1.eventID = s.eventID /\ (Disciplined => LocksKept(s))
  BY <1>5, SectionStarts
<1>8. Only(r1, s', Aside \cup {"pnode"}) /\ s'.pnode = [r1.pnode EXCEPT ![t] = "null"]
  <2>1. s' = [NodeGone(r1, t) EXCEPT
                !.flagRdy = @ \ ((pc[t].flags \cap s.flagRdy) \cap NodeGone(r1, t).resetOpt)]
    BY <1>6 DEF Reset
  <2> DEFINE d == NodeGone(r1, t)
  <2>2. Only(r1, d, Aside \cup {"pnode"}) /\ d.pnode = [r1.pnode EXCEPT ![t] = "null"]
    BY <1>7 DEF NodeGone, Only, Fields, Aside
  <2> HIDE DEF d
  <2>3. Only(d, s', {"flagRdy"}) /\ s'.pnode = d.pnode
    BY <2>1, <2>2 DEF d, Only, Fields
  <2> QED  BY <2>2, <2>3 DEF Only, Aside
<1>9. Right(s', Ids(pc), {})
  BY <1>3, <1>7, <1>8, NodeMarked
<1>10. /\ s'.app = s.app /\ s'.eventType = s.eventType /\ s'.holds = s.holds
       /\ s'.initialEventCounter = s.initialEventCounter /\ s'.balance = s.balance
       /\ s'.eventCounter = s.eventCounter /\ s'.eventID = s.eventID /\ s'.pmail = s.pmail
       /\ s'.delayTick = s.delayTick
  <2>1. Only(s, s', Aside \cup {"pnode", "k"})
    BY <1>7, <1>8 DEF Only
  <2> QED  BY <2>1 DEF Only, Fields, Aside
<1>11. s'.k = r1.k
  BY <1>8 DEF Only, Fields, Aside
<1>12. s'.pnode[t] = "null" /\ \A u \in Task \ {t} : s'.pnode[u] = s.pnode[u]
  <2>1. DOMAIN r1.pnode = Task
    BY <1>7 DEF Right, Shape
  <2> QED  BY <2>1, <1>7, <1>8
<1>13. Apart(s, s', {t})
  BY <1>10, <1>12, SameApart
<1>14. Free(s', t)
  BY <1>3, <1>4, <1>10, <1>12 DEF Free
<1>15. Disciplined => LocksKept(s')
  BY <1>7, <1>10, LocksKeptSame
<1>16. /\ Goes(pc, pc', t) /\ PlaceRight(pc'[t])
       /\ pc'[t].at = "unlock" /\ Carries(pc'[t]) = "user"
  BY <1>3, UnlocksGo DEF FlagReturns, At
<1>17. Right(s', Ids(pc'), {})
  BY <1>9, <1>14, <1>16, IdsGo DEF Free
<1>18. CallRight(s', pc'[t], t) /\ PermitCall(s', pc'[t], t)
  BY <1>14, <1>16, CallEasy DEF EasyPlaces
<1> QED  BY <1>2, <1>3, <1>7, <1>11, <1>13, <1>15, <1>16, <1>17, <1>18, TaskLocked

-----------------------------------------------------------------------------
(* Waiting.                                                                *)
LEMMA TickDelayKeeps ==
  ASSUME SystemInv, NEW t \in Task, NEW ticks, CoTickDelay(t, ticks)
  PROVE  SystemRight(s', pc')
<1> DEFINE c == <<t, ticks>>
<1>1. Makes("delay", c) /\ c[1] = t /\ "delay" \in Services
  BY DEF CoTickDelay, Services, ArgumentTypes
<1>2. /\ RunsIn(s, pc, t, "user") /\ Free(s, t) /\ s.app \in App /\ s.k.state[t] = "RUNNING"
      /\ s.delayTick[t] = NoDelay /\ t # Idle /\ c \in Calls[s.app].delay /\ PlacesRight(pc)
  BY <1>1, Made
<1>3. ticks \in Nat
  <2>1. c \in Caller \X Nat
    BY <1>2, CallTypes
  <2> QED  BY <2>1
<1>4. Unlocks(t, "user") /\ s' = InsertDelayList(Lock(s), t, ticks)
  BY DEF CoTickDelay
<1> HIDE DEF c
<1>5. CASE ticks = 0
  <2>1. s' = Lock(s)
    BY <1>4, <1>5 DEF InsertDelayList
  <2> QED  BY <1>1, <1>4, <2>1, SectionSame, LockedCall
<1>6. CASE ticks # 0
  <2> DEFINE r1 == Lock(s)
  <2>1. r1 = Lock(s) /\ s' = InsertDelayList(r1, t, ticks)
    BY <1>4
  <2> HIDE DEF r1
  <2>2. /\ Right(r1, Ids(pc), {}) /\ Only(s, r1, {"k"}) /\ DOMAIN r1 = Fields
        /\ Locks(s.k, r1.k, t) /\ r1.k.state = s.k.state /\ r1.delayTick = s.delayTick
        /\ r1.pnode = s.pnode /\ (Disciplined => LocksKept(s))
    BY <2>1, SectionStarts
  <2>3. /\ Right(s', Ids(pc), {} \ {t}) /\ Only(r1, s', {"DlyList", "delayTick", "k"})
        /\ s'.k = WaitKernel(r1.k, t)
        /\ \A u \in Task \ {t} : s'.delayTick[u] = NoDelay <=> r1.delayTick[u] = NoDelay
    BY <1>2, <1>3, <1>6, <2>1, <2>2, DelayInserted DEF Free
  <2>4. Right(s', Ids(pc), {})
    <3>1. {} \ {t} = {}
      OBVIOUS
    <3> QED  BY <2>3, <3>1
  <2>5. /\ s'.app = s.app /\ s'.eventType = s.eventType /\ s'.holds = s.holds
        /\ s'.initialEventCounter = s.initialEventCounter /\ s'.balance = s.balance
        /\ s'.eventCounter = s.eventCounter /\ s'.eventID = s.eventID /\ s'.pmail = s.pmail
        /\ s'.pnode = s.pnode
    <3>1. Only(s, s', {"DlyList", "delayTick", "k"})
      BY <2>2, <2>3 DEF Only
    <3> QED  BY <3>1 DEF Only, Fields
  <2>6. Apart(s, s', {t})
    BY <2>2, <2>3, <2>5, SameApart
  <2>7. Free(s', t)
    BY <1>2, <2>5 DEF Free
  <2>8. Disciplined => LocksKept(s')
    BY <2>2, <2>5, LocksKeptSame
  <2>9. /\ Goes(pc, pc', t) /\ PlaceRight(pc'[t])
        /\ pc'[t].at = "unlock" /\ Carries(pc'[t]) = "user"
    BY <1>2, <1>4, UnlocksGo DEF At
  <2>10. Right(s', Ids(pc'), {})
    BY <2>4, <2>7, <2>9, IdsGo DEF Free
  <2>11. CallRight(s', pc'[t], t) /\ PermitCall(s', pc'[t], t)
    BY <2>7, <2>9, CallEasy DEF EasyPlaces
  <2>12. Locks(s.k, s'.k, t)
    BY <2>2, <2>3, WaitLocks
  <2>13. "user" \notin UnlockPlaces \cup {"renew", "renewed"}
    BY DEF UnlockPlaces
  <2> QED  BY <1>2, <2>6, <2>8, <2>9, <2>10, <2>11, <2>12, <2>13, TaskLocked
<1> QED  BY <1>5, <1>6

(* Nothing is there: the task goes on to be put to wait.                   *)
LEMMA PendGoesOn ==
  ASSUME SystemInv, NEW t \in Task, NEW op \in {"pendSem", "pendMail"},
         NEW e, NEW ticks, Makes(op, <<t, e, ticks>>), s.eventType[e] # "invalid",
         Disciplined => e \notin s.holds[t], s' = Lock(s),
         pc' = [pc EXCEPT ![t] = [Rest("block") EXCEPT
                      !.at = "unlock", !.ret = "block", !.id = e, !.ticks = ticks]]
  PROVE  SystemRight(s', pc')
<1> DEFINE c == <<t, e, ticks>>
           y == [Rest("block") EXCEPT !.at = "unlock", !.ret = "block", !.id = e, !.ticks = ticks]
<1>1. Makes(op, c) /\ c[1] = t /\ op \in Services /\ op # "isr"
  BY DEF Services, ArgumentTypes
<1>2. /\ RunsIn(s, pc, t, "user") /\ Free(s, t) /\ s.app \in App
      /\ t # Idle /\ c \in Calls[s.app][op] /\ PlacesRight(pc)
  BY <1>1, Made
<1>3. e \in Event /\ ticks \in Nat
  <2>1. c \in Caller \X Event \X Nat
    BY <1>2, CallTypes
  <2> QED  BY <2>1
<1>4. e \in Nat
  BY <1>3, EventAssumption DEF Event
<1>5. \E d \in Calls[s.app].pendSem \cup Calls[s.app].pendMail : d[1] = t
  BY <1>1, <1>2
<1>6. /\ DOMAIN y = {"at", "ret", "id", "ticks", "val", "flags", "ids"}
      /\ y.at = "unlock" /\ y.ret = "block" /\ y.id = e /\ y.ticks = ticks /\ y.val = 0
  BY DEF Rest
<1>7. pc' = [pc EXCEPT ![t] = y]
  OBVIOUS
<1> HIDE DEF y, c
<1>8. y.at \in At /\ y.ret \in At /\ y.id \in Nat /\ y.ticks \in Nat /\ y.val \in Nat
        /\ y.at # "remove" /\ y.ret # "remove"
  BY <1>3, <1>4, <1>6 DEF At, UnlockPlaces, EventPlaces
<1>9. Goes(pc, pc', t) /\ pc'[t] = y /\ PlaceRight(pc'[t])
  BY <1>2, <1>6, <1>7, <1>8, NewCall
<1>10. Carries(y) = "block"
  BY <1>6 DEF Carries, UnlockPlaces
<1> DEFINE r1 == Lock(s)
<1>11. r1 = Lock(s) /\ s' = r1
  OBVIOUS
<1> HIDE DEF r1
<1>12. /\ Right(r1, Ids(pc), {}) /\ Locks(s.k, r1.k, t)
       /\ r1.delayTick = s.delayTick /\ r1.pnode = s.pnode /\ r1.eventID = s.eventID
       /\ r1.pmail = s.pmail /\ r1.eventType = s.eventType /\ r1.app = s.app
       /\ r1.holds = s.holds /\ r1.balance = s.balance
       /\ r1.initialEventCounter = s.initialEventCounter /\ r1.eventCounter = s.eventCounter
       /\ Disciplined => LocksKept(s)
  BY <1>11, SectionStarts
<1>13. Apart(s, s', {t})
  BY <1>11, <1>12, SameApart
<1>14. Free(s', t)
  BY <1>2, <1>11, <1>12 DEF Free
<1>15. Disciplined => LocksKept(s')
  BY <1>11, <1>12, LocksKeptSame
<1>16. Right(s', Ids(pc'), {})
  BY <1>9, <1>11, <1>12, <1>14, IdsGo DEF Free
<1>17. CallRight(s', y, t)
  <2>1. y.id \in Event /\ s'.eventType[y.id] # "invalid"
    BY <1>3, <1>6, <1>11, <1>12
  <2>2. \E d \in Calls[s'.app].pendSem \cup Calls[s'.app].pendMail : d[1] = t
    BY <1>5, <1>11, <1>12
  <2>3. "block" \notin {"off"} \cup ControlPlaces \cup UnlockPlaces \cup MutexPlaces
                         \cup NodePlaces \cup TimerPlaces
    BY DEF ControlPlaces, UnlockPlaces, MutexPlaces, NodePlaces, TimerPlaces
  <2> QED  BY <1>10, <1>14, <2>1, <2>2, <2>3 DEF CallRight, Free
<1>18. Disciplined => PermitCall(s', y, t)
  <2>1. Disciplined => y.id \notin s'.holds[t]
    BY <1>6, <1>11, <1>12
  <2> QED  BY <1>10, <2>1 DEF PermitCall
<1>19. "user" \notin UnlockPlaces \cup {"renew", "renewed"}
  BY DEF UnlockPlaces
<1> QED
  BY <1>2, <1>6, <1>9, <1>10, <1>11, <1>12, <1>13, <1>15, <1>16, <1>17, <1>18, <1>19, TaskLocked

(* A mailbox or a queue is no lock.                                        *)
LEMMA NotHeld ==
  ASSUME SystemInv, Disciplined, NEW t \in Task, NEW e, s.eventType[e] # "sem"
  PROVE  e \notin s.holds[t]
<1>1. LocksKept(s)
  BY DEF SystemInv, SystemRight
<1> QED  BY <1>1 DEF LocksKept

LEMMA PendMailKeeps ==
  ASSUME SystemInv, NEW t \in Task, NEW e, NEW ticks, CoPendMail(t, e, ticks)
  PROVE  SystemRight(s', pc')
<1> DEFINE c == <<t, e, ticks>>
<1>1. Makes("pendMail", c) /\ c[1] = t /\ "pendMail" \in Services
  BY DEF CoPendMail, Services, ArgumentTypes
<1>2. e \in Event
  <2>1. s.app \in App /\ c \in Calls[s.app].pendMail
    BY <1>1, Made
  <2>2. c \in Caller \X Event \X Nat
    BY <2>1, CallTypes
  <2> QED  BY <2>2
<1>3. s.eventType[e] = "mbox" /\ Pend(t, e, ticks, HasMail(s, e), TakeMail(Lock(s), e))
  BY DEF CoPendMail
<1>4. Lock(s).eventType[e] = "mbox"
  BY <1>3, SectionLocked DEF Only, Fields
<1>5. Makes("pendMail", <<t, e, ticks>>)
  BY DEF CoPendMail
<1> HIDE DEF c
<1>6. CASE HasMail(s, e)
  <2>1. s' = TakeMail(Lock(s), e) /\ Unlocks(t, "user")
    BY <1>3, <1>6 DEF Pend
  <2>2. Section
    BY <1>2, <1>4, <2>1, SectionLocked, MailTaken DEF Section
  <2> QED  BY <1>1, <2>1, <2>2, LockedCall
<1>7. CASE ~HasMail(s, e)
  BY <1>3, <1>5, <1>7, NotHeld, PendGoesOn DEF Pend
<1> QED  BY <1>6, <1>7

LEMMA PendQueueMailKeeps ==
  ASSUME SystemInv, NEW t \in Task, NEW e, NEW ticks, CoPendQueueMail(t, e, ticks)
  PROVE  SystemRight(s', pc')
<1> DEFINE c == <<t, e, ticks>>
<1>1. Makes("pendMail", c) /\ c[1] = t /\ "pendMail" \in Services
  BY DEF CoPendQueueMail, Services, ArgumentTypes
<1>2. e \in Event
  <2>1. s.app \in App /\ c \in Calls[s.app].pendMail
    BY <1>1, Made
  <2>2. c \in Caller \X Event \X Nat
    BY <2>1, CallTypes
  <2> QED  BY <2>2
<1>3. s.eventType[e] = "queue" /\ Pend(t, e, ticks, HasQueueMail(s, e), TakeOldest(Lock(s), e))
  BY DEF CoPendQueueMail
<1>4. Lock(s).eventType[e] = "queue" /\ (HasQueueMail(s, e) => HasQueueMail(Lock(s), e))
  BY <1>3, SectionLocked DEF Only, Fields, HasQueueMail
<1>5. Makes("pendMail", <<t, e, ticks>>)
  BY DEF CoPendQueueMail
<1> HIDE DEF c
<1>6. CASE HasQueueMail(s, e)
  <2>1. s' = TakeOldest(Lock(s), e) /\ Unlocks(t, "user")
    BY <1>3, <1>6 DEF Pend
  <2>2. Section
    BY <1>2, <1>4, <1>6, <2>1, SectionLocked, OldestTaken DEF Section
  <2> QED  BY <1>1, <2>1, <2>2, LockedCall
<1>7. CASE ~HasQueueMail(s, e)
  BY <1>3, <1>5, <1>7, NotHeld, PendGoesOn DEF Pend
<1> QED  BY <1>6, <1>7

(* The task is put to wait.                                                *)
LEMMA PendBlocksKeeps ==
  ASSUME SystemInv, NEW t \in Task, PendBlocks(t)
  PROVE  SystemRight(s', pc')
<1> DEFINE e == pc[t].id
           ticks == pc[t].ticks
           ret == IF ticks = 0 THEN "woken" ELSE "timed"
           r1 == Lock(s)
           d == EventTaskToWait(r1, e, t)
<1>1. Runs(t, "block") /\ s' = InsertDelayList(d, t, ticks) /\ Unlocks(t, ret)
  BY DEF PendBlocks
<1>2. "block" \notin {"user", "renew", "renewed"} \cup UnlockPlaces \cup WaitPlaces \cup NodePlaces
  BY DEF UnlockPlaces, WaitPlaces, NodePlaces
<1>3. /\ RunsIn(s, pc, t, "block") /\ t # Idle /\ s.k.state[t] = "RUNNING"
      /\ s.delayTick[t] = NoDelay /\ Carries(pc[t]) = "block" /\ CallRight(s, pc[t], t)
      /\ (Disciplined => PermitCall(s, pc[t], t)) /\ Free(s, t) /\ PlacesRight(pc)
  BY <1>1, <1>2, AtPlace DEF SystemInv, SystemRight
<1>4. /\ e \in Event /\ s.eventType[e] # "invalid"
      /\ \E c \in Calls[s.app].pendSem \cup Calls[s.app].pendMail : c[1] = t
  BY <1>3 DEF CallRight
<1>5. Disciplined => e \notin s.holds[t]
  BY <1>3 DEF PermitCall
<1>6. ticks \in Nat /\ Ids(pc)[t] = e
  BY <1>3, TmrApart DEF PlacesRight, PlaceRight, Ids
<1>7. r1 = Lock(s) /\ d = EventTaskToWait(r1, e, t)
  OBVIOUS
<1>8. ret \in At /\ ret # "remove" /\ ret \in WaitPlaces /\ (ret = "woken" => ticks = 0)
  BY DEF At, EventPlaces, WaitPlaces
<1> HIDE DEF e, ticks, ret, r1, d
<1>9. /\ Right(r1, Ids(pc), {}) /\ Only(s, r1, {"k"}) /\ DOMAIN r1 = Fields
      /\ r1.k \in Kernel /\ Locks(s.k, r1.k, t) /\ r1.k.state = s.k.state
      /\ r1.delayTick = s.delayTick /\ r1.pnode = s.pnode /\ r1.eventID = s.eventID
      /\ r1.pmail = s.pmail /\ r1.eventType = s.eventType /\ (Disciplined => LocksKept(s))
  BY <1>7, SectionStarts
<1>10. /\ Right(d, Ids(pc), {})
       /\ Only(r1, d, {"eventTCBList", "eventID", "waitNext", "waitPrev", "k"})
       /\ d.eventID = [r1.eventID EXCEPT ![t] = e] /\ d.k = WaitKernel(r1.k, t)
  BY <1>3, <1>4, <1>6, <1>7, <1>9, EventWaits DEF Free
<1>11. /\ d.delayTick = s.delayTick /\ d.pnode = s.pnode
       /\ Only(s, d, {"eventTCBList", "eventID", "waitNext", "waitPrev", "k"})
  <2>1. Only(s, d, {"eventTCBList", "eventID", "waitNext", "waitPrev", "k"})
    BY <1>9, <1>10 DEF Only
  <2> QED  BY <2>1 DEF Only, Fields
<1>12. Locks(s.k, d.k, t) /\ d.k.state[t] = "WAITING"
  <2>1. d.k.state = [r1.k.state EXCEPT ![t] = "WAITING"]
    BY <1>9, <1>10, WaitKernelFacts
  <2>2. DOMAIN r1.k.state = Task
    BY <1>9 DEF Kernel
  <2> QED  BY <1>9, <1>10, <2>1, <2>2, WaitLocks
<1>13. /\ Right(s', Ids(pc), {}) /\ Locks(s.k, s'.k, t)
       /\ Only(s, s', {"eventTCBList", "eventID", "waitNext", "waitPrev", "k",
                       "DlyList", "delayTick"})
       /\ s'.eventID = d.eventID
       /\ \A u \in Task \ {t} : s'.delayTick[u] = NoDelay <=> s.delayTick[u] = NoDelay
       /\ ticks = 0 => s'.delayTick[t] = NoDelay
  <2>1. CASE ticks = 0
    <3>1. s' = d
      BY <1>1, <2>1 DEF InsertDelayList
    <3> QED  BY <1>3, <1>10, <1>11, <1>12, <3>1 DEF Only
  <2>2. CASE ticks # 0
    <3>1. /\ Right(s', Ids(pc), {} \ {t}) /\ Only(d, s', {"DlyList", "delayTick", "k"})
          /\ s'.k = WaitKernel(d.k, t)
          /\ \A u \in Task \ {t} : s'.delayTick[u] = NoDelay <=> d.delayTick[u] = NoDelay
      BY <1>1, <1>3, <1>6, <1>10, <1>11, <1>12, <2>2, DelayInserted, SMTT(30) DEF Free
    <3>2. {} \ {t} = {}
      OBVIOUS
    <3>3. Locks(s.k, s'.k, t)
      BY <1>12, <3>1, WaitLocks
    <3>4. s'.eventID = d.eventID
      BY <3>1 DEF Only, Fields
    <3>5. Only(s, s', {"eventTCBList", "eventID", "waitNext", "waitPrev", "k",
                       "DlyList", "delayTick"})
      BY <1>11, <3>1 DEF Only
    <3> QED  BY <1>11, <2>2, <3>1, <3>2, <3>3, <3>4, <3>5
  <2> QED  BY <2>1, <2>2
<1>14. /\ s'.app = s.app /\ s'.eventType = s.eventType /\ s'.holds = s.holds
       /\ s'.initialEventCounter = s.initialEventCounter /\ s'.balance = s.balance
       /\ s'.eventCounter = s.eventCounter /\ s'.pmail = s.pmail /\ s'.pnode = s.pnode
  BY <1>13 DEF Only, Fields
<1>15. s'.eventID[t] = e /\ \A u \in Task \ {t} : s'.eventID[u] = s.eventID[u]
  <2>1. DOMAIN r1.eventID = Task
    BY <1>9 DEF Right, Shape
  <2> QED  BY <1>9, <1>10, <1>13, <2>1
<1>16. Apart(s, s', {t})
  BY <1>13, <1>14, <1>15, SameApart
<1>17. Disciplined => LocksKept(s')
  BY <1>9, <1>14, LocksKeptSame
<1>18. /\ Goes(pc, pc', t) /\ PlaceRight(pc'[t]) /\ pc'[t].at = "unlock"
       /\ Carries(pc'[t]) = ret /\ pc'[t].id = e
  BY <1>1, <1>3, <1>8, UnlocksGo DEF e
<1>19. Right(s', Ids(pc'), {})
  BY <1>13, <1>18, IdsGo DEF e
<1>20. CallRight(s', pc'[t], t)
  <2>1. e # NoEvent
    BY <1>4, EventAssumption DEF Event, NoEvent
  <2>2. s'.pnode[t] = "null" /\ s'.pmail[t] = NoMail /\ s'.eventID[t] # NoEvent
    BY <1>3, <1>14, <1>15, <2>1 DEF Free
  <2>3. \A a \in WaitPlaces : a \notin {"off"} \cup ControlPlaces \cup UnlockPlaces \cup MutexPlaces
                         \cup NodePlaces \cup TimerPlaces \cup {"post", "renew", "accept", "store"}
    BY DEF WaitPlaces, ControlPlaces, UnlockPlaces, MutexPlaces, NodePlaces, TimerPlaces
  <2>4. ret = "woken" => s'.delayTick[t] = NoDelay
    BY <1>8, <1>13
  <2>5. /\ s'.eventType[e] # "invalid"
        /\ \E c \in Calls[s'.app].pendSem \cup Calls[s'.app].pendMail : c[1] = t
    BY <1>4, <1>14
  <2> QED  BY <1>4, <1>8, <1>18, <2>2, <2>3, <2>4, <2>5 DEF CallRight, NodePlaces
<1>21. Disciplined => PermitCall(s', pc'[t], t)
  <2>1. ret \notin {"post", "accept", "store"}
    BY <1>8 DEF WaitPlaces
  <2> QED  BY <1>5, <1>14, <1>18, <2>1 DEF PermitCall
<1>22. ret \notin {"renew", "renewed"}
  BY <1>8 DEF WaitPlaces
<1> QED
  BY <1>2, <1>3, <1>13, <1>16, <1>17, <1>18, <1>19, <1>20, <1>21, <1>22, TaskLocked

-----------------------------------------------------------------------------
(* A step of a task without a lock in general.                             *)
LEMMA TaskQuiet ==
  ASSUME SystemInv, NEW t \in Task, t # Idle, NEW at, RunsIn(s, pc, t, at),
         at \notin UnlockPlaces \cup {"renew", "renewed"},
         Right(s', Ids(pc'), {}), Apart(s, s', {t}), s'.k = s.k,
         Goes(pc, pc', t), PlaceRight(pc'[t]),
         pc'[t].at \notin UnlockPlaces \cup {"renew", "renewed"}, CallRight(s', pc'[t], t),
         Disciplined => LocksKept(s') /\ PermitCall(s', pc'[t], t)
  PROVE  SystemRight(s', pc')
<1>1. SystemRight(s, pc)
  BY DEF SystemInv
<1>2. HeldBy(pc[t]) = 0
  BY DEF HeldBy, Carries, RunsIn, Opens
<1>3. HeldBy(pc'[t]) = 0
  BY DEF HeldBy, Carries, Opens
<1>4. LocksRight(s'.k, pc') /\ RunningRight(s'.k, pc')
  <2>1. /\ s.k \in Kernel /\ LocksRight(s.k, pc) /\ RunningRight(s.k, pc) /\ pc[Tmr].ret = "off"
        /\ pc[t].at \notin UnlockPlaces
    BY <1>1 DEF SystemRight, Right, Shape, PlacesRight, RunsIn
  <2> QED  BY <2>1, <1>2, <1>3, SwitchQuiet DEF RunsIn
<1> QED  BY <1>1, <1>4, TaskStep

LEMMA ServesTasks ==
  ASSUME NEW r, NEW r2, NEW E, NEW A, Serves(r, r2, E)
  PROVE  TasksApart(r, r2, A)
BY DEF Serves, TasksApart

-----------------------------------------------------------------------------
(* A permit is taken from the counter, or received, and reported.          *)
TakesPermit(r, r2, t, e) ==
  /\ r2.balance = [r.balance EXCEPT ![e] = r.balance[e] - 1]
  /\ r2.holds = [r.holds EXCEPT ![t] = r.holds[t] \cup ({e} \cap Setup[r.app].locks)]

LEMMA LockTaken ==
  ASSUME NEW r, NEW r2, LocksKept(r), NEW t \in Task, NEW e \in Event, e \notin r.holds[t],
         r2.app = r.app, r2.eventType = r.eventType,
         r2.initialEventCounter = r.initialEventCounter, TakesPermit(r, r2, t, e),
         r.balance \in [Event -> Int], r.holds \in [Task -> SUBSET Event]
  PROVE  LocksKept(r2)
<1>1. \A u \in Task : r2.holds[u] \subseteq Setup[r.app].locks
  BY DEF LocksKept, TakesPermit
<1>2. ASSUME NEW f \in Setup[r.app].locks
      PROVE  r2.balance[f] + Cardinality(Holders(r2, f)) = Setup[r.app].events[f + 1].count
  <2> DEFINE H == Holders(r, f)
  <2>1. f \in Event /\ r.balance[f] + Cardinality(H) = Setup[r.app].events[f + 1].count
    BY <1>2 DEF LocksKept
  <2>2. CASE f # e
    <3>1. r2.balance[f] = r.balance[f]
      BY <2>1, <2>2 DEF TakesPermit
    <3>2. \A u \in Task : f \in r2.holds[u] <=> f \in r.holds[u]
      BY <2>2 DEF TakesPermit
    <3>3. Holders(r2, f) = H
      BY <3>2 DEF Holders
    <3> QED  BY <2>1, <3>1, <3>3
  <2>3. CASE f = e
    <3>1. r2.balance[f] = r.balance[f] - 1 /\ r.balance[f] \in Int
      BY <2>1, <2>3 DEF TakesPermit
    <3>2. \A u \in Task : f \in r2.holds[u] <=> f \in r.holds[u] \/ u = t
      BY <1>2, <2>3 DEF TakesPermit
    <3>3. Holders(r2, f) = H \cup {t} /\ t \notin H
      BY <2>3, <3>2 DEF Holders
    <3>4. IsFiniteSet(H)
      BY TaskFinite, FS_Subset DEF Holders
    <3>5. Cardinality(H \cup {t}) = Cardinality(H) + 1 /\ Cardinality(H) \in Nat
      BY <3>3, <3>4, FS_AddElement, FS_CardinalityType
    <3> QED  BY <2>1, <3>1, <3>3, <3>5
  <2> QED  BY <2>2, <2>3
<1> QED  BY <1>1, <1>2 DEF LocksKept

LEMMA PermitTaken ==
  ASSUME NEW r, NEW id, Right(r, id, {}), NEW t \in Task, NEW e \in Event,
         r.pmail[t] = NoMail, NEW c \in Nat,
         Disciplined => c = r.eventCounter[e] - 1,
         NEW r2, r2 = Reported([r EXCEPT !.eventCounter = [r.eventCounter EXCEPT ![e] = c]], t, e)
  PROVE  /\ Right(r2, id, {}) /\ TakesPermit(r, r2, t, e)
         /\ Only(r, r2, {"eventCounter", "pmail", "balance", "holds", "out"})
         /\ r2.eventCounter = [r.eventCounter EXCEPT ![e] = c]
         /\ \A u \in Task : r2.pmail[u] = r.pmail[u]
<1>1. /\ DOMAIN r = Fields /\ r.k \in Kernel /\ r.eventCounter \in [Event -> Nat]
      /\ DOMAIN r.pmail = Task /\ DOMAIN r.eventPtr = Event /\ r.balance \in [Event -> Int]
      /\ r.holds \in [Task -> SUBSET Event] /\ RingsRight(r)
      /\ Disciplined => PermitsRight(r, id)
  BY DEF Right, Shape
<1> DEFINE a == [r EXCEPT !.eventCounter = [r.eventCounter EXCEPT ![e] = c]]
           b == [a EXCEPT !.pmail = [@ EXCEPT ![t] = Woken]]
<1>2. /\ Only(r, a, {"eventCounter"}) /\ a.eventCounter = [r.eventCounter EXCEPT ![e] = c]
      /\ DOMAIN a = Fields /\ a.pmail = r.pmail
  BY <1>1 DEF Only, Fields
<1>3. r2 = Received(b, t, e)
  BY DEF Reported
<1> HIDE DEF a
<1>4. /\ Only(a, b, {"pmail"}) /\ b.pmail = [r.pmail EXCEPT ![t] = Woken]
      /\ DOMAIN b = Fields
  BY <1>2 DEF Only, Fields
<1> HIDE DEF b
<1>5. b.pmail[t] = Woken
  BY <1>1, <1>4
<1>6. /\ b.balance = r.balance /\ b.holds = r.holds /\ b.app = r.app
      /\ b.eventCounter = [r.eventCounter EXCEPT ![e] = c]
      /\ Only(r, b, {"eventCounter", "pmail"})
  BY <1>2, <1>4 DEF Only, Fields
<1>7. r2 = [b EXCEPT !.pmail   = [b.pmail EXCEPT ![t] = NoMail],
                     !.out     = @ \ {b.pmail[t]},
                     !.balance = [b.balance EXCEPT ![e] = b.balance[e] - 1],
                     !.holds   = [b.holds EXCEPT ![t] = b.holds[t]
                                          \cup ({e} \cap Setup[b.app].locks)]]
  BY <1>3, <1>5 DEF Received
<1>8. /\ r2.pmail = [b.pmail EXCEPT ![t] = NoMail] /\ TakesPermit(r, r2, t, e)
      /\ Only(b, r2, {"pmail", "out", "balance", "holds"}) /\ r2.eventCounter = b.eventCounter
  <2>1. /\ r2.pmail = [b.pmail EXCEPT ![t] = NoMail] /\ r2.eventCounter = b.eventCounter
        /\ r2.balance = [b.balance EXCEPT ![e] = b.balance[e] - 1]
        /\ r2.holds = [b.holds EXCEPT ![t] = b.holds[t] \cup ({e} \cap Setup[b.app].locks)]
        /\ Only(b, r2, {"pmail", "out", "balance", "holds"})
    <3> DEFINE P == [b.pmail EXCEPT ![t] = NoMail]
               O == b.out \ {b.pmail[t]}
               B == [b.balance EXCEPT ![e] = b.balance[e] - 1]
               H == [b.holds EXCEPT ![t] = b.holds[t] \cup ({e} \cap Setup[b.app].locks)]
    <3>1. r2 = [b EXCEPT !.pmail = P, !.out = O, !.balance = B, !.holds = H]
      BY <1>7
    <3> HIDE DEF P, O, B, H
    <3>2. DOMAIN b = Fields
      BY <1>4
    <3>3. Only(b, r2, {"pmail", "out", "balance", "holds"})
      BY ONLY <3>1, <3>2 DEF Only, Fields
    <3>4. r2.pmail = P /\ r2.balance = B /\ r2.holds = H
      BY ONLY <3>1, <3>2 DEF Fields
    <3>5. r2.eventCounter = b.eventCounter
      BY ONLY <3>3 DEF Only, Fields
    <3> QED  BY <3>3, <3>4, <3>5 DEF P, B, H
  <2> QED  BY <1>6, <2>1 DEF TakesPermit
<1>9. DOMAIN r2.pmail = Task /\ \A u \in Task : r2.pmail[u] = r.pmail[u]
  BY <1>1, <1>4, <1>8
<1>10. Only(r, r2, {"eventCounter", "pmail", "balance", "holds", "out"})
  BY <1>6, <1>8 DEF Only
<1>11. /\ r2.eventType = r.eventType /\ r2.initialEventCounter = r.initialEventCounter
       /\ r2.QueueTbl = r.QueueTbl /\ r2.eventPtr = r.eventPtr
  BY <1>10 DEF Only, Fields
<1>12. r2.eventCounter = [r.eventCounter EXCEPT ![e] = c]
  BY <1>6, <1>8
<1>13. RingsRight(r2)
  BY <1>1, <1>11 DEF RingsRight
<1>14. ASSUME Disciplined PROVE PermitsRight(r2, id)
  <2> SUFFICES ASSUME NEW f \in Event, r.eventType[f] = "sem"
               PROVE  /\ r2.eventCounter[f] <= r.initialEventCounter[f]
                      /\ r.initialEventCounter[f] <= MaxCount
                      /\ r2.eventCounter[f] + Cardinality(Given(r, id, f)) = r2.balance[f]
    <3>1. \A f : Given(r2, id, f) = Given(r, id, f)
      BY <1>9 DEF Given
    <3> QED  BY <1>11, <3>1 DEF PermitsRight
  <2>1. /\ r.eventCounter[f] <= r.initialEventCounter[f] /\ r.initialEventCounter[f] <= MaxCount
        /\ r.eventCounter[f] + Cardinality(Given(r, id, f)) = r.balance[f]
    BY <1>1, <1>14 DEF PermitsRight
  <2>2. CASE f # e
    <3>1. r2.eventCounter[f] = r.eventCounter[f] /\ r2.balance[f] = r.balance[f]
      BY <1>1, <1>8, <1>12, <2>2 DEF TakesPermit
    <3> QED  BY <2>1, <3>1
  <2>3. CASE f = e
    <3>1. r2.eventCounter[f] = r.eventCounter[f] - 1 /\ r2.balance[f] = r.balance[f] - 1
      BY <1>1, <1>8, <1>12, <1>14, <2>3 DEF TakesPermit
    <3>2. Cardinality(Given(r, id, f)) \in Nat
      <4>1. Given(r, id, f) \subseteq Task
        BY DEF Given
      <4> QED  BY <4>1, TaskFinite, FS_Subset, FS_CardinalityType
    <3>3. /\ r.eventCounter[f] \in Nat /\ r.balance[f] \in Int
          /\ r.initialEventCounter[f] \in Nat
      BY DEF Right, Shape
    <3> QED  BY <2>1, <3>1, <3>2, <3>3
  <2> QED  BY <2>2, <2>3
<1>15. r2.balance \in [Event -> Int] /\ r2.holds \in [Task -> SUBSET Event]
  <2>1. r.balance[e] - 1 \in Int
    BY <1>1
  <2>2. r.holds[t] \cup ({e} \cap Setup[r.app].locks) \in SUBSET Event
    BY <1>1
  <2> QED  BY <1>1, <1>8, <2>1, <2>2 DEF TakesPermit
<1>16. r2.eventCounter \in [Event -> Nat] /\ DOMAIN r2.pmail = Task /\ DOMAIN r2.eventPtr = Event
  BY <1>1, <1>9, <1>11, <1>12
<1>17. Only(r, r2, {"eventCounter", "eventPtr", "pmail", "QueueTbl", "balance", "holds", "out"})
  BY <1>10 DEF Only
<1>18. \A u \in Task : r.eventID[u] # NoEvent => r2.pmail[u] = r.pmail[u]
  BY <1>9
<1>19. Right(r2, id, {})
  BY <1>13, <1>14, <1>15, <1>16, <1>17, <1>18, MailsChange
<1> QED  BY <1>8, <1>9, <1>10, <1>12, <1>19

(* Others see only that the counter has fallen.                            *)
LEMMA TakenApart ==
  ASSUME NEW r, NEW r2, NEW t \in Task, NEW e \in Event,
         TakesPermit(r, r2, t, e), r.holds \in [Task -> SUBSET Event],
         r.eventCounter \in [Event -> Nat], NEW c \in Nat,
         Disciplined => t \in Users(r.app, e), Disciplined => c = r.eventCounter[e] - 1,
         Only(r, r2, {"eventCounter", "pmail", "balance", "holds", "out"}),
         \A u \in Task : r2.pmail[u] = r.pmail[u],
         r2.eventCounter = [r.eventCounter EXCEPT ![e] = c]
  PROVE  Apart(r, r2, {t})
<1>1. /\ r2.app = r.app /\ r2.eventType = r.eventType
      /\ r2.initialEventCounter = r.initialEventCounter /\ r2.eventID = r.eventID
      /\ r2.pnode = r.pnode /\ r2.delayTick = r.delayTick
  BY DEF Only, Fields
<1>2. \A u \in Task \ {t} : r2.holds[u] = r.holds[u]
  BY DEF TakesPermit
<1>3. TasksApart(r, r2, {t})
  BY <1>1, <1>2 DEF TasksApart
<1>4. CountersApart(r, r2, {t})
  <2> SUFFICES ASSUME Disciplined, NEW f \in Event
               PROVE  r2.eventCounter[f] = r.eventCounter[f]
                           \/ (f = e /\ r2.eventCounter[f] < r.eventCounter[f])
    BY DEF CountersApart
  <2>1. CASE f # e
    BY <2>1
  <2>2. CASE f = e
    <3>1. r2.eventCounter[f] = r.eventCounter[e] - 1 /\ r.eventCounter[e] \in Nat
      BY <2>2
    <3> QED  BY <2>2, <3>1
  <2> QED  BY <2>1, <2>2
<1> QED  BY <1>1, <1>3, <1>4 DEF Apart

-----------------------------------------------------------------------------
(* The calling task takes a permit of a semaphore.                         *)
LEMMA PermitStep ==
  ASSUME SystemInv, NEW t \in Task, Free(s, t), NEW e \in Event, NEW n \in Nat,
         Disciplined => /\ e \notin s.holds[t] /\ t \in Users(s.app, e)
                        /\ n = s.eventCounter[e] - 1,
         NEW r1, Right(r1, Ids(pc), {}), Only(s, r1, {"k"}),
         s' = Reported([r1 EXCEPT !.eventCounter = [r1.eventCounter EXCEPT ![e] = n]], t, e)
  PROVE  /\ Right(s', Ids(pc), {}) /\ Apart(s, s', {t}) /\ Free(s', t) /\ s'.k = r1.k
         /\ Disciplined => LocksKept(s')
<1>1. /\ r1.app = s.app /\ r1.eventType = s.eventType /\ r1.pmail = s.pmail
      /\ r1.eventID = s.eventID /\ r1.pnode = s.pnode
      /\ r1.holds = s.holds /\ r1.balance = s.balance
      /\ r1.initialEventCounter = s.initialEventCounter /\ r1.eventCounter = s.eventCounter
  BY DEF Only, Fields
<1>2. r1.pmail[t] = NoMail
  BY <1>1 DEF Free
<1>3. Disciplined => n = r1.eventCounter[e] - 1
  BY <1>1
<1>4. /\ Right(s', Ids(pc), {}) /\ TakesPermit(r1, s', t, e)
      /\ Only(r1, s', {"eventCounter", "pmail", "balance", "holds", "out"})
      /\ s'.eventCounter = [r1.eventCounter EXCEPT ![e] = n]
      /\ \A u \in Task : s'.pmail[u] = r1.pmail[u]
  BY <1>2, <1>3, PermitTaken
<1>5. /\ r1.holds \in [Task -> SUBSET Event] /\ r1.eventCounter \in [Event -> Nat]
      /\ r1.balance \in [Event -> Int]
  BY DEF Right, Shape
<1>6. Apart(r1, s', {t})
  <2>1. Disciplined => t \in Users(r1.app, e)
    BY <1>1
  <2> QED  BY <1>3, <1>4, <1>5, <2>1, TakenApart
<1>7. Apart(s, s', {t})
  BY <1>6, ApartFrom
<1>8. /\ s'.k = r1.k /\ s'.app = r1.app /\ s'.eventType = r1.eventType
      /\ s'.initialEventCounter = r1.initialEventCounter
      /\ s'.eventID = r1.eventID /\ s'.pnode = r1.pnode
  BY <1>4 DEF Only, Fields
<1>9. Free(s', t)
  BY <1>1, <1>4, <1>8 DEF Free
<1>10. ASSUME Disciplined PROVE LocksKept(s')
  <2>1. LocksKept(s)
    BY <1>10 DEF SystemInv, SystemRight
  <2>2. LocksKept(r1)
    BY <2>1, LocksKeptFrom
  <2>3. e \notin r1.holds[t]
    BY <1>1, <1>10
  <2> QED  BY <1>4, <1>5, <1>8, <2>2, <2>3, LockTaken
<1> QED  BY <1>4, <1>7, <1>8, <1>9, <1>10

LEMMA PendSemKeeps ==
  ASSUME SystemInv, NEW t \in Task, NEW e, NEW ticks, CoPendSem(t, e, ticks)
  PROVE  SystemRight(s', pc')
<1> DEFINE c == <<t, e, ticks>>
<1>1. Makes("pendSem", c) /\ c[1] = t /\ c[2] = e /\ "pendSem" \in Services
  BY DEF CoPendSem, Services, ArgumentTypes
<1>2. /\ RunsIn(s, pc, t, "user") /\ Free(s, t) /\ s.app \in App /\ t # Idle
      /\ c \in Calls[s.app].pendSem /\ PlacesRight(pc)
  BY <1>1, Made
<1>3. e \in Event
  <2>1. c \in Caller \X Event \X Nat
    BY <1>2, CallTypes
  <2> QED  BY <2>1
<1>4. /\ s.eventType[e] = "sem" /\ e \notin s.holds[t]
      /\ Pend(t, e, ticks, s.eventCounter[e] > 0,
              Reported([Lock(s) EXCEPT !.eventCounter[e] = @ - 1], t, e))
  BY DEF CoPendSem
<1>5. Makes("pendSem", <<t, e, ticks>>)
  BY DEF CoPendSem
<1>6. t \in Users(s.app, e)
  <2> HIDE DEF c
  <2>1. c \in {d \in Calls[s.app].pendSem \cup Calls[s.app].acceptSem : d[2] = e}
    BY <1>1, <1>2
  <2> QED  BY <1>1, <2>1 DEF Users
<1> HIDE DEF c
<1>7. CASE s.eventCounter[e] > 0
  <2> DEFINE r1 == Lock(s)
             n == s.eventCounter[e] - 1
  <2>1. r1 = Lock(s) /\ n = s.eventCounter[e] - 1
    OBVIOUS
  <2>2. s' = Reported([r1 EXCEPT !.eventCounter[e] = @ - 1], t, e) /\ Unlocks(t, "user")
    BY <1>4, <1>7 DEF Pend
  <2> HIDE DEF r1, n
  <2>3. /\ Right(r1, Ids(pc), {}) /\ Only(s, r1, {"k"}) /\ DOMAIN r1 = Fields
        /\ Locks(s.k, r1.k, t) /\ r1.eventCounter = s.eventCounter
    BY <2>1, SectionStarts
  <2>4. [r1 EXCEPT !.eventCounter[e] = @ - 1]
          = [r1 EXCEPT !.eventCounter = [r1.eventCounter EXCEPT ![e] = n]]
    BY <2>1, <2>3 DEF Fields
  <2>5. n \in Nat
    <3>1. s.eventCounter[e] \in Nat
      BY <1>3 DEF SystemInv, SystemRight, Right, Shape
    <3> QED  BY <1>7, <2>1, <3>1
  <2>6. /\ Right(s', Ids(pc), {}) /\ Apart(s, s', {t}) /\ Free(s', t) /\ s'.k = r1.k
        /\ Disciplined => LocksKept(s')
    <3>1. s' = Reported([r1 EXCEPT !.eventCounter = [r1.eventCounter EXCEPT ![e] = n]], t, e)
      BY <2>2, <2>4
    <3>2. Disciplined => /\ e \notin s.holds[t] /\ t \in Users(s.app, e)
                         /\ n = s.eventCounter[e] - 1
      BY <1>4, <1>6, <2>1
    <3> QED  BY <1>2, <1>3, <2>3, <2>5, <3>1, <3>2, PermitStep
  <2>7. /\ Goes(pc, pc', t) /\ PlaceRight(pc'[t])
        /\ pc'[t].at = "unlock" /\ Carries(pc'[t]) = "user"
    BY <1>2, <2>2, UnlocksGo DEF At
  <2>8. Right(s', Ids(pc'), {})
    BY <2>6, <2>7, IdsGo DEF Free
  <2>9. CallRight(s', pc'[t], t) /\ PermitCall(s', pc'[t], t)
    BY <2>6, <2>7, CallEasy DEF EasyPlaces
  <2>10. "user" \notin UnlockPlaces \cup {"renew", "renewed"}
    BY DEF UnlockPlaces
  <2> QED  BY <1>2, <2>3, <2>6, <2>7, <2>8, <2>9, <2>10, TaskLocked
<1>8. CASE ~(s.eventCounter[e] > 0)
  BY <1>4, <1>5, <1>8, PendGoesOn DEF Pend
<1> QED  BY <1>7, <1>8

-----------------------------------------------------------------------------
(* CoAcceptSem(), and the load and the store after its unlock.             *)
LEMMA AcceptSemKeeps ==
  ASSUME SystemInv, NEW t \in Task, NEW e, CoAcceptSem(t, e)
  PROVE  SystemRight(s', pc')
<1> DEFINE c == <<t, e>>
           ret == IF s.eventCounter[e] > 0 THEN "accept" ELSE "user"
           y == [Rest("user") EXCEPT !.at = "unlock", !.id = e, !.ret = ret]
<1>1. Makes("acceptSem", c) /\ c[1] = t /\ c[2] = e /\ "acceptSem" \in Services
  BY DEF CoAcceptSem, Services, ArgumentTypes
<1>2. /\ RunsIn(s, pc, t, "user") /\ Free(s, t) /\ s.app \in App /\ t # Idle
      /\ c \in Calls[s.app].acceptSem /\ PlacesRight(pc)
  BY <1>1, Made
<1>3. e \in Event
  <2>1. c \in Caller \X Event
    BY <1>2, CallTypes
  <2> QED  BY <2>1
<1>4. s.eventType[e] = "sem" /\ e \notin s.holds[t] /\ s' = Lock(s) /\ pc' = [pc EXCEPT ![t] = y]
  BY DEF CoAcceptSem
<1>5. <<t, e>> \in Calls[s.app].acceptSem
  BY <1>2
<1>6. e \in Nat
  BY <1>3, EventAssumption DEF Event
<1>7. /\ DOMAIN y = {"at", "ret", "id", "ticks", "val", "flags", "ids"}
      /\ y.at = "unlock" /\ y.ret = ret /\ y.id = e /\ y.ticks = 0 /\ y.val = 0
  BY DEF Rest
<1>8. ret \in {"accept", "user"} /\ (ret = "accept" => s.eventCounter[e] > 0)
  OBVIOUS
<1> HIDE DEF y, c, ret
<1>9. y.at \in At /\ y.ret \in At /\ y.id \in Nat /\ y.ticks \in Nat /\ y.val \in Nat
        /\ y.at # "remove" /\ y.ret # "remove"
  BY <1>6, <1>7, <1>8 DEF At, UnlockPlaces, EventPlaces
<1>10. Goes(pc, pc', t) /\ pc'[t] = y /\ PlaceRight(pc'[t])
  BY <1>2, <1>4, <1>7, <1>9, NewCall
<1>11. Carries(y) = ret
  BY <1>7 DEF Carries, UnlockPlaces
<1> DEFINE r1 == Lock(s)
<1>12. r1 = Lock(s) /\ s' = r1
  BY <1>4
<1> HIDE DEF r1
<1>13. /\ Right(r1, Ids(pc), {}) /\ Locks(s.k, r1.k, t)
       /\ r1.delayTick = s.delayTick /\ r1.pnode = s.pnode /\ r1.eventID = s.eventID
       /\ r1.pmail = s.pmail /\ r1.eventType = s.eventType /\ r1.app = s.app
       /\ r1.holds = s.holds /\ r1.balance = s.balance
       /\ r1.initialEventCounter = s.initialEventCounter /\ r1.eventCounter = s.eventCounter
       /\ Disciplined => LocksKept(s)
  BY <1>12, SectionStarts
<1>14. Apart(s, s', {t})
  BY <1>12, <1>13, SameApart
<1>15. Free(s', t)
  BY <1>2, <1>12, <1>13 DEF Free
<1>16. Disciplined => LocksKept(s')
  BY <1>12, <1>13, LocksKeptSame
<1>17. Right(s', Ids(pc'), {})
  BY <1>10, <1>12, <1>13, <1>15, IdsGo DEF Free
<1>18. CallRight(s', y, t) /\ PermitCall(s', y, t)
  <2>1. CASE ret = "user"
    BY <1>11, <1>15, <2>1, CallEasy DEF EasyPlaces
  <2>2. CASE ret = "accept"
    <3>1. "accept" \notin {"off"} \cup ControlPlaces \cup UnlockPlaces \cup MutexPlaces
                         \cup NodePlaces \cup TimerPlaces \cup WaitPlaces
      BY DEF ControlPlaces, UnlockPlaces, MutexPlaces, NodePlaces, TimerPlaces, WaitPlaces
    <3>2. CallRight(s', y, t)
      BY <1>3, <1>7, <1>11, <1>15, <2>2, <3>1 DEF CallRight, Free
    <3>3. /\ s'.eventType[e] = "sem" /\ e \notin s'.holds[t]
          /\ <<t, e>> \in Calls[s'.app].acceptSem /\ s'.eventCounter[e] > 0
      BY <1>4, <1>5, <1>8, <1>12, <1>13, <2>2
    <3> QED  BY <1>7, <1>11, <2>2, <3>1, <3>2, <3>3 DEF PermitCall
  <2> QED  BY <1>8, <2>1, <2>2
<1>19. "user" \notin UnlockPlaces \cup {"renew", "renewed"}
  BY DEF UnlockPlaces
<1>20. ret \notin {"renew", "renewed"}
  BY <1>8
<1> QED
  BY <1>2, <1>7, <1>10, <1>11, <1>12, <1>13, <1>14, <1>16, <1>17, <1>18, <1>19, <1>20, TaskLocked

(* Places of the accept.                                                   *)
LEMMA AcceptsAt ==
  ASSUME SystemInv, NEW t \in Task, NEW at \in {"accept", "store"}, Runs(t, at)
  PROVE  /\ RunsIn(s, pc, t, at) /\ t # Idle /\ Free(s, t) /\ PlacesRight(pc)
         /\ at \notin UnlockPlaces \cup {"renew", "renewed"} /\ pc[t].id \in Event
         /\ Disciplined =>
              /\ s.eventType[pc[t].id] = "sem" /\ pc[t].id \notin s.holds[t]
              /\ <<t, pc[t].id>> \in Calls[s.app].acceptSem /\ s.eventCounter[pc[t].id] > 0
              /\ at = "store" => pc[t].val = s.eventCounter[pc[t].id]
<1>1. at \notin {"user", "renew", "renewed"} \cup UnlockPlaces \cup WaitPlaces \cup NodePlaces
  BY DEF UnlockPlaces, WaitPlaces, NodePlaces
<1>2. /\ RunsIn(s, pc, t, at) /\ t # Idle /\ Free(s, t) /\ PlacesRight(pc)
      /\ Carries(pc[t]) = at /\ CallRight(s, pc[t], t)
      /\ Disciplined => PermitCall(s, pc[t], t)
  BY <1>1, AtPlace DEF SystemInv, SystemRight
<1>3. pc[t].id \in Event
  BY <1>2 DEF CallRight
<1>4. Disciplined =>
        /\ s.eventType[pc[t].id] = "sem" /\ pc[t].id \notin s.holds[t]
        /\ <<t, pc[t].id>> \in Calls[s.app].acceptSem /\ s.eventCounter[pc[t].id] > 0
        /\ at = "store" => pc[t].val = s.eventCounter[pc[t].id]
  BY <1>2 DEF PermitCall
<1> QED  BY <1>1, <1>2, <1>3, <1>4

LEMMA AcceptLoadsKeeps ==
  ASSUME SystemInv, NEW t \in Task, AcceptLoads(t)
  PROVE  SystemRight(s', pc')
<1> DEFINE e == pc[t].id
           y == [pc[t] EXCEPT !.at = "store", !.val = s.eventCounter[e]]
<1>1. Runs(t, "accept") /\ s' = s
  BY DEF AcceptLoads
<1>2. /\ RunsIn(s, pc, t, "accept") /\ t # Idle /\ Free(s, t) /\ PlacesRight(pc)
      /\ "accept" \notin UnlockPlaces \cup {"renew", "renewed"} /\ e \in Event
      /\ Disciplined =>
           /\ s.eventType[e] = "sem" /\ e \notin s.holds[t]
           /\ <<t, e>> \in Calls[s.app].acceptSem /\ s.eventCounter[e] > 0
  BY <1>1, AcceptsAt
<1>3. /\ Right(s, Ids(pc), {}) /\ (Disciplined => LocksKept(s)) /\ s.eventCounter[e] \in Nat
  BY <1>2 DEF SystemInv, SystemRight, Right, Shape
<1>4. PlaceRight(pc[t]) /\ DOMAIN pc = Context /\ t \in Context
  BY <1>2, TmrApart DEF PlacesRight
<1>5. pc' = [pc EXCEPT ![t] = y]
  BY <1>4 DEF AcceptLoads, PlaceRight
<1>6. /\ DOMAIN y = {"at", "ret", "id", "ticks", "val", "flags", "ids"} /\ y.at = "store"
      /\ y.ret = pc[t].ret /\ y.id = e /\ y.ticks = pc[t].ticks /\ y.val = s.eventCounter[e]
  BY <1>4 DEF PlaceRight
<1>7. e \in Nat
  BY <1>4 DEF PlaceRight
<1> HIDE DEF y, e
<1>8. y.at \in At /\ y.ret \in At /\ y.id \in Nat /\ y.ticks \in Nat /\ y.val \in Nat
        /\ y.at # "remove" /\ y.ret # "remove"
  <2>1. y.ret \in At /\ y.ret # "remove" /\ y.ticks \in Nat
    BY <1>4, <1>6 DEF PlaceRight
  <2> QED  BY <1>3, <1>6, <1>7, <2>1 DEF At, EventPlaces
<1>9. Goes(pc, pc', t) /\ pc'[t] = y /\ PlaceRight(pc'[t])
  BY <1>2, <1>5, <1>6, <1>8, NewCall
<1>10. "store" \notin {"off", "renew", "renewed"} \cup ControlPlaces
        \cup UnlockPlaces \cup MutexPlaces
                         \cup NodePlaces \cup TimerPlaces \cup WaitPlaces
  BY DEF ControlPlaces, UnlockPlaces, MutexPlaces, NodePlaces, TimerPlaces, WaitPlaces
<1>11. Carries(y) = "store"
  BY <1>6, <1>10 DEF Carries
<1>12. CallRight(s, y, t)
  BY <1>2, <1>6, <1>10, <1>11 DEF CallRight, Free
<1>13. Disciplined => PermitCall(s, y, t)
  BY <1>2, <1>6, <1>10, <1>11 DEF PermitCall
<1>14. Apart(s, s', {t})
  BY <1>1, SameApart
<1>15. Right(s', Ids(pc'), {})
  BY <1>1, <1>2, <1>3, <1>9, IdsGo DEF Free
<1> QED
  BY <1>1, <1>2, <1>3, <1>6, <1>9, <1>10, <1>12, <1>13, <1>14, <1>15, TaskQuiet

LEMMA AcceptStoresKeeps ==
  ASSUME SystemInv, NEW t \in Task, AcceptStores(t)
  PROVE  SystemRight(s', pc')
<1> DEFINE e == pc[t].id
           n == Wrap(pc[t].val - 1)
<1>1. /\ Runs(t, "store") /\ Return(t)
      /\ s' = Reported([s EXCEPT !.eventCounter = [@ EXCEPT ![e] = n]], t, e)
  BY DEF AcceptStores
<1>2. /\ RunsIn(s, pc, t, "store") /\ t # Idle /\ Free(s, t) /\ PlacesRight(pc)
      /\ "store" \notin UnlockPlaces \cup {"renew", "renewed"} /\ e \in Event
      /\ Disciplined =>
           /\ s.eventType[e] = "sem" /\ e \notin s.holds[t]
           /\ <<t, e>> \in Calls[s.app].acceptSem /\ s.eventCounter[e] > 0
           /\ pc[t].val = s.eventCounter[e]
  BY <1>1, AcceptsAt
<1>3. Right(s, Ids(pc), {}) /\ s.eventCounter[e] \in Nat /\ DOMAIN s = Fields
  BY <1>2 DEF SystemInv, SystemRight, Right, Shape
<1>4. n = Wrap(pc[t].val - 1) /\ pc[t].val \in Nat
  BY <1>2, TmrApart DEF PlacesRight, PlaceRight
<1>5. n \in Nat
  <2>1. pc[t].val - 1 \in Int
    BY <1>4
  <2> QED  BY <1>4, <2>1, WrapNat
<1>6. Disciplined => n = s.eventCounter[e] - 1
  <2> SUFFICES ASSUME Disciplined PROVE n = s.eventCounter[e] - 1
    OBVIOUS
  <2>1. s.eventCounter[e] <= MaxCount
    <3>1. /\ PermitsRight(s, Ids(pc)) /\ s.initialEventCounter[e] \in Nat
      BY <1>2, <1>3 DEF Right, Shape
    <3>2. s.eventCounter[e] <= s.initialEventCounter[e] /\ s.initialEventCounter[e] <= MaxCount
      BY <1>2, <3>1 DEF PermitsRight
    <3> HIDE DEF e
    <3> QED  BY <1>3, <3>1, <3>2, CountNat
  <2> DEFINE v == s.eventCounter[e]
  <2>2. v \in Nat /\ v > 0 /\ v <= MaxCount /\ n = Wrap(v - 1)
    BY <1>2, <1>3, <1>4, <2>1
  <2> HIDE DEF v, n
  <2>3. v - 1 \in Int /\ v - 1 >= 0 /\ v - 1 <= MaxCount
    BY <2>2, CountNat
  <2>4. Wrap(v - 1) = v - 1
    BY <2>3, WrapNat
  <2> QED  BY <2>2, <2>4 DEF v
<1>7. Disciplined => t \in Users(s.app, e)
  <2> SUFFICES ASSUME Disciplined PROVE t \in Users(s.app, e)
    OBVIOUS
  <2> DEFINE d == <<t, e>>
  <2>1. d[1] = t /\ d[2] = e /\ d \in Calls[s.app].acceptSem
    BY <1>2
  <2> HIDE DEF d, e
  <2>2. d \in {c \in Calls[s.app].pendSem \cup Calls[s.app].acceptSem : c[2] = e}
    BY <2>1
  <2> QED  BY <2>1, <2>2 DEF Users
<1> HIDE DEF e, n
<1>8. s' = Reported([s EXCEPT !.eventCounter = [s.eventCounter EXCEPT ![e] = n]], t, e)
  BY <1>1, <1>3 DEF Fields
<1>9. Only(s, s, {"k"})
  BY <1>3 DEF Only
<1>10. /\ Right(s', Ids(pc), {}) /\ Apart(s, s', {t}) /\ Free(s', t) /\ s'.k = s.k
       /\ Disciplined => LocksKept(s')
  BY <1>2, <1>3, <1>5, <1>6, <1>7, <1>8, <1>9, PermitStep
<1>11. /\ Goes(pc, pc', t) /\ PlaceRight(pc'[t]) /\ pc'[t].at = "user" /\ Carries(pc'[t]) = "user"
  BY <1>1, <1>2, ReturnGo
<1>12. Right(s', Ids(pc'), {})
  BY <1>10, <1>11, IdsGo DEF Free
<1>13. CallRight(s', pc'[t], t) /\ PermitCall(s', pc'[t], t)
  BY <1>10, <1>11, CallEasy DEF EasyPlaces
<1>14. "user" \notin UnlockPlaces \cup {"renew", "renewed"}
  BY DEF UnlockPlaces
<1> QED  BY <1>2, <1>10, <1>11, <1>12, <1>13, <1>14, TaskQuiet

-----------------------------------------------------------------------------
(* The task takes what a post has given it.                                *)
LEMMA ReceivedRight ==
  ASSUME NEW r, NEW id, Right(r, id, {}), NEW t \in Task, NEW e \in Event,
         r.eventID[t] = NoEvent, id[t] = e, NEW r2, r2 = Received(r, t, e)
  PROVE  /\ Right(r2, id, {}) /\ Only(r, r2, {"pmail", "out", "balance", "holds"})
         /\ r2.pmail[t] = NoMail /\ \A u \in Task \ {t} : r2.pmail[u] = r.pmail[u]
         /\ TakesPermit(r, r2, t, e) \/ (r2.balance = r.balance /\ r2.holds = r.holds)
<1>1. /\ DOMAIN r = Fields /\ r.k \in Kernel /\ r.eventCounter \in [Event -> Nat]
      /\ DOMAIN r.pmail = Task /\ DOMAIN r.eventPtr = Event /\ r.balance \in [Event -> Int]
      /\ r.holds \in [Task -> SUBSET Event] /\ RingsRight(r)
      /\ Disciplined => PermitsRight(r, id)
  BY DEF Right, Shape
<1> DEFINE W == r.pmail[t] = Woken
           P == [r.pmail EXCEPT ![t] = NoMail]
           O == r.out \ {r.pmail[t]}
           B == IF W THEN [r.balance EXCEPT ![e] = r.balance[e] - 1] ELSE r.balance
           H == IF W THEN [r.holds EXCEPT ![t] = r.holds[t] \cup ({e} \cap Setup[r.app].locks)]
                     ELSE r.holds
<1>2. r2 = [r EXCEPT !.pmail = P, !.out = O, !.balance = B, !.holds = H]
  BY <1>1 DEF Received, Fields
<1> HIDE DEF P, O, B, H
<1>3. Only(r, r2, {"pmail", "out", "balance", "holds"})
  BY ONLY <1>1, <1>2 DEF Only, Fields
<1>4. r2.pmail = P /\ r2.balance = B /\ r2.holds = H
  BY ONLY <1>1, <1>2 DEF Fields
<1>5. /\ r2.eventType = r.eventType /\ r2.initialEventCounter = r.initialEventCounter
      /\ r2.QueueTbl = r.QueueTbl /\ r2.eventPtr = r.eventPtr /\ r2.eventCounter = r.eventCounter
  BY <1>3 DEF Only, Fields
<1>6. DOMAIN r2.pmail = Task /\ r2.pmail[t] = NoMail
      /\ \A u \in Task \ {t} : r2.pmail[u] = r.pmail[u]
  BY <1>1, <1>4 DEF P
<1>7. TakesPermit(r, r2, t, e) \/ (~W /\ r2.balance = r.balance /\ r2.holds = r.holds)
  BY <1>4 DEF TakesPermit, B, H
<1>8. W => r2.balance = [r.balance EXCEPT ![e] = r.balance[e] - 1]
  BY <1>4 DEF B
<1>9. ~W => r2.balance = r.balance
  BY <1>4 DEF B
<1> HIDE DEF W
<1>10. RingsRight(r2)
  BY <1>1, <1>5 DEF RingsRight
<1>11. r2.balance \in [Event -> Int] /\ r2.holds \in [Task -> SUBSET Event]
  <2>1. r.balance[e] - 1 \in Int
    BY <1>1
  <2>2. r.holds[t] \cup ({e} \cap Setup[r.app].locks) \in SUBSET Event
    BY <1>1
  <2> QED  BY <1>1, <1>7, <2>1, <2>2 DEF TakesPermit
<1>12. ASSUME Disciplined PROVE PermitsRight(r2, id)
  <2> SUFFICES ASSUME NEW f \in Event, r.eventType[f] = "sem"
               PROVE  /\ r.eventCounter[f] <= r.initialEventCounter[f]
                      /\ r.initialEventCounter[f] <= MaxCount
                      /\ r.eventCounter[f] + Cardinality(Given(r2, id, f)) = r2.balance[f]
    BY <1>5 DEF PermitsRight
  <2> DEFINE G == Given(r, id, f)
  <2>1. /\ r.eventCounter[f] <= r.initialEventCounter[f] /\ r.initialEventCounter[f] <= MaxCount
        /\ r.eventCounter[f] + Cardinality(G) = r.balance[f]
    BY <1>1, <1>12 DEF PermitsRight
  <2>2. IsFiniteSet(G)
    BY TaskFinite, FS_Subset DEF Given
  <2>3. NoMail # Woken
    BY DEF NoMail, Woken
  <2>4. Given(r2, id, f) = G \ {t}
    BY <1>6, <2>3 DEF Given
  <2>5. CASE W /\ f = e
    <3>1. t \in G
      BY <2>5 DEF Given, W
    <3>2. Cardinality(G \ {t}) = Cardinality(G) - 1 /\ Cardinality(G) \in Nat
      BY <2>2, <3>1, FS_RemoveElement, FS_CardinalityType
    <3>3. r2.balance[f] = r.balance[f] - 1
      BY <1>1, <1>8, <2>5
    <3>4. r.eventCounter[f] \in Nat /\ r.balance[f] \in Int
      BY <1>1
    <3> HIDE DEF G
    <3> QED  BY <2>1, <2>4, <3>2, <3>3, <3>4
  <2>6. CASE ~(W /\ f = e)
    <3>1. t \notin G
      BY <2>6 DEF Given, W
    <3>2. G \ {t} = G
      BY <3>1
    <3>3. r2.balance[f] = r.balance[f]
      BY <1>1, <1>8, <1>9, <2>6
    <3> QED  BY <2>1, <2>4, <3>2, <3>3
  <2> QED  BY <2>5, <2>6
<1>13. Only(r, r2, {"eventCounter", "eventPtr", "pmail", "QueueTbl", "balance", "holds", "out"})
  BY <1>3 DEF Only
<1>14. \A u \in Task : r.eventID[u] # NoEvent => r2.pmail[u] = r.pmail[u]
  BY <1>6
<1>15. r2.eventCounter \in [Event -> Nat] /\ DOMAIN r2.eventPtr = Event
  BY <1>1, <1>5
<1>16. Right(r2, id, {})
  BY <1>6, <1>10, <1>11, <1>12, <1>13, <1>14, <1>15, MailsChange
<1> QED  BY <1>3, <1>6, <1>7, <1>16

(* The wait is over.                                                       *)
LEMMA PendReturnsKeeps ==
  ASSUME SystemInv, NEW t \in Task, PendReturns(t)
  PROVE  SystemRight(s', pc')
<1> DEFINE e == pc[t].id
<1>1. PICK at \in WaitPlaces : Runs(t, at)
  BY DEF PendReturns, WaitPlaces
<1>2. s' = Received(s, t, e) /\ Return(t)
  BY DEF PendReturns
<1>3. at \notin {"user", "renew", "renewed"} \cup UnlockPlaces \cup NodePlaces
  BY <1>1 DEF UnlockPlaces, NodePlaces, WaitPlaces
<1>4. /\ RunsIn(s, pc, t, at) /\ t # Idle /\ s.eventID[t] = NoEvent
      /\ Carries(pc[t]) = at /\ CallRight(s, pc[t], t) /\ PlacesRight(pc)
      /\ Disciplined => PermitCall(s, pc[t], t)
  BY <1>1, <1>3, AtPlace DEF SystemInv, SystemRight
<1>5. s.pnode[t] = "null" /\ e \in Event /\ (Disciplined => e \notin s.holds[t])
  BY <1>3, <1>4 DEF CallRight, PermitCall
<1>6. Ids(pc)[t] = e
  BY DEF Ids
<1>7. Right(s, Ids(pc), {}) /\ (Disciplined => LocksKept(s))
  BY DEF SystemInv, SystemRight
<1>8. /\ s.holds \in [Task -> SUBSET Event] /\ s.balance \in [Event -> Int] /\ DOMAIN s = Fields
  BY <1>7 DEF Right, Shape
<1> HIDE DEF e
<1>9. /\ Right(s', Ids(pc), {}) /\ Only(s, s', {"pmail", "out", "balance", "holds"})
      /\ s'.pmail[t] = NoMail /\ \A u \in Task \ {t} : s'.pmail[u] = s.pmail[u]
      /\ TakesPermit(s, s', t, e) \/ (s'.balance = s.balance /\ s'.holds = s.holds)
  BY <1>2, <1>4, <1>5, <1>6, <1>7, ReceivedRight
<1>10. /\ s'.app = s.app /\ s'.eventType = s.eventType /\ s'.k = s.k
       /\ s'.initialEventCounter = s.initialEventCounter
       /\ s'.eventCounter = s.eventCounter /\ s'.eventID = s.eventID /\ s'.pnode = s.pnode
       /\ s'.delayTick = s.delayTick
  BY <1>9 DEF Only, Fields
<1>11. \A u \in Task \ {t} : s'.holds[u] = s.holds[u]
  BY <1>8, <1>9 DEF TakesPermit
<1>12. Apart(s, s', {t})
  BY <1>9, <1>10, <1>11, SameApart
<1>13. Free(s', t)
  BY <1>4, <1>5, <1>9, <1>10 DEF Free
<1>14. Disciplined => LocksKept(s')
  <2>1. CASE TakesPermit(s, s', t, e)
    BY <1>5, <1>7, <1>8, <1>10, <2>1, LockTaken
  <2>2. CASE s'.balance = s.balance /\ s'.holds = s.holds
    BY <1>7, <1>10, <2>2, LocksKeptSame
  <2> QED  BY <1>9, <2>1, <2>2
<1>15. /\ Goes(pc, pc', t) /\ PlaceRight(pc'[t]) /\ pc'[t].at = "user" /\ Carries(pc'[t]) = "user"
  BY <1>2, <1>4, ReturnGo
<1>16. Right(s', Ids(pc'), {})
  BY <1>9, <1>13, <1>15, IdsGo DEF Free
<1>17. CallRight(s', pc'[t], t) /\ PermitCall(s', pc'[t], t)
  BY <1>13, <1>15, CallEasy DEF EasyPlaces
<1>18. "user" \notin UnlockPlaces \cup {"renew", "renewed"}
  BY DEF UnlockPlaces
<1> QED  BY <1>3, <1>4, <1>10, <1>12, <1>14, <1>15, <1>16, <1>17, <1>18, TaskQuiet

LEMMA PendTimesOutKeeps ==
  ASSUME SystemInv, NEW t \in Task, PendTimesOut(t)
  PROVE  SystemRight(s', pc')
<1>1. Runs(t, "timed") /\ s.pmail[t] = NoMail /\ Return(t) /\ s' = s
  BY DEF PendTimesOut
<1>2. "timed" \notin {"user", "renew", "renewed"} \cup UnlockPlaces \cup NodePlaces
  BY DEF UnlockPlaces, NodePlaces
<1>3. /\ s.eventID[t] = NoEvent /\ Carries(pc[t]) = "timed" /\ CallRight(s, pc[t], t)
      /\ PlacesRight(pc)
  BY <1>1, <1>2, AtPlace DEF SystemInv, SystemRight
<1>4. Free(s, t)
  BY <1>1, <1>2, <1>3 DEF Free, CallRight
<1>5. Goes(pc, pc', t) /\ PlaceRight(pc'[t]) /\ pc'[t].at = "user"
  BY <1>1, <1>3, ReturnGo
<1>6. EasyAt(pc'[t])
  BY <1>5 DEF EasyAt, EasyPlaces
<1> QED  BY <1>1, <1>2, <1>4, <1>5, <1>6, QuietSame, QuietGoes

-----------------------------------------------------------------------------
(* There is room for what is posted, so far.                               *)
LEMMA PostGoesOn ==
  ASSUME SystemInv, NEW t \in Task, NEW op \in Services, op # "isr", NEW c, c[1] = t, Makes(op, c),
         NEW e \in Event, s.eventType[e] # "invalid", NEW m \in Nat,
         s.eventType[e] \in {"mbox", "queue"} => m \in Mail,
         Disciplined /\ s.eventType[e] = "sem" =>
           /\ <<t, e>> \in Calls[s.app].postSem
           /\ IF e \in Setup[s.app].locks THEN e \in s.holds[t]
              ELSE s.eventCounter[e] < s.initialEventCounter[e],
         s' = s, pc' = [pc EXCEPT ![t] = [Rest("user") EXCEPT !.at = "post", !.id = e, !.val = m]]
  PROVE  SystemRight(s', pc')
<1> DEFINE y == [Rest("user") EXCEPT !.at = "post", !.id = e, !.val = m]
<1>1. /\ RunsIn(s, pc, t, "user") /\ Free(s, t) /\ t # Idle /\ PlacesRight(pc)
  BY Made
<1>2. e \in Nat
  BY EventAssumption DEF Event
<1>3. /\ DOMAIN y = {"at", "ret", "id", "ticks", "val", "flags", "ids"}
      /\ y.at = "post" /\ y.ret = "user" /\ y.id = e /\ y.ticks = 0 /\ y.val = m
  BY DEF Rest
<1>4. pc' = [pc EXCEPT ![t] = y]
  OBVIOUS
<1> HIDE DEF y
<1>5. y.at \in At /\ y.ret \in At /\ y.id \in Nat /\ y.ticks \in Nat /\ y.val \in Nat
        /\ y.at # "remove" /\ y.ret # "remove"
  BY <1>2, <1>3 DEF At, EventPlaces
<1>6. Goes(pc, pc', t) /\ pc'[t] = y /\ PlaceRight(pc'[t])
  BY <1>1, <1>3, <1>4, <1>5, NewCall
<1>7. "post" \notin {"off", "renew", "renewed", "accept", "store", "block"} \cup ControlPlaces
        \cup UnlockPlaces \cup MutexPlaces \cup NodePlaces \cup TimerPlaces \cup WaitPlaces
  BY DEF ControlPlaces, UnlockPlaces, MutexPlaces, NodePlaces, TimerPlaces, WaitPlaces
<1>8. Carries(y) = "post"
  BY <1>3, <1>7 DEF Carries
<1>9. CallRight(s, y, t)
  BY <1>1, <1>3, <1>7, <1>8 DEF CallRight, Free
<1>10. Disciplined => PermitCall(s, y, t)
  BY <1>3, <1>7, <1>8 DEF PermitCall
<1>11. Right(s, Ids(pc), {}) /\ (Disciplined => LocksKept(s))
  BY DEF SystemInv, SystemRight
<1>12. Right(s', Ids(pc'), {})
  BY <1>1, <1>6, <1>11, IdsGo DEF Free
<1>13. Apart(s, s', {t})
  BY SameApart
<1>14. "user" \notin UnlockPlaces \cup {"renew", "renewed"}
  BY DEF UnlockPlaces
<1> QED  BY <1>1, <1>3, <1>6, <1>7, <1>9, <1>10, <1>11, <1>12, <1>13, <1>14, TaskQuiet

LEMMA PostSemKeeps ==
  ASSUME SystemInv, NEW t \in Task, NEW e, CoPostSem(t, e)
  PROVE  SystemRight(s', pc')
<1> DEFINE c == <<t, e>>
<1>1. Makes("postSem", c) /\ c[1] = t /\ "postSem" \in Services /\ "postSem" # "isr"
  BY DEF CoPostSem, Services, ArgumentTypes
<1>2. s.app \in App /\ c \in Calls[s.app].postSem
  BY <1>1, Made
<1>3. <<t, e>> \in Calls[s.app].postSem
  BY <1>2
<1> HIDE DEF c
<1>4. e \in Event
  <2>1. <<t, e>> \in Caller \X Event
    BY <1>2, <1>3, CallTypes
  <2> QED  BY <2>1
<1>5. /\ e \in Setup[s.app].locks => e \in s.holds[t]
      /\ s.eventType[e] = "sem" /\ ~IsFull(s, e) /\ s' = s
      /\ pc' = [pc EXCEPT ![t] = [Rest("user") EXCEPT !.at = "post", !.id = e, !.val = NoMail]]
  BY DEF CoPostSem, PostTested
<1>6. s.eventCounter[e] # s.initialEventCounter[e]
  BY <1>5 DEF IsFull, SemFull
<1>7. ASSUME Disciplined PROVE s.eventCounter[e] < s.initialEventCounter[e]
  <2>1. /\ s.eventCounter[e] \in Nat /\ s.initialEventCounter[e] \in Nat /\ PermitsRight(s, Ids(pc))
    BY <1>4, <1>7 DEF SystemInv, SystemRight, Right, Shape
  <2>2. s.eventCounter[e] <= s.initialEventCounter[e]
    BY <1>4, <1>5, <2>1 DEF PermitsRight
  <2> QED  BY <1>6, <2>1, <2>2
<1>8. NoMail \in Nat
  BY DEF NoMail
<1> QED  BY <1>1, <1>3, <1>4, <1>5, <1>7, <1>8, PostGoesOn

(* A mailbox, or a queue.                                                  *)
LEMMA PostMailGoesOn ==
  ASSUME SystemInv, NEW t \in Task, NEW e, NEW m, Makes("postMail", <<t, e, m>>),
         s.eventType[e] \in {"mbox", "queue"}, PostTested(t, e, m)
  PROVE  SystemRight(s', pc')
<1> DEFINE c == <<t, e, m>>
<1>1. Makes("postMail", c) /\ c[1] = t /\ "postMail" \in Services /\ "postMail" # "isr"
  BY DEF Services, ArgumentTypes
<1>2. s.app \in App /\ c \in Calls[s.app].postMail
  BY <1>1, Made
<1>3. e \in Event /\ m \in Mail
  <2>1. c \in Caller \X Event \X Mail
    BY <1>2, CallTypes
  <2> QED  BY <2>1
<1>4. m \in Nat
  BY <1>3, EventAssumption DEF Mail
<1>5. /\ s' = s
      /\ pc' = [pc EXCEPT ![t] = [Rest("user") EXCEPT !.at = "post", !.id = e, !.val = m]]
  BY DEF PostTested
<1> HIDE DEF c
<1>6. s.eventType[e] # "invalid" /\ s.eventType[e] # "sem"
  OBVIOUS
<1> QED  BY <1>1, <1>3, <1>4, <1>5, <1>6, PostGoesOn

LEMMA PostMailKeeps ==
  ASSUME SystemInv, NEW t \in Task, NEW e, NEW m, CoPostMail(t, e, m)
  PROVE  SystemRight(s', pc')
BY PostMailGoesOn DEF CoPostMail

LEMMA PostQueueMailKeeps ==
  ASSUME SystemInv, NEW t \in Task, NEW e, NEW m, CoPostQueueMail(t, e, m)
  PROVE  SystemRight(s', pc')
BY PostMailGoesOn DEF CoPostQueueMail

-----------------------------------------------------------------------------
(* The poster gives the lock back that it holds.                           *)
LEMMA LockGiven ==
  ASSUME NEW r, NEW r2, LocksKept(r), NEW t \in Task, NEW e \in Event,
         r.eventType[e] = "sem", e \in Setup[r.app].locks => e \in r.holds[t],
         r2.app = r.app, r2.eventType = r.eventType,
         r2.initialEventCounter = r.initialEventCounter,
         \A f \in Event \ {e} : r.eventType[f] = "sem" => r2.balance[f] = r.balance[f],
         r2.balance[e] = r.balance[e] + 1,
         r2.holds = [r.holds EXCEPT ![t] = r.holds[t] \ {e}],
         r.balance \in [Event -> Int], r.holds \in [Task -> SUBSET Event]
  PROVE  LocksKept(r2)
<1>1. \A u \in Task : r2.holds[u] \subseteq Setup[r.app].locks
  BY DEF LocksKept
<1>2. ASSUME NEW f \in Setup[r.app].locks
      PROVE  r2.balance[f] + Cardinality(Holders(r2, f)) = Setup[r.app].events[f + 1].count
  <2> DEFINE H == Holders(r, f)
  <2>1. /\ f \in Event /\ r.eventType[f] = "sem"
        /\ r.balance[f] + Cardinality(H) = Setup[r.app].events[f + 1].count
    BY <1>2 DEF LocksKept
  <2>2. CASE f # e
    <3>1. r2.balance[f] = r.balance[f]
      BY <2>1, <2>2
    <3>2. \A u \in Task : f \in r2.holds[u] <=> f \in r.holds[u]
      BY <2>2
    <3>3. Holders(r2, f) = H
      BY <3>2 DEF Holders
    <3> QED  BY <2>1, <3>1, <3>3
  <2>3. CASE f = e
    <3>1. r2.balance[f] = r.balance[f] + 1 /\ r.balance[f] \in Int
      BY <2>1, <2>3
    <3>2. \A u \in Task : f \in r2.holds[u] <=> f \in r.holds[u] /\ u # t
      BY <1>2, <2>3
    <3>3. t \in H
      BY <1>2, <2>3 DEF Holders
    <3>4. Holders(r2, f) = H \ {t}
      BY <3>2 DEF Holders
    <3>5. IsFiniteSet(H)
      BY TaskFinite, FS_Subset DEF Holders
    <3>6. Cardinality(H \ {t}) = Cardinality(H) - 1 /\ Cardinality(H) \in Nat
      BY <3>3, <3>5, FS_RemoveElement, FS_CardinalityType
    <3> QED  BY <2>1, <3>1, <3>4, <3>6
  <2> QED  BY <2>2, <2>3
<1> QED  BY <1>1, <1>2 DEF LocksKept

(* A lock that somebody holds is not full.                                 *)
LEMMA HeldNotFull ==
  ASSUME NEW r, NEW id, Right(r, id, {}), Disciplined, LocksKept(r), NEW t \in Task,
         NEW e \in Setup[r.app].locks, e \in r.holds[t]
  PROVE  r.eventCounter[e] < r.initialEventCounter[e]
<1> DEFINE n == r.eventCounter[e]
           g == Cardinality(Given(r, id, e))
           h == Cardinality(Holders(r, e))
           m == r.initialEventCounter[e]
           w == Setup[r.app].events[e + 1].count
           b == r.balance[e]
<1>1. e \in Event /\ r.eventType[e] = "sem" /\ m >= w /\ b + h = w
  BY DEF LocksKept
<1>2. n + g = b
  BY <1>1 DEF Right, PermitsRight
<1>3. n \in Nat /\ m \in Nat /\ b \in Int
  BY <1>1 DEF Right, Shape
<1>4. g \in Nat
  BY TaskFinite, FS_Subset, FS_CardinalityType DEF Given
<1>5. h \in Nat /\ h # 0
  <2>1. IsFiniteSet(Holders(r, e)) /\ t \in Holders(r, e)
    BY TaskFinite, FS_Subset DEF Holders
  <2> QED  BY <2>1, FS_CardinalityType, FS_EmptySet
<1> HIDE DEF n, g, h, m, w, b
<1>6. w = n + g + h /\ w <= m
  <2>1. w = (n + g) + h
    BY <1>1, <1>2
  <2>2. w \in Int
    BY <1>3, <1>4, <1>5, <2>1
  <2> QED  BY <1>1, <1>3, <1>4, <1>5, <2>1, <2>2
<1>7. n < m
  BY <1>3, <1>4, <1>5, <1>6
<1> QED  BY <1>7 DEF n, m

(* The post is served: there is room for a permit, if it is one.          *)
LEMMA PostIsServed ==
  ASSUME SystemInv, NEW t \in Task, PostStores(t)
  PROVE  LET e  == pc[t].id
             r1 == Lock(s)
             d  == Post(r1, e, pc[t].val)
         IN  /\ e \in Event /\ Right(d, Ids(pc), {}) /\ Serves(r1, d, {e})
             /\ r1.eventType[e] = "sem" => d.balance[e] = r1.balance[e] + 1
<1> DEFINE e == pc[t].id
           m == pc[t].val
           r1 == Lock(s)
           d == Post(r1, e, m)
<1>1. Runs(t, "post") /\ Unlocks(t, "user") /\ s' = [d EXCEPT !.holds[t] = @ \ {e}]
  BY DEF PostStores
<1>2. "post" \notin {"user", "renew", "renewed"} \cup UnlockPlaces \cup NodePlaces \cup WaitPlaces
  BY DEF UnlockPlaces, NodePlaces, WaitPlaces
<1>3. /\ RunsIn(s, pc, t, "post") /\ t # Idle /\ Carries(pc[t]) = "post"
      /\ CallRight(s, pc[t], t) /\ (Disciplined => PermitCall(s, pc[t], t))
      /\ Free(s, t) /\ PlacesRight(pc) /\ s.app \in App
  BY <1>1, <1>2, AtPlace DEF SystemInv, SystemRight
<1>4. /\ e \in Event /\ s.eventType[e] # "invalid"
      /\ s.eventType[e] \in {"mbox", "queue"} => m \in Mail
  BY <1>3 DEF CallRight
<1>5. Disciplined /\ s.eventType[e] = "sem" =>
        /\ <<t, e>> \in Calls[s.app].postSem
        /\ IF e \in Setup[s.app].locks THEN e \in s.holds[t]
           ELSE s.eventCounter[e] < s.initialEventCounter[e]
  BY <1>3 DEF PermitCall
<1>6. r1 = Lock(s) /\ d = Post(r1, e, m)
  OBVIOUS
<1>7. Unlocks(t, "user") /\ e = pc[t].id
  BY <1>1
<1> HIDE DEF e, m, r1, d
<1>8. /\ Right(r1, Ids(pc), {}) /\ Only(s, r1, {"k"}) /\ DOMAIN r1 = Fields
      /\ r1.k \in Kernel /\ Locks(s.k, r1.k, t) /\ r1.k.state = s.k.state
      /\ r1.eventType = s.eventType /\ r1.app = s.app
      /\ r1.holds = s.holds /\ r1.balance = s.balance
      /\ r1.initialEventCounter = s.initialEventCounter /\ r1.eventCounter = s.eventCounter
      /\ r1.pmail = s.pmail /\ r1.pnode = s.pnode /\ r1.eventID = s.eventID
      /\ Disciplined => LocksKept(s)
  BY <1>6, SectionStarts
<1>9. Disciplined => LocksKept(r1)
  BY <1>8, LocksKeptFrom
<1>10. s.eventType[e] \in {"sem", "mbox", "queue"}
  <2>1. s.eventType[e] \in EventType
    BY <1>4 DEF SystemInv, SystemRight, Right, Shape
  <2> QED  BY <1>4, <2>1 DEF EventType
<1>11. r1.eventType[e] = "sem" /\ Disciplined => r1.eventCounter[e] < r1.initialEventCounter[e]
  <2> SUFFICES ASSUME s.eventType[e] = "sem", Disciplined
               PROVE  r1.eventCounter[e] < r1.initialEventCounter[e]
    BY <1>8
  <2>1. CASE e \in Setup[s.app].locks
    <3>1. e \in Setup[r1.app].locks /\ e \in r1.holds[t]
      BY <1>5, <1>8, <2>1
    <3> QED  BY <1>8, <1>9, <3>1, HeldNotFull
  <2>2. CASE e \notin Setup[s.app].locks
    BY <1>5, <1>8, <2>2
  <2> QED  BY <2>1, <2>2
<1>12. /\ Right(d, Ids(pc), {}) /\ Serves(r1, d, {e})
       /\ r1.eventType[e] = "sem" => d.balance[e] = r1.balance[e] + 1
  <2>1. r1.eventType[e] # "sem" => m \in Mail
    BY <1>4, <1>8, <1>10
  <2>2. r1.eventType[e] # "invalid"
    BY <1>4, <1>8
  <2>3. d = Post(r1, e, m) /\ Right(r1, Ids(pc), {})
    BY <1>6, <1>8
  <2>4. /\ Right(d, Ids(pc), {}) /\ Serves(r1, d, {e})
        /\ r1.eventType[e] = "sem" => d.balance[e] = r1.balance[e] + 1
    BY ONLY <1>4, <1>11, <2>1, <2>2, <2>3, PostRight
  <2> QED  BY <2>4
<1> QED  BY <1>4, <1>12 DEF e, m, r1, d

LEMMA PostStoresKeeps ==
  ASSUME SystemInv, NEW t \in Task, PostStores(t)
  PROVE  SystemRight(s', pc')
<1> DEFINE e == pc[t].id
           m == pc[t].val
           r1 == Lock(s)
           d == Post(r1, e, m)
<1>1. Runs(t, "post") /\ Unlocks(t, "user") /\ s' = [d EXCEPT !.holds[t] = @ \ {e}]
  BY DEF PostStores
<1>2. "post" \notin {"user", "renew", "renewed"} \cup UnlockPlaces \cup NodePlaces \cup WaitPlaces
  BY DEF UnlockPlaces, NodePlaces, WaitPlaces
<1>3. /\ RunsIn(s, pc, t, "post") /\ t # Idle /\ Carries(pc[t]) = "post"
      /\ CallRight(s, pc[t], t) /\ (Disciplined => PermitCall(s, pc[t], t))
      /\ Free(s, t) /\ PlacesRight(pc) /\ s.app \in App
  BY <1>1, <1>2, AtPlace DEF SystemInv, SystemRight
<1>4. /\ e \in Event /\ s.eventType[e] # "invalid"
      /\ s.eventType[e] \in {"mbox", "queue"} => m \in Mail
  BY <1>3 DEF CallRight
<1>5. Disciplined /\ s.eventType[e] = "sem" =>
        /\ <<t, e>> \in Calls[s.app].postSem
        /\ IF e \in Setup[s.app].locks THEN e \in s.holds[t]
           ELSE s.eventCounter[e] < s.initialEventCounter[e]
  BY <1>3 DEF PermitCall
<1>6. r1 = Lock(s) /\ d = Post(r1, e, m)
  OBVIOUS
<1>7. Unlocks(t, "user") /\ e = pc[t].id
  BY <1>1
<1> HIDE DEF e, m, r1, d
<1>8. /\ Right(r1, Ids(pc), {}) /\ Only(s, r1, {"k"}) /\ DOMAIN r1 = Fields
      /\ r1.k \in Kernel /\ Locks(s.k, r1.k, t) /\ r1.k.state = s.k.state
      /\ r1.eventType = s.eventType /\ r1.app = s.app
      /\ r1.holds = s.holds /\ r1.balance = s.balance
      /\ r1.initialEventCounter = s.initialEventCounter /\ r1.eventCounter = s.eventCounter
      /\ r1.pmail = s.pmail /\ r1.pnode = s.pnode /\ r1.eventID = s.eventID
      /\ Disciplined => LocksKept(s)
  BY <1>6, SectionStarts
<1>9. Disciplined => LocksKept(r1)
  BY <1>8, LocksKeptFrom
<1>10. /\ Right(d, Ids(pc), {}) /\ Serves(r1, d, {e})
       /\ r1.eventType[e] = "sem" => d.balance[e] = r1.balance[e] + 1
  BY PostIsServed DEF e, m, r1, d
<1>11. /\ DOMAIN d = Fields /\ d.holds \in [Task -> SUBSET Event] /\ d.k \in Kernel
       /\ d.eventCounter \in [Event -> Nat] /\ DOMAIN d.pmail = Task /\ DOMAIN d.eventPtr = Event
       /\ d.balance \in [Event -> Int] /\ RingsRight(d)
       /\ Disciplined => PermitsRight(d, Ids(pc))
  BY <1>10 DEF Right, Shape
<1>12. Only(d, s', {"holds"}) /\ s'.holds = [d.holds EXCEPT ![t] = d.holds[t] \ {e}]
  <2> DEFINE H == [d.holds EXCEPT ![t] = d.holds[t] \ {e}]
  <2>1. s' = [d EXCEPT !.holds = H]
    BY <1>1, <1>11 DEF Fields
  <2> HIDE DEF H
  <2>2. Only(d, s', {"holds"}) /\ s'.holds = H
    BY ONLY <1>11, <2>1 DEF Only, Fields
  <2> QED  BY <2>2 DEF H
<1>13. /\ s'.app = d.app /\ s'.eventType = d.eventType /\ s'.k = d.k /\ s'.balance = d.balance
       /\ s'.initialEventCounter = d.initialEventCounter /\ s'.QueueTbl = d.QueueTbl
       /\ s'.eventPtr = d.eventPtr /\ s'.pmail = d.pmail
       /\ s'.eventCounter = d.eventCounter /\ s'.eventID = d.eventID /\ s'.pnode = d.pnode
       /\ s'.delayTick = d.delayTick
  BY <1>12 DEF Only, Fields
<1>14. Right(s', Ids(pc), {})
  <2>1. s'.holds \in [Task -> SUBSET Event]
    <3>1. d.holds[t] \ {e} \in SUBSET Event
      BY <1>11
    <3> QED  BY <1>11, <1>12, <3>1
  <2>2. RingsRight(s')
    BY <1>11, <1>13 DEF RingsRight
  <2>3. Disciplined => PermitsRight(s', Ids(pc))
    BY <1>11, <1>13, PermitsFrame
  <2>4. Only(d, s', {"eventCounter", "eventPtr", "pmail", "QueueTbl", "balance", "holds", "out"})
    BY <1>12 DEF Only
  <2> QED  BY <1>10, <1>11, <1>13, <2>1, <2>2, <2>3, <2>4, MailsChange
<1>15. Apart(r1, d, {t})
  <2>1. Disciplined => \A f \in {e} : f \in Event /\ r1.eventType[f] = "sem" =>
          PostsFromIsr(r1.app, f) \/ \E u \in {t} : u \in Posters(r1.app, f)
    <3> SUFFICES ASSUME Disciplined, r1.eventType[e] = "sem"
                 PROVE  t \in Posters(r1.app, e)
      OBVIOUS
    <3> DEFINE c == <<t, e>>
    <3>1. c \in Calls[r1.app].postSem /\ c[1] = t /\ c[2] = e
      BY <1>5, <1>8
    <3> HIDE DEF c
    <3> QED  BY <3>1 DEF Posters
  <2> QED  BY <1>10, <2>1, ServesAreApart DEF ServesApart
<1>16. Apart(r1, s', {t})
  <2>1. \A u \in Task \ {t} : s'.holds[u] = d.holds[u]
    BY <1>11, <1>12
  <2>2. CountersApart(r1, s', {t})
    BY <1>13, <1>15 DEF Apart, CountersApart
  <2>3. TasksApart(r1, s', {t})
    BY <1>13, <1>15, <2>1 DEF Apart, TasksApart
  <2> QED  BY <1>13, <1>15, <2>2, <2>3 DEF Apart
<1>17. Apart(s, s', {t})
  BY <1>8, <1>16, ApartFrom
<1>18. Free(s', t)
  <2>1. Free(r1, t)
    BY <1>3, <1>8 DEF Free
  <2>2. TasksApart(r1, d, {})
    BY <1>10, ServesTasks
  <2>3. Free(d, t)
    BY <2>1, <2>2, FreeKept
  <2> QED  BY <1>13, <2>3 DEF Free
<1>19. Locks(s.k, s'.k, t)
  <2>1. /\ KernelServes(r1.k, d.k)
        /\ \A u \in Task :
            \/ d.k.state[u] = r1.k.state[u]
            \/ r1.k.state[u] = "WAITING" /\ d.k.state[u] = "READY"
            \/ r1.k.state[u] = "WAITING" /\ d.k.state[u] = "RUNNING" /\ u = r1.k.TCBRunning
    BY <1>10 DEF Serves
  <2> QED  BY <1>8, <1>13, <2>1, LocksServes
<1>20. Disciplined => LocksKept(s')
  <2> SUFFICES ASSUME Disciplined PROVE LocksKept(s')
    OBVIOUS
  <2>1. /\ d.app = r1.app /\ d.eventType = r1.eventType /\ d.holds = r1.holds
        /\ d.initialEventCounter = r1.initialEventCounter
        /\ \A f \in Event \ {e} : r1.eventType[f] = "sem" => d.balance[f] = r1.balance[f]
    BY <1>10 DEF Serves
  <2>2. CASE s.eventType[e] = "sem"
    <3>1. r1.balance \in [Event -> Int] /\ r1.holds \in [Task -> SUBSET Event]
      BY <1>8 DEF Right, Shape
    <3>2. r1.eventType[e] = "sem" /\ (e \in Setup[r1.app].locks => e \in r1.holds[t])
      BY <1>5, <1>8, <2>2
    <3>3. s'.balance[e] = r1.balance[e] + 1
      BY <1>10, <1>13, <3>2
    <3>4. s'.holds = [r1.holds EXCEPT ![t] = r1.holds[t] \ {e}]
      BY <1>12, <2>1
    <3>5. \A f \in Event \ {e} : r1.eventType[f] = "sem" => s'.balance[f] = r1.balance[f]
      BY <1>13, <2>1
    <3>6. /\ s'.app = r1.app /\ s'.eventType = r1.eventType
          /\ s'.initialEventCounter = r1.initialEventCounter
      BY <1>13, <2>1
    <3> QED  BY <1>4, <1>9, <3>1, <3>2, <3>3, <3>4, <3>5, <3>6, LockGiven
  <2>3. CASE s.eventType[e] # "sem"
    <3>1. \A f \in Setup[r1.app].locks : f # e /\ f \in Event /\ r1.eventType[f] = "sem"
      BY <1>8, <1>9, <2>3 DEF LocksKept
    <3>2. \A u \in Task : s'.holds[u] = r1.holds[u]
      <4>1. e \notin r1.holds[t]
        BY <1>9, <3>1 DEF LocksKept
      <4>2. d.holds[t] \ {e} = d.holds[t]
        BY <2>1, <4>1
      <4>3. DOMAIN d.holds = Task
        BY <1>11
      <4>4. \A u \in Task : s'.holds[u] = d.holds[u]
        BY <1>12, <4>2, <4>3
      <4> QED  BY <2>1, <4>4
    <3>3. \A f \in Setup[r1.app].locks : s'.balance[f] = r1.balance[f]
      BY <1>13, <2>1, <3>1
    <3> QED  BY <1>9, <1>13, <2>1, <3>2, <3>3, LocksKeptSame
  <2> QED  BY <2>2, <2>3
<1>21. /\ Goes(pc, pc', t) /\ PlaceRight(pc'[t])
       /\ pc'[t].at = "unlock" /\ Carries(pc'[t]) = "user"
  BY <1>3, <1>7, UnlocksGo DEF At
<1>22. Right(s', Ids(pc'), {})
  BY <1>14, <1>18, <1>21, IdsGo DEF Free
<1>23. CallRight(s', pc'[t], t) /\ PermitCall(s', pc'[t], t)
  BY <1>18, <1>21, CallEasy DEF EasyPlaces
<1>24. "post" \notin UnlockPlaces \cup {"renew", "renewed"}
  BY <1>2
<1> QED  BY <1>3, <1>17, <1>19, <1>20, <1>21, <1>22, <1>23, <1>24, TaskLocked

-----------------------------------------------------------------------------
(* What InsertDelayList() does to the delay list depends on it alone.      *)
Sums(list, tick) ==
  LET due[i \in 0 .. Len(list)] == IF i = 0 THEN 0 ELSE due[i - 1] + tick[list[i]]
  IN  due

DelaysBy(list, tick, due, t, ticks) ==
  LET n    == Len(list)
      i    == CHOOSE j \in 1 .. n + 1 :
                /\ \A l \in 1 .. j - 1 : due[l] <= ticks
                /\ j <= n => ticks < due[j]
      mine == ticks - due[i - 1]
  IN  << InsertAt(list, i, t),
         [u \in Task |-> CASE u = t -> mine
                           [] i <= n /\ u = list[i] -> tick[u] - mine
                           [] OTHER -> tick[u]] >>

NewDelays(list, tick, t, ticks) == DelaysBy(list, tick, Sums(list, tick), t, ticks)

LEMMA DelaysAre ==
  ASSUME NEW r, DOMAIN r = Fields, NEW t, NEW ticks, ticks # 0,
         NEW r2, r2 = InsertDelayList(r, t, ticks)
  PROVE  /\ r2.DlyList = NewDelays(r.DlyList, r.delayTick, t, ticks)[1]
         /\ r2.delayTick = NewDelays(r.DlyList, r.delayTick, t, ticks)[2]
         /\ r2.k = WaitKernel(r.k, t) /\ Only(r, r2, {"DlyList", "delayTick", "k"})
<1> DEFINE nd == NewDelays(r.DlyList, r.delayTick, t, ticks)
           L == nd[1]
           D == nd[2]
           K == WaitKernel(r.k, t)
<1>1. r2 = [r EXCEPT !.DlyList = L, !.delayTick = D, !.k = K]
  <2> DEFINE d2 == DelaysBy(r.DlyList, r.delayTick, Due(r), t, ticks)
  <2>1. r2 = [r EXCEPT !.DlyList = d2[1], !.delayTick = d2[2], !.k = K]
    BY DEF InsertDelayList, DelaysBy, WaitKernel
  <2>2. Due(r) = Sums(r.DlyList, r.delayTick)
    BY DEF Due, Sums
  <2>3. d2 = nd
    BY <2>2 DEF NewDelays
  <2> QED  BY <2>1, <2>3
<1> HIDE DEF L, D, K
<1>2. r2.DlyList = L /\ r2.delayTick = D /\ r2.k = K
  BY ONLY <1>1, DOMAIN r = Fields DEF Fields
<1>3. Only(r, r2, {"DlyList", "delayTick", "k"})
  BY ONLY <1>1, DOMAIN r = Fields DEF Only, Fields
<1> QED  BY <1>2, <1>3 DEF L, D, K

LEMMA ListEnd ==
  ASSUME NEW q \in Seq(Task), NEW S, NEW t \in Task, Lists(q, S), t \notin S
  PROVE  Append(q, t) \in Seq(Task) /\ Lists(Append(q, t), S \cup {t})
<1> DEFINE n == Len(q)
           a == Append(q, t)
<1>1. /\ n \in Nat /\ DOMAIN q = 1 .. n /\ a \in Seq(Task) /\ Len(a) = n + 1
      /\ DOMAIN a = 1 .. n + 1 /\ a[n + 1] = t /\ \A i \in 1 .. n : a[i] = q[i]
  BY LenProperties, AppendProperties
<1>2. \A i \in 1 .. n : q[i] # t
  BY <1>1 DEF Lists, Range
<1> HIDE DEF a, n
<1>3. \A i \in 1 .. n + 1 : i # n + 1 => i \in 1 .. n
  BY <1>1
<1>4. IsInjective(a)
  <2> SUFFICES ASSUME NEW i \in 1 .. n + 1, NEW j \in 1 .. n + 1, a[i] = a[j] PROVE i = j
    BY <1>1 DEF IsInjective
  <2>1. CASE i = n + 1 /\ j = n + 1
    BY <2>1
  <2>2. CASE i = n + 1 /\ j # n + 1
    BY <1>1, <1>2, <1>3, <2>2
  <2>3. CASE i # n + 1 /\ j = n + 1
    BY <1>1, <1>2, <1>3, <2>3
  <2>4. CASE i # n + 1 /\ j # n + 1
    BY <1>1, <1>3, <2>4 DEF Lists, IsInjective
  <2> QED  BY <2>1, <2>2, <2>3, <2>4
<1>5. \A u \in Task : u \in Range(a) <=> u \in Range(q) \/ u = t
  <2> TAKE u \in Task
  <2>1. n + 1 \in 1 .. n + 1 /\ \A i \in 1 .. n : i \in 1 .. n + 1
    BY <1>1
  <2>2. u \in Range(a) => u \in Range(q) \/ u = t
    BY <1>1, <1>3 DEF Range
  <2>3. u \in Range(q) \/ u = t => u \in Range(a)
    BY <1>1, <2>1 DEF Range
  <2> QED  BY <2>2, <2>3
<1> QED  BY <1>1, <1>4, <1>5 DEF Lists, a

(* A task is put to wait for flags.                                        *)
FlagWaiting(r, r2, t, ticks) ==
  /\ r2.k = WaitKernel(r.k, t)
  /\ Only(r, r2, Aside \cup {"nodes", "pnode", "DlyList", "delayTick", "k"})
  /\ r2.pnode = [r.pnode EXCEPT ![t] = "node"]
  /\ \A u \in Task \ {t} : r2.delayTick[u] = NoDelay <=> r.delayTick[u] = NoDelay
  /\ ticks = 0 => r2.delayTick[t] = NoDelay

LEMMA FlagWaits ==
  ASSUME NEW r, NEW id, Right(r, id, {}), NEW t \in Task, r.k.state[t] = "RUNNING",
         r.eventID[t] = NoEvent, r.pnode[t] = "null", r.delayTick[t] = NoDelay,
         NEW flags, NEW type, NEW ticks \in Nat, NEW r2, r2 = FlagWait(r, t, flags, type, ticks)
  PROVE  Right(r2, id, {}) /\ FlagWaiting(r, r2, t, ticks)
<1> DEFINE b == FlagBlock(r, t, flags, type)
           K == WaitKernel(r.k, t)
           e == IF ticks = 0 THEN [r EXCEPT !.k = K] ELSE InsertDelayList(r, t, ticks)
           nodes == Append(r.nodes, t)
           pnode == [r.pnode EXCEPT ![t] = "node"]
<1>1. /\ DOMAIN r = Fields /\ r.k \in Kernel /\ r.nodes \in Seq(Task)
      /\ r.pnode \in [Task -> {"null", "node", "set"}]
      /\ Lists(r.nodes, {u \in Task : r.pnode[u] = "node"})
  BY DEF Right, Shape, NodesRight
<1>2. /\ Only(r, b, Aside \cup {"nodes", "pnode"}) /\ b.nodes = nodes /\ b.pnode = pnode
      /\ DOMAIN b = Fields
  <2> DEFINE F == [r.waitFlags EXCEPT ![t] = flags]
             T == [r.waitType EXCEPT ![t] = type]
  <2>1. b = [r EXCEPT !.nodes = nodes, !.pnode = pnode, !.waitFlags = F, !.waitType = T]
    BY <1>1 DEF FlagBlock, Fields
  <2> HIDE DEF b, nodes, pnode, F, T
  <2>2. b.nodes = nodes /\ b.pnode = pnode /\ DOMAIN b = Fields
    BY ONLY <1>1, <2>1 DEF Fields
  <2>3. Only(r, b, {"nodes", "pnode", "waitFlags", "waitType"})
    BY ONLY <1>1, <2>1 DEF Only, Fields
  <2> QED  BY <2>2, <2>3 DEF Only, Aside
<1>3. b.DlyList = r.DlyList /\ b.delayTick = r.delayTick /\ b.k = r.k
  BY <1>2 DEF Only, Fields, Aside
<1>4. r2 = IF ticks = 0 THEN [b EXCEPT !.k = WaitKernel(b.k, t)] ELSE InsertDelayList(b, t, ticks)
  BY <1>2 DEF FlagWait, WaitKernel, Fields
<1>5. e = IF ticks = 0 THEN [r EXCEPT !.k = K] ELSE InsertDelayList(r, t, ticks)
  OBVIOUS
<1> HIDE DEF b, e, nodes, pnode
<1>6. /\ Right(e, id, {t}) /\ Only(r, e, {"DlyList", "delayTick", "k"}) /\ e.k = K
      /\ \A u \in Task \ {t} : e.delayTick[u] = NoDelay <=> r.delayTick[u] = NoDelay
      /\ ticks = 0 => e.delayTick[t] = NoDelay
      /\ Only(b, r2, {"DlyList", "delayTick", "k"}) /\ r2.k = K
      /\ r2.DlyList = e.DlyList /\ r2.delayTick = e.delayTick
  <2>1. CASE ticks = 0
    <3>1. e = [r EXCEPT !.k = K]
      BY <1>5, <2>1
    <3>2. Right(e, id, {} \cup {t}) /\ Only(r, e, {"k"}) /\ e.k = K
      BY <3>1, KernelWaits
    <3>3. {} \cup {t} = {t}
      OBVIOUS
    <3>4. e.DlyList = r.DlyList /\ e.delayTick = r.delayTick
      BY <3>2 DEF Only, Fields
    <3>5. r2 = [b EXCEPT !.k = K]
      BY <1>3, <1>4, <2>1
    <3> HIDE DEF K
    <3>6. Only(b, r2, {"k"}) /\ r2.k = K
      BY ONLY <1>2, <3>5 DEF Only, Fields
    <3>7. r2.DlyList = b.DlyList /\ r2.delayTick = b.delayTick
      BY <3>6 DEF Only, Fields
    <3>8. Only(b, r2, {"DlyList", "delayTick", "k"}) /\ Only(r, e, {"DlyList", "delayTick", "k"})
      BY <3>2, <3>6 DEF Only
    <3>9. Right(e, id, {t})
      BY <3>2, <3>3
    <3> QED  BY <1>3, <3>2, <3>4, <3>6, <3>7, <3>8, <3>9
  <2>2. CASE ticks # 0
    <3>1. e = InsertDelayList(r, t, ticks) /\ r2 = InsertDelayList(b, t, ticks)
      BY <1>4, <1>5, <2>2
    <3>2. /\ Right(e, id, {} \ {t}) /\ Only(r, e, {"DlyList", "delayTick", "k"})
          /\ \A u \in Task \ {t} : e.delayTick[u] = NoDelay <=> r.delayTick[u] = NoDelay
      BY <2>2, <3>1, DelayInserted
    <3>3. Right(e, id, {t})
      BY <3>2, RightMore
    <3>4. /\ e.DlyList = NewDelays(r.DlyList, r.delayTick, t, ticks)[1]
          /\ e.delayTick = NewDelays(r.DlyList, r.delayTick, t, ticks)[2]
          /\ e.k = WaitKernel(r.k, t)
      BY <1>1, <2>2, <3>1, DelaysAre
    <3>5. /\ r2.DlyList = NewDelays(b.DlyList, b.delayTick, t, ticks)[1]
          /\ r2.delayTick = NewDelays(b.DlyList, b.delayTick, t, ticks)[2]
          /\ r2.k = WaitKernel(b.k, t) /\ Only(b, r2, {"DlyList", "delayTick", "k"})
      BY <1>2, <2>2, <3>1, DelaysAre
    <3> QED  BY <1>3, <2>2, <3>2, <3>3, <3>4, <3>5
  <2> QED  BY <2>1, <2>2
<1>7. K.state = [r.k.state EXCEPT ![t] = "WAITING"]
  BY <1>1, WaitKernelFacts
<1> HIDE DEF K
<1>8. r2.nodes = nodes /\ r2.pnode = pnode /\ r2.eventID = r.eventID
  BY <1>2, <1>6 DEF Only, Fields, Aside
<1>9. e.nodes = r.nodes /\ e.pnode = r.pnode /\ e.eventID = r.eventID
  BY <1>6 DEF Only, Fields
<1>10. Only(r, r2, Aside \cup {"nodes", "pnode", "DlyList", "delayTick", "k"})
  BY <1>2, <1>6 DEF Only
<1>11. Only(e, r2, Aside \cup {"nodes", "pnode"})
  <2>1. DOMAIN e = Fields /\ DOMAIN r2 = Fields
    BY <1>6 DEF Only
  <2>2. \A f \in Fields \ (Aside \cup {"nodes", "pnode", "DlyList", "delayTick", "k"}) :
        r2[f] = e[f]
    BY <1>6, <1>10 DEF Only
  <2>3. r2["k"] = e["k"] /\ r2["DlyList"] = e["DlyList"] /\ r2["delayTick"] = e["delayTick"]
    BY <1>6
  <2> QED  BY <2>1, <2>2, <2>3 DEF Only
<1>12. r2.pnode[t] = "node" /\ \A u \in Task \ {t} : r2.pnode[u] = r.pnode[u]
  BY <1>1, <1>8 DEF pnode
<1>13. r2.pnode \in [Task -> {"null", "node", "set"}]
  BY <1>1, <1>8 DEF pnode
<1>14. r2.nodes \in Seq(Task) /\ NodesRight(r2)
  <2>1. t \notin {u \in Task : r.pnode[u] = "node"}
    OBVIOUS
  <2>2. nodes \in Seq(Task) /\ Lists(nodes, {u \in Task : r.pnode[u] = "node"} \cup {t})
    BY <1>1, <2>1, ListEnd DEF nodes
  <2> QED  BY <1>8, <1>12, <2>2, ListSame DEF NodesRight
<1>15. r2.k.state[t] = "WAITING" /\ r2.k = e.k
  <2>1. DOMAIN r.k.state = Task
    BY <1>1 DEF Kernel
  <2> QED  BY <1>6, <1>7, <2>1
<1>16. StatesRight(r2, {})
  <2>1. StatesRight(e, {t})
    BY <1>6 DEF Right
  <2> QED  BY <1>6, <1>8, <1>9, <1>12, <1>15, <2>1 DEF StatesRight, Waits
<1>17. Right(r2, id, {})
  BY <1>6, <1>11, <1>13, <1>14, <1>16, NodesChange
<1> QED  BY <1>6, <1>8, <1>10, <1>17 DEF K, pnode, FlagWaiting

LEMMA WaitForFlagsKeeps ==
  ASSUME SystemInv, NEW t \in Task, NEW flags, NEW type, NEW ticks,
         CoWaitForFlags(t, flags, type, ticks)
  PROVE  SystemRight(s', pc')
<1> DEFINE c == <<t, flags, type, ticks>>
           r1 == Lock(s)
           ret == IF ticks = 0 THEN "flagged" ELSE "flagtimed"
           y == [Rest("unlock") EXCEPT !.ret = ret, !.flags = flags]
<1>1. Makes("waitFlags", c) /\ c[1] = t /\ "waitFlags" \in Services /\ "waitFlags" # "isr"
  BY DEF CoWaitForFlags, Services, ArgumentTypes
<1>2. /\ RunsIn(s, pc, t, "user") /\ Free(s, t) /\ s.app \in App /\ s.k.state[t] = "RUNNING"
      /\ s.delayTick[t] = NoDelay /\ t # Idle /\ c \in Calls[s.app].waitFlags /\ PlacesRight(pc)
  BY <1>1, Made
<1>3. ticks \in Nat
  <2>1. c \in Caller \X (SUBSET Flag) \X FlagType \X Nat
    BY <1>2, CallTypes
  <2> QED  BY <2>1
<1>4. IF Met(type, flags, s.flagRdy)
      THEN s' = Reset(r1, flags \cap s.flagRdy) /\ Unlocks(t, "user")
      ELSE s' = FlagWait(r1, t, flags, type, ticks) /\ pc' = [pc EXCEPT ![t] = y]
  BY DEF CoWaitForFlags
<1>5. \E d \in Calls[s.app].waitFlags : d[1] = t
  BY <1>1, <1>2
<1>6. r1 = Lock(s)
  OBVIOUS
<1>7. ret \in NodePlaces /\ ret # "remove" /\ ret \in At /\ (ret = "flagged" => ticks = 0)
  BY DEF NodePlaces, At, FlagPlaces
<1>8. /\ DOMAIN y = {"at", "ret", "id", "ticks", "val", "flags", "ids"}
      /\ y.at = "unlock" /\ y.ret = ret /\ y.id = 0 /\ y.ticks = 0 /\ y.val = 0
  BY DEF Rest
<1> HIDE DEF c, r1, ret, y
<1>9. /\ Right(r1, Ids(pc), {}) /\ Only(s, r1, {"k"}) /\ DOMAIN r1 = Fields
      /\ r1.k \in Kernel /\ Locks(s.k, r1.k, t) /\ r1.k.state = s.k.state
      /\ r1.delayTick = s.delayTick /\ r1.pnode = s.pnode /\ r1.eventID = s.eventID
      /\ Disciplined => LocksKept(s)
  BY <1>6, SectionStarts
<1>10. CASE Met(type, flags, s.flagRdy)
  <2>1. s' = Reset(r1, flags \cap s.flagRdy) /\ Unlocks(t, "user")
    BY <1>4, <1>10
  <2>2. s' = [r1 EXCEPT !.flagRdy = @ \ ((flags \cap s.flagRdy) \cap r1.resetOpt)]
    BY <2>1 DEF Reset
  <2>3. Only(r1, s', {"flagRdy"})
    BY ONLY <1>9, <2>2 DEF Only, Fields
  <2>4. Only(r1, s', Aside)
    BY <2>3 DEF Only, Aside
  <2>5. Section
    BY <1>6, <2>4, SectionAside
  <2> QED  BY <1>1, <2>1, <2>5, LockedCall
<1>11. CASE ~Met(type, flags, s.flagRdy)
  <2>1. s' = FlagWait(r1, t, flags, type, ticks) /\ pc' = [pc EXCEPT ![t] = y]
    BY <1>4, <1>11
  <2>2. r1.k.state[t] = "RUNNING" /\ r1.eventID[t] = NoEvent
      /\ r1.pnode[t] = "null" /\ r1.delayTick[t] = NoDelay
    BY <1>2, <1>9 DEF Free
  <2>3. /\ Right(s', Ids(pc), {}) /\ s'.k = WaitKernel(r1.k, t)
        /\ Only(r1, s', Aside \cup {"nodes", "pnode", "DlyList", "delayTick", "k"})
        /\ s'.pnode = [r1.pnode EXCEPT ![t] = "node"]
        /\ \A u \in Task \ {t} : s'.delayTick[u] = NoDelay <=> r1.delayTick[u] = NoDelay
        /\ ticks = 0 => s'.delayTick[t] = NoDelay
    <3>1. s' = FlagWait(r1, t, flags, type, ticks)
      BY <2>1
    <3>2. Right(r1, Ids(pc), {})
      BY <1>9
    <3>3. Right(s', Ids(pc), {}) /\ FlagWaiting(r1, s', t, ticks)
      BY <1>3, <2>2, <3>1, <3>2, FlagWaits
    <3> QED  BY <3>3 DEF FlagWaiting
  <2>4. /\ s'.app = s.app /\ s'.eventType = s.eventType /\ s'.holds = s.holds
        /\ s'.initialEventCounter = s.initialEventCounter /\ s'.balance = s.balance
        /\ s'.eventCounter = s.eventCounter /\ s'.eventID = s.eventID /\ s'.pmail = s.pmail
    <3>1. Only(s, s', Aside \cup {"nodes", "pnode", "DlyList", "delayTick", "k"})
      BY <1>9, <2>3 DEF Only
    <3> QED  BY <3>1 DEF Only, Fields, Aside
  <2>5. s'.pnode[t] = "node" /\ \A u \in Task \ {t} : s'.pnode[u] = s.pnode[u]
    <3>1. DOMAIN r1.pnode = Task
      BY <1>9 DEF Right, Shape
    <3> QED  BY <1>9, <2>3, <3>1
  <2>6. Apart(s, s', {t})
    BY <1>9, <2>3, <2>4, <2>5, SameApart
  <2>7. Disciplined => LocksKept(s')
    BY <1>9, <2>4, LocksKeptSame
  <2>8. y.at \in At /\ y.ret \in At /\ y.id \in Nat /\ y.ticks \in Nat
      /\ y.val \in Nat /\ y.at # "remove" /\ y.ret # "remove"
    BY <1>7, <1>8 DEF At, UnlockPlaces
  <2>9. Goes(pc, pc', t) /\ pc'[t] = y /\ PlaceRight(pc'[t])
    BY <1>2, <1>8, <2>1, <2>8, NewCall
  <2>10. Carries(y) = ret
    BY <1>8 DEF Carries, UnlockPlaces
  <2>11. Right(s', Ids(pc'), {})
    <3>1. s'.eventID[t] = NoEvent /\ s'.pmail[t] = NoMail
      BY <1>2, <2>4 DEF Free
    <3> QED  BY <2>3, <2>9, <3>1, IdsGo
  <2>12. \A a \in NodePlaces : a \notin {"off"} \cup ControlPlaces \cup UnlockPlaces
           \cup MutexPlaces \cup WaitPlaces \cup TimerPlaces
           \cup {"post", "renew", "renewed", "accept", "store", "block"}
    BY DEF WaitPlaces, ControlPlaces, UnlockPlaces, MutexPlaces, NodePlaces, TimerPlaces
  <2>13. CallRight(s', y, t)
    <3>1. s'.eventID[t] = NoEvent /\ s'.pmail[t] = NoMail /\ s'.pnode[t] # "null"
      BY <1>2, <2>4, <2>5 DEF Free
    <3>2. \E d \in Calls[s'.app].waitFlags : d[1] = t
      BY <1>5, <2>4
    <3>3. ret = "flagged" => s'.delayTick[t] = NoDelay
      BY <1>7, <2>3
    <3> QED  BY <1>7, <2>10, <2>12, <3>1, <3>2, <3>3 DEF CallRight, WaitPlaces
  <2>14. Disciplined => PermitCall(s', y, t)
    BY <1>7, <2>10, <2>12 DEF PermitCall
  <2>15. Locks(s.k, s'.k, t)
    BY <1>9, <2>3, WaitLocks
  <2>16. "user" \notin UnlockPlaces \cup {"renew", "renewed"} /\ ret \notin {"renew", "renewed"}
    BY <1>7, <2>12 DEF UnlockPlaces
  <2> QED
    BY <1>2, <1>8, <2>6, <2>7, <2>9, <2>10, <2>11, <2>13, <2>14, <2>15, <2>16, TaskLocked
<1> QED  BY <1>10, <1>11

-----------------------------------------------------------------------------
(* A task renews the delay of another one.                                 *)
LEMMA EntersSectionKeeps ==
  ASSUME SystemInv, NEW t \in Task, NEW u, NEW ticks, EntersSection(t, u, ticks)
  PROVE  SystemRight(s', pc')
<1> DEFINE c == <<t, u, ticks>>
           y == [Rest("user") EXCEPT !.at = "renew", !.id = u, !.ticks = ticks]
           r1 == Lock(s)
<1>1. Makes("renew", c) /\ c[1] = t /\ "renew" \in Services /\ "renew" # "isr"
  BY DEF EntersSection, Services, ArgumentTypes
<1>2. /\ RunsIn(s, pc, t, "user") /\ Free(s, t) /\ s.app \in App /\ s.k.state[t] = "RUNNING"
      /\ t # Idle /\ c \in Calls[s.app].renew /\ PlacesRight(pc)
  BY <1>1, Made
<1>3. u \in Task /\ ticks \in Nat
  <2>1. c \in Caller \X Task \X Nat
    BY <1>2, CallTypes
  <2> QED  BY <2>1
<1>4. <<t, u, ticks>> \in Calls[s.app].renew
  BY <1>2
<1>5. u \in Nat
  BY <1>3, KernelAssumption DEF Task
<1>6. s' = r1 /\ pc' = [pc EXCEPT ![t] = y]
  BY DEF EntersSection
<1>7. /\ DOMAIN y = {"at", "ret", "id", "ticks", "val", "flags", "ids"}
      /\ y.at = "renew" /\ y.ret = "user" /\ y.id = u /\ y.ticks = ticks /\ y.val = 0
  BY DEF Rest
<1>8. r1 = Lock(s)
  OBVIOUS
<1> HIDE DEF c, y, r1
<1>9. y.at \in At /\ y.ret \in At /\ y.id \in Nat /\ y.ticks \in Nat /\ y.val \in Nat
        /\ y.at # "remove" /\ y.ret # "remove"
  BY <1>3, <1>5, <1>7 DEF At, DelayPlaces
<1>10. Goes(pc, pc', t) /\ pc'[t] = y /\ PlaceRight(pc'[t])
  BY <1>2, <1>6, <1>7, <1>9, NewCall
<1>11. "renew" \notin {"off", "block", "post", "accept", "store"} \cup ControlPlaces
         \cup UnlockPlaces \cup MutexPlaces \cup NodePlaces \cup TimerPlaces \cup WaitPlaces
  BY DEF ControlPlaces, UnlockPlaces, MutexPlaces, NodePlaces, TimerPlaces, WaitPlaces
<1>12. Carries(y) = "renew"
  BY <1>7, <1>11 DEF Carries
<1>13. "user" \notin UnlockPlaces
  BY DEF UnlockPlaces
<1>14. HeldBy(pc[t]) = 0 /\ HeldBy(y) = 1
  <2>1. pc[t].at = "user"
    BY <1>2 DEF RunsIn
  <2>2. HeldBy(pc[t]) = 0
    BY <1>13, <2>1 DEF HeldBy, Carries, Opens
  <2>3. y.at \notin Opens
    BY <1>7, <1>11 DEF Opens
  <2> QED  BY <1>12, <2>2, <2>3 DEF HeldBy
<1>15. /\ Right(r1, Ids(pc), {}) /\ Locks(s.k, r1.k, t) /\ r1.k.state = s.k.state
       /\ r1.delayTick = s.delayTick /\ r1.pnode = s.pnode /\ r1.eventID = s.eventID
       /\ r1.pmail = s.pmail /\ r1.eventType = s.eventType /\ r1.app = s.app
       /\ r1.holds = s.holds /\ r1.balance = s.balance
       /\ r1.initialEventCounter = s.initialEventCounter /\ r1.eventCounter = s.eventCounter
       /\ Disciplined => LocksKept(s)
  BY <1>8, SectionStarts
<1>16. LocksRight(s'.k, pc') /\ RunningRight(s'.k, pc')
  <2>1. /\ s.k \in Kernel /\ LocksRight(s.k, pc) /\ RunningRight(s.k, pc) /\ pc[Tmr].ret = "off"
        /\ pc[t].at \notin UnlockPlaces
    BY <1>2, <1>13 DEF SystemInv, SystemRight, Right, Shape, PlacesRight, RunsIn
  <2>2. HeldBy(pc'[t]) = HeldBy(pc[t]) + 1 /\ s'.k = r1.k /\ s'.k.state[t] = "RUNNING"
    BY <1>2, <1>6, <1>10, <1>14, <1>15
  <2>3. pc'[t].at \notin UnlockPlaces \ {"unlock"}
    BY <1>7, <1>10, <1>11
  <2>4. t = s.k.TCBRunning /\ ~s.k.PendSV /\ pc[Tmr].at = "off"
    BY <1>2 DEF RunsIn
  <2>5. Locks(s.k, s'.k, t)
    BY <1>15, <2>2
  <2> QED  BY <1>2, <1>10, <2>1, <2>2, <2>3, <2>4, <2>5, SwitchLocks
<1>17. Apart(s, s', {t})
  BY <1>6, <1>15, SameApart
<1>18. Free(s', t)
  BY <1>2, <1>6, <1>15 DEF Free
<1>19. Disciplined => LocksKept(s')
  BY <1>6, <1>15, LocksKeptSame
<1>20. Right(s', Ids(pc'), {})
  BY <1>6, <1>10, <1>15, <1>18, IdsGo DEF Free
<1>21. CallRight(s', y, t)
  <2>1. <<t, y.id, y.ticks>> \in Calls[s'.app].renew
    BY <1>4, <1>6, <1>7, <1>15
  <2> QED  BY <1>11, <1>12, <1>18, <2>1 DEF CallRight, Free
<1>22. Disciplined => PermitCall(s', y, t)
  BY <1>11, <1>12 DEF PermitCall
<1>23. SystemRight(s, pc)
  BY DEF SystemInv
<1> QED  BY <1>10, <1>16, <1>17, <1>19, <1>20, <1>21, <1>22, <1>23, TaskStep

LEMMA LeavesSectionKeeps ==
  ASSUME SystemInv, NEW t \in Task, LeavesSection(t)
  PROVE  SystemRight(s', pc')
<1>1. Runs(t, "renewed") /\ Unlocks(t, "user") /\ s' = s
  BY DEF LeavesSection
<1>2. "renewed" \notin {"user"} \cup UnlockPlaces \cup WaitPlaces \cup NodePlaces
  BY DEF UnlockPlaces, WaitPlaces, NodePlaces
<1>3. /\ RunsIn(s, pc, t, "renewed") /\ t # Idle /\ Free(s, t) /\ Carries(pc[t]) = "renewed"
      /\ PlacesRight(pc) /\ SystemRight(s, pc)
  BY <1>1, <1>2, AtPlace DEF SystemInv, SystemRight
<1>4. /\ Goes(pc, pc', t) /\ PlaceRight(pc'[t]) /\ pc'[t].at = "unlock" /\ Carries(pc'[t]) = "user"
  BY <1>1, <1>3, UnlocksGo DEF At
<1>5. Right(s', Ids(pc), {}) /\ Serves(s, s', {}) /\ s'.k = s.k
  BY <1>1, QuietSame DEF Quiet
<1>6. EasyPlace(pc'[t])
  BY <1>4 DEF EasyPlace, EasyPlaces
<1>7. pc[t].at = "renewed"
  BY <1>3 DEF RunsIn
<1>8. HeldBy(pc[t]) = 1
  BY <1>2, <1>3, <1>7 DEF HeldBy, Opens
<1>9. HeldBy(pc'[t]) = 1
  BY <1>4, Strings DEF HeldBy
<1> QED  BY <1>2, <1>3, <1>4, <1>5, <1>6, <1>8, <1>9, EasyQuiet

(* What a task renews the delay of is not waiting for anything else, if it *)
(* is to end.                                                              *)
LEMMA RenewedWaits ==
  ASSUME SystemInv, RenewRules, s.app \in App, NEW t \in Task, NEW u \in Task, NEW ticks \in Nat,
         <<t, u, ticks>> \in Calls[s.app].renew
  PROVE  u # t /\ (ticks = 0 => s.eventID[u] = NoEvent /\ s.pnode[u] # "node")
<1> DEFINE c == <<t, u, ticks>>
<1>1. c \in Calls[s.app].renew /\ c[1] = t /\ c[2] = u /\ c[3] = ticks
  OBVIOUS
<1> HIDE DEF c
<1>2. /\ u # t
      /\ ticks = 0 => \A op \in {"pendSem", "pendMail", "waitFlags"} :
                        \A d \in Calls[s.app][op] : d[1] # u
  BY <1>1 DEF RenewRules
<1>3. ASSUME ticks = 0 PROVE s.eventID[u] = NoEvent /\ s.pnode[u] # "node"
  <2>1. /\ \A d \in Calls[s.app].pendSem \cup Calls[s.app].pendMail : d[1] # u
        /\ \A d \in Calls[s.app].waitFlags : d[1] # u
    <3>1. \A op \in {"pendSem", "pendMail", "waitFlags"} : \A d \in Calls[s.app][op] : d[1] # u
      BY <1>2, <1>3
    <3>2. \A d \in Calls[s.app]["pendSem"] : d[1] # u  BY <3>1
    <3>3. \A d \in Calls[s.app]["pendMail"] : d[1] # u  BY <3>1
    <3>4. \A d \in Calls[s.app]["waitFlags"] : d[1] # u  BY <3>1
    <3> QED  BY <3>2, <3>3, <3>4
  <2>2. CallRight(s, pc[u], u)
    BY DEF SystemInv, SystemRight
  <2> QED  BY <2>1, <2>2 DEF CallRight
<1> QED  BY <1>2, <1>3

LEMMA ResetDelayKeeps ==
  ASSUME SystemInv, RenewRules, NEW t \in Task, CoResetTaskDelayTick(t)
  PROVE  SystemRight(s', pc')
<1> DEFINE u == pc[t].id
           ticks == pc[t].ticks
           r1 == Lock(s)
           d == RemoveDelayList(r1, u)
<1>1. Runs(t, "renew")
  BY DEF CoResetTaskDelayTick
<1>2. IF s.delayTick[u] = NoDelay
      THEN Goto(t, "renewed") /\ s' = s
      ELSE /\ s' = IF ticks = 0 THEN InsertReady(d, u) ELSE InsertDelayList(d, u, ticks)
           /\ Unlocks(t, "renewed")
  BY DEF CoResetTaskDelayTick
<1>3. "renew" \notin {"user"} \cup UnlockPlaces \cup WaitPlaces \cup NodePlaces
  BY DEF UnlockPlaces, WaitPlaces, NodePlaces
<1>4. /\ RunsIn(s, pc, t, "renew") /\ t # Idle /\ Free(s, t) /\ Carries(pc[t]) = "renew"
      /\ PlacesRight(pc) /\ SystemRight(s, pc) /\ CallRight(s, pc[t], t) /\ s.app \in App
      /\ s.k.state[t] = "RUNNING"
  BY <1>1, <1>3, AtPlace DEF SystemInv, SystemRight
<1>5. <<t, u, ticks>> \in Calls[s.app].renew
  BY <1>4 DEF CallRight
<1>6. u \in Task /\ ticks \in Nat
  <2>1. <<t, u, ticks>> \in Caller \X Task \X Nat
    BY <1>4, <1>5, CallTypes
  <2> QED  BY <2>1
<1>7. u # t /\ (ticks = 0 => s.eventID[u] = NoEvent /\ s.pnode[u] # "node")
  BY <1>4, <1>5, <1>6, RenewedWaits
<1>8. r1 = Lock(s) /\ d = RemoveDelayList(r1, u)
  OBVIOUS
<1>9. pc[t].at = "renew"
  BY <1>4 DEF RunsIn
<1>10. HeldBy(pc[t]) = 1
  BY <1>3, <1>4, <1>9 DEF HeldBy, Opens
<1> HIDE DEF u, ticks, r1, d
<1>11. CASE s.delayTick[u] = NoDelay
  <2>1. Goto(t, "renewed") /\ s' = s
    BY <1>2, <1>11
  <2>2. /\ Goes(pc, pc', t) /\ PlaceRight(pc'[t]) /\ pc'[t].at = "renewed"
    BY <1>4, <2>1, GotoGo DEF At, DelayPlaces
  <2>3. Right(s', Ids(pc), {}) /\ Serves(s, s', {}) /\ s'.k = s.k
    BY <2>1, QuietSame DEF Quiet
  <2>4. "renewed" \notin UnlockPlaces
    BY DEF UnlockPlaces
  <2>5. Carries(pc'[t]) = "renewed"
    BY <2>2, <2>4 DEF Carries
  <2>6. EasyPlace(pc'[t])
    BY <2>5 DEF EasyPlace, EasyPlaces
  <2>7. HeldBy(pc'[t]) = 1
    BY <2>2, <2>4, <2>5 DEF HeldBy, Opens
  <2> QED  BY <1>3, <1>4, <1>10, <2>2, <2>3, <2>4, <2>6, <2>7, EasyQuiet
<1>12. CASE s.delayTick[u] # NoDelay
  <2>1. /\ s' = IF ticks = 0 THEN InsertReady(d, u) ELSE InsertDelayList(d, u, ticks)
        /\ Unlocks(t, "renewed")
    BY <1>2, <1>12
  <2>2. /\ Right(r1, Ids(pc), {}) /\ Only(s, r1, {"k"}) /\ DOMAIN r1 = Fields
        /\ r1.k \in Kernel /\ Locks(s.k, r1.k, t) /\ r1.k.state = s.k.state
        /\ r1.delayTick = s.delayTick /\ r1.pnode = s.pnode /\ r1.eventID = s.eventID
        /\ Disciplined => LocksKept(s)
    BY <1>8, SectionStarts
  <2>3. r1.k.state[u] = "WAITING" /\ r1.pnode[u] # "set"
    <3>1. StatesRight(r1, {}) /\ r1.delayTick[u] # NoDelay
      BY <1>12, <2>2 DEF Right
    <3> QED  BY <1>6, <3>1 DEF StatesRight, Waits
  <2>4. /\ Right(d, Ids(pc), {} \cup {u}) /\ Only(r1, d, {"DlyList", "delayTick"})
        /\ d.delayTick[u] = NoDelay
        /\ \A v \in Task \ {u} : d.delayTick[v] = NoDelay <=> r1.delayTick[v] = NoDelay
    BY <1>6, <1>8, <1>12, <2>2, DelayRemoved
  <2>5. {} \cup {u} = {u} /\ {u} \ {u} = {}
    OBVIOUS
  <2>6. Right(d, Ids(pc), {u})
    BY <2>4, <2>5
  <2>7. d.k = r1.k /\ d.eventID = r1.eventID /\ d.pnode = r1.pnode
    BY <2>4 DEF Only, Fields
  <2>8. /\ Right(s', Ids(pc), {}) /\ Only(d, s', {"DlyList", "delayTick", "k"})
        /\ Locks(s.k, s'.k, t) /\ s'.k.state[t] = "RUNNING"
        /\ \A v \in Task \ {u} : s'.delayTick[v] = NoDelay <=> d.delayTick[v] = NoDelay
    <3>1. CASE ticks = 0
      <4>1. s' = InsertReady(d, u)
        BY <2>1, <3>1
      <4>2. ~Waits(d, u) /\ d.k.state[u] = "WAITING"
        BY <1>7, <2>2, <2>3, <2>4, <2>7, <3>1 DEF Waits
      <4>3. /\ Right(s', Ids(pc), {u} \ {u}) /\ Only(d, s', {"k"}) /\ KernelServes(d.k, s'.k)
            /\ s'.k.state = [d.k.state EXCEPT ![u] = "READY"]
        BY <1>6, <2>6, <4>1, <4>2, ReadyAgain
      <4>4. s'.delayTick = d.delayTick
        BY <4>3 DEF Only, Fields
      <4>5. DOMAIN d.k.state = Task
        BY <2>2, <2>7 DEF Kernel
      <4>6. /\ \A v \in Task : s'.k.state[v] = r1.k.state[v]
                               \/ (r1.k.state[v] = "WAITING" /\ s'.k.state[v] = "READY")
            /\ s'.k.state[t] = "RUNNING"
        BY <1>4, <1>7, <2>2, <2>3, <2>7, <4>3, <4>5
      <4>7. Locks(s.k, s'.k, t)
        <5>1. KernelServes(r1.k, s'.k)
          BY <2>7, <4>3
        <5> QED  BY ONLY <2>2, <4>6, <5>1, LocksServes
      <4>8. Only(d, s', {"DlyList", "delayTick", "k"})
        BY <4>3 DEF Only
      <4>9. Right(s', Ids(pc), {})
        BY <2>5, <4>3
      <4> QED  BY <4>4, <4>6, <4>7, <4>8, <4>9
    <3>2. CASE ticks # 0
      <4>1. s' = InsertDelayList(d, u, ticks) /\ ticks \in Nat \ {0}
        BY <1>6, <2>1, <3>2
      <4>2. d.pnode[u] # "set" /\ d.k.state[u] \in {"RUNNING", "WAITING"}
        BY <2>3, <2>7
      <4>3. /\ Right(s', Ids(pc), {u} \ {u}) /\ Only(d, s', {"DlyList", "delayTick", "k"})
            /\ s'.k = WaitKernel(d.k, u)
            /\ \A v \in Task \ {u} : s'.delayTick[v] = NoDelay <=> d.delayTick[v] = NoDelay
        BY <1>6, <2>4, <2>6, <4>1, <4>2, DelayInserted
      <4>4. Right(s', Ids(pc), {})
        BY <2>5, <4>3
      <4>5. /\ s'.k \in Kernel /\ s'.k.TaskSchedReq
            /\ s'.k.state = [r1.k.state EXCEPT ![u] = "WAITING"]
            /\ s'.k.prio = r1.k.prio /\ s'.k.TCBRdy = r1.k.TCBRdy
            /\ s'.k.TCBRunning = r1.k.TCBRunning /\ s'.k.TCBNext = r1.k.TCBNext
            /\ s'.k.OSSchedLock = r1.k.OSSchedLock /\ s'.k.OSIntNesting = r1.k.OSIntNesting
            /\ s'.k.PendSV = r1.k.PendSV
        BY <1>6, <2>2, <2>7, <4>3, WaitKernelFacts, SMTT(30)
      <4>6. \A v \in Task : s'.k.state[v] = r1.k.state[v]
        <5>1. DOMAIN r1.k.state = Task
          BY <2>2 DEF Kernel
        <5> QED  BY <2>3, <4>5, <5>1
      <4>7. Locks(s.k, s'.k, t) /\ s'.k.state[t] = "RUNNING"
        BY <1>4, <2>2, <4>5, <4>6 DEF Locks
      <4> QED  BY <4>3, <4>4, <4>7
    <3> QED  BY <3>1, <3>2
  <2>9. /\ s'.app = s.app /\ s'.eventType = s.eventType /\ s'.holds = s.holds
        /\ s'.initialEventCounter = s.initialEventCounter /\ s'.balance = s.balance
        /\ s'.eventCounter = s.eventCounter /\ s'.eventID = s.eventID /\ s'.pmail = s.pmail
        /\ s'.pnode = s.pnode
    <3>1. Only(s, s', {"DlyList", "delayTick", "k"})
      BY <2>2, <2>4, <2>8 DEF Only
    <3> QED  BY <3>1 DEF Only, Fields
  <2>10. \A v \in Task \ {t} : s.delayTick[v] = NoDelay => s'.delayTick[v] = NoDelay
    BY <1>12, <2>2, <2>4, <2>8
  <2>11. Apart(s, s', {t})
    BY <2>9, <2>10, SameApart
  <2>12. Free(s', t)
    BY <1>4, <2>9 DEF Free
  <2>13. Disciplined => LocksKept(s')
    BY <2>2, <2>9, LocksKeptSame
  <2>14. /\ Goes(pc, pc', t) /\ PlaceRight(pc'[t]) /\ pc'[t].at = "unlock"
         /\ Carries(pc'[t]) = "renewed"
    BY <1>4, <2>1, UnlocksGo DEF At, DelayPlaces
  <2>15. Right(s', Ids(pc'), {})
    BY <2>8, <2>12, <2>14, IdsGo DEF Free
  <2>16. CallRight(s', pc'[t], t) /\ PermitCall(s', pc'[t], t)
    BY <2>12, <2>14, CallEasy DEF EasyPlaces
  <2>17. HeldBy(pc'[t]) = 2
    BY <2>14, Strings DEF HeldBy
  <2>18. LocksRight(s'.k, pc') /\ RunningRight(s'.k, pc')
    <3>1. /\ s.k \in Kernel /\ LocksRight(s.k, pc) /\ RunningRight(s.k, pc) /\ pc[Tmr].ret = "off"
          /\ pc[t].at \notin UnlockPlaces
      BY <1>3, <1>4, <1>9 DEF SystemRight, Right, Shape, PlacesRight
    <3>2. HeldBy(pc'[t]) = HeldBy(pc[t]) + 1
      BY <1>10, <2>17
    <3>3. pc'[t].at \notin UnlockPlaces \ {"unlock"}
      BY <2>14
    <3>4. t = s.k.TCBRunning /\ ~s.k.PendSV /\ pc[Tmr].at = "off"
      BY <1>4 DEF RunsIn
    <3> QED  BY <1>4, <2>8, <2>14, <3>1, <3>2, <3>3, <3>4, SwitchLocks
  <2> QED  BY <1>4, <2>11, <2>13, <2>14, <2>15, <2>16, <2>18, TaskStep
<1> QED  BY <1>11, <1>12

-----------------------------------------------------------------------------
(* OsSchedUnlock(): the context c is in it, of the running task or of the  *)
(* tick.                                                                   *)
Unlocking(k, p, c) ==
  /\ c \in Context
  /\ c # Tmr => c = k.TCBRunning /\ ~k.PendSV /\ p[Tmr].at = "off"
  /\ p[c].at \in UnlockPlaces
  /\ p[Tmr].at \in {"off"} \cup UnlockPlaces /\ p[Tmr].ret = "off"

(* The context c goes from place to place in OsSchedUnlock().              *)
Moves(p, p2, c) ==
  /\ DOMAIN p2 = Context /\ \A d \in Context \ {c} : p2[d] = p[d]
  /\ p2[c].at \in UnlockPlaces /\ p2[c].ret = p[c].ret
  /\ p2[c].id = p[c].id /\ p2[c].ticks = p[c].ticks /\ p2[c].val = p[c].val

(* The last to leave the locked sections is the only one that is in one.   *)
LEMMA UnlocksAlone ==
  ASSUME NEW k \in Kernel, NEW p, LocksRight(k, p), RunningRight(k, p), NEW c,
         Unlocking(k, p, c), p[c].at \in Opens, p[c].at = "unlock" => k.OSSchedLock = 1
  PROVE  /\ k.OSSchedLock = 1 /\ HeldBy(p[c]) = 1 /\ ~k.PendSV
         /\ Carries(p[c]) \notin {"renew", "renewed"}
         /\ c = Tmr => HeldBy(p[k.TCBRunning]) = 0
         /\ c # Tmr => HeldBy(p[Tmr]) = 0
<1>0. /\ "off" \notin UnlockPlaces /\ "release" \in UnlockPlaces
      /\ "release" \notin Opens /\ "off" \notin Opens
  BY DEF UnlockPlaces, Opens
<1>1. HeldBy(p[k.TCBRunning]) \in Nat /\ HeldBy(p[Tmr]) \in Nat
  BY HeldNat
<1>2. CASE c = Tmr
  <2>1. HeldBy(p[Tmr]) = 1 /\ Carries(p[Tmr]) = "off"
    BY <1>2 DEF HeldBy, Carries, Unlocking
  <2>2. ~k.PendSV
    BY <1>0, <1>2 DEF LocksRight
  <2>3. HeldBy(p[k.TCBRunning]) = 0 /\ k.OSSchedLock = 1
    <3>1. CASE p[Tmr].at = "unlock"
      BY <1>1, <1>2, <2>1, <3>1 DEF LocksRight
    <3>2. CASE p[Tmr].at # "unlock"
      <4>1. HeldBy(p[k.TCBRunning]) = 0 /\ k.OSSchedLock <= 1
        BY <1>2, <3>2 DEF LocksRight, Unlocking
      <4>2. k.OSSchedLock = 1 \/ k.OSSchedLock = 2
        BY <2>1, <4>1 DEF LocksRight
      <4> QED  BY <4>1, <4>2
    <3> QED  BY <3>1, <3>2
  <2> QED  BY <1>2, <2>1, <2>2, <2>3
<1>3. CASE c # Tmr
  <2>1. c = k.TCBRunning /\ ~k.PendSV /\ p[Tmr].at = "off"
    BY <1>3 DEF Unlocking
  <2>2. HeldBy(p[Tmr]) = 0
    BY <1>0, <2>1 DEF HeldBy, Carries, Unlocking, Opens
  <2>3. k.OSSchedLock = HeldBy(p[c])
    BY <1>0, <1>1, <2>1, <2>2 DEF LocksRight
  <2>4. HeldBy(p[c]) = 1 + (IF Carries(p[c]) \in {"renew", "renewed"} THEN 1 ELSE 0)
    BY DEF HeldBy
  <2>5. Carries(p[c]) \notin {"renew", "renewed"}
    <3>1. CASE p[c].at = "unlock"
      BY <2>3, <2>4, <3>1
    <3>2. CASE p[c].at # "unlock"
      BY <2>1, <3>2 DEF LocksRight, Unlocking
    <3> QED  BY <3>1, <3>2
  <2> QED  BY <1>3, <2>1, <2>2, <2>3, <2>4, <2>5
<1> QED  BY <1>2, <1>3

LEMMA SwitchServes ==
  ASSUME NEW k \in Kernel, NEW p, LocksRight(k, p), RunningRight(k, p), NEW c,
         Unlocking(k, p, c), p[c].at \in Opens, p[c].at = "unlock" => k.OSSchedLock = 1,
         NEW k2, KernelServes(k, k2),
         \A u \in Task :
            \/ k2.state[u] = k.state[u]
            \/ k.state[u] = "WAITING" /\ k2.state[u] = "READY"
            \/ k.state[u] = "WAITING" /\ k2.state[u] = "RUNNING" /\ u = k.TCBRunning,
         NEW p2, Moves(p, p2, c), p2[c].at \in Opens
  PROVE  LocksRight(k2, p2) /\ RunningRight(k2, p2)
<1>1. /\ k.OSSchedLock = 1 /\ HeldBy(p[c]) = 1 /\ ~k.PendSV
      /\ Carries(p[c]) \notin {"renew", "renewed"}
      /\ c = Tmr => HeldBy(p[k.TCBRunning]) = 0
      /\ c # Tmr => HeldBy(p[Tmr]) = 0
  BY UnlocksAlone
<1>2. Carries(p2[c]) = Carries(p[c]) /\ HeldBy(p2[c]) = HeldBy(p[c])
  BY DEF Carries, HeldBy, Moves, Unlocking
<1>3. Idle \in Task /\ k.TCBRunning \in Task /\ Tmr \notin Task
      /\ Tmr \in Context /\ Task \subseteq Context
  BY TmrApart, KernelAssumption DEF Kernel, Idle, Task
<1>4. \A d \in Context : HeldBy(p2[d]) = HeldBy(p[d]) /\ (d # c => p2[d] = p[d])
  BY <1>2 DEF Moves
<1>5. LocksRight(k2, p2)
  <2>1. \A t \in Task \ {k2.TCBRunning} : HeldBy(p2[t]) = 0
    BY <1>3, <1>4 DEF LocksRight, KernelServes
  <2>2. HeldBy(p2[k2.TCBRunning]) + HeldBy(p2[Tmr]) = 1 /\ k2.OSSchedLock = 1
    BY <1>1, <1>3, <1>4 DEF KernelServes, Unlocking
  <2>3. p2[k2.TCBRunning].at \in UnlockPlaces \ {"unlock"} =>
          Carries(p2[k2.TCBRunning]) \notin {"renew", "renewed"}
    BY <1>1, <1>2, <1>3, <1>4 DEF KernelServes, LocksRight
  <2>4. p2[Tmr].at \in UnlockPlaces \ {"unlock"} => HeldBy(p2[k2.TCBRunning]) = 0
    <3>1. "off" \notin UnlockPlaces
      BY DEF UnlockPlaces
    <3> QED  BY <1>1, <1>3, <1>4, <3>1 DEF KernelServes, Unlocking
  <2> QED  BY <1>1, <2>1, <2>2, <2>3, <2>4 DEF LocksRight, KernelServes
<1>6. RunningRight(k2, p2)
  <2>1. \A t \in Task : k2.state[t] = "RUNNING" => t = k2.TCBNext
    BY <1>1 DEF RunningRight, KernelServes
  <2>2. ~k2.PendSV /\ k2.TCBNext = k2.TCBRunning
    BY <1>1 DEF RunningRight, KernelServes
  <2>3. k2.state[k2.TCBRunning] # "RUNNING" =>
          /\ k2.TaskSchedReq /\ p2[k2.TCBRunning].at \in Opens
          /\ HeldBy(p2[k2.TCBRunning]) = 1
    <3> SUFFICES ASSUME k2.state[k2.TCBRunning] # "RUNNING"
                 PROVE  /\ k2.TaskSchedReq /\ p2[k2.TCBRunning].at \in Opens
                        /\ HeldBy(p2[k2.TCBRunning]) = 1
      OBVIOUS
    <3>1. k2.TCBRunning = k.TCBRunning /\ k.state[k.TCBRunning] # "RUNNING"
      BY <1>3 DEF KernelServes
    <3>2. k.TaskSchedReq /\ p[k.TCBRunning].at \in Opens /\ HeldBy(p[k.TCBRunning]) = 1
      BY <1>1, <3>1 DEF RunningRight
    <3> QED  BY <1>3, <1>4, <3>1, <3>2 DEF KernelServes
  <2>4. k2.state[Idle] \in {"READY", "RUNNING"}
    BY <1>3 DEF RunningRight
  <2>5. p2[Idle].at \in {"user"} \cup UnlockPlaces /\ p2[Idle].ret = "user"
    BY <1>3, <1>4 DEF RunningRight, Moves
  <2> QED  BY <2>1, <2>2, <2>3, <2>4, <2>5 DEF RunningRight
<1> QED  BY <1>5, <1>6

-----------------------------------------------------------------------------
(* The steps of OsSchedUnlock() up to the schedule.                        *)
LEMMA RunsUnlocking ==
  ASSUME SystemInv, NEW c \in Context, NEW at \in UnlockPlaces, Runs(c, at)
  PROVE  /\ Unlocking(s.k, pc, c) /\ pc[c].at = at
         /\ s.k \in Kernel /\ LocksRight(s.k, pc) /\ RunningRight(s.k, pc) /\ PlacesRight(pc)
         /\ Right(s, Ids(pc), {}) /\ s.app \in App
         /\ c # Tmr => c \in Task /\ c = s.k.TCBRunning /\ ~s.k.PendSV /\ pc[Tmr].at = "off"
<1>1. pc[Tmr].at \in {"off"} \cup UnlockPlaces /\ pc[Tmr].ret = "off"
  BY DEF SystemInv, SystemRight, PlacesRight
<1>2. s.k \in Kernel /\ s.app \in App
  BY DEF SystemInv, SystemRight, Right, Shape
<1>3. c # Tmr => c \in Task
  BY DEF Context
<1> QED  BY <1>1, <1>2, <1>3 DEF Runs, Unlocking, SystemInv, SystemRight

LEMMA GotoMoves ==
  ASSUME PlacesRight(pc), NEW c \in Context, NEW at \in UnlockPlaces, Goto(c, at)
  PROVE  Moves(pc, pc', c) /\ pc'[c].at = at
<1> DEFINE y == [pc[c] EXCEPT !.at = at]
<1>1. DOMAIN pc = Context /\ PlaceRight(pc[c])
  BY DEF PlacesRight
<1>2. pc' = [pc EXCEPT ![c] = y]
  BY <1>1 DEF Goto
<1>3. /\ y.at = at /\ y.ret = pc[c].ret /\ y.id = pc[c].id
      /\ y.ticks = pc[c].ticks /\ y.val = pc[c].val
  BY <1>1 DEF PlaceRight
<1> HIDE DEF y
<1>4. pc'[c] = y /\ DOMAIN pc' = Context /\ \A d \in Context \ {c} : pc'[d] = pc[d]
  BY <1>1, <1>2
<1> QED  BY <1>3, <1>4 DEF Moves

LEMMA PlacesMove ==
  ASSUME NEW p, PlacesRight(p), NEW c \in Context, NEW p2, Moves(p, p2, c),
         DOMAIN p2[c] = DOMAIN p[c]
  PROVE  PlacesRight(p2) /\ Ids(p2) = Ids(p)
<1>1. \A d \in Context : PlaceRight(p[d])
  BY DEF PlacesRight
<1>2. p2[c].at \in At /\ p2[c].at # "remove"
  BY Strings DEF Moves, UnlockPlaces, At
<1>3. PlaceRight(p2[c])
  BY <1>1, <1>2 DEF PlaceRight, Moves
<1>4. PlacesRight(p2)
  BY <1>1, <1>3, TmrApart DEF PlacesRight, Moves
<1>5. \A t \in Task : p2[t].id = p[t].id
  BY TmrApart DEF Moves
<1> QED  BY <1>4, <1>5 DEF Ids

(* No task makes a call or ends one.                                       *)
LEMMA CallsGoOn ==
  ASSUME SystemInv, Right(s', Ids(pc'), {}), PlacesRight(pc'),
         LocksRight(s'.k, pc'), RunningRight(s'.k, pc'), Apart(s, s', {}),
         \A t \in Task : SameCall(pc[t], pc'[t]), Disciplined => LocksKept(s')
  PROVE  SystemRight(s', pc')
<1>1. SystemRight(s, pc)
  BY DEF SystemInv
<1>2. {} \subseteq Task /\ \A t \in Task \ {} : SameCall(pc[t], pc'[t])
  OBVIOUS
<1> QED  BY <1>1, <1>2, StepRight

(* Serving in it: the calls of the tasks go on.                            *)
LEMMA ServesMoves ==
  ASSUME SystemInv, NEW c \in Context, Moves(pc, pc', c), DOMAIN pc'[c] = DOMAIN pc[c],
         pc[c].at \in UnlockPlaces,
         Right(s', Ids(pc), {}), Apart(s, s', {}), Disciplined => LocksKept(s'),
         LocksRight(s'.k, pc'), RunningRight(s'.k, pc')
  PROVE  SystemRight(s', pc')
<1>1. PlacesRight(pc') /\ Ids(pc') = Ids(pc)
  BY PlacesMove DEF SystemInv, SystemRight
<1>2. \A t \in Task : SameCall(pc[t], pc'[t])
  <2> SUFFICES ASSUME NEW t \in Task PROVE SameCall(pc[t], pc'[t])
    OBVIOUS
  <2>1. t \in Context
    BY TmrApart
  <2>2. CASE t = c
    BY <2>2 DEF Moves, SameCall, Carries
  <2>3. CASE t # c
    BY <2>1, <2>3 DEF Moves, SameCall
  <2> QED  BY <2>2, <2>3
<1>3. Right(s', Ids(pc'), {})
  BY <1>1
<1> QED  BY <1>1, <1>2, <1>3, CallsGoOn

LEMMA DevicesApart ==
  ASSUME NEW r, r.app \in App, NEW r2, Serves(r, r2, Devices(r))
  PROVE  Apart(r, r2, {}) /\ (Disciplined /\ LocksKept(r) => LocksKept(r2))
<1>1. \A e \in Devices(r) : e \in Event /\ r.eventType[e] = "sem" => PostsFromIsr(r.app, e)
  BY EventAssumption DEF Devices, NoEvent, Drains, Event
<1>2. Apart(r, r2, {})
  BY <1>1, ServesAreApart DEF ServesApart
<1>3. ASSUME Disciplined, LocksKept(r) PROVE LocksKept(r2)
  <2>1. \A e \in Devices(r) : e \in Event /\ r.eventType[e] = "sem" => e \notin Setup[r.app].locks
    BY <1>1, <1>3, DevicesNotLocks
  <2> QED  BY <1>3, <2>1, LocksKeptServed
<1> QED  BY <1>2, <1>3

LEMMA ServesKeeps ==
  ASSUME SystemInv, NEW c \in Context, NEW at \in Opens, Runs(c, at),
         at = "unlock" => s.k.OSSchedLock = 1,
         Moves(pc, pc', c), DOMAIN pc'[c] = DOMAIN pc[c], pc'[c].at \in Opens,
         Right(s', Ids(pc), {}), Serves(s, s', Devices(s))
  PROVE  SystemRight(s', pc')
<1>0. at \in UnlockPlaces
  BY DEF Opens
<1>1. /\ Unlocking(s.k, pc, c) /\ pc[c].at = at
      /\ s.k \in Kernel /\ LocksRight(s.k, pc) /\ RunningRight(s.k, pc) /\ s.app \in App
  BY <1>0, RunsUnlocking
<1>2. KernelServes(s.k, s'.k) /\
      \A u \in Task :
            \/ s'.k.state[u] = s.k.state[u]
            \/ s.k.state[u] = "WAITING" /\ s'.k.state[u] = "READY"
            \/ s.k.state[u] = "WAITING" /\ s'.k.state[u] = "RUNNING" /\ u = s.k.TCBRunning
  BY DEF Serves
<1>3. LocksRight(s'.k, pc') /\ RunningRight(s'.k, pc')
  BY <1>1, <1>2, SwitchServes
<1>4. Apart(s, s', {}) /\ (Disciplined => LocksKept(s'))
  BY <1>1, DevicesApart DEF SystemInv, SystemRight
<1> QED  BY <1>0, <1>1, <1>3, <1>4, ServesMoves

LEMMA GotoKeeps ==
  ASSUME SystemInv, NEW c \in Context, NEW at \in Opens, Runs(c, at),
         at = "unlock" => s.k.OSSchedLock = 1, NEW at2 \in Opens, Goto(c, at2),
         Right(s', Ids(pc), {}), Serves(s, s', Devices(s))
  PROVE  SystemRight(s', pc')
<1>1. PlacesRight(pc) /\ at2 \in UnlockPlaces
  BY DEF SystemInv, SystemRight, Opens
<1>2. Moves(pc, pc', c) /\ pc'[c].at = at2
  BY <1>1, GotoMoves
<1>3. DOMAIN pc'[c] = DOMAIN pc[c]
  BY <1>1 DEF Goto, PlacesRight
<1> QED  BY <1>2, <1>3, ServesKeeps

LEMMA OpensAre ==
  {"unlock", "time", "reset", "timers", "timersReset", "drain", "clear", "sched"} \subseteq Opens
BY DEF Opens, UnlockPlaces

LEMMA ServesItself ==
  ASSUME SystemInv
  PROVE  Right(s, Ids(pc), {}) /\ Serves(s, s, Devices(s))
<1>1. Right(s, Ids(pc), {}) /\ s.k \in Kernel
  BY DEF SystemInv, SystemRight, Right, Shape
<1> QED  BY <1>1, ServesNone

LEMMA UnlockLastKeeps ==
  ASSUME SystemInv, NEW c \in Context, UnlockLast(c)
  PROVE  SystemRight(s', pc')
<1>1. Right(s', Ids(pc), {}) /\ Serves(s, s', Devices(s)) /\ s.k.OSSchedLock = 1
  BY ServesItself DEF UnlockLast
<1>2. Runs(c, "unlock") /\ (Goto(c, "time") \/ Goto(c, "sched"))
  BY DEF UnlockLast
<1> QED  BY <1>1, <1>2, OpensAre, GotoKeeps

LEMMA NoEventIsOne ==
  ASSUME NEW r
  PROVE  NoEvent \in Devices(r)
BY DEF Devices

LEMMA RespondTimeKeeps ==
  ASSUME SystemInv, NEW c \in Context, RespondTime(c)
  PROVE  SystemRight(s', pc')
<1>1. s' = s \/ s' = TimeDispose(s)
  BY DEF RespondTime
<1>2. Right(s', Ids(pc), {}) /\ Serves(s, s', Devices(s))
  BY <1>1, ServesItself, DelaysDisposed
<1>3. Runs(c, "time") /\ (Goto(c, "reset") \/ Goto(c, "timers") \/ Goto(c, "drain"))
  BY DEF RespondTime, AfterTime
<1> QED  BY <1>2, <1>3, OpensAre, GotoKeeps

LEMMA SetsAside ==
  ASSUME SystemInv, NEW F, F \subseteq Aside, Only(s, s', F)
  PROVE  Right(s', Ids(pc), {}) /\ Serves(s, s', Devices(s))
BY ServesItself, AsideChange

LEMMA RespondResetKeeps ==
  ASSUME SystemInv, NEW c \in Context, RespondReset(c)
  PROVE  SystemRight(s', pc')
<1>1. Only(s, s', {"TimeReq"}) /\ {"TimeReq"} \subseteq Aside
  BY DEF RespondReset, Only, Fields, SystemInv, SystemRight, Right, Shape, Aside
<1>2. Right(s', Ids(pc), {}) /\ Serves(s, s', Devices(s))
  BY <1>1, SetsAside
<1>3. Runs(c, "reset") /\ (Goto(c, "timers") \/ Goto(c, "drain"))
  BY DEF RespondReset, AfterTime
<1> QED  BY <1>2, <1>3, OpensAre, GotoKeeps

LEMMA RespondTimersKeeps ==
  ASSUME SystemInv, NEW c \in Context, RespondTimers(c)
  PROVE  SystemRight(s', pc')
<1>1. s' = s \/ s' = TmrDispose(s)
  BY DEF RespondTimers
<1>2. Right(s', Ids(pc), {}) /\ Serves(s, s', Devices(s))
  BY <1>1, ServesItself, TimersDisposed, NoEventIsOne
<1>3. Runs(c, "timers") /\ (Goto(c, "timersReset") \/ Goto(c, "drain"))
  BY DEF RespondTimers
<1> QED  BY <1>2, <1>3, OpensAre, GotoKeeps

LEMMA RespondTimersResetKeeps ==
  ASSUME SystemInv, NEW c \in Context, RespondTimersReset(c)
  PROVE  SystemRight(s', pc')
<1>1. Only(s, s', {"TimerReq"}) /\ {"TimerReq"} \subseteq Aside
  BY DEF RespondTimersReset, Only, Fields, SystemInv, SystemRight, Right, Shape, Aside
<1>2. Right(s', Ids(pc), {}) /\ Serves(s, s', Devices(s))
  BY <1>1, SetsAside
<1>3. Runs(c, "timersReset") /\ Goto(c, "drain")
  BY DEF RespondTimersReset
<1> QED  BY <1>2, <1>3, OpensAre, GotoKeeps

LEMMA RespondDrainKeeps ==
  ASSUME SystemInv, NEW c \in Context, RespondDrain(c)
  PROVE  SystemRight(s', pc')
<1>1. Right(s', Ids(pc), {}) /\ Serves(s, s', Devices(s))
  BY ServesItself, Served DEF RespondDrain
<1>2. Runs(c, "drain") /\ pc' = pc /\ pc[c].at = "drain"
  BY DEF RespondDrain, Runs
<1>3. Moves(pc, pc', c)
  <2>1. DOMAIN pc = Context /\ "drain" \in UnlockPlaces
    BY DEF SystemInv, SystemRight, PlacesRight, UnlockPlaces
  <2> QED  BY <1>2, <2>1 DEF Moves
<1> QED  BY <1>1, <1>2, <1>3, OpensAre, ServesKeeps

LEMMA RespondDoneKeeps ==
  ASSUME SystemInv, NEW c \in Context, RespondDone(c)
  PROVE  SystemRight(s', pc')
<1>1. Right(s', Ids(pc), {}) /\ Serves(s, s', Devices(s))
  BY ServesItself DEF RespondDone
<1>2. Runs(c, "drain") /\ Goto(c, "clear")
  BY DEF RespondDone
<1> QED  BY <1>1, <1>2, OpensAre, GotoKeeps

LEMMA RespondClearKeeps ==
  ASSUME SystemInv, NEW c \in Context, RespondClear(c)
  PROVE  SystemRight(s', pc')
<1>1. Only(s, s', {"IsrReq"}) /\ {"IsrReq"} \subseteq Aside
  BY DEF RespondClear, ClearIsrReq, Only, Fields, SystemInv, SystemRight, Right, Shape, Aside
<1>2. Right(s', Ids(pc), {}) /\ Serves(s, s', Devices(s))
  BY <1>1, SetsAside
<1>3. Runs(c, "clear") /\ Goto(c, "sched")
  BY DEF RespondClear
<1> QED  BY <1>2, <1>3, OpensAre, GotoKeeps

-----------------------------------------------------------------------------
(* The schedule.                                                           *)
Switches(k, k2) ==
  /\ k2 \in Kernel /\ k2.prio = k.prio /\ k2.TCBRunning = k.TCBRunning
  /\ Lists(k2.TCBRdy, {t \in Task : k2.state[t] = "READY"})
  /\ \A t \in Task : \/ k2.state[t] = k.state[t]
                     \/ k.state[t] \in {"READY", "RUNNING"} /\ k2.state[t] \in {"READY", "RUNNING"}
  /\ \/ /\ k2.state = k.state /\ k2.PendSV = k.PendSV /\ k2.TCBNext = k.TCBNext
        /\ k2.TaskSchedReq = k.TaskSchedReq \/ k.state[k.TCBRunning] = "RUNNING"
     \/ /\ k.TCBRunning = k.TCBNext /\ k2.PendSV /\ k2.TCBNext \in Task
        /\ \A t \in Task : k2.state[t] = "RUNNING" =>
             t = k2.TCBNext \/ (k.state[t] = "RUNNING" /\ t # k.TCBRunning)
        /\ k2.state[k2.TCBNext] = "RUNNING"

LEMMA ScheduleSwitches ==
  ASSUME NEW k \in Kernel, Lists(k.TCBRdy, {t \in Task : k.state[t] = "READY"}),
         NEW r, r = Schedule(k)
  PROVE  Switches(k, r) /\ r.OSSchedLock = k.OSSchedLock /\ r.OSIntNesting = k.OSIntNesting
<1> DEFINE cur == k.TCBRunning
           head == Head(k.TCBRdy)
<1>0. cur \in Task /\ DOMAIN k.state = Task /\ IsInjective(k.TCBRdy)
      /\ \A t \in Task : t \in Range(k.TCBRdy) <=> k.state[t] = "READY"
  BY DEF Kernel, Lists
<1>1. /\ r \in Kernel
      /\ r.prio = k.prio /\ r.FreeTCB = k.FreeTCB
      /\ r.TCBRunning = k.TCBRunning
      /\ r.OSSchedLock = k.OSSchedLock /\ r.OSIntNesting = k.OSIntNesting
      /\ \/ r = k
         \/ /\ CanSchedule(k)
            /\ r = [k EXCEPT !.TaskSchedReq = FALSE]
            /\ k.state[cur] = "RUNNING"
         \/ /\ CanSchedule(k)
            /\ head \in Range(k.TCBRdy) /\ head \in Task
            /\ r.TCBNext = head /\ r.PendSV = TRUE
            /\ \/ /\ k.state[cur] # "RUNNING"
                  /\ r.state = [k.state EXCEPT ![head] = "RUNNING"]
                  /\ IsInjective(k.TCBRdy) =>
                       /\ IsInjective(r.TCBRdy)
                       /\ Range(r.TCBRdy) = Range(k.TCBRdy) \ {head}
               \/ /\ k.state[cur] = "RUNNING"
                  /\ r.state = [k.state EXCEPT ![cur] = "READY", ![head] = "RUNNING"]
                  /\ IsInjective(k.TCBRdy) /\ cur \notin Range(k.TCBRdy) =>
                       /\ IsInjective(r.TCBRdy)
                       /\ Range(r.TCBRdy) = (Range(k.TCBRdy) \cup {cur}) \ {head}
  BY ScheduleFacts
<1> HIDE DEF head
<1>2. CASE r = k
  <2>1. /\ r.state = k.state /\ r.PendSV = k.PendSV /\ r.TCBNext = k.TCBNext
        /\ r.TaskSchedReq = k.TaskSchedReq /\ r.TCBRdy = k.TCBRdy
    BY <1>2
  <2>2. Lists(r.TCBRdy, {t \in Task : r.state[t] = "READY"})
    BY <2>1
  <2> HIDE DEF cur
  <2> QED  BY <1>1, <2>1, <2>2 DEF Switches
<1>3. CASE r = [k EXCEPT !.TaskSchedReq = FALSE] /\ k.state[cur] = "RUNNING"
  <2>1. r.state = k.state /\ r.PendSV = k.PendSV /\ r.TCBNext = k.TCBNext /\ r.TCBRdy = k.TCBRdy
    BY <1>3 DEF Kernel
  <2>2. Lists(r.TCBRdy, {t \in Task : r.state[t] = "READY"})
    BY <2>1
  <2> QED  BY <1>1, <1>3, <2>1, <2>2 DEF Switches
<1>4. CASE /\ CanSchedule(k) /\ head \in Range(k.TCBRdy) /\ head \in Task
           /\ r.TCBNext = head /\ r.PendSV = TRUE /\ k.state[cur] # "RUNNING"
           /\ r.state = [k.state EXCEPT ![head] = "RUNNING"]
           /\ IsInjective(r.TCBRdy)
           /\ Range(r.TCBRdy) = Range(k.TCBRdy) \ {head}
  <2>1. k.state[head] = "READY"
    BY <1>0, <1>4
  <2>2. Lists(r.TCBRdy, {t \in Task : r.state[t] = "READY"})
    BY <1>0, <1>4, <2>1 DEF Lists
  <2>3. /\ r.state[head] = "RUNNING"
        /\ \A t \in Task : t # head => r.state[t] = k.state[t]
    BY <1>0, <1>4
  <2>4. \A t \in Task : r.state[t] = "RUNNING" =>
          t = r.TCBNext \/ (k.state[t] = "RUNNING" /\ t # cur)
    BY <1>4, <2>3
  <2> QED  BY <1>1, <1>4, <2>1, <2>2, <2>3, <2>4 DEF Switches, CanSchedule
<1>5. CASE /\ CanSchedule(k) /\ head \in Range(k.TCBRdy) /\ head \in Task
           /\ r.TCBNext = head /\ r.PendSV = TRUE /\ k.state[cur] = "RUNNING"
           /\ r.state = [k.state EXCEPT ![cur] = "READY", ![head] = "RUNNING"]
           /\ IsInjective(r.TCBRdy)
           /\ Range(r.TCBRdy) = (Range(k.TCBRdy) \cup {cur}) \ {head}
  <2>1. k.state[head] = "READY" /\ cur # head
    BY <1>0, <1>5
  <2>2. Lists(r.TCBRdy, {t \in Task : r.state[t] = "READY"})
    BY <1>0, <1>5, <2>1 DEF Lists
  <2>3. /\ r.state[head] = "RUNNING" /\ r.state[cur] = "READY"
        /\ \A t \in Task : t # head /\ t # cur => r.state[t] = k.state[t]
    BY <1>0, <1>5, <2>1
  <2>4. \A t \in Task : r.state[t] = "RUNNING" =>
          t = r.TCBNext \/ (k.state[t] = "RUNNING" /\ t # cur)
    BY <1>5, <2>3
  <2>5. \A t \in Task :
         \/ r.state[t] = k.state[t]
         \/ k.state[t] \in {"READY", "RUNNING"} /\ r.state[t] \in {"READY", "RUNNING"}
    BY <1>5, <2>1, <2>3
  <2> QED  BY <1>1, <1>5, <2>1, <2>2, <2>3, <2>4, <2>5 DEF Switches, CanSchedule
<1> QED
  <2>1. k.state[cur] = "RUNNING" => cur \notin Range(k.TCBRdy)
    BY <1>0
  <2>2. Switches(k, r)
    BY <1>0, <1>1, <1>2, <1>3, <1>4, <1>5, <2>1
  <2> QED  BY <1>1, <2>2

LEMMA SwitchRight ==
  ASSUME NEW r, NEW id, Right(r, id, {}), NEW k2, Switches(r.k, k2),
         NEW r2, r2 = [r EXCEPT !.k = k2]
  PROVE  Right(r2, id, {}) /\ Only(r, r2, {"k"}) /\ r2.k = k2
<1>1. Only(r, r2, {"k"}) /\ r2.k = k2
  BY DEF Only, Fields, Right, Shape
<1>2. /\ r2.eventID = r.eventID /\ r2.delayTick = r.delayTick /\ r2.pnode = r.pnode
  BY <1>1 DEF Only, Fields
<1>3. ReadyRight(r2)
  BY <1>1 DEF ReadyRight, Switches
<1>4. StatesRight(r2, {})
  <2>1. \A t \in Task : \/ k2.state[t] = r.k.state[t]
                        \/ r.k.state[t] # "WAITING" /\ k2.state[t] # "WAITING"
    BY DEF Switches
  <2> QED  BY <1>1, <1>2, <2>1 DEF Right, StatesRight, Waits
<1> QED  BY <1>1, <1>3, <1>4, KernelChange DEF Switches

LEMMA SwitchesAway ==
  ASSUME NEW k \in Kernel, CanSchedule(k), k.state[k.TCBRunning] # "RUNNING",
         NEW r, r = Schedule(k)
  PROVE  r.PendSV
<1> DEFINE k1 == [k EXCEPT !.TaskSchedReq = FALSE]
           head == Head(k.TCBRdy)
<1>1. k1 \in Kernel
  BY DEF Kernel
<1>2. head \in Task
  <2>1. k.TCBRdy \in Seq(Task) /\ k.TCBRdy # <<>>
    BY DEF Kernel, CanSchedule
  <2> QED  BY <2>1, HeadTailProperties
<1>3. r = SwitchTo(k1, head)
  BY DEF Schedule
<1> HIDE DEF k1, head
<1>4. SwitchTo(k1, head).PendSV = TRUE
  BY <1>1, <1>2, SwitchToFacts
<1> QED  BY <1>3, <1>4

(* The idle task is ready when it does not run, so there is a task to run. *)
LEMMA SomeoneReady ==
  ASSUME NEW k \in Kernel, Lists(k.TCBRdy, {t \in Task : k.state[t] = "READY"}),
         k.state[Idle] \in {"READY", "RUNNING"},
         \A t \in Task : k.state[t] = "RUNNING" => t = k.TCBRunning,
         k.state[k.TCBRunning] # "RUNNING"
  PROVE  k.TCBRdy # <<>>
<1>1. Idle \in Task
  BY KernelAssumption DEF Idle, Task
<1>2. k.state[Idle] = "READY"
  BY <1>1
<1>3. Idle \in Range(k.TCBRdy)
  BY <1>1, <1>2 DEF Lists
<1>4. Range(<< >>) = {}
  BY DEF Range
<1> QED  BY <1>3, <1>4

LEMMA SwitchSchedules ==
  ASSUME NEW k \in Kernel, NEW p, LocksRight(k, p), RunningRight(k, p), NEW c,
         Unlocking(k, p, c), p[c].at = "sched",
         Lists(k.TCBRdy, {t \in Task : k.state[t] = "READY"}),
         NEW k2, k2 = UnlockSchedule(k), NEW p2, Moves(p, p2, c), p2[c].at = "release"
  PROVE  Switches(k, k2) /\ LocksRight(k2, p2) /\ RunningRight(k2, p2)
<1>0. "sched" \in Opens /\ "release" \notin Opens /\ "release" \in UnlockPlaces
      /\ "off" \notin UnlockPlaces /\ "off" \notin Opens
  BY DEF Opens, UnlockPlaces
<1>1. /\ k.OSSchedLock = 1 /\ HeldBy(p[c]) = 1 /\ ~k.PendSV
      /\ Carries(p[c]) \notin {"renew", "renewed"}
      /\ c = Tmr => HeldBy(p[k.TCBRunning]) = 0
      /\ c # Tmr => HeldBy(p[Tmr]) = 0
  BY <1>0, UnlocksAlone
<1>2. Carries(p2[c]) = Carries(p[c]) /\ HeldBy(p2[c]) = 0
  <2>1. Carries(p2[c]) = Carries(p[c])
    BY DEF Carries, Moves, Unlocking
  <2> QED  BY <1>0, <1>1, <2>1 DEF HeldBy
<1>3. Idle \in Task /\ k.TCBRunning \in Task /\ Tmr \notin Task
      /\ Tmr \in Context /\ Task \subseteq Context
  BY TmrApart, KernelAssumption DEF Kernel, Idle, Task
<1>4. \A d \in Context : d # c => p2[d] = p[d]
  BY DEF Moves
<1>5. Switches(k, k) /\ k.OSSchedLock = 1
  BY <1>1 DEF Switches
<1>6. Switches(k, k2) /\ k2.OSSchedLock = 1 /\ k2.OSIntNesting = k.OSIntNesting
  <2>1. CASE k2 = k
    BY <1>5, <2>1
  <2>2. CASE k2 = Schedule(k)
    BY <1>5, <2>2, ScheduleSwitches
  <2> QED  BY <2>1, <2>2 DEF UnlockSchedule
<1>7. k2.TCBRunning = k.TCBRunning /\ k2.OSIntNesting = 0
  BY <1>6 DEF Switches, LocksRight
<1>8. HeldBy(p2[k.TCBRunning]) = 0 /\ HeldBy(p2[Tmr]) = 0
  BY <1>1, <1>2, <1>3, <1>4 DEF Unlocking
<1>9. LocksRight(k2, p2)
  <2>1. \A t \in Task \ {k2.TCBRunning} : HeldBy(p2[t]) = 0
    BY <1>2, <1>3, <1>4, <1>7 DEF LocksRight
  <2>2. p2[k2.TCBRunning].at = "release" \/ p2[Tmr].at = "release"
    BY <1>7 DEF Unlocking
  <2>3. p2[k2.TCBRunning].at \in UnlockPlaces \ {"unlock"} =>
          Carries(p2[k2.TCBRunning]) \notin {"renew", "renewed"}
    BY <1>1, <1>2, <1>3, <1>4, <1>7 DEF LocksRight
  <2>4. p2[Tmr].at \in {"off", "release"}
    BY <1>3, <1>4 DEF Unlocking
  <2> QED  BY <1>6, <1>7, <1>8, <2>1, <2>2, <2>3, <2>4 DEF LocksRight
<1>10. RunningRight(k2, p2)
  <2>0. k.TCBNext = k.TCBRunning /\ \A t \in Task : k.state[t] = "RUNNING" => t = k.TCBRunning
    BY <1>1 DEF RunningRight
  <2>1. k2.state[Idle] \in {"READY", "RUNNING"}
    BY <1>3, <1>6 DEF RunningRight, Switches
  <2>2. p2[Idle].at \in {"user"} \cup UnlockPlaces /\ p2[Idle].ret = "user"
    BY <1>0, <1>3, <1>4 DEF RunningRight, Moves
  <2>3. \A t \in Task : k2.state[t] = "RUNNING" => t = k2.TCBNext
    BY <1>6, <2>0 DEF Switches
  <2>4. k2.PendSV => k2.state[k2.TCBNext] = "RUNNING"
    BY <1>1, <1>6 DEF Switches
  <2>5. ~k2.PendSV => k2.TCBNext = k2.TCBRunning
    BY <1>6, <2>0 DEF Switches
  <2>6. k.state[k.TCBRunning] # "RUNNING" => k2.PendSV /\ c # Tmr
    <3> SUFFICES ASSUME k.state[k.TCBRunning] # "RUNNING" PROVE k2.PendSV /\ c # Tmr
      OBVIOUS
    <3>1. k.TaskSchedReq /\ HeldBy(p[k.TCBRunning]) = 1
      BY <1>1 DEF RunningRight
    <3>2. k.TCBRdy # <<>>
      BY <2>0, SomeoneReady DEF RunningRight
    <3>3. CanSchedule(k)
      BY <1>1, <2>0, <3>2 DEF CanSchedule, LocksRight
    <3>4. k2 = Schedule(k)
      BY <3>1 DEF UnlockSchedule
    <3> QED  BY <1>1, <3>1, <3>3, <3>4, SwitchesAway
  <2>7. ~k2.PendSV /\ k2.state[k2.TCBRunning] # "RUNNING" => FALSE
    BY <1>3, <1>6, <2>6 DEF Switches
  <2>8. k2.PendSV /\ k2.state[k2.TCBRunning] = "WAITING" => p2[Tmr].at = "off"
    <3>1. k2.state[k.TCBRunning] = "WAITING" => k.state[k.TCBRunning] # "RUNNING"
      BY <1>3, <1>6 DEF Switches
    <3> QED  BY <1>3, <1>4, <1>7, <2>6, <3>1 DEF Unlocking
  <2> QED  BY <1>6, <1>7, <2>1, <2>2, <2>3, <2>4, <2>5, <2>7, <2>8 DEF RunningRight
<1> QED  BY <1>6, <1>9, <1>10

LEMMA OnlyApart ==
  ASSUME NEW r, NEW r2, Only(r, r2, {"k"})
  PROVE  Apart(r, r2, {}) /\ (LocksKept(r) => LocksKept(r2))
<1>1. /\ r2.app = r.app /\ r2.eventType = r.eventType
      /\ r2.initialEventCounter = r.initialEventCounter /\ r2.eventCounter = r.eventCounter
      /\ r2.holds = r.holds /\ r2.eventID = r.eventID /\ r2.pmail = r.pmail
      /\ r2.pnode = r.pnode /\ r2.delayTick = r.delayTick
  BY DEF Only, Fields
<1>2. Apart(r, r2, {})
  BY <1>1, SameApart
<1> QED  BY <1>2, LocksKeptFrom

LEMMA UnlockSchedKeeps ==
  ASSUME SystemInv, NEW c \in Context, UnlockSched(c)
  PROVE  SystemRight(s', pc')
<1> DEFINE k2 == UnlockSchedule(s.k)
<1>1. Runs(c, "sched") /\ s' = [s EXCEPT !.k = k2] /\ Goto(c, "release")
  BY DEF UnlockSched
<1>2. "sched" \in UnlockPlaces /\ "release" \in UnlockPlaces
  BY DEF UnlockPlaces
<1>3. /\ Unlocking(s.k, pc, c) /\ pc[c].at = "sched"
      /\ s.k \in Kernel /\ LocksRight(s.k, pc) /\ RunningRight(s.k, pc) /\ PlacesRight(pc)
      /\ Right(s, Ids(pc), {})
  BY <1>1, <1>2, RunsUnlocking
<1>4. Moves(pc, pc', c) /\ pc'[c].at = "release" /\ DOMAIN pc'[c] = DOMAIN pc[c]
  <2>1. Moves(pc, pc', c) /\ pc'[c].at = "release"
    BY <1>1, <1>2, <1>3, GotoMoves
  <2>2. DOMAIN pc'[c] = DOMAIN pc[c]
    BY <1>1, <1>3 DEF Goto, PlacesRight
  <2> QED  BY <2>1, <2>2
<1>5. Lists(s.k.TCBRdy, {t \in Task : s.k.state[t] = "READY"})
  BY <1>3 DEF Right, ReadyRight
<1>6. k2 = UnlockSchedule(s.k)
  OBVIOUS
<1> HIDE DEF k2
<1>7. Switches(s.k, k2) /\ LocksRight(k2, pc') /\ RunningRight(k2, pc')
  BY <1>3, <1>4, <1>5, <1>6, SwitchSchedules
<1>8. Right(s', Ids(pc), {}) /\ Only(s, s', {"k"}) /\ s'.k = k2
  BY <1>1, <1>3, <1>7, SwitchRight
<1>9. Apart(s, s', {}) /\ (Disciplined => LocksKept(s'))
  BY <1>8, OnlyApart DEF SystemInv, SystemRight
<1>10. pc[c].at \in UnlockPlaces
  BY <1>2, <1>3
<1> QED  BY <1>4, <1>7, <1>8, <1>9, <1>10, ServesMoves

-----------------------------------------------------------------------------
(* The end of OsSchedUnlock(): the call goes on.                           *)
Continues(p, p2, c) ==
  /\ DOMAIN p2 = Context /\ \A d \in Context \ {c} : p2[d] = p[d]
  /\ PlaceRight(p2[c]) /\ p2[c].at = p[c].ret /\ p2[c].at \notin UnlockPlaces
  /\ c = Tmr => p2[c].at = "off" /\ p2[c].ret = "off"
  /\ c # Tmr => SameCall(p[c], p2[c]) /\ (p2[c].id = p[c].id \/ p[c].ret = "user")
  /\ c = Idle => p2[c].at = "user" /\ p2[c].ret = "user"

LEMMA ContinueGoes ==
  ASSUME SystemInv, NEW c \in Context, pc[c].at \in UnlockPlaces, Continue(c)
  PROVE  Continues(pc, pc', c)
<1> DEFINE x == pc[c]
           y == IF x.ret \in {"user", "off"} THEN Rest(x.ret) ELSE [x EXCEPT !.at = x.ret]
<1>1. DOMAIN pc = Context /\ PlaceRight(x) /\ (c = Tmr => x.ret = "off")
  BY DEF SystemInv, SystemRight, PlacesRight
<1>2. pc' = [pc EXCEPT ![c] = y]
  BY DEF Continue
<1>3. c # Tmr => c \in Task /\ CallRight(s, x, c)
  BY DEF Context, SystemInv, SystemRight
<1>4. Carries(x) = x.ret
  BY DEF Carries
<1>5. c # Tmr => x.ret \notin {"off"} \cup UnlockPlaces
  BY <1>3, <1>4 DEF CallRight
<1>6. x.ret \notin UnlockPlaces
  BY <1>1, <1>5, Strings
<1>7. /\ PlaceRight(y) /\ y.at = x.ret
      /\ x.ret \in {"user", "off"} => y.ret = x.ret
      /\ x.ret \notin {"user", "off"} => y.id = x.id /\ y.ticks = x.ticks /\ y.val = x.val
  <2>1. CASE x.ret \in {"user", "off"}
    <3> DEFINE z == Rest(x.ret)
    <3>1. y = z
      BY <2>1
    <3>2. /\ DOMAIN z = {"at", "ret", "id", "ticks", "val", "flags", "ids"}
          /\ z.at = x.ret /\ z.ret = x.ret /\ z.id = 0 /\ z.ticks = 0 /\ z.val = 0
      BY DEF Rest
    <3> HIDE DEF z, y
    <3>3. x.ret \in At /\ x.ret # "remove"
      BY <1>1 DEF PlaceRight
    <3>4. PlaceRight(z)
      BY <3>2, <3>3 DEF PlaceRight
    <3> QED  BY <2>1, <3>1, <3>2, <3>4
  <2>2. CASE x.ret \notin {"user", "off"}
    <3> DEFINE z == [x EXCEPT !.at = x.ret]
    <3>1. y = z
      BY <2>2
    <3>2. /\ DOMAIN z = {"at", "ret", "id", "ticks", "val", "flags", "ids"}
          /\ z.at = x.ret /\ z.ret = x.ret /\ z.id = x.id /\ z.ticks = x.ticks /\ z.val = x.val
      BY <1>1 DEF PlaceRight
    <3> HIDE DEF z, y
    <3>3. PlaceRight(z)
      BY <1>1, <3>2 DEF PlaceRight
    <3> QED  BY <2>2, <3>1, <3>2, <3>3
  <2> QED  BY <2>1, <2>2
<1> HIDE DEF y
<1>8. pc'[c] = y /\ DOMAIN pc' = Context /\ \A d \in Context \ {c} : pc'[d] = pc[d]
  BY <1>1, <1>2
<1>9. Carries(y) = x.ret
  BY <1>6, <1>7 DEF Carries
<1>10. c # Tmr => SameCall(x, y) /\ (y.id = x.id \/ x.ret = "user")
  BY <1>4, <1>5, <1>7, <1>9 DEF SameCall
<1>11. c = Idle => x.ret = "user"
  BY DEF SystemInv, SystemRight, RunningRight
<1> HIDE DEF x
<1> QED  BY <1>1, <1>6, <1>7, <1>8, <1>10, <1>11 DEF Continues, x

LEMMA ContinueKeeps ==
  ASSUME SystemInv, NEW c \in Context, pc[c].at \in UnlockPlaces, Continues(pc, pc', c),
         NEW k2 \in Kernel, k2.state = s.k.state, k2.TCBRdy = s.k.TCBRdy, k2.prio = s.k.prio,
         s' = [s EXCEPT !.k = k2], LocksRight(k2, pc'), RunningRight(k2, pc')
  PROVE  SystemRight(s', pc')
<1>1. Right(s, Ids(pc), {}) /\ PlacesRight(pc) /\ (Disciplined => LocksKept(s))
  BY DEF SystemInv, SystemRight
<1>2. Right(s', Ids(pc), {}) /\ Only(s, s', {"k"}) /\ s'.k = k2
  BY <1>1, KernelSame
<1>3. Apart(s, s', {}) /\ (Disciplined => LocksKept(s'))
  BY <1>1, <1>2, OnlyApart
<1>4. PlacesRight(pc')
  <2>1. \A d \in Context : PlaceRight(pc'[d])
    BY <1>1 DEF Continues, PlacesRight
  <2> QED  BY <1>1, <2>1, TmrApart DEF Continues, PlacesRight
<1>5. \A t \in Task : SameCall(pc[t], pc'[t])
  BY TmrApart DEF Continues, SameCall
<1>6. \A t \in Task : Ids(pc')[t] = Ids(pc)[t] \/ (s'.eventID[t] = NoEvent /\ s'.pmail[t] = NoMail)
  <2> SUFFICES ASSUME NEW t \in Task, pc'[t].id # pc[t].id
               PROVE  s'.eventID[t] = NoEvent /\ s'.pmail[t] = NoMail
    BY DEF Ids
  <2>1. t = c /\ pc[t].ret = "user"
    BY TmrApart DEF Continues
  <2>2. Carries(pc[t]) = "user" /\ CallRight(s, pc[t], t)
    BY <2>1 DEF Carries, SystemInv, SystemRight
  <2>3. Free(s, t)
    BY <2>2, FreeIs DEF WaitPlaces, NodePlaces
  <2> QED  BY <1>2, <2>3 DEF Free, Only, Fields
<1>7. Right(s', Ids(pc'), {})
  BY <1>2, <1>6, RightIds
<1>8. LocksRight(s'.k, pc') /\ RunningRight(s'.k, pc')
  BY <1>2
<1> QED  BY <1>3, <1>4, <1>5, <1>7, <1>8, CallsGoOn

LEMMA UnlockNestedKeeps ==
  ASSUME SystemInv, NEW c \in Context, UnlockNested(c)
  PROVE  SystemRight(s', pc')
<1> DEFINE k == s.k
           k2 == [s.k EXCEPT !.OSSchedLock = s.k.OSSchedLock - 1]
           run == k.TCBRunning
<1>1. Runs(c, "unlock") /\ k.OSSchedLock # 1 /\ s' = [s EXCEPT !.k = k2] /\ Continue(c)
  BY DEF UnlockNested
<1>2. "unlock" \in UnlockPlaces /\ "unlock" \in Opens /\ "release" \in UnlockPlaces
      /\ "off" \notin UnlockPlaces
  BY DEF UnlockPlaces, Opens
<1>3. /\ Unlocking(k, pc, c) /\ pc[c].at = "unlock"
      /\ k \in Kernel /\ LocksRight(k, pc) /\ RunningRight(k, pc)
      /\ c # Tmr => c \in Task /\ c = run /\ ~k.PendSV /\ pc[Tmr].at = "off"
  BY <1>1, <1>2, RunsUnlocking
<1>4. Continues(pc, pc', c)
  BY <1>1, <1>2, <1>3, ContinueGoes
<1>5. Idle \in Task /\ run \in Task /\ Tmr \notin Task /\ Tmr \in Context /\ Task \subseteq Context
  BY <1>3, TmrApart, KernelAssumption DEF Kernel, Idle, Task
<1>6. ~k.PendSV
  BY <1>3 DEF LocksRight
<1>7. HeldBy(pc[run]) \in Nat /\ HeldBy(pc[Tmr]) \in Nat /\ k.OSSchedLock \in Nat
  BY <1>3, HeldNat DEF Kernel
<1>8. Carries(pc[c]) = pc[c].ret /\ Carries(pc'[c]) = pc[c].ret
      /\ HeldBy(pc[c]) = HeldBy(pc'[c]) + 1
  <2>1. Carries(pc[c]) = pc[c].ret /\ Carries(pc'[c]) = pc[c].ret
    BY <1>2, <1>3, <1>4 DEF Carries, Continues
  <2>2. pc'[c].at \notin Opens
    BY <1>4 DEF Continues, Opens
  <2> QED  BY <1>2, <1>3, <2>1, <2>2 DEF HeldBy
<1>9. k.OSSchedLock >= 1
  BY <1>3, <1>5, <1>7, <1>8, HeldNat DEF LocksRight, Unlocking
<1>10. /\ k2 \in Kernel /\ k2.OSSchedLock = k.OSSchedLock - 1
       /\ k2.state = k.state /\ k2.TCBRdy = k.TCBRdy /\ k2.prio = k.prio
       /\ k2.TCBRunning = k.TCBRunning /\ k2.TCBNext = k.TCBNext
       /\ k2.OSIntNesting = k.OSIntNesting /\ k2.PendSV = k.PendSV
       /\ k2.TaskSchedReq = k.TaskSchedReq
  <2>1. k.OSSchedLock - 1 \in Nat
    BY <1>7, <1>9
  <2> QED  BY <1>3, <2>1 DEF Kernel
<1>11. \A d \in Context : d # c => pc'[d] = pc[d]
  BY <1>4 DEF Continues
<1> HIDE DEF k2
<1>12. LocksRight(k2, pc') /\ RunningRight(k2, pc')
  <2>1. CASE c = Tmr
    <3>1. pc'[run] = pc[run] /\ \A t \in Task : pc'[t] = pc[t]
      BY <1>5, <1>11, <2>1
    <3>2. pc'[Tmr].at = "off" /\ HeldBy(pc'[Tmr]) = 0
      BY <1>2, <1>4, <2>1 DEF Continues, HeldBy, Carries, Opens
    <3>3. HeldBy(pc[Tmr]) = 1
      BY <1>8, <2>1, <3>2
    <3>4. LocksRight(k2, pc')
      <4>1. \/ k2.OSSchedLock = HeldBy(pc'[run]) + HeldBy(pc'[Tmr])
            \/ k2.OSSchedLock = HeldBy(pc'[run]) + HeldBy(pc'[Tmr]) + 1 /\ pc'[run].at = "release"
        <5>1. \/ k.OSSchedLock = HeldBy(pc[run]) + HeldBy(pc[Tmr])
              \/ k.OSSchedLock = HeldBy(pc[run]) + HeldBy(pc[Tmr]) + 1 /\ pc[run].at = "release"
          BY <1>3, <2>1 DEF LocksRight
        <5> QED  BY <1>7, <1>10, <3>1, <3>2, <3>3, <5>1
      <4> QED  BY <1>2, <1>3, <1>6, <1>10, <3>1, <3>2, <4>1 DEF LocksRight
    <3>5. RunningRight(k2, pc')
      BY <1>3, <1>5, <1>6, <1>10, <3>1 DEF RunningRight
    <3> QED  BY <3>4, <3>5
  <2>2. CASE c # Tmr
    <3>1. c = run /\ pc[Tmr].at = "off" /\ pc'[Tmr] = pc[Tmr]
          /\ \A t \in Task \ {run} : pc'[t] = pc[t]
      BY <1>3, <1>5, <1>11, <2>2
    <3>2. HeldBy(pc[Tmr]) = 0
      BY <1>2, <1>3, <3>1 DEF HeldBy, Carries, Unlocking, Opens
    <3>3. k.OSSchedLock = HeldBy(pc[run])
      BY <1>2, <1>3, <1>7, <3>1, <3>2 DEF LocksRight
    <3>4. HeldBy(pc[run]) # 1
      BY <1>1, <3>3
    <3>5. LocksRight(k2, pc')
      <4>1. k2.OSSchedLock = HeldBy(pc'[run]) + HeldBy(pc'[Tmr])
        BY <1>7, <1>8, <1>10, <3>1, <3>2, <3>3, HeldNat
      <4>2. pc'[run].at \notin UnlockPlaces
        BY <1>4, <3>1 DEF Continues
      <4> QED  BY <1>2, <1>3, <1>6, <1>10, <3>1, <4>1, <4>2 DEF LocksRight
    <3>6. RunningRight(k2, pc')
      <4>1. k.state[run] = "RUNNING"
        BY <1>3, <1>6, <3>4 DEF RunningRight
      <4>2. pc'[Idle].at \in {"user"} \cup UnlockPlaces /\ pc'[Idle].ret = "user"
        BY <1>3, <1>4, <1>5, <3>1 DEF RunningRight, Continues
      <4> QED  BY <1>3, <1>6, <1>10, <4>1, <4>2 DEF RunningRight
    <3> QED  BY <3>5, <3>6
  <2> QED  BY <2>1, <2>2
<1>13. pc[c].at \in UnlockPlaces
  BY <1>2, <1>3
<1> QED  BY <1>1, <1>4, <1>10, <1>12, <1>13, ContinueKeeps

LEMMA UnlockReleaseKeeps ==
  ASSUME SystemInv, NEW c \in Context, UnlockRelease(c)
  PROVE  SystemRight(s', pc')
<1> DEFINE k == s.k
           k2 == [s.k EXCEPT !.OSSchedLock = 0]
           run == k.TCBRunning
<1>1. Runs(c, "release") /\ s' = [s EXCEPT !.k = k2] /\ Continue(c)
  BY DEF UnlockRelease
<1>2. "release" \in UnlockPlaces \ {"unlock"} /\ "release" \notin Opens
      /\ "off" \notin UnlockPlaces /\ "off" \notin Opens
  BY DEF UnlockPlaces, Opens
<1>3. /\ Unlocking(k, pc, c) /\ pc[c].at = "release"
      /\ k \in Kernel /\ LocksRight(k, pc) /\ RunningRight(k, pc)
      /\ c # Tmr => c \in Task /\ c = run /\ ~k.PendSV /\ pc[Tmr].at = "off"
  BY <1>1, <1>2, RunsUnlocking
<1>4. Continues(pc, pc', c)
  BY <1>1, <1>2, <1>3, ContinueGoes
<1>5. Idle \in Task /\ run \in Task /\ Tmr \notin Task /\ Tmr \in Context /\ Task \subseteq Context
  BY <1>3, TmrApart, KernelAssumption DEF Kernel, Idle, Task
<1>6. /\ k2 \in Kernel /\ k2.OSSchedLock = 0
      /\ k2.state = k.state /\ k2.TCBRdy = k.TCBRdy /\ k2.prio = k.prio
      /\ k2.TCBRunning = k.TCBRunning /\ k2.TCBNext = k.TCBNext
      /\ k2.OSIntNesting = k.OSIntNesting /\ k2.PendSV = k.PendSV
      /\ k2.TaskSchedReq = k.TaskSchedReq
  BY <1>3 DEF Kernel
<1>7. \A d \in Context : d # c => pc'[d] = pc[d]
  BY <1>4 DEF Continues
<1> HIDE DEF k2
<1>8. LocksRight(k2, pc') /\ RunningRight(k2, pc')
  <2>1. CASE c = Tmr
    <3>1. pc'[run] = pc[run] /\ \A t \in Task : pc'[t] = pc[t]
      BY <1>5, <1>7, <2>1
    <3>2. pc'[Tmr].at = "off" /\ HeldBy(pc'[Tmr]) = 0
      BY <1>2, <1>4, <2>1 DEF Continues, HeldBy, Carries
    <3>3. HeldBy(pc[run]) = 0
      BY <1>2, <1>3, <2>1 DEF LocksRight
    <3>4. LocksRight(k2, pc')
      BY <1>2, <1>3, <1>6, <3>1, <3>2, <3>3 DEF LocksRight
    <3>5. RunningRight(k2, pc')
      <4>1. k.PendSV => k.state[run] # "WAITING"
        BY <1>2, <1>3, <2>1 DEF RunningRight
      <4> QED  BY <1>3, <1>5, <1>6, <3>1, <4>1 DEF RunningRight
    <3> QED  BY <3>4, <3>5
  <2>2. CASE c # Tmr
    <3>1. c = run /\ pc[Tmr].at = "off" /\ pc'[Tmr] = pc[Tmr] /\ ~k.PendSV
          /\ \A t \in Task \ {run} : pc'[t] = pc[t]
      BY <1>3, <1>5, <1>7, <2>2
    <3>2. HeldBy(pc[Tmr]) = 0
      BY <1>2, <1>3, <3>1 DEF HeldBy, Carries, Unlocking
    <3>3. Carries(pc[run]) \notin {"renew", "renewed"} /\ Carries(pc'[run]) = Carries(pc[run])
      BY <1>2, <1>3, <1>4, <3>1 DEF LocksRight, Carries, Continues
    <3>4. pc'[run].at \notin UnlockPlaces /\ HeldBy(pc'[run]) = 0
      BY <1>4, <3>1, <3>3 DEF Continues, HeldBy, Opens
    <3>5. LocksRight(k2, pc')
      BY <1>2, <1>3, <1>6, <3>1, <3>2, <3>4 DEF LocksRight
    <3>6. RunningRight(k2, pc')
      <4>1. k.state[run] = "RUNNING"
        BY <1>2, <1>3, <3>1 DEF RunningRight
      <4>2. pc'[Idle].at \in {"user"} \cup UnlockPlaces /\ pc'[Idle].ret = "user"
        BY <1>3, <1>4, <1>5, <3>1 DEF RunningRight, Continues
      <4> QED  BY <1>3, <1>6, <3>1, <4>1, <4>2 DEF RunningRight
    <3> QED  BY <3>5, <3>6
  <2> QED  BY <2>1, <2>2
<1>9. pc[c].at \in UnlockPlaces
  BY <1>2, <1>3
<1> QED  BY <1>1, <1>4, <1>6, <1>8, <1>9, ContinueKeeps

-----------------------------------------------------------------------------
(* The exceptions.                                                         *)
LEMMA SwitchKeeps ==
  ASSUME SystemInv, PendSV
  PROVE  SystemRight(s', pc')
<1> DEFINE k == s.k
           k2 == PendSV_Handler(s.k)
<1>1. s' = [s EXCEPT !.k = k2] /\ pc' = pc /\ k.PendSV /\ pc[Tmr].at = "off"
  BY DEF PendSV
<1>2. /\ Right(s, Ids(pc), {}) /\ PlacesRight(pc) /\ (Disciplined => LocksKept(s))
      /\ k \in Kernel /\ LocksRight(k, pc) /\ RunningRight(k, pc) /\ pc[Tmr].ret = "off"
  BY DEF SystemInv, SystemRight, Right, Shape, PlacesRight
<1>0. k2 \in Kernel
  BY <1>2, PendSVFacts
<1>3. k2 = [k EXCEPT !.TCBRunning  = k.TCBNext,
                     !.OSSchedLock = 0,
                     !.PendSV      = FALSE]
  BY <1>2, PendSVFacts
<1> HIDE DEF k2
<1>4. /\ k2.OSSchedLock = 0 /\ k2.TCBRunning = k.TCBNext /\ k2.PendSV = FALSE
      /\ k2.state = k.state /\ k2.TCBRdy = k.TCBRdy /\ k2.prio = k.prio
      /\ k2.TCBNext = k.TCBNext /\ k2.OSIntNesting = k.OSIntNesting
  BY <1>2, <1>3 DEF Kernel
<1>5. k.TCBRunning \in Task /\ k.TCBNext \in Task
  BY <1>2 DEF Kernel
<1>6. \A t \in Task : HeldBy(pc[t]) = 0
  BY <1>1, <1>2, <1>5 DEF LocksRight
<1>7. HeldBy(pc[Tmr]) = 0
  BY <1>1, <1>2 DEF HeldBy, Carries, Opens, UnlockPlaces
<1>8. Carries(pc[k.TCBNext]) \notin {"renew", "renewed"}
  BY <1>5, <1>6 DEF HeldBy
<1>9. LocksRight(k2, pc)
  <2>1. "off" \notin UnlockPlaces
    BY DEF UnlockPlaces
  <2> QED  BY <1>1, <1>2, <1>4, <1>5, <1>6, <1>7, <1>8, <2>1 DEF LocksRight
<1>10. RunningRight(k2, pc)
  BY <1>1, <1>2, <1>4 DEF RunningRight
<1>11. Right(s', Ids(pc), {}) /\ Only(s, s', {"k"}) /\ s'.k = k2
  BY <1>0, <1>1, <1>2, <1>4, KernelSame
<1>12. Apart(s, s', {}) /\ (Disciplined => LocksKept(s'))
  BY <1>2, <1>11, OnlyApart
<1>13. \A t \in Task : SameCall(pc[t], pc'[t])
  BY <1>1 DEF SameCall
<1>14. LocksRight(s'.k, pc') /\ RunningRight(s'.k, pc') /\ Right(s', Ids(pc'), {})
       /\ PlacesRight(pc')
  BY <1>1, <1>2, <1>9, <1>10, <1>11
<1> QED  BY <1>12, <1>13, <1>14, CallsGoOn

LEMMA TickKeeps ==
  ASSUME SystemInv, SysTick_Handler
  PROVE  SystemRight(s', pc')
<1> DEFINE k == s.k
           k1 == SysTickEntry(s.k)
           r1 == [s EXCEPT !.k = k1]
           x == pc[Tmr]
           y == [x EXCEPT !.at = "unlock", !.ret = "off"]
           run == k.TCBRunning
<1>1. s' = Tick(s) /\ Unlocks(Tmr, "off") /\ ~k.PendSV /\ x.at = "off"
  BY DEF SysTick_Handler
<1>2. /\ Right(s, Ids(pc), {}) /\ PlacesRight(pc) /\ (Disciplined => LocksKept(s)) /\ s.app \in App
      /\ k \in Kernel /\ LocksRight(k, pc) /\ RunningRight(k, pc) /\ x.ret = "off"
      /\ PlaceRight(x) /\ DOMAIN pc = Context
  BY TmrApart DEF SystemInv, SystemRight, Right, Shape, PlacesRight
<1>3. k1 \in Kernel /\ \E c \in Int :
              k1 = [k EXCEPT !.OSSchedLock  = k.OSSchedLock + 1,
                             !.robin        = c,
                             !.TaskSchedReq = TRUE]
  BY <1>2, SysTickEntryFacts
<1>4. /\ Right(r1, Ids(pc), {}) /\ Only(s, r1, {"k"}) /\ r1.k = k1
      /\ Right(s', Ids(pc), {}) /\ Serves(r1, s', {NoEvent, Ticks})
  BY <1>1, <1>2, Ticked
<1>5. /\ y.at = "unlock" /\ y.ret = "off" /\ PlaceRight(y) /\ y.id = x.id
  BY <1>2, Strings DEF PlaceRight
<1>6. pc' = [pc EXCEPT ![Tmr] = y]
  BY <1>1, <1>2 DEF Unlocks
<1> HIDE DEF k1, r1, y
<1>7. pc'[Tmr] = y /\ DOMAIN pc' = Context /\ (\A t \in Task : pc'[t] = pc[t])
      /\ \A c \in Context \ {Tmr} : pc'[c] = pc[c]
  BY <1>2, <1>6, TmrApart
<1>8. /\ k1.OSSchedLock = k.OSSchedLock + 1 /\ k1.TaskSchedReq
      /\ k1.state = k.state /\ k1.prio = k.prio /\ k1.TCBRunning = k.TCBRunning
      /\ k1.TCBNext = k.TCBNext /\ k1.OSIntNesting = k.OSIntNesting /\ k1.PendSV = k.PendSV
  BY <1>2, <1>3 DEF Kernel
<1>9. PlacesRight(pc')
  <2>1. "unlock" \in UnlockPlaces
    BY DEF UnlockPlaces
  <2> QED  BY <1>2, <1>5, <1>7, <2>1 DEF PlacesRight
<1>10. Ids(pc') = Ids(pc)
  BY <1>7 DEF Ids
<1>11. HeldBy(y) = 1 /\ HeldBy(x) = 0 /\ HeldBy(pc[run]) \in Nat /\ k.OSSchedLock \in Nat
  <2>1. HeldBy(y) = 1
    BY <1>5 DEF HeldBy, Carries, Opens, UnlockPlaces
  <2>2. HeldBy(x) = 0
    BY <1>1, <1>2 DEF HeldBy, Carries, Opens, UnlockPlaces
  <2> QED  BY <1>2, <2>1, <2>2, HeldNat DEF Kernel
<1>12. run \in Task /\ Idle \in Task
  BY <1>2, KernelAssumption DEF Kernel, Idle, Task
<1>13. KernelServes(k1, s'.k) /\
      \A u \in Task :
            \/ s'.k.state[u] = k1.state[u]
            \/ k1.state[u] = "WAITING" /\ s'.k.state[u] = "READY"
            \/ k1.state[u] = "WAITING" /\ s'.k.state[u] = "RUNNING" /\ u = k1.TCBRunning
  BY <1>4 DEF Serves
<1>14. /\ s'.k.OSSchedLock = k.OSSchedLock + 1 /\ s'.k.TaskSchedReq
       /\ s'.k.TCBRunning = k.TCBRunning /\ s'.k.TCBNext = k.TCBNext
       /\ s'.k.OSIntNesting = k.OSIntNesting /\ ~s'.k.PendSV
  BY <1>1, <1>8, <1>13 DEF KernelServes
<1>15. LocksRight(s'.k, pc')
  <2>1. \/ k.OSSchedLock = HeldBy(pc[run])
        \/ k.OSSchedLock = HeldBy(pc[run]) + 1 /\ pc[run].at = "release"
    <3>1. "off" # "release"
      OBVIOUS
    <3> QED  BY <1>1, <1>2, <1>11, <3>1 DEF LocksRight
  <2>2. \/ s'.k.OSSchedLock = HeldBy(pc'[run]) + HeldBy(pc'[Tmr])
        \/ s'.k.OSSchedLock = HeldBy(pc'[run]) + HeldBy(pc'[Tmr]) + 1 /\ pc'[run].at = "release"
    BY <1>7, <1>11, <1>12, <1>14, <2>1
  <2> QED  BY <1>2, <1>5, <1>7, <1>12, <1>14, <2>2 DEF LocksRight
<1>16. RunningRight(s'.k, pc')
  <2>1. \A t \in Task : s'.k.state[t] = "RUNNING" => t = s'.k.TCBNext
    BY <1>1, <1>2, <1>8, <1>13, <1>14 DEF RunningRight
  <2>2. s'.k.state[run] # "RUNNING" => k.state[run] # "RUNNING"
    BY <1>8, <1>12, <1>13
  <2>3. s'.k.state[Idle] \in {"READY", "RUNNING"}
    BY <1>2, <1>8, <1>12, <1>13 DEF RunningRight
  <2> QED  BY <1>1, <1>2, <1>7, <1>12, <1>14, <2>1, <2>2, <2>3 DEF RunningRight
<1>17. NoEvent \notin Event /\ Ticks \notin Event /\ {NoEvent, Ticks} \cap Event = {}
  BY EventAssumption DEF NoEvent, Event, Ticks
<1>18. Apart(s, s', {})
  <2>1. Apart(r1, s', {})
    BY <1>4, <1>17, ServesAreApart DEF ServesApart
  <2> QED  BY <1>4, <2>1, ApartFrom
<1>19. Disciplined => LocksKept(s')
  <2>1. r1.app \in App /\ (Disciplined => LocksKept(r1))
    <3>1. r1.app = s.app
      BY <1>4 DEF Only, Fields
    <3> QED  BY <1>2, <1>4, <3>1, LocksKeptFrom
  <2> QED  BY <1>4, <1>17, <2>1, LocksKeptServed
<1>20. \A t \in Task : SameCall(pc[t], pc'[t])
  BY <1>7 DEF SameCall
<1>21. Right(s', Ids(pc'), {})
  BY <1>4, <1>10
<1> QED  BY <1>9, <1>15, <1>16, <1>18, <1>19, <1>20, <1>21, CallsGoOn

LEMMA ExitSwitches ==
  ASSUME NEW k \in Kernel, Lists(k.TCBRdy, {t \in Task : k.state[t] = "READY"}),
         k.OSIntNesting = 1, NEW r, r = CoExitISR(k)
  PROVE  /\ Switches(k, r) /\ r.OSIntNesting = 0 /\ r.OSSchedLock = k.OSSchedLock
         /\ k.OSSchedLock # 0 => r = [k EXCEPT !.OSIntNesting = 0]
<1> DEFINE k1 == [k EXCEPT !.OSIntNesting = 0]
           l == OsSchedLock(k1)
           z == Schedule(l)
           k3 == [z EXCEPT !.OSSchedLock = z.OSSchedLock - 1]
<1>1. /\ k1 \in Kernel /\ k1.OSIntNesting = 0 /\ k1.OSSchedLock = k.OSSchedLock
      /\ k1.state = k.state /\ k1.prio = k.prio /\ k1.TCBRdy = k.TCBRdy
      /\ k1.TCBRunning = k.TCBRunning /\ k1.TCBNext = k.TCBNext
      /\ k1.PendSV = k.PendSV /\ k1.TaskSchedReq = k.TaskSchedReq
  BY DEF Kernel
<1>2. r = IF k.TaskSchedReq THEN k3 ELSE k1
  <2>1. Dec8(k.OSIntNesting) = 0
    BY DEF Dec8
  <2> QED  BY <2>1 DEF CoExitISR, Kernel
<1>3. k1 = [k EXCEPT !.OSIntNesting = 0]
  OBVIOUS
<1> HIDE DEF k1
<1>4. /\ l \in Kernel
      /\ l.OSSchedLock = k1.OSSchedLock + 1
      /\ l.state = k1.state /\ l.prio = k1.prio
      /\ l.TCBRdy = k1.TCBRdy /\ l.FreeTCB = k1.FreeTCB
      /\ l.TCBRunning = k1.TCBRunning /\ l.TCBNext = k1.TCBNext
      /\ l.OSIntNesting = k1.OSIntNesting /\ l.PendSV = k1.PendSV
      /\ l.TaskSchedReq = k1.TaskSchedReq
  BY <1>1, LockFacts
<1>5. l = [k1 EXCEPT !.OSSchedLock = k1.OSSchedLock + 1]
  BY DEF OsSchedLock
<1> HIDE DEF l
<1>6. Lists(l.TCBRdy, {t \in Task : l.state[t] = "READY"})
  BY <1>1, <1>4
<1>7. Switches(l, z) /\ z.OSSchedLock = l.OSSchedLock /\ z.OSIntNesting = l.OSIntNesting
  BY <1>4, <1>6, ScheduleSwitches
<1>8. k.OSSchedLock # 0 => z = l
  <2>1. k.OSSchedLock \in Nat
    BY DEF Kernel
  <2>2. k.OSSchedLock # 0 => ~(l.OSSchedLock <= 1)
    BY <1>1, <1>4, <2>1
  <2> QED  BY <2>2 DEF Schedule, CanSchedule
<1> HIDE DEF z
<1>9. z \in Kernel /\ z.OSSchedLock = k.OSSchedLock + 1 /\ z.OSIntNesting = 0
  BY <1>1, <1>4, <1>7 DEF Switches
<1>10. /\ k3 \in Kernel /\ k3.OSSchedLock = k.OSSchedLock /\ k3.OSIntNesting = 0
       /\ k3.state = z.state /\ k3.prio = z.prio /\ k3.TCBRdy = z.TCBRdy
       /\ k3.TCBRunning = z.TCBRunning /\ k3.TCBNext = z.TCBNext
       /\ k3.PendSV = z.PendSV /\ k3.TaskSchedReq = z.TaskSchedReq
  <2>1. k.OSSchedLock \in Nat
    BY DEF Kernel
  <2>2. z.OSSchedLock - 1 = k.OSSchedLock
    BY <1>9, <2>1
  <2> QED  BY <1>9, <2>1, <2>2 DEF Kernel
<1>11. k.OSSchedLock # 0 => k3 = k1
  <2> SUFFICES ASSUME k.OSSchedLock # 0 PROVE k3 = k1
    OBVIOUS
  <2>1. k.OSSchedLock \in Nat
    BY DEF Kernel
  <2>2. (k1.OSSchedLock + 1) - 1 = k1.OSSchedLock
    BY <1>1, <2>1
  <2>3. z = [k1 EXCEPT !.OSSchedLock = k1.OSSchedLock + 1]
    BY <1>5, <1>8
  <2>4. k3 = [k1 EXCEPT !.OSSchedLock = k1.OSSchedLock]
    BY <1>1, <2>2, <2>3 DEF Kernel
  <2> QED  BY <1>1, <2>4 DEF Kernel
<1> HIDE DEF k3
<1>12. Switches(k, k3)
  BY <1>1, <1>4, <1>7, <1>10 DEF Switches
<1>13. Switches(k, k1)
  BY <1>1 DEF Switches
<1> QED  BY <1>1, <1>2, <1>3, <1>10, <1>11, <1>12, <1>13

LEMMA DeviceKeeps ==
  ASSUME SystemInv, NEW q \in Calls[s.app].isr, DeviceISR(q)
  PROVE  SystemRight(s', pc')
<1> DEFINE k == s.k
           ke == CoEnterISR(s.k)
           e == [s EXCEPT !.k = ke]
           x == isr_Request(e, q)
           k3 == CoExitISR(x.k)
           run == k.TCBRunning
<1>1. s' = [x EXCEPT !.k = k3] /\ pc' = pc
  BY DEF DeviceISR
<1>2. /\ Right(s, Ids(pc), {}) /\ PlacesRight(pc) /\ (Disciplined => LocksKept(s)) /\ s.app \in App
      /\ k \in Kernel /\ LocksRight(k, pc) /\ RunningRight(k, pc) /\ pc[Tmr].ret = "off"
      /\ pc[Tmr].at \in {"off"} \cup UnlockPlaces
  BY DEF SystemInv, SystemRight, Right, Shape, PlacesRight
<1>3. /\ ke \in Kernel /\ ke.OSIntNesting = 1 /\ ke.OSSchedLock = k.OSSchedLock
      /\ ke.state = k.state /\ ke.prio = k.prio /\ ke.TCBRdy = k.TCBRdy
      /\ ke.TCBRunning = k.TCBRunning /\ ke.TCBNext = k.TCBNext
      /\ ke.PendSV = k.PendSV /\ ke.TaskSchedReq = k.TaskSchedReq
  <2>1. k.OSIntNesting = 0
    BY <1>2 DEF LocksRight
  <2>2. ke = [k EXCEPT !.OSIntNesting = 1]
    BY <2>1 DEF CoEnterISR, Inc8
  <2> HIDE DEF ke
  <2> QED  BY <1>2, <2>2 DEF Kernel
<1> HIDE DEF ke
<1>4. Right(e, Ids(pc), {}) /\ Only(s, e, {"k"}) /\ e.k = ke
  BY <1>2, <1>3, KernelSame
<1> HIDE DEF e
<1>5. RequestRight(e.app, q)
  <2>1. e.app = s.app
    BY <1>4 DEF Only, Fields
  <2>2. q \in DeviceRequest
    BY <1>2, CallTypes
  <2>3. q[1] = "sem" => PostsFromIsr(s.app, q[2])
    <3> SUFFICES ASSUME q[1] = "sem" PROVE PostsFromIsr(s.app, q[2])
      OBVIOUS
    <3>1. q = <<"sem", q[2], NoMail>> /\ q[2] \in Event
      BY <2>2 DEF DeviceRequest
    <3> QED  BY <3>1 DEF PostsFromIsr
  <2> QED  BY <2>1, <2>2, <2>3 DEF RequestRight
<1>6. /\ Right(x, Ids(pc), {}) /\ Serves(e, x, Devices(e))
      /\ e.k.OSSchedLock # 0 => x.k = e.k
  BY <1>4, <1>5, CalledFromIsr
<1> HIDE DEF x
<1>7. /\ x.k \in Kernel /\ KernelServes(ke, x.k)
      /\ Lists(x.k.TCBRdy, {t \in Task : x.k.state[t] = "READY"})
      /\ \A u \in Task :
            \/ x.k.state[u] = k.state[u]
            \/ k.state[u] = "WAITING" /\ x.k.state[u] = "READY"
            \/ k.state[u] = "WAITING" /\ x.k.state[u] = "RUNNING" /\ u = run
  BY <1>3, <1>4, <1>6 DEF Right, Shape, ReadyRight, Serves
<1>8. x.k.OSIntNesting = 1 /\ x.k.OSSchedLock = k.OSSchedLock /\ x.k.TCBRunning = run
      /\ x.k.TCBNext = k.TCBNext /\ x.k.PendSV = k.PendSV
  BY <1>3, <1>7 DEF KernelServes
<1>9. /\ Switches(x.k, k3) /\ k3.OSIntNesting = 0 /\ k3.OSSchedLock = k.OSSchedLock
      /\ x.k.OSSchedLock # 0 => k3 = [x.k EXCEPT !.OSIntNesting = 0]
  BY <1>7, <1>8, ExitSwitches
<1> HIDE DEF k3
<1>10. Right(s', Ids(pc), {}) /\ Only(x, s', {"k"}) /\ s'.k = k3
  BY <1>1, <1>6, <1>9, SwitchRight
<1>11. run \in Task /\ Idle \in Task /\ k3.TCBRunning = run
  BY <1>2, <1>8, <1>9, KernelAssumption DEF Kernel, Idle, Task, Switches
<1>12. LocksRight(k3, pc) /\ RunningRight(k3, pc)
  <2>1. CASE k.OSSchedLock # 0
    <3>1. x.k = ke
      BY <1>3, <1>4, <1>6, <2>1
    <3>2. k3 = [ke EXCEPT !.OSIntNesting = 0]
      BY <1>8, <1>9, <2>1, <3>1
    <3>3. /\ k3.state = k.state /\ k3.TCBNext = k.TCBNext
          /\ k3.PendSV = k.PendSV /\ k3.TaskSchedReq = k.TaskSchedReq
      BY <1>3, <3>2 DEF Kernel
    <3> QED  BY <1>2, <1>9, <1>11, <3>3 DEF LocksRight, RunningRight
  <2>2. CASE k.OSSchedLock = 0
    <3>1. HeldBy(pc[run]) = 0 /\ HeldBy(pc[Tmr]) = 0
      BY <1>2, <2>2, HeldNat DEF LocksRight
    <3>2. pc[Tmr].at \in {"off", "release"}
      BY <1>2, <3>1 DEF HeldBy, Opens
    <3>3. LocksRight(k3, pc)
      BY <1>2, <1>9, <1>11, <2>2, <3>1, <3>2 DEF LocksRight
    <3>4. ~k.PendSV => k.state[run] = "RUNNING" /\ k.TCBNext = run
      BY <1>2, <3>1 DEF RunningRight
    <3>5. k.PendSV => k.state[k.TCBNext] = "RUNNING" /\ k.state[run] # "WAITING"
      BY <1>2, <2>2 DEF RunningRight
    <3>6. \A t \in Task : x.k.state[t] = "RUNNING" => t = k.TCBNext
      BY <1>2, <1>7, <3>4, <3>5 DEF RunningRight
    <3>7. /\ ~k.PendSV => x.k.state[run] = "RUNNING"
          /\ k.PendSV => x.k.state[k.TCBNext] = "RUNNING" /\ x.k.state[run] # "WAITING"
          /\ x.k.state[Idle] \in {"READY", "RUNNING"}
      <4>1. k.TCBNext \in Task
        BY <1>2 DEF Kernel
      <4> QED  BY <1>2, <1>7, <1>11, <3>4, <3>5, <4>1 DEF RunningRight
    <3>8. \A t \in Task : k3.state[t] = "RUNNING" => t = k3.TCBNext
      BY <1>8, <1>9, <3>6 DEF Switches
    <3>9. k3.PendSV => k3.state[k3.TCBNext] = "RUNNING"
      BY <1>8, <1>9, <3>7, ZenonT(60) DEF Switches
    <3>10. ~k3.PendSV => k3.TCBNext = run /\ k3.state[run] = "RUNNING"
      BY <1>8, <1>9, <3>4, <3>7 DEF Switches
    <3>11. k3.state[run] # "WAITING"
      BY <1>9, <1>11, <3>7 DEF Switches
    <3>12. k3.state[Idle] \in {"READY", "RUNNING"}
      BY <1>9, <1>11, <3>7 DEF Switches
    <3>13. RunningRight(k3, pc)
      BY <1>2, <1>11, <3>8, <3>9, <3>10, <3>11, <3>12 DEF RunningRight
    <3> QED  BY <3>3, <3>13
  <2> QED  BY <2>1, <2>2
<1>13. e.app \in App /\ (Disciplined => LocksKept(e))
  <2>1. e.app = s.app
    BY <1>4 DEF Only, Fields
  <2> QED  BY <1>2, <1>4, <2>1, LocksKeptFrom
<1>14. Apart(e, x, {}) /\ (Disciplined => LocksKept(x))
  BY <1>6, <1>13, DevicesApart
<1>15. Disciplined => LocksKept(s')
  BY <1>10, <1>14, OnlyApart
<1>16. Apart(s, s', {})
  <2>1. Apart(s, x, {})
    BY <1>4, <1>14, ApartFrom
  <2>2. /\ s'.app = x.app /\ s'.eventType = x.eventType
        /\ s'.initialEventCounter = x.initialEventCounter /\ s'.eventCounter = x.eventCounter
        /\ s'.holds = x.holds /\ s'.eventID = x.eventID /\ s'.pmail = x.pmail
        /\ s'.pnode = x.pnode /\ s'.delayTick = x.delayTick
    BY <1>10 DEF Only, Fields
  <2>3. CountersApart(s, s', {})
    BY <2>1, <2>2 DEF Apart, CountersApart
  <2>4. TasksApart(s, s', {})
    BY <2>1, <2>2 DEF Apart, TasksApart
  <2> QED  BY <2>1, <2>2, <2>3, <2>4 DEF Apart
<1>17. \A t \in Task : SameCall(pc[t], pc'[t])
  BY <1>1 DEF SameCall
<1>18. /\ Right(s', Ids(pc'), {}) /\ PlacesRight(pc')
       /\ LocksRight(s'.k, pc') /\ RunningRight(s'.k, pc')
  BY <1>1, <1>2, <1>10, <1>12
<1> QED  BY <1>15, <1>16, <1>17, <1>18, CallsGoOn

(* Every action keeps the invariant.                                       *)

LEMMA UnlockKeeps ==
  ASSUME SystemInv, NEW c \in Context, Unlock(c)
  PROVE  SystemRight(s', pc')
<1>1. CASE UnlockNested(c)
  BY <1>1, UnlockNestedKeeps
<1>2. CASE UnlockLast(c)
  BY <1>2, UnlockLastKeeps
<1>3. CASE RespondTime(c)
  BY <1>3, RespondTimeKeeps
<1>4. CASE RespondReset(c)
  BY <1>4, RespondResetKeeps
<1>5. CASE RespondTimers(c)
  BY <1>5, RespondTimersKeeps
<1>6. CASE RespondTimersReset(c)
  BY <1>6, RespondTimersResetKeeps
<1>7. CASE RespondDrain(c)
  BY <1>7, RespondDrainKeeps
<1>8. CASE RespondDone(c)
  BY <1>8, RespondDoneKeeps
<1>9. CASE RespondClear(c)
  BY <1>9, RespondClearKeeps
<1>10. CASE UnlockSched(c)
  BY <1>10, UnlockSchedKeeps
<1>11. CASE UnlockRelease(c)
  BY <1>11, UnlockReleaseKeeps
<1> QED  BY <1>1, <1>2, <1>3, <1>4, <1>5, <1>6, <1>7, <1>8, <1>9, <1>10, <1>11 DEF Unlock

(* No event is in the hands of a call.                                     *)
LEMMA EcbIdle ==
  ASSUME SystemInv, NEW t \in Task
  PROVE  ~EcbFinish(t)
<1>1. \A at \in ControlPlaces : ~Runs(t, at)
  <2> SUFFICES ASSUME NEW at \in ControlPlaces, Runs(t, at)
               PROVE  FALSE
    OBVIOUS
  <2>1. at \notin {"user"} \cup UnlockPlaces
    BY DEF ControlPlaces, UnlockPlaces
  <2>2. Carries(pc[t]) = at /\ CallRight(s, pc[t], t)
    BY <2>1, AtPlace
  <2> QED  BY <2>2 DEF CallRight
<1> QED  BY <1>1 DEF EcbFinish, QueueFills, QueueTakesEvent, FillsEvent, ReadiesWaiters,
                     FallsInvalid, PushesEvent, LoadsVessel, StoresVessel, ClearsQueue,
                     ControlPlaces

LEMMA FinishKeeps ==
  ASSUME SystemInv, RenewRules, NEW t \in Task, Finish(t)
  PROVE  SystemRight(s', pc')
<1>1. CASE Unlock(t)
  BY <1>1, UnlockKeeps, TmrApart
<1>2. CASE CoResetTaskDelayTick(t)
  BY <1>2, ResetDelayKeeps
<1>3. CASE LeavesSection(t)
  BY <1>3, LeavesSectionKeeps
<1>4. CASE PendBlocks(t)
  BY <1>4, PendBlocksKeeps
<1>5. CASE PendReturns(t)
  BY <1>5, PendReturnsKeeps
<1>6. CASE PendTimesOut(t)
  BY <1>6, PendTimesOutKeeps
<1>7. CASE PostStores(t)
  BY <1>7, PostStoresKeeps
<1>8. CASE AcceptLoads(t)
  BY <1>8, AcceptLoadsKeeps
<1>9. CASE AcceptStores(t)
  BY <1>9, AcceptStoresKeeps
<1>10. CASE FlagReturns(t)
  BY <1>10, FlagReturnsKeeps
<1>11. CASE FlagTimesOut(t)
  BY <1>11, FlagTimesOutKeeps
<1>12. CASE AcceptTakes(t)
  BY <1>12, AcceptTakesKeeps
<1>13. CASE SetLoads(t)
  BY <1>13, SetLoadsKeeps
<1>14. CASE SetStores(t)
  BY <1>14, SetStoresKeeps
<1>15. CASE SetWalks(t)
  BY <1>15, SetWalksKeeps
<1>16. CASE ClearStores(t)
  BY <1>16, ClearStoresKeeps
<1>17. CASE TimerInserts(t)
  BY <1>17, TimerInsertsKeeps
<1>18. CASE TimerRemoves(t)
  BY <1>18, TimerRemovesKeeps
<1>19. CASE TimerStops(t)
  BY <1>19, TimerStopsKeeps
<1>20. CASE TimerGone(t)
  BY <1>20, TimerGoneKeeps
<1>21. CASE EcbFinish(t)
  BY <1>21, EcbIdle
<1>22. CASE TimerFills(t)
  BY <1>22, TimerFillsKeeps
<1>23. CASE TimerFree(t)
  BY <1>23, TimerFreeKeeps
<1> QED  BY <1>1, <1>2, <1>3, <1>4, <1>5, <1>6, <1>7, <1>8, <1>9, <1>10, <1>11,
          <1>12, <1>13, <1>14, <1>15, <1>16, <1>17, <1>18, <1>19, <1>20, <1>21, <1>22, <1>23
      DEF Finish, DelayFinish, EventFinish, SemFinish, FlagFinish, TimerFinish

(* A call is made with its arguments.                                      *)
LEMMA NoEcbCall ==
  ASSUME StaticEvents, SystemInv, NEW t \in Task
  PROVE  ~EcbCall(t)
<1>1. s.app \in App
  BY DEF SystemInv, SystemRight, Right, Shape
<1>2. Calls[s.app].create = {} /\ Calls[s.app].delete = {}
  BY <1>1 DEF StaticEvents
<1>3. Arguments("create") = {} /\ Arguments("delete") = {}
  BY <1>2 DEF Arguments
<1> QED  BY <1>3 DEF EcbCall

LEMMA DelayCallKeeps ==
  ASSUME SystemInv, NEW t \in Task, DelayCall(t)
  PROVE  SystemRight(s', pc')
<1>1. CASE \E c \in Arguments("delay") : CoTickDelay(t, c[1])
  BY <1>1, TickDelayKeeps
<1>2. CASE \E c \in Arguments("renew") : EntersSection(t, c[1], c[2])
  BY <1>2, EntersSectionKeeps
<1> QED  BY <1>1, <1>2 DEF DelayCall

LEMMA SemCallKeeps ==
  ASSUME SystemInv, NEW t \in Task, SemCall(t)
  PROVE  SystemRight(s', pc')
<1>1. CASE \E c \in Arguments("pendSem") : CoPendSem(t, c[1], c[2])
  BY <1>1, PendSemKeeps
<1>2. CASE \E c \in Arguments("postSem") : CoPostSem(t, c[1])
  BY <1>2, PostSemKeeps
<1>3. CASE \E c \in Arguments("acceptSem") : CoAcceptSem(t, c[1])
  BY <1>3, AcceptSemKeeps
<1> QED  BY <1>1, <1>2, <1>3 DEF SemCall

LEMMA MailCallKeeps ==
  ASSUME SystemInv, NEW t \in Task, MailCall(t)
  PROVE  SystemRight(s', pc')
<1>1. CASE \E c \in Arguments("pendMail") : CoPendMail(t, c[1], c[2])
  BY <1>1, PendMailKeeps
<1>2. CASE \E c \in Arguments("pendMail") : CoPendQueueMail(t, c[1], c[2])
  BY <1>2, PendQueueMailKeeps
<1>3. CASE \E c \in Arguments("postMail") : CoPostMail(t, c[1], c[2])
  BY <1>3, PostMailKeeps
<1>4. CASE \E c \in Arguments("postMail") : CoPostQueueMail(t, c[1], c[2])
  BY <1>4, PostQueueMailKeeps
<1>5. CASE \E c \in Arguments("acceptMail") : CoAcceptMail(t, c[1])
  BY <1>5, AcceptMailKeeps
<1>6. CASE \E c \in Arguments("acceptMail") : CoAcceptQueueMail(t, c[1])
  BY <1>6, AcceptQueueMailKeeps
<1> QED  BY <1>1, <1>2, <1>3, <1>4, <1>5, <1>6 DEF MailCall

LEMMA FlagCallKeeps ==
  ASSUME SystemInv, NEW t \in Task, FlagCall(t)
  PROVE  SystemRight(s', pc')
<1>1. CASE \E c \in Arguments("waitFlags") : CoWaitForFlags(t, c[1], c[2], c[3])
  BY <1>1, WaitForFlagsKeeps
<1>2. CASE \E c \in Arguments("acceptFlags") : CoAcceptFlags(t, c[1], c[2])
  BY <1>2, AcceptFlagsKeeps
<1>3. CASE \E c \in Arguments("setFlag") : CoSetFlag(t, c[1])
  BY <1>3, SetFlagKeeps
<1>4. CASE \E c \in Arguments("clearFlag") : CoClearFlag(t, c[1])
  BY <1>4, ClearFlagKeeps
<1>5. CASE \E c \in Arguments("createFlag") : CoCreateFlag(t, c[1], c[2])
  BY <1>5, CreateFlagKeeps
<1>6. CASE \E c \in Arguments("delFlag") : CoDelFlag(t, c[1], c[2])
  BY <1>6, DelFlagKeeps
<1> QED  BY <1>1, <1>2, <1>3, <1>4, <1>5, <1>6 DEF FlagCall

LEMMA TimerCallKeeps ==
  ASSUME SystemInv, NEW t \in Task, TimerCall(t)
  PROVE  SystemRight(s', pc')
<1>1. CASE \E c \in Arguments("createTmr") : CoCreateTmr(t, c[1], c[2], c[3])
  BY <1>1, CreateTmrKeeps
<1>2. CASE \E c \in Arguments("startTmr") : CoStartTmr(t, c[1])
  BY <1>2, StartTmrKeeps
<1>3. CASE \E c \in Arguments("stopTmr") : CoStopTmr(t, c[1])
  BY <1>3, StopTmrKeeps
<1>4. CASE \E c \in Arguments("setTmr") : CoSetTmrCnt(t, c[1], c[2], c[3])
  BY <1>4, SetTmrCntKeeps
<1>5. CASE \E c \in Arguments("delTmr") : CoDelTmr(t, c[1])
  BY <1>5, DelTmrKeeps
<1> QED  BY <1>1, <1>2, <1>3, <1>4, <1>5 DEF TimerCall

LEMMA ExceptionKeeps ==
  ASSUME SystemInv, Exception
  PROVE  SystemRight(s', pc')
<1>1. CASE Unlock(Tmr)
  BY <1>1, TmrApart, UnlockKeeps
<1>2. CASE PendSV
  BY <1>2, SwitchKeeps
<1>3. CASE SysTick_Handler
  BY <1>3, TickKeeps
<1>4. CASE \E q \in Calls[s.app].isr : DeviceISR(q)
  BY <1>4, DeviceKeeps
<1> QED  BY <1>1, <1>2, <1>3, <1>4 DEF Exception

LEMMA NextKeeps ==
  ASSUME StaticEvents, RenewRules, SystemInv, [Next]_vars
  PROVE  SystemInv'
<1>1. SystemRight(s', pc')
  <2>1. CASE \E t \in Task : Finish(t)
    BY <2>1, FinishKeeps
  <2>2. CASE \E t \in Task : Call(t)
    <3>1. PICK t \in Task : Call(t)
      BY <2>2
    <3>2. CASE DelayCall(t)
      BY <3>2, DelayCallKeeps
    <3>3. CASE SemCall(t)
      BY <3>3, SemCallKeeps
    <3>4. CASE MailCall(t)
      BY <3>4, MailCallKeeps
    <3>5. CASE FlagCall(t)
      BY <3>5, FlagCallKeeps
    <3>6. CASE TimerCall(t)
      BY <3>6, TimerCallKeeps
    <3>7. ~EcbCall(t)
      BY NoEcbCall
    <3> QED  BY <3>1, <3>2, <3>3, <3>4, <3>5, <3>6, <3>7 DEF Call
  <2>3. CASE Exception
    BY <2>3, ExceptionKeeps
  <2>4. CASE UNCHANGED vars
    BY <2>4 DEF vars, SystemInv
  <2> QED  BY <2>1, <2>2, <2>3, <2>4 DEF Next
<1> QED  BY <1>1 DEF SystemInv

(* The READY list at the start.                                            *)
LEMMA CreatedReadyFacts ==
  ASSUME NEW tasks \in 0 .. MaxTask, NEW prio \in [Task -> Nat],
         NEW q, q = CreatedReady(tasks, prio)
  PROVE  q \in Seq(Task) /\ Lists(q, 1 .. tasks)
<1> DEFINE n == tasks
           Next2(g, i) == IF i = 0 THEN <<>>
                          ELSE InsertAt(g[i - 1], InsertPos(g[i - 1], prio, prio[i]), i)
           Rec(m, g) == g = [i \in 0 .. m |-> Next2(g, i)]
           after == CHOOSE g : Rec(n, g)
<1>0. n \in Nat /\ n <= MaxTask /\ MaxTask \in Nat
  BY KernelAssumption
<1>1. q = after[n]
  BY DEF CreatedReady
<1> HIDE DEF n
<1>2. \A m \in Nat : \E f : Rec(m, f)
  <2> DEFINE N == {m \in Nat : \E f : Rec(m, f)}
  <2>1. 0 \in N
    <3>1. Rec(0, [i \in 0 .. 0 |-> <<>>])  OBVIOUS
    <3> QED  BY <3>1
  <2>2. ASSUME NEW m \in Nat, m \in N PROVE m + 1 \in N
    <3>1. PICK f : Rec(m, f)  BY <2>2
    <3> DEFINE g == [i \in 0 .. m + 1 |-> IF i = m + 1 THEN Next2(f, i) ELSE f[i]]
    <3>2. /\ \A i \in 0 .. m : g[i] = f[i]
          /\ g[m + 1] = Next2(f, m + 1)
      OBVIOUS
    <3> HIDE DEF Next2
    <3>3. \A i \in 0 .. m : f[i] = Next2(f, i)
      BY <3>1
    <3> USE DEF Next2
    <3> HIDE DEF g, Rec
    <3>4. ASSUME NEW i \in 0 .. m + 1, i # 0 PROVE g[i - 1] = f[i - 1]
      <4>1. i - 1 \in 0 .. m  BY <3>4
      <4> QED  BY <4>1, <3>2
    <3>5. \A i \in 0 .. m + 1 : Next2(g, i) = Next2(f, i)
      BY <3>4
    <3> HIDE DEF Next2
    <3>6. ASSUME NEW i \in 0 .. m + 1 PROVE g[i] = Next2(g, i)
      <4>1. CASE i = m + 1  BY <4>1, <3>2, <3>5
      <4>2. CASE i # m + 1
        <5>1. i \in 0 .. m  BY <4>2
        <5> QED  BY <5>1, <3>2, <3>3, <3>5
      <4> QED  BY <4>1, <4>2
    <3>7. g = [i \in 0 .. m + 1 |-> g[i]]
      BY DEF g
    <3>8. Rec(m + 1, g)
      BY <3>6, <3>7 DEF Rec
    <3> QED  BY <3>8, <2>2
  <2> HIDE DEF N
  <2>3. \A m \in Nat : m \in N  BY <2>1, <2>2, NatIs
  <2> QED  BY <2>3 DEF N
<1>3. Rec(n, after)
  <2> HIDE DEF Rec
  <2>1. n \in Nat  BY <1>0
  <2> QED  BY <2>1, <1>2
<1> HIDE DEF after
<1>4. \A i \in 0 .. n : after[i] = Next2(after, i)
  <2> HIDE DEF Next2
  <2> QED  BY <1>3
<1> HIDE DEF Rec
<1> DEFINE Good(i) == after[i] \in Seq(Task) /\ Lists(after[i], 1 .. i)
           N == {i \in Nat : i <= n => Good(i)}
<1>5. 0 \in N
  <2>1. 0 \in 0 .. n  BY <1>0
  <2>2. after[0] = <<>>  BY <2>1, <1>4
  <2>3. <<>> \in Seq(Task) /\ Lists(<<>>, 1 .. 0)
    BY EmptySeq DEF Lists, IsInjective, Range
  <2>4. Good(0)  BY <2>2, <2>3
  <2> QED  BY <2>4
<1>6. ASSUME NEW i \in Nat, i \in N PROVE i + 1 \in N
  <2> HIDE DEF Good
  <2>0. SUFFICES ASSUME i + 1 <= n PROVE Good(i + 1)
    OBVIOUS
  <2>1. i + 1 \in 0 .. n /\ i + 1 # 0 /\ (i + 1) - 1 = i /\ i <= n /\ i + 1 \in Task
    BY <1>0, <2>0 DEF Task
  <2>2. Good(i)  BY <1>6, <2>1
  <2> DEFINE p == after[i]
             y == after[i + 1]
             j == InsertPos(p, prio, prio[i + 1])
  <2>3. y = InsertAt(p, j, i + 1)
    BY <2>1, <1>4
  <2>4. p \in Seq(Task) /\ Lists(p, 1 .. i)  BY <2>2 DEF Good
  <2>5. j \in 1 .. Len(p) + 1
    <3>1. prio[i + 1] \in Nat  BY <2>1
    <3> HIDE DEF p
    <3> QED  BY <2>4, <3>1, InsertPosFacts
  <2> HIDE DEF p, y, N, j
  <2>6. i + 1 \notin 1 .. i
    OBVIOUS
  <2>7. y \in Seq(Task) /\ Lists(y, (1 .. i) \cup {i + 1})
    BY <2>1, <2>3, <2>4, <2>5, <2>6, ListMore
  <2>8. \A t \in Task : t \in (1 .. i) \cup {i + 1} <=> t \in 1 .. (i + 1)
    BY <1>0 DEF Task
  <2>9. Lists(y, 1 .. (i + 1))
    BY <2>7, <2>8, ListSame
  <2> QED  BY <2>7, <2>9 DEF Good, y
<1> HIDE DEF N
<1>7. n \in N
  BY <1>0, <1>5, <1>6, NatIs
<1>8. Good(n)
  BY <1>0, <1>7 DEF N
<1> QED  BY <1>1, <1>8 DEF n

(* The record of the kernel at the start.                                  *)
Started(k) ==
  /\ k \in Kernel /\ Lists(k.TCBRdy, {t \in Task : k.state[t] = "READY"})
  /\ \A t \in Task : k.state[t] # "WAITING" /\ (k.state[t] = "RUNNING" <=> t = Idle)
  /\ k.TCBRunning = Idle /\ k.TCBNext = Idle /\ Idle \in Task
  /\ k.OSSchedLock = 1 /\ k.OSIntNesting = 0 /\ k.TaskSchedReq /\ k.PendSV = FALSE

LEMMA StartKernelFacts ==
  ASSUME NEW tasks \in 0 .. MaxTask, NEW prio \in [Task -> Prio],
         NEW k, k = StartKernel(tasks, prio)
  PROVE  Started(k)
<1> DEFINE q == CreatedReady(tasks, prio)
           free == [i \in 1 .. MaxTask - tasks |-> tasks + i]
           state == [t \in Task |-> IF t = Idle THEN "RUNNING"
                                    ELSE IF t <= tasks THEN "READY" ELSE "DORMANT"]
<1>1. prio \in [Task -> Nat]
  BY KernelAssumption DEF Prio
<1>2. q \in Seq(Task) /\ Lists(q, 1 .. tasks)
  BY <1>1, CreatedReadyFacts
<1>3. free \in Seq(Task)
  <2>1. MaxTask - tasks \in Nat
    BY KernelAssumption
  <2>2. \A i \in 1 .. MaxTask - tasks : tasks + i \in Task
    BY KernelAssumption DEF Task
  <2>3. free \in [1 .. MaxTask - tasks -> Task]
    BY <2>2
  <2> QED  BY <2>1, <2>3
<1>4. state \in [Task -> TaskState]
  BY DEF TaskState
<1>5. Idle \in Task
  BY KernelAssumption DEF Idle, Task
<1>6. \A t \in Task : t \in 1 .. tasks <=> t \in {u \in Task : state[u] = "READY"}
  BY KernelAssumption DEF Task, Idle
<1>7. Lists(q, {u \in Task : state[u] = "READY"})
  BY <1>2, <1>6, ListSame
<1>8. k = [ state |-> state, prio |-> prio, TCBRdy |-> q, FreeTCB |-> free,
            TCBRunning |-> Idle, TCBNext |-> Idle, OSSchedLock |-> 1, OSIntNesting |-> 0,
            TaskSchedReq |-> TRUE, robin |-> -1, PendSV |-> FALSE ]
  BY DEF StartKernel
<1>9. \A t \in Task : state[t] # "WAITING" /\ (state[t] = "RUNNING" <=> t = Idle)
  BY DEF Idle
<1> HIDE DEF q, free, state
<1>10. k \in Kernel
  BY <1>1, <1>2, <1>3, <1>4, <1>5, <1>8 DEF Kernel
<1> QED  BY <1>5, <1>7, <1>8, <1>9, <1>10 DEF Started

(* The queues of an application are numbered from 0 on.                    *)
LEMMA QueueNumbers ==
  ASSUME NEW a \in App, NEW e \in Event, e < Len(Setup[a].events),
         Setup[a].events[e + 1].type = "queue"
  PROVE  QueueOf(Setup[a].events, e) \in Queue
<1> DEFINE evs == Setup[a].events
           n   == Len(evs)
           S   == {i \in 1 .. e : evs[i].type = "queue"}
           All == {i \in 1 .. n : evs[i].type = "queue"}
<1>1. evs \in Seq(EventSetup) /\ Cardinality(All) <= MaxQueue /\ n \in Nat
  BY ThreadAssumption DEF AppSetup, QueueOf
<1>2. e \in Nat /\ e + 1 \in 1 .. n /\ MaxQueue \in Nat
  BY <1>1, EventAssumption DEF Event
<1>3. S \cup {e + 1} \subseteq All /\ e + 1 \notin S
  <2> HIDE DEF evs, n
  <2>1. evs[e + 1].type = "queue"  BY DEF evs
  <2>2. \A i \in 1 .. e : i \in 1 .. n
    BY <1>1, <1>2
  <2> QED  BY <1>2, <2>1, <2>2
<1>4. IsFiniteSet(1 .. n) /\ IsFiniteSet(1 .. e)
  <2> HIDE DEF n
  <2>1. 1 \in Int /\ n \in Int /\ e \in Int
    BY <1>1, <1>2
  <2> QED  BY <2>1, FS_Interval
<1>5. IsFiniteSet(All) /\ IsFiniteSet(S)
  <2>1. All \subseteq 1 .. n /\ S \subseteq 1 .. e  OBVIOUS
  <2> HIDE DEF All, S
  <2> QED  BY <1>4, <2>1, FS_Subset
<1>6. QueueOf(evs, e) = Cardinality(S)
  BY DEF QueueOf
<1> HIDE DEF All, S, evs
<1>7. Cardinality(S \cup {e + 1}) = Cardinality(S) + 1
  BY <1>3, <1>5, FS_AddElement
<1>8. Cardinality(S \cup {e + 1}) <= Cardinality(All)
  BY <1>3, <1>5, FS_Subset
<1>9. Cardinality(S) \in Nat /\ Cardinality(All) \in Nat
  BY <1>5, FS_CardinalityType
<1> QED  BY <1>1, <1>2, <1>6, <1>7, <1>8, <1>9 DEF Queue, evs

(* The record at the start.                                                *)
StartFields(r, a, u) ==
  LET n     == Len(u.events)
      ev(e) == u.events[e + 1]
  IN  /\ DOMAIN r = Fields
      /\ r.app = a /\ r.k = StartKernel(u.tasks, u.prio)
      /\ r.eventType = [e \in Event |-> IF e < n THEN ev(e).type ELSE "invalid"]
      /\ r.eventCounter = [e \in Event |-> IF e < n THEN ev(e).count ELSE 0]
      /\ r.initialEventCounter = [e \in Event |-> IF e < n THEN ev(e).max ELSE 0]
      /\ DOMAIN r.eventPtr = Event
      /\ r.eventTCBList = [e \in Event |-> NoTask]
      /\ r.eventID = [t \in Task |-> NoEvent]
      /\ r.waitNext = [t \in Task |-> NoTask] /\ r.waitPrev = [t \in Task |-> NoTask]
      /\ r.pmail = [t \in Task |-> NoMail]
      /\ r.nodes = <<>> /\ r.pnode = [t \in Task |-> "null"]
      /\ r.DlyList = <<>> /\ r.delayTick = [t \in Task |-> NoDelay]
      /\ r.TmrTbl = [i \in Timer |-> FreshTimer(IF i < Len(u.timers) THEN u.timers[i + 1]
                                                ELSE NoTimerSetup)]
      /\ r.TmrList = NoTimer
      /\ DOMAIN r.cell = Cells /\ r.cnt = 0 /\ r.head = 0
      /\ r.balance = [e \in Event |-> IF e < n THEN ev(e).count ELSE 0]
      /\ r.holds = [t \in Task |-> {}]

StartQueues(r, u) ==
  LET n       == Len(u.events)
      ev(e)   == u.events[e + 1]
      queues  == {e \in 0 .. n - 1 : ev(e).type = "queue"}
      size(q) == LET e == CHOOSE e \in queues : QueueOf(u.events, e) = q IN ev(e).max
      used    == {QueueOf(u.events, e) : e \in queues}
  IN  /\ r.eventPtr = [e \in Event |-> IF e \in queues THEN QueueOf(u.events, e) ELSE NoMail]
      /\ r.QueueTbl = [q \in Queue |-> IF q \in used THEN FreshQueue(q, size(q)) ELSE FreshQueue(0, 0)]

LEMMA StartIs ==
  ASSUME NEW a, NEW u, NEW r, r = StartSystem(a, u)
  PROVE  StartFields(r, a, u) /\ StartQueues(r, u)
<1>1. StartFields(r, a, u)
  BY DEF StartFields, StartSystem, Fields
<1>2. StartQueues(r, u)
  BY DEF StartQueues, StartSystem
<1> QED  BY <1>1, <1>2

(* What main() creates.                                                    *)
LEMMA EventSetupTypes ==
  ASSUME NEW c \in EventSetup
  PROVE  c.type \in EventType /\ c.count \in Nat /\ c.max \in Nat /\ c.max <= MaxCount
<1>1. MaxCount \in Nat
  BY DEF MaxCount
<1>2. c.type \in EventType /\ c.count \in Nat /\ c.max \in 0 .. MaxCount
  BY DEF EventSetup
<1> QED  BY <1>1, <1>2

LEMMA SetupTypes ==
  ASSUME NEW a \in App, NEW u, u = Setup[a]
  PROVE  /\ u.tasks \in 0 .. MaxTask /\ u.prio \in [Task -> Prio]
         /\ Len(u.events) \in 0 .. MaxEvent /\ Len(u.timers) \in 0 .. MaxTimer
         /\ \A e \in Event : e < Len(u.events) =>
              /\ u.events[e + 1].type \in EventType /\ u.events[e + 1].count \in Nat
              /\ u.events[e + 1].max \in Nat /\ u.events[e + 1].max <= MaxCount
              /\ u.events[e + 1].count <= u.events[e + 1].max
              /\ u.events[e + 1].type = "queue" => u.events[e + 1].max \in 1 .. MaxCell
         /\ \A i \in Timer : i < Len(u.timers) =>
              i + 1 \in 1 .. Len(u.timers) /\ u.timers[i + 1] \in TimerSetup
<1>1. u \in AppSetup /\ Len(u.events) <= MaxEvent /\ Len(u.timers) <= MaxTimer
  BY ThreadAssumption
<1>2. /\ u.tasks \in 0 .. MaxTask /\ u.prio \in [Task -> Prio]
      /\ u.events \in Seq(EventSetup) /\ u.timers \in Seq(TimerSetup)
  BY <1>1 DEF AppSetup
<1>3. Len(u.events) \in Nat /\ Len(u.timers) \in Nat
  BY <1>2
<1>4. ASSUME NEW e \in Event, e < Len(u.events)
      PROVE  /\ u.events[e + 1].type \in EventType /\ u.events[e + 1].count \in Nat
             /\ u.events[e + 1].max \in Nat /\ u.events[e + 1].max <= MaxCount
             /\ u.events[e + 1].count <= u.events[e + 1].max
             /\ u.events[e + 1].type = "queue" => u.events[e + 1].max \in 1 .. MaxCell
  <2> DEFINE c == u.events[e + 1]
  <2>1. e + 1 \in 1 .. Len(u.events)
    BY <1>3, <1>4 DEF Event
  <2>2. c \in EventSetup
    BY <1>2, <2>1, ElementOfSeq
  <2>3. c.count <= c.max /\ (c.type = "queue" => c.max \in 1 .. MaxCell)
    BY <2>1, ThreadAssumption
  <2> HIDE DEF c
  <2>4. c.type \in EventType /\ c.count \in Nat /\ c.max \in Nat /\ c.max <= MaxCount
    BY <2>2, EventSetupTypes
  <2> QED  BY <2>3, <2>4 DEF c
<1>5. ASSUME NEW i \in Timer, i < Len(u.timers)
      PROVE  i + 1 \in 1 .. Len(u.timers) /\ u.timers[i + 1] \in TimerSetup
  <2>1. i + 1 \in 1 .. Len(u.timers)
    BY <1>3, <1>5 DEF Timer
  <2> QED  BY <1>2, <2>1, ElementOfSeq
<1>6. Len(u.events) \in 0 .. MaxEvent /\ Len(u.timers) \in 0 .. MaxTimer
  BY <1>1, <1>3, EventAssumption
<1> QED  BY <1>2, <1>4, <1>5, <1>6

LEMMA StartShape ==
  ASSUME NEW a \in App, NEW u, u = Setup[a], NEW r, StartFields(r, a, u)
  PROVE  Shape(r) /\ CallBacksRight(r)
<1>1. u.tasks \in 0 .. MaxTask /\ u.prio \in [Task -> Prio] /\ DOMAIN r = Fields
  BY SetupTypes DEF StartFields
<1>2. r.k \in Kernel
  <2>1. r.k = StartKernel(u.tasks, u.prio)
    BY DEF StartFields
  <2>2. Started(r.k)
    BY <1>1, <2>1, StartKernelFacts
  <2> QED  BY <2>2 DEF Started
<1>3. /\ r.eventType \in [Event -> EventType]
      /\ r.eventCounter \in [Event -> Nat] /\ r.initialEventCounter \in [Event -> Nat]
      /\ r.balance \in [Event -> Int]
  <2> DEFINE n == Len(u.events)
  <2>1. \A e \in Event : e < n =>
          /\ u.events[e + 1].type \in EventType /\ u.events[e + 1].count \in Nat
          /\ u.events[e + 1].max \in Nat
    BY SetupTypes
  <2>2. "invalid" \in EventType
    BY DEF EventType
  <2>3. /\ r.eventType = [e \in Event |-> IF e < n THEN u.events[e + 1].type ELSE "invalid"]
        /\ r.eventCounter = [e \in Event |-> IF e < n THEN u.events[e + 1].count ELSE 0]
        /\ r.initialEventCounter = [e \in Event |-> IF e < n THEN u.events[e + 1].max ELSE 0]
        /\ r.balance = [e \in Event |-> IF e < n THEN u.events[e + 1].count ELSE 0]
    BY DEF StartFields
  <2> HIDE DEF n
  <2> QED  BY <2>1, <2>2, <2>3
<1>4. ASSUME NEW i \in Timer
      PROVE  /\ r.TmrTbl[i] \in TmrCtrl
             /\ r.TmrTbl[i].tmrCallBack # NoEvent => PostsFromIsr(r.app, r.TmrTbl[i].tmrCallBack)
  <2> DEFINE c == IF i < Len(u.timers) THEN u.timers[i + 1] ELSE NoTimerSetup
  <2>1. r.TmrTbl[i] = FreshTimer(c) /\ r.app = a
    BY DEF StartFields
  <2>2. c \in TimerSetup
    BY SetupTypes DEF NoTimerSetup, TimerSetup
  <2>3. c.callback # NoEvent => PostsFromIsr(a, c.callback)
    <3>1. CASE i < Len(u.timers)
      <4>1. i + 1 \in 1 .. Len(u.timers)
        BY <3>1, SetupTypes
      <4> QED  BY <3>1, <4>1 DEF PostsFromIsr
    <3>2. CASE ~(i < Len(u.timers))
      BY <3>2 DEF NoTimerSetup
    <3> QED  BY <3>1, <3>2
  <2> HIDE DEF c
  <2>4. FreshTimer(c) \in TmrCtrl /\ FreshTimer(c).tmrCallBack = c.callback
    BY <2>2 DEF TimerSetup, TmrCtrl, FreshTimer
  <2> QED  BY <2>1, <2>3, <2>4
<1>5. r.TmrTbl \in [Timer -> TmrCtrl]
  <2>1. r.TmrTbl = [i \in Timer |-> r.TmrTbl[i]]
    BY DEF StartFields
  <2> QED  BY <1>4, <2>1
<1>6. r.nodes \in Seq(Task) /\ r.DlyList \in Seq(Task)
  BY EmptySeq DEF StartFields
<1>7. /\ r.app \in App /\ r.eventTCBList \in [Event -> Link]
      /\ r.eventID \in [Task -> Event \cup {NoEvent}]
      /\ r.waitNext \in [Task -> Link] /\ r.waitPrev \in [Task -> Link]
      /\ DOMAIN r.pmail = Task /\ DOMAIN r.eventPtr = Event
      /\ r.pnode \in [Task -> {"null", "node", "set"}]
      /\ r.delayTick \in [Task -> Nat \cup {NoDelay}]
      /\ r.TmrList \in Timer \cup {NoTimer}
      /\ DOMAIN r.cell = Cells /\ r.holds \in [Task -> SUBSET Event]
  BY DEF StartFields, Link
<1>8. Shape(r)
  BY <1>1, <1>2, <1>3, <1>5, <1>6, <1>7 DEF Shape
<1> QED  BY <1>4, <1>8 DEF CallBacksRight

LEMMA StartRings ==
  ASSUME NEW a \in App, NEW u, u = Setup[a], NEW r, StartFields(r, a, u), StartQueues(r, u)
  PROVE  RingsRight(r)
<1> DEFINE n       == Len(u.events)
           queues  == {e \in 0 .. n - 1 : u.events[e + 1].type = "queue"}
           of(e)   == QueueOf(u.events, e)
           the(q)  == CHOOSE e \in queues : of(e) = q
           used    == {of(e) : e \in queues}
           size(q) == IF q \in used THEN u.events[the(q) + 1].max ELSE 0
           id(q)   == IF q \in used THEN q ELSE 0
<1>1. /\ r.eventPtr = [e \in Event |-> IF e \in queues THEN of(e) ELSE NoMail]
      /\ r.QueueTbl = [q \in Queue |-> FreshQueue(id(q), size(q))]
  BY DEF StartQueues
<1>2. n \in 0 .. MaxEvent /\ MaxEvent \in Nat /\ MaxCell \in Nat
  BY SetupTypes, EventAssumption
<1>3. \A e \in queues : e \in Event /\ e < n /\ u.events[e + 1].type = "queue"
  <2> HIDE DEF n
  <2> QED  BY <1>2 DEF Event
<1>4. \A e \in queues : u.events[e + 1].max \in 1 .. MaxCell /\ of(e) \in Queue
  <2>1. \A e \in Event : e < n /\ u.events[e + 1].type = "queue" =>
          u.events[e + 1].max \in 1 .. MaxCell
    BY SetupTypes
  <2>2. \A e \in Event : e < n /\ u.events[e + 1].type = "queue" => of(e) \in Queue
    BY QueueNumbers
  <2> HIDE DEF n, of, queues
  <2> QED  BY <1>3, <2>1, <2>2
<1>5. ASSUME NEW q, q \in used PROVE the(q) \in queues
  <2>1. \E e \in queues : of(e) = q
    BY <1>5
  <2> HIDE DEF queues, of
  <2> QED  BY <2>1
<1>6. ASSUME NEW q PROVE size(q) \in 0 .. MaxCell /\ (q \in used => size(q) > 0)
  <2>1. q \in used => u.events[the(q) + 1].max \in 1 .. MaxCell
    BY <1>4, <1>5
  <2> HIDE DEF used, the
  <2> QED  BY <1>2, <2>1
<1>7. ASSUME NEW i, NEW m \in 0 .. MaxCell
      PROVE  RingRight(FreshQueue(i, m)) /\ FreshQueue(i, m).qMaxSize = m
  <2> DEFINE c == FreshQueue(i, m)
  <2>1. /\ DOMAIN c = {"id", "head", "tail", "qSize", "qMaxSize", "qStart"}
        /\ DOMAIN c.qStart = 0 .. MaxCell - 1
        /\ c.head = 0 /\ c.tail = 0 /\ c.qSize = 0 /\ c.qMaxSize = m
    BY DEF FreshQueue
  <2> HIDE DEF c
  <2>2. m > 0 => 0 \in 0 .. m - 1 /\ 0 = (0 + 0) % m
    BY <1>2
  <2> QED  BY <2>1, <2>2 DEF RingRight, c
<1> HIDE DEF size, id
<1>8. \A q \in Queue : RingRight(r.QueueTbl[q]) /\ r.QueueTbl[q].qMaxSize = size(q)
  BY <1>1, <1>6, <1>7
<1>9. ASSUME NEW e \in Event, r.eventType[e] = "queue" PROVE e \in queues
  <2>1. r.eventType[e] = IF e < n THEN u.events[e + 1].type ELSE "invalid"
    BY DEF StartFields
  <2>2. e < n /\ u.events[e + 1].type = "queue"
    BY <1>9, <2>1
  <2> HIDE DEF n
  <2>3. e \in 0 .. n - 1
    BY <1>2, <2>2 DEF Event
  <2> QED  BY <2>2, <2>3
<1>10. \A e \in queues : of(e) \in used
  OBVIOUS
<1>11. DOMAIN r.QueueTbl = Queue
  BY <1>1
<1> HIDE DEF queues, used, of
<1>12. \A e \in Event : r.eventType[e] = "queue" =>
         r.eventPtr[e] \in Queue /\ r.QueueTbl[r.eventPtr[e]].qMaxSize > 0
  BY <1>1, <1>4, <1>6, <1>8, <1>9, <1>10
<1> QED  BY <1>8, <1>11, <1>12 DEF RingsRight

LEMMA StartLists ==
  ASSUME NEW a \in App, NEW u, u = Setup[a], NEW r, StartFields(r, a, u)
  PROVE  ReadyRight(r) /\ DelaysRight(r) /\ NodesRight(r) /\ ChainsRight(r) /\ StatesRight(r, {})
<1>1. u.tasks \in 0 .. MaxTask /\ u.prio \in [Task -> Prio] /\ r.k = StartKernel(u.tasks, u.prio)
  BY SetupTypes DEF StartFields
<1>2. /\ Lists(r.k.TCBRdy, {t \in Task : r.k.state[t] = "READY"})
      /\ \A t \in Task : r.k.state[t] # "WAITING"
  <2>1. Started(r.k)
    BY <1>1, StartKernelFacts
  <2> QED  BY <2>1 DEF Started
<1>3. /\ r.nodes = <<>> /\ r.DlyList = <<>>
      /\ \A e \in Event : r.eventTCBList[e] = NoTask
      /\ \A t \in Task : /\ r.eventID[t] = NoEvent /\ r.pnode[t] = "null"
                         /\ r.waitNext[t] = NoTask /\ r.waitPrev[t] = NoTask
                         /\ r.delayTick[t] = NoDelay
  BY DEF StartFields
<1>4. ASSUME NEW S, \A t \in Task : t \notin S PROVE Lists(<<>>, S)
  BY <1>4 DEF Lists, IsInjective, Range
<1>5. DelaysRight(r) /\ NodesRight(r)
  <2>1. DelaysRight(r)
    BY <1>3, <1>4 DEF DelaysRight
  <2>2. NodesRight(r)
    BY <1>3, <1>4 DEF NodesRight
  <2> QED  BY <2>1, <2>2
<1>6. ASSUME NEW e \in Event PROVE Chained(r, e, <<>>) /\ <<>> \in Seq(Task)
  <2>1. e # NoEvent
    BY EventAssumption DEF Event, NoEvent
  <2>2. Lists(<<>>, {t \in Task : r.eventID[t] = e})
    BY <1>3, <1>4, <2>1
  <2> QED  BY <1>3, <2>2, EmptySeq DEF Chained
<1>7. ChainsRight(r)
  BY <1>3, <1>6 DEF ChainsRight
<1>8. StatesRight(r, {})
  BY <1>2, <1>3 DEF StatesRight, Waits
<1> QED  BY <1>2, <1>5, <1>7, <1>8 DEF ReadyRight

LEMMA StartPermits ==
  ASSUME NEW a \in App, NEW u, u = Setup[a], NEW r, StartFields(r, a, u), NEW id
  PROVE  PermitsRight(r, id) /\ (Disciplined => LocksKept(r))
<1> DEFINE n == Len(u.events)
<1>1. /\ r.app = a /\ \A t \in Task : r.pmail[t] = NoMail /\ r.holds[t] = {}
      /\ r.eventType = [e \in Event |-> IF e < n THEN u.events[e + 1].type ELSE "invalid"]
      /\ r.eventCounter = [e \in Event |-> IF e < n THEN u.events[e + 1].count ELSE 0]
      /\ r.initialEventCounter = [e \in Event |-> IF e < n THEN u.events[e + 1].max ELSE 0]
      /\ r.balance = [e \in Event |-> IF e < n THEN u.events[e + 1].count ELSE 0]
  BY DEF StartFields
<1>2. \A e \in Event : e < n =>
        /\ u.events[e + 1].count \in Nat /\ u.events[e + 1].max \in Nat
        /\ u.events[e + 1].max <= MaxCount /\ u.events[e + 1].count <= u.events[e + 1].max
  BY SetupTypes
<1>3. Woken # NoMail
  BY DEF Woken, NoMail
<1>4. Cardinality({}) = 0
  BY FS_EmptySet
<1>5. PermitsRight(r, id)
  <2> SUFFICES ASSUME NEW e \in Event, r.eventType[e] = "sem"
               PROVE  /\ r.eventCounter[e] <= r.initialEventCounter[e]
                      /\ r.initialEventCounter[e] <= MaxCount
                      /\ r.eventCounter[e] + Cardinality(Given(r, id, e)) = r.balance[e]
    BY DEF PermitsRight
  <2>1. e < n
    BY <1>1
  <2>2. Given(r, id, e) = {}
    BY <1>1, <1>3 DEF Given
  <2> DEFINE c == u.events[e + 1].count
  <2>3. r.eventCounter[e] = c /\ r.balance[e] = c /\ r.initialEventCounter[e] = u.events[e + 1].max
    BY <1>1, <2>1
  <2>4. c \in Nat
    BY <1>2, <2>1
  <2>5. c + Cardinality({}) = c
    <3> HIDE DEF c
    <3> QED  BY <1>4, <2>4
  <2> QED  BY <1>2, <2>1, <2>2, <2>3, <2>5
<1>6. ASSUME Disciplined PROVE LocksKept(r)
  <2>1. \A e \in Setup[a].locks : e < n /\ u.events[e + 1].type = "sem"
    BY <1>6 DEF Disciplined, LocksAreMade
  <2>2. Setup[a].locks \subseteq Event
    BY ThreadAssumption DEF AppSetup
  <2>3. ASSUME NEW e \in Setup[a].locks
        PROVE  /\ e \in Event /\ r.eventType[e] = "sem"
               /\ r.initialEventCounter[e] >= Setup[a].events[e + 1].count
               /\ r.balance[e] + Cardinality(Holders(r, e)) = Setup[a].events[e + 1].count
    <3>1. e \in Event /\ e < n /\ u.events[e + 1].type = "sem"
      BY <2>1, <2>2
    <3>2. Holders(r, e) = {}
      BY <1>1 DEF Holders
    <3> DEFINE c == u.events[e + 1].count
    <3>3. r.balance[e] = c /\ r.initialEventCounter[e] = u.events[e + 1].max
          /\ r.eventType[e] = "sem"
      BY <1>1, <3>1
    <3>4. c \in Nat /\ u.events[e + 1].max \in Nat /\ c <= u.events[e + 1].max
      BY <1>2, <3>1
    <3>5. c + Cardinality({}) = c
      <4> HIDE DEF c
      <4> QED  BY <1>4, <3>4
    <3>6. u.events[e + 1].max >= c
      <4> HIDE DEF c
      <4> QED  BY <3>4
    <3> QED  BY <3>1, <3>2, <3>3, <3>5, <3>6
  <2>4. \A t \in Task : r.holds[t] \subseteq Setup[a].locks
    BY <1>1
  <2> QED  BY <1>1, <2>3, <2>4 DEF LocksKept
<1> QED  BY <1>5, <1>6

LEMMA StartRight ==
  ASSUME NEW a \in App, NEW u, u = Setup[a], NEW r, r = StartSystem(a, u), NEW id
  PROVE  Right(r, id, {}) /\ StartFields(r, a, u) /\ (Disciplined => LocksKept(r))
<1>1. StartFields(r, a, u) /\ StartQueues(r, u)
  BY StartIs
<1>2. Shape(r) /\ CallBacksRight(r)
  BY <1>1, StartShape
<1>3. RingsRight(r)
  BY <1>1, StartRings
<1>4. ReadyRight(r) /\ DelaysRight(r) /\ NodesRight(r) /\ ChainsRight(r) /\ StatesRight(r, {})
  BY <1>1, StartLists
<1>5. PermitsRight(r, id) /\ (Disciplined => LocksKept(r))
  BY <1>1, StartPermits
<1>6. \A t \in Task : r.eventID[t] = NoEvent
  BY <1>1 DEF StartFields
<1>7. WaitersRight(r, id)
  BY <1>6 DEF WaitersRight
<1>8. RequestsRight(r)
  <2>1. r.head = 0 /\ r.cnt = 0
    BY <1>1 DEF StartFields
  <2>2. r.head \in Cells /\ r.cnt \in 0 .. SrqSize
    BY <2>1, EventAssumption DEF Cells
  <2>3. 0 .. r.cnt - 1 = {}
    BY <2>1
  <2> QED  BY <2>2, <2>3 DEF RequestsRight
<1> QED  BY <1>1, <1>2, <1>3, <1>4, <1>5, <1>7, <1>8 DEF Right

(* The threads at the start: the idle task releases the scheduler.         *)
LEMMA StartPlaces ==
  ASSUME Init
  PROVE  /\ DOMAIN pc = Context /\ Idle \in Task /\ Tmr \notin Task
         /\ pc[Tmr] = Rest("off") /\ pc[Idle] = [Rest("user") EXCEPT !.at = "unlock"]
         /\ \A t \in Task \ {Idle} : pc[t] = Rest("user")
<1>1. Idle \in Task /\ Tmr \notin Task /\ Idle \in Context /\ Tmr \in Context
  BY TmrApart, KernelAssumption DEF Idle, Task, Context
<1>2. pc = [c \in Context |-> CASE c = Tmr  -> Rest("off")
                                [] c = Idle -> [Rest("user") EXCEPT !.at = "unlock"]
                                [] OTHER    -> Rest("user")]
  BY DEF Init
<1>3. Tmr # Idle
  BY <1>1
<1> QED  BY <1>1, <1>2, <1>3, TmrApart

LEMMA InitRight ==
  ASSUME Init
  PROVE  SystemInv
<1>1. PICK a \in App : s = StartSystem(a, Setup[a])
  BY DEF Init
<1> DEFINE u == Setup[a]
<1>2. Right(s, Ids(pc), {}) /\ StartFields(s, a, u) /\ (Disciplined => LocksKept(s))
  BY <1>1, StartRight
<1>3. /\ DOMAIN pc = Context /\ Idle \in Task /\ Tmr \notin Task
      /\ pc[Tmr] = Rest("off") /\ pc[Idle] = [Rest("user") EXCEPT !.at = "unlock"]
      /\ \A t \in Task \ {Idle} : pc[t] = Rest("user")
  BY StartPlaces
<1>4. "off" \in At /\ "user" \in At /\ "unlock" \in At
  BY Strings
<1>5. /\ PlaceRight(Rest("off")) /\ PlaceRight(Rest("user"))
      /\ PlaceRight([Rest("user") EXCEPT !.at = "unlock"])
  BY <1>4 DEF PlaceRight, Rest
<1>6. /\ pc[Tmr].at = "off" /\ pc[Tmr].ret = "off"
      /\ pc[Idle].at = "unlock" /\ pc[Idle].ret = "user"
      /\ \A t \in Task \ {Idle} : pc[t].at = "user"
  BY <1>3 DEF Rest
<1>7. PlacesRight(pc)
  <2>1. \A c \in Context : c = Tmr \/ c \in Task
    BY DEF Context
  <2>2. \A c \in Context : PlaceRight(pc[c])
    BY <1>3, <1>5, <2>1
  <2> QED  BY <1>3, <1>6, <2>2 DEF PlacesRight
<1>8. HeldBy(pc[Idle]) = 1 /\ HeldBy(pc[Tmr]) = 0 /\ \A t \in Task \ {Idle} : HeldBy(pc[t]) = 0
  BY <1>6 DEF HeldBy, Carries, Opens, UnlockPlaces
<1>9. /\ \A t \in Task : s.k.state[t] = "RUNNING" <=> t = Idle
      /\ s.k.TCBRunning = Idle /\ s.k.TCBNext = Idle
      /\ s.k.OSSchedLock = 1 /\ s.k.OSIntNesting = 0 /\ s.k.PendSV = FALSE
  <2>1. u.tasks \in 0 .. MaxTask /\ u.prio \in [Task -> Prio]
        /\ s.k = StartKernel(u.tasks, u.prio)
    BY <1>2, SetupTypes DEF StartFields
  <2>2. Started(s.k)
    BY <2>1, StartKernelFacts
  <2> QED  BY <2>2 DEF Started
<1>10. LocksRight(s.k, pc)
  <2>1. HeldBy(pc[Idle]) + HeldBy(pc[Tmr]) = 1
    BY <1>8
  <2> QED  BY <1>6, <1>8, <1>9, <2>1 DEF LocksRight, UnlockPlaces
<1>11. RunningRight(s.k, pc)
  BY <1>3, <1>6, <1>9 DEF RunningRight, UnlockPlaces
<1>12. ASSUME NEW t \in Task
       PROVE  CallRight(s, pc[t], t) /\ PermitCall(s, pc[t], t)
  <2>1. s.eventID[t] = NoEvent /\ s.pnode[t] = "null" /\ s.pmail[t] = NoMail
    BY <1>2 DEF StartFields
  <2>2. Carries(pc[t]) = "user"
    BY <1>6 DEF Carries, UnlockPlaces
  <2> QED  BY <2>1, <2>2, CallEasy DEF Free, EasyPlaces
<1> QED  BY <1>2, <1>7, <1>10, <1>11, <1>12 DEF SystemInv, SystemRight

(* What the invariant says of the lists.                                   *)
LEMMA ListElements ==
  ASSUME NEW q \in Seq(Task), NEW S, S \subseteq Task, Lists(q, S)
  PROVE  IsInjective(q) /\ ElementsOf(q) = S
<1>1. Range(q) = ElementsOf(q)
  <2>1. DOMAIN q = 1 .. Len(q)
    BY LenProperties
  <2> QED  BY <2>1 DEF Range, ElementsOf
<1>2. Range(q) \subseteq Task
  <2>1. \A i \in 1 .. Len(q) : q[i] \in Task
    BY ElementOfSeq
  <2> QED  BY <1>1, <2>1 DEF ElementsOf
<1>3. Range(q) = S
  BY <1>2 DEF Lists
<1> QED  BY <1>1, <1>3 DEF Lists

LEMMA WaitListsHold ==
  ASSUME SystemInv, NEW e \in Event
  PROVE  WaitListSound(e)
<1>1. PICK q \in Seq(Task) : Chained(s, e, q)
  BY DEF SystemInv, SystemRight, Right, ChainsRight
<1>2. WaitList(s, e) = q
  BY <1>1, LinkedIs
<1> DEFINE S == {t \in Task : s.eventID[t] = e}
<1>3. IsInjective(q) /\ ElementsOf(q) = S
  <2>1. S \subseteq Task /\ Lists(q, S)
    BY <1>1 DEF Chained
  <2> HIDE DEF S
  <2> QED  BY <2>1, ListElements
<1>4. \A i \in 1 .. Len(q) : s.waitPrev[q[i]] = (IF i = 1 THEN NoTask ELSE q[i - 1])
  <2>1. \A i \in 1 .. Len(q) : s.waitPrev[q[i]] = (IF i > 1 THEN q[i - 1] ELSE NoTask)
    BY <1>1 DEF Chained
  <2>2. Len(q) \in Nat
    BY LenProperties
  <2>3. \A i \in 1 .. Len(q) : i > 1 <=> i # 1
    BY <2>2
  <2> QED  BY <2>1, <2>3
<1>5. s.eventSortType[e] = "prio" =>
        \A i, j \in 1 .. Len(q) : i < j => s.k.prio[q[i]] <= s.k.prio[q[j]]
  BY <1>1 DEF Chained
<1> QED  BY <1>2, <1>3, <1>4, <1>5 DEF WaitListSound

LEMMA ListsHold ==
  ASSUME SystemInv
  PROVE  ListsSound
<1>1. /\ Shape(s) /\ ReadyRight(s) /\ DelaysRight(s) /\ NodesRight(s) /\ ChainsRight(s)
      /\ StatesRight(s, {}) /\ WaitersRight(s, Ids(pc))
  BY DEF SystemInv, SystemRight, Right
<1>2. s.k.TCBRdy \in Seq(Task) /\ s.DlyList \in Seq(Task) /\ s.nodes \in Seq(Task)
  BY <1>1 DEF Shape, Kernel
<1>3. IsInjective(s.k.TCBRdy) /\ ElementsOf(s.k.TCBRdy) = {t \in Task : s.k.state[t] = "READY"}
  <2> DEFINE S == {t \in Task : s.k.state[t] = "READY"}
  <2>1. S \subseteq Task /\ Lists(s.k.TCBRdy, S)
    BY <1>1 DEF ReadyRight
  <2> HIDE DEF S
  <2>2. IsInjective(s.k.TCBRdy) /\ ElementsOf(s.k.TCBRdy) = S
    BY <1>2, <2>1, ListElements
  <2> QED  BY <2>2 DEF S
<1>4. IsInjective(s.DlyList) /\ ElementsOf(s.DlyList) = {t \in Task : s.delayTick[t] # NoDelay}
  <2> DEFINE S == {t \in Task : s.delayTick[t] # NoDelay}
  <2>1. S \subseteq Task /\ Lists(s.DlyList, S)
    BY <1>1 DEF DelaysRight
  <2> HIDE DEF S
  <2>2. IsInjective(s.DlyList) /\ ElementsOf(s.DlyList) = S
    BY <1>2, <2>1, ListElements
  <2> QED  BY <2>2 DEF S
<1>5. IsInjective(s.nodes) /\ ElementsOf(s.nodes) = {t \in Task : s.pnode[t] = "node"}
  <2> DEFINE S == {t \in Task : s.pnode[t] = "node"}
  <2>1. S \subseteq Task /\ Lists(s.nodes, S)
    BY <1>1 DEF NodesRight
  <2> HIDE DEF S
  <2>2. IsInjective(s.nodes) /\ ElementsOf(s.nodes) = S
    BY <1>2, <2>1, ListElements
  <2> QED  BY <2>2 DEF S
<1>6. \A e \in Event : s.eventType[e] # "invalid" => WaitListSound(e)
  BY WaitListsHold
<1>7. \A t \in Task :
        IF s.eventID[t] = NoEvent THEN s.waitNext[t] = NoTask /\ s.waitPrev[t] = NoTask
                                  ELSE s.eventType[s.eventID[t]] # "invalid"
  BY <1>1 DEF ChainsRight, WaitersRight
<1>8. QueuesSound
  BY <1>3, <1>4, <1>5, <1>6, <1>7 DEF QueuesSound
<1>9. \A t \in Task :
        s.eventID[t] # NoEvent \/ s.delayTick[t] # NoDelay \/ s.pnode[t] = "node"
          <=> s.k.state[t] = "WAITING"
  BY <1>1 DEF StatesRight, Waits
<1> QED  BY <1>8, <1>9 DEF ListsSound

LEMMA WaitsHold ==
  ASSUME SystemInv
  PROVE  WaitsDecided
<1> SUFFICES ASSUME NEW t \in Task
             PROVE  /\ Runs(t, "woken") => s.pmail[t] # NoMail \/ Calls[s.app].delete # {}
                    /\ Runs(t, "flagged") => s.pnode[t] = "set"
                    /\ \A at \in {"user", "woken", "timed", "flagged", "flagtimed"} :
                         Runs(t, at) =>
                           /\ s.k.state[t] = "RUNNING"
                           /\ s.delayTick[t] = NoDelay /\ s.eventID[t] = NoEvent
                           /\ s.pnode[t] # "node"
  BY DEF WaitsDecided
<1>1. ASSUME NEW at \in {"woken", "timed", "flagged", "flagtimed"}, Runs(t, at)
      PROVE  /\ s.k.state[t] = "RUNNING"
             /\ s.delayTick[t] = NoDelay /\ s.eventID[t] = NoEvent /\ s.pnode[t] # "node"
             /\ Carries(pc[t]) = at /\ CallRight(s, pc[t], t)
  <2>1. at \notin {"user"} \cup UnlockPlaces
    BY DEF UnlockPlaces
  <2> QED  BY <1>1, <2>1, AtPlace
<1>2. ASSUME Runs(t, "user")
      PROVE  /\ s.k.state[t] = "RUNNING"
             /\ s.delayTick[t] = NoDelay /\ s.eventID[t] = NoEvent /\ s.pnode[t] # "node"
  BY <1>2, AtUser DEF Free
<1>3. ASSUME Runs(t, "woken") PROVE s.pmail[t] # NoMail
  <2>1. s.eventID[t] = NoEvent /\ Carries(pc[t]) = "woken" /\ CallRight(s, pc[t], t)
    BY <1>1, <1>3
  <2> QED  BY <2>1 DEF CallRight
<1>4. ASSUME Runs(t, "flagged") PROVE s.pnode[t] = "set"
  <2>1. s.pnode[t] # "node" /\ Carries(pc[t]) = "flagged" /\ CallRight(s, pc[t], t)
    BY <1>1, <1>4
  <2>2. s.pnode[t] # "null"
    BY <2>1 DEF CallRight
  <2>3. s.pnode[t] \in {"null", "node", "set"}
    BY DEF SystemInv, SystemRight, Right, Shape
  <2> QED  BY <2>1, <2>2, <2>3
<1> QED  BY <1>1, <1>2, <1>3, <1>4

(* What it says of semaphores.                                             *)
LEMMA PermitsHold ==
  ASSUME SystemInv, Disciplined
  PROVE  PermitsConserved /\ CounterInRange
<1>1. PermitsRight(s, Ids(pc))
  BY DEF SystemInv, SystemRight, Right
<1>2. ASSUME NEW e \in Event, s.eventType[e] = "sem"
      PROVE  /\ s.eventCounter[e] + Cardinality({t \in Task : s.pmail[t] = Woken /\ pc[t].id = e})
                  = s.balance[e]
             /\ s.eventCounter[e] <= s.initialEventCounter[e]
  <2>1. Given(s, Ids(pc), e) = {t \in Task : s.pmail[t] = Woken /\ pc[t].id = e}
    BY DEF Given, Ids
  <2>2. /\ s.eventCounter[e] + Cardinality(Given(s, Ids(pc), e)) = s.balance[e]
        /\ s.eventCounter[e] <= s.initialEventCounter[e]
    BY <1>1, <1>2 DEF PermitsRight
  <2> QED  BY <2>1, <2>2
<1> QED  BY <1>2 DEF PermitsConserved, CounterInRange

LEMMA LocksHold ==
  ASSUME SystemInv, Disciplined
  PROVE  Exclusion
<1> SUFFICES ASSUME NEW e \in Setup[s.app].locks
             PROVE  Cardinality({t \in Task : e \in s.holds[t]})
                      <= Setup[s.app].events[e + 1].count
  BY DEF Exclusion
<1> DEFINE n == Setup[s.app].events[e + 1].count
           h == Cardinality(Holders(s, e))
           g == Cardinality(Given(s, Ids(pc), e))
<1>1. /\ e \in Event /\ s.eventType[e] = "sem" /\ s.balance[e] + h = n
  BY DEF SystemInv, SystemRight, LocksKept
<1>2. s.eventCounter[e] + g = s.balance[e] /\ s.eventCounter[e] \in Nat
  BY <1>1 DEF SystemInv, SystemRight, Right, PermitsRight, Shape
<1>3. h \in Nat /\ g \in Nat
  <2>1. /\ IsFiniteSet(Holders(s, e)) /\ IsFiniteSet(Given(s, Ids(pc), e))
    BY TaskFinite, FS_Subset DEF Holders, Given
  <2> QED  BY <2>1, FS_CardinalityType
<1>4. Holders(s, e) = {t \in Task : e \in s.holds[t]}
  BY DEF Holders
<1> HIDE DEF n, h, g
<1>5. h <= n
  BY <1>1, <1>2, <1>3
<1> QED  BY <1>4, <1>5 DEF n, h

-----------------------------------------------------------------------------
(* The invariant of the services holds in every application that creates   *)
(* its events in main() and renews delays as RenewRules says.              *)
THEOREM ServicesStayRight ==
  ASSUME StaticEvents, RenewRules
  PROVE  Spec => []SystemInv
<1>1. Init => SystemInv
  BY InitRight
<1>2. SystemInv /\ [Next]_vars => SystemInv'
  BY NextKeeps
<1> QED  BY <1>1, <1>2, PTL DEF Spec

(* The READY list, the delay list, the waiting list of every event and the *)
(* list of flag nodes hold exactly the tasks whose control blocks say so,  *)
(* each once, linked both ways; and a task waits if and only if it is in   *)
(* one of the last three.                                                  *)
THEOREM ListsStaySound ==
  ASSUME StaticEvents, RenewRules
  PROVE  Spec => []ListsSound
<1>1. Spec => []SystemInv
  BY ServicesStayRight
<1>2. SystemInv => ListsSound
  BY ListsHold
<1> QED  BY <1>1, <1>2, PTL

(* A blocking service goes on only when its wait is decided: what ended    *)
(* the wait has taken the task out of every list, and a call that is told  *)
(* that it was posted to has its mail, permit or flags.                    *)
THEOREM WaitsAreDecided ==
  ASSUME StaticEvents, RenewRules
  PROVE  Spec => []WaitsDecided
<1>1. Spec => []SystemInv
  BY ServicesStayRight
<1>2. SystemInv => WaitsDecided
  BY WaitsHold
<1> QED  BY <1>1, <1>2, PTL

(* If a semaphore that is no lock has one poster, one that is accepted has *)
(* one user, and a lock is made by main() and posted by no interrupt, then *)
(* no permit is lost or made up, and no counter exceeds the maximum that   *)
(* CoCreateSem() was given.                                                *)
THEOREM PermitsStayConserved ==
  ASSUME StaticEvents, RenewRules, Disciplined
  PROVE  Spec => [](PermitsConserved /\ CounterInRange)
<1>1. Spec => []SystemInv
  BY ServicesStayRight
<1>2. SystemInv => PermitsConserved /\ CounterInRange
  BY PermitsHold
<1> QED  BY <1>1, <1>2, PTL

(* Under the same rules no more tasks hold a semaphore that is used as a   *)
(* lock than it was created with permits.                                  *)
THEOREM LocksExclude ==
  ASSUME StaticEvents, RenewRules, Disciplined
  PROVE  Spec => []Exclusion
<1>1. Spec => []SystemInv
  BY ServicesStayRight
<1>2. SystemInv => Exclusion
  BY LocksHold
<1> QED  BY <1>1, <1>2, PTL

-----------------------------------------------------------------------------
(* The requests of interrupts.  Most operators leave the ring alone.       *)
Still(r, r2) == DOMAIN r = Fields => DOMAIN r2 = Fields /\ SameRing(r, r2)

LEMMA StillAgain ==
  ASSUME NEW r, NEW r2, NEW r3, Still(r, r2), Still(r2, r3)
  PROVE  Still(r, r3)
BY DEF Still, SameRing

LEMMA StillNone ==
  ASSUME NEW r
  PROVE  Still(r, r)
BY DEF Still, SameRing

LEMMA StillKernel ==
  ASSUME NEW r, NEW k2
  PROVE  Still(r, [r EXCEPT !.k = k2])
BY DEF Still, SameRing, Fields

LEMMA StillHolds ==
  ASSUME NEW r, NEW t, NEW v
  PROVE  Still(r, [r EXCEPT !.holds[t] = v])
BY DEF Still, SameRing, Fields

LEMMA StillLock ==
  ASSUME NEW r
  PROVE  Still(r, Lock(r))
BY DEF Still, SameRing, Fields, Lock

LEMMA StillWake ==
  ASSUME NEW r, NEW t
  PROVE  Still(r, Wake(r, t))
<1>1. Still(r, InsertReady(r, t))
  BY DEF Still, SameRing, Fields, InsertReady
<1>2. Still(r, [r EXCEPT !.k.state[t] = "RUNNING"])
  BY DEF Still, SameRing, Fields
<1> QED  BY <1>1, <1>2 DEF Wake

LEMMA StillReady ==
  ASSUME NEW r, NEW t
  PROVE  Still(r, InsertReady(r, t))
BY DEF Still, SameRing, Fields, InsertReady

LEMMA StillDelayRemoved ==
  ASSUME NEW r, NEW t
  PROVE  Still(r, RemoveDelayList(r, t)) /\ Still(r, EndDelay(r, t))
<1>1. Still(r, RemoveDelayList(r, t))
  BY DEF Still, SameRing, Fields, RemoveDelayList
<1> QED  BY <1>1, StillNone DEF EndDelay

LEMMA StillDelayInserted ==
  ASSUME NEW r, NEW t, NEW ticks
  PROVE  Still(r, InsertDelayList(r, t, ticks))
<1>1. CASE ticks = 0
  BY <1>1, StillNone DEF InsertDelayList
<1>2. CASE ticks # 0
  BY <1>2, DelaysAre DEF Still, SameRing, Only, Fields
<1> QED  BY <1>1, <1>2

LEMMA StillWaits ==
  ASSUME NEW r, NEW e, NEW t
  PROVE  Still(r, EventTaskToWait(r, e, t))
BY DEF Still, SameRing, Fields, EventTaskToWait

LEMMA StillFirst ==
  ASSUME NEW r, NEW e
  PROVE  Still(r, TakeFirst(r, e))
BY DEF Still, SameRing, Fields, TakeFirst

LEMMA StillGive ==
  ASSUME NEW r, NEW e, NEW t
  PROVE  Still(r, Give(r, e, t))
<1>1. Still(r, GivePermit(r, e, t))
  BY DEF Still, SameRing, Fields, GivePermit
<1>2. Still(r, GiveMail(r, e, t))
  BY DEF Still, SameRing, Fields, GiveMail
<1>3. Still(r, GiveOldest(r, e, t))
  BY DEF Still, SameRing, Fields, GiveOldest, Dequeue
<1>4. Give(r, e, t) \in {GivePermit(r, e, t), GiveMail(r, e, t), GiveOldest(r, e, t), r}
  BY DEF Give
<1> QED  BY <1>1, <1>2, <1>3, <1>4, StillNone

LEMMA StillFirstReady ==
  ASSUME NEW r, NEW e
  PROVE  Still(r, EventTaskToRdy(r, e))
<1> DEFINE t  == r.eventTCBList[e]
           r1 == TakeFirst(r, e)
           r2 == EndDelay(r1, t)
           r3 == Give(r2, e, t)
<1>1. Still(r, r1)  BY StillFirst
<1>2. Still(r1, r2)  BY StillDelayRemoved
<1>3. Still(r2, r3)  BY StillGive
<1>4. Still(r3, Wake(r3, t))  BY StillWake
<1>5. EventTaskToRdy(r, e) = IF t = NoTask THEN r ELSE Wake(r3, t)
  BY DEF EventTaskToRdy
<1> HIDE DEF t, r1, r2, r3
<1>6. Still(r, Wake(r3, t))
  BY <1>1, <1>2, <1>3, <1>4, StillAgain
<1> QED  BY <1>5, <1>6, StillNone

LEMMA StillPost ==
  ASSUME NEW r, NEW e, NEW m
  PROVE  r.eventType[e] \in {"sem", "mbox", "queue"} => Still(r, Post(r, e, m))
<1>1. Still(r, PostSem(r, e))
  <2> DEFINE r1 == [r EXCEPT !.eventCounter = [@ EXCEPT ![e] = Wrap(r.eventCounter[e] + 1)],
                             !.balance      = [@ EXCEPT ![e] = r.balance[e] + 1]]
  <2>1. Still(r, r1)
    BY DEF Still, SameRing, Fields
  <2>2. PostSem(r, e) = EventTaskToRdy(r1, e)
    BY DEF PostSem
  <2> HIDE DEF r1
  <2> QED  BY <2>1, <2>2, StillFirstReady, StillAgain
<1>2. Still(r, PostMail(r, e, m))
  <2> DEFINE r1 == [r EXCEPT !.eventPtr     = [@ EXCEPT ![e] = m],
                             !.eventCounter = [@ EXCEPT ![e] = 1],
                             !.out          = @ \cup {m}]
  <2>1. Still(r, r1)
    BY DEF Still, SameRing, Fields
  <2>2. PostMail(r, e, m) = EventTaskToRdy(r1, e)
    BY DEF PostMail
  <2> HIDE DEF r1
  <2> QED  BY <2>1, <2>2, StillFirstReady, StillAgain
<1>3. Still(r, PostQueueMail(r, e, m))
  <2> DEFINE r1 == [Enqueue(r, e, m) EXCEPT !.out = @ \cup {m}]
  <2>1. Still(r, Enqueue(r, e, m))
    BY DEF Still, SameRing, Fields, Enqueue
  <2>2. Still(Enqueue(r, e, m), r1)
    BY DEF Still, SameRing, Fields
  <2>3. PostQueueMail(r, e, m) = EventTaskToRdy(r1, e)
    BY DEF PostQueueMail
  <2> HIDE DEF r1
  <2> QED  BY <2>1, <2>2, <2>3, StillFirstReady, StillAgain
<1> QED  BY <1>1, <1>2, <1>3 DEF Post

(* The actions.  What none of them but an interrupt and OsSchedUnlock()    *)
(* does to the ring.                                                       *)
LEMMA StillReceived ==
  ASSUME NEW r, NEW t, NEW e
  PROVE  Still(r, Received(r, t, e)) /\ Still(r, Reported(r, t, e))
<1>1. \A r1 : Still(r1, Received(r1, t, e))
  BY DEF Still, SameRing, Fields, Received
<1>2. Still(r, [r EXCEPT !.pmail = [@ EXCEPT ![t] = Woken]])
  BY DEF Still, SameRing, Fields
<1>3. Still(r, Reported(r, t, e))
  BY <1>1, <1>2, StillAgain DEF Reported
<1> QED  BY <1>1, <1>3

LEMMA StillMail ==
  ASSUME NEW r, NEW e
  PROVE  Still(r, TakeMail(r, e)) /\ Still(r, TakeOldest(r, e))
<1>1. Still(r, TakeMail(r, e))
  BY DEF Still, SameRing, Fields, TakeMail
<1>2. Still(r, Dequeue(r, e))
  BY DEF Still, SameRing, Fields, Dequeue
<1>3. Still(Dequeue(r, e), TakeOldest(r, e))
  BY DEF Still, SameRing, Fields, TakeOldest
<1> QED  BY <1>1, <1>2, <1>3, StillAgain

LEMMA StillFlags ==
  ASSUME NEW r, NEW flags
  PROVE  Still(r, Reset(r, flags))
BY DEF Still, SameRing, Fields, Reset

LEMMA StillNode ==
  ASSUME NEW r, NEW t
  PROVE  Still(r, NodeGone(r, t))
BY DEF Still, SameRing, Fields, NodeGone

LEMMA StillFlagWait ==
  ASSUME NEW r, NEW t, NEW flags, NEW type, NEW ticks
  PROVE  Still(r, FlagWait(r, t, flags, type, ticks))
<1> DEFINE r1 == FlagBlock(r, t, flags, type)
<1>1. Still(r, r1)
  BY DEF Still, SameRing, Fields, FlagBlock
<1>2. Still(r1, [r1 EXCEPT !.k = RequestSchedule([@ EXCEPT !.state[t] = "WAITING"])])
  BY DEF Still, SameRing, Fields
<1>3. Still(r1, InsertDelayList(r1, t, ticks))
  BY StillDelayInserted
<1>4. FlagWait(r, t, flags, type, ticks) \in
        {[r1 EXCEPT !.k = RequestSchedule([@ EXCEPT !.state[t] = "WAITING"])],
         InsertDelayList(r1, t, ticks)}
  BY DEF FlagWait
<1> HIDE DEF r1
<1> QED  BY <1>1, <1>2, <1>3, <1>4, StillAgain

LEMMA StillTimerRemoved ==
  ASSUME NEW r, NEW i
  PROVE  Still(r, RemoveTmrList(r, i))
BY DEF Still, SameRing, Fields, RemoveTmrList

LEMMA StillTimerInserted ==
  ASSUME NEW r, Timed(r), NEW i \in Timer
  PROVE  Still(r, InsertTmrList(r, i))
<1>1. Only(r, InsertTmrList(r, i), {"TmrTbl", "TmrList"})
  BY TimerInserted DEF TimersMoved
<1> QED  BY <1>1 DEF Still, SameRing, Only, Fields

(* What a task does when it runs. *)
LEMMA StillSem ==
  ASSUME SystemInv, NEW t \in Task
  PROVE  /\ EventFinish(t) => Still(s, s')
         /\ SemFinish(t) => Still(s, s')
         /\ SemCall(t) => Still(s, s')
<1>1. Still(s, s) /\ Still(s, Lock(s))
  BY StillNone, StillLock
<1>2. ASSUME PendBlocks(t) PROVE Still(s, s')
  <2>1. s' = InsertDelayList(EventTaskToWait(Lock(s), pc[t].id, t), t, pc[t].ticks)
    BY <1>2 DEF PendBlocks
  <2> QED  BY <1>1, <2>1, StillWaits, StillDelayInserted, StillAgain
<1>3. ASSUME PendReturns(t) PROVE Still(s, s')
  BY <1>3, StillReceived DEF PendReturns
<1>4. ASSUME PendTimesOut(t) PROVE Still(s, s')
  BY <1>1, <1>4 DEF PendTimesOut
<1>5. ASSUME PostStores(t) PROVE Still(s, s')
  <2> DEFINE e == pc[t].id
             r1 == Lock(s)
             r2 == Post(r1, e, pc[t].val)
  <2>1. s' = [r2 EXCEPT !.holds[t] = @ \ {e}] /\ Runs(t, "post")
    BY <1>5 DEF PostStores
  <2>2. Carries(pc[t]) = "post" /\ CallRight(s, pc[t], t)
    BY <2>1, AtPlace DEF UnlockPlaces
  <2>3. e \in Event /\ s.eventType[e] # "invalid" /\ s.eventType \in [Event -> EventType]
    BY <2>2 DEF CallRight, SystemInv, SystemRight, Right, Shape
  <2>4. r1.eventType[e] \in {"sem", "mbox", "queue"}
    BY <2>3 DEF Lock, EventType
  <2>5. Still(r1, r2) /\ Still(r2, [r2 EXCEPT !.holds[t] = @ \ {e}])
    BY <2>4, StillPost, StillHolds
  <2> HIDE DEF r1, r2
  <2>6. Still(s, r1)
    BY StillLock DEF r1
  <2> QED  BY <2>1, <2>5, <2>6, StillAgain
<1>6. ASSUME AcceptLoads(t) PROVE Still(s, s')
  BY <1>1, <1>6 DEF AcceptLoads
<1>7. ASSUME AcceptStores(t) PROVE Still(s, s')
  <2> DEFINE r1 == [s EXCEPT !.eventCounter = [@ EXCEPT ![pc[t].id] = Wrap(pc[t].val - 1)]]
  <2>1. s' = Reported(r1, t, pc[t].id)
    BY <1>7 DEF AcceptStores
  <2>2. Still(s, r1)
    BY DEF Still, SameRing, Fields
  <2> HIDE DEF r1
  <2> QED  BY <2>1, <2>2, StillReceived, StillAgain
<1>8. ASSUME NEW e, NEW ticks, CoPendSem(t, e, ticks) PROVE Still(s, s')
  <2> DEFINE r1 == Lock(s)
             r2 == [r1 EXCEPT !.eventCounter[e] = @ - 1]
  <2>1. s' \in {r1, Reported(r2, t, e)}
    BY <1>8 DEF CoPendSem, Pend
  <2>2. Still(r1, r2)
    BY DEF Still, SameRing, Fields
  <2>3. Still(r2, Reported(r2, t, e)) /\ Still(s, r1)
    BY <1>1, StillReceived
  <2> HIDE DEF r1, r2
  <2> QED  BY <2>1, <2>2, <2>3, StillAgain
<1>9. ASSUME NEW e, CoPostSem(t, e) PROVE Still(s, s')
  BY <1>1, <1>9 DEF CoPostSem, PostTested
<1>10. ASSUME NEW e, CoAcceptSem(t, e) PROVE Still(s, s')
  BY <1>1, <1>10 DEF CoAcceptSem
<1> QED  BY <1>2, <1>3, <1>4, <1>5, <1>6, <1>7, <1>8, <1>9, <1>10
      DEF EventFinish, SemFinish, SemCall

LEMMA StillMailCall ==
  ASSUME NEW t \in Task, MailCall(t)
  PROVE  Still(s, s')
<1>1. Still(s, s) /\ Still(s, Lock(s))
  BY StillNone, StillLock
<1>2. \A e : Still(s, TakeMail(Lock(s), e)) /\ Still(s, TakeOldest(Lock(s), e))
  BY <1>1, StillMail, StillAgain
<1>3. ASSUME NEW e, NEW ticks, CoPendMail(t, e, ticks) \/ CoPendQueueMail(t, e, ticks)
      PROVE  Still(s, s')
  BY <1>1, <1>2, <1>3 DEF CoPendMail, CoPendQueueMail, Pend
<1>4. ASSUME NEW e, NEW m, CoPostMail(t, e, m) \/ CoPostQueueMail(t, e, m)
      PROVE  Still(s, s')
  BY <1>1, <1>4 DEF CoPostMail, CoPostQueueMail, PostTested
<1>5. ASSUME NEW e, CoAcceptMail(t, e) \/ CoAcceptQueueMail(t, e)
      PROVE  Still(s, s')
  BY <1>1, <1>2, <1>5 DEF CoAcceptMail, CoAcceptQueueMail
<1> QED  BY <1>3, <1>4, <1>5 DEF MailCall

LEMMA StillDelay ==
  ASSUME NEW t \in Task
  PROVE  /\ DelayFinish(t) => Still(s, s')
         /\ DelayCall(t) => Still(s, s')
<1>1. Still(s, s) /\ Still(s, Lock(s))
  BY StillNone, StillLock
<1>2. \A u, ticks : Still(s, InsertDelayList(Lock(s), u, ticks))
  BY <1>1, StillDelayInserted, StillAgain
<1>3. ASSUME CoResetTaskDelayTick(t) PROVE Still(s, s')
  <2> DEFINE u == pc[t].id
             r1 == RemoveDelayList(Lock(s), u)
  <2>1. s' \in {s, InsertReady(r1, u), InsertDelayList(r1, u, pc[t].ticks)}
    BY <1>3 DEF CoResetTaskDelayTick
  <2>2. Still(s, r1)
    BY <1>1, StillDelayRemoved, StillAgain
  <2> HIDE DEF u, r1
  <2>3. Still(r1, InsertReady(r1, u)) /\ Still(r1, InsertDelayList(r1, u, pc[t].ticks))
    BY StillReady, StillDelayInserted
  <2> QED  BY <1>1, <2>1, <2>2, <2>3, StillAgain
<1>4. ASSUME LeavesSection(t) PROVE Still(s, s')
  BY <1>1, <1>4 DEF LeavesSection
<1>5. ASSUME NEW ticks, CoTickDelay(t, ticks) PROVE Still(s, s')
  BY <1>2, <1>5 DEF CoTickDelay
<1>6. ASSUME NEW u, NEW ticks, EntersSection(t, u, ticks) PROVE Still(s, s')
  BY <1>1, <1>6 DEF EntersSection
<1> QED  BY <1>3, <1>4, <1>5, <1>6 DEF DelayFinish, DelayCall

(* Those that wait for flags: walks, with the lists they go along.         *)
LEMMA LockRight ==
  ASSUME SystemInv
  PROVE  Right(Lock(s), Ids(pc), {})
BY LockIs DEF SystemInv, SystemRight

LEMMA StillServed ==
  ASSUME NEW r, NEW r2, NEW id, NEW id2, Right(r, id, {}), Right(r2, id2, {}), Serves(r, r2, {})
  PROVE  Still(r, r2)
BY DEF Still, Serves, RingServed, Right, Shape

LEMMA StillFlag ==
  ASSUME SystemInv, NEW t \in Task
  PROVE  /\ FlagFinish(t) => Still(s, s')
         /\ FlagCall(t) => Still(s, s')
<1>1. Still(s, s) /\ Still(s, Lock(s))
  BY StillNone, StillLock
<1>2. Right(Lock(s), Ids(pc), {})
  BY LockRight
<1>3. \A flags : Still(s, Reset(Lock(s), flags))
  BY <1>1, StillFlags, StillAgain
<1>4. ASSUME FlagReturns(t) PROVE Still(s, s')
  <2>1. s' = Reset(NodeGone(Lock(s), t), pc[t].flags \cap s.flagRdy)
    BY <1>4 DEF FlagReturns
  <2> QED  BY <1>1, <2>1, StillNode, StillFlags, StillAgain
<1>5. ASSUME FlagTimesOut(t) PROVE Still(s, s')
  BY <1>5, StillNode DEF FlagTimesOut
<1>6. ASSUME AcceptTakes(t) PROVE Still(s, s')
  BY <1>3, <1>6 DEF AcceptTakes
<1>7. ASSUME SetLoads(t) PROVE Still(s, s')
  BY <1>1, <1>7 DEF SetLoads
<1>8. ASSUME SetStores(t) PROVE Still(s, s')
  BY <1>8 DEF SetStores, Still, SameRing, Fields
<1>9. ASSUME SetWalks(t) PROVE Still(s, s')
  <2>1. s' = WakeSatisfied(Lock(s), pc[t].id)
    BY <1>9 DEF SetWalks
  <2>2. Right(s', Ids(pc), {}) /\ Serves(Lock(s), s', {})
    BY <1>2, <2>1, SatisfiedWoken
  <2> QED  BY <1>1, <1>2, <2>2, StillServed, StillAgain
<1>10. ASSUME ClearStores(t) PROVE Still(s, s')
  BY <1>10 DEF ClearStores, Still, SameRing, Fields
<1>11. ASSUME NEW flags, NEW type, NEW ticks, CoWaitForFlags(t, flags, type, ticks)
       PROVE  Still(s, s')
  <2>1. Still(s, FlagWait(Lock(s), t, flags, type, ticks))
    BY <1>1, StillFlagWait, StillAgain
  <2> QED  BY <1>3, <1>11, <2>1 DEF CoWaitForFlags
<1>12. ASSUME NEW flags, NEW type, CoAcceptFlags(t, flags, type) PROVE Still(s, s')
  BY <1>1, <1>12 DEF CoAcceptFlags
<1>13. ASSUME NEW f, CoSetFlag(t, f) PROVE Still(s, s')
  BY <1>1, <1>13 DEF CoSetFlag
<1>14. ASSUME NEW f, CoClearFlag(t, f) PROVE Still(s, s')
  BY <1>1, <1>14 DEF CoClearFlag
<1>15. ASSUME NEW auto, NEW set, CoCreateFlag(t, auto, set) PROVE Still(s, s')
  <2> DEFINE r1 == Lock(s)
  <2>1. s' = r1 \/ \E a, b, c : s' = [r1 EXCEPT !.flagActive = a, !.flagRdy = b, !.resetOpt = c]
    BY <1>15 DEF CoCreateFlag
  <2> HIDE DEF r1
  <2>2. \A a, b, c : Still(r1, [r1 EXCEPT !.flagActive = a, !.flagRdy = b, !.resetOpt = c])
    BY DEF Still, SameRing, Fields
  <2>3. Still(s, r1)
    BY <1>1 DEF r1
  <2> QED  BY <2>1, <2>2, <2>3, StillAgain
<1>16. ASSUME NEW f, NEW opt, CoDelFlag(t, f, opt) PROVE Still(s, s')
  <2>1. s' \in {Lock(s), Deleted(Lock(s), f)}
    BY <1>16 DEF CoDelFlag
  <2>2. Right(Deleted(Lock(s), f), Ids(pc), {}) /\ Serves(Lock(s), Deleted(Lock(s), f), {})
    BY <1>2, FlagDeleted
  <2>3. Still(s, Deleted(Lock(s), f))
    BY <1>1, <1>2, <2>2, StillServed, StillAgain
  <2> QED  BY <1>1, <2>1, <2>3
<1>17. FlagFinish(t) => Still(s, s')
  BY <1>4, <1>5, <1>6, <1>7, <1>8, <1>9, <1>10 DEF FlagFinish
<1> QED  BY <1>11, <1>12, <1>13, <1>14, <1>15, <1>16, <1>17 DEF FlagCall

LEMMA StillTimer ==
  ASSUME SystemInv, NEW t \in Task
  PROVE  /\ TimerFinish(t) => Still(s, s')
         /\ TimerCall(t) => Still(s, s')
<1>1. Still(s, s) /\ Still(s, Lock(s))
  BY StillNone, StillLock
<1>2. ASSUME TimerInserts(t) PROVE Still(s, s')
  <2>1. s' = InsertTmrList(Lock(s), pc[t].id) /\ Runs(t, "insert")
    BY <1>2 DEF TimerInserts
  <2>2. Carries(pc[t]) = "insert" /\ CallRight(s, pc[t], t)
    BY <2>1, AtPlace DEF UnlockPlaces
  <2>3. pc[t].id \in Timer
    BY <2>2 DEF CallRight, TimerPlaces
  <2>4. Timed(Lock(s))
    BY LockRight, RightTimed
  <2> QED  BY <1>1, <2>1, <2>3, <2>4, StillTimerInserted, StillAgain
<1>3. ASSUME TimerRemoves(t) PROVE Still(s, s')
  BY <1>1, <1>3, StillTimerRemoved, StillAgain DEF TimerRemoves
<1>4. ASSUME TimerStops(t) PROVE Still(s, s')
  BY <1>4 DEF TimerStops, Still, SameRing, Fields
<1>5. ASSUME TimerGone(t) PROVE Still(s, s')
  BY <1>1, <1>5 DEF TimerGone
<1>11. ASSUME TimerFree(t) PROVE Still(s, s')
  BY <1>11 DEF TimerFree, Still, SameRing, Fields
<1>12. ASSUME TimerFills(t) PROVE Still(s, s')
  BY <1>12 DEF TimerFills, Still, SameRing, Fields
<1>6. ASSUME NEW type, NEW cnt, NEW reload, CoCreateTmr(t, type, cnt, reload)
      PROVE  Still(s, s')
  <2> DEFINE r1 == Lock(s)
  <2>1. s' = r1 \/ \E a : s' = [r1 EXCEPT !.TmrIDVessel = a]
    BY <1>6 DEF CoCreateTmr
  <2> HIDE DEF r1
  <2>2. \A a : Still(r1, [r1 EXCEPT !.TmrIDVessel = a])
    BY DEF Still, SameRing, Fields
  <2>3. Still(s, r1)
    BY <1>1 DEF r1
  <2> QED  BY <2>1, <2>2, <2>3, StillAgain
<1>7. ASSUME NEW i, CoStartTmr(t, i) PROVE Still(s, s')
  BY <1>7 DEF CoStartTmr, Still, SameRing, Fields
<1>8. ASSUME NEW i, CoStopTmr(t, i) PROVE Still(s, s')
  BY <1>1, <1>8 DEF CoStopTmr
<1>9. ASSUME NEW i, NEW cnt, NEW reload, CoSetTmrCnt(t, i, cnt, reload) PROVE Still(s, s')
  BY <1>9 DEF CoSetTmrCnt, Still, SameRing, Fields
<1>10. ASSUME NEW i, CoDelTmr(t, i) PROVE Still(s, s')
  BY <1>1, <1>10 DEF CoDelTmr
<1> QED  BY <1>2, <1>3, <1>4, <1>5, <1>6, <1>7, <1>8, <1>9, <1>10, <1>11, <1>12
      DEF TimerFinish, TimerCall

-----------------------------------------------------------------------------
(* The ring as the queue of its requests.                                  *)
LEMMA NextCell ==
  ASSUME NEW m \in Nat \ {0}, NEW h \in 0 .. m - 1, NEW j \in Nat
  PROVE  (((h + 1) % m) + j) % m = (h + (j + 1)) % m
<1>1. h \in Nat /\ h % m = h
  <2>1. h \in Nat /\ h < m
    OBVIOUS
  <2> QED  BY <2>1, ModFacts
<1>2. (h + 1) % m = IF h + 1 = m THEN 0 ELSE h + 1
  <2>1. (IF (h % m) + 1 = m THEN 0 ELSE (h % m) + 1) = (h + 1) % m
    BY <1>1, ModFacts
  <2> QED  BY <1>1, <2>1
<1>3. CASE h + 1 = m
  <2>1. h + (j + 1) = j + m /\ ((h + 1) % m) + j = j
    BY <1>1, <1>2, <1>3
  <2>2. (j + m) % m = j % m
    BY ModFacts
  <2> QED  BY <2>1, <2>2
<1>4. CASE h + 1 # m
  <2>1. ((h + 1) % m) + j = h + (j + 1)
    BY <1>1, <1>2, <1>4
  <2> QED  BY <2>1
<1> QED  BY <1>3, <1>4

LEMMA RequestsAre ==
  ASSUME NEW r, NEW id, NEW X, Right(r, id, X)
  PROVE  /\ r.cnt \in Nat /\ r.cnt <= SrqSize /\ SrqSize \in Nat \ {0}
         /\ r.head \in 0 .. SrqSize - 1
         /\ Requests(r) \in Seq(Request) /\ Len(Requests(r)) = r.cnt
         /\ \A i \in 1 .. r.cnt : Requests(r)[i] = r.cell[(r.head + (i - 1)) % SrqSize]
<1> DEFINE n == r.cnt
           q == Requests(r)
<1>1. /\ n \in 0 .. SrqSize /\ SrqSize \in Nat \ {0} /\ r.head \in 0 .. SrqSize - 1
      /\ \A j \in 0 .. n - 1 : RequestRight(r.app, r.cell[(r.head + j) % SrqSize])
  BY EventAssumption DEF Right, RequestsRight, Cells
<1>2. ASSUME NEW i \in 1 .. n PROVE r.head + i - 1 = r.head + (i - 1) /\ i - 1 \in 0 .. n - 1
  BY <1>1
<1>3. q = [i \in 1 .. n |-> r.cell[(r.head + i - 1) % SrqSize]]
  BY DEF Requests
<1>4. ASSUME NEW i \in 1 .. n
      PROVE  /\ q[i] = r.cell[(r.head + (i - 1)) % SrqSize]
             /\ q[i] \in Request
  <2>1. q[i] = r.cell[(r.head + (i - 1)) % SrqSize]
    BY <1>2, <1>3
  <2>2. RequestRight(r.app, q[i])
    BY <1>1, <1>2, <2>1
  <2>3. q[i] \in DeviceRequest
    BY <2>2 DEF RequestRight
  <2>4. DeviceRequest \subseteq Request
    <3>1. NoMail = 0 /\ Mail \subseteq 0 .. MaxMail /\ 0 \in 0 .. MaxMail
      BY EventAssumption DEF NoMail, Mail
    <3>2. ({"sem"} \X Event \X {NoMail}) \subseteq Request
      BY <3>1 DEF Request
    <3>3. ({"mbox", "queue"} \X Event \X Mail) \subseteq Request
      BY <3>1 DEF Request
    <3>4. ({"flag"} \X Flag \X {NoMail}) \subseteq Request
      BY <3>1 DEF Request
    <3> QED  BY <3>2, <3>3, <3>4 DEF DeviceRequest
  <2> QED  BY <2>1, <2>3, <2>4
<1>5. n \in Nat /\ n <= SrqSize
  BY <1>1
<1> HIDE DEF n
<1>6. q \in [1 .. n -> Request]
  BY <1>3, <1>4
<1>7. q \in Seq(Request) /\ Len(q) = n
  BY <1>5, <1>6
<1> QED  BY <1>1, <1>4, <1>5, <1>7 DEF n

(* What a step may do to the ring.                                         *)
OneServed(r, r2) ==
  r.cnt # 0 /\ r2.cnt = r.cnt - 1 /\ r2.cell = r.cell /\ r2.head = (r.head + 1) % SrqSize

RingStep(r, r2) == Grows(r, r2) \/ OneServed(r, r2) \/ r2.cnt = 0

LEMMA GrowsAccepts ==
  ASSUME NEW r, NEW id, NEW X, Right(r, id, X), NEW r2, NEW id2, NEW Y, Right(r2, id2, Y),
         Grows(r, r2)
  PROVE  \/ Requests(r2) = Requests(r)
         \/ /\ Requests(r2) \in Seq(Request)
            /\ Len(Requests(r2)) \in Len(Requests(r)) + 1 .. SrqSize
            /\ SubSeq(Requests(r2), 1, Len(Requests(r))) = Requests(r)
<1> DEFINE n  == r.cnt
           m  == r2.cnt
           q  == Requests(r)
           q2 == Requests(r2)
<1>1. /\ n \in Nat /\ q \in Seq(Request) /\ Len(q) = n
      /\ \A i \in 1 .. n : q[i] = r.cell[(r.head + (i - 1)) % SrqSize]
  BY RequestsAre
<1>2. /\ m \in Nat /\ q2 \in Seq(Request) /\ Len(q2) = m /\ m <= SrqSize /\ SrqSize \in Nat
      /\ \A i \in 1 .. m : q2[i] = r2.cell[(r2.head + (i - 1)) % SrqSize]
  BY RequestsAre
<1>3. /\ r2.head = r.head /\ 0 .. n - 1 \subseteq 0 .. m - 1
      /\ \A j \in 0 .. n - 1 : r2.cell[(r.head + j) % SrqSize] = r.cell[(r.head + j) % SrqSize]
  BY DEF Grows
<1> HIDE DEF n, m, q, q2
<1>4. n <= m
  <2>1. CASE n = 0
    BY <1>1, <1>2, <2>1
  <2>2. CASE n # 0
    <3>1. n - 1 \in 0 .. n - 1
      BY <1>1, <2>2
    <3>2. n - 1 \in 0 .. m - 1
      BY <1>3, <3>1
    <3> QED  BY <1>1, <1>2, <3>2
  <2> QED  BY <2>1, <2>2
<1>5. \A i \in 1 .. n : q2[i] = q[i]
  <2> SUFFICES ASSUME NEW i \in 1 .. n PROVE q2[i] = q[i]
    OBVIOUS
  <2>1. i - 1 \in 0 .. n - 1 /\ i \in 1 .. m
    BY <1>1, <1>2, <1>4
  <2>2. r2.cell[(r.head + (i - 1)) % SrqSize] = r.cell[(r.head + (i - 1)) % SrqSize]
    BY <1>3, <2>1
  <2>3. q[i] = r.cell[(r.head + (i - 1)) % SrqSize]
    BY <1>1
  <2>4. q2[i] = r2.cell[(r2.head + (i - 1)) % SrqSize]
    BY <1>2, <2>1
  <2> QED  BY <1>3, <2>2, <2>3, <2>4
<1>6. CASE m = n
  <2>1. q2 = q
    BY <1>1, <1>2, <1>5, <1>6
  <2> QED  BY <2>1 DEF q, q2
<1>7. CASE m # n
  <2>1. m \in n + 1 .. SrqSize
    BY <1>1, <1>2, <1>4, <1>7
  <2>2. SubSeq(q2, 1, n) = q
    BY <1>1, <1>2, <1>4, <1>5
  <2> QED  BY <1>1, <1>2, <2>1, <2>2 DEF q, q2
<1> QED  BY <1>6, <1>7

LEMMA ServedTakes ==
  ASSUME NEW r, NEW id, NEW X, Right(r, id, X), NEW r2, NEW id2, NEW Y, Right(r2, id2, Y),
         OneServed(r, r2)
  PROVE  Requests(r) # <<>> /\ Requests(r2) = Tail(Requests(r))
<1> DEFINE n  == r.cnt
           q  == Requests(r)
           q2 == Requests(r2)
           h  == r.head
<1>1. /\ n \in Nat /\ q \in Seq(Request) /\ Len(q) = n
      /\ h \in 0 .. SrqSize - 1 /\ SrqSize \in Nat \ {0}
      /\ \A i \in 1 .. n : q[i] = r.cell[(h + (i - 1)) % SrqSize]
  BY RequestsAre
<1>2. /\ q2 \in Seq(Request) /\ Len(q2) = r2.cnt
      /\ \A i \in 1 .. r2.cnt : q2[i] = r2.cell[(r2.head + (i - 1)) % SrqSize]
  BY RequestsAre
<1>3. /\ n # 0 /\ r2.cnt = n - 1 /\ r2.cell = r.cell /\ r2.head = (h + 1) % SrqSize
  BY DEF OneServed
<1> HIDE DEF n, q, q2, h
<1>4. ASSUME NEW i \in 1 .. n - 1 PROVE q2[i] = q[i + 1]
  <2>1. i - 1 \in Nat /\ (i - 1) + 1 = (i + 1) - 1 /\ i + 1 \in 1 .. n
    BY <1>1, <1>3
  <2>2. (((h + 1) % SrqSize) + (i - 1)) % SrqSize = (h + ((i - 1) + 1)) % SrqSize
    BY <1>1, <2>1, NextCell
  <2>3. q[i + 1] = r.cell[(h + ((i + 1) - 1)) % SrqSize]
    BY <1>1, <2>1
  <2>4. q2[i] = r.cell[(((h + 1) % SrqSize) + (i - 1)) % SrqSize]
    BY <1>2, <1>3
  <2> QED  BY <2>1, <2>2, <2>3, <2>4
<1>5. q # <<>>
  BY <1>1, <1>3
<1>6. /\ Tail(q) \in Seq(Request) /\ Len(Tail(q)) = n - 1
      /\ \A i \in 1 .. n - 1 : Tail(q)[i] = q[i + 1]
  BY <1>1, <1>3, <1>5
<1>7. q2 = Tail(q)
  BY <1>2, <1>3, <1>4, <1>6, <1>1
<1> QED  BY <1>5, <1>7 DEF q, q2

LEMMA EmptyRing ==
  ASSUME NEW r, r.cnt = 0
  PROVE  Requests(r) = <<>>
BY DEF Requests

(* The steps of all contexts. *)
LEMMA StillStep ==
  ASSUME NEW r, NEW r2, DOMAIN r = Fields, Still(r, r2)
  PROVE  RingStep(r, r2)
BY DEF Still, SameRing, RingStep, Grows

LEMMA ServesGrows ==
  ASSUME NEW r, NEW r2, NEW E \in {{NoEvent}, {NoEvent, Ticks}}, Serves(r, r2, E)
  PROVE  RingStep(r, r2)
<1>1. Drains \notin {NoEvent, Ticks}
  BY EventAssumption DEF Drains, NoEvent, Ticks
<1> QED  BY <1>1 DEF Serves, RingServed, RingStep

LEMMA RightNow ==
  ASSUME SystemInv
  PROVE  Right(s, Ids(pc), {}) /\ DOMAIN s = Fields /\ s.app \in App
BY DEF SystemInv, SystemRight, Right, Shape

LEMMA UnlockRing ==
  ASSUME SystemInv, NEW c \in Context, Unlock(c)
  PROVE  RingStep(s, s')
<1>1. Right(s, Ids(pc), {}) /\ DOMAIN s = Fields
  BY RightNow
<1>2. Still(s, s)
  BY StillNone
<1>3. CASE UnlockNested(c)
  BY <1>1, <1>3, StillStep DEF UnlockNested, Still, SameRing, Fields
<1>4. CASE UnlockLast(c) \/ RespondDone(c)
  BY <1>1, <1>2, <1>4, StillStep DEF UnlockLast, RespondDone
<1>5. CASE RespondTime(c)
  <2>1. s' \in {s, TimeDispose(s)}
    BY <1>5 DEF RespondTime
  <2>2. Right(TimeDispose(s), Ids(pc), {}) /\ Serves(s, TimeDispose(s), {})
    BY <1>1, DelaysDisposed
  <2>3. Still(s, s')
    BY <1>1, <1>2, <2>1, <2>2, StillServed
  <2> QED  BY <1>1, <2>3, StillStep
<1>6. CASE RespondReset(c) \/ RespondTimersReset(c) \/ RespondClear(c)
  <2>1. \E f \in {"TimeReq", "TimerReq", "IsrReq"} : \E v : s' = [s EXCEPT ![f] = v]
    BY <1>6 DEF RespondReset, RespondTimersReset, RespondClear, ClearIsrReq
  <2> QED  BY <1>1, <2>1, StillStep DEF Still, SameRing, Fields
<1>7. CASE RespondTimers(c)
  <2>1. s' \in {s, TmrDispose(s)}
    BY <1>7 DEF RespondTimers
  <2>2. Serves(s, TmrDispose(s), {NoEvent})
    BY <1>1, TimersDisposed
  <2>3. RingStep(s, s)
    BY <1>1, <1>2, StillStep
  <2> QED  BY <2>1, <2>2, <2>3, ServesGrows
<1>8. CASE RespondDrain(c)
  BY <1>1, <1>8, Served DEF RespondDrain, RingStep, OneServed
<1>9. CASE UnlockSched(c)
  BY <1>1, <1>9, StillStep DEF UnlockSched, Still, SameRing, Fields
<1>10. CASE UnlockRelease(c)
  BY <1>1, <1>10, StillStep DEF UnlockRelease, Still, SameRing, Fields
<1> QED  BY <1>3, <1>4, <1>5, <1>6, <1>7, <1>8, <1>9, <1>10 DEF Unlock

LEMMA DeviceRing ==
  ASSUME NEW r, NEW id, Right(r, id, {}), NEW q, RequestRight(r.app, q),
         NEW r2, r2 = isr_Request(r, q)
  PROVE  RingStep(r, r2) /\ DOMAIN r2 = Fields
<1>1. r2 = FromIsr(r, q)
  <2>1. q \in DeviceRequest
    BY DEF RequestRight
  <2>2. /\ q[1] = "sem" => q = isr_PostSem(q[2])
        /\ q[1] = "mbox" => q = isr_PostMail(q[2], q[3])
        /\ q[1] = "queue" => q = isr_PostQueueMail(q[2], q[3])
        /\ q[1] = "flag" => q = isr_SetFlag(q[2])
    BY <2>1 DEF DeviceRequest, isr_PostSem, isr_PostMail, isr_PostQueueMail, isr_SetFlag
  <2>3. q[1] \in {"sem", "mbox", "queue", "flag"}
    BY <2>1 DEF DeviceRequest
  <2> QED  BY <2>2, <2>3 DEF isr_Request
<1>2. DOMAIN r = Fields /\ DOMAIN r2 = Fields
  <2>1. Right(r2, id, {})
    BY CalledFromIsr
  <2> QED  BY <2>1 DEF Right, Shape
<1>3. RingStep(r, r)
  BY <1>2, StillNone, StillStep
<1>4. CASE r.k.OSSchedLock = 0
  <2> DEFINE r1 == Perform(r, q)
  <2>1. Right(r1, id, {}) /\ Serves(r, r1, Devices(r) \ {NoEvent, Drains})
    BY Performed
  <2>2. RingStep(r, r1)
    BY <2>1 DEF Serves, RingServed, RingStep
  <2> HIDE DEF r1
  <2>3. RespondSRQ(r1).cnt = 0
    BY <2>1, Responded
  <2>4. RingStep(r, RespondSRQ(r1))
    BY <2>3 DEF RingStep
  <2>5. r2 \in {r, r1, RespondSRQ(r1)}
    BY <1>1, <1>4 DEF FromIsr, PerformDirect, r1
  <2> QED  BY <1>2, <1>3, <2>2, <2>4, <2>5
<1>5. CASE r.k.OSSchedLock # 0 /\ SrqFull(r)
  BY <1>1, <1>2, <1>3, <1>5 DEF FromIsr
<1>6. CASE r.k.OSSchedLock # 0 /\ ~SrqFull(r)
  <2> DEFINE x == InsertInSRQ(r, q)
  <2>1. Right(x, id, {}) /\ Serves(r, x, {NoEvent})
    BY <1>6, Requested
  <2>2. Grows(r, x)
    <3>1. Drains \notin {NoEvent}
      BY EventAssumption DEF Drains, NoEvent
    <3> QED  BY <2>1, <3>1 DEF Serves, RingServed
  <2>3. r2 = [x EXCEPT !.out = @ \cup ({q[3]} \ {NoMail})]
    BY <1>1, <1>6 DEF FromIsr
  <2>4. DOMAIN x = Fields
    BY <2>1 DEF Right, Shape
  <2> HIDE DEF x
  <2>5. r2.cnt = x.cnt /\ r2.cell = x.cell /\ r2.head = x.head
    BY <2>3, <2>4 DEF Fields
  <2> QED  BY <1>2, <2>2, <2>5 DEF RingStep, Grows
<1> QED  BY <1>4, <1>5, <1>6

LEMMA ExceptionRing ==
  ASSUME SystemInv, Exception
  PROVE  RingStep(s, s')
<1>1. Right(s, Ids(pc), {}) /\ DOMAIN s = Fields /\ s.app \in App
  BY RightNow
<1>2. CASE Unlock(Tmr)
  BY <1>2, TmrApart, UnlockRing
<1>3. CASE PendSV
  BY <1>1, <1>3, StillKernel, StillStep DEF PendSV
<1>4. CASE SysTick_Handler
  <2> DEFINE r1 == [s EXCEPT !.k = SysTickEntry(s.k)]
  <2>1. s' = Tick(s)
    BY <1>4 DEF SysTick_Handler
  <2>2. Serves(r1, s', {NoEvent, Ticks})
    BY <1>1, <2>1, Ticked
  <2>3. r1.cnt = s.cnt /\ r1.cell = s.cell /\ r1.head = s.head
    BY <1>1 DEF Fields
  <2> HIDE DEF r1
  <2>4. RingStep(r1, s')
    BY <2>2, ServesGrows
  <2> QED  BY <2>3, <2>4 DEF RingStep, Grows, OneServed
<1>5. ASSUME NEW q \in Calls[s.app].isr, DeviceISR(q) PROVE RingStep(s, s')
  <2> DEFINE ke == CoEnterISR(s.k)
             e  == [s EXCEPT !.k = ke]
             x  == isr_Request(e, q)
  <2>1. s' = [x EXCEPT !.k = CoExitISR(@)]
    BY <1>5 DEF DeviceISR
  <2>2. /\ ke \in Kernel /\ ke.state = s.k.state /\ ke.prio = s.k.prio /\ ke.TCBRdy = s.k.TCBRdy
    <3>1. s.k.OSIntNesting = 0 /\ s.k \in Kernel
      BY DEF SystemInv, SystemRight, LocksRight, Right, Shape
    <3>2. ke = [s.k EXCEPT !.OSIntNesting = 1]
      BY <3>1 DEF CoEnterISR, Inc8
    <3> HIDE DEF ke
    <3> QED  BY <3>1, <3>2 DEF Kernel
  <2> HIDE DEF ke
  <2>3. Right(e, Ids(pc), {}) /\ Only(s, e, {"k"})
    BY <1>1, <2>2, KernelSame
  <2> HIDE DEF e
  <2>4. RequestRight(e.app, q)
    <3>1. e.app = s.app
      BY <2>3 DEF Only, Fields
    <3>2. q \in DeviceRequest
      BY <1>1, <1>5, CallTypes
    <3>3. q[1] = "sem" => PostsFromIsr(s.app, q[2])
      BY <1>5 DEF PostsFromIsr
    <3> QED  BY <3>1, <3>2, <3>3 DEF RequestRight
  <2>5. RingStep(e, x) /\ DOMAIN x = Fields
    BY <2>3, <2>4, DeviceRing
  <2>6. e.cnt = s.cnt /\ e.cell = s.cell /\ e.head = s.head
    BY <2>3 DEF Only, Fields
  <2> HIDE DEF x
  <2>7. s'.cnt = x.cnt /\ s'.cell = x.cell /\ s'.head = x.head
    BY <2>1, <2>5 DEF Fields
  <2> QED  BY <2>5, <2>6, <2>7 DEF RingStep, Grows, OneServed
<1> QED  BY <1>2, <1>3, <1>4, <1>5 DEF Exception

LEMMA NextRing ==
  ASSUME StaticEvents, SystemInv, Next
  PROVE  RingStep(s, s')
<1>1. DOMAIN s = Fields
  BY RightNow
<1>2. ASSUME NEW t \in Task, Finish(t) PROVE RingStep(s, s')
  <2>1. CASE Unlock(t)
    BY <2>1, TmrApart, UnlockRing
  <2>2. DelayFinish(t) \/ EventFinish(t) \/ SemFinish(t) \/ FlagFinish(t) \/ TimerFinish(t)
          => Still(s, s')
    BY StillDelay, StillSem, StillFlag, StillTimer
  <2>3. ~EcbFinish(t)
    BY EcbIdle
  <2> QED  BY <1>1, <1>2, <2>1, <2>2, <2>3, StillStep DEF Finish
<1>3. ASSUME NEW t \in Task, Call(t) PROVE RingStep(s, s')
  <2>1. DelayCall(t) \/ SemCall(t) \/ MailCall(t) \/ FlagCall(t) \/ TimerCall(t) => Still(s, s')
    BY StillDelay, StillSem, StillMailCall, StillFlag, StillTimer
  <2>2. ~EcbCall(t)
    BY NoEcbCall
  <2> QED  BY <1>1, <1>3, <2>1, <2>2, StillStep DEF Call
<1> QED  BY <1>2, <1>3, ExceptionRing DEF Next

(* A step of the ring is one of the abstract queue.                        *)
LEMMA RingIsQueue ==
  ASSUME NEW r, NEW id, NEW X, Right(r, id, X), NEW r2, NEW id2, NEW Y, Right(r2, id2, Y),
         RingStep(r, r2)
  PROVE  LET q  == Requests(r)
             q2 == Requests(r2)
         IN  \/ q2 = q
             \/ /\ q2 \in Seq(Request) /\ Len(q2) \in Len(q) + 1 .. SrqSize
                /\ SubSeq(q2, 1, Len(q)) = q
             \/ q # <<>> /\ q2 = Tail(q)
             \/ q # <<>> /\ q2 = <<>>
<1>1. CASE Grows(r, r2)
  BY <1>1, GrowsAccepts
<1>2. CASE OneServed(r, r2)
  BY <1>2, ServedTakes
<1>3. CASE r2.cnt = 0
  BY <1>3, EmptyRing
<1> QED  BY <1>1, <1>2, <1>3 DEF RingStep

(* The ring of service requests is a bounded queue: what interrupts and    *)
(* timers put into it is served once, in its order, and never overwritten, *)
(* wherever OsSchedUnlock() is interrupted.                                *)
THEOREM RequestsStayInOrder ==
  ASSUME StaticEvents, RenewRules
  PROVE  Spec => SrqIsFifo
<1>1. Spec => []SystemInv
  BY ServicesStayRight
<1>2. Init => Srq!Init
  <2> SUFFICES ASSUME Init PROVE Requests(s) = <<>>
    BY DEF Srq!Init
  <2>1. s.cnt = 0
    BY DEF Init, StartSystem
  <2> QED  BY <2>1, EmptyRing
<1>3. SystemInv /\ SystemInv' /\ [Next]_vars => [Srq!Next \/ Srq!AcceptSome]_(Requests(s))
  <2> SUFFICES ASSUME SystemInv, SystemInv', [Next]_vars
               PROVE  [Srq!Next \/ Srq!AcceptSome]_(Requests(s))
    OBVIOUS
  <2>1. CASE UNCHANGED vars
    BY <2>1 DEF vars
  <2>2. CASE Next
    <3>1. Right(s, Ids(pc), {}) /\ Right(s', Ids(pc'), {})
      BY DEF SystemInv, SystemRight
    <3>2. RingStep(s, s')
      BY <2>2, NextRing
    <3> DEFINE q  == Requests(s)
               q2 == Requests(s')
    <3>3. \/ q2 = q
          \/ /\ q2 \in Seq(Request) /\ Len(q2) \in Len(q) + 1 .. SrqSize
             /\ SubSeq(q2, 1, Len(q)) = q
          \/ q # <<>> /\ q2 = Tail(q)
          \/ q # <<>> /\ q2 = <<>>
      BY <3>1, <3>2, RingIsQueue
    <3> QED  BY <3>3 DEF Srq!Next, Srq!AcceptSome, Srq!Serve, Srq!ServeAll
  <2> QED  BY <2>1, <2>2
<1> QED  BY <1>1, <1>2, <1>3, PTL DEF Spec, SrqIsFifo, Srq!Spec

-----------------------------------------------------------------------------
(* The delays.  A task that is put into the delay list takes nothing from  *)
(* those that are in it, and waits as long as it has asked for.            *)
LEMMA TicksInserted ==
  ASSUME NEW r, DOMAIN r = Fields, r.DlyList \in Seq(Task),
         r.delayTick \in [Task -> Nat \cup {NoDelay}], DelaysRight(r),
         NEW t \in Task, r.delayTick[t] = NoDelay, NEW ticks \in Nat \ {0},
         NEW r2, r2 = InsertDelayList(r, t, ticks)
  PROVE  /\ r2.delayTick[t] # NoDelay /\ TicksLeft(r2, t) = ticks
         /\ \A u \in Task : r.delayTick[u] # NoDelay =>
              r2.delayTick[u] # NoDelay /\ TicksLeft(r2, u) = TicksLeft(r, u)
<1> DEFINE q    == r.DlyList
           n    == Len(q)
           due  == Due(r)
           At2(j) == /\ \A l \in 1 .. j - 1 : due[l] <= ticks
                     /\ j <= n => ticks < due[j]
           i    == CHOOSE j \in 1 .. n + 1 : At2(j)
           mine == ticks - due[i - 1]
           d2   == [u \in Task |-> CASE u = t -> mine
                                     [] i <= n /\ u = q[i] -> r.delayTick[u] - mine
                                     [] OTHER -> r.delayTick[u]]
<1>1. /\ Delayed(r)
      /\ \A u \in Task : r.delayTick[u] # NoDelay => \E j \in 1 .. n : q[j] = u
  BY DelaysAt
<1>2. /\ n \in Nat /\ q \in Seq(Task)
      /\ \A j \in 1 .. n : q[j] \in Task /\ r.delayTick[q[j]] \in Nat
  BY <1>1, LenProperties, ElementOfSeq DEF Delayed
<1>3. due[0] = 0 /\ \A j \in 0 .. n : due[j] \in Nat
  BY <1>2, DueFacts
<1>4. r2 = [r EXCEPT !.DlyList = InsertAt(q, i, t), !.delayTick = d2, !.k = WaitKernel(r.k, t)]
  BY DEF InsertDelayList, WaitKernel
<1>5. i \in 1 .. n + 1 /\ At2(i)
  <2>1. \E j \in 1 .. n + 1 : At2(j)
    BY <1>2, InsertPlace
  <2> QED  BY <2>1
<1> HIDE DEF i
<1>6. due[i - 1] <= ticks /\ (i <= n => ticks <= due[i])
  <2>1. due[i - 1] <= ticks
    <3>1. CASE i = 1
      BY <3>1, <1>3
    <3>2. CASE i # 1
      <4>1. i - 1 \in 1 .. i - 1
        BY <3>2, <1>2, <1>5
      <4> QED  BY <4>1, <1>5
    <3> QED  BY <3>1, <3>2
  <2>2. ASSUME i <= n PROVE ticks <= due[i]
    <3>1. i \in 0 .. n
      BY <2>2, <1>2, <1>5
    <3> QED  BY <3>1, <2>2, <1>3, <1>5
  <2> QED  BY <2>1, <2>2
<1>7. r2.DlyList = InsertAt(q, i, t) /\ r2.delayTick = d2
  BY <1>4 DEF Fields
<1>8. \A j \in 1 .. n : q[j] # t
  BY <1>2 DEF NoDelay
<1>9. /\ r2.delayTick[t] = ticks - due[i - 1]
      /\ \A u \in Task : u # t =>
           r2.delayTick[u] = IF i <= n /\ u = q[i] THEN r.delayTick[u] - (ticks - due[i - 1])
                                                   ELSE r.delayTick[u]
  <2> HIDE DEF q, n, due
  <2>1. r2.delayTick = d2 /\ t \in Task /\ ~(i <= n /\ t = q[i])
    BY <1>2, <1>5, <1>7, <1>8
  <2>2. d2[t] = ticks - due[i - 1]
    BY <2>1
  <2>3. ASSUME NEW u \in Task, u # t
        PROVE  d2[u] = IF i <= n /\ u = q[i] THEN r.delayTick[u] - (ticks - due[i - 1])
                                             ELSE r.delayTick[u]
    BY <2>3
  <2> HIDE DEF d2
  <2> QED  BY <2>1, <2>2, <2>3
<1> HIDE DEF mine, d2
<1>10. /\ Delayed(r2) /\ TicksLeft(r2, t) = ticks
       /\ \A j \in 1 .. n : TicksLeft(r2, q[j]) = TicksLeft(r, q[j])
  BY <1>1, <1>5, <1>6, <1>7, <1>8, <1>9, TicksMore
<1>11. \A u \in Task : u = t \/ r.delayTick[u] # NoDelay => r2.delayTick[u] # NoDelay
  <2> SUFFICES ASSUME NEW u \in Task, u = t \/ r.delayTick[u] # NoDelay
               PROVE  r2.delayTick[u] # NoDelay
    OBVIOUS
  <2>1. /\ r2.DlyList \in Seq(Task) /\ Len(r2.DlyList) = n + 1
        /\ \A j \in 1 .. n + 1 : r2.DlyList[j] = IF j < i THEN q[j]
                                                 ELSE IF j = i THEN t ELSE q[j - 1]
    <3>1. q \in Seq(Task) /\ i \in 1 .. Len(q) + 1 /\ t \in Task
      BY <1>2, <1>5
    <3> HIDE DEF q
    <3>2. LET q3 == InsertAt(q, i, t)
          IN  /\ q3 \in Seq(Task) /\ Len(q3) = Len(q) + 1
              /\ \A j \in 1 .. Len(q) + 1 :
                   q3[j] = IF j < i THEN q[j] ELSE IF j = i THEN t ELSE q[j - 1]
      BY ONLY <3>1, InsertAtFacts, SMTT(30)
    <3> QED  BY <1>7, <3>2
  <2>2. \E j \in 1 .. n + 1 : r2.DlyList[j] = u
    <3>1. CASE u = t
      BY <3>1, <2>1, <1>5
    <3>2. CASE u # t
      <4>1. PICK j \in 1 .. n : q[j] = u
        BY <3>2, <1>1
      <4>2. CASE j < i
        BY <4>1, <4>2, <2>1, <1>2
      <4>3. CASE ~(j < i)
        <5>1. j + 1 \in 1 .. n + 1 /\ ~(j + 1 < i) /\ j + 1 # i /\ (j + 1) - 1 = j
          BY <4>3, <1>2, <1>5
        <5> QED  BY <5>1, <4>1, <2>1
      <4> QED  BY <4>2, <4>3
    <3> QED  BY <3>1, <3>2
  <2>3. r2.delayTick[u] \in Nat
    BY <1>10, <2>1, <2>2 DEF Delayed
  <2> QED  BY <2>3 DEF NoDelay
<1> QED  BY <1>1, <1>10, <1>11

(* What does not touch the delays.                                         *)
Leaves(r, r2) ==
  DOMAIN r = Fields =>
    DOMAIN r2 = Fields /\ r2.DlyList = r.DlyList /\ r2.delayTick = r.delayTick

LEMMA LeavesAgain ==
  ASSUME NEW r, NEW r2, NEW r3, Leaves(r, r2), Leaves(r2, r3)
  PROVE  Leaves(r, r3)
BY DEF Leaves

LEMMA LeavesNone ==
  ASSUME NEW r
  PROVE  Leaves(r, r)
BY DEF Leaves

LEMMA LeavesLock ==
  ASSUME NEW r
  PROVE  Leaves(r, Lock(r))
BY DEF Leaves, Fields, Lock

LEMMA LeavesWaits ==
  ASSUME NEW r, NEW e, NEW t
  PROVE  Leaves(r, EventTaskToWait(r, e, t))
BY DEF Leaves, Fields, EventTaskToWait

LEMMA LeavesReceived ==
  ASSUME NEW r, NEW t, NEW e
  PROVE  Leaves(r, Received(r, t, e)) /\ Leaves(r, Reported(r, t, e))
<1>1. \A r1 : Leaves(r1, Received(r1, t, e))
  BY DEF Leaves, Fields, Received
<1>2. Leaves(r, [r EXCEPT !.pmail = [@ EXCEPT ![t] = Woken]])
  BY DEF Leaves, Fields
<1>3. Leaves(r, Reported(r, t, e))
  BY <1>1, <1>2, LeavesAgain DEF Reported
<1> QED  BY <1>1, <1>3

LEMMA LeavesMail ==
  ASSUME NEW r, NEW e
  PROVE  Leaves(r, TakeMail(r, e)) /\ Leaves(r, TakeOldest(r, e))
<1>1. Leaves(r, TakeMail(r, e))
  BY DEF Leaves, Fields, TakeMail
<1>2. Leaves(r, Dequeue(r, e))
  BY DEF Leaves, Fields, Dequeue
<1>3. Leaves(Dequeue(r, e), TakeOldest(r, e))
  BY DEF Leaves, Fields, TakeOldest
<1> QED  BY <1>1, <1>2, <1>3, LeavesAgain

LEMMA LeavesFlags ==
  ASSUME NEW r, NEW flags
  PROVE  Leaves(r, Reset(r, flags))
BY DEF Leaves, Fields, Reset

LEMMA LeavesNode ==
  ASSUME NEW r, NEW t
  PROVE  Leaves(r, NodeGone(r, t))
BY DEF Leaves, Fields, NodeGone

LEMMA LeavesTimerRemoved ==
  ASSUME NEW r, NEW i
  PROVE  Leaves(r, RemoveTmrList(r, i))
BY DEF Leaves, Fields, RemoveTmrList

LEMMA LeavesTimerInserted ==
  ASSUME NEW r, Timed(r), NEW i \in Timer
  PROVE  Leaves(r, InsertTmrList(r, i))
<1>1. Only(r, InsertTmrList(r, i), {"TmrTbl", "TmrList"})
  BY TimerInserted DEF TimersMoved
<1> QED  BY <1>1 DEF Leaves, Only, Fields

(* The steps that keep the delays as they are, or end them in due course.  *)
DelaysListed(r) ==
  /\ DOMAIN r = Fields /\ r.DlyList \in Seq(Task)
  /\ r.delayTick \in [Task -> Nat \cup {NoDelay}] /\ DelaysRight(r)

LEMMA DelaysNow ==
  ASSUME SystemInv
  PROVE  DelaysListed(s) /\ DelaysListed(Lock(s))
<1>1. DelaysListed(s)
  BY DEF SystemInv, SystemRight, Right, Shape, DelaysListed
<1> QED  BY <1>1, LeavesLock DEF Leaves, DelaysListed, DelaysRight

LEMMA LeavesKeep ==
  ASSUME SystemInv, Leaves(s, s')
  PROVE  DelaysServed(s, s')
BY DelaysNow, DelaysSame DEF DelaysListed, Leaves

LEMMA InsertKeeps ==
  ASSUME SystemInv, NEW r, Leaves(s, r), NEW t \in Task, s.delayTick[t] = NoDelay,
         NEW ticks \in Nat, s' = InsertDelayList(r, t, ticks)
  PROVE  DelaysServed(s, s')
<1>1. DelaysListed(r) /\ r.DlyList = s.DlyList /\ r.delayTick = s.delayTick
  BY DelaysNow DEF Leaves, DelaysListed, DelaysRight
<1>2. CASE ticks = 0
  <2>1. s' = r
    BY <1>2 DEF InsertDelayList
  <2> QED  BY <2>1, LeavesKeep
<1>3. CASE ticks # 0
  <2>1. \A u \in Task : r.delayTick[u] # NoDelay =>
          s'.delayTick[u] # NoDelay /\ TicksLeft(s', u) = TicksLeft(r, u)
    BY <1>1, <1>3, TicksInserted DEF DelaysListed
  <2>2. \A u : TicksLeft(r, u) = TicksLeft(s, u)
    BY <1>1 DEF TicksLeft, Due
  <2> QED  BY <1>1, <2>1, <2>2 DEF DelaysServed
<1> QED  BY <1>2, <1>3

(* Serving between two changes of other things.                            *)
SameWaits(r, r2) ==
  /\ r2.DlyList = r.DlyList /\ r2.delayTick = r.delayTick
  /\ r2.eventID = r.eventID /\ r2.pmail = r.pmail /\ r2.pnode = r.pnode

LEMMA ServedBetween ==
  ASSUME NEW r, NEW r1, NEW r2, NEW r3,
         SameWaits(r, r1), DelaysServed(r1, r2), SameWaits(r2, r3)
  PROVE  DelaysServed(r, r3)
<1>1. \A u : TicksLeft(r1, u) = TicksLeft(r, u) /\ TicksLeft(r3, u) = TicksLeft(r2, u)
  BY DEF SameWaits, TicksLeft, Due
<1> QED  BY <1>1 DEF SameWaits, DelaysServed, Ended

LEMMA ServesKeepDelays ==
  ASSUME NEW r, NEW r2, NEW E, Serves(r, r2, E), Ticks \notin E
  PROVE  DelaysServed(r, r2)
BY DEF Serves

LEMMA TicksApart ==
  /\ Ticks # NoEvent /\ Ticks # Drains /\ Ticks \notin Event
  /\ \A r : Ticks \notin Devices(r)
<1>1. /\ Ticks # NoEvent /\ Ticks # Drains /\ Ticks \notin Event
  BY EventAssumption DEF Ticks, NoEvent, Drains, Event
<1> QED  BY <1>1 DEF Devices

LEMMA SectionKeeps ==
  ASSUME SystemInv, NEW r2, NEW E, Serves(Lock(s), r2, E), Ticks \notin E,
         SameWaits(r2, s')
  PROVE  DelaysServed(s, s')
<1>1. SameWaits(s, Lock(s))
  BY SectionLocked DEF Only, SameWaits, Fields
<1>2. DelaysServed(Lock(s), r2)
  BY ServesKeepDelays
<1> QED  BY <1>1, <1>2, ServedBetween

(* What a task does when it runs. *)
LEMMA SemKeepsDelays ==
  ASSUME SystemInv, NEW t \in Task
  PROVE  /\ EventFinish(t) => DelaysServed(s, s')
         /\ SemFinish(t) => DelaysServed(s, s')
         /\ SemCall(t) => DelaysServed(s, s')
<1>1. Leaves(s, s) /\ Leaves(s, Lock(s))
  BY LeavesNone, LeavesLock
<1>2. ASSUME PendBlocks(t) PROVE DelaysServed(s, s')
  <2> DEFINE r == EventTaskToWait(Lock(s), pc[t].id, t)
  <2>1. s' = InsertDelayList(r, t, pc[t].ticks) /\ Runs(t, "block")
    BY <1>2 DEF PendBlocks
  <2>2. s.delayTick[t] = NoDelay
    BY <2>1, AtPlace DEF UnlockPlaces
  <2>3. pc[t].ticks \in Nat
    BY TmrApart DEF SystemInv, SystemRight, PlacesRight, PlaceRight
  <2>4. Leaves(s, r)
    BY <1>1, LeavesWaits, LeavesAgain
  <2> HIDE DEF r
  <2> QED  BY <2>1, <2>2, <2>3, <2>4, InsertKeeps
<1>3. ASSUME PendReturns(t) PROVE DelaysServed(s, s')
  BY <1>3, LeavesReceived, LeavesKeep DEF PendReturns
<1>4. ASSUME PendTimesOut(t) PROVE DelaysServed(s, s')
  BY <1>1, <1>4, LeavesKeep DEF PendTimesOut
<1>5. ASSUME PostStores(t) PROVE DelaysServed(s, s')
  <2> DEFINE e == pc[t].id
             r1 == Lock(s)
             r2 == Post(r1, e, pc[t].val)
  <2>1. s' = [r2 EXCEPT !.holds[t] = @ \ {e}] /\ Runs(t, "post")
    BY <1>5 DEF PostStores
  <2>2. e \in Event /\ Right(r2, Ids(pc), {}) /\ Serves(r1, r2, {e})
    BY <1>5, PostIsServed
  <2> HIDE DEF r1
  <2>3. DOMAIN r2 = Fields
    BY <2>2 DEF Right, Shape
  <2> HIDE DEF r2
  <2>4. SameWaits(r2, s')
    BY <2>1, <2>3 DEF SameWaits, Fields
  <2>5. Ticks \notin {e}
    BY <2>2, TicksApart
  <2> HIDE DEF e
  <2> QED  BY <2>2, <2>4, <2>5, SectionKeeps DEF r1
<1>6. ASSUME AcceptLoads(t) PROVE DelaysServed(s, s')
  BY <1>1, <1>6, LeavesKeep DEF AcceptLoads
<1>7. ASSUME AcceptStores(t) PROVE DelaysServed(s, s')
  <2> DEFINE r1 == [s EXCEPT !.eventCounter = [@ EXCEPT ![pc[t].id] = Wrap(pc[t].val - 1)]]
  <2>1. s' = Reported(r1, t, pc[t].id)
    BY <1>7 DEF AcceptStores
  <2>2. Leaves(s, r1)
    BY DEF Leaves, Fields
  <2> HIDE DEF r1
  <2> QED  BY <2>1, <2>2, LeavesReceived, LeavesAgain, LeavesKeep
<1>8. ASSUME NEW e, NEW ticks, CoPendSem(t, e, ticks) PROVE DelaysServed(s, s')
  <2> DEFINE r1 == Lock(s)
             r2 == [r1 EXCEPT !.eventCounter[e] = @ - 1]
  <2>1. s' \in {r1, Reported(r2, t, e)}
    BY <1>8 DEF CoPendSem, Pend
  <2>2. Leaves(r1, r2)
    BY DEF Leaves, Fields
  <2>3. Leaves(r2, Reported(r2, t, e)) /\ Leaves(s, r1)
    BY <1>1, LeavesReceived
  <2> HIDE DEF r1, r2
  <2> QED  BY <2>1, <2>2, <2>3, LeavesAgain, LeavesKeep
<1>9. ASSUME NEW e, CoPostSem(t, e) PROVE DelaysServed(s, s')
  BY <1>1, <1>9, LeavesKeep DEF CoPostSem, PostTested
<1>10. ASSUME NEW e, CoAcceptSem(t, e) PROVE DelaysServed(s, s')
  BY <1>1, <1>10, LeavesKeep DEF CoAcceptSem
<1> QED  BY <1>2, <1>3, <1>4, <1>5, <1>6, <1>7, <1>8, <1>9, <1>10
      DEF EventFinish, SemFinish, SemCall

LEMMA MailKeepsDelays ==
  ASSUME SystemInv, NEW t \in Task, MailCall(t)
  PROVE  DelaysServed(s, s')
<1>1. Leaves(s, s) /\ Leaves(s, Lock(s))
  BY LeavesNone, LeavesLock
<1>2. \A e : Leaves(s, TakeMail(Lock(s), e)) /\ Leaves(s, TakeOldest(Lock(s), e))
  BY <1>1, LeavesMail, LeavesAgain
<1>3. ASSUME NEW e, NEW ticks, CoPendMail(t, e, ticks) \/ CoPendQueueMail(t, e, ticks)
      PROVE  Leaves(s, s')
  BY <1>1, <1>2, <1>3 DEF CoPendMail, CoPendQueueMail, Pend
<1>4. ASSUME NEW e, NEW m, CoPostMail(t, e, m) \/ CoPostQueueMail(t, e, m)
      PROVE  Leaves(s, s')
  BY <1>1, <1>4 DEF CoPostMail, CoPostQueueMail, PostTested
<1>5. ASSUME NEW e, CoAcceptMail(t, e) \/ CoAcceptQueueMail(t, e)
      PROVE  Leaves(s, s')
  BY <1>1, <1>2, <1>5 DEF CoAcceptMail, CoAcceptQueueMail
<1>6. Leaves(s, s')
  BY <1>3, <1>4, <1>5 DEF MailCall
<1> QED  BY <1>6, LeavesKeep

LEMMA DelayKeepsDelays ==
  ASSUME SystemInv, NEW t \in Task
  PROVE  /\ LeavesSection(t) => DelaysServed(s, s')
         /\ DelayCall(t) => DelaysServed(s, s')
<1>1. Leaves(s, s) /\ Leaves(s, Lock(s))
  BY LeavesNone, LeavesLock
<1>2. ASSUME LeavesSection(t) PROVE DelaysServed(s, s')
  BY <1>1, <1>2, LeavesKeep DEF LeavesSection
<1>3. ASSUME NEW ticks, CoTickDelay(t, ticks) PROVE DelaysServed(s, s')
  <2> DEFINE c == <<t, ticks>>
  <2>1. Makes("delay", c) /\ c[1] = t /\ "delay" \in Services
    BY <1>3 DEF CoTickDelay, Services, ArgumentTypes
  <2>2. s.app \in App /\ s.delayTick[t] = NoDelay /\ c \in Calls[s.app].delay
    BY <2>1, Made
  <2>3. ticks \in Nat
    <3>1. c \in Caller \X Nat
      BY <2>2, CallTypes
    <3> QED  BY <3>1
  <2>4. s' = InsertDelayList(Lock(s), t, ticks)
    BY <1>3 DEF CoTickDelay
  <2> QED  BY <1>1, <2>2, <2>3, <2>4, InsertKeeps
<1>4. ASSUME NEW u, NEW ticks, EntersSection(t, u, ticks) PROVE DelaysServed(s, s')
  BY <1>1, <1>4, LeavesKeep DEF EntersSection
<1> QED  BY <1>2, <1>3, <1>4 DEF DelayCall

LEMMA FlagKeepsDelays ==
  ASSUME SystemInv, NEW t \in Task
  PROVE  /\ FlagFinish(t) => DelaysServed(s, s')
         /\ FlagCall(t) => DelaysServed(s, s')
<1>1. Leaves(s, s) /\ Leaves(s, Lock(s))
  BY LeavesNone, LeavesLock
<1>2. Right(Lock(s), Ids(pc), {}) /\ DOMAIN Lock(s) = Fields
  BY SectionLocked
<1>3. \A flags : Leaves(s, Reset(Lock(s), flags))
  BY <1>1, LeavesFlags, LeavesAgain
<1>4. ASSUME FlagReturns(t) PROVE DelaysServed(s, s')
  <2>1. s' = Reset(NodeGone(Lock(s), t), pc[t].flags \cap s.flagRdy)
    BY <1>4 DEF FlagReturns
  <2>2. Leaves(s, s')
    BY <1>1, <2>1, LeavesNode, LeavesFlags, LeavesAgain
  <2> QED  BY <2>2, LeavesKeep
<1>5. ASSUME FlagTimesOut(t) PROVE DelaysServed(s, s')
  BY <1>5, LeavesNode, LeavesKeep DEF FlagTimesOut
<1>6. ASSUME AcceptTakes(t) PROVE DelaysServed(s, s')
  BY <1>3, <1>6, LeavesKeep DEF AcceptTakes
<1>7. ASSUME SetLoads(t) PROVE DelaysServed(s, s')
  BY <1>1, <1>7, LeavesKeep DEF SetLoads
<1>8. ASSUME SetStores(t) \/ ClearStores(t) PROVE DelaysServed(s, s')
  <2>1. Leaves(s, s')
    BY <1>8 DEF SetStores, ClearStores, Leaves, Fields
  <2> QED  BY <2>1, LeavesKeep
<1>9. \A r : SameWaits(r, r)
  BY DEF SameWaits
<1>10. ASSUME SetWalks(t) PROVE DelaysServed(s, s')
  <2>1. s' = WakeSatisfied(Lock(s), pc[t].id)
    BY <1>10 DEF SetWalks
  <2>2. Serves(Lock(s), s', {})
    BY <1>2, <2>1, SatisfiedWoken
  <2> QED  BY <1>9, <2>2, SectionKeeps
<1>11. ASSUME NEW flags, NEW type, NEW ticks, CoWaitForFlags(t, flags, type, ticks)
       PROVE  DelaysServed(s, s')
  <2> DEFINE c  == <<t, flags, type, ticks>>
             r1 == FlagBlock(Lock(s), t, flags, type)
             r2 == [r1 EXCEPT !.k = RequestSchedule([@ EXCEPT !.state[t] = "WAITING"])]
  <2>1. Makes("waitFlags", c) /\ c[1] = t /\ "waitFlags" \in Services
    BY <1>11 DEF CoWaitForFlags, Services, ArgumentTypes
  <2>2. s.app \in App /\ s.delayTick[t] = NoDelay /\ c \in Calls[s.app].waitFlags
    BY <2>1, Made
  <2>3. ticks \in Nat
    <3>1. c \in Caller \X (SUBSET Flag) \X FlagType \X Nat
      BY <2>2, CallTypes
    <3> QED  BY <3>1
  <2>4. Leaves(s, r1)
    <3>1. Leaves(Lock(s), r1)
      BY DEF Leaves, Fields, FlagBlock
    <3> QED  BY <1>1, <3>1, LeavesAgain
  <2>5. s' \in {Reset(Lock(s), flags \cap s.flagRdy), r2, InsertDelayList(r1, t, ticks)}
    BY <1>11 DEF CoWaitForFlags, FlagWait
  <2> HIDE DEF r1
  <2>6. Leaves(r1, r2)
    BY DEF Leaves, Fields
  <2> HIDE DEF r2
  <2>7. CASE s' = Reset(Lock(s), flags \cap s.flagRdy)
    BY <1>3, <2>7, LeavesKeep
  <2>8. CASE s' = r2
    BY <2>4, <2>6, <2>8, LeavesAgain, LeavesKeep
  <2>9. CASE s' = InsertDelayList(r1, t, ticks)
    BY <2>2, <2>3, <2>4, <2>9, InsertKeeps
  <2> QED  BY <2>5, <2>7, <2>8, <2>9
<1>12. ASSUME \/ \E flags, type : CoAcceptFlags(t, flags, type)
              \/ \E f : CoSetFlag(t, f) \/ CoClearFlag(t, f)
       PROVE  DelaysServed(s, s')
  <2>1. s' = s
    BY <1>12 DEF CoAcceptFlags, CoSetFlag, CoClearFlag
  <2> QED  BY <1>1, <2>1, LeavesKeep
<1>13. ASSUME NEW auto, NEW set, CoCreateFlag(t, auto, set) PROVE DelaysServed(s, s')
  <2> DEFINE r1 == Lock(s)
  <2>1. s' = r1 \/ \E a, b, c : s' = [r1 EXCEPT !.flagActive = a, !.flagRdy = b, !.resetOpt = c]
    BY <1>13 DEF CoCreateFlag
  <2> HIDE DEF r1
  <2>2. \A a, b, c : Leaves(r1, [r1 EXCEPT !.flagActive = a, !.flagRdy = b, !.resetOpt = c])
    BY DEF Leaves, Fields
  <2>3. Leaves(s, r1)
    BY <1>1 DEF r1
  <2> QED  BY <2>1, <2>2, <2>3, LeavesAgain, LeavesKeep
<1>14. ASSUME NEW f, NEW opt, CoDelFlag(t, f, opt) PROVE DelaysServed(s, s')
  <2>1. s' \in {Lock(s), Deleted(Lock(s), f)}
    BY <1>14 DEF CoDelFlag
  <2>2. Serves(Lock(s), Deleted(Lock(s), f), {})
    BY <1>2, FlagDeleted
  <2>3. CASE s' = Lock(s)
    BY <1>1, <2>3, LeavesKeep
  <2>4. CASE s' = Deleted(Lock(s), f)
    BY <1>9, <2>2, <2>4, SectionKeeps
  <2> QED  BY <2>1, <2>3, <2>4
<1>15. FlagFinish(t) => DelaysServed(s, s')
  BY <1>4, <1>5, <1>6, <1>7, <1>8, <1>10 DEF FlagFinish
<1> QED  BY <1>11, <1>12, <1>13, <1>14, <1>15 DEF FlagCall

LEMMA TimerKeepsDelays ==
  ASSUME SystemInv, NEW t \in Task
  PROVE  /\ TimerFinish(t) => DelaysServed(s, s')
         /\ TimerCall(t) => DelaysServed(s, s')
<1>1. Leaves(s, s) /\ Leaves(s, Lock(s))
  BY LeavesNone, LeavesLock
<1>2. ASSUME TimerInserts(t) PROVE Leaves(s, s')
  <2>1. s' = InsertTmrList(Lock(s), pc[t].id) /\ Runs(t, "insert")
    BY <1>2 DEF TimerInserts
  <2>2. Carries(pc[t]) = "insert" /\ CallRight(s, pc[t], t)
    BY <2>1, AtPlace DEF UnlockPlaces
  <2>3. pc[t].id \in Timer
    BY <2>2 DEF CallRight, TimerPlaces
  <2>4. Timed(Lock(s))
    BY LockRight, RightTimed
  <2> QED  BY <1>1, <2>1, <2>3, <2>4, LeavesTimerInserted, LeavesAgain
<1>3. ASSUME TimerRemoves(t) PROVE Leaves(s, s')
  BY <1>1, <1>3, LeavesTimerRemoved, LeavesAgain DEF TimerRemoves
<1>4. ASSUME TimerStops(t) \/ TimerFree(t) \/ TimerFills(t) PROVE Leaves(s, s')
  BY <1>4 DEF TimerStops, TimerFree, TimerFills, Leaves, Fields
<1>5. ASSUME NEW type, NEW cnt, NEW reload, CoCreateTmr(t, type, cnt, reload)
      PROVE  Leaves(s, s')
  <2> DEFINE r1 == Lock(s)
  <2>1. s' = r1 \/ \E a : s' = [r1 EXCEPT !.TmrIDVessel = a]
    BY <1>5 DEF CoCreateTmr
  <2> HIDE DEF r1
  <2>2. \A a : Leaves(r1, [r1 EXCEPT !.TmrIDVessel = a])
    BY DEF Leaves, Fields
  <2>3. Leaves(s, r1)
    BY <1>1 DEF r1
  <2> QED  BY <2>1, <2>2, <2>3, LeavesAgain
<1>6. ASSUME NEW i, CoStartTmr(t, i) PROVE Leaves(s, s')
  BY <1>6 DEF CoStartTmr, Leaves, Fields
<1>7. ASSUME NEW i, CoStopTmr(t, i) \/ CoDelTmr(t, i) PROVE Leaves(s, s')
  BY <1>1, <1>7 DEF CoStopTmr, CoDelTmr
<1>8. ASSUME NEW i, NEW cnt, NEW reload, CoSetTmrCnt(t, i, cnt, reload) PROVE Leaves(s, s')
  BY <1>8 DEF CoSetTmrCnt, Leaves, Fields
<1>9. TimerFinish(t) => Leaves(s, s')
  BY <1>1, <1>2, <1>3, <1>4 DEF TimerFinish, TimerGone
<1>10. TimerCall(t) => Leaves(s, s')
  BY <1>5, <1>6, <1>7, <1>8 DEF TimerCall
<1> QED  BY <1>9, <1>10, LeavesKeep

(* Whose place changes: the task that acts, which renews no delay.         *)
Moved(c) == \A d \in Context \ {c} : pc'[d] = pc[d]

LEMMA MovedBy ==
  ASSUME PlacesRight(pc), NEW c
  PROVE  /\ \A at : Goto(c, at) => Moved(c)
         /\ \A ret : Unlocks(c, ret) => Moved(c)
         /\ Continue(c) => Moved(c)
         /\ Return(c) => Moved(c)
         /\ \A i, at, ret : WithTimer(c, i, at, ret) => Moved(c)
         /\ \A v : pc' = [pc EXCEPT ![c] = v] => Moved(c)
         /\ \A x, y : pc' = [pc EXCEPT ![c].at = x, ![c].val = y] => Moved(c)
         /\ \A x, y : pc' = [pc EXCEPT ![c].at = x, ![c].flags = y] => Moved(c)
         /\ \A x, y : pc' = [pc EXCEPT ![c].at = x, ![c].ids = y] => Moved(c)
         /\ pc' = pc => Moved(c)
<1>1. DOMAIN pc = Context
  BY DEF PlacesRight
<1> QED  BY <1>1 DEF Moved, Goto, Unlocks, Continue, Return, WithTimer

Calm == \A c \in Context : pc[c].at \in {"renew", "off"} => pc'[c].at = pc[c].at

LEMMA MovedIsCalm ==
  ASSUME NEW c, Moved(c), pc[c].at \notin {"renew", "off"}
  PROVE  Calm
BY DEF Moved, Calm

LEMMA RunsAt ==
  ASSUME NEW c, NEW at, Runs(c, at)
  PROVE  pc[c].at = at
BY DEF Runs

LEMMA UnlockCalm ==
  ASSUME SystemInv, NEW c \in Context, Unlock(c)
  PROVE  Calm
<1>1. PlacesRight(pc)
  BY DEF SystemInv, SystemRight
<1>2. Moved(c)
  BY <1>1, MovedBy DEF Unlock, UnlockNested, UnlockLast, RespondTime, RespondReset,
       RespondTimers, RespondTimersReset, RespondDrain, RespondDone, RespondClear,
       UnlockSched, UnlockRelease
<1>3. pc[c].at \in UnlockPlaces
  BY RunsAt DEF Unlock, UnlockNested, UnlockLast, RespondTime, RespondReset,
       RespondTimers, RespondTimersReset, RespondDrain, RespondDone, RespondClear,
       UnlockSched, UnlockRelease, UnlockPlaces
<1> QED  BY <1>2, <1>3, MovedIsCalm DEF UnlockPlaces

LEMMA FinishCalm ==
  ASSUME SystemInv, NEW t \in Task,
         LeavesSection(t) \/ EventFinish(t) \/ SemFinish(t) \/ FlagFinish(t) \/ TimerFinish(t)
  PROVE  Calm
<1>1. PlacesRight(pc)
  BY DEF SystemInv, SystemRight
<1>2. CASE LeavesSection(t)
  BY <1>1, <1>2, MovedBy, MovedIsCalm, RunsAt DEF LeavesSection
<1>3. CASE EventFinish(t)
  <2>1. Moved(t)
    BY <1>1, <1>3, MovedBy DEF EventFinish, PendBlocks, PendReturns, PendTimesOut, PostStores
  <2>2. pc[t].at \in {"block", "woken", "timed", "post"}
    BY <1>3, RunsAt DEF EventFinish, PendBlocks, PendReturns, PendTimesOut, PostStores
  <2> QED  BY <2>1, <2>2, MovedIsCalm
<1>4. CASE SemFinish(t)
  <2>1. Moved(t)
    BY <1>1, <1>4, MovedBy DEF SemFinish, AcceptLoads, AcceptStores
  <2>2. pc[t].at \in {"accept", "store"}
    BY <1>4, RunsAt DEF SemFinish, AcceptLoads, AcceptStores
  <2> QED  BY <2>1, <2>2, MovedIsCalm
<1>5. CASE FlagFinish(t)
  <2>1. Moved(t)
    BY <1>1, <1>5, MovedBy DEF FlagFinish, FlagReturns, FlagTimesOut, AcceptTakes, SetLoads,
         SetStores, SetWalks, ClearStores
  <2>2. pc[t].at \in {"flagged", "flagtimed", "take", "set", "setf", "walk", "clearf"}
    BY <1>5, RunsAt DEF FlagFinish, FlagReturns, FlagTimesOut, AcceptTakes, SetLoads,
         SetStores, SetWalks, ClearStores
  <2> QED  BY <2>1, <2>2, MovedIsCalm
<1>6. CASE TimerFinish(t)
  <2>1. Moved(t)
    BY <1>1, <1>6, MovedBy DEF TimerFinish, TimerFills, TimerInserts, TimerRemoves, TimerStops,
         TimerGone, TimerFree
  <2>2. pc[t].at \in {"fill", "insert", "remove", "stopped", "gone", "free"}
    BY <1>6, RunsAt DEF TimerFinish, TimerFills, TimerInserts, TimerRemoves, TimerStops,
         TimerGone, TimerFree
  <2> QED  BY <2>1, <2>2, MovedIsCalm
<1> QED  BY <1>2, <1>3, <1>4, <1>5, <1>6

LEMMA CallCalm ==
  ASSUME SystemInv, NEW t \in Task,
         DelayCall(t) \/ SemCall(t) \/ MailCall(t) \/ FlagCall(t) \/ TimerCall(t)
  PROVE  Calm
<1>1. PlacesRight(pc)
  BY DEF SystemInv, SystemRight
<1>2. \A op, c : Makes(op, c) /\ c[1] = t => pc[t].at = "user"
  BY RunsAt DEF Makes
<1>3. CASE DelayCall(t)
  <2>1. Moved(t)
    BY <1>1, <1>3, MovedBy DEF DelayCall, CoTickDelay, EntersSection
  <2>2. pc[t].at = "user"
    BY <1>2, <1>3 DEF DelayCall, CoTickDelay, EntersSection
  <2> QED  BY <2>1, <2>2, MovedIsCalm
<1>4. CASE SemCall(t)
  <2>1. Moved(t)
    BY <1>1, <1>4, MovedBy DEF SemCall, CoPendSem, CoPostSem, CoAcceptSem, Pend, PostTested
  <2>2. pc[t].at = "user"
    BY <1>2, <1>4 DEF SemCall, CoPendSem, CoPostSem, CoAcceptSem
  <2> QED  BY <2>1, <2>2, MovedIsCalm
<1>5. CASE MailCall(t)
  <2>1. Moved(t)
    BY <1>1, <1>5, MovedBy DEF MailCall, CoPendMail, CoPendQueueMail, CoPostMail,
         CoPostQueueMail, CoAcceptMail, CoAcceptQueueMail, Pend, PostTested
  <2>2. pc[t].at = "user"
    BY <1>2, <1>5 DEF MailCall, CoPendMail, CoPendQueueMail, CoPostMail, CoPostQueueMail,
         CoAcceptMail, CoAcceptQueueMail
  <2> QED  BY <2>1, <2>2, MovedIsCalm
<1>6. CASE FlagCall(t)
  <2>1. Moved(t)
    BY <1>1, <1>6, MovedBy DEF FlagCall, CoWaitForFlags, CoAcceptFlags, CoSetFlag, CoClearFlag,
         CoCreateFlag, CoDelFlag
  <2>2. pc[t].at = "user"
    BY <1>2, <1>6, ZenonT(60)
      DEF FlagCall, CoWaitForFlags, CoAcceptFlags, CoSetFlag, CoClearFlag,
         CoCreateFlag, CoDelFlag
  <2> QED  BY <2>1, <2>2, MovedIsCalm
<1>7. CASE TimerCall(t)
  <2>1. Moved(t)
    BY <1>1, <1>7, MovedBy, ZenonT(60)
      DEF TimerCall, CoCreateTmr, CoStartTmr, CoStopTmr, CoSetTmrCnt, CoDelTmr
  <2>2. pc[t].at = "user"
    BY <1>2, <1>7 DEF TimerCall, CoCreateTmr, CoStartTmr, CoStopTmr, CoSetTmrCnt, CoDelTmr
  <2> QED  BY <2>1, <2>2, MovedIsCalm
<1> QED  BY <1>3, <1>4, <1>5, <1>6, <1>7

LEMMA UnlockKeepsDelays ==
  ASSUME SystemInv, NEW c \in Context, Unlock(c)
  PROVE  DelaysServed(s, s')
<1>1. Right(s, Ids(pc), {}) /\ DOMAIN s = Fields
  BY RightNow
<1>2. DelaysServed(s, s)
  BY DelaysSame
<1>3. \A f, v : f \in {"k", "TimeReq", "TimerReq", "IsrReq"} /\ s' = [s EXCEPT ![f] = v]
        => DelaysServed(s, s')
  <2> SUFFICES ASSUME NEW f \in {"k", "TimeReq", "TimerReq", "IsrReq"}, NEW v,
                      s' = [s EXCEPT ![f] = v]
               PROVE  s'.DlyList = s.DlyList /\ s'.delayTick = s.delayTick
    BY DelaysSame
  <2> QED  BY <1>1 DEF Fields
<1>4. CASE UnlockNested(c)
  BY <1>3, <1>4 DEF UnlockNested
<1>5. CASE UnlockLast(c) \/ RespondDone(c)
  BY <1>2, <1>5 DEF UnlockLast, RespondDone
<1>6. CASE RespondTime(c)
  <2>1. s' \in {s, TimeDispose(s)}
    BY <1>6 DEF RespondTime
  <2>2. Serves(s, TimeDispose(s), {})
    BY <1>1, DelaysDisposed
  <2>3. DelaysServed(s, TimeDispose(s))
    BY <2>2, ServesKeepDelays
  <2> QED  BY <1>2, <2>1, <2>3
<1>7. CASE RespondReset(c) \/ RespondTimersReset(c) \/ RespondClear(c)
  <2>1. \E f \in {"TimeReq", "TimerReq", "IsrReq"} : \E v : s' = [s EXCEPT ![f] = v]
    BY <1>7 DEF RespondReset, RespondTimersReset, RespondClear, ClearIsrReq
  <2> QED  BY <1>3, <2>1
<1>8. CASE RespondTimers(c)
  <2>1. s' \in {s, TmrDispose(s)}
    BY <1>8 DEF RespondTimers
  <2>2. Serves(s, TmrDispose(s), {NoEvent})
    BY <1>1, TimersDisposed
  <2>3. DelaysServed(s, TmrDispose(s))
    BY <2>2, TicksApart, ServesKeepDelays
  <2> QED  BY <1>2, <2>1, <2>3
<1>9. CASE RespondDrain(c)
  <2>1. s.cnt # 0 /\ s' = ServeRequest(s)
    BY <1>9 DEF RespondDrain
  <2>2. Serves(s, s', Devices(s))
    BY <1>1, <2>1, Served
  <2> QED  BY <2>2, TicksApart, ServesKeepDelays
<1>10. CASE UnlockSched(c)
  BY <1>3, <1>10 DEF UnlockSched
<1>11. CASE UnlockRelease(c)
  BY <1>3, <1>11 DEF UnlockRelease
<1> QED  BY <1>4, <1>5, <1>6, <1>7, <1>8, <1>9, <1>10, <1>11 DEF Unlock

LEMMA DeviceKeepsDelays ==
  ASSUME SystemInv, s.app \in App, NEW q \in Calls[s.app].isr, DeviceISR(q)
  PROVE  DelaysServed(s, s')
<1> DEFINE ke == CoEnterISR(s.k)
           e  == [s EXCEPT !.k = ke]
           x  == isr_Request(e, q)
<1>1. s' = [x EXCEPT !.k = CoExitISR(@)]
  BY DEF DeviceISR
<1>2. /\ ke \in Kernel /\ ke.state = s.k.state /\ ke.prio = s.k.prio /\ ke.TCBRdy = s.k.TCBRdy
  <2>1. s.k.OSIntNesting = 0 /\ s.k \in Kernel
    BY DEF SystemInv, SystemRight, LocksRight, Right, Shape
  <2>2. ke = [s.k EXCEPT !.OSIntNesting = 1]
    BY <2>1 DEF CoEnterISR, Inc8
  <2> HIDE DEF ke
  <2> QED  BY <2>1, <2>2 DEF Kernel
<1> HIDE DEF ke
<1>3. Right(e, Ids(pc), {}) /\ Only(s, e, {"k"})
  BY <1>2, RightNow, KernelSame
<1> HIDE DEF e
<1>4. RequestRight(e.app, q)
  <2>1. e.app = s.app
    BY <1>3 DEF Only, Fields
  <2>2. q \in DeviceRequest
    BY CallTypes
  <2>3. q[1] = "sem" => PostsFromIsr(s.app, q[2])
    BY DEF PostsFromIsr
  <2> QED  BY <2>1, <2>2, <2>3 DEF RequestRight
<1>5. Right(x, Ids(pc), {}) /\ Serves(e, x, Devices(e))
  BY <1>3, <1>4, CalledFromIsr
<1>6. SameWaits(s, e)
  BY <1>3 DEF Only, SameWaits, Fields
<1>7. DOMAIN x = Fields
  BY <1>5 DEF Right, Shape
<1>8. DelaysServed(e, x)
  BY <1>5, TicksApart, ServesKeepDelays
<1> HIDE DEF x
<1>9. SameWaits(x, s')
  BY <1>1, <1>7 DEF SameWaits, Fields
<1> QED  BY <1>6, <1>8, <1>9, ServedBetween

LEMMA TickKeepsDelays ==
  ASSUME SystemInv, SysTick_Handler
  PROVE  /\ DelaysTick(s, s') /\ pc[Tmr].at = "off" /\ pc'[Tmr].at # "off"
         /\ \A c \in Context : pc[c].at = "renew" => pc'[c].at = "renew"
<1> DEFINE r1 == [s EXCEPT !.k = SysTickEntry(s.k)]
<1>1. s' = Tick(s) /\ Unlocks(Tmr, "off") /\ pc[Tmr].at = "off"
  BY DEF SysTick_Handler
<1>2. Only(s, r1, {"k"}) /\ DelaysTick(r1, s')
  BY <1>1, RightNow, Ticked
<1>3. SameWaits(s, r1)
  BY <1>2 DEF Only, SameWaits, Fields
<1> HIDE DEF r1
<1>4. DelaysTick(s, s')
  BY <1>2, <1>3 DEF SameWaits, DelaysTick, Ended, TicksLeft, Due
<1>5. DOMAIN pc = Context /\ Tmr \in Context
  BY DEF SystemInv, SystemRight, PlacesRight, Context
<1>6. pc'[Tmr].at = "unlock" /\ \A c \in Context \ {Tmr} : pc'[c] = pc[c]
  BY <1>1, <1>5 DEF Unlocks
<1> QED  BY <1>1, <1>4, <1>6

(* What DelaysKept says of the step that is taken, and of one task.        *)
DelayKept(t) ==
  s.delayTick[t] # NoDelay =>
    LET left == TicksLeft(s, t)
        now  == left - (IF TickStep THEN 1 ELSE 0)
        wish == {pc[u].ticks : u \in Renewing(t)}
    IN  IF s'.delayTick[t] # NoDelay
        THEN TicksLeft(s', t) \in (IF wish = {} THEN {left, now} ELSE wish)
        ELSE now <= 0 \/ WaitEnds(t) \/ wish = {0}

(* A delay that the serving of requests ends was over, or its task has got *)
(* what it waits for.                                                      *)
LEMMA EndedRightly ==
  ASSUME SystemInv, NEW t \in Task, s.delayTick[t] # NoDelay
  PROVE  /\ TicksLeft(s, t) \in Nat
         /\ Ended(s, s', t) => TicksLeft(s, t) <= 0 \/ WaitEnds(t)
<1>1. WaitersRight(s, Ids(pc)) /\ DelaysListed(s)
  BY DelaysNow DEF SystemInv, SystemRight, Right
<1>2. TicksLeft(s, t) \in Nat
  <2>1. Delayed(s) /\ \E i \in 1 .. Len(s.DlyList) : s.DlyList[i] = t
    BY <1>1, DelaysAt DEF DelaysListed
  <2> QED  BY <2>1, TicksNat
<1>3. s.eventID[t] # NoEvent => s.pmail[t] = NoMail
  BY <1>1 DEF WaitersRight
<1> QED  BY <1>2, <1>3 DEF Ended, WaitEnds

LEMMA CalmKept ==
  ASSUME SystemInv, DelaysServed(s, s'), Calm, NEW t \in Task, s.delayTick[t] # NoDelay
  PROVE  DelayKept(t)
<1>1. Renewing(t) = {} /\ ~TickStep
  BY TmrApart DEF Renewing, TickStep, Calm
<1>2. TicksLeft(s, t) \in Nat /\ (Ended(s, s', t) => TicksLeft(s, t) <= 0 \/ WaitEnds(t))
  BY EndedRightly
<1>3. IF s'.delayTick[t] # NoDelay THEN TicksLeft(s', t) = TicksLeft(s, t) ELSE Ended(s, s', t)
  BY DEF DelaysServed
<1> HIDE DEF WaitEnds
<1> QED  BY <1>1, <1>2, <1>3 DEF DelayKept

LEMMA TickKept ==
  ASSUME SystemInv, SysTick_Handler, NEW t \in Task, s.delayTick[t] # NoDelay
  PROVE  DelayKept(t)
<1>1. /\ DelaysTick(s, s') /\ TickStep
      /\ \A c \in Context : pc[c].at = "renew" => pc'[c].at = "renew"
  BY TickKeepsDelays DEF TickStep
<1>2. Renewing(t) = {}
  BY <1>1, TmrApart DEF Renewing
<1>3. TicksLeft(s, t) \in Nat /\ (Ended(s, s', t) => TicksLeft(s, t) <= 0 \/ WaitEnds(t))
  BY EndedRightly
<1>4. IF s'.delayTick[t] # NoDelay
      THEN TicksLeft(s', t) \in {TicksLeft(s, t), TicksLeft(s, t) - 1}
      ELSE TicksLeft(s, t) <= 1 \/ Ended(s, s', t)
  BY <1>1 DEF DelaysTick
<1>5. TicksLeft(s, t) <= 1 \/ Ended(s, s', t) => TicksLeft(s, t) - 1 <= 0 \/ WaitEnds(t)
  BY <1>3
<1> QED  BY <1>1, <1>2, <1>4, <1>5 DEF DelayKept

(* A renewed delay is as long as was asked for, and shortens no other.     *)
LEMMA RenewKept ==
  ASSUME SystemInv, RenewRules, NEW t \in Task, CoResetTaskDelayTick(t), NEW v \in Task,
         s.delayTick[v] # NoDelay
  PROVE  DelayKept(v)
<1> DEFINE u == pc[t].id
           ticks == pc[t].ticks
           r1 == Lock(s)
           d == EndDelay(r1, u)
<1>1. Runs(t, "renew")
  BY DEF CoResetTaskDelayTick
<1>2. "renew" \notin {"user"} \cup UnlockPlaces
  BY DEF UnlockPlaces
<1>3. /\ RunsIn(s, pc, t, "renew") /\ Carries(pc[t]) = "renew" /\ CallRight(s, pc[t], t)
      /\ s.app \in App /\ PlacesRight(pc)
  BY <1>1, <1>2, AtPlace DEF SystemInv, SystemRight
<1>4. u \in Task /\ ticks \in Nat
  <2>1. <<t, u, ticks>> \in Calls[s.app].renew
    BY <1>3 DEF CallRight
  <2>2. <<t, u, ticks>> \in Caller \X Task \X Nat
    BY <1>3, <2>1, CallTypes
  <2> QED  BY <2>2
<1>5. /\ pc[t].at = "renew" /\ pc'[t].at # "renew" /\ Moved(t)
      /\ ~TickStep
  <2>1. Moved(t)
    BY <1>3, MovedBy DEF CoResetTaskDelayTick
  <2>2. pc[t].at = "renew" /\ t # Tmr
    BY <1>3, TmrApart DEF RunsIn
  <2>3. DOMAIN pc = Context /\ t \in Context
    BY <1>3, TmrApart DEF PlacesRight
  <2>4. Goto(t, "renewed") \/ Unlocks(t, "renewed")
    BY DEF CoResetTaskDelayTick
  <2>5. ~TickStep
    BY <2>1, <2>2, TmrApart DEF Moved, TickStep
  <2>6. pc'[t].at # "renew"
    <3>1. "renew" \notin {"renewed", "unlock"}
      OBVIOUS
    <3>2. Goto(t, "renewed") => pc'[t].at = "renewed"
      BY <1>3, GotoGo DEF At, DelayPlaces
    <3>3. Unlocks(t, "renewed") => pc'[t].at = "unlock"
      BY <1>3, UnlocksGo DEF At, DelayPlaces
    <3> QED  BY <2>4, <3>1, <3>2, <3>3
  <2> QED  BY <2>1, <2>2, <2>5, <2>6
<1>6. Renewing(v) = IF v = u THEN {t} ELSE {}
  <2>1. \A w \in Task : w \in Renewing(v) <=> w = t /\ v = u
    BY <1>5, TmrApart DEF Renewing, Moved
  <2>2. Renewing(v) \subseteq Task
    BY DEF Renewing
  <2> QED  BY <2>1, <2>2
<1>7. IF s.delayTick[u] = NoDelay
      THEN s' = s
      ELSE s' = IF ticks = 0 THEN InsertReady(RemoveDelayList(r1, u), u)
                             ELSE InsertDelayList(RemoveDelayList(r1, u), u, ticks)
  BY DEF CoResetTaskDelayTick
<1>8. /\ Right(r1, Ids(pc), {}) /\ r1.delayTick = s.delayTick
      /\ \A w : TicksLeft(r1, w) = TicksLeft(s, w)
  <2>1. Right(r1, Ids(pc), {}) /\ Only(s, r1, {"k"}) /\ r1.delayTick = s.delayTick
    BY SectionStarts
  <2>2. r1.DlyList = s.DlyList
    BY <2>1 DEF Only, Fields
  <2> QED  BY <2>1, <2>2 DEF TicksLeft, Due
<1>9. TicksLeft(s, v) \in Nat
  BY EndedRightly
<1>10. d = EndDelay(r1, u)
  OBVIOUS
<1>11. s.delayTick[u] # NoDelay => d = RemoveDelayList(r1, u)
  BY <1>8 DEF EndDelay
<1> HIDE DEF u, r1, d
<1>12. CASE s.delayTick[u] = NoDelay
  <2>1. v # u /\ s' = s
    BY <1>7, <1>12
  <2>2. Renewing(v) = {}
    BY <1>6, <2>1
  <2> QED  BY <1>5, <1>9, <2>1, <2>2 DEF DelayKept
<1>13. CASE s.delayTick[u] # NoDelay
  <2>1. s' = IF ticks = 0 THEN InsertReady(d, u) ELSE InsertDelayList(d, u, ticks)
    BY <1>7, <1>11, <1>13
  <2>2. Right(d, Ids(pc), {} \cup {u}) /\ d.delayTick[u] = NoDelay
    <3>1. /\ Right(d, Ids(pc), {} \cup {u}) /\ Only(r1, d, {"DlyList", "delayTick"})
          /\ d.delayTick[u] = NoDelay
          /\ \A w \in Task \ {u} : d.delayTick[w] = NoDelay <=> r1.delayTick[w] = NoDelay
      BY <1>4, <1>8, <1>10, DelayEnded
    <3> QED  BY <3>1
  <2>3. v # u => d.delayTick[v] # NoDelay /\ TicksLeft(d, v) = TicksLeft(s, v)
    BY <1>4, <1>8, <1>10, TicksEnded
  <2>4. DelaysListed(d)
    BY <2>2 DEF Right, Shape, DelaysListed
  <2>5. CASE ticks = 0
    <3>1. s'.DlyList = d.DlyList /\ s'.delayTick = d.delayTick
      BY <2>1, <2>4, <2>5 DEF InsertReady, DelaysListed, Fields
    <3>2. \A w : TicksLeft(s', w) = TicksLeft(d, w)
      BY <3>1 DEF TicksLeft, Due
    <3>3. CASE v = u
      <4>1. {pc[w].ticks : w \in Renewing(v)} = {0}
        BY <1>6, <2>5, <3>3
      <4>2. s'.delayTick[v] = NoDelay
        BY <2>2, <3>1, <3>3
      <4> QED  BY <4>1, <4>2 DEF DelayKept
    <3>4. CASE v # u
      <4>1. Renewing(v) = {}
        BY <1>6, <3>4
      <4>2. s'.delayTick[v] # NoDelay /\ TicksLeft(s', v) = TicksLeft(s, v)
        BY <2>3, <3>1, <3>2, <3>4
      <4> QED  BY <1>5, <1>9, <4>1, <4>2 DEF DelayKept
    <3> QED  BY <3>3, <3>4
  <2>6. CASE ticks # 0
    <3>1. s' = InsertDelayList(d, u, ticks) /\ ticks \in Nat \ {0}
      BY <1>4, <2>1, <2>6
    <3>2. /\ s'.delayTick[u] # NoDelay /\ TicksLeft(s', u) = ticks
          /\ \A w \in Task : d.delayTick[w] # NoDelay =>
               s'.delayTick[w] # NoDelay /\ TicksLeft(s', w) = TicksLeft(d, w)
      BY <1>4, <2>2, <2>4, <3>1, TicksInserted DEF DelaysListed
    <3>3. CASE v = u
      <4>1. {pc[w].ticks : w \in Renewing(v)} = {ticks}
        BY <1>6, <3>3
      <4> QED  BY <3>2, <3>3, <4>1 DEF DelayKept
    <3>4. CASE v # u
      <4>1. Renewing(v) = {}
        BY <1>6, <3>4
      <4>2. s'.delayTick[v] # NoDelay /\ TicksLeft(s', v) = TicksLeft(s, v)
        BY <2>3, <3>2, <3>4
      <4> QED  BY <1>5, <1>9, <4>1, <4>2 DEF DelayKept
    <3> QED  BY <3>3, <3>4
  <2> QED  BY <2>5, <2>6
<1> QED  BY <1>12, <1>13

LEMMA NextKeepsDelays ==
  ASSUME StaticEvents, RenewRules, SystemInv, Next, NEW v \in Task, s.delayTick[v] # NoDelay
  PROVE  DelayKept(v)
<1>1. SystemRight(s, pc) /\ s.app \in App
  BY RightNow DEF SystemInv
<1>2. ASSUME NEW c \in Context, Unlock(c) PROVE DelayKept(v)
  BY <1>2, UnlockKeepsDelays, UnlockCalm, CalmKept
<1>3. ASSUME NEW t \in Task, Finish(t) PROVE DelayKept(v)
  <2>1. CASE Unlock(t)
    BY <1>2, <2>1, TmrApart
  <2>2. CASE CoResetTaskDelayTick(t)
    BY <2>2, RenewKept
  <2>3. CASE LeavesSection(t) \/ EventFinish(t) \/ SemFinish(t) \/ FlagFinish(t) \/ TimerFinish(t)
    <3>1. DelaysServed(s, s')
      BY <2>3, DelayKeepsDelays, SemKeepsDelays, FlagKeepsDelays, TimerKeepsDelays
    <3> QED  BY <2>3, <3>1, FinishCalm, CalmKept
  <2>4. ~EcbFinish(t)
    BY EcbIdle
  <2> QED  BY <1>3, <2>1, <2>2, <2>3, <2>4 DEF Finish, DelayFinish
<1>4. ASSUME NEW t \in Task, Call(t) PROVE DelayKept(v)
  <2>1. ~EcbCall(t)
    BY NoEcbCall
  <2>2. DelayCall(t) \/ SemCall(t) \/ MailCall(t) \/ FlagCall(t) \/ TimerCall(t)
    BY <1>4, <2>1 DEF Call
  <2>3. DelaysServed(s, s')
    BY <2>2, DelayKeepsDelays, SemKeepsDelays, MailKeepsDelays, FlagKeepsDelays, TimerKeepsDelays
  <2> QED  BY <2>2, <2>3, CallCalm, CalmKept
<1>5. ASSUME Exception PROVE DelayKept(v)
  <2>1. CASE Unlock(Tmr)
    BY <1>2, <2>1, TmrApart
  <2>2. CASE PendSV
    <3>1. DOMAIN s = Fields
      BY RightNow
    <3>2. s'.DlyList = s.DlyList /\ s'.delayTick = s.delayTick
      BY <2>2, <3>1 DEF PendSV, Fields
    <3>3. Calm
      BY <2>2 DEF PendSV, Calm
    <3> QED  BY <3>2, <3>3, DelaysSame, CalmKept
  <2>3. CASE SysTick_Handler
    BY <2>3, TickKept
  <2>4. ASSUME NEW q \in Calls[s.app].isr, DeviceISR(q) PROVE DelayKept(v)
    <3>1. DelaysServed(s, s')
      BY <1>1, <2>4, DeviceKeepsDelays
    <3>2. Calm
      BY <2>4 DEF DeviceISR, Calm
    <3> QED  BY <3>1, <3>2, CalmKept
  <2> QED  BY <1>5, <2>1, <2>2, <2>3, <2>4 DEF Exception
<1> QED  BY <1>3, <1>4, <1>5 DEF Next

(* A delay and a timeout last as long as was asked for: whoever is put     *)
(* into the delay list or taken out of it, only the tick shortens the wait *)
(* of another, by one, and none ends before its time but with what its     *)
(* task waits for.                                                         *)
THEOREM DelaysStayKept ==
  ASSUME StaticEvents, RenewRules
  PROVE  Spec => DelaysKept
<1> DEFINE Kept ==
      \A t \in Task : s.delayTick[t] # NoDelay =>
        LET left == TicksLeft(s, t)
            now  == left - (IF TickStep THEN 1 ELSE 0)
            wish == {pc[u].ticks : u \in Renewing(t)}
        IN  IF s'.delayTick[t] # NoDelay
            THEN TicksLeft(s', t) \in (IF wish = {} THEN {left, now} ELSE wish)
            ELSE now <= 0 \/ WaitEnds(t) \/ wish = {0}
<1>1. Spec => []SystemInv
  BY ServicesStayRight
<1>2. SystemInv /\ [Next]_vars => [Kept]_vars
  <2> SUFFICES ASSUME SystemInv, Next PROVE Kept
    OBVIOUS
  <2> QED  BY NextKeepsDelays DEF DelayKept
<1> QED  BY <1>1, <1>2, PTL DEF DelaysKept, Spec

=============================================================================
