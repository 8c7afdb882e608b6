------------------------------ MODULE CoService ------------------------------
(***************************************************************************)
(* What posting, setting, expiring and serving do under the scheduler lock *)
(* (event.c, sem.c, mbox.c, queue.c, flag.c, timer.c, serviceReq.c):       *)
(* operators on the record of CoEvent.  CoThread and the modules of the    *)
(* services say which context runs them, and where it can be interrupted.  *)
(***************************************************************************)
EXTENDS CoEvent

(* eventCounter is a U16. *)
Wrap(n) == n % 65536

-----------------------------------------------------------------------------
(* A queue of mails: a ring of qMaxSize cells. *)

OldestMail(r, e) ==
  LET q == r.QueueTbl[r.eventPtr[e]] IN q.qStart[q.head]

Dequeue(r, e) ==
  LET q == r.eventPtr[e]
      c == r.QueueTbl[q]
  IN  [r EXCEPT !.QueueTbl[q] =
         [c EXCEPT !.head  = IF c.head + 1 = c.qMaxSize THEN 0 ELSE c.head + 1,
                   !.qSize = c.qSize - 1]]

Enqueue(r, e, m) ==
  LET q == r.eventPtr[e]
      c == r.QueueTbl[q]
  IN  [r EXCEPT !.QueueTbl[q] =
         [c EXCEPT !.qStart[c.tail] = m,
                   !.tail           = IF c.tail + 1 = c.qMaxSize THEN 0 ELSE c.tail + 1,
                   !.qSize          = c.qSize + 1]]

(* The mails of a queue, oldest first. *)
Ring(r, q) ==
  LET c == r.QueueTbl[q]
  IN  [i \in 1 .. c.qSize |-> c.qStart[(c.head + i - 1) % c.qMaxSize]]

-----------------------------------------------------------------------------
(* EventTaskToRdy(): what was posted goes to the first waiter. *)

(* The first waiter leaves the list of e by the head.                      *)
TakeFirst(r, e) ==
  LET t    == r.eventTCBList[e]
      next == r.waitNext[t]
  IN  [r EXCEPT !.eventTCBList = [@ EXCEPT ![e] = next],
                !.waitPrev     = [u \in Task |-> IF u = next THEN NoTask ELSE @[u]],
                !.waitNext     = [@ EXCEPT ![t] = NoTask],
                !.eventID      = [@ EXCEPT ![t] = NoEvent]]

(* Mutants: the counter keeps the permit that the waiter is given; the     *)
(* woken task is not told that it was woken by a post.                     *)
GivePermitFree(r, e, t) == [r EXCEPT !.pmail = [@ EXCEPT ![t] = Woken]]

GivePermitUntold(r, e, t) ==
  [r EXCEPT !.eventCounter = [@ EXCEPT ![e] = Wrap(@ - 1)]]

GivePermit(r, e, t) ==
  [r EXCEPT !.eventCounter = [@ EXCEPT ![e] = Wrap(r.eventCounter[e] - 1)],
            !.pmail        = [@ EXCEPT ![t] = Woken]]

(* Mutant: the mail stays in the box.                                      *)
GiveCopy(r, e, t) == [r EXCEPT !.pmail = [@ EXCEPT ![t] = r.eventPtr[e]]]

GiveMail(r, e, t) ==
  [r EXCEPT !.pmail        = [@ EXCEPT ![t] = r.eventPtr[e]],
            !.eventPtr     = [@ EXCEPT ![e] = NoMail],
            !.eventCounter = [@ EXCEPT ![e] = Wrap(r.eventCounter[e] - 1)]]

GiveOldest(r, e, t) ==
  Dequeue([r EXCEPT !.pmail = [@ EXCEPT ![t] = OldestMail(r, e)]], e)

Give(r, e, t) ==
  CASE r.eventType[e] = "sem"   -> GivePermit(r, e, t)
    [] r.eventType[e] = "mbox"  -> GiveMail(r, e, t)
    [] r.eventType[e] = "queue" -> GiveOldest(r, e, t)
    [] OTHER -> r

EventTaskToRdy(r, e) ==
  LET t == r.eventTCBList[e]
  IN  IF t = NoTask THEN r ELSE Wake(Give(EndDelay(TakeFirst(r, e), t), e, t), t)

-----------------------------------------------------------------------------
(* The posts, after their test for room. *)

SemFull(r, e) == r.eventCounter[e] = r.initialEventCounter[e]

MailFull(r, e) == r.eventCounter[e] # 0

(* Mutant: one mail more than the queue is long.                           *)
QueueOverFull(r, e) ==
  r.QueueTbl[r.eventPtr[e]].qSize = r.QueueTbl[r.eventPtr[e]].qMaxSize + 1

QueueFull(r, e) ==
  r.QueueTbl[r.eventPtr[e]].qSize = r.QueueTbl[r.eventPtr[e]].qMaxSize

IsFull(r, e) ==
  CASE r.eventType[e] = "sem"   -> SemFull(r, e)
    [] r.eventType[e] = "mbox"  -> MailFull(r, e)
    [] r.eventType[e] = "queue" -> QueueFull(r, e)

PostSem(r, e) ==
  EventTaskToRdy([r EXCEPT !.eventCounter = [@ EXCEPT ![e] = Wrap(r.eventCounter[e] + 1)],
                           !.balance      = [@ EXCEPT ![e] = r.balance[e] + 1]], e)

PostMail(r, e, m) ==
  EventTaskToRdy([r EXCEPT !.eventPtr     = [@ EXCEPT ![e] = m],
                           !.eventCounter = [@ EXCEPT ![e] = 1],
                           !.out          = @ \cup {m}], e)

PostQueueMail(r, e, m) ==
  EventTaskToRdy([Enqueue(r, e, m) EXCEPT !.out = @ \cup {m}], e)

Post(r, e, m) ==
  CASE r.eventType[e] = "sem"   -> PostSem(r, e)
    [] r.eventType[e] = "mbox"  -> PostMail(r, e, m)
    [] r.eventType[e] = "queue" -> PostQueueMail(r, e, m)

-----------------------------------------------------------------------------
(* CoSetFlag(): the flag, and the walk along the waiters. *)

Met(type, flags, ready) ==
  IF type = "all" THEN flags \subseteq ready ELSE flags \cap ready # {}

Satisfied(r, t) == Met(r.waitType[t], r.waitFlags[t], r.flagRdy)

(* Mutant: nobody but the first waiter is looked at.                       *)
WakeHead(r, f) ==
  IF r.nodes # <<>> /\ Satisfied(r, Head(r.nodes)) THEN RemoveFromLink(r, Head(r.nodes))
                                                   ELSE r

(* The elements of a list that are in S, in their order.                   *)
Those(list, S) ==
  LET f[i \in 0 .. Len(list)] ==
        IF i = 0 THEN <<>>
        ELSE IF list[i] \in S THEN Append(f[i - 1], list[i]) ELSE f[i - 1]
  IN  f[Len(list)]

(* The waiters that have what they wait for, but only the first of them if *)
(* the flag is reset automatically.                                        *)
WakeSatisfied(r, f) ==
  LET ready == Those(r.nodes, {t \in Task : Satisfied(r, t)})
      woken == IF f \in r.resetOpt /\ ready # <<>> THEN <<Head(ready)>> ELSE ready
      after[i \in 0 .. Len(woken)] ==
        IF i = 0 THEN r ELSE RemoveFromLink(after[i - 1], woken[i])
  IN  after[Len(woken)]

SetFlag(r, f) ==
  IF f \notin r.flagActive \/ f \in r.flagRdy THEN r
  ELSE WakeSatisfied([r EXCEPT !.flagRdy = @ \cup {f}], f)

-----------------------------------------------------------------------------
(* The list of timers (timer.c): every timer holds the ticks it waits      *)
(* longer than the timer before it.                                        *)

Timers(r) ==
  LET next(i) == r.TmrTbl[i].tmrNext
      at[i \in 1 .. MaxTimer + 1] ==
        IF i = 1 THEN r.TmrList
        ELSE IF at[i - 1] = NoTimer THEN NoTimer ELSE next(at[i - 1])
      n == CHOOSE i \in 0 .. MaxTimer :
             /\ \A j \in 1 .. i : at[j] # NoTimer
             /\ i = MaxTimer \/ at[i + 1] = NoTimer
  IN  [i \in 1 .. n |-> at[i]]

TimerDue(r) ==
  LET list == Timers(r)
      due[i \in 0 .. Len(list)] ==
        IF i = 0 THEN 0 ELSE due[i - 1] + r.TmrTbl[list[i]].tmrCnt
  IN  due

(* Mutant: the timer behind the new one keeps its own ticks.               *)
InsertTimerAdding(r, t) ==
  LET list == Timers(r)
      due  == TimerDue(r)
      cnt  == r.TmrTbl[t].tmrCnt
      i    == CHOOSE j \in 1 .. Len(list) + 1 :
                /\ \A l \in 1 .. j - 1 : due[l] <= cnt
                /\ j <= Len(list) => cnt < due[j]
      prev == IF i = 1 THEN NoTimer ELSE list[i - 1]
      next == IF i > Len(list) THEN NoTimer ELSE list[i]
  IN  [r EXCEPT !.TmrList = IF i = 1 THEN t ELSE @,
                !.TmrTbl  = [u \in Timer |->
                  CASE u = t -> [@[u] EXCEPT !.tmrCnt = cnt - due[i - 1],
                                             !.tmrPrev = prev, !.tmrNext = next]
                    [] u = prev -> [@[u] EXCEPT !.tmrNext = t]
                    [] u = next -> [@[u] EXCEPT !.tmrPrev = t]
                    [] OTHER -> @[u]]]

(* Before the first timer that expires later.  The links that the code     *)
(* leaves alone are those of a timer that is first or last.                *)
InsertTmrList(r, t) ==
  LET list == Timers(r)
      due  == TimerDue(r)
      cnt  == r.TmrTbl[t].tmrCnt
      i    == CHOOSE j \in 1 .. Len(list) + 1 :
                /\ \A l \in 1 .. j - 1 : due[l] <= cnt
                /\ j <= Len(list) => cnt < due[j]
      mine == cnt - due[i - 1]
      prev == IF i = 1 THEN NoTimer ELSE list[i - 1]
      next == IF i > Len(list) THEN NoTimer ELSE list[i]
  IN  IF cnt = 0 THEN r
      ELSE [r EXCEPT
             !.TmrList = IF i = 1 THEN t ELSE @,
             !.TmrTbl  = [u \in Timer |->
               LET c == r.TmrTbl[u]
               IN  CASE u = t -> [c EXCEPT !.tmrCnt  = mine,
                                           !.tmrPrev = IF i = 1 THEN c.tmrPrev ELSE prev,
                                           !.tmrNext = IF next = NoTimer THEN c.tmrNext ELSE next]
                     [] u = prev -> [c EXCEPT !.tmrNext = t]
                     [] u = next -> [c EXCEPT !.tmrPrev = t, !.tmrCnt = c.tmrCnt - mine]
                     [] OTHER -> c]]

(* The timer goes out of the list by its own links: with no neighbours it  *)
(* is taken for the only one, and the list is emptied.                     *)
RemoveTmrList(r, t) ==
  LET next == r.TmrTbl[t].tmrNext
      prev == r.TmrTbl[t].tmrPrev
  IN  [r EXCEPT
         !.TmrList = IF prev = NoTimer THEN next ELSE @,
         !.TmrTbl  = [u \in Timer |->
           LET c == r.TmrTbl[u]
           IN  CASE u = t    -> [c EXCEPT !.tmrNext = NoTimer, !.tmrPrev = NoTimer]
                 [] u = prev -> [c EXCEPT !.tmrNext = next]
                 [] u = next -> [c EXCEPT !.tmrPrev = prev,
                                          !.tmrCnt  = c.tmrCnt + r.TmrTbl[t].tmrCnt]
                 [] OTHER -> c]]

(* A callback of a timer is a function of the application; here it posts a *)
(* semaphore, or does nothing.  The scheduler is locked wherever it runs.  *)
CallBack(r, t) ==
  LET e == r.TmrTbl[t].tmrCallBack
  IN  IF e = NoEvent \/ SrqFull(r) THEN r ELSE InsertInSRQ(r, <<"sem", e, NoMail>>)

(* Mutant: a periodic timer is not put into the list again.                *)
ExpireOnce(r, t) ==
  CallBack(IF r.TmrTbl[t].tmrType = "oneshot"
           THEN [RemoveTmrList(r, t) EXCEPT !.TmrTbl[t].tmrState = "stopped"]
           ELSE RemoveTmrList(r, t), t)

Expire(r, t) ==
  CallBack(IF r.TmrTbl[t].tmrType = "oneshot"
           THEN [RemoveTmrList(r, t) EXCEPT !.TmrTbl[t].tmrState = "stopped"]
           ELSE InsertTmrList([RemoveTmrList(r, t) EXCEPT
                                 !.TmrTbl[t].tmrCnt = r.TmrTbl[t].tmrReload], t), t)

Expired(r) == r.TmrList # NoTimer /\ r.TmrTbl[r.TmrList].tmrCnt = 0

(* No timer expires twice in a call: one that is restarted is not due.     *)
TmrDispose(r) ==
  LET after[n \in 0 .. MaxTimer] ==
        IF n = 0 THEN r
        ELSE IF Expired(after[n - 1]) THEN Expire(after[n - 1], after[n - 1].TmrList)
        ELSE after[n - 1]
  IN  after[MaxTimer]

isr_TmrDispose(r) ==
  IF r.k.OSSchedLock > 1 THEN [r EXCEPT !.IsrReq = TRUE, !.TimerReq = TRUE]
                         ELSE TmrDispose(r)

(* Mutant: a timer that a locked tick has left at 0 is not looked at again. *)
TickTimersOnce(r) ==
  LET t == r.TmrList
  IN  CASE t = NoTimer -> r
        [] t # NoTimer /\ r.TmrTbl[t].tmrCnt # 1 ->
             IF r.TmrTbl[t].tmrCnt = 0 THEN r ELSE [r EXCEPT !.TmrTbl[t].tmrCnt = @ - 1]
        [] OTHER -> isr_TmrDispose([r EXCEPT !.TmrTbl[t].tmrCnt = 0])

(* What SysTick_Handler() does with the list of timers.                    *)
TickTimers(r) ==
  LET t == r.TmrList
  IN  CASE t = NoTimer -> r
        [] t # NoTimer /\ r.TmrTbl[t].tmrCnt > 1 -> [r EXCEPT !.TmrTbl[t].tmrCnt = @ - 1]
        [] OTHER -> isr_TmrDispose([r EXCEPT !.TmrTbl[t].tmrCnt = 0])

(* SysTick_Handler() up to its OsSchedUnlock(). *)
Tick(r) == TickTimers(TickDelays([r EXCEPT !.k = SysTickEntry(@)]))

-----------------------------------------------------------------------------
(* Serving the requests of interrupts, and making them. *)

(* The call that a request stands for, by a context that holds the lock.   *)
Perform(r, q) ==
  CASE q[1] = "flag" -> SetFlag(r, q[2])
    [] q[1] # "flag" /\ r.eventType[q[2]] = q[1] ->
         IF IsFull(r, q[2]) THEN r ELSE Post(r, q[2], q[3])
    [] OTHER -> r

(* One turn of the loop of RespondSRQ(). *)
ServeRequest(r) == Perform(TakeRequest(r), NextRequest(r))

(* RespondSRQ() in one piece, as an interrupt runs it. *)
RespondSRQ(r) ==
  LET r1 == IF r.TimeReq THEN [TimeDispose(r) EXCEPT !.TimeReq = FALSE] ELSE r
      r2 == IF r1.TimerReq THEN [TmrDispose(r1) EXCEPT !.TimerReq = FALSE] ELSE r1
      after[n \in 0 .. r2.cnt] == IF n = 0 THEN r2 ELSE ServeRequest(after[n - 1])
  IN  ClearIsrReq(after[r2.cnt])

(* Whether the call returns before it locks the scheduler.                 *)
Refused(r, q) ==
  IF q[1] = "flag" THEN q[2] \notin r.flagActive \/ q[2] \in r.flagRdy
                   ELSE r.eventType[q[2]] # q[1] \/ IsFull(r, q[2])

(* An interrupt found the scheduler unlocked and makes the call itself:    *)
(* its OsSchedUnlock() serves the requests, and may not schedule.          *)
PerformDirect(r, q) ==
  LET r1 == Perform(r, q)
  IN  IF Refused(r, q) THEN r ELSE IF r1.IsrReq THEN RespondSRQ(r1) ELSE r1

(* What the four calls of an interrupt share: a request in the ring if the *)
(* scheduler is locked, which a full ring refuses.                         *)
FromIsr(r, q) ==
  IF r.k.OSSchedLock = 0 THEN PerformDirect(r, q)
  ELSE IF SrqFull(r) THEN r
  ELSE [InsertInSRQ(r, q) EXCEPT !.out = @ \cup ({q[3]} \ {NoMail})]

(* The request that each of them makes. *)
isr_PostSem(e)          == <<"sem", e, NoMail>>
isr_PostMail(e, m)      == <<"mbox", e, m>>
isr_PostQueueMail(e, m) == <<"queue", e, m>>
isr_SetFlag(f)          == <<"flag", f, NoMail>>

(* The call of an interrupt that q stands for. *)
isr_Request(r, q) ==
  FromIsr(r, CASE q[1] = "sem"   -> isr_PostSem(q[2])
               [] q[1] = "mbox"  -> isr_PostMail(q[2], q[3])
               [] q[1] = "queue" -> isr_PostQueueMail(q[2], q[3])
               [] q[1] = "flag"  -> isr_SetFlag(q[2]))
=============================================================================
