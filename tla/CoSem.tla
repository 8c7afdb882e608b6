-------------------------------- MODULE CoSem --------------------------------
(***************************************************************************)
(* Semaphores of CooCox CoOS (sem.c), and what their calls have in common  *)
(* with those of mailboxes and queues: a pending task that is put to wait, *)
(* woken or timed out, and a post.                                         *)
(***************************************************************************)
EXTENDS CoThread

(* What the waiting task finds in pmail it takes; history notes it.        *)
Received(r, t, e) ==
  LET m == r.pmail[t]
  IN  [r EXCEPT !.pmail   = [@ EXCEPT ![t] = NoMail],
                !.out     = @ \ {m},
                !.balance = IF m = Woken THEN [@ EXCEPT ![e] = r.balance[e] - 1] ELSE @,
                !.holds   = IF m = Woken
                            THEN [@ EXCEPT ![t] = r.holds[t] \cup ({e} \cap Setup[r.app].locks)]
                            ELSE @]

(* The permit is told to the task. *)
Reported(r, t, e) == Received([r EXCEPT !.pmail = [@ EXCEPT ![t] = Woken]], t, e)

-----------------------------------------------------------------------------
(* Pending: the event is looked at in one locked section, which leaves got *)
(* if there is something, and the task is put to wait in another.  No task *)
(* pends on an event once it is being deleted with OPT_DEL_ANYWAY.         *)
Pend(t, e, ticks, something, got) ==
  /\ s.k.OSSchedLock = 0 /\ Live(e)
  /\ IF something
     THEN s' = got /\ Unlocks(t, "user")
     ELSE /\ s' = Lock(s)
          /\ pc' = [pc EXCEPT ![t] = [Rest("block") EXCEPT
                      !.at = "unlock", !.ret = "block", !.id = e, !.ticks = ticks]]

PendBlocks(t) ==
  LET ticks == pc[t].ticks
  IN  /\ Runs(t, "block")
      /\ s' = InsertDelayList(EventTaskToWait(Lock(s), pc[t].id, t), t, ticks)
      /\ Unlocks(t, IF ticks = 0 THEN "woken" ELSE "timed")

PendReturns(t) ==
  /\ Runs(t, "woken") \/ (Runs(t, "timed") /\ s.pmail[t] # NoMail)
  /\ s' = Received(s, t, pc[t].id)
  /\ Return(t)

PendTimesOut(t) ==
  /\ Runs(t, "timed") /\ s.pmail[t] = NoMail
  /\ Return(t)
  /\ UNCHANGED s

(* Posting: the test for room comes before the lock. *)
PostTested(t, e, m) ==
  /\ ~IsFull(s, e)
  /\ pc' = [pc EXCEPT ![t] = [Rest("user") EXCEPT !.at = "post", !.id = e, !.val = m]]
  /\ UNCHANGED s

PostStores(t) ==
  LET e == pc[t].id
  IN  /\ Runs(t, "post")
      /\ s' = [Post(Lock(s), e, pc[t].val) EXCEPT !.holds[t] = @ \ {e}]
      /\ Unlocks(t, "user")

-----------------------------------------------------------------------------
CoPendSem(t, e, ticks) ==
  /\ Makes("pendSem", <<t, e, ticks>>) /\ e \notin s.holds[t]
  /\ s.eventType[e] = "sem"
  /\ Pend(t, e, ticks, s.eventCounter[e] > 0,
          Reported([Lock(s) EXCEPT !.eventCounter[e] = @ - 1], t, e))

CoPostSem(t, e) ==
  /\ Makes("postSem", <<t, e>>)
  /\ e \in Setup[s.app].locks => e \in s.holds[t]
  /\ s.eventType[e] = "sem"
  /\ PostTested(t, e, NoMail)

(* CoAcceptSem(): the permit is taken after the unlock, by a load and a    *)
(* store of the counter.                                                   *)
CoAcceptSem(t, e) ==
  /\ Makes("acceptSem", <<t, e>>) /\ e \notin s.holds[t]
  /\ s.eventType[e] = "sem"
  /\ s' = Lock(s)
  /\ pc' = [pc EXCEPT ![t] = [Rest("user") EXCEPT
                                !.at  = "unlock",
                                !.id  = e,
                                !.ret = IF s.eventCounter[e] > 0 THEN "accept"
                                                                 ELSE "user"]]

AcceptLoads(t) ==
  /\ Runs(t, "accept")
  /\ pc' = [pc EXCEPT ![t].at = "store", ![t].val = s.eventCounter[pc[t].id]]
  /\ UNCHANGED s

AcceptStores(t) ==
  LET e == pc[t].id
  IN  /\ Runs(t, "store")
      /\ s' = Reported([s EXCEPT !.eventCounter = [@ EXCEPT ![e] = Wrap(pc[t].val - 1)]], t, e)
      /\ Return(t)

(* What a call does once it is made. *)
EventFinish(t) ==
  \/ PendBlocks(t) \/ PendReturns(t) \/ PendTimesOut(t)
  \/ PostStores(t)

SemFinish(t) == AcceptLoads(t) \/ AcceptStores(t)

SemCall(t) ==
  \/ \E c \in Arguments("pendSem") : CoPendSem(t, c[1], c[2])
  \/ \E c \in Arguments("postSem") : CoPostSem(t, c[1])
  \/ \E c \in Arguments("acceptSem") : CoAcceptSem(t, c[1])

-----------------------------------------------------------------------------
(* How an application has to use these semaphores for the properties below *)
(* to hold: a semaphore that is not a lock is posted by one task, or by    *)
(* interrupts only (the comparison with the maximum and the increment are  *)
(* not one section), and a semaphore that is accepted is used by one task  *)
(* only (nor are the test and the decrement).                              *)
Posters(a, e) == {c[1] : c \in {d \in Calls[a].postSem : d[2] = e}}

Users(a, e) ==
  Posters(a, e) \cup {c[1] : c \in {d \in Calls[a].pendSem \cup Calls[a].acceptSem : d[2] = e}}

PostsFromIsr(a, e) ==
  \/ \E q \in Calls[a].isr : q[1] = "sem" /\ q[2] = e
  \/ \E i \in 1 .. Len(Setup[a].timers) : Setup[a].timers[i].callback = e

OnePoster ==
  \A a \in App : \A e \in Event \ Setup[a].locks :
    Cardinality(Posters(a, e)) + (IF PostsFromIsr(a, e) THEN 1 ELSE 0) <= 1

AcceptAlone ==
  \A a \in App : \A c \in Calls[a].acceptSem :
    Users(a, c[2]) = {c[1]} /\ ~PostsFromIsr(a, c[2])

LocksAreLocks == \A a \in App : \A e \in Setup[a].locks : ~PostsFromIsr(a, e)

(* No permit is lost or made up: those posted, by a task, by an interrupt  *)
(* or from the queue of requests, and those of the creation are each in    *)
(* the counter, or were reported to a task by E_OK, or are with a task     *)
(* that a post has woken and that has not returned yet.  In particular no  *)
(* task that returns E_TIMEOUT has eaten a permit.                         *)
PermitsConserved ==
  \A e \in Event : s.eventType[e] = "sem" =>
    LET given == {t \in Task : s.pmail[t] = Woken /\ pc[t].id = e}
    IN  s.eventCounter[e] + Cardinality(given) = s.balance[e]

(* A semaphore used as a lock admits as many tasks as it was created for,  *)
(* through timeouts, ticks and preemption anywhere in pend and post.       *)
Exclusion ==
  \A e \in Setup[s.app].locks :
    Cardinality({t \in Task : e \in s.holds[t]}) <= Setup[s.app].events[e + 1].count

(* A counter stays within the maximum its creator gave it. *)
CounterInRange ==
  \A e \in Event : s.eventType[e] = "sem" => s.eventCounter[e] <= s.initialEventCounter[e]

(* A blocking call returns only when its wait is over: an endless pend     *)
(* with what it waits for, unless events are deleted; a timed one with it  *)
(* or out of both lists; a delay out of the delay list.                    *)
WaitsDecided ==
  \A t \in Task :
    /\ Runs(t, "woken") => s.pmail[t] # NoMail \/ Calls[s.app].delete # {}
    /\ Runs(t, "flagged") => s.pnode[t] = "set"
    /\ \A at \in {"user", "woken", "timed", "flagged", "flagtimed"} : Runs(t, at) =>
         /\ s.k.state[t] = "RUNNING"
         /\ s.delayTick[t] = NoDelay /\ s.eventID[t] = NoEvent /\ s.pnode[t] # "node"

(* A task does not wait for ever for a semaphore that has permits.         *)
Starves(t, e) == s.eventID[t] = e /\ s.delayTick[t] = NoDelay /\ s.eventCounter[e] > 0

PermitsReachWaiters == \A t \in Task, e \in Event : Starves(t, e) ~> ~Starves(t, e)
=============================================================================
