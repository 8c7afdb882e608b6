-------------------------------- MODULE CoEcb --------------------------------
(***************************************************************************)
(* Creation and deletion of semaphores, mailboxes and queues (event.c, and *)
(* the functions of sem.c, mbox.c and queue.c around them).  An event      *)
(* control block is on the list of the free ones, or in use, or in the     *)
(* hands of a call between two of its locked sections.                     *)
(***************************************************************************)
EXTENDS CoTimer

NoQueue == MaxQueue

(* The call of t has event e and queue q in its hands, and goes on at the  *)
(* place at, and after a locked section there at the place ret.            *)
WithEvent(t, e, q, at, ret) ==
  pc' = [pc EXCEPT ![t] = [Rest("user") EXCEPT !.at = at, !.ret = ret, !.id = e, !.val = q]]

(* The locked section of CreatEvent(): the first free ECB is taken.        *)
TakesEvent(t, q) ==
  IF s.FreeEventList = <<>>
  THEN s' = Lock(s) /\ WithEvent(t, 0, 0, "unlock", "user")
  ELSE /\ s' = [Lock(s) EXCEPT !.FreeEventList = Tail(@)]
       /\ WithEvent(t, Head(s.FreeEventList), q, "unlock", "init")

(* c is the type, the sort, and the counter and the maximum; a semaphore   *)
(* does not start with more permits than its maximum.                      *)
CoCreateSem(t, c) ==
  /\ Makes("create", <<t>> \o c) /\ c[1] = "sem" /\ c[3] <= c[4]
  /\ TakesEvent(t, NoQueue)

CoCreateMbox(t, c) ==
  /\ Makes("create", <<t>> \o c) /\ c[1] = "mbox"
  /\ TakesEvent(t, NoQueue)

(* CoCreateQueue(): a queue control block first, which is filled in after  *)
(* the section that takes it, then the ECB.                                *)
CoCreateQueue(t, c) ==
  LET free == Queue \ s.QueueIDVessel
      q    == CHOOSE i \in free : \A j \in free : i <= j
  IN  /\ Makes("create", <<t>> \o c) /\ c[1] = "queue"
      /\ IF free = {}
         THEN s' = Lock(s) /\ Unlocks(t, "user")
         ELSE /\ s' = [Lock(s) EXCEPT !.QueueIDVessel = @ \cup {q}]
              /\ WithEvent(t, NoEvent, q, "unlock", "queued")

QueueFills(t) ==
  /\ Runs(t, "queued")
  /\ \E c \in Calls[s.app].create :
       c[1] = t /\ s' = [s EXCEPT !.QueueTbl[pc[t].val] = FreshQueue(pc[t].val, c[5])]
  /\ Goto(t, "filled")

QueueTakesEvent(t) == Runs(t, "filled") /\ TakesEvent(t, pc[t].val)

(* The ECB is filled in after the lock.  Of a queue the counters are left. *)
Fill(r, e, c, q) ==
  [r EXCEPT !.eventType           = [@ EXCEPT ![e] = c[1]],
            !.eventSortType       = [@ EXCEPT ![e] = c[2]],
            !.eventPtr            = [@ EXCEPT ![e] = IF c[1] = "queue" THEN q ELSE NoMail],
            !.eventTCBList        = [@ EXCEPT ![e] = NoTask],
            !.eventCounter        = IF c[1] = "queue" THEN @ ELSE [@ EXCEPT ![e] = c[3]],
            !.initialEventCounter = IF c[1] = "sem" THEN [@ EXCEPT ![e] = c[4]] ELSE @,
            !.balance             = [@ EXCEPT ![e] = c[3]]]

FillsEvent(t) ==
  /\ Runs(t, "init")
  /\ \E c \in Calls[s.app].create :
       c[1] = t /\ s' = Fill(s, pc[t].id, Tail(c), pc[t].val)
  /\ Return(t)

(* DeleteEvent() begins with one look at the waiting list, or with a locked *)
(* section that empties it.                                                *)
DeleteEvent(t, e, opt, q) ==
  /\ opt = "nopend" => s.eventTCBList[e] = NoTask
  /\ WithEvent(t, e, q, IF opt = "nopend" THEN "nopend" ELSE "ready",
                        IF opt = "nopend" THEN "user" ELSE "emptied")
  /\ UNCHANGED s

CoDelSem(t, e, opt)   == s.eventType[e] = "sem"  /\ DeleteEvent(t, e, opt, NoQueue)
CoDelMbox(t, e, opt)  == s.eventType[e] = "mbox" /\ DeleteEvent(t, e, opt, NoQueue)
CoDelQueue(t, e, opt) == s.eventType[e] = "queue" /\ DeleteEvent(t, e, opt, s.eventPtr[e])

CoDelete(t, e, opt) ==
  /\ Makes("delete", <<t, e, opt>>)
  /\ CoDelSem(t, e, opt) \/ CoDelMbox(t, e, opt) \/ CoDelQueue(t, e, opt)

(* The first waiter becomes ready.  Nobody clears waitPrev of the next.    *)
ReadyFirst(r, e) ==
  LET t == r.eventTCBList[e]
  IN  IF t = NoTask THEN r
      ELSE InsertReady([EndDelay(r, t) EXCEPT
                          !.eventTCBList = [@ EXCEPT ![e] = r.waitNext[t]],
                          !.waitNext     = [@ EXCEPT ![t] = NoTask],
                          !.eventID      = [@ EXCEPT ![t] = NoEvent]], t)

ReadiesWaiters(t) ==
  LET after[n \in 0 .. MaxTask] ==
        IF n = 0 THEN Lock(s) ELSE ReadyFirst(after[n - 1], pc[t].id)
  IN  /\ Runs(t, "ready")
      /\ s' = after[MaxTask]
      /\ Goto(t, "unlock")

(* ReleaseECB(): the type falls before the lock. *)
FallsInvalid(t) ==
  /\ Runs(t, "nopend") \/ Runs(t, "emptied")
  /\ s' = [s EXCEPT !.eventType = [@ EXCEPT ![pc[t].id] = "invalid"]]
  /\ Goto(t, "push")

PushesEvent(t) ==
  /\ Runs(t, "push")
  /\ s' = [Lock(s) EXCEPT !.eventPtr      = [@ EXCEPT ![pc[t].id] = NoMail],
                          !.FreeEventList = <<pc[t].id>> \o @]
  /\ Unlocks(t, IF pc[t].val = NoQueue THEN "user" ELSE "bit")

(* Mutant: the id of the block is cleared before it is used.               *)
WithoutCleared(r, q) == r.QueueIDVessel \ {0}

(* CoDelQueue() after DeleteEvent(), without the lock: QueueIDVessel is    *)
(* loaded, stored without the bit of the block, and the block is cleared.  *)
Without(r, q) == r.QueueIDVessel \ {r.QueueTbl[q].id}

LoadsVessel(t) ==
  /\ Runs(t, "bit")
  /\ pc' = [pc EXCEPT ![t].at = "unbit", ![t].ids = Without(s, pc[t].val)]
  /\ UNCHANGED s

StoresVessel(t) ==
  /\ Runs(t, "unbit")
  /\ s' = [s EXCEPT !.QueueIDVessel = pc[t].ids]
  /\ Goto(t, "wipe")

ClearsQueue(t) ==
  /\ Runs(t, "wipe")
  /\ s' = [s EXCEPT !.QueueTbl[pc[t].val] = FreshQueue(0, 0)]
  /\ Return(t)

EcbFinish(t) ==
  \/ QueueFills(t) \/ QueueTakesEvent(t) \/ FillsEvent(t)
  \/ ReadiesWaiters(t) \/ FallsInvalid(t) \/ PushesEvent(t)
  \/ LoadsVessel(t) \/ StoresVessel(t) \/ ClearsQueue(t)

EcbCall(t) ==
  \/ \E c \in Arguments("create") : CoCreateSem(t, c) \/ CoCreateMbox(t, c) \/ CoCreateQueue(t, c)
  \/ \E c \in Arguments("delete") : CoDelete(t, c[1], c[2])

-----------------------------------------------------------------------------
(* How an application has to create and delete: a task creates one kind of *)
(* event; an event is deleted by one task, with OPT_DEL_NO_PEND only if    *)
(* nobody pends on it, for the look at the waiting list comes before the   *)
(* lock, and with OPT_DEL_ANYWAY only if at most one task does, which the  *)
(* deleter does not preempt between its look and its wait, and which calls *)
(* Live; no mails are left in it; a queue finds an ECB whenever it has     *)
(* found a queue control block, which it would not give back; and who      *)
(* deletes queues is more urgent than all others who create or delete, for *)
(* the block goes back without the lock, and is cleared after that.        *)
Pends(a, e) ==
  {c[1] : c \in {d \in Calls[a].pendSem \cup Calls[a].pendMail : d[2] = e}}

EcbRules ==
  \A a \in App :
    /\ \A c, d \in Calls[a].create : c[1] = d[1] => c = d
    /\ \A c, d \in Calls[a].delete : c[2] = d[2] => c[1] = d[1]
    /\ \A d \in Calls[a].delete :
         /\ Cardinality(Pends(a, d[2])) <= (IF d[3] = "nopend" THEN 0 ELSE 1)
         /\ \A u \in Pends(a, d[2]) : Setup[a].prio[u] < Setup[a].prio[d[1]]
         /\ \A x \in Sends(a) : x[2] # d[2]
    /\ (\E c \in Calls[a].create : c[2] = "queue") =>
         /\ \A c \in Calls[a].create : c[2] = "queue"
         /\ \A d \in Calls[a].delete, c \in Calls[a].create \cup Calls[a].delete :
              c[1] # d[1] => Setup[a].prio[d[1]] < Setup[a].prio[c[1]]
         /\ MaxQueue <= MaxEvent
                          - Cardinality({i \in DOMAIN Setup[a].events :
                                           Setup[a].events[i].type # "queue"})

(* The calls that have an ECB, or a queue control block, in their hands.   *)
Handles(t, places) ==
  pc[t].at \in places \/ (pc[t].at \in UnlockPlaces /\ pc[t].ret \in places)

(* No ECB and no queue control block is lost or has two owners: each ECB   *)
(* is free, once, or an event, or with one call of CoCreate or CoDel that  *)
(* is between two of its locked sections; a queue control block is marked  *)
(* as used exactly if one event or one such call has it; and that of an    *)
(* event is the one that was filled in for it.                             *)
EcbsConserved ==
  /\ \A e \in Event :
       Cardinality({<<"free", i>> : i \in {j \in DOMAIN s.FreeEventList : s.FreeEventList[j] = e}}
                     \cup {<<"event", x>> : x \in {e} \cap {y \in Event : s.eventType[y] # "invalid"}}
                     \cup {<<"task", t>> : t \in {u \in Task : Handles(u, {"init", "push"})
                                                                /\ pc[u].id = e}}) = 1
  /\ \A q \in Queue :
       Cardinality({<<"event", e>> : e \in {x \in Event : s.eventType[x] = "queue"
                                                           /\ s.eventPtr[x] = q}}
                     \cup {<<"task", t>> : t \in {u \in Task : pc[u].val = q
                             /\ Handles(u, {"queued", "filled", "init", "push", "bit",
                                            "unbit"})}})
         = (IF q \in s.QueueIDVessel THEN 1 ELSE 0)
  /\ \A e \in Event : s.eventType[e] = "queue" =>
       LET c == s.QueueTbl[s.eventPtr[e]] IN c.id = s.eventPtr[e] /\ c.qMaxSize > 0
=============================================================================
