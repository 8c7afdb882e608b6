----------------------------- MODULE MCServices -----------------------------
(***************************************************************************)
(* Applications of CoSystem for TLC.  An execution is one of one of them.  *)
(***************************************************************************)
EXTENDS CoDemo

NoCalls == [op \in Services |-> {}]

(* Tasks 2 and 3 are as urgent as each other, or 1 and 2 are, or 1 is the  *)
(* most urgent, or between the others.                                     *)
Prios3 == 0 :> 3 @@ 1 :> 1 @@ 2 :> 0
Prios4 == Prios3 @@ 3 :> 0
PriosFirst == 0 :> 3 @@ 1 :> 0 @@ 2 :> 1 @@ 3 :> 0
PriosTop == 0 :> 3 @@ 1 :> 1 @@ 2 :> 1 @@ 3 :> 0
PriosMiddle == 0 :> 3 @@ 1 :> 1 @@ 2 :> 0 @@ 3 :> 2

NoSetup == [tasks |-> 3, prio |-> Prios4, events |-> <<>>, timers |-> <<>>,
            flags |-> {}, auto |-> {}, locks |-> {}, counted |-> {}]

Sem(sort, count, max) == [type |-> "sem", sort |-> sort, count |-> count, max |-> max]
Mbox(sort) == [type |-> "mbox", sort |-> sort, count |-> 0, max |-> 1]
QueueOfSize(sort, n) == [type |-> "queue", sort |-> sort, count |-> 0, max |-> n]
Timing(type, cnt, reload, e) == [type |-> type, cnt |-> cnt, reload |-> reload, callback |-> e]

(* "sem": semaphore 0 is a lock that two tasks use, 1 a signal that an     *)
(* interrupt posts and both wait for, by priority.                         *)
SemSetup == [NoSetup EXCEPT
  !.tasks = 2, !.events = <<Sem("fifo", 1, 1), Sem("prio", 0, 1)>>, !.locks = {0}]

SemCalls == [NoCalls EXCEPT
  !.pendSem = {<<1, 0, 0>>, <<2, 0, 1>>, <<1, 1, 0>>, <<2, 1, 1>>},
  !.postSem = {<<1, 0>>, <<2, 0>>},
  !.isr     = {<<"sem", 1, 0>>}]

(* "sems": the same with three tasks, one of which does not use the lock.  *)
SemsSetup == [SemSetup EXCEPT !.tasks = 3]

SemsCalls == [SemCalls EXCEPT
  !.pendSem = {<<1, 0, 0>>, <<2, 0, 1>>, <<1, 1, 2>>, <<3, 1, 1>>}]

(* "trio": all three wait for one semaphore, two of them at most for a     *)
(* tick, so that any of the three may leave the waiting list.              *)
TrioSetup == [NoSetup EXCEPT !.prio = PriosMiddle, !.events = <<Sem("fifo", 0, 1)>>]

TrioCalls == [NoCalls EXCEPT
  !.pendSem = {<<1, 0, 1>>, <<2, 0, 0>>, <<3, 0, 1>>},
  !.isr     = {<<"sem", 0, 0>>}]

(* "mbox": task 2 posts two mails to mailbox 0, which task 1 waits for, a  *)
(* device one to mailbox 1, which both wait for.                           *)
MboxSetup == [NoSetup EXCEPT !.tasks = 2, !.events = <<Mbox("fifo"), Mbox("prio")>>]

MboxCalls == [NoCalls EXCEPT
  !.postMail   = {<<2, 0, 1>>, <<2, 0, 2>>},
  !.pendMail   = {<<1, 0, 1>>, <<1, 1, 1>>, <<2, 1, 0>>},
  !.acceptMail = {<<1, 0>>},
  !.isr        = {<<"mbox", 1, 3>>}]

(* "queue": task 2 posts three mails to a queue of two and accepts too.    *)
QueueSetup == [NoSetup EXCEPT !.events = <<QueueOfSize("prio", 2)>>]

QueueCalls == [NoCalls EXCEPT
  !.postMail   = {<<2, 0, 1>>, <<2, 0, 2>>, <<2, 0, 3>>},
  !.pendMail   = {<<1, 0, 1>>, <<3, 0, 0>>},
  !.acceptMail = {<<2, 0>>}]

(* "ring": a device and a task post to one queue.                          *)
RingSetup == [NoSetup EXCEPT !.tasks = 2, !.events = <<QueueOfSize("fifo", 2)>>]

RingCalls == [NoCalls EXCEPT
  !.postMail = {<<2, 0, 2>>},
  !.pendMail = {<<1, 0, 1>>, <<2, 0, 0>>},
  !.isr      = {<<"queue", 0, 1>>}]

(* "flag": a device sets two flags that are reset automatically and one    *)
(* that is not; two tasks wait for one, for all, and for any of them.      *)
FlagSetup == [NoSetup EXCEPT !.tasks = 2, !.flags = {0, 1, 2}, !.auto = {0, 2}]

FlagCalls == [NoCalls EXCEPT
  !.waitFlags   = {<<1, {0}, "one", 0>>, <<1, {1}, "any", 1>>, <<2, {1, 2}, "all", 0>>},
  !.acceptFlags = {<<1, {0}, "one">>},
  !.isr         = {<<"flag", 0, 0>>, <<"flag", 1, 0>>, <<"flag", 2, 0>>}]

(* "setter": the most urgent task sets and clears flags that two others    *)
(* wait for.                                                               *)
SetterSetup == [NoSetup EXCEPT !.prio = PriosTop, !.flags = {0, 1}, !.auto = {0}]

SetterCalls == [NoCalls EXCEPT
  !.setFlag    = {<<3, 0>>, <<3, 1>>},
  !.clearFlag  = {<<3, 1>>},
  !.delay      = {<<3, 1>>},
  !.waitFlags  = {<<1, {0}, "one", 0>>, <<2, {0, 1}, "any", 0>>}]

(* "deleter": task 1 deletes flags that task 2 waits for, sets and creates *)
(* others.                                                                 *)
DeleterSetup == [NoSetup EXCEPT
  !.tasks = 2, !.prio = PriosFirst, !.flags = {0, 1, 2}, !.auto = {0}]

DeleterCalls == [NoCalls EXCEPT
  !.setFlag    = {<<1, 1>>},
  !.delay      = {<<1, 1>>},
  !.waitFlags  = {<<2, {0, 1}, "any", 0>>, <<2, {2}, "one", 1>>},
  !.delFlag    = {<<1, 2, "anyway">>, <<1, 0, "nopend">>},
  !.createFlag = {<<1, TRUE, FALSE>>, <<1, FALSE, TRUE>>}]

(* "timer": task 1 starts and stops a periodic timer, task 2 starts a      *)
(* one-shot timer that posts a semaphore, and waits for it.                *)
TimerAppSetup == [NoSetup EXCEPT
  !.tasks = 2,
  !.events = <<Sem("fifo", 0, 1)>>,
  !.timers = <<Timing("periodic", 2, 2, NoEvent), Timing("oneshot", 1, 1, 0)>>,
  !.counted = {0, 1}]

TimerCalls == [NoCalls EXCEPT
  !.startTmr  = {<<1, 0>>, <<2, 1>>},
  !.stopTmr   = {<<1, 0>>},
  !.setTmr    = {<<2, 1, 1, 1>>, <<2, 1, 3, 1>>},
  !.pendSem   = {<<2, 0, 2>>}]

(* "alone": task 1 creates, starts, sets and deletes the only timer, and   *)
(* accepts and posts a semaphore of its own.                               *)
AloneSetup == [NoSetup EXCEPT !.tasks = 2, !.events = <<Sem("fifo", 1, 1)>>]

AloneCalls == [NoCalls EXCEPT
  !.acceptSem = {<<1, 0>>},
  !.postSem   = {<<1, 0>>},
  !.createTmr = {<<1, "periodic", 2, 3>>},
  !.startTmr  = {<<1, 0>>},
  !.setTmr    = {<<1, 0, 1, 2>>},
  !.delTmr    = {<<1, 0>>},
  !.delay     = {<<2, 1>>}]

(* "ecb": task 1 creates semaphores, task 2 mailboxes; task 1 deletes what *)
(* there is, also while task 2 waits for it.                               *)
EcbSetup == [NoSetup EXCEPT !.tasks = 2, !.events = <<Sem("fifo", 1, 1)>>]

EcbCalls == [NoCalls EXCEPT
  !.create    = {<<1, "sem", "fifo", 0, 1>>, <<2, "mbox", "prio", 0, 1>>},
  !.delete    = {<<1, 0, "anyway">>, <<1, 1, "anyway">>},
  !.pendSem   = {<<2, 0, 1>>, <<2, 1, 0>>},
  !.delay     = {<<2, 1>>}]

(* "queues": tasks 1 and 3 create queues, and task 1 deletes them, which   *)
(* is the more urgent of the two; task 2 waits for a mail in one.          *)
QueuesSetup == [NoSetup EXCEPT !.prio = PriosMiddle]

QueuesCalls == [NoCalls EXCEPT
  !.create   = {<<1, "queue", "fifo", 0, 2>>, <<3, "queue", "prio", 0, 1>>},
  !.delete   = {<<1, 0, "nopend">>, <<1, 1, "anyway">>},
  !.pendMail = {<<2, 1, 1>>},
  !.delay    = {<<2, 1>>}]

(* "renew": task 1 renews and ends the delays of two others.               *)
RenewSetup == [NoSetup EXCEPT !.events = <<Sem("prio", 0, 1)>>]

RenewCalls == [NoCalls EXCEPT
  !.delay   = {<<2, 2>>},
  !.pendSem = {<<3, 0, 2>>},
  !.renew   = {<<1, 2, 0>>, <<1, 2, 3>>, <<1, 3, 1>>}]

SafeApps == { "sem", "sems", "trio", "mbox", "queue", "ring", "flag", "setter", "deleter",
              "timer", "alone", "ecb", "queues", "renew", "demo" }

SafeSetup ==
  "sem" :> SemSetup @@ "sems" :> SemsSetup @@ "trio" :> TrioSetup
    @@ "mbox" :> MboxSetup @@ "queue" :> QueueSetup
    @@ "ring" :> RingSetup @@ "flag" :> FlagSetup @@ "setter" :> SetterSetup
    @@ "deleter" :> DeleterSetup @@ "timer" :> TimerAppSetup @@ "alone" :> AloneSetup
    @@ "ecb" :> EcbSetup @@ "queues" :> QueuesSetup
    @@ "renew" :> RenewSetup @@ "demo" :> DemoSetup

SafeCalls ==
  "sem" :> SemCalls @@ "sems" :> SemsCalls @@ "trio" :> TrioCalls
    @@ "mbox" :> MboxCalls @@ "queue" :> QueueCalls
    @@ "ring" :> RingCalls @@ "flag" :> FlagCalls @@ "setter" :> SetterCalls
    @@ "deleter" :> DeleterCalls @@ "timer" :> TimerCalls @@ "alone" :> AloneCalls
    @@ "ecb" :> EcbCalls @@ "queues" :> QueuesCalls
    @@ "renew" :> RenewCalls @@ "demo" :> DemoCalls({1, 2})

(* "posts": a task waits for what a device posts, another one delays.      *)
(* "fires": a task starts a periodic timer, which posts a semaphore, and   *)
(* another one delays.                                                     *)
TwoTasks == [NoSetup EXCEPT !.tasks = 2, !.prio = Prios3]

PostsSetup == [TwoTasks EXCEPT !.events = <<Sem("fifo", 1, 1), Sem("fifo", 0, 1)>>]

PostsCalls == [NoCalls EXCEPT
  !.pendSem = {<<2, 1, 1>>},
  !.delay   = {<<1, 1>>},
  !.isr     = {<<"sem", 1, 0>>}]

FiresSetup == [TwoTasks EXCEPT
  !.events = <<Sem("fifo", 0, 1)>>,
  !.timers = <<Timing("periodic", 2, 2, 0)>>]

FiresCalls == [NoCalls EXCEPT
  !.startTmr = {<<1, 0>>},
  !.delay    = {<<2, 1>>}]

LiveApps  == {"posts", "fires"}
LiveSetup == "posts" :> PostsSetup @@ "fires" :> FiresSetup
LiveCalls == "posts" :> PostsCalls @@ "fires" :> FiresCalls

ASSUME UsageRules ==
  OnePoster /\ AcceptAlone /\ LocksAreLocks /\ MailRules /\ FlagRules /\ TimerRules /\ EcbRules
  /\ RenewRules
=============================================================================
