------------------------------- MODULE CoMail -------------------------------
(***************************************************************************)
(* Mailboxes (mbox.c) and queues of mails (queue.c) of CooCox CoOS.  Both  *)
(* wait and post as semaphores do; a mail is a buffer that a sender does   *)
(* not use again before it has been received.                              *)
(***************************************************************************)
EXTENDS CoSem

TakeMail(r, e) ==
  [r EXCEPT !.eventPtr     = [@ EXCEPT ![e] = NoMail],
            !.eventCounter = [@ EXCEPT ![e] = 0],
            !.out          = @ \ {r.eventPtr[e]}]

TakeOldest(r, e) == [Dequeue(r, e) EXCEPT !.out = @ \ {OldestMail(r, e)}]

HasMail(r, e) == r.eventCounter[e] = 1

HasQueueMail(r, e) == r.QueueTbl[r.eventPtr[e]].qSize # 0

CoPendMail(t, e, ticks) ==
  /\ Makes("pendMail", <<t, e, ticks>>)
  /\ s.eventType[e] = "mbox"
  /\ Pend(t, e, ticks, HasMail(s, e), TakeMail(Lock(s), e))

CoPendQueueMail(t, e, ticks) ==
  /\ Makes("pendMail", <<t, e, ticks>>)
  /\ s.eventType[e] = "queue"
  /\ Pend(t, e, ticks, HasQueueMail(s, e), TakeOldest(Lock(s), e))

(* A sender has one buffer at a time in its hands.                         *)
CoPostMail(t, e, m) ==
  /\ Makes("postMail", <<t, e, m>>) /\ m \notin s.out
  /\ s.eventType[e] = "mbox"
  /\ PostTested(t, e, m)

CoPostQueueMail(t, e, m) ==
  /\ Makes("postMail", <<t, e, m>>) /\ m \notin s.out
  /\ s.eventType[e] = "queue"
  /\ PostTested(t, e, m)

CoAcceptMail(t, e) ==
  /\ Makes("acceptMail", <<t, e>>)
  /\ s.eventType[e] = "mbox"
  /\ s' = IF HasMail(s, e) THEN TakeMail(Lock(s), e) ELSE Lock(s)
  /\ Unlocks(t, "user")

CoAcceptQueueMail(t, e) ==
  /\ Makes("acceptMail", <<t, e>>)
  /\ s.eventType[e] = "queue"
  /\ s' = IF HasQueueMail(s, e) THEN TakeOldest(Lock(s), e) ELSE Lock(s)
  /\ Unlocks(t, "user")

MailCall(t) ==
  \/ \E c \in Arguments("pendMail") :
       CoPendMail(t, c[1], c[2]) \/ CoPendQueueMail(t, c[1], c[2])
  \/ \E c \in Arguments("postMail") :
       CoPostMail(t, c[1], c[2]) \/ CoPostQueueMail(t, c[1], c[2])
  \/ \E c \in Arguments("acceptMail") : CoAcceptMail(t, c[1]) \/ CoAcceptQueueMail(t, c[1])

-----------------------------------------------------------------------------
(* How an application has to use them: a mail is sent by one context, to   *)
(* one event; a mailbox is posted by one task, or by devices with a single *)
(* mail; a queue by one task, or has room for all the mails sent to it.    *)
(* The tests of the posts are not in the section that they guard, and a    *)
(* request that finds no room when it is served is dropped.                *)
Sends(a) ==
  {<<c[1], c[2], c[3]>> : c \in Calls[a].postMail}
    \cup {<<Tmr, q[2], q[3]>> : q \in {p \in Calls[a].isr : p[1] \in {"mbox", "queue"}}}

MailRules ==
  \A a \in App :
    /\ \A x, y \in Sends(a) : x[3] = y[3] => x = y
    /\ \A x, y \in Sends(a) : x[2] = y[2] =>
         \/ x[1] = y[1] /\ x[1] # Tmr
         \/ Cardinality({z \in Sends(a) : z[2] = x[2]}) <= Setup[a].events[x[2] + 1].max

(* No mail is lost, doubled or made up: each mail that a post or an isr_   *)
(* function has accepted, and that nobody has received, is in exactly one  *)
(* place - in its mailbox, in its queue, in a request of an interrupt, or  *)
(* with a task that it has woken and that has not returned yet - and no    *)
(* other mail is in any of them, whatever timeouts, ticks, interrupts and  *)
(* preemptions come between.                                               *)
MailPlaces(m) ==
  {<<"mbox", e>> : e \in {x \in Event : s.eventType[x] = "mbox" /\ s.eventPtr[x] = m}}
    \cup {<<"task", t>> : t \in {x \in Task : s.pmail[x] = m}}
    \cup UNION {{<<"queue", <<q, i>>>> : i \in {j \in DOMAIN Ring(s, q) : Ring(s, q)[j] = m}}
                  : q \in s.QueueIDVessel}
    \cup {<<"request", i>> : i \in {j \in DOMAIN Requests(s) : Requests(s)[j][3] = m}}

MailConserved ==
  /\ \A m \in Mail : Cardinality(MailPlaces(m)) = (IF m \in s.out THEN 1 ELSE 0)
  /\ \A e \in Event : s.eventType[e] = "mbox" =>
       (s.eventCounter[e] = 1 <=> s.eventPtr[e] # NoMail)

(* A queue of mails is a bounded FIFO queue: no mail overtakes another     *)
(* that is in it, is overwritten or taken out twice.                       *)
MailRing == INSTANCE CoFifo WITH Item <- Mail, Size <- MaxCell, queue <- Ring(s, 0)

MailsAreFifo == MailRing!PassSpec
=============================================================================
