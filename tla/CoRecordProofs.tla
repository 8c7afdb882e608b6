--------------------------- MODULE CoRecordProofs ----------------------------
(***************************************************************************)
(* What the operators of CoEvent and CoService do to the system record:    *)
(* the invariant of its lists, chains, counters and owners (Right), and    *)
(* for each helper of the services a lemma that says that it keeps it.     *)
(* CoServiceProofs puts the threads on top and proves the theorems.        *)
(***************************************************************************)
EXTENDS CoSystem, CoKernelProofs, FiniteSetTheorems

(* The events that main() creates before CoStartOS() stay.                 *)
StaticEvents == \A a \in App : Calls[a].create = {} /\ Calls[a].delete = {}

(* The locks are among the semaphores that main() creates.                 *)
LocksAreMade ==
  \A a \in App : \A e \in Setup[a].locks :
    e < Len(Setup[a].events) /\ Setup[a].events[e + 1].type = "sem"

(* The rules on which the account of the permits rests.                    *)
Disciplined == OnePoster /\ AcceptAlone /\ LocksAreLocks /\ LocksAreMade

-----------------------------------------------------------------------------
(* Records.  A service changes a few fields of s and leaves the others.    *)
Fields ==
  { "app", "k", "eventType", "eventSortType", "eventCounter", "initialEventCounter",
    "eventPtr", "eventTCBList", "FreeEventList", "eventID", "waitNext", "waitPrev", "pmail",
    "QueueTbl", "QueueIDVessel", "flagActive", "flagRdy", "resetOpt", "nodes", "pnode",
    "waitFlags", "waitType", "DlyList", "delayTick", "TmrTbl", "TmrList", "TmrIDVessel",
    "cell", "cnt", "head", "IsrReq", "TimeReq", "TimerReq", "balance", "holds", "out" }

Only(r, r2, F) ==
  /\ DOMAIN r = Fields /\ DOMAIN r2 = Fields
  /\ \A f \in Fields \ F : r2[f] = r[f]

(* The types that the proofs use.                                          *)
Shape(r) ==
  /\ DOMAIN r = Fields
  /\ r.app \in App /\ r.k \in Kernel
  /\ r.eventType \in [Event -> EventType]
  /\ r.eventCounter \in [Event -> Nat] /\ r.initialEventCounter \in [Event -> Nat]
  /\ r.eventTCBList \in [Event -> Link]
  /\ r.eventID \in [Task -> Event \cup {NoEvent}]
  /\ r.waitNext \in [Task -> Link] /\ r.waitPrev \in [Task -> Link]
  /\ DOMAIN r.pmail = Task /\ DOMAIN r.eventPtr = Event
  /\ r.nodes \in Seq(Task) /\ r.pnode \in [Task -> {"null", "node", "set"}]
  /\ r.DlyList \in Seq(Task) /\ r.delayTick \in [Task -> Nat \cup {NoDelay}]
  /\ r.TmrTbl \in [Timer -> TmrCtrl] /\ r.TmrList \in Timer \cup {NoTimer}
  /\ DOMAIN r.cell = Cells
  /\ r.balance \in [Event -> Int] /\ r.holds \in [Task -> SUBSET Event]

-----------------------------------------------------------------------------
(* The lists.  Each is a sequence without repetitions of the tasks that    *)
(* say they are in it; of the waiting lists there is such a sequence that  *)
(* the links follow.                                                       *)
Lists(q, S) == IsInjective(q) /\ \A t \in Task : t \in Range(q) <=> t \in S

ReadyRight(r)  == Lists(r.k.TCBRdy, {t \in Task : r.k.state[t] = "READY"})
DelaysRight(r) == Lists(r.DlyList, {t \in Task : r.delayTick[t] # NoDelay})
NodesRight(r)  == Lists(r.nodes, {t \in Task : r.pnode[t] = "node"})

Chained(r, e, q) ==
  /\ q \in Seq(Task)
  /\ Lists(q, {t \in Task : r.eventID[t] = e})
  /\ r.eventTCBList[e] = IF q = <<>> THEN NoTask ELSE q[1]
  /\ \A i \in 1 .. Len(q) :
       /\ r.waitNext[q[i]] = IF i < Len(q) THEN q[i + 1] ELSE NoTask
       /\ r.waitPrev[q[i]] = IF i > 1 THEN q[i - 1] ELSE NoTask
  /\ r.eventSortType[e] = "prio" =>
       \A i, j \in 1 .. Len(q) : i < j => r.k.prio[q[i]] <= r.k.prio[q[j]]

ChainsRight(r) ==
  /\ \A e \in Event : \E q \in Seq(Task) : Chained(r, e, q)
  /\ \A t \in Task : r.eventID[t] = NoEvent =>
       r.waitNext[t] = NoTask /\ r.waitPrev[t] = NoTask

Waits(r, t) == r.eventID[t] # NoEvent \/ r.delayTick[t] # NoDelay \/ r.pnode[t] = "node"

(* A task that is in a list waits, and the other way about, but for those  *)
(* of X, which are on their way.                                           *)
StatesRight(r, X) ==
  \A t \in Task :
    /\ Waits(r, t) => r.k.state[t] = "WAITING"
    /\ r.k.state[t] = "WAITING" => Waits(r, t) \/ t \in X
    /\ r.eventID[t] # NoEvent => r.pnode[t] = "null"
    /\ r.delayTick[t] # NoDelay => r.pnode[t] # "set"

(* A waiter is in a call for the event it waits for, id, and has not got it. *)
WaitersRight(r, id) ==
  \A t \in Task : r.eventID[t] # NoEvent =>
    id[t] = r.eventID[t] /\ r.pmail[t] = NoMail /\ r.eventType[r.eventID[t]] # "invalid"

(* Of each semaphore, the permits in the counter and those that a woken    *)
(* task has not taken yet are the balance.                                 *)
Given(r, id, e) == {t \in Task : r.pmail[t] = Woken /\ id[t] = e}

PermitsRight(r, id) ==
  \A e \in Event : r.eventType[e] = "sem" =>
    /\ r.eventCounter[e] <= r.initialEventCounter[e]
    /\ r.initialEventCounter[e] <= MaxCount
    /\ r.eventCounter[e] + Cardinality(Given(r, id, e)) = r.balance[e]

(* The cells of a queue from head on hold mails; a post made after a stale *)
(* look may have put in more than it is long.                              *)
RingRight(c) ==
  /\ DOMAIN c = {"id", "head", "tail", "qSize", "qMaxSize", "qStart"}
  /\ DOMAIN c.qStart = 0 .. MaxCell - 1
  /\ c.qMaxSize \in 0 .. MaxCell /\ c.qSize \in Nat
  /\ c.qMaxSize > 0 =>
       /\ c.head \in 0 .. c.qMaxSize - 1
       /\ c.tail = (c.head + c.qSize) % c.qMaxSize
       /\ \A j \in 0 .. c.qMaxSize - 1 :
            j < c.qSize => c.qStart[(c.head + j) % c.qMaxSize] \in Mail

RingsRight(r) ==
  /\ DOMAIN r.QueueTbl = Queue
  /\ \A q \in Queue : RingRight(r.QueueTbl[q])
  /\ \A e \in Event : r.eventType[e] = "queue" =>
       r.eventPtr[e] \in Queue /\ r.QueueTbl[r.eventPtr[e]].qMaxSize > 0

(* The requests in the ring are such as interrupts and timers make.        *)
RequestRight(a, q) == q \in DeviceRequest /\ (q[1] = "sem" => PostsFromIsr(a, q[2]))

RequestsRight(r) ==
  /\ r.head \in Cells /\ r.cnt \in 0 .. SrqSize
  /\ \A j \in 0 .. r.cnt - 1 : RequestRight(r.app, r.cell[(r.head + j) % SrqSize])

CallBacksRight(r) ==
  \A i \in Timer :
    r.TmrTbl[i].tmrCallBack # NoEvent => PostsFromIsr(r.app, r.TmrTbl[i].tmrCallBack)

Right(r, id, X) ==
  /\ Shape(r)
  /\ ReadyRight(r) /\ DelaysRight(r) /\ NodesRight(r) /\ ChainsRight(r)
  /\ StatesRight(r, X) /\ WaitersRight(r, id) /\ RingsRight(r)
  /\ RequestsRight(r) /\ CallBacksRight(r)
  /\ Disciplined => PermitsRight(r, id)

-----------------------------------------------------------------------------
(* Sequences and numbers.                                                  *)
LEMMA NatIs ==
  ASSUME NEW N, 0 \in N, \A n \in Nat : n \in N => n + 1 \in N
  PROVE  \A n \in Nat : n \in N
<1> DEFINE B == {n \in Nat : n \notin N}
<1> SUFFICES ASSUME B # {} PROVE FALSE
  OBVIOUS
<1>1. PICK m \in B : \A n \in B : m <= n
  <2>1. B \in SUBSET Nat  OBVIOUS
  <2> QED  BY <2>1, LeastNat
<1>2. m # 0 /\ m \in Nat /\ m \notin N
  OBVIOUS
<1>3. m - 1 \in Nat /\ m - 1 \notin B
  BY <1>1, <1>2
<1>4. m - 1 \in N /\ (m - 1) + 1 = m
  BY <1>2, <1>3
<1> QED  BY <1>2, <1>3, <1>4

LEMMA ListLess ==
  ASSUME NEW q \in Seq(Task), NEW S, NEW i \in 1 .. Len(q), Lists(q, S)
  PROVE  RemoveAt(q, i) \in Seq(Task) /\ Lists(RemoveAt(q, i), S \ {q[i]})
<1>1. IsInjective(q)  BY DEF Lists
<1>2. Range(RemoveAt(q, i)) = Range(q) \ {q[i]} /\ IsInjective(RemoveAt(q, i))
  BY <1>1, RemoveAtRange
<1>3. RemoveAt(q, i) \in Seq(Task)
  BY RemoveAtFacts
<1> QED  BY <1>2, <1>3 DEF Lists

LEMMA ListMore ==
  ASSUME NEW q \in Seq(Task), NEW S, NEW i \in 1 .. Len(q) + 1, NEW t \in Task,
         Lists(q, S), t \notin S
  PROVE  InsertAt(q, i, t) \in Seq(Task) /\ Lists(InsertAt(q, i, t), S \cup {t})
<1>1. IsInjective(q) /\ t \notin Range(q)  BY DEF Lists
<1>2. Range(InsertAt(q, i, t)) = Range(q) \cup {t} /\ IsInjective(InsertAt(q, i, t))
  BY <1>1, InsertAtRange
<1>3. InsertAt(q, i, t) \in Seq(Task)
  BY InsertAtFacts
<1> QED  BY <1>2, <1>3 DEF Lists

(* A list lists the same tasks, however the set is written.                *)
LEMMA ListSame ==
  ASSUME NEW q, NEW S, NEW S2, Lists(q, S), \A t \in Task : t \in S <=> t \in S2
  PROVE  Lists(q, S2)
BY DEF Lists

(* The place of a task in a list of it.                                    *)
LEMMA ListPlace ==
  ASSUME NEW q \in Seq(Task), NEW S, Lists(q, S), NEW t \in Task, t \in S
  PROVE  PosOf(q, t) \in 1 .. Len(q) /\ q[PosOf(q, t)] = t
<1>1. t \in Range(q)  BY DEF Lists
<1> QED  BY <1>1, PosOfFacts

-----------------------------------------------------------------------------
(* What does not change with the fields it is about.                       *)
LEMMA ChainsFrame ==
  ASSUME NEW r, NEW r2, ChainsRight(r),
         r2.eventTCBList = r.eventTCBList, r2.eventID = r.eventID,
         r2.waitNext = r.waitNext, r2.waitPrev = r.waitPrev,
         r2.eventSortType = r.eventSortType, r2.k.prio = r.k.prio
  PROVE  ChainsRight(r2)
<1>1. ASSUME NEW e, NEW q, Chained(r, e, q) PROVE Chained(r2, e, q)
  BY <1>1 DEF Chained
<1>2. \A e \in Event : \E q \in Seq(Task) : Chained(r2, e, q)
  BY <1>1 DEF ChainsRight
<1> QED  BY <1>2 DEF ChainsRight

LEMMA PermitsFrame ==
  ASSUME NEW r, NEW r2, NEW id, PermitsRight(r, id),
         r2.eventType = r.eventType, r2.eventCounter = r.eventCounter,
         r2.initialEventCounter = r.initialEventCounter, r2.pmail = r.pmail,
         r2.balance = r.balance
  PROVE  PermitsRight(r2, id)
<1>1. \A e : Given(r2, id, e) = Given(r, id, e)
  BY DEF Given
<1> QED  BY <1>1 DEF PermitsRight

(* Fields that none of this is about.                                      *)
Aside == {"FreeEventList", "QueueIDVessel", "flagActive", "flagRdy", "resetOpt", "waitFlags",
          "waitType", "TmrIDVessel", "IsrReq", "TimeReq", "TimerReq", "out"}

(* The requests and the timers are apart from the rest.                    *)
LEMMA AsideRight ==
  ASSUME NEW r, NEW r2, NEW id, NEW X, Right(r, id, X),
         Only(r, r2, Aside \cup {"cell", "cnt", "head", "TmrTbl", "TmrList"}),
         r2.TmrTbl \in [Timer -> TmrCtrl], r2.TmrList \in Timer \cup {NoTimer},
         DOMAIN r2.cell = Cells, RequestsRight(r2), CallBacksRight(r2)
  PROVE  Right(r2, id, X)
<1>1. /\ r2.app = r.app /\ r2.k = r.k /\ r2.eventType = r.eventType
      /\ r2.eventSortType = r.eventSortType /\ r2.eventCounter = r.eventCounter
      /\ r2.initialEventCounter = r.initialEventCounter /\ r2.eventPtr = r.eventPtr
      /\ r2.eventTCBList = r.eventTCBList /\ r2.eventID = r.eventID
      /\ r2.waitNext = r.waitNext /\ r2.waitPrev = r.waitPrev /\ r2.pmail = r.pmail
      /\ r2.QueueTbl = r.QueueTbl /\ r2.nodes = r.nodes /\ r2.pnode = r.pnode
      /\ r2.DlyList = r.DlyList /\ r2.delayTick = r.delayTick
      /\ r2.balance = r.balance /\ r2.holds = r.holds /\ DOMAIN r2 = Fields
  BY DEF Only, Aside, Fields
<1>2. Shape(r2)
  BY <1>1 DEF Right, Shape
<1>3. ReadyRight(r2) /\ DelaysRight(r2) /\ NodesRight(r2)
  BY <1>1 DEF Right, ReadyRight, DelaysRight, NodesRight
<1>4. ChainsRight(r2)
  BY <1>1, ChainsFrame DEF Right
<1>5. StatesRight(r2, X) /\ WaitersRight(r2, id)
  BY <1>1 DEF Right, StatesRight, WaitersRight, Waits
<1>6. RingsRight(r2)
  BY <1>1 DEF Right, RingsRight
<1>7. Disciplined => PermitsRight(r2, id)
  BY <1>1, PermitsFrame DEF Right
<1> QED  BY <1>2, <1>3, <1>4, <1>5, <1>6, <1>7 DEF Right

(* The fields of an aside step.                                            *)
LEMMA AsideOnly ==
  ASSUME NEW r, NEW r2, NEW id, NEW X, Right(r, id, X), Only(r, r2, Aside)
  PROVE  Right(r2, id, X)
<1>1. /\ r2.app = r.app /\ r2.cell = r.cell /\ r2.cnt = r.cnt /\ r2.head = r.head
      /\ r2.TmrTbl = r.TmrTbl /\ r2.TmrList = r.TmrList
  BY DEF Only, Aside, Fields
<1>2. RequestsRight(r2) /\ CallBacksRight(r2)
  BY <1>1 DEF Right, RequestsRight, CallBacksRight
<1>3. Only(r, r2, Aside \cup {"cell", "cnt", "head", "TmrTbl", "TmrList"})
  BY DEF Only
<1> QED  BY <1>1, <1>2, <1>3, AsideRight DEF Right, Shape

(* A change of the delay list.                                             *)
LEMMA DelaysChange ==
  ASSUME NEW r, NEW r2, NEW id, NEW X, NEW Y, Right(r, id, X),
         Only(r, r2, {"DlyList", "delayTick"}),
         r2.DlyList \in Seq(Task), r2.delayTick \in [Task -> Nat \cup {NoDelay}],
         DelaysRight(r2), StatesRight(r2, Y)
  PROVE  Right(r2, id, Y)
<1>1. /\ r2.app = r.app /\ r2.k = r.k /\ r2.eventType = r.eventType
      /\ r2.eventSortType = r.eventSortType /\ r2.eventCounter = r.eventCounter
      /\ r2.initialEventCounter = r.initialEventCounter /\ r2.eventPtr = r.eventPtr
      /\ r2.eventTCBList = r.eventTCBList /\ r2.eventID = r.eventID
      /\ r2.waitNext = r.waitNext /\ r2.waitPrev = r.waitPrev /\ r2.pmail = r.pmail
      /\ r2.QueueTbl = r.QueueTbl /\ r2.nodes = r.nodes /\ r2.pnode = r.pnode
      /\ r2.cell = r.cell /\ r2.cnt = r.cnt /\ r2.head = r.head
      /\ r2.TmrTbl = r.TmrTbl /\ r2.TmrList = r.TmrList
      /\ r2.balance = r.balance /\ r2.holds = r.holds /\ DOMAIN r2 = Fields
  BY DEF Only, Fields
<1>2. Shape(r2)
  BY <1>1 DEF Right, Shape
<1>3. ReadyRight(r2) /\ NodesRight(r2)
  BY <1>1 DEF Right, ReadyRight, NodesRight
<1>4. ChainsRight(r2)
  BY <1>1, ChainsFrame DEF Right
<1>5. WaitersRight(r2, id)
  BY <1>1 DEF Right, WaitersRight
<1>6. RingsRight(r2) /\ RequestsRight(r2) /\ CallBacksRight(r2)
  BY <1>1 DEF Right, RingsRight, RequestsRight, CallBacksRight
<1>7. Disciplined => PermitsRight(r2, id)
  BY <1>1, PermitsFrame DEF Right
<1> QED  BY <1>2, <1>3, <1>4, <1>5, <1>6, <1>7 DEF Right

(* A change of the list of nodes.                                          *)
LEMMA NodesChange ==
  ASSUME NEW r, NEW r2, NEW id, NEW X, NEW Y, Right(r, id, X),
         Only(r, r2, Aside \cup {"nodes", "pnode"}),
         r2.nodes \in Seq(Task), r2.pnode \in [Task -> {"null", "node", "set"}],
         NodesRight(r2), StatesRight(r2, Y)
  PROVE  Right(r2, id, Y)
<1>1. /\ r2.app = r.app /\ r2.k = r.k /\ r2.eventType = r.eventType
      /\ r2.eventSortType = r.eventSortType /\ r2.eventCounter = r.eventCounter
      /\ r2.initialEventCounter = r.initialEventCounter /\ r2.eventPtr = r.eventPtr
      /\ r2.eventTCBList = r.eventTCBList /\ r2.eventID = r.eventID
      /\ r2.waitNext = r.waitNext /\ r2.waitPrev = r.waitPrev /\ r2.pmail = r.pmail
      /\ r2.QueueTbl = r.QueueTbl /\ r2.DlyList = r.DlyList /\ r2.delayTick = r.delayTick
      /\ r2.cell = r.cell /\ r2.cnt = r.cnt /\ r2.head = r.head
      /\ r2.TmrTbl = r.TmrTbl /\ r2.TmrList = r.TmrList
      /\ r2.balance = r.balance /\ r2.holds = r.holds /\ DOMAIN r2 = Fields
  BY DEF Only, Fields, Aside
<1>2. Shape(r2)
  BY <1>1 DEF Right, Shape
<1>3. ReadyRight(r2) /\ DelaysRight(r2)
  BY <1>1 DEF Right, ReadyRight, DelaysRight
<1>4. ChainsRight(r2)
  BY <1>1, ChainsFrame DEF Right
<1>5. WaitersRight(r2, id)
  BY <1>1 DEF Right, WaitersRight
<1>6. RingsRight(r2) /\ RequestsRight(r2) /\ CallBacksRight(r2)
  BY <1>1 DEF Right, RingsRight, RequestsRight, CallBacksRight
<1>7. Disciplined => PermitsRight(r2, id)
  BY <1>1, PermitsFrame DEF Right
<1> QED  BY <1>2, <1>3, <1>4, <1>5, <1>6, <1>7 DEF Right

(* A change of a waiting list.                                             *)
LEMMA ChainsChange ==
  ASSUME NEW r, NEW r2, NEW id, NEW X, NEW Y, Right(r, id, X),
         Only(r, r2, {"eventTCBList", "eventID", "waitNext", "waitPrev"}),
         r2.eventTCBList \in [Event -> Link], r2.eventID \in [Task -> Event \cup {NoEvent}],
         r2.waitNext \in [Task -> Link], r2.waitPrev \in [Task -> Link],
         ChainsRight(r2), StatesRight(r2, Y), WaitersRight(r2, id)
  PROVE  Right(r2, id, Y)
<1>1. /\ r2.app = r.app /\ r2.k = r.k /\ r2.eventType = r.eventType
      /\ r2.eventSortType = r.eventSortType /\ r2.eventCounter = r.eventCounter
      /\ r2.initialEventCounter = r.initialEventCounter /\ r2.eventPtr = r.eventPtr
      /\ r2.nodes = r.nodes /\ r2.pnode = r.pnode /\ r2.pmail = r.pmail
      /\ r2.QueueTbl = r.QueueTbl /\ r2.DlyList = r.DlyList /\ r2.delayTick = r.delayTick
      /\ r2.cell = r.cell /\ r2.cnt = r.cnt /\ r2.head = r.head
      /\ r2.TmrTbl = r.TmrTbl /\ r2.TmrList = r.TmrList
      /\ r2.balance = r.balance /\ r2.holds = r.holds /\ DOMAIN r2 = Fields
  BY DEF Only, Fields
<1>2. Shape(r2)
  BY <1>1 DEF Right, Shape
<1>3. ReadyRight(r2) /\ DelaysRight(r2) /\ NodesRight(r2)
  BY <1>1 DEF Right, ReadyRight, DelaysRight, NodesRight
<1>6. RingsRight(r2) /\ RequestsRight(r2) /\ CallBacksRight(r2)
  BY <1>1 DEF Right, RingsRight, RequestsRight, CallBacksRight
<1>7. Disciplined => PermitsRight(r2, id)
  BY <1>1, PermitsFrame DEF Right
<1> QED  BY <1>2, <1>3, <1>6, <1>7 DEF Right

(* A change of the kernel record.                                          *)
LEMMA KernelChange ==
  ASSUME NEW r, NEW r2, NEW id, NEW X, NEW Y, Right(r, id, X),
         Only(r, r2, {"k"}), r2.k \in Kernel, r2.k.prio = r.k.prio,
         ReadyRight(r2), StatesRight(r2, Y)
  PROVE  Right(r2, id, Y)
<1>1. /\ r2.app = r.app /\ r2.eventType = r.eventType
      /\ r2.eventSortType = r.eventSortType /\ r2.eventCounter = r.eventCounter
      /\ r2.initialEventCounter = r.initialEventCounter /\ r2.eventPtr = r.eventPtr
      /\ r2.eventTCBList = r.eventTCBList /\ r2.eventID = r.eventID
      /\ r2.waitNext = r.waitNext /\ r2.waitPrev = r.waitPrev
      /\ r2.nodes = r.nodes /\ r2.pnode = r.pnode /\ r2.pmail = r.pmail
      /\ r2.QueueTbl = r.QueueTbl /\ r2.DlyList = r.DlyList /\ r2.delayTick = r.delayTick
      /\ r2.cell = r.cell /\ r2.cnt = r.cnt /\ r2.head = r.head
      /\ r2.TmrTbl = r.TmrTbl /\ r2.TmrList = r.TmrList
      /\ r2.balance = r.balance /\ r2.holds = r.holds /\ DOMAIN r2 = Fields
  BY DEF Only, Fields
<1>2. Shape(r2)
  BY <1>1 DEF Right, Shape
<1>3. DelaysRight(r2) /\ NodesRight(r2)
  BY <1>1 DEF Right, DelaysRight, NodesRight
<1>4. ChainsRight(r2)
  BY <1>1, ChainsFrame DEF Right
<1>5. WaitersRight(r2, id)
  BY <1>1 DEF Right, WaitersRight
<1>6. RingsRight(r2) /\ RequestsRight(r2) /\ CallBacksRight(r2)
  BY <1>1 DEF Right, RingsRight, RequestsRight, CallBacksRight
<1>7. Disciplined => PermitsRight(r2, id)
  BY <1>1, PermitsFrame DEF Right
<1> QED  BY <1>2, <1>3, <1>4, <1>5, <1>6, <1>7 DEF Right

(* A change of what is posted and received.                                *)
LEMMA MailsChange ==
  ASSUME NEW r, NEW r2, NEW id, NEW X, Right(r, id, X),
         Only(r, r2, {"eventCounter", "eventPtr", "pmail", "QueueTbl", "balance", "holds", "out"}),
         r2.eventCounter \in [Event -> Nat], DOMAIN r2.pmail = Task, DOMAIN r2.eventPtr = Event,
         r2.balance \in [Event -> Int], r2.holds \in [Task -> SUBSET Event],
         \A t \in Task : r.eventID[t] # NoEvent => r2.pmail[t] = r.pmail[t],
         RingsRight(r2), Disciplined => PermitsRight(r2, id)
  PROVE  Right(r2, id, X)
<1>1. /\ r2.app = r.app /\ r2.eventType = r.eventType /\ r2.k = r.k
      /\ r2.eventSortType = r.eventSortType
      /\ r2.initialEventCounter = r.initialEventCounter
      /\ r2.eventTCBList = r.eventTCBList /\ r2.eventID = r.eventID
      /\ r2.waitNext = r.waitNext /\ r2.waitPrev = r.waitPrev
      /\ r2.nodes = r.nodes /\ r2.pnode = r.pnode
      /\ r2.DlyList = r.DlyList /\ r2.delayTick = r.delayTick
      /\ r2.cell = r.cell /\ r2.cnt = r.cnt /\ r2.head = r.head
      /\ r2.TmrTbl = r.TmrTbl /\ r2.TmrList = r.TmrList /\ DOMAIN r2 = Fields
  BY DEF Only, Fields
<1>2. Shape(r2)
  BY <1>1 DEF Right, Shape
<1>3. ReadyRight(r2) /\ DelaysRight(r2) /\ NodesRight(r2) /\ StatesRight(r2, X)
  BY <1>1 DEF Right, ReadyRight, DelaysRight, NodesRight, StatesRight, Waits
<1>4. ChainsRight(r2)
  BY <1>1, ChainsFrame DEF Right
<1>5. WaitersRight(r2, id)
  BY <1>1 DEF Right, WaitersRight
<1>6. RequestsRight(r2) /\ CallBacksRight(r2)
  BY <1>1 DEF Right, RequestsRight, CallBacksRight
<1> QED  BY <1>2, <1>3, <1>4, <1>5, <1>6 DEF Right

-----------------------------------------------------------------------------
(* The ticks of the delay list add up.                                     *)
(* The ticks until each delay of the list ends are numbers.                *)
LEMMA DueFacts ==
  ASSUME NEW r, r.DlyList \in Seq(Task),
         \A i \in 1 .. Len(r.DlyList) : r.delayTick[r.DlyList[i]] \in Nat
  PROVE  /\ Due(r)[0] = 0
         /\ \A i \in 1 .. Len(r.DlyList) : Due(r)[i] = Due(r)[i - 1] + r.delayTick[r.DlyList[i]]
         /\ \A i \in 0 .. Len(r.DlyList) : Due(r)[i] \in Nat
<1> DEFINE list == r.DlyList
           n == Len(list)
           Next2(g, i) == IF i = 0 THEN 0 ELSE g[i - 1] + r.delayTick[list[i]]
           Rec(m, g) == g = [i \in 0 .. m |-> Next2(g, i)]
           due == CHOOSE g : Rec(n, g)
<1>1. Due(r) = due
  BY DEF Due
<1>2. n \in Nat /\ \A i \in 1 .. n : r.delayTick[list[i]] \in Nat
  BY LenProperties
<1> HIDE DEF n, list
<1>3. \A m \in Nat : \E g : Rec(m, g)
  <2> DEFINE N == {m \in Nat : \E g : Rec(m, g)}
  <2>1. 0 \in N
    <3> DEFINE g == [i \in 0 .. 0 |-> 0]
    <3>1. \A i \in 0 .. 0 : g[i] = Next2(g, i)  OBVIOUS
    <3>2. g = [i \in 0 .. 0 |-> g[i]]  OBVIOUS
    <3> HIDE DEF g, Next2
    <3>3. Rec(0, g)  BY <3>1, <3>2
    <3> QED  BY <3>3
  <2>2. ASSUME NEW m \in Nat, m \in N PROVE m + 1 \in N
    <3>1. PICK f : Rec(m, f)  BY <2>2
    <3> DEFINE v == Next2(f, m + 1)
               g == [i \in 0 .. m + 1 |-> IF i = m + 1 THEN v ELSE f[i]]
    <3>2. \A i \in 0 .. m + 1 : g[i] = IF i = m + 1 THEN v ELSE f[i]
      OBVIOUS
    <3>3. \A i \in 0 .. m : f[i] = Next2(f, i)
      <4> HIDE DEF Next2
      <4> QED  BY <3>1
    <3>4. v = Next2(f, m + 1)  OBVIOUS
    <3>5. g = [i \in 0 .. m + 1 |-> g[i]]
      OBVIOUS
    <3>6. \A i \in 0 .. m + 1 : g[i] = Next2(g, i)
      <4> HIDE DEF g, v, Rec
      <4> TAKE i \in 0 .. m + 1
      <4>1. i = 0 \/ g[i - 1] = f[i - 1]
        <5>1. CASE i = 0  BY <5>1
        <5>2. CASE i # 0
          <6>1. i - 1 \in 0 .. m + 1 /\ i - 1 # m + 1  BY <5>2
          <6> QED  BY <6>1, <3>2
        <5> QED  BY <5>1, <5>2
      <4>2. Next2(g, i) = Next2(f, i)  BY <4>1
      <4> HIDE DEF Next2
      <4>3. CASE i = m + 1  BY <4>2, <4>3, <3>2, <3>4
      <4>4. CASE i # m + 1
        <5>1. i \in 0 .. m  BY <4>4
        <5> QED  BY <5>1, <4>2, <4>4, <3>2, <3>3
      <4> QED  BY <4>3, <4>4
    <3> HIDE DEF g, Next2
    <3>7. Rec(m + 1, g)
      BY <3>5, <3>6
    <3> QED  BY <3>7
  <2> HIDE DEF N
  <2>3. \A m \in Nat : m \in N  BY <2>1, <2>2, NatIs
  <2> QED  BY <2>3 DEF N
<1>4. Rec(n, due)
  <2> HIDE DEF Rec
  <2> QED  BY <1>2, <1>3
<1>5. \A i \in 0 .. n : due[i] = Next2(due, i)
  <2> HIDE DEF due, Next2
  <2> QED  BY <1>4
<1> HIDE DEF due, Rec
<1> DEFINE N == {i \in Nat : i <= n => due[i] \in Nat}
<1>6. 0 \in N
  BY <1>2, <1>5
<1>7. ASSUME NEW i \in Nat, i \in N PROVE i + 1 \in N
  <2>1. CASE i + 1 <= n
    <3>1. i + 1 \in 0 .. n /\ i + 1 # 0 /\ (i + 1) - 1 = i /\ i <= n /\ i + 1 \in 1 .. n
      BY <2>1, <1>2
    <3>2. due[i] \in Nat  BY <1>7, <3>1
    <3>3. due[i + 1] = due[i] + r.delayTick[list[i + 1]]
      BY <3>1, <1>5
    <3>4. r.delayTick[list[i + 1]] \in Nat
      BY <3>1, <1>2
    <3>5. due[i + 1] \in Nat  BY <3>2, <3>3, <3>4
    <3> QED  BY <3>5
  <2>2. CASE ~(i + 1 <= n)
    BY <2>2
  <2> QED  BY <2>1, <2>2
<1> HIDE DEF N
<1>8. \A i \in Nat : i \in N  BY <1>6, <1>7, NatIs
<1>9. \A i \in 0 .. n : due[i] \in Nat
  <2> TAKE i \in 0 .. n
  <2>1. i \in Nat /\ i <= n  BY <1>2
  <2> QED  BY <2>1, <1>8 DEF N
<1>10. due[0] = 0  BY <1>2, <1>5
<1>11. \A i \in 1 .. n : due[i] = due[i - 1] + r.delayTick[list[i]]
  <2> TAKE i \in 1 .. n
  <2>1. i \in 0 .. n /\ i # 0  BY <1>2
  <2> QED  BY <2>1, <1>5
<1> QED  BY <1>1, <1>9, <1>10, <1>11 DEF n, list

(* The sums of a delay list are the only function that adds its ticks up.  *)
LEMMA DueIs ==
  ASSUME NEW r, r.DlyList \in Seq(Task),
         \A i \in 1 .. Len(r.DlyList) : r.delayTick[r.DlyList[i]] \in Nat,
         NEW g, g[0] = 0,
         \A i \in 1 .. Len(r.DlyList) : g[i] = g[i - 1] + r.delayTick[r.DlyList[i]]
  PROVE  \A i \in 0 .. Len(r.DlyList) : Due(r)[i] = g[i]
<1> DEFINE n == Len(r.DlyList)
           N == {i \in Nat : i <= n => Due(r)[i] = g[i]}
<1>1. /\ Due(r)[0] = 0
      /\ \A i \in 1 .. n : Due(r)[i] = Due(r)[i - 1] + r.delayTick[r.DlyList[i]]
  BY DueFacts
<1>2. n \in Nat
  BY LenProperties
<1>3. \A i \in 1 .. n : g[i] = g[i - 1] + r.delayTick[r.DlyList[i]]
  OBVIOUS
<1> HIDE DEF n
<1>4. 0 \in N
  BY <1>1
<1>5. ASSUME NEW i \in Nat, i \in N PROVE i + 1 \in N
  <2> SUFFICES ASSUME i + 1 <= n PROVE Due(r)[i + 1] = g[i + 1]
    OBVIOUS
  <2>1. i + 1 \in 1 .. n /\ (i + 1) - 1 = i /\ i <= n
    BY <1>2
  <2>2. Due(r)[i] = g[i]
    BY <1>5, <2>1
  <2> QED  BY <1>1, <1>3, <2>1, <2>2
<1> HIDE DEF N
<1>6. \A i \in Nat : i \in N
  BY <1>4, <1>5, NatIs
<1> QED
  <2> TAKE i \in 0 .. Len(r.DlyList)
  <2>1. i \in Nat /\ i <= n
    BY <1>2 DEF n
  <2> QED  BY <1>6, <2>1 DEF N

(* The delays of a list, as the proofs use them.                           *)
Delayed(r) ==
  /\ r.DlyList \in Seq(Task) /\ IsInjective(r.DlyList)
  /\ \A i \in 1 .. Len(r.DlyList) : r.delayTick[r.DlyList[i]] \in Nat

LEMMA DelaysAt ==
  ASSUME NEW r, r.DlyList \in Seq(Task), r.delayTick \in [Task -> Nat \cup {NoDelay}],
         DelaysRight(r)
  PROVE  /\ Delayed(r)
         /\ \A t \in Task : r.delayTick[t] # NoDelay =>
              \E i \in 1 .. Len(r.DlyList) : r.DlyList[i] = t
<1> DEFINE q == r.DlyList
<1>1. Len(q) \in Nat /\ \A i \in 1 .. Len(q) : q[i] \in Task
  BY LenProperties, ElementOfSeq
<1>2. IsInjective(q) /\ \A t \in Task : t \in Range(q) <=> r.delayTick[t] # NoDelay
  BY DEF DelaysRight, Lists
<1>3. \A i \in 1 .. Len(q) : r.delayTick[q[i]] # NoDelay
  BY <1>1, <1>2, LenProperties DEF Range
<1>4. \A i \in 1 .. Len(q) : r.delayTick[q[i]] \in Nat
  BY <1>1, <1>3
<1>5. \A t \in Task : r.delayTick[t] # NoDelay => \E i \in 1 .. Len(q) : q[i] = t
  BY <1>2, LenProperties DEF Range
<1> QED  BY <1>2, <1>4, <1>5 DEF Delayed

(* A task has one place in the list, and the ticks that are due there.     *)
LEMMA TicksAt ==
  ASSUME NEW r, Delayed(r), NEW i \in 1 .. Len(r.DlyList)
  PROVE  TicksLeft(r, r.DlyList[i]) = Due(r)[i]
<1> DEFINE q == r.DlyList
           j == PosOf(q, q[i])
<1>1. \A a, b \in 1 .. Len(q) : q[a] = q[b] => a = b
  BY LenProperties DEF Delayed, IsInjective
<1>2. j \in 1 .. Len(q) /\ q[j] = q[i]
  BY DEF PosOf
<1>3. j = i
  BY <1>1, <1>2
<1> QED  BY <1>3 DEF TicksLeft

(* Without the task at i, whose ticks the one behind it gets, all others   *)
(* have the same ticks left.                                               *)
LEMMA TicksLess ==
  ASSUME NEW r, Delayed(r), NEW i \in 1 .. Len(r.DlyList), NEW r2,
         r2.DlyList = RemoveAt(r.DlyList, i),
         \A u \in Task : u # r.DlyList[i] =>
           r2.delayTick[u] = IF i < Len(r.DlyList) /\ u = r.DlyList[i + 1]
                             THEN r.delayTick[u] + r.delayTick[r.DlyList[i]]
                             ELSE r.delayTick[u]
  PROVE  /\ Delayed(r2)
         /\ \A j \in 1 .. Len(r.DlyList) :
              j # i => TicksLeft(r2, r.DlyList[j]) = TicksLeft(r, r.DlyList[j])
<1> DEFINE q  == r.DlyList
           n  == Len(q)
           q2 == r2.DlyList
           d  == r.delayTick
           d2 == r2.delayTick
           due == Due(r)
           g  == [j \in 0 .. n - 1 |-> IF j < i THEN due[j] ELSE due[j + 1]]
<1>1. /\ n \in Nat /\ q \in Seq(Task) /\ \A j \in 1 .. n : q[j] \in Task /\ d[q[j]] \in Nat
      /\ \A a, b \in 1 .. n : q[a] = q[b] => a = b
  BY LenProperties, ElementOfSeq DEF Delayed, IsInjective
<1>2. /\ q2 \in Seq(Task) /\ Len(q2) = n - 1
      /\ \A j \in 1 .. n - 1 : q2[j] = IF j < i THEN q[j] ELSE q[j + 1]
  BY <1>1, RemoveAtFacts, SMTT(30)
<1>3. IsInjective(q2)
  BY <1>1, RemoveAtRange DEF Delayed
<1>4. /\ due[0] = 0 /\ \A j \in 1 .. n : due[j] = due[j - 1] + d[q[j]]
      /\ \A j \in 0 .. n : due[j] \in Nat
  BY <1>1, DueFacts
<1>5. \A u \in Task : u # q[i] => d2[u] = IF i < n /\ u = q[i + 1] THEN d[u] + d[q[i]] ELSE d[u]
  OBVIOUS
<1>6. i \in 1 .. n
  OBVIOUS
<1> HIDE DEF q, n, q2, d, d2, due
<1>7. \A j \in 1 .. n - 1 : /\ d2[q2[j]] \in Nat
                            /\ g[j] = g[j - 1] + d2[q2[j]]
  <2> TAKE j \in 1 .. n - 1
  <2>0. j \in 1 .. n /\ j + 1 \in 1 .. n /\ j - 1 \in 0 .. n - 1 /\ j \in 0 .. n - 1
    BY <1>1
  <2>1. CASE j < i
    <3>1. q2[j] = q[j] /\ q[j] # q[i] /\ ~(i < n /\ q[j] = q[i + 1])
      BY <1>1, <1>2, <1>6, <2>0, <2>1
    <3>2. d2[q2[j]] = d[q[j]]
      BY <1>1, <1>5, <2>0, <3>1
    <3>3. g[j] = due[j] /\ g[j - 1] = due[j - 1]
      BY <2>0, <2>1, <1>6
    <3> QED  BY <1>1, <1>4, <2>0, <3>2, <3>3
  <2>2. CASE j = i
    <3>1. q2[j] = q[i + 1] /\ q[i + 1] # q[i] /\ i < n
      BY <1>1, <1>2, <1>6, <2>0, <2>2
    <3>2. d2[q2[j]] = d[q[i + 1]] + d[q[i]]
      BY <1>1, <1>5, <1>6, <2>0, <2>2, <3>1
    <3>3. g[j] = due[i + 1] /\ g[j - 1] = due[i - 1]
      BY <2>0, <2>2, <1>6
    <3>4. due[i + 1] = due[i] + d[q[i + 1]] /\ due[i] = due[i - 1] + d[q[i]]
      BY <1>4, <1>6, <2>0, <2>2
    <3>5. due[i - 1] \in Nat /\ d[q[i]] \in Nat /\ d[q[i + 1]] \in Nat
      BY <1>1, <1>4, <1>6, <2>0, <2>2
    <3> HIDE DEF g
    <3> QED  BY <3>2, <3>3, <3>4, <3>5
  <2>3. CASE j > i
    <3>0. j + 1 # i /\ j + 1 # i + 1 /\ (i < n => i + 1 \in 1 .. n)
      BY <1>1, <1>6, <2>0, <2>3
    <3>1. q2[j] = q[j + 1] /\ q[j + 1] # q[i] /\ ~(i < n /\ q[j + 1] = q[i + 1])
      <4>1. q2[j] = q[j + 1]
        BY <1>2, <1>6, <2>3
      <4> QED  BY <4>1, <1>1, <1>6, <2>0, <3>0
    <3>2. d2[q2[j]] = d[q[j + 1]]
      BY <1>1, <1>5, <2>0, <3>1
    <3>3. g[j] = due[j + 1] /\ g[j - 1] = due[j]
      BY <2>0, <2>3, <1>6
    <3>4. due[j + 1] = due[j] + d[q[j + 1]]
      BY <1>4, <2>0
    <3> HIDE DEF g
    <3> QED  BY <1>1, <2>0, <3>2, <3>3, <3>4
  <2> QED  BY <1>6, <2>0, <2>1, <2>2, <2>3
<1>8. g[0] = 0
  BY <1>1, <1>4, <1>6
<1>9. Delayed(r2)
  BY <1>2, <1>3, <1>7 DEF Delayed, q2, d2
<1>10. \A j \in 0 .. n - 1 : Due(r2)[j] = g[j]
  <2> HIDE DEF g
  <2>1. \A j \in 1 .. n - 1 : r2.delayTick[r2.DlyList[j]] \in Nat
    BY <1>7 DEF q2, d2
  <2>2. \A j \in 1 .. n - 1 : g[j] = g[j - 1] + r2.delayTick[r2.DlyList[j]]
    BY <1>7 DEF q2, d2
  <2>3. r2.DlyList \in Seq(Task) /\ Len(r2.DlyList) = n - 1
    BY <1>2 DEF q2
  <2> QED  BY <1>8, <2>1, <2>2, <2>3, DueIs, SMTT(30)
<1>11. ASSUME NEW j \in 1 .. n, j # i
       PROVE  TicksLeft(r2, q[j]) = TicksLeft(r, q[j])
  <2> DEFINE m == IF j < i THEN j ELSE j - 1
  <2>1. m \in 1 .. n - 1 /\ m \in 0 .. n - 1 /\ q2[m] = q[j]
    BY <1>1, <1>2, <1>6, <1>11
  <2>2. g[m] = due[j]
    BY <1>1, <1>6, <1>11, <2>1
  <2> HIDE DEF m, g
  <2>3. TicksLeft(r2, q2[m]) = Due(r2)[m]
    BY <1>2, <1>9, <2>1, TicksAt DEF q2
  <2>4. TicksLeft(r, q[j]) = due[j]
    BY TicksAt DEF q, n, due
  <2> QED  BY <1>10, <2>1, <2>2, <2>3, <2>4
<1> QED  BY <1>9, <1>11 DEF q, n

(* A new task at i has the ticks it asked for, and all others what they    *)
(* had.                                                                    *)
LEMMA TicksMore ==
  ASSUME NEW r, Delayed(r), NEW i \in 1 .. Len(r.DlyList) + 1, NEW t \in Task,
         \A j \in 1 .. Len(r.DlyList) : r.DlyList[j] # t,
         NEW ticks \in Nat, Due(r)[i - 1] <= ticks,
         i <= Len(r.DlyList) => ticks <= Due(r)[i],
         NEW r2, r2.DlyList = InsertAt(r.DlyList, i, t),
         r2.delayTick[t] = ticks - Due(r)[i - 1],
         \A u \in Task : u # t =>
           r2.delayTick[u] = IF i <= Len(r.DlyList) /\ u = r.DlyList[i]
                             THEN r.delayTick[u] - (ticks - Due(r)[i - 1])
                             ELSE r.delayTick[u]
  PROVE  /\ Delayed(r2) /\ TicksLeft(r2, t) = ticks
         /\ \A j \in 1 .. Len(r.DlyList) :
              TicksLeft(r2, r.DlyList[j]) = TicksLeft(r, r.DlyList[j])
<1> DEFINE q  == r.DlyList
           n  == Len(q)
           q2 == r2.DlyList
           d  == r.delayTick
           d2 == r2.delayTick
           due  == Due(r)
           mine == ticks - due[i - 1]
           g  == [j \in 0 .. n + 1 |-> IF j < i THEN due[j]
                                      ELSE IF j = i THEN ticks ELSE due[j - 1]]
<1>1. /\ n \in Nat /\ q \in Seq(Task) /\ \A j \in 1 .. n : q[j] \in Task /\ d[q[j]] \in Nat
      /\ \A a, b \in 1 .. n : q[a] = q[b] => a = b
      /\ \A j \in 1 .. n : q[j] # t
  BY LenProperties, ElementOfSeq DEF Delayed, IsInjective
<1>2. /\ q2 \in Seq(Task) /\ Len(q2) = n + 1
      /\ \A j \in 1 .. n + 1 : q2[j] = IF j < i THEN q[j] ELSE IF j = i THEN t ELSE q[j - 1]
  <2>1. r.DlyList \in Seq(Task) /\ i \in 1 .. Len(r.DlyList) + 1
    BY DEF Delayed
  <2>2. LET q3 == InsertAt(r.DlyList, i, t)
        IN  /\ q3 \in Seq(Task) /\ Len(q3) = Len(r.DlyList) + 1
            /\ \A j \in 1 .. Len(r.DlyList) + 1 :
                 q3[j] = IF j < i THEN r.DlyList[j]
                         ELSE IF j = i THEN t ELSE r.DlyList[j - 1]
    <3> DEFINE p == r.DlyList
    <3>1. p \in Seq(Task) /\ i \in 1 .. Len(p) + 1 /\ t \in Task
      BY <2>1
    <3> HIDE DEF p, q, n, q2, d, d2, due, mine, g
    <3>2. LET q3 == InsertAt(p, i, t)
          IN  /\ q3 \in Seq(Task) /\ Len(q3) = Len(p) + 1
              /\ \A j \in 1 .. Len(p) + 1 :
                   q3[j] = IF j < i THEN p[j] ELSE IF j = i THEN t ELSE p[j - 1]
      BY ONLY <3>1, InsertAtFacts, SMTT(30)
    <3> QED  BY <3>2 DEF p
  <2> QED  BY <2>2
<1>3. IsInjective(q2)
  <2>1. t \notin Range(q)
    BY <1>1, LenProperties DEF Range
  <2> QED  BY <1>1, <2>1, InsertAtRange DEF Delayed
<1>4. /\ due[0] = 0 /\ \A j \in 1 .. n : due[j] = due[j - 1] + d[q[j]]
      /\ \A j \in 0 .. n : due[j] \in Nat
  BY <1>1, DueFacts
<1>5. /\ \A u \in Task : u # t => d2[u] = IF i <= n /\ u = q[i] THEN d[u] - mine ELSE d[u]
      /\ d2[t] = mine /\ (i <= n => ticks <= due[i]) /\ due[i - 1] <= ticks
  OBVIOUS
<1>6. i \in 1 .. n + 1 /\ i - 1 \in 0 .. n /\ due[i - 1] \in Nat /\ mine \in Nat
  <2>1. i \in 1 .. n + 1 /\ i - 1 \in 0 .. n
    BY <1>1
  <2>2. due[i - 1] \in Nat
    BY <1>4, <2>1
  <2> QED  BY <1>5, <2>1, <2>2
<1>7. mine + due[i - 1] = ticks
  <2>1. due[i - 1] \in Nat  BY <1>6
  <2> QED  BY <2>1
<1> HIDE DEF q, n, q2, d, d2, due, mine
<1>8. \A j \in 1 .. n + 1 : /\ d2[q2[j]] \in Nat
                            /\ g[j] = g[j - 1] + d2[q2[j]]
  <2> TAKE j \in 1 .. n + 1
  <2>0. j - 1 \in 0 .. n + 1 /\ j \in 0 .. n + 1 /\ j - 1 \in 0 .. n /\ j \in Nat
    BY <1>1
  <2>1. CASE j < i
    <3>0. j \in 1 .. n /\ j # i /\ (i <= n => i \in 1 .. n)
      BY <1>1, <1>6, <2>0, <2>1
    <3>1. q2[j] = q[j] /\ q[j] # t /\ ~(i <= n /\ q[j] = q[i])
      <4>1. q2[j] = q[j]
        BY <1>2, <2>1
      <4> QED  BY <4>1, <1>1, <3>0
    <3>2. d2[q2[j]] = d[q[j]]
      BY <1>1, <1>5, <3>0, <3>1
    <3>3. g[j] = due[j] /\ g[j - 1] = due[j - 1]
      BY <2>0, <2>1, <1>6
    <3> HIDE DEF g
    <3> QED  BY <1>1, <1>4, <3>0, <3>2, <3>3
  <2>2. CASE j = i
    <3>1. q2[j] = t
      BY <1>2, <2>2
    <3>2. g[j] = ticks /\ g[j - 1] = due[i - 1]
      BY <2>0, <2>2, <1>6
    <3> HIDE DEF g
    <3> QED  BY <1>5, <1>6, <1>7, <3>1, <3>2
  <2>3. CASE j = i + 1
    <3>0. i \in 1 .. n /\ i \in 0 .. n /\ i <= n
      BY <1>1, <1>6, <2>3
    <3>1. q2[j] = q[i] /\ q[i] # t /\ q[i] \in Task
      <4>1. q2[j] = q[j - 1] /\ j - 1 = i
        BY <1>2, <1>6, <2>3
      <4> QED  BY <4>1, <1>1, <3>0
    <3>2. d2[q2[j]] = d[q[i]] - mine
      BY <1>5, <3>0, <3>1
    <3>3. g[j] = due[i] /\ g[j - 1] = ticks
      BY <2>0, <2>3, <1>6
    <3>4. due[i] = due[i - 1] + d[q[i]] /\ d[q[i]] \in Nat
      BY <1>1, <1>4, <3>0
    <3>5. due[i] \in Nat /\ ticks <= due[i]
      BY <1>4, <1>5, <3>0
    <3> HIDE DEF g
    <3>6. d[q[i]] - mine = due[i] - ticks
      BY <1>6, <1>7, <3>4, <3>5
    <3>7. due[i] - ticks \in Nat /\ due[i] = ticks + (due[i] - ticks)
      BY <3>5
    <3> QED  BY <3>2, <3>3, <3>6, <3>7
  <2>4. CASE j > i + 1
    <3>0. j - 1 \in 1 .. n /\ (i <= n => i \in 1 .. n) /\ j - 1 # i /\ ~(j < i) /\ j # i
      BY <1>1, <1>6, <2>0, <2>4
    <3>1. q2[j] = q[j - 1] /\ q[j - 1] # t /\ ~(i <= n /\ q[j - 1] = q[i])
      <4>1. q2[j] = q[j - 1]
        BY <1>2, <3>0
      <4> QED  BY <4>1, <1>1, <3>0
    <3>2. d2[q2[j]] = d[q[j - 1]]
      BY <1>1, <1>5, <3>0, <3>1
    <3>3. g[j] = due[j - 1] /\ g[j - 1] = due[(j - 1) - 1]
      BY <2>0, <2>4, <3>0, <1>6
    <3>4. due[j - 1] = due[(j - 1) - 1] + d[q[j - 1]] /\ d[q[j - 1]] \in Nat
      BY <1>1, <1>4, <3>0
    <3> HIDE DEF g
    <3> QED  BY <3>2, <3>3, <3>4
  <2>5. j < i \/ j = i \/ j = i + 1 \/ j > i + 1
    BY <1>6, <2>0
  <2> QED  BY <2>1, <2>2, <2>3, <2>4, <2>5
<1>9. g[0] = 0
  BY <1>1, <1>4, <1>6
<1>10. Delayed(r2)
  BY <1>2, <1>3, <1>8 DEF Delayed, q2, d2
<1>11. \A j \in 0 .. n + 1 : Due(r2)[j] = g[j]
  <2> HIDE DEF g
  <2>1. \A j \in 1 .. n + 1 : r2.delayTick[r2.DlyList[j]] \in Nat
    BY <1>8 DEF q2, d2
  <2>2. \A j \in 1 .. n + 1 : g[j] = g[j - 1] + r2.delayTick[r2.DlyList[j]]
    BY <1>8 DEF q2, d2
  <2>3. r2.DlyList \in Seq(Task) /\ Len(r2.DlyList) = n + 1
    BY <1>2 DEF q2
  <2>4. /\ \A j \in 1 .. Len(r2.DlyList) : r2.delayTick[r2.DlyList[j]] \in Nat
        /\ \A j \in 1 .. Len(r2.DlyList) : g[j] = g[j - 1] + r2.delayTick[r2.DlyList[j]]
    BY <2>1, <2>2, <2>3
  <2>5. \A j \in 0 .. Len(r2.DlyList) : Due(r2)[j] = g[j]
    <3>1. r2.DlyList \in Seq(Task)
      BY <2>3
    <3> HIDE DEF q, n, q2, d, d2, due, mine
    <3> QED  BY ONLY <1>9, <2>4, <3>1, DueIs
  <2> QED  BY <2>3, <2>5
<1>12. TicksLeft(r2, t) = ticks
  <2>1. i \in 1 .. n + 1 /\ i \in 0 .. n + 1 /\ q2[i] = t
    BY <1>1, <1>2, <1>6
  <2>2. g[i] = ticks
    BY <2>1, <1>6
  <2> HIDE DEF g
  <2>3. TicksLeft(r2, q2[i]) = Due(r2)[i]
    BY <1>2, <1>10, <2>1, TicksAt DEF q2
  <2> QED  BY <1>11, <2>1, <2>2, <2>3
<1>13. ASSUME NEW j \in 1 .. n
       PROVE  TicksLeft(r2, q[j]) = TicksLeft(r, q[j])
  <2> DEFINE m == IF j < i THEN j ELSE j + 1
  <2>1. m \in 1 .. n + 1 /\ m \in 0 .. n + 1 /\ q2[m] = q[j]
    <3>1. CASE j < i
      BY <3>1, <1>1, <1>2
    <3>2. CASE ~(j < i)
      <4>1. m = j + 1 /\ m \in 1 .. n + 1 /\ ~(m < i) /\ m # i /\ m - 1 = j
        BY <3>2, <1>1, <1>6
      <4> QED  BY <4>1, <1>1, <1>2
    <3> QED  BY <3>1, <3>2
  <2>2. g[m] = due[j]
    BY <1>1, <1>6, <2>1
  <2> HIDE DEF m, g
  <2>3. TicksLeft(r2, q2[m]) = Due(r2)[m]
    BY <1>2, <1>10, <2>1, TicksAt DEF q2
  <2>4. TicksLeft(r, q[j]) = due[j]
    BY TicksAt DEF q, n, due
  <2> QED  BY <1>11, <2>1, <2>2, <2>3, <2>4
<1> QED  BY <1>10, <1>12, <1>13 DEF q, n

(* The ticks of the first task of the list are those of all others.        *)
LEMMA TicksDown ==
  ASSUME NEW r, Delayed(r), r.DlyList # <<>>, NEW c \in Nat, NEW r2,
         r2.DlyList = r.DlyList,
         r2.delayTick[r.DlyList[1]] \in Nat,
         r2.delayTick[r.DlyList[1]] = r.delayTick[r.DlyList[1]] - c,
         \A u \in Task : u # r.DlyList[1] => r2.delayTick[u] = r.delayTick[u]
  PROVE  /\ Delayed(r2)
         /\ \A j \in 1 .. Len(r.DlyList) :
              TicksLeft(r2, r.DlyList[j]) = TicksLeft(r, r.DlyList[j]) - c
<1> DEFINE q  == r.DlyList
           n  == Len(q)
           d  == r.delayTick
           d2 == r2.delayTick
           due == Due(r)
           g  == [j \in 0 .. n |-> IF j = 0 THEN 0 ELSE due[j] - c]
<1>1. /\ n \in Nat /\ q \in Seq(Task) /\ \A j \in 1 .. n : q[j] \in Task /\ d[q[j]] \in Nat
      /\ \A a, b \in 1 .. n : q[a] = q[b] => a = b
      /\ 1 \in 1 .. n
  BY LenProperties, ElementOfSeq, EmptySeq DEF Delayed, IsInjective
<1>2. /\ due[0] = 0 /\ \A j \in 1 .. n : due[j] = due[j - 1] + d[q[j]]
      /\ \A j \in 0 .. n : due[j] \in Nat
  BY <1>1, DueFacts
<1>3. /\ d2[q[1]] \in Nat /\ d2[q[1]] = d[q[1]] - c
      /\ \A u \in Task : u # q[1] => d2[u] = d[u]
      /\ r2.DlyList = q
  OBVIOUS
<1> HIDE DEF q, n, d, d2, due
<1>4. \A j \in 1 .. n : d2[q[j]] \in Nat /\ g[j] = g[j - 1] + d2[q[j]]
  <2> TAKE j \in 1 .. n
  <2>0. j \in 0 .. n /\ j - 1 \in 0 .. n /\ j # 0
    BY <1>1
  <2>1. CASE j = 1
    <3>1. g[j] = due[1] - c /\ g[j - 1] = 0
      BY <2>0, <2>1
    <3>2. due[1] = 0 + d[q[1]]
      BY <1>1, <1>2
    <3> HIDE DEF g
    <3> QED  BY <1>1, <1>3, <2>1, <3>1, <3>2
  <2>2. CASE j # 1
    <3>1. g[j] = due[j] - c /\ g[j - 1] = due[j - 1] - c
      BY <2>0, <2>2
    <3>2. q[j] # q[1] /\ d2[q[j]] = d[q[j]]
      BY <1>1, <1>3, <2>0, <2>2
    <3>3. due[j] = due[j - 1] + d[q[j]] /\ due[j - 1] \in Nat /\ d[q[j]] \in Nat
      BY <1>1, <1>2, <2>0
    <3> HIDE DEF g
    <3> QED  BY <3>1, <3>2, <3>3
  <2> QED  BY <2>1, <2>2
<1>5. g[0] = 0
  BY <1>1
<1>6. Delayed(r2)
  BY <1>1, <1>3, <1>4 DEF Delayed, q, n, d2
<1>7. \A j \in 0 .. n : Due(r2)[j] = g[j]
  <2> HIDE DEF g
  <2>1. /\ r2.DlyList \in Seq(Task) /\ n = Len(r2.DlyList)
        /\ \A j \in 1 .. Len(r2.DlyList) : r2.delayTick[r2.DlyList[j]] \in Nat
        /\ \A j \in 1 .. Len(r2.DlyList) : g[j] = g[j - 1] + r2.delayTick[r2.DlyList[j]]
    BY <1>1, <1>3, <1>4 DEF n, d2
  <2> QED  BY ONLY <1>5, <2>1, DueIs
<1>8. ASSUME NEW j \in 1 .. n
      PROVE  TicksLeft(r2, q[j]) = TicksLeft(r, q[j]) - c
  <2>1. g[j] = due[j] - c /\ j \in 0 .. n
    BY <1>1
  <2> HIDE DEF g
  <2>2. TicksLeft(r2, q[j]) = Due(r2)[j]
    BY <1>3, <1>6, TicksAt DEF n
  <2>3. TicksLeft(r, q[j]) = due[j]
    BY TicksAt DEF q, n, due
  <2> QED  BY <1>7, <2>1, <2>2, <2>3
<1> QED  BY <1>6, <1>8 DEF q, n

(* The ticks left are a number, and those of the first task its own.       *)
LEMMA TicksNat ==
  ASSUME NEW r, Delayed(r)
  PROVE  /\ \A j \in 1 .. Len(r.DlyList) : TicksLeft(r, r.DlyList[j]) \in Nat
         /\ r.DlyList # <<>> => TicksLeft(r, r.DlyList[1]) = r.delayTick[r.DlyList[1]]
<1>1. /\ r.DlyList \in Seq(Task) /\ Len(r.DlyList) \in Nat
      /\ \A j \in 1 .. Len(r.DlyList) : r.delayTick[r.DlyList[j]] \in Nat
  BY LenProperties DEF Delayed
<1>2. /\ Due(r)[0] = 0
      /\ \A i \in 1 .. Len(r.DlyList) : Due(r)[i] = Due(r)[i - 1] + r.delayTick[r.DlyList[i]]
      /\ \A i \in 0 .. Len(r.DlyList) : Due(r)[i] \in Nat
  BY <1>1, DueFacts
<1>3. \A j \in 1 .. Len(r.DlyList) : TicksLeft(r, r.DlyList[j]) \in Nat
  BY <1>1, <1>2, TicksAt
<1>4. ASSUME r.DlyList # <<>> PROVE TicksLeft(r, r.DlyList[1]) = r.delayTick[r.DlyList[1]]
  <2>1. 1 \in 1 .. Len(r.DlyList)
    BY <1>1, <1>4, EmptySeq
  <2>2. Due(r)[1] = 0 + r.delayTick[r.DlyList[1]]
    BY <1>2, <2>1
  <2> QED  BY <1>1, <2>1, <2>2, TicksAt
<1> QED  BY <1>3, <1>4

(* Where a new task goes into the delay list: behind those that are due    *)
(* before it or with it, and before the others.                            *)
LEMMA InsertPlace ==
  ASSUME NEW r, r.DlyList \in Seq(Task),
         \A i \in 1 .. Len(r.DlyList) : r.delayTick[r.DlyList[i]] \in Nat, NEW ticks \in Nat
  PROVE  \E i \in 1 .. Len(r.DlyList) + 1 :
           /\ \A l \in 1 .. i - 1 : Due(r)[l] <= ticks
           /\ i <= Len(r.DlyList) => ticks < Due(r)[i]
<1> DEFINE n   == Len(r.DlyList)
           due == Due(r)
           B   == {j \in Nat : j = n \/ (j < n /\ ticks < due[j + 1])}
<1>1. n \in Nat /\ \A j \in 0 .. n : due[j] \in Nat
  BY DueFacts, LenProperties
<1> HIDE DEF n, due
<1>2. n \in B /\ B \in SUBSET Nat  BY <1>1
<1>3. PICK m \in B : \A j \in B : m <= j  BY <1>2, LeastNat
<1>4. m \in 0 .. n  BY <1>1, <1>2, <1>3
<1>5. ASSUME NEW l \in 1 .. m PROVE due[l] <= ticks
  <2>1. l - 1 \in Nat /\ l - 1 < m /\ l - 1 < n /\ (l - 1) + 1 = l /\ l \in 0 .. n
    BY <1>1, <1>4
  <2>2. l - 1 \notin B  BY <2>1, <1>3, <1>4
  <2>3. ~(ticks < due[l])  BY <2>1, <2>2
  <2> QED  BY <2>1, <2>3, <1>1
<1>6. (m + 1) - 1 = m /\ (m + 1 <= n => m < n /\ m # n) /\ m + 1 \in 1 .. n + 1
  BY <1>1, <1>4
<1>7. m + 1 <= n => ticks < due[m + 1]
  BY <1>3, <1>6
<1> QED  BY <1>5, <1>6, <1>7 DEF n, due

-----------------------------------------------------------------------------
(* A task becomes ready, or runs on.                                       *)
KernelServes(k, k2) ==
  /\ k2 \in Kernel /\ k2.prio = k.prio
  /\ k2.TCBRunning = k.TCBRunning /\ k2.TCBNext = k.TCBNext
  /\ k2.OSSchedLock = k.OSSchedLock /\ k2.OSIntNesting = k.OSIntNesting
  /\ k2.PendSV = k.PendSV
  /\ k.TaskSchedReq => k2.TaskSchedReq

LEMMA ReadyAgain ==
  ASSUME NEW r, NEW id, NEW X, Right(r, id, X), NEW t \in Task,
         r.k.state[t] = "WAITING", ~Waits(r, t), NEW r2, r2 = InsertReady(r, t)
  PROVE  /\ Right(r2, id, X \ {t}) /\ Only(r, r2, {"k"}) /\ KernelServes(r.k, r2.k)
         /\ r2.k.state = [r.k.state EXCEPT ![t] = "READY"]
<1> DEFINE k == r.k
           k2 == InsertToTCBRdyList(k, t)
<1>1. k \in Kernel /\ DOMAIN r = Fields  BY DEF Right, Shape
<1>2. r2 = [r EXCEPT !.k = k2]  BY DEF InsertReady
<1>3. r2.k = k2 /\ Only(r, r2, {"k"})
  BY <1>1, <1>2 DEF Only, Fields
<1>4. Lists(k.TCBRdy, {u \in Task : k.state[u] = "READY"})
  BY DEF Right, ReadyRight
<1>5. IsInjective(k.TCBRdy) /\ t \notin Range(k.TCBRdy)
  BY <1>4 DEF Lists
<1>6. /\ k2 \in Kernel /\ Range(k2.TCBRdy) = Range(k.TCBRdy) \cup {t}
      /\ IsInjective(k2.TCBRdy) /\ k2.state = [k.state EXCEPT ![t] = "READY"]
      /\ KernelServes(k, k2)
  BY <1>1, <1>5, InsertFacts DEF KernelServes
<1> HIDE DEF k2
<1>7. DOMAIN k.state = Task  BY <1>1 DEF Kernel
<1>8. ReadyRight(r2)
  BY <1>3, <1>4, <1>6, <1>7 DEF ReadyRight, Lists
<1>9. StatesRight(r2, X \ {t})
  <2>1. r2.eventID = r.eventID /\ r2.delayTick = r.delayTick /\ r2.pnode = r.pnode
    BY <1>3 DEF Only, Fields
  <2>2. StatesRight(r, X)  BY DEF Right
  <2> QED  BY <2>1, <2>2, <1>3, <1>6, <1>7 DEF StatesRight, Waits
<1>10. Right(r2, id, X \ {t})
  BY <1>3, <1>6, <1>8, <1>9, KernelChange DEF KernelServes
<1> QED  BY <1>3, <1>6, <1>10

LEMMA WakeAgain ==
  ASSUME NEW r, NEW id, NEW X, Right(r, id, X), NEW t \in Task,
         r.k.state[t] = "WAITING", ~Waits(r, t), NEW r2, r2 = Wake(r, t)
  PROVE  /\ Right(r2, id, X \ {t}) /\ Only(r, r2, {"k"}) /\ KernelServes(r.k, r2.k)
         /\ r2.k.state = [r.k.state EXCEPT ![t] = IF t = r.k.TCBRunning THEN "RUNNING"
                                                                      ELSE "READY"]
<1>1. CASE t # r.k.TCBRunning
  BY <1>1, ReadyAgain DEF Wake
<1>2. CASE t = r.k.TCBRunning
  <2>1. r.k \in Kernel /\ DOMAIN r = Fields  BY DEF Right, Shape
  <2> DEFINE k2 == [r.k EXCEPT !.state = [r.k.state EXCEPT ![t] = "RUNNING"]]
  <2>2. r2 = [r EXCEPT !.k = k2]
    BY <1>2, <2>1 DEF Wake, Kernel
  <2>3. r2.k = k2 /\ Only(r, r2, {"k"})
    BY <2>1, <2>2 DEF Only, Fields
  <2>4. /\ k2 \in Kernel /\ k2.state = [r.k.state EXCEPT ![t] = "RUNNING"]
        /\ k2.TCBRdy = r.k.TCBRdy
    BY <2>1 DEF Kernel, TaskState
  <2>5. KernelServes(r.k, k2)
    BY <2>1, <2>4 DEF Kernel, KernelServes
  <2> HIDE DEF k2
  <2>6. DOMAIN r.k.state = Task  BY <2>1 DEF Kernel
  <2>7. ReadyRight(r2)
    <3>1. ReadyRight(r)  BY DEF Right
    <3> QED  BY <3>1, <2>3, <2>4, <2>6 DEF ReadyRight, Lists
  <2>8. StatesRight(r2, X \ {t})
    <3>1. r2.eventID = r.eventID /\ r2.delayTick = r.delayTick /\ r2.pnode = r.pnode
      BY <2>3 DEF Only, Fields
    <3>2. StatesRight(r, X)  BY DEF Right
    <3> QED  BY <3>1, <3>2, <2>3, <2>4, <2>6 DEF StatesRight, Waits
  <2>9. Right(r2, id, X \ {t})
    BY <2>3, <2>4, <2>5, <2>7, <2>8, KernelChange DEF KernelServes
  <2> QED  BY <1>2, <2>3, <2>4, <2>5, <2>9
<1> QED  BY <1>1, <1>2

-----------------------------------------------------------------------------
(* A task leaves the delay list.                                           *)
LEMMA DelayRemoved ==
  ASSUME NEW r, NEW id, NEW X, Right(r, id, X), NEW t \in Task,
         r.delayTick[t] # NoDelay, NEW r2, r2 = RemoveDelayList(r, t)
  PROVE  /\ Right(r2, id, X \cup {t}) /\ Only(r, r2, {"DlyList", "delayTick"})
         /\ r2.delayTick[t] = NoDelay
         /\ \A u \in Task \ {t} : r2.delayTick[u] = NoDelay <=> r.delayTick[u] = NoDelay
<1> DEFINE q == r.DlyList
           i == PosOf(q, t)
           next == i < Len(q)
           u2 == q[i + 1]
           d2 == [u \in Task |-> CASE u = t -> NoDelay
                                   [] next /\ u = u2 -> r.delayTick[u] + r.delayTick[t]
                                   [] OTHER -> r.delayTick[u]]
<1>1. /\ DOMAIN r = Fields /\ q \in Seq(Task) /\ r.delayTick \in [Task -> Nat \cup {NoDelay}]
      /\ Lists(q, {u \in Task : r.delayTick[u] # NoDelay}) /\ StatesRight(r, X)
  BY DEF Right, Shape, DelaysRight
<1>2. i \in 1 .. Len(q) /\ q[i] = t
  BY <1>1, ListPlace
<1>3. Len(q) \in Nat /\ \A j \in 1 .. Len(q) : q[j] \in Task
  BY <1>1, LenProperties, ElementOfSeq
<1>4. r2 = [r EXCEPT !.DlyList = RemoveAt(q, i), !.delayTick = d2]
  BY DEF RemoveDelayList
<1>5. RemoveAt(q, i) \in Seq(Task)
      /\ Lists(RemoveAt(q, i), {u \in Task : r.delayTick[u] # NoDelay} \ {t})
  BY <1>1, <1>2, ListLess
<1>6. \A u \in Task : u \in Range(q) <=> r.delayTick[u] # NoDelay
  BY <1>1 DEF Lists
<1>7. next => u2 \in Task /\ u2 # t /\ r.delayTick[u2] # NoDelay
  <2> HAVE next
  <2>1. i + 1 \in 1 .. Len(q)  BY <1>2, <1>3
  <2>2. u2 \in Task /\ u2 \in Range(q)
    BY <2>1, <1>1, <1>3, LenProperties DEF Range
  <2>3. u2 # t
    BY <2>1, <1>1, <1>2, <1>3, LenProperties DEF Lists, IsInjective
  <2> QED  BY <2>2, <2>3, <1>6
<1>8. d2 \in [Task -> Nat \cup {NoDelay}]
  BY <1>1, <1>7 DEF NoDelay
<1>9. d2[t] = NoDelay
  BY <1>7
<1>10. \A u \in Task \ {t} : d2[u] = NoDelay <=> r.delayTick[u] = NoDelay
  BY <1>1, <1>7 DEF NoDelay
<1> HIDE DEF d2, i, next, u2
<1>11. r2.DlyList = RemoveAt(q, i) /\ r2.delayTick = d2 /\ Only(r, r2, {"DlyList", "delayTick"})
  BY <1>1, <1>4 DEF Only, Fields
<1>12. DelaysRight(r2)
  BY <1>5, <1>9, <1>10, <1>11, ListSame DEF DelaysRight
<1>13. r2.k = r.k /\ r2.eventID = r.eventID /\ r2.pnode = r.pnode
  BY <1>11 DEF Only, Fields
<1>14. StatesRight(r2, X \cup {t})
  BY <1>1, <1>9, <1>10, <1>11, <1>13 DEF StatesRight, Waits
<1> QED  BY <1>5, <1>8, <1>9, <1>10, <1>11, <1>12, <1>14, DelaysChange

LEMMA DelayEnded ==
  ASSUME NEW r, NEW id, NEW X, Right(r, id, X), NEW t \in Task, NEW r2, r2 = EndDelay(r, t)
  PROVE  /\ Right(r2, id, X \cup {t}) /\ Only(r, r2, {"DlyList", "delayTick"})
         /\ r2.delayTick[t] = NoDelay
         /\ \A u \in Task \ {t} : r2.delayTick[u] = NoDelay <=> r.delayTick[u] = NoDelay
<1>1. CASE r.delayTick[t] # NoDelay
  BY <1>1, DelayRemoved DEF EndDelay
<1>2. CASE r.delayTick[t] = NoDelay
  <2>1. r2 = r  BY <1>2 DEF EndDelay
  <2>2. Right(r, id, X \cup {t})  BY DEF Right, StatesRight
  <2> QED  BY <1>2, <2>1, <2>2 DEF Only, Right, Shape
<1> QED  BY <1>1, <1>2

-----------------------------------------------------------------------------
(* A task leaves the list of the nodes.                                    *)
LEMMA NodeRemoved ==
  ASSUME NEW r, NEW id, NEW X, Right(r, id, X), NEW t \in Task,
         r.pnode[t] = "node", NEW r2, r2 = RemoveLinkNode(r, t)
  PROVE  /\ Right(r2, id, X \cup {t}) /\ Only(r, r2, {"nodes", "pnode"})
         /\ r2.pnode = [r.pnode EXCEPT ![t] = "null"]
<1> DEFINE q == r.nodes
           i == PosOf(q, t)
<1>1. /\ DOMAIN r = Fields /\ q \in Seq(Task) /\ r.pnode \in [Task -> {"null", "node", "set"}]
      /\ Lists(q, {u \in Task : r.pnode[u] = "node"}) /\ StatesRight(r, X)
  BY DEF Right, Shape, NodesRight
<1>2. i \in 1 .. Len(q) /\ q[i] = t
  BY <1>1, ListPlace
<1>3. r2.nodes = RemoveAt(q, i) /\ r2.pnode = [r.pnode EXCEPT ![t] = "null"]
      /\ Only(r, r2, {"nodes", "pnode"})
  BY <1>1 DEF RemoveLinkNode, Only, Fields
<1>4. RemoveAt(q, i) \in Seq(Task)
      /\ Lists(RemoveAt(q, i), {u \in Task : r.pnode[u] = "node"} \ {t})
  BY <1>1, <1>2, ListLess
<1> HIDE DEF i
<1>5. NodesRight(r2)
  BY <1>1, <1>3, <1>4, ListSame DEF NodesRight
<1>6. r2.k = r.k /\ r2.eventID = r.eventID /\ r2.delayTick = r.delayTick
  BY <1>3 DEF Only, Fields
<1>7. StatesRight(r2, X \cup {t})
  BY <1>1, <1>3, <1>6 DEF StatesRight, Waits
<1>8. Only(r, r2, Aside \cup {"nodes", "pnode"})
  BY <1>3 DEF Only
<1> QED  BY <1>1, <1>3, <1>4, <1>5, <1>7, <1>8, NodesChange

LEMMA NodeMarked ==
  ASSUME NEW r, NEW id, NEW X, Right(r, id, X), NEW t \in Task, NEW v \in {"null", "set"},
         r.pnode[t] # "node", v = "set" => r.eventID[t] = NoEvent /\ r.delayTick[t] = NoDelay,
         NEW r2, Only(r, r2, Aside \cup {"pnode"}), r2.pnode = [r.pnode EXCEPT ![t] = v]
  PROVE  Right(r2, id, X)
<1>1. /\ r.pnode \in [Task -> {"null", "node", "set"}] /\ r.nodes \in Seq(Task)
      /\ Lists(r.nodes, {u \in Task : r.pnode[u] = "node"}) /\ StatesRight(r, X)
  BY DEF Right, Shape, NodesRight
<1>2. r2.nodes = r.nodes /\ r2.k = r.k /\ r2.eventID = r.eventID /\ r2.delayTick = r.delayTick
  BY DEF Only, Fields, Aside
<1>3. NodesRight(r2)
  BY <1>1, <1>2, ListSame DEF NodesRight
<1>4. StatesRight(r2, X)
  BY <1>1, <1>2 DEF StatesRight, Waits
<1>5. Only(r, r2, Aside \cup {"nodes", "pnode"})
  BY DEF Only
<1> QED  BY <1>1, <1>2, <1>3, <1>4, <1>5, NodesChange

-----------------------------------------------------------------------------
(* A task that leaves the delay list takes nothing from the others.        *)
LEMMA TicksEnded ==
  ASSUME NEW r, NEW id, NEW X, Right(r, id, X), NEW t \in Task, NEW r2, r2 = EndDelay(r, t)
  PROVE  \A u \in Task \ {t} : r.delayTick[u] # NoDelay =>
           r2.delayTick[u] # NoDelay /\ TicksLeft(r2, u) = TicksLeft(r, u)
<1>1. /\ DOMAIN r = Fields /\ r.DlyList \in Seq(Task)
      /\ r.delayTick \in [Task -> Nat \cup {NoDelay}] /\ DelaysRight(r)
  BY DEF Right, Shape
<1>2. Delayed(r) /\ \A u \in Task : r.delayTick[u] # NoDelay =>
                      \E i \in 1 .. Len(r.DlyList) : r.DlyList[i] = u
  BY <1>1, DelaysAt
<1>3. \A u \in Task \ {t} : r2.delayTick[u] = NoDelay <=> r.delayTick[u] = NoDelay
  <2>1. /\ Right(r2, id, X \cup {t}) /\ Only(r, r2, {"DlyList", "delayTick"})
        /\ r2.delayTick[t] = NoDelay
        /\ \A u \in Task \ {t} : r2.delayTick[u] = NoDelay <=> r.delayTick[u] = NoDelay
    BY DelayEnded
  <2> QED  BY <2>1
<1>4. CASE r.delayTick[t] = NoDelay
  BY <1>4 DEF EndDelay
<1>5. CASE r.delayTick[t] # NoDelay
  <2> DEFINE q == r.DlyList
             i == PosOf(q, t)
  <2>1. i \in 1 .. Len(q) /\ q[i] = t
    BY <1>1, <1>5, ListPlace DEF DelaysRight
  <2>2. /\ r2.DlyList = RemoveAt(q, i)
        /\ r2.delayTick = [u \in Task |->
                             CASE u = t -> NoDelay
                               [] i < Len(q) /\ u = q[i + 1] -> r.delayTick[u] + r.delayTick[t]
                               [] OTHER -> r.delayTick[u]]
    BY <1>1, <1>5 DEF EndDelay, RemoveDelayList, Fields
  <2> HIDE DEF i
  <2>3. \A u \in Task : u # q[i] =>
          r2.delayTick[u] = IF i < Len(q) /\ u = q[i + 1]
                            THEN r.delayTick[u] + r.delayTick[q[i]] ELSE r.delayTick[u]
    BY <2>1, <2>2
  <2>4. \A j \in 1 .. Len(q) : j # i => TicksLeft(r2, q[j]) = TicksLeft(r, q[j])
    BY <1>2, <2>1, <2>2, <2>3, TicksLess
  <2> QED  BY <1>2, <1>3, <2>1, <2>4
<1> QED  BY <1>4, <1>5

-----------------------------------------------------------------------------
(* A task leaves the waiting list of its event.                            *)
LEMMA Unlinked ==
  ASSUME NEW r, NEW id, NEW X, Right(r, id, X), NEW t \in Task,
         r.eventID[t] # NoEvent, NEW r2, r2 = RemoveEventWaittingList(r, t)
  PROVE  /\ Right(r2, id, X \cup {t})
         /\ Only(r, r2, {"eventTCBList", "eventID", "waitNext", "waitPrev"})
         /\ r2.eventID = [r.eventID EXCEPT ![t] = NoEvent]
<1> DEFINE e == r.eventID[t]
           next == r.waitNext[t]
           prev == r.waitPrev[t]
           l2 == IF prev = NoTask THEN [r.eventTCBList EXCEPT ![e] = next] ELSE r.eventTCBList
           n2 == [u \in Task |-> CASE u = prev -> next [] u = t -> NoTask
                                   [] OTHER -> r.waitNext[u]]
           p2 == [u \in Task |-> CASE u = next -> prev [] u = t -> NoTask
                                   [] OTHER -> r.waitPrev[u]]
           i2 == [r.eventID EXCEPT ![t] = NoEvent]
<1>1. /\ DOMAIN r = Fields /\ r.eventTCBList \in [Event -> Link]
      /\ r.eventID \in [Task -> Event \cup {NoEvent}]
      /\ r.waitNext \in [Task -> Link] /\ r.waitPrev \in [Task -> Link]
      /\ ChainsRight(r) /\ StatesRight(r, X) /\ WaitersRight(r, id)
  BY DEF Right, Shape
<1>2. e \in Event /\ NoEvent \notin Event /\ NoTask \notin Task
  BY <1>1, EventAssumption, KernelAssumption DEF Event, NoEvent, NoTask, Task
<1>3. PICK q \in Seq(Task) : Chained(r, e, q)
  BY <1>1, <1>2 DEF ChainsRight
<1> DEFINE n == Len(q)
           i == PosOf(q, t)
           q2 == RemoveAt(q, i)
<1>4. n \in Nat /\ \A j \in 1 .. n : q[j] \in Task
  BY LenProperties, ElementOfSeq
<1>5. Lists(q, {u \in Task : r.eventID[u] = e})
  BY <1>3 DEF Chained
<1>6. i \in 1 .. n /\ q[i] = t
  BY <1>5, ListPlace
<1>6a. (n = 1 \/ n > 1) /\ ~(n = 1 /\ n > 1)
  <2> HIDE DEF n
  <2> QED  BY <1>4, <1>6
<1>7. /\ q2 \in Seq(Task) /\ Lists(q2, {u \in Task : r.eventID[u] = e} \ {t})
      /\ Len(q2) = n - 1
      /\ \A j \in 1 .. n - 1 : q2[j] = IF j < i THEN q[j] ELSE q[j + 1]
  BY <1>5, <1>6, ListLess, RemoveAtFacts
<1>8. \A j, l \in 1 .. n : q[j] = q[l] => j = l
  BY <1>5, LenProperties DEF Lists, IsInjective
<1>9. \A j \in 1 .. n : r.eventID[q[j]] = e
  BY <1>4, <1>5, LenProperties DEF Lists, Range
<1>10. \A j \in 1 .. n : /\ r.waitNext[q[j]] = IF j < n THEN q[j + 1] ELSE NoTask
                         /\ r.waitPrev[q[j]] = IF j > 1 THEN q[j - 1] ELSE NoTask
  BY <1>3 DEF Chained
<1>11. r.eventTCBList[e] = IF q = <<>> THEN NoTask ELSE q[1]
  BY <1>3 DEF Chained
<1>12. r2 = [r EXCEPT !.eventTCBList = l2, !.waitNext = n2, !.waitPrev = p2, !.eventID = i2]
  BY DEF RemoveEventWaittingList
<1>13. /\ next = (IF i < n THEN q[i + 1] ELSE NoTask)
       /\ prev = (IF i > 1 THEN q[i - 1] ELSE NoTask)
  BY <1>6, <1>10
<1> HIDE DEF i, q2
<1>14. /\ next # t /\ prev # t
       /\ next # NoTask => next \in Task /\ r.eventID[next] = e
       /\ prev # NoTask => prev \in Task /\ r.eventID[prev] = e
  BY <1>2, <1>4, <1>6, <1>8, <1>9, <1>13
<1>15. next \in Link /\ prev \in Link
  BY <1>1
<1> HIDE DEF next, prev
<1>16. l2 \in [Event -> Link] /\ n2 \in [Task -> Link] /\ p2 \in [Task -> Link]
       /\ i2 \in [Task -> Event \cup {NoEvent}]
  BY <1>1, <1>15 DEF Link
<1>17. /\ prev \in Task => n2[prev] = next
       /\ next \in Task => p2[next] = prev
       /\ n2[t] = NoTask /\ p2[t] = NoTask
       /\ \A u \in Task : u # t /\ u # prev => n2[u] = r.waitNext[u]
       /\ \A u \in Task : u # t /\ u # next => p2[u] = r.waitPrev[u]
       /\ l2[e] = (IF prev = NoTask THEN next ELSE r.eventTCBList[e])
       /\ \A f \in Event \ {e} : l2[f] = r.eventTCBList[f]
       /\ i2[t] = NoEvent /\ \A u \in Task \ {t} : i2[u] = r.eventID[u]
  BY <1>1, <1>2, <1>14
<1> HIDE DEF l2, n2, p2, i2
<1>18. /\ r2.eventTCBList = l2 /\ r2.waitNext = n2 /\ r2.waitPrev = p2 /\ r2.eventID = i2
       /\ Only(r, r2, {"eventTCBList", "eventID", "waitNext", "waitPrev"})
  BY <1>1, <1>12 DEF Only, Fields
<1>19. /\ r2.k = r.k /\ r2.eventSortType = r.eventSortType /\ r2.pnode = r.pnode
       /\ r2.delayTick = r.delayTick /\ r2.pmail = r.pmail /\ r2.eventType = r.eventType
  BY <1>18 DEF Only, Fields
<1>20. Chained(r2, e, q2)
  <2>1. Lists(q2, {u \in Task : r2.eventID[u] = e})
    BY <1>2, <1>7, <1>17, <1>18, ListSame
  <2>2. r2.eventTCBList[e] = IF q2 = <<>> THEN NoTask ELSE q2[1]
    <3>1. q2 = <<>> <=> n = 1
      <4>1. q2 = <<>> <=> Len(q2) = 0  BY <1>7, EmptySeq
      <4> QED  BY <4>1, <1>4, <1>7
    <3>2. q # <<>>
      BY <1>4, <1>6, EmptySeq
    <3>3. CASE i = 1
      <4>1. prev = NoTask /\ next = (IF 1 < n THEN q[2] ELSE NoTask)
        BY <3>3, <1>13
      <4>2. n > 1 => q2[1] = q[2]  BY <3>3, <1>4, <1>7
      <4>3. r2.eventTCBList[e] = next  BY <1>17, <1>18, <4>1
      <4>4. CASE n = 1
        <5>1. next = NoTask /\ q2 = <<>>  BY <4>1, <4>4, <3>1
        <5> QED  BY <5>1, <4>3
      <4>5. CASE n > 1
        <5>1. next = q2[1] /\ q2 # <<>>  BY <4>1, <4>2, <4>5, <3>1
        <5> QED  BY <5>1, <4>3
      <4>6. n = 1 \/ n > 1  BY <1>6a
      <4> QED  BY <4>4, <4>5, <4>6
    <3>4. CASE i > 1
      <4>1. prev # NoTask  BY <3>4, <1>2, <1>4, <1>6, <1>13
      <4>2. q2[1] = q[1] /\ n > 1  BY <3>4, <1>4, <1>6, <1>7
      <4>3. r2.eventTCBList[e] = r.eventTCBList[e]  BY <1>17, <1>18, <4>1
      <4>4. r.eventTCBList[e] = q2[1]
        <5>1. r.eventTCBList[e] = q[1]  BY <1>11, <3>2, Zenon
        <5> QED  BY <5>1, <4>2
      <4>5. q2 # <<>>  BY <3>1, <4>2, <1>6a
      <4> QED  BY <4>3, <4>4, <4>5
    <3> QED  BY <3>3, <3>4, <1>4, <1>6
  <2>3. \A j \in 1 .. Len(q2) : n2[q2[j]] = IF j < Len(q2) THEN q2[j + 1] ELSE NoTask
    <3> SUFFICES ASSUME NEW j \in 1 .. n - 1
                 PROVE  n2[q2[j]] = IF j < n - 1 THEN q2[j + 1] ELSE NoTask
      BY <1>7
    <3>1. CASE j < i - 1
      <4>1. q2[j] = q[j] /\ q2[j + 1] = q[j + 1] /\ j < n - 1 /\ j \in 1 .. n
        BY <3>1, <1>4, <1>6, <1>7
      <4>2. q[j] # t /\ q[j] # prev /\ q[j] \in Task
        BY <3>1, <4>1, <1>2, <1>4, <1>6, <1>8, <1>13
      <4> QED  BY <4>1, <4>2, <1>10, <1>17
    <3>2. CASE j = i - 1
      <4>1. q2[j] = q[j] /\ prev = q[j] /\ prev \in Task
        BY <3>2, <1>4, <1>6, <1>7, <1>13
      <4>2. j < n - 1 => q2[j + 1] = q[i + 1]
        BY <3>2, <1>4, <1>6, <1>7
      <4> QED  BY <3>2, <4>1, <4>2, <1>4, <1>6, <1>13, <1>17
    <3>3. CASE j >= i
      <4>1. q2[j] = q[j + 1] /\ j + 1 \in 1 .. n
        BY <3>3, <1>4, <1>6, <1>7
      <4>2. q[j + 1] # t /\ q[j + 1] # prev /\ q[j + 1] \in Task
        BY <3>3, <4>1, <1>2, <1>4, <1>6, <1>8, <1>13
      <4>3. j < n - 1 => q2[j + 1] = q[j + 2]
        BY <3>3, <1>4, <1>6, <1>7
      <4>4. n2[q[j + 1]] = IF j + 1 < n THEN q[(j + 1) + 1] ELSE NoTask
        BY <4>1, <4>2, <1>10, <1>17
      <4> QED  BY <4>1, <4>3, <4>4, <1>4
    <3> QED  BY <3>1, <3>2, <3>3, <1>4, <1>6
  <2>4. \A j \in 1 .. Len(q2) : p2[q2[j]] = IF j > 1 THEN q2[j - 1] ELSE NoTask
    <3> SUFFICES ASSUME NEW j \in 1 .. n - 1
                 PROVE  p2[q2[j]] = IF j > 1 THEN q2[j - 1] ELSE NoTask
      BY <1>7
    <3>1. CASE j < i
      <4>1. q2[j] = q[j] /\ j \in 1 .. n /\ (j > 1 => q2[j - 1] = q[j - 1])
        BY <3>1, <1>4, <1>6, <1>7
      <4>2. q[j] # t /\ q[j] # next /\ q[j] \in Task
        BY <3>1, <4>1, <1>2, <1>4, <1>6, <1>8, <1>13
      <4> QED  BY <4>1, <4>2, <1>10, <1>17
    <3>2. CASE j = i
      <4>1. q2[j] = q[j + 1] /\ next = q[j + 1] /\ next \in Task
        BY <3>2, <1>4, <1>6, <1>7, <1>13
      <4>2. j > 1 => q2[j - 1] = q[i - 1]
        BY <3>2, <1>4, <1>6, <1>7
      <4> QED  BY <3>2, <4>1, <4>2, <1>4, <1>6, <1>13, <1>17
    <3>3. CASE j > i
      <4>1. q2[j] = q[j + 1] /\ j + 1 \in 1 .. n /\ q2[j - 1] = q[j] /\ j > 1
        BY <3>3, <1>4, <1>6, <1>7
      <4>2. q[j + 1] # t /\ q[j + 1] # next /\ q[j + 1] \in Task
        BY <3>3, <4>1, <1>2, <1>4, <1>6, <1>8, <1>13
      <4>4. p2[q[j + 1]] = IF j + 1 > 1 THEN q[(j + 1) - 1] ELSE NoTask
        BY <4>1, <4>2, <1>10, <1>17
      <4> QED  BY <4>1, <4>4, <1>4
    <3> QED  BY <3>1, <3>2, <3>3, <1>4, <1>6
  <2>5. r2.eventSortType[e] = "prio" =>
          \A j, l \in 1 .. Len(q2) : j < l => r2.k.prio[q2[j]] <= r2.k.prio[q2[l]]
    <3> SUFFICES ASSUME r.eventSortType[e] = "prio", NEW j \in 1 .. n - 1, NEW l \in 1 .. n - 1,
                        j < l
                 PROVE  r.k.prio[q2[j]] <= r.k.prio[q2[l]]
      BY <1>7, <1>19
    <3>1. \A a, b \in 1 .. n : a < b => r.k.prio[q[a]] <= r.k.prio[q[b]]
      BY <1>3 DEF Chained
    <3> DEFINE a == IF j < i THEN j ELSE j + 1
               b == IF l < i THEN l ELSE l + 1
    <3>2. a \in 1 .. n /\ b \in 1 .. n /\ a < b /\ q2[j] = q[a] /\ q2[l] = q[b]
      BY <1>4, <1>6, <1>7
    <3> QED  BY <3>1, <3>2
  <2> QED  BY <2>1, <2>2, <2>3, <2>4, <2>5, <1>7, <1>18 DEF Chained
<1>21. ASSUME NEW f \in Event, f # e, NEW p, Chained(r, f, p) PROVE Chained(r2, f, p)
  <2>1. p \in Seq(Task) /\ Lists(p, {u \in Task : r.eventID[u] = f})
    BY <1>21 DEF Chained
  <2>2. \A j \in 1 .. Len(p) : p[j] \in Task /\ r.eventID[p[j]] = f
    BY <2>1, LenProperties, ElementOfSeq DEF Lists, Range
  <2>3. \A j \in 1 .. Len(p) : n2[p[j]] = r.waitNext[p[j]] /\ p2[p[j]] = r.waitPrev[p[j]]
    BY <2>2, <1>2, <1>14, <1>17, <1>21
  <2>4. Lists(p, {u \in Task : r2.eventID[u] = f})
    BY <2>1, <1>2, <1>17, <1>18, <1>21, ListSame
  <2>5. r2.eventTCBList[f] = r.eventTCBList[f]
    BY <1>17, <1>18, <1>21
  <2> QED  BY <2>1, <2>3, <2>4, <2>5, <1>18, <1>19, <1>21 DEF Chained
<1>22. ChainsRight(r2)
  <2>1. \A f \in Event : \E p \in Seq(Task) : Chained(r2, f, p)
    BY <1>1, <1>7, <1>20, <1>21 DEF ChainsRight
  <2>2. \A u \in Task : i2[u] = NoEvent => n2[u] = NoTask /\ p2[u] = NoTask
    BY <1>1, <1>2, <1>14, <1>17 DEF ChainsRight
  <2> QED  BY <2>1, <2>2, <1>18 DEF ChainsRight
<1>23. StatesRight(r2, X \cup {t})
  BY <1>1, <1>2, <1>17, <1>18, <1>19 DEF StatesRight, Waits
<1>24. WaitersRight(r2, id)
  BY <1>1, <1>2, <1>17, <1>18, <1>19 DEF WaitersRight
<1>25. Right(r2, id, X \cup {t})
  BY <1>16, <1>18, <1>22, <1>23, <1>24, ChainsChange
<1> QED  BY <1>18, <1>25 DEF i2

(* The first waiter leaves by the head, which is the same.                 *)
LEMMA FirstUnlinked ==
  ASSUME NEW r, NEW id, NEW X, Right(r, id, X), NEW e \in Event,
         r.eventTCBList[e] # NoTask
  PROVE  LET t == r.eventTCBList[e]
         IN  /\ t \in Task /\ r.eventID[t] = e
             /\ TakeFirst(r, e) = RemoveEventWaittingList(r, t)
<1> DEFINE t == r.eventTCBList[e]
<1>1. /\ DOMAIN r = Fields /\ r.eventTCBList \in [Event -> Link]
      /\ r.eventID \in [Task -> Event \cup {NoEvent}]
      /\ r.waitNext \in [Task -> Link] /\ r.waitPrev \in [Task -> Link]
      /\ ChainsRight(r)
  BY DEF Right, Shape
<1>2. NoTask \notin Task
  BY KernelAssumption DEF NoTask, Task
<1>3. PICK q \in Seq(Task) : Chained(r, e, q)
  BY <1>1 DEF ChainsRight
<1>4. Len(q) \in Nat /\ \A j \in 1 .. Len(q) : q[j] \in Task
  BY LenProperties, ElementOfSeq
<1>5. q # <<>> /\ t = q[1]
  BY <1>3 DEF Chained
<1>6. 1 \in 1 .. Len(q)
  BY <1>4, <1>5, EmptySeq
<1>7. t \in Task /\ r.eventID[t] = e
  BY <1>3, <1>4, <1>5, <1>6, LenProperties DEF Chained, Lists, Range
<1>8. r.waitPrev[t] = NoTask
  BY <1>3, <1>5, <1>6 DEF Chained
<1> DEFINE next == r.waitNext[t]
<1>9. next # t
  <2>1. next = IF 1 < Len(q) THEN q[2] ELSE NoTask
    BY <1>3, <1>5, <1>6 DEF Chained
  <2>2. 1 < Len(q) => q[2] # q[1]
    BY <1>3, <1>4, LenProperties DEF Chained, Lists, IsInjective
  <2> QED  BY <2>1, <2>2, <1>2, <1>5, <1>7
<1> HIDE DEF t, next
<1>10. [u \in Task |-> IF u = next THEN NoTask ELSE r.waitPrev[u]]
         = [u \in Task |-> CASE u = next -> NoTask [] u = t -> NoTask [] OTHER -> r.waitPrev[u]]
  BY <1>7, <1>8, <1>9
<1>11. [r.waitNext EXCEPT ![t] = NoTask]
         = [u \in Task |-> CASE u = NoTask -> next [] u = t -> NoTask [] OTHER -> r.waitNext[u]]
  BY <1>1, <1>2, <1>7
<1>12. TakeFirst(r, e)
         = [r EXCEPT !.eventTCBList = [r.eventTCBList EXCEPT ![e] = next],
                     !.waitPrev = [u \in Task |-> IF u = next THEN NoTask ELSE r.waitPrev[u]],
                     !.waitNext = [r.waitNext EXCEPT ![t] = NoTask],
                     !.eventID  = [r.eventID EXCEPT ![t] = NoEvent]]
  BY DEF TakeFirst, t, next
<1>13. RemoveEventWaittingList(r, t)
         = [r EXCEPT !.eventTCBList = [r.eventTCBList EXCEPT ![e] = next],
                     !.waitNext = [u \in Task |-> CASE u = NoTask -> next [] u = t -> NoTask
                                                    [] OTHER -> r.waitNext[u]],
                     !.waitPrev = [u \in Task |-> CASE u = next -> NoTask [] u = t -> NoTask
                                                    [] OTHER -> r.waitPrev[u]],
                     !.eventID  = [r.eventID EXCEPT ![t] = NoEvent]]
  BY <1>7, <1>8 DEF RemoveEventWaittingList, next
<1>14. TakeFirst(r, e) = RemoveEventWaittingList(r, t)
  BY <1>1, <1>10, <1>11, <1>12, <1>13
<1> QED  BY <1>7, <1>14 DEF t

-----------------------------------------------------------------------------
(* What becomes of the requests.  If NoEvent is in E there may be new ones *)
(* behind those that were there, and if Drains is, some may be taken out.  *)
Drains == MaxEvent + 1

SameRing(r, r2) == r2.cnt = r.cnt /\ r2.cell = r.cell /\ r2.head = r.head

Grows(r, r2) ==
  /\ r2.head = r.head
  /\ 0 .. r.cnt - 1 \subseteq 0 .. r2.cnt - 1
  /\ \A j \in 0 .. r.cnt - 1 :
       r2.cell[(r.head + j) % SrqSize] = r.cell[(r.head + j) % SrqSize]

RingServed(r, r2, E) ==
  /\ NoEvent \in E \/ SameRing(r, r2)
  /\ Drains \in E \/ Grows(r, r2)

LEMMA RingSame ==
  ASSUME NEW r, NEW r2, r2.cnt = r.cnt, r2.cell = r.cell, r2.head = r.head, NEW E
  PROVE  RingServed(r, r2, E)
BY DEF RingServed, SameRing, Grows

LEMMA RingAgain ==
  ASSUME NEW r, NEW r2, NEW r3, NEW E, RingServed(r, r2, E), RingServed(r2, r3, E)
  PROVE  RingServed(r, r3, E)
<1>1. NoEvent \in E \/ SameRing(r, r3)
  BY DEF RingServed, SameRing
<1>2. ASSUME Grows(r, r2), Grows(r2, r3) PROVE Grows(r, r3)
  BY <1>2 DEF Grows
<1> QED  BY <1>1, <1>2 DEF RingServed

LEMMA RingMore ==
  ASSUME NEW r, NEW r2, NEW E, NEW F, RingServed(r, r2, E), E \subseteq F
  PROVE  RingServed(r, r2, F)
BY DEF RingServed

(* What becomes of the delays, unless Ticks is in E: they are as long as   *)
(* they were, and those that end are over or end with what t waited for.   *)
Ticks == MaxEvent + 2

Ended(r, r2, t) ==
  \/ TicksLeft(r, t) = 0
  \/ r.eventID[t] # NoEvent /\ r2.eventID[t] = NoEvent /\ r2.pmail[t] # NoMail
  \/ r.pnode[t] = "node" /\ r2.pnode[t] = "set"

DelaysServed(r, r2) ==
  \A t \in Task : r.delayTick[t] # NoDelay =>
    IF r2.delayTick[t] # NoDelay THEN TicksLeft(r2, t) = TicksLeft(r, t)
                                 ELSE Ended(r, r2, t)

LEMMA DelaysSame ==
  ASSUME NEW r, NEW r2, r2.DlyList = r.DlyList, r2.delayTick = r.delayTick
  PROVE  DelaysServed(r, r2)
BY DEF DelaysServed, TicksLeft, Due

(* What serving does to the tasks, and to semaphores other than those of   *)
(* E: it may take a task out of a list, with what it waited for or at its  *)
(* time, and make it ready.                                                *)
Serves(r, r2, E) ==
  /\ RingServed(r, r2, E)
  /\ Ticks \in E \/ DelaysServed(r, r2)
  /\ r2.app = r.app /\ r2.eventType = r.eventType
  /\ r2.initialEventCounter = r.initialEventCounter /\ r2.holds = r.holds
  /\ KernelServes(r.k, r2.k)
  /\ \A e \in Event \ E : r.eventType[e] = "sem" =>
       r2.eventCounter[e] = r.eventCounter[e] /\ r2.balance[e] = r.balance[e]
  /\ \A t \in Task :
       /\ \/ r2.k.state[t] = r.k.state[t]
          \/ r.k.state[t] = "WAITING" /\ r2.k.state[t] = "READY"
          \/ r.k.state[t] = "WAITING" /\ r2.k.state[t] = "RUNNING" /\ t = r.k.TCBRunning
       /\ r2.eventID[t] = r.eventID[t] \/ r2.eventID[t] = NoEvent
       /\ r2.pmail[t] = r.pmail[t] \/ r.eventID[t] # NoEvent
       /\ r2.pnode[t] = r.pnode[t] \/ r.pnode[t] = "node"
       /\ r.delayTick[t] = NoDelay =>
            /\ r2.delayTick[t] = NoDelay
            /\ r2.pnode[t] = r.pnode[t] \/ r2.pnode[t] = "set"
            /\ r.eventID[t] # NoEvent /\ r2.eventID[t] = NoEvent => r2.pmail[t] # NoMail

LEMMA ServesAgain ==
  ASSUME NEW r, NEW r2, NEW r3, NEW E, Serves(r, r2, E), Serves(r2, r3, E)
  PROVE  Serves(r, r3, E)
<1>1. RingServed(r, r3, E)
  BY RingAgain DEF Serves
<1>2. ASSUME DelaysServed(r, r2), DelaysServed(r2, r3) PROVE DelaysServed(r, r3)
  <2> SUFFICES ASSUME NEW t \in Task, r.delayTick[t] # NoDelay
               PROVE  IF r3.delayTick[t] # NoDelay THEN TicksLeft(r3, t) = TicksLeft(r, t)
                                                   ELSE Ended(r, r3, t)
    BY DEF DelaysServed
  <2>1. /\ r2.eventID[t] = r.eventID[t] \/ r2.eventID[t] = NoEvent
        /\ r2.pnode[t] = r.pnode[t] \/ r.pnode[t] = "node"
        /\ r3.eventID[t] = r2.eventID[t] \/ r3.eventID[t] = NoEvent
        /\ r3.pmail[t] = r2.pmail[t] \/ r2.eventID[t] # NoEvent
        /\ r3.pnode[t] = r2.pnode[t] \/ r2.pnode[t] = "node"
        /\ r2.delayTick[t] = NoDelay => r3.delayTick[t] = NoDelay
    BY DEF Serves
  <2>2. CASE r2.delayTick[t] # NoDelay
    <3>1. TicksLeft(r2, t) = TicksLeft(r, t)
      BY <1>2, <2>2 DEF DelaysServed
    <3>2. IF r3.delayTick[t] # NoDelay THEN TicksLeft(r3, t) = TicksLeft(r2, t)
                                       ELSE Ended(r2, r3, t)
      BY <1>2, <2>2 DEF DelaysServed
    <3>3. CASE r3.delayTick[t] # NoDelay
      BY <3>1, <3>2, <3>3
    <3>4. CASE r3.delayTick[t] = NoDelay
      <4>1. Ended(r2, r3, t)  BY <3>2, <3>4
      <4>2. Ended(r, r3, t)  BY <2>1, <3>1, <4>1 DEF Ended
      <4> QED  BY <3>4, <4>2
    <3> QED  BY <3>3, <3>4
  <2>3. CASE r2.delayTick[t] = NoDelay
    <3>1. Ended(r, r2, t)
      BY <1>2, <2>3 DEF DelaysServed
    <3>2. Ended(r, r3, t)
      BY <2>1, <3>1 DEF Ended
    <3> QED  BY <2>1, <2>3, <3>2
  <2> QED  BY <2>2, <2>3
<1>3. Ticks \in E \/ DelaysServed(r, r3)
  BY <1>2 DEF Serves
<1> QED  BY <1>1, <1>3 DEF Serves, KernelServes

LEMMA ServesNone ==
  ASSUME NEW r, NEW E, r.k \in Kernel
  PROVE  Serves(r, r, E)
<1>1. RingServed(r, r, E)
  BY RingSame
<1>2. DelaysServed(r, r)
  BY DelaysSame
<1> QED  BY <1>1, <1>2 DEF Serves, KernelServes

LEMMA ServesMore ==
  ASSUME NEW r, NEW r2, NEW E, NEW F, Serves(r, r2, E), E \subseteq F
  PROVE  Serves(r, r2, F)
<1>1. RingServed(r, r2, F)
  BY RingMore DEF Serves
<1> QED  BY <1>1 DEF Serves

LEMMA RightMore ==
  ASSUME NEW r, NEW id, NEW X, NEW Y, Right(r, id, X), X \subseteq Y
  PROVE  Right(r, id, Y)
BY DEF Right, StatesRight

(* Steps that only move fields that no thread looks at.                    *)
LEMMA ServesRing ==
  ASSUME NEW r, NEW r2, NEW id, NEW X, NEW E, Right(r, id, X),
         Only(r, r2, Aside \cup {"cell", "cnt", "head", "TmrTbl", "TmrList"}),
         RingServed(r, r2, E)
  PROVE  Serves(r, r2, E)
<1>1. /\ r2.app = r.app /\ r2.k = r.k /\ r2.eventType = r.eventType
      /\ r2.initialEventCounter = r.initialEventCounter /\ r2.holds = r.holds
      /\ r2.eventCounter = r.eventCounter /\ r2.balance = r.balance
      /\ r2.eventID = r.eventID /\ r2.pmail = r.pmail /\ r2.pnode = r.pnode
      /\ r2.delayTick = r.delayTick /\ r2.DlyList = r.DlyList
  BY DEF Only, Aside, Fields
<1>2. r.k \in Kernel  BY DEF Right, Shape
<1>3. DelaysServed(r, r2)  BY <1>1, DelaysSame
<1> QED  BY <1>1, <1>2, <1>3 DEF Serves, KernelServes

LEMMA ServesAside ==
  ASSUME NEW r, NEW r2, NEW id, NEW X, NEW E, Right(r, id, X),
         Only(r, r2, Aside \cup {"TmrTbl", "TmrList"})
  PROVE  Serves(r, r2, E)
<1>1. r2.cnt = r.cnt /\ r2.cell = r.cell /\ r2.head = r.head
  BY DEF Only, Aside, Fields
<1>2. Only(r, r2, Aside \cup {"cell", "cnt", "head", "TmrTbl", "TmrList"})
  BY DEF Only
<1>3. RingServed(r, r2, E)
  BY <1>1, RingSame
<1> QED  BY <1>2, <1>3, ServesRing

-----------------------------------------------------------------------------
(* Rings.                                                                  *)
LEMMA ModFacts ==
  ASSUME NEW m \in Nat \ {0}, NEW a \in Nat
  PROVE  /\ a % m \in 0 .. m - 1
         /\ a < m => a % m = a
         /\ (a + m) % m = a % m
         /\ (IF (a % m) + 1 = m THEN 0 ELSE (a % m) + 1) = (a + 1) % m
<1> DEFINE d == a \div m
           b == a % m
<1>1. b \in 0 .. m - 1 /\ d \in Nat /\ a = m * d + b
  OBVIOUS
<1>2. a < m => a % m = a
  OBVIOUS
<1> HIDE DEF d, b
<1>3. m * (d + 1) = m * d + m
  BY <1>1
<1>4. a + m = m * (d + 1) + b /\ d + 1 \in Nat /\ a + m \in Nat
  BY <1>1, <1>3
<1>5. \A x, y \in Nat : \A z \in 0 .. m - 1 : x = m * y + z => z = x % m
  OBVIOUS
<1>6. b = (a + m) % m
  BY <1>1, <1>4, <1>5
<1>7. (IF b + 1 = m THEN 0 ELSE b + 1) = (a + 1) % m
  <2>1. CASE b + 1 = m
    <3>1. a + 1 = m * (d + 1) + 0 /\ 0 \in 0 .. m - 1 /\ a + 1 \in Nat
      BY <1>1, <1>3, <2>1
    <3>2. 0 = (a + 1) % m
      BY <1>4, <1>5, <3>1
    <3> QED  BY <2>1, <3>2
  <2>2. CASE b + 1 # m
    <3>1. a + 1 = m * d + (b + 1) /\ b + 1 \in 0 .. m - 1 /\ a + 1 \in Nat
      BY <1>1, <2>2
    <3>2. b + 1 = (a + 1) % m
      BY <1>1, <1>5, <3>1
    <3> QED  BY <2>2, <3>2
  <2> QED  BY <2>1, <2>2
<1>8. b = a % m  BY DEF b
<1> QED  BY <1>1, <1>2, <1>6, <1>7, <1>8

(* The first cell is taken out.                                            *)
LEMMA RingTaken ==
  ASSUME NEW c, RingRight(c), c.qMaxSize > 0, c.qSize > 0,
         NEW c2, c2 = [c EXCEPT !.head = IF c.head + 1 = c.qMaxSize THEN 0 ELSE c.head + 1,
                                !.qSize = c.qSize - 1]
  PROVE  RingRight(c2) /\ c2.qMaxSize = c.qMaxSize /\ c.qStart[c.head] \in Mail
<1> DEFINE m == c.qMaxSize
           h == c.head
           n == c.qSize
           h2 == IF h + 1 = m THEN 0 ELSE h + 1
<1>1. /\ DOMAIN c = {"id", "head", "tail", "qSize", "qMaxSize", "qStart"}
      /\ m \in Nat \ {0} /\ h \in 0 .. m - 1 /\ n \in Nat \ {0}
      /\ c.tail = (h + n) % m /\ m \in 0 .. MaxCell
      /\ \A j \in 0 .. m - 1 : j < n => c.qStart[(h + j) % m] \in Mail
  BY EventAssumption DEF RingRight
<1>2. /\ c2.head = h2 /\ c2.tail = c.tail /\ c2.qSize = n - 1 /\ c2.qMaxSize = m
      /\ c2.qStart = c.qStart /\ DOMAIN c2 = DOMAIN c
  BY <1>1
<1>2a. DOMAIN c2.qStart = 0 .. MaxCell - 1
  BY <1>2 DEF RingRight
<1> HIDE DEF m, h, n
<1>3. h2 \in 0 .. m - 1
  BY <1>1
<1>4. \A x \in Nat : (h2 + x) % m = (h + 1 + x) % m
  <2> TAKE x \in Nat
  <2>1. CASE h + 1 = m
    <3>1. h2 = 0 /\ h + 1 + x = x + m  BY <2>1, <1>1
    <3>2. (x + m) % m = x % m  BY <1>1, ModFacts
    <3> QED  BY <3>1, <3>2
  <2>2. CASE h + 1 # m
    BY <2>2
  <2> QED  BY <2>1, <2>2
<1> HIDE DEF h2
<1>5. c.tail = (h2 + (n - 1)) % m
  <2>1. n - 1 \in Nat /\ h + 1 + (n - 1) = h + n  BY <1>1
  <2> QED  BY <1>1, <1>4, <2>1
<1>6. h % m = h /\ (h + m) % m = h
  BY <1>1, ModFacts
<1>7. ASSUME NEW j \in 0 .. m - 1, j < n - 1 PROVE c.qStart[(h2 + j) % m] \in Mail
  <2>1. (h2 + j) % m = (h + (j + 1)) % m
    <3>1. j \in Nat /\ h + 1 + j = h + (j + 1)  BY <1>1
    <3> QED  BY <3>1, <1>4
  <2>2. CASE j + 1 < m
    <3>1. j + 1 \in 0 .. m - 1 /\ j + 1 < n  BY <2>2, <1>1, <1>7
    <3> QED  BY <2>1, <3>1, <1>1
  <2>3. CASE j + 1 = m
    <3>1. 0 \in 0 .. m - 1 /\ 0 < n /\ h + 0 = h  BY <1>1
    <3>2. c.qStart[(h + 0) % m] \in Mail  BY <1>1, <3>1
    <3> QED  BY <2>1, <2>3, <1>6, <3>1, <3>2
  <2> QED  BY <2>2, <2>3, <1>1
<1>8. c.qStart[h] \in Mail
  <2>1. 0 \in 0 .. m - 1 /\ 0 < n /\ h + 0 = h  BY <1>1
  <2>2. c.qStart[(h + 0) % m] \in Mail  BY <1>1, <2>1
  <2> QED  BY <1>6, <2>1, <2>2
<1>9. n - 1 \in Nat  BY <1>1
<1>10. RingRight(c2)
  BY <1>1, <1>2, <1>2a, <1>3, <1>5, <1>7, <1>9 DEF RingRight
<1> QED  BY <1>2, <1>8, <1>10 DEF h, m

(* A mail is put behind the last.                                          *)
LEMMA RingPut ==
  ASSUME NEW c, RingRight(c), c.qMaxSize > 0, NEW v \in Mail,
         NEW c2, c2 = [c EXCEPT !.qStart = [c.qStart EXCEPT ![c.tail] = v],
                                !.tail = IF c.tail + 1 = c.qMaxSize THEN 0 ELSE c.tail + 1,
                                !.qSize = c.qSize + 1]
  PROVE  RingRight(c2) /\ c2.qMaxSize = c.qMaxSize /\ c2.qSize > 0
<1> DEFINE m == c.qMaxSize
           h == c.head
           n == c.qSize
           tl == c.tail
           t2 == IF tl + 1 = m THEN 0 ELSE tl + 1
           a2 == [c.qStart EXCEPT ![tl] = v]
<1>1. /\ DOMAIN c = {"id", "head", "tail", "qSize", "qMaxSize", "qStart"}
      /\ m \in Nat \ {0} /\ h \in 0 .. m - 1 /\ n \in Nat
      /\ tl = (h + n) % m /\ m \in 0 .. MaxCell
      /\ \A j \in 0 .. m - 1 : j < n => c.qStart[(h + j) % m] \in Mail
      /\ DOMAIN c.qStart = 0 .. MaxCell - 1
  BY EventAssumption DEF RingRight
<1>2. /\ c2.head = h /\ c2.tail = t2 /\ c2.qSize = n + 1 /\ c2.qMaxSize = m
      /\ c2.qStart = a2 /\ DOMAIN c2 = DOMAIN c
  BY <1>1
<1>3. DOMAIN a2 = DOMAIN c.qStart
      /\ \A i \in DOMAIN c.qStart : a2[i] = IF i = tl THEN v ELSE c.qStart[i]
  OBVIOUS
<1> HIDE DEF m, h, n, tl, a2
<1>4. t2 = (h + (n + 1)) % m /\ n + 1 \in Nat
  <2>0. h \in Nat /\ n \in Nat  BY <1>1
  <2>1. h + n \in Nat /\ (h + n) + 1 = h + (n + 1)  BY <2>0
  <2>2. (IF ((h + n) % m) + 1 = m THEN 0 ELSE ((h + n) % m) + 1) = ((h + n) + 1) % m
    BY <1>1, <2>1, ModFacts
  <2>3. n + 1 \in Nat  BY <1>1
  <2> QED  BY <1>1, <2>1, <2>2, <2>3
<1> HIDE DEF t2
<1>5. ASSUME NEW j \in 0 .. m - 1, j < n + 1 PROVE a2[(h + j) % m] \in Mail
  <2>1. (h + j) % m \in 0 .. MaxCell - 1
    <3>1. h + j \in Nat  BY <1>1
    <3>2. (h + j) % m \in 0 .. m - 1  BY <1>1, <3>1, ModFacts
    <3> QED  BY <1>1, <3>2, EventAssumption
  <2>2. CASE (h + j) % m = tl
    BY <1>1, <1>3, <2>1, <2>2
  <2>3. CASE (h + j) % m # tl
    <3>1. j # n  BY <2>3, <1>1
    <3>2. j < n  BY <3>1, <1>1, <1>5
    <3> QED  BY <1>1, <1>3, <2>1, <2>3, <3>2
  <2> QED  BY <2>2, <2>3
<1>6. RingRight(c2)
  BY <1>1, <1>2, <1>3, <1>4, <1>5 DEF RingRight
<1>7. n + 1 > 0  BY <1>1
<1> QED  BY <1>2, <1>6, <1>7 DEF m

-----------------------------------------------------------------------------
(* The waiter is given what was posted.                                    *)
Posted(r, e) ==
  /\ r.eventType[e] \in {"sem", "mbox", "queue"}
  /\ r.eventType[e] = "sem" /\ Disciplined => r.eventCounter[e] >= 1
  /\ r.eventType[e] = "mbox" => r.eventPtr[e] \in Mail
  /\ r.eventType[e] = "queue" => r.QueueTbl[r.eventPtr[e]].qSize > 0

LEMMA TaskFinite == IsFiniteSet(Task)
BY FS_Interval, KernelAssumption DEF Task

LEMMA CountNat == MaxCount \in Nat
BY DEF MaxCount

LEMMA WrapNat ==
  ASSUME NEW n \in Int
  PROVE  Wrap(n) \in Nat /\ (n >= 0 /\ n <= MaxCount => Wrap(n) = n)
<1>1. n % 65536 \in Nat
  OBVIOUS
<1>2. ASSUME n >= 0, n <= MaxCount PROVE n % 65536 = n
  BY <1>2 DEF MaxCount
<1> QED  BY <1>1, <1>2 DEF Wrap

LEMMA PermitGiven ==
  ASSUME NEW r, NEW id, NEW X, Right(r, id, X), NEW t \in Task, NEW e \in Event,
         r.eventID[t] = NoEvent, r.pmail[t] = NoMail, id[t] = e,
         Posted(r, e), r.eventType[e] = "sem", NEW r2, r2 = GivePermit(r, e, t)
  PROVE  /\ Right(r2, id, X) /\ Only(r, r2, {"eventCounter", "pmail"})
         /\ r2.pmail = [r.pmail EXCEPT ![t] = Woken]
         /\ \A f \in Event \ {e} : r2.eventCounter[f] = r.eventCounter[f]
<1>1. /\ DOMAIN r = Fields /\ r.eventCounter \in [Event -> Nat] /\ DOMAIN r.pmail = Task
      /\ DOMAIN r.eventPtr = Event
      /\ r.balance \in [Event -> Int] /\ r.holds \in [Task -> SUBSET Event]
  BY DEF Right, Shape
<1> DEFINE c2 == [r.eventCounter EXCEPT ![e] = Wrap(r.eventCounter[e] - 1)]
           m2 == [r.pmail EXCEPT ![t] = Woken]
<1>3. r.eventCounter[e] \in Nat /\ r.eventCounter[e] - 1 \in Int
  BY <1>1
<1>4. Wrap(r.eventCounter[e] - 1) \in Nat
  BY <1>3, WrapNat
<1>a. r2 = [r EXCEPT !.eventCounter = c2, !.pmail = m2]
  BY DEF GivePermit
<1>b. /\ c2 \in [Event -> Nat] /\ \A f \in Event \ {e} : c2[f] = r.eventCounter[f]
      /\ c2[e] = Wrap(r.eventCounter[e] - 1)
      /\ m2 = [r.pmail EXCEPT ![t] = Woken]
  <2> HIDE DEF m2
  <2> DEFINE w == Wrap(r.eventCounter[e] - 1)
  <2>1. w \in Nat  BY <1>4
  <2> HIDE DEF w
  <2>2. /\ [r.eventCounter EXCEPT ![e] = w] \in [Event -> Nat]
        /\ \A f \in Event \ {e} : [r.eventCounter EXCEPT ![e] = w][f] = r.eventCounter[f]
        /\ [r.eventCounter EXCEPT ![e] = w][e] = w
    BY <1>1, <2>1
  <2> QED  BY <2>2 DEF w, m2
<1> HIDE DEF c2, m2
<1>2. /\ r2.eventCounter = c2 /\ r2.pmail = m2 /\ Only(r, r2, {"eventCounter", "pmail"})
  BY <1>1, <1>a DEF Only, Fields
<1>5. /\ r2.eventCounter \in [Event -> Nat] /\ DOMAIN r2.pmail = Task
      /\ r2.pmail = [r.pmail EXCEPT ![t] = Woken]
      /\ r2.eventCounter[e] = Wrap(r.eventCounter[e] - 1)
      /\ \A f \in Event \ {e} : r2.eventCounter[f] = r.eventCounter[f]
  BY <1>1, <1>2, <1>b
<1>6. /\ r2.balance = r.balance /\ r2.holds = r.holds /\ r2.eventType = r.eventType
      /\ r2.initialEventCounter = r.initialEventCounter /\ r2.QueueTbl = r.QueueTbl
      /\ r2.eventPtr = r.eventPtr
  BY <1>2 DEF Only, Fields
<1>7. RingsRight(r2)
  BY <1>6 DEF Right, RingsRight
<1>8. ASSUME Disciplined PROVE PermitsRight(r2, id)
  <2>1. PermitsRight(r, id)  BY <1>8 DEF Right
  <2>2. r.eventCounter[e] >= 1 /\ r.eventCounter[e] <= MaxCount
    <3>1. r.eventCounter[e] >= 1  BY <1>8 DEF Posted
    <3>2. /\ r.eventCounter[e] <= r.initialEventCounter[e]
          /\ r.initialEventCounter[e] <= MaxCount
      BY <2>1 DEF PermitsRight
    <3>3. r.initialEventCounter[e] \in Nat  BY DEF Right, Shape
    <3> QED  BY <3>1, <3>2, <3>3, <1>3, CountNat
  <2>3. Wrap(r.eventCounter[e] - 1) = r.eventCounter[e] - 1
    <3>1. /\ r.eventCounter[e] - 1 \in Int /\ r.eventCounter[e] - 1 >= 0
          /\ r.eventCounter[e] - 1 <= MaxCount
      BY <2>2, <1>3, CountNat
    <3> QED  BY <3>1, WrapNat
  <2>4. ASSUME NEW f \in Event, r.eventType[f] = "sem"
        PROVE  /\ r2.eventCounter[f] <= r2.initialEventCounter[f]
               /\ r2.initialEventCounter[f] <= MaxCount
               /\ r2.eventCounter[f] + Cardinality(Given(r2, id, f)) = r2.balance[f]
    <3>0. r.initialEventCounter[f] \in Nat /\ r.eventCounter[f] \in Nat /\ r.balance[f] \in Int
      BY DEF Right, Shape
    <3>1. /\ r.eventCounter[f] <= r.initialEventCounter[f]
          /\ r.initialEventCounter[f] <= MaxCount
          /\ r.eventCounter[f] + Cardinality(Given(r, id, f)) = r.balance[f]
      BY <2>1, <2>4 DEF PermitsRight
    <3>2. CASE f # e
      <4>1. Given(r2, id, f) = Given(r, id, f)
        BY <1>1, <1>5, <3>2 DEF Given
      <4>2. r2.eventCounter[f] = r.eventCounter[f]  BY <1>5, <3>2
      <4> QED  BY <3>1, <4>1, <4>2, <1>6
    <3>3. CASE f = e
      <4>1. Given(r2, id, e) = Given(r, id, e) \cup {t} /\ t \notin Given(r, id, e)
        BY <1>1, <1>5 DEF Given, Woken, NoMail
      <4>2. IsFiniteSet(Given(r, id, e))
        BY TaskFinite, FS_Subset DEF Given
      <4>3. /\ Cardinality(Given(r2, id, e)) = Cardinality(Given(r, id, e)) + 1
            /\ Cardinality(Given(r, id, e)) \in Nat
        BY <4>1, <4>2, FS_AddElement, FS_CardinalityType
      <4>4. r2.eventCounter[e] = r.eventCounter[e] - 1
        BY <1>5, <2>3
      <4> QED  BY <3>0, <3>1, <3>3, <4>3, <4>4, <1>6
    <3> QED  BY <3>2, <3>3
  <2> QED  BY <2>4, <1>6 DEF PermitsRight
<1>9. \A u \in Task : r.eventID[u] # NoEvent => r2.pmail[u] = r.pmail[u]
  BY <1>1, <1>5
<1>10. Only(r, r2, {"eventCounter", "eventPtr", "pmail", "QueueTbl", "balance", "holds", "out"})
  BY <1>2 DEF Only
<1>11. Right(r2, id, X)
  BY <1>1, <1>5, <1>6, <1>7, <1>8, <1>9, <1>10, MailsChange
<1> QED  BY <1>2, <1>5, <1>11

(* The permits when a task is given a mail.                                *)
LEMMA PermitsAfterMail ==
  ASSUME NEW r, NEW r2, NEW id, NEW t \in Task, NEW m \in Mail, NEW e \in Event,
         PermitsRight(r, id), DOMAIN r.pmail = Task, r.pmail[t] # Woken,
         r2.pmail = [r.pmail EXCEPT ![t] = m],
         r2.eventType = r.eventType, r2.initialEventCounter = r.initialEventCounter,
         r2.balance = r.balance, r.eventType[e] # "sem",
         \A f \in Event \ {e} : r2.eventCounter[f] = r.eventCounter[f]
  PROVE  PermitsRight(r2, id)
<1>1. m # Woken
  BY EventAssumption DEF Mail, Woken
<1>2. ASSUME NEW f \in Event, r.eventType[f] = "sem"
      PROVE  /\ r2.eventCounter[f] = r.eventCounter[f]
             /\ Given(r2, id, f) = Given(r, id, f)
  BY <1>1, <1>2 DEF Given
<1> QED  BY <1>2 DEF PermitsRight

LEMMA MailGiven ==
  ASSUME NEW r, NEW id, NEW X, Right(r, id, X), NEW t \in Task, NEW e \in Event,
         r.eventID[t] = NoEvent, r.pmail[t] = NoMail,
         Posted(r, e), r.eventType[e] = "mbox", NEW r2, r2 = GiveMail(r, e, t)
  PROVE  /\ Right(r2, id, X) /\ Only(r, r2, {"eventCounter", "eventPtr", "pmail"})
         /\ r2.pmail = [r.pmail EXCEPT ![t] = r.eventPtr[e]] /\ r.eventPtr[e] \in Mail
         /\ \A f \in Event \ {e} : r2.eventCounter[f] = r.eventCounter[f]
<1>1. /\ DOMAIN r = Fields /\ r.eventCounter \in [Event -> Nat] /\ DOMAIN r.pmail = Task
      /\ DOMAIN r.eventPtr = Event
      /\ r.balance \in [Event -> Int] /\ r.holds \in [Task -> SUBSET Event]
  BY DEF Right, Shape
<1> DEFINE c2 == [r.eventCounter EXCEPT ![e] = Wrap(r.eventCounter[e] - 1)]
           m2 == [r.pmail EXCEPT ![t] = r.eventPtr[e]]
           p2 == [r.eventPtr EXCEPT ![e] = NoMail]
<1>3. r.eventCounter[e] - 1 \in Int
  BY <1>1
<1>4. Wrap(r.eventCounter[e] - 1) \in Nat
  BY <1>3, WrapNat
<1>a. r2 = [r EXCEPT !.pmail = m2, !.eventPtr = p2, !.eventCounter = c2]
  BY DEF GiveMail
<1>b. c2 \in [Event -> Nat] /\ \A f \in Event \ {e} : c2[f] = r.eventCounter[f]
  <2> DEFINE w == Wrap(r.eventCounter[e] - 1)
  <2>1. w \in Nat  BY <1>4
  <2> HIDE DEF w
  <2>2. /\ [r.eventCounter EXCEPT ![e] = w] \in [Event -> Nat]
        /\ \A f \in Event \ {e} : [r.eventCounter EXCEPT ![e] = w][f] = r.eventCounter[f]
    BY <1>1, <2>1
  <2> QED  BY <2>2 DEF w
<1>c. DOMAIN p2 = Event /\ m2 = [r.pmail EXCEPT ![t] = r.eventPtr[e]]
  BY <1>1
<1> HIDE DEF c2, m2, p2
<1>2. /\ r2.eventCounter = c2 /\ r2.pmail = m2 /\ r2.eventPtr = p2
      /\ Only(r, r2, {"eventCounter", "eventPtr", "pmail"})
  BY <1>1, <1>a DEF Only, Fields
<1>5. /\ r2.eventCounter \in [Event -> Nat] /\ DOMAIN r2.pmail = Task
      /\ DOMAIN r2.eventPtr = Event /\ r2.pmail = [r.pmail EXCEPT ![t] = r.eventPtr[e]]
      /\ \A f \in Event \ {e} : r2.eventCounter[f] = r.eventCounter[f]
  BY <1>1, <1>2, <1>b, <1>c
<1>6. /\ r2.balance = r.balance /\ r2.holds = r.holds /\ r2.eventType = r.eventType
      /\ r2.initialEventCounter = r.initialEventCounter /\ r2.QueueTbl = r.QueueTbl
  BY <1>2 DEF Only, Fields
<1>7. RingsRight(r2)
  <2>1. \A f \in Event : r.eventType[f] = "queue" => r2.eventPtr[f] = r.eventPtr[f]
    BY <1>1, <1>2 DEF p2
  <2> QED  BY <1>6, <2>1 DEF Right, RingsRight
<1>8. r.eventPtr[e] \in Mail  BY DEF Posted
<1>9. Disciplined => PermitsRight(r2, id)
  <2>1. r.pmail[t] # Woken  BY DEF NoMail, Woken
  <2> SUFFICES ASSUME Disciplined PROVE PermitsRight(r2, id)
    OBVIOUS
  <2>2. PermitsRight(r, id)  BY DEF Right
  <2>3. r.eventType[e] # "sem"
    <3>1. "mbox" # "sem"  OBVIOUS
    <3> QED  BY <3>1
  <2> DEFINE m == r.eventPtr[e]
  <2>4. /\ m \in Mail /\ r2.pmail = [r.pmail EXCEPT ![t] = m]
        /\ DOMAIN r.pmail = Task /\ r2.eventType = r.eventType
        /\ r2.initialEventCounter = r.initialEventCounter /\ r2.balance = r.balance
        /\ \A f \in Event \ {e} : r2.eventCounter[f] = r.eventCounter[f]
    BY <1>1, <1>5, <1>6, <1>8
  <2> HIDE DEF m
  <2> QED  BY <2>1, <2>2, <2>3, <2>4, PermitsAfterMail
<1>10. \A u \in Task : r.eventID[u] # NoEvent => r2.pmail[u] = r.pmail[u]
  BY <1>1, <1>5
<1>11. Only(r, r2, {"eventCounter", "eventPtr", "pmail", "QueueTbl", "balance", "holds", "out"})
  BY <1>2 DEF Only
<1>12. Right(r2, id, X)
  BY <1>1, <1>5, <1>6, <1>7, <1>9, <1>10, <1>11, MailsChange
<1> QED  BY <1>2, <1>5, <1>8, <1>12

(* Dequeue() takes the first mail of the ring of e.                        *)
LEMMA Dequeued ==
  ASSUME NEW r, RingsRight(r), DOMAIN r = Fields, NEW e \in Event, r.eventType[e] = "queue",
         r.QueueTbl[r.eventPtr[e]].qSize > 0, NEW r2, r2 = Dequeue(r, e)
  PROVE  RingsRight(r2) /\ Only(r, r2, {"QueueTbl"}) /\ OldestMail(r, e) \in Mail
<1> DEFINE q == r.eventPtr[e]
           c == r.QueueTbl[q]
           c2 == [c EXCEPT !.head = IF c.head + 1 = c.qMaxSize THEN 0 ELSE c.head + 1,
                           !.qSize = c.qSize - 1]
<1>1. /\ DOMAIN r.QueueTbl = Queue /\ q \in Queue /\ RingRight(c) /\ c.qMaxSize > 0
  BY DEF RingsRight
<1>2. RingRight(c2) /\ c2.qMaxSize = c.qMaxSize /\ c.qStart[c.head] \in Mail
  <2> HIDE DEF c
  <2>1. c2 = [c EXCEPT !.head = IF c.head + 1 = c.qMaxSize THEN 0 ELSE c.head + 1,
                       !.qSize = c.qSize - 1]
    OBVIOUS
  <2>2. c.qSize > 0  BY DEF c
  <2> HIDE DEF c2
  <2> QED  BY <1>1, <2>1, <2>2, RingTaken
<1>3. r2 = [r EXCEPT !.QueueTbl = [r.QueueTbl EXCEPT ![q] = c2]]
  BY DEF Dequeue
<1> HIDE DEF c2
<1>4. r2.QueueTbl = [r.QueueTbl EXCEPT ![q] = c2] /\ Only(r, r2, {"QueueTbl"})
  BY <1>3 DEF Only, Fields
<1>5. r2.eventType = r.eventType /\ r2.eventPtr = r.eventPtr
  BY <1>4 DEF Only, Fields
<1>6. RingsRight(r2)
  BY <1>1, <1>2, <1>4, <1>5 DEF RingsRight
<1> QED  BY <1>2, <1>4, <1>6 DEF OldestMail

(* Enqueue() puts a mail into it.                                          *)
LEMMA Enqueued ==
  ASSUME NEW r, RingsRight(r), DOMAIN r = Fields, NEW e \in Event, r.eventType[e] = "queue",
         NEW m \in Mail, NEW r2, r2 = Enqueue(r, e, m)
  PROVE  RingsRight(r2) /\ Only(r, r2, {"QueueTbl"}) /\ r2.QueueTbl[r.eventPtr[e]].qSize > 0
<1> DEFINE q == r.eventPtr[e]
           c == r.QueueTbl[q]
           c2 == [c EXCEPT !.qStart = [c.qStart EXCEPT ![c.tail] = m],
                           !.tail = IF c.tail + 1 = c.qMaxSize THEN 0 ELSE c.tail + 1,
                           !.qSize = c.qSize + 1]
<1>1. /\ DOMAIN r.QueueTbl = Queue /\ q \in Queue /\ RingRight(c) /\ c.qMaxSize > 0
  BY DEF RingsRight
<1>2. RingRight(c2) /\ c2.qMaxSize = c.qMaxSize /\ c2.qSize > 0
  <2> HIDE DEF c
  <2>1. c2 = [c EXCEPT !.qStart = [c.qStart EXCEPT ![c.tail] = m],
                       !.tail = IF c.tail + 1 = c.qMaxSize THEN 0 ELSE c.tail + 1,
                       !.qSize = c.qSize + 1]
    OBVIOUS
  <2> HIDE DEF c2
  <2> QED  BY <1>1, <2>1, RingPut
<1>3. r2 = [r EXCEPT !.QueueTbl = [r.QueueTbl EXCEPT ![q] = c2]]
  BY DEF Enqueue
<1> HIDE DEF c2
<1>4. r2.QueueTbl = [r.QueueTbl EXCEPT ![q] = c2] /\ Only(r, r2, {"QueueTbl"})
  BY <1>3 DEF Only, Fields
<1>5. r2.eventType = r.eventType /\ r2.eventPtr = r.eventPtr
  BY <1>4 DEF Only, Fields
<1>6. RingsRight(r2)
  BY <1>1, <1>2, <1>4, <1>5 DEF RingsRight
<1> QED  BY <1>1, <1>2, <1>4, <1>6

LEMMA OldestGiven ==
  ASSUME NEW r, NEW id, NEW X, Right(r, id, X), NEW t \in Task, NEW e \in Event,
         r.eventID[t] = NoEvent, r.pmail[t] = NoMail,
         Posted(r, e), r.eventType[e] = "queue", NEW r2, r2 = GiveOldest(r, e, t)
  PROVE  /\ Right(r2, id, X) /\ Only(r, r2, {"QueueTbl", "pmail"})
         /\ \A u \in Task \ {t} : r2.pmail[u] = r.pmail[u]
         /\ r2.pmail[t] \in Mail
<1> DEFINE m == OldestMail(r, e)
           r1 == [r EXCEPT !.pmail = [r.pmail EXCEPT ![t] = m]]
<1>1. /\ DOMAIN r = Fields /\ r.eventCounter \in [Event -> Nat] /\ DOMAIN r.pmail = Task
      /\ DOMAIN r.eventPtr = Event /\ RingsRight(r)
      /\ r.balance \in [Event -> Int] /\ r.holds \in [Task -> SUBSET Event]
  BY DEF Right, Shape
<1>2. r.QueueTbl[r.eventPtr[e]].qSize > 0
  BY DEF Posted
<1>3. m \in Mail
  BY <1>1, <1>2, Dequeued
<1>4. r2 = Dequeue(r1, e)  BY DEF GiveOldest
<1> HIDE DEF m
<1>5. r1.pmail = [r.pmail EXCEPT ![t] = m] /\ Only(r, r1, {"pmail"})
  BY <1>1 DEF Only, Fields
<1> HIDE DEF r1
<1>6. r1.QueueTbl = r.QueueTbl /\ r1.eventPtr = r.eventPtr /\ r1.eventType = r.eventType
      /\ DOMAIN r1 = Fields
  BY <1>5 DEF Only, Fields
<1>7. RingsRight(r1)
  BY <1>1, <1>6 DEF RingsRight
<1>8. RingsRight(r2) /\ Only(r1, r2, {"QueueTbl"})
  BY <1>2, <1>4, <1>6, <1>7, Dequeued
<1>9. /\ r2.pmail = r1.pmail /\ Only(r, r2, {"QueueTbl", "pmail"})
  BY <1>5, <1>8 DEF Only, Fields
<1>10. /\ r2.eventCounter = r.eventCounter /\ r2.eventPtr = r.eventPtr
       /\ r2.balance = r.balance /\ r2.holds = r.holds /\ r2.eventType = r.eventType
       /\ r2.initialEventCounter = r.initialEventCounter
  BY <1>9 DEF Only, Fields
<1>11. Disciplined => PermitsRight(r2, id)
  <2>1. r.pmail[t] # Woken  BY DEF NoMail, Woken
  <2> QED  BY <2>1, <1>1, <1>3, <1>5, <1>9, <1>10, PermitsAfterMail DEF Right
<1>12. \A u \in Task : u # t => r2.pmail[u] = r.pmail[u]
  BY <1>1, <1>5, <1>9
<1>13. \A u \in Task : r.eventID[u] # NoEvent => r2.pmail[u] = r.pmail[u]
  BY <1>12
<1>14. Only(r, r2, {"eventCounter", "eventPtr", "pmail", "QueueTbl", "balance", "holds", "out"})
  BY <1>9 DEF Only
<1>15. DOMAIN r2.pmail = Task /\ r2.pmail[t] = m  BY <1>1, <1>5, <1>9
<1>16. Right(r2, id, X)
  BY <1>1, <1>8, <1>10, <1>11, <1>13, <1>14, <1>15, MailsChange
<1> QED  BY <1>3, <1>9, <1>12, <1>15, <1>16

LEMMA GivenRight ==
  ASSUME NEW r, NEW id, NEW X, Right(r, id, X), NEW t \in Task, NEW e \in Event,
         r.eventID[t] = NoEvent, r.pmail[t] = NoMail, id[t] = e, Posted(r, e),
         NEW r2, r2 = Give(r, e, t)
  PROVE  /\ Right(r2, id, X) /\ Only(r, r2, {"eventCounter", "eventPtr", "QueueTbl", "pmail"})
         /\ \A u \in Task \ {t} : r2.pmail[u] = r.pmail[u]
         /\ r2.pmail[t] # NoMail
         /\ \A f \in Event \ {e} : r2.eventCounter[f] = r.eventCounter[f]
<1>0. DOMAIN r.pmail = Task /\ NoMail \notin Mail /\ Woken # NoMail
  BY EventAssumption DEF Right, Shape, Mail, NoMail, Woken
<1>1. CASE r.eventType[e] = "sem"
  <2>1. r2 = GivePermit(r, e, t)  BY <1>1 DEF Give
  <2>2. /\ Right(r2, id, X) /\ Only(r, r2, {"eventCounter", "pmail"})
        /\ r2.pmail = [r.pmail EXCEPT ![t] = Woken]
        /\ \A f \in Event \ {e} : r2.eventCounter[f] = r.eventCounter[f]
    BY <1>1, <2>1, PermitGiven
  <2> QED  BY <2>2, <1>0 DEF Only
<1>2. CASE r.eventType[e] = "mbox"
  <2>1. r2 = GiveMail(r, e, t)  BY <1>2 DEF Give
  <2>2. /\ Right(r2, id, X) /\ Only(r, r2, {"eventCounter", "eventPtr", "pmail"})
        /\ r2.pmail = [r.pmail EXCEPT ![t] = r.eventPtr[e]] /\ r.eventPtr[e] \in Mail
        /\ \A f \in Event \ {e} : r2.eventCounter[f] = r.eventCounter[f]
    BY <1>2, <2>1, MailGiven
  <2> QED  BY <2>2, <1>0 DEF Only
<1>3. CASE r.eventType[e] = "queue"
  <2>1. r2 = GiveOldest(r, e, t)  BY <1>3 DEF Give
  <2>2. /\ Right(r2, id, X) /\ Only(r, r2, {"QueueTbl", "pmail"})
        /\ \A u \in Task \ {t} : r2.pmail[u] = r.pmail[u]
        /\ r2.pmail[t] \in Mail
    BY <1>3, <2>1, OldestGiven
  <2>3. r2.eventCounter = r.eventCounter  BY <2>2 DEF Only, Fields
  <2> QED  BY <2>2, <2>3, <1>0 DEF Only
<1> QED  BY <1>1, <1>2, <1>3 DEF Posted

-----------------------------------------------------------------------------
(* What was posted goes to the first waiter, if there is one.              *)
LEMMA FirstReady ==
  ASSUME NEW r, NEW id, Right(r, id, {}), NEW e \in Event, Posted(r, e),
         NEW r2, r2 = EventTaskToRdy(r, e)
  PROVE  Right(r2, id, {}) /\ Serves(r, r2, {e}) /\ r2.balance = r.balance
<1> DEFINE t == r.eventTCBList[e]
           a == TakeFirst(r, e)
           b == EndDelay(a, t)
           c == Give(b, e, t)
           d == Wake(c, t)
<1>0. r.k \in Kernel  BY DEF Right, Shape
<1>1. CASE t = NoTask
  <2>1. r2 = r  BY <1>1 DEF EventTaskToRdy
  <2> QED  BY <2>1, <1>0, ServesNone
<1>2. CASE t # NoTask
  <2>1. t \in Task /\ r.eventID[t] = e /\ a = RemoveEventWaittingList(r, t)
    BY <1>2, FirstUnlinked
  <2>2. r2 = d
    BY <1>2 DEF EventTaskToRdy
  <2> HIDE DEF t, a, b, c, d
  <2>3. e # NoEvent
    BY EventAssumption DEF Event, NoEvent
  <2>4. /\ r.k.state[t] = "WAITING" /\ id[t] = e /\ r.pmail[t] = NoMail
        /\ r.pnode[t] = "null" /\ r.eventID \in [Task -> Event \cup {NoEvent}]
        /\ DOMAIN r.k.state = Task
    BY <2>1, <2>3 DEF Right, StatesRight, WaitersRight, Waits, Shape, Kernel
  <2>5. /\ Right(a, id, {} \cup {t})
        /\ Only(r, a, {"eventTCBList", "eventID", "waitNext", "waitPrev"})
        /\ a.eventID = [r.eventID EXCEPT ![t] = NoEvent]
    BY <2>1, <2>3, Unlinked
  <2>6. /\ Right(b, id, ({} \cup {t}) \cup {t}) /\ Only(a, b, {"DlyList", "delayTick"})
        /\ b.delayTick[t] = NoDelay
        /\ \A u \in Task \ {t} : b.delayTick[u] = NoDelay <=> a.delayTick[u] = NoDelay
    BY <2>1, <2>5, DelayEnded DEF b
  <2>7. Right(b, id, {t})
    BY <2>6, RightMore
  <2>8. /\ b.eventType = r.eventType /\ b.eventCounter = r.eventCounter
        /\ b.eventPtr = r.eventPtr /\ b.QueueTbl = r.QueueTbl /\ b.pmail = r.pmail
        /\ b.eventID = a.eventID /\ b.k = r.k /\ b.pnode = r.pnode /\ b.app = r.app
        /\ b.initialEventCounter = r.initialEventCounter /\ b.balance = r.balance
        /\ b.holds = r.holds /\ a.delayTick = r.delayTick
        /\ b.cnt = r.cnt /\ b.cell = r.cell /\ b.head = r.head
    BY <2>5, <2>6 DEF Only, Fields
  <2>9. Posted(b, e)
    BY <2>8 DEF Posted
  <2>10. b.eventID[t] = NoEvent /\ \A u \in Task \ {t} : b.eventID[u] = r.eventID[u]
    BY <2>1, <2>4, <2>5, <2>8
  <2>11. /\ Right(c, id, {t}) /\ Only(b, c, {"eventCounter", "eventPtr", "QueueTbl", "pmail"})
         /\ \A u \in Task \ {t} : c.pmail[u] = b.pmail[u]
         /\ c.pmail[t] # NoMail
         /\ \A f \in Event \ {e} : c.eventCounter[f] = b.eventCounter[f]
    BY <2>1, <2>4, <2>7, <2>8, <2>9, <2>10, GivenRight DEF c
  <2>12. /\ c.eventID = b.eventID /\ c.k = r.k /\ c.pnode = r.pnode /\ c.app = r.app
         /\ c.delayTick = b.delayTick /\ c.eventType = r.eventType /\ c.balance = r.balance
         /\ c.initialEventCounter = r.initialEventCounter /\ c.holds = r.holds
         /\ c.cnt = r.cnt /\ c.cell = r.cell /\ c.head = r.head
    BY <2>8, <2>11 DEF Only, Fields
  <2>13. ~Waits(c, t) /\ c.k.state[t] = "WAITING"
    BY <2>4, <2>6, <2>10, <2>12 DEF Waits
  <2>14. /\ Right(d, id, {t} \ {t}) /\ Only(c, d, {"k"}) /\ KernelServes(c.k, d.k)
         /\ d.k.state = [c.k.state EXCEPT ![t] = IF t = c.k.TCBRunning THEN "RUNNING"
                                                                      ELSE "READY"]
    BY <2>1, <2>11, <2>13, WakeAgain DEF d
  <2>15. Right(d, id, {})
    BY <2>14, RightMore
  <2>16. /\ d.eventID = c.eventID /\ d.pnode = r.pnode /\ d.app = r.app
         /\ d.delayTick = b.delayTick /\ d.eventType = r.eventType /\ d.balance = r.balance
         /\ d.initialEventCounter = r.initialEventCounter /\ d.holds = r.holds
         /\ d.pmail = c.pmail /\ d.eventCounter = c.eventCounter
         /\ d.cnt = r.cnt /\ d.cell = r.cell /\ d.head = r.head
    BY <2>12, <2>14 DEF Only, Fields
  <2>17. ASSUME NEW u \in Task
         PROVE  /\ \/ d.k.state[u] = r.k.state[u]
                   \/ r.k.state[u] = "WAITING" /\ d.k.state[u] = "READY"
                   \/ r.k.state[u] = "WAITING" /\ d.k.state[u] = "RUNNING" /\ u = r.k.TCBRunning
                /\ d.eventID[u] = r.eventID[u] \/ d.eventID[u] = NoEvent
                /\ d.pmail[u] = r.pmail[u] \/ r.eventID[u] # NoEvent
                /\ d.pnode[u] = r.pnode[u]
                /\ r.delayTick[u] = NoDelay => d.delayTick[u] = NoDelay
                /\ r.eventID[u] # NoEvent /\ d.eventID[u] = NoEvent => d.pmail[u] # NoMail
    <3>1. CASE u = t
      BY <3>1, <2>1, <2>3, <2>4, <2>6, <2>10, <2>11, <2>12, <2>14, <2>16
    <3>2. CASE u # t
      BY <3>2, <2>4, <2>6, <2>8, <2>10, <2>11, <2>12, <2>14, <2>16
    <3> QED  BY <3>1, <3>2
  <2>18. KernelServes(r.k, d.k)  BY <2>12, <2>14
  <2>19. \A f \in Event \ {e} : d.eventCounter[f] = r.eventCounter[f] /\ d.balance[f] = r.balance[f]
    BY <2>8, <2>11, <2>16
  <2>20. Serves(r, d, {e})
    <3>1. RingServed(r, d, {e})
      BY <2>16, RingSame
    <3>2. ASSUME NEW u \in Task, r.delayTick[u] # NoDelay
          PROVE  IF d.delayTick[u] # NoDelay THEN TicksLeft(d, u) = TicksLeft(r, u)
                                             ELSE Ended(r, d, u)
      <4>1. CASE u = t
        <5>1. d.delayTick[u] = NoDelay
          BY <4>1, <2>6, <2>16
        <5>2. Ended(r, d, u)
          BY <4>1, <2>1, <2>3, <2>10, <2>11, <2>12, <2>16 DEF Ended
        <5> QED  BY <5>1, <5>2
      <4>2. CASE u # t
        <5>1. b.delayTick[u] # NoDelay /\ TicksLeft(b, u) = TicksLeft(a, u)
          BY <4>2, <3>2, <2>1, <2>5, <2>8, TicksEnded DEF b
        <5>2. /\ a.DlyList = r.DlyList /\ a.delayTick = r.delayTick
              /\ d.DlyList = b.DlyList /\ d.delayTick = b.delayTick
          BY <2>5, <2>11, <2>14 DEF Only, Fields
        <5>3. TicksLeft(a, u) = TicksLeft(r, u) /\ TicksLeft(d, u) = TicksLeft(b, u)
          BY <5>2 DEF TicksLeft, Due
        <5> QED  BY <5>1, <5>2, <5>3
      <4> QED  BY <4>1, <4>2
    <3>3. DelaysServed(r, d)
      BY <3>2 DEF DelaysServed
    <3> QED  BY <2>16, <2>17, <2>18, <2>19, <3>1, <3>3 DEF Serves
  <2> QED  BY <2>2, <2>15, <2>16, <2>20
<1> QED  BY <1>1, <1>2

-----------------------------------------------------------------------------
(* The posts.                                                              *)
LEMMA ServesMails ==
  ASSUME NEW r, NEW r2, NEW E, r.k \in Kernel,
         Only(r, r2, {"eventCounter", "eventPtr", "QueueTbl", "balance", "out"}),
         \A f \in Event \ E : r.eventType[f] = "sem" =>
           r2.eventCounter[f] = r.eventCounter[f] /\ r2.balance[f] = r.balance[f]
  PROVE  Serves(r, r2, E)
<1>1. /\ r2.app = r.app /\ r2.k = r.k /\ r2.eventType = r.eventType
      /\ r2.initialEventCounter = r.initialEventCounter /\ r2.holds = r.holds
      /\ r2.eventID = r.eventID /\ r2.pmail = r.pmail /\ r2.pnode = r.pnode
      /\ r2.delayTick = r.delayTick /\ r2.cnt = r.cnt /\ r2.cell = r.cell /\ r2.head = r.head
      /\ r2.DlyList = r.DlyList
  BY DEF Only, Fields
<1>2. RingServed(r, r2, E) /\ DelaysServed(r, r2)
  BY <1>1, RingSame, DelaysSame
<1> QED  BY <1>1, <1>2 DEF Serves, KernelServes

LEMMA SemPosted ==
  ASSUME NEW r, NEW id, Right(r, id, {}), NEW e \in Event, r.eventType[e] = "sem",
         Disciplined => r.eventCounter[e] < r.initialEventCounter[e],
         NEW r2, r2 = PostSem(r, e)
  PROVE  Right(r2, id, {}) /\ Serves(r, r2, {e}) /\ r2.balance[e] = r.balance[e] + 1
<1> DEFINE w == Wrap(r.eventCounter[e] + 1)
           c2 == [r.eventCounter EXCEPT ![e] = w]
           b2 == [r.balance EXCEPT ![e] = r.balance[e] + 1]
           r1 == [r EXCEPT !.eventCounter = c2, !.balance = b2]
<1>1. /\ DOMAIN r = Fields /\ r.eventCounter \in [Event -> Nat] /\ DOMAIN r.pmail = Task
      /\ DOMAIN r.eventPtr = Event /\ r.k \in Kernel
      /\ r.balance \in [Event -> Int] /\ r.holds \in [Task -> SUBSET Event]
      /\ r.initialEventCounter \in [Event -> Nat]
  BY DEF Right, Shape
<1>2. r2 = EventTaskToRdy(r1, e)  BY DEF PostSem
<1>3. r.eventCounter[e] \in Nat /\ r.eventCounter[e] + 1 \in Int /\ r.eventCounter[e] + 1 >= 0
      /\ r.balance[e] + 1 \in Int
  BY <1>1
<1>4. w \in Nat /\ (r.eventCounter[e] + 1 <= MaxCount => w = r.eventCounter[e] + 1)
  BY <1>3, WrapNat
<1> HIDE DEF w
<1>5. /\ c2 \in [Event -> Nat] /\ c2[e] = w
      /\ \A f \in Event \ {e} : c2[f] = r.eventCounter[f]
      /\ b2 \in [Event -> Int] /\ b2[e] = r.balance[e] + 1
      /\ \A f \in Event \ {e} : b2[f] = r.balance[f]
  BY <1>1, <1>3, <1>4
<1> HIDE DEF c2, b2
<1>6. /\ r1.eventCounter = c2 /\ r1.balance = b2 /\ Only(r, r1, {"eventCounter", "balance"})
  BY <1>1 DEF Only, Fields
<1> HIDE DEF r1
<1>7. /\ r1.holds = r.holds /\ r1.eventType = r.eventType /\ r1.pmail = r.pmail
      /\ r1.initialEventCounter = r.initialEventCounter /\ r1.QueueTbl = r.QueueTbl
      /\ r1.eventPtr = r.eventPtr
  BY <1>6 DEF Only, Fields
<1>8. RingsRight(r1)
  BY <1>7 DEF Right, RingsRight
<1>9. ASSUME Disciplined PROVE PermitsRight(r1, id) /\ c2[e] >= 1
  <2>1. PermitsRight(r, id)  BY <1>9 DEF Right
  <2>2. /\ r.eventCounter[e] < r.initialEventCounter[e]
        /\ r.initialEventCounter[e] <= MaxCount
    BY <1>9, <2>1 DEF PermitsRight
  <2>3. r.initialEventCounter[e] \in Nat  BY <1>1
  <2>4. w = r.eventCounter[e] + 1 /\ w <= r.initialEventCounter[e] /\ w >= 1
    BY <2>2, <2>3, <1>3, <1>4, CountNat
  <2>5. ASSUME NEW f \in Event, r.eventType[f] = "sem"
        PROVE  /\ r1.eventCounter[f] <= r1.initialEventCounter[f]
               /\ r1.initialEventCounter[f] <= MaxCount
               /\ r1.eventCounter[f] + Cardinality(Given(r1, id, f)) = r1.balance[f]
    <3>0. Given(r1, id, f) = Given(r, id, f)
      BY <1>7 DEF Given
    <3>1. /\ r.eventCounter[f] <= r.initialEventCounter[f]
          /\ r.initialEventCounter[f] <= MaxCount
          /\ r.eventCounter[f] + Cardinality(Given(r, id, f)) = r.balance[f]
      BY <2>1, <2>5 DEF PermitsRight
    <3>2. CASE f # e
      BY <3>0, <3>1, <3>2, <1>5, <1>6, <1>7
    <3>3. CASE f = e
      <4>1. IsFiniteSet(Given(r, id, e))
        BY TaskFinite, FS_Subset DEF Given
      <4>2. Cardinality(Given(r, id, e)) \in Nat
        BY <4>1, FS_CardinalityType
      <4>3. /\ r1.eventCounter[e] = r.eventCounter[e] + 1
            /\ r1.balance[e] = r.balance[e] + 1
        BY <1>5, <1>6, <2>4
      <4>4. r1.eventCounter[e] <= r1.initialEventCounter[e]
        BY <1>5, <1>6, <1>7, <2>4
      <4> DEFINE n == Cardinality(Given(r, id, e))
      <4>5. /\ n \in Nat /\ r.eventCounter[e] + n = r.balance[e]
            /\ Cardinality(Given(r1, id, f)) = n
        BY <4>2, <3>0, <3>1, <3>3
      <4> HIDE DEF n
      <4>6. r1.eventCounter[e] + n = r1.balance[e]
        BY <4>3, <4>5, <1>3
      <4> QED  BY <3>1, <3>3, <4>4, <4>5, <4>6, <1>7
    <3> QED  BY <3>2, <3>3
  <2> QED  BY <2>4, <2>5, <1>5, <1>7 DEF PermitsRight
<1>10. Only(r, r1, {"eventCounter", "eventPtr", "pmail", "QueueTbl", "balance", "holds", "out"})
  BY <1>6 DEF Only
<1>11. Right(r1, id, {})
  BY <1>1, <1>5, <1>6, <1>7, <1>8, <1>9, <1>10, MailsChange
<1>12. Posted(r1, e)
  BY <1>6, <1>7, <1>9 DEF Posted
<1>13. Right(r2, id, {}) /\ Serves(r1, r2, {e}) /\ r2.balance = r1.balance
  BY <1>2, <1>11, <1>12, FirstReady
<1>14. Serves(r, r1, {e})
  <2>1. Only(r, r1, {"eventCounter", "eventPtr", "QueueTbl", "balance", "out"})
    BY <1>6 DEF Only
  <2> QED  BY <2>1, <1>1, <1>5, <1>6, ServesMails
<1>15. Serves(r, r2, {e})  BY <1>13, <1>14, ServesAgain
<1> QED  BY <1>5, <1>6, <1>13, <1>15

(* The permits, when what changes is of an event that is no semaphore.     *)
LEMMA PermitsApart ==
  ASSUME NEW r, NEW r2, NEW id, NEW e \in Event, PermitsRight(r, id),
         r2.eventType = r.eventType, r2.initialEventCounter = r.initialEventCounter,
         r2.balance = r.balance, r2.pmail = r.pmail, r.eventType[e] # "sem",
         \A f \in Event \ {e} : r2.eventCounter[f] = r.eventCounter[f]
  PROVE  PermitsRight(r2, id)
<1>1. \A f : Given(r2, id, f) = Given(r, id, f)
  BY DEF Given
<1> QED  BY <1>1 DEF PermitsRight

LEMMA MailPosted ==
  ASSUME NEW r, NEW id, Right(r, id, {}), NEW e \in Event, r.eventType[e] = "mbox",
         NEW m \in Mail, NEW r2, r2 = PostMail(r, e, m)
  PROVE  Right(r2, id, {}) /\ Serves(r, r2, {e})
<1> DEFINE p2 == [r.eventPtr EXCEPT ![e] = m]
           c2 == [r.eventCounter EXCEPT ![e] = 1]
           r1 == [r EXCEPT !.eventPtr = p2, !.eventCounter = c2, !.out = r.out \cup {m}]
<1>1. /\ DOMAIN r = Fields /\ r.eventCounter \in [Event -> Nat] /\ DOMAIN r.pmail = Task
      /\ DOMAIN r.eventPtr = Event /\ r.k \in Kernel
      /\ r.balance \in [Event -> Int] /\ r.holds \in [Task -> SUBSET Event]
  BY DEF Right, Shape
<1>2. r2 = EventTaskToRdy(r1, e)  BY DEF PostMail
<1>3. /\ c2 \in [Event -> Nat] /\ \A f \in Event \ {e} : c2[f] = r.eventCounter[f]
      /\ DOMAIN p2 = Event /\ p2[e] = m /\ \A f \in Event \ {e} : p2[f] = r.eventPtr[f]
  BY <1>1
<1> HIDE DEF c2, p2
<1>4. /\ r1.eventCounter = c2 /\ r1.eventPtr = p2
      /\ Only(r, r1, {"eventCounter", "eventPtr", "out"})
  BY <1>1 DEF Only, Fields
<1> HIDE DEF r1
<1>5. /\ r1.holds = r.holds /\ r1.eventType = r.eventType /\ r1.pmail = r.pmail
      /\ r1.initialEventCounter = r.initialEventCounter /\ r1.QueueTbl = r.QueueTbl
      /\ r1.balance = r.balance
  BY <1>4 DEF Only, Fields
<1>6. RingsRight(r1)
  <2>1. \A f \in Event : r.eventType[f] = "queue" => r1.eventPtr[f] = r.eventPtr[f]
    BY <1>3, <1>4
  <2> QED  BY <1>5, <2>1 DEF Right, RingsRight
<1>7. Disciplined => PermitsRight(r1, id)
  <2>1. "mbox" # "sem"  OBVIOUS
  <2> QED  BY <2>1, <1>3, <1>4, <1>5, PermitsApart DEF Right
<1>8. Only(r, r1, {"eventCounter", "eventPtr", "pmail", "QueueTbl", "balance", "holds", "out"})
  BY <1>4 DEF Only
<1>9. Right(r1, id, {})
  BY <1>1, <1>3, <1>4, <1>5, <1>6, <1>7, <1>8, MailsChange
<1>10. Posted(r1, e)
  BY <1>3, <1>4, <1>5 DEF Posted
<1>11. Right(r2, id, {}) /\ Serves(r1, r2, {e})
  BY <1>2, <1>9, <1>10, FirstReady
<1>12. Serves(r, r1, {e})
  <2>1. Only(r, r1, {"eventCounter", "eventPtr", "QueueTbl", "balance", "out"})
    BY <1>4 DEF Only
  <2> QED  BY <2>1, <1>1, <1>3, <1>4, <1>5, ServesMails
<1> QED  BY <1>11, <1>12, ServesAgain

LEMMA QueueMailPosted ==
  ASSUME NEW r, NEW id, Right(r, id, {}), NEW e \in Event, r.eventType[e] = "queue",
         NEW m \in Mail, NEW r2, r2 = PostQueueMail(r, e, m)
  PROVE  Right(r2, id, {}) /\ Serves(r, r2, {e})
<1> DEFINE r0 == Enqueue(r, e, m)
           r1 == [r0 EXCEPT !.out = r0.out \cup {m}]
<1>1. /\ DOMAIN r = Fields /\ r.eventCounter \in [Event -> Nat] /\ DOMAIN r.pmail = Task
      /\ DOMAIN r.eventPtr = Event /\ r.k \in Kernel /\ RingsRight(r)
      /\ r.balance \in [Event -> Int] /\ r.holds \in [Task -> SUBSET Event]
  BY DEF Right, Shape
<1>2. r2 = EventTaskToRdy(r1, e)  BY DEF PostQueueMail
<1>3. RingsRight(r0) /\ Only(r, r0, {"QueueTbl"}) /\ r0.QueueTbl[r.eventPtr[e]].qSize > 0
  BY <1>1, Enqueued
<1> HIDE DEF r0
<1>4. /\ Only(r, r1, {"QueueTbl", "out"}) /\ r1.QueueTbl = r0.QueueTbl
  BY <1>3 DEF Only, Fields
<1> HIDE DEF r1
<1>5. /\ r1.holds = r.holds /\ r1.eventType = r.eventType /\ r1.pmail = r.pmail
      /\ r1.initialEventCounter = r.initialEventCounter /\ r1.eventCounter = r.eventCounter
      /\ r1.balance = r.balance /\ r1.eventPtr = r.eventPtr
      /\ r0.eventPtr = r.eventPtr /\ r0.eventType = r.eventType
  BY <1>3, <1>4 DEF Only, Fields
<1>6. RingsRight(r1)
  BY <1>3, <1>4, <1>5 DEF RingsRight
<1>7. Disciplined => PermitsRight(r1, id)
  BY <1>5, PermitsFrame DEF Right
<1>8. Only(r, r1, {"eventCounter", "eventPtr", "pmail", "QueueTbl", "balance", "holds", "out"})
  BY <1>4 DEF Only
<1>9. Right(r1, id, {})
  BY <1>1, <1>5, <1>6, <1>7, <1>8, MailsChange
<1>10. Posted(r1, e)
  BY <1>3, <1>4, <1>5 DEF Posted
<1>11. Right(r2, id, {}) /\ Serves(r1, r2, {e})
  BY <1>2, <1>9, <1>10, FirstReady
<1>12. Serves(r, r1, {e})
  <2>1. Only(r, r1, {"eventCounter", "eventPtr", "QueueTbl", "balance", "out"})
    BY <1>4 DEF Only
  <2> QED  BY <2>1, <1>1, <1>5, ServesMails
<1> QED  BY <1>11, <1>12, ServesAgain

LEMMA PostRight ==
  ASSUME NEW r, NEW id, Right(r, id, {}), NEW e \in Event, r.eventType[e] # "invalid",
         r.eventType[e] = "sem" /\ Disciplined => r.eventCounter[e] < r.initialEventCounter[e],
         NEW m, r.eventType[e] # "sem" => m \in Mail,
         NEW r2, r2 = Post(r, e, m)
  PROVE  /\ Right(r2, id, {}) /\ Serves(r, r2, {e})
         /\ r.eventType[e] = "sem" => r2.balance[e] = r.balance[e] + 1
<1>1. CASE r.eventType[e] = "sem"
  <2>1. r2 = PostSem(r, e)  BY <1>1 DEF Post
  <2> QED  BY <1>1, <2>1, SemPosted
<1>2. CASE r.eventType[e] = "mbox"
  <2>1. r2 = PostMail(r, e, m)  BY <1>2 DEF Post
  <2> QED  BY <1>2, <2>1, MailPosted
<1>3. CASE r.eventType[e] = "queue"
  <2>1. r2 = PostQueueMail(r, e, m)  BY <1>3 DEF Post
  <2> QED  BY <1>3, <2>1, QueueMailPosted
<1>4. r.eventType[e] \in EventType  BY DEF Right, Shape
<1> QED  BY <1>1, <1>2, <1>3, <1>4 DEF EventType

-----------------------------------------------------------------------------
(* A task that waits for flags is woken.                                   *)
LEMMA LinkLeft ==
  ASSUME NEW r, NEW id, Right(r, id, {}), NEW t \in Task, r.pnode[t] = "node",
         NEW E, NEW r2, r2 = RemoveFromLink(r, t)
  PROVE  Right(r2, id, {}) /\ Serves(r, r2, E) /\ r2.pnode = [r.pnode EXCEPT ![t] = "set"]
<1> DEFINE a == RemoveLinkNode(r, t)
           b == EndDelay(a, t)
           c == [b EXCEPT !.pnode = [b.pnode EXCEPT ![t] = "set"]]
           d == Wake(c, t)
<1>1. r2 = d  BY DEF RemoveFromLink
<1> HIDE DEF a, b, d
<1>2. /\ r.k.state[t] = "WAITING" /\ r.eventID[t] = NoEvent /\ DOMAIN r.k.state = Task
      /\ r.pnode \in [Task -> {"null", "node", "set"}] /\ r.k \in Kernel
  BY DEF Right, StatesRight, Waits, Shape, Kernel
<1>3. /\ Right(a, id, {} \cup {t}) /\ Only(r, a, {"nodes", "pnode"})
      /\ a.pnode = [r.pnode EXCEPT ![t] = "null"]
  BY NodeRemoved DEF a
<1>4. /\ Right(b, id, ({} \cup {t}) \cup {t}) /\ Only(a, b, {"DlyList", "delayTick"})
      /\ b.delayTick[t] = NoDelay
      /\ \A u \in Task \ {t} : b.delayTick[u] = NoDelay <=> a.delayTick[u] = NoDelay
  BY <1>3, DelayEnded, SMTT(30) DEF b
<1>5. Right(b, id, {t})
  BY <1>4, RightMore
<1>6. /\ a.delayTick = r.delayTick /\ b.eventID = r.eventID /\ b.pnode = a.pnode
      /\ DOMAIN b = Fields
  BY <1>3, <1>4 DEF Only, Fields
<1>7. /\ c.pnode = [b.pnode EXCEPT ![t] = "set"] /\ Only(b, c, {"pnode"})
      /\ c.eventID = r.eventID /\ c.delayTick = b.delayTick
  BY <1>6 DEF Only, Fields
<1> HIDE DEF c
<1>8. b.pnode[t] # "node"
  BY <1>2, <1>3, <1>6
<1>9. Only(b, c, Aside \cup {"pnode"})
  BY <1>7 DEF Only
<1>10. Right(c, id, {t})
  BY <1>2, <1>4, <1>5, <1>6, <1>7, <1>8, <1>9, NodeMarked
<1>11. c.k = r.k
  BY <1>3, <1>4, <1>7 DEF Only, Fields
<1>12. c.pnode = [r.pnode EXCEPT ![t] = "set"]
  BY <1>2, <1>3, <1>6, <1>7
<1>13. ~Waits(c, t)
  BY <1>2, <1>4, <1>7, <1>12 DEF Waits
<1>14. /\ Right(d, id, {t} \ {t}) /\ Only(c, d, {"k"}) /\ KernelServes(c.k, d.k)
       /\ d.k.state = [c.k.state EXCEPT ![t] = IF t = c.k.TCBRunning THEN "RUNNING"
                                                                    ELSE "READY"]
  BY <1>2, <1>10, <1>11, <1>13, WakeAgain DEF d
<1>15. Right(d, id, {})
  BY <1>14, RightMore
<1>16. /\ d.app = r.app /\ d.eventType = r.eventType /\ d.holds = r.holds
       /\ d.initialEventCounter = r.initialEventCounter /\ d.eventCounter = r.eventCounter
       /\ d.balance = r.balance /\ d.eventID = r.eventID /\ d.pmail = r.pmail
       /\ d.pnode = c.pnode /\ d.delayTick = b.delayTick
       /\ d.cnt = r.cnt /\ d.cell = r.cell /\ d.head = r.head
  BY <1>3, <1>4, <1>7, <1>14 DEF Only, Fields
<1>17. ASSUME NEW u \in Task
       PROVE  /\ \/ d.k.state[u] = r.k.state[u]
                 \/ r.k.state[u] = "WAITING" /\ d.k.state[u] = "READY"
                 \/ r.k.state[u] = "WAITING" /\ d.k.state[u] = "RUNNING" /\ u = r.k.TCBRunning
              /\ d.pnode[u] = r.pnode[u] \/ r.pnode[u] = "node"
              /\ d.pnode[u] = r.pnode[u] \/ d.pnode[u] = "set"
              /\ r.delayTick[u] = NoDelay => d.delayTick[u] = NoDelay
  <2>1. CASE u = t
    BY <2>1, <1>2, <1>4, <1>6, <1>11, <1>12, <1>14, <1>16
  <2>2. CASE u # t
    BY <2>2, <1>2, <1>4, <1>6, <1>11, <1>12, <1>14, <1>16
  <2> QED  BY <2>1, <2>2
<1>18. Serves(r, d, E)
  <2>1. RingServed(r, d, E)
    BY <1>16, RingSame
  <2>2. ASSUME NEW u \in Task, r.delayTick[u] # NoDelay
        PROVE  IF d.delayTick[u] # NoDelay THEN TicksLeft(d, u) = TicksLeft(r, u)
                                           ELSE Ended(r, d, u)
    <3>1. CASE u = t
      <4>1. d.delayTick[u] = NoDelay
        BY <3>1, <1>4, <1>16
      <4>2. d.pnode[u] = "set"
        BY <3>1, <1>2, <1>12, <1>16
      <4> QED  BY <3>1, <4>1, <4>2 DEF Ended
    <3>2. CASE u # t
      <4>1. b.delayTick[u] # NoDelay /\ TicksLeft(b, u) = TicksLeft(a, u)
        BY <3>2, <2>2, <1>3, <1>6, TicksEnded DEF b
      <4>2. /\ a.DlyList = r.DlyList /\ a.delayTick = r.delayTick
            /\ d.DlyList = b.DlyList /\ d.delayTick = b.delayTick
        BY <1>3, <1>7, <1>14 DEF Only, Fields
      <4>3. TicksLeft(a, u) = TicksLeft(r, u) /\ TicksLeft(d, u) = TicksLeft(b, u)
        BY <4>2 DEF TicksLeft, Due
      <4> QED  BY <4>1, <4>2, <4>3
    <3> QED  BY <3>1, <3>2
  <2>3. DelaysServed(r, d)
    BY <2>2 DEF DelaysServed
  <2> QED  BY <1>11, <1>14, <1>16, <1>17, <2>1, <2>3 DEF Serves
<1> QED  BY <1>1, <1>12, <1>15, <1>16, <1>18

-----------------------------------------------------------------------------
(* The head of the delay list times out.                                   *)
LEMMA ListTail ==
  ASSUME NEW q \in Seq(Task), q # <<>>, NEW S, Lists(q, S)
  PROVE  /\ Tail(q) \in Seq(Task) /\ Len(Tail(q)) = Len(q) - 1
         /\ q[1] \in Task /\ q[1] \in S
         /\ Lists(Tail(q), S \ {q[1]})
<1> DEFINE n == Len(q)
           p == Tail(q)
<1>1. n \in Nat /\ n # 0 /\ DOMAIN q = 1 .. n /\ \A i \in 1 .. n : q[i] \in Task
  BY EmptySeq, LenProperties, ElementOfSeq
<1>2. p \in Seq(Task) /\ Len(p) = n - 1 /\ \A i \in 1 .. n - 1 : p[i] = q[i + 1]
  BY HeadTailProperties
<1>3. DOMAIN p = 1 .. n - 1
  BY <1>2, LenProperties
<1> HIDE DEF n, p
<1>4. \A i, j \in 1 .. n : q[i] = q[j] => i = j
  BY <1>1 DEF Lists, IsInjective
<1>5. \A t \in Task : t \in S <=> \E i \in 1 .. n : q[i] = t
  BY <1>1 DEF Lists, Range
<1>6. IsInjective(p)
  BY <1>1, <1>2, <1>3, <1>4 DEF IsInjective
<1>7. ASSUME NEW t \in Task PROVE t \in Range(p) <=> t \in S \ {q[1]}
  <2>1. ASSUME NEW i \in 1 .. n - 1, p[i] = t PROVE t \in S \ {q[1]}
    <3>1. i + 1 \in 1 .. n /\ 1 \in 1 .. n /\ i + 1 # 1  BY <1>1
    <3> QED  BY <2>1, <3>1, <1>2, <1>4, <1>5
  <2>2. ASSUME t \in S, t # q[1] PROVE \E i \in 1 .. n - 1 : p[i] = t
    <3>1. PICK i \in 1 .. n : q[i] = t  BY <2>2, <1>5
    <3>2. i - 1 \in 1 .. n - 1 /\ (i - 1) + 1 = i  BY <2>2, <3>1, <1>1
    <3> QED  BY <3>1, <3>2, <1>2
  <2> QED  BY <2>1, <2>2, <1>3 DEF Range
<1>8. 1 \in 1 .. n  BY <1>1
<1> QED  BY <1>1, <1>2, <1>5, <1>6, <1>7, <1>8 DEF Lists, n, p

LEMMA TailRemoves ==
  ASSUME NEW q \in Seq(Task), q # <<>>
  PROVE  Tail(q) = RemoveAt(q, 1)
<1>1. Len(q) \in Nat /\ Len(q) # 0 /\ 1 \in 1 .. Len(q)
  BY EmptySeq, LenProperties
<1>2. /\ Tail(q) \in Seq(Task) /\ Len(Tail(q)) = Len(q) - 1
      /\ \A i \in 1 .. Len(q) - 1 : Tail(q)[i] = q[i + 1]
  BY HeadTailProperties
<1> DEFINE p == RemoveAt(q, 1)
<1>3. /\ p \in Seq(Task) /\ Len(p) = Len(q) - 1
      /\ \A i \in 1 .. Len(q) - 1 : p[i] = q[i + 1]
  <2>1. /\ RemoveAt(q, 1) \in Seq(Task) /\ Len(RemoveAt(q, 1)) = Len(q) - 1
        /\ \A i \in 1 .. Len(q) - 1 : RemoveAt(q, 1)[i] = IF i < 1 THEN q[i] ELSE q[i + 1]
    BY <1>1, RemoveAtFacts
  <2> HIDE DEF p
  <2> QED  BY <1>1, <2>1 DEF p
<1> HIDE DEF p
<1>4. Tail(q) = p
  BY <1>2, <1>3, SeqEqual
<1> QED  BY <1>4 DEF p

LEMMA TimedOut ==
  ASSUME NEW r, NEW id, Right(r, id, {}), r.DlyList # <<>>, r.delayTick[r.DlyList[1]] = 0,
         NEW E, NEW r2, r2 = TimeOut(r)
  PROVE  /\ Right(r2, id, {}) /\ Serves(r, r2, E)
         /\ r2.DlyList = Tail(r.DlyList)
         /\ \A i \in 1 .. Len(r2.DlyList) :
              r2.delayTick[r2.DlyList[i]] = r.delayTick[r.DlyList[i + 1]]
<1> DEFINE t == Head(r.DlyList)
           a == IF r.eventID[t] # NoEvent THEN RemoveEventWaittingList(r, t) ELSE r
           b == IF a.pnode[t] # "null" THEN RemoveLinkNode(a, t) ELSE a
           c == [b EXCEPT !.delayTick = [b.delayTick EXCEPT ![t] = NoDelay],
                          !.DlyList = Tail(b.DlyList)]
           d == InsertReady(c, t)
<1>1. r2 = d  BY DEF TimeOut
<1>2. /\ r.DlyList \in Seq(Task) /\ Lists(r.DlyList, {u \in Task : r.delayTick[u] # NoDelay})
      /\ t = r.DlyList[1] /\ DOMAIN r = Fields /\ r.k \in Kernel
      /\ r.pnode \in [Task -> {"null", "node", "set"}]
  BY HeadTailProperties DEF Right, Shape, DelaysRight
<1>3. /\ Tail(r.DlyList) \in Seq(Task) /\ Len(Tail(r.DlyList)) = Len(r.DlyList) - 1
      /\ t \in Task /\ r.delayTick[t] # NoDelay
      /\ Lists(Tail(r.DlyList), {u \in Task : r.delayTick[u] # NoDelay} \ {t})
  <2> DEFINE S == {u \in Task : r.delayTick[u] # NoDelay}
             q == r.DlyList
  <2>1. q \in Seq(Task) /\ q # <<>> /\ Lists(q, S) /\ t = q[1]  BY <1>2
  <2> HIDE DEF t, S, q
  <2>2. /\ Tail(q) \in Seq(Task) /\ Len(Tail(q)) = Len(q) - 1 /\ q[1] \in Task /\ q[1] \in S
        /\ Lists(Tail(q), S \ {q[1]})
    BY <2>1, ListTail
  <2>3. t \in S => r.delayTick[t] # NoDelay  BY DEF S
  <2> QED  BY <2>1, <2>2, <2>3 DEF S, q
<1> HIDE DEF t, a, b, d
<1>4. r.k.state[t] = "WAITING" /\ r.pnode[t] # "set" /\ DOMAIN r.k.state = Task
  BY <1>2, <1>3 DEF Right, StatesRight, Waits, Kernel
<1>5. /\ Right(a, id, {t}) /\ Only(r, a, {"eventTCBList", "eventID", "waitNext", "waitPrev"})
      /\ a.eventID[t] = NoEvent /\ \A u \in Task \ {t} : a.eventID[u] = r.eventID[u]
  <2>1. CASE r.eventID[t] # NoEvent
    <3>1. /\ Right(a, id, {} \cup {t})
          /\ Only(r, a, {"eventTCBList", "eventID", "waitNext", "waitPrev"})
          /\ a.eventID = [r.eventID EXCEPT ![t] = NoEvent]
      BY <2>1, <1>3, Unlinked DEF a
    <3>2. r.eventID \in [Task -> Event \cup {NoEvent}]  BY DEF Right, Shape
    <3>3. Right(a, id, {t})  BY <3>1, RightMore
    <3> QED  BY <3>1, <3>2, <3>3, <1>3
  <2>2. CASE r.eventID[t] = NoEvent
    <3>1. a = r  BY <2>2 DEF a
    <3>2. Right(r, id, {t})  BY RightMore
    <3> QED  BY <2>2, <3>1, <3>2, <1>2 DEF Only
  <2> QED  BY <2>1, <2>2
<1>6. a.pnode = r.pnode /\ a.delayTick = r.delayTick /\ a.DlyList = r.DlyList
  BY <1>5 DEF Only, Fields
<1>7. /\ Right(b, id, {t}) /\ Only(a, b, {"nodes", "pnode"})
      /\ b.pnode[t] = "null" /\ \A u \in Task \ {t} : b.pnode[u] = r.pnode[u]
  <2>1. CASE a.pnode[t] # "null"
    <3>1. a.pnode[t] = "node"  BY <2>1, <1>2, <1>3, <1>4, <1>6
    <3>2. /\ Right(b, id, {t} \cup {t}) /\ Only(a, b, {"nodes", "pnode"})
          /\ b.pnode = [a.pnode EXCEPT ![t] = "null"]
      <4>1. b = RemoveLinkNode(a, t)  BY <2>1 DEF b
      <4>2. t \in Task /\ Right(a, id, {t})  BY <1>3, <1>5
      <4> QED  BY ONLY <3>1, <4>1, <4>2, NodeRemoved
    <3>3. Right(b, id, {t})  BY <3>2, RightMore
    <3> QED  BY <3>2, <3>3, <1>2, <1>3, <1>6
  <2>2. CASE a.pnode[t] = "null"
    <3>1. b = a  BY <2>2 DEF b
    <3> QED  BY <2>2, <3>1, <1>5, <1>6 DEF Only
  <2> QED  BY <2>1, <2>2
<1>8. /\ b.eventID = a.eventID /\ b.delayTick = r.delayTick /\ b.DlyList = r.DlyList
      /\ DOMAIN b = Fields /\ b.k = r.k
  BY <1>5, <1>6, <1>7 DEF Only, Fields
<1>9. /\ c.delayTick = [r.delayTick EXCEPT ![t] = NoDelay] /\ c.DlyList = Tail(r.DlyList)
      /\ Only(b, c, {"DlyList", "delayTick"})
  BY <1>8 DEF Only, Fields
<1> HIDE DEF c
<1>10. r.delayTick \in [Task -> Nat \cup {NoDelay}]  BY DEF Right, Shape
<1>11. /\ c.delayTick \in [Task -> Nat \cup {NoDelay}] /\ c.delayTick[t] = NoDelay
       /\ \A u \in Task \ {t} : c.delayTick[u] = r.delayTick[u]
  BY <1>3, <1>9, <1>10
<1>12. DelaysRight(c)
  BY <1>3, <1>9, <1>11, ListSame DEF DelaysRight
<1>13. c.k = r.k /\ c.eventID = a.eventID /\ c.pnode = b.pnode
  BY <1>8, <1>9 DEF Only, Fields
<1>14. StatesRight(c, {t})
  <2>1. StatesRight(b, {t})  BY <1>7 DEF Right
  <2> QED  BY <2>1, <1>5, <1>7, <1>8, <1>11, <1>13 DEF StatesRight, Waits
<1>15. Right(c, id, {t})
  BY <1>3, <1>7, <1>9, <1>11, <1>12, <1>14, DelaysChange
<1>16. ~Waits(c, t) /\ c.k.state[t] = "WAITING"
  BY <1>4, <1>5, <1>7, <1>11, <1>13 DEF Waits
<1>17. /\ Right(d, id, {t} \ {t}) /\ Only(c, d, {"k"}) /\ KernelServes(c.k, d.k)
       /\ d.k.state = [c.k.state EXCEPT ![t] = "READY"]
  BY <1>3, <1>15, <1>16, ReadyAgain DEF d
<1>18. Right(d, id, {})
  BY <1>17, RightMore
<1>19. /\ d.app = r.app /\ d.eventType = r.eventType /\ d.holds = r.holds
       /\ d.initialEventCounter = r.initialEventCounter /\ d.eventCounter = r.eventCounter
       /\ d.balance = r.balance /\ d.eventID = a.eventID /\ d.pmail = r.pmail
       /\ d.pnode = b.pnode /\ d.delayTick = c.delayTick /\ d.DlyList = c.DlyList
       /\ d.cnt = r.cnt /\ d.cell = r.cell /\ d.head = r.head
  <2>1. /\ c.app = r.app /\ c.eventType = r.eventType /\ c.holds = r.holds
        /\ c.initialEventCounter = r.initialEventCounter /\ c.eventCounter = r.eventCounter
        /\ c.balance = r.balance /\ c.pmail = r.pmail
        /\ c.cnt = r.cnt /\ c.cell = r.cell /\ c.head = r.head
    BY <1>5, <1>7, <1>9, ZenonT(60) DEF Only, Fields
  <2>2. /\ d.app = c.app /\ d.eventType = c.eventType /\ d.holds = c.holds
        /\ d.initialEventCounter = c.initialEventCounter /\ d.eventCounter = c.eventCounter
        /\ d.balance = c.balance /\ d.eventID = c.eventID /\ d.pmail = c.pmail
        /\ d.pnode = c.pnode /\ d.delayTick = c.delayTick /\ d.DlyList = c.DlyList
        /\ d.cnt = c.cnt /\ d.cell = c.cell /\ d.head = c.head
    BY <1>17 DEF Only, Fields
  <2> QED  BY <2>1, <2>2, <1>13
<1>20. ASSUME NEW u \in Task
       PROVE  /\ \/ d.k.state[u] = r.k.state[u]
                 \/ r.k.state[u] = "WAITING" /\ d.k.state[u] = "READY"
              /\ d.eventID[u] = r.eventID[u] \/ d.eventID[u] = NoEvent
              /\ d.pnode[u] = r.pnode[u] \/ r.pnode[u] = "node"
              /\ r.delayTick[u] = NoDelay => /\ d.delayTick[u] = NoDelay
                                             /\ d.pnode[u] = r.pnode[u]
                                             /\ d.eventID[u] = r.eventID[u]
  <2>1. CASE u = t
    BY <2>1, <1>2, <1>3, <1>4, <1>5, <1>7, <1>11, <1>13, <1>17, <1>19
  <2>2. CASE u # t
    BY <2>2, <1>4, <1>5, <1>7, <1>11, <1>13, <1>17, <1>19
  <2> QED  BY <2>1, <2>2
<1>21. Serves(r, d, E)
  <2>1. RingServed(r, d, E)
    BY <1>19, RingSame
  <2> DEFINE q == r.DlyList
  <2>2. Delayed(r) /\ \A u \in Task : r.delayTick[u] # NoDelay =>
                        \E i \in 1 .. Len(q) : q[i] = u
    BY <1>2, <1>10, DelaysAt DEF Right
  <2>3. 1 \in 1 .. Len(q) /\ q[1] = t /\ Len(q) \in Nat
    BY <1>2, EmptySeq, LenProperties
  <2>4. d.DlyList = RemoveAt(q, 1)
    BY <1>2, <1>9, <1>19, TailRemoves
  <2>5. \A u \in Task : u # q[1] =>
          d.delayTick[u] = IF 1 < Len(q) /\ u = q[1 + 1]
                           THEN r.delayTick[u] + r.delayTick[q[1]] ELSE r.delayTick[u]
    <3> SUFFICES ASSUME NEW u \in Task, u # q[1]
                 PROVE  d.delayTick[u] = IF 1 < Len(q) /\ u = q[1 + 1]
                           THEN r.delayTick[u] + r.delayTick[q[1]] ELSE r.delayTick[u]
      OBVIOUS
    <3>1. d.delayTick[u] = r.delayTick[u]
      BY <2>3, <1>11, <1>19
    <3>2. ASSUME 1 < Len(q), u = q[2] PROVE r.delayTick[u] \in Nat
      <4>1. 2 \in 1 .. Len(q)  BY <2>3, <3>2
      <4> QED  BY <2>2, <3>2, <4>1 DEF Delayed
    <3> QED  BY <3>1, <3>2
  <2>6. \A j \in 1 .. Len(q) : j # 1 => TicksLeft(d, q[j]) = TicksLeft(r, q[j])
    BY <2>2, <2>3, <2>4, <2>5, TicksLess
  <2>7. TicksLeft(r, t) = 0
    BY <2>2, <2>3, TicksNat
  <2>8. ASSUME NEW u \in Task, r.delayTick[u] # NoDelay
        PROVE  IF d.delayTick[u] # NoDelay THEN TicksLeft(d, u) = TicksLeft(r, u)
                                           ELSE Ended(r, d, u)
    <3>1. CASE u = t
      BY <3>1, <2>7, <1>11, <1>19 DEF Ended
    <3>2. CASE u # t
      <4>1. d.delayTick[u] # NoDelay
        BY <3>2, <2>8, <1>11, <1>19
      <4> QED  BY <3>2, <4>1, <2>2, <2>3, <2>6, <2>8
    <3> QED  BY <3>1, <3>2
  <2>9. DelaysServed(r, d)
    BY <2>8 DEF DelaysServed
  <2> QED  BY <1>13, <1>17, <1>19, <1>20, <2>1, <2>9 DEF Serves
<1>22. ASSUME NEW i \in 1 .. Len(d.DlyList)
       PROVE  d.delayTick[d.DlyList[i]] = r.delayTick[r.DlyList[i + 1]]
  <2> DEFINE q == r.DlyList
             p == Tail(q)
  <2>1. /\ q \in Seq(Task) /\ q # <<>> /\ d.DlyList = p /\ t = q[1]
        /\ \A j, l \in 1 .. Len(q) : q[j] = q[l] => j = l
    BY <1>2, <1>9, <1>19, LenProperties DEF Lists, IsInjective
  <2>2. /\ p \in Seq(Task) /\ Len(p) = Len(q) - 1 /\ Len(q) \in Nat
        /\ \A j \in 1 .. Len(q) - 1 : p[j] = q[j + 1]
    BY <2>1, HeadTailProperties, LenProperties
  <2>3. \A j \in 1 .. Len(q) : q[j] \in Task
    BY <2>1, ElementOfSeq
  <2> HIDE DEF q, p
  <2>4. i \in 1 .. Len(q) - 1 /\ i + 1 \in 1 .. Len(q) /\ 1 \in 1 .. Len(q) /\ i + 1 # 1
    BY <2>1, <2>2
  <2>5. d.DlyList[i] = q[i + 1] /\ q[i + 1] # t /\ q[i + 1] \in Task
    BY <2>1, <2>2, <2>3, <2>4
  <2>6. d.delayTick[q[i + 1]] = r.delayTick[q[i + 1]]
    BY <2>5, <1>11, <1>19
  <2> QED  BY <2>5, <2>6 DEF q
<1> QED  BY <1>1, <1>9, <1>18, <1>19, <1>21, <1>22

-----------------------------------------------------------------------------
(* The tick: all delays that are over time out.                            *)
LEMMA DelaysDisposed ==
  ASSUME NEW r, NEW id, Right(r, id, {}), NEW E, NEW r2, r2 = TimeDispose(r)
  PROVE  Right(r2, id, {}) /\ Serves(r, r2, E)
<1> DEFINE l == Len(r.DlyList)
           Over(i) == /\ \A j \in 1 .. i : r.delayTick[r.DlyList[j]] = 0
                      /\ i < l => r.delayTick[r.DlyList[i + 1]] # 0
           n == CHOOSE i \in 0 .. l : Over(i)
           Rec(m, f) == f = [i \in 0 .. m |-> IF i = 0 THEN r ELSE TimeOut(f[i - 1])]
           after == CHOOSE f : Rec(n, f)
<1>0. l \in Nat /\ r.DlyList \in Seq(Task) /\ r.k \in Kernel
  BY LenProperties DEF Right, Shape
<1>1. r2 = after[n]
  BY DEF TimeDispose
<1>2. n \in 0 .. l /\ \A j \in 1 .. n : r.delayTick[r.DlyList[j]] = 0
  <2> DEFINE B == {i \in Nat : i = l \/ (i < l /\ r.delayTick[r.DlyList[i + 1]] # 0)}
  <2> HIDE DEF l
  <2>1. l \in B /\ B \in SUBSET Nat  BY <1>0
  <2>2. PICK m \in B : \A i \in B : m <= i  BY <2>1, LeastNat
  <2>3. m \in 0 .. l  BY <2>1, <2>2, <1>0
  <2>4. ASSUME NEW j \in 1 .. m PROVE r.delayTick[r.DlyList[j]] = 0
    <3>1. j - 1 \in Nat /\ j - 1 < m /\ j - 1 < l /\ (j - 1) + 1 = j  BY <2>3, <1>0
    <3>2. j - 1 \notin B  BY <3>1, <2>2, <2>3
    <3> QED  BY <3>1, <3>2
  <2>5. Over(m)  BY <2>2, <2>3, <2>4, <1>0
  <2> HIDE DEF Over
  <2>6. \E i \in 0 .. l : Over(i)  BY <2>3, <2>5
  <2>7. n \in 0 .. l /\ Over(n)  BY <2>6
  <2> QED  BY <2>7 DEF Over
<1> HIDE DEF l, n
<1>3. \A m \in Nat : \E f : Rec(m, f)
  <2> DEFINE N == {m \in Nat : \E f : Rec(m, f)}
  <2>1. 0 \in N
    <3>1. Rec(0, [i \in 0 .. 0 |-> r])  OBVIOUS
    <3> QED  BY <3>1
  <2>2. ASSUME NEW m \in Nat, m \in N PROVE m + 1 \in N
    <3>1. PICK f : Rec(m, f)  BY <2>2
    <3> DEFINE g == [i \in 0 .. m + 1 |-> IF i = m + 1 THEN TimeOut(f[m]) ELSE f[i]]
    <3>2. \A i \in 0 .. m + 1 : g[i] = IF i = 0 THEN r ELSE TimeOut(g[i - 1])
      <4> TAKE i \in 0 .. m + 1
      <4>1. CASE i = m + 1
        BY <4>1
      <4>2. CASE i # m + 1
        <5>1. i \in 0 .. m /\ (i # 0 => i - 1 \in 0 .. m /\ i - 1 # m + 1)  BY <4>2
        <5> QED  BY <3>1, <4>2, <5>1
      <4> QED  BY <4>1, <4>2
    <3>3. g = [i \in 0 .. m + 1 |-> g[i]]
      OBVIOUS
    <3> HIDE DEF g
    <3>4. Rec(m + 1, g)
      BY <3>2, <3>3
    <3> QED  BY <3>4
  <2> HIDE DEF N
  <2>3. \A m \in Nat : m \in N  BY <2>1, <2>2, NatIs
  <2> QED  BY <2>3 DEF N
<1>4. Rec(n, after)
  <2> HIDE DEF Rec
  <2>1. n \in Nat  BY <1>0, <1>2
  <2> QED  BY <2>1, <1>3
<1>5. after[0] = r /\ \A i \in 1 .. n : after[i] = TimeOut(after[i - 1])
  <2> HIDE DEF after
  <2>1. n \in Nat  BY <1>0, <1>2
  <2> QED  BY <2>1, <1>4
<1> HIDE DEF after, Rec
<1> DEFINE Good(i) == /\ Right(after[i], id, {}) /\ Serves(r, after[i], E)
                      /\ after[i].DlyList \in Seq(Task) /\ Len(after[i].DlyList) = l - i
                      /\ \A j \in 1 .. l - i : after[i].delayTick[after[i].DlyList[j]]
                                               = r.delayTick[r.DlyList[i + j]]
           N == {i \in Nat : i <= n => Good(i)}
<1>6. 0 \in N
  <2>1. \A j \in 1 .. l - 0 : 0 + j = j
    BY <1>0
  <2> QED  BY <2>1, <1>0, <1>5, ServesNone DEF l
<1>7. ASSUME NEW i \in Nat, i \in N PROVE i + 1 \in N
  <2> SUFFICES ASSUME i + 1 <= n PROVE Good(i + 1)
    OBVIOUS
  <2>1. i + 1 \in 1 .. n /\ (i + 1) - 1 = i /\ i <= n /\ i < l
    BY <1>0, <1>2
  <2>2. Good(i)  BY <1>7, <2>1
  <2>3. after[i].DlyList # <<>>
    BY <2>1, <2>2, <1>0, EmptySeq
  <2>4. after[i + 1] = TimeOut(after[i])  BY <2>1, <1>5
  <2> DEFINE p == after[i]
             x == after[i + 1]
  <2>a. p.delayTick[p.DlyList[1]] = 0
    <3>1. 1 \in 1 .. l - i /\ i + 1 \in 1 .. n
      BY <2>1, <1>0
    <3> QED  BY <2>2, <3>1, <1>2
  <2>b. Right(p, id, {}) /\ p.DlyList # <<>> /\ x = TimeOut(p) /\ p.DlyList \in Seq(Task)
    BY <2>2, <2>3, <2>4
  <2>5. /\ Right(x, id, {}) /\ Serves(p, x, E)
        /\ x.DlyList = Tail(p.DlyList)
        /\ \A j \in 1 .. Len(x.DlyList) :
             x.delayTick[x.DlyList[j]] = p.delayTick[p.DlyList[j + 1]]
    <3> HIDE DEF p, x, N
    <3> QED  BY <2>a, <2>b, TimedOut, ZenonT(60)
  <2>6. Serves(r, x, E)  BY <2>2, <2>5, ServesAgain
  <2>7. x.DlyList \in Seq(Task) /\ Len(x.DlyList) = Len(p.DlyList) - 1
    <3> HIDE DEF p, x
    <3> QED  BY <2>b, <2>5, HeadTailProperties
  <2>8. Len(x.DlyList) = l - (i + 1)
    BY <2>1, <2>2, <2>7, <1>0
  <2>9. ASSUME NEW j \in 1 .. l - (i + 1)
        PROVE  x.delayTick[x.DlyList[j]] = r.delayTick[r.DlyList[(i + 1) + j]]
    <3>1. j + 1 \in 1 .. l - i /\ i + (j + 1) = (i + 1) + j
      BY <2>1, <1>0
    <3>2. x.delayTick[x.DlyList[j]] = p.delayTick[p.DlyList[j + 1]]
      BY <2>5, <2>8
    <3>3. p.delayTick[p.DlyList[j + 1]] = r.delayTick[r.DlyList[i + (j + 1)]]
      BY <2>2, <3>1
    <3> QED  BY <3>1, <3>2, <3>3
  <2> QED  BY <2>5, <2>6, <2>7, <2>8, <2>9
<1> HIDE DEF N
<1>8. n \in N
  <2>1. \A i \in Nat : i \in N  BY <1>6, <1>7, NatIs
  <2> QED  BY <2>1, <1>0, <1>2
<1> QED  BY <1>0, <1>1, <1>2, <1>8 DEF N

LEMMA DelaysDisposedIsr ==
  ASSUME NEW r, NEW id, Right(r, id, {}), NEW E, NEW r2, r2 = isr_TimeDispose(r)
  PROVE  Right(r2, id, {}) /\ Serves(r, r2, E)
<1>1. CASE r.k.OSSchedLock > 1
  <2>1. Only(r, r2, {"IsrReq", "TimeReq"})
    BY <1>1 DEF isr_TimeDispose, Only, Fields, Right, Shape
  <2>2. Only(r, r2, Aside) /\ Only(r, r2, Aside \cup {"TmrTbl", "TmrList"})
    BY <2>1 DEF Only, Aside
  <2> QED  BY <2>2, AsideOnly, ServesAside
<1>2. CASE ~(r.k.OSSchedLock > 1)
  <2>1. r2 = TimeDispose(r)  BY <1>2 DEF isr_TimeDispose
  <2> QED  BY <2>1, DelaysDisposed
<1> QED  BY <1>1, <1>2

(* The tick: a delay is one tick shorter, unless its task has none left,   *)
(* and ends with its last tick or with what its task waits for.            *)
DelaysTick(r, r2) ==
  \A t \in Task : r.delayTick[t] # NoDelay =>
    IF r2.delayTick[t] # NoDelay
    THEN TicksLeft(r2, t) \in {TicksLeft(r, t), TicksLeft(r, t) - 1}
    ELSE TicksLeft(r, t) <= 1 \/ Ended(r, r2, t)

LEMMA DelaysTicked ==
  ASSUME NEW r, NEW id, Right(r, id, {}), NEW E, Ticks \in E, NEW r2, r2 = TickDelays(r)
  PROVE  Right(r2, id, {}) /\ Serves(r, r2, E) /\ DelaysTick(r, r2)
<1> DEFINE t == Head(r.DlyList)
<1>0. /\ r.k \in Kernel /\ DOMAIN r = Fields /\ r.delayTick \in [Task -> Nat \cup {NoDelay}]
      /\ r.DlyList \in Seq(Task) /\ Lists(r.DlyList, {u \in Task : r.delayTick[u] # NoDelay})
  BY DEF Right, Shape, DelaysRight
<1>1. CASE r.DlyList = <<>>
  <2>1. r2 = r  BY <1>1 DEF TickDelays
  <2> QED  BY <2>1, <1>0, ServesNone DEF DelaysTick
<1>2. CASE r.DlyList # <<>>
  <2>1. t \in Task /\ r.delayTick[t] # NoDelay /\ t = r.DlyList[1]
    <3> DEFINE S == {u \in Task : r.delayTick[u] # NoDelay}
               q == r.DlyList
    <3>1. q \in Seq(Task) /\ q # <<>> /\ Lists(q, S) /\ t = q[1]
      BY <1>0, <1>2, HeadTailProperties
    <3> HIDE DEF S, q, t
    <3>2. q[1] \in Task /\ q[1] \in S  BY <3>1, ListTail
    <3> QED  BY <3>1, <3>2 DEF S, q
  <2> HIDE DEF t
  <2>a. /\ Delayed(r)
        /\ \A u \in Task : r.delayTick[u] # NoDelay =>
             \E i \in 1 .. Len(r.DlyList) : r.DlyList[i] = u
    BY <1>0, DelaysAt DEF DelaysRight
  <2>b. /\ r.delayTick[t] \in Nat
        /\ \A u \in Task : r.delayTick[u] # NoDelay => TicksLeft(r, u) \in Nat
    BY <1>0, <2>1, <2>a, TicksNat
  <2>2. ASSUME NEW c \in Nat, NEW d \in Nat, d = r.delayTick[t] - c,
               NEW r1, r1 = [r EXCEPT !.delayTick = [r.delayTick EXCEPT ![t] = d]]
        PROVE  /\ Right(r1, id, {}) /\ Serves(r, r1, E)
               /\ r1.eventID = r.eventID /\ r1.pmail = r.pmail /\ r1.pnode = r.pnode
               /\ \A u \in Task : r.delayTick[u] # NoDelay =>
                    r1.delayTick[u] # NoDelay /\ TicksLeft(r1, u) = TicksLeft(r, u) - c
    <3>1. r1.delayTick = [r.delayTick EXCEPT ![t] = d] /\ Only(r, r1, {"delayTick"})
      BY <1>0, <2>2 DEF Only, Fields
    <3>2. /\ r1.delayTick \in [Task -> Nat \cup {NoDelay}]
          /\ \A u \in Task : r1.delayTick[u] = NoDelay <=> r.delayTick[u] = NoDelay
      BY <1>0, <2>1, <3>1 DEF NoDelay
    <3>3. /\ r1.app = r.app /\ r1.k = r.k /\ r1.eventType = r.eventType
          /\ r1.initialEventCounter = r.initialEventCounter /\ r1.holds = r.holds
          /\ r1.eventCounter = r.eventCounter /\ r1.balance = r.balance
          /\ r1.eventID = r.eventID /\ r1.pmail = r.pmail /\ r1.pnode = r.pnode
          /\ r1.DlyList = r.DlyList /\ r1.cnt = r.cnt /\ r1.cell = r.cell /\ r1.head = r.head
      BY <3>1 DEF Only, Fields
    <3>4. DelaysRight(r1)
      BY <1>0, <3>2, <3>3, ListSame DEF DelaysRight
    <3>5. StatesRight(r1, {})
      BY <3>2, <3>3 DEF Right, StatesRight, Waits
    <3>6. Only(r, r1, {"DlyList", "delayTick"})
      BY <3>1 DEF Only
    <3>7. Right(r1, id, {})
      BY <1>0, <3>2, <3>3, <3>4, <3>5, <3>6, DelaysChange
    <3>8. RingServed(r, r1, E)
      BY <3>3, RingSame
    <3>9. Serves(r, r1, E)
      BY <1>0, <3>2, <3>3, <3>8 DEF Serves, KernelServes
    <3>10. \A j \in 1 .. Len(r.DlyList) :
             TicksLeft(r1, r.DlyList[j]) = TicksLeft(r, r.DlyList[j]) - c
      <4>1. /\ r1.delayTick[r.DlyList[1]] = d
            /\ \A u \in Task : u # r.DlyList[1] => r1.delayTick[u] = r.delayTick[u]
        BY <1>0, <2>1, <3>1
      <4>2. /\ r1.DlyList = r.DlyList /\ r1.delayTick[r.DlyList[1]] \in Nat
            /\ r1.delayTick[r.DlyList[1]] = r.delayTick[r.DlyList[1]] - c
        BY <2>1, <2>2, <3>3, <4>1
      <4> QED  BY ONLY <1>2, c \in Nat, <2>a, <4>1, <4>2, TicksDown
    <3> QED  BY <2>a, <3>2, <3>3, <3>7, <3>9, <3>10
  <2>3. CASE r.delayTick[t] > 1
    <3>1. r2 = [r EXCEPT !.delayTick = [r.delayTick EXCEPT ![t] = r.delayTick[t] - 1]]
      BY <1>2, <2>3 DEF TickDelays, t
    <3>2. r.delayTick[t] - 1 \in Nat
      BY <2>3, <2>b
    <3>3. /\ Right(r2, id, {}) /\ Serves(r, r2, E)
          /\ \A u \in Task : r.delayTick[u] # NoDelay =>
               r2.delayTick[u] # NoDelay /\ TicksLeft(r2, u) = TicksLeft(r, u) - 1
      BY <3>1, <3>2, <2>2, ZenonT(60)
    <3> QED  BY <3>3 DEF DelaysTick
  <2>4. CASE ~(r.delayTick[t] > 1)
    <3> DEFINE r1 == [r EXCEPT !.delayTick = [r.delayTick EXCEPT ![t] = 0]]
               c == r.delayTick[t]
    <3>1. r2 = isr_TimeDispose(r1)
      BY <1>2, <2>4 DEF TickDelays, t
    <3>2. /\ Right(r1, id, {}) /\ Serves(r, r1, E)
          /\ r1.eventID = r.eventID /\ r1.pmail = r.pmail /\ r1.pnode = r.pnode
          /\ \A u \in Task : r.delayTick[u] # NoDelay =>
               r1.delayTick[u] # NoDelay /\ TicksLeft(r1, u) = TicksLeft(r, u) - c
      <4>1. c \in Nat /\ 0 \in Nat /\ 0 = r.delayTick[t] - c
        BY <2>b
      <4> HIDE DEF c
      <4> QED  BY <4>1, <2>2, ZenonT(60)
    <3>3. c \in {0, 1}
      BY <2>4, <2>b
    <3> HIDE DEF r1, c
    <3>4. Right(r2, id, {}) /\ Serves(r1, r2, E) /\ Serves(r1, r2, {})
      BY <3>1, <3>2, DelaysDisposedIsr
    <3>5. DelaysServed(r1, r2)
      BY <3>4 DEF Serves
    <3>6. ASSUME NEW u \in Task, r.delayTick[u] # NoDelay
          PROVE  IF r2.delayTick[u] # NoDelay
                 THEN TicksLeft(r2, u) \in {TicksLeft(r, u), TicksLeft(r, u) - 1}
                 ELSE TicksLeft(r, u) <= 1 \/ Ended(r, r2, u)
      <4>1. /\ TicksLeft(r1, u) = TicksLeft(r, u) - c /\ TicksLeft(r, u) \in Nat
            /\ IF r2.delayTick[u] # NoDelay THEN TicksLeft(r2, u) = TicksLeft(r1, u)
                                            ELSE Ended(r1, r2, u)
        BY <2>b, <3>2, <3>5, <3>6 DEF DelaysServed
      <4>2. CASE r2.delayTick[u] # NoDelay
        <5>1. TicksLeft(r2, u) = TicksLeft(r, u) - c
          BY <4>1, <4>2
        <5>2. TicksLeft(r2, u) \in {TicksLeft(r, u), TicksLeft(r, u) - 1}
          BY <5>1, <4>1, <3>3
        <5> QED  BY <4>2, <5>2
      <4>3. CASE r2.delayTick[u] = NoDelay
        <5>1. Ended(r1, r2, u)
          BY <4>1, <4>3
        <5>2. TicksLeft(r1, u) = 0 => TicksLeft(r, u) <= 1
          BY <3>3, <4>1
        <5>3. TicksLeft(r, u) <= 1 \/ Ended(r, r2, u)
          BY <3>2, <5>1, <5>2 DEF Ended
        <5> QED  BY <4>3, <5>3
      <4> QED  BY <4>2, <4>3
    <3>7. DelaysTick(r, r2)
      BY <3>6 DEF DelaysTick
    <3> QED  BY <3>2, <3>4, <3>7, ServesAgain
  <2> QED  BY <2>3, <2>4
<1> QED  BY <1>1, <1>2

-----------------------------------------------------------------------------
(* The walk along those that wait for flags.                               *)
LEMMA ThoseFacts ==
  ASSUME NEW q \in Seq(Task), IsInjective(q), NEW S
  PROVE  /\ Those(q, S) \in Seq(Task) /\ IsInjective(Those(q, S))
         /\ Range(Those(q, S)) \subseteq Range(q)
<1> DEFINE n == Len(q)
           Rec(m, f) == f = [i \in 0 .. m |->
                              IF i = 0 THEN <<>>
                              ELSE IF q[i] \in S THEN Append(f[i - 1], q[i]) ELSE f[i - 1]]
           those == CHOOSE f : Rec(n, f)
<1>0. n \in Nat /\ DOMAIN q = 1 .. n /\ \A i \in 1 .. n : q[i] \in Task
  BY LenProperties, ElementOfSeq
<1>1. Those(q, S) = those[n]
  BY DEF Those
<1> HIDE DEF n
<1>2. \A m \in Nat : \E f : Rec(m, f)
  <2> DEFINE N == {m \in Nat : \E f : Rec(m, f)}
  <2>1. 0 \in N
    <3>1. Rec(0, [i \in 0 .. 0 |-> <<>>])  OBVIOUS
    <3> QED  BY <3>1
  <2>2. ASSUME NEW m \in Nat, m \in N PROVE m + 1 \in N
    <3>1. PICK f : Rec(m, f)  BY <2>2
    <3> DEFINE v == IF q[m + 1] \in S THEN Append(f[m], q[m + 1]) ELSE f[m]
               g == [i \in 0 .. m + 1 |-> IF i = m + 1 THEN v ELSE f[i]]
    <3>0. \A i \in 0 .. m + 1 : g[i] = IF i = m + 1 THEN v ELSE f[i]
      OBVIOUS
    <3>a. \A i \in 0 .. m : f[i] = IF i = 0 THEN <<>>
                                  ELSE IF q[i] \in S THEN Append(f[i - 1], q[i]) ELSE f[i - 1]
      BY <3>1
    <3>b. v = IF q[m + 1] \in S THEN Append(f[m], q[m + 1]) ELSE f[m]
      OBVIOUS
    <3>2. \A i \in 0 .. m + 1 :
            g[i] = IF i = 0 THEN <<>>
                   ELSE IF q[i] \in S THEN Append(g[i - 1], q[i]) ELSE g[i - 1]
      <4> HIDE DEF g, v, Rec
      <4> TAKE i \in 0 .. m + 1
      <4>1. CASE i = m + 1
        <5>1. i # 0 /\ i - 1 = m /\ m # m + 1 /\ m \in 0 .. m + 1  BY <4>1
        <5>2. g[i] = v /\ g[m] = f[m]  BY <5>1, <3>0, <4>1
        <5> QED  BY <5>1, <5>2, <3>b, <4>1
      <4>2. CASE i # m + 1
        <5>1. i \in 0 .. m  BY <4>2
        <5>2. i # 0 => i - 1 \in 0 .. m + 1 /\ i - 1 # m + 1  BY <5>1
        <5>3. g[i] = f[i] /\ (i # 0 => g[i - 1] = f[i - 1])  BY <5>1, <5>2, <3>0, <4>2
        <5> QED  BY <5>1, <5>3, <3>a
      <4> QED  BY <4>1, <4>2
    <3>3. g = [i \in 0 .. m + 1 |-> g[i]]
      OBVIOUS
    <3> HIDE DEF g
    <3>4. Rec(m + 1, g)
      BY <3>2, <3>3
    <3> QED  BY <3>4
  <2> HIDE DEF N
  <2>3. \A m \in Nat : m \in N  BY <2>1, <2>2, NatIs
  <2> QED  BY <2>3 DEF N
<1>3. Rec(n, those)
  <2> HIDE DEF Rec
  <2> QED  BY <1>0, <1>2
<1>4. /\ those[0] = <<>>
      /\ \A i \in 1 .. n : those[i] = IF q[i] \in S THEN Append(those[i - 1], q[i])
                                                    ELSE those[i - 1]
  <2> HIDE DEF those
  <2>1. n \in Nat  BY <1>0
  <2>2. /\ \A i \in 0 .. n : those[i] = IF i = 0 THEN <<>>
                            ELSE IF q[i] \in S THEN Append(those[i - 1], q[i]) ELSE those[i - 1]
    BY <1>3
  <2> HIDE DEF Rec
  <2>3. 0 \in 0 .. n /\ \A i \in 1 .. n : i \in 0 .. n /\ i # 0  BY <2>1
  <2> QED  BY <2>2, <2>3
<1> HIDE DEF those, Rec
<1> DEFINE Good(i) == /\ those[i] \in Seq(Task)
                      /\ \A a \in 1 .. Len(those[i]) : \E j \in 1 .. i : those[i][a] = q[j]
                      /\ \A a, b \in 1 .. Len(those[i]) : those[i][a] = those[i][b] => a = b
           N == {i \in Nat : i <= n => Good(i)}
<1>5. 0 \in N
  <2> DEFINE p == those[0]
  <2>1. p \in Seq(Task) /\ Len(p) = 0  BY <1>4
  <2> HIDE DEF p
  <2>2. \A a \in 1 .. Len(p) : FALSE  BY <2>1
  <2>3. Good(0)  BY <2>1, <2>2 DEF p
  <2> QED  BY <2>3
<1>6. ASSUME NEW i \in Nat, i \in N PROVE i + 1 \in N
  <2> SUFFICES ASSUME i + 1 <= n PROVE Good(i + 1)
    OBVIOUS
  <2>1. i + 1 \in 1 .. n /\ (i + 1) - 1 = i /\ i <= n
    BY <1>0
  <2>2. Good(i)  BY <1>6, <2>1
  <2> DEFINE p == those[i]
             x == q[i + 1]
  <2>3. x \in Task  BY <2>1, <1>0
  <2>4. CASE q[i + 1] \notin S
    <3>1. those[i + 1] = those[i]  BY <2>1, <2>4, <1>4
    <3>2. \A j \in 1 .. i : j \in 1 .. i + 1  OBVIOUS
    <3> QED  BY <2>2, <3>1, <3>2
  <2>5. CASE q[i + 1] \in S
    <3>1. those[i + 1] = Append(p, x)  BY <2>1, <2>5, <1>4
    <3> HIDE DEF x, p
    <3> DEFINE l == Len(p)
    <3>2. /\ Append(p, x) \in Seq(Task) /\ Len(Append(p, x)) = l + 1 /\ l \in Nat
          /\ \A a \in 1 .. l : Append(p, x)[a] = p[a]
          /\ Append(p, x)[l + 1] = x
      BY <2>2, <2>3, AppendProperties, LenProperties DEF p
    <3>3. \A a \in 1 .. l : \E j \in 1 .. i : p[a] = q[j]
      BY <2>2 DEF p
    <3>4. \A a, b \in 1 .. l : p[a] = p[b] => a = b
      BY <2>2 DEF p
    <3> HIDE DEF l
    <3>5. \A a \in 1 .. l : p[a] # x
      <4> TAKE a \in 1 .. l
      <4>1. PICK j \in 1 .. i : p[a] = q[j]  BY <3>3
      <4>2. j \in 1 .. n /\ j # i + 1  BY <2>1, <1>0
      <4> QED  BY <4>1, <4>2, <2>1, <1>0 DEF x, IsInjective
    <3>6. ASSUME NEW a \in 1 .. l + 1 PROVE \E j \in 1 .. i + 1 : those[i + 1][a] = q[j]
      <4>1. CASE a = l + 1
        <5>1. those[i + 1][a] = q[i + 1]  BY <4>1, <3>1, <3>2 DEF x
        <5> QED  BY <5>1
      <4>2. CASE a # l + 1
        <5>1. a \in 1 .. l  BY <4>2, <3>2
        <5>2. PICK j \in 1 .. i : p[a] = q[j]  BY <5>1, <3>3
        <5>3. j \in 1 .. i + 1 /\ those[i + 1][a] = q[j]  BY <5>1, <5>2, <3>1, <3>2
        <5> QED  BY <5>3
      <4> QED  BY <4>1, <4>2
    <3>7. ASSUME NEW a \in 1 .. l + 1, NEW b \in 1 .. l + 1, those[i + 1][a] = those[i + 1][b]
          PROVE  a = b
      <4>1. a \in 1 .. l \/ a = l + 1  BY <3>2
      <4>2. b \in 1 .. l \/ b = l + 1  BY <3>2
      <4> QED  BY <4>1, <4>2, <3>1, <3>2, <3>4, <3>5, <3>7
    <3> QED  BY <3>1, <3>2, <3>6, <3>7
  <2> QED  BY <2>4, <2>5
<1> HIDE DEF N
<1>7. n \in N
  <2>1. \A i \in Nat : i \in N  BY <1>5, <1>6, NatIs
  <2> QED  BY <2>1, <1>0
<1>8. Good(n)  BY <1>0, <1>7 DEF N
<1> QED
  <2>1. DOMAIN those[n] = 1 .. Len(those[n])  BY <1>8, LenProperties
  <2> QED  BY <1>0, <1>1, <1>8, <2>1 DEF IsInjective, Range

LEMMA LinksLeft ==
  ASSUME NEW r, NEW id, Right(r, id, {}), NEW w \in Seq(Task), IsInjective(w),
         \A i \in 1 .. Len(w) : r.pnode[w[i]] = "node",
         NEW E, NEW after,
         after = CHOOSE f : f = [i \in 0 .. Len(w) |->
                                   IF i = 0 THEN r ELSE RemoveFromLink(f[i - 1], w[i])]
  PROVE  Right(after[Len(w)], id, {}) /\ Serves(r, after[Len(w)], E)
<1> DEFINE n == Len(w)
           Rec(m, f) == f = [i \in 0 .. m |->
                              IF i = 0 THEN r ELSE RemoveFromLink(f[i - 1], w[i])]
<1>0. /\ n \in Nat /\ DOMAIN w = 1 .. n /\ \A i \in 1 .. n : w[i] \in Task
      /\ r.k \in Kernel /\ r.pnode \in [Task -> {"null", "node", "set"}]
  BY LenProperties, ElementOfSeq DEF Right, Shape
<1>1. after = CHOOSE f : Rec(n, f)
  OBVIOUS
<1> HIDE DEF n
<1>2. \A m \in Nat : \E f : Rec(m, f)
  <2> DEFINE N == {m \in Nat : \E f : Rec(m, f)}
  <2>1. 0 \in N
    <3>1. Rec(0, [i \in 0 .. 0 |-> r])  OBVIOUS
    <3> QED  BY <3>1
  <2>2. ASSUME NEW m \in Nat, m \in N PROVE m + 1 \in N
    <3>1. PICK f : Rec(m, f)  BY <2>2
    <3> DEFINE g == [i \in 0 .. m + 1 |-> IF i = m + 1 THEN RemoveFromLink(f[m], w[m + 1])
                                                       ELSE f[i]]
    <3>2. \A i \in 0 .. m + 1 : g[i] = IF i = 0 THEN r ELSE RemoveFromLink(g[i - 1], w[i])
      <4> TAKE i \in 0 .. m + 1
      <4>1. CASE i = m + 1
        BY <4>1
      <4>2. CASE i # m + 1
        <5>1. i \in 0 .. m /\ (i # 0 => i - 1 \in 0 .. m /\ i - 1 # m + 1)  BY <4>2
        <5> QED  BY <3>1, <4>2, <5>1
      <4> QED  BY <4>1, <4>2
    <3>3. g = [i \in 0 .. m + 1 |-> g[i]]
      OBVIOUS
    <3> HIDE DEF g
    <3>4. Rec(m + 1, g)
      BY <3>2, <3>3
    <3> QED  BY <3>4
  <2> HIDE DEF N
  <2>3. \A m \in Nat : m \in N  BY <2>1, <2>2, NatIs
  <2> QED  BY <2>3 DEF N
<1>3. Rec(n, after)
  <2> HIDE DEF Rec
  <2> QED  BY <1>0, <1>1, <1>2
<1>4. after[0] = r /\ \A i \in 1 .. n : after[i] = RemoveFromLink(after[i - 1], w[i])
  <2>1. n \in Nat  BY <1>0
  <2>2. \A i \in 0 .. n : after[i] = IF i = 0 THEN r ELSE RemoveFromLink(after[i - 1], w[i])
    BY <1>3
  <2> HIDE DEF Rec
  <2>3. 0 \in 0 .. n /\ \A i \in 1 .. n : i \in 0 .. n /\ i # 0  BY <2>1
  <2> QED  BY <2>2, <2>3
<1>5. \A i \in 1 .. n : r.pnode[w[i]] = "node"
  BY DEF n
<1> HIDE DEF Rec
<1> DEFINE Good(i) == /\ Right(after[i], id, {}) /\ Serves(r, after[i], E)
                      /\ \A j \in i + 1 .. n : after[i].pnode[w[j]] = "node"
           N == {i \in Nat : i <= n => Good(i)}
<1>6. 0 \in N
  <2>1. \A j \in 0 + 1 .. n : j \in 1 .. n  BY <1>0
  <2>2. Right(after[0], id, {}) /\ Serves(r, after[0], E)  BY <1>0, <1>4, ServesNone
  <2>3. Good(0)  BY <2>1, <2>2, <1>4, <1>5
  <2> QED  BY <2>3
<1>7. ASSUME NEW i \in Nat, i \in N PROVE i + 1 \in N
  <2> HIDE DEF Good
  <2>0. SUFFICES ASSUME i + 1 <= n PROVE Good(i + 1)
    OBVIOUS
  <2> USE DEF Good
  <2> DEFINE j0 == i + 1
             x == w[i + 1]
             p == after[i]
  <2>1. j0 \in 1 .. n /\ j0 - 1 = i /\ i <= n
    BY <1>0, <2>0
  <2>2. /\ Right(p, id, {}) /\ Serves(r, p, E)
        /\ \A j \in j0 .. n : p.pnode[w[j]] = "node"
    BY <1>7, <2>1 DEF N
  <2>3. after[j0] = RemoveFromLink(p, x)  BY <2>1, <1>4
  <2> HIDE DEF Good, N, p
  <2>4. x \in Task /\ p.pnode[x] = "node"
    <3>1. j0 \in j0 .. n  BY <2>1, <1>0
    <3> QED  BY <3>1, <2>1, <2>2, <1>0
  <2> DEFINE y == after[j0]
  <2> HIDE DEF x, y
  <2>5. /\ Right(y, id, {}) /\ Serves(p, y, E)
        /\ y.pnode = [p.pnode EXCEPT ![x] = "set"]
    BY <2>2, <2>3, <2>4, LinkLeft DEF y
  <2>6. Serves(r, y, E)  BY <2>2, <2>5, ServesAgain
  <2>7. ASSUME NEW j \in j0 + 1 .. n PROVE y.pnode[w[j]] = "node"
    <3>1. j \in 1 .. n /\ j \in j0 .. n /\ j # j0  BY <1>0
    <3> HIDE DEF j0
    <3>2. w[j] # w[j0]  BY <3>1, <2>1, <1>0 DEF IsInjective
    <3>3. DOMAIN p.pnode = Task  BY <2>2 DEF Right, Shape
    <3>4. w[j] \in Task /\ p.pnode[w[j]] = "node"  BY <3>1, <2>2, <1>0
    <3>5. x = w[j0]  BY DEF x, j0
    <3> QED  BY <3>2, <3>3, <3>4, <3>5, <2>5
  <2> QED  BY <2>5, <2>6, <2>7 DEF Good, y
<1> HIDE DEF N
<1>8. n \in N
  <2>1. \A i \in Nat : i \in N  BY <1>6, <1>7, NatIs
  <2> QED  BY <2>1, <1>0
<1> QED  BY <1>0, <1>8 DEF N, n

(* The waiters that Those() takes out of the list wait.                    *)
AllWait(r, w) ==
  w \in Seq(Task) /\ IsInjective(w) /\ \A i \in 1 .. Len(w) : r.pnode[w[i]] = "node"

LEMMA ThoseWait ==
  ASSUME NEW r, NEW id, Right(r, id, {}), NEW S
  PROVE  AllWait(r, Those(r.nodes, S))
<1> DEFINE w == Those(r.nodes, S)
<1> HIDE DEF w
<1>1. r.nodes \in Seq(Task) /\ Lists(r.nodes, {u \in Task : r.pnode[u] = "node"})
  BY DEF Right, Shape, NodesRight
<1>2. IsInjective(r.nodes)  BY <1>1 DEF Lists
<1>3. w \in Seq(Task) /\ IsInjective(w) /\ Range(w) \subseteq Range(r.nodes)
  BY <1>1, <1>2, ThoseFacts DEF w
<1>4. ASSUME NEW i \in 1 .. Len(w) PROVE r.pnode[w[i]] = "node"
  <2>1. w[i] \in Task /\ w[i] \in Range(w)
    BY <1>3, LenProperties, ElementOfSeq DEF Range
  <2> QED  BY <2>1, <1>1, <1>3 DEF Lists
<1> QED  BY <1>3, <1>4 DEF AllWait, w

LEMMA SatisfiedWoken ==
  ASSUME NEW r, NEW id, Right(r, id, {}), NEW f, NEW E, NEW r2, r2 = WakeSatisfied(r, f)
  PROVE  Right(r2, id, {}) /\ Serves(r, r2, E)
<1> DEFINE ready == Those(r.nodes, {t \in Task : Satisfied(r, t)})
           woken == IF f \in r.resetOpt /\ ready # <<>> THEN <<Head(ready)>> ELSE ready
           after == CHOOSE g : g = [i \in 0 .. Len(woken) |->
                                      IF i = 0 THEN r ELSE RemoveFromLink(g[i - 1], woken[i])]
<1>1. r2 = after[Len(woken)]
  BY DEF WakeSatisfied
<1>2. /\ ready \in Seq(Task) /\ IsInjective(ready)
      /\ \A i \in 1 .. Len(ready) : r.pnode[ready[i]] = "node"
  <2> DEFINE S == {t \in Task : Satisfied(r, t)}
             w == ready
  <2>1. w = Those(r.nodes, S)  OBVIOUS
  <2> HIDE DEF S, w
  <2>2. AllWait(r, Those(r.nodes, S))
    BY ThoseWait
  <2> QED  BY <2>1, <2>2 DEF w, AllWait
<1> HIDE DEF ready
<1>3. /\ woken \in Seq(Task) /\ IsInjective(woken)
      /\ \A i \in 1 .. Len(woken) : r.pnode[woken[i]] = "node"
  <2>1. CASE f \in r.resetOpt /\ ready # <<>>
    <3>1. Len(ready) \in Nat /\ 1 \in 1 .. Len(ready)
      BY <1>2, <2>1, LenProperties, EmptySeq
    <3>2. Head(ready) = ready[1] /\ ready[1] \in Task
      BY <1>2, <2>1, <3>1, HeadTailProperties, ElementOfSeq
    <3> DEFINE x == Head(ready)
    <3>3. woken = <<x>> /\ x \in Task /\ r.pnode[x] = "node"
      BY <1>2, <2>1, <3>1, <3>2
    <3> HIDE DEF woken, x
    <3>4. woken \in Seq(Task) /\ Len(woken) = 1 /\ DOMAIN woken = {1} /\ woken[1] = x
      BY <3>3
    <3> QED  BY <3>3, <3>4 DEF IsInjective
  <2>2. CASE ~(f \in r.resetOpt /\ ready # <<>>)
    <3>1. woken = ready  BY <2>2
    <3> QED  BY <3>1, <1>2
  <2> QED  BY <2>1, <2>2
<1> HIDE DEF woken
<1>4. Right(after[Len(woken)], id, {}) /\ Serves(r, after[Len(woken)], E)
  BY <1>3, LinksLeft
<1> QED  BY <1>1, <1>4

LEMMA FlagSet ==
  ASSUME NEW r, NEW id, Right(r, id, {}), NEW f, NEW E, NEW r2, r2 = SetFlag(r, f)
  PROVE  Right(r2, id, {}) /\ Serves(r, r2, E)
<1>0. r.k \in Kernel /\ DOMAIN r = Fields  BY DEF Right, Shape
<1>1. CASE f \notin r.flagActive \/ f \in r.flagRdy
  <2>1. r2 = r  BY <1>1 DEF SetFlag
  <2> QED  BY <2>1, <1>0, ServesNone
<1>2. CASE ~(f \notin r.flagActive \/ f \in r.flagRdy)
  <2> DEFINE r1 == [r EXCEPT !.flagRdy = r.flagRdy \cup {f}]
  <2>1. r2 = WakeSatisfied(r1, f)  BY <1>2 DEF SetFlag
  <2>2. Only(r, r1, {"flagRdy"})  BY <1>0 DEF Only, Fields
  <2> HIDE DEF r1
  <2>3. Only(r, r1, Aside) /\ Only(r, r1, Aside \cup {"TmrTbl", "TmrList"})
    BY <2>2 DEF Only, Aside
  <2>4. Right(r1, id, {}) /\ Serves(r, r1, E)
    BY <2>3, AsideOnly, ServesAside
  <2>5. Right(r2, id, {}) /\ Serves(r1, r2, E)
    BY <2>1, <2>4, SatisfiedWoken, SMTT(30)
  <2> QED  BY <2>4, <2>5, ServesAgain
<1> QED  BY <1>1, <1>2

-----------------------------------------------------------------------------
(* Flags are deleted.                                                      *)
LEMMA FlagDeleted ==
  ASSUME NEW r, NEW id, Right(r, id, {}), NEW f, NEW E, NEW r2, r2 = Deleted(r, f)
  PROVE  Right(r2, id, {}) /\ Serves(r, r2, E)
<1> DEFINE S == {t \in Task : f \in r.waitFlags[t]
                                /\ (r.waitType[t] # "all" \/ r.waitFlags[t] = {f})}
           woken == Those(r.nodes, S)
           after == CHOOSE g : g = [i \in 0 .. Len(woken) |->
                                      IF i = 0 THEN r ELSE RemoveFromLink(g[i - 1], woken[i])]
           a == after[Len(woken)]
           w2 == [t \in Task |-> IF t \in Range(r.nodes) \ Range(woken)
                                 THEN a.waitFlags[t] \ {f} ELSE a.waitFlags[t]]
<1>1. r2 = [a EXCEPT !.waitFlags = w2, !.flagActive = a.flagActive \ {f},
                     !.flagRdy = a.flagRdy \ {f}, !.resetOpt = a.resetOpt \ {f}]
  BY DEF Deleted
<1>2. AllWait(r, woken)
  <2> HIDE DEF S
  <2> QED  BY ThoseWait
<1> HIDE DEF S, woken
<1>3. Right(a, id, {}) /\ Serves(r, a, E)
  <2>1. /\ woken \in Seq(Task) /\ IsInjective(woken)
        /\ \A i \in 1 .. Len(woken) : r.pnode[woken[i]] = "node"
    BY <1>2 DEF AllWait
  <2> QED  BY <2>1, LinksLeft
<1> HIDE DEF w2, a, after
<1>4. Only(a, r2, {"waitFlags", "flagActive", "flagRdy", "resetOpt"})
  BY <1>1, <1>3 DEF Only, Fields, Right, Shape
<1>5. Only(a, r2, Aside) /\ Only(a, r2, Aside \cup {"TmrTbl", "TmrList"})
  BY <1>4 DEF Only, Aside
<1>6. Right(r2, id, {}) /\ Serves(a, r2, E)
  BY <1>3, <1>5, AsideOnly, ServesAside
<1> QED  BY <1>3, <1>6, ServesAgain

-----------------------------------------------------------------------------
(* The timers.                                                             *)
Timed(r) ==
  /\ DOMAIN r = Fields
  /\ r.TmrTbl \in [Timer -> TmrCtrl] /\ r.TmrList \in Timer \cup {NoTimer}

TimersMoved(r, r2) ==
  /\ Only(r, r2, {"TmrTbl", "TmrList"}) /\ Timed(r2)
  /\ \A i \in Timer : r2.TmrTbl[i].tmrCallBack = r.TmrTbl[i].tmrCallBack

LEMMA TimersMovedAgain ==
  ASSUME NEW r, NEW r2, NEW r3, TimersMoved(r, r2), TimersMoved(r2, r3)
  PROVE  TimersMoved(r, r3)
<1>1. Only(r, r3, {"TmrTbl", "TmrList"})
  BY DEF TimersMoved, Only
<1> QED  BY <1>1 DEF TimersMoved

LEMMA TimersMovedRight ==
  ASSUME NEW r, NEW r2, NEW id, NEW X, NEW E, Right(r, id, X), TimersMoved(r, r2)
  PROVE  Right(r2, id, X) /\ Serves(r, r2, E)
<1>1. Only(r, r2, Aside \cup {"cell", "cnt", "head", "TmrTbl", "TmrList"})
  BY DEF TimersMoved, Only
<1>2. r2.app = r.app /\ r2.head = r.head /\ r2.cnt = r.cnt /\ r2.cell = r.cell
  BY DEF TimersMoved, Only, Fields
<1>3. RequestsRight(r2) /\ DOMAIN r2.cell = Cells
  BY <1>2 DEF Right, Shape, RequestsRight
<1>4. CallBacksRight(r2)
  BY <1>2 DEF Right, CallBacksRight, TimersMoved
<1>5. r2.TmrTbl \in [Timer -> TmrCtrl] /\ r2.TmrList \in Timer \cup {NoTimer}
  BY DEF TimersMoved, Timed
<1>6. Right(r2, id, X)
  BY <1>1, <1>3, <1>4, <1>5, AsideRight
<1>7. Serves(r, r2, E)
  <2>1. Only(r, r2, Aside \cup {"TmrTbl", "TmrList"})
    BY DEF TimersMoved, Only
  <2> QED  BY <2>1, ServesAside
<1> QED  BY <1>6, <1>7

LEMMA RightTimed ==
  ASSUME NEW r, NEW id, NEW X, Right(r, id, X)
  PROVE  Timed(r)
BY DEF Right, Shape, Timed

TimerSeq(q) == Len(q) \in Nat /\ \A i \in 1 .. Len(q) : q[i] \in Timer

LEMMA TimersFacts ==
  ASSUME NEW r, Timed(r)
  PROVE  TimerSeq(Timers(r))
<1> DEFINE Next2(g, i) == IF i = 1 THEN r.TmrList
                          ELSE IF g[i - 1] = NoTimer THEN NoTimer
                          ELSE r.TmrTbl[g[i - 1]].tmrNext
           Rec(m, g) == g = [i \in 1 .. m + 1 |-> Next2(g, i)]
           at == CHOOSE g : Rec(MaxTimer, g)
           Ends(i) == /\ \A j \in 1 .. i : at[j] # NoTimer
                      /\ i = MaxTimer \/ at[i + 1] = NoTimer
           n == CHOOSE i \in 0 .. MaxTimer : Ends(i)
<1>1. Timers(r) = [i \in 1 .. n |-> at[i]]
  BY DEF Timers
<1>2. \A m \in Nat : \E g : Rec(m, g)
  <2> DEFINE N == {m \in Nat : \E g : Rec(m, g)}
  <2>1. 0 \in N
    <3> DEFINE g == [i \in 1 .. 0 + 1 |-> r.TmrList]
    <3>1. \A i \in 1 .. 0 + 1 : g[i] = Next2(g, i)  OBVIOUS
    <3>2. g = [i \in 1 .. 0 + 1 |-> g[i]]  OBVIOUS
    <3> HIDE DEF g, Next2
    <3>3. Rec(0, g)  BY <3>1, <3>2
    <3> QED  BY <3>3
  <2>2. ASSUME NEW m \in Nat, m \in N PROVE m + 1 \in N
    <3>1. PICK f : Rec(m, f)  BY <2>2
    <3> DEFINE v == Next2(f, m + 2)
               g == [i \in 1 .. (m + 1) + 1 |-> IF i = m + 2 THEN v ELSE f[i]]
    <3>2. \A i \in 1 .. m + 2 : g[i] = IF i = m + 2 THEN v ELSE f[i]
      OBVIOUS
    <3>3. \A i \in 1 .. m + 1 : f[i] = Next2(f, i)
      <4> HIDE DEF Next2
      <4> QED  BY <3>1
    <3>4. v = Next2(f, m + 2)  OBVIOUS
    <3>5. g = [i \in 1 .. (m + 1) + 1 |-> g[i]]
      OBVIOUS
    <3>6. \A i \in 1 .. m + 2 : g[i] = Next2(g, i)
      <4> HIDE DEF g, v, Rec
      <4> TAKE i \in 1 .. m + 2
      <4>1. i = 1 \/ g[i - 1] = f[i - 1]
        <5>1. CASE i = 1  BY <5>1
        <5>2. CASE i # 1
          <6>1. i - 1 \in 1 .. m + 2 /\ i - 1 # m + 2  BY <5>2
          <6> QED  BY <6>1, <3>2
        <5> QED  BY <5>1, <5>2
      <4>2. Next2(g, i) = Next2(f, i)  BY <4>1
      <4> HIDE DEF Next2
      <4>3. CASE i = m + 2  BY <4>2, <4>3, <3>2, <3>4
      <4>4. CASE i # m + 2
        <5>1. i \in 1 .. m + 1  BY <4>4
        <5> QED  BY <5>1, <4>2, <4>4, <3>2, <3>3
      <4> QED  BY <4>3, <4>4
    <3> HIDE DEF g, Next2
    <3>7. (m + 1) + 1 = m + 2  OBVIOUS
    <3>8. Rec(m + 1, g)
      BY <3>5, <3>6, <3>7
    <3> QED  BY <3>8
  <2> HIDE DEF N
  <2>3. \A m \in Nat : m \in N  BY <2>1, <2>2, NatIs
  <2> QED  BY <2>3 DEF N
<1>3. Rec(MaxTimer, at)
  <2> HIDE DEF Rec
  <2>1. MaxTimer \in Nat  BY EventAssumption
  <2> QED  BY <2>1, <1>2
<1>4. \A i \in 1 .. MaxTimer + 1 : at[i] = Next2(at, i)
  <2> HIDE DEF at, Next2
  <2> QED  BY <1>3
<1> HIDE DEF at, Rec
<1> DEFINE N == {i \in Nat : i + 1 <= MaxTimer + 1 => at[i + 1] \in Timer \cup {NoTimer}}
<1>5. 0 \in N
  <2>1. 1 \in 1 .. MaxTimer + 1 /\ 0 + 1 = 1  BY EventAssumption
  <2>2. at[1] = r.TmrList  BY <2>1, <1>4
  <2> QED  BY <2>1, <2>2 DEF Timed
<1>6. ASSUME NEW i \in Nat, i \in N PROVE i + 1 \in N
  <2> DEFINE x == at[i + 1]
  <2>1. CASE (i + 1) + 1 <= MaxTimer + 1
    <3>1. (i + 1) + 1 \in 1 .. MaxTimer + 1 /\ ((i + 1) + 1) - 1 = i + 1 /\ (i + 1) + 1 # 1
          /\ i + 1 <= MaxTimer + 1
      BY <2>1, EventAssumption
    <3>2. x \in Timer \cup {NoTimer}  BY <1>6, <3>1
    <3>3. at[(i + 1) + 1] = IF x = NoTimer THEN NoTimer ELSE r.TmrTbl[x].tmrNext
      BY <3>1, <1>4
    <3> HIDE DEF x
    <3>4. at[(i + 1) + 1] \in Timer \cup {NoTimer}
      BY <3>2, <3>3 DEF Timed, TmrCtrl
    <3> QED  BY <3>4
  <2>2. CASE ~((i + 1) + 1 <= MaxTimer + 1)
    BY <2>2
  <2> QED  BY <2>1, <2>2
<1> HIDE DEF N
<1>7. \A i \in 1 .. MaxTimer + 1 : at[i] \in Timer \cup {NoTimer}
  <2>1. \A i \in Nat : i \in N  BY <1>5, <1>6, NatIs
  <2> TAKE i \in 1 .. MaxTimer + 1
  <2>2. i - 1 \in Nat /\ (i - 1) + 1 = i /\ i <= MaxTimer + 1  BY EventAssumption
  <2>3. i - 1 \in N  BY <2>1, <2>2
  <2> QED  BY <2>2, <2>3 DEF N
<1>8. n \in 0 .. MaxTimer /\ Ends(n)
  <2> DEFINE B == {i \in Nat : i = MaxTimer \/ (i < MaxTimer /\ at[i + 1] = NoTimer)}
  <2>1. MaxTimer \in B /\ B \in SUBSET Nat  BY EventAssumption
  <2>2. PICK m \in B : \A i \in B : m <= i  BY <2>1, LeastNat
  <2>3. m \in 0 .. MaxTimer  BY <2>1, <2>2, EventAssumption
  <2>4. ASSUME NEW j \in 1 .. m PROVE at[j] # NoTimer
    <3>1. j - 1 \in Nat /\ j - 1 < m /\ j - 1 < MaxTimer /\ (j - 1) + 1 = j
      BY <2>3, EventAssumption
    <3>2. j - 1 \notin B  BY <3>1, <2>2, <2>3
    <3> QED  BY <3>1, <3>2
  <2>5. Ends(m)  BY <2>2, <2>3, <2>4
  <2> HIDE DEF Ends
  <2>6. \E i \in 0 .. MaxTimer : Ends(i)  BY <2>3, <2>5
  <2> QED  BY <2>6
<1>9. \A j \in 1 .. n : at[j] # NoTimer /\ at[j] \in Timer \cup {NoTimer}
  <2>1. \A j \in 1 .. n : at[j] # NoTimer
    <3> HIDE DEF n
    <3> QED  BY <1>8
  <2>2. n \in 0 .. MaxTimer  BY <1>8
  <2> HIDE DEF n
  <2>3. \A j \in 1 .. n : j \in 1 .. MaxTimer + 1  BY <2>2, EventAssumption
  <2> QED  BY <2>1, <2>3, <1>7
<1>10. n \in Nat  BY <1>8, EventAssumption
<1> HIDE DEF n
<1> DEFINE q == [i \in 1 .. n |-> at[i]]
<1>11. Len(q) = n /\ \A i \in 1 .. n : q[i] = at[i]
  BY <1>10
<1>12. TimerSeq(q)
  BY <1>9, <1>10, <1>11 DEF TimerSeq
<1> QED  BY <1>1, <1>12

(* The ticks until each timer of the list expires are numbers.             *)
LEMMA TimerDueFacts ==
  ASSUME NEW r, Timed(r)
  PROVE  \A i \in 0 .. Len(Timers(r)) : TimerDue(r)[i] \in Int
<1> DEFINE list == Timers(r)
           n == Len(list)
           Next2(g, i) == IF i = 0 THEN 0 ELSE g[i - 1] + r.TmrTbl[list[i]].tmrCnt
           Rec(m, g) == g = [i \in 0 .. m |-> Next2(g, i)]
           due == CHOOSE g : Rec(n, g)
<1>1. TimerDue(r) = due
  BY DEF TimerDue
<1>2. n \in Nat /\ \A i \in 1 .. n : list[i] \in Timer
  BY TimersFacts DEF TimerSeq
<1> HIDE DEF n, list
<1>3. \A m \in Nat : \E g : Rec(m, g)
  <2> DEFINE N == {m \in Nat : \E g : Rec(m, g)}
  <2>1. 0 \in N
    <3> DEFINE g == [i \in 0 .. 0 |-> 0]
    <3>1. \A i \in 0 .. 0 : g[i] = Next2(g, i)  OBVIOUS
    <3>2. g = [i \in 0 .. 0 |-> g[i]]  OBVIOUS
    <3> HIDE DEF g, Next2
    <3>3. Rec(0, g)  BY <3>1, <3>2
    <3> QED  BY <3>3
  <2>2. ASSUME NEW m \in Nat, m \in N PROVE m + 1 \in N
    <3>1. PICK f : Rec(m, f)  BY <2>2
    <3> DEFINE v == Next2(f, m + 1)
               g == [i \in 0 .. m + 1 |-> IF i = m + 1 THEN v ELSE f[i]]
    <3>2. \A i \in 0 .. m + 1 : g[i] = IF i = m + 1 THEN v ELSE f[i]
      OBVIOUS
    <3>3. \A i \in 0 .. m : f[i] = Next2(f, i)
      <4> HIDE DEF Next2
      <4> QED  BY <3>1
    <3>4. v = Next2(f, m + 1)  OBVIOUS
    <3>5. g = [i \in 0 .. m + 1 |-> g[i]]
      OBVIOUS
    <3>6. \A i \in 0 .. m + 1 : g[i] = Next2(g, i)
      <4> HIDE DEF g, v, Rec
      <4> TAKE i \in 0 .. m + 1
      <4>1. i = 0 \/ g[i - 1] = f[i - 1]
        <5>1. CASE i = 0  BY <5>1
        <5>2. CASE i # 0
          <6>1. i - 1 \in 0 .. m + 1 /\ i - 1 # m + 1  BY <5>2
          <6> QED  BY <6>1, <3>2
        <5> QED  BY <5>1, <5>2
      <4>2. Next2(g, i) = Next2(f, i)  BY <4>1
      <4> HIDE DEF Next2
      <4>3. CASE i = m + 1  BY <4>2, <4>3, <3>2, <3>4
      <4>4. CASE i # m + 1
        <5>1. i \in 0 .. m  BY <4>4
        <5> QED  BY <5>1, <4>2, <4>4, <3>2, <3>3
      <4> QED  BY <4>3, <4>4
    <3> HIDE DEF g, Next2
    <3>7. Rec(m + 1, g)
      BY <3>5, <3>6
    <3> QED  BY <3>7
  <2> HIDE DEF N
  <2>3. \A m \in Nat : m \in N  BY <2>1, <2>2, NatIs
  <2> QED  BY <2>3 DEF N
<1>4. Rec(n, due)
  <2> HIDE DEF Rec
  <2> QED  BY <1>2, <1>3
<1>5. \A i \in 0 .. n : due[i] = Next2(due, i)
  <2> HIDE DEF due, Next2
  <2> QED  BY <1>4
<1> HIDE DEF due, Rec
<1> DEFINE N == {i \in Nat : i <= n => due[i] \in Int}
<1>6. 0 \in N
  BY <1>2, <1>5
<1>7. ASSUME NEW i \in Nat, i \in N PROVE i + 1 \in N
  <2>1. CASE i + 1 <= n
    <3>1. i + 1 \in 0 .. n /\ i + 1 # 0 /\ (i + 1) - 1 = i /\ i <= n /\ i + 1 \in 1 .. n
      BY <2>1, <1>2
    <3>2. due[i] \in Int  BY <1>7, <3>1
    <3>3. due[i + 1] = due[i] + r.TmrTbl[list[i + 1]].tmrCnt
      BY <3>1, <1>5
    <3>4. r.TmrTbl[list[i + 1]].tmrCnt \in Int
      BY <3>1, <1>2 DEF Timed, TmrCtrl
    <3>5. due[i + 1] \in Int  BY <3>2, <3>3, <3>4
    <3> QED  BY <3>5
  <2>2. CASE ~(i + 1 <= n)
    BY <2>2
  <2> QED  BY <2>1, <2>2
<1> HIDE DEF N
<1>8. \A i \in Nat : i \in N  BY <1>6, <1>7, NatIs
<1>9. \A i \in 0 .. n : due[i] \in Int
  <2> TAKE i \in 0 .. n
  <2>1. i \in Nat /\ i <= n  BY <1>2
  <2> QED  BY <2>1, <1>8 DEF N
<1> QED  BY <1>1, <1>9 DEF n, list

LEMMA TimerInserted ==
  ASSUME NEW r, Timed(r), NEW t \in Timer, NEW r2, r2 = InsertTmrList(r, t)
  PROVE  TimersMoved(r, r2)
<1> DEFINE list == Timers(r)
           due  == TimerDue(r)
           n    == Len(list)
           cnt  == r.TmrTbl[t].tmrCnt
           At2(j) == /\ \A l \in 1 .. j - 1 : due[l] <= cnt
                     /\ j <= n => cnt < due[j]
           i    == CHOOSE j \in 1 .. n + 1 : At2(j)
           mine == cnt - due[i - 1]
           prev == IF i = 1 THEN NoTimer ELSE list[i - 1]
           next == IF i > n THEN NoTimer ELSE list[i]
           tbl  == [u \in Timer |->
               CASE u = t -> [r.TmrTbl[u] EXCEPT
                                !.tmrCnt  = mine,
                                !.tmrPrev = IF i = 1 THEN r.TmrTbl[u].tmrPrev ELSE prev,
                                !.tmrNext = IF next = NoTimer THEN r.TmrTbl[u].tmrNext ELSE next]
                 [] u = prev -> [r.TmrTbl[u] EXCEPT !.tmrNext = t]
                 [] u = next -> [r.TmrTbl[u] EXCEPT !.tmrPrev = t,
                                                    !.tmrCnt = r.TmrTbl[u].tmrCnt - mine]
                 [] OTHER -> r.TmrTbl[u]]
           first == IF i = 1 THEN t ELSE r.TmrList
<1>1. r2 = IF cnt = 0 THEN r ELSE [r EXCEPT !.TmrList = first, !.TmrTbl = tbl]
  BY DEF InsertTmrList
<1>2. /\ n \in Nat /\ \A j \in 1 .. n : list[j] \in Timer
      /\ \A j \in 0 .. n : due[j] \in Int
  BY TimersFacts, TimerDueFacts DEF TimerSeq
<1>3. r.TmrTbl \in [Timer -> TmrCtrl] /\ cnt \in Int /\ DOMAIN r = Fields
      /\ r.TmrList \in Timer \cup {NoTimer}
  BY DEF Timed, TmrCtrl
<1> HIDE DEF n, list, due, cnt
<1>4. i \in 1 .. n + 1
  <2> DEFINE B == {j \in Nat : j = n \/ (j < n /\ cnt < due[j + 1])}
  <2>1. n \in B /\ B \in SUBSET Nat  BY <1>2
  <2>2. PICK m \in B : \A j \in B : m <= j  BY <2>1, LeastNat
  <2>3. m \in 0 .. n  BY <2>1, <2>2, <1>2
  <2>4. ASSUME NEW l \in 1 .. m PROVE due[l] <= cnt
    <3>1. l - 1 \in Nat /\ l - 1 < m /\ l - 1 < n /\ (l - 1) + 1 = l /\ l \in 0 .. n
      BY <2>3, <1>2
    <3>2. l - 1 \notin B  BY <3>1, <2>2, <2>3
    <3>3. ~(cnt < due[l])  BY <3>1, <3>2
    <3> QED  BY <3>1, <3>3, <1>2, <1>3
  <2>5. At2(m + 1)
    <3>1. (m + 1) - 1 = m /\ (m + 1 <= n => m < n /\ m # n)  BY <2>3, <1>2
    <3> QED  BY <2>2, <2>4, <3>1
  <2>6. m + 1 \in 1 .. n + 1  BY <2>3, <1>2
  <2> HIDE DEF At2
  <2>7. \E j \in 1 .. n + 1 : At2(j)  BY <2>5, <2>6
  <2> QED  BY <2>7
<1> HIDE DEF i
<1>5. mine \in Int
  <2>1. i - 1 \in 0 .. n  BY <1>4, <1>2
  <2> QED  BY <2>1, <1>2, <1>3
<1>6. prev \in Timer \cup {NoTimer}
  <2>1. i # 1 => i - 1 \in 1 .. n  BY <1>4, <1>2
  <2> QED  BY <2>1, <1>2
<1>7. next \in Timer \cup {NoTimer}
  <2>1. ~(i > n) => i \in 1 .. n  BY <1>4, <1>2
  <2> QED  BY <2>1, <1>2
<1> HIDE DEF mine, prev, next
<1>8. ASSUME NEW u \in Timer
      PROVE  tbl[u] \in TmrCtrl /\ tbl[u].tmrCallBack = r.TmrTbl[u].tmrCallBack
  <2> DEFINE x == r.TmrTbl[u]
             y == tbl[u]
  <2>1. x \in TmrCtrl  BY <1>3
  <2>2. y = CASE u = t -> [x EXCEPT !.tmrCnt  = mine,
                                    !.tmrPrev = IF i = 1 THEN x.tmrPrev ELSE prev,
                                    !.tmrNext = IF next = NoTimer THEN x.tmrNext ELSE next]
              [] u = prev -> [x EXCEPT !.tmrNext = t]
              [] u = next -> [x EXCEPT !.tmrPrev = t, !.tmrCnt = x.tmrCnt - mine]
              [] OTHER -> x
    OBVIOUS
  <2> HIDE DEF x, y, tbl
  <2>a. t # NoTimer /\ x.tmrCnt - mine \in Int
    BY <2>1, <1>5, EventAssumption DEF Timer, NoTimer, TmrCtrl
  <2>3. CASE u = t
    <3>1. y = [x EXCEPT !.tmrCnt  = mine,
                        !.tmrPrev = IF i = 1 THEN x.tmrPrev ELSE prev,
                        !.tmrNext = IF next = NoTimer THEN x.tmrNext ELSE next]
          \/ u = prev \/ u = next
      BY <2>2, <2>3
    <3> QED  BY <2>1, <2>2, <2>3, <2>a, <1>5, <1>6, <1>7 DEF TmrCtrl, x, y
  <2>4. CASE u # t
    <3>1. y \in {[x EXCEPT !.tmrNext = t],
                 [x EXCEPT !.tmrPrev = t, !.tmrCnt = x.tmrCnt - mine], x}
      BY <2>2, <2>4
    <3> QED  BY <2>1, <2>a, <3>1 DEF TmrCtrl, x, y
  <2> QED  BY <2>3, <2>4
<1>9. tbl \in [Timer -> TmrCtrl]
  <2>1. tbl = [u \in Timer |-> tbl[u]]  OBVIOUS
  <2> HIDE DEF tbl
  <2> QED  BY <2>1, <1>8
<1>10. first \in Timer \cup {NoTimer}  BY <1>3
<1> HIDE DEF tbl, first
<1>11. CASE cnt = 0
  <2>1. r2 = r  BY <1>1, <1>11
  <2> QED  BY <2>1 DEF TimersMoved, Only, Timed
<1>12. CASE cnt # 0
  <2>1. r2.TmrList = first /\ r2.TmrTbl = tbl /\ Only(r, r2, {"TmrTbl", "TmrList"})
    BY <1>1, <1>3, <1>12 DEF Only, Fields
  <2>2. DOMAIN r2 = Fields  BY <2>1 DEF Only
  <2> QED  BY <2>1, <2>2, <1>8, <1>9, <1>10 DEF TimersMoved, Timed
<1> QED  BY <1>11, <1>12

LEMMA TimerRemoved ==
  ASSUME NEW r, Timed(r), NEW t \in Timer, NEW r2, r2 = RemoveTmrList(r, t)
  PROVE  TimersMoved(r, r2)
<1> DEFINE next == r.TmrTbl[t].tmrNext
           prev == r.TmrTbl[t].tmrPrev
           first == IF prev = NoTimer THEN next ELSE r.TmrList
           tbl == [u \in Timer |->
             CASE u = t    -> [r.TmrTbl[u] EXCEPT !.tmrNext = NoTimer, !.tmrPrev = NoTimer]
               [] u = prev -> [r.TmrTbl[u] EXCEPT !.tmrNext = next]
               [] u = next -> [r.TmrTbl[u] EXCEPT !.tmrPrev = prev,
                                           !.tmrCnt  = r.TmrTbl[u].tmrCnt + r.TmrTbl[t].tmrCnt]
               [] OTHER -> r.TmrTbl[u]]
<1>1. r2 = [r EXCEPT !.TmrList = first, !.TmrTbl = tbl]
  BY DEF RemoveTmrList
<1>2. /\ r.TmrTbl \in [Timer -> TmrCtrl] /\ DOMAIN r = Fields
      /\ r.TmrList \in Timer \cup {NoTimer}
      /\ next \in Timer \cup {NoTimer} /\ prev \in Timer \cup {NoTimer}
      /\ r.TmrTbl[t].tmrCnt \in Int
  BY DEF Timed, TmrCtrl
<1> HIDE DEF next, prev
<1>3. ASSUME NEW u \in Timer
      PROVE  tbl[u] \in TmrCtrl /\ tbl[u].tmrCallBack = r.TmrTbl[u].tmrCallBack
  <2> DEFINE x == r.TmrTbl[u]
             y == tbl[u]
             c == x.tmrCnt + r.TmrTbl[t].tmrCnt
  <2>1. x \in TmrCtrl  BY <1>2
  <2>2. y \in {[x EXCEPT !.tmrNext = NoTimer, !.tmrPrev = NoTimer],
               [x EXCEPT !.tmrNext = next],
               [x EXCEPT !.tmrPrev = prev, !.tmrCnt = c], x}
    OBVIOUS
  <2> HIDE DEF y, tbl
  <2>3. c \in Int
    BY <2>1, <1>2 DEF TmrCtrl
  <2> HIDE DEF x, c
  <2> QED  BY <2>1, <2>2, <2>3, <1>2 DEF TmrCtrl, x, y
<1>4. tbl \in [Timer -> TmrCtrl]
  <2>1. tbl = [u \in Timer |-> tbl[u]]  OBVIOUS
  <2> HIDE DEF tbl
  <2> QED  BY <2>1, <1>3
<1>5. first \in Timer \cup {NoTimer}  BY <1>2
<1> HIDE DEF tbl, first
<1>6. r2.TmrList = first /\ r2.TmrTbl = tbl /\ Only(r, r2, {"TmrTbl", "TmrList"})
  BY <1>1, <1>2 DEF Only, Fields
<1>7. DOMAIN r2 = Fields  BY <1>6 DEF Only
<1> QED  BY <1>3, <1>4, <1>5, <1>6, <1>7 DEF TimersMoved, Timed

-----------------------------------------------------------------------------
(* The requests of interrupts.                                             *)
(* Cells less than a turn of the ring apart are different.                 *)
LEMMA CellsApart ==
  ASSUME NEW m \in Nat \ {0}, NEW h \in Nat, NEW i \in Nat, NEW j \in Nat,
         i < m, j < m, i # j
  PROVE  (h + i) % m # (h + j) % m
<1> DEFINE a == (h + i) % m
           b == (h + j) % m
           x == (h + i) \div m
           y == (h + j) \div m
<1>1. /\ x \in Nat /\ a \in 0 .. m - 1 /\ h + i = m * x + a
      /\ y \in Nat /\ b \in 0 .. m - 1 /\ h + j = m * y + b
  OBVIOUS
<1> HIDE DEF a, b, x, y
<1>2. SUFFICES ASSUME a = b PROVE FALSE
  BY DEF a, b
<1>3. i - j = m * (x - y)
  BY <1>1, <1>2
<1>4. x - y \in Int /\ i - j < m /\ 0 - m < i - j
  BY <1>1
<1>5. CASE x - y >= 1
  <2> DEFINE z == x - y - 1
  <2>1. z \in Nat /\ x - y = z + 1  BY <1>1, <1>5
  <2> HIDE DEF z
  <2>2. m * (z + 1) = m * z + m /\ m * z >= 0  BY <2>1
  <2> QED  BY <1>3, <1>4, <2>1, <2>2
<1>6. CASE x - y <= -1
  <2> DEFINE z == y - x - 1
  <2>1. z \in Nat /\ y - x = z + 1  BY <1>1, <1>6
  <2> HIDE DEF z
  <2>2. m * (z + 1) = m * z + m /\ m * z >= 0  BY <2>1
  <2>3. j - i = m * (y - x)  BY <1>1, <1>2
  <2> QED  BY <1>1, <2>1, <2>2, <2>3
<1>7. CASE x - y = 0
  BY <1>3, <1>7
<1> QED  BY <1>4, <1>5, <1>6, <1>7

LEMMA Requested ==
  ASSUME NEW r, NEW id, NEW X, Right(r, id, X), NEW E, NoEvent \in E, NEW q, RequestRight(r.app, q),
         ~SrqFull(r), NEW r2, r2 = InsertInSRQ(r, q)
  PROVE  Right(r2, id, X) /\ Serves(r, r2, E)
<1> DEFINE h == r.head
           n == r.cnt
           p == (n + h) % SrqSize
           c2 == [r.cell EXCEPT ![p] = q]
<1>1. /\ DOMAIN r = Fields /\ h \in Cells /\ n \in 0 .. SrqSize /\ DOMAIN r.cell = Cells
      /\ \A j \in 0 .. n - 1 : RequestRight(r.app, r.cell[(h + j) % SrqSize])
      /\ n < SrqSize /\ SrqSize \in Nat \ {0}
      /\ r.TmrTbl \in [Timer -> TmrCtrl] /\ r.TmrList \in Timer \cup {NoTimer}
      /\ CallBacksRight(r)
  BY EventAssumption DEF Right, Shape, RequestsRight, SrqFull
<1>2. /\ r2.cell = c2 /\ r2.cnt = n + 1 /\ r2.head = h /\ r2.app = r.app
      /\ r2.TmrTbl = r.TmrTbl /\ r2.TmrList = r.TmrList
      /\ Only(r, r2, {"cell", "cnt", "IsrReq"})
  BY <1>1 DEF InsertInSRQ, Only, Fields
<1>3. p \in Cells
  <2>1. n + h \in Nat  BY <1>1 DEF Cells
  <2>2. (n + h) % SrqSize \in 0 .. SrqSize - 1  BY <2>1, <1>1, ModFacts
  <2> QED  BY <2>2 DEF Cells
<1>4. DOMAIN c2 = Cells /\ c2[p] = q /\ \A i \in Cells : i # p => c2[i] = r.cell[i]
  BY <1>1, <1>3
<1>5. ASSUME NEW j \in 0 .. n PROVE RequestRight(r.app, c2[(h + j) % SrqSize])
  <2>1. CASE j = n
    <3>1. h + j = n + h  BY <2>1, <1>1 DEF Cells
    <3> QED  BY <3>1, <1>4
  <2>2. CASE j # n
    <3> DEFINE i == (h + j) % SrqSize
    <3>1. j \in 0 .. n - 1 /\ h + j \in Nat  BY <2>2, <1>1 DEF Cells
    <3>2. i \in Cells
      <4>1. (h + j) % SrqSize \in 0 .. SrqSize - 1  BY <3>1, <1>1, ModFacts
      <4> QED  BY <4>1 DEF Cells
    <3>3. RequestRight(r.app, r.cell[i])  BY <3>1, <1>1
    <3>4. (h + j) % SrqSize = i  OBVIOUS
    <3> HIDE DEF i, c2
    <3>5. RequestRight(r.app, c2[i])
      <4>1. CASE i = p  BY <4>1, <1>4
      <4>2. CASE i # p  BY <3>2, <3>3, <4>2, <1>4
      <4> QED  BY <4>1, <4>2
    <3> QED  BY <3>4, <3>5
  <2> QED  BY <2>1, <2>2
<1> HIDE DEF c2, p
<1>6. RequestsRight(r2)
  <2>1. r2.cnt \in 0 .. SrqSize /\ r2.cnt - 1 = n /\ r2.head \in Cells  BY <1>1, <1>2
  <2> QED  BY <2>1, <1>2, <1>5 DEF RequestsRight
<1>7. CallBacksRight(r2)  BY <1>1, <1>2 DEF CallBacksRight
<1>8. Only(r, r2, Aside \cup {"cell", "cnt", "head", "TmrTbl", "TmrList"})
  BY <1>2 DEF Only, Aside
<1>9. Right(r2, id, X)
  BY <1>1, <1>2, <1>4, <1>6, <1>7, <1>8, AsideRight
<1>10. Serves(r, r2, E)
  <2>1. ASSUME NEW j \in 0 .. n - 1
        PROVE  r2.cell[(r.head + j) % SrqSize] = r.cell[(r.head + j) % SrqSize]
    <3> DEFINE i == (h + j) % SrqSize
    <3>0. n \in Nat /\ h \in Nat /\ SrqSize \in Nat \ {0} /\ n < SrqSize
      BY <1>1 DEF Cells
    <3>1. h + j \in Nat /\ j # n /\ j \in Nat /\ n \in Nat /\ j < SrqSize /\ h \in Nat
      BY <3>0
    <3>2. i \in Cells
      <4>1. (h + j) % SrqSize \in 0 .. SrqSize - 1  BY <3>1, <1>1, ModFacts
      <4> QED  BY <4>1 DEF Cells
    <3>3. i # p
      <4>1. (h + j) % SrqSize # (h + n) % SrqSize
        BY <1>1, <3>1, CellsApart
      <4>2. h + n = n + h
        BY <3>1
      <4> QED  BY <4>1, <4>2 DEF p
    <3> HIDE DEF i
    <3>4. c2[i] = r.cell[i]
      BY <1>4, <3>2, <3>3
    <3> QED  BY <1>2, <3>4 DEF i, h
  <2>2. 0 .. n - 1 \subseteq 0 .. r2.cnt - 1
    BY <1>1, <1>2
  <2>3. Grows(r, r2)
    BY <1>2, <2>1, <2>2 DEF Grows, h, n
  <2>4. RingServed(r, r2, E)
    BY <2>3 DEF RingServed
  <2> QED  BY <1>8, <2>4, ServesRing
<1> QED  BY <1>9, <1>10

LEMMA RequestTaken ==
  ASSUME NEW r, NEW id, NEW X, Right(r, id, X), NEW E, {NoEvent, Drains} \subseteq E, r.cnt # 0,
         NEW r2, r2 = TakeRequest(r)
  PROVE  /\ Right(r2, id, X) /\ Serves(r, r2, E) /\ RequestRight(r.app, NextRequest(r))
         /\ r2.cnt = r.cnt - 1 /\ r2.app = r.app
         /\ r2.cell = r.cell /\ r2.head = (r.head + 1) % SrqSize
<1> DEFINE h == r.head
           n == r.cnt
           h2 == (h + 1) % SrqSize
<1>1. /\ DOMAIN r = Fields /\ h \in Cells /\ n \in 0 .. SrqSize /\ DOMAIN r.cell = Cells
      /\ \A j \in 0 .. n - 1 : RequestRight(r.app, r.cell[(h + j) % SrqSize])
      /\ n > 0 /\ SrqSize \in Nat \ {0}
      /\ r.TmrTbl \in [Timer -> TmrCtrl] /\ r.TmrList \in Timer \cup {NoTimer}
      /\ CallBacksRight(r)
  BY EventAssumption DEF Right, Shape, RequestsRight
<1>2. /\ r2.cell = r.cell /\ r2.cnt = n - 1 /\ r2.head = h2 /\ r2.app = r.app
      /\ r2.TmrTbl = r.TmrTbl /\ r2.TmrList = r.TmrList
      /\ Only(r, r2, {"cnt", "head"})
  BY <1>1 DEF TakeRequest, Only, Fields
<1>3. h \in 0 .. SrqSize - 1 /\ h % SrqSize = h
  <2>1. h \in Nat /\ h < SrqSize  BY <1>1 DEF Cells
  <2>2. h % SrqSize = h  BY <2>1, <1>1, ModFacts
  <2> QED  BY <2>1, <2>2, <1>1
<1>4. RequestRight(r.app, NextRequest(r))
  <2>1. 0 \in 0 .. n - 1 /\ h + 0 = h  BY <1>1, <1>3
  <2>2. RequestRight(r.app, r.cell[(h + 0) % SrqSize])  BY <2>1, <1>1
  <2> QED  BY <2>1, <2>2, <1>3 DEF NextRequest
<1>5. h2 \in Cells
  <2>1. h + 1 \in Nat  BY <1>3
  <2>2. (h + 1) % SrqSize \in 0 .. SrqSize - 1  BY <2>1, <1>1, ModFacts
  <2> QED  BY <2>2 DEF Cells
<1>6. ASSUME NEW j \in 0 .. n - 2 PROVE (h2 + j) % SrqSize = (h + (j + 1)) % SrqSize
  <2>1. h2 = IF h + 1 = SrqSize THEN 0 ELSE h + 1
    <3>0. h \in Nat /\ SrqSize \in Nat \ {0}  BY <1>1, <1>3
    <3>1. (IF (h % SrqSize) + 1 = SrqSize THEN 0 ELSE (h % SrqSize) + 1) = (h + 1) % SrqSize
      BY <3>0, ModFacts
    <3> QED  BY <3>1, <1>3
  <2>2. j \in Nat  BY <1>1
  <2> HIDE DEF h2
  <2>3. CASE h + 1 = SrqSize
    <3>0. h \in Nat /\ SrqSize \in Nat /\ h2 = 0  BY <2>1, <2>3, <1>1, <1>3
    <3>1. h + (j + 1) = j + SrqSize /\ h2 + j = j  BY <3>0, <2>2, <2>3
    <3>2. (j + SrqSize) % SrqSize = j % SrqSize  BY <2>2, <1>1, ModFacts
    <3> QED  BY <3>1, <3>2
  <2>4. CASE h + 1 # SrqSize
    <3>1. h2 + j = h + (j + 1)  BY <2>1, <2>2, <2>4, <1>3
    <3> QED  BY <3>1
  <2> QED  BY <2>3, <2>4
<1> HIDE DEF h2
<1>7. RequestsRight(r2)
  <2>1. r2.cnt \in 0 .. SrqSize /\ r2.cnt - 1 = n - 2  BY <1>1, <1>2
  <2>2. ASSUME NEW j \in 0 .. n - 2 PROVE RequestRight(r.app, r.cell[(h2 + j) % SrqSize])
    <3>1. j + 1 \in 0 .. n - 1  BY <1>1
    <3>2. RequestRight(r.app, r.cell[(h + (j + 1)) % SrqSize])  BY <3>1, <1>1
    <3> QED  BY <3>2, <1>6
  <2> QED  BY <2>1, <2>2, <1>2, <1>5 DEF RequestsRight
<1>8. CallBacksRight(r2)  BY <1>1, <1>2 DEF CallBacksRight
<1>9. Only(r, r2, Aside \cup {"cell", "cnt", "head", "TmrTbl", "TmrList"})
  BY <1>2 DEF Only, Aside
<1>10. Right(r2, id, X)
  BY <1>1, <1>2, <1>7, <1>8, <1>9, AsideRight
<1>11. Serves(r, r2, E)
  <2>1. RingServed(r, r2, E)
    BY DEF RingServed
  <2> QED  BY <1>9, <2>1, ServesRing
<1>12. r2.head = (r.head + 1) % SrqSize
  BY <1>2 DEF h2, h
<1> QED  BY <1>2, <1>4, <1>10, <1>11, <1>12 DEF n

-----------------------------------------------------------------------------
(* The timers expire.                                                      *)
LEMMA CalledBack ==
  ASSUME NEW r, NEW id, NEW X, Right(r, id, X), NEW E, NoEvent \in E, NEW t \in Timer,
         NEW r2, r2 = CallBack(r, t)
  PROVE  Right(r2, id, X) /\ Serves(r, r2, E)
<1> DEFINE e == r.TmrTbl[t].tmrCallBack
           q == <<"sem", e, NoMail>>
<1>0. r.k \in Kernel  BY DEF Right, Shape
<1>1. CASE e = NoEvent \/ SrqFull(r)
  <2>1. r2 = r  BY <1>1 DEF CallBack
  <2> QED  BY <2>1, <1>0, ServesNone
<1>2. CASE ~(e = NoEvent \/ SrqFull(r))
  <2>1. r2 = InsertInSRQ(r, q)  BY <1>2 DEF CallBack
  <2>2. e \in Event  BY <1>2 DEF Right, Shape, TmrCtrl
  <2>3. PostsFromIsr(r.app, e)  BY <1>2 DEF Right, CallBacksRight
  <2>4. q \in DeviceRequest  BY <2>2 DEF DeviceRequest
  <2>5. RequestRight(r.app, q)  BY <2>3, <2>4 DEF RequestRight
  <2> HIDE DEF q
  <2> QED  BY <2>1, <2>5, <1>2, Requested
<1> QED  BY <1>1, <1>2

LEMMA TimerSet ==
  ASSUME NEW r, Timed(r), NEW t \in Timer, NEW c \in TmrCtrl,
         c.tmrCallBack = r.TmrTbl[t].tmrCallBack,
         NEW r2, r2 = [r EXCEPT !.TmrTbl = [r.TmrTbl EXCEPT ![t] = c]]
  PROVE  TimersMoved(r, r2)
<1> DEFINE tbl == [r.TmrTbl EXCEPT ![t] = c]
<1>1. r.TmrTbl \in [Timer -> TmrCtrl] /\ DOMAIN r = Fields /\ r.TmrList \in Timer \cup {NoTimer}
  BY DEF Timed
<1>2. /\ tbl \in [Timer -> TmrCtrl]
      /\ \A i \in Timer : tbl[i].tmrCallBack = r.TmrTbl[i].tmrCallBack
  BY <1>1
<1>3. r2 = [r EXCEPT !.TmrTbl = tbl]  OBVIOUS
<1> HIDE DEF tbl
<1>4. r2.TmrTbl = tbl /\ r2.TmrList = r.TmrList /\ Only(r, r2, {"TmrTbl", "TmrList"})
  BY <1>1, <1>3 DEF Only, Fields
<1>5. DOMAIN r2 = Fields  BY <1>4 DEF Only
<1> QED  BY <1>1, <1>2, <1>4, <1>5 DEF TimersMoved, Timed

LEMMA TimerExpired ==
  ASSUME NEW r, NEW id, NEW X, Right(r, id, X), NEW E, NoEvent \in E, NEW t \in Timer,
         NEW r2, r2 = Expire(r, t)
  PROVE  Right(r2, id, X) /\ Serves(r, r2, E)
<1> DEFINE a == RemoveTmrList(r, t)
           c == [a.TmrTbl[t] EXCEPT !.tmrState = "stopped"]
           d == [a.TmrTbl[t] EXCEPT !.tmrCnt = r.TmrTbl[t].tmrReload]
           a1 == [a EXCEPT !.TmrTbl = [a.TmrTbl EXCEPT ![t] = c]]
           a2 == [a EXCEPT !.TmrTbl = [a.TmrTbl EXCEPT ![t] = d]]
           a3 == InsertTmrList(a2, t)
           b == IF r.TmrTbl[t].tmrType = "oneshot" THEN a1 ELSE a3
<1>1. r2 = CallBack(b, t)
  BY DEF Expire
<1>2. TimersMoved(r, a)
  BY RightTimed, TimerRemoved
<1>3. Timed(a) /\ Timed(r) /\ a.TmrTbl[t] \in TmrCtrl /\ r.TmrTbl[t] \in TmrCtrl
  BY <1>2, RightTimed DEF TimersMoved, Timed
<1> HIDE DEF a
<1>4. /\ c \in TmrCtrl /\ c.tmrCallBack = a.TmrTbl[t].tmrCallBack
      /\ d \in TmrCtrl /\ d.tmrCallBack = a.TmrTbl[t].tmrCallBack
  BY <1>3 DEF TmrCtrl
<1> HIDE DEF c, d
<1>5. TimersMoved(a, a1) /\ TimersMoved(a, a2)
  BY <1>3, <1>4, TimerSet
<1>6. TimersMoved(a2, a3)
  <2>1. Timed(a2)  BY <1>5 DEF TimersMoved
  <2> HIDE DEF a2
  <2> QED  BY <2>1, TimerInserted
<1> HIDE DEF a1, a2, a3
<1>7. TimersMoved(r, a1) /\ TimersMoved(r, a3)
  BY <1>2, <1>5, <1>6, TimersMovedAgain
<1>8. TimersMoved(r, b)
  BY <1>7
<1> HIDE DEF b
<1>9. Right(b, id, X) /\ Serves(r, b, E)
  BY <1>8, TimersMovedRight
<1>10. Right(r2, id, X) /\ Serves(b, r2, E)
  BY <1>1, <1>9, CalledBack
<1> QED  BY <1>9, <1>10, ServesAgain

LEMMA TimersDisposed ==
  ASSUME NEW r, NEW id, Right(r, id, {}), NEW E, NoEvent \in E, NEW r2, r2 = TmrDispose(r)
  PROVE  Right(r2, id, {}) /\ Serves(r, r2, E)
<1> DEFINE n == MaxTimer
           Next2(g, i) == IF i = 0 THEN r
                          ELSE IF Expired(g[i - 1]) THEN Expire(g[i - 1], g[i - 1].TmrList)
                          ELSE g[i - 1]
           Rec(m, g) == g = [i \in 0 .. m |-> Next2(g, i)]
           after == CHOOSE g : Rec(n, g)
<1>0. n \in Nat /\ r.k \in Kernel
  BY EventAssumption DEF Right, Shape
<1>1. r2 = after[n]
  BY DEF TmrDispose
<1> HIDE DEF n
<1>2. \A m \in Nat : \E f : Rec(m, f)
  <2> DEFINE N == {m \in Nat : \E f : Rec(m, f)}
  <2>1. 0 \in N
    <3>1. Rec(0, [i \in 0 .. 0 |-> r])  OBVIOUS
    <3> QED  BY <3>1
  <2>2. ASSUME NEW m \in Nat, m \in N PROVE m + 1 \in N
    <3>1. PICK f : Rec(m, f)  BY <2>2
    <3> DEFINE g == [i \in 0 .. m + 1 |-> IF i = m + 1 THEN Next2(f, i) ELSE f[i]]
    <3>2. /\ \A i \in 0 .. m : g[i] = f[i]
          /\ g[m + 1] = Next2(f, m + 1)
      OBVIOUS
    <3> HIDE DEF Next2
    <3>3. \A i \in 0 .. m : f[i] = Next2(f, i)
      BY <3>1
    <3> USE DEF Next2
    <3> HIDE DEF g, Rec
    <3>4. ASSUME NEW i \in 0 .. m + 1, i # 0 PROVE g[i - 1] = f[i - 1]
      <4>1. i - 1 \in 0 .. m  BY <3>4
      <4> QED  BY <4>1, <3>2
    <3>5. \A i \in 0 .. m + 1 : Next2(g, i) = Next2(f, i)
      BY <3>4
    <3> HIDE DEF Next2
    <3>6. ASSUME NEW i \in 0 .. m + 1 PROVE g[i] = Next2(g, i)
      <4>1. CASE i = m + 1  BY <4>1, <3>2, <3>5
      <4>2. CASE i # m + 1
        <5>1. i \in 0 .. m  BY <4>2
        <5> QED  BY <5>1, <3>2, <3>3, <3>5
      <4> QED  BY <4>1, <4>2
    <3>7. g = [i \in 0 .. m + 1 |-> g[i]]
      BY DEF g
    <3>8. Rec(m + 1, g)
      BY <3>6, <3>7 DEF Rec
    <3> QED  BY <3>8, <2>2
  <2> HIDE DEF N
  <2>3. \A m \in Nat : m \in N  BY <2>1, <2>2, NatIs
  <2> QED  BY <2>3 DEF N
<1>3. Rec(n, after)
  <2> HIDE DEF Rec
  <2>1. n \in Nat  BY <1>0
  <2> QED  BY <2>1, <1>2
<1> HIDE DEF after
<1>4. \A i \in 0 .. n : after[i] = Next2(after, i)
  <2> HIDE DEF Next2
  <2> QED  BY <1>3
<1> HIDE DEF Rec
<1> DEFINE Good(i) == Right(after[i], id, {}) /\ Serves(r, after[i], E)
           N == {i \in Nat : i <= n => Good(i)}
<1>5. 0 \in N
  <2>1. 0 \in 0 .. n  BY <1>0
  <2>2. after[0] = r  BY <2>1, <1>4
  <2>3. Good(0)  BY <2>2, <1>0, ServesNone
  <2> QED  BY <2>3
<1>6. ASSUME NEW i \in Nat, i \in N PROVE i + 1 \in N
  <2> HIDE DEF Good
  <2>0. SUFFICES ASSUME i + 1 <= n PROVE Good(i + 1)
    OBVIOUS
  <2>1. i + 1 \in 0 .. n /\ i + 1 # 0 /\ (i + 1) - 1 = i /\ i <= n
    BY <1>0, <2>0
  <2>2. Good(i)  BY <1>6, <2>1
  <2> DEFINE p == after[i]
             y == after[i + 1]
  <2>3. y = IF Expired(p) THEN Expire(p, p.TmrList) ELSE p
    BY <2>1, <1>4
  <2>4. Right(p, id, {}) /\ Serves(r, p, E)  BY <2>2 DEF Good
  <2> HIDE DEF p, y, N
  <2>5. CASE Expired(p)
    <3>1. p.TmrList \in Timer  BY <2>4, <2>5 DEF Expired, Right, Shape
    <3>2. Right(y, id, {}) /\ Serves(p, y, E)
      BY <2>3, <2>4, <2>5, <3>1, TimerExpired
    <3>3. Serves(r, y, E)  BY <2>4, <3>2, ServesAgain
    <3> QED  BY <3>2, <3>3 DEF Good, y
  <2>6. CASE ~Expired(p)
    BY <2>3, <2>4, <2>6 DEF Good, y
  <2> QED  BY <2>5, <2>6
<1> HIDE DEF N
<1>7. n \in N
  <2>1. \A i \in Nat : i \in N  BY <1>5, <1>6, NatIs
  <2> QED  BY <2>1, <1>0
<1> QED  BY <1>0, <1>1, <1>7 DEF N

LEMMA TimersDisposedIsr ==
  ASSUME NEW r, NEW id, Right(r, id, {}), NEW E, NoEvent \in E, NEW r2, r2 = isr_TmrDispose(r)
  PROVE  Right(r2, id, {}) /\ Serves(r, r2, E)
<1>1. CASE r.k.OSSchedLock > 1
  <2>1. Only(r, r2, {"IsrReq", "TimerReq"})
    BY <1>1 DEF isr_TmrDispose, Only, Fields, Right, Shape
  <2>2. Only(r, r2, Aside) /\ Only(r, r2, Aside \cup {"TmrTbl", "TmrList"})
    BY <2>1 DEF Only, Aside
  <2> QED  BY <2>2, AsideOnly, ServesAside
<1>2. CASE ~(r.k.OSSchedLock > 1)
  <2>1. r2 = TmrDispose(r)  BY <1>2 DEF isr_TmrDispose
  <2> QED  BY <2>1, TimersDisposed
<1> QED  BY <1>1, <1>2

LEMMA TimersTicked ==
  ASSUME NEW r, NEW id, Right(r, id, {}), NEW E, NoEvent \in E, NEW r2, r2 = TickTimers(r)
  PROVE  Right(r2, id, {}) /\ Serves(r, r2, E)
<1> DEFINE t == r.TmrList
           down(n) == [r.TmrTbl[t] EXCEPT !.tmrCnt = n]
           r1(n) == [r EXCEPT !.TmrTbl = [r.TmrTbl EXCEPT ![t] = down(n)]]
<1>0. r.k \in Kernel /\ Timed(r)
  BY RightTimed DEF Right, Shape
<1>1. CASE t = NoTimer
  <2>1. r2 = r  BY <1>1 DEF TickTimers
  <2> QED  BY <2>1, <1>0, ServesNone
<1>2. CASE t # NoTimer
  <2>1. t \in Timer /\ r.TmrTbl[t] \in TmrCtrl /\ r.TmrTbl[t].tmrCnt \in Int
    BY <1>0, <1>2 DEF Timed, TmrCtrl
  <2>2. ASSUME NEW n \in Int PROVE Right(r1(n), id, {}) /\ Serves(r, r1(n), E)
    <3>1. down(n) \in TmrCtrl /\ down(n).tmrCallBack = r.TmrTbl[t].tmrCallBack
      BY <2>1 DEF TmrCtrl
    <3> DEFINE c == down(n)
               x == r1(n)
    <3>2. x = [r EXCEPT !.TmrTbl = [r.TmrTbl EXCEPT ![t] = c]]  OBVIOUS
    <3>3. c \in TmrCtrl /\ c.tmrCallBack = r.TmrTbl[t].tmrCallBack  BY <3>1
    <3> HIDE DEF c, x, t
    <3>4. TimersMoved(r, x)
      BY <1>0, <2>1, <3>2, <3>3, TimerSet
    <3>5. Right(x, id, {}) /\ Serves(r, x, E)
      BY <3>4, TimersMovedRight
    <3> QED  BY <3>5 DEF x
  <2>3. CASE r.TmrTbl[t].tmrCnt > 1
    <3>1. r2 = r1(r.TmrTbl[t].tmrCnt - 1)
      BY <1>2, <2>3 DEF TickTimers
    <3>2. r.TmrTbl[t].tmrCnt - 1 \in Int  BY <2>1
    <3> HIDE DEF r1
    <3> QED  BY <3>1, <3>2, <2>2
  <2>4. CASE ~(r.TmrTbl[t].tmrCnt > 1)
    <3> DEFINE x == r1(0)
    <3>1. r2 = isr_TmrDispose(x)
      BY <1>2, <2>4 DEF TickTimers
    <3>2. Right(x, id, {}) /\ Serves(r, x, E)
      <4> HIDE DEF r1
      <4> QED  BY <2>2
    <3> HIDE DEF x
    <3>3. Right(r2, id, {}) /\ Serves(x, r2, E)
      BY <3>1, <3>2, TimersDisposedIsr
    <3> QED  BY <3>2, <3>3, ServesAgain
  <2> QED  BY <2>3, <2>4
<1> QED  BY <1>1, <1>2

-----------------------------------------------------------------------------
(* The requests are served.  What devices and timers may post: events that *)
(* are no semaphores, and semaphores that interrupts post.                 *)
Devices(r) ==
  {NoEvent, Drains} \cup {e \in Event : r.eventType[e] = "sem" => PostsFromIsr(r.app, e)}

LEMMA DevicesSame ==
  ASSUME NEW r, NEW r2, NEW E, Serves(r, r2, E)
  PROVE  Devices(r2) = Devices(r)
BY DEF Serves, Devices

LEMMA Performed ==
  ASSUME NEW r, NEW id, Right(r, id, {}), NEW q, RequestRight(r.app, q),
         NEW r2, r2 = Perform(r, q)
  PROVE  Right(r2, id, {}) /\ Serves(r, r2, Devices(r) \ {NoEvent, Drains})
<1> DEFINE E == Devices(r) \ {NoEvent, Drains}
           e == q[2]
<1>0. /\ r.k \in Kernel /\ q \in DeviceRequest /\ (q[1] = "sem" => PostsFromIsr(r.app, q[2]))
      /\ r.eventType \in [Event -> EventType]
  BY DEF Right, Shape, RequestRight
<1>1. CASE q[1] = "flag"
  <2>1. r2 = SetFlag(r, q[2])  BY <1>1 DEF Perform
  <2> QED  BY <2>1, FlagSet
<1>2. CASE q[1] # "flag" /\ r.eventType[q[2]] = q[1]
  <2>1. r2 = IF IsFull(r, q[2]) THEN r ELSE Post(r, q[2], q[3])
    BY <1>2 DEF Perform
  <2>2. CASE IsFull(r, q[2])
    <3>1. r2 = r  BY <2>1, <2>2
    <3> QED  BY <3>1, <1>0, ServesNone
  <2>3. CASE ~IsFull(r, q[2])
    <3>1. /\ e \in Event /\ q[1] \in {"sem", "mbox", "queue"}
          /\ q[1] # "sem" => q[3] \in Mail
      BY <1>0, <1>2 DEF DeviceRequest
    <3>2. e \in E  BY <1>0, <1>2, <3>1, EventAssumption DEF Devices, Event, NoEvent, Drains
    <3>3. ASSUME r.eventType[e] = "sem", Disciplined
          PROVE  r.eventCounter[e] < r.initialEventCounter[e]
      <4>1. r.eventCounter[e] # r.initialEventCounter[e]
        BY <2>3, <3>3 DEF IsFull, SemFull
      <4>2. /\ r.eventCounter[e] <= r.initialEventCounter[e]
            /\ r.eventCounter[e] \in Nat /\ r.initialEventCounter[e] \in Nat
        BY <3>1, <3>3 DEF Right, Shape, PermitsRight
      <4> QED  BY <4>1, <4>2
    <3>4. r.eventType[e] # "invalid" /\ (r.eventType[e] # "sem" => q[3] \in Mail)
      BY <1>2, <3>1
    <3> DEFINE m == q[3]
    <3>5. r2 = Post(r, e, m)  BY <2>1, <2>3
    <3> HIDE DEF e, m, E
    <3>6. Right(r2, id, {}) /\ Serves(r, r2, {e})
      BY <3>1, <3>3, <3>4, <3>5, PostRight DEF m
    <3>7. Serves(r, r2, E)  BY <3>2, <3>6, ServesMore
    <3> QED  BY <3>6, <3>7 DEF E
  <2> QED  BY <2>2, <2>3
<1>3. CASE q[1] # "flag" /\ r.eventType[q[2]] # q[1]
  <2>1. r2 = r  BY <1>3 DEF Perform
  <2> QED  BY <2>1, <1>0, ServesNone
<1> QED  BY <1>1, <1>2, <1>3

LEMMA Served ==
  ASSUME NEW r, NEW id, Right(r, id, {}), r.cnt # 0, NEW r2, r2 = ServeRequest(r)
  PROVE  /\ Right(r2, id, {}) /\ Serves(r, r2, Devices(r))
         /\ r2.cnt = r.cnt - 1 /\ r2.cell = r.cell /\ r2.head = (r.head + 1) % SrqSize
<1> DEFINE x == TakeRequest(r)
           q == NextRequest(r)
           E == Devices(r)
<1>1. r2 = Perform(x, q)
  BY DEF ServeRequest
<1> HIDE DEF x, q
<1>2. /\ Right(x, id, {}) /\ Serves(r, x, E) /\ RequestRight(r.app, q)
      /\ x.cnt = r.cnt - 1 /\ x.app = r.app
      /\ x.cell = r.cell /\ x.head = (r.head + 1) % SrqSize
  <2>1. {NoEvent, Drains} \subseteq E  BY DEF Devices
  <2> HIDE DEF E
  <2> QED  BY <2>1, RequestTaken DEF x, q
<1>3. RequestRight(x.app, q) /\ Devices(x) = E
  BY <1>2, DevicesSame
<1>4. Right(r2, id, {}) /\ Serves(x, r2, Devices(x) \ {NoEvent, Drains})
  BY <1>1, <1>2, <1>3, Performed
<1>5. r2.cnt = x.cnt /\ r2.cell = x.cell /\ r2.head = x.head
  <2>1. NoEvent \notin Devices(x) \ {NoEvent, Drains}
    OBVIOUS
  <2>2. SameRing(x, r2)
    BY <1>4, <2>1 DEF Serves, RingServed
  <2> QED  BY <2>2 DEF SameRing
<1>6. Serves(x, r2, E)
  BY <1>3, <1>4, ServesMore
<1> HIDE DEF E
<1>7. Serves(r, r2, E)
  BY <1>2, <1>6, ServesAgain
<1> QED  BY <1>2, <1>4, <1>5, <1>7 DEF E

(* A flag of the kernel that says what there is to do falls or rises.      *)
LEMMA AsideChange ==
  ASSUME NEW r, NEW id, Right(r, id, {}), NEW E, NEW F, F \subseteq Aside,
         NEW r2, Only(r, r2, F)
  PROVE  Right(r2, id, {}) /\ Serves(r, r2, E)
<1>1. Only(r, r2, Aside) /\ Only(r, r2, Aside \cup {"TmrTbl", "TmrList"})
  BY DEF Only
<1> QED  BY <1>1, AsideOnly, ServesAside

LEMMA Responded ==
  ASSUME NEW r, NEW id, Right(r, id, {}), NEW r2, r2 = RespondSRQ(r)
  PROVE  Right(r2, id, {}) /\ Serves(r, r2, Devices(r)) /\ r2.cnt = 0
<1> DEFINE E == Devices(r)
           a == TimeDispose(r)
           r1 == IF r.TimeReq THEN [a EXCEPT !.TimeReq = FALSE] ELSE r
           b == TmrDispose(r1)
           x == IF r1.TimerReq THEN [b EXCEPT !.TimerReq = FALSE] ELSE r1
           n == x.cnt
           Next2(g, i) == IF i = 0 THEN x ELSE ServeRequest(g[i - 1])
           Rec(m, g) == g = [i \in 0 .. m |-> Next2(g, i)]
           after == CHOOSE g : Rec(n, g)
<1>0. NoEvent \in E /\ r.k \in Kernel
  BY DEF Devices, Right, Shape
<1>1. r2 = ClearIsrReq(after[n])
  BY DEF RespondSRQ
<1> HIDE DEF a, b, E
<1>2. Right(r1, id, {}) /\ Serves(r, r1, E)
  <2>1. Right(a, id, {}) /\ Serves(r, a, E)
    BY DelaysDisposed DEF a
  <2>2. CASE r.TimeReq
    <3>1. DOMAIN a = Fields  BY <2>1 DEF Right, Shape
    <3>2. Only(a, r1, {"TimeReq"})  BY <2>2, <3>1 DEF Only, Fields
    <3>3. {"TimeReq"} \subseteq Aside  BY DEF Aside
    <3> HIDE DEF r1
    <3>4. Right(r1, id, {}) /\ Serves(a, r1, E)  BY <2>1, <3>2, <3>3, AsideChange
    <3> QED  BY <2>1, <3>4, ServesAgain
  <2>3. CASE ~r.TimeReq
    <3>1. r1 = r  BY <2>3
    <3> QED  BY <3>1, <1>0, ServesNone
  <2> QED  BY <2>2, <2>3
<1> HIDE DEF r1
<1>3. Right(x, id, {}) /\ Serves(r, x, E)
  <2>1. Right(b, id, {}) /\ Serves(r1, b, E)
    BY <1>0, <1>2, TimersDisposed DEF b
  <2>2. CASE r1.TimerReq
    <3>1. DOMAIN b = Fields  BY <2>1 DEF Right, Shape
    <3>2. Only(b, x, {"TimerReq"})  BY <2>2, <3>1 DEF Only, Fields
    <3>3. {"TimerReq"} \subseteq Aside  BY DEF Aside
    <3> HIDE DEF x
    <3>4. Right(x, id, {}) /\ Serves(b, x, E)  BY <2>1, <3>2, <3>3, AsideChange
    <3>5. Serves(r1, x, E)  BY <2>1, <3>4, ServesAgain
    <3> QED  BY <1>2, <3>4, <3>5, ServesAgain
  <2>3. CASE ~r1.TimerReq
    <3>1. x = r1  BY <2>3
    <3> QED  BY <3>1, <1>2
  <2> QED  BY <2>2, <2>3
<1> HIDE DEF x
<1>4. n \in Nat /\ x.k \in Kernel
  BY <1>3, EventAssumption DEF Right, Shape, RequestsRight
<1> HIDE DEF n
<1>5. \A m \in Nat : \E f : Rec(m, f)
  <2> DEFINE N == {m \in Nat : \E f : Rec(m, f)}
  <2>1. 0 \in N
    <3>1. Rec(0, [i \in 0 .. 0 |-> x])  OBVIOUS
    <3> QED  BY <3>1
  <2>2. ASSUME NEW m \in Nat, m \in N PROVE m + 1 \in N
    <3>1. PICK f : Rec(m, f)  BY <2>2
    <3> DEFINE g == [i \in 0 .. m + 1 |-> IF i = m + 1 THEN Next2(f, i) ELSE f[i]]
    <3>2. /\ \A i \in 0 .. m : g[i] = f[i]
          /\ g[m + 1] = Next2(f, m + 1)
      OBVIOUS
    <3> HIDE DEF Next2
    <3>3. \A i \in 0 .. m : f[i] = Next2(f, i)
      BY <3>1
    <3> USE DEF Next2
    <3> HIDE DEF g, Rec
    <3>4. ASSUME NEW i \in 0 .. m + 1, i # 0 PROVE g[i - 1] = f[i - 1]
      <4>1. i - 1 \in 0 .. m  BY <3>4
      <4> QED  BY <4>1, <3>2
    <3>5. \A i \in 0 .. m + 1 : Next2(g, i) = Next2(f, i)
      BY <3>4
    <3> HIDE DEF Next2
    <3>6. ASSUME NEW i \in 0 .. m + 1 PROVE g[i] = Next2(g, i)
      <4>1. CASE i = m + 1  BY <4>1, <3>2, <3>5
      <4>2. CASE i # m + 1
        <5>1. i \in 0 .. m  BY <4>2
        <5> QED  BY <5>1, <3>2, <3>3, <3>5
      <4> QED  BY <4>1, <4>2
    <3>7. g = [i \in 0 .. m + 1 |-> g[i]]
      BY DEF g
    <3>8. Rec(m + 1, g)
      BY <3>6, <3>7 DEF Rec
    <3> QED  BY <3>8, <2>2
  <2> HIDE DEF N
  <2>3. \A m \in Nat : m \in N  BY <2>1, <2>2, NatIs
  <2> QED  BY <2>3 DEF N
<1>6. Rec(n, after)
  <2> HIDE DEF Rec
  <2>1. n \in Nat  BY <1>4
  <2> QED  BY <2>1, <1>5
<1> HIDE DEF after
<1>7. \A i \in 0 .. n : after[i] = Next2(after, i)
  <2> HIDE DEF Next2
  <2> QED  BY <1>6
<1> HIDE DEF Rec
<1> DEFINE Good(i) == /\ Right(after[i], id, {}) /\ Serves(x, after[i], E)
                      /\ after[i].cnt = n - i
           N == {i \in Nat : i <= n => Good(i)}
<1>8. 0 \in N
  <2>1. 0 \in 0 .. n /\ n - 0 = n  BY <1>4
  <2>2. after[0] = x  BY <2>1, <1>7
  <2>3. Right(after[0], id, {}) /\ Serves(x, after[0], E)
    BY <2>2, <1>3, <1>4, ServesNone
  <2>4. Good(0)  BY <2>1, <2>2, <2>3 DEF n
  <2> QED  BY <2>4
<1>9. ASSUME NEW i \in Nat, i \in N PROVE i + 1 \in N
  <2> HIDE DEF Good
  <2>0. SUFFICES ASSUME i + 1 <= n PROVE Good(i + 1)
    OBVIOUS
  <2>1. i + 1 \in 0 .. n /\ i + 1 # 0 /\ (i + 1) - 1 = i /\ i <= n
    BY <1>4, <2>0
  <2>2. Good(i)  BY <1>9, <2>1
  <2> DEFINE p == after[i]
             y == after[i + 1]
  <2>3. y = ServeRequest(p)
    BY <2>1, <1>7
  <2>4. Right(p, id, {}) /\ Serves(x, p, E) /\ p.cnt = n - i
    BY <2>2 DEF Good
  <2> HIDE DEF p, y, N
  <2>5. p.cnt # 0 /\ p.cnt - 1 = n - (i + 1)
    BY <2>4, <2>0, <1>4
  <2>6. Right(y, id, {}) /\ Serves(p, y, Devices(p)) /\ y.cnt = n - (i + 1)
    BY <2>3, <2>4, <2>5, Served
  <2>7. Devices(p) = E
    BY <1>3, <2>4, DevicesSame DEF E
  <2>8. Serves(p, y, E)  BY <2>6, <2>7
  <2>9. Serves(x, y, E)  BY <2>4, <2>8, ServesAgain
  <2> QED  BY <2>6, <2>9 DEF Good, y
<1> HIDE DEF N
<1>10. n \in N
  <2>1. \A i \in Nat : i \in N  BY <1>8, <1>9, NatIs
  <2> QED  BY <2>1, <1>4
<1>11. Right(after[n], id, {}) /\ Serves(x, after[n], E) /\ after[n].cnt = 0
  BY <1>4, <1>10 DEF N
<1>12. Right(r2, id, {}) /\ Serves(after[n], r2, E) /\ r2.cnt = 0
  <2> DEFINE z == after[n]
  <2> HIDE DEF z
  <2>1. DOMAIN z = Fields  BY <1>11 DEF Right, Shape, z
  <2>2. Only(z, r2, {"IsrReq"})
    BY <1>1, <2>1 DEF ClearIsrReq, Only, Fields, z
  <2>3. {"IsrReq"} \subseteq Aside  BY DEF Aside
  <2>4. r2.cnt = z.cnt
    BY <2>2 DEF Only, Fields
  <2> QED  BY <1>11, <2>2, <2>3, <2>4, AsideChange DEF z
<1>13. Serves(x, r2, E)
  BY <1>11, <1>12, ServesAgain
<1>14. Serves(r, r2, E)
  BY <1>3, <1>13, ServesAgain
<1> QED  BY <1>12, <1>14 DEF E

-----------------------------------------------------------------------------
(* What an interrupt calls, and the tick.                                  *)
LEMMA KernelSame ==
  ASSUME NEW r, NEW id, NEW X, Right(r, id, X), NEW k2 \in Kernel,
         k2.state = r.k.state, k2.TCBRdy = r.k.TCBRdy, k2.prio = r.k.prio,
         NEW r2, r2 = [r EXCEPT !.k = k2]
  PROVE  Right(r2, id, X) /\ Only(r, r2, {"k"}) /\ r2.k = k2
<1>1. Only(r, r2, {"k"}) /\ r2.k = k2
  BY DEF Only, Fields, Right, Shape
<1>2. /\ r2.eventID = r.eventID /\ r2.delayTick = r.delayTick /\ r2.pnode = r.pnode
  BY <1>1 DEF Only, Fields
<1>3. ReadyRight(r2) /\ StatesRight(r2, X)
  BY <1>1, <1>2 DEF Right, ReadyRight, StatesRight, Waits
<1> QED  BY <1>1, <1>3, KernelChange

LEMMA PerformedNow ==
  ASSUME NEW r, NEW id, Right(r, id, {}), NEW q, RequestRight(r.app, q),
         NEW r2, r2 = PerformDirect(r, q)
  PROVE  Right(r2, id, {}) /\ Serves(r, r2, Devices(r))
<1> DEFINE r1 == Perform(r, q)
<1>0. r.k \in Kernel  BY DEF Right, Shape
<1>1. r2 = r \/ r2 = r1 \/ r2 = RespondSRQ(r1)
  BY DEF PerformDirect
<1> HIDE DEF r1
<1>2. Right(r1, id, {}) /\ Serves(r, r1, Devices(r) \ {NoEvent, Drains})
  BY Performed DEF r1
<1>3. Serves(r, r1, Devices(r))
  BY <1>2, ServesMore
<1>4. CASE r2 = r
  BY <1>0, <1>4, ServesNone
<1>5. CASE r2 = r1
  BY <1>2, <1>3, <1>5
<1>6. CASE r2 = RespondSRQ(r1)
  <2>1. Right(r2, id, {}) /\ Serves(r1, r2, Devices(r1))
    BY <1>2, <1>6, Responded
  <2>2. Devices(r1) = Devices(r)
    BY <1>2, DevicesSame
  <2> QED  BY <1>3, <2>1, <2>2, ServesAgain
<1> QED  BY <1>1, <1>4, <1>5, <1>6

LEMMA CalledFromIsr ==
  ASSUME NEW r, NEW id, Right(r, id, {}), NEW q, RequestRight(r.app, q),
         NEW r2, r2 = isr_Request(r, q)
  PROVE  /\ Right(r2, id, {}) /\ Serves(r, r2, Devices(r))
         /\ r.k.OSSchedLock # 0 => r2.k = r.k
<1>0. r.k \in Kernel /\ q \in DeviceRequest
  BY DEF Right, Shape, RequestRight
<1>1. r2 = FromIsr(r, q)
  <2>1. CASE q \in {"sem"} \X Event \X {NoMail}
    <3>1. q[1] = "sem" /\ q = <<"sem", q[2], NoMail>>  BY <2>1
    <3> QED  BY <3>1 DEF isr_Request, isr_PostSem
  <2>2. CASE q \in {"mbox", "queue"} \X Event \X Mail
    <3>1. q[1] \in {"mbox", "queue"} /\ q = <<q[1], q[2], q[3]>>  BY <2>2
    <3>2. CASE q[1] = "mbox"
      BY <3>1, <3>2 DEF isr_Request, isr_PostMail
    <3>3. CASE q[1] = "queue"
      BY <3>1, <3>3 DEF isr_Request, isr_PostQueueMail
    <3> QED  BY <3>1, <3>2, <3>3
  <2>3. CASE q \in {"flag"} \X Flag \X {NoMail}
    <3>1. q[1] = "flag" /\ q = <<"flag", q[2], NoMail>>  BY <2>3
    <3> QED  BY <3>1 DEF isr_Request, isr_SetFlag
  <2> QED  BY <1>0, <2>1, <2>2, <2>3 DEF DeviceRequest
<1>2. CASE r.k.OSSchedLock = 0
  <2>1. r2 = PerformDirect(r, q)  BY <1>1, <1>2 DEF FromIsr
  <2> QED  BY <1>2, <2>1, PerformedNow
<1>3. CASE r.k.OSSchedLock # 0 /\ SrqFull(r)
  <2>1. r2 = r  BY <1>1, <1>3 DEF FromIsr
  <2> QED  BY <2>1, <1>0, ServesNone
<1>4. CASE r.k.OSSchedLock # 0 /\ ~SrqFull(r)
  <2> DEFINE x == InsertInSRQ(r, q)
             E == Devices(r)
             out2 == x.out \cup ({q[3]} \ {NoMail})
  <2>1. r2 = [x EXCEPT !.out = out2]
    BY <1>1, <1>4 DEF FromIsr
  <2>2. NoEvent \in E  BY DEF Devices
  <2> HIDE DEF E, x, out2
  <2>3. Right(x, id, {}) /\ Serves(r, x, E)
    BY <1>4, <2>2, Requested DEF x
  <2>4. DOMAIN x = Fields  BY <2>3 DEF Right, Shape
  <2>5. x.k = r.k  BY DEF x, InsertInSRQ, Right, Shape, Fields
  <2>6. Only(x, r2, {"out"}) /\ r2.k = r.k
    BY <2>1, <2>4, <2>5 DEF Only, Fields
  <2>7. {"out"} \subseteq Aside  BY DEF Aside
  <2>8. Right(r2, id, {}) /\ Serves(x, r2, E)
    BY <2>3, <2>6, <2>7, AsideChange
  <2>9. Serves(r, r2, E)
    BY <2>3, <2>8, ServesAgain
  <2> QED  BY <2>6, <2>8, <2>9 DEF E
<1> QED  BY <1>2, <1>3, <1>4

(* The tick, from its entry r1 on.                                         *)
LEMMA Ticked ==
  ASSUME NEW r, NEW id, Right(r, id, {}), NEW r1, r1 = [r EXCEPT !.k = SysTickEntry(r.k)],
         NEW r2, r2 = Tick(r)
  PROVE  /\ Right(r1, id, {}) /\ Only(r, r1, {"k"}) /\ r1.k = SysTickEntry(r.k)
         /\ Right(r2, id, {}) /\ Serves(r1, r2, {NoEvent, Ticks}) /\ DelaysTick(r1, r2)
<1> DEFINE k2 == SysTickEntry(r.k)
           x == TickDelays(r1)
<1>0. r.k \in Kernel  BY DEF Right, Shape
<1>1. k2 \in Kernel /\ k2.state = r.k.state /\ k2.TCBRdy = r.k.TCBRdy /\ k2.prio = r.k.prio
  <2>1. PICK c \in Int : SysTickEntry(r.k) = [r.k EXCEPT !.OSSchedLock  = r.k.OSSchedLock + 1,
                                                         !.robin        = c,
                                                         !.TaskSchedReq = TRUE]
    BY <1>0, SysTickEntryFacts
  <2>2. SysTickEntry(r.k) \in Kernel  BY <1>0, SysTickEntryFacts
  <2>3. /\ SysTickEntry(r.k).state = r.k.state /\ SysTickEntry(r.k).TCBRdy = r.k.TCBRdy
        /\ SysTickEntry(r.k).prio = r.k.prio
    BY <1>0, <2>1 DEF Kernel
  <2> QED  BY <2>2, <2>3
<1>2. r1 = [r EXCEPT !.k = k2] /\ r2 = TickTimers(x)
  BY DEF Tick
<1> HIDE DEF k2, x
<1>3. Right(r1, id, {}) /\ Only(r, r1, {"k"}) /\ r1.k = k2
  <2>1. r1 = [r EXCEPT !.k = k2]  BY <1>2
  <2> QED  BY ONLY <1>1, <2>1, KernelSame, Right(r, id, {})
<1>4. Right(x, id, {}) /\ Serves(r1, x, {NoEvent, Ticks}) /\ DelaysTick(r1, x)
  BY <1>3, DelaysTicked DEF x
<1>5. Right(r2, id, {}) /\ Serves(x, r2, {NoEvent}) /\ Serves(x, r2, {NoEvent, Ticks})
  BY <1>2, <1>4, TimersTicked
<1>6. Serves(r1, r2, {NoEvent, Ticks})
  BY <1>4, <1>5, ServesAgain
<1>7. DelaysServed(x, r2)
  <2>1. Ticks \notin {NoEvent}
    BY EventAssumption DEF Ticks, NoEvent
  <2> QED  BY <1>5, <2>1 DEF Serves
<1>8. ASSUME NEW t \in Task, r1.delayTick[t] # NoDelay
      PROVE  IF r2.delayTick[t] # NoDelay
             THEN TicksLeft(r2, t) \in {TicksLeft(r1, t), TicksLeft(r1, t) - 1}
             ELSE TicksLeft(r1, t) <= 1 \/ Ended(r1, r2, t)
  <2>1. IF x.delayTick[t] # NoDelay
        THEN TicksLeft(x, t) \in {TicksLeft(r1, t), TicksLeft(r1, t) - 1}
        ELSE TicksLeft(r1, t) <= 1 \/ Ended(r1, x, t)
    BY <1>4, <1>8 DEF DelaysTick
  <2>2. /\ x.eventID[t] = r1.eventID[t] \/ x.eventID[t] = NoEvent
        /\ x.pnode[t] = r1.pnode[t] \/ r1.pnode[t] = "node"
        /\ r2.eventID[t] = x.eventID[t] \/ r2.eventID[t] = NoEvent
        /\ r2.pmail[t] = x.pmail[t] \/ x.eventID[t] # NoEvent
        /\ r2.pnode[t] = x.pnode[t] \/ x.pnode[t] = "node"
        /\ x.delayTick[t] = NoDelay => r2.delayTick[t] = NoDelay
    BY <1>4, <1>5 DEF Serves
  <2>3. CASE x.delayTick[t] = NoDelay
    <3>1. Ended(r1, x, t) => Ended(r1, r2, t)
      BY <2>2 DEF Ended
    <3> QED  BY <2>1, <2>2, <2>3, <3>1
  <2>4. CASE x.delayTick[t] # NoDelay
    <3>1. CASE r2.delayTick[t] # NoDelay
      <4>1. TicksLeft(r2, t) = TicksLeft(x, t)
        BY <1>7, <2>4, <3>1 DEF DelaysServed
      <4> QED  BY <2>1, <2>4, <3>1, <4>1
    <3>2. CASE r2.delayTick[t] = NoDelay
      <4>1. Ended(x, r2, t)
        BY <1>7, <2>4, <3>2 DEF DelaysServed
      <4>2. CASE TicksLeft(x, t) = 0
        <5>1. TicksLeft(r1, t) \in Nat
          <6>1. /\ r1.DlyList \in Seq(Task) /\ DelaysRight(r1)
                /\ r1.delayTick \in [Task -> Nat \cup {NoDelay}]
            BY <1>3 DEF Right, Shape
          <6>2. /\ Delayed(r1)
                /\ \E i \in 1 .. Len(r1.DlyList) : r1.DlyList[i] = t
            BY <1>8, <6>1, DelaysAt
          <6> QED  BY <6>2, TicksNat
        <5>2. TicksLeft(r1, t) <= 1
          BY <2>1, <2>4, <4>2, <5>1
        <5> QED  BY <3>2, <5>2
      <4>3. CASE ~(TicksLeft(x, t) = 0)
        <5>1. Ended(r1, r2, t)
          BY <2>2, <4>1, <4>3 DEF Ended
        <5> QED  BY <3>2, <5>1
      <4> QED  BY <4>2, <4>3
    <3> QED  BY <3>1, <3>2
  <2> QED  BY <2>3, <2>4
<1>9. DelaysTick(r1, r2)
  BY <1>8 DEF DelaysTick
<1> QED  BY <1>3, <1>5, <1>6, <1>9 DEF k2

-----------------------------------------------------------------------------
(* The links of a waiting list lead to its tasks in their order.           *)
LEMMA ListLength ==
  ASSUME NEW q \in Seq(Task), IsInjective(q)
  PROVE  Len(q) \in Nat /\ Len(q) <= MaxTask + 1
<1> DEFINE n == Len(q)
           S == 1 .. n
<1>1. n \in Nat /\ q \in [1 .. n -> Task]
  BY LenProperties
<1> HIDE DEF n
<1>2. q \in Injection(S, Task)
  BY <1>1 DEF Injection
<1>3. IsFiniteSet(Task) /\ Cardinality(Task) = MaxTask + 1
  BY FS_Interval, KernelAssumption DEF Task
<1>4. Cardinality(S) <= Cardinality(Task)
  <2> HIDE DEF S
  <2> QED  BY <1>2, <1>3, FS_Injection
<1>5. Cardinality(S) = n
  <2>1. Cardinality(1 .. n) = IF 1 > n THEN 0 ELSE n - 1 + 1
    BY <1>1, FS_Interval
  <2> QED  BY <1>1, <2>1
<1> QED  BY <1>1, <1>3, <1>4, <1>5 DEF n

LEMMA LinkedIs ==
  ASSUME NEW r, NEW e, NEW q, Chained(r, e, q)
  PROVE  WaitList(r, e) = q
<1> DEFINE M == MaxTask + 2
           l == Len(q)
           first == r.eventTCBList[e]
           next == r.waitNext
           Next2(g, i) == IF i = 1 THEN first
                          ELSE IF g[i - 1] = NoTask THEN NoTask ELSE next[g[i - 1]]
           Rec(m, g) == g = [i \in 1 .. m + 1 |-> Next2(g, i)]
           Rec2(g) == g = [i \in 1 .. M |-> Next2(g, i)]
           at == CHOOSE g : Rec2(g)
           Ends(i) == /\ \A j \in 1 .. i : at[j] # NoTask
                      /\ i = MaxTask + 1 \/ at[i + 1] = NoTask
           n == CHOOSE i \in 0 .. MaxTask + 1 : Ends(i)
<1>0. MaxTask \in Nat
  BY KernelAssumption
<1>1. WaitList(r, e) = [i \in 1 .. n |-> at[i]]
  BY DEF WaitList, Linked
<1>2. /\ q \in Seq(Task) /\ DOMAIN q = 1 .. l /\ l \in Nat /\ l <= MaxTask + 1
      /\ \A i \in 1 .. l : q[i] \in Task /\ q[i] # NoTask
      /\ first = IF l = 0 THEN NoTask ELSE q[1]
      /\ \A i \in 1 .. l : next[q[i]] = IF i < l THEN q[i + 1] ELSE NoTask
  <2>1. q \in Seq(Task) /\ IsInjective(q)  BY DEF Chained, Lists
  <2>2. l \in Nat /\ l <= MaxTask + 1 /\ DOMAIN q = 1 .. l /\ (q = <<>> <=> l = 0)
    BY <2>1, ListLength, LenProperties, EmptySeq
  <2>3. \A i \in 1 .. l : q[i] \in Task
    BY <2>1, ElementOfSeq
  <2>4. \A i \in 1 .. l : q[i] # NoTask
    BY <2>3, <1>0 DEF Task, NoTask
  <2>5. /\ first = IF q = <<>> THEN NoTask ELSE q[1]
        /\ \A i \in 1 .. l : next[q[i]] = IF i < l THEN q[i + 1] ELSE NoTask
    BY DEF Chained
  <2> QED  BY <2>1, <2>2, <2>3, <2>4, <2>5
<1> HIDE DEF l, first, next
<1>3. \A m \in Nat : \E g : Rec(m, g)
  <2> DEFINE N == {m \in Nat : \E g : Rec(m, g)}
  <2>1. 0 \in N
    <3> DEFINE g == [i \in 1 .. 0 + 1 |-> first]
    <3>1. \A i \in 1 .. 0 + 1 : g[i] = Next2(g, i)  OBVIOUS
    <3>2. g = [i \in 1 .. 0 + 1 |-> g[i]]  OBVIOUS
    <3> HIDE DEF g, Next2
    <3>3. Rec(0, g)  BY <3>1, <3>2
    <3> QED  BY <3>3
  <2>2. ASSUME NEW m \in Nat, m \in N PROVE m + 1 \in N
    <3>1. PICK f : Rec(m, f)  BY <2>2
    <3> DEFINE v == Next2(f, m + 2)
               g == [i \in 1 .. (m + 1) + 1 |-> IF i = m + 2 THEN v ELSE f[i]]
    <3>2. \A i \in 1 .. m + 2 : g[i] = IF i = m + 2 THEN v ELSE f[i]
      OBVIOUS
    <3>3. \A i \in 1 .. m + 1 : f[i] = Next2(f, i)
      <4> HIDE DEF Next2
      <4> QED  BY <3>1
    <3>4. v = Next2(f, m + 2)  OBVIOUS
    <3>5. g = [i \in 1 .. (m + 1) + 1 |-> g[i]]
      OBVIOUS
    <3>6. \A i \in 1 .. m + 2 : g[i] = Next2(g, i)
      <4> HIDE DEF g, v, Rec
      <4> TAKE i \in 1 .. m + 2
      <4>1. i = 1 \/ g[i - 1] = f[i - 1]
        <5>1. CASE i = 1  BY <5>1
        <5>2. CASE i # 1
          <6>1. i - 1 \in 1 .. m + 2 /\ i - 1 # m + 2  BY <5>2
          <6> QED  BY <6>1, <3>2
        <5> QED  BY <5>1, <5>2
      <4>2. Next2(g, i) = Next2(f, i)  BY <4>1
      <4> HIDE DEF Next2
      <4>3. CASE i = m + 2  BY <4>2, <4>3, <3>2, <3>4
      <4>4. CASE i # m + 2
        <5>1. i \in 1 .. m + 1  BY <4>4
        <5> QED  BY <5>1, <4>2, <4>4, <3>2, <3>3
      <4> QED  BY <4>3, <4>4
    <3> HIDE DEF g, Next2
    <3>7. (m + 1) + 1 = m + 2  OBVIOUS
    <3>8. Rec(m + 1, g)
      BY <3>5, <3>6, <3>7
    <3> QED  BY <3>8
  <2> HIDE DEF N
  <2>3. \A m \in Nat : m \in N  BY <2>1, <2>2, NatIs
  <2> QED  BY <2>3 DEF N
<1>4. Rec2(at)
  <2>1. MaxTask + 1 \in Nat /\ (MaxTask + 1) + 1 = M  BY <1>0
  <2>2. PICK g : Rec(MaxTask + 1, g)  BY <2>1, <1>3
  <2> HIDE DEF Next2, M
  <2>3. Rec2(g)  BY <2>1, <2>2
  <2> HIDE DEF Rec2
  <2> QED  BY <2>3
<1>5. \A i \in 1 .. M : at[i] = Next2(at, i)
  <2> HIDE DEF at, Next2, M
  <2> QED  BY <1>4
<1> HIDE DEF at, Rec, Rec2
<1> DEFINE N == {i \in Nat : i < l => at[i + 1] = q[i + 1]}
<1>6. 0 \in N
  <2>1. 1 \in 1 .. M /\ 0 + 1 = 1  BY <1>0
  <2>2. at[1] = first  BY <2>1, <1>5
  <2>3. 0 < l => first = q[1]  BY <1>2
  <2> QED  BY <2>1, <2>2, <2>3
<1>7. ASSUME NEW i \in Nat, i \in N PROVE i + 1 \in N
  <2> SUFFICES ASSUME i + 1 < l PROVE at[(i + 1) + 1] = q[(i + 1) + 1]
    OBVIOUS
  <2> DEFINE j == i + 1
  <2>1. j \in 1 .. l /\ j < l /\ j + 1 \in 1 .. M /\ j + 1 # 1 /\ (j + 1) - 1 = j /\ i < l
    BY <1>0, <1>2
  <2>2. at[j] = q[j]  BY <1>7, <2>1
  <2> HIDE DEF j
  <2>3. at[j + 1] = next[q[j]]  BY <2>1, <2>2, <1>2, <1>5
  <2> QED  BY <2>1, <2>3, <1>2 DEF j
<1> HIDE DEF N
<1>8. \A i \in 1 .. l : at[i] = q[i]
  <2>1. \A i \in Nat : i \in N  BY <1>6, <1>7, NatIs
  <2> TAKE i \in 1 .. l
  <2>2. i - 1 \in Nat /\ i - 1 < l /\ (i - 1) + 1 = i  BY <1>2
  <2>3. i - 1 \in N  BY <2>1, <2>2
  <2> QED  BY <2>2, <2>3 DEF N
<1>9. at[l + 1] = NoTask
  <2>1. l + 1 \in 1 .. M /\ (l + 1) - 1 = l  BY <1>0, <1>2
  <2>2. CASE l = 0
    <3>1. at[l + 1] = first  BY <2>1, <2>2, <1>5
    <3> QED  BY <3>1, <2>2, <1>2
  <2>3. CASE l # 0
    <3>1. l \in 1 .. l /\ l + 1 # 1 /\ ~(l < l)  BY <2>3, <1>2
    <3>2. at[l] = q[l] /\ q[l] # NoTask  BY <3>1, <1>2, <1>8
    <3>3. at[l + 1] = next[q[l]]  BY <2>1, <3>1, <3>2, <1>5
    <3> QED  BY <3>1, <3>3, <1>2
  <2> QED  BY <2>2, <2>3
<1>10. n = l
  <2>1. l \in 0 .. MaxTask + 1 /\ Ends(l)
    BY <1>0, <1>2, <1>8, <1>9
  <2>2. ASSUME NEW i \in 0 .. MaxTask + 1, Ends(i) PROVE i = l
    <3>1. CASE i < l
      <4>1. i + 1 \in 1 .. l /\ i # MaxTask + 1  BY <3>1, <1>0, <1>2
      <4>2. at[i + 1] # NoTask  BY <4>1, <1>2, <1>8
      <4> QED  BY <2>2, <4>1, <4>2
    <3>2. CASE i > l
      <4>1. l + 1 \in 1 .. i  BY <3>2, <1>2
      <4> QED  BY <2>2, <4>1, <1>9
    <3>3. i < l \/ i > l \/ i = l  BY <1>2
    <3> QED  BY <3>1, <3>2, <3>3
  <2> HIDE DEF Ends
  <2> QED  BY <2>1, <2>2
<1> HIDE DEF n
<1>11. WaitList(r, e) = [i \in 1 .. l |-> q[i]]
  BY <1>1, <1>8, <1>10
<1> QED  BY <1>2, <1>11

-----------------------------------------------------------------------------
(* A task is put to wait.                                                  *)
WaitKernel(k, t) == RequestSchedule([k EXCEPT !.state[t] = "WAITING"])

LEMMA WaitKernelFacts ==
  ASSUME NEW k \in Kernel, NEW t \in Task
  PROVE  LET k2 == WaitKernel(k, t)
         IN  /\ k2 \in Kernel /\ k2.TaskSchedReq
             /\ k2.state = [k.state EXCEPT ![t] = "WAITING"]
             /\ k2.prio = k.prio /\ k2.TCBRdy = k.TCBRdy
             /\ k2.TCBRunning = k.TCBRunning /\ k2.TCBNext = k.TCBNext
             /\ k2.OSSchedLock = k.OSSchedLock /\ k2.OSIntNesting = k.OSIntNesting
             /\ k2.PendSV = k.PendSV
<1> DEFINE k1 == [k EXCEPT !.state[t] = "WAITING"]
           k2 == WaitKernel(k, t)
<1>1. /\ k1 \in Kernel /\ k1.state = [k.state EXCEPT ![t] = "WAITING"]
      /\ k1.prio = k.prio /\ k1.TCBRdy = k.TCBRdy
      /\ k1.TCBRunning = k.TCBRunning /\ k1.TCBNext = k.TCBNext
      /\ k1.OSSchedLock = k.OSSchedLock /\ k1.OSIntNesting = k.OSIntNesting
      /\ k1.PendSV = k.PendSV
  BY DEF Kernel, TaskState
<1>2. k2 = RequestSchedule(k1)  BY DEF WaitKernel
<1> HIDE DEF k1, k2
<1>3. /\ k2 \in Kernel /\ k2.TaskSchedReq = TRUE /\ k2.state = k1.state
      /\ k2.prio = k1.prio /\ k2.TCBRdy = k1.TCBRdy
      /\ k2.TCBRunning = k1.TCBRunning /\ k2.TCBNext = k1.TCBNext
      /\ k2.OSSchedLock = k1.OSSchedLock /\ k2.OSIntNesting = k1.OSIntNesting
      /\ k2.PendSV = k1.PendSV
  BY <1>1, <1>2, RequestFacts
<1> QED  BY <1>1, <1>3 DEF k2

LEMMA KernelWaits ==
  ASSUME NEW r, NEW id, NEW X, Right(r, id, X), NEW t \in Task,
         r.k.state[t] \in {"RUNNING", "WAITING"},
         NEW r2, r2 = [r EXCEPT !.k = WaitKernel(r.k, t)]
  PROVE  Right(r2, id, X \cup {t}) /\ Only(r, r2, {"k"}) /\ r2.k = WaitKernel(r.k, t)
<1> DEFINE k2 == WaitKernel(r.k, t)
<1>0. r.k \in Kernel /\ DOMAIN r = Fields /\ r.k.state \in [Task -> TaskState]
  BY DEF Right, Shape, Kernel
<1>1. /\ k2 \in Kernel /\ k2.state = [r.k.state EXCEPT ![t] = "WAITING"]
      /\ k2.prio = r.k.prio /\ k2.TCBRdy = r.k.TCBRdy
  BY <1>0, WaitKernelFacts
<1> HIDE DEF k2
<1>2. Only(r, r2, {"k"}) /\ r2.k = k2
  BY <1>0 DEF Only, Fields, k2
<1>3. r2.eventID = r.eventID /\ r2.delayTick = r.delayTick /\ r2.pnode = r.pnode
  BY <1>2 DEF Only, Fields
<1>4. ReadyRight(r2)
  <2>1. Lists(r.k.TCBRdy, {u \in Task : r.k.state[u] = "READY"})
    BY DEF Right, ReadyRight
  <2>2. \A u \in Task : k2.state[u] = "READY" <=> r.k.state[u] = "READY"
    BY <1>0, <1>1
  <2> QED  BY <1>1, <1>2, <2>1, <2>2, ListSame DEF ReadyRight
<1>5. StatesRight(r2, X \cup {t})
  BY <1>0, <1>1, <1>2, <1>3 DEF Right, StatesRight, Waits
<1>6. Right(r2, id, X \cup {t})
  BY <1>1, <1>2, <1>4, <1>5, KernelChange
<1> QED  BY <1>2, <1>6 DEF k2

LEMMA EventWaits ==
  ASSUME NEW r0, NEW id, Right(r0, id, {}), NEW t \in Task, NEW e \in Event,
         r0.k.state[t] = "RUNNING", r0.eventType[e] # "invalid",
         r0.pnode[t] = "null", r0.pmail[t] = NoMail, id[t] = e,
         NEW r2, r2 = EventTaskToWait(r0, e, t)
  PROVE  /\ Right(r2, id, {})
         /\ Only(r0, r2, {"eventTCBList", "eventID", "waitNext", "waitPrev", "k"})
         /\ r2.eventID = [r0.eventID EXCEPT ![t] = e]
         /\ r2.k = WaitKernel(r0.k, t)
<1> DEFINE r == [r0 EXCEPT !.k = WaitKernel(r0.k, t)]
           list == WaitList(r0, e)
           i == IF r0.eventSortType[e] = "prio"
                THEN InsertPos(list, r0.k.prio, r0.k.prio[t])
                ELSE Len(list) + 1
           prev == IF i > 1 THEN list[i - 1] ELSE NoTask
           next == IF i <= Len(list) THEN list[i] ELSE NoTask
           l2 == IF i = 1 THEN [r0.eventTCBList EXCEPT ![e] = t] ELSE r0.eventTCBList
           n2 == [u \in Task |-> CASE u = prev -> t [] u = t /\ next # NoTask -> next
                                   [] OTHER -> r0.waitNext[u]]
           p2 == [u \in Task |-> CASE u = next -> t [] u = t /\ prev # NoTask -> prev
                                   [] OTHER -> r0.waitPrev[u]]
           i2 == [r0.eventID EXCEPT ![t] = e]
<1>1. /\ DOMAIN r0 = Fields /\ r0.eventTCBList \in [Event -> Link]
      /\ r0.eventID \in [Task -> Event \cup {NoEvent}]
      /\ r0.waitNext \in [Task -> Link] /\ r0.waitPrev \in [Task -> Link]
      /\ ChainsRight(r0) /\ StatesRight(r0, {}) /\ WaitersRight(r0, id)
      /\ r0.k \in Kernel /\ r0.k.prio \in [Task -> Nat]
  BY DEF Right, Shape, Kernel
<1>2. NoEvent \notin Event /\ NoTask \notin Task
  BY <1>1, EventAssumption, KernelAssumption DEF Event, NoEvent, NoTask, Task
<1>2a. r0.eventID[t] = NoEvent /\ r0.waitNext[t] = NoTask /\ r0.waitPrev[t] = NoTask
  BY <1>1 DEF StatesRight, Waits, ChainsRight
<1>3. PICK q \in Seq(Task) : Chained(r0, e, q)
  BY <1>1 DEF ChainsRight
<1>3a. list = q
  BY <1>3, LinkedIs
<1> HIDE DEF list
<1> DEFINE n == Len(q)
           q2 == InsertAt(q, i, t)
<1>4. n \in Nat /\ (\A j \in 1 .. n : q[j] \in Task) /\ r0.k.prio[t] \in Nat
  BY <1>1, LenProperties, ElementOfSeq
<1>5. Lists(q, {u \in Task : r0.eventID[u] = e})
  BY <1>3 DEF Chained
<1>6. /\ i \in 1 .. n + 1
      /\ r0.eventSortType[e] = "prio" =>
           /\ \A j \in 1 .. i - 1 : r0.k.prio[q[j]] <= r0.k.prio[t]
           /\ i <= n => r0.k.prio[t] < r0.k.prio[q[i]]
  <2>1. CASE r0.eventSortType[e] = "prio"
    <3>1. i = InsertPos(q, r0.k.prio, r0.k.prio[t])  BY <2>1, <1>3a
    <3> HIDE DEF i
    <3> QED  BY <3>1, <1>1, <1>4, InsertPosFacts
  <2>2. CASE r0.eventSortType[e] # "prio"
    <3>1. i = n + 1  BY <2>2, <1>3a
    <3> HIDE DEF i, n
    <3> QED  BY <3>1, <2>2, <1>4
  <2> QED  BY <2>1, <2>2
<1>7. /\ q2 \in Seq(Task) /\ Lists(q2, {u \in Task : r0.eventID[u] = e} \cup {t})
      /\ Len(q2) = n + 1
      /\ \A j \in 1 .. n + 1 : q2[j] = IF j < i THEN q[j] ELSE IF j = i THEN t ELSE q[j - 1]
  <2> DEFINE S == {u \in Task : r0.eventID[u] = e}
  <2>1. t \notin S  BY <1>2, <1>2a
  <2> HIDE DEF i, S
  <2>2. q2 \in Seq(Task) /\ Lists(q2, S \cup {t})
    BY <2>1, <1>5, <1>6, ListMore DEF S
  <2>3. Len(q2) = n + 1
        /\ \A j \in 1 .. n + 1 : q2[j] = IF j < i THEN q[j] ELSE IF j = i THEN t ELSE q[j - 1]
    BY <1>6, InsertAtFacts
  <2> QED  BY <2>2, <2>3 DEF S
<1>8. \A j, l \in 1 .. n : q[j] = q[l] => j = l
  BY <1>5, LenProperties DEF Lists, IsInjective
<1>9. \A j \in 1 .. n : r0.eventID[q[j]] = e
  BY <1>4, <1>5, LenProperties DEF Lists, Range
<1>10. \A j \in 1 .. n : /\ r0.waitNext[q[j]] = IF j < n THEN q[j + 1] ELSE NoTask
                         /\ r0.waitPrev[q[j]] = IF j > 1 THEN q[j - 1] ELSE NoTask
  BY <1>3 DEF Chained
<1>11. r0.eventTCBList[e] = IF q = <<>> THEN NoTask ELSE q[1]
  BY <1>3 DEF Chained
<1>12. r2 = [r0 EXCEPT !.eventID = i2, !.eventTCBList = l2, !.waitNext = n2, !.waitPrev = p2,
                       !.k = WaitKernel(r0.k, t)]
  BY DEF EventTaskToWait, WaitKernel, list
<1>13. /\ next = (IF i <= n THEN q[i] ELSE NoTask)
       /\ prev = (IF i > 1 THEN q[i - 1] ELSE NoTask)
  BY <1>3a
<1> HIDE DEF i, q2
<1>14. /\ next # NoTask => next \in Task /\ r0.eventID[next] = e
       /\ prev # NoTask => prev \in Task /\ r0.eventID[prev] = e
       /\ next = NoTask \/ next # prev
  <2>1. i <= n => i \in 1 .. n  BY <1>4, <1>6
  <2>2. i > 1 => i - 1 \in 1 .. n  BY <1>4, <1>6
  <2>3. i - 1 # i  BY <1>6
  <2> QED  BY <2>1, <2>2, <2>3, <1>2, <1>4, <1>8, <1>9, <1>13
<1>14a. next # t /\ prev # t
  BY <1>2, <1>2a, <1>14
<1>15. next \in Link /\ prev \in Link /\ t \in Link
  BY <1>14 DEF Link
<1> HIDE DEF next, prev
<1>16. l2 \in [Event -> Link] /\ n2 \in [Task -> Link] /\ p2 \in [Task -> Link]
       /\ i2 \in [Task -> Event \cup {NoEvent}]
  BY <1>1, <1>15
<1>17. /\ prev \in Task => n2[prev] = t
       /\ next \in Task => p2[next] = t
       /\ n2[t] = next /\ p2[t] = prev
       /\ \A u \in Task : u # t /\ u # prev => n2[u] = r0.waitNext[u]
       /\ \A u \in Task : u # t /\ u # next => p2[u] = r0.waitPrev[u]
       /\ l2[e] = (IF i = 1 THEN t ELSE r0.eventTCBList[e])
       /\ \A f \in Event \ {e} : l2[f] = r0.eventTCBList[f]
       /\ i2[t] = e /\ \A u \in Task \ {t} : i2[u] = r0.eventID[u]
  BY <1>1, <1>2, <1>2a, <1>14a
<1> HIDE DEF l2, n2, p2, i2
<1>18. /\ r2.eventTCBList = l2 /\ r2.waitNext = n2 /\ r2.waitPrev = p2 /\ r2.eventID = i2
       /\ r2.k = WaitKernel(r0.k, t)
       /\ Only(r0, r2, {"eventTCBList", "eventID", "waitNext", "waitPrev", "k"})
  BY <1>1, <1>12 DEF Only, Fields
<1>18a. Right(r, id, {t}) /\ Only(r0, r, {"k"}) /\ r.k = WaitKernel(r0.k, t)
  <2>1. Right(r, id, {} \cup {t}) /\ Only(r0, r, {"k"}) /\ r.k = WaitKernel(r0.k, t)
    BY KernelWaits
  <2> HIDE DEF r
  <2> QED  BY <2>1
<1> HIDE DEF r
<1>18b. Only(r, r2, {"eventTCBList", "eventID", "waitNext", "waitPrev"})
  BY <1>18, <1>18a DEF Only, Fields
<1>18c. r.k \in Kernel /\ r.k.state = [r0.k.state EXCEPT ![t] = "WAITING"] /\ r.k.prio = r0.k.prio
  <2> DEFINE k2 == WaitKernel(r0.k, t)
  <2>1. k2 \in Kernel /\ k2.state = [r0.k.state EXCEPT ![t] = "WAITING"] /\ k2.prio = r0.k.prio
    BY <1>1, WaitKernelFacts
  <2> HIDE DEF k2
  <2>2. r.k = k2  BY <1>18a DEF k2
  <2> QED  BY <2>1, <2>2
<1>19. /\ r2.k = r.k /\ r2.eventSortType = r0.eventSortType /\ r2.pnode = r0.pnode
       /\ r2.delayTick = r0.delayTick /\ r2.pmail = r0.pmail /\ r2.eventType = r0.eventType
  BY <1>18, <1>18a DEF Only, Fields
<1>20. Chained(r2, e, q2)
  <2>1. Lists(q2, {u \in Task : r2.eventID[u] = e})
    BY <1>2, <1>7, <1>17, <1>18, ListSame
  <2>2. r2.eventTCBList[e] = IF q2 = <<>> THEN NoTask ELSE q2[1]
    <3>1. q2 # <<>>
      <4>1. q2 = <<>> <=> Len(q2) = 0  BY <1>7, EmptySeq
      <4> QED  BY <4>1, <1>4, <1>7
    <3>2. q = <<>> <=> n = 0
      BY EmptySeq
    <3>3. CASE i = 1
      <4>1. q2[1] = t  BY <3>3, <1>4, <1>7
      <4> QED  BY <4>1, <3>1, <3>3, <1>17, <1>18
    <3>4. CASE i # 1
      <4>1. q2[1] = q[1] /\ n # 0  BY <3>4, <1>4, <1>6, <1>7
      <4>2. r2.eventTCBList[e] = r0.eventTCBList[e]  BY <3>4, <1>17, <1>18
      <4> HIDE DEF n
      <4>3. r0.eventTCBList[e] = q[1]  BY <4>1, <3>2, <1>11
      <4> QED  BY <3>1, <4>1, <4>2, <4>3
    <3> QED  BY <3>3, <3>4
  <2>3. \A j \in 1 .. Len(q2) : n2[q2[j]] = IF j < Len(q2) THEN q2[j + 1] ELSE NoTask
    <3> SUFFICES ASSUME NEW j \in 1 .. n + 1
                 PROVE  n2[q2[j]] = IF j < n + 1 THEN q2[j + 1] ELSE NoTask
      BY <1>7
    <3>1. CASE j < i - 1
      <4>0. /\ j \in 1 .. n + 1 /\ j + 1 \in 1 .. n + 1 /\ j < i /\ j + 1 < i
            /\ j < n /\ j \in 1 .. n
        BY <3>1, <1>4, <1>6
      <4>1. q2[j] = q[j] /\ q2[j + 1] = q[j + 1] /\ j < n /\ j \in 1 .. n
        BY <4>0, <1>7
      <4>2. q[j] # t /\ q[j] # prev /\ q[j] \in Task
        BY <3>1, <4>1, <1>2, <1>2a, <1>4, <1>6, <1>8, <1>9, <1>13
      <4> QED  BY <4>1, <4>2, <1>4, <1>10, <1>17
    <3>2. CASE j = i - 1
      <4>1. q2[j] = q[j] /\ prev = q[j] /\ prev \in Task
        BY <3>2, <1>4, <1>6, <1>7, <1>13
      <4>2. j < n + 1 /\ q2[j + 1] = t
        BY <3>2, <1>4, <1>6, <1>7
      <4> QED  BY <4>1, <4>2, <1>17
    <3>3. CASE j = i
      <4>1. q2[j] = t
        BY <3>3, <1>4, <1>6, <1>7
      <4>2. j < n + 1 => q2[j + 1] = q[i] /\ i <= n
        BY <3>3, <1>4, <1>6, <1>7
      <4>3. ~(j < n + 1) => ~(i <= n)
        BY <3>3, <1>4, <1>6
      <4> QED  BY <4>1, <4>2, <4>3, <1>13, <1>17
    <3>4. CASE j > i
      <4>1. q2[j] = q[j - 1] /\ j - 1 \in 1 .. n
        BY <3>4, <1>4, <1>6, <1>7
      <4>2. q[j - 1] # t /\ q[j - 1] # prev /\ q[j - 1] \in Task
        BY <3>4, <4>1, <1>2, <1>2a, <1>4, <1>6, <1>8, <1>9, <1>13
      <4>3. j < n + 1 => q2[j + 1] = q[j]
        BY <3>4, <1>4, <1>6, <1>7
      <4>4. n2[q[j - 1]] = IF j - 1 < n THEN q[(j - 1) + 1] ELSE NoTask
        BY <4>1, <4>2, <1>10, <1>17
      <4>5. (j - 1) + 1 = j /\ (j - 1 < n <=> j < n + 1)
        BY <1>4
      <4> QED  BY <4>1, <4>3, <4>4, <4>5
    <3> QED  BY <3>1, <3>2, <3>3, <3>4, <1>4, <1>6
  <2>4. \A j \in 1 .. Len(q2) : p2[q2[j]] = IF j > 1 THEN q2[j - 1] ELSE NoTask
    <3> SUFFICES ASSUME NEW j \in 1 .. n + 1
                 PROVE  p2[q2[j]] = IF j > 1 THEN q2[j - 1] ELSE NoTask
      BY <1>7
    <3>1. CASE j < i
      <4>0. /\ j \in 1 .. n + 1 /\ j < i /\ j \in 1 .. n
            /\ j > 1 => j - 1 \in 1 .. n + 1 /\ j - 1 < i
        BY <3>1, <1>4, <1>6
      <4>1. q2[j] = q[j] /\ j \in 1 .. n /\ (j > 1 => q2[j - 1] = q[j - 1])
        BY <4>0, <1>7
      <4>2. q[j] # t /\ q[j] # next /\ q[j] \in Task
        BY <3>1, <4>1, <1>2, <1>2a, <1>4, <1>6, <1>8, <1>9, <1>13
      <4> QED  BY <4>1, <4>2, <1>10, <1>17
    <3>2. CASE j = i
      <4>1. q2[j] = t
        BY <3>2, <1>4, <1>6, <1>7
      <4>2. j > 1 => q2[j - 1] = q[i - 1] /\ i > 1
        BY <3>2, <1>4, <1>6, <1>7
      <4>3. ~(j > 1) => ~(i > 1)
        BY <3>2
      <4> QED  BY <4>1, <4>2, <4>3, <1>13, <1>17
    <3>3. CASE j = i + 1
      <4>1. q2[j] = q[i] /\ i <= n /\ next = q[i] /\ next \in Task
        BY <3>3, <1>4, <1>6, <1>7, <1>13
      <4>2. j > 1 /\ q2[j - 1] = t
        BY <3>3, <1>4, <1>6, <1>7
      <4> QED  BY <4>1, <4>2, <1>17
    <3>4. CASE j > i + 1
      <4>1. q2[j] = q[j - 1] /\ j - 1 \in 1 .. n /\ j - 1 > 1 /\ j > 1 /\ q2[j - 1] = q[(j - 1) - 1]
        BY <3>4, <1>4, <1>6, <1>7
      <4>2. q[j - 1] # t /\ q[j - 1] # next /\ q[j - 1] \in Task
        BY <3>4, <4>1, <1>2, <1>2a, <1>4, <1>6, <1>8, <1>9, <1>13
      <4>3. p2[q[j - 1]] = IF j - 1 > 1 THEN q[(j - 1) - 1] ELSE NoTask
        BY <4>1, <4>2, <1>10, <1>17
      <4> QED  BY <4>1, <4>3
    <3> QED  BY <3>1, <3>2, <3>3, <3>4, <1>4, <1>6
  <2>5. r2.eventSortType[e] = "prio" =>
          \A j, l \in 1 .. Len(q2) : j < l => r2.k.prio[q2[j]] <= r2.k.prio[q2[l]]
    <3> SUFFICES ASSUME r0.eventSortType[e] = "prio", NEW j \in 1 .. n + 1, NEW l \in 1 .. n + 1,
                        j < l
                 PROVE  r0.k.prio[q2[j]] <= r0.k.prio[q2[l]]
      BY <1>7, <1>18c, <1>19
    <3> DEFINE pr(a) == r0.k.prio[q[a]]
               pt == r0.k.prio[t]
    <3>1. /\ \A a, b \in 1 .. n : a < b => pr(a) <= pr(b)
          /\ \A a \in 1 .. n : pr(a) \in Nat
      BY <1>1, <1>3, <1>4 DEF Chained
    <3>2. pt \in Nat /\ \A a \in 1 .. i - 1 : pr(a) <= pt
      BY <1>4, <1>6
    <3>3. \A a \in 1 .. n : a >= i => pt <= pr(a)
      <4> TAKE a \in 1 .. n
      <4> HAVE a >= i
      <4>1. i \in 1 .. n /\ pt < pr(i)  BY <1>4, <1>6
      <4>2. pr(i) <= pr(a)
        <5>1. CASE i = a  BY <5>1, <4>1, <3>1
        <5>2. CASE i # a
          <6>1. i < a  BY <5>2, <1>4, <1>6
          <6> QED  BY <6>1, <4>1, <3>1
        <5> QED  BY <5>1, <5>2
      <4> HIDE DEF pr, pt
      <4>3. pr(i) \in Nat /\ pr(a) \in Nat  BY <4>1, <3>1
      <4> QED  BY <4>1, <4>2, <4>3, <3>2
    <3>4. CASE j < i /\ l < i
      <4>1. q2[j] = q[j] /\ q2[l] = q[l] /\ j \in 1 .. n /\ l \in 1 .. n
        BY <3>4, <1>4, <1>6, <1>7
      <4> QED  BY <4>1, <3>1
    <3>5. CASE j < i /\ l = i
      <4>1. q2[j] = q[j] /\ q2[l] = t /\ j \in 1 .. i - 1
        BY <3>5, <1>4, <1>6, <1>7
      <4> QED  BY <4>1, <3>2
    <3>6. CASE j < i /\ l > i
      <4>1. q2[j] = q[j] /\ q2[l] = q[l - 1] /\ j \in 1 .. n /\ l - 1 \in 1 .. n /\ j < l - 1
        BY <3>6, <1>4, <1>6, <1>7
      <4> QED  BY <4>1, <3>1
    <3>7. CASE j = i
      <4>1. q2[j] = t /\ q2[l] = q[l - 1] /\ l - 1 \in 1 .. n /\ l - 1 >= i
        BY <3>7, <1>4, <1>6, <1>7
      <4> QED  BY <4>1, <3>3
    <3>8. CASE j > i
      <4>1. /\ q2[j] = q[j - 1] /\ q2[l] = q[l - 1]
            /\ j - 1 \in 1 .. n /\ l - 1 \in 1 .. n /\ j - 1 < l - 1
        BY <3>8, <1>4, <1>6, <1>7
      <4> QED  BY <4>1, <3>1
    <3> QED  BY <3>4, <3>5, <3>6, <3>7, <3>8, <1>4, <1>6
  <2> QED  BY <2>1, <2>2, <2>3, <2>4, <2>5, <1>7, <1>18 DEF Chained
<1>21. ASSUME NEW f \in Event, f # e, NEW p, Chained(r0, f, p) PROVE Chained(r2, f, p)
  <2>1. p \in Seq(Task) /\ Lists(p, {u \in Task : r0.eventID[u] = f})
    BY <1>21 DEF Chained
  <2>2. \A j \in 1 .. Len(p) : p[j] \in Task /\ r0.eventID[p[j]] = f
    BY <2>1, LenProperties, ElementOfSeq DEF Lists, Range
  <2>3. \A j \in 1 .. Len(p) : n2[p[j]] = r0.waitNext[p[j]] /\ p2[p[j]] = r0.waitPrev[p[j]]
    BY <2>2, <1>2, <1>2a, <1>14, <1>17, <1>21
  <2>4. Lists(p, {u \in Task : r2.eventID[u] = f})
    BY <2>1, <1>2, <1>2a, <1>17, <1>18, <1>21, ListSame
  <2>5. r2.eventTCBList[f] = r0.eventTCBList[f]
    BY <1>17, <1>18, <1>21
  <2> QED  BY <2>1, <2>3, <2>4, <2>5, <1>18, <1>18c, <1>19, <1>21 DEF Chained
<1>22. ChainsRight(r2)
  <2>1. \A f \in Event : \E p \in Seq(Task) : Chained(r2, f, p)
    BY <1>1, <1>7, <1>20, <1>21 DEF ChainsRight
  <2>2. \A u \in Task : i2[u] = NoEvent => n2[u] = NoTask /\ p2[u] = NoTask
    <3> SUFFICES ASSUME NEW u \in Task, i2[u] = NoEvent PROVE n2[u] = NoTask /\ p2[u] = NoTask
      OBVIOUS
    <3>1. u # t /\ r0.eventID[u] = NoEvent  BY <1>2, <1>17
    <3>2. u # prev /\ u # next  BY <3>1, <1>2, <1>14
    <3>3. r0.waitNext[u] = NoTask /\ r0.waitPrev[u] = NoTask  BY <3>1, <1>1 DEF ChainsRight
    <3> QED  BY <3>1, <3>2, <3>3, <1>17
  <2> QED  BY <2>1, <2>2, <1>18 DEF ChainsRight
<1>23. StatesRight(r2, {})
  <2>1. r.k.state[t] = "WAITING" /\ \A u \in Task \ {t} : r.k.state[u] = r0.k.state[u]
    BY <1>1, <1>18c DEF Kernel
  <2>2. r2.eventID[t] = e /\ \A u \in Task \ {t} : r2.eventID[u] = r0.eventID[u]
    BY <1>17, <1>18
  <2>3. r0.delayTick[t] = NoDelay
    BY <1>1 DEF StatesRight, Waits
  <2> QED  BY <1>1, <1>2, <1>19, <2>1, <2>2, <2>3 DEF StatesRight, Waits
<1>24. WaitersRight(r2, id)
  BY <1>1, <1>2, <1>17, <1>18, <1>19 DEF WaitersRight
<1>25. Right(r2, id, {})
  BY <1>16, <1>18, <1>18a, <1>18b, <1>22, <1>23, <1>24, ChainsChange
<1> QED  BY <1>18, <1>25 DEF i2

LEMMA DelayInserted ==
  ASSUME NEW r, NEW id, NEW X, Right(r, id, X), NEW t \in Task, NEW ticks \in Nat \ {0},
         r.delayTick[t] = NoDelay, r.pnode[t] # "set",
         r.k.state[t] \in {"RUNNING", "WAITING"}, NEW r2, r2 = InsertDelayList(r, t, ticks)
  PROVE  /\ Right(r2, id, X \ {t}) /\ Only(r, r2, {"DlyList", "delayTick", "k"})
         /\ r2.delayTick[t] # NoDelay /\ r2.k = WaitKernel(r.k, t)
         /\ \A u \in Task \ {t} : r2.delayTick[u] = NoDelay <=> r.delayTick[u] = NoDelay
<1> DEFINE q    == r.DlyList
           n    == Len(q)
           due  == Due(r)
           At2(j) == /\ \A l \in 1 .. j - 1 : due[l] <= ticks
                     /\ j <= n => ticks < due[j]
           i    == CHOOSE j \in 1 .. n + 1 : At2(j)
           mine == ticks - due[i - 1]
           next == i <= n
           u2   == q[i]
           d2   == [u \in Task |-> CASE u = t -> mine
                                     [] next /\ u = u2 -> r.delayTick[u] - mine
                                     [] OTHER -> r.delayTick[u]]
           r1   == [r EXCEPT !.k = WaitKernel(r.k, t)]
<1>1. /\ DOMAIN r = Fields /\ q \in Seq(Task) /\ r.delayTick \in [Task -> Nat \cup {NoDelay}]
      /\ Lists(q, {u \in Task : r.delayTick[u] # NoDelay}) /\ StatesRight(r, X)
      /\ r.k \in Kernel
  BY DEF Right, Shape, DelaysRight
<1>2. n \in Nat /\ \A j \in 1 .. n : q[j] \in Task
  BY <1>1, LenProperties, ElementOfSeq
<1>3. \A j \in 1 .. n : q[j] # t /\ r.delayTick[q[j]] \in Nat /\ r.delayTick[q[j]] # NoDelay
  BY <1>1, <1>2, LenProperties DEF Lists, Range
<1>4. r2 = [r EXCEPT !.DlyList = InsertAt(q, i, t), !.delayTick = d2, !.k = WaitKernel(r.k, t)]
  BY DEF InsertDelayList, WaitKernel
<1>5. /\ due[0] = 0
      /\ \A j \in 1 .. n : due[j] = due[j - 1] + r.delayTick[q[j]]
      /\ \A j \in 0 .. n : due[j] \in Nat
  BY <1>1, <1>3, DueFacts
<1> HIDE DEF due
<1>6. i \in 1 .. n + 1 /\ At2(i)
  <2>1. \E j \in 1 .. n + 1 : At2(j)
    BY <1>1, <1>3, InsertPlace DEF due
  <2> QED  BY <2>1
<1> HIDE DEF i
<1>7. mine \in Nat
  <2>1. CASE i = 1
    BY <2>1, <1>5
  <2>2. CASE i # 1
    <3>1. i - 1 \in 1 .. i - 1 /\ i - 1 \in 0 .. n  BY <2>2, <1>2, <1>6
    <3>2. due[i - 1] <= ticks /\ due[i - 1] \in Nat  BY <3>1, <1>5, <1>6
    <3> QED  BY <3>2
  <2> QED  BY <2>1, <2>2
<1>8. next => u2 \in Task /\ u2 # t /\ r.delayTick[u2] \in Nat /\ r.delayTick[u2] - mine \in Nat
  <2> HAVE next
  <2>1. i \in 1 .. n /\ i - 1 \in 0 .. n /\ i \in 0 .. n  BY <1>2, <1>6
  <2>2. /\ u2 \in Task /\ u2 # t /\ r.delayTick[u2] \in Nat
        /\ due[i] = due[i - 1] + r.delayTick[u2] /\ due[i - 1] \in Nat /\ ticks < due[i]
    BY <2>1, <1>2, <1>3, <1>5, <1>6
  <2>3. r.delayTick[u2] - mine \in Nat
    BY <2>2
  <2> QED  BY <2>2, <2>3
<1> HIDE DEF mine, next, u2
<1>9. d2 \in [Task -> Nat \cup {NoDelay}] /\ d2[t] \in Nat
  BY <1>1, <1>7, <1>8 DEF NoDelay
<1>10. d2[t] # NoDelay
  BY <1>9 DEF NoDelay
<1>11. \A u \in Task \ {t} : d2[u] = NoDelay <=> r.delayTick[u] = NoDelay
  BY <1>1, <1>8 DEF NoDelay
<1>12. InsertAt(q, i, t) \in Seq(Task)
       /\ Lists(InsertAt(q, i, t), {u \in Task : r.delayTick[u] # NoDelay} \cup {t})
  BY <1>1, <1>6, ListMore
<1> HIDE DEF d2
<1>13. /\ r2.DlyList = InsertAt(q, i, t) /\ r2.delayTick = d2 /\ r2.k = WaitKernel(r.k, t)
       /\ Only(r, r2, {"DlyList", "delayTick", "k"})
  BY <1>1, <1>4 DEF Only, Fields
<1>14. Right(r1, id, X \cup {t}) /\ Only(r, r1, {"k"}) /\ r1.k = WaitKernel(r.k, t)
  BY KernelWaits
<1> HIDE DEF r1
<1>15. Only(r1, r2, {"DlyList", "delayTick"})
  BY <1>13, <1>14 DEF Only, Fields
<1>16. DelaysRight(r2)
  BY <1>10, <1>11, <1>12, <1>13, ListSame DEF DelaysRight
<1>17. /\ r2.k = r1.k /\ r2.eventID = r.eventID /\ r2.pnode = r.pnode
       /\ r1.eventID = r.eventID /\ r1.pnode = r.pnode /\ r1.delayTick = r.delayTick
  BY <1>13, <1>14 DEF Only, Fields
<1>18. r1.k.state[t] = "WAITING"
  <2> DEFINE k2 == WaitKernel(r.k, t)
  <2>1. k2.state = [r.k.state EXCEPT ![t] = "WAITING"]
    BY <1>1, WaitKernelFacts
  <2> HIDE DEF k2
  <2>2. r1.k = k2  BY <1>14 DEF k2
  <2>3. DOMAIN r.k.state = Task  BY <1>1 DEF Kernel
  <2> QED  BY <2>1, <2>2, <2>3
<1>19. StatesRight(r2, X \ {t})
  <2>1. StatesRight(r1, X \cup {t})  BY <1>14 DEF Right
  <2> QED  BY <2>1, <1>1, <1>10, <1>11, <1>13, <1>17, <1>18 DEF StatesRight, Waits
<1>20. Right(r2, id, X \ {t})
  BY <1>9, <1>12, <1>13, <1>14, <1>15, <1>16, <1>19, DelaysChange
<1> QED  BY <1>10, <1>11, <1>13, <1>20

=============================================================================
