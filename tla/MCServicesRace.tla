--------------------------- MODULE MCServicesRace ---------------------------
(***************************************************************************)
(* Small applications.  "lost" keeps the rules of MCServices, the others   *)
(* break one each, to show what it is for.                                 *)
(***************************************************************************)
EXTENDS CoSystem

RaceCall(calls) == [op \in Services |-> IF op \in DOMAIN calls THEN calls[op] ELSE {}]

NoRace == [tasks |-> 2, prio |-> 0 :> 3 @@ 1 :> 1 @@ 2 :> 0, events |-> <<>>, timers |-> <<>>,
           flags |-> {}, auto |-> {}, locks |-> {}, counted |-> {}]

OneEvent(type, count) ==
  [NoRace EXCEPT !.events = <<[type |-> type, sort |-> "fifo", count |-> count, max |-> 1]>>]

Counting(type, cnt) == [type |-> type, cnt |-> cnt, reload |-> cnt, callback |-> NoEvent]

RaceApps == { "lost", "accept", "vessel", "drop", "full", "clear", "stop" }

RaceSetup ==
  "lost" :> OneEvent("sem", 0) @@ "accept" :> OneEvent("sem", 1) @@ "vessel" :> OneEvent("queue", 0)
    @@ "drop" :> OneEvent("mbox", 0) @@ "full" :> OneEvent("queue", 0)
    @@ "clear" :> [NoRace EXCEPT !.flags = {0, 1}]
    @@ "stop" :> [NoRace EXCEPT !.timers = <<Counting("oneshot", 1), Counting("periodic", 2)>>]

(* "lost": one task waits for what one device posts.                       *)
LostCalls == RaceCall("pendSem" :> {<<2, 0, 0>>} @@ "isr" :> {<<"sem", 0, 0>>})

(* "accept" breaks AcceptAlone: two tasks accept the permit of a semaphore.*)
AcceptCalls == RaceCall(
  "acceptSem" :> {<<1, 0>>, <<2, 0>>} @@ "delay" :> {<<2, 1>>})

(* "vessel" breaks EcbRules: who creates queues is more urgent than who    *)
(* deletes them.                                                           *)
VesselCalls == RaceCall(
  "delete" :> {<<1, 0, "nopend">>} @@ "create" :> {<<2, "queue", "fifo", 0, 1>>}
    @@ "delay" :> {<<2, 1>>})

(* "drop" breaks MailRules: devices send two mails to a mailbox.           *)
DropCalls == RaceCall("isr" :> {<<"mbox", 0, 1>>, <<"mbox", 0, 2>>})

(* "full" breaks MailRules: a task and a device send a mail each to a      *)
(* queue of one.                                                           *)
FullCalls == RaceCall("postMail" :> {<<2, 0, 1>>} @@ "isr" :> {<<"queue", 0, 2>>})

(* "clear" breaks FlagRules: a task clears a flag while a device sets      *)
(* another, which a less urgent task waits for.                            *)
ClearCalls == RaceCall(
  "clearFlag" :> {<<2, 1>>} @@ "waitFlags" :> {<<1, {0}, "one", 0>>}
    @@ "delay" :> {<<2, 1>>} @@ "isr" :> {<<"flag", 0, 0>>})

(* "stop" breaks TimerRules: a task stops a timer that expires once.       *)
StopCalls == RaceCall(
  "startTmr" :> {<<1, 0>>, <<2, 1>>} @@ "stopTmr" :> {<<1, 0>>} @@ "delay" :> {<<2, 1>>})

RaceCalls ==
  "lost" :> LostCalls @@ "accept" :> AcceptCalls @@ "vessel" :> VesselCalls @@ "drop" :> DropCalls
    @@ "full" :> FullCalls @@ "clear" :> ClearCalls @@ "stop" :> StopCalls
=============================================================================
