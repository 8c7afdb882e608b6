------------------------------- MODULE CoTimer -------------------------------
(***************************************************************************)
(* Software timers of CooCox CoOS (timer.c), as tasks use them.  A timer   *)
(* has a state and a place in the list, which are not changed together:    *)
(* the state outside of the locked section that changes the list.          *)
(***************************************************************************)
EXTENDS CoFlag

(* A call goes on, with timer i, at the place at, and after a locked       *)
(* section there at the place ret.                                         *)
WithTimer(t, i, at, ret) ==
  pc' = [pc EXCEPT ![t] = [Rest("user") EXCEPT !.at = at, !.ret = ret, !.id = i]]

(* The timer is filled in after the section that takes its id.             *)
CoCreateTmr(t, type, cnt, reload) ==
  LET free == Timer \ s.TmrIDVessel
      i    == CHOOSE j \in free : \A l \in free : j <= l
  IN  /\ Makes("createTmr", <<t, type, cnt, reload>>)
      /\ IF free = {}
         THEN s' = Lock(s) /\ Unlocks(t, "user")
         ELSE /\ s' = [Lock(s) EXCEPT !.TmrIDVessel = @ \cup {i}]
              /\ WithTimer(t, i, "unlock", "fill")

TimerFills(t) ==
  /\ Runs(t, "fill")
  /\ \E c \in Calls[s.app].createTmr :
       /\ c[1] = t
       /\ s' = [s EXCEPT !.TmrTbl[pc[t].id] =
                   FreshTimer([type |-> c[2], cnt |-> c[3], reload |-> c[4],
                               callback |-> NoEvent])]
  /\ Return(t)

CoStartTmr(t, i) ==
  /\ Makes("startTmr", <<t, i>>)
  /\ i \in s.TmrIDVessel /\ s.TmrTbl[i].tmrState = "stopped"
  /\ i \in Setup[s.app].counted => s.TmrTbl[i].tmrCnt > 0
  /\ s' = [s EXCEPT !.TmrTbl[i].tmrState = "running"]
  /\ WithTimer(t, i, "insert", "user")

TimerInserts(t) ==
  /\ Runs(t, "insert")
  /\ s' = InsertTmrList(Lock(s), pc[t].id)
  /\ Unlocks(t, "user")

CoStopTmr(t, i) ==
  /\ Makes("stopTmr", <<t, i>>)
  /\ i \in s.TmrIDVessel /\ s.TmrTbl[i].tmrState = "running"
  /\ WithTimer(t, i, "remove", "stopped")
  /\ UNCHANGED s

TimerRemoves(t) ==
  /\ Runs(t, "remove")
  /\ s' = RemoveTmrList(Lock(s), pc[t].id)
  /\ Goto(t, "unlock")

TimerStops(t) ==
  /\ Runs(t, "stopped")
  /\ s' = [s EXCEPT !.TmrTbl[pc[t].id].tmrState = "stopped"]
  /\ Return(t)

CoSetTmrCnt(t, i, cnt, reload) ==
  /\ Makes("setTmr", <<t, i, cnt, reload>>)
  /\ i \in s.TmrIDVessel
  /\ i \in Setup[s.app].counted => s.TmrTbl[i].tmrState = "stopped"
  /\ s' = [s EXCEPT !.TmrTbl[i].tmrCnt = cnt, !.TmrTbl[i].tmrReload = reload]
  /\ IF s.TmrTbl[i].tmrState = "running" THEN WithTimer(t, i, "remove", "insert")
                                         ELSE Return(t)

CoDelTmr(t, i) ==
  /\ Makes("delTmr", <<t, i>>)
  /\ i \in s.TmrIDVessel
  /\ WithTimer(t, i, IF s.TmrTbl[i].tmrState = "running" THEN "remove" ELSE "gone", "gone")
  /\ UNCHANGED s

(* The id is given back without the lock, by a load and a store.           *)
TimerGone(t) ==
  /\ Runs(t, "gone")
  /\ pc' = [pc EXCEPT ![t].at = "free", ![t].ids = s.TmrIDVessel \ {pc[t].id}]
  /\ UNCHANGED s

TimerFree(t) ==
  /\ Runs(t, "free")
  /\ s' = [s EXCEPT !.TmrIDVessel = pc[t].ids]
  /\ Return(t)

TimerFinish(t) ==
  \/ TimerFills(t) \/ TimerInserts(t)
  \/ TimerRemoves(t) \/ TimerStops(t) \/ TimerGone(t) \/ TimerFree(t)

TimerCall(t) ==
  \/ \E c \in Arguments("createTmr") : CoCreateTmr(t, c[1], c[2], c[3])
  \/ \E c \in Arguments("startTmr") : CoStartTmr(t, c[1])
  \/ \E c \in Arguments("stopTmr") : CoStopTmr(t, c[1])
  \/ \E c \in Arguments("setTmr") : CoSetTmrCnt(t, c[1], c[2], c[3])
  \/ \E c \in Arguments("delTmr") : CoDelTmr(t, c[1])

-----------------------------------------------------------------------------
(* How an application has to use timers: one task controls a timer; it     *)
(* stops and deletes only periodic timers, for a one-shot timer can expire *)
(* after the look at its state; counts are not 0; and unless there is but  *)
(* one timer, a timer that has expired or was stopped, which may be left   *)
(* with the count 0, is set before it is started, and none is set while it *)
(* runs, for its ticks are those of the timers behind it, too.  A task     *)
(* that creates timers, of one kind, controls all timers, for its calls    *)
(* are not over, nor the ids given back, in a section.                     *)
Controllers(a, i) ==
  {c[1] : c \in {d \in UNION {Calls[a][op] : op \in {"startTmr", "stopTmr", "setTmr", "delTmr"}} :
                   d[2] = i}}

Kinds(a, i) ==
  (IF i < Len(Setup[a].timers) THEN {Setup[a].timers[i + 1].type} ELSE {})
    \cup {c[2] : c \in Calls[a].createTmr}

TimerRules ==
  \A a \in App :
    /\ \A i \in Timer : Cardinality(Controllers(a, i)) <= 1
    /\ \A c \in Calls[a].stopTmr \cup Calls[a].delTmr : "oneshot" \notin Kinds(a, c[2])
    /\ \A i \in Timer : Controllers(a, i) # {} =>
         i \in Setup[a].counted \/ \A j \in Timer \ {i} : Controllers(a, j) = {}
    /\ \A c \in Calls[a].setTmr : c[3] > 0 /\ c[4] > 0
    /\ \A c \in Calls[a].createTmr :
         /\ c[3] > 0 /\ c[4] > 0
         /\ \A i \in Timer : Controllers(a, i) \subseteq {c[1]}
         /\ \A d \in Calls[a].createTmr : c[1] = d[1] => c = d
    /\ \A i \in 1 .. Len(Setup[a].timers) :
         Setup[a].timers[i].cnt > 0 /\ Setup[a].timers[i].reload > 0

(* The timers that a call is between the state and the list of.            *)
Between == {pc[t].id : t \in {u \in Task : pc[u].at \in TimerPlaces
                                          \/ (pc[u].at \in UnlockPlaces
                                                /\ pc[u].ret \in TimerPlaces)}}

Listed == {Timers(s)[n] : n \in DOMAIN Timers(s)}

Running == {i \in s.TmrIDVessel : s.TmrTbl[i].tmrState = "running"}

(* The list of timers is what the states say: it leads to each running     *)
(* timer that has a count once, and to no other, but for the one whose     *)
(* state and place a call is about to change; its links agree; and all     *)
(* counts in it are the ticks behind the timer before, so none is negative.*)
TimersSound ==
  LET list == Timers(s)
  IN  /\ IsInjective(list)
      /\ Listed \ Between \subseteq Running
      /\ {i \in Running : s.TmrTbl[i].tmrCnt # 0} \ Between \subseteq Listed
      /\ \A n \in DOMAIN list :
           /\ s.TmrTbl[list[n]].tmrPrev = (IF n = 1 THEN NoTimer ELSE list[n - 1])
           /\ s.TmrTbl[list[n]].tmrCnt >= 0

(* The ticks until timer i expires.                                        *)
TimerLeft(r, i) == TimerDue(r)[PosOf(Timers(r), i)]

(* A step of the task that takes timer i out of the list, or sets it.      *)
Handled(i) ==
  \E t \in Task :
    \/ pc[t].at = "remove" /\ pc[t].id = i /\ pc'[t].at # "remove"
    \/ pc[t].at = "user" /\ pc'[t].at = "remove" /\ pc'[t].id = i

(* A tick is lost to all timers while the first of them has come to its    *)
(* end, and waits for the end of a locked section.                         *)
TickLost == s.TmrTbl[s.TmrList].tmrCnt = 0

(* No timer expires early, nor late but for the ticks that are lost: every *)
(* other tick brings each timer nearer, by one, and nothing else does,     *)
(* whichever other timers are started, stopped or expire; and one that     *)
(* leaves the list or starts again has expired, or its own task is at it.  *)
TimersKept ==
  [][\A i \in Listed :
       LET left == TimerLeft(s, i)
           now  == left - (IF TickStep /\ ~TickLost THEN 1 ELSE 0)
       IN  \/ i \in Listed' /\ TimerLeft(s', i) = now
           \/ /\ now <= 0
              /\ i \in Listed' <=> s.TmrTbl[i].tmrType = "periodic"
              /\ i \in Listed' => TimerLeft(s', i) = s.TmrTbl[i].tmrReload
           \/ Handled(i)]_vars

(* A timer that was started expires, or is stopped.                        *)
Armed(i) ==
  /\ i \in Listed
  /\ s.TmrTbl[i].tmrType = "periodic" => TimerLeft(s, i) < s.TmrTbl[i].tmrReload

TimersFire == ([]<>(s.cnt = 0)) => \A i \in Timer : Armed(i) ~> ~Armed(i)
=============================================================================
