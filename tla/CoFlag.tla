-------------------------------- MODULE CoFlag --------------------------------
(***************************************************************************)
(* Event flags of CooCox CoOS (flag.c).  A task waits on a node of its own *)
(* stack, until one or all of its flags are set; flagRdy, the word of all  *)
(* flags, is changed inside locked sections and, by CoSetFlag() and        *)
(* CoClearFlag(), outside of them.                                         *)
(***************************************************************************)
EXTENDS CoMail

(* Mutant: all flags that are reset automatically fall.                    *)
ResetAll(r, flags) == [r EXCEPT !.flagRdy = @ \ r.resetOpt]

(* The flags that a call has seen, and that are reset automatically, fall. *)
Reset(r, flags) == [r EXCEPT !.flagRdy = @ \ (flags \cap r.resetOpt)]

(* FlagBlock() and what its callers do to the task. *)
FlagWait(r, t, flags, type, ticks) ==
  LET r1 == FlagBlock(r, t, flags, type)
  IN  IF ticks = 0 THEN [r1 EXCEPT !.k = RequestSchedule([@ EXCEPT !.state[t] = "WAITING"])]
                   ELSE InsertDelayList(r1, t, ticks)

(* CoWaitForSingleFlag() and CoWaitForMultipleFlags(). *)
CoWaitForFlags(t, flags, type, ticks) ==
  /\ Makes("waitFlags", <<t, flags, type, ticks>>)
  /\ s.k.OSSchedLock = 0 /\ flags \subseteq s.flagActive
  /\ IF Met(type, flags, s.flagRdy)
     THEN s' = Reset(Lock(s), flags \cap s.flagRdy) /\ Unlocks(t, "user")
     ELSE /\ s' = FlagWait(Lock(s), t, flags, type, ticks)
          /\ pc' = [pc EXCEPT ![t] = [Rest("unlock") EXCEPT
                      !.ret = IF ticks = 0 THEN "flagged" ELSE "flagtimed", !.flags = flags]]

(* The node goes with the frame of the call.                               *)
NodeGone(r, t) ==
  [r EXCEPT !.pnode     = [@ EXCEPT ![t] = "null"],
            !.waitFlags = [@ EXCEPT ![t] = {}],
            !.waitType  = [@ EXCEPT ![t] = "one"]]

FlagReturns(t) ==
  /\ Runs(t, "flagged") \/ (Runs(t, "flagtimed") /\ s.pnode[t] # "null")
  /\ s' = Reset(NodeGone(Lock(s), t), pc[t].flags \cap s.flagRdy)
  /\ Unlocks(t, "user")

FlagTimesOut(t) ==
  /\ Runs(t, "flagtimed") /\ s.pnode[t] = "null"
  /\ s' = NodeGone(s, t)
  /\ Return(t)

(* CoAcceptSingleFlag() and CoAcceptMultipleFlags(): the flags are looked  *)
(* at before the lock.  Only the first returns at once if they are not set.*)
CoAcceptFlags(t, flags, type) ==
  LET spring == IF Met(type, flags, s.flagRdy) THEN flags \cap s.flagRdy ELSE {}
  IN  /\ Makes("acceptFlags", <<t, flags, type>>)
      /\ flags \subseteq s.flagActive
      /\ type = "one" => spring # {}
      /\ pc' = [pc EXCEPT ![t] = [Rest("user") EXCEPT !.at = "take", !.flags = spring]]
      /\ UNCHANGED s

AcceptTakes(t) ==
  /\ Runs(t, "take")
  /\ s' = Reset(Lock(s), pc[t].flags)
  /\ Unlocks(t, "user")

(* CoSetFlag(): a test, a load and a store of the word, and the walk along *)
(* the list in a locked section.                                           *)
CoSetFlag(t, f) ==
  /\ Makes("setFlag", <<t, f>>)
  /\ f \in s.flagActive /\ f \notin s.flagRdy
  /\ pc' = [pc EXCEPT ![t] = [Rest("user") EXCEPT !.at = "set", !.id = f]]
  /\ UNCHANGED s

SetLoads(t) ==
  /\ Runs(t, "set")
  /\ pc' = [pc EXCEPT ![t].at = "setf", ![t].flags = s.flagRdy]
  /\ UNCHANGED s

SetStores(t) ==
  /\ Runs(t, "setf")
  /\ s' = [s EXCEPT !.flagRdy = pc[t].flags \cup {pc[t].id}]
  /\ Goto(t, "walk")

SetWalks(t) ==
  /\ Runs(t, "walk")
  /\ s' = WakeSatisfied(Lock(s), pc[t].id)
  /\ Unlocks(t, "user")

(* CoClearFlag(): a load and a store.                                      *)
CoClearFlag(t, f) ==
  /\ Makes("clearFlag", <<t, f>>)
  /\ f \in s.flagActive
  /\ pc' = [pc EXCEPT ![t] = [Rest("user") EXCEPT !.at = "clearf", !.id = f,
                                                  !.flags = s.flagRdy]]
  /\ UNCHANGED s

ClearStores(t) ==
  /\ Runs(t, "clearf")
  /\ s' = [s EXCEPT !.flagRdy = pc[t].flags \ {pc[t].id}]
  /\ Return(t)

(* CoCreateFlag() takes the first free bit. *)
CoCreateFlag(t, auto, set) ==
  LET free == Flag \ s.flagActive
      f    == {CHOOSE i \in free : \A j \in free : i <= j}
  IN  /\ Makes("createFlag", <<t, auto, set>>)
      /\ s' = IF free = {} THEN Lock(s)
              ELSE [Lock(s) EXCEPT !.flagActive = @ \cup f,
                                   !.flagRdy    = IF set THEN @ \cup f ELSE @,
                                   !.resetOpt   = IF auto THEN @ \cup f ELSE @]
      /\ Unlocks(t, "user")

(* CoDelFlag(): those who wait for f only, or for one of several, wake;    *)
(* those who wait for all of several go on waiting for the others.         *)
Deleted(r, f) ==
  LET freed(t) == f \in r.waitFlags[t] /\ (r.waitType[t] # "all" \/ r.waitFlags[t] = {f})
      woken    == Those(r.nodes, {t \in Task : freed(t)})
      after[i \in 0 .. Len(woken)] ==
        IF i = 0 THEN r ELSE RemoveFromLink(after[i - 1], woken[i])
  IN  [after[Len(woken)] EXCEPT
         !.waitFlags  = [t \in Task |-> IF t \in Range(r.nodes) \ Range(woken)
                                        THEN @[t] \ {f} ELSE @[t]],
         !.flagActive = @ \ {f}, !.flagRdy = @ \ {f}, !.resetOpt = @ \ {f}]

CoDelFlag(t, f, opt) ==
  /\ Makes("delFlag", <<t, f, opt>>)
  /\ f \in s.flagActive
  /\ s' = IF opt = "nopend" /\ \E u \in Range(s.nodes) : f \in s.waitFlags[u]
          THEN Lock(s) ELSE Deleted(Lock(s), f)
  /\ Unlocks(t, "user")

FlagFinish(t) ==
  \/ FlagReturns(t) \/ FlagTimesOut(t) \/ AcceptTakes(t)
  \/ SetLoads(t) \/ SetStores(t) \/ SetWalks(t) \/ ClearStores(t)

FlagCall(t) ==
  \/ \E c \in Arguments("waitFlags") : CoWaitForFlags(t, c[1], c[2], c[3])
  \/ \E c \in Arguments("acceptFlags") : CoAcceptFlags(t, c[1], c[2])
  \/ \E c \in Arguments("setFlag") : CoSetFlag(t, c[1])
  \/ \E c \in Arguments("clearFlag") : CoClearFlag(t, c[1])
  \/ \E c \in Arguments("createFlag") : CoCreateFlag(t, c[1], c[2])
  \/ \E c \in Arguments("delFlag") : CoDelFlag(t, c[1], c[2])

-----------------------------------------------------------------------------
(* How an application has to use flags: the word is loaded and stored      *)
(* without the lock by one task, which no user of the flags preempts, and  *)
(* not while interrupts set flags; a flag that somebody waits for together *)
(* with others is not deleted.                                             *)
Callers(a, ops) == UNION {{c[1] : c \in Calls[a][op]} : op \in ops}

Writers(a) == Callers(a, {"setFlag", "clearFlag"})

FlagRules ==
  \A a \in App :
    /\ (\E q \in Calls[a].isr : q[1] = "flag") => Writers(a) = {}
    /\ \A w \in Writers(a), u \in Callers(a, {"waitFlags", "acceptFlags", "setFlag", "clearFlag",
                                             "createFlag", "delFlag"}) :
         w = u \/ Setup[a].prio[w] < Setup[a].prio[u]
    /\ \A d \in Calls[a].delFlag, c \in Calls[a].waitFlags :
         d[2] \in c[2] /\ c[3] = "all" => c[2] = {d[2]}

(* A flag that nobody clears or deletes, and that only t waits for or      *)
(* accepts if it is reset automatically.                                   *)
Keeps(t, f) ==
  /\ f \in s.resetOpt =>
       \A c \in Calls[s.app].waitFlags \cup Calls[s.app].acceptFlags : f \in c[2] => c[1] = t
  /\ \A c \in Calls[s.app].clearFlag \cup Calls[s.app].delFlag : f # c[2]

(* No task waits for flags that are set, unless a CoSetFlag() has not yet  *)
(* walked along the list, or an automatic flag that the first waiter was   *)
(* woken for still stands until that task runs.                            *)
NoFlagOverlooked ==
  \A t \in Task : s.pnode[t] = "node" /\ Satisfied(s, t) =>
    \/ \E u \in Task : pc[u].at = "walk"
    \/ \E u \in Task : s.pnode[u] = "set" /\ pc[u].flags \cap s.resetOpt \cap s.flagRdy # {}

(* A task that was woken finds what it was woken for: its flags stay set   *)
(* until it runs, whoever comes before it, if nobody clears or deletes     *)
(* them and those that are reset automatically are its own.                *)
FlagsStay ==
  \A t \in Task : s.pnode[t] = "set" /\ (\A f \in pc[t].flags : Keeps(t, f)) =>
    Met(s.waitType[t], pc[t].flags, s.flagRdy)
=============================================================================
