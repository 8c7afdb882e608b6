------------------------------ MODULE MCMutex ------------------------------
(***************************************************************************)
(* Applications of CoMutex for TLC, one in each configuration.             *)
(***************************************************************************)
EXTENDS CoMutex

Prios4 == 0 :> 3 @@ 1 :> 2 @@ 2 :> 1 @@ 3 :> 0
Prios5 == 0 :> 4 @@ 1 :> 3 @@ 2 :> 2 @@ 3 :> 1 @@ 4 :> 0

Applications == {"mutex"}

(* One event, a semaphore used as a signal.                                *)
Signal(prio, sort) ==
  "mutex" :> [tasks |-> MaxTask, prio |-> prio, timers |-> <<>>, flags |-> {}, auto |-> {},
              locks |-> {}, counted |-> {},
              events |-> <<[type |-> "sem", sort |-> sort, count |-> 0, max |-> 1]>>]

Uses(delays, pends, posts) ==
  "mutex" :> [[op \in Services |-> {}] EXCEPT
                !.delay = delays, !.pendSem = pends, !.postSem = posts]

(* Three tasks contend for one mutex; the owner may be delayed or wait for *)
(* a signal, with another task, inside the section, and may exit in it.    *)
All1        == {<<1, 0>>, <<2, 0>>, <<3, 0>>}
SafeSetup   == Signal(Prios4, "prio")
SafeCalls   == Uses({<<3, 1>>}, {<<1, 0, 1>>, <<2, 0, 1>>}, {})
SafeDeletes == {<<1, 1>>, <<2, 2>>}

(* The same without the signal and the exits.                              *)
RestoreCalls == Uses({<<3, 1>>}, {}, {})

(* Tasks 1 and 3 contend; task 2, in between, uses the processor as it     *)
(* likes; task 4, above all, deletes the others when task 2 tells it to.   *)
Two         == {<<1, 0>>, <<3, 0>>}
PairSetup   == Signal(Prios5, "fifo")
PairCalls   == Uses({<<1, 1>>, <<2, 1>>, <<3, 1>>}, {<<4, 0, 0>>}, {<<2, 0>>})
PairDeletes == {<<3, 3>>, <<4, 1>>, <<4, 3>>}

(* Tasks 1 to 3 contend, and task 4 deletes the one that waits longest.    *)
LinkCalls   == Uses({<<2, 1>>, <<3, 1>>, <<4, 1>>}, {}, {})
LinkDeletes == {<<4, 2>>}

ASSUME OnePoster /\ AcceptAlone /\ LocksAreLocks
=============================================================================
