------------------------------- MODULE CoFifo -------------------------------
(***************************************************************************)
(* What a queue promises: an item that is accepted is taken out once, in   *)
(* the order of acceptance, and at most Size of them wait.                 *)
(***************************************************************************)
EXTENDS Naturals, Sequences

CONSTANTS Item, Size

VARIABLE queue

Init == queue = <<>>

Accept(i) ==
  /\ Len(queue) < Size
  /\ queue' = Append(queue, i)

Serve ==
  /\ queue # <<>>
  /\ queue' = Tail(queue)

(* A kernel section entered by an interrupt serves them all at once.       *)
ServeAll ==
  /\ queue # <<>>
  /\ queue' = <<>>

Next == (\E i \in Item : Accept(i)) \/ Serve \/ ServeAll

(* Several items come in at once, as when timers expire in the same tick.  *)
AcceptSome ==
  /\ queue' \in Seq(Item)
  /\ Len(queue') \in Len(queue) + 1 .. Size
  /\ SubSeq(queue', 1, Len(queue)) = queue

Spec == Init /\ [][Next \/ AcceptSome]_queue

(* A queue with waiters: an item comes in and the oldest goes out to one   *)
(* who was waiting.                                                        *)
Pass(i) == queue' = Tail(Append(queue, i))

PassSpec == Init /\ [][Next \/ \E i \in Item : Pass(i)]_queue
=============================================================================
