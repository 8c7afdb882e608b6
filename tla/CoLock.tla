------------------------------- MODULE CoLock -------------------------------
(***************************************************************************)
(* What mutexes promise: one owner each, the others in the order they came.*)
(***************************************************************************)
EXTENDS Sequences, SequencesExt

CONSTANTS
  LockId,    (* the locks                                                       *)
  Client,    (* those who enter                                               *)
  NoClient   (* the owner of a free lock                                      *)

VARIABLES
  owner,     (* who is inside, or NoClient                                    *)
  queue,     (* who waits, the first to come first                            *)
  gone       (* the clients that have ceased to exist                         *)

Init ==
  /\ owner = [l \in LockId |-> NoClient]
  /\ queue = [l \in LockId |-> <<>>]
  /\ gone \in SUBSET Client

Enter(l, c) ==
  /\ c # owner[l] /\ c \notin Range(queue[l]) \cup gone
  /\ IF owner[l] = NoClient
     THEN owner' = [owner EXCEPT ![l] = c] /\ queue' = queue
     ELSE queue' = [queue EXCEPT ![l] = Append(@, c)] /\ owner' = owner
  /\ gone' = gone

Leave(l) ==
  /\ owner[l] # NoClient
  /\ IF queue[l] = <<>>
     THEN owner' = [owner EXCEPT ![l] = NoClient] /\ queue' = queue
     ELSE /\ owner' = [owner EXCEPT ![l] = Head(queue[l])]
          /\ queue' = [queue EXCEPT ![l] = Tail(@)]
  /\ gone' = gone

(* A client that is inside leaves before it goes; one that waits goes, and *)
(* nobody else, and the others keep their turns.                           *)
Die(c) ==
  /\ c \notin gone /\ \A l \in LockId : owner[l] # c
  /\ gone' = gone \cup {c}
  /\ queue' = [l \in LockId |-> SelectSeq(queue[l], LAMBDA d : d # c)]
  /\ owner' = owner

Next ==
  \/ \E l \in LockId : Leave(l) \/ \E c \in Client : Enter(l, c)
  \/ \E c \in Client : Die(c)

Spec == Init /\ [][Next]_<<owner, queue, gone>>
=============================================================================
