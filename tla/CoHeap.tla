------------------------------- MODULE CoHeap -------------------------------
(***************************************************************************)
(* The kernel heap of CooCox CoOS (kernelHeap.c).  CoKmalloc() and         *)
(* CoKfree() do all they do in one locked section, so that a call is one   *)
(* step whichever task makes it.                                           *)
(*                                                                         *)
(* The heap is words of four bytes; an address is the number of a word,    *)
(* from 1 on, and 0 is Co_NULL.  The blocks are headed by the pointers the *)
(* code keeps there, at the words where it keeps them: a used block at u   *)
(* by nextMB and preMB, the blocks behind and before it; a free one at f   *)
(* by nextFMB, the next in the list of free blocks, and nextUMB and        *)
(* preUMB, the used blocks behind and before it.  A pointer to a used      *)
(* block has its lowest bit set; here it is the negative of the address.   *)
(***************************************************************************)
EXTENDS Integers, Sequences, FiniteSets, FiniteSetsExt

CONSTANTS
  HeapSize,   (* KHEAP_SIZE                                                    *)
  Requests    (* the words asked for, as CoKmalloc() rounds them up            *)

ASSUME HeapAssumption ==
  HeapSize \in Nat /\ HeapSize >= 3 /\ Requests \subseteq Nat \ {0}

VARIABLES
  heap,   (* its words mem, and FMBlist, the first free block                 *)
  held    (* history: the buffers the tasks hold, and the words asked for     *)

Address == 1 .. HeapSize

UsedHead == 2
FreeHead == 3

HeapTypeOK ==
  /\ heap \in [mem : [Address -> Int], FMBlist : {0} \cup Address]
  /\ held \subseteq (Address \X Requests)

(* CoCreateKheap() *)
HeapInit ==
  /\ heap = [mem |-> [a \in Address |-> 0], FMBlist |-> 1]
  /\ held = {}

-----------------------------------------------------------------------------
(* The free blocks in the order of their list.                             *)
FreeList(h) ==
  LET at[i \in 1 .. HeapSize + 1] ==
        IF i = 1 THEN h.FMBlist
        ELSE IF at[i - 1] = 0 THEN 0 ELSE h.mem[at[i - 1]]
      n == CHOOSE i \in 0 .. HeapSize :
             (\A j \in 1 .. i : at[j] # 0) /\ at[i + 1] = 0
  IN  [i \in 1 .. n |-> at[i]]

(* Mutant: the used block behind is taken for free up to its buffer.       *)
FreeToBuffer(h, f) ==
  (IF h.mem[f + 1] = 0 THEN HeapSize + 1 ELSE UsedHead - h.mem[f + 1]) - f

FreeSize(h, f) ==
  (IF h.mem[f + 1] = 0 THEN HeapSize + 1 ELSE - h.mem[f + 1]) - f

(* Mutant: any rest is made a free block.                                  *)
NeverWhole(rest) == FALSE

(* A rest too small for the header of a free block goes with the block.    *)
TakenWhole(rest) == rest < FreeHead

(* CoKmalloc(): the first free block that is large enough, list[i].        *)
Allocate(h, list, i, size) ==
  LET f     == list[i]
      whole == TakenWhole(FreeSize(h, f) - size)
      rest  == f + size
      next  == h.mem[f + 1]
      pre   == h.mem[f + 2]
      link  == IF whole THEN h.mem[f] ELSE rest
      word(a) == IF a = f THEN (IF whole THEN next ELSE rest)
                 ELSE IF a = f + 1 THEN pre
                 ELSE IF i > 1 /\ a = list[i - 1] THEN link
                 ELSE IF next # 0 /\ a = 1 - next THEN (IF whole THEN - f ELSE rest)
                 ELSE IF a = - pre THEN - f
                 ELSE IF ~whole /\ a = rest THEN h.mem[f]
                 ELSE IF ~whole /\ a = rest + 1 THEN next
                 ELSE IF ~whole /\ a = rest + 2 THEN - f
                 ELSE h.mem[a]
  IN  [mem |-> [a \in Address |-> word(a)], FMBlist |-> IF i = 1 THEN link ELSE h.FMBlist]

CoKmalloc(n) ==
  LET size == n + UsedHead
      list == FreeList(heap)
      fits == {i \in DOMAIN list : FreeSize(heap, list[i]) >= size}
  IN  IF fits = {} THEN UNCHANGED <<heap, held>>
      ELSE /\ heap' = Allocate(heap, list, Min(fits), size)
           /\ held' = held \cup {<<list[Min(fits)] + UsedHead, n>>}

-----------------------------------------------------------------------------
(* The test of CoKfree() whether there is such a block: back from the      *)
(* first free block, or on from it.  At the end of either way the code     *)
(* compares a pointer with Co_NULL from which it has subtracted 1, so that *)
(* only the search for a block that there is comes to an end.              *)
IsBlock(h, u) ==
  LET back(x) == IF x = 0 THEN 0 ELSE - h.mem[x + 1]
      on(x)   == IF x = 0 THEN 0
                 ELSE IF h.mem[x] > 0 THEN - h.mem[h.mem[x] + 1] ELSE - h.mem[x]
      start   == IF h.FMBlist = 0 THEN 1
                 ELSE IF u < h.FMBlist THEN - h.mem[h.FMBlist + 2] ELSE - h.mem[h.FMBlist + 1]
      at[i \in 0 .. HeapSize] ==
        IF i = 0 THEN start
        ELSE IF u < h.FMBlist THEN back(at[i - 1]) ELSE on(at[i - 1])
  IN  \E i \in 0 .. HeapSize : at[i] = u

(* Mutant: the list of free blocks is not searched.                        *)
NoPreFMB(h, u) == 0

(* The free block before the used block u, or 0.                           *)
GetPreFMB(h, u) ==
  LET at[i \in 0 .. HeapSize] ==
        IF i = 0 THEN h.mem[u + 1]
        ELSE IF at[i - 1] < 0 THEN h.mem[1 - at[i - 1]] ELSE at[i - 1]
  IN  at[HeapSize]

(* The block u joins the free blocks next to it.  The four cases of the    *)
(* code differ in where the new free block begins, cur, and in where its   *)
(* three pointers come from.                                               *)
Release(h, u) ==
  LET next    == h.mem[u]
      pre     == h.mem[u + 1]
      before  == IF pre < 0 THEN GetPreFMB(h, u) ELSE pre
      nextFMB == IF before = 0 THEN h.FMBlist ELSE h.mem[before]
      joined  == IF pre < 0 THEN nextFMB ELSE next
      cur     == IF pre > 0 THEN pre ELSE u
      link    == IF next < 0 THEN nextFMB ELSE IF joined = 0 THEN 0 ELSE h.mem[joined]
      nextUMB == IF next < 0 THEN next ELSE IF joined = 0 THEN 0 ELSE h.mem[joined + 1]
      preUMB  == IF pre > 0 THEN h.mem[pre + 2] ELSE pre
      word(a) == IF a = cur THEN link
                 ELSE IF a = cur + 1 THEN nextUMB
                 ELSE IF a = cur + 2 THEN preUMB
                 ELSE IF pre < 0 /\ a = before THEN u
                 ELSE IF a = - preUMB THEN cur
                 ELSE IF nextUMB # 0 /\ a = 1 - nextUMB THEN cur
                 ELSE h.mem[a]
  IN  [mem |-> [a \in Address |-> word(a)], FMBlist |-> IF before = 0 THEN u ELSE h.FMBlist]

(* A task gives back a buffer that it holds.                               *)
CoKfree(b) ==
  /\ LET u == b[1] - UsedHead
     IN  heap' = IF IsBlock(heap, u) THEN Release(heap, u) ELSE heap
  /\ held' = held \ {b}

Words(b) == b[1] .. b[1] + b[2] - 1

(* What the holder writes into its buffer; it looks like a pointer.        *)
Write(b) ==
  /\ heap' = [heap EXCEPT !.mem = [a \in Address |-> IF a \in Words(b) THEN 1 ELSE @[a]]]
  /\ UNCHANGED held

-----------------------------------------------------------------------------
(* The blocks of the heap in the order of their addresses, by the headers. *)
Blocks ==
  LET free == {FreeList(heap)[i] : i \in DOMAIN FreeList(heap)}
      after(x) == LET w == IF x \in free THEN heap.mem[x + 1] ELSE heap.mem[x]
                  IN  IF w < 0 THEN - w ELSE w
      at[i \in 1 .. HeapSize + 1] ==
        IF i = 1 THEN 1 ELSE IF at[i - 1] = 0 THEN 0 ELSE after(at[i - 1])
      n == CHOOSE i \in 0 .. HeapSize :
             (\A j \in 1 .. i : at[j] # 0) /\ (i = HeapSize \/ at[i + 1] = 0)
  IN  [i \in 1 .. n |-> at[i]]

(* The heap is always its blocks, one behind the other: each is free, or   *)
(* used by a buffer somebody holds and large enough for it; the list of    *)
(* free blocks has them all in the order of their addresses, and no two    *)
(* lie side by side, so that all that was given back can be had again; and *)
(* both links of every block lead to its neighbours.                       *)
HeapSound ==
  LET list == FreeList(heap)
      free == {list[i] : i \in DOMAIN list}
      seq  == Blocks
      n    == Len(seq)
      end(i) == IF i = n THEN HeapSize + 1 ELSE seq[i + 1]
      Ref(i) == IF i \in 1 .. n THEN IF seq[i] \in free THEN seq[i] ELSE - seq[i] ELSE 0
  IN  /\ \A i, j \in DOMAIN list : i < j => list[i] < list[j]
      /\ free = {seq[i] : i \in 1 .. n} \ {b[1] - UsedHead : b \in held}
      /\ Cardinality(free) + Cardinality(held) = n
      /\ \A i \in 1 .. n :
           IF seq[i] \in free
           THEN /\ end(i) - seq[i] >= FreeHead
                /\ Ref(i + 1) <= 0 /\ Ref(i - 1) <= 0
                /\ heap.mem[seq[i] + 1] = Ref(i + 1) /\ heap.mem[seq[i] + 2] = Ref(i - 1)
           ELSE /\ \E b \in held : b[1] = seq[i] + UsedHead /\ b[1] + b[2] <= end(i)
                /\ heap.mem[seq[i]] = Ref(i + 1) /\ heap.mem[seq[i] + 1] = Ref(i - 1)

(* The contents of a buffer are its holder's: no other call writes there.  *)
BuffersKept ==
  [][\A b \in held \cap held' :
       \/ \A a \in Words(b) : heap'.mem[a] = heap.mem[a]
       \/ Write(b)]_<<heap, held>>
=============================================================================
