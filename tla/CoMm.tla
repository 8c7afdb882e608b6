-------------------------------- MODULE CoMm --------------------------------
(***************************************************************************)
(* The memory partitions of CooCox CoOS (mm.c): memory of the application, *)
(* cut into blocks of one size, which tasks get and give back.  The id of  *)
(* a partition is taken and released in a locked section, its control      *)
(* block and the links in its blocks are written after it.  A call may be  *)
(* left anywhere but in its locked section, to tasks that are as urgent as *)
(* the caller or more; it ends before a less urgent task runs.             *)
(*                                                                         *)
(* The blocks of all areas of memory are numbered from 1 on; 0 is Co_NULL. *)
(***************************************************************************)
EXTENDS Integers, Sequences, FiniteSets, FiniteSetsExt

CONSTANTS
  MaxMm,     (* CFG_MAX_MM                                                    *)
  Users,     (* the tasks                                                     *)
  MmPrio,    (* their priorities; a lower number is more urgent               *)
  Creators,  (* those that create and delete partitions                       *)
  Areas      (* the areas of memory: first block and number of blocks         *)

ASSUME MmAssumption ==
  /\ MaxMm \in Nat /\ IsFiniteSet(Users) /\ Creators \subseteq Users
  /\ MmPrio \in [Users -> Nat]
  /\ Areas \subseteq [first : Nat \ {0}, num : Nat \ {0, 1}]
  /\ \A a, b \in Areas : a # b => a.first + a.num <= b.first \/ b.first + b.num <= a.first

Mm == 0 .. MaxMm - 1
Block == UNION {a.first .. a.first + a.num - 1 : a \in Areas}
NullMm == [memAddr |-> 0, freeBlock |-> 0, blockNum |-> 0]

VARIABLES
  mm,     (* MemoryIDVessel, MemoryTbl, and the links in the free blocks      *)
  at,     (* what each task is doing, and with which partition                *)
  has     (* history: the partitions of each task, and the blocks it holds    *)

mmVars == <<mm, at, has>>

MmTypeOK ==
  /\ mm \in [ MemoryIDVessel : SUBSET Mm,
              MemoryTbl : [Mm -> [memAddr : {0} \cup Block, freeBlock : {0} \cup Block,
                                  blockNum : Nat]],
              nextBlock : [Block -> {0} \cup Block] ]
  /\ at \in [Users -> [place : {"user", "fill", "clear", "get"}, id : Mm \cup {MaxMm},
                       area : Areas \cup {NullMm}]]
  /\ has \in [ids : [Users -> SUBSET Mm], blocks : [Users -> SUBSET (Mm \X Block)]]

Idling == [place |-> "user", id |-> MaxMm, area |-> NullMm]

MmInit ==
  /\ mm = [MemoryIDVessel |-> {}, MemoryTbl |-> [i \in Mm |-> NullMm],
           nextBlock |-> [b \in Block |-> 0]]
  /\ at = [t \in Users |-> Idling]
  /\ has = [ids |-> [t \in Users |-> {}], blocks |-> [t \in Users |-> {}]]

-----------------------------------------------------------------------------
(* These calls never wait: no more urgent task is in the midst of one.     *)
MayRun(t) == \A u \in Users : MmPrio[u] < MmPrio[t] => at[u].place = "user"

(* The memory that partitions use, or that is about to become one.         *)
AreaUsed(a) ==
  \/ \E t \in Users : at[t].area = a
  \/ \E i \in UNION {has.ids[t] : t \in Users} : mm.MemoryTbl[i].memAddr = a.first

CoCreateMemPartition(t, a) ==
  LET free == Mm \ mm.MemoryIDVessel
  IN  /\ MayRun(t) /\ at[t].place = "user" /\ ~AreaUsed(a)
      /\ IF free = {} THEN UNCHANGED <<mm, at>>
         ELSE /\ mm' = [mm EXCEPT !.MemoryIDVessel = @ \cup {Min(free)}]
              /\ at' = [at EXCEPT ![t] = [place |-> "fill", id |-> Min(free), area |-> a]]
      /\ UNCHANGED has

Chained(next, a) ==
  [b \in Block |-> IF b \in a.first .. a.first + a.num - 2 THEN b + 1
                   ELSE IF b = a.first + a.num - 1 THEN 0 ELSE next[b]]

(* After the lock; the new partition is the task's own.                    *)
Fills(t) ==
  LET a == at[t].area
      i == at[t].id
  IN  /\ MayRun(t) /\ at[t].place = "fill"
      /\ mm' = [mm EXCEPT !.MemoryTbl[i] = [memAddr |-> a.first, freeBlock |-> a.first,
                                            blockNum |-> a.num],
                          !.nextBlock = Chained(@, a)]
      /\ at' = [at EXCEPT ![t] = Idling]
      /\ has' = [has EXCEPT !.ids[t] = @ \cup {i}]

(* Nobody holds a block of a partition that is deleted. *)
CoDelMemoryPartition(t, i) ==
  /\ MayRun(t) /\ at[t].place = "user" /\ i \in has.ids[t]
  /\ \A u \in Users : \A b \in has.blocks[u] : b[1] # i
  /\ mm' = [mm EXCEPT !.MemoryIDVessel = @ \ {i}]
  /\ at' = [at EXCEPT ![t] = [Idling EXCEPT !.place = "clear", !.id = i]]
  /\ has' = [has EXCEPT !.ids[t] = @ \ {i}]

Clears(t) ==
  /\ MayRun(t) /\ at[t].place = "clear"
  /\ mm' = [mm EXCEPT !.MemoryTbl[at[t].id] = NullMm]
  /\ at' = [at EXCEPT ![t] = Idling]
  /\ UNCHANGED has

(* Any task uses a partition that has been created. *)
Created(i) == \E u \in Users : i \in has.ids[u]

(* The id is tested before the lock ... *)
CoGetMemoryBuffer(t, i) ==
  /\ MayRun(t) /\ at[t].place = "user" /\ Created(i) /\ i \in mm.MemoryIDVessel
  /\ at' = [at EXCEPT ![t] = [Idling EXCEPT !.place = "get", !.id = i]]
  /\ UNCHANGED <<mm, has>>

(* ... and the block is taken in the section. *)
GetsBlock(t) ==
  LET i == at[t].id
      b == mm.MemoryTbl[i].freeBlock
  IN  /\ MayRun(t) /\ at[t].place = "get"
      /\ IF b = 0 THEN UNCHANGED <<mm, has>>
         ELSE /\ mm'  = [mm EXCEPT !.MemoryTbl[i].freeBlock = mm.nextBlock[b]]
              /\ has' = [has EXCEPT !.blocks[t] = @ \cup {<<i, b>>}]
      /\ at' = [at EXCEPT ![t] = Idling]

(* A task gives back, or another one that was handed the buffer.  The      *)
(* tests before the lock and the section are one step: a partition stays   *)
(* while one of its blocks is out, and what the tests read with it.  The   *)
(* code takes the address behind the last block for one of the partition.  *)
Accepted(i, b) ==
  LET c == mm.MemoryTbl[i] IN i \in mm.MemoryIDVessel /\ b \in c.memAddr .. c.memAddr + c.blockNum

(* Mutant: the block does not lead to the others.                          *)
PushedAlone(m, i, b) == [m EXCEPT !.nextBlock[b] = 0, !.MemoryTbl[i].freeBlock = b]

Pushed(m, i, b) ==
  [m EXCEPT !.nextBlock[b] = m.MemoryTbl[i].freeBlock, !.MemoryTbl[i].freeBlock = b]

CoFreeMemoryBuffer(t, u, i, b) ==
  /\ MayRun(t) /\ at[t].place = "user" /\ <<i, b>> \in has.blocks[u]
  /\ mm' = IF Accepted(i, b) THEN Pushed(mm, i, b) ELSE mm
  /\ has' = [has EXCEPT !.blocks[u] = @ \ {<<i, b>>}]
  /\ UNCHANGED at

-----------------------------------------------------------------------------
(* How an application has to use partitions: one task creates and deletes  *)
(* them, for the control block of a deleted one is cleared after its id is *)
(* free, when another task may have created a partition with this id.      *)
OneCreator == Cardinality(Creators) <= 1

(* The others are more urgent than it: no partition is deleted while a     *)
(* task stands between the test of its id and the section that gets one of *)
(* its blocks.                                                             *)
GettersFirst == \A c \in Creators : \A u \in Users \ {c} : MmPrio[u] < MmPrio[c]

(* What CoGetFreeBlockNum() counts. *)
FreeBlocks(i) ==
  LET n == mm.MemoryTbl[i].blockNum
      list[j \in 1 .. n + 1] ==
        IF j = 1 THEN mm.MemoryTbl[i].freeBlock
        ELSE IF list[j - 1] = 0 THEN 0 ELSE mm.nextBlock[list[j - 1]]
  IN  {list[j] : j \in 1 .. n + 1} \ {0}

(* Each block of a partition that a task has created is either in its list *)
(* of free blocks or held by one task, and no other block is in the list;  *)
(* so no block is given to two tasks or lost.  Under OneCreator and        *)
(* GettersFirst.                                                           *)
PartitionsSound ==
  \A i \in UNION {has.ids[t] : t \in Users} :
    LET c     == mm.MemoryTbl[i]
        given == {d \in Users \X Block : <<i, d[2]>> \in has.blocks[d[1]]}
    IN  /\ c.memAddr # 0
        /\ FreeBlocks(i) \cap {d[2] : d \in given} = {}
        /\ FreeBlocks(i) \cup {d[2] : d \in given} = c.memAddr .. c.memAddr + c.blockNum - 1
        /\ Cardinality(FreeBlocks(i)) + Cardinality(given) = c.blockNum
=============================================================================
