-------------------------- MODULE CoMemoryProofs --------------------------
(***************************************************************************)
(* What is proved of the two memory services, the partitions (CoMm) and    *)
(* the kernel heap (CoHeap): linked lists in memory that tasks write.  The *)
(* inductive invariants say that there is a sequence of blocks, or a set   *)
(* of addresses, which the links follow; the searches of the model are     *)
(* shown to follow them too.                                               *)
(***************************************************************************)
EXTENDS CoMm, CoHeap, SequenceTheorems, FiniteSetTheorems, FunctionTheorems,
        WellFoundedInduction, TLAPS

(* A non-empty set of naturals has a least element, which Min finds.       *)
LEMMA LeastOf ==
  ASSUME NEW S \in SUBSET Nat, S # {}
  PROVE  Min(S) \in S /\ \A n \in S : Min(S) <= n
<1>1. PICK m \in S : \A n \in S : <<n, m>> \notin OpToRel(<, Nat)
  BY WFMin, NatLessThanWellFounded, Zenon
<1>2. \A n \in S : ~(n < m)
  BY <1>1, Zenon DEF OpToRel
<1>3. \E k \in S : \A n \in S : k <= n
  BY <1>2
<1> QED  BY <1>3 DEF Min

-----------------------------------------------------------------------------
(* Partitions.  The blocks of an area, and the free ones of a partition:   *)
(* q lists them from the one in its control block on.                      *)
BlocksOf(a) == a.first .. a.first + a.num - 1

Chain(head, next, q) ==
  /\ Len(q) = 0 => head = 0
  /\ Len(q) # 0 => head = q[1]
  /\ \A j \in 1 .. Len(q) : next[q[j]] = IF j = Len(q) THEN 0 ELSE q[j + 1]

Distinct(q) == \A j, k \in 1 .. Len(q) : q[j] = q[k] => j = k

Follows(list, head, next, n) ==
  \A j \in 1 .. n + 1 : list[j] =
    IF j = 1 THEN head ELSE IF list[j - 1] = 0 THEN 0 ELSE next[list[j - 1]]

(* The links from head on are those of q, and then there are none.         *)
LEMMA ChainFollowed ==
  ASSUME NEW head, NEW next, NEW q \in Seq(Block), NEW n \in Nat, Len(q) <= n,
         Chain(head, next, q), 0 \notin Block,
         NEW list, Follows(list, head, next, n)
  PROVE  \A j \in 1 .. n + 1 : list[j] = IF j <= Len(q) THEN q[j] ELSE 0
<1> DEFINE m == Len(q)
           Bad == {j \in 1 .. n + 1 : list[j] # IF j <= m THEN q[j] ELSE 0}
<1>1. m \in Nat /\ m <= n /\ \A j \in 1 .. m : q[j] \in Block /\ q[j] # 0
  BY LenProperties, ElementOfSeq
<1>2. /\ m = 0 => head = 0
      /\ m # 0 => head = q[1]
      /\ \A j \in 1 .. m : next[q[j]] = IF j = m THEN 0 ELSE q[j + 1]
  BY DEF Chain
<1>3. \A j \in 1 .. n + 1 : list[j] =
        IF j = 1 THEN head ELSE IF list[j - 1] = 0 THEN 0 ELSE next[list[j - 1]]
  BY DEF Follows
<1>4. Bad = {}
  <2> SUFFICES ASSUME Bad # {}  PROVE FALSE
    OBVIOUS
  <2>1. Bad \in SUBSET Nat
    OBVIOUS
  <2> DEFINE k == Min(Bad)
  <2>2. k \in Bad /\ \A j \in Bad : k <= j
    <3> HIDE DEF Bad
    <3> QED  BY <2>1, LeastOf
  <2> HIDE DEF k, m
  <2>3. k \in 1 .. n + 1 /\ list[k] # IF k <= m THEN q[k] ELSE 0
    BY <2>2
  <2>4. CASE k = 1
    BY <1>1, <1>2, <1>3, <2>3, <2>4
  <2>5. CASE k # 1
    <3>1. k - 1 \in 1 .. n + 1 /\ k - 1 \notin Bad
      BY <2>2, <2>3, <2>5
    <3>2. list[k - 1] = IF k - 1 <= m THEN q[k - 1] ELSE 0
      BY <3>1
    <3>3. list[k] = IF list[k - 1] = 0 THEN 0 ELSE next[list[k - 1]]
      BY <1>3, <2>3, <2>5
    <3>4. k - 1 \in 1 .. m \/ k - 1 > m
      BY <1>1, <2>3, <2>5
    <3>5. k - 1 \in 1 .. m =>
            /\ q[k - 1] # 0
            /\ next[q[k - 1]] = IF k - 1 = m THEN 0 ELSE q[(k - 1) + 1]
      BY <1>1, <1>2
    <3> QED  BY <1>1, <2>3, <3>1, <3>2, <3>3, <3>4, <3>5
  <2> QED  BY <2>4, <2>5
<1> QED  BY <1>4

(* CoGetFreeBlockNum() counts the blocks of the list.                      *)
LEMMA FreeBlocksListed ==
  ASSUME NEW i, NEW q \in Seq(Block), mm.MemoryTbl[i].blockNum \in Nat,
         Len(q) <= mm.MemoryTbl[i].blockNum, 0 \notin Block,
         Chain(mm.MemoryTbl[i].freeBlock, mm.nextBlock, q)
  PROVE  FreeBlocks(i) = Range(q)
<1> DEFINE n == mm.MemoryTbl[i].blockNum
           head == mm.MemoryTbl[i].freeBlock
           Is(l) == l = [j \in 1 .. n + 1 |->
                            IF j = 1 THEN head ELSE IF l[j - 1] = 0 THEN 0
                                               ELSE mm.nextBlock[l[j - 1]]]
           m == Len(q)
           l0 == [j \in 1 .. n + 1 |-> IF j <= m THEN q[j] ELSE 0]
           list == CHOOSE l : Is(l)
<1>1. Is(l0)
  <2>1. m \in Nat /\ m <= n /\ \A j \in 1 .. m : q[j] \in Block /\ q[j] # 0
    BY LenProperties, ElementOfSeq
  <2>2. /\ m = 0 => head = 0
        /\ m # 0 => head = q[1]
        /\ \A j \in 1 .. m : mm.nextBlock[q[j]] = IF j = m THEN 0 ELSE q[j + 1]
    BY DEF Chain
  <2> HIDE DEF m, head, n
  <2>3. ASSUME NEW j \in 1 .. n + 1
        PROVE  l0[j] = IF j = 1 THEN head ELSE IF l0[j - 1] = 0 THEN 0
                                          ELSE mm.nextBlock[l0[j - 1]]
    <3>1. CASE j = 1
      BY <2>1, <2>2, <3>1 DEF n
    <3>2. CASE j # 1
      <4>1. j - 1 \in 1 .. n + 1
        BY <2>1, <3>2 DEF n
      <4>2. l0[j - 1] = IF j - 1 <= m THEN q[j - 1] ELSE 0
        BY <4>1
      <4>3. j - 1 \in 1 .. m => q[j - 1] # 0 /\ mm.nextBlock[q[j - 1]] = IF j - 1 = m THEN 0 ELSE q[(j - 1) + 1]
        BY <2>1, <2>2
      <4> QED  BY <2>1, <3>2, <4>1, <4>2, <4>3 DEF n
    <3> QED  BY <3>1, <3>2
  <2> HIDE DEF l0
  <2>4. l0 = [j \in 1 .. n + 1 |-> l0[j]]
    BY DEF l0
  <2> QED  BY <2>3, <2>4
<1>2. Is(list)
  <2> HIDE DEF Is
  <2> QED  BY <1>1
<1>3. FreeBlocks(i) = {list[j] : j \in 1 .. n + 1} \ {0}
  BY DEF FreeBlocks
<1> HIDE DEF list
<1>4. \A j \in 1 .. n + 1 : list[j] =
        IF j = 1 THEN head ELSE IF list[j - 1] = 0 THEN 0 ELSE mm.nextBlock[list[j - 1]]
  BY <1>2
<1>5. n \in Nat /\ Len(q) <= n /\ Chain(head, mm.nextBlock, q)
  OBVIOUS
<1> HIDE DEF n, head, Is
<1>6. \A j \in 1 .. n + 1 : list[j] = IF j <= m THEN q[j] ELSE 0
  <2>1. Follows(list, head, mm.nextBlock, n)
    BY <1>4 DEF Follows
  <2> QED  BY <1>5, <2>1, ChainFollowed
<1>7. m \in Nat /\ m <= n /\ \A j \in 1 .. m : q[j] \in Block /\ q[j] # 0
  BY <1>5, LenProperties, ElementOfSeq
<1>8. Range(q) = {q[j] : j \in 1 .. m}
  BY RangeEquality
<1> HIDE DEF m
<1>9. ASSUME NEW j \in 1 .. n + 1, list[j] # 0  PROVE list[j] \in Range(q)
  <2>1. j <= m /\ list[j] = q[j]
    BY <1>6, <1>9
  <2>2. j \in 1 .. m
    BY <1>7, <2>1
  <2> QED  BY <1>8, <2>1, <2>2
<1>10. ASSUME NEW j \in 1 .. m  PROVE \E k \in 1 .. n + 1 : list[k] = q[j] /\ q[j] # 0
  <2>1. j \in 1 .. n + 1 /\ list[j] = q[j]
    BY <1>5, <1>6, <1>7
  <2> QED  BY <1>7, <2>1
<1> QED  BY <1>3, <1>8, <1>9, <1>10
-----------------------------------------------------------------------------
(* The inductive invariant of the partitions.  One task creates and        *)
(* deletes them: the id it has taken and the area it is about to cut up,   *)
(* or the control block it still has to clear, are no created partition's. *)
(* The partition of which a task is about to get a block is still there.   *)
(* Every created partition has its own area, and each block of it is in    *)
(* its list, once, or has one holder.                                      *)
Cell == [memAddr : {0} \cup Block, freeBlock : {0} \cup Block, blockNum : Nat]

MmRecord ==
  [MemoryIDVessel : SUBSET Mm, MemoryTbl : [Mm -> Cell], nextBlock : [Block -> {0} \cup Block]]

MmPlace == {"user", "fill", "clear", "get"}

Ids == UNION {has.ids[t] : t \in Users}

Whole(m, h, i, a, q) ==
  /\ m.MemoryTbl[i].memAddr = a.first /\ m.MemoryTbl[i].blockNum = a.num
  /\ Chain(m.MemoryTbl[i].freeBlock, m.nextBlock, q)
  /\ Distinct(q) /\ Range(q) \subseteq BlocksOf(a)
  /\ \A b \in BlocksOf(a) : b \in Range(q) \/ \E u \in Users : <<i, b>> \in h.blocks[u]
  /\ \A u \in Users : \A b : <<i, b>> \in h.blocks[u] => b \in BlocksOf(a) /\ b \notin Range(q)
  /\ \A u, v \in Users : \A b : <<i, b>> \in h.blocks[u] /\ <<i, b>> \in h.blocks[v] => u = v

OneAtWork ==
  /\ \A t \in Users \ Creators : at[t].place \in {"user", "get"} /\ has.ids[t] = {}
  /\ \A t \in Users : at[t].place = "fill" =>
       /\ at[t].id \in mm.MemoryIDVessel /\ at[t].id \notin Ids /\ at[t].area \in Areas
       /\ \A i \in Ids : mm.MemoryTbl[i].memAddr # at[t].area.first
  /\ \A t \in Users : at[t].place = "clear" => at[t].id \notin Ids
  /\ \A t \in Users : at[t].place = "get" => at[t].id \in Ids

OwnAreas ==
  /\ Ids \subseteq mm.MemoryIDVessel
  /\ \A i, j \in Ids : mm.MemoryTbl[i].memAddr = mm.MemoryTbl[j].memAddr => i = j
  /\ \A u \in Users : \A d \in has.blocks[u] : d[1] \in Ids
  /\ \A i \in Ids : \E a \in Areas, q \in Seq(Block) : Whole(mm, has, i, a, q)

MmInv == MmTypeOK /\ OneAtWork /\ OwnAreas

(* The numbers of the areas.                                               *)
LEMMA AreaFacts ==
  ASSUME NEW a \in Areas
  PROVE  /\ a.first \in Nat \ {0} /\ a.num \in Nat \ {0, 1}
         /\ BlocksOf(a) \subseteq Block /\ a.first \in BlocksOf(a)
         /\ Block \subseteq Nat \ {0} /\ 0 \notin Block
         /\ \A c \in Areas : c # a => BlocksOf(c) \cap BlocksOf(a) = {} /\ c.first # a.first
<1>1. \A c \in Areas : c.first \in Nat \ {0} /\ c.num \in Nat \ {0, 1}
  BY MmAssumption
<1>2. /\ BlocksOf(a) \subseteq Block /\ a.first \in BlocksOf(a)
      /\ Block \subseteq Nat \ {0}
  BY <1>1 DEF Block, BlocksOf
<1>3. ASSUME NEW c \in Areas, c # a
      PROVE  BlocksOf(c) \cap BlocksOf(a) = {} /\ c.first # a.first
  BY <1>1, <1>3, MmAssumption DEF BlocksOf
<1> QED  BY <1>1, <1>2, <1>3

(* The fields of the variables.                                            *)
LEMMA MmFields ==
  ASSUME MmTypeOK
  PROVE  /\ mm \in MmRecord
         /\ mm.MemoryIDVessel \in SUBSET Mm /\ mm.MemoryTbl \in [Mm -> Cell]
         /\ mm.nextBlock \in [Block -> {0} \cup Block]
         /\ \A i \in Mm : mm.MemoryTbl[i] \in Cell
         /\ has.ids \in [Users -> SUBSET Mm] /\ has.blocks \in [Users -> SUBSET (Mm \X Block)]
         /\ Ids \subseteq Mm
BY DEF MmTypeOK, MmRecord, Cell, Ids

(* A partition whose control block and links are not written, and whose    *)
(* blocks stay with their holders, stays whole.                            *)
LEMMA WholeKept ==
  ASSUME NEW m, NEW h, NEW m2, NEW h2, NEW i, NEW a \in Areas, NEW q \in Seq(Block),
         Whole(m, h, i, a, q), m2.MemoryTbl[i] = m.MemoryTbl[i],
         \A b \in BlocksOf(a) : m2.nextBlock[b] = m.nextBlock[b],
         \A u \in Users : \A b : <<i, b>> \in h2.blocks[u] <=> <<i, b>> \in h.blocks[u]
  PROVE  Whole(m2, h2, i, a, q)
<1>1. \A j \in 1 .. Len(q) : q[j] \in BlocksOf(a)
  BY RangeEquality DEF Whole
<1>2. Chain(m2.MemoryTbl[i].freeBlock, m2.nextBlock, q)
  BY <1>1 DEF Whole, Chain
<1> QED  BY <1>2 DEF Whole

(* What the invariant says of the lists and the holders is what            *)
(* PartitionsSound says of the count.                                      *)
LEMMA MmImplies ==
  ASSUME MmInv  PROVE PartitionsSound
<1> SUFFICES ASSUME NEW i \in Ids
             PROVE  LET c     == mm.MemoryTbl[i]
                        given == {d \in Users \X Block : <<i, d[2]>> \in has.blocks[d[1]]}
                    IN  /\ c.memAddr # 0
                        /\ FreeBlocks(i) \cap {d[2] : d \in given} = {}
                        /\ FreeBlocks(i) \cup {d[2] : d \in given}
                             = c.memAddr .. c.memAddr + c.blockNum - 1
                        /\ Cardinality(FreeBlocks(i)) + Cardinality(given) = c.blockNum
  BY DEF PartitionsSound, Ids
<1> DEFINE c     == mm.MemoryTbl[i]
           given == {d \in Users \X Block : <<i, d[2]>> \in has.blocks[d[1]]}
           G     == {d[2] : d \in given}
<1>1. PICK a \in Areas, q \in Seq(Block) : Whole(mm, has, i, a, q)
  BY DEF MmInv, OwnAreas
<1>2. /\ c.memAddr = a.first /\ c.blockNum = a.num
      /\ Chain(c.freeBlock, mm.nextBlock, q) /\ Distinct(q)
      /\ Range(q) \subseteq BlocksOf(a)
      /\ \A b \in BlocksOf(a) : b \in Range(q) \/ \E u \in Users : <<i, b>> \in has.blocks[u]
      /\ \A u \in Users : \A b : <<i, b>> \in has.blocks[u]
                                   => b \in BlocksOf(a) /\ b \notin Range(q)
      /\ \A u, v \in Users : \A b :
           <<i, b>> \in has.blocks[u] /\ <<i, b>> \in has.blocks[v] => u = v
  BY <1>1 DEF Whole
<1>3. /\ a.first \in Nat \ {0} /\ a.num \in Nat \ {0, 1} /\ 0 \notin Block
      /\ BlocksOf(a) \subseteq Block
  BY AreaFacts
<1>4. IsFiniteSet(BlocksOf(a)) /\ Cardinality(BlocksOf(a)) = a.num
  <2> DEFINE n == a.first
             e == a.first + a.num - 1
  <2>1. n \in Int /\ e \in Int /\ n <= e /\ e - n + 1 = a.num
    BY <1>3
  <2>2. BlocksOf(a) = n .. e
    BY DEF BlocksOf
  <2> HIDE DEF n, e
  <2>3. IsFiniteSet(n .. e) /\ Cardinality(n .. e) = IF n > e THEN 0 ELSE e - n + 1
    BY <2>1, FS_Interval
  <2> QED  BY <2>1, <2>2, <2>3
<1>5. Len(q) <= a.num
  <2>1. q \in Injection(1 .. Len(q), BlocksOf(a))
    <3>1. \A j \in 1 .. Len(q) : q[j] \in BlocksOf(a)
      BY <1>2, RangeEquality
    <3>2. q \in [1 .. Len(q) -> BlocksOf(a)]
      BY <3>1, LenProperties
    <3> QED  BY <1>2, <3>2, Fun_IsInj DEF Distinct
  <2>2. Cardinality(1 .. Len(q)) <= a.num
    BY <1>4, <2>1, FS_Injection
  <2>3. Len(q) \in Nat /\ Cardinality(1 .. Len(q)) = IF 1 > Len(q) THEN 0 ELSE Len(q) - 1 + 1
    BY LenProperties, FS_Interval
  <2> QED  BY <1>3, <2>2, <2>3
<1>6. FreeBlocks(i) = Range(q)
  BY <1>2, <1>3, <1>5, FreeBlocksListed
<1>7. /\ \A d \in given : d[1] \in Users /\ <<i, d[2]>> \in has.blocks[d[1]]
      /\ G \subseteq BlocksOf(a) /\ Range(q) \cap G = {}
      /\ \A d, e \in given : d[2] = e[2] => d = e
  <2>1. ASSUME NEW d \in given
        PROVE  /\ d[1] \in Users /\ d = <<d[1], d[2]>> /\ <<i, d[2]>> \in has.blocks[d[1]]
               /\ d[2] \in BlocksOf(a) /\ d[2] \notin Range(q)
    BY <1>2
  <2> HIDE DEF given
  <2>2. ASSUME NEW d \in given, NEW e \in given, d[2] = e[2]  PROVE d = e
    <3>1. d[1] = e[1]
      <4>1. <<i, d[2]>> \in has.blocks[d[1]] /\ <<i, d[2]>> \in has.blocks[e[1]]
        BY <2>1, <2>2
      <4> QED  BY <1>2, <2>1, <4>1
    <3> QED  BY <2>1, <2>2, <3>1
  <2> QED  BY <2>1, <2>2
<1>8. BlocksOf(a) \subseteq Range(q) \cup G
  <2> SUFFICES ASSUME NEW b \in BlocksOf(a), b \notin Range(q)  PROVE b \in G
    OBVIOUS
  <2>1. PICK u \in Users : <<i, b>> \in has.blocks[u]
    BY <1>2
  <2> DEFINE d == <<u, b>>
  <2>2. d \in given /\ d[2] = b
    BY <1>3, <2>1
  <2> HIDE DEF d, given
  <2> QED  BY <2>2
<1>9. Range(q) \cup G = BlocksOf(a)
  BY <1>2, <1>7, <1>8
<1> HIDE DEF given
<1>10. IsFiniteSet(G) /\ IsFiniteSet(Range(q))
  BY <1>4, <1>9, FS_Subset
<1>11. Cardinality(given) = Cardinality(G)
  <2> DEFINE f == [d \in given |-> d[2]]
  <2>1. f \in Injection(given, G)
    BY <1>7, Fun_IsInj
  <2>2. f \in Surjection(given, G)
    BY Fun_IsSurj
  <2> HIDE DEF f, G
  <2> QED  BY <1>10, <2>1, <2>2, FS_Injection
<1>12. Cardinality(Range(q)) + Cardinality(G) = a.num
  <2> HIDE DEF G
  <2>1. Cardinality(Range(q) \cup G)
          = Cardinality(Range(q)) + Cardinality(G) - Cardinality(Range(q) \cap G)
    BY <1>10, FS_Union
  <2>2. Cardinality(Range(q)) \in Nat /\ Cardinality(G) \in Nat
    BY <1>10, FS_CardinalityType
  <2>3. Cardinality(Range(q) \cap G) = 0
    BY <1>7, FS_EmptySet
  <2>4. Cardinality(Range(q) \cup G) = a.num
    BY <1>4, <1>9
  <2> QED  BY <2>1, <2>2, <2>3, <2>4
<1> QED  BY <1>2, <1>3, <1>6, <1>7, <1>9, <1>11, <1>12 DEF given, BlocksOf
(* At first there is no partition. *)
LEMMA MmInitial == MmInit => MmInv
<1> SUFFICES ASSUME MmInit  PROVE MmInv
  OBVIOUS
<1>1. MaxMm \in Nat /\ Creators \subseteq Users
  BY MmAssumption
<1>2. MmTypeOK
  <2>1. NullMm \in Cell
    BY DEF NullMm, Cell
  <2>2. mm \in MmRecord
    BY <2>1 DEF MmInit, MmRecord
  <2>3. at \in [Users -> [place : MmPlace, id : Mm \cup {MaxMm},
                          area : Areas \cup {NullMm}]]
    BY DEF MmInit, Idling, MmPlace
  <2>4. has \in [ids : [Users -> SUBSET Mm], blocks : [Users -> SUBSET (Mm \X Block)]]
    BY DEF MmInit
  <2> QED  BY <2>2, <2>3, <2>4 DEF MmTypeOK, MmRecord, Cell, MmPlace
<1>3. Ids = {} /\ \A u \in Users : has.blocks[u] = {} /\ has.ids[u] = {} /\ at[u].place = "user"
  BY DEF Ids, MmInit, Idling
<1> QED  BY <1>2, <1>3 DEF MmInv, OneAtWork, OwnAreas

(* Two that create partitions are one.                                     *)
LEMMA CreatorAlone ==
  ASSUME OneCreator, NEW t \in Creators, NEW u \in Creators  PROVE t = u
<1>1. IsFiniteSet(Creators) /\ t \in Users
  BY MmAssumption, FS_Subset
<1>2. {t, u} \in SUBSET Creators /\ IsFiniteSet({t, u})
  BY <1>1, FS_Subset
<1>3. Cardinality({t, u}) <= 1 /\ Cardinality({t, u}) \in Nat /\ {t, u} # {}
  <2>1. Cardinality({t, u}) <= Cardinality(Creators)
    BY <1>1, <1>2, FS_Subset
  <2>2. Cardinality({t, u}) \in Nat /\ Cardinality(Creators) \in Nat
    BY <1>1, <1>2, FS_CardinalityType
  <2>3. Cardinality(Creators) <= 1
    BY DEF OneCreator
  <2> QED  BY <2>1, <2>2, <2>3
<1>4. Cardinality({t, u}) = 1
  <2>1. Cardinality({t, u}) # 0
    BY <1>2, <1>3, FS_EmptySet
  <2> QED  BY <1>3, <2>1
<1>5. \E x : {t, u} = {x}
  BY <1>2, <1>4, FS_Singleton
<1> QED  BY <1>5

(* A step that leaves the ids of the created partitions and their control  *)
(* blocks, links and holders keeps what is said of their areas.            *)
LEMMA OwnAreasKept ==
  ASSUME MmInv, Ids' = Ids, has'.blocks = has.blocks, Ids \subseteq mm'.MemoryIDVessel,
         \A i \in Ids : mm'.MemoryTbl[i] = mm.MemoryTbl[i], mm'.nextBlock = mm.nextBlock
  PROVE  OwnAreas'
<1>1. ASSUME NEW i \in Ids
      PROVE  \E a \in Areas, q \in Seq(Block) : Whole(mm', has', i, a, q)
  <2>1. PICK a \in Areas, q \in Seq(Block) : Whole(mm, has, i, a, q)
    BY DEF MmInv, OwnAreas
  <2>2. Whole(mm', has', i, a, q)
    BY <2>1, WholeKept
  <2> QED  BY <2>2
<1>2. \A i \in Ids : \E a \in Areas, q \in Seq(Block) : Whole(mm', has', i, a, q)
  BY <1>1
<1> QED  BY <1>2 DEF MmInv, OwnAreas

(* A step of something else leaves the partitions. *)
LEMMA MmStutter ==
  ASSUME MmInv, UNCHANGED mmVars  PROVE MmInv'
<1>1. mm' = mm /\ at' = at /\ has' = has /\ Ids' = Ids
  BY DEF mmVars, Ids
<1>2. MmTypeOK'
  BY <1>1 DEF MmInv, MmTypeOK
<1>3. OneAtWork'
  BY <1>1 DEF MmInv, OneAtWork
<1>4. OwnAreas'
  BY <1>1, OwnAreasKept DEF MmInv, OwnAreas
<1> QED  BY <1>2, <1>3, <1>4 DEF MmInv

(* CoCreateMemPartition(): an id is taken, and an area that nobody uses.   *)
LEMMA CreateKeepsMm ==
  ASSUME MmInv, OneCreator, NEW t \in Creators, NEW a \in Areas, CoCreateMemPartition(t, a)
  PROVE  MmInv'
<1>0. /\ MmTypeOK /\ OneAtWork /\ OwnAreas /\ t \in Users /\ Creators \subseteq Users
      /\ mm \in MmRecord /\ mm.MemoryIDVessel \in SUBSET Mm
      /\ at[t].place = "user" /\ has' = has /\ ~AreaUsed(a) /\ Mm \in SUBSET Nat
  BY MmFields, MmAssumption DEF MmInv, CoCreateMemPartition, Mm
<1> DEFINE free == Mm \ mm.MemoryIDVessel
           k == Min(free)
<1>1. CASE free = {}
  <2>1. UNCHANGED <<mm, at, has>>
    BY <1>1 DEF CoCreateMemPartition
  <2> QED  BY <2>1, MmStutter DEF mmVars
<1>2. CASE free # {}
  <2>1. /\ mm' = [mm EXCEPT !.MemoryIDVessel = @ \cup {k}]
        /\ at' = [at EXCEPT ![t] = [place |-> "fill", id |-> k, area |-> a]]
    BY <1>2 DEF CoCreateMemPartition
  <2>2. k \in Mm /\ k \notin mm.MemoryIDVessel
    BY <1>0, <1>2, LeastOf
  <2> HIDE DEF k, free
  <2>3. /\ mm' \in MmRecord /\ mm'.MemoryIDVessel = mm.MemoryIDVessel \cup {k}
        /\ mm'.MemoryTbl = mm.MemoryTbl /\ mm'.nextBlock = mm.nextBlock
    BY <1>0, <2>1, <2>2 DEF MmRecord
  <2>4. MmTypeOK'
    <3>1. [place |-> "fill", id |-> k, area |-> a]
            \in [place : MmPlace, id : Mm \cup {MaxMm}, area : Areas \cup {NullMm}]
      BY <2>2 DEF MmPlace
    <3>2. at' \in [Users -> [place : MmPlace, id : Mm \cup {MaxMm},
                             area : Areas \cup {NullMm}]]
      BY <1>0, <2>1, <3>1 DEF MmTypeOK, MmPlace
    <3> QED  BY <1>0, <2>3, <3>2 DEF MmTypeOK, MmRecord, Cell, MmPlace
  <2>5. Ids' = Ids /\ k \notin Ids
    BY <1>0, <2>2 DEF Ids, OwnAreas
  <2>6. OneAtWork'
    <3>1. \A u \in Users : at'[u] = IF u = t THEN [place |-> "fill", id |-> k, area |-> a] ELSE at[u]
      BY <1>0, <2>1 DEF MmTypeOK
    <3>2. \A u \in Users : u # t => at'[u] = at[u] /\ at[u].place \in {"user", "get"}
      BY <1>0, <3>1, CreatorAlone DEF OneAtWork
    <3>4. \A i \in Ids : mm'.MemoryTbl[i].memAddr # a.first
      BY <1>0, <2>3 DEF AreaUsed, Ids
    <3>5. at'[t].place = "fill" /\ at'[t].id = k /\ at'[t].area = a
      BY <1>0, <3>1
    <3>6. ASSUME NEW u \in Users \ Creators  PROVE at'[u].place \in {"user", "get"} /\ has'.ids[u] = {}
      BY <1>0, <3>2 DEF OneAtWork
    <3>7. ASSUME NEW u \in Users, at'[u].place \in {"fill", "clear"}  PROVE u = t
      BY <3>2, <3>7
    <3>8. \A u \in Users : at'[u].place = "get" => at'[u].id \in Ids
      BY <1>0, <3>2, <3>5 DEF OneAtWork
    <3> QED  BY <2>3, <2>5, <3>4, <3>5, <3>6, <3>7, <3>8 DEF OneAtWork
  <2>7. OwnAreas'
    <3>1. Ids \subseteq mm'.MemoryIDVessel
      BY <1>0, <2>3 DEF OwnAreas
    <3> QED  BY <1>0, <2>3, <2>5, <3>1, OwnAreasKept
  <2> QED  BY <2>4, <2>6, <2>7 DEF MmInv
<1> QED  BY <1>1, <1>2

(* After the lock: the blocks of the area are all free, in their order.    *)
LEMMA FillsKeepsMm ==
  ASSUME MmInv, OneCreator, NEW t \in Users, Fills(t)  PROVE MmInv'
<1> DEFINE a == at[t].area
           k == at[t].id
           c == [memAddr |-> a.first, freeBlock |-> a.first, blockNum |-> a.num]
           next == Chained(mm.nextBlock, a)
<1>0. /\ MmTypeOK /\ OneAtWork /\ OwnAreas /\ Creators \subseteq Users
      /\ mm \in MmRecord /\ mm.MemoryIDVessel \in SUBSET Mm /\ mm.MemoryTbl \in [Mm -> Cell]
      /\ mm.nextBlock \in [Block -> {0} \cup Block]
      /\ has.ids \in [Users -> SUBSET Mm] /\ has.blocks \in [Users -> SUBSET (Mm \X Block)]
      /\ Ids \subseteq Mm /\ at[t].place = "fill" /\ t \in Creators
  BY MmFields, MmAssumption DEF MmInv, Fills, OneAtWork
<1>1. /\ k \in mm.MemoryIDVessel /\ k \in Mm /\ k \notin Ids /\ a \in Areas
      /\ \A i \in Ids : mm.MemoryTbl[i].memAddr # a.first
  BY <1>0 DEF OneAtWork
<1>2. /\ a.first \in Nat \ {0} /\ a.num \in Nat \ {0, 1}
      /\ BlocksOf(a) \subseteq Block /\ a.first \in BlocksOf(a)
      /\ \A d \in Areas : d # a => BlocksOf(d) \cap BlocksOf(a) = {} /\ d.first # a.first
  BY <1>1, AreaFacts
<1>3. /\ mm' = [mm EXCEPT !.MemoryTbl[k] = c, !.nextBlock = next]
      /\ at' = [at EXCEPT ![t] = Idling]
      /\ has' = [has EXCEPT !.ids[t] = @ \cup {k}]
  BY DEF Fills
<1> HIDE DEF k, a
<1>4. c \in Cell
  BY <1>2 DEF Cell
<1>5. /\ next \in [Block -> {0} \cup Block]
      /\ \A b \in Block : next[b] = IF b \in a.first .. a.first + a.num - 2 THEN b + 1
                                    ELSE IF b = a.first + a.num - 1 THEN 0 ELSE mm.nextBlock[b]
  <2>1. \A b \in Block : b \in a.first .. a.first + a.num - 2 => b + 1 \in Block
    BY <1>2 DEF BlocksOf
  <2> QED  BY <1>0, <2>1 DEF Chained
<1> HIDE DEF c, next
<1>6. /\ mm' \in MmRecord /\ mm'.MemoryIDVessel = mm.MemoryIDVessel /\ mm'.nextBlock = next
      /\ mm'.MemoryTbl = [mm.MemoryTbl EXCEPT ![k] = c]
      /\ \A i \in Mm : mm'.MemoryTbl[i] = IF i = k THEN c ELSE mm.MemoryTbl[i]
  <2>1. mm' = [mm EXCEPT !.MemoryTbl = [mm.MemoryTbl EXCEPT ![k] = c], !.nextBlock = next]
    BY <1>0, <1>3 DEF MmRecord
  <2>2. [mm.MemoryTbl EXCEPT ![k] = c] \in [Mm -> Cell]
    BY <1>0, <1>4
  <2>3. mm' \in MmRecord
    BY <1>0, <1>5, <2>1, <2>2 DEF MmRecord
  <2>4. /\ mm'.MemoryIDVessel = mm.MemoryIDVessel /\ mm'.nextBlock = next
        /\ mm'.MemoryTbl = [mm.MemoryTbl EXCEPT ![k] = c]
    BY <1>0, <2>1 DEF MmRecord
  <2> QED  BY <1>0, <2>3, <2>4
<1>7. /\ has' \in [ids : [Users -> SUBSET Mm], blocks : [Users -> SUBSET (Mm \X Block)]]
      /\ has'.blocks = has.blocks /\ Ids' = Ids \cup {k}
      /\ \A u \in Users : has'.ids[u] = IF u = t THEN has.ids[u] \cup {k} ELSE has.ids[u]
  <2>1. has \in [ids : [Users -> SUBSET Mm], blocks : [Users -> SUBSET (Mm \X Block)]]
    BY <1>0 DEF MmTypeOK
  <2>2. [has.ids EXCEPT ![t] = @ \cup {k}] \in [Users -> SUBSET Mm]
    BY <1>0, <1>1
  <2>3. has' = [has EXCEPT !.ids = [has.ids EXCEPT ![t] = @ \cup {k}]]
    BY <1>3, <2>1
  <2>4. has'.blocks = has.blocks /\ has'.ids = [has.ids EXCEPT ![t] = @ \cup {k}]
    BY <2>1, <2>3
  <2>5. \A u \in Users : has'.ids[u] = IF u = t THEN has.ids[u] \cup {k} ELSE has.ids[u]
    BY <1>0, <2>4
  <2>6. Ids' = Ids \cup {k}
    BY <2>5 DEF Ids
  <2> QED  BY <2>1, <2>2, <2>3, <2>4, <2>5, <2>6
<1>8. /\ at' \in [Users -> [place : MmPlace, id : Mm \cup {MaxMm},
                            area : Areas \cup {NullMm}]]
      /\ \A u \in Users : at'[u] = IF u = t THEN Idling ELSE at[u]
  BY <1>0, <1>3 DEF MmTypeOK, Idling, MmPlace
<1>9. MmTypeOK'
  BY <1>6, <1>7, <1>8 DEF MmTypeOK, MmRecord, Cell, MmPlace
<1>10. OneAtWork'
  <2>1. /\ \A u \in Users : at'[u].place \in {"user", "get"}
        /\ \A u \in Users : at'[u].place = "get" => at'[u].id \in Ids
    <3>1. \A u \in Users : u # t => at[u].place \in {"user", "get"}
      <4>1. ASSUME NEW u \in Creators, u # t  PROVE FALSE
        BY <1>0, <4>1, CreatorAlone
      <4> QED  BY <1>0, <4>1 DEF OneAtWork
    <3> QED  BY <1>0, <1>8, <3>1 DEF Idling, OneAtWork
  <2>2. \A u \in Users \ Creators : has'.ids[u] = {}
    BY <1>0, <1>7 DEF OneAtWork
  <2> QED  BY <1>7, <2>1, <2>2 DEF OneAtWork
<1>11. OwnAreas'
  <2>1. Ids' \subseteq mm'.MemoryIDVessel
    BY <1>0, <1>1, <1>6, <1>7 DEF OwnAreas
  <2>2. \A i, j \in Ids' : mm'.MemoryTbl[i].memAddr = mm'.MemoryTbl[j].memAddr => i = j
    <3>1. c.memAddr = a.first
      BY DEF c
    <3> QED  BY <1>0, <1>1, <1>6, <1>7, <3>1 DEF OwnAreas
  <2>3. \A u \in Users : \A d \in has'.blocks[u] : d[1] \in Ids'
    BY <1>0, <1>7 DEF OwnAreas
  <2>4. ASSUME NEW i \in Ids
        PROVE  \E d \in Areas, q \in Seq(Block) : Whole(mm', has', i, d, q)
    <3>1. PICK d \in Areas, q \in Seq(Block) : Whole(mm, has, i, d, q)
      BY <1>0 DEF OwnAreas
    <3>2. mm.MemoryTbl[i].memAddr = d.first
      BY <3>1 DEF Whole
    <3>3. d # a /\ BlocksOf(d) \cap BlocksOf(a) = {} /\ BlocksOf(d) \subseteq Block
      BY <1>1, <1>2, <3>2, AreaFacts
    <3>4. \A b \in BlocksOf(d) : mm'.nextBlock[b] = mm.nextBlock[b]
      BY <1>2, <1>5, <1>6, <3>3 DEF BlocksOf
    <3>5. mm'.MemoryTbl[i] = mm.MemoryTbl[i]
      BY <1>0, <1>1, <1>6
    <3>6. Whole(mm', has', i, d, q)
      BY <1>7, <3>1, <3>4, <3>5, WholeKept
    <3> QED  BY <3>6
  <2>5. \E q \in Seq(Block) : Whole(mm', has', k, a, q)
    <3> DEFINE q == [j \in 1 .. a.num |-> a.first + j - 1]
    <3>1. /\ q \in Seq(Block) /\ Len(q) = a.num
          /\ \A j \in 1 .. a.num : q[j] = a.first + j - 1 /\ q[j] \in BlocksOf(a)
      <4>1. \A j \in 1 .. a.num : a.first + j - 1 \in BlocksOf(a)
        BY <1>2 DEF BlocksOf
      <4>2. \A j \in 1 .. a.num : a.first + j - 1 \in Block
        BY <1>2, <4>1
      <4>3. q \in [1 .. a.num -> Block]
        BY <4>2
      <4>4. q \in Seq(Block)
        BY <1>2, <4>3, SeqDef
      <4>5. DOMAIN q = 1 .. a.num /\ DOMAIN q = 1 .. Len(q) /\ Len(q) \in Nat
        BY <4>4, LenProperties
      <4> HIDE DEF q
      <4>6. Len(q) = a.num
        BY <1>2, <4>5
      <4> QED  BY <4>1, <4>4, <4>6 DEF q
    <3> HIDE DEF q
    <3>2. /\ mm'.MemoryTbl[k].memAddr = a.first /\ mm'.MemoryTbl[k].blockNum = a.num
          /\ mm'.MemoryTbl[k].freeBlock = a.first
      BY <1>1, <1>6 DEF c
    <3>3. Chain(a.first, next, q)
      <4>1. ASSUME NEW j \in 1 .. a.num
            PROVE  next[q[j]] = IF j = a.num THEN 0 ELSE q[j + 1]
        <5>1. q[j] = a.first + j - 1 /\ q[j] \in Block
          BY <1>2, <3>1
        <5>2. CASE j = a.num
          BY <1>2, <1>5, <5>1, <5>2
        <5>3. CASE j # a.num
          <6>1. j + 1 \in 1 .. a.num /\ q[j + 1] = a.first + (j + 1) - 1
            BY <1>2, <3>1, <5>3
          <6>2. q[j] \in a.first .. a.first + a.num - 2
            BY <1>2, <5>1, <5>3
          <6> QED  BY <1>2, <1>5, <5>1, <5>3, <6>1, <6>2
        <5> QED  BY <5>2, <5>3
      <4>2. a.first = q[1] /\ a.num # 0
        BY <1>2, <3>1
      <4> QED  BY <3>1, <4>1, <4>2 DEF Chain
    <3>4. Distinct(q)
      BY <1>2, <3>1 DEF Distinct
    <3>5. Range(q) = BlocksOf(a)
      <4>1. Range(q) = {q[j] : j \in 1 .. a.num}
        BY <3>1, RangeEquality
      <4>2. ASSUME NEW b \in BlocksOf(a)  PROVE \E j \in 1 .. a.num : q[j] = b
        <5>1. b - a.first + 1 \in 1 .. a.num /\ q[b - a.first + 1] = b
          BY <1>2, <3>1 DEF BlocksOf
        <5> QED  BY <5>1
      <4> QED  BY <3>1, <4>1, <4>2
    <3>6. \A u \in Users : \A b : <<k, b>> \notin has'.blocks[u]
      BY <1>0, <1>1, <1>7 DEF OwnAreas
    <3> QED  BY <1>6, <3>1, <3>2, <3>3, <3>4, <3>5, <3>6 DEF Whole
  <2> QED  BY <1>1, <1>7, <2>1, <2>2, <2>3, <2>4, <2>5 DEF OwnAreas
<1> QED  BY <1>9, <1>10, <1>11 DEF MmInv

(* CoDelMemoryPartition(): its id is free, its control block not yet clear. *)
LEMMA DelKeepsMm ==
  ASSUME MmInv, OneCreator, GettersFirst, NEW t \in Creators, NEW k \in Mm,
         CoDelMemoryPartition(t, k)
  PROVE  MmInv'
<1>0. /\ MmTypeOK /\ OneAtWork /\ OwnAreas /\ t \in Users /\ Creators \subseteq Users
      /\ mm \in MmRecord /\ mm.MemoryIDVessel \in SUBSET Mm
      /\ has.ids \in [Users -> SUBSET Mm] /\ has.blocks \in [Users -> SUBSET (Mm \X Block)]
      /\ at[t].place = "user" /\ k \in has.ids[t] /\ MayRun(t)
      /\ \A u \in Users : \A b \in has.blocks[u] : b[1] # k
      /\ has \in [ids : [Users -> SUBSET Mm], blocks : [Users -> SUBSET (Mm \X Block)]]
  BY MmFields, MmAssumption DEF MmInv, CoDelMemoryPartition, MmTypeOK
<1> DEFINE w == [Idling EXCEPT !.place = "clear", !.id = k]
<1>1. /\ mm' = [mm EXCEPT !.MemoryIDVessel = @ \ {k}]
      /\ at' = [at EXCEPT ![t] = w]
      /\ has' = [has EXCEPT !.ids[t] = @ \ {k}]
  BY DEF CoDelMemoryPartition
<1>2. /\ w.place = "clear" /\ w.id = k
      /\ w \in [place : MmPlace, id : Mm \cup {MaxMm}, area : Areas \cup {NullMm}]
  <2>1. Idling \in [place : MmPlace, id : Mm \cup {MaxMm}, area : Areas \cup {NullMm}]
    BY DEF Idling, MmPlace
  <2> QED  BY <2>1 DEF MmPlace
<1> HIDE DEF w
<1>3. /\ mm' \in MmRecord /\ mm'.MemoryIDVessel = mm.MemoryIDVessel \ {k}
      /\ mm'.MemoryTbl = mm.MemoryTbl /\ mm'.nextBlock = mm.nextBlock
  BY <1>0, <1>1 DEF MmRecord
<1>4. /\ has'.ids = [has.ids EXCEPT ![t] = @ \ {k}] /\ has'.blocks = has.blocks
      /\ has' \in [ids : [Users -> SUBSET Mm], blocks : [Users -> SUBSET (Mm \X Block)]]
  <2>1. has' = [has EXCEPT !.ids = [has.ids EXCEPT ![t] = @ \ {k}]]
    BY <1>0, <1>1
  <2>2. [has.ids EXCEPT ![t] = @ \ {k}] \in [Users -> SUBSET Mm]
    BY <1>0
  <2> QED  BY <1>0, <2>1, <2>2
<1>5. \A u \in Users : has'.ids[u] = IF u = t THEN has.ids[u] \ {k} ELSE has.ids[u]
  BY <1>0, <1>4
<1>6. Ids' \subseteq Ids \ {k}
  (* A partition is its creator's. *)
  <2>1. \A u \in Users : k \in has.ids[u] => u = t
    <3>1. \A u \in Users : k \in has.ids[u] => u \in Creators
      BY <1>0 DEF OneAtWork
    <3> QED  BY <1>0, <3>1, CreatorAlone
  <2> QED  BY <1>5, <2>1 DEF Ids
<1>7. /\ at' \in [Users -> [place : MmPlace, id : Mm \cup {MaxMm},
                            area : Areas \cup {NullMm}]]
      /\ \A u \in Users : at'[u] = IF u = t THEN w ELSE at[u]
  BY <1>0, <1>1, <1>2 DEF MmTypeOK, MmPlace
<1>8. MmTypeOK'
  BY <1>3, <1>4, <1>7 DEF MmTypeOK, MmRecord, Cell, MmPlace
<1>9. OneAtWork'
  <2>1. \A u \in Users : u # t => at'[u].place = "user"
    (* The others are more urgent, and through with their calls. *)
    <3>1. \A u \in Users : u # t => at[u].place = "user"
      BY <1>0 DEF GettersFirst, MayRun
    <3> QED  BY <1>7, <3>1
  <2>2. \A u \in Users \ Creators : has'.ids[u] = {}
    BY <1>0, <1>5 DEF OneAtWork
  <2>3. at'[t].place = "clear" /\ at'[t].id = k
    BY <1>0, <1>2, <1>7
  <2>4. \A u \in Users : at'[u].place # "user" => u = t
    BY <2>1
  <2>5. \A u \in Users \ Creators : at'[u].place = "user"
    BY <1>0, <2>1
  <2>6. \A u \in Users : at'[u].place \notin {"fill", "get"}
    BY <2>1, <2>3
  <2>7. \A u \in Users : at'[u].place = "clear" => at'[u].id \notin Ids'
    BY <1>6, <2>3, <2>4
  <2> QED  BY <2>2, <2>5, <2>6, <2>7 DEF OneAtWork
<1>10. OwnAreas'
  <2>1. Ids' \subseteq mm'.MemoryIDVessel
    BY <1>0, <1>3, <1>6 DEF OwnAreas
  <2>2. \A u \in Users : \A d \in has'.blocks[u] : d[1] \in Ids'
    <3>1. \A i \in Ids : i # k => i \in Ids'
      BY <1>5 DEF Ids
    <3> QED  BY <1>0, <1>4, <3>1 DEF OwnAreas
  <2>3. ASSUME NEW i \in Ids'
        PROVE  \E a \in Areas, q \in Seq(Block) : Whole(mm', has', i, a, q)
    <3>1. PICK a \in Areas, q \in Seq(Block) : Whole(mm, has, i, a, q)
      BY <1>0, <1>6 DEF OwnAreas
    <3>2. Whole(mm', has', i, a, q)
      BY <1>3, <1>4, <3>1, WholeKept
    <3> QED  BY <3>2
  <2>4. \A i, j \in Ids' : mm'.MemoryTbl[i].memAddr = mm'.MemoryTbl[j].memAddr => i = j
    BY <1>0, <1>3, <1>6 DEF OwnAreas
  <2> QED  BY <2>1, <2>2, <2>3, <2>4 DEF OwnAreas
<1> QED  BY <1>8, <1>9, <1>10 DEF MmInv

(* ... and after the lock its control block is cleared.                    *)
LEMMA ClearsKeepsMm ==
  ASSUME MmInv, OneCreator, NEW t \in Users, Clears(t)  PROVE MmInv'
<1> DEFINE k == at[t].id
<1>0. /\ MmTypeOK /\ OneAtWork /\ OwnAreas /\ Creators \subseteq Users
      /\ mm \in MmRecord /\ mm.MemoryIDVessel \in SUBSET Mm /\ mm.MemoryTbl \in [Mm -> Cell]
      /\ Ids \subseteq Mm /\ at[t].place = "clear" /\ t \in Creators /\ k \notin Ids
  BY MmFields, MmAssumption DEF MmInv, Clears, OneAtWork
<1>1. /\ mm' = [mm EXCEPT !.MemoryTbl[k] = NullMm]
      /\ at' = [at EXCEPT ![t] = Idling] /\ has' = has /\ Ids' = Ids
  BY DEF Clears, Ids
<1>2. NullMm \in Cell
  BY DEF NullMm, Cell
<1> HIDE DEF k
<1>3. /\ mm' \in MmRecord /\ mm'.MemoryIDVessel = mm.MemoryIDVessel
      /\ mm'.nextBlock = mm.nextBlock
      /\ \A i \in Ids : mm'.MemoryTbl[i] = mm.MemoryTbl[i]
  <2>1. mm' = [mm EXCEPT !.MemoryTbl = [mm.MemoryTbl EXCEPT ![k] = NullMm]]
    BY <1>0, <1>1 DEF MmRecord
  <2>2. [mm.MemoryTbl EXCEPT ![k] = NullMm] \in [Mm -> Cell]
    BY <1>0, <1>2
  <2>3. mm' \in MmRecord
    BY <1>0, <2>1, <2>2 DEF MmRecord
  <2>4. /\ mm'.MemoryIDVessel = mm.MemoryIDVessel /\ mm'.nextBlock = mm.nextBlock
        /\ mm'.MemoryTbl = [mm.MemoryTbl EXCEPT ![k] = NullMm]
    BY <1>0, <2>1 DEF MmRecord
  <2> QED  BY <1>0, <2>3, <2>4
<1>4. /\ at' \in [Users -> [place : MmPlace, id : Mm \cup {MaxMm},
                            area : Areas \cup {NullMm}]]
      /\ \A u \in Users : at'[u] = IF u = t THEN Idling ELSE at[u]
  BY <1>0, <1>1 DEF MmTypeOK, Idling, MmPlace
<1>5. MmTypeOK'
  BY <1>0, <1>1, <1>3, <1>4 DEF MmTypeOK, MmRecord, Cell, MmPlace
<1>6. OneAtWork'
  <2>1. \A u \in Users : u # t => u \notin Creators
    BY <1>0, CreatorAlone
  <2>2. /\ \A u \in Users : at'[u].place \in {"user", "get"}
        /\ \A u \in Users : at'[u].place = "get" => at'[u].id \in Ids
    BY <1>0, <1>4, <2>1 DEF OneAtWork, Idling
  <2> QED  BY <1>0, <1>1, <2>2 DEF OneAtWork
<1>7. OwnAreas'
  BY <1>0, <1>1, <1>3, OwnAreasKept DEF OwnAreas
<1> QED  BY <1>5, <1>6, <1>7 DEF MmInv

(* A step on the list of partition i leaves the others; a task may have    *)
(* been through with its call.                                             *)
LEMMA OneListKeepsMm ==
  ASSUME MmInv, MmTypeOK', NEW i \in Ids, NEW a \in Areas, NEW p \in Seq(Block),
         Whole(mm, has, i, a, p),
         \E q \in Seq(Block) : Whole(mm', has', i, a, q),
         \A u \in Users : at'[u] \in {at[u], Idling}, has'.ids = has.ids, mm'.MemoryIDVessel = mm.MemoryIDVessel,
         \A k \in Ids \ {i} : mm'.MemoryTbl[k] = mm.MemoryTbl[k],
         \A b \in Block \ BlocksOf(a) : mm'.nextBlock[b] = mm.nextBlock[b],
         \A k, b : k # i => \A u \in Users : <<k, b>> \in has'.blocks[u] <=> <<k, b>> \in has.blocks[u]
  PROVE  MmInv'
<1>0. MmTypeOK /\ OneAtWork /\ OwnAreas /\ Ids' = Ids
  BY DEF MmInv, Ids
<1>1. mm.MemoryTbl[i].memAddr = a.first /\ mm'.MemoryTbl[i].memAddr = a.first
  BY DEF Whole
<1>2. \A k \in Ids : mm'.MemoryTbl[k].memAddr = mm.MemoryTbl[k].memAddr
  BY <1>1
<1>3. OneAtWork'
  <2>1. ASSUME NEW u \in Users
        PROVE  at'[u].place = "user" \/ at'[u] = at[u]
    BY DEF Idling
  <2>2. \A u \in Users \ Creators : at'[u].place \in {"user", "get"} /\ has'.ids[u] = {}
    BY <1>0, <2>1 DEF OneAtWork
  <2>3. ASSUME NEW u \in Users, at'[u].place # "user"  PROVE at'[u] = at[u]
    BY <2>1, <2>3
  <2> QED  BY <1>0, <1>2, <2>2, <2>3 DEF OneAtWork
<1>4. ASSUME NEW k \in Ids, k # i
      PROVE  \E d \in Areas, q \in Seq(Block) : Whole(mm', has', k, d, q)
  <2>1. PICK d \in Areas, q \in Seq(Block) : Whole(mm, has, k, d, q)
    BY <1>0 DEF OwnAreas
  <2>2. d # a
    <3>1. mm.MemoryTbl[k].memAddr = d.first
      BY <2>1 DEF Whole
    <3> QED  BY <1>0, <1>1, <1>4, <3>1 DEF OwnAreas
  <2>3. \A b \in BlocksOf(d) : b \in Block /\ b \notin BlocksOf(a)
    BY <2>2, AreaFacts
  <2>4. \A u \in Users : \A b : <<k, b>> \in has'.blocks[u] <=> <<k, b>> \in has.blocks[u]
    BY <1>4
  <2>5. /\ mm'.MemoryTbl[k] = mm.MemoryTbl[k]
        /\ \A b \in BlocksOf(d) : mm'.nextBlock[b] = mm.nextBlock[b]
    BY <1>4, <2>3
  <2>6. Whole(mm', has', k, d, q)
    BY <2>1, <2>4, <2>5, WholeKept
  <2> QED  BY <2>6
<1>5. ASSUME NEW u \in Users, NEW d \in has'.blocks[u]  PROVE d[1] \in Ids
  <2>1. d \in Mm \X Block /\ d = <<d[1], d[2]>>
    BY DEF MmTypeOK
  <2>2. CASE d[1] = i
    BY <2>2
  <2>3. CASE d[1] # i
    <3>1. <<d[1], d[2]>> \in has'.blocks[u]
      BY <2>1
    <3>2. <<d[1], d[2]>> \in has.blocks[u]
      BY <2>3, <3>1
    <3> QED  BY <1>0, <2>1, <3>2 DEF OwnAreas
  <2> QED  BY <2>2, <2>3
<1>6. OwnAreas'
  <2>1. \A k \in Ids : \E d \in Areas, q \in Seq(Block) : Whole(mm', has', k, d, q)
    BY <1>4
  <2> QED  BY <1>0, <1>2, <1>5, <2>1 DEF OwnAreas
<1> QED  BY <1>3, <1>6 DEF MmInv

(* CoGetMemoryBuffer(): the id is that of a partition that has been        *)
(* created ...                                                             *)
LEMMA AsksKeepsMm ==
  ASSUME MmInv, NEW t \in Users, NEW i \in Mm, CoGetMemoryBuffer(t, i)  PROVE MmInv'
<1> DEFINE w == [Idling EXCEPT !.place = "get", !.id = i]
<1>0. /\ MmTypeOK /\ OneAtWork /\ OwnAreas /\ i \in Ids
      /\ at' = [at EXCEPT ![t] = w] /\ mm' = mm /\ has' = has /\ Ids' = Ids
      /\ at[t].place = "user"
  BY DEF MmInv, CoGetMemoryBuffer, Created, Ids
<1>1. w.place = "get" /\ w.id = i /\ w.area = NullMm
  BY DEF Idling
<1>2. w \in [place : MmPlace, id : Mm \cup {MaxMm}, area : Areas \cup {NullMm}]
  BY DEF Idling, MmPlace
<1> HIDE DEF w
<1>3. /\ at' \in [Users -> [place : MmPlace, id : Mm \cup {MaxMm}, area : Areas \cup {NullMm}]]
      /\ \A u \in Users : at'[u] = IF u = t THEN w ELSE at[u]
  BY <1>0, <1>2 DEF MmTypeOK, MmPlace
<1>4. MmTypeOK'
  BY <1>0, <1>3 DEF MmTypeOK, MmPlace
<1>5. OneAtWork'
  BY <1>0, <1>1, <1>3 DEF OneAtWork
<1>6. OwnAreas'
  BY <1>0, OwnAreasKept DEF OwnAreas
<1> QED  BY <1>4, <1>5, <1>6 DEF MmInv

(* ... and still is when its first free block is taken, if there is one.   *)
LEMMA GetKeepsMm ==
  ASSUME MmInv, NEW t \in Users, GetsBlock(t)  PROVE MmInv'
<1> DEFINE i == at[t].id
           c == mm.MemoryTbl[i]
           b == c.freeBlock
<1>0. /\ MmTypeOK /\ OneAtWork /\ OwnAreas /\ i \in Ids /\ i \in Mm
      /\ at' = [at EXCEPT ![t] = Idling] /\ \A u \in Users : at'[u] \in {at[u], Idling}
      /\ at' \in [Users -> [place : MmPlace, id : Mm \cup {MaxMm}, area : Areas \cup {NullMm}]]
      /\ mm \in MmRecord /\ mm.MemoryTbl \in [Mm -> Cell] /\ c \in Cell
      /\ mm.nextBlock \in [Block -> {0} \cup Block]
      /\ has \in [ids : [Users -> SUBSET Mm], blocks : [Users -> SUBSET (Mm \X Block)]]
  <2>1. MmTypeOK /\ OneAtWork /\ OwnAreas /\ i \in Ids /\ at' = [at EXCEPT ![t] = Idling]
    BY DEF MmInv, GetsBlock, OneAtWork
  <2>2. /\ at' \in [Users -> [place : MmPlace, id : Mm \cup {MaxMm}, area : Areas \cup {NullMm}]]
        /\ \A u \in Users : at'[u] \in {at[u], Idling}
    BY <2>1 DEF MmTypeOK, Idling, MmPlace
  <2> HIDE DEF i
  <2> QED  BY <2>1, <2>2, MmFields DEF MmTypeOK
<1>1. CASE b = 0
  <2>1. mm' = mm /\ has' = has /\ Ids' = Ids
    BY <1>1 DEF GetsBlock, Ids
  <2>2. MmTypeOK'
    BY <1>0, <2>1 DEF MmTypeOK, MmPlace
  <2>3. OneAtWork'
    <3>1. ASSUME NEW u \in Users
          PROVE  at'[u].place = "user" \/ at'[u] = at[u]
      BY <1>0 DEF Idling
    <3> QED  BY <1>0, <2>1, <3>1 DEF OneAtWork
  <2>4. OwnAreas'
    BY <1>0, <2>1, OwnAreasKept DEF OwnAreas
  <2> QED  BY <2>2, <2>3, <2>4 DEF MmInv
<1>2. CASE b # 0
  <2>0. b \in Block
    BY <1>0, <1>2 DEF Cell
  <2>1. PICK a \in Areas, p \in Seq(Block) : Whole(mm, has, i, a, p)
    BY <1>0 DEF OwnAreas
  <2>2. Len(p) # 0 /\ b = p[1] /\ p # << >>
    BY <1>2, <2>1 DEF Whole, Chain
  <2> DEFINE n == mm.nextBlock[b]
             e == [c EXCEPT !.freeBlock = n]
             q == Tail(p)
  <2>3. /\ mm' = [mm EXCEPT !.MemoryTbl[i] = e]
        /\ has' = [has EXCEPT !.blocks[t] = @ \cup {<<i, b>>}]
    BY <1>2 DEF GetsBlock
  <2>4. e \in Cell /\ e.freeBlock = n /\ e.memAddr = c.memAddr /\ e.blockNum = c.blockNum
    BY <1>0, <2>0 DEF Cell
  <2>5. /\ q \in Seq(Block) /\ Len(q) = Len(p) - 1 /\ Len(p) \in Nat
        /\ \A j \in 1 .. Len(q) : q[j] = p[j + 1]
    BY <2>2, HeadTailProperties, LenProperties
  <2> HIDE DEF e, b, c, q, n, i
  <2>6. /\ mm' \in MmRecord /\ mm'.MemoryIDVessel = mm.MemoryIDVessel
        /\ mm'.nextBlock = mm.nextBlock
        /\ \A k \in Mm : mm'.MemoryTbl[k] = IF k = i THEN e ELSE mm.MemoryTbl[k]
    <3>1. mm' = [mm EXCEPT !.MemoryTbl = [mm.MemoryTbl EXCEPT ![i] = e]]
      BY <1>0, <2>3 DEF MmRecord
    <3>2. [mm.MemoryTbl EXCEPT ![i] = e] \in [Mm -> Cell]
      BY <1>0, <2>4
    <3>3. mm' \in MmRecord
      BY <1>0, <3>1, <3>2 DEF MmRecord
    <3>4. /\ mm'.MemoryIDVessel = mm.MemoryIDVessel /\ mm'.nextBlock = mm.nextBlock
          /\ mm'.MemoryTbl = [mm.MemoryTbl EXCEPT ![i] = e]
      BY <1>0, <3>1 DEF MmRecord
    <3> QED  BY <1>0, <3>3, <3>4
  <2>7. /\ has' \in [ids : [Users -> SUBSET Mm], blocks : [Users -> SUBSET (Mm \X Block)]]
        /\ has'.ids = has.ids
        /\ \A u \in Users : has'.blocks[u] = has.blocks[u] \cup (IF u = t THEN {<<i, b>>} ELSE {})
    <3>1. has' = [has EXCEPT !.blocks = [has.blocks EXCEPT ![t] = @ \cup {<<i, b>>}]]
      BY <1>0, <2>3
    <3>2. [has.blocks EXCEPT ![t] = @ \cup {<<i, b>>}] \in [Users -> SUBSET (Mm \X Block)]
      BY <1>0, <2>0
    <3>3. has'.blocks = [has.blocks EXCEPT ![t] = @ \cup {<<i, b>>}] /\ has'.ids = has.ids
      BY <1>0, <3>1
    <3> QED  BY <1>0, <3>1, <3>2, <3>3
  <2>8. MmTypeOK'
    BY <1>0, <2>6, <2>7 DEF MmTypeOK, MmRecord, Cell, MmPlace
  <2>9. Whole(mm', has', i, a, q)
    <3>0. /\ c.memAddr = a.first /\ c.blockNum = a.num
          /\ \A j \in 1 .. Len(p) : mm.nextBlock[p[j]] = IF j = Len(p) THEN 0 ELSE p[j + 1]
          /\ \A j, k \in 1 .. Len(p) : p[j] = p[k] => j = k
          /\ Range(p) \subseteq BlocksOf(a)
          /\ \A x \in BlocksOf(a) : x \in Range(p) \/ \E u \in Users : <<i, x>> \in has.blocks[u]
          /\ \A u \in Users : \A x : <<i, x>> \in has.blocks[u]
                                       => x \in BlocksOf(a) /\ x \notin Range(p)
          /\ \A u, v \in Users : \A x :
               <<i, x>> \in has.blocks[u] /\ <<i, x>> \in has.blocks[v] => u = v
      BY <2>1 DEF Whole, Chain, Distinct, c
    <3>1. 1 \in 1 .. Len(p) /\ n = IF Len(p) = 1 THEN 0 ELSE p[2]
      BY <2>2, <2>5, <3>0 DEF n
    <3>2. Chain(n, mm.nextBlock, q)
      <4>1. Len(q) = 0 => n = 0
        BY <2>5, <3>1
      <4>2. Len(q) # 0 => n = q[1]
        BY <2>5, <3>1
      <4>3. \A j \in 1 .. Len(q) : mm.nextBlock[q[j]] = IF j = Len(q) THEN 0 ELSE q[j + 1]
        <5>1. ASSUME NEW j \in 1 .. Len(q)
              PROVE  mm.nextBlock[q[j]] = IF j = Len(q) THEN 0 ELSE q[j + 1]
          <6>1. j + 1 \in 1 .. Len(p) /\ q[j] = p[j + 1]
            BY <2>5
          <6>2. mm.nextBlock[p[j + 1]] = IF j + 1 = Len(p) THEN 0 ELSE p[(j + 1) + 1]
            BY <3>0, <6>1
          <6>3. j # Len(q) => j + 1 \in 1 .. Len(q) /\ q[j + 1] = p[(j + 1) + 1]
            BY <2>5
          <6> QED  BY <2>5, <6>1, <6>2, <6>3
        <5> QED  BY <5>1
      <4> QED  BY <4>1, <4>2, <4>3 DEF Chain
    <3>3. Distinct(q)
      <4>1. ASSUME NEW j \in 1 .. Len(q), NEW k \in 1 .. Len(q), q[j] = q[k]  PROVE j = k
        <5>1. j + 1 \in 1 .. Len(p) /\ k + 1 \in 1 .. Len(p) /\ p[j + 1] = p[k + 1]
          BY <2>5, <4>1
        <5>2. j + 1 = k + 1
          BY <3>0, <5>1
        <5> QED  BY <2>5, <5>2
      <4> QED  BY <4>1 DEF Distinct
    <3>4. Range(q) = Range(p) \ {b}
      <4>1. Range(q) = {q[j] : j \in 1 .. Len(q)} /\ Range(p) = {p[j] : j \in 1 .. Len(p)}
        BY <2>5, RangeEquality
      <4>2. ASSUME NEW j \in 1 .. Len(q)  PROVE q[j] \in Range(p) /\ q[j] # b
        <5>1. j + 1 \in 1 .. Len(p) /\ q[j] = p[j + 1] /\ j + 1 # 1
          BY <2>5
        <5> QED  BY <2>2, <3>0, <3>1, <4>1, <5>1
      <4>3. ASSUME NEW j \in 1 .. Len(p), p[j] # b  PROVE \E k \in 1 .. Len(q) : q[k] = p[j]
        <5>1. j # 1
          BY <2>2, <4>3
        <5>2. j - 1 \in 1 .. Len(q) /\ q[j - 1] = p[(j - 1) + 1] /\ (j - 1) + 1 = j
          BY <2>5, <5>1
        <5> QED  BY <5>2
      <4> QED  BY <4>1, <4>2, <4>3
    <3>5. b \in Range(p)
      BY <2>2, <3>1, RangeEquality
    <3>6. \A u \in Users : \A x : <<i, x>> \in has'.blocks[u] <=>
                                    <<i, x>> \in has.blocks[u] \/ (u = t /\ x = b)
      <4>1. ASSUME NEW u \in Users, NEW x
            PROVE  <<i, x>> \in has'.blocks[u] <=>
                     <<i, x>> \in has.blocks[u] \/ (u = t /\ x = b)
        <5>1. <<i, x>> = <<i, b>> <=> x = b
          OBVIOUS
        <5> QED  BY <2>7, <5>1
      <4> QED  BY <4>1
    <3>7. /\ \A x \in BlocksOf(a) : x \in Range(q) \/ \E u \in Users : <<i, x>> \in has'.blocks[u]
          /\ \A u \in Users : \A x : <<i, x>> \in has'.blocks[u]
                                       => x \in BlocksOf(a) /\ x \notin Range(q)
          /\ \A u, v \in Users : \A x :
               <<i, x>> \in has'.blocks[u] /\ <<i, x>> \in has'.blocks[v] => u = v
          /\ Range(q) \subseteq BlocksOf(a)
      <4>1. \A x \in BlocksOf(a) : x \in Range(q) \/ \E u \in Users : <<i, x>> \in has'.blocks[u]
        BY <3>0, <3>4, <3>6
      <4>2. \A u \in Users : \A x : <<i, x>> \in has'.blocks[u]
                                       => x \in BlocksOf(a) /\ x \notin Range(q)
        BY <3>0, <3>4, <3>5, <3>6
      <4>3. \A u, v \in Users : \A x :
               <<i, x>> \in has'.blocks[u] /\ <<i, x>> \in has'.blocks[v] => u = v
        BY <3>0, <3>5, <3>6
      <4> QED  BY <3>0, <3>4, <4>1, <4>2, <4>3
    <3>8. mm'.MemoryTbl[i] = e
      BY <1>0, <2>6
    <3> QED  BY <2>4, <2>6, <3>0, <3>2, <3>3, <3>7, <3>8 DEF Whole
  <2>10. \E r \in Seq(Block) : Whole(mm', has', i, a, r)
    BY <2>5, <2>9
  <2>11. \A k \in Ids \ {i} : mm'.MemoryTbl[k] = mm.MemoryTbl[k]
    BY <1>0, <2>6, MmFields
  <2>12. \A k, x : k # i =>
           \A u \in Users : <<k, x>> \in has'.blocks[u] <=> <<k, x>> \in has.blocks[u]
    BY <2>7
  <2> QED  BY <1>0, <2>1, <2>6, <2>7, <2>8, <2>10, <2>11, <2>12, OneListKeepsMm
<1> QED  BY <1>1, <1>2

(* CoFreeMemoryBuffer(): the block of a holder becomes the first free one. *)
LEMMA FreeKeepsMm ==
  ASSUME MmInv, NEW t \in Users, NEW w \in Users, NEW i, NEW b, CoFreeMemoryBuffer(t, w, i, b)
  PROVE  MmInv'
<1> DEFINE c == mm.MemoryTbl[i]
<1>0. /\ MmTypeOK /\ OneAtWork /\ OwnAreas /\ at' = at /\ <<i, b>> \in has.blocks[w]
      /\ mm \in MmRecord /\ mm.MemoryTbl \in [Mm -> Cell] /\ mm.MemoryIDVessel \in SUBSET Mm
      /\ mm.nextBlock \in [Block -> {0} \cup Block] /\ Ids \subseteq Mm
      /\ has \in [ids : [Users -> SUBSET Mm], blocks : [Users -> SUBSET (Mm \X Block)]]
  BY MmFields DEF MmInv, CoFreeMemoryBuffer, MmTypeOK
<1>1. b \in Block /\ i \in Ids /\ i \in Mm /\ i \in mm.MemoryIDVessel /\ c \in Cell
  <2>1. <<i, b>> \in Mm \X Block
    BY <1>0
  <2>2. <<i, b>>[1] \in Ids
    BY <1>0 DEF OwnAreas
  <2> QED  BY <1>0, <2>1, <2>2 DEF OwnAreas
<1>2. PICK a \in Areas, p \in Seq(Block) : Whole(mm, has, i, a, p)
  BY <1>0, <1>1 DEF OwnAreas
<1>3. /\ c.memAddr = a.first /\ c.blockNum = a.num
      /\ Len(p) = 0 => c.freeBlock = 0
      /\ Len(p) # 0 => c.freeBlock = p[1]
      /\ \A j \in 1 .. Len(p) : mm.nextBlock[p[j]] = IF j = Len(p) THEN 0 ELSE p[j + 1]
      /\ \A j, k \in 1 .. Len(p) : p[j] = p[k] => j = k
      /\ Range(p) \subseteq BlocksOf(a)
      /\ \A x \in BlocksOf(a) : x \in Range(p) \/ \E u \in Users : <<i, x>> \in has.blocks[u]
      /\ \A u \in Users : \A x : <<i, x>> \in has.blocks[u]
                                   => x \in BlocksOf(a) /\ x \notin Range(p)
      /\ \A u, v \in Users : \A x :
           <<i, x>> \in has.blocks[u] /\ <<i, x>> \in has.blocks[v] => u = v
  BY <1>2 DEF Whole, Chain, Distinct
<1>4. b \in BlocksOf(a) /\ b \notin Range(p)
  BY <1>0, <1>3
<1>5. Accepted(i, b)
  <2>1. a.first \in Nat /\ a.num \in Nat
    BY AreaFacts
  <2> QED  BY <1>1, <1>3, <1>4, <2>1 DEF Accepted, BlocksOf
<1> DEFINE next == [mm.nextBlock EXCEPT ![b] = c.freeBlock]
           e == [c EXCEPT !.freeBlock = b]
           q == <<b>> \o p
<1>6. /\ mm' = [mm EXCEPT !.nextBlock[b] = c.freeBlock, !.MemoryTbl[i].freeBlock = b]
      /\ has' = [has EXCEPT !.blocks[w] = @ \ {<<i, b>>}]
  BY <1>5 DEF CoFreeMemoryBuffer, Pushed
<1>7. e \in Cell /\ e.freeBlock = b /\ e.memAddr = c.memAddr /\ e.blockNum = c.blockNum
  BY <1>1 DEF Cell
<1>8. /\ next \in [Block -> {0} \cup Block] /\ next[b] = c.freeBlock
      /\ \A x \in Block : x # b => next[x] = mm.nextBlock[x]
  BY <1>0, <1>1 DEF Cell
<1>9. /\ q \in Seq(Block) /\ Len(q) = Len(p) + 1 /\ Len(p) \in Nat
      /\ q[1] = b /\ \A j \in 1 .. Len(p) : q[j + 1] = p[j]
  <2>1. <<b>> \in Seq(Block) /\ Len(<<b>>) = 1 /\ <<b>>[1] = b /\ Len(p) \in Nat
    BY <1>1, LenProperties
  <2>2. /\ q \in Seq(Block) /\ Len(q) = Len(<<b>>) + Len(p)
        /\ \A j \in 1 .. Len(<<b>>) + Len(p) :
             q[j] = IF j <= Len(<<b>>) THEN <<b>>[j] ELSE p[j - Len(<<b>>)]
    BY <2>1, ConcatProperties
  <2> HIDE DEF q
  <2>3. \A j \in 1 .. 1 + Len(p) : q[j] = IF j <= 1 THEN <<b>>[j] ELSE p[j - 1]
    BY <2>1, <2>2
  <2>4. q[1] = b
    BY <2>1, <2>3
  <2>5. ASSUME NEW j \in 1 .. Len(p)  PROVE q[j + 1] = p[j]
    <3>1. j + 1 \in 1 .. 1 + Len(p) /\ ~(j + 1 <= 1) /\ (j + 1) - 1 = j
      BY <2>1
    <3> QED  BY <2>3, <3>1
  <2> QED  BY <2>1, <2>2, <2>4, <2>5
<1> HIDE DEF next, e, q, c
<1>10. /\ mm' \in MmRecord /\ mm'.MemoryIDVessel = mm.MemoryIDVessel /\ mm'.nextBlock = next
       /\ \A k \in Mm : mm'.MemoryTbl[k] = IF k = i THEN e ELSE mm.MemoryTbl[k]
  <2>1. mm' = [mm EXCEPT !.nextBlock = next, !.MemoryTbl = [mm.MemoryTbl EXCEPT ![i] = e]]
    BY <1>0, <1>1, <1>6 DEF MmRecord, next, e, c
  <2>2. [mm.MemoryTbl EXCEPT ![i] = e] \in [Mm -> Cell]
    BY <1>0, <1>7
  <2>3. mm' \in MmRecord
    BY <1>0, <1>8, <2>1, <2>2 DEF MmRecord
  <2>4. /\ mm'.MemoryIDVessel = mm.MemoryIDVessel /\ mm'.nextBlock = next
        /\ mm'.MemoryTbl = [mm.MemoryTbl EXCEPT ![i] = e]
    BY <1>0, <2>1 DEF MmRecord
  <2> QED  BY <1>0, <2>3, <2>4
<1>11. /\ has' \in [ids : [Users -> SUBSET Mm], blocks : [Users -> SUBSET (Mm \X Block)]]
       /\ has'.ids = has.ids
       /\ \A u \in Users : has'.blocks[u] = has.blocks[u] \ (IF u = w THEN {<<i, b>>} ELSE {})
  <2>1. has' = [has EXCEPT !.blocks = [has.blocks EXCEPT ![w] = @ \ {<<i, b>>}]]
    BY <1>0, <1>6
  <2>2. [has.blocks EXCEPT ![w] = @ \ {<<i, b>>}] \in [Users -> SUBSET (Mm \X Block)]
    BY <1>0
  <2>3. has'.blocks = [has.blocks EXCEPT ![w] = @ \ {<<i, b>>}] /\ has'.ids = has.ids
    BY <1>0, <2>1
  <2> QED  BY <1>0, <2>1, <2>2, <2>3
<1>12. MmTypeOK'
  BY <1>0, <1>10, <1>11 DEF MmTypeOK, MmRecord, Cell
<1>13. Whole(mm', has', i, a, q)
  <2>1. Chain(b, next, q)
    <3>1. ASSUME NEW j \in 1 .. Len(q)
          PROVE  next[q[j]] = IF j = Len(q) THEN 0 ELSE q[j + 1]
      <4>1. CASE j = 1
        <5>1. next[q[j]] = c.freeBlock
          BY <1>8, <1>9, <4>1
        <5>2. Len(p) # 0 => 1 \in 1 .. Len(p) /\ q[1 + 1] = p[1]
          BY <1>9
        <5> QED  BY <1>3, <1>9, <4>1, <5>1, <5>2
      <4>2. CASE j # 1
        <5>1. /\ j - 1 \in 1 .. Len(p) /\ q[(j - 1) + 1] = p[j - 1] /\ (j - 1) + 1 = j
          BY <1>9, <4>2
        <5>2. p[j - 1] # b /\ p[j - 1] \in Block
          BY <1>4, <5>1, RangeEquality, ElementOfSeq
        <5>3. next[q[j]] = mm.nextBlock[p[j - 1]]
          BY <1>8, <5>1, <5>2
        <5>4. mm.nextBlock[p[j - 1]] = IF j - 1 = Len(p) THEN 0 ELSE p[(j - 1) + 1]
          BY <1>3, <5>1
        <5>5. j # Len(q) => j \in 1 .. Len(p) /\ q[j + 1] = p[j]
          BY <1>9, <4>2
        <5> QED  BY <1>9, <5>1, <5>3, <5>4, <5>5
      <4> QED  BY <4>1, <4>2
    <3> QED  BY <1>9, <3>1 DEF Chain
  <2>2. Range(q) = Range(p) \cup {b}
    <3>1. Range(q) = {q[j] : j \in 1 .. Len(q)} /\ Range(p) = {p[j] : j \in 1 .. Len(p)}
      BY <1>9, RangeEquality
    <3>2. ASSUME NEW j \in 1 .. Len(q)  PROVE q[j] = b \/ q[j] \in Range(p)
      <4>1. j = 1 \/ (j - 1 \in 1 .. Len(p) /\ (j - 1) + 1 = j)
        BY <1>9
      <4> QED  BY <1>9, <3>1, <4>1
    <3>3. ASSUME NEW j \in 1 .. Len(p)  PROVE \E k \in 1 .. Len(q) : q[k] = p[j]
      <4>1. j + 1 \in 1 .. Len(q) /\ q[j + 1] = p[j]
        BY <1>9
      <4> QED  BY <4>1
    <3>4. 1 \in 1 .. Len(q) /\ q[1] = b
      BY <1>9
    <3> QED  BY <3>1, <3>2, <3>3, <3>4
  <2>3. Distinct(q)
    <3>1. ASSUME NEW j \in 1 .. Len(q), NEW k \in 1 .. Len(q), q[j] = q[k]  PROVE j = k
      <4>1. \A l \in 1 .. Len(q) : l # 1 =>
              l - 1 \in 1 .. Len(p) /\ q[l] = p[l - 1] /\ q[l] # b
        <5>1. ASSUME NEW l \in 1 .. Len(q), l # 1
              PROVE  l - 1 \in 1 .. Len(p) /\ q[l] = p[l - 1] /\ q[l] # b
          <6>1. l - 1 \in 1 .. Len(p) /\ (l - 1) + 1 = l
            BY <1>9, <5>1
          <6>2. q[l] = p[l - 1]
            BY <1>9, <6>1
          <6>3. p[l - 1] \in Range(p)
            BY <6>1, RangeEquality
          <6> QED  BY <1>4, <6>1, <6>2, <6>3
        <5> QED  BY <5>1
      <4>2. CASE j = 1 \/ k = 1
        BY <1>9, <3>1, <4>1, <4>2
      <4>3. CASE j # 1 /\ k # 1
        <5>1. j - 1 \in 1 .. Len(p) /\ k - 1 \in 1 .. Len(p) /\ p[j - 1] = p[k - 1]
          BY <3>1, <4>1, <4>3
        <5>2. j - 1 = k - 1
          BY <1>3, <5>1
        <5> QED  BY <1>9, <5>2
      <4> QED  BY <4>2, <4>3
    <3> QED  BY <3>1 DEF Distinct
  <2>4. \A u \in Users : \A x : <<i, x>> \in has'.blocks[u] <=>
                                  <<i, x>> \in has.blocks[u] /\ ~(u = w /\ x = b)
    <3>1. ASSUME NEW u \in Users, NEW x
          PROVE  <<i, x>> \in has'.blocks[u] <=>
                   <<i, x>> \in has.blocks[u] /\ ~(u = w /\ x = b)
      <4>1. <<i, x>> = <<i, b>> <=> x = b
        OBVIOUS
      <4> QED  BY <1>11, <4>1
    <3> QED  BY <3>1
  <2>5. /\ \A x \in BlocksOf(a) : x \in Range(q) \/ \E u \in Users : <<i, x>> \in has'.blocks[u]
        /\ \A u \in Users : \A x : <<i, x>> \in has'.blocks[u]
                                     => x \in BlocksOf(a) /\ x \notin Range(q)
        /\ \A u, v \in Users : \A x :
             <<i, x>> \in has'.blocks[u] /\ <<i, x>> \in has'.blocks[v] => u = v
        /\ Range(q) \subseteq BlocksOf(a)
    <3>1. \A x \in BlocksOf(a) : x \in Range(q) \/ \E u \in Users : <<i, x>> \in has'.blocks[u]
      BY <1>3, <2>2, <2>4
    <3>2. \A u \in Users : \A x : <<i, x>> \in has'.blocks[u]
                                    => x \in BlocksOf(a) /\ x \notin Range(q)
      BY <1>0, <1>3, <2>2, <2>4
    <3>3. \A u, v \in Users : \A x :
             <<i, x>> \in has'.blocks[u] /\ <<i, x>> \in has'.blocks[v] => u = v
      BY <1>3, <2>4
    <3> QED  BY <1>3, <1>4, <2>2, <3>1, <3>2, <3>3
  <2>6. mm'.MemoryTbl[i] = e
    BY <1>1, <1>10
  <2> QED  BY <1>3, <1>7, <1>10, <2>1, <2>3, <2>5, <2>6 DEF Whole
<1>14. \E r \in Seq(Block) : Whole(mm', has', i, a, r)
  BY <1>9, <1>13
<1>15. \A k \in Ids \ {i} : mm'.MemoryTbl[k] = mm.MemoryTbl[k]
  BY <1>0, <1>10
<1>16. \A k, x : k # i =>
         \A u \in Users : <<k, x>> \in has'.blocks[u] <=> <<k, x>> \in has.blocks[u]
  BY <1>11
<1>17. \A x \in Block \ BlocksOf(a) : mm'.nextBlock[x] = mm.nextBlock[x]
  BY <1>4, <1>8, <1>10
<1> QED  BY <1>0, <1>1, <1>2, <1>10, <1>11, <1>12, <1>14, <1>15, <1>16, <1>17, OneListKeepsMm

-----------------------------------------------------------------------------
(* The kernel heap.  Recursion first: the searches of the model repeat a   *)
(* step, and end where induction says.                                     *)
LEMMA SetInduction ==
  ASSUME NEW S, 0 \in S, \A n \in Nat : n \in S => n + 1 \in S
  PROVE  Nat \subseteq S
<1> DEFINE Bad == {n \in Nat : n \notin S}
<1> SUFFICES ASSUME Bad # {}  PROVE FALSE
  OBVIOUS
<1>1. Bad \in SUBSET Nat
  OBVIOUS
<1> DEFINE k == Min(Bad)
<1>2. k \in Bad /\ \A n \in Bad : k <= n
  <2> HIDE DEF Bad
  <2> QED  BY <1>1, LeastOf
<1> HIDE DEF k
<1>3. k \in Nat /\ k # 0 /\ k \notin S
  BY <1>2
<1>4. k - 1 \in Nat /\ k - 1 \in S
  BY <1>2, <1>3
<1>5. (k - 1) + 1 = k
  BY <1>3
<1> QED  BY <1>3, <1>4, <1>5

(* The step g may be repeated, beginning with z.                           *)
Repeats(f, g, z, N) == f[0] = z /\ \A i \in 1 .. N : f[i] = g[f[i - 1]]

LEMMA Repeated ==
  ASSUME NEW X, NEW g \in [X -> X], NEW z \in X, NEW N \in Nat
  PROVE  \E f \in [0 .. N -> X] : Repeats(f, g, z, N)
<1> DEFINE Is(f, n) == f[0] = z /\ \A i \in 1 .. n : f[i] = g[f[i - 1]]
           S == {n \in Nat : \E f \in [0 .. n -> X] : Is(f, n)}
<1>1. 0 \in S
  <2>1. [i \in 0 .. 0 |-> z] \in [0 .. 0 -> X] /\ Is([i \in 0 .. 0 |-> z], 0)
    OBVIOUS
  <2> QED  BY <2>1
<1>2. ASSUME NEW n \in Nat, n \in S  PROVE n + 1 \in S
  <2>1. PICK f \in [0 .. n -> X] : Is(f, n)
    BY <1>2
  <2> DEFINE e == [i \in 0 .. n + 1 |-> IF i = n + 1 THEN g[f[n]] ELSE f[i]]
  <2>2. e \in [0 .. n + 1 -> X]
    OBVIOUS
  <2>3. e[0] = z
    BY <2>1
  <2>4. ASSUME NEW i \in 1 .. n + 1  PROVE e[i] = g[e[i - 1]]
    <3>1. i - 1 \in 0 .. n /\ e[i - 1] = f[i - 1]
      OBVIOUS
    <3>2. CASE i = n + 1
      BY <3>1, <3>2
    <3>3. CASE i # n + 1
      BY <2>1, <3>1, <3>3
    <3> QED  BY <3>2, <3>3
  <2>5. n + 1 \in Nat
    OBVIOUS
  <2> HIDE DEF e
  <2> QED  BY <2>2, <2>3, <2>4, <2>5
<1>3. N \in S
  <2> HIDE DEF S
  <2> QED  BY <1>1, <1>2, SetInduction
<1> QED  BY <1>3 DEF Repeats

(* The neighbours of x in a set of addresses, 0 where there is none.       *)
Succ(S, x, y) ==
  IF y = 0 THEN \A z \in S : z <= x ELSE y \in S /\ y > x /\ \A z \in S : z <= x \/ z >= y

Pred(S, x, y) ==
  IF y = 0 THEN \A z \in S : z >= x ELSE y \in S /\ y < x /\ \A z \in S : z >= x \/ z <= y

(* at goes through a set of addresses from one to the next.                *)
Walks(at1, S, N) ==
  /\ Succ(S, 0, at1[1])
  /\ \A i \in 1 .. N : /\ at1[i] = 0 => at1[i + 1] = 0
                       /\ at1[i] \in S => Succ(S, at1[i], at1[i + 1])

Ends(at1, S, N, n) ==
  /\ n \in 0 .. N /\ at1[n + 1] = 0
  /\ \A j \in 1 .. n : at1[j] \in S
  /\ \A i, j \in 1 .. n : i < j => at1[i] < at1[j]
  /\ \A x \in S : \E j \in 1 .. n : at1[j] = x

(* It comes to all of them, in their order, and to an end.                 *)
LEMMA WalkEnds ==
  ASSUME NEW N \in Nat, NEW S \in SUBSET (1 .. N), NEW at1, Walks(at1, S, N)
  PROVE  \E n \in 0 .. N : Ends(at1, S, N, n)
<1> DEFINE Good(i) == /\ at1[i] \in S => at1[i] >= i
                      /\ at1[i] \in S \cup {0}
                      /\ \A x \in S : x < at1[i] \/ at1[i] = 0 => \E j \in 1 .. i - 1 : at1[j] = x
                      /\ at1[i] # 0 => \A j \in 1 .. i - 1 : at1[j] \in S /\ at1[j] < at1[i]
           T == {i \in Nat : i + 1 \in 1 .. N + 1 => Good(i + 1)}
<1>0. 0 \notin S /\ \A x \in S : x \in 1 .. N
  OBVIOUS
<1>1. 0 \in T
  <2>1. Good(1)
    <3>1. Succ(S, 0, at1[1])
      BY DEF Walks
    <3>2. \A x \in S : ~(x <= 0) /\ x >= 1
      BY <1>0
    <3> DEFINE v == at1[1]
    <3>3. /\ v = 0 => \A z \in S : z <= 0
          /\ v # 0 => v \in S /\ \A z \in S : z <= 0 \/ z >= v
      BY <3>1 DEF Succ
    <3> HIDE DEF v
    <3>4. \A x \in S : ~(x < v \/ v = 0)
      <4>1. ASSUME NEW x \in S, x < v \/ v = 0  PROVE FALSE
        <5>1. x \in 1 .. N /\ v # 0 /\ v \in 1 .. N
          BY <1>0, <3>2, <3>3
        <5>2. x >= v
          BY <3>2, <3>3, <5>1
        <5> QED  BY <4>1, <5>1, <5>2
      <4> QED  BY <4>1
    <3>5. v \in S \cup {0} /\ (v \in S => v >= 1)
      BY <3>2, <3>3
    <3> QED  BY <3>4, <3>5 DEF v
  <2> HIDE DEF Good
  <2> QED  BY <2>1
<1>2. ASSUME NEW i \in Nat, i \in T  PROVE i + 1 \in T
  <2> SUFFICES ASSUME i + 1 + 1 \in 1 .. N + 1  PROVE Good(i + 1 + 1)
    OBVIOUS
  <2> DEFINE k == i + 1
  <2>1. k \in 1 .. N /\ Good(k) /\ k + 1 = i + 1 + 1
    BY <1>2
  <2> HIDE DEF k
  <2>2. at1[k] = 0 => at1[k + 1] = 0
    BY <2>1 DEF Walks
  <2>3. at1[k] \in S => Succ(S, at1[k], at1[k + 1])
    BY <2>1 DEF Walks
  <2>4. CASE at1[k] = 0
    BY <2>1, <2>2, <2>4
  <2>5. CASE at1[k] # 0 /\ at1[k + 1] = 0
    <3>1. at1[k] \in S /\ \A z \in S : z <= at1[k]
      BY <2>1, <2>3, <2>5 DEF Succ
    <3>2. ASSUME NEW x \in S  PROVE \E j \in 1 .. (k + 1) - 1 : at1[j] = x
      <4>1. x < at1[k] \/ x = at1[k]
        <5>1. at1[k] \in 1 .. N /\ x \in 1 .. N /\ x <= at1[k]
          BY <1>0, <3>1
        <5> QED  BY <5>1
      <4>2. k \in 1 .. (k + 1) - 1
        BY <2>1
      <4>3. x < at1[k] => \E j \in 1 .. k - 1 : at1[j] = x
        BY <2>1
      <4>4. 1 .. k - 1 \subseteq 1 .. (k + 1) - 1
        BY <2>1
      <4> QED  BY <4>1, <4>2, <4>3, <4>4
    <3> QED  BY <2>1, <2>5, <3>2
  <2>6. CASE at1[k] # 0 /\ at1[k + 1] # 0
    <3>1. /\ at1[k] \in S /\ at1[k + 1] \in S /\ at1[k + 1] > at1[k]
          /\ \A z \in S : z <= at1[k] \/ z >= at1[k + 1]
      BY <2>1, <2>3, <2>6 DEF Succ
    <3>2. at1[k + 1] >= k + 1
      <4>1. at1[k] \in 1 .. N /\ at1[k + 1] \in 1 .. N /\ at1[k] >= k
        BY <1>0, <2>1, <3>1
      <4> QED  BY <2>1, <3>1, <4>1
    <3>3. ASSUME NEW x \in S, x < at1[k + 1]  PROVE \E j \in 1 .. (k + 1) - 1 : at1[j] = x
      <4>1. x < at1[k] \/ x = at1[k]
        <5>1. at1[k] \in 1 .. N /\ at1[k + 1] \in 1 .. N /\ x \in 1 .. N
          BY <1>0, <3>1
        <5>2. x <= at1[k]
          BY <3>1, <3>3, <5>1
        <5> QED  BY <5>1, <5>2
      <4>2. k \in 1 .. (k + 1) - 1
        BY <2>1
      <4>3. x < at1[k] => \E j \in 1 .. k - 1 : at1[j] = x
        BY <2>1
      <4>4. 1 .. k - 1 \subseteq 1 .. (k + 1) - 1
        BY <2>1
      <4> QED  BY <4>1, <4>2, <4>3, <4>4
    <3>4. ASSUME NEW j \in 1 .. (k + 1) - 1  PROVE at1[j] \in S /\ at1[j] < at1[k + 1]
      <4>1. j \in 1 .. k - 1 \/ j = k
        BY <2>1
      <4>2. at1[k] \in 1 .. N /\ at1[k + 1] \in 1 .. N
        BY <1>0, <3>1
      <4>3. j \in 1 .. k - 1 => at1[j] \in S /\ at1[j] < at1[k]
        BY <2>1, <2>6
      <4>4. at1[j] \in S => at1[j] \in 1 .. N
        BY <1>0
      <4> QED  BY <3>1, <4>1, <4>2, <4>3, <4>4
    <3> QED  BY <2>1, <2>6, <3>1, <3>2, <3>3, <3>4
  <2> QED  BY <2>4, <2>5, <2>6
<1>3. \A i \in 1 .. N + 1 : Good(i)
  <2>1. Nat \subseteq T
    <3> HIDE DEF T
    <3> QED  BY <1>1, <1>2, SetInduction
  <2>2. ASSUME NEW i \in 1 .. N + 1  PROVE Good(i)
    <3>1. i - 1 \in Nat /\ (i - 1) + 1 = i
      OBVIOUS
    <3>2. i - 1 \in T
      BY <2>1, <3>1
    <3> HIDE DEF Good
    <3> QED  BY <3>1, <3>2
  <2> QED  BY <2>2
<1> DEFINE Z == {i \in 1 .. N + 1 : at1[i] = 0}
<1>4. N + 1 \in Z
  <2>1. N + 1 \in 1 .. N + 1
    OBVIOUS
  <2>2. Good(N + 1)
    BY <1>3, <2>1
  <2>3. at1[N + 1] \notin S
    <3>1. at1[N + 1] \in S => at1[N + 1] >= N + 1 /\ at1[N + 1] \in 1 .. N
      BY <1>0, <2>2
    <3> QED  BY <3>1
  <2> QED  BY <2>1, <2>2, <2>3
<1> DEFINE k == Min(Z)
<1>5. k \in Z /\ \A i \in Z : k <= i
  <2>1. Z \in SUBSET Nat /\ Z # {}
    BY <1>4
  <2> HIDE DEF Z
  <2> QED  BY <2>1, LeastOf
<1> HIDE DEF k
<1>6. k - 1 \in 0 .. N /\ (k - 1) + 1 = k /\ at1[k] = 0
  BY <1>5
<1>7. \A j \in 1 .. k - 1 : at1[j] \in S /\ at1[j] # 0
  BY <1>3, <1>5, <1>6
<1>8. \A i, j \in 1 .. k - 1 : i < j => at1[i] < at1[j]
  BY <1>3, <1>5, <1>6, <1>7
<1>9. \A x \in S : \E j \in 1 .. k - 1 : at1[j] = x
  BY <1>3, <1>5, <1>6
<1>10. Ends(at1, S, N, k - 1)
  BY <1>6, <1>7, <1>8, <1>9 DEF Ends
<1> QED  BY <1>6, <1>10

(* The neighbours that there are.                                          *)
Nx(S, x) == CHOOSE y \in S \cup {0} : Succ(S, x, y)
Px(S, x) == CHOOSE y \in S \cup {0} : Pred(S, x, y)

LEMMA NextIs ==
  ASSUME NEW S \in SUBSET Address, NEW x \in Int
  PROVE  /\ Nx(S, x) \in S \cup {0} /\ Nx(S, x) \in Int
         /\ Nx(S, x) = 0 => \A z \in S : z <= x
         /\ Nx(S, x) # 0 => /\ Nx(S, x) \in S /\ Nx(S, x) > x
                            /\ \A z \in S : z <= x \/ z >= Nx(S, x)
         /\ \A y : Succ(S, x, y) => y = Nx(S, x)
<1>0. HeapSize \in Nat /\ \A z \in S : z \in Nat /\ z # 0
  BY HeapAssumption DEF Address
<1> DEFINE A == {z \in S : z > x}
<1>1. \E y \in S \cup {0} : Succ(S, x, y)
  <2>1. CASE A = {}
    <3>1. \A z \in S : z <= x
      BY <1>0, <2>1
    <3> QED  BY <3>1 DEF Succ
  <2>2. CASE A # {}
    <3>1. Min(A) \in A /\ \A z \in A : Min(A) <= z
      BY <1>0, <2>2, LeastOf
    <3> DEFINE y == Min(A)
    <3> HIDE DEF y
    <3>2. y \in A /\ \A z \in A : y <= z
      BY <3>1 DEF y
    <3>3. y \in S /\ y # 0 /\ y > x /\ \A z \in S : z <= x \/ z >= y
      BY <1>0, <3>2
    <3> QED  BY <3>3 DEF Succ
  <2> QED  BY <2>1, <2>2
<1>2. Nx(S, x) \in S \cup {0} /\ Succ(S, x, Nx(S, x))
  BY <1>1 DEF Nx
<1> DEFINE n == Nx(S, x)
<1> HIDE DEF n
<1>3. /\ n \in S \cup {0} /\ n \in Int
      /\ n = 0 => \A z \in S : z <= x
      /\ n # 0 => n \in S /\ n > x /\ \A z \in S : z <= x \/ z >= n
  BY <1>0, <1>2 DEF Succ, n
<1>4. ASSUME NEW y, Succ(S, x, y)  PROVE y = n
  <2>1. CASE y = 0
    BY <1>0, <1>3, <1>4, <2>1 DEF Succ
  <2>2. CASE y # 0
    <3>1. y \in S /\ y > x /\ \A z \in S : z <= x \/ z >= y
      BY <1>4, <2>2 DEF Succ
    <3>2. y \in Nat /\ ~(y <= x)
      BY <1>0, <3>1
    <3>3. n # 0
      BY <1>3, <3>1, <3>2
    <3> QED  BY <1>0, <1>3, <3>1, <3>2, <3>3
  <2> QED  BY <2>1, <2>2
<1> QED  BY <1>3, <1>4 DEF n

LEMMA PrevIs ==
  ASSUME NEW S \in SUBSET Address, NEW x \in Int
  PROVE  /\ Px(S, x) \in S \cup {0} /\ Px(S, x) \in Int
         /\ Px(S, x) = 0 => \A z \in S : z >= x
         /\ Px(S, x) # 0 => /\ Px(S, x) \in S /\ Px(S, x) < x
                            /\ \A z \in S : z >= x \/ z <= Px(S, x)
         /\ \A y : Pred(S, x, y) => y = Px(S, x)
<1>0. HeapSize \in Nat /\ \A z \in S : z \in Nat /\ z # 0 /\ z <= HeapSize
  BY HeapAssumption DEF Address
<1> DEFINE A == {k \in Nat : HeapSize - k \in S /\ HeapSize - k < x}
<1>1. \E y \in S \cup {0} : Pred(S, x, y)
  <2>1. CASE A = {}
    <3>1. ASSUME NEW z \in S  PROVE z >= x
      <4>1. HeapSize - z \in Nat /\ HeapSize - (HeapSize - z) = z
        BY <1>0
      <4>2. HeapSize - z \notin A
        BY <2>1
      <4> QED  BY <1>0, <4>1, <4>2
    <3> QED  BY <3>1 DEF Pred
  <2>2. CASE A # {}
    <3>1. Min(A) \in A /\ \A z \in A : Min(A) <= z
      BY <2>2, LeastOf
    <3> DEFINE k == Min(A)
    <3> HIDE DEF k
    <3>2. k \in A /\ \A z \in A : k <= z
      BY <3>1 DEF k
    <3> DEFINE y == HeapSize - k
    <3>3. y \in S /\ y # 0 /\ y < x /\ k \in Nat
      BY <1>0, <3>2
    <3>4. ASSUME NEW z \in S  PROVE z >= x \/ z <= y
      <4>1. HeapSize - z \in Nat /\ HeapSize - (HeapSize - z) = z
        BY <1>0
      <4>2. z < x => k <= HeapSize - z
        BY <3>2, <4>1
      <4> QED  BY <1>0, <3>3, <4>2
    <3> HIDE DEF y
    <3> QED  BY <3>3, <3>4 DEF Pred
  <2> QED  BY <2>1, <2>2
<1>2. Px(S, x) \in S \cup {0} /\ Pred(S, x, Px(S, x))
  BY <1>1 DEF Px
<1> DEFINE n == Px(S, x)
<1> HIDE DEF n
<1>3. /\ n \in S \cup {0} /\ n \in Int
      /\ n = 0 => \A z \in S : z >= x
      /\ n # 0 => n \in S /\ n < x /\ \A z \in S : z >= x \/ z <= n
  BY <1>0, <1>2 DEF Pred, n
<1>4. ASSUME NEW y, Pred(S, x, y)  PROVE y = n
  <2>1. CASE y = 0
    BY <1>0, <1>3, <1>4, <2>1 DEF Pred
  <2>2. CASE y # 0
    <3>1. y \in S /\ y < x /\ \A z \in S : z >= x \/ z <= y
      BY <1>4, <2>2 DEF Pred
    <3>2. y \in Nat /\ ~(y >= x)
      BY <1>0, <3>1
    <3>3. n # 0
      BY <1>3, <3>1, <3>2
    <3> QED  BY <1>0, <1>3, <3>1, <3>2, <3>3
  <2> QED  BY <2>1, <2>2
<1> QED  BY <1>3, <1>4 DEF n

-----------------------------------------------------------------------------
(* The inductive invariant of the heap.  B are the addresses of the blocks *)
(* and F those of the free ones: the headers of all blocks lead to their   *)
(* neighbours in B, and those of the free ones, from FMBlist on, through   *)
(* F; a block that is not free has one buffer, and two free ones are never *)
(* neighbours.                                                             *)
EndOf(B, x) == IF Nx(B, x) = 0 THEN HeapSize + 1 ELSE Nx(B, x)

Reference(F, y) == IF y \in F THEN y ELSE - y

Header(m, B, F, x) ==
  /\ x \in F => m[x] = Nx(F, x) /\ m[x + 1] = - Nx(B, x) /\ m[x + 2] = - Px(B, x)
  /\ x \notin F => m[x] = Reference(F, Nx(B, x)) /\ m[x + 1] = Reference(F, Px(B, x))

HeapIs(h, H, B, F) ==
  /\ 1 \in B /\ F \subseteq B /\ B \subseteq Address
  /\ h.FMBlist = Nx(F, 0)
  /\ \A x \in B : Header(h.mem, B, F, x)
  /\ \A x \in F : Nx(B, x) \notin F /\ EndOf(B, x) - x >= FreeHead
  /\ \A x \in B : x \notin F => \E b \in H : b[1] = x + UsedHead /\ b[1] + b[2] <= EndOf(B, x)
  /\ \A b \in H : b[1] - UsedHead \in B /\ b[1] - UsedHead \notin F
  /\ \A b, c \in H : b[1] = c[1] => b = c

HeapInv == HeapTypeOK /\ \E B, F \in SUBSET Address : HeapIs(heap, held, B, F)

(* Buffers and their words.                                                *)
Buffers == SUBSET (Address \X Requests)

LEMMA BufferFacts ==
  ASSUME NEW H \in Buffers, NEW b \in H
  PROVE  b[1] \in Address /\ b[1] \in Nat /\ b[2] \in Requests /\ b[2] \in Nat /\ b[2] >= 1
<1>1. b \in Address \X Requests
  BY DEF Buffers
<1>2. b[1] \in Address /\ b[2] \in Requests
  BY <1>1
<1>3. HeapSize \in Nat /\ Requests \subseteq Nat \ {0}
  BY HeapAssumption
<1>4. b[1] \in Nat
  BY <1>2, <1>3 DEF Address
<1> DEFINE n == b[2]
<1>5. n \in Nat /\ n # 0
  BY <1>2, <1>3
<1> HIDE DEF n
<1>6. n >= 1
  BY <1>5
<1> QED  BY <1>2, <1>4, <1>5, <1>6 DEF n

LEMMA MinusZero == - 0 = 0
<1>1. \A x \in Int : - x = 0 - x
  OBVIOUS
<1>2. 0 - 0 = 0 /\ 0 \in Int
  OBVIOUS
<1>3. - 0 = 0 - 0
  BY <1>1, <1>2, Zenon
<1> QED  BY <1>2, <1>3, Zenon

(* A block and its neighbours.                                             *)
Around(B, F, x) ==
  /\ x \in Nat /\ x >= 1 /\ x \in Address /\ x + 1 \in Address /\ x + 2 \in Address
  /\ EndOf(B, x) \in Nat /\ EndOf(B, x) >= x + 3 /\ EndOf(B, x) <= HeapSize + 1
  /\ Nx(B, x) \in Nat /\ Px(B, x) \in Nat
  /\ \A y \in B : y > x => y >= EndOf(B, x)
  /\ \A y \in B : y < x => EndOf(B, y) <= x
  /\ Nx(B, x) # 0 => Nx(B, x) \in B /\ Px(B, Nx(B, x)) = x /\ Nx(B, x) >= x + 3
  /\ Px(B, x) # 0 => Px(B, x) \in B /\ Nx(B, Px(B, x)) = x /\ Px(B, x) + 3 <= x
  /\ Px(B, x) \notin F \/ x \notin F

(* Each block has at least three words, so that headers lie apart; behind  *)
(* and before lead to each other.                                          *)
LEMMA Neighbours ==
  ASSUME NEW h, NEW H \in Buffers, NEW B, NEW F, HeapIs(h, H, B, F), NEW x \in B
  PROVE  Around(B, F, x)
<1>0. /\ HeapSize \in Nat /\ B \in SUBSET Address /\ F \in SUBSET Address /\ F \subseteq B
      /\ \A y \in B : y \in Nat /\ y >= 1 /\ y <= HeapSize
  BY HeapAssumption DEF HeapIs, Address
<1>1. ASSUME NEW y \in B
      PROVE  /\ EndOf(B, y) \in Nat /\ EndOf(B, y) >= y + 3 /\ EndOf(B, y) <= HeapSize + 1
             /\ \A z \in B : z > y => z >= EndOf(B, y)
             /\ Nx(B, y) # 0 => EndOf(B, y) = Nx(B, y) /\ Nx(B, y) \in B
             /\ Nx(B, y) \in Nat
  <2> DEFINE n == Nx(B, y)
  <2>1. /\ n \in B \cup {0} /\ n \in Int
        /\ n = 0 => \A z \in B : z <= y
        /\ n # 0 => /\ n \in B /\ n > y
                    /\ \A z \in B : z <= y \/ z >= n
    BY <1>0, <1>1, NextIs
  <2>2. EndOf(B, y) = IF n = 0 THEN HeapSize + 1 ELSE n
    BY DEF EndOf
  <2> HIDE DEF n
  <2> DEFINE e == EndOf(B, y)
  <2> HIDE DEF e
  <2>3. e \in Nat /\ e <= HeapSize + 1 /\ e = IF n = 0 THEN HeapSize + 1 ELSE n
    BY <1>0, <2>1, <2>2 DEF e
  <2>4. \A z \in B : z > y => z >= e
    <3>1. ASSUME NEW z \in B, z > y  PROVE z >= e
      <4>1. z \in Nat /\ y \in Nat /\ ~(z <= y)
        BY <1>0, <3>1
      <4> QED  BY <2>1, <2>3, <4>1
    <3> QED  BY <3>1
  <2>5. e >= y + 3
    <3>1. CASE y \in F
      BY <1>0, <2>3, <3>1 DEF HeapIs, FreeHead, e
    <3>2. CASE y \notin F
      <4>1. PICK b \in H : b[1] = y + UsedHead /\ b[1] + b[2] <= e
        BY <3>2 DEF HeapIs, e
      <4>2. b[1] = y + 2 /\ b[2] \in Nat /\ b[2] >= 1
        BY <4>1, BufferFacts DEF UsedHead
      <4> QED  BY <1>0, <2>3, <4>1, <4>2
    <3> QED  BY <3>1, <3>2
  <2> QED  BY <2>1, <2>3, <2>4, <2>5 DEF e, n
<1>2. x \in Nat /\ x >= 1 /\ x \in Address /\ x + 1 \in Address /\ x + 2 \in Address
  BY <1>0, <1>1 DEF Address
<1>3. \A y \in B : y < x => EndOf(B, y) <= x
  BY <1>0, <1>1
<1> DEFINE n == Nx(B, x)
           p == Px(B, x)
<1>4. n # 0 => n \in B /\ Px(B, n) = x /\ n >= x + 3
  <2> SUFFICES ASSUME n # 0  PROVE n \in B /\ Px(B, n) = x /\ n >= x + 3
    OBVIOUS
  <2>1. n \in B /\ n >= x + 3 /\ n > x /\ \A z \in B : z <= x \/ z >= n
    <3>1. n \in B /\ n >= x + 3
      BY <1>1
    <3>2. n > x /\ \A z \in B : z <= x \/ z >= n
      BY <1>0, NextIs
    <3> QED  BY <3>1, <3>2
  <2> HIDE DEF n
  <2>2. Pred(B, n, x)
    BY <1>0, <1>2, <2>1 DEF Pred
  <2>3. n \in Int
    BY <1>0, <2>1
  <2>4. x = Px(B, n)
    BY <1>0, <2>2, <2>3, PrevIs
  <2> QED  BY <2>1, <2>4
<1>5. p \in Nat /\ (p # 0 => p \in B /\ Nx(B, p) = x /\ p + 3 <= x)
  <2>1. /\ p \in B \cup {0}
        /\ p # 0 => p \in B /\ p < x /\ \A z \in B : z >= x \/ z <= p
    BY <1>0, PrevIs
  <2> HIDE DEF p
  <2>2. p \in Nat /\ p \in Int
    BY <1>0, <2>1
  <2>3. ASSUME p # 0  PROVE Nx(B, p) = x /\ p + 3 <= x
    <3>1. Succ(B, p, x)
      BY <1>0, <2>1, <2>3 DEF Succ
    <3>2. x = Nx(B, p)
      BY <1>0, <2>2, <3>1, NextIs
    <3>3. Nx(B, p) = EndOf(B, p) /\ EndOf(B, p) >= p + 3
      BY <1>0, <1>1, <2>1, <2>3, <3>2
    <3> QED  BY <2>2, <3>2, <3>3
  <2> QED  BY <2>1, <2>2, <2>3
<1>6. p \notin F \/ x \notin F
  <2> SUFFICES ASSUME p \in F, x \in F  PROVE FALSE
    OBVIOUS
  <2>1. p # 0
    BY <1>0
  <2>2. Nx(B, p) = x /\ Nx(B, p) \notin F
    BY <1>5, <2>1 DEF HeapIs
  <2> QED  BY <2>2
<1> QED  BY <1>1, <1>2, <1>3, <1>4, <1>5, <1>6 DEF Around

LEMMA NextSucc ==
  ASSUME NEW S \in SUBSET Address, NEW x \in Int
  PROVE  Succ(S, x, Nx(S, x))
<1> DEFINE n == Nx(S, x)
<1>1. /\ n = 0 => \A z \in S : z <= x
      /\ n # 0 => n \in S /\ n > x /\ \A z \in S : z <= x \/ z >= n
  BY NextIs
<1> HIDE DEF n
<1>2. Succ(S, x, n)
  BY <1>1 DEF Succ
<1> QED  BY <1>2 DEF n

(* A search that is numbered from 1 on.                                    *)
Searches(f, g, z, N) == f[1] = z /\ \A i \in 1 .. N + 1 : i # 1 => f[i] = g[f[i - 1]]

LEMMA Searched ==
  ASSUME NEW X, NEW g \in [X -> X], NEW z \in X, NEW N \in Nat
  PROVE  \E f \in [1 .. N + 1 -> X] : Searches(f, g, z, N)
<1>0. PICK e \in [0 .. N -> X] : Repeats(e, g, z, N)
  BY Repeated
<1>1. e[0] = z /\ \A i \in 1 .. N : e[i] = g[e[i - 1]]
  BY <1>0 DEF Repeats
<1> DEFINE f == [i \in 1 .. N + 1 |-> e[i - 1]]
<1>2. f \in [1 .. N + 1 -> X] /\ f[1] = z
  BY <1>1
<1>3. ASSUME NEW i \in 1 .. N + 1, i # 1  PROVE f[i] = g[f[i - 1]]
  <2>1. i - 1 \in 1 .. N /\ i - 1 \in 1 .. N + 1
    BY <1>3
  <2>2. f[i] = e[i - 1] /\ f[i - 1] = e[(i - 1) - 1]
    BY <2>1
  <2>3. e[i - 1] = g[e[(i - 1) - 1]]
    BY <1>1, <2>1
  <2> QED  BY <2>2, <2>3
<1> HIDE DEF f
<1>4. Searches(f, g, z, N)
  BY <1>2, <1>3 DEF Searches
<1> QED  BY <1>2, <1>4

(* A sequence has the members of S, in their order.                        *)
Sorts(q, S) ==
  /\ q \in Seq(S)
  /\ \A i, j \in 1 .. Len(q) : i < j => q[i] < q[j]
  /\ \A x \in S : \E j \in 1 .. Len(q) : q[j] = x

(* What a search has found that ended after n steps.                       *)
LEMMA FoundSorted ==
  ASSUME NEW N \in Nat, NEW S, NEW at1, NEW n \in 0 .. N, Ends(at1, S, N, n)
  PROVE  Sorts([i \in 1 .. n |-> at1[i]], S) /\ Len([i \in 1 .. n |-> at1[i]]) = n
<1> DEFINE q == [i \in 1 .. n |-> at1[i]]
<1>1. q \in [1 .. n -> S] /\ n \in Nat
  BY DEF Ends
<1>2. q \in Seq(S)
  BY <1>1, SeqDef
<1>3. DOMAIN q = 1 .. n /\ DOMAIN q = 1 .. Len(q) /\ Len(q) \in Nat
  BY <1>2, LenProperties
<1>4. \A i \in 1 .. n : q[i] = at1[i]
  OBVIOUS
<1> HIDE DEF q
<1>5. Len(q) = n
  BY <1>1, <1>3
<1>6. /\ \A i, j \in 1 .. n : i < j => q[i] < q[j]
      /\ \A x \in S : \E j \in 1 .. n : q[j] = x
  BY <1>4 DEF Ends
<1>7. Sorts(q, S)
  BY <1>2, <1>5, <1>6 DEF Sorts
<1> QED  BY <1>5, <1>7 DEF q

(* The list of free blocks has them all, in the order of their addresses.  *)
LEMMA FreeListIs ==
  ASSUME NEW h, NEW H \in Buffers, NEW B, NEW F, HeapIs(h, H, B, F)
  PROVE  Sorts(FreeList(h), F)
<1> DEFINE N == HeapSize
           Is(f) == f = [i \in 1 .. N + 1 |->
                           IF i = 1 THEN h.FMBlist ELSE IF f[i - 1] = 0 THEN 0 ELSE h.mem[f[i - 1]]]
           at1 == CHOOSE f : Is(f)
           n == CHOOSE i \in 0 .. N : (\A j \in 1 .. i : at1[j] # 0) /\ at1[i + 1] = 0
<1>1. FreeList(h) = [i \in 1 .. n |-> at1[i]]
  BY DEF FreeList
<1>2. /\ N \in Nat /\ F \in SUBSET Address /\ F \in SUBSET (1 .. N) /\ 0 \notin F
      /\ h.FMBlist = Nx(F, 0) /\ \A x \in F : h.mem[x] = Nx(F, x) /\ x \in Int
      /\ \A x \in F \cup {0} : Nx(F, x) \in F \cup {0} /\ Succ(F, x, Nx(F, x))
  <2>1. N \in Nat /\ F \in SUBSET Address /\ F \in SUBSET (1 .. N) /\ 0 \notin F
    BY HeapAssumption DEF HeapIs, Address
  <2>2. h.FMBlist = Nx(F, 0) /\ \A x \in F : h.mem[x] = Nx(F, x)
    BY DEF HeapIs, Header
  <2>3. \A x \in F \cup {0} : x \in Int
    BY <2>1
  <2>4. \A x \in F \cup {0} : Nx(F, x) \in F \cup {0} /\ Succ(F, x, Nx(F, x))
    BY <2>1, <2>3, NextIs, NextSucc
  <2> QED  BY <2>1, <2>2, <2>3, <2>4
<1> HIDE DEF N
<1>3. Is(at1)
  <2> DEFINE X == F \cup {0}
             g == [x \in X |-> IF x = 0 THEN 0 ELSE h.mem[x]]
  <2>1. g \in [X -> X] /\ h.FMBlist \in X
    BY <1>2
  <2> HIDE DEF X, g
  <2>0. PICK f \in [1 .. N + 1 -> X] : Searches(f, g, h.FMBlist, N)
    BY <1>2, <2>1, Searched
  <2>2. f[1] = h.FMBlist /\ \A i \in 1 .. N + 1 : i # 1 => f[i] = g[f[i - 1]]
    BY <2>0 DEF Searches
  <2>3. ASSUME NEW i \in 1 .. N + 1
        PROVE  f[i] = IF i = 1 THEN h.FMBlist ELSE IF f[i - 1] = 0 THEN 0 ELSE h.mem[f[i - 1]]
    <3>1. CASE i = 1
      BY <2>2, <3>1
    <3>2. CASE i # 1
      <4>1. i - 1 \in 1 .. N + 1
        BY <1>2, <3>2
      <4>2. f[i - 1] \in X
        BY <4>1
      <4>3. f[i] = g[f[i - 1]]
        BY <2>2, <3>2
      <4> QED  BY <3>2, <4>2, <4>3 DEF g
    <3> QED  BY <3>1, <3>2
  <2>4. f = [i \in 1 .. N + 1 |-> f[i]]
    OBVIOUS
  <2>5. Is(f)
    BY <2>3, <2>4
  <2> HIDE DEF Is
  <2> QED  BY <2>5
<1>4. \A i \in 1 .. N + 1 :
        at1[i] = IF i = 1 THEN h.FMBlist ELSE IF at1[i - 1] = 0 THEN 0 ELSE h.mem[at1[i - 1]]
  <2> HIDE DEF at1
  <2> QED  BY <1>3
<1> HIDE DEF at1
<1>5. Walks(at1, F, N)
  <2>1. Succ(F, 0, at1[1])
    <3>1. 1 \in 1 .. N + 1 /\ 0 \in F \cup {0}
      BY <1>2
    <3>2. at1[1] = Nx(F, 0)
      BY <1>2, <1>4, <3>1
    <3> QED  BY <1>2, <3>1, <3>2
  <2>2. ASSUME NEW i \in 1 .. N
        PROVE  /\ at1[i] = 0 => at1[i + 1] = 0
               /\ at1[i] \in F => Succ(F, at1[i], at1[i + 1])
    <3>1. i + 1 \in 1 .. N + 1 /\ i + 1 # 1 /\ (i + 1) - 1 = i
      BY <1>2
    <3>2. at1[i + 1] = IF at1[i] = 0 THEN 0 ELSE h.mem[at1[i]]
      BY <1>4, <3>1
    <3> QED  BY <1>2, <3>2
  <2> QED  BY <2>1, <2>2 DEF Walks
<1>6. PICK k \in 0 .. N : Ends(at1, F, N, k)
  BY <1>2, <1>5, WalkEnds
<1>7. n = k
  <2>1. k \in 0 .. N /\ (\A j \in 1 .. k : at1[j] # 0) /\ at1[k + 1] = 0
    BY <1>2, <1>6 DEF Ends
  <2>2. ASSUME NEW i \in 0 .. N, (\A j \in 1 .. i : at1[j] # 0) /\ at1[i + 1] = 0
        PROVE  i = k
    <3>1. CASE i < k
      BY <2>1, <2>2, <3>1
    <3>2. CASE i > k
      BY <2>1, <2>2, <3>2
    <3> QED  BY <3>1, <3>2
  <2> QED  BY <2>1, <2>2
<1> HIDE DEF n
<1>8. Sorts([i \in 1 .. k |-> at1[i]], F)
  BY <1>2, <1>6, FoundSorted
<1> QED  BY <1>1, <1>7, <1>8

(* A sequence that sorts S has S for its range.                            *)
LEMMA SortedRange ==
  ASSUME NEW S, NEW q, Sorts(q, S)
  PROVE  /\ {q[i] : i \in DOMAIN q} = S /\ {q[i] : i \in 1 .. Len(q)} = S
         /\ DOMAIN q = 1 .. Len(q) /\ Len(q) \in Nat
<1>1. DOMAIN q = 1 .. Len(q) /\ Len(q) \in Nat /\ \A i \in 1 .. Len(q) : q[i] \in S
  BY LenProperties, ElementOfSeq DEF Sorts
<1>2. \A x \in S : \E j \in 1 .. Len(q) : q[j] = x
  BY DEF Sorts
<1> QED  BY <1>1, <1>2

(* The headers lead from block to block.                                   *)
LEMMA BlocksAre ==
  ASSUME NEW H \in Buffers, NEW B, NEW F, HeapIs(heap, H, B, F)
  PROVE  Sorts(Blocks, B)
<1> DEFINE N == HeapSize
           free == {FreeList(heap)[i] : i \in DOMAIN FreeList(heap)}
           after(x) == LET w == IF x \in free THEN heap.mem[x + 1] ELSE heap.mem[x]
                       IN  IF w < 0 THEN - w ELSE w
           Is(f) == f = [i \in 1 .. N + 1 |->
                           IF i = 1 THEN 1 ELSE IF f[i - 1] = 0 THEN 0 ELSE after(f[i - 1])]
           at1 == CHOOSE f : Is(f)
           n == CHOOSE i \in 0 .. N :
                  (\A j \in 1 .. i : at1[j] # 0) /\ (i = N \/ at1[i + 1] = 0)
<1>1. Blocks = [i \in 1 .. n |-> at1[i]]
  BY DEF Blocks
<1>2. /\ N \in Nat /\ B \in SUBSET Address /\ B \in SUBSET (1 .. N) /\ 0 \notin B /\ 1 \in B
      /\ F \subseteq B
      /\ \A x \in B : x \in Int /\ Header(heap.mem, B, F, x)
      /\ \A x \in B \cup {0} : Nx(B, x) \in B \cup {0} /\ Succ(B, x, Nx(B, x))
  <2>1. /\ N \in Nat /\ B \in SUBSET Address /\ B \in SUBSET (1 .. N) /\ 0 \notin B /\ 1 \in B
        /\ F \subseteq B /\ \A x \in B : Header(heap.mem, B, F, x)
    BY HeapAssumption DEF HeapIs, Address
  <2>2. \A x \in B \cup {0} : x \in Int
    BY <2>1
  <2>3. \A x \in B \cup {0} : Nx(B, x) \in B \cup {0} /\ Succ(B, x, Nx(B, x))
    BY <2>1, <2>2, NextIs, NextSucc
  <2> QED  BY <2>1, <2>2, <2>3
<1>3. free = F
  BY FreeListIs, SortedRange
<1>4. ASSUME NEW x \in B  PROVE after(x) = Nx(B, x)
  <2> DEFINE y == Nx(B, x)
             w == IF x \in free THEN heap.mem[x + 1] ELSE heap.mem[x]
  <2>0. y \in B \cup {0} /\ \A z \in B : z \in Nat /\ z # 0
    BY <1>2
  <2>1. y \in Nat /\ (y \in F => y # 0)
    <3>1. F \subseteq B
      BY <1>2
    <3> HIDE DEF y
    <3> QED  BY <2>0, <3>1
  <2>2. w = - y \/ (w = y /\ y \in F)
    BY <1>2, <1>3 DEF Header, Reference
  <2> HIDE DEF y, w
  <2>3. (IF w < 0 THEN - w ELSE w) = y
    <3>1. CASE w = - y
      BY <2>1, <3>1
    <3>2. CASE w = y /\ y \in F
      BY <2>1, <3>2
    <3> QED  BY <2>2, <3>1, <3>2
  <2> QED  BY <2>3 DEF y, w
<1> HIDE DEF N, after
<1>5. Is(at1)
  <2> DEFINE X == B \cup {0}
             g == [x \in X |-> IF x = 0 THEN 0 ELSE after(x)]
  <2>1. g \in [X -> X] /\ 1 \in X
    BY <1>2, <1>4
  <2> HIDE DEF X, g
  <2>0. PICK f \in [1 .. N + 1 -> X] : Searches(f, g, 1, N)
    BY <1>2, <2>1, Searched
  <2>2. f[1] = 1 /\ \A i \in 1 .. N + 1 : i # 1 => f[i] = g[f[i - 1]]
    BY <2>0 DEF Searches
  <2>3. ASSUME NEW i \in 1 .. N + 1
        PROVE  f[i] = IF i = 1 THEN 1 ELSE IF f[i - 1] = 0 THEN 0 ELSE after(f[i - 1])
    <3>1. CASE i = 1
      BY <2>2, <3>1
    <3>2. CASE i # 1
      <4>1. i - 1 \in 1 .. N + 1
        BY <1>2, <3>2
      <4>2. f[i - 1] \in X
        BY <4>1
      <4>3. f[i] = g[f[i - 1]]
        BY <2>2, <3>2
      <4> QED  BY <3>2, <4>2, <4>3 DEF g
    <3> QED  BY <3>1, <3>2
  <2>4. f = [i \in 1 .. N + 1 |-> f[i]]
    OBVIOUS
  <2>5. Is(f)
    BY <2>3, <2>4
  <2> HIDE DEF Is
  <2> QED  BY <2>5
<1>6. \A i \in 1 .. N + 1 :
        at1[i] = IF i = 1 THEN 1 ELSE IF at1[i - 1] = 0 THEN 0 ELSE after(at1[i - 1])
  <2> HIDE DEF at1
  <2> QED  BY <1>5
<1> HIDE DEF at1
<1>7. Walks(at1, B, N)
  <2>1. Succ(B, 0, at1[1])
    <3>1. 1 \in 1 .. N + 1
      BY <1>2
    <3>2. at1[1] = 1 /\ \A z \in B : z >= 1
      BY <1>2, <1>6, <3>1
    <3> QED  BY <1>2, <3>2 DEF Succ
  <2>2. ASSUME NEW i \in 1 .. N
        PROVE  /\ at1[i] = 0 => at1[i + 1] = 0
               /\ at1[i] \in B => Succ(B, at1[i], at1[i + 1])
    <3>1. i + 1 \in 1 .. N + 1 /\ i + 1 # 1 /\ (i + 1) - 1 = i
      BY <1>2
    <3>2. at1[i + 1] = IF at1[i] = 0 THEN 0 ELSE after(at1[i])
      BY <1>6, <3>1
    <3> QED  BY <1>2, <1>4, <3>2
  <2> QED  BY <2>1, <2>2 DEF Walks
<1>8. PICK k \in 0 .. N : Ends(at1, B, N, k)
  BY <1>2, <1>7, WalkEnds
<1>9. n = k
  <2>1. k \in 0 .. N /\ (\A j \in 1 .. k : at1[j] # 0) /\ at1[k + 1] = 0
    BY <1>2, <1>8 DEF Ends
  <2>2. ASSUME NEW i \in 0 .. N, (\A j \in 1 .. i : at1[j] # 0) /\ (i = N \/ at1[i + 1] = 0)
        PROVE  i = k
    <3>1. CASE i < k
      <4>1. i # N /\ i + 1 \in 1 .. k
        BY <1>2, <2>1, <3>1
      <4> QED  BY <2>1, <2>2, <4>1
    <3>2. CASE i > k
      BY <2>1, <2>2, <3>2
    <3> QED  BY <3>1, <3>2
  <2> QED  BY <2>1, <2>2
<1> HIDE DEF n
<1>10. Sorts([i \in 1 .. k |-> at1[i]], B)
  BY <1>2, <1>8, FoundSorted
<1> QED  BY <1>1, <1>9, <1>10

(* In a sequence that sorts a set neighbours are neighbours of the set.    *)
LEMMA SortedNeighbours ==
  ASSUME NEW S \in SUBSET Address, NEW q, Sorts(q, S), NEW i \in 1 .. Len(q)
  PROVE  /\ i < Len(q) => Nx(S, q[i]) = q[i + 1]
         /\ i = Len(q) => Nx(S, q[i]) = 0
         /\ i > 1 => Px(S, q[i]) = q[i - 1]
         /\ i = 1 => Px(S, q[i]) = 0
<1>0. /\ Len(q) \in Nat /\ \A j \in 1 .. Len(q) : q[j] \in S /\ q[j] \in Nat /\ q[j] # 0
      /\ \A j, k \in 1 .. Len(q) : j < k => q[j] < q[k]
      /\ \A x \in S : \E j \in 1 .. Len(q) : q[j] = x
      /\ HeapSize \in Nat
  <2>1. HeapSize \in Nat /\ \A x \in S : x \in Nat /\ x # 0
    BY HeapAssumption DEF Address
  <2>2. Len(q) \in Nat /\ \A j \in 1 .. Len(q) : q[j] \in S
    BY LenProperties, ElementOfSeq DEF Sorts
  <2> QED  BY <2>1, <2>2 DEF Sorts
<1>2. ASSUME i < Len(q)  PROVE Nx(S, q[i]) = q[i + 1]
  <2>1. i + 1 \in 1 .. Len(q)
    BY <1>0, <1>2
  <2>2. q[i + 1] \in S /\ q[i + 1] # 0 /\ q[i + 1] > q[i]
    BY <1>0, <2>1
  <2>3. ASSUME NEW z \in S  PROVE z <= q[i] \/ z >= q[i + 1]
    <3>1. PICK j \in 1 .. Len(q) : q[j] = z
      BY <1>0
    <3>2. j <= i \/ j >= i + 1
      BY <1>0
    <3>3. j < i => q[j] < q[i]
      BY <1>0
    <3>4. j > i + 1 => q[j] > q[i + 1]
      BY <1>0, <2>1
    <3> QED  BY <1>0, <2>1, <3>1, <3>2, <3>3, <3>4
  <2>4. Succ(S, q[i], q[i + 1])
    BY <2>2, <2>3 DEF Succ
  <2>5. q[i] \in Int
    BY <1>0
  <2> QED  BY <2>4, <2>5, NextIs
<1>3. ASSUME i = Len(q)  PROVE Nx(S, q[i]) = 0
  <2>1. ASSUME NEW z \in S  PROVE z <= q[i]
    <3>1. PICK j \in 1 .. Len(q) : q[j] = z
      BY <1>0
    <3>2. j < i => q[j] < q[i]
      BY <1>0
    <3> QED  BY <1>0, <1>3, <3>1, <3>2
  <2>2. Succ(S, q[i], 0)
    BY <2>1 DEF Succ
  <2>3. q[i] \in Int
    BY <1>0
  <2> QED  BY <2>2, <2>3, NextIs
<1>4. ASSUME i > 1  PROVE Px(S, q[i]) = q[i - 1]
  <2>1. i - 1 \in 1 .. Len(q)
    BY <1>0, <1>4
  <2>2. q[i - 1] \in S /\ q[i - 1] # 0 /\ q[i - 1] < q[i]
    BY <1>0, <2>1
  <2>3. ASSUME NEW z \in S  PROVE z >= q[i] \/ z <= q[i - 1]
    <3>1. PICK j \in 1 .. Len(q) : q[j] = z
      BY <1>0
    <3>2. j >= i \/ j <= i - 1
      BY <1>0
    <3>3. j > i => q[j] > q[i]
      BY <1>0
    <3>4. j < i - 1 => q[j] < q[i - 1]
      BY <1>0, <2>1
    <3> QED  BY <1>0, <2>1, <3>1, <3>2, <3>3, <3>4
  <2>4. Pred(S, q[i], q[i - 1])
    BY <2>2, <2>3 DEF Pred
  <2>5. q[i] \in Int
    BY <1>0
  <2> QED  BY <2>4, <2>5, PrevIs
<1>5. ASSUME i = 1  PROVE Px(S, q[i]) = 0
  <2>1. ASSUME NEW z \in S  PROVE z >= q[i]
    <3>1. PICK j \in 1 .. Len(q) : q[j] = z
      BY <1>0
    <3>2. j > i => q[j] > q[i]
      BY <1>0
    <3> QED  BY <1>0, <1>5, <3>1, <3>2
  <2>2. Pred(S, q[i], 0)
    BY <2>1 DEF Pred
  <2>3. q[i] \in Int
    BY <1>0
  <2> QED  BY <2>2, <2>3, PrevIs
<1> QED  BY <1>2, <1>3, <1>4, <1>5

(* Every block is free or has one buffer, so that their numbers add up.    *)
LEMMA BlocksCount ==
  ASSUME NEW h, NEW H \in Buffers, NEW B, NEW F, HeapIs(h, H, B, F), NEW q, Sorts(q, B)
  PROVE  /\ F = B \ {b[1] - UsedHead : b \in H}
         /\ Cardinality(F) + Cardinality(H) = Len(q)
<1>0. /\ HeapSize \in Nat /\ B \in SUBSET Address /\ F \subseteq B
      /\ Len(q) \in Nat /\ q \in [1 .. Len(q) -> B]
      /\ \A j, k \in 1 .. Len(q) : j < k => q[j] < q[k]
      /\ \A x \in B : x \in Int /\ \E j \in 1 .. Len(q) : q[j] = x
  BY HeapAssumption, LenProperties DEF Sorts, HeapIs, Address
<1> DEFINE U == {b[1] - UsedHead : b \in H}
<1>1. U = B \ F
  <2>1. U \subseteq B \ F
    BY DEF HeapIs
  <2>2. ASSUME NEW x \in B \ F  PROVE x \in U
    <3>1. PICK b \in H : b[1] = x + UsedHead
      BY <2>2 DEF HeapIs
    <3>2. b[1] - UsedHead = x
      BY <1>0, <3>1 DEF UsedHead
    <3> QED  BY <3>2
  <2> QED  BY <2>1, <2>2
<1>2. IsFiniteSet(B) /\ Cardinality(B) = Len(q)
  <2>1. q \in Bijection(1 .. Len(q), B)
    <3>1. \A j, k \in 1 .. Len(q) : q[j] = q[k] => j = k
      <4>1. \A j \in 1 .. Len(q) : q[j] \in B /\ q[j] \in Int
        BY <1>0
      <4>2. ASSUME NEW j \in 1 .. Len(q), NEW k \in 1 .. Len(q), q[j] = q[k]  PROVE j = k
        <5>1. ~(q[j] < q[k]) /\ ~(q[k] < q[j])
          BY <4>1, <4>2
        <5>2. ~(j < k) /\ ~(k < j)
          BY <1>0, <5>1
        <5> QED  BY <5>2
      <4> QED  BY <4>2
    <3>2. \A x \in B : \E j \in 1 .. Len(q) : q[j] = x
      BY <1>0
    <3> QED  BY <1>0, <3>1, <3>2, Fun_IsBij
  <2>2. IsFiniteSet(1 .. Len(q)) /\ Cardinality(1 .. Len(q)) = Len(q)
    BY <1>0, FS_Interval
  <2> QED  BY <2>1, <2>2, FS_Bijection DEF ExistsBijection
<1>3. IsFiniteSet(U) /\ IsFiniteSet(F)
  BY <1>0, <1>1, <1>2, FS_Subset
<1>4. Cardinality(H) = Cardinality(U) /\ IsFiniteSet(H)
  <2> DEFINE f == [b \in H |-> b[1] - UsedHead]
  <2>1. f \in [H -> U]
    OBVIOUS
  <2>2. \A b, c \in H : f[b] = f[c] => b = c
    <3>1. ASSUME NEW b \in H, NEW c \in H, f[b] = f[c]  PROVE b = c
      <4>1. b[1] \in Nat /\ c[1] \in Nat /\ b[1] - UsedHead = c[1] - UsedHead
        BY <3>1, BufferFacts
      <4>2. b[1] = c[1]
        BY <4>1 DEF UsedHead
      <4> QED  BY <4>2 DEF HeapIs
    <3> QED  BY <3>1
  <2>3. f \in Injection(H, U)
    BY <2>1, <2>2, Fun_IsInj
  <2>4. \A x \in U : \E b \in H : f[b] = x
    OBVIOUS
  <2>5. f \in Surjection(H, U)
    BY <2>1, <2>4, Fun_IsSurj
  <2> HIDE DEF f, U
  <2> QED  BY <1>3, <2>3, <2>5, FS_Injection
<1> HIDE DEF U
<1>5. Cardinality(F) + Cardinality(U) = Len(q)
  <2>1. Cardinality(F \cup U) = Cardinality(F) + Cardinality(U) - Cardinality(F \cap U)
    BY <1>3, FS_Union
  <2>2. Cardinality(F) \in Nat /\ Cardinality(U) \in Nat
    BY <1>3, FS_CardinalityType
  <2>3. F \cap U = {} /\ F \cup U = B
    BY <1>0, <1>1
  <2>4. Cardinality(F \cap U) = 0
    BY <2>3, FS_EmptySet
  <2>5. Cardinality(F \cup U) = Len(q)
    BY <1>2, <2>3
  <2> QED  BY <2>1, <2>2, <2>4, <2>5
<1>6. F = B \ U
  BY <1>0, <1>1
<1> QED  BY <1>4, <1>5, <1>6 DEF U

(* The invariant is what HeapSound says, and the order of the blocks.      *)
LEMMA HeapImplies ==
  ASSUME HeapInv  PROVE HeapSound
<1> DEFINE list == FreeList(heap)
           free == {list[i] : i \in DOMAIN list}
           seq  == Blocks
           n    == Len(seq)
           end(i) == IF i = n THEN HeapSize + 1 ELSE seq[i + 1]
           Ref(i) == IF i \in 1 .. n THEN IF seq[i] \in free THEN seq[i] ELSE - seq[i] ELSE 0
<1>1. PICK B \in SUBSET Address, F \in SUBSET Address : HeapIs(heap, held, B, F)
  BY DEF HeapInv
<1>2. held \in Buffers
  BY DEF HeapInv, HeapTypeOK, Buffers
<1>3. Sorts(list, F) /\ Sorts(seq, B)
  BY <1>1, <1>2, FreeListIs, BlocksAre
<1>4. /\ free = F /\ DOMAIN list = 1 .. Len(list)
      /\ B = {seq[i] : i \in 1 .. n} /\ n \in Nat /\ \A i \in 1 .. n : seq[i] \in B
  BY <1>3, SortedRange
<1>5. \A i, j \in DOMAIN list : i < j => list[i] < list[j]
  BY <1>3, <1>4 DEF Sorts
<1>6. /\ F = B \ {b[1] - UsedHead : b \in held}
      /\ Cardinality(F) + Cardinality(held) = n
  BY <1>1, <1>2, <1>3, BlocksCount
<1> HIDE DEF list, seq
<1>7. ASSUME NEW i \in 1 .. n
      PROVE  /\ end(i) = EndOf(B, seq[i])
             /\ Ref(i + 1) = Reference(F, Nx(B, seq[i]))
             /\ Ref(i - 1) = Reference(F, Px(B, seq[i]))
  <2>1. /\ i < n => Nx(B, seq[i]) = seq[i + 1]
        /\ i = n => Nx(B, seq[i]) = 0
        /\ i > 1 => Px(B, seq[i]) = seq[i - 1]
        /\ i = 1 => Px(B, seq[i]) = 0
    BY <1>3, SortedNeighbours
  <2>2. 0 \notin F /\ 0 \notin B
    BY DEF Address
  <2>3. /\ i < n => i + 1 \in 1 .. n /\ seq[i + 1] \in B
        /\ i = n => i + 1 \notin 1 .. n
        /\ i > 1 => i - 1 \in 1 .. n
        /\ i = 1 => i - 1 \notin 1 .. n
        /\ (i < n \/ i = n) /\ (i > 1 \/ i = 1)
    BY <1>4
  <2> HIDE DEF free
  <2>4. end(i) = EndOf(B, seq[i])
    BY <2>1, <2>2, <2>3 DEF EndOf
  <2>5. Ref(i + 1) = Reference(F, Nx(B, seq[i]))
    BY <1>4, <2>1, <2>2, <2>3 DEF Reference
  <2>6. Ref(i - 1) = Reference(F, Px(B, seq[i]))
    BY <1>4, <2>1, <2>2, <2>3 DEF Reference
  <2> QED  BY <2>4, <2>5, <2>6
<1> HIDE DEF n, end, Ref, free
<1>8. ASSUME NEW i \in 1 .. n
      PROVE  IF seq[i] \in free
             THEN /\ end(i) - seq[i] >= FreeHead
                  /\ Ref(i + 1) <= 0 /\ Ref(i - 1) <= 0
                  /\ heap.mem[seq[i] + 1] = Ref(i + 1) /\ heap.mem[seq[i] + 2] = Ref(i - 1)
             ELSE /\ \E b \in held : b[1] = seq[i] + UsedHead /\ b[1] + b[2] <= end(i)
                  /\ heap.mem[seq[i]] = Ref(i + 1) /\ heap.mem[seq[i] + 1] = Ref(i - 1)
  <2> DEFINE x == seq[i]
  <2> HIDE DEF x
  <2>1. x \in B /\ Header(heap.mem, B, F, x)
    BY <1>1, <1>4 DEF HeapIs, x
  <2>2. end(i) = EndOf(B, x) /\ Ref(i + 1) = Reference(F, Nx(B, x))
        /\ Ref(i - 1) = Reference(F, Px(B, x))
    BY <1>7 DEF x
  <2>3. Nx(B, x) \in Nat /\ Px(B, x) \in Nat /\ (Px(B, x) \notin F \/ x \notin F)
    BY <1>1, <1>2, <2>1, Neighbours DEF Around
  <2>4. CASE x \in F
    <3>1. Nx(B, x) \notin F /\ EndOf(B, x) - x >= FreeHead /\ Px(B, x) \notin F
      BY <1>1, <2>3, <2>4 DEF HeapIs
    <3>2. Ref(i + 1) = - Nx(B, x) /\ Ref(i - 1) = - Px(B, x)
      BY <2>2, <3>1 DEF Reference
    <3>3. heap.mem[x + 1] = - Nx(B, x) /\ heap.mem[x + 2] = - Px(B, x)
      BY <2>1, <2>4 DEF Header
    <3>4. - Nx(B, x) <= 0 /\ - Px(B, x) <= 0
      BY <2>3
    <3> QED  BY <1>4, <2>2, <2>4, <3>1, <3>2, <3>3, <3>4 DEF x
  <2>5. CASE x \notin F
    <3>1. \E b \in held : b[1] = x + UsedHead /\ b[1] + b[2] <= EndOf(B, x)
      BY <1>1, <2>1, <2>5 DEF HeapIs
    <3>2. heap.mem[x] = Reference(F, Nx(B, x)) /\ heap.mem[x + 1] = Reference(F, Px(B, x))
      BY <2>1, <2>5 DEF Header
    <3> QED  BY <1>4, <2>2, <2>5, <3>1, <3>2 DEF x
  <2> QED  BY <2>4, <2>5
<1>9. /\ \A i, j \in DOMAIN list : i < j => list[i] < list[j]
      /\ free = {seq[i] : i \in 1 .. n} \ {b[1] - UsedHead : b \in held}
      /\ Cardinality(free) + Cardinality(held) = n
  BY <1>4, <1>5, <1>6
<1> QED  BY <1>8, <1>9 DEF HeapSound, n, end, Ref, free, list, seq

(* The free blocks around a block.                                         *)
LEMMA FreeAround ==
  ASSUME NEW h, NEW H \in Buffers, NEW B, NEW F, HeapIs(h, H, B, F), NEW x \in B
  PROVE  /\ Px(B, x) \in F \/ Px(B, x) = 0 => Px(F, x) = Px(B, x)
         /\ Px(B, x) # 0 /\ Px(B, x) \notin F => Px(F, x) = Px(F, Px(B, x))
         /\ Nx(B, x) \in F \/ Nx(B, x) = 0 => Nx(F, x) = Nx(B, x)
<1>0. /\ HeapSize \in Nat /\ B \in SUBSET Address /\ F \in SUBSET Address /\ F \subseteq B
      /\ \A y \in B : y \in Nat /\ y >= 1
      /\ x \in Int /\ 0 \notin F
  BY HeapAssumption DEF HeapIs, Address
<1> DEFINE p == Px(B, x)
           n == Nx(B, x)
<1>1. /\ p \in B \cup {0} /\ p \in Int
      /\ p = 0 => \A z \in B : z >= x
      /\ p # 0 => p \in B /\ p < x /\ \A z \in B : z >= x \/ z <= p
  BY <1>0, PrevIs
<1>2. /\ n \in B \cup {0}
      /\ n = 0 => \A z \in B : z <= x
      /\ n # 0 => n \in B /\ n > x /\ \A z \in B : z <= x \/ z >= n
  BY <1>0, NextIs
<1> HIDE DEF p, n
<1>3. ASSUME p \in F \/ p = 0  PROVE Px(F, x) = p
  <2>1. Pred(F, x, p)
    BY <1>0, <1>1, <1>3 DEF Pred
  <2> QED  BY <1>0, <2>1, PrevIs
<1>4. ASSUME n \in F \/ n = 0  PROVE Nx(F, x) = n
  <2>1. Succ(F, x, n)
    BY <1>0, <1>2, <1>4 DEF Succ
  <2> QED  BY <1>0, <2>1, NextIs
<1>5. ASSUME p # 0, p \notin F  PROVE Px(F, x) = Px(F, p)
  <2> DEFINE o == Px(F, p)
  <2>1. /\ o \in F \cup {0}
        /\ o = 0 => \A z \in F : z >= p
        /\ o # 0 => o \in F /\ o < p /\ \A z \in F : z >= p \/ z <= o
    BY <1>0, <1>1, PrevIs
  <2> HIDE DEF o
  <2>2. Pred(F, x, o)
    <3>1. \A z \in F : z >= p => z >= x
      <4>1. ASSUME NEW z \in F, z >= p  PROVE z >= x
        <5>1. z \in B /\ z # p /\ z \in Nat /\ p \in Nat
          BY <1>0, <1>1, <1>5
        <5>2. z >= x \/ z <= p
          BY <1>1, <1>5, <5>1
        <5> QED  BY <4>1, <5>1, <5>2
      <4> QED  BY <4>1
    <3>2. o # 0 => o < x
      BY <1>0, <1>1, <1>5, <2>1
    <3> QED  BY <2>1, <3>1, <3>2 DEF Pred
  <2>3. o = Px(F, x)
    BY <1>0, <2>2, PrevIs
  <2> QED  BY <2>3 DEF o
<1> QED  BY <1>3, <1>4, <1>5 DEF p, n

(* A search finds u when each step finds it or is one nearer to it.        *)
Nears(f, C, d, u, N) ==
  /\ f[0] = u \/ f[0] \in C
  /\ \A i \in 1 .. N : f[i - 1] \in C => f[i] = u \/ (f[i] \in C /\ d[f[i]] < d[f[i - 1]])

LEMMA SearchFinds ==
  ASSUME NEW N \in Nat, NEW C, NEW d \in [C -> 1 .. N], NEW u, NEW f, Nears(f, C, d, u, N)
  PROVE  \E i \in 0 .. N : f[i] = u
<1> DEFINE Near(i) == (\E j \in 0 .. i : f[j] = u) \/ (f[i] \in C /\ d[f[i]] + i <= N)
           S == {i \in Nat : i <= N => Near(i)}
<1>0. f[0] = u \/ f[0] \in C
  BY DEF Nears
<1>1. 0 \in S
  <2>1. f[0] \in C => d[f[0]] + 0 <= N
    OBVIOUS
  <2> QED  BY <1>0, <2>1
<1>2. ASSUME NEW i \in Nat, i \in S  PROVE i + 1 \in S
  <2> SUFFICES ASSUME i + 1 <= N  PROVE Near(i + 1)
    OBVIOUS
  <2>1. Near(i) /\ i + 1 \in 1 .. N /\ (i + 1) - 1 = i /\ i + 1 \in 0 .. i + 1
    BY <1>2
  <2>2. CASE \E j \in 0 .. i : f[j] = u
    <3>1. 0 .. i \subseteq 0 .. i + 1
      OBVIOUS
    <3> QED  BY <2>2, <3>1
  <2>3. CASE f[i] \in C /\ d[f[i]] + i <= N
    <3>0. f[i + 1] = u \/ (f[i + 1] \in C /\ d[f[i + 1]] < d[f[i]])
      BY <2>1, <2>3 DEF Nears
    <3>1. CASE f[i + 1] = u
      BY <2>1, <3>1
    <3>2. CASE f[i + 1] \in C /\ d[f[i + 1]] < d[f[i]]
      <4>1. d[f[i]] \in 1 .. N /\ d[f[i + 1]] \in 1 .. N
        BY <2>3, <3>2
      <4>2. d[f[i + 1]] + (i + 1) <= N
        BY <2>3, <3>2, <4>1
      <4> QED  BY <3>2, <4>2
    <3> QED  BY <3>0, <3>1, <3>2
  <2> QED  BY <2>1, <2>2, <2>3
<1>3. N \in S
  <2> HIDE DEF S
  <2> QED  BY <1>1, <1>2, SetInduction
<1>4. Near(N)
  BY <1>3
<1>5. f[N] \in C => d[f[N]] \in 1 .. N
  OBVIOUS
<1> QED  BY <1>4, <1>5

(* The least free block heads the list.                                    *)
LEMMA HeadIs ==
  ASSUME NEW h, NEW H \in Buffers, NEW B, NEW F, HeapIs(h, H, B, F)
  PROVE  /\ h.FMBlist \in F \cup {0} /\ h.FMBlist \in Nat
         /\ h.FMBlist = 0 => F = {}
         /\ h.FMBlist # 0 => h.FMBlist \in F /\ \A z \in F : z >= h.FMBlist
<1>0. /\ F \in SUBSET Address /\ \A z \in F : z \in Nat /\ z >= 1 /\ 0 \in Int
      /\ h.FMBlist = Nx(F, 0)
  BY HeapAssumption DEF HeapIs, Address
<1> DEFINE n == Nx(F, 0)
<1>1. /\ n \in F \cup {0}
      /\ n = 0 => \A z \in F : z <= 0
      /\ n # 0 => n \in F /\ \A z \in F : z <= 0 \/ z >= n
  <2>1. 0 \in Int
    OBVIOUS
  <2> QED  BY <1>0, <2>1, NextIs
<1> HIDE DEF n
<1>2. n \in Nat /\ (n = 0 => F = {}) /\ (n # 0 => n \in F /\ \A z \in F : z >= n)
  <2>1. \A z \in F : ~(z <= 0)
    BY <1>0
  <2> QED  BY <1>0, <1>1, <2>1
<1> QED  BY <1>0, <1>1, <1>2 DEF n

(* CoKfree() finds the block of a buffer that is held.                     *)
LEMMA IsBlockTrue ==
  ASSUME NEW h, NEW H \in Buffers, NEW B, NEW F, HeapIs(h, H, B, F), NEW u \in B, u \notin F
  PROVE  IsBlock(h, u)
<1> DEFINE N == HeapSize
           back(x) == IF x = 0 THEN 0 ELSE - h.mem[x + 1]
           on(x)   == IF x = 0 THEN 0
                      ELSE IF h.mem[x] > 0 THEN - h.mem[h.mem[x] + 1] ELSE - h.mem[x]
           start   == IF h.FMBlist = 0 THEN 1
                      ELSE IF u < h.FMBlist THEN - h.mem[h.FMBlist + 2]
                      ELSE - h.mem[h.FMBlist + 1]
           step(x) == IF u < h.FMBlist THEN back(x) ELSE on(x)
           Is(f) == f = [i \in 0 .. N |-> IF i = 0 THEN start ELSE step(f[i - 1])]
           at1 == CHOOSE f : Is(f)
           m == h.FMBlist
<1>1. IsBlock(h, u) <=> \E i \in 0 .. N : at1[i] = u
  BY DEF IsBlock
<1>2. /\ N \in Nat /\ B \in SUBSET Address /\ F \subseteq B /\ 0 \notin B /\ 1 \in B
      /\ \A x \in B : x \in Nat /\ x >= 1 /\ x <= N /\ Header(h.mem, B, F, x)
      /\ \A x \in B : Nx(B, x) \in Nat /\ Px(B, x) \in Nat
  <2>1. /\ N \in Nat /\ B \in SUBSET Address /\ F \subseteq B /\ 0 \notin B /\ 1 \in B
        /\ \A x \in B : x \in Nat /\ x >= 1 /\ x <= N /\ Header(h.mem, B, F, x)
    BY HeapAssumption DEF HeapIs, Address
  <2> QED  BY <2>1, Neighbours DEF Around
<1>3. ASSUME NEW x \in B
      PROVE  /\ Nx(B, x) = 0 => \A z \in B : z <= x
             /\ Nx(B, x) # 0 => Nx(B, x) \in B /\ Nx(B, x) > x /\ \A z \in B : z <= x \/ z >= Nx(B, x)
             /\ Px(B, x) = 0 => \A z \in B : z >= x
             /\ Px(B, x) # 0 => Px(B, x) \in B /\ Px(B, x) < x /\ \A z \in B : z >= x \/ z <= Px(B, x)
  <2>1. x \in Int
    BY <1>2
  <2> QED  BY <1>2, <2>1, NextIs, PrevIs
<1>4. m \in Nat /\ (m = 0 => F = {}) /\ (m # 0 => m \in F /\ \A z \in F : z >= m)
  BY HeadIs
<1> DEFINE C == IF u < m THEN {x \in B : u < x /\ x < m} ELSE {x \in B : x < u /\ x \notin F}
           X == {0} \cup (IF u < m THEN {x \in B : x < m} ELSE B \ F)
           d == [x \in C |-> IF u < m THEN x ELSE N + 1 - x]
           g == [x \in X |-> step(x)]
<1> HIDE DEF N, step, start, m
<1>5. d \in [C -> 1 .. N]
  BY <1>2
<1>6. ASSUME u < m, NEW x \in B, x < m  PROVE step(x) = Px(B, x) /\ Px(B, x) \notin F
  <2>1. x \notin F /\ x # 0
    BY <1>2, <1>4, <1>6
  <2>2. Px(B, x) \notin F
    <3>1. Px(B, x) # 0 => Px(B, x) < x /\ Px(B, x) \in Nat
      BY <1>2, <1>3
    <3> QED  BY <1>2, <1>4, <1>6, <3>1
  <2>3. h.mem[x + 1] = - Px(B, x)
    BY <1>2, <2>1, <2>2 DEF Header, Reference
  <2>4. step(x) = - h.mem[x + 1]
    BY <1>6, <2>1 DEF step, m
  <2> QED  BY <1>2, <2>2, <2>3, <2>4
<1>7. ASSUME ~(u < m), NEW x \in B, x \notin F
      PROVE  step(x) = (IF Nx(B, x) \in F THEN Nx(B, Nx(B, x)) ELSE Nx(B, x)) /\ step(x) \notin F
  <2> DEFINE n == Nx(B, x)
  <2>1. n \in Nat /\ h.mem[x] = Reference(F, n) /\ x # 0 /\ (n \in F => n \in B /\ n >= 1)
    BY <1>2, <1>7 DEF Header
  <2>2. step(x) = IF h.mem[x] > 0 THEN - h.mem[h.mem[x] + 1] ELSE - h.mem[x]
    BY <1>7, <2>1 DEF step, m
  <2> HIDE DEF n
  <2>3. CASE n \in F
    <3>1. h.mem[n + 1] = - Nx(B, n) /\ Nx(B, n) \in Nat /\ Nx(B, n) \notin F
      BY <1>2, <2>1, <2>3 DEF Header, HeapIs
    <3>2. h.mem[x] = n /\ n > 0
      BY <2>1, <2>3 DEF Reference
    <3> QED  BY <2>2, <2>3, <3>1, <3>2 DEF n
  <2>4. CASE n \notin F
    <3>1. h.mem[x] = - n
      BY <2>1, <2>4 DEF Reference
    <3> QED  BY <2>1, <2>2, <2>4, <3>1 DEF n
  <2> QED  BY <2>3, <2>4
<1>8. start \in X
  <2>1. CASE m = 0
    BY <1>2, <1>4, <2>1 DEF start, m
  <2>2. CASE m # 0 /\ u < m
    <3>1. start = - h.mem[m + 2]
      BY <2>2 DEF start, m
    <3>2. h.mem[m + 2] = - Px(B, m) /\ m \in B
      BY <1>2, <1>4, <2>2 DEF Header
    <3>3. Px(B, m) = 0 \/ (Px(B, m) \in B /\ Px(B, m) < m)
      BY <1>3, <3>2
    <3> QED  BY <1>2, <2>2, <3>1, <3>2, <3>3
  <2>3. CASE m # 0 /\ ~(u < m)
    <3>1. start = - h.mem[m + 1]
      BY <2>3 DEF start, m
    <3>2. h.mem[m + 1] = - Nx(B, m) /\ m \in B /\ Nx(B, m) \notin F
      BY <1>2, <1>4, <2>3 DEF Header, HeapIs
    <3>3. Nx(B, m) = 0 \/ Nx(B, m) \in B
      BY <1>3, <3>2
    <3> QED  BY <1>2, <2>3, <3>1, <3>2, <3>3
  <2> QED  BY <2>1, <2>2, <2>3
<1>9. \A x \in X : step(x) \in X
  <2>1. step(0) = 0
    BY DEF step
  <2>2. ASSUME u < m, NEW x \in B, x < m  PROVE step(x) \in X
    <3>1. step(x) = Px(B, x)
      BY <1>6, <2>2
    <3>2. Px(B, x) # 0 => Px(B, x) \in B /\ Px(B, x) < m
      <4>1. Px(B, x) # 0 => Px(B, x) \in B /\ Px(B, x) < x /\ Px(B, x) \in Nat
        BY <1>2, <1>3
      <4> QED  BY <1>2, <1>4, <2>2, <4>1
    <3> QED  BY <2>2, <3>1, <3>2
  <2>3. ASSUME ~(u < m), NEW x \in B, x \notin F  PROVE step(x) \in X
    <3>1. /\ step(x) = (IF Nx(B, x) \in F THEN Nx(B, Nx(B, x)) ELSE Nx(B, x))
          /\ step(x) \notin F
      BY <1>7, <2>3
    <3>2. step(x) \in B \cup {0}
      BY <1>2, <1>3, <3>1
    <3> QED  BY <2>3, <3>1, <3>2
  <2> QED  BY <2>1, <2>2, <2>3
<1> HIDE DEF X
<1>10. Is(at1)
  <2>1. g \in [X -> X]
    BY <1>9
  <2> HIDE DEF g
  <2>2. PICK f \in [0 .. N -> X] : Repeats(f, g, start, N)
    BY <1>2, <1>8, <2>1, Repeated
  <2>3. ASSUME NEW i \in 0 .. N  PROVE f[i] = IF i = 0 THEN start ELSE step(f[i - 1])
    <3>1. CASE i = 0
      BY <2>2, <3>1 DEF Repeats
    <3>2. CASE i # 0
      <4>1. i \in 1 .. N /\ i - 1 \in 0 .. N
        BY <1>2, <3>2
      <4>2. f[i - 1] \in X
        BY <4>1
      <4>3. f[i] = g[f[i - 1]]
        BY <2>2, <4>1 DEF Repeats
      <4> QED  BY <3>2, <4>2, <4>3 DEF g
    <3> QED  BY <3>1, <3>2
  <2>4. f = [i \in 0 .. N |-> f[i]]
    OBVIOUS
  <2>5. Is(f)
    BY <2>3, <2>4
  <2> HIDE DEF Is
  <2> QED  BY <2>5
<1>11. \A i \in 0 .. N : at1[i] = IF i = 0 THEN start ELSE step(at1[i - 1])
  <2> HIDE DEF at1
  <2> QED  BY <1>10
<1> HIDE DEF at1, Is
<1>12. start = u \/ start \in C
  <2>1. CASE m = 0
    <3>1. start = 1
      BY <2>1 DEF start, m
    <3> HIDE DEF m
    <3>3. F = {}
      BY <1>4, <2>1
    <3>2. ~(u < m) /\ 1 <= u
      BY <1>2, <2>1
    <3> QED  BY <1>2, <3>1, <3>2, <3>3
  <2>2. CASE m # 0 /\ u < m
    <3>1. start = - h.mem[m + 2]
      BY <2>2 DEF start, m
    <3>2. h.mem[m + 2] = - Px(B, m) /\ m \in B /\ Px(B, m) \in Nat
      BY <1>2, <1>4, <2>2 DEF Header
    <3>3. Px(B, m) # 0 => Px(B, m) \in B /\ Px(B, m) < m /\ \A z \in B : z >= m \/ z <= Px(B, m)
      BY <1>3, <3>2
    <3>4. Px(B, m) # 0
      BY <1>2, <1>3, <1>4, <2>2, <3>2
    <3>5. u <= Px(B, m)
      BY <1>2, <1>4, <2>2, <3>3, <3>4
    <3> QED  BY <1>2, <2>2, <3>1, <3>2, <3>3, <3>4, <3>5
  <2>3. CASE m # 0 /\ ~(u < m)
    <3>1. start = - h.mem[m + 1]
      BY <2>3 DEF start, m
    <3>2. h.mem[m + 1] = - Nx(B, m) /\ m \in B /\ Nx(B, m) \notin F /\ Nx(B, m) \in Nat
      BY <1>2, <1>4, <2>3 DEF Header, HeapIs
    <3>3. u > m
      BY <1>2, <1>4, <2>3
    <3>4. Nx(B, m) # 0 /\ Nx(B, m) \in B /\ u >= Nx(B, m)
      BY <1>2, <1>3, <1>4, <3>2, <3>3
    <3> QED  BY <1>2, <2>3, <3>1, <3>2, <3>4
  <2> QED  BY <2>1, <2>2, <2>3
<1>13. ASSUME NEW x \in C  PROVE step(x) = u \/ (step(x) \in C /\ d[step(x)] < d[x])
  <2>1. CASE u < m
    <3>1. x \in B /\ u < x /\ x < m
      BY <2>1
    <3>2. step(x) = Px(B, x) /\ Px(B, x) \in Nat
      BY <1>2, <1>6, <2>1, <3>1
    <3>3. Px(B, x) # 0 /\ Px(B, x) \in B /\ Px(B, x) < x /\ u <= Px(B, x)
      BY <1>2, <1>3, <3>1
    <3>4. step(x) = u \/ step(x) \in C
      BY <1>2, <1>4, <2>1, <3>1, <3>2, <3>3
    <3> QED  BY <2>1, <3>2, <3>3, <3>4
  <2>2. CASE ~(u < m)
    <3>1. x \in B /\ x < u /\ x \notin F
      BY <2>2
    <3>2. /\ step(x) = (IF Nx(B, x) \in F THEN Nx(B, Nx(B, x)) ELSE Nx(B, x))
          /\ step(x) \notin F
      BY <1>7, <2>2, <3>1
    <3>3. Nx(B, x) # 0 /\ Nx(B, x) \in B /\ Nx(B, x) > x /\ u >= Nx(B, x) /\ Nx(B, x) \in Nat
      BY <1>2, <1>3, <3>1
    <3>4. step(x) \in B /\ step(x) > x /\ step(x) <= u /\ step(x) \in Nat
      <4>1. CASE Nx(B, x) \notin F
        BY <3>2, <3>3, <4>1
      <4>2. CASE Nx(B, x) \in F
        <5> DEFINE y == Nx(B, x)
        <5>1. y \in B /\ y \in Nat /\ y > x /\ y < u /\ step(x) = Nx(B, y)
          BY <1>2, <3>2, <3>3, <4>2
        <5> HIDE DEF y
        <5>2. Nx(B, y) # 0 /\ Nx(B, y) \in B /\ Nx(B, y) > y /\ u >= Nx(B, y) /\ Nx(B, y) \in Nat
          BY <1>2, <1>3, <5>1
        <5> QED  BY <1>2, <5>1, <5>2
      <4> QED  BY <4>1, <4>2
    <3>5. step(x) # u => step(x) \in C
      BY <1>2, <2>2, <3>2, <3>4
    <3>6. step(x) # u => d[step(x)] = N + 1 - step(x) /\ d[x] = N + 1 - x
      BY <2>2, <3>5
    <3>7. x \in Nat
      BY <1>2, <3>1
    <3> QED  BY <1>2, <3>4, <3>5, <3>6, <3>7
  <2> QED  BY <2>1, <2>2
<1> HIDE DEF C, d
<1>14. Nears(at1, C, d, u, N)
  <2>1. at1[0] = start /\ \A i \in 1 .. N : at1[i] = step(at1[i - 1])
    BY <1>2, <1>11
  <2> QED  BY <1>12, <1>13, <2>1 DEF Nears
<1>15. \E i \in 0 .. N : at1[i] = u
  BY <1>2, <1>5, <1>14, SearchFinds
<1> QED  BY <1>1, <1>15

(* GetPreFMB() of a used block is the free block before it.                *)
LEMMA GetPreFMBIs ==
  ASSUME NEW h, NEW H \in Buffers, NEW B, NEW F, HeapIs(h, H, B, F), NEW u \in B, u \notin F
  PROVE  GetPreFMB(h, u) = Px(F, u)
<1> DEFINE N == HeapSize
           step(v) == IF v < 0 THEN h.mem[1 - v] ELSE v
           Is(f) == f = [i \in 0 .. N |-> IF i = 0 THEN h.mem[u + 1] ELSE step(f[i - 1])]
           at1 == CHOOSE f : Is(f)
           X == {0} \cup F \cup {- x : x \in B \ F}
           g == [v \in X |-> step(v)]
           start == Reference(F, Px(B, u))
<1>1. GetPreFMB(h, u) = at1[N]
  BY DEF GetPreFMB
<1>2. /\ N \in Nat /\ B \in SUBSET Address /\ F \subseteq B /\ 0 \notin B
      /\ \A x \in B : x \in Nat /\ x >= 1 /\ x <= N /\ x \in Int /\ Header(h.mem, B, F, x)
  BY HeapAssumption DEF HeapIs, Address
<1>3. ASSUME NEW x \in B
      PROVE  /\ Px(B, x) \in Nat
             /\ Px(B, x) # 0 => Px(B, x) \in B /\ Px(B, x) < x
             /\ Px(B, x) \in F \/ Px(B, x) = 0 => Px(F, x) = Px(B, x)
             /\ Px(B, x) # 0 /\ Px(B, x) \notin F => Px(F, x) = Px(F, Px(B, x))
  BY <1>2, PrevIs, FreeAround
<1> HIDE DEF N
<1>4. ASSUME NEW x \in B, x \notin F
      PROVE  /\ h.mem[x + 1] = Reference(F, Px(B, x)) /\ step(- x) = h.mem[x + 1]
             /\ Reference(F, Px(B, x)) \in X
  <2> DEFINE p == Px(B, x)
  <2>1. h.mem[x + 1] = Reference(F, p)
    BY <1>2, <1>4 DEF Header
  <2>2. x \in Nat /\ - x < 0 /\ 1 - (- x) = x + 1
    BY <1>2
  <2>3. step(- x) = h.mem[x + 1]
    BY <2>2
  <2>4. p \in Nat /\ (p # 0 => p \in B)
    BY <1>3
  <2> HIDE DEF p
  <2>5. Reference(F, p) \in X
    <3>1. CASE p \in F
      BY <3>1 DEF Reference
    <3>2. CASE p = 0
      <4>1. - 0 = 0
        BY MinusZero
      <4>2. Reference(F, 0) = 0
        BY <4>1 DEF Reference
      <4> QED  BY <3>2, <4>2
    <3>3. CASE p # 0 /\ p \notin F
      BY <2>4, <3>3 DEF Reference
    <3> QED  BY <3>1, <3>2, <3>3
  <2> QED  BY <2>1, <2>3, <2>5 DEF p
<1>5. h.mem[u + 1] = start /\ start \in X
  BY <1>4
<1>6. \A v \in X : step(v) \in X
  <2>1. ASSUME NEW v \in {0} \cup F  PROVE step(v) = v
    <3>1. v \in Nat
      BY <1>2
    <3> QED  BY <3>1
  <2>2. ASSUME NEW x \in B \ F  PROVE step(- x) \in X
    BY <1>4
  <2> HIDE DEF step
  <2> QED  BY <2>1, <2>2
<1>7. Is(at1)
  <2>1. g \in [X -> X]
    BY <1>6
  <2> HIDE DEF g, X
  <2>2. PICK f \in [0 .. N -> X] : Repeats(f, g, start, N)
    BY <1>2, <1>5, <2>1, Repeated
  <2>3. ASSUME NEW i \in 0 .. N  PROVE f[i] = IF i = 0 THEN h.mem[u + 1] ELSE step(f[i - 1])
    <3>1. CASE i = 0
      BY <1>5, <2>2, <3>1 DEF Repeats
    <3>2. CASE i # 0
      <4>1. i \in 1 .. N /\ i - 1 \in 0 .. N
        BY <1>2, <3>2
      <4>2. f[i - 1] \in X
        BY <4>1
      <4>3. f[i] = g[f[i - 1]]
        BY <2>2, <4>1 DEF Repeats
      <4> HIDE DEF step
      <4> QED  BY <3>2, <4>2, <4>3 DEF g
    <3> QED  BY <3>1, <3>2
  <2>4. f = [i \in 0 .. N |-> f[i]]
    OBVIOUS
  <2>5. Is(f)
    BY <2>3, <2>4
  <2> HIDE DEF Is
  <2> QED  BY <2>5
<1>8. \A i \in 0 .. N : at1[i] = IF i = 0 THEN start ELSE step(at1[i - 1])
  <2> HIDE DEF at1
  <2> QED  BY <1>5, <1>7
<1> HIDE DEF at1, Is
<1> DEFINE Goal(v, i) == \/ v \in {0} \cup F /\ v = Px(F, u)
                         \/ \E x \in B \ F : v = - x /\ Px(F, x) = Px(F, u) /\ x + i <= N - 1
           S == {i \in Nat : i <= N => Goal(at1[i], i)}
<1>9. ASSUME NEW x \in B, x \notin F, NEW i \in Nat, Px(F, x) = Px(F, u), x + i <= N
      PROVE  Goal(Reference(F, Px(B, x)), i)
  <2> DEFINE p == Px(B, x)
  <2>1. /\ p \in Nat /\ x \in Nat /\ (p # 0 => p \in B /\ p < x)
        /\ p \in F \/ p = 0 => Px(F, x) = p
        /\ p # 0 /\ p \notin F => Px(F, x) = Px(F, p)
    BY <1>2, <1>3
  <2> HIDE DEF p
  <2>2. CASE p \in F
    <3>1. Reference(F, p) = p /\ p = Px(F, u)
      BY <1>9, <2>1, <2>2 DEF Reference
    <3> QED  BY <2>2, <3>1 DEF p
  <2>3. CASE p = 0
    <3>1. - 0 = 0
      BY MinusZero
    <3>2. Reference(F, 0) = 0
      BY <3>1 DEF Reference
    <3> QED  BY <1>9, <2>1, <2>3, <3>2 DEF p
  <2>4. CASE p # 0 /\ p \notin F
    <3>1. Reference(F, p) = - p /\ p \in B \ F /\ Px(F, p) = Px(F, u)
      BY <1>9, <2>1, <2>4 DEF Reference
    <3>2. p + i <= N - 1
      BY <1>2, <1>9, <2>1, <2>4
    <3> QED  BY <3>1, <3>2 DEF p
  <2> QED  BY <2>2, <2>3, <2>4 DEF p
<1>10. 0 \in S
  <2>1. at1[0] = start
    BY <1>2, <1>8
  <2>2. u \in Nat /\ u + 0 <= N
    BY <1>2
  <2>3. Goal(start, 0)
    <3> HIDE DEF Goal
    <3> QED  BY <1>9, <2>2
  <2> HIDE DEF Goal
  <2> QED  BY <2>1, <2>3
<1>11. ASSUME NEW i \in Nat, i \in S  PROVE i + 1 \in S
  <2> SUFFICES ASSUME i + 1 <= N  PROVE Goal(at1[i + 1], i + 1)
    OBVIOUS
  <2>0. N \in Nat /\ i + 1 \in 0 .. N /\ i + 1 # 0 /\ (i + 1) - 1 = i /\ i <= N
    BY <1>2
  <2>1. Goal(at1[i], i) /\ at1[i + 1] = step(at1[i])
    <3> HIDE DEF Goal, step
    <3>1. at1[i + 1] = step(at1[(i + 1) - 1])
      BY <1>8, <2>0
    <3> QED  BY <1>11, <2>0, <3>1
  <2>2. CASE at1[i] \in {0} \cup F /\ at1[i] = Px(F, u)
    <3>1. step(at1[i]) = at1[i]
      BY <1>2, <2>2
    <3> HIDE DEF step
    <3> QED  BY <2>1, <2>2, <3>1
  <2>3. ASSUME NEW x \in B \ F, at1[i] = - x, Px(F, x) = Px(F, u), x + i <= N - 1
        PROVE  Goal(at1[i + 1], i + 1)
    <3>1. at1[i + 1] = Reference(F, Px(B, x))
      <4> HIDE DEF step
      <4> QED  BY <1>4, <2>1, <2>3
    <3>2. x \in Nat /\ x + (i + 1) <= N /\ i + 1 \in Nat
      BY <1>2, <2>3
    <3> HIDE DEF Goal
    <3>3. Goal(Reference(F, Px(B, x)), i + 1)
      BY <1>9, <2>3, <3>2
    <3> QED  BY <3>1, <3>3
  <2> HIDE DEF step
  <2> QED  BY <2>1, <2>2, <2>3
<1>12. Goal(at1[N], N)
  <2>1. N \in S
    <3> HIDE DEF S
    <3> QED  BY <1>2, <1>10, <1>11, SetInduction
  <2> HIDE DEF Goal
  <2> QED  BY <1>2, <2>1
<1>13. ~ \E x \in B \ F : x + N <= N - 1
  BY <1>2
<1> QED  BY <1>1, <1>12, <1>13

-----------------------------------------------------------------------------
(* The used block u and the free ones next to it become one, at Joint;     *)
(* Ahead and Behind are then its neighbours, LinkTo the next free one.      *)
Joint(B, F, u) == IF Px(B, u) \in F THEN Px(B, u) ELSE u

Ahead(B, F, u) == IF Px(B, u) \in F THEN Px(B, Px(B, u)) ELSE Px(B, u)

Behind(B, F, u) == IF Nx(B, u) \in F THEN Nx(B, Nx(B, u)) ELSE Nx(B, u)

LinkTo(B, F, u) == IF Nx(B, u) \in F THEN Nx(F, Nx(B, u)) ELSE Nx(F, u)

BlocksLeft(B, F, u) == {x \in B : (x = u => Joint(B, F, u) = u) /\ (x = Nx(B, u) => x \notin F)}

FreeLeft(B, F, u) == {x \in F : x # Nx(B, u)} \cup {Joint(B, F, u)}

(* What Joint, Ahead and Behind are.                                       *)
Joins(B, F, u) ==
  /\ Joint(B, F, u) \in B /\ Joint(B, F, u) \in Nat
  /\ Ahead(B, F, u) \in Nat /\ Ahead(B, F, u) \notin F
  /\ Ahead(B, F, u) = Px(B, Joint(B, F, u))
  /\ Ahead(B, F, u) # 0 => Ahead(B, F, u) \in B /\ Ahead(B, F, u) # u
  /\ Behind(B, F, u) \in Nat /\ Behind(B, F, u) \notin F
  /\ Behind(B, F, u) # 0 => /\ Behind(B, F, u) \in B /\ Behind(B, F, u) > u
                            /\ Behind(B, F, u) > Joint(B, F, u)
  /\ \A x \in B : \/ x <= Joint(B, F, u) \/ x = u
                  \/ x = Nx(B, u) /\ x \in F
                  \/ Behind(B, F, u) # 0 /\ x >= Behind(B, F, u)
  /\ Joint(B, F, u) <= u

LEMMA JoinFacts ==
  ASSUME NEW h, NEW H \in Buffers, NEW B, NEW F, HeapIs(h, H, B, F), NEW u \in B, u \notin F
  PROVE  Joins(B, F, u)
<1> DEFINE p == Px(B, u)
           y == Nx(B, u)
           c == Joint(B, F, u)
           o == Ahead(B, F, u)
           z == Behind(B, F, u)
<1>1. /\ F \subseteq B /\ 0 \notin B /\ u \in Nat /\ p \in Nat /\ y \in Nat
      /\ \A x \in B : x \in Nat
      /\ \A x \in F : Px(B, x) \notin F /\ Nx(B, x) \notin F
  <2>1. F \subseteq B /\ 0 \notin B /\ (\A x \in B : x \in Nat) /\ \A x \in F : Nx(B, x) \notin F
    BY HeapAssumption DEF HeapIs, Address
  <2>2. ASSUME NEW x \in F  PROVE Px(B, x) \notin F
    <3>1. x \in B
      BY <2>1
    <3>2. Around(B, F, x)
      BY <3>1, Neighbours
    <3> QED  BY <3>2 DEF Around
  <2> QED  BY <2>1, <2>2, Neighbours DEF Around
<1>2. ASSUME NEW x \in B
      PROVE  /\ Px(B, x) \in Nat /\ Nx(B, x) \in Nat
             /\ Px(B, x) = 0 => \A w \in B : w >= x
             /\ Px(B, x) # 0 => Px(B, x) \in B /\ Px(B, x) < x
             /\ Nx(B, x) = 0 => \A w \in B : w <= x
             /\ Nx(B, x) # 0 => Nx(B, x) \in B /\ Nx(B, x) > x /\ \A w \in B : w <= x \/ w >= Nx(B, x)
  <2>1. x \in Int /\ B \in SUBSET Address
    BY HeapAssumption DEF HeapIs, Address
  <2>2. Px(B, x) \in Nat /\ Nx(B, x) \in Nat
    BY Neighbours DEF Around
  <2> QED  BY <2>1, <2>2, NextIs, PrevIs
<1>3. /\ c = IF p \in F THEN p ELSE u
      /\ o = IF p \in F THEN Px(B, p) ELSE p
      /\ z = IF y \in F THEN Nx(B, y) ELSE y
  BY DEF Joint, Ahead, Behind
<1>4. /\ p # 0 => p \in B /\ p < u
      /\ y # 0 => y \in B /\ y > u
      /\ \A w \in B : w <= u \/ (y # 0 /\ w >= y)
      /\ p \in F => \A w \in B : w <= p \/ w >= u
      /\ y \in F => Nx(B, y) \in Nat /\ \A w \in B : w <= y \/ (Nx(B, y) # 0 /\ w >= Nx(B, y))
  <2>1. \A w \in B : w <= u \/ (y # 0 /\ w >= y)
    <3>1. y = 0 => \A w \in B : w <= u
      BY <1>2
    <3>2. y # 0 => \A w \in B : w <= u \/ w >= y
      BY <1>2
    <3> QED  BY <3>1, <3>2
  <2>2. p \in F => \A w \in B : w <= p \/ w >= u
    <3>1. ASSUME p \in F  PROVE Nx(B, p) = u
      <4>1. p # 0
        BY <1>1, <3>1
      <4> QED  BY <4>1, Neighbours DEF Around
    <3>2. ASSUME p \in F  PROVE \A w \in B : w <= p \/ w >= Nx(B, p)
      <4>1. p \in B /\ Nx(B, p) # 0
        BY <1>1, <3>1, <3>2
      <4> QED  BY <1>2, <4>1
    <3> QED  BY <3>1, <3>2
  <2>3. y \in F => Nx(B, y) \in Nat /\ \A w \in B : w <= y \/ (Nx(B, y) # 0 /\ w >= Nx(B, y))
    <3>1. ASSUME y \in F  PROVE y \in B
      BY <1>1, <3>1
    <3>2. ASSUME NEW a \in B
          PROVE  Nx(B, a) \in Nat /\ \A w \in B : w <= a \/ (Nx(B, a) # 0 /\ w >= Nx(B, a))
      BY <1>2
    <3> QED  BY <3>1, <3>2
  <2>4. (p # 0 => p \in B /\ p < u) /\ (y # 0 => y \in B /\ y > u)
    BY <1>2
  <2> QED  BY <2>1, <2>2, <2>3, <2>4
<1>5. o = Px(B, c)
  BY <1>3
<1>6. c \in B /\ c \in Nat /\ c <= u
  BY <1>1, <1>3, <1>4
<1>7. o \in Nat /\ (o # 0 => o \in B /\ o < c)
  BY <1>2, <1>5, <1>6
<1>8. o \notin F
  BY <1>1, <1>3
<1>9. z \in Nat /\ z \notin F
  BY <1>1, <1>3, <1>4
<1>10. z # 0 => z \in B /\ z > u
  <2>1. ASSUME y \in F, z # 0  PROVE z \in B /\ z > u
    <3>1. y \in B /\ z = Nx(B, y) /\ y > u /\ y \in Nat
      BY <1>1, <1>3, <1>4, <2>1
    <3>2. z \in B /\ z > y /\ z \in Nat
      BY <1>2, <1>9, <2>1, <3>1
    <3> QED  BY <1>1, <3>1, <3>2
  <2>2. ASSUME y \notin F, z # 0  PROVE z \in B /\ z > u
    BY <1>3, <1>4, <2>2
  <2> QED  BY <2>1, <2>2
<1>11. ASSUME NEW x \in B
       PROVE  x <= c \/ x = u \/ (x = y /\ x \in F) \/ (z # 0 /\ x >= z)
  <2>0. x \in Nat
    BY <1>1
  <2>1. CASE x <= u
    BY <1>1, <1>3, <1>4, <2>0, <2>1
  <2>2. CASE y # 0 /\ x >= y /\ y \notin F
    BY <1>3, <2>2
  <2>3. CASE y # 0 /\ x >= y /\ y \in F
    <3>1. x <= y \/ (z # 0 /\ x >= z)
      BY <1>3, <1>4, <2>3
    <3> QED  BY <1>1, <2>0, <2>3, <3>1
  <2> QED  BY <1>4, <2>1, <2>2, <2>3
<1> HIDE DEF c, o, z, p, y
<1>12. o # 0 => o # u
  BY <1>1, <1>6, <1>7
<1>13. z # 0 => z > c
  BY <1>1, <1>6, <1>9, <1>10
<1> QED  BY <1>5, <1>6, <1>7, <1>8, <1>9, <1>10, <1>11, <1>12, <1>13 DEF Joins, c, o, z, y

(* The neighbours among the blocks that are left.                          *)
LEMMA BlocksAfter ==
  ASSUME NEW h, NEW H \in Buffers, NEW B, NEW F, HeapIs(h, H, B, F), NEW u \in B, u \notin F
  PROVE  /\ BlocksLeft(B, F, u) \subseteq B /\ 1 \in BlocksLeft(B, F, u)
         /\ FreeLeft(B, F, u) \subseteq BlocksLeft(B, F, u)
         /\ \A x \in BlocksLeft(B, F, u) :
              /\ Nx(BlocksLeft(B, F, u), x) =
                   IF x = Joint(B, F, u) THEN Behind(B, F, u) ELSE Nx(B, x)
              /\ Px(BlocksLeft(B, F, u), x) =
                   IF x = Behind(B, F, u) THEN Joint(B, F, u) ELSE Px(B, x)
<1> DEFINE c == Joint(B, F, u)
           o == Ahead(B, F, u)
           z == Behind(B, F, u)
           y == Nx(B, u)
           p == Px(B, u)
           S == BlocksLeft(B, F, u)
<1>1. /\ F \subseteq B /\ 0 \notin B /\ 1 \in B /\ B \in SUBSET Address
      /\ \A x \in B : x \in Nat /\ x \in Int /\ x >= 1
  BY HeapAssumption DEF HeapIs, Address
<1>2. /\ c \in B /\ c \in Nat /\ o \in Nat /\ o \notin F /\ o = Px(B, c)
      /\ o # 0 => o \in B /\ o # u
      /\ z \in Nat /\ z \notin F /\ (z # 0 => z \in B /\ z > u /\ z > c)
      /\ \A x \in B : x <= c \/ x = u \/ (x = y /\ x \in F) \/ (z # 0 /\ x >= z)
      /\ c <= u
  BY JoinFacts DEF Joins
<1>3. ASSUME NEW x \in B
      PROVE  /\ Px(B, x) \in Nat /\ Nx(B, x) \in Nat
             /\ Px(B, x) # 0 => Px(B, x) \in B /\ Px(B, x) < x /\ Nx(B, Px(B, x)) = x
             /\ Nx(B, x) # 0 => Nx(B, x) \in B /\ Nx(B, x) > x /\ Px(B, Nx(B, x)) = x
             /\ Succ(B, x, Nx(B, x)) /\ Pred(B, x, Px(B, x))
  <2>1. Succ(B, x, Nx(B, x))
    BY <1>1, NextSucc
  <2>2. Pred(B, x, Px(B, x))
    <3> DEFINE n == Px(B, x)
    <3>1. /\ n = 0 => \A w \in B : w >= x
          /\ n # 0 => n \in B /\ n < x /\ \A w \in B : w >= x \/ w <= n
      BY <1>1, PrevIs
    <3> HIDE DEF n
    <3>2. Pred(B, x, n)
      BY <3>1 DEF Pred
    <3> QED  BY <3>2 DEF n
  <2>3. /\ Px(B, x) \in Nat /\ Nx(B, x) \in Nat
        /\ Px(B, x) # 0 => Px(B, x) \in B /\ Nx(B, Px(B, x)) = x /\ Px(B, x) + 3 <= x
        /\ Nx(B, x) # 0 => Nx(B, x) \in B /\ Px(B, Nx(B, x)) = x /\ Nx(B, x) >= x + 3
    BY Neighbours DEF Around
  <2>4. x \in Nat
    BY <1>1
  <2> QED  BY <2>1, <2>2, <2>3, <2>4
<1>4. (p \in F => c = p) /\ (p \notin F => c = u)
  BY DEF Joint
<1>5. (y \in F => z = Nx(B, y)) /\ (y \notin F => z = y)
  BY DEF Behind
<1>6. \A x : x \in S <=> x \in B /\ (x = u => c = u) /\ (x = y => x \notin F)
  BY DEF BlocksLeft
<1>7. \A x : x \in FreeLeft(B, F, u) <=> (x \in F /\ x # y) \/ x = c
  BY DEF FreeLeft
<1>8. /\ p \in Nat /\ y \in Nat /\ (p # 0 => p \in B /\ p < u /\ Nx(B, p) = u)
      /\ y # 0 => y \in B /\ y > u /\ Px(B, y) = u
  BY <1>3
<1> HIDE DEF c, o, z, y, p, S
<1>9. S \in SUBSET Address /\ S \subseteq B
  BY <1>1, <1>6
<1>10. u \in Nat /\ u >= 1
  BY <1>1
<1>11. 1 \in S
  BY <1>1, <1>4, <1>6, <1>8, <1>10
<1>12. c \in S
  <2>1. c # y
    BY <1>1, <1>2, <1>4, <1>8, <1>10
  <2>2. c = u => c = u
    OBVIOUS
  <2> QED  BY <1>2, <1>6, <2>1
<1>13. z # 0 => z \in S
  <2>1. ASSUME z # 0  PROVE z \in S
    <3>1. z # u /\ z \in B /\ z \notin F
      BY <1>2, <1>10, <2>1
    <3> QED  BY <1>6, <3>1
  <2> QED  BY <2>1
<1>14. FreeLeft(B, F, u) \subseteq S
  BY <1>1, <1>6, <1>7, <1>12
<1>15. ASSUME NEW x \in S  PROVE Nx(S, x) = IF x = c THEN z ELSE Nx(B, x)
  <2>0. x \in Int /\ x \in B /\ x \in Nat
    BY <1>1, <1>9
  <2>1. CASE x = c
    <3>1. \A w \in S : w <= c \/ (z # 0 /\ w >= z)
      <4>1. ASSUME NEW w \in S  PROVE w <= c \/ (z # 0 /\ w >= z)
        <5>1. w \in B /\ (w = u => c = u) /\ (w = y => w \notin F)
          BY <1>6
        <5>2. w <= c \/ w = u \/ (z # 0 /\ w >= z)
          BY <1>2, <5>1
        <5>3. c <= c
          BY <1>2
        <5> QED  BY <5>1, <5>2, <5>3
      <4> QED  BY <4>1
    <3>2. Succ(S, c, z)
      BY <1>2, <1>13, <3>1 DEF Succ
    <3>3. z = Nx(S, c)
      BY <1>9, <2>0, <2>1, <3>2, NextIs
    <3> QED  BY <2>1, <3>3
  <2>2. CASE x # c
    <3> DEFINE n == Nx(B, x)
    <3>1. Succ(B, x, n) /\ (n # 0 => n \in B /\ Px(B, n) = x)
      BY <1>3, <2>0
    <3> HIDE DEF n
    <3>2. n # 0 => n \in S
      <4>1. ASSUME n # 0, n = u, c # u  PROVE FALSE
        <5>1. x = p
          BY <3>1, <4>1 DEF p
        <5> QED  BY <1>4, <2>2, <4>1, <5>1
      <4>2. ASSUME n # 0, n = y, n \in F  PROVE FALSE
        <5>1. x = u
          BY <1>8, <3>1, <4>2
        <5> QED  BY <1>6, <2>2, <5>1
      <4> QED  BY <1>6, <3>1, <4>1, <4>2
    <3>3. Succ(S, x, n)
      BY <1>9, <3>1, <3>2 DEF Succ
    <3>4. n = Nx(S, x)
      BY <1>9, <2>0, <3>3, NextIs
    <3> QED  BY <2>2, <3>4 DEF n
  <2> QED  BY <2>1, <2>2
<1>16. ASSUME NEW x \in S  PROVE Px(S, x) = IF x = z THEN c ELSE Px(B, x)
  <2>0. x \in Int /\ x \in B /\ x \in Nat /\ x # 0
    BY <1>1, <1>9
  <2>1. CASE x = z
    <3>1. \A w \in S : w >= z \/ w <= c
      <4>1. ASSUME NEW w \in S  PROVE w >= z \/ w <= c
        <5>1. w \in B /\ (w = u => c = u) /\ (w = y => w \notin F)
          BY <1>6
        <5>2. w <= c \/ w = u \/ (z # 0 /\ w >= z)
          BY <1>2, <5>1
        <5>3. c <= c
          BY <1>2
        <5> QED  BY <5>1, <5>2, <5>3
      <4> QED  BY <4>1
    <3>2. Pred(S, z, c)
      BY <1>1, <1>2, <1>12, <2>0, <2>1, <3>1 DEF Pred
    <3>3. c = Px(S, z)
      BY <1>9, <2>0, <2>1, <3>2, PrevIs
    <3> QED  BY <2>1, <3>3
  <2>2. CASE x # z
    <3> DEFINE n == Px(B, x)
    <3>1. Pred(B, x, n) /\ (n # 0 => n \in B /\ Nx(B, n) = x)
      BY <1>3, <2>0
    <3> HIDE DEF n
    <3>2. n # 0 => n \in S
      <4>1. ASSUME n # 0, n = u, c # u  PROVE FALSE
        <5>1. x = y
          BY <3>1, <4>1 DEF y
        <5> QED  BY <1>5, <1>6, <2>2, <5>1
      <4>2. ASSUME n # 0, n = y, n \in F  PROVE FALSE
        <5>1. x = Nx(B, y)
          BY <3>1, <4>2
        <5> QED  BY <1>5, <2>2, <4>2, <5>1
      <4> QED  BY <1>6, <3>1, <4>1, <4>2
    <3>3. Pred(S, x, n)
      BY <1>9, <3>1, <3>2 DEF Pred
    <3>4. n = Px(S, x)
      BY <1>9, <2>0, <3>3, PrevIs
    <3> QED  BY <2>2, <3>4 DEF n
  <2> QED  BY <2>1, <2>2
<1> QED  BY <1>9, <1>11, <1>14, <1>15, <1>16 DEF S, c, z

(* The next among the free ones.                                           *)
LinkLeft(B, F, u, x) ==
  Nx(FreeLeft(B, F, u), x) =
    IF x = Joint(B, F, u) THEN LinkTo(B, F, u)
    ELSE IF Joint(B, F, u) = u /\ x = Px(F, u) THEN u ELSE Nx(F, x)

LEMMA FreeAfter ==
  ASSUME NEW h, NEW H \in Buffers, NEW B, NEW F, HeapIs(h, H, B, F), NEW u \in B, u \notin F,
         NEW x \in FreeLeft(B, F, u) \cup {0}
  PROVE  LinkLeft(B, F, u, x)
<1> DEFINE c == Joint(B, F, u)
           y == Nx(B, u)
           p == Px(B, u)
           q == Px(F, u)
           l == LinkTo(B, F, u)
           S == FreeLeft(B, F, u)
<1>1. /\ F \subseteq B /\ 0 \notin B /\ B \in SUBSET Address /\ F \in SUBSET Address
      /\ \A w \in B : w \in Nat /\ w \in Int /\ w >= 1
      /\ \A w \in F : w \in Nat /\ w \in Int /\ w >= 1
      /\ 0 \in Int
  BY HeapAssumption DEF HeapIs, Address
<1>2. /\ p \in F \/ p = 0 => q = p
      /\ y \in F \/ y = 0 => Nx(F, u) = y
  BY FreeAround
<1>3. /\ p \in Nat /\ y \in Nat /\ (p # 0 => p \in B /\ p < u)
      /\ y # 0 => y \in B /\ y > u
  <2>1. u \in Int /\ u \in Nat /\ p \in Nat /\ y \in Nat
    BY <1>1, Neighbours DEF Around
  <2> QED  BY <1>1, <2>1, NextIs, PrevIs
<1>4. /\ q \in F \cup {0}
      /\ q = 0 => \A w \in F : w >= u
      /\ q # 0 => q \in F /\ q < u /\ \A w \in F : w >= u \/ w <= q
  BY <1>1, PrevIs
<1>5. \A w \in F \cup {0, u} : Succ(F, w, Nx(F, w))
  BY <1>1, NextSucc
<1>6. (p \in F => c = p) /\ (p \notin F => c = u)
  BY DEF Joint
<1>7. l = IF y \in F THEN Nx(F, y) ELSE Nx(F, u)
  BY DEF LinkTo
<1>8. \A w : w \in S <=> (w \in F /\ w # y) \/ w = c
  BY DEF FreeLeft
<1>9. u \in Nat /\ u \in Int /\ u >= 1
  BY <1>1
<1> HIDE DEF c, y, p, q, l, S
<1>10. S \in SUBSET Address /\ c \in Nat /\ c \in B /\ c # 0
  BY <1>1, <1>3, <1>6, <1>8
<1>11. ASSUME NEW n, NEW w \in Int, Succ(S, w, n)  PROVE Nx(S, w) = n
  BY <1>10, <1>11, NextIs
<1>12. ASSUME x = c  PROVE Nx(S, x) = l
  <2>1. ASSUME NEW w \in F  PROVE w <= u => w <= c
    <3>1. w # u /\ w \in Nat
      BY <1>1
    <3>2. CASE p \in F
      BY <1>2, <1>3, <1>4, <1>6, <1>9, <3>1, <3>2
    <3>3. CASE p \notin F
      BY <1>6, <3>3
    <3> QED  BY <3>2, <3>3
  <2>2. CASE y \in F
    <3>1. Succ(F, u, y) /\ Succ(F, y, l)
      BY <1>2, <1>5, <1>7, <2>2
    <3>2. l # 0 => l \in F /\ l > y /\ l \in Nat /\ l # y
      BY <1>1, <1>3, <3>1 DEF Succ
    <3>3. \A w \in S : w <= c \/ (l # 0 /\ w >= l)
      <4>1. ASSUME NEW w \in S, w # c  PROVE w <= c \/ (l # 0 /\ w >= l)
        <5>1. w \in F /\ w # y /\ w \in Nat
          BY <1>1, <1>8, <4>1
        <5>2. w <= u \/ w >= y
          BY <1>1, <2>2, <3>1, <5>1 DEF Succ
        <5>3. w <= y \/ (l # 0 /\ w >= l)
          BY <3>1, <5>1 DEF Succ
        <5> QED  BY <1>3, <2>1, <5>1, <5>2, <5>3
      <4>2. c <= c
        BY <1>10
      <4> QED  BY <4>1, <4>2
    <3>4. l # 0 => l \in S /\ l > c
      <4>1. c <= u
        BY <1>3, <1>6, <1>1, <1>9
      <4>2. l # 0 => l > c
        BY <1>3, <1>9, <1>10, <1>1, <2>2, <3>2, <4>1
      <4> QED  BY <1>8, <3>2, <4>2
    <3>5. Succ(S, c, l)
      BY <3>3, <3>4 DEF Succ
    <3>6. c \in Int
      BY <1>10
    <3>7. Nx(S, c) = l
      BY <1>11, <3>5, <3>6
    <3> QED  BY <1>12, <3>7
  <2>3. CASE y \notin F
    <3>1. Succ(F, u, l)
      BY <1>5, <1>7, <2>3
    <3>2. l # 0 => l \in F /\ l > u /\ l \in Nat /\ l # y
      BY <1>1, <2>3, <3>1 DEF Succ
    <3>3. \A w \in S : w <= c \/ (l # 0 /\ w >= l)
      <4>1. ASSUME NEW w \in S, w # c  PROVE w <= c \/ (l # 0 /\ w >= l)
        <5>1. w \in F /\ w \in Nat
          BY <1>1, <1>8, <4>1
        <5>2. w <= u \/ (l # 0 /\ w >= l)
          BY <3>1, <5>1 DEF Succ
        <5> QED  BY <2>1, <5>1, <5>2
      <4>2. c <= c
        BY <1>10
      <4> QED  BY <4>1, <4>2
    <3>4. l # 0 => l \in S /\ l > c
      <4>1. c <= u
        BY <1>3, <1>6, <1>1, <1>9
      <4>2. l # 0 => l > c
        BY <1>9, <1>10, <3>2, <4>1
      <4> QED  BY <1>8, <3>2, <4>2
    <3>5. Succ(S, c, l)
      BY <3>3, <3>4 DEF Succ
    <3>6. c \in Int
      BY <1>10
    <3>7. Nx(S, c) = l
      BY <1>11, <3>5, <3>6
    <3> QED  BY <1>12, <3>7
  <2> QED  BY <2>2, <2>3
<1>13. ASSUME x # c, c = u, x = q  PROVE Nx(S, x) = u
  <2>1. x \in Int /\ x < u
    BY <1>1, <1>4, <1>9, <1>13
  <2>2. \A w \in S : w <= x \/ w >= u
    <3>1. ASSUME NEW w \in S, w # c  PROVE w <= x \/ w >= u
      <4>1. w \in F
        BY <1>8, <3>1
      <4> QED  BY <1>4, <1>13, <4>1
    <3>2. u >= u
      BY <1>9
    <3> QED  BY <1>13, <3>1, <3>2
  <2>3. u \in S
    BY <1>8, <1>13
  <2>4. Succ(S, x, u)
    BY <1>9, <2>1, <2>2, <2>3 DEF Succ
  <2>5. Nx(S, x) = u
    BY <1>11, <2>1, <2>4
  <2> QED  BY <1>13, <2>5
<1>14. ASSUME x # c, ~(c = u /\ x = q)  PROVE Nx(S, x) = Nx(F, x)
  <2> DEFINE n == Nx(F, x)
  <2>1. (x \in F \cup {0} /\ x # y) \/ x = 0
    <3>1. x \in S \cup {0}
      BY DEF S
    <3> QED  BY <1>8, <1>14, <3>1
  <2>2. x \in Int /\ x \in Nat /\ x # u
    <3>1. CASE x \in F
      BY <1>1, <3>1
    <3>2. CASE x = 0
      BY <1>9, <3>2
    <3> QED  BY <2>1, <3>1, <3>2
  <2>3. Succ(F, x, n)
    BY <1>5, <2>1
  <2> HIDE DEF n
  <2>4. n # 0 => n \in F /\ n > x /\ n \in Nat /\ \A w \in F : w <= x \/ w >= n
    BY <1>1, <2>3 DEF Succ
  <2>5. n # 0 => n # y
    <3> SUFFICES ASSUME n # 0, n = y  PROVE FALSE
      OBVIOUS
    <3>1. y \in F /\ y > u /\ Nx(F, u) = y /\ x < y
      BY <1>2, <1>3, <2>4
    <3>2. Succ(F, u, y)
      BY <1>5, <3>1
    <3>3. x < u
      <4>1. x \in F => x <= u \/ x >= y
        BY <3>1, <3>2 DEF Succ
      <4> QED  BY <1>3, <1>9, <2>1, <2>2, <3>1, <4>1
    <3>4. x = q
      <4>1. q # 0 => q <= x \/ q >= y
        BY <1>4, <2>4
      <4>2. q # 0 => q < y /\ q \in Nat
        BY <1>1, <1>3, <1>4, <1>9, <3>1
      <4>3. x # 0 => x <= q /\ q # 0
        BY <1>1, <1>4, <1>9, <2>1, <2>2, <3>3
      <4>4. q \in Nat
        BY <1>1, <1>4
      <4> QED  BY <1>3, <2>2, <4>1, <4>2, <4>3, <4>4
    <3>5. c # u
      BY <1>14, <3>4
    <3> QED  BY <1>2, <1>6, <1>14, <3>4, <3>5
  <2>6. n # 0 => n \in S
    BY <1>8, <2>4, <2>5
  <2>7. ASSUME c = u  PROVE u <= x \/ (n # 0 /\ u >= n)
    <3> SUFFICES ASSUME x < u  PROVE n # 0 /\ u >= n
      BY <1>9, <2>2
    <3>1. x # q
      BY <1>14, <2>7
    <3>2. q # 0 /\ q \in F /\ q < u /\ x <= q /\ q \in Nat
      BY <1>1, <1>4, <1>9, <2>1, <2>2, <3>1
    <3>3. q <= x \/ (n # 0 /\ q >= n)
      BY <2>3, <3>2 DEF Succ
    <3>4. n # 0 /\ q >= n
      BY <2>2, <3>1, <3>2, <3>3
    <3> QED  BY <1>9, <2>4, <3>2, <3>4
  <2>8. ASSUME NEW w \in S  PROVE w <= x \/ (n # 0 /\ w >= n)
    <3>1. CASE w \in F
      BY <2>3, <3>1 DEF Succ
    <3>2. CASE w \notin F
      <4>1. w = c /\ c = u
        BY <1>6, <1>8, <3>2
      <4> QED  BY <2>7, <4>1
    <3> QED  BY <3>1, <3>2
  <2>9. Succ(S, x, n)
    BY <2>4, <2>6, <2>8 DEF Succ
  <2>10. Nx(S, x) = n
    BY <1>11, <2>2, <2>9
  <2> QED  BY <1>14, <2>10 DEF n
<1> QED  BY <1>12, <1>13, <1>14 DEF LinkLeft, c, l, q, S

(* Block headers lie apart.                                                *)
HeadsApart(B) ==
  \A x, y \in B :
    /\ x # y + 1 /\ x # y + 2 /\ x + 1 # y /\ x + 1 # y + 2 /\ x + 2 # y /\ x + 2 # y + 1
    /\ x + 1 = y + 1 => x = y
    /\ x + 2 = y + 2 => x = y

LEMMA Apart ==
  ASSUME NEW h, NEW H \in Buffers, NEW B, NEW F, HeapIs(h, H, B, F)
  PROVE  HeadsApart(B)
<1>1. ASSUME NEW x \in B
      PROVE  /\ x \in Nat /\ EndOf(B, x) >= x + 3 /\ EndOf(B, x) \in Nat
             /\ \A y \in B : y > x => y >= EndOf(B, x)
  BY Neighbours DEF Around
<1>2. ASSUME NEW x \in B, NEW y \in B, y > x  PROVE y >= x + 3
  <2> DEFINE e == EndOf(B, x)
  <2>1. e >= x + 3 /\ e \in Nat /\ y >= e /\ x \in Nat /\ y \in Nat
    BY <1>1, <1>2
  <2> HIDE DEF e
  <2> QED  BY <2>1
<1>3. ASSUME NEW x \in B, NEW y \in B
      PROVE  /\ x # y + 1 /\ x # y + 2 /\ x + 1 # y /\ x + 1 # y + 2
             /\ x + 2 # y /\ x + 2 # y + 1
             /\ x + 1 = y + 1 => x = y
             /\ x + 2 = y + 2 => x = y
  <2>1. x \in Nat /\ y \in Nat /\ (y > x => y >= x + 3) /\ (x > y => x >= y + 3)
    BY <1>1, <1>2
  <2> QED  BY <2>1
<1> QED  BY <1>3 DEF HeadsApart

(* What CoKfree() writes.                                                  *)
Freed(r, h, B, F, u) ==
  LET c == Joint(B, F, u)
      o == Ahead(B, F, u)
      z == Behind(B, F, u)
      q == Px(F, u)
  IN  /\ r = [mem |-> r.mem, FMBlist |-> r.FMBlist]
      /\ r.FMBlist = IF q = 0 THEN u ELSE h.FMBlist
      /\ r.mem = [a \in Address |-> r.mem[a]]
      /\ \A a \in Address :
           r.mem[a] = IF a = c THEN LinkTo(B, F, u)
                      ELSE IF a = c + 1 THEN - z
                      ELSE IF a = c + 2 THEN - o
                      ELSE IF Px(B, u) \notin F /\ q # 0 /\ a = q THEN u
                      ELSE IF o # 0 /\ a = o THEN c
                      ELSE IF z # 0 /\ a = 1 + z THEN c
                      ELSE h.mem[a]

LEMMA ReleaseWords ==
  ASSUME NEW h, NEW H \in Buffers, NEW B, NEW F, HeapIs(h, H, B, F), NEW u \in B, u \notin F
  PROVE  Freed(Release(h, u), h, B, F, u)
<1> DEFINE y == Nx(B, u)
           p == Px(B, u)
           q == Px(F, u)
           c == Joint(B, F, u)
           o == Ahead(B, F, u)
           z == Behind(B, F, u)
           l == LinkTo(B, F, u)
           next == h.mem[u]
           pre == h.mem[u + 1]
           before == IF pre < 0 THEN GetPreFMB(h, u) ELSE pre
           nextFMB == IF before = 0 THEN h.FMBlist ELSE h.mem[before]
           joined == IF pre < 0 THEN nextFMB ELSE next
           cur == IF pre > 0 THEN pre ELSE u
           link == IF next < 0 THEN nextFMB ELSE IF joined = 0 THEN 0 ELSE h.mem[joined]
           nextUMB == IF next < 0 THEN next ELSE IF joined = 0 THEN 0 ELSE h.mem[joined + 1]
           preUMB == IF pre > 0 THEN h.mem[pre + 2] ELSE pre
           word(a) == IF a = cur THEN link
                      ELSE IF a = cur + 1 THEN nextUMB
                      ELSE IF a = cur + 2 THEN preUMB
                      ELSE IF pre < 0 /\ a = before THEN u
                      ELSE IF a = - preUMB THEN cur
                      ELSE IF nextUMB # 0 /\ a = 1 - nextUMB THEN cur
                      ELSE h.mem[a]
           r == Release(h, u)
<1>1. r = [mem |-> [a \in Address |-> word(a)], FMBlist |-> IF before = 0 THEN u ELSE h.FMBlist]
  BY DEF Release
<1>2. /\ F \subseteq B /\ 0 \notin B /\ B \in SUBSET Address /\ F \in SUBSET Address
      /\ \A w \in B : w \in Nat /\ w \in Int /\ w >= 1 /\ Header(h.mem, B, F, w)
      /\ h.FMBlist = Nx(F, 0) /\ 0 \in Int
  BY HeapAssumption DEF HeapIs, Address
<1>3. /\ p \in Nat /\ y \in Nat /\ (p # 0 => p \in B) /\ (y # 0 => y \in B)
      /\ p \in F => Px(B, p) \in Nat
      /\ y \in F => Nx(B, y) \in Nat
      /\ \A w \in B : w + 1 \in Address /\ w + 2 \in Address
  <2>1. \A v \in B : Around(B, F, v)
    BY Neighbours
  <2> QED  BY <1>2, <2>1 DEF Around
<1>4. /\ p \in F \/ p = 0 => q = p
      /\ y \in F \/ y = 0 => Nx(F, u) = y
  BY FreeAround
<1>5. next = Reference(F, y) /\ pre = Reference(F, p)
  BY <1>2 DEF Header
<1>6. /\ q \in F \cup {0} /\ q \in Int
      /\ q = 0 => \A w \in F : w >= u
      /\ q # 0 => q \in F /\ q < u /\ \A w \in F : w >= u \/ w <= q
  BY <1>2, PrevIs
<1>7. /\ c = IF p \in F THEN p ELSE u
      /\ o = IF p \in F THEN Px(B, p) ELSE p
      /\ z = IF y \in F THEN Nx(B, y) ELSE y
      /\ l = IF y \in F THEN Nx(F, y) ELSE Nx(F, u)
  BY DEF Joint, Ahead, Behind, LinkTo
<1>8. /\ c \in B /\ o \in Nat /\ (o # 0 => o \in B) /\ z \in Nat /\ (z # 0 => z \in B)
  BY JoinFacts DEF Joins
<1>9. before = q
  <2>1. GetPreFMB(h, u) = q
    BY GetPreFMBIs
  <2> HIDE DEF q, p, pre
  <2>2. pre < 0 \/ pre = q
    <3>1. CASE p \in F
      BY <1>4, <1>5, <3>1 DEF Reference
    <3>2. CASE p = 0
      <4>1. - 0 = 0
        BY MinusZero
      <4>2. q = 0 /\ pre = Reference(F, 0)
        BY <1>4, <1>5, <3>2
      <4> QED  BY <4>1, <4>2 DEF Reference
    <3>3. CASE p # 0 /\ p \notin F
      BY <1>3, <1>5, <3>3 DEF Reference
    <3> QED  BY <3>1, <3>2, <3>3
  <2> QED  BY <2>1, <2>2
<1>10. nextFMB = Nx(F, u)
  <2>1. CASE q = 0
    <3> DEFINE n == Nx(F, u)
    <3>1. Succ(F, u, n)
      BY <1>2, NextSucc
    <3> HIDE DEF n
    <3>2. \A w \in F : w > u
      BY <1>2, <1>6, <2>1
    <3>3. n = 0 => F = {}
      BY <1>2, <3>1, <3>2 DEF Succ
    <3>4. n # 0 => n \in F /\ n > 0 /\ \A w \in F : w >= n
      BY <1>2, <3>1, <3>2 DEF Succ
    <3>5. Succ(F, 0, n)
      BY <1>2, <3>3, <3>4 DEF Succ
    <3>6. n = Nx(F, 0)
      BY <1>2, <3>5, NextIs
    <3>7. nextFMB = h.FMBlist
      BY <1>9, <2>1
    <3> QED  BY <1>2, <3>6, <3>7 DEF n
  <2>2. CASE q # 0
    <3>1. nextFMB = h.mem[q]
      BY <1>9, <2>2
    <3>2. q \in F /\ q \in B
      BY <1>2, <1>6, <2>2
    <3>3. h.mem[q] = Nx(F, q)
      BY <1>2, <3>2 DEF Header
    <3> DEFINE n == Nx(F, u)
    <3>4. Succ(F, u, n)
      BY <1>2, NextSucc
    <3> HIDE DEF n
    <3>5. \A w \in F : w # u
      OBVIOUS
    <3>6. Succ(F, q, n)
      <4>1. \A w \in F : w <= q \/ w > u
        BY <1>2, <1>6, <2>2, <3>5
      <4>2. n # 0 => n \in F /\ n > u /\ n > q
        BY <1>2, <1>6, <2>2, <3>4 DEF Succ
      <4>3. \A w \in F : w > u => n # 0 /\ w >= n
        BY <1>2, <3>4 DEF Succ
      <4> QED  BY <2>2, <4>1, <4>2, <4>3 DEF Succ
    <3>7. n = Nx(F, q)
      BY <1>2, <1>6, <3>6, NextIs
    <3> QED  BY <3>1, <3>3, <3>7 DEF n
  <2> QED  BY <2>1, <2>2
<1> DEFINE w1 == Nx(F, u)
<1>11. /\ y \in F => h.mem[y] = Nx(F, y) /\ h.mem[y + 1] = - Nx(B, y)
       /\ p \in F => h.mem[p + 2] = - Px(B, p)
  BY <1>2 DEF Header
<1> HIDE DEF y, p, q, c, o, z, l, next, pre, before, nextFMB
<1>12. (pre > 0 <=> p \in F) /\ (pre < 0 <=> p # 0 /\ p \notin F) /\ (p \in F => pre = p)
       /\ (p \notin F => pre = - p)
  BY <1>2, <1>3, <1>5 DEF Reference
<1>13. (next < 0 <=> y # 0 /\ y \notin F) /\ (y \in F => next = y) /\ (y \notin F => next = - y)
  BY <1>2, <1>3, <1>5 DEF Reference
<1>14. ~(next < 0) => joined = y
  <2>1. CASE y \in F \/ y = 0
    <3>1. next = y
      BY <1>3, <1>13, <2>1
    <3>2. nextFMB = y
      BY <1>4, <1>10, <2>1 DEF y
    <3> QED  BY <3>1, <3>2
  <2>2. CASE y \notin F /\ y # 0
    BY <1>13, <2>2
  <2> QED  BY <2>1, <2>2
<1> HIDE DEF joined
<1>15. cur = c
  BY <1>7, <1>12
<1>16. preUMB = - o
  BY <1>7, <1>11, <1>12
<1>17. nextUMB = - z
  <2>1. CASE y \in F
    <3>1. next = y /\ ~(next < 0) /\ y # 0 /\ joined = y
      BY <1>2, <1>13, <1>14, <2>1
    <3>2. nextUMB = h.mem[y + 1]
      BY <3>1
    <3> QED  BY <1>7, <1>11, <2>1, <3>2
  <2>2. CASE y = 0
    <3>1. ~(next < 0) /\ joined = 0 /\ y \notin F
      BY <1>2, <1>13, <1>14, <2>2
    <3>2. nextUMB = 0
      BY <3>1
    <3>3. z = 0 /\ - 0 = 0
      BY <1>7, <2>2, <3>1, MinusZero
    <3> QED  BY <3>2, <3>3
  <2>3. CASE y # 0 /\ y \notin F
    BY <1>7, <1>13, <2>3
  <2> QED  BY <2>1, <2>2, <2>3
<1>18. link = l
  <2>1. CASE y \in F
    <3>1. next = y /\ ~(next < 0) /\ y # 0 /\ joined = y
      BY <1>2, <1>13, <1>14, <2>1
    <3>2. link = h.mem[y]
      BY <3>1
    <3> QED  BY <1>7, <1>11, <2>1, <3>2
  <2>2. CASE y = 0
    <3>1. ~(next < 0) /\ joined = 0 /\ y \notin F
      BY <1>2, <1>13, <1>14, <2>2
    <3>2. link = 0
      BY <3>1
    <3> QED  BY <1>4, <1>7, <2>2, <3>1, <3>2
  <2>3. CASE y # 0 /\ y \notin F
    BY <1>7, <1>10, <1>13, <2>3
  <2> QED  BY <2>1, <2>2, <2>3
<1> HIDE DEF cur, preUMB, nextUMB, link
<1>19. ASSUME NEW a \in Address
       PROVE  word(a) = IF a = c THEN l
                        ELSE IF a = c + 1 THEN - z
                        ELSE IF a = c + 2 THEN - o
                        ELSE IF p \notin F /\ q # 0 /\ a = q THEN u
                        ELSE IF o # 0 /\ a = o THEN c
                        ELSE IF z # 0 /\ a = 1 + z THEN c
                        ELSE h.mem[a]
  <2>1. a # 0
    BY DEF Address
  <2>2. (pre < 0 /\ a = before) <=> (p \notin F /\ q # 0 /\ a = q)
    BY <1>4, <1>9, <1>12, <2>1
  <2>3. a = - preUMB <=> (o # 0 /\ a = o)
    <3>1. - preUMB = o
      BY <1>8, <1>16
    <3> QED  BY <2>1, <3>1
  <2>4. (nextUMB # 0 /\ a = 1 - nextUMB) <=> (z # 0 /\ a = 1 + z)
    <3>1. (nextUMB # 0 <=> z # 0) /\ 1 - nextUMB = 1 + z
      BY <1>8, <1>17
    <3> QED  BY <3>1
  <2> QED  BY <1>15, <1>16, <1>17, <1>18, <2>2, <2>3, <2>4
<1> HIDE DEF word
<1>20. \A a \in Address : r.mem[a] = word(a)
  BY <1>1
<1>21. r.mem = [a \in Address |-> r.mem[a]] /\ r = [mem |-> r.mem, FMBlist |-> r.FMBlist]
  BY <1>1
<1>22. r.FMBlist = IF q = 0 THEN u ELSE h.FMBlist
  BY <1>1, <1>9
<1> HIDE DEF r
<1>23. Freed(r, h, B, F, u)
  BY <1>19, <1>20, <1>21, <1>22 DEF Freed, c, o, z, q, p, l
<1> QED  BY <1>23 DEF r

(* CoKfree() leaves the heap a heap, without the block of the buffer.      *)
LEMMA ReleaseIs ==
  ASSUME NEW h, NEW H \in Buffers, NEW B, NEW F, HeapIs(h, H, B, F), NEW u \in B, u \notin F,
         NEW b \in H, b[1] = u + UsedHead
  PROVE  HeapIs(Release(h, u), H \ {b}, BlocksLeft(B, F, u), FreeLeft(B, F, u))
<1> DEFINE r == Release(h, u)
           c == Joint(B, F, u)
           o == Ahead(B, F, u)
           z == Behind(B, F, u)
           l == LinkTo(B, F, u)
           q == Px(F, u)
           p == Px(B, u)
           y == Nx(B, u)
           S == BlocksLeft(B, F, u)
           T == FreeLeft(B, F, u)
<1>1. /\ F \subseteq B /\ 0 \notin B /\ B \in SUBSET Address /\ F \in SUBSET Address
      /\ \A w \in B : w \in Nat /\ w \in Int /\ w >= 1 /\ w \in Address /\ Header(h.mem, B, F, w)
      /\ h.FMBlist = Nx(F, 0) /\ 0 \in Int
      /\ \A w \in F : Nx(B, w) \notin F /\ EndOf(B, w) - w >= FreeHead
      /\ \A w \in B : w \notin F => \E b1 \in H : b1[1] = w + UsedHead /\ b1[1] + b1[2] <= EndOf(B, w)
      /\ \A b1 \in H : b1[1] - UsedHead \in B /\ b1[1] - UsedHead \notin F
      /\ \A b1, b2 \in H : b1[1] = b2[1] => b1 = b2
  BY HeapAssumption DEF HeapIs, Address
<1>2. /\ c \in B /\ c \in Nat /\ o \in Nat /\ o \notin F /\ o = Px(B, c)
      /\ o # 0 => o \in B /\ o # u
      /\ z \in Nat /\ z \notin F /\ (z # 0 => z \in B /\ z > u /\ z > c)
      /\ \A x \in B : x <= c \/ x = u \/ (x = y /\ x \in F) \/ (z # 0 /\ x >= z)
      /\ c <= u
  BY JoinFacts DEF Joins
<1>3. /\ S \subseteq B /\ 1 \in S /\ T \subseteq S
      /\ \A x \in S : /\ Nx(S, x) = IF x = c THEN z ELSE Nx(B, x)
                      /\ Px(S, x) = IF x = z THEN c ELSE Px(B, x)
  BY BlocksAfter
<1>4. ASSUME NEW x \in T \cup {0}
      PROVE  Nx(T, x) = IF x = c THEN l ELSE IF c = u /\ x = q THEN u ELSE Nx(F, x)
  BY FreeAfter DEF LinkLeft
<1>5. /\ r.FMBlist = IF q = 0 THEN u ELSE h.FMBlist
      /\ \A a \in Address :
           r.mem[a] = IF a = c THEN l
                      ELSE IF a = c + 1 THEN - z
                      ELSE IF a = c + 2 THEN - o
                      ELSE IF p \notin F /\ q # 0 /\ a = q THEN u
                      ELSE IF o # 0 /\ a = o THEN c
                      ELSE IF z # 0 /\ a = 1 + z THEN c
                      ELSE h.mem[a]
  <2>1. Freed(r, h, B, F, u)
    BY ReleaseWords
  <2> HIDE DEF r
  <2> QED  BY <2>1 DEF Freed
<1>6. ASSUME NEW x \in B
      PROVE  /\ x + 1 \in Address /\ x + 2 \in Address
             /\ Px(B, x) \in Nat /\ Nx(B, x) \in Nat
             /\ Px(B, x) # 0 => Px(B, x) \in B /\ Nx(B, Px(B, x)) = x
             /\ Nx(B, x) # 0 => Nx(B, x) \in B /\ Px(B, Nx(B, x)) = x
             /\ EndOf(B, x) \in Nat /\ EndOf(B, x) >= x + 3 /\ EndOf(B, x) <= HeapSize + 1
             /\ \A w \in B : w > x => w >= EndOf(B, x)
  <2>1. \A v \in B : Around(B, F, v)
    BY Neighbours
  <2> QED  BY <2>1 DEF Around
<1>7. /\ (p \in F => c = p) /\ (p \notin F => c = u)
      /\ (y \in F => z = Nx(B, y)) /\ (y \notin F => z = y)
  BY DEF Joint, Behind
<1>8. \A x : x \in S <=> x \in B /\ (x = u => c = u) /\ (x = y => x \notin F)
  BY DEF BlocksLeft
<1>9. \A x : x \in T <=> (x \in F /\ x # y) \/ x = c
  BY DEF FreeLeft
<1>10. /\ p \in F \/ p = 0 => q = p
       /\ q \in F \cup {0}
  <2>1. u \in Int
    BY <1>1
  <2>2. q \in F \cup {0}
    BY <1>1, <2>1, PrevIs
  <2> QED  BY <2>2, FreeAround
<1>11. HeadsApart(B)
  BY Apart
<1>12. y # 0 => Px(B, y) = u
  BY <1>6
<1>13. p # 0 => Nx(B, p) = u
  BY <1>6
<1> HIDE DEF r, c, o, z, l, q, p, y, S, T
(* the words of a header                                                   *)
<1>14. ASSUME NEW x \in B
       PROVE  /\ r.mem[x] = IF x = c THEN l
                            ELSE IF p \notin F /\ q # 0 /\ x = q THEN u
                            ELSE IF o # 0 /\ x = o THEN c
                            ELSE h.mem[x]
              /\ r.mem[x + 1] = IF x = c THEN - z ELSE IF z # 0 /\ x = z THEN c ELSE h.mem[x + 1]
              /\ r.mem[x + 2] = IF x = c THEN - o ELSE h.mem[x + 2]
  <2>2. ASSUME NEW w \in B
        PROVE  /\ x # w + 1 /\ x # w + 2 /\ x # 1 + w
               /\ x + 1 # w /\ x + 1 # w + 2 /\ (x + 1 = w + 1 => x = w)
               /\ (x + 1 = 1 + w => x = w)
               /\ x + 2 # w /\ x + 2 # w + 1 /\ x + 2 # 1 + w /\ (x + 2 = w + 2 => x = w)
    <3>1. 1 + w = w + 1
      BY <1>1
    <3> QED  BY <1>11, <3>1 DEF HeadsApart
  <2>3. q # 0 => q \in B
    BY <1>1, <1>10
  <2>4. x \in Address /\ x + 1 \in Address /\ x + 2 \in Address
    BY <1>1, <1>6
  <2>5. r.mem[x] = IF x = c THEN l
                   ELSE IF p \notin F /\ q # 0 /\ x = q THEN u
                   ELSE IF o # 0 /\ x = o THEN c
                   ELSE h.mem[x]
    <3>1. x # c + 1 /\ x # c + 2 /\ (z # 0 => x # 1 + z)
      BY <1>2, <2>2
    <3> QED  BY <1>5, <2>4, <3>1
  <2>6. r.mem[x + 1] = IF x = c THEN - z ELSE IF z # 0 /\ x = z THEN c ELSE h.mem[x + 1]
    <3>1. x + 1 # c /\ x + 1 # c + 2 /\ (q # 0 => x + 1 # q) /\ (o # 0 => x + 1 # o)
      BY <1>2, <2>2, <2>3
    <3>2. (x + 1 = c + 1 <=> x = c) /\ (z # 0 => (x + 1 = 1 + z <=> x = z))
      BY <1>1, <1>2
    <3> QED  BY <1>5, <2>4, <3>1, <3>2
  <2>7. r.mem[x + 2] = IF x = c THEN - o ELSE h.mem[x + 2]
    <3>1. /\ x + 2 # c /\ x + 2 # c + 1 /\ (q # 0 => x + 2 # q) /\ (o # 0 => x + 2 # o)
          /\ z # 0 => x + 2 # 1 + z
      BY <1>2, <2>2, <2>3
    <3>2. x + 2 = c + 2 <=> x = c
      BY <1>1, <1>2
    <3> QED  BY <1>5, <2>4, <3>1, <3>2
  <2> QED  BY <2>5, <2>6, <2>7
<1>15. c \in T /\ c \in S
  BY <1>3, <1>9
<1>16. z \notin T /\ o \notin T
  BY <1>1, <1>2, <1>7, <1>9
<1>17. ASSUME NEW x \in S, x # c  PROVE Header(r.mem, S, T, x)
  <2>1. /\ x \in B /\ x # u /\ x # 0 /\ (x = y => x \notin F) /\ x \in Nat
        /\ Nx(S, x) = Nx(B, x) /\ Px(S, x) = IF x = z THEN c ELSE Px(B, x)
    <3>1. x \in B /\ (x = u => c = u) /\ (x = y => x \notin F)
      BY <1>8
    <3> QED  BY <1>1, <1>3, <1>17, <3>1
  <2>2. x \in T <=> x \in F
    BY <1>9, <1>17, <2>1
  <2>3. Header(h.mem, B, F, x)
    BY <1>1, <2>1
  <2>4. CASE x \in F
    <3>1. x # o /\ x # z /\ x \in T
      BY <1>2, <2>2, <2>4
    <3>2. h.mem[x] = Nx(F, x) /\ h.mem[x + 1] = - Nx(B, x) /\ h.mem[x + 2] = - Px(B, x)
      BY <2>3, <2>4 DEF Header
    <3>3. r.mem[x + 1] = - Nx(S, x) /\ r.mem[x + 2] = - Px(S, x)
      BY <1>14, <1>17, <2>1, <3>1, <3>2
    <3>4. r.mem[x] = Nx(T, x)
      <4>1. r.mem[x] = IF p \notin F /\ x = q THEN u ELSE Nx(F, x)
        BY <1>14, <1>17, <2>1, <3>1, <3>2
      <4>2. Nx(T, x) = IF c = u /\ x = q THEN u ELSE Nx(F, x)
        BY <1>4, <1>17, <3>1
      <4>3. c = u <=> p \notin F
        BY <1>7
      <4> QED  BY <4>1, <4>2, <4>3
    <3> QED  BY <3>1, <3>3, <3>4 DEF Header
  <2>5. CASE x \notin F
    <3>1. x \notin T /\ (q # 0 => x # q)
      BY <1>10, <2>2, <2>5
    <3>2. h.mem[x] = Reference(F, Nx(B, x)) /\ h.mem[x + 1] = Reference(F, Px(B, x))
      BY <2>3, <2>5 DEF Header
    <3>3. r.mem[x] = Reference(T, Nx(S, x))
      <4>1. CASE x = o
        <5>1. r.mem[x] = c
          BY <1>14, <1>17, <2>1, <3>1, <4>1
        <5>2. Nx(B, x) = c
          <6>1. Px(B, c) # 0
            BY <1>2, <2>1, <4>1
          <6> QED  BY <1>2, <1>6, <4>1, <6>1
        <5>3. Reference(T, c) = c
          BY <1>15 DEF Reference
        <5> QED  BY <2>1, <5>1, <5>2, <5>3
      <4>2. CASE x # o
        <5> DEFINE n == Nx(B, x)
        <5>1. r.mem[x] = Reference(F, n)
          BY <1>14, <1>17, <2>1, <3>1, <3>2, <4>2
        <5>2. n # c
          BY <1>1, <1>2, <1>6, <2>1, <4>2
        <5>3. n = y => n \notin F
          BY <1>1, <1>6, <1>12, <2>1
        <5>4. Nx(S, x) = n
          BY <2>1
        <5> HIDE DEF n
        <5>5. n \in T <=> n \in F
          BY <1>9, <5>2, <5>3
        <5> QED  BY <5>1, <5>4, <5>5 DEF Reference
      <4> QED  BY <4>1, <4>2
    <3>4. r.mem[x + 1] = Reference(T, Px(S, x))
      <4>1. CASE x = z
        <5>1. r.mem[x + 1] = c
          BY <1>14, <1>17, <2>1, <4>1
        <5>2. Reference(T, c) = c
          BY <1>15 DEF Reference
        <5> QED  BY <2>1, <4>1, <5>1, <5>2
      <4>2. CASE x # z
        <5> DEFINE n == Px(B, x)
        <5>1. r.mem[x + 1] = Reference(F, n)
          BY <1>14, <1>17, <2>1, <3>2, <4>2
        <5>2. n = c => n \in F
          <6>1. ASSUME n = c, n \notin F  PROVE FALSE
            <7>1. n = u
              BY <1>7, <6>1
            <7>2. x = y
              BY <1>1, <1>6, <2>1, <7>1 DEF y
            <7> QED  BY <1>7, <2>5, <4>2, <7>2
          <6> QED  BY <6>1
        <5>3. n = y => n \notin F
          <6>1. ASSUME n = y, n \in F  PROVE FALSE
            <7>1. x = Nx(B, y)
              BY <1>1, <1>6, <2>1, <6>1
            <7> QED  BY <1>7, <4>2, <6>1, <7>1
          <6> QED  BY <6>1
        <5>4. Px(S, x) = n
          BY <2>1, <4>2
        <5> HIDE DEF n
        <5>5. n \in T <=> n \in F
          BY <1>9, <5>2, <5>3
        <5> QED  BY <5>1, <5>4, <5>5 DEF Reference
      <4> QED  BY <4>1, <4>2
    <3> QED  BY <3>1, <3>3, <3>4 DEF Header
  <2> QED  BY <2>4, <2>5
<1>18. Header(r.mem, S, T, c)
  <2>1. Nx(S, c) = z /\ Px(S, c) = o
    <3>1. c # z
      BY <1>2, <1>1
    <3> QED  BY <1>2, <1>3, <1>15, <3>1
  <2>2. Nx(T, c) = l
    BY <1>4, <1>15
  <2>3. r.mem[c] = l /\ r.mem[c + 1] = - z /\ r.mem[c + 2] = - o
    BY <1>2, <1>14
  <2> QED  BY <1>15, <2>1, <2>2, <2>3 DEF Header
<1>19. r.FMBlist = Nx(T, 0)
  <2>1. Nx(T, 0) = IF c = u /\ 0 = q THEN u ELSE Nx(F, 0)
    <3>1. c # 0
      BY <1>1, <1>2
    <3> QED  BY <1>4, <3>1
  <2>2. q = 0 => c = u
    BY <1>1, <1>7, <1>10
  <2> QED  BY <1>1, <1>5, <2>1, <2>2
<1>20. ASSUME NEW x \in S
       PROVE  EndOf(S, x) = IF x = c THEN (IF z = 0 THEN HeapSize + 1 ELSE z) ELSE EndOf(B, x)
  BY <1>3 DEF EndOf
<1>21. ASSUME NEW x \in T  PROVE Nx(S, x) \notin T /\ EndOf(S, x) - x >= FreeHead
  <2>1. x \in S /\ x \in B
    BY <1>3
  <2>2. CASE x = c
    <3>1. Nx(S, x) \notin T
      BY <1>3, <1>16, <2>1, <2>2
    <3>2. EndOf(S, x) = IF z = 0 THEN HeapSize + 1 ELSE z
      BY <1>20, <2>1, <2>2
    <3> DEFINE e == EndOf(B, c)
    <3>3. e \in Nat /\ e >= c + 3 /\ e <= HeapSize + 1 /\ (z # 0 => z >= e) /\ HeapSize \in Nat
      BY <1>2, <1>6, HeapAssumption
    <3> HIDE DEF e
    <3>4. EndOf(S, x) - x >= 3
      BY <1>2, <2>2, <3>2, <3>3
    <3> QED  BY <3>1, <3>4 DEF FreeHead
  <2>3. CASE x # c
    <3>1. x \in F /\ x # y
      BY <1>9, <2>3
    <3>2. Nx(S, x) = Nx(B, x) /\ EndOf(S, x) = EndOf(B, x)
      BY <1>3, <1>20, <2>1, <2>3
    <3>3. Nx(B, x) \notin F /\ EndOf(B, x) - x >= FreeHead
      BY <1>1, <3>1
    <3>4. Nx(B, x) # c
      <4>1. ASSUME Nx(B, x) = c  PROVE FALSE
        <5>1. x = o
          BY <1>1, <1>2, <1>6, <2>1, <4>1
        <5> QED  BY <1>2, <3>1, <5>1
      <4> QED  BY <4>1
    <3>5. Nx(B, x) \notin T
      BY <1>9, <3>3, <3>4
    <3> QED  BY <3>2, <3>3, <3>5
  <2> QED  BY <2>2, <2>3
<1>22. ASSUME NEW x \in S, x \notin T
       PROVE  \E b1 \in H \ {b} : b1[1] = x + UsedHead /\ b1[1] + b1[2] <= EndOf(S, x)
  <2>1. x \in B /\ x \notin F /\ x # c /\ x # u
    BY <1>8, <1>9, <1>22
  <2>2. PICK b1 \in H : b1[1] = x + UsedHead /\ b1[1] + b1[2] <= EndOf(B, x)
    BY <1>1, <2>1
  <2>3. b1 # b
    <3>1. x \in Nat /\ u \in Nat
      BY <1>1, <2>1
    <3>2. x + UsedHead # u + UsedHead
      BY <2>1, <3>1 DEF UsedHead
    <3> QED  BY <2>2, <3>2
  <2>4. EndOf(S, x) = EndOf(B, x)
    BY <1>20, <2>1
  <2> QED  BY <2>2, <2>3, <2>4
<1>23. ASSUME NEW b1 \in H \ {b}  PROVE b1[1] - UsedHead \in S /\ b1[1] - UsedHead \notin T
  <2> DEFINE w == b1[1] - UsedHead
  <2>1. w \in B /\ w \notin F
    BY <1>1
  <2>2. w # u
    <3>1. b1[1] # b[1]
      BY <1>1, <1>23
    <3>2. b1[1] \in Nat /\ u \in Nat
      BY <1>1, BufferFacts
    <3> QED  BY <3>1, <3>2 DEF UsedHead
  <2> HIDE DEF w
  <2>3. w # c
    BY <1>7, <2>1, <2>2
  <2>4. w \in S /\ w \notin T
    BY <1>8, <1>9, <2>1, <2>2, <2>3
  <2> QED  BY <2>4 DEF w
<1>24. S \subseteq Address
  BY <1>1, <1>3
<1>25. \A b1, b2 \in H \ {b} : b1[1] = b2[1] => b1 = b2
  BY <1>1
<1>26. \A x \in S : Header(r.mem, S, T, x)
  BY <1>17, <1>18
<1>27. HeapIs(r, H \ {b}, S, T)
  BY <1>3, <1>19, <1>21, <1>22, <1>23, <1>24, <1>25, <1>26 DEF HeapIs
<1> QED  BY <1>27 DEF r, S, T

LEMMA KfreeKeepsHeap ==
  ASSUME HeapInv, NEW b \in held, CoKfree(b)
  PROVE  HeapInv'
<1>1. PICK B, F \in SUBSET Address : HeapIs(heap, held, B, F)
  BY DEF HeapInv
<1>2. HeapTypeOK /\ held \in Buffers /\ heap.mem \in [Address -> Int]
      /\ heap.FMBlist \in {0} \cup Address
  BY DEF HeapInv, HeapTypeOK, Buffers
<1> DEFINE u == b[1] - UsedHead
           r == Release(heap, u)
<1>3. u \in B /\ u \notin F /\ b[1] = u + UsedHead /\ b[1] \in Nat
  <2>1. b[1] \in Nat
    BY <1>2, BufferFacts
  <2>2. u \in B /\ u \notin F
    BY <1>1 DEF HeapIs
  <2>3. b[1] = (b[1] - UsedHead) + UsedHead
    BY <2>1 DEF UsedHead
  <2> QED  BY <2>1, <2>2, <2>3
<1>4. heap' = r /\ held' = held \ {b}
  <2>1. IsBlock(heap, u)
    <3> HIDE DEF u
    <3> QED  BY <1>1, <1>2, <1>3, IsBlockTrue
  <2> QED  BY <2>1 DEF CoKfree
<1> DEFINE S == BlocksLeft(B, F, u)
           T == FreeLeft(B, F, u)
<1> HIDE DEF u
<1>5. HeapIs(r, held \ {b}, S, T)
  BY <1>1, <1>2, <1>3, ReleaseIs
<1>6. S \in SUBSET Address /\ T \in SUBSET Address
  BY <1>5 DEF HeapIs
<1>7. r \in [mem : [Address -> Int], FMBlist : {0} \cup Address]
  <2> DEFINE c == Joint(B, F, u)
             o == Ahead(B, F, u)
             z == Behind(B, F, u)
             q == Px(F, u)
             l == LinkTo(B, F, u)
  <2>1. /\ r = [mem |-> r.mem, FMBlist |-> r.FMBlist]
        /\ r.FMBlist = IF q = 0 THEN u ELSE heap.FMBlist
        /\ r.mem = [a \in Address |-> r.mem[a]]
        /\ \A a \in Address :
             r.mem[a] = IF a = c THEN l
                        ELSE IF a = c + 1 THEN - z
                        ELSE IF a = c + 2 THEN - o
                        ELSE IF Px(B, u) \notin F /\ q # 0 /\ a = q THEN u
                        ELSE IF o # 0 /\ a = o THEN c
                        ELSE IF z # 0 /\ a = 1 + z THEN c
                        ELSE heap.mem[a]
    BY <1>1, <1>2, <1>3, ReleaseWords DEF Freed
  <2>2. c \in Nat /\ o \in Nat /\ z \in Nat
    BY <1>1, <1>2, <1>3, JoinFacts DEF Joins
  <2>3. l \in Int /\ u \in Int /\ u \in Address
    <3>1. F \in SUBSET Address /\ u \in Address /\ u \in Int /\ \A w \in F : w \in Int
      BY <1>1, <1>3, HeapAssumption DEF HeapIs, Address
    <3> QED  BY <3>1, NextIs DEF LinkTo
  <2> HIDE DEF r, c, o, z, q, l
  <2>4. \A a \in Address : r.mem[a] \in Int
    BY <1>2, <2>1, <2>2, <2>3
  <2>6. r.mem \in [Address -> Int]
    BY <2>1, <2>4
  <2>7. r.FMBlist \in {0} \cup Address
    BY <1>2, <2>1, <2>3
  <2> QED  BY <2>1, <2>6, <2>7
<1> HIDE DEF r, S, T
<1>8. held' \subseteq Address \X Requests
  BY <1>2, <1>4 DEF HeapTypeOK
<1>9. HeapTypeOK'
  BY <1>4, <1>7, <1>8 DEF HeapTypeOK
<1>10. HeapIs(heap', held', S, T)
  BY <1>4, <1>5
<1> QED  BY <1>6, <1>9, <1>10 DEF HeapInv

LEMMA HeapInitial ==
  ASSUME HeapInit
  PROVE  HeapInv
<1> DEFINE B == {1}
<1>0. HeapSize \in Nat /\ HeapSize >= 3 /\ Requests \subseteq Nat \ {0} /\ 1 \in Address
  BY HeapAssumption DEF Address
<1>1. B \in SUBSET Address
  BY <1>0
<1>2. Nx(B, 0) = 1 /\ Nx(B, 1) = 0 /\ Px(B, 1) = 0
  <2>1. Succ(B, 0, 1)
    BY DEF Succ
  <2>2. Succ(B, 1, 0)
    BY DEF Succ
  <2>3. Pred(B, 1, 0)
    BY DEF Pred
  <2>4. 0 \in Int /\ 1 \in Int
    OBVIOUS
  <2> HIDE DEF B
  <2> QED  BY <1>1, <2>1, <2>2, <2>3, <2>4, NextIs, PrevIs
<1>3. heap = [mem |-> [a \in Address |-> 0], FMBlist |-> 1] /\ held = {}
  BY DEF HeapInit
<1>4. 1 \in Address /\ 1 + 1 \in Address /\ 1 + 2 \in Address
  BY <1>0 DEF Address
<1>5. heap.mem[1] = 0 /\ heap.mem[1 + 1] = 0 /\ heap.mem[1 + 2] = 0 /\ heap.FMBlist = 1
  BY <1>3, <1>4
<1>6. Header(heap.mem, B, B, 1)
  BY <1>2, <1>5 DEF Header
<1>7. EndOf(B, 1) - 1 >= FreeHead /\ Nx(B, 1) \notin B
  BY <1>0, <1>2 DEF EndOf, FreeHead
<1>8. HeapIs(heap, held, B, B)
  BY <1>1, <1>2, <1>3, <1>5, <1>6, <1>7 DEF HeapIs
<1>9. HeapTypeOK
  BY <1>0, <1>3 DEF HeapTypeOK
<1> QED  BY <1>1, <1>8, <1>9 DEF HeapInv

LEMMA HeapStutter ==
  ASSUME HeapInv, UNCHANGED <<heap, held>>
  PROVE  HeapInv'
BY DEF HeapInv, HeapTypeOK

(* The words of a buffer lie in its own block, and no header is there.     *)
OwnBlock(B, b) ==
  /\ Words(b) \subseteq Address
  /\ \A x \in B : x \notin Words(b) /\ x + 1 \notin Words(b)
  /\ \A x \in B : x # b[1] - UsedHead => \A a \in x .. EndOf(B, x) - 1 : a \notin Words(b)
  /\ Words(b) \subseteq b[1] - UsedHead .. EndOf(B, b[1] - UsedHead) - 1

LEMMA WordsApart ==
  ASSUME NEW h, NEW H \in Buffers, NEW B, NEW F, HeapIs(h, H, B, F), NEW b \in H
  PROVE  OwnBlock(B, b)
<1> DEFINE w == b[1] - UsedHead
           e == EndOf(B, w)
           k == b[1]
           n == b[2]
<1>1. k \in Nat /\ n \in Nat /\ w \in B /\ HeapSize \in Nat /\ k = w + 2
  <2>1. k \in Nat /\ n \in Nat /\ w \in B /\ HeapSize \in Nat
    BY BufferFacts, HeapAssumption DEF HeapIs
  <2>2. k = (k - 2) + 2 /\ w = k - 2
    BY <2>1 DEF UsedHead
  <2> HIDE DEF k
  <2> QED  BY <2>1, <2>2
<1>2. k + n <= e
  <2>1. w \notin F
    BY DEF HeapIs
  <2>2. PICK c \in H : c[1] = w + UsedHead /\ c[1] + c[2] <= EndOf(B, w)
    BY <1>1, <2>1 DEF HeapIs
  <2>3. c = b
    BY <1>1, <2>2 DEF HeapIs, UsedHead
  <2> QED  BY <2>2, <2>3
<1>3. Words(b) = k .. k + n - 1
  BY DEF Words
<1>4. ASSUME NEW x \in B
      PROVE  /\ x \in Nat /\ x >= 1
             /\ EndOf(B, x) \in Nat /\ EndOf(B, x) >= x + 3 /\ EndOf(B, x) <= HeapSize + 1
             /\ \A y \in B : y > x => y >= EndOf(B, x)
  <2>1. Around(B, F, x)
    BY Neighbours
  <2> QED  BY <2>1 DEF Around
<1>5. w \in Nat /\ w >= 1 /\ e \in Nat /\ e <= HeapSize + 1 /\ \A x \in B : x > w => x >= e
  BY <1>1, <1>4
<1> HIDE DEF w, e, k, n
<1>6. Words(b) \subseteq Address /\ Words(b) \subseteq w .. e - 1
  <2> SUFFICES ASSUME NEW a \in k .. k + n - 1  PROVE a \in Address /\ a \in w .. e - 1
    BY <1>3
  <2>1. a \in Nat /\ a >= w /\ a <= e - 1 /\ a >= 1 /\ a <= HeapSize
    BY <1>1, <1>2, <1>5
  <2> QED  BY <1>1, <1>5, <2>1 DEF Address
<1>7. ASSUME NEW x \in B
      PROVE  /\ x \notin Words(b) /\ x + 1 \notin Words(b)
             /\ x # w => \A a \in x .. EndOf(B, x) - 1 : a \notin Words(b)
  <2> DEFINE d == EndOf(B, x)
  <2>1. /\ x \in Nat /\ d \in Nat /\ d >= x + 3 /\ (x > w => x >= e) /\ (x < w => d <= w)
    BY <1>1, <1>4, <1>5 DEF w
  <2> HIDE DEF d
  <2>2. x \notin Words(b) /\ x + 1 \notin Words(b)
    BY <1>1, <1>2, <1>3, <1>5, <2>1
  <2>3. x # w => \A a \in x .. d - 1 : a \notin Words(b)
    BY <1>1, <1>2, <1>3, <1>5, <2>1
  <2> QED  BY <2>2, <2>3 DEF d
<1> QED  BY <1>6, <1>7 DEF OwnBlock, w, e

(* What a holder writes is in its own block, and no header.                *)
LEMMA WriteKeepsHeap ==
  ASSUME HeapInv, NEW b \in held, Write(b)
  PROVE  HeapInv'
<1>1. PICK B, F \in SUBSET Address : HeapIs(heap, held, B, F)
  BY DEF HeapInv
<1>2. HeapTypeOK /\ held \in Buffers /\ heap.mem \in [Address -> Int]
      /\ heap.FMBlist \in {0} \cup Address
      /\ heap = [mem |-> heap.mem, FMBlist |-> heap.FMBlist]
  BY DEF HeapInv, HeapTypeOK, Buffers
<1> DEFINE m1 == [a \in Address |-> IF a \in Words(b) THEN 1 ELSE heap.mem[a]]
<1>3. heap' = [mem |-> m1, FMBlist |-> heap.FMBlist] /\ held' = held
  BY <1>2 DEF Write
<1> DEFINE w == b[1] - UsedHead
<1>4. b[1] \in Nat /\ b[2] \in Nat /\ w \in B /\ w \notin F
  BY <1>1, <1>2, BufferFacts DEF HeapIs
<1>5. OwnBlock(B, b)
  BY <1>1, <1>2, WordsApart
<1>6. ASSUME NEW x \in B
      PROVE  /\ x \in Address /\ x + 1 \in Address /\ x + 2 \in Address /\ x \in Nat
             /\ EndOf(B, x) \in Nat /\ EndOf(B, x) >= x + 3
  <2>1. Around(B, F, x)
    BY <1>1, <1>2, Neighbours
  <2> QED  BY <2>1 DEF Around
<1>7. ASSUME NEW x \in B
      PROVE  x \notin Words(b) /\ x + 1 \notin Words(b) /\ (x \in F => x + 2 \notin Words(b))
  <2>1. x + 2 \in x .. EndOf(B, x) - 1
    BY <1>6
  <2>2. x \in F => x # w
    BY <1>4
  <2> QED  BY <1>5, <2>1, <2>2 DEF OwnBlock
<1> HIDE DEF w
<1>8. ASSUME NEW x \in B  PROVE Header(m1, B, F, x)
  <2>1. Header(heap.mem, B, F, x)
    BY <1>1 DEF HeapIs
  <2>2. m1[x] = heap.mem[x] /\ m1[x + 1] = heap.mem[x + 1] /\ (x \in F => m1[x + 2] = heap.mem[x + 2])
    BY <1>6, <1>7
  <2> HIDE DEF m1
  <2> QED  BY <2>1, <2>2 DEF Header
<1>9. m1 \in [Address -> Int]
  BY <1>2
<1> HIDE DEF m1
<1>10. heap'.mem = m1 /\ heap'.FMBlist = heap.FMBlist
  BY <1>3
<1>11. HeapIs(heap', held', B, F)
  BY <1>1, <1>3, <1>8, <1>10 DEF HeapIs
<1>12. HeapTypeOK'
  BY <1>2, <1>3, <1>9 DEF HeapTypeOK
<1> QED  BY <1>11, <1>12 DEF HeapInv

-----------------------------------------------------------------------------
(* What CoKmalloc() writes when it takes the free block f: q is the free   *)
(* block before it, o and z are its neighbours, e is its end.              *)
Link(F, f, whole, rest) == IF whole THEN Nx(F, f) ELSE rest

Written(r, h, B, F, f, size) ==
  LET e == EndOf(B, f)
      whole == e - f - size < 3
      rest == f + size
      q == Px(F, f)
      o == Px(B, f)
      z == Nx(B, f)
  IN  /\ FreeSize(h, f) = e - f
      /\ rest <= e
      /\ r = [mem |-> r.mem, FMBlist |-> r.FMBlist]
      /\ r.FMBlist = IF q = 0 THEN Link(F, f, whole, rest) ELSE h.FMBlist
      /\ r.mem = [a \in Address |-> r.mem[a]]
      /\ \A a \in Address :
           r.mem[a] = IF a = f THEN (IF whole THEN - z ELSE rest)
                      ELSE IF a = f + 1 THEN - o
                      ELSE IF q # 0 /\ a = q THEN Link(F, f, whole, rest)
                      ELSE IF z # 0 /\ a = 1 + z THEN (IF whole THEN - f ELSE rest)
                      ELSE IF o # 0 /\ a = o THEN - f
                      ELSE IF ~whole /\ a = rest THEN Nx(F, f)
                      ELSE IF ~whole /\ a = rest + 1 THEN - z
                      ELSE IF ~whole /\ a = rest + 2 THEN - f
                      ELSE h.mem[a]

LEMMA AllocateWords ==
  ASSUME NEW h, NEW H \in Buffers, NEW B, NEW F, HeapIs(h, H, B, F),
         NEW i \in 1 .. Len(FreeList(h)), NEW f \in F, FreeList(h)[i] = f,
         NEW size \in Nat, size >= 3, FreeSize(h, f) >= size
  PROVE  Written(Allocate(h, FreeList(h), i, size), h, B, F, f, size)
<1> DEFINE list == FreeList(h)
           e == EndOf(B, f)
           w == e - f - size < 3
           rest == f + size
           q == Px(F, f)
           o == Px(B, f)
           z == Nx(B, f)
           l == Link(F, f, w, rest)
           whole == TakenWhole(FreeSize(h, f) - size)
           next == h.mem[f + 1]
           pre == h.mem[f + 2]
           link == IF whole THEN h.mem[f] ELSE rest
           word(a) == IF a = f THEN (IF whole THEN next ELSE rest)
                      ELSE IF a = f + 1 THEN pre
                      ELSE IF i > 1 /\ a = list[i - 1] THEN link
                      ELSE IF next # 0 /\ a = 1 - next THEN (IF whole THEN - f ELSE rest)
                      ELSE IF a = - pre THEN - f
                      ELSE IF ~whole /\ a = rest THEN h.mem[f]
                      ELSE IF ~whole /\ a = rest + 1 THEN next
                      ELSE IF ~whole /\ a = rest + 2 THEN - f
                      ELSE h.mem[a]
           r == Allocate(h, list, i, size)
<1>1. r = [mem |-> [a \in Address |-> word(a)], FMBlist |-> IF i = 1 THEN link ELSE h.FMBlist]
  BY DEF Allocate
<1>2. /\ F \subseteq B /\ 0 \notin B /\ B \in SUBSET Address /\ F \in SUBSET Address
      /\ \A x \in B : x \in Nat /\ x \in Int /\ x >= 1 /\ x \in Address /\ Header(h.mem, B, F, x)
      /\ HeapSize \in Nat
  BY HeapAssumption DEF HeapIs, Address
<1>3. /\ f + 1 \in Address /\ f + 2 \in Address /\ f \in Nat
      /\ e \in Nat /\ e >= f + 3 /\ e <= HeapSize + 1
      /\ z \in Nat /\ o \in Nat /\ (z # 0 => z \in B) /\ (o # 0 => o \in B)
      /\ \A x \in B : x + 1 \in Address
  <2>1. \A v \in B : Around(B, F, v)
    BY Neighbours
  <2> QED  BY <1>2, <2>1 DEF Around
<1>4. next = - z /\ pre = - o /\ h.mem[f] = Nx(F, f)
  BY <1>2 DEF Header
<1>5. /\ i > 1 => list[i - 1] = q
      /\ i = 1 <=> q = 0
      /\ q \in F \cup {0}
  <2>1. Sorts(list, F)
    BY FreeListIs
  <2>2. i > 1 => q = list[i - 1]
    BY <1>2, <2>1, SortedNeighbours
  <2>3. i = 1 => q = 0
    BY <1>2, <2>1, SortedNeighbours
  <2>5. Len(list) \in Nat
    <3> HIDE DEF list
    <3> QED  BY <2>1 DEF Sorts
  <2>4. i > 1 => list[i - 1] \in F
    <3> HIDE DEF list
    <3>1. list \in Seq(F) /\ (i > 1 => i - 1 \in 1 .. Len(list))
      BY <2>1 DEF Sorts, list
    <3> QED  BY <3>1
  <2> HIDE DEF q, list
  <2> QED  BY <1>2, <2>2, <2>3, <2>4, <2>5
<1>6. e = IF z = 0 THEN HeapSize + 1 ELSE z
  BY DEF EndOf
<1>7. FreeSize(h, f) = e - f
  <2> HIDE DEF e, z, next
  <2>1. FreeSize(h, f) = (IF next = 0 THEN HeapSize + 1 ELSE - next) - f
    BY DEF FreeSize, next
  <2> QED  BY <1>3, <1>4, <1>6, <2>1
<1>8. whole <=> w
  BY <1>7 DEF TakenWhole, FreeHead
<1>9. link = l
  BY <1>4, <1>8 DEF Link
<1> HIDE DEF e, q, o, z, l, next, pre, list, link, whole, w
<1>10. rest <= e /\ rest \in Nat /\ rest >= f + 3
  BY <1>3, <1>7
<1>11. ASSUME NEW a \in Address
       PROVE  word(a) = IF a = f THEN (IF w THEN - z ELSE rest)
                        ELSE IF a = f + 1 THEN - o
                        ELSE IF q # 0 /\ a = q THEN l
                        ELSE IF z # 0 /\ a = 1 + z THEN (IF w THEN - f ELSE rest)
                        ELSE IF o # 0 /\ a = o THEN - f
                        ELSE IF ~w /\ a = rest THEN Nx(F, f)
                        ELSE IF ~w /\ a = rest + 1 THEN - z
                        ELSE IF ~w /\ a = rest + 2 THEN - f
                        ELSE h.mem[a]
  <2>1. a # 0
    BY DEF Address
  <2>2. (i > 1 /\ a = list[i - 1]) <=> (q # 0 /\ a = q)
    BY <1>5
  <2>3. a = - pre <=> (o # 0 /\ a = o)
    <3>1. - pre = o
      BY <1>3, <1>4
    <3> QED  BY <2>1, <3>1
  <2>4. (next # 0 /\ a = 1 - next) <=> (z # 0 /\ a = 1 + z)
    <3>1. (next # 0 <=> z # 0) /\ 1 - next = 1 + z
      BY <1>3, <1>4
    <3> QED  BY <3>1
  <2> HIDE DEF rest
  <2> QED  BY <1>4, <1>8, <1>9, <2>2, <2>3, <2>4
<1> HIDE DEF word
<1>12. \A a \in Address : r.mem[a] = word(a)
  BY <1>1
<1>13. r.mem = [a \in Address |-> r.mem[a]] /\ r = [mem |-> r.mem, FMBlist |-> r.FMBlist]
  BY <1>1
<1>14. r.FMBlist = IF q = 0 THEN l ELSE h.FMBlist
  BY <1>1, <1>5, <1>9
<1> HIDE DEF r, rest
<1>15. Written(r, h, B, F, f, size)
  BY <1>7, <1>10, <1>11, <1>12, <1>13, <1>14 DEF Written, e, o, z, q, l, w, rest
<1> QED  BY <1>15 DEF r, list

(* The same, header by header.                                             *)
Taken(r, h, B, F, f, whole, rest) ==
  /\ r.FMBlist = IF Px(F, f) = 0 THEN Link(F, f, whole, rest) ELSE h.FMBlist
  /\ \A x \in B :
       /\ r.mem[x] = IF x = f THEN (IF whole THEN - Nx(B, f) ELSE rest)
                     ELSE IF x = Px(F, f) THEN Link(F, f, whole, rest)
                     ELSE IF x = Px(B, f) THEN - f
                     ELSE h.mem[x]
       /\ r.mem[x + 1] = IF x = f THEN - Px(B, f)
                         ELSE IF x = Nx(B, f) THEN (IF whole THEN - f ELSE rest)
                         ELSE h.mem[x + 1]
       /\ x # f => r.mem[x + 2] = h.mem[x + 2]
  /\ ~whole => /\ r.mem[rest] = Nx(F, f)
               /\ r.mem[rest + 1] = - Nx(B, f)
               /\ r.mem[rest + 2] = - f

LEMMA TakenHeaders ==
  ASSUME NEW h, NEW H \in Buffers, NEW B, NEW F, HeapIs(h, H, B, F),
         NEW i \in 1 .. Len(FreeList(h)), NEW f \in F, FreeList(h)[i] = f,
         NEW size \in Nat, size >= 3, FreeSize(h, f) >= size
  PROVE  Taken(Allocate(h, FreeList(h), i, size), h, B, F, f, EndOf(B, f) - f - size < 3, f + size)
<1> DEFINE r == Allocate(h, FreeList(h), i, size)
           e == EndOf(B, f)
           whole == e - f - size < 3
           rest == f + size
           q == Px(F, f)
           o == Px(B, f)
           z == Nx(B, f)
           l == Link(F, f, whole, rest)
<1>1. /\ r.FMBlist = IF q = 0 THEN l ELSE h.FMBlist
      /\ rest <= e
      /\ \A a \in Address :
           r.mem[a] = IF a = f THEN (IF whole THEN - z ELSE rest)
                      ELSE IF a = f + 1 THEN - o
                      ELSE IF q # 0 /\ a = q THEN l
                      ELSE IF z # 0 /\ a = 1 + z THEN (IF whole THEN - f ELSE rest)
                      ELSE IF o # 0 /\ a = o THEN - f
                      ELSE IF ~whole /\ a = rest THEN Nx(F, f)
                      ELSE IF ~whole /\ a = rest + 1 THEN - z
                      ELSE IF ~whole /\ a = rest + 2 THEN - f
                      ELSE h.mem[a]
  <2>1. Written(r, h, B, F, f, size)
    BY AllocateWords
  <2> HIDE DEF r
  <2> QED  BY <2>1 DEF Written
<1>2. /\ F \subseteq B /\ 0 \notin B /\ B \in SUBSET Address /\ F \in SUBSET Address
      /\ \A x \in B : x \in Nat /\ x \in Int /\ x >= 1 /\ x \in Address
      /\ HeapSize \in Nat /\ f \in B
  BY HeapAssumption DEF HeapIs, Address
<1>3. /\ e \in Nat /\ e >= f + 3 /\ e <= HeapSize + 1
      /\ z \in Nat /\ o \in Nat /\ (z # 0 => z \in B) /\ (o # 0 => o \in B)
      /\ \A x \in B : x > f => x >= e
  <2>1. \A v \in B : Around(B, F, v)
    BY Neighbours
  <2> QED  BY <1>2, <2>1 DEF Around
<1>4. ASSUME NEW x \in B
      PROVE  x + 1 \in Address /\ x + 2 \in Address /\ EndOf(B, x) \in Nat /\ EndOf(B, x) >= x + 3
             /\ (x < f => EndOf(B, x) <= f)
  <2>1. \A v \in B : Around(B, F, v)
    BY Neighbours
  <2> QED  BY <1>2, <2>1 DEF Around
<1>5. q \in F \cup {0}
  BY <1>2, PrevIs
<1>6. HeadsApart(B)
  BY Apart
<1>7. rest \in Nat /\ rest >= f + 3 /\ f \in Nat
  BY <1>2
<1>8. ~whole => rest + 3 <= e
  BY <1>3, <1>7
<1> HIDE DEF r, e, whole, rest, q, o, z, l
<1>9. ASSUME NEW x \in B, ~whole
      PROVE  /\ x # rest /\ x + 1 # rest /\ x + 2 # rest
             /\ x # rest + 1 /\ x # rest + 2
             /\ x + 1 # rest + 1 /\ x + 1 # rest + 2
             /\ x + 2 # rest + 1 /\ x + 2 # rest + 2
  <2> DEFINE d == EndOf(B, x)
  <2>1. d \in Nat /\ d >= x + 3 /\ (x < f => d <= f) /\ x \in Nat
    BY <1>2, <1>4
  <2> HIDE DEF d
  <2>2. CASE x <= f
    BY <1>7, <2>1, <2>2
  <2>3. CASE x > f
    <3>1. x >= e /\ rest + 3 <= e
      BY <1>3, <1>8, <1>9, <2>3
    <3> QED  BY <1>3, <1>7, <2>1, <2>3, <3>1
  <2> QED  BY <1>7, <2>1, <2>2, <2>3
<1>10. ASSUME NEW x \in B
       PROVE  /\ r.mem[x] = IF x = f THEN (IF whole THEN - z ELSE rest)
                            ELSE IF x = q THEN l ELSE IF x = o THEN - f ELSE h.mem[x]
              /\ r.mem[x + 1] = IF x = f THEN - o
                                ELSE IF x = z THEN (IF whole THEN - f ELSE rest)
                                ELSE h.mem[x + 1]
              /\ x # f => r.mem[x + 2] = h.mem[x + 2]
  <2>2. ASSUME NEW w \in B
        PROVE  /\ x # w + 1 /\ x # 1 + w
               /\ x + 1 # w
               /\ x + 2 # w /\ x + 2 # w + 1 /\ x + 2 # 1 + w
    <3>1. 1 + w = w + 1
      BY <1>2
    <3> QED  BY <1>6, <3>1 DEF HeadsApart
  <2>3. (q # 0 => q \in B) /\ x # 0
    BY <1>2, <1>5
  <2>4. x \in Address /\ x + 1 \in Address /\ x + 2 \in Address
    BY <1>2, <1>4
  <2>5. r.mem[x] = IF x = f THEN (IF whole THEN - z ELSE rest)
                   ELSE IF x = q THEN l ELSE IF x = o THEN - f ELSE h.mem[x]
    <3>1. x # f + 1 /\ (z # 0 => x # 1 + z)
      BY <1>2, <1>3, <2>2
    <3>2. ~whole => x # rest /\ x # rest + 1 /\ x # rest + 2
      BY <1>9
    <3> QED  BY <1>1, <2>3, <2>4, <3>1, <3>2
  <2>6. r.mem[x + 1] = IF x = f THEN - o
                       ELSE IF x = z THEN (IF whole THEN - f ELSE rest)
                       ELSE h.mem[x + 1]
    <3>1. x + 1 # f /\ (q # 0 => x + 1 # q) /\ (o # 0 => x + 1 # o)
      BY <1>2, <1>3, <2>2, <2>3
    <3>2. (x + 1 = f + 1 <=> x = f) /\ (x + 1 = 1 + z <=> x = z)
      BY <1>2, <1>3
    <3>3. ~whole => x + 1 # rest /\ x + 1 # rest + 1 /\ x + 1 # rest + 2
      BY <1>9
    <3> QED  BY <1>1, <2>3, <2>4, <3>1, <3>2, <3>3
  <2>7. r.mem[x + 2] = h.mem[x + 2]
    <3>1. /\ x + 2 # f /\ x + 2 # f + 1 /\ (q # 0 => x + 2 # q) /\ (o # 0 => x + 2 # o)
          /\ z # 0 => x + 2 # 1 + z
      BY <1>2, <1>3, <2>2, <2>3
    <3>2. ~whole => x + 2 # rest /\ x + 2 # rest + 1 /\ x + 2 # rest + 2
      BY <1>9
    <3> QED  BY <1>1, <2>4, <3>1, <3>2
  <2> QED  BY <2>5, <2>6, <2>7
<1>11. ASSUME ~whole
       PROVE  r.mem[rest] = Nx(F, f) /\ r.mem[rest + 1] = - z /\ r.mem[rest + 2] = - f
  <2>1. rest \in Address /\ rest + 1 \in Address /\ rest + 2 \in Address
    BY <1>2, <1>3, <1>7, <1>8, <1>11 DEF Address
  <2>2. (q # 0 => q \in B) /\ (z # 0 => 1 + z = z + 1)
    BY <1>2, <1>3, <1>5
  <2>3. /\ rest # f /\ rest # f + 1 /\ (q # 0 => rest # q) /\ (z # 0 => rest # 1 + z)
        /\ o # 0 => rest # o
    BY <1>2, <1>3, <1>9, <1>11, <2>2
  <2>4. /\ rest + 1 # f /\ rest + 1 # f + 1 /\ (q # 0 => rest + 1 # q)
        /\ z # 0 => rest + 1 # 1 + z
        /\ o # 0 => rest + 1 # o
    BY <1>2, <1>3, <1>9, <1>11, <2>2
  <2>5. /\ rest + 2 # f /\ rest + 2 # f + 1 /\ (q # 0 => rest + 2 # q)
        /\ z # 0 => rest + 2 # 1 + z
        /\ o # 0 => rest + 2 # o
    BY <1>2, <1>3, <1>9, <1>11, <2>2
  <2>6. rest # rest + 1 /\ rest # rest + 2 /\ rest + 1 # rest + 2
    BY <1>7
  <2>7. r.mem[rest] = Nx(F, f)
    BY <1>1, <1>11, <2>1, <2>3
  <2>8. r.mem[rest + 1] = - z
    BY <1>1, <1>11, <2>1, <2>4, <2>6
  <2>9. r.mem[rest + 2] = - f
    BY <1>1, <1>11, <2>1, <2>5, <2>6
  <2> QED  BY <2>7, <2>8, <2>9
<1>12. Taken(r, h, B, F, f, whole, rest)
  BY <1>1, <1>10, <1>11 DEF Taken, q, o, z, l
<1> QED  BY <1>12 DEF r, whole, rest, e

(* One address less in a set, one moved, and one more.                     *)
LEMMA OneLess ==
  ASSUME NEW F \in SUBSET Address, NEW f \in F, NEW x \in (F \ {f}) \cup {0}
  PROVE  Nx(F \ {f}, x) = IF x = Px(F, f) THEN Nx(F, f) ELSE Nx(F, x)
<1> DEFINE T == F \ {f}
           q == Px(F, f)
           n == Nx(F, f)
           k == Nx(F, x)
<1>1. /\ \A w \in F : w \in Nat /\ w \in Int /\ w # 0
      /\ x \in Int /\ x \in Nat /\ f \in Int /\ f \in Nat /\ T \in SUBSET Address
  BY HeapAssumption DEF Address
<1>2. Succ(F, f, n) /\ Succ(F, x, k)
  BY <1>1, NextSucc
<1>3. /\ q \in F \cup {0}
      /\ q = 0 => \A w \in F : w >= f
      /\ q # 0 => q \in F /\ q < f /\ \A w \in F : w >= f \/ w <= q
  BY <1>1, PrevIs
<1>4. \A y : Succ(T, x, y) => y = Nx(T, x)
  BY <1>1, NextIs
<1>5. \A w : w \in T <=> w \in F /\ w # f
  OBVIOUS
<1> HIDE DEF T, q, n, k
<1>6. n # 0 => n \in F /\ n > f /\ n \in Nat
  BY <1>1, <1>2 DEF Succ
<1>7. \A w \in F : w <= f \/ (n # 0 /\ w >= n)
  BY <1>2 DEF Succ
<1>8. k # 0 => k \in F /\ k > x /\ k \in Nat
  BY <1>1, <1>2 DEF Succ
<1>9. \A w \in F : w <= x \/ (k # 0 /\ w >= k)
  BY <1>2 DEF Succ
<1>10. CASE x = q
  <2>1. x < f
    BY <1>1, <1>3, <1>10
  <2>2. \A w \in T : w <= x \/ (n # 0 /\ w >= n)
    BY <1>1, <1>3, <1>5, <1>7, <1>10
  <2>3. n # 0 => n \in T /\ n > x
    BY <1>1, <1>5, <1>6, <2>1
  <2>4. Succ(T, x, n)
    BY <2>2, <2>3 DEF Succ
  <2> QED  BY <1>4, <1>10, <2>4 DEF T, q, n, k
<1>11. CASE x # q
  <2>1. k # f
    <3> SUFFICES ASSUME k = f  PROVE FALSE
      OBVIOUS
    <3>1. x < f /\ k # 0
      BY <1>1, <1>8
    <3>2. q # 0 => q <= x
      <4>1. q # 0 => q <= x \/ q >= f
        BY <1>3, <1>9
      <4> QED  BY <1>1, <1>3, <4>1
    <3>3. x # 0 => x <= q /\ q # 0
      BY <1>1, <1>3, <3>1
    <3> QED  BY <1>1, <1>3, <1>11, <3>2, <3>3
  <2>2. k # 0 => k \in T /\ k > x
    BY <1>5, <1>8, <2>1
  <2>3. Succ(T, x, k)
    BY <1>5, <1>9, <2>2 DEF Succ
  <2> QED  BY <1>4, <1>11, <2>3 DEF T, q, n, k
<1> QED  BY <1>10, <1>11

LEMMA OneMoved ==
  ASSUME NEW F \in SUBSET Address, NEW f \in F, NEW a \in Address, a > f,
         \A w \in F : w <= f \/ w > a, NEW x \in (F \ {f}) \cup {0, a}
  PROVE  Nx((F \ {f}) \cup {a}, x) =
           IF x = a THEN Nx(F, f) ELSE IF x = Px(F, f) THEN a ELSE Nx(F, x)
<1> DEFINE T == (F \ {f}) \cup {a}
           q == Px(F, f)
           n == Nx(F, f)
           k == Nx(F, x)
<1>1. /\ \A w \in F : w \in Nat /\ w \in Int /\ w # 0
      /\ x \in Int /\ x \in Nat /\ f \in Int /\ f \in Nat /\ a \in Nat /\ a # 0 /\ T \in SUBSET Address
  BY HeapAssumption DEF Address
<1>2. Succ(F, f, n) /\ Succ(F, x, k)
  BY <1>1, NextSucc
<1>3. /\ q \in F \cup {0}
      /\ q = 0 => \A w \in F : w >= f
      /\ q # 0 => q \in F /\ q < f /\ \A w \in F : w >= f \/ w <= q
  BY <1>1, PrevIs
<1>4. \A y : Succ(T, x, y) => y = Nx(T, x)
  BY <1>1, NextIs
<1>5. \A w : w \in T <=> (w \in F /\ w # f) \/ w = a
  OBVIOUS
<1> HIDE DEF T, q, n, k
<1>6. n # 0 => n \in F /\ n > f /\ n > a /\ n \in Nat
  <2>1. n # 0 => n \in F /\ n > f /\ n \in Nat
    BY <1>1, <1>2 DEF Succ
  <2> QED  BY <1>1, <2>1
<1>7. \A w \in F : w <= f \/ (n # 0 /\ w >= n)
  BY <1>2 DEF Succ
<1>8. k # 0 => k \in F /\ k > x /\ k \in Nat
  BY <1>1, <1>2 DEF Succ
<1>9. \A w \in F : w <= x \/ (k # 0 /\ w >= k)
  BY <1>2 DEF Succ
<1>10. CASE x = a
  <2>1. \A w \in T : w <= a \/ (n # 0 /\ w >= n)
    BY <1>1, <1>5, <1>7
  <2>2. n # 0 => n \in T /\ n > a
    BY <1>1, <1>5, <1>6
  <2>3. Succ(T, x, n)
    BY <1>10, <2>1, <2>2 DEF Succ
  <2> QED  BY <1>4, <1>10, <2>3 DEF T, n
<1>11. CASE x # a /\ x = q
  <2>1. x < a
    BY <1>1, <1>3, <1>11
  <2>2. \A w \in T : w <= x \/ w >= a
    BY <1>1, <1>3, <1>5, <1>11
  <2>3. Succ(T, x, a)
    BY <1>1, <1>5, <2>1, <2>2 DEF Succ
  <2> QED  BY <1>4, <1>11, <2>3 DEF T, q
<1>12. CASE x # a /\ x # q
  <2>0. x \in (F \ {f}) \cup {0}
    BY <1>12
  <2>1. k # f
    <3> SUFFICES ASSUME k = f  PROVE FALSE
      OBVIOUS
    <3>1. x < f /\ k # 0
      BY <1>1, <1>8
    <3>2. q # 0 => q <= x
      <4>1. q # 0 => q <= x \/ q >= f
        BY <1>3, <1>9
      <4> QED  BY <1>1, <1>3, <4>1
    <3>3. x # 0 => x <= q /\ q # 0
      BY <1>1, <1>3, <2>0, <3>1
    <3> QED  BY <1>1, <1>3, <1>12, <3>2, <3>3
  <2>2. k # 0 => k \in T /\ k > x
    BY <1>5, <1>8, <2>1
  <2>3. a <= x \/ (k # 0 /\ a >= k)
    <3>1. f <= x \/ (k # 0 /\ f >= k)
      BY <1>9
    <3>2. CASE f <= x
      BY <1>1, <2>0, <3>2
    <3>3. CASE k # 0 /\ f >= k
      BY <1>1, <1>8, <3>3
    <3> QED  BY <3>1, <3>2, <3>3
  <2>4. Succ(T, x, k)
    BY <1>5, <1>9, <2>2, <2>3 DEF Succ
  <2> QED  BY <1>4, <1>12, <2>4 DEF T, q, k
<1> QED  BY <1>10, <1>11, <1>12

LEMMA OneMore ==
  ASSUME NEW B \in SUBSET Address, NEW f \in B, NEW a \in Address, a > f,
         \A w \in B : w <= f \/ w > a, NEW x \in B \cup {a}
  PROVE  /\ Nx(B \cup {a}, x) = IF x = f THEN a ELSE IF x = a THEN Nx(B, f) ELSE Nx(B, x)
         /\ Px(B \cup {a}, x) = IF x = a THEN f ELSE IF x = Nx(B, f) THEN a ELSE Px(B, x)
<1> DEFINE T == B \cup {a}
           n == Nx(B, f)
           k == Nx(B, x)
           p == Px(B, x)
<1>1. /\ \A w \in B : w \in Nat /\ w \in Int /\ w # 0
      /\ x \in Int /\ x \in Nat /\ x # 0 /\ f \in Int /\ f \in Nat /\ f # 0
      /\ a \in Nat /\ a # 0 /\ T \in SUBSET Address
  BY HeapAssumption DEF Address
<1>2. Succ(B, f, n) /\ Succ(B, x, k)
  BY <1>1, NextSucc
<1>3. /\ p \in B \cup {0}
      /\ p = 0 => \A w \in B : w >= x
      /\ p # 0 => p \in B /\ p < x /\ \A w \in B : w >= x \/ w <= p
  BY <1>1, PrevIs
<1>4. \A y : (Succ(T, x, y) => y = Nx(T, x)) /\ (Pred(T, x, y) => y = Px(T, x))
  BY <1>1, NextIs, PrevIs
<1>5. \A w : w \in T <=> w \in B \/ w = a
  OBVIOUS
<1> HIDE DEF T, n, k, p
<1>6. n # 0 => n \in B /\ n > f /\ n > a /\ n \in Nat
  <2>1. n # 0 => n \in B /\ n > f /\ n \in Nat
    BY <1>1, <1>2 DEF Succ
  <2> QED  BY <1>1, <2>1
<1>7. \A w \in B : w <= f \/ (n # 0 /\ w >= n)
  BY <1>2 DEF Succ
<1>8. k # 0 => k \in B /\ k > x /\ k \in Nat
  BY <1>1, <1>2 DEF Succ
<1>9. \A w \in B : w <= x \/ (k # 0 /\ w >= k)
  BY <1>2 DEF Succ
<1>10. Nx(T, x) = IF x = f THEN a ELSE IF x = a THEN n ELSE k
  <2>1. CASE x = f
    <3>1. Succ(T, x, a)
      BY <1>1, <1>5, <2>1 DEF Succ
    <3> QED  BY <1>4, <2>1, <3>1
  <2>2. CASE x = a
    <3>1. x # f
      BY <1>1, <2>2
    <3>2. Succ(T, x, n)
      BY <1>1, <1>5, <1>6, <1>7, <2>2 DEF Succ
    <3> QED  BY <1>4, <2>2, <3>1, <3>2
  <2>3. CASE x # f /\ x # a
    <3>1. a <= x \/ (k # 0 /\ a >= k)
      <4>1. f <= x \/ (k # 0 /\ f >= k)
        BY <1>9
      <4>2. CASE f <= x
        BY <1>1, <2>3, <4>2
      <4>3. CASE k # 0 /\ f >= k
        BY <1>1, <1>8, <4>3
      <4> QED  BY <4>1, <4>2, <4>3
    <3>2. Succ(T, x, k)
      BY <1>5, <1>8, <1>9, <3>1 DEF Succ
    <3> QED  BY <1>4, <2>3, <3>2
  <2> QED  BY <2>1, <2>2, <2>3
<1>11. Px(T, x) = IF x = a THEN f ELSE IF x = n THEN a ELSE p
  <2>1. CASE x = a
    <3>1. Pred(T, x, f)
      BY <1>1, <1>5, <2>1 DEF Pred
    <3> QED  BY <1>4, <2>1, <3>1
  <2>2. CASE x # a /\ x = n
    <3>1. n # 0 /\ a < n
      BY <1>1, <1>6, <2>2
    <3>2. \A w \in T : w >= n \/ w <= a
      BY <1>1, <1>5, <1>7
    <3>3. Pred(T, x, a)
      BY <1>1, <1>5, <2>2, <3>1, <3>2 DEF Pred
    <3> QED  BY <1>4, <2>2, <3>3
  <2>3. CASE x # a /\ x # n
    <3>1. x <= f \/ (n # 0 /\ n < x /\ n \in B)
      BY <1>1, <1>6, <1>7, <2>3
    <3>2. a >= x \/ (p # 0 /\ a <= p)
      <4>1. CASE x <= f
        BY <1>1, <4>1
      <4>2. CASE n # 0 /\ n < x /\ n \in B
        <5>1. p # 0 /\ n <= p
          BY <1>1, <1>3, <1>6, <4>2
        <5> QED  BY <1>1, <1>3, <1>6, <4>2, <5>1
      <4> QED  BY <3>1, <4>1, <4>2
    <3>3. Pred(T, x, p)
      BY <1>3, <1>5, <3>2 DEF Pred
    <3> QED  BY <1>4, <2>3, <3>3
  <2> QED  BY <2>1, <2>2, <2>3
<1> QED  BY <1>10, <1>11 DEF T, n, k, p

(* CoKmalloc() leaves the heap a heap: the free block f is used as a whole.*)
LEMMA WholeIs ==
  ASSUME NEW h, NEW H \in Buffers, NEW B, NEW F, HeapIs(h, H, B, F), NEW f \in F,
         NEW r, NEW rest, Taken(r, h, B, F, f, TRUE, rest),
         NEW n \in Requests, f + UsedHead + n <= EndOf(B, f)
  PROVE  HeapIs(r, H \cup {<<f + UsedHead, n>>}, B, F \ {f})
<1> DEFINE T == F \ {f}
           q == Px(F, f)
           o == Px(B, f)
           z == Nx(B, f)
           l == Nx(F, f)
           b == <<f + UsedHead, n>>
<1>1. /\ F \subseteq B /\ 0 \notin B /\ 1 \in B /\ B \in SUBSET Address /\ F \in SUBSET Address
      /\ \A w \in B : w \in Nat /\ Header(h.mem, B, F, w)
      /\ h.FMBlist = Nx(F, 0)
      /\ \A w \in F : Nx(B, w) \notin F /\ EndOf(B, w) - w >= FreeHead
      /\ \A w \in B : w \notin F => \E c \in H : c[1] = w + UsedHead /\ c[1] + c[2] <= EndOf(B, w)
      /\ \A c \in H : c[1] - UsedHead \in B /\ c[1] - UsedHead \notin F
      /\ \A c, d \in H : c[1] = d[1] => c = d
      /\ f \in B
  BY HeapAssumption DEF HeapIs, Address
<1>2. /\ r.FMBlist = IF q = 0 THEN l ELSE h.FMBlist
      /\ \A x \in B :
           /\ r.mem[x] = IF x = f THEN - z ELSE IF x = q THEN l ELSE IF x = o THEN - f
                         ELSE h.mem[x]
           /\ r.mem[x + 1] = IF x = f THEN - o ELSE IF x = z THEN - f ELSE h.mem[x + 1]
           /\ x # f => r.mem[x + 2] = h.mem[x + 2]
  BY DEF Taken, Link
<1>3. ASSUME NEW x \in B
      PROVE  /\ Px(B, x) \in Nat /\ Nx(B, x) \in Nat
             /\ Px(B, x) # 0 => Px(B, x) \in B /\ Nx(B, Px(B, x)) = x
             /\ Nx(B, x) # 0 => Nx(B, x) \in B /\ Px(B, Nx(B, x)) = x
             /\ x \in F => Px(B, x) \notin F
  <2>1. \A v \in B : Around(B, F, v)
    BY Neighbours
  <2> QED  BY <1>1, <2>1 DEF Around
<1>4. ASSUME NEW x \in T \cup {0}  PROVE Nx(T, x) = IF x = q THEN l ELSE Nx(F, x)
  BY <1>1, OneLess
<1>5. \A w : w \in T <=> w \in F /\ w # f
  OBVIOUS
<1>6. z \notin F /\ o \notin F /\ q \in F \cup {0}
  <2>1. f \in Int
    BY <1>1
  <2>2. q \in F \cup {0}
    BY <1>1, <2>1, PrevIs
  <2> HIDE DEF q
  <2> QED  BY <1>1, <1>3, <2>2
<1> HIDE DEF T, q, o, z, l
<1>7. r.FMBlist = Nx(T, 0)
  <2>1. Nx(T, 0) = IF 0 = q THEN l ELSE Nx(F, 0)
    BY <1>4
  <2> QED  BY <1>1, <1>2, <2>1
<1>8. ASSUME NEW x \in B  PROVE Header(r.mem, B, T, x)
  <2>1. x # 0 /\ Header(h.mem, B, F, x)
    BY <1>1
  <2>2. CASE x = f
    <3>1. r.mem[x] = - z /\ r.mem[x + 1] = - o
      BY <1>2, <2>2
    <3>2. Reference(T, z) = - z /\ Reference(T, o) = - o /\ x \notin T
      BY <1>5, <1>6, <2>2 DEF Reference
    <3> QED  BY <2>2, <3>1, <3>2 DEF Header, z, o
  <2>3. CASE x \in F /\ x # f
    <3>1. x # o /\ x # z /\ x \in T
      BY <1>5, <1>6, <2>3
    <3>2. h.mem[x] = Nx(F, x) /\ h.mem[x + 1] = - Nx(B, x) /\ h.mem[x + 2] = - Px(B, x)
      BY <2>1, <2>3 DEF Header
    <3>3. r.mem[x] = Nx(T, x)
      BY <1>2, <1>4, <2>3, <3>1, <3>2
    <3>4. r.mem[x + 1] = - Nx(B, x) /\ r.mem[x + 2] = - Px(B, x)
      BY <1>2, <2>3, <3>1, <3>2
    <3> QED  BY <3>1, <3>3, <3>4 DEF Header
  <2>4. CASE x \notin F
    <3>1. x # f /\ x # q /\ x \notin T
      BY <1>5, <1>6, <2>1, <2>4
    <3>2. h.mem[x] = Reference(F, Nx(B, x)) /\ h.mem[x + 1] = Reference(F, Px(B, x))
      BY <2>1, <2>4 DEF Header
    <3>3. r.mem[x] = Reference(T, Nx(B, x))
      <4> DEFINE k == Nx(B, x)
      <4>1. x = o <=> k = f
        BY <1>1, <1>3, <2>1 DEF o
      <4> HIDE DEF k
      <4>2. CASE x = o
        BY <1>2, <1>5, <3>1, <4>1, <4>2 DEF Reference, k
      <4>3. CASE x # o
        <5>1. r.mem[x] = Reference(F, k) /\ k # f
          BY <1>2, <3>1, <3>2, <4>1, <4>3 DEF k
        <5> QED  BY <1>5, <5>1 DEF Reference, k
      <4> QED  BY <4>2, <4>3
    <3>4. r.mem[x + 1] = Reference(T, Px(B, x))
      <4> DEFINE k == Px(B, x)
      <4>1. x = z <=> k = f
        BY <1>1, <1>3, <2>1 DEF z
      <4> HIDE DEF k
      <4>2. CASE x = z
        BY <1>2, <1>5, <3>1, <4>1, <4>2 DEF Reference, k
      <4>3. CASE x # z
        <5>1. r.mem[x + 1] = Reference(F, k) /\ k # f
          BY <1>2, <3>1, <3>2, <4>1, <4>3 DEF k
        <5> QED  BY <1>5, <5>1 DEF Reference, k
      <4> QED  BY <4>2, <4>3
    <3> QED  BY <3>1, <3>3, <3>4 DEF Header
  <2> QED  BY <2>2, <2>3, <2>4
<1>9. \A x \in T : Nx(B, x) \notin T /\ EndOf(B, x) - x >= FreeHead
  BY <1>1, <1>5
<1>10. b[1] = f + UsedHead /\ b[2] = n
  OBVIOUS
<1> HIDE DEF b
<1>11. ASSUME NEW x \in B, x \notin T
       PROVE  \E c \in H \cup {b} : c[1] = x + UsedHead /\ c[1] + c[2] <= EndOf(B, x)
  <2>1. CASE x = f
    BY <1>10, <2>1
  <2>2. CASE x # f
    <3>1. x \notin F
      BY <1>5, <1>11, <2>2
    <3> QED  BY <1>1, <3>1
  <2> QED  BY <2>1, <2>2
<1>12. b[1] - UsedHead = f
  BY <1>1, <1>10 DEF UsedHead
<1>13. \A c \in H \cup {b} : c[1] - UsedHead \in B /\ c[1] - UsedHead \notin T
  BY <1>1, <1>5, <1>12
<1>14. \A c, d \in H \cup {b} : c[1] = d[1] => c = d
  <2>1. \A c \in H : c[1] # b[1]
    BY <1>1, <1>12
  <2> QED  BY <1>1, <2>1
<1>15. T \subseteq B /\ B \subseteq Address /\ \A x \in B : Header(r.mem, B, T, x)
  BY <1>1, <1>5, <1>8
<1>16. HeapIs(r, H \cup {b}, B, T)
  BY <1>1, <1>7, <1>9, <1>11, <1>13, <1>14, <1>15 DEF HeapIs
<1> QED  BY <1>16 DEF T, b

(* Or its rest stays free.                                                 *)
LEMMA PartIs ==
  ASSUME NEW h, NEW H \in Buffers, NEW B, NEW F, HeapIs(h, H, B, F), NEW f \in F,
         NEW r, NEW rest \in Nat, Taken(r, h, B, F, f, FALSE, rest),
         NEW n \in Requests, f + UsedHead + n = rest, rest + FreeHead <= EndOf(B, f)
  PROVE  HeapIs(r, H \cup {<<f + UsedHead, n>>}, B \cup {rest}, (F \ {f}) \cup {rest})
<1> DEFINE S == B \cup {rest}
           T == (F \ {f}) \cup {rest}
           q == Px(F, f)
           o == Px(B, f)
           z == Nx(B, f)
           l == Nx(F, f)
           b == <<f + UsedHead, n>>
           e == EndOf(B, f)
<1>1. /\ F \subseteq B /\ 0 \notin B /\ 1 \in B /\ B \in SUBSET Address /\ F \in SUBSET Address
      /\ \A w \in B : w \in Nat /\ Header(h.mem, B, F, w)
      /\ h.FMBlist = Nx(F, 0)
      /\ \A w \in F : Nx(B, w) \notin F /\ EndOf(B, w) - w >= FreeHead
      /\ \A w \in B : w \notin F => \E c \in H : c[1] = w + UsedHead /\ c[1] + c[2] <= EndOf(B, w)
      /\ \A c \in H : c[1] - UsedHead \in B /\ c[1] - UsedHead \notin F
      /\ \A c, d \in H : c[1] = d[1] => c = d
      /\ f \in B /\ HeapSize \in Nat
  BY HeapAssumption DEF HeapIs, Address
<1>2. /\ r.FMBlist = IF q = 0 THEN rest ELSE h.FMBlist
      /\ \A x \in B :
           /\ r.mem[x] = IF x = f THEN rest ELSE IF x = q THEN rest ELSE IF x = o THEN - f
                         ELSE h.mem[x]
           /\ r.mem[x + 1] = IF x = f THEN - o ELSE IF x = z THEN rest ELSE h.mem[x + 1]
           /\ x # f => r.mem[x + 2] = h.mem[x + 2]
      /\ r.mem[rest] = l /\ r.mem[rest + 1] = - z /\ r.mem[rest + 2] = - f
  BY DEF Taken, Link
<1>3. ASSUME NEW x \in B
      PROVE  /\ Px(B, x) \in Nat /\ Nx(B, x) \in Nat
             /\ Px(B, x) # 0 => Px(B, x) \in B /\ Nx(B, Px(B, x)) = x
             /\ Nx(B, x) # 0 => Nx(B, x) \in B /\ Px(B, Nx(B, x)) = x
             /\ x \in F => Px(B, x) \notin F
             /\ EndOf(B, x) \in Nat /\ EndOf(B, x) <= HeapSize + 1
             /\ x > f => x >= EndOf(B, f)
  <2>1. \A v \in B : Around(B, F, v)
    BY Neighbours
  <2> QED  BY <1>1, <2>1 DEF Around
<1>4. n \in Nat /\ n >= 1
  BY HeapAssumption
<1>5. rest > f /\ rest \in Address /\ \A w \in B : w <= f \/ w > rest
  <2>1. rest > f /\ f \in Nat
    BY <1>1, <1>4 DEF UsedHead
  <2>2. e \in Nat /\ e <= HeapSize + 1 /\ rest + 3 <= e /\ \A w \in B : w > f => w >= e
    BY <1>1, <1>3 DEF FreeHead
  <2> HIDE DEF e
  <2>3. rest <= HeapSize /\ rest >= 1
    BY <1>1, <2>1, <2>2
  <2>4. \A w \in B : w <= f \/ w > rest
    BY <1>1, <2>1, <2>2
  <2> QED  BY <1>1, <2>1, <2>3, <2>4 DEF Address
<1>6. ASSUME NEW x \in T \cup {0}
      PROVE  Nx(T, x) = IF x = rest THEN l ELSE IF x = q THEN rest ELSE Nx(F, x)
  <2>1. x \in (F \ {f}) \cup {0, rest} /\ \A w \in F : w <= f \/ w > rest
    BY <1>1, <1>5
  <2> QED  BY <1>1, <1>5, <2>1, OneMoved
<1>7. ASSUME NEW x \in S
      PROVE  /\ Nx(S, x) = IF x = f THEN rest ELSE IF x = rest THEN z ELSE Nx(B, x)
             /\ Px(S, x) = IF x = rest THEN f ELSE IF x = z THEN rest ELSE Px(B, x)
  BY <1>1, <1>5, OneMore
<1>8. (\A w : w \in T <=> (w \in F /\ w # f) \/ w = rest) /\ (\A w : w \in S <=> w \in B \/ w = rest)
  OBVIOUS
<1>9. /\ z \notin F /\ o \notin F /\ q \in F \cup {0} /\ z \in Nat /\ o \in Nat
      /\ z # 0 => z \in B
      /\ o # 0 => o \in B
  <2>1. f \in Int
    BY <1>1
  <2>2. q \in F \cup {0}
    BY <1>1, <2>1, PrevIs
  <2> HIDE DEF q
  <2> QED  BY <1>1, <1>3, <2>2
<1>10. e = IF z = 0 THEN HeapSize + 1 ELSE z
  BY DEF EndOf
<1>11. e - rest >= FreeHead
  BY <1>1, <1>3 DEF FreeHead
<1> HIDE DEF S, T, q, o, z, l, e
<1>12. rest \notin B /\ rest # 0 /\ rest \in T /\ rest \in S
  BY <1>1, <1>5, <1>8
<1>13. z # rest /\ o # rest /\ z # f /\ q # rest
  BY <1>1, <1>9, <1>12
<1>14. r.FMBlist = Nx(T, 0)
  <2>1. Nx(T, 0) = IF 0 = q THEN rest ELSE Nx(F, 0)
    BY <1>6, <1>12
  <2> QED  BY <1>1, <1>2, <2>1
<1>15. ASSUME NEW x \in B  PROVE Header(r.mem, S, T, x)
  <2>1. x # 0 /\ x # rest /\ x \in S /\ Header(h.mem, B, F, x)
    BY <1>1, <1>8, <1>12
  <2>2. CASE x = f
    <3>1. r.mem[x] = rest /\ r.mem[x + 1] = - o
      BY <1>2, <2>2
    <3>2. Nx(S, x) = rest /\ Px(S, x) = o /\ x \notin T
      BY <1>7, <1>8, <1>13, <2>1, <2>2 DEF o
    <3>3. Reference(T, rest) = rest /\ Reference(T, o) = - o
      BY <1>8, <1>9, <1>12, <1>13 DEF Reference
    <3> QED  BY <3>1, <3>2, <3>3 DEF Header
  <2>3. CASE x \in F /\ x # f
    <3>1. x # o /\ x # z /\ x \in T
      BY <1>8, <1>9, <2>3
    <3>2. h.mem[x] = Nx(F, x) /\ h.mem[x + 1] = - Nx(B, x) /\ h.mem[x + 2] = - Px(B, x)
      BY <2>1, <2>3 DEF Header
    <3>3. r.mem[x] = Nx(T, x)
      BY <1>2, <1>6, <2>1, <2>3, <3>1, <3>2
    <3>4. r.mem[x + 1] = - Nx(S, x) /\ r.mem[x + 2] = - Px(S, x)
      BY <1>2, <1>7, <2>1, <2>3, <3>1, <3>2
    <3> QED  BY <3>1, <3>3, <3>4 DEF Header
  <2>4. CASE x \notin F
    <3>1. x # f /\ x # q /\ x \notin T
      BY <1>8, <1>9, <2>1, <2>4
    <3>2. h.mem[x] = Reference(F, Nx(B, x)) /\ h.mem[x + 1] = Reference(F, Px(B, x))
      BY <2>1, <2>4 DEF Header
    <3>3. r.mem[x] = Reference(T, Nx(S, x))
      <4> DEFINE k == Nx(B, x)
      <4>1. (x = o <=> k = f) /\ k # rest /\ Nx(S, x) = k
        BY <1>1, <1>3, <1>7, <1>12, <2>1, <3>1 DEF o
      <4> HIDE DEF k
      <4>2. CASE x = o
        <5>1. r.mem[x] = - f /\ k = f /\ f \notin T
          BY <1>2, <1>1, <1>8, <1>12, <3>1, <4>1, <4>2
        <5> QED  BY <4>1, <5>1 DEF Reference
      <4>3. CASE x # o
        <5>1. r.mem[x] = Reference(F, k) /\ k # f
          BY <1>2, <3>1, <3>2, <4>1, <4>3 DEF k
        <5> QED  BY <1>8, <4>1, <5>1 DEF Reference
      <4> QED  BY <4>2, <4>3
    <3>4. r.mem[x + 1] = Reference(T, Px(S, x))
      <4> DEFINE k == Px(B, x)
      <4>1. (x = z <=> k = f) /\ k # rest
        BY <1>1, <1>3, <1>12, <2>1 DEF z
      <4>2. Px(S, x) = IF x = z THEN rest ELSE k
        BY <1>7, <2>1
      <4> HIDE DEF k
      <4>3. CASE x = z
        <5>1. r.mem[x + 1] = rest /\ Reference(T, rest) = rest
          BY <1>2, <1>12, <3>1, <4>3 DEF Reference
        <5> QED  BY <4>2, <4>3, <5>1
      <4>4. CASE x # z
        <5>1. r.mem[x + 1] = Reference(F, k) /\ k # f
          BY <1>2, <3>1, <3>2, <4>1, <4>4 DEF k
        <5> QED  BY <1>8, <4>1, <4>2, <4>4, <5>1 DEF Reference
      <4> QED  BY <4>3, <4>4
    <3> QED  BY <3>1, <3>3, <3>4 DEF Header
  <2> QED  BY <2>2, <2>3, <2>4
<1>16. Header(r.mem, S, T, rest)
  <2>1. Nx(S, rest) = z /\ Px(S, rest) = f /\ Nx(T, rest) = l
    <3>1. rest # f
      BY <1>1, <1>12
    <3> QED  BY <1>6, <1>7, <1>12, <3>1
  <2> QED  BY <1>2, <1>12, <2>1 DEF Header
<1>17. ASSUME NEW x \in S
       PROVE  EndOf(S, x) = IF x = f THEN rest ELSE IF x = rest THEN e ELSE EndOf(B, x)
  <2>1. Nx(S, x) = IF x = f THEN rest ELSE IF x = rest THEN z ELSE Nx(B, x)
    BY <1>7
  <2> QED  BY <1>10, <1>12, <2>1 DEF EndOf
<1>18. ASSUME NEW x \in T  PROVE Nx(S, x) \notin T /\ EndOf(S, x) - x >= FreeHead
  <2>0. x \in S
    BY <1>1, <1>8
  <2>1. CASE x = rest
    <3>1. Nx(S, x) = z /\ EndOf(S, x) = e
      BY <1>1, <1>7, <1>12, <1>17, <2>0, <2>1
    <3> QED  BY <1>8, <1>9, <1>11, <1>13, <2>1, <3>1
  <2>2. CASE x # rest
    <3>1. x \in F /\ x # f /\ x \in B
      BY <1>1, <1>8, <2>2
    <3>2. Nx(S, x) = Nx(B, x) /\ EndOf(S, x) = EndOf(B, x)
      BY <1>7, <1>17, <2>0, <2>2, <3>1
    <3>3. Nx(B, x) # rest
      BY <1>3, <1>12, <3>1
    <3> QED  BY <1>1, <1>8, <3>1, <3>2, <3>3
  <2> QED  BY <2>1, <2>2
<1>19. b[1] = f + UsedHead /\ b[2] = n
  OBVIOUS
<1> HIDE DEF b
<1>20. ASSUME NEW x \in S, x \notin T
       PROVE  \E c \in H \cup {b} : c[1] = x + UsedHead /\ c[1] + c[2] <= EndOf(S, x)
  <2>0. x # rest /\ x \in B
    BY <1>8, <1>20
  <2>1. CASE x = f
    <3>1. EndOf(S, x) = rest /\ b[1] + b[2] = rest
      BY <1>17, <1>19, <2>1
    <3> QED  BY <1>5, <1>19, <2>1, <3>1
  <2>2. CASE x # f
    <3>1. x \notin F /\ EndOf(S, x) = EndOf(B, x)
      BY <1>8, <1>17, <1>20, <2>0, <2>2
    <3> QED  BY <1>1, <2>0, <3>1
  <2> QED  BY <2>1, <2>2
<1>21. b[1] - UsedHead = f
  BY <1>1, <1>19 DEF UsedHead
<1>22. \A c \in H \cup {b} : c[1] - UsedHead \in S /\ c[1] - UsedHead \notin T
  BY <1>1, <1>8, <1>12, <1>21
<1>23. \A c, d \in H \cup {b} : c[1] = d[1] => c = d
  <2>1. \A c \in H : c[1] # b[1]
    BY <1>1, <1>21
  <2> QED  BY <1>1, <2>1
<1>24. T \subseteq S /\ S \subseteq Address /\ 1 \in S /\ \A x \in S : Header(r.mem, S, T, x)
  BY <1>1, <1>5, <1>8, <1>15, <1>16
<1>25. HeapIs(r, H \cup {b}, S, T)
  BY <1>14, <1>18, <1>20, <1>22, <1>23, <1>24 DEF HeapIs
<1> QED  BY <1>25 DEF S, T, b

(* CoKmalloc() with a block that is large enough.                          *)
Allocated(r, H, b) ==
  /\ b \in Address \X Requests
  /\ r \in [mem : [Address -> Int], FMBlist : {0} \cup Address]
  /\ \E B1, F1 \in SUBSET Address : HeapIs(r, H \cup {b}, B1, F1)

LEMMA AllocateIs ==
  ASSUME NEW h \in [mem : [Address -> Int], FMBlist : {0} \cup Address],
         NEW H \in Buffers, NEW B, NEW F, HeapIs(h, H, B, F),
         NEW i \in 1 .. Len(FreeList(h)), NEW f \in F, FreeList(h)[i] = f,
         NEW n \in Requests, NEW size, size = n + UsedHead, FreeSize(h, f) >= size
  PROVE  Allocated(Allocate(h, FreeList(h), i, size), H, <<f + UsedHead, n>>)
<1> DEFINE r == Allocate(h, FreeList(h), i, size)
           b == <<f + UsedHead, n>>
           e == EndOf(B, f)
           whole == e - f - size < 3
           rest == f + size
           l == Link(F, f, whole, rest)
           nf == Nx(F, f)
           nb == Nx(B, f)
           pb == Px(B, f)
<1>1. n \in Nat /\ n >= 1 /\ size \in Nat /\ size >= 3 /\ h.mem \in [Address -> Int]
      /\ h.FMBlist \in {0} \cup Address
  BY HeapAssumption DEF UsedHead
<1>2. Taken(r, h, B, F, f, whole, rest)
  BY <1>1, TakenHeaders
<1>3. FreeSize(h, f) = e - f /\ rest <= e
  <2>1. Written(r, h, B, F, f, size)
    BY <1>1, AllocateWords
  <2> HIDE DEF r
  <2> QED  BY <2>1 DEF Written
<1>4. /\ r = [mem |-> r.mem, FMBlist |-> r.FMBlist]
      /\ r.FMBlist = IF Px(F, f) = 0 THEN l ELSE h.FMBlist
      /\ r.mem = [a \in Address |-> r.mem[a]]
      /\ \A a \in Address :
           r.mem[a] = IF a = f THEN (IF whole THEN - nb ELSE rest)
                      ELSE IF a = f + 1 THEN - pb
                      ELSE IF Px(F, f) # 0 /\ a = Px(F, f) THEN l
                      ELSE IF nb # 0 /\ a = 1 + nb THEN (IF whole THEN - f ELSE rest)
                      ELSE IF pb # 0 /\ a = pb THEN - f
                      ELSE IF ~whole /\ a = rest THEN nf
                      ELSE IF ~whole /\ a = rest + 1 THEN - nb
                      ELSE IF ~whole /\ a = rest + 2 THEN - f
                      ELSE h.mem[a]
  <2>1. Written(r, h, B, F, f, size)
    BY <1>1, AllocateWords
  <2> HIDE DEF r
  <2> QED  BY <2>1 DEF Written
<1>5. F \subseteq B /\ HeapSize \in Nat /\ f \in B /\ B \in SUBSET Address /\ F \in SUBSET Address
  BY HeapAssumption DEF HeapIs
<1>6. /\ f \in Nat /\ f + 2 \in Address /\ nb \in Nat /\ pb \in Nat
      /\ e \in Nat /\ e >= f + 3 /\ e <= HeapSize + 1
  <2>1. \A v \in B : Around(B, F, v)
    BY Neighbours
  <2> QED  BY <1>5, <2>1 DEF Around
<1>7. nf \in F \cup {0} /\ nf \in Int
  <2>1. f \in Int
    BY <1>6
  <2> QED  BY <1>5, <2>1, NextIs
<1> HIDE DEF r, e, nf, nb, pb
<1>8. rest = f + UsedHead + n /\ rest \in Nat
  BY <1>1, <1>6 DEF UsedHead
<1>9. b \in Address \X Requests
  BY <1>6 DEF UsedHead
<1> HIDE DEF rest, b
<1>10. ASSUME whole  PROVE HeapIs(r, H \cup {b}, B, F \ {f})
  <2>1. Taken(r, h, B, F, f, TRUE, rest)
    BY <1>2, <1>10 DEF Taken, Link
  <2>2. f + UsedHead + n <= EndOf(B, f)
    BY <1>3, <1>8 DEF e
  <2> QED  BY <2>1, <2>2, WholeIs DEF b
<1>11. ASSUME ~whole
       PROVE  /\ HeapIs(r, H \cup {b}, B \cup {rest}, (F \ {f}) \cup {rest})
              /\ rest \in Address
  <2>1. Taken(r, h, B, F, f, FALSE, rest)
    BY <1>2, <1>11 DEF Taken, Link
  <2>2. rest + FreeHead <= EndOf(B, f)
    <3>1. rest + 3 <= e
      BY <1>1, <1>6, <1>8, <1>11 DEF rest
    <3> QED  BY <3>1 DEF FreeHead, e
  <2>3. HeapIs(r, H \cup {b}, B \cup {rest}, (F \ {f}) \cup {rest})
    BY <1>8, <2>1, <2>2, PartIs DEF b
  <2>4. rest \in Address
    BY <2>3 DEF HeapIs
  <2> QED  BY <2>3, <2>4
<1>12. \E B1, F1 \in SUBSET Address : HeapIs(r, H \cup {b}, B1, F1)
  <2>1. CASE whole
    <3>1. F \ {f} \in SUBSET Address
      BY <1>5
    <3> QED  BY <1>5, <1>10, <2>1, <3>1
  <2>2. CASE ~whole
    <3>1. B \cup {rest} \in SUBSET Address /\ (F \ {f}) \cup {rest} \in SUBSET Address
      BY <1>5, <1>11, <2>2
    <3> QED  BY <1>11, <2>2, <3>1
  <2> QED  BY <2>1, <2>2
<1>13. l \in Int /\ l \in {0} \cup Address
  <2>1. CASE whole
    BY <1>5, <1>7, <2>1 DEF Link, nf
  <2>2. CASE ~whole
    BY <1>8, <1>11, <2>2 DEF Link
  <2> QED  BY <2>1, <2>2
<1> HIDE DEF l, whole
<1>14. \A a \in Address : r.mem[a] \in Int
  <2>1. \A a \in Address : h.mem[a] \in Int
    BY <1>1
  <2>2. - nb \in Int /\ - pb \in Int /\ - f \in Int /\ rest \in Int
    BY <1>6, <1>8
  <2>3. \A a \in Address : r.mem[a] \in {l, nf, - nb, - pb, - f, rest, h.mem[a]}
    BY <1>4
  <2> QED  BY <1>7, <1>13, <2>1, <2>2, <2>3
<1>16. r.mem \in [Address -> Int]
  BY <1>4, <1>14
<1>17. r.FMBlist \in {0} \cup Address
  BY <1>1, <1>4, <1>13
<1>18. r \in [mem : [Address -> Int], FMBlist : {0} \cup Address]
  BY <1>4, <1>16, <1>17
<1> QED  BY <1>9, <1>12, <1>18 DEF r, b, Allocated

(* CoKmalloc() finds no block, or takes one from the list.                 *)
Takes(n, B, F, i) ==
  LET f == FreeList(heap)[i]
  IN  /\ i \in 1 .. Len(FreeList(heap)) /\ f \in F /\ FreeSize(heap, f) >= n + UsedHead
      /\ heap' = Allocate(heap, FreeList(heap), i, n + UsedHead)
      /\ held' = held \cup {<<f + UsedHead, n>>}

LEMMA KmallocTakes ==
  ASSUME HeapInv, NEW n \in Requests, CoKmalloc(n), NEW B, NEW F, HeapIs(heap, held, B, F)
  PROVE  UNCHANGED <<heap, held>> \/ \E i : Takes(n, B, F, i)
<1> DEFINE list == FreeList(heap)
           size == n + UsedHead
           fits == {i \in DOMAIN list : FreeSize(heap, list[i]) >= size}
<1>1. CASE fits = {}
  BY <1>1 DEF CoKmalloc
<1>2. CASE fits # {}
  <2> DEFINE i == Min(fits)
  <2>1. held \in Buffers
    BY DEF HeapInv, HeapTypeOK, Buffers
  <2>2. Sorts(list, F)
    BY <2>1, FreeListIs
  <2>3. DOMAIN list = 1 .. Len(list) /\ Len(list) \in Nat /\ \A j \in 1 .. Len(list) : list[j] \in F
    <3> HIDE DEF list
    <3> QED  BY <2>2 DEF Sorts
  <2>4. i \in fits
    <3>1. fits \in SUBSET Nat
      <4> HIDE DEF list
      <4> QED  BY <2>3
    <3> HIDE DEF fits
    <3> QED  BY <1>2, <3>1, LeastOf
  <2>5. i \in 1 .. Len(list) /\ list[i] \in F /\ FreeSize(heap, list[i]) >= size
    BY <2>3, <2>4
  <2>6. heap' = Allocate(heap, list, i, size) /\ held' = held \cup {<<list[i] + UsedHead, n>>}
    BY <1>2 DEF CoKmalloc
  <2> HIDE DEF i
  <2>7. Takes(n, B, F, i)
    BY <2>5, <2>6 DEF Takes
  <2> QED  BY <2>7
<1> QED  BY <1>1, <1>2

LEMMA KmallocKeepsHeap ==
  ASSUME HeapInv, NEW n \in Requests, CoKmalloc(n)
  PROVE  HeapInv'
<1>1. PICK B, F \in SUBSET Address : HeapIs(heap, held, B, F)
  BY DEF HeapInv
<1>2. HeapTypeOK /\ held \in Buffers
      /\ heap \in [mem : [Address -> Int], FMBlist : {0} \cup Address]
  BY DEF HeapInv, HeapTypeOK, Buffers
<1>3. CASE UNCHANGED <<heap, held>>
  BY <1>3, HeapStutter
<1>4. ASSUME NEW i, Takes(n, B, F, i)  PROVE HeapInv'
  <2> DEFINE f == FreeList(heap)[i]
             size == n + UsedHead
             r == Allocate(heap, FreeList(heap), i, size)
             b == <<f + UsedHead, n>>
  <2>1. /\ i \in 1 .. Len(FreeList(heap)) /\ f \in F /\ FreeSize(heap, f) >= size
        /\ heap' = r /\ held' = held \cup {b} /\ FreeList(heap)[i] = f /\ size = n + UsedHead
    BY <1>4 DEF Takes
  <2> HIDE DEF f, size
  <2>2. Allocated(r, held, b)
    BY <1>1, <1>2, <2>1, AllocateIs
  <2> HIDE DEF r, b
  <2>3. held' \subseteq Address \X Requests
    BY <1>2, <2>1, <2>2 DEF HeapTypeOK, Allocated
  <2>4. HeapTypeOK'
    BY <2>1, <2>2, <2>3 DEF HeapTypeOK, Allocated
  <2>5. \E B1, F1 \in SUBSET Address : HeapIs(heap', held', B1, F1)
    BY <2>1, <2>2 DEF Allocated
  <2> QED  BY <2>4, <2>5 DEF HeapInv
<1> QED  BY <1>1, <1>3, <1>4, KmallocTakes

-----------------------------------------------------------------------------
(* No call writes into a buffer that is held before and after it, but for  *)
(* the writes of its holder.                                               *)
Kept(b) == \A a \in Words(b) : heap'.mem[a] = heap.mem[a]

LEMMA KmallocKeepsWords ==
  ASSUME HeapInv, NEW n \in Requests, CoKmalloc(n), NEW b \in held
  PROVE  Kept(b)
<1>1. PICK B, F \in SUBSET Address : HeapIs(heap, held, B, F)
  BY DEF HeapInv
<1>2. held \in Buffers
  BY DEF HeapInv, HeapTypeOK, Buffers
<1>3. OwnBlock(B, b)
  BY <1>1, <1>2, WordsApart
<1>4. ASSUME NEW i, Takes(n, B, F, i)  PROVE Kept(b)
  <2> DEFINE f == FreeList(heap)[i]
             size == n + UsedHead
             e == EndOf(B, f)
             rest == f + size
             q == Px(F, f)
             o == Px(B, f)
             z == Nx(B, f)
  <2>1. /\ i \in 1 .. Len(FreeList(heap)) /\ f \in F /\ FreeSize(heap, f) >= size
        /\ heap' = Allocate(heap, FreeList(heap), i, size) /\ FreeList(heap)[i] = f
    BY <1>4 DEF Takes
  <2>2. size \in Nat /\ size >= 3
    BY HeapAssumption DEF UsedHead
  <2> HIDE DEF f, size
  <2>3. Written(heap', heap, B, F, f, size)
    BY <1>1, <1>2, <2>1, <2>2, AllocateWords
  <2>4. /\ f \in B /\ f # b[1] - UsedHead /\ q \in F \cup {0} /\ F \subseteq B /\ f \in Int
    <3>1. f \in B /\ b[1] - UsedHead \notin F /\ F \subseteq B /\ f \in Int /\ F \in SUBSET Address
      BY <1>1, <2>1, HeapAssumption DEF HeapIs, Address
    <3> QED  BY <2>1, <3>1, PrevIs
  <2>5. /\ f \in Nat /\ e \in Nat /\ e >= f + 3
        /\ z \in Nat /\ (z # 0 => z \in B) /\ (o # 0 => o \in B)
    <3>1. Around(B, F, f)
      BY <1>1, <1>2, <2>4, Neighbours
    <3> QED  BY <3>1 DEF Around
  <2> HIDE DEF e, q, o, z
  <2> SUFFICES ASSUME NEW a \in Words(b)  PROVE heap'.mem[a] = heap.mem[a]
    BY DEF Kept
  <2>6. a \in Address /\ a \notin f .. e - 1 /\ \A x \in B : a # x /\ a # x + 1
    BY <1>3, <2>4 DEF OwnBlock, e
  <2>7. /\ a # f /\ a # f + 1 /\ (q # 0 => a # q) /\ (o # 0 => a # o) /\ (z # 0 => a # 1 + z)
    <3>1. 1 + z = z + 1
      BY <2>5
    <3> QED  BY <2>4, <2>5, <2>6, <3>1
  <2>8. ~(e - f - size < 3) => a # rest /\ a # rest + 1 /\ a # rest + 2
    BY <2>2, <2>5, <2>6
  <2> HIDE DEF rest
  <2> QED  BY <2>3, <2>6, <2>7, <2>8 DEF Written, e, q, o, z, rest
<1>5. ASSUME UNCHANGED <<heap, held>>  PROVE Kept(b)
  BY <1>5 DEF Kept
<1> QED  BY <1>1, <1>4, <1>5, KmallocTakes

LEMMA KfreeKeepsWords ==
  ASSUME HeapInv, NEW d \in held, CoKfree(d), NEW b \in held \ {d}
  PROVE  Kept(b)
<1>1. PICK B, F \in SUBSET Address : HeapIs(heap, held, B, F)
  BY DEF HeapInv
<1>2. held \in Buffers
  BY DEF HeapInv, HeapTypeOK, Buffers
<1>3. OwnBlock(B, b)
  BY <1>1, <1>2, WordsApart
<1> DEFINE u == d[1] - UsedHead
           c == Joint(B, F, u)
           o == Ahead(B, F, u)
           z == Behind(B, F, u)
           q == Px(F, u)
<1>4. /\ u \in B /\ u \notin F /\ b[1] - UsedHead # u /\ b[1] - UsedHead \notin F
      /\ F \subseteq B /\ F \in SUBSET Address /\ u \in Int
  <2>1. b[1] # d[1]
    BY <1>1 DEF HeapIs
  <2>2. b[1] \in Nat /\ d[1] \in Nat
    BY <1>2, BufferFacts
  <2>3. b[1] - UsedHead # u
    BY <2>1, <2>2 DEF UsedHead
  <2>4. u \in B /\ u \notin F /\ b[1] - UsedHead \notin F
    BY <1>1 DEF HeapIs
  <2>5. F \subseteq B /\ B \subseteq Address /\ F \in SUBSET Address
    BY <1>1 DEF HeapIs
  <2>6. u \in Int
    <3> HIDE DEF u
    <3> QED  BY <2>4, <2>5, HeapAssumption DEF Address
  <2> QED  BY <2>3, <2>4, <2>5, <2>6
<1>5. heap' = Release(heap, u)
  <2>1. IsBlock(heap, u)
    <3> HIDE DEF u
    <3> QED  BY <1>1, <1>2, <1>4, IsBlockTrue
  <2> QED  BY <2>1 DEF CoKfree
<1> HIDE DEF u
<1>6. Freed(heap', heap, B, F, u)
  BY <1>1, <1>2, <1>4, <1>5, ReleaseWords
<1>7. /\ c \in B /\ c # b[1] - UsedHead
      /\ o # 0 => o \in B
      /\ z \in Nat /\ (z # 0 => z \in B)
      /\ q \in F \cup {0}
  <2>1. Joins(B, F, u)
    BY <1>1, <1>2, <1>4, JoinFacts
  <2>2. c = u \/ c \in F
    BY DEF Joint
  <2> QED  BY <1>4, <2>1, <2>2, PrevIs DEF Joins
<1>8. c \in Nat /\ c + 2 \in c .. EndOf(B, c) - 1
  <2>1. Around(B, F, c)
    BY <1>1, <1>2, <1>7, Neighbours
  <2> DEFINE e == EndOf(B, c)
  <2>2. e \in Nat /\ e >= c + 3 /\ c \in Nat
    BY <2>1 DEF Around
  <2> HIDE DEF e, c
  <2>3. c + 2 \in c .. e - 1
    BY <2>2
  <2> QED  BY <2>2, <2>3 DEF e
<1> HIDE DEF c, o, z, q
<1> SUFFICES ASSUME NEW a \in Words(b)  PROVE heap'.mem[a] = heap.mem[a]
  BY DEF Kept
<1>9. a \in Address /\ a # c + 2 /\ \A x \in B : a # x /\ a # x + 1
  BY <1>3, <1>7, <1>8 DEF OwnBlock
<1>10. /\ a # c /\ a # c + 1 /\ (q # 0 => a # q) /\ (o # 0 => a # o) /\ (z # 0 => a # 1 + z)
  <2>1. 1 + z = z + 1
    BY <1>7
  <2> QED  BY <1>4, <1>7, <1>9, <2>1
<1> QED  BY <1>6, <1>9, <1>10 DEF Freed, c, o, z, q

LEMMA WriteKeepsWords ==
  ASSUME HeapInv, NEW d \in held, Write(d), NEW b \in held \ {d}
  PROVE  Kept(b)
<1>1. PICK B, F \in SUBSET Address : HeapIs(heap, held, B, F)
  BY DEF HeapInv
<1>2. held \in Buffers /\ heap.mem \in [Address -> Int]
      /\ heap = [mem |-> heap.mem, FMBlist |-> heap.FMBlist]
  BY DEF HeapInv, HeapTypeOK, Buffers
<1>3. OwnBlock(B, b) /\ OwnBlock(B, d)
  BY <1>1, <1>2, WordsApart
<1>4. d[1] - UsedHead \in B /\ d[1] - UsedHead # b[1] - UsedHead
  <2>1. b[1] # d[1]
    BY <1>1 DEF HeapIs
  <2>2. b[1] \in Nat /\ d[1] \in Nat
    BY <1>2, BufferFacts
  <2> QED  BY <1>1, <2>1, <2>2 DEF HeapIs, UsedHead
<1> SUFFICES ASSUME NEW a \in Words(b)  PROVE heap'.mem[a] = heap.mem[a]
  BY DEF Kept
<1>5. a \in Address /\ a \notin Words(d)
  BY <1>3, <1>4 DEF OwnBlock
<1> QED  BY <1>2, <1>5 DEF Write
=============================================================================
