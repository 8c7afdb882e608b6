--------------------------- MODULE CoKernelProofs ---------------------------
(***************************************************************************)
(* What the operators of CoKernel do to the READY list, for every list and *)
(* every priority assignment: the lemmas on which the proofs about the     *)
(* components rest.                                                        *)
(***************************************************************************)
EXTENDS CoKernel, SequenceTheorems, WellFoundedInduction, TLAPS

-----------------------------------------------------------------------------
(* Inserting into and removing from a sequence. *)

(* A non-empty set of naturals has a least element.                        *)
LEMMA LeastNat ==
  ASSUME NEW S \in SUBSET Nat, S # {}
  PROVE  \E m \in S : \A n \in S : m <= n
<1>1. PICK m \in S : \A n \in S : <<n, m>> \notin OpToRel(<, Nat)
  BY WFMin, NatLessThanWellFounded, Zenon
<1>2. \A n \in S : ~(n < m)
  BY <1>1, Zenon DEF OpToRel
<1> QED  BY <1>2

(* InsertAt puts e at place i, moves what was from i on one place back,    *)
(* and leaves the rest of the sequence.                                    *)
LEMMA InsertAtFacts ==
  ASSUME NEW S, NEW s \in Seq(S), NEW i \in 1 .. Len(s) + 1, NEW e \in S
  PROVE  /\ InsertAt(s, i, e) \in Seq(S)
         /\ Len(InsertAt(s, i, e)) = Len(s) + 1
         /\ \A j \in 1 .. Len(s) + 1 :
              InsertAt(s, i, e)[j] = IF j < i THEN s[j]
                                     ELSE IF j = i THEN e ELSE s[j - 1]
<1> DEFINE a == SubSeq(s, 1, i - 1)
           b == SubSeq(s, i, Len(s))
<1>0. Len(s) \in Nat /\ \A j \in 1 .. Len(s) : s[j] \in S
  BY LenProperties, ElementOfSeq
<1>1. /\ a \in Seq(S) /\ Len(a) = i - 1
      /\ \A j \in 1 .. i - 1 : a[j] = s[j]
  <2>1. \A j \in 1 .. i - 1 : s[j] \in S  BY <1>0
  <2> QED  BY <1>0, <2>1, SubSeqProperties
<1>2. /\ b \in Seq(S) /\ Len(b) = Len(s) - i + 1
      /\ \A j \in 1 .. Len(s) - i + 1 : b[j] = s[i + j - 1]
  <2>1. \A j \in i .. Len(s) : s[j] \in S  BY <1>0
  <2> QED  BY <1>0, <2>1, SubSeqProperties
<1>3. <<e>> \in Seq(S) /\ Len(<<e>>) = 1 /\ <<e>>[1] = e
  OBVIOUS
<1> HIDE DEF a, b
<1>4. /\ a \o <<e>> \in Seq(S) /\ Len(a \o <<e>>) = i
      /\ \A j \in 1 .. i : (a \o <<e>>)[j] = IF j <= i - 1 THEN a[j] ELSE e
  <2>1. /\ a \o <<e>> \in Seq(S) /\ Len(a \o <<e>>) = Len(a) + Len(<<e>>)
        /\ \A j \in 1 .. Len(a) + Len(<<e>>) :
             (a \o <<e>>)[j] = IF j <= Len(a) THEN a[j] ELSE <<e>>[j - Len(a)]
    BY <1>1, <1>3, ConcatProperties
  <2> QED  BY <2>1, <1>0, <1>1, <1>3
<1> DEFINE c == a \o <<e>>
<1> HIDE DEF c
<1>5. c \in Seq(S) /\ Len(c) = i /\ \A j \in 1 .. i : c[j] = IF j <= i - 1 THEN a[j] ELSE e
  BY <1>4 DEF c
<1>6. InsertAt(s, i, e) = c \o b
  BY DEF InsertAt, a, b, c
<1>7. /\ c \o b \in Seq(S) /\ Len(c \o b) = Len(c) + Len(b)
      /\ \A j \in 1 .. Len(c) + Len(b) :
           (c \o b)[j] = IF j <= Len(c) THEN c[j] ELSE b[j - Len(c)]
  BY <1>2, <1>5, ConcatProperties
<1>8. ASSUME NEW j \in 1 .. Len(s) + 1
      PROVE  (c \o b)[j] = IF j < i THEN s[j] ELSE IF j = i THEN e ELSE s[j - 1]
  <2>1. CASE j <= i
    BY <2>1, <1>0, <1>1, <1>2, <1>5, <1>7
  <2>2. CASE j > i
    <3>1. (c \o b)[j] = b[j - i]  BY <2>2, <1>0, <1>2, <1>5, <1>7
    <3>2. j - i \in 1 .. Len(s) - i + 1  BY <2>2, <1>0
    <3> QED  BY <3>1, <3>2, <2>2, <1>0, <1>2
  <2>3. j <= i \/ j > i  BY <1>0
  <2> QED  BY <2>1, <2>2, <2>3, Zenon
<1> QED  BY <1>0, <1>2, <1>5, <1>6, <1>7, <1>8

(* RemoveAt takes out the element at place i and moves what was behind it  *)
(* one place forward.                                                      *)
LEMMA RemoveAtFacts ==
  ASSUME NEW S, NEW s \in Seq(S), NEW i \in 1 .. Len(s)
  PROVE  /\ RemoveAt(s, i) \in Seq(S)
         /\ Len(RemoveAt(s, i)) = Len(s) - 1
         /\ \A j \in 1 .. Len(s) - 1 :
              RemoveAt(s, i)[j] = IF j < i THEN s[j] ELSE s[j + 1]
<1> DEFINE a == SubSeq(s, 1, i - 1)
           b == SubSeq(s, i + 1, Len(s))
<1>0. Len(s) \in Nat /\ \A j \in 1 .. Len(s) : s[j] \in S
  BY LenProperties, ElementOfSeq
<1>1. /\ a \in Seq(S) /\ Len(a) = i - 1
      /\ \A j \in 1 .. i - 1 : a[j] = s[j]
  <2>1. \A j \in 1 .. i - 1 : s[j] \in S  BY <1>0
  <2> QED  BY <1>0, <2>1, SubSeqProperties
<1>2. /\ b \in Seq(S) /\ Len(b) = Len(s) - i
      /\ \A j \in 1 .. Len(s) - i : b[j] = s[i + j]
  <2>1. \A j \in i + 1 .. Len(s) : s[j] \in S  BY <1>0
  <2> QED  BY <1>0, <2>1, SubSeqProperties
<1> HIDE DEF a, b
<1>3. /\ a \o b \in Seq(S) /\ Len(a \o b) = Len(a) + Len(b)
      /\ \A j \in 1 .. Len(a) + Len(b) :
           (a \o b)[j] = IF j <= Len(a) THEN a[j] ELSE b[j - Len(a)]
  BY <1>1, <1>2, ConcatProperties
<1>4. RemoveAt(s, i) = a \o b
  BY DEF RemoveAt, a, b
<1>5. ASSUME NEW j \in 1 .. Len(s) - 1
      PROVE  (a \o b)[j] = IF j < i THEN s[j] ELSE s[j + 1]
  <2>1. CASE j < i
    BY <2>1, <1>0, <1>1, <1>2, <1>3
  <2>2. CASE j >= i
    <3>1. (a \o b)[j] = b[j - (i - 1)]  BY <2>2, <1>0, <1>1, <1>2, <1>3
    <3>2. j - (i - 1) \in 1 .. Len(s) - i  BY <2>2, <1>0
    <3> QED  BY <3>1, <3>2, <2>2, <1>0, <1>2
  <2>3. j < i \/ j >= i  BY <1>0
  <2> QED  BY <2>1, <2>2, <2>3, Zenon
<1> QED  BY <1>0, <1>1, <1>2, <1>3, <1>4, <1>5

-----------------------------------------------------------------------------
(* The range of a sequence and its injectivity. *)

(* Inserting e adds e to the range, and keeps an injective sequence that   *)
(* did not hold e injective.                                               *)
LEMMA InsertAtRange ==
  ASSUME NEW S, NEW s \in Seq(S), NEW i \in 1 .. Len(s) + 1, NEW e \in S
  PROVE  /\ Range(InsertAt(s, i, e)) = Range(s) \cup {e}
         /\ IsInjective(s) /\ e \notin Range(s) => IsInjective(InsertAt(s, i, e))
<1> DEFINE q == InsertAt(s, i, e)
<1>1. /\ q \in Seq(S)
      /\ Len(q) = Len(s) + 1
      /\ \A j \in 1 .. Len(s) + 1 :
           q[j] = IF j < i THEN s[j]
                           ELSE IF j = i THEN e ELSE s[j - 1]
  <2>1. q \in Seq(S)  BY InsertAtFacts
  <2>2. Len(q) = Len(s) + 1  BY InsertAtFacts
  <2>3. \A j \in 1 .. Len(s) + 1 :
          q[j] = IF j < i THEN s[j]
                          ELSE IF j = i THEN e ELSE s[j - 1]
    BY InsertAtFacts
  <2> QED  BY <2>1, <2>2, <2>3
<1> HIDE DEF q
<1>2. Len(s) \in Nat /\ DOMAIN s = 1 .. Len(s) /\ DOMAIN q = 1 .. Len(s) + 1
  BY <1>1, LenProperties
<1>3. Range(q) \subseteq Range(s) \cup {e}
  <2>1. ASSUME NEW j \in 1 .. Len(s) + 1  PROVE q[j] \in Range(s) \cup {e}
    <3>1. CASE j < i  BY <3>1, <1>1, <1>2 DEF Range
    <3>2. CASE j = i  BY <3>2, <1>1
    <3>3. CASE j > i
      <4>1. j - 1 \in 1 .. Len(s) /\ q[j] = s[j - 1]  BY <3>3, <1>1, <1>2
      <4> QED  BY <4>1, <1>2 DEF Range
    <3> QED  BY <3>1, <3>2, <3>3, <1>2
  <2> QED  BY <2>1, <1>2 DEF Range
<1>4. ASSUME NEW j \in 1 .. Len(s)  PROVE s[j] \in Range(q)
  <2>1. CASE j < i   BY <2>1, <1>1, <1>2 DEF Range
  <2>2. CASE j >= i
    <3>1. j + 1 \in 1 .. Len(s) + 1 /\ q[j + 1] = s[j]  BY <2>2, <1>1, <1>2
    <3> QED  BY <3>1, <1>2 DEF Range
  <2> QED  BY <2>1, <2>2, <1>2
<1>5. e \in Range(q)
  BY <1>1, <1>2 DEF Range
<1>6. Range(s) \subseteq Range(q)
  BY <1>2, <1>4 DEF Range
<1>7. ASSUME IsInjective(s), e \notin Range(s)  PROVE IsInjective(q)
  <2> SUFFICES ASSUME NEW a \in 1 .. Len(s) + 1, NEW b \in 1 .. Len(s) + 1,
                      q[a] = q[b], a < b
               PROVE  FALSE
    BY <1>2 DEF IsInjective
  <2>1. \A j, l \in 1 .. Len(s) : s[j] = s[l] => j = l
    BY <1>7, <1>2 DEF IsInjective
  <2>2. \A j \in 1 .. Len(s) : s[j] # e
    BY <1>7, <1>2 DEF Range
  <2> QED  BY <2>1, <2>2, <1>1, <1>2
<1> QED  BY <1>3, <1>5, <1>6, <1>7 DEF q

(* Removing the element at i from an injective sequence takes exactly that *)
(* element out of the range.                                               *)
LEMMA RemoveAtRange ==
  ASSUME NEW S, NEW s \in Seq(S), NEW i \in 1 .. Len(s), IsInjective(s)
  PROVE  /\ Range(RemoveAt(s, i)) = Range(s) \ {s[i]}
         /\ IsInjective(RemoveAt(s, i))
<1> DEFINE q == RemoveAt(s, i)
<1>1. /\ q \in Seq(S) /\ Len(q) = Len(s) - 1
      /\ \A j \in 1 .. Len(s) - 1 : q[j] = IF j < i THEN s[j] ELSE s[j + 1]
  BY RemoveAtFacts
<1> HIDE DEF q
<1>2. Len(s) \in Nat /\ DOMAIN s = 1 .. Len(s) /\ DOMAIN q = 1 .. Len(s) - 1
  BY <1>1, LenProperties
<1>3. \A j, l \in 1 .. Len(s) : s[j] = s[l] => j = l
  BY <1>2 DEF IsInjective
<1>4. Range(q) \subseteq Range(s) \ {s[i]}
  <2>1. ASSUME NEW j \in 1 .. Len(s) - 1  PROVE q[j] \in Range(s) \ {s[i]}
    <3>1. PICK l \in 1 .. Len(s) : l # i /\ q[j] = s[l]
      <4>1. CASE j < i  BY <4>1, <1>1, <1>2
      <4>2. CASE j >= i
        <5>1. j + 1 \in 1 .. Len(s) /\ q[j] = s[j + 1]  BY <4>2, <1>1, <1>2
        <5> QED  BY <5>1, <4>2, <1>2
      <4> QED  BY <4>1, <4>2, <1>2
    <3> QED  BY <3>1, <1>2, <1>3 DEF Range
  <2> QED  BY <2>1, <1>2 DEF Range
<1>5. ASSUME NEW j \in 1 .. Len(s), j # i  PROVE s[j] \in Range(q)
  <2>1. CASE j < i   BY <2>1, <1>1, <1>2 DEF Range
  <2>2. CASE j > i
    <3>1. j - 1 \in 1 .. Len(s) - 1 /\ q[j - 1] = s[j]  BY <2>2, <1>1, <1>2
    <3> QED  BY <3>1, <1>2 DEF Range
  <2> QED  BY <2>1, <2>2, <1>2, <1>5
<1>6. Range(s) \ {s[i]} \subseteq Range(q)
  BY <1>2, <1>5 DEF Range
<1>7. IsInjective(q)
  <2> SUFFICES ASSUME NEW a \in 1 .. Len(s) - 1, NEW b \in 1 .. Len(s) - 1,
                      q[a] = q[b], a < b
               PROVE  FALSE
    BY <1>2 DEF IsInjective
  <2> QED  BY <1>1, <1>2, <1>3
<1> QED  BY <1>4, <1>6, <1>7 DEF q

-----------------------------------------------------------------------------
(* PosOf finds the place of a member of the list.                          *)
LEMMA PosOfFacts ==
  ASSUME NEW S, NEW s \in Seq(S), NEW t \in Range(s)
  PROVE  PosOf(s, t) \in 1 .. Len(s) /\ s[PosOf(s, t)] = t
<1>1. \E i \in 1 .. Len(s) : s[i] = t
  BY LenProperties DEF Range
<1> QED  BY <1>1 DEF PosOf

(* The scan of InsertToTCBRdyList() ends at the first less urgent task or  *)
(* at the end of the list, and finds exactly one place.                    *)
LEMMA InsertPosFacts ==
  ASSUME NEW s \in Seq(Task), NEW prio \in [Task -> Nat], NEW p \in Nat
  PROVE  LET i == InsertPos(s, prio, p)
         IN  /\ i \in 1 .. Len(s) + 1
             /\ \A j \in 1 .. i - 1 : prio[s[j]] <= p
             /\ i <= Len(s) => p < prio[s[i]]
<1> DEFINE L == {i \in 1 .. Len(s) + 1 : i <= Len(s) => p < prio[s[i]]}
<1>1. Len(s) \in Nat /\ \A j \in 1 .. Len(s) : s[j] \in Task
  BY LenProperties, ElementOfSeq
<1>2. L \in SUBSET Nat /\ Len(s) + 1 \in L
  BY <1>1
<1>3. PICK i \in L : \A n \in L : i <= n
  BY <1>2, LeastNat
<1>4. \A j \in 1 .. i - 1 : prio[s[j]] <= p
  <2> SUFFICES ASSUME NEW j \in 1 .. i - 1  PROVE prio[s[j]] <= p
    OBVIOUS
  <2>1. j \in 1 .. Len(s) /\ j \notin L  BY <1>1, <1>3
  <2>2. ~(p < prio[s[j]])  BY <2>1, <1>1
  <2>3. prio[s[j]] \in Nat  BY <2>1, <1>1
  <2> QED  BY <2>2, <2>3
<1>5. \E n \in 1 .. Len(s) + 1 :
        /\ \A j \in 1 .. n - 1 : prio[s[j]] <= p
        /\ n <= Len(s) => p < prio[s[n]]
  BY <1>3, <1>4
<1> QED  BY <1>5 DEF InsertPos

-----------------------------------------------------------------------------
(* What the kernel functions leave, field by field. *)

(* InsertToTCBRdyList() makes t ready and puts it at its place in the      *)
(* list; it can only raise TaskSchedReq and leaves the lock, the running   *)
(* task and the free list alone.                                           *)
LEMMA InsertFacts ==
  ASSUME NEW k \in Kernel, NEW t \in Task
  PROVE  LET r == InsertToTCBRdyList(k, t)
         IN  /\ r \in Kernel
             /\ r.TCBRdy = InsertAt(k.TCBRdy, InsertPos(k.TCBRdy, k.prio, k.prio[t]), t)
             /\ Range(r.TCBRdy) = Range(k.TCBRdy) \cup {t}
             /\ IsInjective(k.TCBRdy) /\ t \notin Range(k.TCBRdy) => IsInjective(r.TCBRdy)
             /\ r.state = [k.state EXCEPT ![t] = "READY"]
             /\ r.prio = k.prio /\ r.FreeTCB = k.FreeTCB
             /\ r.TCBRunning = k.TCBRunning /\ r.TCBNext = k.TCBNext
             /\ r.OSSchedLock = k.OSSchedLock /\ r.OSIntNesting = k.OSIntNesting
             /\ r.PendSV = k.PendSV
             /\ k.TaskSchedReq => r.TaskSchedReq
<1> DEFINE r == InsertToTCBRdyList(k, t)
           i == InsertPos(k.TCBRdy, k.prio, k.prio[t])
<1>1. /\ k.TCBRdy \in Seq(Task) /\ k.prio \in [Task -> Nat]
      /\ k.robin \in Int /\ k.TaskSchedReq \in BOOLEAN
  BY DEF Kernel
<1>2. i \in 1 .. Len(k.TCBRdy) + 1
  BY <1>1, InsertPosFacts
<1> HIDE DEF i
<1>3. InsertAt(k.TCBRdy, i, t) \in Seq(Task)
  BY <1>1, <1>2, InsertAtFacts
<1>4. /\ Range(InsertAt(k.TCBRdy, i, t)) = Range(k.TCBRdy) \cup {t}
      /\ IsInjective(k.TCBRdy) /\ t \notin Range(k.TCBRdy) =>
           IsInjective(InsertAt(k.TCBRdy, i, t))
  BY <1>1, <1>2, InsertAtRange
<1>5. Slice \in Int
  BY KernelAssumption
<1>6. r.TCBRdy = InsertAt(k.TCBRdy, i, t)
  BY DEF InsertToTCBRdyList, i, Kernel
<1>7. r \in Kernel
  BY <1>1, <1>3, <1>5 DEF InsertToTCBRdyList, i, Kernel, TaskState
<1>8. /\ r.state = [k.state EXCEPT ![t] = "READY"]
      /\ r.prio = k.prio /\ r.FreeTCB = k.FreeTCB
      /\ r.TCBRunning = k.TCBRunning /\ r.TCBNext = k.TCBNext
      /\ r.OSSchedLock = k.OSSchedLock /\ r.OSIntNesting = k.OSIntNesting
      /\ r.PendSV = k.PendSV
      /\ k.TaskSchedReq => r.TaskSchedReq
  BY DEF InsertToTCBRdyList, Kernel
<1> QED  BY <1>4, <1>6, <1>7, <1>8 DEF i

(* RemoveFromTCBRdyList() changes the READY list only: a member goes out   *)
(* of it, and the removal of a task that is not in it empties it.          *)
LEMMA RemoveFacts ==
  ASSUME NEW k \in Kernel, NEW t \in Task
  PROVE  LET r == RemoveFromTCBRdyList(k, t)
         IN  /\ r \in Kernel
             /\ r = [k EXCEPT !.TCBRdy = r.TCBRdy]
             /\ r.state = k.state /\ r.prio = k.prio
             /\ r.FreeTCB = k.FreeTCB /\ r.TCBRunning = k.TCBRunning
             /\ r.TCBNext = k.TCBNext /\ r.OSSchedLock = k.OSSchedLock
             /\ r.OSIntNesting = k.OSIntNesting /\ r.PendSV = k.PendSV
             /\ r.TaskSchedReq = k.TaskSchedReq
             /\ IsInjective(k.TCBRdy) /\ t \in Range(k.TCBRdy) =>
                  /\ Range(r.TCBRdy) = Range(k.TCBRdy) \ {t}
                  /\ IsInjective(r.TCBRdy)
<1> DEFINE r == RemoveFromTCBRdyList(k, t)
           i == PosOf(k.TCBRdy, t)
<1>1. k.TCBRdy \in Seq(Task)
  BY DEF Kernel
<1>2. t \in Range(k.TCBRdy) => i \in 1 .. Len(k.TCBRdy) /\ k.TCBRdy[i] = t
  BY <1>1, PosOfFacts
<1> HIDE DEF i
<1>3. t \in Range(k.TCBRdy) => RemoveAt(k.TCBRdy, i) \in Seq(Task)
  BY <1>1, <1>2, RemoveAtFacts
<1>4. IsInjective(k.TCBRdy) /\ t \in Range(k.TCBRdy) =>
         /\ Range(RemoveAt(k.TCBRdy, i)) = Range(k.TCBRdy) \ {t}
         /\ IsInjective(RemoveAt(k.TCBRdy, i))
  BY <1>1, <1>2, RemoveAtRange
<1>5. r = [k EXCEPT !.TCBRdy = r.TCBRdy] /\ r \in Kernel
  <2> DEFINE rdy == IF t \in Range(k.TCBRdy) THEN RemoveAt(k.TCBRdy, i) ELSE <<>>
  <2>1. rdy \in Seq(Task)  BY <1>3
  <2>2. r = [k EXCEPT !.TCBRdy = rdy]  BY DEF RemoveFromTCBRdyList, i
  <2> HIDE DEF rdy
  <2>3. r.TCBRdy = rdy /\ r \in Kernel  BY <2>1, <2>2 DEF Kernel
  <2> QED  BY <2>2, <2>3
<1>6. t \in Range(k.TCBRdy) => r.TCBRdy = RemoveAt(k.TCBRdy, i)
  BY DEF RemoveFromTCBRdyList, i, Kernel
<1>7. \A q : LET e == [k EXCEPT !.TCBRdy = q]
             IN
                /\ e.state = k.state /\ e.prio = k.prio
                /\ e.FreeTCB = k.FreeTCB /\ e.TCBRunning = k.TCBRunning
                /\ e.TCBNext = k.TCBNext /\ e.OSSchedLock = k.OSSchedLock
                /\ e.OSIntNesting = k.OSIntNesting /\ e.PendSV = k.PendSV
                /\ e.TaskSchedReq = k.TaskSchedReq
  BY DEF Kernel
<1> HIDE DEF r
<1>8. /\ r.state = k.state /\ r.prio = k.prio
      /\ r.FreeTCB = k.FreeTCB /\ r.TCBRunning = k.TCBRunning
      /\ r.TCBNext = k.TCBNext /\ r.OSSchedLock = k.OSSchedLock
      /\ r.OSIntNesting = k.OSIntNesting /\ r.PendSV = k.PendSV
      /\ r.TaskSchedReq = k.TaskSchedReq
  BY <1>5, <1>7
<1> QED  BY <1>4, <1>5, <1>6, <1>8 DEF r

(* Schedule() and what it is made of.  SwitchTo takes the task off the     *)
(* READY list and makes it TCBNext; nothing of it touches the lock.        *)
LEMMA SwitchToFacts ==
  ASSUME NEW k \in Kernel, NEW t \in Task
  PROVE  LET r == SwitchTo(k, t)
         IN  /\ r \in Kernel
             /\ IsInjective(k.TCBRdy) /\ t \in Range(k.TCBRdy) =>
                  /\ Range(r.TCBRdy) = Range(k.TCBRdy) \ {t}
                  /\ IsInjective(r.TCBRdy)
             /\ r.TCBRdy = RemoveFromTCBRdyList(k, t).TCBRdy
             /\ r.state = [k.state EXCEPT ![t] = "RUNNING"]
             /\ r.TCBNext = t /\ r.PendSV = TRUE
             /\ r.prio = k.prio /\ r.FreeTCB = k.FreeTCB
             /\ r.TCBRunning = k.TCBRunning
             /\ r.OSSchedLock = k.OSSchedLock /\ r.OSIntNesting = k.OSIntNesting
             /\ r.TaskSchedReq = k.TaskSchedReq
<1> DEFINE k1 == RemoveFromTCBRdyList(k, t)
           r  == SwitchTo(k, t)
<1>1. /\ k1 \in Kernel
      /\ k1 = [k EXCEPT !.TCBRdy = k1.TCBRdy]
      /\ IsInjective(k.TCBRdy) /\ t \in Range(k.TCBRdy) =>
           /\ Range(k1.TCBRdy) = Range(k.TCBRdy) \ {t}
           /\ IsInjective(k1.TCBRdy)
  BY RemoveFacts
<1>2. r = [k1 EXCEPT !.state   = [@ EXCEPT ![t] = "RUNNING"],
                     !.TCBNext = t,
                     !.robin   = IF k.prio[t] = RdyPrio(k1) THEN Slice ELSE @,
                     !.PendSV  = TRUE]
  BY DEF SwitchTo, SwitchContext
<1> HIDE DEF k1, r
<1>3. Slice \in Int
  BY KernelAssumption
<1>4. r \in Kernel
  BY <1>1, <1>2, <1>3 DEF Kernel, TaskState
<1>5. /\ k1.state = k.state /\ k1.prio = k.prio /\ k1.FreeTCB = k.FreeTCB
      /\ k1.TCBRunning = k.TCBRunning /\ k1.OSSchedLock = k.OSSchedLock
      /\ k1.OSIntNesting = k.OSIntNesting /\ k1.TaskSchedReq = k.TaskSchedReq
  BY <1>1 DEF Kernel
<1>6. /\ r.TCBRdy = k1.TCBRdy
      /\ r.state = [k1.state EXCEPT ![t] = "RUNNING"]
      /\ r.TCBNext = t /\ r.PendSV = TRUE
      /\ r.prio = k1.prio /\ r.FreeTCB = k1.FreeTCB
      /\ r.TCBRunning = k1.TCBRunning
      /\ r.OSSchedLock = k1.OSSchedLock /\ r.OSIntNesting = k1.OSIntNesting
      /\ r.TaskSchedReq = k1.TaskSchedReq
  BY <1>1, <1>2 DEF Kernel
<1> QED  BY <1>1, <1>4, <1>5, <1>6 DEF k1, r

(* Schedule() leaves the lock and the running task alone, and what it does *)
(* it does under CanSchedule only: keep the running task, or give the      *)
(* processor to the head of the READY list and put the running task, if it *)
(* still runs, into the list in its place.                                 *)
LEMMA ScheduleFacts ==
  ASSUME NEW k \in Kernel
  PROVE  LET r    == Schedule(k)
             cur  == k.TCBRunning
             head == Head(k.TCBRdy)
         IN  /\ r \in Kernel
             /\ r.prio = k.prio /\ r.FreeTCB = k.FreeTCB
             /\ r.TCBRunning = k.TCBRunning
             /\ r.OSSchedLock = k.OSSchedLock /\ r.OSIntNesting = k.OSIntNesting
             /\ \/ r = k
                \/ /\ CanSchedule(k)
                   /\ r = [k EXCEPT !.TaskSchedReq = FALSE]
                   /\ k.state[cur] = "RUNNING"
                \/ /\ CanSchedule(k)
                   /\ head \in Range(k.TCBRdy) /\ head \in Task
                   /\ r.TCBNext = head /\ r.PendSV = TRUE
                   /\ \/ /\ k.state[cur] # "RUNNING"
                         /\ r.state = [k.state EXCEPT ![head] = "RUNNING"]
                         /\ IsInjective(k.TCBRdy) =>
                              /\ IsInjective(r.TCBRdy)
                              /\ Range(r.TCBRdy) = Range(k.TCBRdy) \ {head}
                      \/ /\ k.state[cur] = "RUNNING"
                         /\ r.state = [k.state EXCEPT ![cur] = "READY", ![head] = "RUNNING"]
                         /\ IsInjective(k.TCBRdy) /\ cur \notin Range(k.TCBRdy) =>
                              /\ IsInjective(r.TCBRdy)
                              /\ Range(r.TCBRdy) = (Range(k.TCBRdy) \cup {cur}) \ {head}
<1> DEFINE r    == Schedule(k)
           cur  == k.TCBRunning
           head == Head(k.TCBRdy)
           k1   == [k EXCEPT !.TaskSchedReq = FALSE]
           k2   == InsertToTCBRdyList(k1, cur)
<1>1. CASE ~CanSchedule(k)
  <2>1. r = k  BY <1>1 DEF Schedule
  <2> QED  BY <2>1
<1>2. CASE CanSchedule(k)
  <2>1. /\ k1 \in Kernel
        /\ k1.TCBRdy = k.TCBRdy /\ k1.state = k.state
        /\ k1.prio = k.prio /\ k1.FreeTCB = k.FreeTCB
        /\ k1.TCBRunning = k.TCBRunning /\ k1.TCBNext = k.TCBNext
        /\ k1.OSSchedLock = k.OSSchedLock /\ k1.OSIntNesting = k.OSIntNesting
    BY DEF Kernel
  <2>2. k.TCBRdy \in Seq(Task) /\ k.TCBRdy # <<>> /\ cur \in Task
    BY <1>2 DEF CanSchedule, Kernel
  <2>3. head \in Task /\ head \in Range(k.TCBRdy)
    <3>1. Len(k.TCBRdy) \in Nat \ {0}  BY <2>2, EmptySeq
    <3>2. head = k.TCBRdy[1] /\ DOMAIN k.TCBRdy = 1 .. Len(k.TCBRdy)
      BY <2>2, LenProperties
    <3> QED  BY <2>2, <3>1, <3>2, ElementOfSeq DEF Range
  <2> HIDE DEF k1
  <2>4. CASE k.state[cur] # "RUNNING"
    <3>1. r = SwitchTo(k1, head)
      BY <1>2, <2>4 DEF Schedule, k1
    <3> HIDE DEF r, head
    <3>2. /\ r \in Kernel
          /\ IsInjective(k1.TCBRdy) /\ head \in Range(k1.TCBRdy) =>
               /\ Range(r.TCBRdy) = Range(k1.TCBRdy) \ {head}
               /\ IsInjective(r.TCBRdy)
          /\ r.state = [k1.state EXCEPT ![head] = "RUNNING"]
          /\ r.TCBNext = head /\ r.PendSV = TRUE
          /\ r.prio = k1.prio /\ r.FreeTCB = k1.FreeTCB
          /\ r.TCBRunning = k1.TCBRunning
          /\ r.OSSchedLock = k1.OSSchedLock /\ r.OSIntNesting = k1.OSIntNesting
      BY <2>1, <2>3, <3>1, SwitchToFacts
    <3> QED  BY <1>2, <2>1, <2>3, <2>4, <3>2 DEF head, r
  <2>5. CASE k.state[cur] = "RUNNING" /\ r = k1
    BY <1>2, <2>1, <2>5 DEF k1
  <2>6. CASE k.state[cur] = "RUNNING" /\ r # k1
    <3>1. r = SwitchTo(k2, head)
      BY <1>2, <2>6 DEF Schedule, k1
    <3>2. /\ k2 \in Kernel
          /\ Range(k2.TCBRdy) = Range(k.TCBRdy) \cup {cur}
          /\ IsInjective(k.TCBRdy) /\ cur \notin Range(k.TCBRdy) => IsInjective(k2.TCBRdy)
          /\ k2.state = [k.state EXCEPT ![cur] = "READY"]
          /\ k2.prio = k.prio /\ k2.FreeTCB = k.FreeTCB
          /\ k2.TCBRunning = k.TCBRunning
          /\ k2.OSSchedLock = k.OSSchedLock /\ k2.OSIntNesting = k.OSIntNesting
      <4> HIDE DEF k2, cur
      <4>1. k2 = InsertToTCBRdyList(k1, cur)  BY DEF k2
      <4>2. /\ k2 \in Kernel
            /\ Range(k2.TCBRdy) = Range(k1.TCBRdy) \cup {cur}
            /\ IsInjective(k1.TCBRdy) /\ cur \notin Range(k1.TCBRdy) => IsInjective(k2.TCBRdy)
            /\ k2.state = [k1.state EXCEPT ![cur] = "READY"]
            /\ k2.prio = k1.prio /\ k2.FreeTCB = k1.FreeTCB
            /\ k2.TCBRunning = k1.TCBRunning
            /\ k2.OSSchedLock = k1.OSSchedLock /\ k2.OSIntNesting = k1.OSIntNesting
        BY <2>1, <2>2, <4>1, InsertFacts
      <4> QED  BY <2>1, <4>2
    <3> HIDE DEF r, head, k2
    <3>3. /\ r \in Kernel
          /\ IsInjective(k2.TCBRdy) /\ head \in Range(k2.TCBRdy) =>
                  /\ Range(r.TCBRdy) = Range(k2.TCBRdy) \ {head}
                  /\ IsInjective(r.TCBRdy)
          /\ r.state = [k2.state EXCEPT ![head] = "RUNNING"]
          /\ r.TCBNext = head /\ r.PendSV = TRUE
          /\ r.prio = k2.prio /\ r.FreeTCB = k2.FreeTCB
          /\ r.TCBRunning = k2.TCBRunning
          /\ r.OSSchedLock = k2.OSSchedLock /\ r.OSIntNesting = k2.OSIntNesting
      BY <2>3, <3>1, <3>2, SwitchToFacts
    <3>4. r.state = [k.state EXCEPT ![cur] = "READY", ![head] = "RUNNING"]
      BY <3>2, <3>3
    <3> QED  BY <1>2, <2>3, <2>6, <3>2, <3>3, <3>4 DEF head, r
  <2> QED  BY <2>4, <2>5, <2>6
<1> QED  BY <1>1, <1>2

(* OsSchedLock() adds one to OSSchedLock and changes nothing else.         *)
LEMMA LockFacts ==
  ASSUME NEW k \in Kernel
  PROVE  LET r == OsSchedLock(k)
         IN  /\ r \in Kernel
             /\ r.OSSchedLock = k.OSSchedLock + 1
             /\ r.state = k.state /\ r.prio = k.prio
             /\ r.TCBRdy = k.TCBRdy /\ r.FreeTCB = k.FreeTCB
             /\ r.TCBRunning = k.TCBRunning /\ r.TCBNext = k.TCBNext
             /\ r.OSIntNesting = k.OSIntNesting /\ r.PendSV = k.PendSV
             /\ r.TaskSchedReq = k.TaskSchedReq
<1> DEFINE r == OsSchedLock(k)
<1>1. k.OSSchedLock + 1 \in Nat  BY DEF Kernel
<1>2. r = [k EXCEPT !.OSSchedLock = k.OSSchedLock + 1]
  BY DEF OsSchedLock
<1> HIDE DEF r
<1>3. /\ r \in Kernel
      /\ r.OSSchedLock = k.OSSchedLock + 1
      /\ r.state = k.state /\ r.prio = k.prio
      /\ r.TCBRdy = k.TCBRdy /\ r.FreeTCB = k.FreeTCB
      /\ r.TCBRunning = k.TCBRunning /\ r.TCBNext = k.TCBNext
      /\ r.OSIntNesting = k.OSIntNesting /\ r.PendSV = k.PendSV
      /\ r.TaskSchedReq = k.TaskSchedReq
  BY <1>1, <1>2 DEF Kernel
<1> QED  BY <1>3 DEF r

(* Raising TaskSchedReq changes nothing else.                              *)
LEMMA RequestFacts ==
  ASSUME NEW k \in Kernel
  PROVE  LET r == RequestSchedule(k)
         IN  /\ r \in Kernel
             /\ r.TaskSchedReq = TRUE
             /\ r.state = k.state /\ r.prio = k.prio
             /\ r.TCBRdy = k.TCBRdy /\ r.FreeTCB = k.FreeTCB
             /\ r.TCBRunning = k.TCBRunning /\ r.TCBNext = k.TCBNext
             /\ r.OSSchedLock = k.OSSchedLock /\ r.OSIntNesting = k.OSIntNesting
             /\ r.PendSV = k.PendSV
<1> DEFINE r == RequestSchedule(k)
<1>1. r = [k EXCEPT !.TaskSchedReq = TRUE]
  BY DEF RequestSchedule
<1> HIDE DEF r
<1>2. /\ r \in Kernel
      /\ r.TaskSchedReq = TRUE
      /\ r.state = k.state /\ r.prio = k.prio
      /\ r.TCBRdy = k.TCBRdy /\ r.FreeTCB = k.FreeTCB
      /\ r.TCBRunning = k.TCBRunning /\ r.TCBNext = k.TCBNext
      /\ r.OSSchedLock = k.OSSchedLock /\ r.OSIntNesting = k.OSIntNesting
      /\ r.PendSV = k.PendSV
  BY <1>1 DEF Kernel
<1> QED  BY <1>2 DEF r

(* The entry of SysTick_Handler() locks once, asks for a schedule and      *)
(* leaves the lists and the states alone.                                  *)
LEMMA SysTickEntryFacts ==
  ASSUME NEW k \in Kernel
  PROVE  /\ SysTickEntry(k) \in Kernel
         /\ \E c \in Int :
              SysTickEntry(k) = [k EXCEPT !.OSSchedLock  = k.OSSchedLock + 1,
                                          !.robin        = c,
                                          !.TaskSchedReq = TRUE]
<1> DEFINE c == IF k.robin < 0 THEN k.robin ELSE k.robin - 1
<1>1. k.OSSchedLock + 1 \in Nat /\ c \in Int  BY DEF Kernel
<1>2. SysTickEntry(k) = [k EXCEPT !.OSSchedLock  = k.OSSchedLock + 1,
                                  !.robin        = c,
                                  !.TaskSchedReq = TRUE]
  BY DEF SysTickEntry
<1> HIDE DEF c
<1> QED  BY <1>1, <1>2 DEF Kernel

(* PendSV_Handler() makes TCBNext the running task and opens the lock.     *)
LEMMA PendSVFacts ==
  ASSUME NEW k \in Kernel
  PROVE  /\ PendSV_Handler(k) \in Kernel
         /\ PendSV_Handler(k) = [k EXCEPT !.TCBRunning  = k.TCBNext,
                                          !.OSSchedLock = 0,
                                          !.PendSV      = FALSE]
BY DEF PendSV_Handler, Kernel

(* A device handler that brackets itself either changes nothing or is one  *)
(* Schedule() made under the lock it takes and gives back.                 *)
LEMMA DeviceFacts ==
  ASSUME NEW k \in Kernel
  PROVE  LET r == CoExitISR(CoEnterISR(k))
             s == Schedule(OsSchedLock(k))
         IN  \/ r = k
             \/ r = [s EXCEPT !.OSSchedLock = k.OSSchedLock]
<1> DEFINE k1 == [CoEnterISR(k) EXCEPT !.OSIntNesting = @ - 1]
<1>1. k.OSIntNesting \in Nat /\ k.OSSchedLock \in Nat  BY DEF Kernel
<1>2. k1 = k
  <2>1. CoEnterISR(k) = [k EXCEPT !.OSIntNesting = k.OSIntNesting + 1]
    BY DEF CoEnterISR, Inc8
  <2>2. CoEnterISR(k).OSIntNesting - 1 = k.OSIntNesting
    BY <2>1, <1>1 DEF Kernel
  <2>3. k1 = [CoEnterISR(k) EXCEPT !.OSIntNesting = k.OSIntNesting]
    BY <2>2
  <2>4. k1 = [k EXCEPT !.OSIntNesting = k.OSIntNesting]
    BY <2>1, <2>3 DEF Kernel
  <2> QED  BY <2>4 DEF Kernel
<1>3. CoExitISR(CoEnterISR(k)) =
        IF k1.OSIntNesting = 0 /\ k1.TaskSchedReq
        THEN [Schedule(OsSchedLock(k1)) EXCEPT !.OSSchedLock = @ - 1] ELSE k1
  BY DEF CoExitISR, Dec8
<1>4. Schedule(OsSchedLock(k)).OSSchedLock = k.OSSchedLock + 1
  <2> DEFINE m == OsSchedLock(k)
  <2>1. m \in Kernel /\ m.OSSchedLock = k.OSSchedLock + 1
    BY LockFacts
  <2> HIDE DEF m
  <2>2. Schedule(m).OSSchedLock = m.OSSchedLock
    BY <2>1, ScheduleFacts
  <2> QED  BY <2>1, <2>2 DEF m
<1>5. [Schedule(OsSchedLock(k)) EXCEPT !.OSSchedLock = @ - 1]
        = [Schedule(OsSchedLock(k)) EXCEPT !.OSSchedLock = k.OSSchedLock]
  BY <1>1, <1>4
<1> QED  BY <1>2, <1>3, <1>5
=============================================================================
