----------------------- MODULE InferenceBuffersProofs -----------------------
(***************************************************************************)
(* The invariant of InferenceBuffersInv, for any number of inferences,     *)
(* descriptors and pictures and any geometries, and the properties that    *)
(* follow from it. First what keeps the descriptor table accounted for,    *)
(* then a lemma for each action.                                           *)
(***************************************************************************)
EXTENDS InferenceBuffersInv, LabelDrawingProofs, SequenceTheorems, WellFoundedInduction,
        TLAPS

(* The sets the constants make.                                            *)
LEMMA Constants ==
    /\ N \in Nat /\ N > 0 /\ 0 \in Threads
    /\ \A t \in Threads : t = 0 \/ t \in Inferences
    /\ \A i \in Inferences : i \in Threads /\ i \in Nat /\ i # 0
    /\ \A i \in Inferences, k \in Kinds : <<i, k>> \in Buffers
    /\ \A i \in Inferences : Src(i) \in Buffers /\ Rgba(i) \in Buffers
    /\ \A b \in Buffers : b[1] \in Inferences /\ b[2] \in Kinds /\ b = <<b[1], b[2]>>
    /\ \A f \in Fds : f \in Nat /\ f # 0
  BY BoundAssumption DEF Threads, Inferences, Buffers, Kinds, Src, Rgba, Fds

(* What one buffer, and one allocation, has.                               *)
BufferHas(d) == IF d.len # 0 THEN d.fd ELSE 0
HeapHas(a) == IF a.at \in {"ioctl", "mmap", "close"} THEN a.heap ELSE 0
GotHas(a) == IF a.at = "mmap" THEN a.got ELSE 0

(* Has, read owner by owner.                                               *)
HasReads ==
    /\ \A b \in Buffers : Has[b] = BufferHas(dma[b])
    /\ \A t \in Threads : /\ Has[<<t, "heap">>] = HeapHas(alloc[t])
                          /\ Has[<<t, "got">>] = GotHas(alloc[t])
    /\ \A f \in Fds : Has[<<f, "lost">>] = (IF f \in lost THEN f ELSE 0)

(* Owners are of three kinds, which have nothing in common.                *)
LEMMA OwnersAre ==
    /\ \A b \in Buffers : b \in Owners
    /\ \A t \in Threads : /\ <<t, "heap">> \in Owners /\ <<t, "got">> \in Owners
                          /\ <<t, "heap">> \notin Buffers /\ <<t, "got">> \notin Buffers
    /\ \A f \in Fds : <<f, "lost">> \in Owners /\ <<f, "lost">> \notin Buffers
    /\ \A o \in Owners : \/ o \in Buffers
                         \/ \E t \in Threads : o = <<t, "heap">> \/ o = <<t, "got">>
                         \/ \E f \in Fds : o = <<f, "lost">>
  BY DEF Owners, Buffers, Kinds

(* Has is what its definition says, before and after a step.               *)
LEMMA HasOf == HasReads /\ HasReads'
<1>1. HasReads
  BY OwnersAre DEF HasReads, Has, BufferHas, HeapHas, GotHas
<1>2. HasReads'
  BY OwnersAre DEF HasReads, Has, BufferHas, HeapHas, GotHas
<1> QED
  BY <1>1, <1>2

(* The table stays accounted for when no owner gets or loses anything ...  *)
LEMMA SameOwners ==
    ASSUME Accounted, open' = open, \A o \in Owners : Has'[o] = Has[o]
    PROVE  Accounted'
  BY DEF Accounted

(* ... when an owner that had nothing takes a number that was free ...     *)
LEMMA OneTaken ==
    ASSUME Accounted, open \subseteq Fds, NEW o \in Owners, Has[o] = 0, NEW f \in Fds \ open,
           open' = open \cup {f},
           \A p \in Owners : Has'[p] = (IF p = o THEN f ELSE Has[p])
    PROVE  Accounted'
<1>1. f # 0
  BY Constants
<1>2. \A p \in Owners : Has'[p] # 0 => Has'[p] \in open'
  BY <1>1 DEF Accounted
<1>3. \A g \in open' : \E p \in Owners : Has'[p] = g
  <2> SUFFICES ASSUME NEW g \in open, g # f PROVE \E p \in Owners : Has'[p] = g
    OBVIOUS
  <2>1. g # 0
    BY Constants
  <2>2. PICK p \in Owners : Has[p] = g
    BY DEF Accounted
  <2> QED
    BY <2>1, <2>2
<1>4. \A p, q \in Owners : Has'[p] = Has'[q] /\ Has'[p] # 0 => p = q
  BY <1>1 DEF Accounted
<1> QED
  BY <1>2, <1>3, <1>4 DEF Accounted

(* ... when what one owner has passes to one that had nothing ...          *)
LEMMA OneMoved ==
    ASSUME Accounted, open \subseteq Fds, NEW o \in Owners, NEW q \in Owners,
           Has[q] = 0, o # q, open' = open,
           \A p \in Owners : Has'[p] = (IF p = q THEN Has[o] ELSE IF p = o THEN 0 ELSE Has[p])
    PROVE  Accounted'
<1>1. \A p \in Owners : Has'[p] # 0 => Has'[p] \in open'
  BY DEF Accounted
<1>2. \A g \in open' : \E p \in Owners : Has'[p] = g
  <2> SUFFICES ASSUME NEW g \in open PROVE \E p \in Owners : Has'[p] = g
    OBVIOUS
  <2>1. g # 0
    BY Constants
  <2>2. PICK p \in Owners : Has[p] = g
    BY DEF Accounted
  <2> QED
    BY <2>1, <2>2
<1>3. \A p, r \in Owners : Has'[p] = Has'[r] /\ Has'[p] # 0 => p = r
  <2> SUFFICES ASSUME NEW p \in Owners, NEW r \in Owners, Has'[p] = Has'[r], Has'[p] # 0
               PROVE  p = r
    OBVIOUS
  <2>1. \A a, b \in Owners : Has[a] = Has[b] /\ Has[a] # 0 => a = b
    BY DEF Accounted
  <2>2. CASE p = q \/ r = q
    BY <2>1, <2>2
  <2>3. CASE p # q /\ r # q
    BY <2>1, <2>3
  <2> QED
    BY <2>2, <2>3
<1> QED
  BY <1>1, <1>2, <1>3 DEF Accounted

(* ... when what two owners have passes to two others ...                  *)
LEMMA TwoMoved ==
    ASSUME Accounted, open \subseteq Fds, open' = open,
           NEW a \in Owners, NEW b \in Owners, NEW c \in Owners, NEW d \in Owners,
           Has[c] = 0, Has[d] = 0, a # b, a # c, a # d, b # c, b # d, c # d,
           Has'[a] = 0, Has'[b] = 0, Has'[c] = Has[a], Has'[d] = Has[b],
           \A p \in Owners : p = a \/ p = b \/ p = c \/ p = d \/ Has'[p] = Has[p]
    PROVE  Accounted'
<1>1. \A p \in Owners : Has'[p] # 0 => Has'[p] \in open'
  BY DEF Accounted
<1>2. \A e \in open' : \E p \in Owners : Has'[p] = e
  <2> SUFFICES ASSUME NEW e \in open PROVE \E p \in Owners : Has'[p] = e
    OBVIOUS
  <2>1. e # 0
    BY Constants
  <2>2. PICK p \in Owners : Has[p] = e
    BY DEF Accounted
  <2> QED
    BY <2>1, <2>2
<1>3. \A p, r \in Owners : Has'[p] = Has'[r] /\ Has'[p] # 0 => p = r
  <2> DEFINE From(p) == IF p = c THEN a ELSE IF p = d THEN b ELSE p
  <2>1. \A p \in Owners :
        From(p) \in Owners /\ (Has'[p] # 0 => Has'[p] = Has[From(p)] /\ p # a /\ p # b)
    OBVIOUS
  <2>2. \A p, r \in Owners : p # a /\ p # b /\ r # a /\ r # b /\ From(p) = From(r) => p = r
    OBVIOUS
  <2>3. \A p, r \in Owners : Has[p] = Has[r] /\ Has[p] # 0 => p = r
    BY DEF Accounted
  <2> HIDE DEF From
  <2> QED
    BY <2>1, <2>2, <2>3
<1> QED
  BY <1>1, <1>2, <1>3 DEF Accounted

(* ... and when some owners' descriptors are closed.                       *)
LEMMA SomeDropped ==
    ASSUME Accounted, open \subseteq Fds, NEW S \in SUBSET Owners,
           open' = open \ {Has[p] : p \in S},
           \A p \in Owners : Has'[p] = (IF p \in S THEN 0 ELSE Has[p])
    PROVE  Accounted'
<1>1. \A p \in Owners : Has'[p] # 0 => Has'[p] \in open'
  <2> SUFFICES ASSUME NEW p \in Owners, p \notin S, Has[p] # 0, NEW q \in S, Has[p] = Has[q]
               PROVE  FALSE
    BY DEF Accounted
  <2> QED
    BY DEF Accounted
<1>2. \A g \in open' : \E p \in Owners : Has'[p] = g
  <2> SUFFICES ASSUME NEW g \in open, \A p \in S : Has[p] # g PROVE \E p \in Owners : Has'[p] = g
    OBVIOUS
  <2>1. PICK p \in Owners : Has[p] = g
    BY DEF Accounted
  <2> QED
    BY <2>1
<1>3. \A p, q \in Owners : Has'[p] = Has'[q] /\ Has'[p] # 0 => p = q
  BY DEF Accounted
<1> QED
  BY <1>1, <1>2, <1>3 DEF Accounted

(* A step that touches neither table, buffers nor allocations.             *)
LEMMA SameTable ==
    ASSUME Accounted, open' = open, lost' = lost, dma' = dma, alloc' = alloc
    PROVE  Accounted'
<1>1. \A o \in Owners : Has'[o] = Has[o]
  <2>1. \A b \in Buffers : Has'[b] = Has[b]
    BY HasOf DEF HasReads
  <2>2. \A t \in Threads : /\ Has'[<<t, "heap">>] = Has[<<t, "heap">>]
                           /\ Has'[<<t, "got">>] = Has[<<t, "got">>]
    BY HasOf DEF HasReads
  <2>3. \A f \in Fds : Has'[<<f, "lost">>] = Has[<<f, "lost">>]
    BY HasOf DEF HasReads
  <2> QED
    BY <2>1, <2>2, <2>3, OwnersAre
<1> QED
  BY <1>1, SameOwners

(* A set of numbers that is not empty has a lowest one.                    *)
LEMMA LowestIsFree ==
    ASSUME Free # {}
    PROVE  Lowest \in Fds \ open
<1>1. Free \subseteq Nat
  BY Constants DEF Free
<1>2. \E f \in Free : \A e \in Free : ~ (<<e, f>> \in OpToRel(<, Nat))
  BY <1>1, NatLessThanWellFounded, WFMin
<1>3. \E f \in Free : \A e \in Free : f <= e
  <2>1. PICK f \in Free : \A e \in Free : ~ (<<e, f>> \in OpToRel(<, Nat))
    BY <1>2
  <2>2. \A e \in Free : ~ (e < f)
    BY <1>1, <2>1 DEF OpToRel
  <2> QED
    BY <1>1, <2>2
<1> QED
  BY <1>3 DEF Lowest, Free

(* What a system call of an allocation leaves alone.                       *)
Outer == <<ownerVars, callbackVars, workerVars>>

(* A system call of an allocation that leaves the buffers alone keeps the  *)
(* invariant if it keeps the table accounted for.                          *)
LEMMA AllocStep ==
    ASSUME BufInv, NEW t \in Threads, UNCHANGED Outer, dma' = dma,
           open' \subseteq Fds, lost' \subseteq Fds, alloc' \in [Threads -> AllocType],
           \A u \in Threads : u # t => alloc'[u] = alloc[u],
           alloc'[t].buf = alloc[t].buf, alloc[t].at # "none", alloc'[t].at # "none",
           alloc'[t].at \in {"close", "done"} <=> alloc[t].at \in {"close", "done"},
           Accounted', Numbered'
    PROVE  BufInv'
<1>1. /\ UNCHANGED <<opc, cur, step, held, leaving, picture, polls, next_inference_idx,
                     pictures, wpc, m_is_running, m_is_busy>>
      /\ TypeOK /\ AllocsFollow /\ Sized /\ Busy /\ Lifecycle
  BY DEF BufInv, Outer, ownerVars, callbackVars, workerVars
<1>2. TypeOK'
  BY <1>1 DEF TypeOK
<1>3. AllocsFollow'
  <2> SUFFICES ASSUME NEW u \in Threads
               PROVE  /\ alloc'[u].at # "none" <=> Allocates(u)
                      /\ Allocates(u) =>
                            /\ alloc'[u].buf = AllocBuffer(u)
                            /\ dma[AllocBuffer(u)].size > 0
                            /\ dma[AllocBuffer(u)].len # 0 <=> alloc'[u].at \in {"close", "done"}
    BY <1>1 DEF AllocsFollow, AllocFollows, Allocates, AllocBuffer, OwnerBuffer
  <2> QED
    BY <1>1 DEF AllocsFollow, AllocFollows
<1>4. Sized'
  BY <1>1 DEF Sized, Filling
<1>5. Busy'
  BY <1>1 DEF Busy, BusyAt, Working, Filling
<1>6. Lifecycle'
  BY <1>1 DEF Lifecycle, Building, Leaving, Clean, ToRelease
<1> QED
  BY <1>2, <1>3, <1>4, <1>5, <1>6 DEF BufInv

(* Who is not named by a step has what it had ...                          *)
LEMMA HasElsewhere ==
    ASSUME NEW t \in Threads, NEW B \in SUBSET Buffers, NEW F \in SUBSET Fds,
           \A u \in Threads : u # t => alloc'[u] = alloc[u],
           \A b \in Buffers : b \notin B => dma'[b] = dma[b],
           \A f \in Fds : f \notin F => (f \in lost' <=> f \in lost)
    PROVE  \A p \in Owners : p = <<t, "heap">> \/ p = <<t, "got">> \/ p \in B
                             \/ (\E f \in F : p = <<f, "lost">>) \/ Has'[p] = Has[p]
<1>1. \A b \in Buffers : b \notin B => Has'[b] = Has[b]
  BY HasOf DEF HasReads
<1>2. \A u \in Threads : u # t => /\ Has'[<<u, "heap">>] = Has[<<u, "heap">>]
                                  /\ Has'[<<u, "got">>] = Has[<<u, "got">>]
  BY HasOf DEF HasReads
<1>3. \A f \in Fds : f \notin F => Has'[<<f, "lost">>] = Has[<<f, "lost">>]
  BY HasOf DEF HasReads
<1> QED
  BY <1>1, <1>2, <1>3, OwnersAre

(* ... here for a step of one thread's allocation alone.                   *)
LEMMA HasOfOthers ==
    ASSUME NEW t \in Threads, \A u \in Threads : u # t => alloc'[u] = alloc[u],
           dma' = dma, lost' = lost
    PROVE  \A p \in Owners : p = <<t, "heap">> \/ p = <<t, "got">> \/ Has'[p] = Has[p]
<1>1. \A b \in Buffers : Has'[b] = Has[b]
  BY HasOf DEF HasReads
<1>2. \A u \in Threads : u # t => /\ Has'[<<u, "heap">>] = Has[<<u, "heap">>]
                                  /\ Has'[<<u, "got">>] = Has[<<u, "got">>]
  BY HasOf DEF HasReads
<1>3. \A f \in Fds : Has'[<<f, "lost">>] = Has[<<f, "lost">>]
  BY HasOf DEF HasReads
<1>4. ASSUME NEW p \in Owners, p # <<t, "heap">>, p # <<t, "got">>
      PROVE  Has'[p] = Has[p]
  <2>1. CASE \E u \in Threads : p = <<u, "heap">> \/ p = <<u, "got">>
    BY <1>2, <1>4, <2>1
  <2>2. CASE p \in Buffers \/ \E f \in Fds : p = <<f, "lost">>
    BY <1>1, <1>3, <2>2
  <2> QED
    BY <2>1, <2>2, OwnersAre
<1> QED
  BY <1>4

(* What the invariant says of one thread's allocation.                     *)
LEMMA AllocAt ==
    ASSUME BufInv, NEW t \in Threads
    PROVE  /\ open \subseteq Fds /\ lost \subseteq Fds /\ alloc \in [Threads -> AllocType]
           /\ Accounted
           /\ <<t, "heap">> \in Owners /\ <<t, "got">> \in Owners /\ <<t, "heap">> # <<t, "got">>
           /\ Has[<<t, "heap">>] = HeapHas(alloc[t]) /\ Has'[<<t, "heap">>] = HeapHas(alloc'[t])
           /\ Has[<<t, "got">>] = GotHas(alloc[t]) /\ Has'[<<t, "got">>] = GotHas(alloc'[t])
  BY HasOf, OwnersAre DEF BufInv, TypeOK, HasReads

(* Numbers are descriptors after a step of one allocation.                 *)
LEMMA NumberedStep ==
    ASSUME Numbered, NEW t \in Threads, \A u \in Threads : u # t => alloc'[u] = alloc[u],
           dma' = dma,
           alloc'[t].at \in {"ioctl", "mmap", "close"} => alloc'[t].heap \in Fds,
           alloc'[t].at = "mmap" => alloc'[t].got \in Fds
    PROVE  Numbered'
  BY DEF Numbered

(* OpenHeap keeps the invariant.                                           *)
LEMMA OpenHeapPreserves ==
    ASSUME BufInv, NEW t \in Threads, OpenHeap(t)
    PROVE  BufInv'
<1>1. alloc[t].at = "open" /\ lost' = lost /\ dma' = dma /\ UNCHANGED Outer /\ Numbered
  BY DEF OpenHeap, BufInv, Outer
<1> DEFINE h == <<t, "heap">>
           g == <<t, "got">>
<1>0. alloc \in [Threads -> AllocType]
  BY AllocAt
<1>2. h \in Owners /\ g \in Owners /\ h # g /\ Has[h] = 0 /\ Has[g] = 0
  BY <1>1, AllocAt DEF HeapHas, GotHas
<1>3. CASE Free # {} /\ open' = open \cup {Lowest}
           /\ alloc' = [alloc EXCEPT ![t].at = "ioctl", ![t].heap = Lowest]
  <2>1. Lowest \in Fds \ open /\ Lowest \in Nat
    BY <1>3, LowestIsFree, Constants
  <2>2. /\ alloc' \in [Threads -> AllocType] /\ alloc'[t].buf = alloc[t].buf
        /\ alloc'[t].at = "ioctl" /\ alloc'[t].heap = Lowest
        /\ \A u \in Threads : u # t => alloc'[u] = alloc[u]
    BY <1>0, <1>3, <2>1 DEF AllocType
  <2>3. Has'[h] = Lowest /\ Has'[g] = 0
    BY <2>2, AllocAt DEF HeapHas, GotHas
  <2>4. \A p \in Owners : p = h \/ p = g \/ Has'[p] = Has[p]
    BY <1>1, <2>2, HasOfOthers
  <2>5. Accounted'
    BY <1>2, <1>3, <2>1, <2>3, <2>4, AllocAt, OneTaken
  <2>6. Numbered'
    BY <1>1, <2>1, <2>2, NumberedStep
  <2> QED
    BY <1>1, <1>3, <2>1, <2>2, <2>5, <2>6, AllocStep, AllocAt
<1>4. CASE alloc' = [alloc EXCEPT ![t].at = "failed"] /\ open' = open
  <2>1. /\ alloc' \in [Threads -> AllocType] /\ alloc'[t].buf = alloc[t].buf
        /\ alloc'[t].at = "failed"
        /\ \A u \in Threads : u # t => alloc'[u] = alloc[u]
    BY <1>0, <1>4 DEF AllocType
  <2>2. Has'[h] = 0 /\ Has'[g] = 0
    BY <2>1, AllocAt DEF HeapHas, GotHas
  <2>3. \A p \in Owners : p = h \/ p = g \/ Has'[p] = Has[p]
    BY <1>1, <2>1, HasOfOthers
  <2>4. Accounted'
    BY <1>2, <1>4, <2>2, <2>3, SameOwners, AllocAt
  <2>5. Numbered'
    BY <1>1, <2>1, NumberedStep
  <2> QED
    BY <1>1, <1>4, <2>1, <2>4, <2>5, AllocStep, AllocAt
<1> QED
  BY <1>3, <1>4 DEF OpenHeap

(* What nobody owns any more.                                              *)
LEMMA LostTake ==
    ASSUME NEW F \in SUBSET Fds, lost' = lost \cup F
    PROVE  \A f \in Fds : /\ <<f, "lost">> \in Owners
                          /\ Has[<<f, "lost">>] = (IF f \in lost THEN f ELSE 0)
                          /\ Has'[<<f, "lost">>] = (IF f \in F \/ f \in lost THEN f ELSE 0)
  BY HasOf, OwnersAre DEF HasReads

(* IoctlAlloc keeps the invariant.                                         *)
LEMMA IoctlAllocPreserves ==
    ASSUME BufInv, NEW t \in Threads, IoctlAlloc(t)
    PROVE  BufInv'
<1>1. alloc[t].at = "ioctl" /\ dma' = dma /\ UNCHANGED Outer /\ Numbered
  BY DEF IoctlAlloc, BufInv, Outer
<1> DEFINE h == <<t, "heap">>
           g == <<t, "got">>
           f == alloc[t].heap
           w == <<f, "lost">>
<1>0. alloc \in [Threads -> AllocType]
  BY AllocAt
<1>2. /\ h \in Owners /\ g \in Owners /\ h # g /\ Has[h] = f /\ Has[g] = 0
      /\ f \in Fds /\ f # 0
  BY <1>1, AllocAt, Constants DEF HeapHas, GotHas, Numbered
<1>3. CASE Free # {} /\ open' = open \cup {Lowest} /\ lost' = lost
           /\ alloc' = [alloc EXCEPT ![t].at = "mmap", ![t].got = Lowest]
  <2>1. Lowest \in Fds \ open /\ Lowest \in Nat
    BY <1>3, LowestIsFree, Constants
  <2>2. /\ alloc' \in [Threads -> AllocType] /\ alloc'[t].buf = alloc[t].buf
        /\ alloc'[t].at = "mmap" /\ alloc'[t].got = Lowest /\ alloc'[t].heap = f
        /\ \A u \in Threads : u # t => alloc'[u] = alloc[u]
    BY <1>0, <1>3, <2>1 DEF AllocType
  <2>3. Has'[h] = f /\ Has'[g] = Lowest
    BY <2>2, AllocAt DEF HeapHas, GotHas
  <2>4. \A p \in Owners : p = h \/ p = g \/ Has'[p] = Has[p]
    BY <1>1, <1>3, <2>2, HasOfOthers
  <2>5. Accounted'
    BY <1>2, <1>3, <2>1, <2>3, <2>4, AllocAt, OneTaken
  <2>6. Numbered'
    BY <1>1, <1>2, <2>1, <2>2, NumberedStep
  <2> QED
    BY <1>1, <1>3, <2>1, <2>2, <2>5, <2>6, AllocStep, AllocAt
<1>4. CASE alloc' = [alloc EXCEPT ![t].at = "failed"] /\ open' = open /\ lost' = lost \cup {f}
  <2>1. /\ alloc' \in [Threads -> AllocType] /\ alloc'[t].buf = alloc[t].buf
        /\ alloc'[t].at = "failed"
        /\ \A u \in Threads : u # t => alloc'[u] = alloc[u]
    BY <1>0, <1>4 DEF AllocType
  <2>2. Has'[h] = 0 /\ Has'[g] = 0
    BY <2>1, AllocAt DEF HeapHas, GotHas
  <2>3. /\ w \in Owners /\ w # h /\ w # g
        /\ Has'[w] = f /\ (Has[w] = 0 \/ Has[w] = f)
    <3>1. {f} \in SUBSET Fds
      BY <1>2
    <3>2. \A d \in Fds : /\ <<d, "lost">> \in Owners
                          /\ Has[<<d, "lost">>] = (IF d \in lost THEN d ELSE 0)
                          /\ Has'[<<d, "lost">>] = (IF d \in {f} \/ d \in lost THEN d ELSE 0)
      BY <1>4, <3>1, LostTake
    <3>3. /\ w \in Owners /\ Has[w] = (IF f \in lost THEN f ELSE 0)
          /\ Has'[w] = (IF f \in {f} \/ f \in lost THEN f ELSE 0)
      BY <1>2, <3>2
    <3> QED
      BY <3>3
  <2>4. Has[w] = 0
    BY <1>2, <2>3, AllocAt DEF Accounted
  <2>5. \A p \in Owners : p = h \/ p = g \/ p = w \/ Has'[p] = Has[p]
    <3>1. \A b \in Buffers : b \notin {} => dma'[b] = dma[b]
      BY <1>1
    <3>2. \A e \in Fds : e \notin {f} => (e \in lost' <=> e \in lost)
      BY <1>4
    <3>3. {} \in SUBSET Buffers /\ {f} \in SUBSET Fds
      BY <1>2
    <3>4. \A p \in Owners : p = <<t, "heap">> \/ p = <<t, "got">> \/ p \in {}
                            \/ (\E e \in {f} : p = <<e, "lost">>) \/ Has'[p] = Has[p]
      BY <2>1, <3>1, <3>2, <3>3, HasElsewhere
    <3> QED
      BY <3>4
  <2>6. Accounted'
    <3>1. \A p \in Owners : Has'[p] = (IF p = w THEN Has[h] ELSE IF p = h THEN 0 ELSE Has[p])
      BY <1>2, <2>2, <2>3, <2>4, <2>5
    <3>2. Accounted /\ open \subseteq Fds
      BY AllocAt
    <3> HIDE DEF h, g, f, w
    <3> QED
      BY <1>2, <1>4, <2>3, <2>4, <3>1, <3>2, OneMoved
  <2>7. Numbered'
    BY <1>1, <2>1, NumberedStep
  <2> QED
    BY <1>1, <1>2, <1>4, <2>1, <2>6, <2>7, AllocStep, AllocAt
<1> QED
  BY <1>3, <1>4 DEF IoctlAlloc

(* Two threads that allocate at the same time allocate different buffers:  *)
(* the owner never one of the kind an inference thread allocates.          *)
LEMMA AllocBuffers ==
    ASSUME BufInv
    PROVE  /\ \A t \in Threads : Allocates(t) => AllocBuffer(t) \in Buffers
           /\ \A t, u \in Threads : Allocates(t) /\ Allocates(u) /\ t # u
                                       => AllocBuffer(t) # AllocBuffer(u)
  BY Constants DEF BufInv, TypeOK, Allocates, AllocBuffer, OwnerBuffer, Src, Rgba, Kinds

(* Mmap keeps the invariant.                                               *)
LEMMA MmapPreserves ==
    ASSUME BufInv, NEW t \in Threads, Mmap(t)
    PROVE  BufInv'
<1>1. /\ alloc[t].at = "mmap" /\ open' = open /\ UNCHANGED Outer
      /\ TypeOK /\ AllocsFollow /\ Numbered /\ Sized /\ Busy /\ Lifecycle
  BY DEF Mmap, BufInv, Outer
<1> DEFINE h == <<t, "heap">>
           g == <<t, "got">>
           b == alloc[t].buf
           e == alloc[t].heap
           f == alloc[t].got
<1>0. alloc \in [Threads -> AllocType] /\ dma \in [Buffers -> DmaType]
  BY <1>1 DEF TypeOK
<1>2. /\ h \in Owners /\ g \in Owners /\ h # g /\ Has[h] = e /\ Has[g] = f
      /\ e \in Fds /\ e # 0 /\ f \in Fds /\ f # 0 /\ f \in Nat
  BY <1>1, AllocAt, Constants DEF HeapHas, GotHas, Numbered
<1>3. /\ Allocates(t) /\ b = AllocBuffer(t) /\ b \in Buffers
      /\ dma[b].size > 0 /\ dma[b].len = 0
  BY <1>1, AllocBuffers DEF AllocsFollow, AllocFollows
<1>4. CASE /\ dma' = [dma EXCEPT ![b].len = dma[b].size, ![b].fd = f]
           /\ alloc' = [alloc EXCEPT ![t].at = "close"] /\ lost' = lost
  <2>1. /\ alloc' \in [Threads -> AllocType] /\ alloc'[t].buf = b
        /\ alloc'[t].at = "close" /\ alloc'[t].heap = e
        /\ \A u \in Threads : u # t => alloc'[u] = alloc[u]
    BY <1>0, <1>4 DEF AllocType
  <2>2. /\ dma'[b].len = dma[b].size /\ dma'[b].fd = f
        /\ dma'[b].size = dma[b].size /\ dma'[b].width = dma[b].width
        /\ dma'[b].height = dma[b].height /\ dma'[b].width_stride = dma[b].width_stride
        /\ dma'[b].height_stride = dma[b].height_stride
        /\ \A c \in Buffers : c # b => dma'[c] = dma[c]
    BY <1>0, <1>3, <1>4 DEF DmaType
  <2>3. dma' \in [Buffers -> DmaType]
    BY <1>0, <1>2, <1>3, <1>4 DEF DmaType
  <2>4. Accounted'
    <3>1. Has'[h] = e /\ Has'[g] = 0
      BY <2>1, AllocAt DEF HeapHas, GotHas
    <3>2. Has[b] = 0 /\ Has'[b] = f /\ b \in Owners /\ b # h /\ b # g
      BY <1>2, <1>3, <2>2, HasOf, OwnersAre DEF HasReads, BufferHas
    <3>3. \A p \in Owners : p = h \/ p = g \/ p = b \/ Has'[p] = Has[p]
      <4>1. \A c \in Buffers : c \notin {b} => dma'[c] = dma[c]
        BY <2>2
      <4>2. \A d \in Fds : d \notin {} => (d \in lost' <=> d \in lost)
        BY <1>4
      <4>3. {b} \in SUBSET Buffers /\ {} \in SUBSET Fds
        BY <1>3
      <4>4. \A p \in Owners : p = <<t, "heap">> \/ p = <<t, "got">> \/ p \in {b}
                              \/ (\E d \in {} : p = <<d, "lost">>) \/ Has'[p] = Has[p]
        BY <2>1, <4>1, <4>2, <4>3, HasElsewhere
      <4> QED
        BY <4>4
    <3>4. \A p \in Owners : Has'[p] = (IF p = b THEN Has[g] ELSE IF p = g THEN 0 ELSE Has[p])
      BY <1>2, <3>1, <3>2, <3>3
    <3> QED
      BY <1>1, <1>2, <3>2, <3>4, AllocAt, OneMoved
  <2>5. Numbered'
    BY <1>1, <1>2, <1>3, <2>1, <2>2 DEF Numbered
  <2>6. TypeOK'
    BY <1>1, <1>4, <2>1, <2>3 DEF TypeOK, Outer, ownerVars, callbackVars, workerVars
  <2>7. AllocsFollow'
    <3>1. /\ \A u \in Threads : Allocates(u)' = Allocates(u)
          /\ \A u \in Threads : AllocBuffer(u)' = AllocBuffer(u)
      BY <1>1 DEF Allocates, AllocBuffer, OwnerBuffer, Outer, ownerVars, workerVars
    <3>2. ASSUME NEW u \in Threads, u # t, Allocates(u)
          PROVE  dma'[AllocBuffer(u)] = dma[AllocBuffer(u)]
      BY <1>3, <2>2, <3>2, AllocBuffers
    <3> QED
      BY <1>1, <1>3, <2>1, <2>2, <3>1, <3>2 DEF AllocsFollow, AllocFollows
  <2>8. /\ \A c \in Buffers : dma[c].len # 0 => dma'[c] = dma[c]
        /\ \A c \in Buffers : dma'[c].size = dma[c].size
        /\ \A c \in Buffers : dma'[c].width = dma[c].width /\ dma'[c].height = dma[c].height
        /\ \A c \in Buffers : c = b \/ dma'[c] = dma[c]
    BY <1>3, <2>2
  <2>9. UNCHANGED <<opc, cur, leaving, held, picture, wpc, m_is_busy>>
    BY <1>1 DEF Outer, ownerVars, callbackVars, workerVars
  <2>10. Sized'
    <3>1. \A c \in Buffers : dma'[c].len # 0 => dma'[c].len = dma'[c].size
      BY <1>1, <2>2, <2>8 DEF Sized
    <3>2. ASSUME NEW i \in Inferences
          PROVE  /\ \A k \in {"resize_img", "input_img"} : dma'[<<i, k>>].size \in {0, ModelSize}
                 /\ dma'[Rgba(i)].size \in {0, RgbaSize(dma'[Rgba(i)])}
                 /\ Filling(i) => dma'[Src(i)].size = YuvSize(picture)
      BY <1>1, <2>8, Constants DEF Sized, RgbaSize, Kinds
    <3>3. ASSUME NEW i \in Inferences, ~ Filling(i), dma'[Src(i)].len # 0
          PROVE  dma'[Src(i)].len = StrideSize(dma'[Src(i)])
      <4>1. b # Src(i)
        BY <1>3, <3>3 DEF Allocates, AllocBuffer, OwnerBuffer, Filling, Src, Rgba
      <4> QED
        BY <1>1, <2>2, <3>3, <4>1, Constants DEF Sized
    <3>4. opc = "copy" => dma'[Src(cur)].len # 0
      BY <1>1, <2>8, Constants DEF Sized, TypeOK
    <3> QED
      BY <2>9, <3>1, <3>2, <3>3, <3>4 DEF Sized, Filling, ModelSize, YuvSize
  <2>11. Busy'
    <3> SUFFICES ASSUME NEW i \in Inferences
                 PROVE  BusyAt(i)'
      BY DEF Busy
    <3>1. \A k \in Kinds : /\ dma[<<i, k>>].len # 0 => dma'[<<i, k>>] = dma[<<i, k>>]
                           /\ dma'[<<i, k>>].width = dma[<<i, k>>].width
                           /\ dma'[<<i, k>>].height = dma[<<i, k>>].height
      BY <2>8, Constants
    <3> QED
      BY <1>1, <2>9, <3>1 DEF Busy, BusyAt, Kinds, Src, Rgba, Filling, Working
  <2>12. Lifecycle'
    <3>1. ASSUME NEW i \in Inferences, Clean(i),
                 ~ (opc \in {"resize_img", "input_img", "remake"} /\ i = cur)
          PROVE  Clean(i)'
      <4>1. \A k \in Kinds : b # <<i, k>>
        BY <1>3, <3>1 DEF Allocates, AllocBuffer, OwnerBuffer, Clean, Src, Rgba
      <4> QED
        BY <2>8, <2>9, <3>1, <4>1, Constants DEF Clean
    <3>2. cur \in Inferences /\ cur \in Nat /\ \A i \in Inferences : i \in Nat
      BY <1>1, Constants DEF TypeOK
    <3>3. Building => \A i \in Inferences : i > cur => Clean(i)'
      BY <1>1, <3>1, <3>2 DEF Lifecycle
    <3>4. Leaving => \A i \in Inferences : Clean(i)' \/ ToRelease(i)
      BY <1>1, <3>1 DEF Lifecycle, Leaving
    <3>5. opc = "input_img" => dma'[<<cur, "resize_img">>].len # 0
      BY <1>1, <2>8, <3>2, Constants DEF Lifecycle, Building, Kinds
    <3> QED
      BY <1>1, <2>9, <3>3, <3>4, <3>5 DEF Lifecycle, Building, Leaving, ToRelease
  <2> QED
    BY <2>4, <2>5, <2>6, <2>7, <2>10, <2>11, <2>12 DEF BufInv
<1>5. CASE dma' = dma /\ alloc' = [alloc EXCEPT ![t].at = "failed"] /\ lost' = lost \cup {e, f}
  <2>1. /\ alloc' \in [Threads -> AllocType] /\ alloc'[t].buf = b
        /\ alloc'[t].at = "failed"
        /\ \A u \in Threads : u # t => alloc'[u] = alloc[u]
    BY <1>0, <1>5 DEF AllocType
  <2> DEFINE v == <<e, "lost">>
             w == <<f, "lost">>
  <2>2. Has'[h] = 0 /\ Has'[g] = 0
    BY <2>1, AllocAt DEF HeapHas, GotHas
  <2>3. {e, f} \in SUBSET Fds
    BY <1>2
  <2>4. /\ v \in Owners /\ v # h /\ v # g /\ Has'[v] = e /\ (Has[v] = 0 \/ Has[v] = e)
        /\ w \in Owners /\ w # h /\ w # g /\ Has'[w] = f /\ (Has[w] = 0 \/ Has[w] = f)
    <3>1. \A d \in Fds : /\ <<d, "lost">> \in Owners
                          /\ Has[<<d, "lost">>] = (IF d \in lost THEN d ELSE 0)
                          /\ Has'[<<d, "lost">>] = (IF d \in {e, f} \/ d \in lost THEN d ELSE 0)
      BY <1>5, <2>3, LostTake
    <3> QED
      BY <1>2, <3>1
  <2>5. e # f /\ v # w
    BY <1>2, AllocAt DEF Accounted
  <2>6. Has[v] = 0 /\ Has[w] = 0
    BY <1>2, <2>4, AllocAt DEF Accounted
  <2>7. \A p \in Owners : p = h \/ p = g \/ p = v \/ p = w \/ Has'[p] = Has[p]
    <3>1. \A c \in Buffers : c \notin {} => dma'[c] = dma[c]
      BY <1>5
    <3>2. \A d \in Fds : d \notin {e, f} => (d \in lost' <=> d \in lost)
      BY <1>5
    <3>3. {} \in SUBSET Buffers
      OBVIOUS
    <3>4. \A p \in Owners : p = <<t, "heap">> \/ p = <<t, "got">> \/ p \in {}
                            \/ (\E d \in {e, f} : p = <<d, "lost">>) \/ Has'[p] = Has[p]
      BY <2>1, <2>3, <3>1, <3>2, <3>3, HasElsewhere
    <3> QED
      BY <3>4
  <2>8. Accounted'
    <3>1. Has'[v] = Has[h] /\ Has'[w] = Has[g]
      BY <1>2, <2>4
    <3>2. Accounted /\ open \subseteq Fds
      BY AllocAt
    <3> HIDE DEF h, g, v, w
    <3> QED
      BY <1>1, <1>2, <2>2, <2>4, <2>5, <2>6, <2>7, <3>1, <3>2, TwoMoved
  <2>9. Numbered'
    BY <1>1, <1>5, <2>1, NumberedStep
  <2> QED
    BY <1>1, <1>2, <1>5, <2>1, <2>8, <2>9, AllocStep, AllocAt
<1> QED
  BY <1>4, <1>5 DEF Mmap

(* CloseHeap keeps the invariant.                                          *)
LEMMA CloseHeapPreserves ==
    ASSUME BufInv, NEW t \in Threads, CloseHeap(t)
    PROVE  BufInv'
<1>1. alloc[t].at = "close" /\ lost' = lost /\ dma' = dma /\ UNCHANGED Outer /\ Numbered
      /\ open' = open \ {alloc[t].heap} /\ alloc' = [alloc EXCEPT ![t].at = "done"]
  BY DEF CloseHeap, BufInv, Outer
<1> DEFINE h == <<t, "heap">>
           g == <<t, "got">>
<1>0. alloc \in [Threads -> AllocType]
  BY AllocAt
<1>2. h \in Owners /\ g \in Owners /\ h # g /\ Has[h] = alloc[t].heap /\ Has[g] = 0
  BY <1>1, AllocAt DEF HeapHas, GotHas
<1>3. /\ alloc' \in [Threads -> AllocType] /\ alloc'[t].buf = alloc[t].buf
      /\ alloc'[t].at = "done"
      /\ \A u \in Threads : u # t => alloc'[u] = alloc[u]
  BY <1>0, <1>1 DEF AllocType
<1>4. Has'[h] = 0 /\ Has'[g] = 0
  BY <1>3, AllocAt DEF HeapHas, GotHas
<1>5. \A p \in Owners : p = h \/ p = g \/ Has'[p] = Has[p]
  BY <1>1, <1>3, HasOfOthers
<1>6. Accounted'
  <2>1. {h} \in SUBSET Owners
    BY <1>2
  <2>2. open' = open \ {Has[p] : p \in {h}}
    BY <1>1, <1>2
  <2>3. \A p \in Owners : Has'[p] = (IF p \in {h} THEN 0 ELSE Has[p])
    BY <1>2, <1>4, <1>5
  <2> QED
    BY <2>1, <2>2, <2>3, AllocAt, SomeDropped
<1>7. Numbered'
  BY <1>1, <1>3, NumberedStep
<1> QED
  BY <1>1, <1>3, <1>6, <1>7, AllocStep, AllocAt

(* A step that leaves table, buffers and allocations alone.                *)
LEMMA Untouched ==
    ASSUME BufInv, open' = open, lost' = lost, dma' = dma, alloc' = alloc
    PROVE  Accounted' /\ Numbered'
  BY SameTable DEF BufInv, Numbered

(* The end of an allocation, which has nothing any more.                   *)
LEMMA Forgotten ==
    ASSUME BufInv, NEW t \in Threads, Forget(t), alloc[t].at \in {"done", "failed"},
           open' = open, lost' = lost, dma' = dma
    PROVE  /\ alloc' \in [Threads -> AllocType] /\ alloc'[t].at = "none"
           /\ \A u \in Threads : u # t => alloc'[u] = alloc[u]
           /\ Accounted' /\ Numbered'
<1>a. <<1, "src_frame">> \in Buffers
  BY BoundAssumption DEF Buffers, Inferences, Kinds
<1>0. alloc \in [Threads -> AllocType] /\ NoAlloc \in AllocType
  BY <1>a, AllocAt DEF NoAlloc, AllocType
<1>1. /\ alloc' \in [Threads -> AllocType] /\ alloc'[t].at = "none"
      /\ \A u \in Threads : u # t => alloc'[u] = alloc[u]
  BY <1>0 DEF Forget, NoAlloc
<1> DEFINE h == <<t, "heap">>
           g == <<t, "got">>
<1>2. Has[h] = 0 /\ Has[g] = 0 /\ Has'[h] = 0 /\ Has'[g] = 0
  BY <1>1, AllocAt DEF HeapHas, GotHas
<1>3. \A p \in Owners : p = h \/ p = g \/ Has'[p] = Has[p]
  BY <1>1, HasOfOthers
<1>4. Accounted'
  BY <1>2, <1>3, AllocAt, SameOwners
<1>5. Numbered'
  BY <1>1, NumberedStep DEF BufInv
<1> QED
  BY <1>1, <1>4, <1>5

(* make_dma gives back what the buffer had and starts an allocation.       *)
LEMMA MadeDma ==
    ASSUME BufInv, NEW t \in Threads, NEW b \in Buffers,
           NEW width \in Nat, NEW height \in Nat, NEW size \in Nat,
           MakeDma(t, b, width, height, size), lost' = lost,
           alloc[t].at \in {"none", "done"}
    PROVE  /\ open' \subseteq Fds /\ dma' \in [Buffers -> DmaType]
           /\ alloc' \in [Threads -> AllocType]
           /\ alloc'[t].at = "open" /\ alloc'[t].buf = b
           /\ \A u \in Threads : u # t => alloc'[u] = alloc[u]
           /\ dma'[b].width = width /\ dma'[b].height = height
           /\ dma'[b].size = size /\ dma'[b].len = 0
           /\ \A c \in Buffers : c # b => dma'[c] = dma[c]
           /\ Accounted' /\ Numbered'
<1>0. /\ alloc \in [Threads -> AllocType] /\ dma \in [Buffers -> DmaType]
      /\ open \subseteq Fds /\ Accounted /\ Numbered
  BY AllocAt DEF BufInv, TypeOK
<1>1. [NoAlloc EXCEPT !.at = "open", !.buf = b] \in AllocType
  BY DEF NoAlloc, AllocType
<1>2. /\ alloc' \in [Threads -> AllocType]
      /\ alloc'[t].at = "open" /\ alloc'[t].buf = b
      /\ \A u \in Threads : u # t => alloc'[u] = alloc[u]
  BY <1>0, <1>1 DEF MakeDma, NoAlloc
<1>3. Released(dma[b]) \in DmaType /\ Released(dma[b]).len = 0
  BY <1>0 DEF Released, DmaType
<1> DEFINE d == [Released(dma[b]) EXCEPT !.width = width, !.height = height, !.size = size]
<1>4. d \in DmaType /\ d.width = width /\ d.height = height /\ d.size = size /\ d.len = 0
  BY <1>3 DEF DmaType
<1>5. dma' = [dma EXCEPT ![b] = d]
  BY DEF MakeDma
<1> HIDE DEF d
<1>6. /\ dma' \in [Buffers -> DmaType] /\ dma'[b] = d
      /\ \A c \in Buffers : c # b => dma'[c] = dma[c]
  BY <1>0, <1>4, <1>5
<1>7. open' = open \ ReleasedFds(b)
  BY DEF MakeDma
<1> DEFINE h == <<t, "heap">>
           g == <<t, "got">>
<1>8. Has[h] = 0 /\ Has[g] = 0 /\ Has'[h] = 0 /\ Has'[g] = 0
  BY <1>2, AllocAt DEF HeapHas, GotHas
<1>9. Has[b] = BufferHas(dma[b]) /\ Has'[b] = 0 /\ b \in Owners
  BY <1>4, <1>6, HasOf, OwnersAre DEF HasReads, BufferHas
<1>10. \A p \in Owners : p = h \/ p = g \/ p = b \/ Has'[p] = Has[p]
  <2>1. \A c \in Buffers : c \notin {b} => dma'[c] = dma[c]
    BY <1>6
  <2>2. \A e \in Fds : e \notin {} => (e \in lost' <=> e \in lost)
    OBVIOUS
  <2>3. {b} \in SUBSET Buffers /\ {} \in SUBSET Fds
    OBVIOUS
  <2>4. \A p \in Owners : p = <<t, "heap">> \/ p = <<t, "got">> \/ p \in {b}
                          \/ (\E e \in {} : p = <<e, "lost">>) \/ Has'[p] = Has[p]
    BY <1>2, <2>1, <2>2, <2>3, HasElsewhere
  <2> QED
    BY <2>4
<1>11. Accounted'
  <2>1. {b} \in SUBSET Owners
    BY <1>9
  <2>2. open' = open \ {Has[p] : p \in {b}}
    <3>1. CASE dma[b].len # 0
      BY <1>7, <1>9, <3>1 DEF ReleasedFds, BufferHas
    <3>2. CASE dma[b].len = 0
      BY <1>0, <1>7, <1>9, <3>2, Constants DEF ReleasedFds, BufferHas
    <3> QED
      BY <3>1, <3>2
  <2>3. \A p \in Owners : Has'[p] = (IF p \in {b} THEN 0 ELSE Has[p])
    BY <1>8, <1>9, <1>10
  <2> QED
    BY <1>0, <2>1, <2>2, <2>3, SomeDropped
<1>12. Numbered'
  <2>1. \A u \in Threads : /\ alloc'[u].at \in {"ioctl", "mmap", "close"} => alloc'[u].heap \in Fds
                           /\ alloc'[u].at = "mmap" => alloc'[u].got \in Fds
    BY <1>0, <1>2 DEF Numbered
  <2>2. \A c \in Buffers : dma'[c].len # 0 => dma'[c].fd \in Fds
    BY <1>0, <1>4, <1>6 DEF Numbered
  <2> QED
    BY <2>1, <2>2 DEF Numbered
<1>13. open' \subseteq Fds
  BY <1>0, <1>7
<1> QED
  BY <1>2, <1>4, <1>6, <1>11, <1>12, <1>13

(* Allocations that do not move follow their threads as before.            *)
LEMMA SameAllocs ==
    ASSUME AllocsFollow, alloc' = alloc, dma' = dma,
           \A t \in Threads : Allocates(t)' = Allocates(t),
           \A t \in Threads : Allocates(t) => AllocBuffer(t)' = AllocBuffer(t)
    PROVE  AllocsFollow'
  BY DEF AllocsFollow, AllocFollows

(* The calls of initialize.                                                *)
LEMMA InitCallsAre ==
    /\ Len(InitCalls) = 7 /\ 1..(Len(InitCalls) + 1) = 1..8
    /\ \A k \in 1..7 : {InitCalls[k]} \ {""} \subseteq HeldType
<1>1. Len(InitCalls) = 7
  BY DEF InitCalls
<1>3. Len(InitCalls) + 1 = 8
  BY <1>1
<1>2. ASSUME NEW k \in 1..7 PROVE InitCalls[k] = "" \/ InitCalls[k] \in HeldType
  <2>1. k = 1 \/ k = 2 \/ k = 3 \/ k = 4 \/ k = 5 \/ k = 6 \/ k = 7
    OBVIOUS
  <2>2. /\ InitCalls[1] = "" /\ InitCalls[2] = "rknn_ctx" /\ InitCalls[3] = ""
        /\ InitCalls[4] = "input_attrs" /\ InitCalls[5] = ""
        /\ InitCalls[6] = "output_attrs" /\ InitCalls[7] = ""
    BY DEF InitCalls
  <2> QED
    BY <2>1, <2>2 DEF HeldType
<1> QED
  BY <1>1, <1>2, <1>3

(* InitCall keeps the invariant.                                           *)
LEMMA InitCallPreserves ==
    ASSUME BufInv, InitCall
    PROVE  BufInv'
<1>1. /\ opc = "build" /\ step \in 1..7 /\ step' = step + 1 /\ step' \in 1..8
      /\ held' = [held EXCEPT ![cur] = @ \cup ({InitCalls[step]} \ {""})]
      /\ UNCHANGED <<opc, cur, leaving, open, lost, dma, alloc, picture, polls,
                     next_inference_idx, pictures, wpc, m_is_running, m_is_busy>>
      /\ TypeOK /\ AllocsFollow /\ Sized /\ Busy /\ Lifecycle
  <2>1. /\ step \in 1..8 /\ step <= 7 /\ TypeOK
    <3>1. step \in 1..(Len(InitCalls) + 1) /\ step <= Len(InitCalls) /\ TypeOK
      BY DEF InitCall, BufInv, TypeOK
    <3> QED
      BY <3>1, InitCallsAre
  <2>2. step \in 1..7 /\ step + 1 \in 1..8
    BY <2>1
  <2> QED
    BY <2>1, <2>2 DEF InitCall, BufInv, tableVars, callbackVars, workerVars
<1>2. Accounted' /\ Numbered'
  BY <1>1, Untouched
<1>3. /\ held' \in [Inferences -> SUBSET HeldType]
      /\ \A i \in Inferences : i # cur => held'[i] = held[i]
  <2>1. {InitCalls[step]} \ {""} \subseteq HeldType
    BY <1>1, InitCallsAre
  <2> QED
    BY <1>1, <2>1 DEF TypeOK
<1>4. TypeOK'
  <2>1. step' \in 1..(Len(InitCalls) + 1)
    BY <1>1, InitCallsAre
  <2> QED
    BY <1>1, <1>3, <2>1 DEF TypeOK
<1>5. AllocsFollow'
  BY <1>1, SameAllocs DEF Allocates, AllocBuffer, OwnerBuffer
<1>6. Sized'
  BY <1>1 DEF Sized, Filling
<1>7. Busy'
  BY <1>1 DEF Busy, BusyAt, Working, Filling
<1>8. Lifecycle'
  BY <1>1, <1>3, Constants DEF Lifecycle, Building, Leaving, Clean, ToRelease, TypeOK
<1> QED
  BY <1>2, <1>4, <1>5, <1>6, <1>7, <1>8 DEF BufInv

(* main's early return releases the inference at hand and those before it. *)
LEMMA LeaveFromLists ==
    ASSUME NEW i \in Inferences, LeaveFrom(i)
    PROVE  /\ leaving' \in Seq(Inferences)
           /\ \A j \in Inferences : j <= i => \E k \in DOMAIN leaving' : leaving'[k] = j
<1> DEFINE before == [j \in 1..(i - 1) |-> j]
<1>1. /\ i \in Nat /\ i >= 1 /\ i <= N /\ N \in Nat
      /\ i - 1 \in Nat /\ \A j \in 1..(i - 1) : j \in Inferences
  BY BoundAssumption DEF Inferences
<1>2. before \in Seq(Inferences) /\ Len(before) = i - 1
  BY <1>1
<1>3. <<i>> \in Seq(Inferences) /\ Len(<<i>>) = 1 /\ <<i>>[1] = i
  OBVIOUS
<1>4. leaving' = <<i>> \o before
  BY DEF LeaveFrom
<1> HIDE DEF before
<1>5. /\ leaving' \in Seq(Inferences) /\ Len(leaving') = 1 + (i - 1)
      /\ leaving'[1] = i
      /\ \A k \in 2..(1 + (i - 1)) : leaving'[k] = before[k - 1]
  BY <1>1, <1>2, <1>3, <1>4, ConcatProperties
<1>6. ASSUME NEW j \in Inferences, j < i PROVE leaving'[j + 1] = j /\ j + 1 \in DOMAIN leaving'
  <2>1. j \in 1..(i - 1) /\ j + 1 \in 2..(1 + (i - 1)) /\ (j + 1) - 1 = j
    BY <1>1, <1>6 DEF Inferences
  <2>2. before[j] = j
    BY <2>1 DEF before
  <2> QED
    BY <1>1, <1>5, <2>1, <2>2
<1>7. 1 \in DOMAIN leaving'
  BY <1>1, <1>5
<1>8. \A j \in Inferences : j <= i => j = i \/ j < i
  BY <1>1 DEF Inferences
<1> QED
  BY <1>5, <1>6, <1>7, <1>8

(* InitCallFails keeps the invariant.                                      *)
LEMMA InitCallFailsPreserves ==
    ASSUME BufInv, InitCallFails
    PROVE  BufInv'
<1>1. /\ opc = "build" /\ opc' = "join" /\ LeaveFrom(cur)
      /\ UNCHANGED <<step, held, cur, open, lost, dma, alloc, picture, polls,
                     next_inference_idx, pictures, wpc, m_is_running, m_is_busy>>
      /\ TypeOK /\ AllocsFollow /\ Sized /\ Busy /\ Lifecycle /\ cur \in Inferences
  BY DEF InitCallFails, BufInv, TypeOK, tableVars, callbackVars, workerVars
<1>2. Accounted' /\ Numbered'
  BY <1>1, Untouched
<1>3. /\ leaving' \in Seq(Inferences)
      /\ \A j \in Inferences : j <= cur => \E k \in DOMAIN leaving' : leaving'[k] = j
  BY <1>1, LeaveFromLists
<1>4. TypeOK'
  BY <1>1, <1>3 DEF TypeOK, OwnerPlaces
<1>5. AllocsFollow'
  BY <1>1, SameAllocs DEF Allocates, AllocBuffer, OwnerBuffer
<1>6. Sized'
  BY <1>1 DEF Sized, Filling
<1>7. Busy'
  BY <1>1 DEF Busy, BusyAt, Working, Filling
<1>8. \A i \in Inferences : Clean(i)' \/ ToRelease(i)'
  <2>1. \A i \in Inferences : i <= cur \/ i > cur
    BY <1>1 DEF Inferences
  <2>2. ASSUME NEW i \in Inferences, i <= cur PROVE ToRelease(i)'
    BY <1>3, <2>2 DEF ToRelease
  <2>3. ASSUME NEW i \in Inferences, i > cur PROVE Clean(i)'
    <3>1. Clean(i)
      BY <1>1, <2>3 DEF Lifecycle, Building
    <3> QED
      BY <1>1, <3>1 DEF Clean
  <2> QED
    BY <2>1, <2>2, <2>3
<1>9. Lifecycle'
  BY <1>1, <1>8 DEF Lifecycle, Building, Leaving
<1> QED
  BY <1>2, <1>4, <1>5, <1>6, <1>7, <1>9 DEF BufInv

(* FrameCallback keeps the invariant.                                      *)
LEMMA FrameCallbackPreserves ==
    ASSUME BufInv, NEW g \in Geometries, FrameCallback(g)
    PROVE  BufInv'
<1>1. /\ opc = "play" /\ opc' = "poll" /\ pictures' = pictures + 1 /\ picture' = g /\ polls' = N
      /\ UNCHANGED <<step, held, cur, leaving, open, lost, dma, alloc,
                     next_inference_idx, wpc, m_is_running, m_is_busy>>
      /\ TypeOK /\ AllocsFollow /\ Sized /\ Busy /\ Lifecycle
  BY DEF FrameCallback, BufInv, tableVars, workerVars
<1>2. Accounted' /\ Numbered'
  BY <1>1, Untouched
<1>3. TypeOK'
  BY <1>1, BoundAssumption DEF TypeOK, OwnerPlaces
<1>4. AllocsFollow'
  BY <1>1, SameAllocs DEF Allocates, AllocBuffer, OwnerBuffer
<1>5. Sized'
  BY <1>1 DEF Sized, Filling
<1>6. Busy'
  BY <1>1 DEF Busy, BusyAt, Working, Filling
<1>7. Lifecycle'
  BY <1>1 DEF Lifecycle, Building, Leaving
<1> QED
  BY <1>2, <1>3, <1>4, <1>5, <1>6, <1>7 DEF BufInv

(* The index the callback polls with stays inside the inferences.          *)
LEMMA NextPollStays ==
    ASSUME TypeOK, polls > 0, NextPoll
    PROVE  /\ polls' \in 0..N /\ next_inference_idx' \in 0..(N - 1)
           /\ Polled \in Inferences
  BY BoundAssumption DEF TypeOK, NextPoll, Polled, Inferences

(* PollBusy keeps the invariant.                                           *)
LEMMA PollBusyPreserves ==
    ASSUME BufInv, PollBusy
    PROVE  BufInv'
<1>1. /\ opc = "poll" /\ polls > 0 /\ NextPoll
      /\ UNCHANGED <<opc, step, held, cur, leaving, open, lost, dma, alloc, picture, pictures,
                     wpc, m_is_running, m_is_busy>>
      /\ TypeOK /\ AllocsFollow /\ Sized /\ Busy /\ Lifecycle
  BY DEF PollBusy, BufInv, tableVars, ownerVars, workerVars
<1>2. Accounted' /\ Numbered'
  BY <1>1, Untouched
<1>3. TypeOK'
  BY <1>1, NextPollStays DEF TypeOK
<1>4. AllocsFollow'
  BY <1>1, SameAllocs DEF Allocates, AllocBuffer, OwnerBuffer
<1>5. Sized'
  BY <1>1 DEF Sized, Filling
<1>6. Busy'
  BY <1>1 DEF Busy, BusyAt, Working, Filling
<1>7. Lifecycle'
  BY <1>1 DEF Lifecycle, Building, Leaving, Clean, ToRelease
<1> QED
  BY <1>2, <1>3, <1>4, <1>5, <1>6, <1>7 DEF BufInv

(* EncodeDirectly keeps the invariant.                                     *)
LEMMA EncodeDirectlyPreserves ==
    ASSUME BufInv, EncodeDirectly
    PROVE  BufInv'
<1>1. /\ opc = "poll" /\ opc' = "play"
      /\ UNCHANGED <<step, held, cur, leaving, open, lost, dma, alloc, picture, pictures, polls,
                     next_inference_idx, wpc, m_is_running, m_is_busy>>
      /\ TypeOK /\ AllocsFollow /\ Sized /\ Busy /\ Lifecycle
  BY DEF EncodeDirectly, BufInv, tableVars, callbackVars, workerVars
<1>2. Accounted' /\ Numbered'
  BY <1>1, Untouched
<1>3. TypeOK'
  BY <1>1 DEF TypeOK, OwnerPlaces
<1>4. AllocsFollow'
  BY <1>1, SameAllocs DEF Allocates, AllocBuffer, OwnerBuffer
<1>5. Sized'
  BY <1>1 DEF Sized, Filling
<1>6. Busy'
  BY <1>1 DEF Busy, BusyAt, Working, Filling
<1>7. Lifecycle'
  BY <1>1 DEF Lifecycle, Building, Leaving
<1> QED
  BY <1>2, <1>3, <1>4, <1>5, <1>6, <1>7 DEF BufInv

(* Interrupt keeps the invariant.                                          *)
LEMMA InterruptPreserves ==
    ASSUME BufInv, Interrupt
    PROVE  BufInv'
<1>1. /\ opc = "play" /\ opc' = "join" /\ leaving' = [j \in 1..N |-> j]
      /\ UNCHANGED <<step, held, cur, open, lost, dma, alloc, picture, pictures, polls,
                     next_inference_idx, wpc, m_is_running, m_is_busy>>
      /\ TypeOK /\ AllocsFollow /\ Sized /\ Busy /\ Lifecycle
  BY DEF Interrupt, BufInv, tableVars, callbackVars, workerVars
<1>2. Accounted' /\ Numbered'
  BY <1>1, Untouched
<1>3. leaving' \in Seq(Inferences) /\ \A j \in Inferences : j \in DOMAIN leaving' /\ leaving'[j] = j
  BY <1>1, BoundAssumption DEF Inferences
<1>4. TypeOK'
  BY <1>1, <1>3 DEF TypeOK, OwnerPlaces
<1>5. AllocsFollow'
  BY <1>1, SameAllocs DEF Allocates, AllocBuffer, OwnerBuffer
<1>6. Sized'
  BY <1>1 DEF Sized, Filling
<1>7. Busy'
  BY <1>1 DEF Busy, BusyAt, Working, Filling
<1>8. Lifecycle'
  BY <1>1, <1>3 DEF Lifecycle, Building, Leaving, ToRelease
<1> QED
  BY <1>2, <1>4, <1>5, <1>6, <1>7, <1>8 DEF BufInv

(* StopInference keeps the invariant.                                      *)
LEMMA StopInferencePreserves ==
    ASSUME BufInv, StopInference
    PROVE  BufInv'
<1>1. /\ opc = "join" /\ opc' = "free" /\ leaving # <<>>
      /\ cur' = Head(leaving) /\ leaving' = Tail(leaving)
      /\ m_is_running' = [m_is_running EXCEPT ![cur'] = FALSE]
      /\ UNCHANGED <<step, held, open, lost, dma, alloc, picture, pictures, polls,
                     next_inference_idx, wpc, m_is_busy>>
      /\ TypeOK /\ AllocsFollow /\ Sized /\ Busy /\ Lifecycle /\ leaving \in Seq(Inferences)
  BY DEF StopInference, BufInv, TypeOK, tableVars, callbackVars
<1>2. Accounted' /\ Numbered'
  BY <1>1, Untouched
<1>3. /\ cur' \in Inferences /\ leaving' \in Seq(Inferences) /\ Len(leaving) \in Nat
      /\ DOMAIN leaving = 1..Len(leaving) /\ leaving[1] = cur'
      /\ DOMAIN leaving' = 1..(Len(leaving) - 1)
      /\ \A k \in DOMAIN leaving' : leaving'[k] = leaving[k + 1]
  BY <1>1, HeadTailProperties, LenProperties
<1>4. \A i \in Inferences : ToRelease(i) => ToRelease(i)'
  <2> SUFFICES ASSUME NEW i \in Inferences, NEW k \in DOMAIN leaving, leaving[k] = i, i # cur'
               PROVE  \E m \in DOMAIN leaving' : leaving'[m] = i
    BY <1>1 DEF ToRelease
  <2>1. k - 1 \in DOMAIN leaving' /\ (k - 1) + 1 = k
    BY <1>3
  <2> QED
    BY <1>3, <2>1
<1>5. m_is_running' \in [Inferences -> BOOLEAN]
  BY <1>1 DEF TypeOK
<1>6. TypeOK'
  BY <1>1, <1>3, <1>5 DEF TypeOK, OwnerPlaces
<1>7. AllocsFollow'
  BY <1>1, SameAllocs DEF Allocates, AllocBuffer, OwnerBuffer
<1>8. Sized'
  BY <1>1 DEF Sized, Filling
<1>9. Busy'
  BY <1>1 DEF Busy, BusyAt, Working, Filling
<1>10. Lifecycle'
  BY <1>1, <1>4 DEF Lifecycle, Building, Leaving, Clean
<1> QED
  BY <1>2, <1>6, <1>7, <1>8, <1>9, <1>10 DEF BufInv

(* MainEnds keeps the invariant.                                           *)
LEMMA MainEndsPreserves ==
    ASSUME BufInv, MainEnds
    PROVE  BufInv'
<1>1. /\ opc = "join" /\ opc' = "end" /\ leaving = <<>>
      /\ UNCHANGED <<step, held, cur, leaving, open, lost, dma, alloc, picture, pictures, polls,
                     next_inference_idx, wpc, m_is_running, m_is_busy>>
      /\ TypeOK /\ AllocsFollow /\ Sized /\ Busy /\ Lifecycle
  BY DEF MainEnds, BufInv, tableVars, callbackVars, workerVars
<1>2. Accounted' /\ Numbered'
  BY <1>1, Untouched
<1>3. TypeOK'
  BY <1>1 DEF TypeOK, OwnerPlaces
<1>4. AllocsFollow'
  BY <1>1, SameAllocs DEF Allocates, AllocBuffer, OwnerBuffer
<1>5. Sized'
  BY <1>1 DEF Sized, Filling
<1>6. Busy'
  BY <1>1 DEF Busy, BusyAt, Working, Filling
<1>7. Lifecycle'
  BY <1>1 DEF Lifecycle, Building, Leaving, Clean, ToRelease
<1> QED
  BY <1>2, <1>3, <1>4, <1>5, <1>6, <1>7 DEF BufInv

(* A step of an inference thread after which it allocates nothing.         *)
LEMMA WorkerStep ==
    ASSUME BufInv, NEW i \in Inferences, NEW to \in WorkerPlaces,
           wpc[i] \notin {"none", "gone"}, to \notin {"none", "remake"},
           wpc' = [wpc EXCEPT ![i] = to],
           open' = open, lost' = lost, dma' = dma, UNCHANGED ownerVars, UNCHANGED callbackVars,
           m_is_running' = m_is_running,
           alloc' \in [Threads -> AllocType], alloc'[i].at = "none",
           \A u \in Threads : u # i => alloc'[u] = alloc[u],
           m_is_busy' \in [Inferences -> BOOLEAN],
           \A j \in Inferences : j # i => m_is_busy'[j] = m_is_busy[j],
           m_is_busy'[i] => m_is_busy[i],
           to \in {"run", "draw", "callback"} => m_is_busy'[i],
           to = "run" => /\ dma[Rgba(i)].len # 0
                         /\ dma[Rgba(i)].width = dma[Src(i)].width
                         /\ dma[Rgba(i)].height = dma[Src(i)].height,
           Accounted', Numbered'
    PROVE  BufInv'
<1>1. /\ UNCHANGED <<opc, cur, step, held, leaving, picture, polls, next_inference_idx, pictures>>
      /\ TypeOK /\ AllocsFollow /\ Sized /\ Busy /\ Lifecycle
      /\ i \in Threads /\ i # 0
  BY Constants DEF BufInv, ownerVars, callbackVars
<1>2. /\ wpc' \in [Inferences -> WorkerPlaces] /\ wpc'[i] = to
      /\ \A j \in Inferences : j # i => wpc'[j] = wpc[j]
  BY <1>1 DEF TypeOK
<1>3. TypeOK'
  BY <1>1, <1>2 DEF TypeOK
<1>4. AllocsFollow'
  <2>1. \A u \in Threads : AllocBuffer(u)' = AllocBuffer(u)
    BY <1>1 DEF AllocBuffer, OwnerBuffer
  <2>2. ~ Allocates(i)'
    BY <1>1, <1>2 DEF Allocates
  <2>3. \A u \in Threads : u # i => Allocates(u)' = Allocates(u)
    BY <1>1, <1>2, Constants DEF Allocates
  <2>4. ASSUME NEW u \in Threads
        PROVE  AllocFollows(u)'
    <3>1. CASE u = i
      BY <2>2, <3>1 DEF AllocFollows
    <3>2. CASE u # i
      BY <1>1, <2>1, <2>3, <3>2 DEF AllocsFollow, AllocFollows
    <3> QED
      BY <3>1, <3>2
  <2> QED
    BY <2>4 DEF AllocsFollow, AllocFollows
<1>5. Sized'
  BY <1>1 DEF Sized, Filling
<1>6. Busy'
  <2> SUFFICES ASSUME NEW j \in Inferences
               PROVE  BusyAt(j)'
    BY DEF Busy
  <2>1. CASE j = i
    BY <1>1, <1>2, <2>1 DEF Busy, BusyAt, Working, Filling
  <2>2. CASE j # i
    BY <1>1, <1>2, <2>2 DEF Busy, BusyAt, Working, Filling
  <2> QED
    BY <2>1, <2>2
<1>7. Lifecycle'
  <2>1. \A j \in Inferences : wpc[j] # "none" => wpc'[j] # "none"
    BY <1>2
  <2>2. \A j \in Inferences : Clean(j) => Clean(j)' /\ wpc'[j] = wpc[j]
    BY <1>1, <1>2 DEF Clean
  <2>3. Building => wpc[cur] = "none" /\ wpc'[cur] = "none"
    BY <1>1, <1>2 DEF Lifecycle, TypeOK
  <2> QED
    BY <1>1, <2>1, <2>2, <2>3 DEF Lifecycle, Building, Leaving, ToRelease
<1> QED
  BY <1>3, <1>4, <1>5, <1>6, <1>7 DEF BufInv

(* A thread that is not at an allocation is in none.                       *)
LEMMA NotAllocating ==
    ASSUME BufInv, NEW t \in Threads, ~ Allocates(t)
    PROVE  alloc[t].at = "none"
  BY DEF BufInv, AllocsFollow, AllocFollows

(* A step of an inference thread that moves no buffer ...                  *)
LEMMA WorkerPlain ==
    ASSUME BufInv, NEW i \in Inferences, NEW to \in {"draw", "callback", "wait", "gone"},
           wpc[i] \notin {"none", "remake", "gone"}, wpc' = [wpc EXCEPT ![i] = to],
           open' = open, lost' = lost, dma' = dma, alloc' = alloc,
           UNCHANGED ownerVars, UNCHANGED callbackVars, m_is_running' = m_is_running,
           m_is_busy' \in [Inferences -> BOOLEAN],
           \A j \in Inferences : j # i => m_is_busy'[j] = m_is_busy[j],
           m_is_busy'[i] => m_is_busy[i],
           to \in {"draw", "callback"} => m_is_busy'[i]
    PROVE  BufInv'
<1>1. to \in WorkerPlaces /\ to \notin {"none", "remake"} /\ to # "run"
  BY DEF WorkerPlaces
<1>2. alloc \in [Threads -> AllocType] /\ i \in Threads
  BY Constants DEF BufInv, TypeOK
<1>3. ~ Allocates(i)
  BY Constants DEF Allocates
<1>4. alloc'[i].at = "none"
  BY <1>2, <1>3, NotAllocating
<1>5. Accounted' /\ Numbered'
  BY Untouched
<1>6. alloc' \in [Threads -> AllocType] /\ \A u \in Threads : u # i => alloc'[u] = alloc[u]
  BY <1>2
<1> QED
  BY <1>1, <1>4, <1>5, <1>6, WorkerStep

(* ... is one of a busy inference ...                                      *)
LEMMA WorkingIsBusy ==
    ASSUME BufInv, NEW i \in Inferences
    PROVE  /\ wpc[i] \in {"remake", "run", "draw", "callback"} => m_is_busy[i]
           /\ m_is_busy \in [Inferences -> BOOLEAN]
  BY DEF BufInv, TypeOK, Busy, BusyAt, Working

(* ... which holds for the network, drawing, the callback and the end.     *)
LEMMA PlainPreserves ==
    ASSUME BufInv, NEW i \in Inferences,
           RunNetwork(i) \/ DrawLabels(i) \/ CallBack(i) \/ LeaveLoop(i)
    PROVE  BufInv'
<1>1. CASE RunNetwork(i)
  <2> USE <1>1 DEF RunNetwork, Worker, tableVars
  <2>1. CASE wpc' = [wpc EXCEPT ![i] = "draw"]
    BY <2>1, WorkerPlain, WorkingIsBusy
  <2>2. CASE wpc' = [wpc EXCEPT ![i] = "callback"]
    BY <2>2, WorkerPlain, WorkingIsBusy
  <2> QED
    BY <2>1, <2>2
<1>2. CASE DrawLabels(i)
  BY <1>2, WorkerPlain, WorkingIsBusy DEF DrawLabels, Worker, tableVars
<1>3. CASE CallBack(i)
  <2>1. /\ m_is_busy' \in [Inferences -> BOOLEAN] /\ ~ m_is_busy'[i]
        /\ \A j \in Inferences : j # i => m_is_busy'[j] = m_is_busy[j]
    BY <1>3, WorkingIsBusy DEF CallBack
  <2> QED
    BY <1>3, <2>1, WorkerPlain DEF CallBack, Worker, tableVars
<1>4. CASE LeaveLoop(i)
  BY <1>4, WorkerPlain, WorkingIsBusy DEF LeaveLoop, Worker, tableVars
<1> QED
  BY <1>1, <1>2, <1>3, <1>4

(* The end of an inference's own allocation keeps the invariant.           *)
LEMMA RgbaDonePreserves ==
    ASSUME BufInv, NEW i \in Inferences, RgbaMade(i) \/ RgbaFails(i)
    PROVE  BufInv'
<1>1. /\ wpc[i] = "remake" /\ Forget(i) /\ alloc[i].at \in {"done", "failed"}
      /\ open' = open /\ lost' = lost /\ dma' = dma /\ UNCHANGED ownerVars
      /\ UNCHANGED callbackVars /\ m_is_running' = m_is_running /\ m_is_busy' = m_is_busy
      /\ i \in Threads
  BY Constants DEF RgbaMade, RgbaFails, Worker, tableVars
<1>2. /\ alloc' \in [Threads -> AllocType] /\ alloc'[i].at = "none"
      /\ \A u \in Threads : u # i => alloc'[u] = alloc[u]
      /\ Accounted' /\ Numbered'
  BY <1>1, Forgotten
<1>3. /\ m_is_busy[i] /\ m_is_busy' \in [Inferences -> BOOLEAN]
  BY <1>1, WorkingIsBusy
<1>4. /\ dma[Rgba(i)].width = dma[Src(i)].width
      /\ dma[Rgba(i)].height = dma[Src(i)].height
      /\ alloc[i].at = "done" => dma[Rgba(i)].len # 0
  <2>1. Allocates(i) /\ AllocBuffer(i) = Rgba(i)
    BY <1>1, Constants DEF Allocates, AllocBuffer
  <2> QED
    BY <1>1, <2>1 DEF BufInv, AllocsFollow, AllocFollows, Busy, BusyAt
<1>5. CASE alloc[i].at = "done" /\ wpc' = [wpc EXCEPT ![i] = "run"]
  <2>1. "run" \in WorkerPlaces
    BY DEF WorkerPlaces
  <2> QED
    BY <1>1, <1>2, <1>3, <1>4, <1>5, <2>1, WorkerStep
<1>6. CASE wpc' = [wpc EXCEPT ![i] = "callback"]
  <2>1. "callback" \in WorkerPlaces
    BY DEF WorkerPlaces
  <2> QED
    BY <1>1, <1>2, <1>3, <1>6, <2>1, WorkerStep
<1> QED
  BY <1>5, <1>6 DEF RgbaMade, RgbaFails, Worker

(* No buffer is asked for with a size of 0.                                *)
LEMMA SizesArePositive ==
    /\ \A a, b \in Nat \ {0} : a * b \in Nat \ {0}
    /\ ModelSize \in Nat \ {0}
    /\ \A g \in Geometries : YuvSize(g) \in Nat \ {0}
<1>1. \A a, b \in Nat \ {0} : a * b \in Nat \ {0}
  OBVIOUS
<1>2. ModelSize \in Nat \ {0}
  BY <1>1, ModelAssumption DEF ModelSize
<1>3. ASSUME NEW g \in Geometries PROVE YuvSize(g) \in Nat \ {0}
  <2>1. g.ws \in Nat \ {0} /\ g.hs \in Nat \ {0}
    BY GeometryAssumption
  <2> DEFINE p == g.ws * g.hs
  <2>2. p \in Nat \ {0}
    BY <1>1, <2>1
  <2> HIDE DEF p
  <2>3. (p * 3) \div 2 \in Nat \ {0}
    BY <2>2
  <2> QED
    BY <2>3 DEF YuvSize, p
<1> QED
  BY <1>1, <1>2, <1>3

(* TakeFrame keeps the invariant.                                          *)
LEMMA TakeFramePreserves ==
    ASSUME BufInv, NEW i \in Inferences, TakeFrame(i)
    PROVE  BufInv'
<1>1. /\ wpc[i] = "wait" /\ m_is_busy[i]
      /\ lost' = lost /\ UNCHANGED ownerVars
      /\ UNCHANGED callbackVars /\ m_is_running' = m_is_running /\ m_is_busy' = m_is_busy
      /\ i \in Threads /\ i # 0 /\ Src(i) \in Buffers /\ Rgba(i) \in Buffers /\ Src(i) # Rgba(i)
      /\ m_is_busy \in [Inferences -> BOOLEAN]
      /\ TypeOK /\ AllocsFollow /\ Sized /\ Busy /\ Lifecycle
  BY Constants DEF TakeFrame, Worker, BufInv, TypeOK, Src, Rgba
<1>2. alloc[i].at = "none" /\ alloc \in [Threads -> AllocType]
  BY <1>1, NotAllocating DEF Allocates, TypeOK
<1>3. CASE RgbaFits(i) /\ wpc' = [wpc EXCEPT ![i] = "run"] /\ UNCHANGED <<open, dma, alloc>>
  <2>1. "run" \in WorkerPlaces
    BY DEF WorkerPlaces
  <2>2. Accounted' /\ Numbered'
    BY <1>1, <1>3, Untouched
  <2>3. /\ dma[Rgba(i)].len # 0
        /\ dma[Rgba(i)].width = dma[Src(i)].width
        /\ dma[Rgba(i)].height = dma[Src(i)].height
    BY <1>3 DEF RgbaFits, GetSize
  <2> QED
    BY <1>1, <1>2, <1>3, <2>1, <2>2, <2>3, WorkerStep
<1>4. CASE /\ wpc' = [wpc EXCEPT ![i] = "remake"]
           /\ MakeDma(i, Rgba(i), dma[Src(i)].width, dma[Src(i)].height, RgbaSize(dma[Src(i)]))
  <2> DEFINE width == dma[Src(i)].width
             height == dma[Src(i)].height
             size == RgbaSize(dma[Src(i)])
  <2>1. width \in Nat \ {0} /\ height \in Nat \ {0}
    BY <1>1, GeometryAssumption DEF Busy, BusyAt, HasShape
  <2>2. size \in Nat \ {0} /\ size = width * height * 4
    BY <2>1, SizesArePositive DEF RgbaSize
  <2>3. /\ open' \subseteq Fds /\ dma' \in [Buffers -> DmaType]
        /\ alloc' \in [Threads -> AllocType]
        /\ alloc'[i].at = "open" /\ alloc'[i].buf = Rgba(i)
        /\ \A u \in Threads : u # i => alloc'[u] = alloc[u]
        /\ dma'[Rgba(i)].width = width /\ dma'[Rgba(i)].height = height
        /\ dma'[Rgba(i)].size = size /\ dma'[Rgba(i)].len = 0
        /\ \A c \in Buffers : c # Rgba(i) => dma'[c] = dma[c]
        /\ Accounted' /\ Numbered'
    <3> HIDE DEF width, height, size
    <3>1. MakeDma(i, Rgba(i), width, height, size)
      BY <1>4 DEF width, height, size
    <3>2. width \in Nat /\ height \in Nat /\ size \in Nat
      BY <2>1, <2>2
    <3> QED
      BY <1>1, <1>2, <3>1, <3>2, MadeDma
  <2>4. /\ wpc' \in [Inferences -> WorkerPlaces] /\ wpc'[i] = "remake"
        /\ \A j \in Inferences : j # i => wpc'[j] = wpc[j]
    BY <1>1, <1>4 DEF TypeOK, WorkerPlaces
  <2>5. UNCHANGED <<opc, cur, step, held, leaving, picture, polls, next_inference_idx, pictures>>
    BY <1>1 DEF ownerVars, callbackVars
  <2>6. \A j \in Inferences : /\ \A k \in Kinds : k # "rgba_data" => dma'[<<j, k>>] = dma[<<j, k>>]
                              /\ dma'[Src(j)] = dma[Src(j)]
                              /\ j # i => dma'[Rgba(j)] = dma[Rgba(j)]
    BY <2>3, Constants DEF Src, Rgba, Kinds
  <2> HIDE DEF width, height, size
  <2>7. TypeOK'
    BY <1>1, <2>3, <2>4, <2>5 DEF TypeOK
  <2>8. AllocsFollow'
    <3>1. \A u \in Threads : AllocBuffer(u)' = AllocBuffer(u)
      BY <2>5 DEF AllocBuffer, OwnerBuffer
    <3>2. Allocates(i)' /\ AllocBuffer(i) = Rgba(i)
      BY <1>1, <2>4 DEF Allocates, AllocBuffer
    <3>3. \A u \in Threads : u # i => Allocates(u)' = Allocates(u)
      BY <2>4, <2>5, Constants DEF Allocates
    <3>4. ASSUME NEW u \in Threads
          PROVE  AllocFollows(u)'
      <4>1. CASE u = i
        BY <2>2, <2>3, <3>1, <3>2, <4>1 DEF AllocFollows
      <4>2. CASE u # i
        <5>1. Allocates(u) => AllocBuffer(u) \in Buffers /\ AllocBuffer(u) # Rgba(i)
          BY <4>2, Constants, AllocBuffers
             DEF AllocBuffer, OwnerBuffer, Allocates, Src, Rgba
        <5> QED
          BY <1>1, <2>3, <3>1, <3>3, <4>2, <5>1 DEF AllocsFollow, AllocFollows
      <4> QED
        BY <4>1, <4>2
    <3> QED
      BY <3>4 DEF AllocsFollow, AllocFollows
  <2>9. Sized'
    <3>1. \A c \in Buffers : dma'[c].len # 0 => dma'[c].len = dma'[c].size
      BY <1>1, <2>3 DEF Sized
    <3>2. \A j \in Inferences : dma'[Rgba(j)].size \in {0, RgbaSize(dma'[Rgba(j)])}
      <4>1. RgbaSize(dma'[Rgba(i)]) = width * height * 4
        BY <2>3 DEF RgbaSize
      <4>2. \A j \in Inferences : j # i => dma'[Rgba(j)].size \in {0, RgbaSize(dma'[Rgba(j)])}
        BY <1>1, <2>6 DEF Sized
      <4>3. dma'[Rgba(i)].size = RgbaSize(dma'[Rgba(i)])
        BY <2>2, <2>3, <4>1
      <4> QED
        BY <4>2, <4>3
    <3>3. \A j \in Inferences :
             /\ \A k \in {"resize_img", "input_img"} : dma'[<<j, k>>].size \in {0, ModelSize}
             /\ dma'[Src(j)].len # 0 /\ ~ Filling(j) => dma'[Src(j)].len = StrideSize(dma'[Src(j)])
             /\ Filling(j) => dma'[Src(j)].size = YuvSize(picture)
      <4>1. \A j \in Inferences : /\ dma'[<<j, "resize_img">>] = dma[<<j, "resize_img">>]
                                  /\ dma'[<<j, "input_img">>] = dma[<<j, "input_img">>]
                                  /\ dma'[Src(j)] = dma[Src(j)]
        BY <2>6 DEF Kinds
      <4> QED
        BY <1>1, <4>1 DEF Sized
    <3>4. opc = "copy" => dma'[Src(cur)].len # 0
      BY <1>1, <2>6 DEF Sized, TypeOK
    <3> QED
      BY <2>5, <3>1, <3>2, <3>3, <3>4 DEF Sized, Filling, ModelSize, YuvSize
  <2>10. Busy'
    <3>1. \A j \in Inferences : j # i => /\ wpc'[j] = wpc[j] /\ dma'[Rgba(j)] = dma[Rgba(j)]
      BY <2>4, <2>6
    <3>2. \A j \in Inferences : /\ dma'[<<j, "resize_img">>] = dma[<<j, "resize_img">>]
                                /\ dma'[<<j, "input_img">>] = dma[<<j, "input_img">>]
                                /\ dma'[Src(j)] = dma[Src(j)]
      BY <2>6 DEF Kinds
    <3> SUFFICES ASSUME NEW j \in Inferences
               PROVE  BusyAt(j)'
      BY DEF Busy
    <3>3. CASE j = i
      BY <1>1, <2>3, <2>4, <2>5, <3>2, <3>3
         DEF Busy, BusyAt, Working, Filling, width, height
    <3>4. CASE j # i
      BY <1>1, <2>5, <3>1, <3>2, <3>4 DEF Busy, BusyAt, Working, Filling
    <3> QED
      BY <3>3, <3>4
  <2>11. Lifecycle'
    <3>1. \A j \in Inferences : wpc[j] # "none" => wpc'[j] # "none"
      BY <2>4
    <3>2. \A j \in Inferences : Clean(j) => j # i
      BY <1>1 DEF Clean
    <3>3. \A j \in Inferences : j # i => \A k \in Kinds : dma'[<<j, k>>] = dma[<<j, k>>]
      BY <2>6 DEF Rgba
    <3>4. \A j \in Inferences : Clean(j) => Clean(j)' /\ wpc'[j] = wpc[j]
      BY <2>4, <2>5, <3>2, <3>3 DEF Clean
    <3>5. Building => wpc[cur] = "none" /\ wpc'[cur] = "none"
      BY <1>1, <2>4 DEF Lifecycle, TypeOK
    <3>6. dma'[<<cur, "resize_img">>] = dma[<<cur, "resize_img">>]
      BY <1>1, <2>6 DEF TypeOK, Kinds
    <3> QED
      BY <1>1, <2>5, <3>1, <3>4, <3>5, <3>6 DEF Lifecycle, Building, Leaving, ToRelease
  <2> QED
    BY <1>1, <2>3, <2>7, <2>8, <2>9, <2>10, <2>11 DEF BufInv
<1> QED
  BY <1>3, <1>4 DEF TakeFrame, Worker

(* Allocations follow their threads when the owner's has ended.            *)
LEMMA ReleasedAlloc ==
    ASSUME AllocsFollow, dma' = dma, alloc'[0].at = "none", ~ Allocates(0)',
           \A u \in Threads : u # 0 => alloc'[u] = alloc[u],
           \A u \in Threads : u # 0 => Allocates(u)' = Allocates(u)
    PROVE  AllocsFollow'
<1>1. \A u \in Threads : u # 0 => AllocBuffer(u)' = AllocBuffer(u)
  BY DEF AllocBuffer
<1>2. ASSUME NEW u \in Threads
      PROVE  AllocFollows(u)'
  <2>1. CASE u = 0
    BY <2>1 DEF AllocFollows
  <2>2. CASE u # 0
    BY <1>1, <2>2 DEF AllocsFollow, AllocFollows
  <2> QED
    BY <2>1, <2>2
<1> QED
  BY <1>2 DEF AllocsFollow, AllocFollows

(* What the owner's three calls of make_dma have in common.                *)
LEMMA OwnerMakes ==
    ASSUME BufInv, NEW b \in Buffers, NEW width \in Nat, NEW height \in Nat,
           NEW size \in Nat \ {0}, NEW nextPlace \in {"resize_img", "input_img", "remake"},
           NEW i \in Inferences,
           MakeDma(0, b, width, height, size), lost' = lost,
           alloc[0].at \in {"none", "done"},
           opc' = nextPlace, cur' = i,
           b = IF nextPlace = "remake" THEN Src(i) ELSE <<i, nextPlace>>,
           UNCHANGED <<step, held, leaving, picture, pictures, workerVars>>,
           polls' \in 0..N, next_inference_idx' \in 0..(N - 1)
    PROVE  /\ TypeOK' /\ AllocsFollow' /\ Accounted' /\ Numbered'
           /\ dma'[b].size = size /\ dma'[b].len = 0
           /\ \A c \in Buffers : c # b => dma'[c] = dma[c]
<1>1. /\ 0 \in Threads /\ TypeOK /\ AllocsFollow /\ size \in Nat
      /\ UNCHANGED <<wpc, m_is_running, m_is_busy>>
  BY Constants DEF BufInv, workerVars
<1>2. /\ open' \subseteq Fds /\ dma' \in [Buffers -> DmaType]
      /\ alloc' \in [Threads -> AllocType]
      /\ alloc'[0].at = "open" /\ alloc'[0].buf = b
      /\ \A u \in Threads : u # 0 => alloc'[u] = alloc[u]
      /\ dma'[b].size = size /\ dma'[b].len = 0
      /\ \A c \in Buffers : c # b => dma'[c] = dma[c]
      /\ Accounted' /\ Numbered'
  BY <1>1, MadeDma
<1>3. TypeOK'
  BY <1>1, <1>2 DEF TypeOK, OwnerPlaces
<1>4. AllocsFollow'
  <2>1. Allocates(0)' /\ AllocBuffer(0)' = b
    BY DEF Allocates, AllocBuffer, OwnerBuffer
  <2>2. \A u \in Threads : u # 0 => /\ Allocates(u)' = Allocates(u)
                                    /\ AllocBuffer(u)' = AllocBuffer(u)
    BY <1>1 DEF Allocates, AllocBuffer
  <2>3. ASSUME NEW u \in Threads
        PROVE  AllocFollows(u)'
    <3>1. CASE u = 0
      BY <1>2, <2>1, <3>1 DEF AllocFollows
    <3>2. CASE u # 0
      <4>1. AllocBuffer(u) \in Buffers /\ AllocBuffer(u) # b
        BY <3>2, Constants DEF AllocBuffer, Src, Rgba
      <4> QED
        BY <1>1, <1>2, <2>2, <3>2, <4>1 DEF AllocsFollow, AllocFollows
    <3> QED
      BY <3>1, <3>2
  <2> QED
    BY <2>3 DEF AllocsFollow, AllocFollows
<1> QED
  BY <1>2, <1>3, <1>4

(* The two buffers of initialize keep the invariant.                       *)
LEMMA InitMakes ==
    ASSUME BufInv, NEW k \in {"resize_img", "input_img"},
           \/ opc = "build" /\ k = "resize_img"
           \/ opc = "resize_img" /\ alloc[0].at = "done" /\ k = "input_img",
           MakeDma(0, <<cur, k>>, ModelW, ModelH, ModelSize),
           opc' = k, lost' = lost, UNCHANGED <<cur, step, held, leaving>>,
           UNCHANGED callbackVars, UNCHANGED workerVars
    PROVE  BufInv'
<1>1. /\ TypeOK /\ AllocsFollow /\ Sized /\ Busy /\ Lifecycle
      /\ cur \in Inferences /\ <<cur, k>> \in Buffers /\ 0 \in Threads
      /\ UNCHANGED <<picture, polls, next_inference_idx, pictures, wpc, m_is_running, m_is_busy>>
      /\ polls \in 0..N /\ next_inference_idx \in 0..(N - 1)
  BY Constants DEF BufInv, TypeOK, Kinds, callbackVars, workerVars
<1> DEFINE b == <<cur, k>>
<1>2. alloc[0].at \in {"none", "done"}
  BY <1>1, NotAllocating DEF Allocates
<1>3. ModelW \in Nat /\ ModelH \in Nat /\ ModelSize \in Nat \ {0}
  BY ModelAssumption, SizesArePositive
<1>4. b = IF k = "remake" THEN Src(cur) ELSE <<cur, k>>
  OBVIOUS
<1>5. /\ TypeOK' /\ AllocsFollow' /\ Accounted' /\ Numbered'
      /\ dma'[b].size = ModelSize /\ dma'[b].len = 0
      /\ \A c \in Buffers : c # b => dma'[c] = dma[c]
  <2> HIDE DEF b
  <2>1. MakeDma(0, b, ModelW, ModelH, ModelSize) /\ b \in Buffers
    BY <1>1 DEF b
  <2>2. /\ cur' = cur /\ k \in {"resize_img", "input_img", "remake"}
        /\ UNCHANGED <<step, held, leaving, picture, pictures, workerVars>>
        /\ polls' \in 0..N /\ next_inference_idx' \in 0..(N - 1)
    BY <1>1
  <2> QED
    BY <1>1, <1>2, <1>3, <1>4, <2>1, <2>2, OwnerMakes
<1>6. /\ \A j \in Inferences : dma'[Src(j)] = dma[Src(j)] /\ dma'[Rgba(j)] = dma[Rgba(j)]
      /\ \A j \in Inferences : j # cur => \A m \in Kinds : dma'[<<j, m>>] = dma[<<j, m>>]
      /\ \A m \in Kinds : m # k => dma'[<<cur, m>>] = dma[<<cur, m>>]
  BY <1>1, <1>5, Constants DEF Src, Rgba
<1>7. Sized'
  <2>1. \A c \in Buffers : dma'[c].len # 0 => dma'[c].len = dma'[c].size
    BY <1>1, <1>5 DEF Sized
  <2>2. ASSUME NEW j \in Inferences, NEW m \in {"resize_img", "input_img"}
        PROVE  dma'[<<j, m>>].size \in {0, ModelSize}
    <3>1. CASE <<j, m>> = b
      BY <1>5, <3>1
    <3>2. CASE <<j, m>> # b
      <4>1. <<j, m>> \in Buffers
        BY Constants DEF Kinds
      <4>2. dma'[<<j, m>>] = dma[<<j, m>>]
        BY <1>5, <3>2, <4>1
      <4> QED
        BY <1>1, <4>2 DEF Sized
    <3> QED
      BY <3>1, <3>2
  <2>3. \A j \in Inferences : ~ Filling(j) /\ ~ Filling(j)'
    BY DEF Filling
  <2> QED
    BY <1>1, <1>6, <2>1, <2>2, <2>3 DEF Sized, RgbaSize, ModelSize
<1>8. Busy'
  <2>1. wpc[cur] = "none" /\ ~ m_is_busy[cur]
    BY <1>1 DEF Lifecycle, Building, Busy, BusyAt
  <2>2. \A j \in Inferences : ~ Filling(j)'
    BY DEF Filling
  <2>3. \A j \in Inferences : j # cur =>
            /\ dma'[<<j, "resize_img">>] = dma[<<j, "resize_img">>]
            /\ dma'[<<j, "input_img">>] = dma[<<j, "input_img">>]
    BY <1>6 DEF Kinds
  <2> QED
    BY <1>1, <1>6, <2>1, <2>2, <2>3 DEF Busy, BusyAt, Working
<1>9. Lifecycle'
  <2>1. \A j \in Inferences : j > cur => Clean(j)' /\ wpc'[j] = "none"
    <3> SUFFICES ASSUME NEW j \in Inferences, j > cur PROVE Clean(j)' /\ wpc'[j] = "none"
      OBVIOUS
    <3>1. Clean(j) /\ wpc[j] = "none" /\ j # cur
      BY <1>1 DEF Lifecycle, Building, Inferences
    <3> QED
      BY <1>1, <1>6, <3>1 DEF Clean
  <2>2. k = "input_img" => dma'[<<cur, "resize_img">>].len # 0
    <3>1. k = "input_img" => dma[<<cur, "resize_img">>].len # 0
      BY <1>1 DEF AllocsFollow, AllocFollows, Allocates, AllocBuffer, OwnerBuffer
    <3> QED
      BY <1>6, <3>1 DEF Kinds
  <2> QED
    BY <1>1, <2>1, <2>2 DEF Lifecycle, Building, Leaving
<1> QED
  BY <1>5, <1>7, <1>8, <1>9 DEF BufInv

(* InitBuffer and InitSecondBuffer keep the invariant.                     *)
LEMMA InitBufferPreserves ==
    ASSUME BufInv, InitBuffer \/ InitSecondBuffer
    PROVE  BufInv'
<1>1. CASE InitBuffer
  <2>1. \/ opc = "build" /\ "resize_img" = "resize_img"
        \/ opc = "resize_img" /\ alloc[0].at = "done" /\ "resize_img" = "input_img"
    BY <1>1 DEF InitBuffer
  <2> QED
    BY <1>1, <2>1, InitMakes DEF InitBuffer
<1>2. CASE InitSecondBuffer
  <2>1. \/ opc = "build" /\ "input_img" = "resize_img"
        \/ opc = "resize_img" /\ alloc[0].at = "done" /\ "input_img" = "input_img"
    BY <1>2 DEF InitSecondBuffer
  <2> QED
    BY <1>2, <2>1, InitMakes DEF InitSecondBuffer
<1> QED
  BY <1>1, <1>2

(* InitBufferFails keeps the invariant.                                    *)
LEMMA InitBufferFailsPreserves ==
    ASSUME BufInv, InitBufferFails
    PROVE  BufInv'
<1>1. /\ opc \in {"resize_img", "input_img"} /\ alloc[0].at = "failed" /\ Forget(0)
      /\ opc' = "join" /\ LeaveFrom(cur)
      /\ UNCHANGED <<cur, step, held, open, lost, dma, picture, polls,
                     next_inference_idx, pictures, wpc, m_is_running, m_is_busy>>
      /\ TypeOK /\ AllocsFollow /\ Sized /\ Busy /\ Lifecycle
      /\ cur \in Inferences /\ 0 \in Threads
  BY Constants DEF InitBufferFails, BufInv, TypeOK, tableVars, callbackVars, workerVars
<1>2. /\ alloc' \in [Threads -> AllocType] /\ alloc'[0].at = "none"
      /\ \A u \in Threads : u # 0 => alloc'[u] = alloc[u]
      /\ Accounted' /\ Numbered'
  BY <1>1, Forgotten
<1>3. /\ leaving' \in Seq(Inferences)
      /\ \A j \in Inferences : j <= cur => \E k \in DOMAIN leaving' : leaving'[k] = j
  BY <1>1, LeaveFromLists
<1>4. TypeOK'
  BY <1>1, <1>2, <1>3 DEF TypeOK, OwnerPlaces
<1>5. AllocsFollow'
  BY <1>1, <1>2, ReleasedAlloc DEF Allocates
<1>6. Sized'
  BY <1>1 DEF Sized, Filling
<1>7. Busy'
  BY <1>1 DEF Busy, BusyAt, Working, Filling
<1>8. \A i \in Inferences : Clean(i)' \/ ToRelease(i)'
  <2>1. \A i \in Inferences : i <= cur \/ i > cur
    BY <1>1 DEF Inferences
  <2>2. ASSUME NEW i \in Inferences, i <= cur PROVE ToRelease(i)'
    BY <1>3, <2>2 DEF ToRelease
  <2>3. ASSUME NEW i \in Inferences, i > cur PROVE Clean(i)'
    <3>1. Clean(i)
      BY <1>1, <2>3 DEF Lifecycle, Building
    <3> QED
      BY <1>1, <3>1 DEF Clean
  <2> QED
    BY <2>1, <2>2, <2>3
<1>9. Lifecycle'
  BY <1>1, <1>8 DEF Lifecycle, Building, Leaving
<1> QED
  BY <1>2, <1>4, <1>5, <1>6, <1>7, <1>9 DEF BufInv

(* InitEnds keeps the invariant.                                           *)
LEMMA InitEndsPreserves ==
    ASSUME BufInv, InitEnds
    PROVE  BufInv'
<1>1. /\ opc = "input_img" /\ alloc[0].at = "done" /\ Forget(0) /\ step' = 1
      /\ m_is_running' = [m_is_running EXCEPT ![cur] = TRUE]
      /\ wpc' = [wpc EXCEPT ![cur] = "wait"]
      /\ UNCHANGED <<held, leaving, open, lost, dma, picture, polls,
                     next_inference_idx, pictures, m_is_busy>>
      /\ TypeOK /\ AllocsFollow /\ Sized /\ Busy /\ Lifecycle
      /\ cur \in Inferences /\ 0 \in Threads
  BY Constants DEF InitEnds, BufInv, TypeOK, tableVars, callbackVars
<1>2. /\ alloc' \in [Threads -> AllocType] /\ alloc'[0].at = "none"
      /\ \A u \in Threads : u # 0 => alloc'[u] = alloc[u]
      /\ Accounted' /\ Numbered'
  BY <1>1, Forgotten
<1>3. \/ cur < N /\ cur' = cur + 1 /\ cur' \in Inferences /\ opc' = "build"
      \/ cur = N /\ cur' = cur /\ opc' = "play"
  BY <1>1, BoundAssumption DEF InitEnds, Inferences
<1>4. /\ wpc' \in [Inferences -> WorkerPlaces] /\ wpc'[cur] = "wait"
      /\ \A j \in Inferences : j # cur => wpc'[j] = wpc[j]
      /\ wpc[cur] = "none" /\ m_is_running' \in [Inferences -> BOOLEAN]
  BY <1>1 DEF TypeOK, WorkerPlaces, Lifecycle, Building
<1>5. dma[<<cur, "resize_img">>].len # 0 /\ dma[<<cur, "input_img">>].len # 0
  BY <1>1
     DEF Lifecycle, Building, AllocsFollow, AllocFollows, Allocates, AllocBuffer,
         OwnerBuffer
<1>6. TypeOK'
  <2>1. 1 \in 1..(Len(InitCalls) + 1)
    <3>1. 1 \in 1..8
      OBVIOUS
    <3> QED
      BY <3>1, InitCallsAre
  <2>2. cur' \in Inferences /\ opc' \in OwnerPlaces
    BY <1>1, <1>3 DEF OwnerPlaces
  <2> QED
    BY <1>1, <1>2, <1>4, <2>1, <2>2 DEF TypeOK
<1>7. AllocsFollow'
  <2>1. ~ Allocates(0)'
    BY <1>3 DEF Allocates
  <2>2. \A u \in Threads : u # 0 => Allocates(u)' = Allocates(u)
    BY <1>4, Constants DEF Allocates
  <2> QED
    BY <1>1, <1>2, <2>1, <2>2, ReleasedAlloc
<1>8. Sized'
  BY <1>1, <1>3 DEF Sized, Filling
<1>9. Busy'
  <2>1. ~ m_is_busy[cur]
    BY <1>1, <1>4 DEF Busy, BusyAt
  <2>2. \A j \in Inferences : ~ Filling(j)'
    BY <1>3 DEF Filling
  <2> QED
    BY <1>1, <1>4, <1>5, <2>1, <2>2 DEF Busy, BusyAt, Working
<1>10. Lifecycle'
  <2>1. \A j \in Inferences : j <= cur => wpc'[j] # "none"
    BY <1>1, <1>4 DEF Lifecycle, Building, Inferences
  <2>2. ASSUME NEW j \in Inferences, j > cur PROVE Clean(j)' /\ wpc'[j] = "none"
    <3>1. Clean(j) /\ wpc[j] = "none" /\ j # cur
      BY <1>1, <2>2 DEF Lifecycle, Building, Inferences
    <3> QED
      BY <1>1, <1>4, <3>1 DEF Clean
  <2>3. CASE cur < N /\ cur' = cur + 1 /\ cur' \in Inferences /\ opc' = "build"
    <3>1. \A j \in Inferences : (j < cur' => j <= cur) /\ (j > cur' => j > cur) /\ cur' > cur
      BY <1>1, <2>3 DEF Inferences
    <3> QED
      BY <2>1, <2>2, <2>3, <3>1 DEF Lifecycle, Building, Leaving
  <2>4. CASE cur = N /\ opc' = "play"
    <3>1. \A j \in Inferences : j <= cur
      BY <2>4 DEF Inferences
    <3> QED
      BY <2>1, <2>4, <3>1 DEF Lifecycle, Building, Leaving
  <2> QED
    BY <1>3, <2>3, <2>4
<1> QED
  BY <1>2, <1>6, <1>7, <1>8, <1>9, <1>10 DEF BufInv

(* SrcFrameMade keeps the invariant.                                       *)
LEMMA SrcFrameMadePreserves ==
    ASSUME BufInv, SrcFrameMade
    PROVE  BufInv'
<1>1. /\ opc = "remake" /\ alloc[0].at = "done" /\ Forget(0) /\ opc' = "copy"
      /\ UNCHANGED <<cur, step, held, leaving, open, lost, dma, picture, polls,
                     next_inference_idx, pictures, wpc, m_is_running, m_is_busy>>
      /\ TypeOK /\ AllocsFollow /\ Sized /\ Busy /\ Lifecycle
      /\ cur \in Inferences /\ 0 \in Threads
  BY Constants DEF SrcFrameMade, BufInv, TypeOK, tableVars, callbackVars, workerVars
<1>2. /\ alloc' \in [Threads -> AllocType] /\ alloc'[0].at = "none"
      /\ \A u \in Threads : u # 0 => alloc'[u] = alloc[u]
      /\ Accounted' /\ Numbered'
  BY <1>1, Forgotten
<1>3. dma[Src(cur)].len # 0
  BY <1>1 DEF AllocsFollow, AllocFollows, Allocates, AllocBuffer, OwnerBuffer
<1>4. TypeOK'
  BY <1>1, <1>2 DEF TypeOK, OwnerPlaces
<1>5. AllocsFollow'
  BY <1>1, <1>2, ReleasedAlloc DEF Allocates
<1>6. Sized'
  BY <1>1, <1>3 DEF Sized, Filling
<1>7. Busy'
  BY <1>1 DEF Busy, BusyAt, Working, Filling
<1>8. Lifecycle'
  BY <1>1 DEF Lifecycle, Building, Leaving
<1> QED
  BY <1>2, <1>4, <1>5, <1>6, <1>7, <1>8 DEF BufInv

(* SrcFrameFails keeps the invariant.                                      *)
LEMMA SrcFrameFailsPreserves ==
    ASSUME BufInv, SrcFrameFails
    PROVE  BufInv'
<1>1. /\ opc = "remake" /\ alloc[0].at = "failed" /\ Forget(0) /\ opc' = "poll"
      /\ UNCHANGED <<cur, step, held, leaving, open, lost, dma, picture, polls,
                     next_inference_idx, pictures, wpc, m_is_running, m_is_busy>>
      /\ TypeOK /\ AllocsFollow /\ Sized /\ Busy /\ Lifecycle
      /\ cur \in Inferences /\ 0 \in Threads
  BY Constants DEF SrcFrameFails, BufInv, TypeOK, tableVars, callbackVars, workerVars
<1>2. /\ alloc' \in [Threads -> AllocType] /\ alloc'[0].at = "none"
      /\ \A u \in Threads : u # 0 => alloc'[u] = alloc[u]
      /\ Accounted' /\ Numbered'
  BY <1>1, Forgotten
<1>3. dma[Src(cur)].len = 0
  BY <1>1 DEF AllocsFollow, AllocFollows, Allocates, AllocBuffer, OwnerBuffer
<1>4. TypeOK'
  BY <1>1, <1>2 DEF TypeOK, OwnerPlaces
<1>5. AllocsFollow'
  BY <1>1, <1>2, ReleasedAlloc DEF Allocates
<1>6. Sized'
  BY <1>1, <1>3 DEF Sized, Filling
<1>7. Busy'
  BY <1>1 DEF Busy, BusyAt, Working, Filling
<1>8. Lifecycle'
  BY <1>1 DEF Lifecycle, Building, Leaving
<1> QED
  BY <1>2, <1>4, <1>5, <1>6, <1>7, <1>8 DEF BufInv

(* CopyAndTrigger keeps the invariant.                                     *)
LEMMA CopyAndTriggerPreserves ==
    ASSUME BufInv, CopyAndTrigger
    PROVE  BufInv'
<1> DEFINE b == Src(cur)
<1>1. /\ opc = "copy" /\ opc' = "play"
      /\ dma' = [dma EXCEPT ![b].width = picture.w, ![b].height = picture.h,
                            ![b].width_stride = picture.ws, ![b].height_stride = picture.hs]
      /\ m_is_busy' = [m_is_busy EXCEPT ![cur] = TRUE]
      /\ UNCHANGED <<cur, step, held, leaving, open, lost, alloc, picture, polls,
                     next_inference_idx, pictures, wpc, m_is_running>>
      /\ TypeOK /\ AllocsFollow /\ Sized /\ Busy /\ Lifecycle /\ Accounted /\ Numbered
      /\ cur \in Inferences /\ 0 \in Threads /\ b \in Buffers
      /\ dma \in [Buffers -> DmaType] /\ picture \in Geometries
  BY Constants DEF CopyAndTrigger, BufInv, TypeOK, tableVars, callbackVars
<1>2. /\ picture.w \in Nat /\ picture.h \in Nat /\ picture.ws \in Nat /\ picture.hs \in Nat
  BY <1>1, GeometryAssumption
<1> HIDE DEF b
<1>3. /\ dma' \in [Buffers -> DmaType]
      /\ HasShape(dma'[b], picture)
      /\ dma'[b].len = dma[b].len /\ dma'[b].size = dma[b].size /\ dma'[b].fd = dma[b].fd
      /\ \A c \in Buffers : c # b => dma'[c] = dma[c]
  BY <1>1, <1>2 DEF HasShape, DmaType
<1>4. Accounted'
  <2>1. \A c \in Buffers : Has'[c] = Has[c]
    BY <1>1, <1>3, HasOf DEF HasReads, BufferHas
  <2>2. \A t \in Threads : /\ Has'[<<t, "heap">>] = Has[<<t, "heap">>]
                           /\ Has'[<<t, "got">>] = Has[<<t, "got">>]
    BY <1>1, HasOf DEF HasReads
  <2>3. \A f \in Fds : Has'[<<f, "lost">>] = Has[<<f, "lost">>]
    BY <1>1, HasOf DEF HasReads
  <2>4. \A o \in Owners : Has'[o] = Has[o]
    BY <2>1, <2>2, <2>3, OwnersAre
  <2> QED
    BY <1>1, <2>4, SameOwners
<1>5. Numbered'
  BY <1>1, <1>3 DEF Numbered
<1>6. /\ m_is_busy' \in [Inferences -> BOOLEAN] /\ m_is_busy'[cur]
      /\ \A j \in Inferences : j # cur => m_is_busy'[j] = m_is_busy[j]
  BY <1>1 DEF TypeOK
<1>7. TypeOK'
  BY <1>1, <1>3, <1>6 DEF TypeOK, OwnerPlaces
<1>8. AllocsFollow'
  <2>1. \A u \in Threads : Allocates(u)' = Allocates(u) /\ (Allocates(u) => u # 0)
    BY <1>1 DEF Allocates
  <2>2. \A u \in Threads : u # 0 => AllocBuffer(u)' = AllocBuffer(u)
    BY DEF AllocBuffer
  <2>3. \A u \in Threads : u # 0 => AllocBuffer(u) \in Buffers
    BY Constants DEF AllocBuffer
  <2>4. \A c \in Buffers : dma'[c].len = dma[c].len /\ dma'[c].size = dma[c].size
    BY <1>3
  <2> QED
    BY <1>1, <2>1, <2>2, <2>3, <2>4 DEF AllocsFollow, AllocFollows
<1>9. /\ \A j \in Inferences : Rgba(j) \in Buffers /\ Rgba(j) # b /\ Src(j) \in Buffers
      /\ \A j \in Inferences : j # cur => Src(j) # b
      /\ \A j \in Inferences, k \in Kinds : <<j, k>> \in Buffers
      /\ \A j \in Inferences : <<j, "resize_img">> # b /\ <<j, "input_img">> # b
  BY <1>1, Constants DEF Rgba, Src, b
<1>10. /\ \A j \in Inferences : j # cur => dma'[Src(j)] = dma[Src(j)]
       /\ \A j \in Inferences : /\ dma'[Rgba(j)] = dma[Rgba(j)]
                                /\ dma'[<<j, "resize_img">>] = dma[<<j, "resize_img">>]
                                /\ dma'[<<j, "input_img">>] = dma[<<j, "input_img">>]
       /\ \A j \in Inferences, k \in Kinds : dma'[<<j, k>>].len = dma[<<j, k>>].len
  BY <1>3, <1>9 DEF Kinds
<1>11. /\ dma[b].len # 0 /\ dma[b].len = YuvSize(picture) /\ YuvSize(picture) = StrideSize(dma'[b])
  BY <1>1, <1>3 DEF Sized, Filling, YuvSize, StrideSize, HasShape, b
<1>12. Sized'
  <2>1. \A c \in Buffers : dma'[c].len # 0 => dma'[c].len = dma'[c].size
    BY <1>1, <1>3 DEF Sized
  <2>2. ASSUME NEW j \in Inferences, dma'[Src(j)].len # 0
        PROVE  dma'[Src(j)].len = StrideSize(dma'[Src(j)])
    <3>1. CASE j = cur
      BY <1>3, <1>11, <3>1 DEF b
    <3>2. CASE j # cur
      BY <1>1, <1>10, <2>2, <3>2 DEF Sized, Filling
    <3> QED
      BY <3>1, <3>2
  <2>3. opc' # "copy" /\ \A j \in Inferences : ~ Filling(j)'
    BY <1>1 DEF Filling
  <2>4. \A j \in Inferences :
           /\ \A k \in {"resize_img", "input_img"} : dma'[<<j, k>>].size \in {0, ModelSize}
           /\ dma'[Rgba(j)].size \in {0, RgbaSize(dma'[Rgba(j)])}
    BY <1>1, <1>10 DEF Sized
  <2> QED
    BY <2>1, <2>2, <2>3, <2>4 DEF Sized, ModelSize, YuvSize
<1>13. Busy'
  <2>1. wpc[cur] # "none" /\ ~ Working(cur)
    BY <1>1 DEF Lifecycle, Building, Leaving, Busy, BusyAt, Filling, Working
  <2>2. \A j \in Inferences : ~ Filling(j)' /\ Working(j)' = Working(j)
    BY <1>1 DEF Filling, Working
  <2>3. dma'[Src(cur)].len # 0 /\ \E g \in Geometries : HasShape(dma'[Src(cur)], g)
    BY <1>1, <1>3, <1>11 DEF b
  <2> SUFFICES ASSUME NEW j \in Inferences
               PROVE  BusyAt(j)'
    BY DEF Busy
  <2>4. CASE j = cur
    <3>1. /\ wpc'[j] = wpc[j] /\ wpc[j] # "none" /\ ~ Working(j) /\ ~ Working(j)'
          /\ ~ Filling(j)' /\ m_is_busy'[j]
      BY <1>1, <1>6, <2>1, <2>2, <2>4
    <3>2. /\ dma'[<<j, "resize_img">>].len = dma[<<j, "resize_img">>].len
          /\ dma'[<<j, "input_img">>].len = dma[<<j, "input_img">>].len
      BY <1>10
    <3>3. wpc[j] \notin {"none", "gone"} =>
             dma[<<j, "resize_img">>].len # 0 /\ dma[<<j, "input_img">>].len # 0
      BY <1>1 DEF Busy, BusyAt
    <3>4. wpc[j] # "run" /\ wpc[j] # "remake"
      BY <3>1 DEF Working
    <3> QED
      BY <2>3, <2>4, <3>1, <3>2, <3>3, <3>4 DEF BusyAt
  <2>5. CASE j # cur
    <3>1. /\ dma'[Src(j)] = dma[Src(j)] /\ dma'[Rgba(j)] = dma[Rgba(j)]
          /\ dma'[<<j, "resize_img">>] = dma[<<j, "resize_img">>]
          /\ dma'[<<j, "input_img">>] = dma[<<j, "input_img">>]
          /\ m_is_busy'[j] = m_is_busy[j] /\ ~ Filling(j)'
      BY <1>6, <1>10, <2>2, <2>5
    <3> QED
      BY <1>1, <2>2, <3>1 DEF Busy, BusyAt
  <2> QED
    BY <2>4, <2>5
<1>14. Lifecycle'
  BY <1>1 DEF Lifecycle, Building, Leaving
<1> QED
  BY <1>4, <1>5, <1>7, <1>8, <1>12, <1>13, <1>14 DEF BufInv

(* PollIdle keeps the invariant.                                           *)
LEMMA PollIdlePreserves ==
    ASSUME BufInv, PollIdle
    PROVE  BufInv'
<1>1. /\ opc = "poll" /\ polls > 0 /\ ~ m_is_busy[Polled] /\ NextPoll /\ cur' = Polled
      /\ UNCHANGED <<step, held, leaving, lost, picture, pictures, wpc, m_is_running, m_is_busy>>
      /\ TypeOK /\ AllocsFollow /\ Sized /\ Busy /\ Lifecycle /\ 0 \in Threads
      /\ picture \in Geometries
  BY Constants DEF PollIdle, BufInv, TypeOK, workerVars
<1>2. /\ Polled \in Inferences /\ polls' \in 0..N /\ next_inference_idx' \in 0..(N - 1)
      /\ Src(Polled) \in Buffers
  BY <1>1, NextPollStays, Constants
<1> DEFINE i == Polled
           b == Src(i)
<1>3. ~ Working(i) /\ \A j \in Inferences : ~ Filling(j)
  BY <1>1, <1>2 DEF Busy, BusyAt, Working, Filling
<1>4. CASE SrcFrameFits(dma[b], picture) /\ opc' = "copy" /\ UNCHANGED <<open, dma, alloc>>
  <2>1. Accounted' /\ Numbered'
    BY <1>1, <1>4, Untouched
  <2>2. TypeOK'
    BY <1>1, <1>2, <1>4 DEF TypeOK, OwnerPlaces
  <2>3. AllocsFollow'
    <3>1. \A u \in Threads : Allocates(u)' = Allocates(u) /\ (Allocates(u) => u # 0)
      BY <1>1, <1>4 DEF Allocates
    <3>2. \A u \in Threads : u # 0 => AllocBuffer(u)' = AllocBuffer(u)
      BY DEF AllocBuffer
    <3> QED
      BY <1>1, <1>4, <3>1, <3>2, SameAllocs
  <2>4. dma[b].len # 0 /\ dma[b].size = YuvSize(picture)
    BY <1>1, <1>2, <1>3, <1>4 DEF SrcFrameFits, GetSize, Sized, StrideSize, YuvSize
  <2>5. \A j \in Inferences : Filling(j)' => j = i
    BY <1>1 DEF Filling
  <2>6. Sized'
    BY <1>1, <1>3, <1>4, <2>4, <2>5 DEF Sized
  <2>7. Busy'
    BY <1>1, <1>4, <2>5 DEF Busy, BusyAt, Working
  <2>8. Lifecycle'
    BY <1>1, <1>4 DEF Lifecycle, Building, Leaving
  <2> QED
    BY <2>1, <2>2, <2>3, <2>6, <2>7, <2>8 DEF BufInv
<1>5. CASE opc' = "remake" /\ MakeDma(0, b, picture.ws, picture.hs, YuvSize(picture))
  <2>1. alloc[0].at = "none"
    BY <1>1, NotAllocating DEF Allocates
  <2>2. picture.ws \in Nat /\ picture.hs \in Nat /\ YuvSize(picture) \in Nat \ {0}
    BY <1>1, GeometryAssumption, SizesArePositive
  <2>3. /\ TypeOK' /\ AllocsFollow' /\ Accounted' /\ Numbered'
        /\ dma'[b].size = YuvSize(picture) /\ dma'[b].len = 0
        /\ \A c \in Buffers : c # b => dma'[c] = dma[c]
    <3>1. b = IF "remake" = "remake" THEN Src(i) ELSE <<i, "remake">>
      OBVIOUS
    <3>2. /\ b \in Buffers /\ i \in Inferences /\ cur' = i
          /\ UNCHANGED <<step, held, leaving, picture, pictures, workerVars>>
      BY <1>1, <1>2 DEF workerVars
    <3> HIDE DEF b, i
    <3> QED
      BY <1>1, <1>2, <1>5, <2>1, <2>2, <3>1, <3>2, OwnerMakes
  <2>4. /\ \A j \in Inferences : Rgba(j) \in Buffers /\ Rgba(j) # b /\ Src(j) \in Buffers
        /\ \A j \in Inferences : j # i => Src(j) # b
        /\ \A j \in Inferences, k \in Kinds : <<j, k>> \in Buffers
        /\ \A j \in Inferences : <<j, "resize_img">> # b /\ <<j, "input_img">> # b
    BY <1>2, Constants DEF Rgba, Src
  <2> HIDE DEF b
  <2>5. /\ \A j \in Inferences : j # i => dma'[Src(j)] = dma[Src(j)]
        /\ \A j \in Inferences : /\ dma'[Rgba(j)] = dma[Rgba(j)]
                                 /\ dma'[<<j, "resize_img">>] = dma[<<j, "resize_img">>]
                                 /\ dma'[<<j, "input_img">>] = dma[<<j, "input_img">>]
    BY <2>3, <2>4 DEF Kinds
  <2> HIDE DEF i
  <2>6. \A j \in Inferences : Filling(j)' <=> j = i
    BY <1>1, <1>5 DEF Filling, i
  <2>7. Sized'
    <3>1. \A c \in Buffers : dma'[c].len # 0 => dma'[c].len = dma'[c].size
      BY <1>1, <2>3 DEF Sized
    <3>2. ASSUME NEW j \in Inferences, dma'[Src(j)].len # 0, j # i
          PROVE  dma'[Src(j)].len = StrideSize(dma'[Src(j)])
      BY <1>1, <1>3, <2>5, <3>2 DEF Sized
    <3>3. dma'[Src(i)].size = YuvSize(picture)
      BY <2>3 DEF b
    <3>4. opc' # "copy"
      BY <1>5
    <3> QED
      BY <1>1, <2>5, <2>6, <3>1, <3>2, <3>3, <3>4 DEF Sized, RgbaSize, ModelSize, YuvSize
  <2>8. Busy'
    <3>1. i \in Inferences /\ ~ m_is_busy[i] /\ ~ Working(i)
      BY <1>1, <1>2, <1>3 DEF i
    <3> QED
      BY <1>1, <2>5, <2>6, <3>1 DEF Busy, BusyAt, Working
  <2>9. Lifecycle'
    BY <1>1, <1>5 DEF Lifecycle, Building, Leaving
  <2> QED
    BY <2>3, <2>7, <2>8, <2>9 DEF BufInv
<1> QED
  BY <1>4, <1>5 DEF PollIdle

(* JoinAndFree keeps the invariant.                                        *)
LEMMA JoinAndFreePreserves ==
    ASSUME BufInv, JoinAndFree
    PROVE  BufInv'
<1>1. /\ opc = "free" /\ opc' = "join" /\ wpc[cur] \in {"none", "gone"}
      /\ open' = open \ UNION {ReleasedFds(<<cur, k>>) : k \in Kinds}
      /\ dma' = [c \in Buffers |-> IF c[1] = cur THEN Released(dma[c]) ELSE dma[c]]
      /\ held' = [held EXCEPT ![cur] = {}]
      /\ UNCHANGED <<cur, step, leaving, lost, alloc, picture, polls,
                     next_inference_idx, pictures, wpc, m_is_running, m_is_busy>>
      /\ TypeOK /\ AllocsFollow /\ Sized /\ Busy /\ Lifecycle /\ Accounted /\ Numbered
      /\ cur \in Inferences /\ dma \in [Buffers -> DmaType] /\ open \subseteq Fds
  BY DEF JoinAndFree, BufInv, TypeOK, callbackVars, workerVars
<1> DEFINE S == {<<cur, k>> : k \in Kinds}
<1>2. /\ S \subseteq Buffers /\ \A c \in Buffers : c[1] = cur <=> c \in S
      /\ \A k \in Kinds : <<cur, k>> \in S
  BY <1>1, Constants
<1>3. \A d \in DmaType : /\ Released(d) \in DmaType /\ Released(d).len = 0
                         /\ Released(d).size \in {0, d.size}
                         /\ Released(d).width = d.width /\ Released(d).height = d.height
  BY DEF Released, DmaType
<1> HIDE DEF S
<1>4. /\ dma' \in [Buffers -> DmaType]
      /\ \A c \in S : /\ dma'[c].len = 0 /\ dma'[c].size \in {0, dma[c].size}
                      /\ dma'[c].width = dma[c].width /\ dma'[c].height = dma[c].height
      /\ \A c \in Buffers : c \notin S => dma'[c] = dma[c]
  BY <1>1, <1>2, <1>3
<1>5. Accounted'
  <2>1. S \in SUBSET Owners
    BY <1>2, OwnersAre
  <2>2. \A c \in S : Has[c] = BufferHas(dma[c]) /\ Has'[c] = 0
    BY <1>2, <1>4, HasOf DEF HasReads, BufferHas
  <2>3. \A c \in Buffers : c \notin S => Has'[c] = Has[c]
    BY <1>4, HasOf DEF HasReads
  <2>4. \A t \in Threads : /\ Has'[<<t, "heap">>] = Has[<<t, "heap">>]
                           /\ Has'[<<t, "got">>] = Has[<<t, "got">>]
                           /\ <<t, "heap">> \notin S /\ <<t, "got">> \notin S
    BY <1>1, <1>2, HasOf, OwnersAre DEF HasReads
  <2>5. \A f \in Fds : Has'[<<f, "lost">>] = Has[<<f, "lost">>] /\ <<f, "lost">> \notin S
    BY <1>1, <1>2, HasOf, OwnersAre DEF HasReads
  <2>6. \A p \in Owners : Has'[p] = (IF p \in S THEN 0 ELSE Has[p])
    BY <2>2, <2>3, <2>4, <2>5, OwnersAre
  <2>7. open' = open \ {Has[p] : p \in S}
    <3>1. \A f \in open : (\E k \in Kinds : f \in ReleasedFds(<<cur, k>>))
                             <=> (\E p \in S : Has[p] = f)
      <4>1. \A f \in open : f # 0
        BY <1>1, Constants
      <4>2. \A k \in Kinds : Has[<<cur, k>>] = BufferHas(dma[<<cur, k>>])
        BY <1>2, <2>2
      <4>3. \A f \in open, k \in Kinds : f \in ReleasedFds(<<cur, k>>) <=> Has[<<cur, k>>] = f
        BY <4>1, <4>2 DEF ReleasedFds, BufferHas
      <4> QED
        BY <4>3 DEF S
    <3> QED
      BY <1>1, <3>1
  <2> QED
    BY <1>1, <2>1, <2>6, <2>7, SomeDropped
<1>6. Numbered'
  BY <1>1, <1>4 DEF Numbered
<1>7. /\ held' \in [Inferences -> SUBSET HeldType] /\ held'[cur] = {}
      /\ \A j \in Inferences : j # cur => held'[j] = held[j]
  BY <1>1 DEF TypeOK
<1>8. TypeOK'
  BY <1>1, <1>4, <1>7 DEF TypeOK, OwnerPlaces
<1>9. \A j \in Inferences : j # cur => \A k \in Kinds : dma'[<<j, k>>] = dma[<<j, k>>]
  BY <1>1, <1>2, <1>4, Constants DEF S
<1>10. AllocsFollow'
  <2>1. \A u \in Threads : /\ Allocates(u)' = Allocates(u)
                           /\ Allocates(u) => u # 0 /\ wpc[u] = "remake"
    BY <1>1 DEF Allocates
  <2>2. \A u \in Threads : u # 0 => AllocBuffer(u)' = Rgba(u) /\ AllocBuffer(u) = Rgba(u)
    BY DEF AllocBuffer
  <2>3. ASSUME NEW u \in Threads, Allocates(u) PROVE dma'[Rgba(u)] = dma[Rgba(u)]
    <3>1. u \in Inferences /\ u # cur
      BY <1>1, <2>1, <2>3, Constants
    <3> QED
      BY <1>9, <3>1 DEF Rgba, Kinds
  <2>4. ASSUME NEW u \in Threads
        PROVE  AllocFollows(u)'
    <3>1. CASE Allocates(u)
      <4>1. /\ u # 0 /\ Allocates(u)' /\ AllocBuffer(u)' = Rgba(u) /\ AllocBuffer(u) = Rgba(u)
            /\ dma'[Rgba(u)] = dma[Rgba(u)] /\ alloc'[u] = alloc[u]
        BY <1>1, <2>1, <2>2, <2>3, <3>1
      <4> QED
        BY <1>1, <3>1, <4>1 DEF AllocsFollow, AllocFollows
    <3>2. CASE ~ Allocates(u)
      BY <1>1, <2>1, <3>2 DEF AllocsFollow, AllocFollows
    <3> QED
      BY <3>1, <3>2
  <2> QED
    BY <2>4 DEF AllocsFollow, AllocFollows
<1>11. /\ \A j \in Inferences, k \in Kinds :
             /\ dma'[<<j, k>>].size \in {0, dma[<<j, k>>].size}
             /\ dma'[<<j, k>>].width = dma[<<j, k>>].width
             /\ dma'[<<j, k>>].height = dma[<<j, k>>].height
             /\ dma'[<<j, k>>].len # 0 => dma'[<<j, k>>] = dma[<<j, k>>]
  BY <1>1, <1>2, <1>4, Constants
<1>12. Sized'
  <2>1. \A c \in Buffers : dma'[c].len # 0 => dma'[c].len = dma'[c].size
    BY <1>1, <1>4 DEF Sized
  <2>2. opc' # "copy" /\ \A j \in Inferences : ~ Filling(j) /\ ~ Filling(j)'
    BY <1>1 DEF Filling
  <2>3. \A j \in Inferences : dma'[Rgba(j)].size \in {0, RgbaSize(dma'[Rgba(j)])}
    <3>1. \A j \in Inferences : /\ dma'[Rgba(j)].size \in {0, dma[Rgba(j)].size}
                                /\ RgbaSize(dma'[Rgba(j)]) = RgbaSize(dma[Rgba(j)])
      BY <1>11 DEF RgbaSize, Rgba, Kinds
    <3> QED
      BY <1>1, <3>1 DEF Sized
  <2>4. \A j \in Inferences :
           /\ \A k \in {"resize_img", "input_img"} : dma'[<<j, k>>].size \in {0, ModelSize}
           /\ dma'[Src(j)].len # 0 => dma'[Src(j)].len = StrideSize(dma'[Src(j)])
    <3> SUFFICES ASSUME NEW j \in Inferences
                 PROVE  /\ \A k \in {"resize_img", "input_img"} :
                              dma'[<<j, k>>].size \in {0, ModelSize}
                        /\ dma'[Src(j)].len # 0 => dma'[Src(j)].len = StrideSize(dma'[Src(j)])
      OBVIOUS
    <3>1. \A k \in {"resize_img", "input_img"} : /\ dma'[<<j, k>>].size \in {0, dma[<<j, k>>].size}
                                                 /\ dma[<<j, k>>].size \in {0, ModelSize}
      BY <1>1, <1>11 DEF Sized, Kinds
    <3>2. dma'[Src(j)].len # 0 => dma'[Src(j)] = dma[Src(j)]
      BY <1>11 DEF Src, Kinds
    <3>3. dma[Src(j)].len # 0 => dma[Src(j)].len = StrideSize(dma[Src(j)])
      BY <1>1, <2>2 DEF Sized
    <3> QED
      BY <3>1, <3>2, <3>3
  <2> QED
    BY <2>1, <2>2, <2>3, <2>4 DEF Sized, ModelSize, YuvSize
<1>13. Busy'
  <2>1. ~ Working(cur) /\ (m_is_busy[cur] => wpc[cur] = "gone")
    BY <1>1 DEF Busy, BusyAt, Working
  <2>2. \A j \in Inferences : ~ Filling(j)'
    BY <1>1 DEF Filling
  <2>3. \A j \in Inferences : j # cur =>
           /\ dma'[Src(j)] = dma[Src(j)] /\ dma'[Rgba(j)] = dma[Rgba(j)]
           /\ dma'[<<j, "resize_img">>] = dma[<<j, "resize_img">>]
           /\ dma'[<<j, "input_img">>] = dma[<<j, "input_img">>]
    BY <1>9 DEF Src, Rgba, Kinds
  <2> SUFFICES ASSUME NEW j \in Inferences
               PROVE  BusyAt(j)'
    BY DEF Busy
  <2>4. CASE j = cur
    BY <1>1, <2>1, <2>4 DEF BusyAt, Working
  <2>5. CASE j # cur
    <3>1. /\ dma'[Src(j)] = dma[Src(j)] /\ dma'[Rgba(j)] = dma[Rgba(j)]
          /\ dma'[<<j, "resize_img">>] = dma[<<j, "resize_img">>]
          /\ dma'[<<j, "input_img">>] = dma[<<j, "input_img">>]
          /\ ~ Filling(j)'
      BY <2>2, <2>3, <2>5
    <3> QED
      BY <1>1, <3>1 DEF Busy, BusyAt, Working
  <2> QED
    BY <2>4, <2>5
<1>14. Lifecycle'
  <2>1. Clean(cur)'
    BY <1>1, <1>2, <1>4, <1>7 DEF Clean
  <2>2. \A j \in Inferences : j # cur /\ Clean(j) => Clean(j)'
    BY <1>1, <1>7, <1>9 DEF Clean
  <2>3. \A j \in Inferences : j # cur /\ ToRelease(j) => ToRelease(j)'
    BY <1>1 DEF ToRelease
  <2> QED
    BY <1>1, <2>1, <2>2, <2>3 DEF Lifecycle, Building, Leaving
<1> QED
  BY <1>5, <1>6, <1>8, <1>10, <1>12, <1>13, <1>14 DEF BufInv

(* The invariant holds at the start ...                                    *)
LEMMA InitInv == Init => BufInv
<1> SUFFICES ASSUME Init PROVE BufInv
  OBVIOUS
<1>1. /\ dma = [b \in Buffers |-> NoDma] /\ alloc = [t \in Threads |-> NoAlloc]
      /\ open = {} /\ lost = {} /\ opc = "build" /\ cur = 1 /\ step = 1 /\ leaving = <<>>
      /\ held = [i \in Inferences |-> {}] /\ wpc = [i \in Inferences |-> "none"]
      /\ m_is_busy = [i \in Inferences |-> FALSE] /\ m_is_running = [i \in Inferences |-> FALSE]
      /\ picture \in Geometries /\ polls = 0 /\ next_inference_idx = 0 /\ pictures = 0
  BY DEF Init
<1>2. 1 \in Inferences /\ 0 \in 0..N /\ 0 \in 0..(N - 1) /\ <<1, "src_frame">> \in Buffers
  BY BoundAssumption DEF Inferences, Buffers, Kinds
<1>3. NoDma \in DmaType /\ NoDma.len = 0 /\ NoDma.size = 0
  BY DEF NoDma, DmaType
<1>4. NoAlloc \in AllocType /\ NoAlloc.at = "none"
  BY <1>2 DEF NoAlloc, AllocType
<1>5. TypeOK
  <2>1. step \in 1..(Len(InitCalls) + 1)
    <3>1. 1 \in 1..8
      OBVIOUS
    <3> QED
      BY <1>1, <3>1, InitCallsAre
  <2>2. leaving \in Seq(Inferences)
    BY <1>1
  <2>3. opc \in OwnerPlaces /\ "none" \in WorkerPlaces
    BY <1>1 DEF OwnerPlaces, WorkerPlaces
  <2> QED
    BY <1>1, <1>2, <1>3, <1>4, <2>1, <2>2, <2>3 DEF TypeOK
<1>6. \A t \in Threads : alloc[t].at = "none" /\ ~ Allocates(t)
  BY <1>1, <1>4, Constants DEF Allocates
<1>7. \A b \in Buffers : dma[b].len = 0 /\ dma[b].size = 0
  BY <1>1, <1>3
<1>8. AllocsFollow
  BY <1>6 DEF AllocsFollow, AllocFollows
<1>9. Accounted
  <2>1. \A o \in Owners : Has[o] = 0
    <3>1. \A b \in Buffers : Has[b] = 0
      BY <1>7, HasOf DEF HasReads, BufferHas
    <3>2. \A t \in Threads : Has[<<t, "heap">>] = 0 /\ Has[<<t, "got">>] = 0
      BY <1>6, HasOf DEF HasReads, HeapHas, GotHas
    <3>3. \A f \in Fds : Has[<<f, "lost">>] = 0
      BY <1>1, HasOf DEF HasReads
    <3> QED
      BY <3>1, <3>2, <3>3, OwnersAre
  <2> QED
    BY <1>1, <2>1 DEF Accounted
<1>10. Numbered
  BY <1>6, <1>7 DEF Numbered
<1>11. Sized
  <2>1. opc # "copy" /\ \A i \in Inferences : ~ Filling(i)
    BY <1>1 DEF Filling
  <2>2. \A i \in Inferences, k \in Kinds : <<i, k>> \in Buffers
    BY Constants
  <2> QED
    BY <1>7, <2>1, <2>2 DEF Sized, Rgba, Src, Kinds
<1>12. Busy
  BY <1>1 DEF Busy, BusyAt, Working
<1>13. Lifecycle
  <2>1. \A i \in Inferences : Clean(i) /\ wpc[i] = "none"
    BY <1>1, <1>7, Constants DEF Clean
  <2>2. \A i \in Inferences : ~ (i < cur)
    BY <1>1 DEF Inferences
  <2> QED
    BY <1>1, <1>2, <2>1, <2>2 DEF Lifecycle, Building, Leaving
<1> QED
  BY <1>5, <1>8, <1>9, <1>10, <1>11, <1>12, <1>13 DEF BufInv

(* ... a step that changes nothing keeps it ...                            *)
LEMMA StutterPreserves ==
    ASSUME BufInv, UNCHANGED vars
    PROVE  BufInv'
<1>1. UNCHANGED <<open, lost, dma, alloc, opc, cur, step, held, leaving, picture, polls,
                  next_inference_idx, pictures, wpc, m_is_running, m_is_busy>>
  BY DEF vars, tableVars, ownerVars, callbackVars, workerVars
<1>2. TypeOK /\ AllocsFollow /\ Sized /\ Busy /\ Lifecycle
  BY DEF BufInv
<1>3. Accounted' /\ Numbered'
  BY <1>1, Untouched
<1>4. TypeOK'
  BY <1>1, <1>2 DEF TypeOK
<1>5. AllocsFollow'
  BY <1>1, <1>2 DEF AllocsFollow, AllocFollows, Allocates, AllocBuffer, OwnerBuffer
<1>6. Sized'
  BY <1>1, <1>2 DEF Sized, Filling
<1>7. Busy'
  BY <1>1, <1>2 DEF Busy, BusyAt, Working, Filling
<1>8. Lifecycle'
  BY <1>1, <1>2 DEF Lifecycle, Building, Leaving, Clean, ToRelease
<1> QED
  BY <1>3, <1>4, <1>5, <1>6, <1>7, <1>8 DEF BufInv

(* ... and so it always holds, for every number of inferences, descriptors *)
(* and pictures, whichever calls fail.                                     *)
THEOREM Invariance == Spec => []BufInv
<1>1. BufInv /\ [Next]_vars => BufInv'
  <2> SUFFICES ASSUME BufInv, [Next]_vars PROVE BufInv'
    OBVIOUS
  <2>1. ASSUME NEW t \in Threads, OpenHeap(t) \/ IoctlAlloc(t) \/ Mmap(t) \/ CloseHeap(t)
        PROVE  BufInv'
    BY <2>1, OpenHeapPreserves, IoctlAllocPreserves, MmapPreserves, CloseHeapPreserves
  <2>2. CASE InitCall \/ InitCallFails
    BY <2>2, InitCallPreserves, InitCallFailsPreserves
  <2>3. CASE InitBuffer \/ InitSecondBuffer \/ InitBufferFails \/ InitEnds
    BY <2>3, InitBufferPreserves, InitBufferFailsPreserves, InitEndsPreserves
  <2>4. ASSUME NEW g \in Geometries, FrameCallback(g) PROVE BufInv'
    BY <2>4, FrameCallbackPreserves
  <2>5. CASE PollBusy \/ PollIdle \/ EncodeDirectly
    BY <2>5, PollBusyPreserves, PollIdlePreserves, EncodeDirectlyPreserves
  <2>6. CASE SrcFrameMade \/ SrcFrameFails \/ CopyAndTrigger
    BY <2>6, SrcFrameMadePreserves, SrcFrameFailsPreserves, CopyAndTriggerPreserves
  <2>7. ASSUME NEW i \in Inferences,
               \/ TakeFrame(i) \/ RgbaMade(i) \/ RgbaFails(i)
               \/ RunNetwork(i) \/ DrawLabels(i) \/ CallBack(i) \/ LeaveLoop(i)
        PROVE  BufInv'
    BY <2>7, TakeFramePreserves, RgbaDonePreserves, PlainPreserves
  <2>8. CASE Interrupt \/ StopInference \/ JoinAndFree \/ MainEnds
    BY <2>8, InterruptPreserves, StopInferencePreserves, JoinAndFreePreserves,
        MainEndsPreserves
  <2>9. CASE UNCHANGED vars
    BY <2>9, StutterPreserves
  <2> QED
    BY <2>1, <2>2, <2>3, <2>4, <2>5, <2>6, <2>7, <2>8, <2>9 DEF Next
<1> QED
  BY <1>1, InitInv, PTL DEF Spec

(* Every variable has its type; the index of the poll stays inside the     *)
(* inferences (main.cpp:224).                                              *)
THEOREM TypeCorrect == Spec => []TypeOK
<1>1. BufInv => TypeOK
  BY DEF BufInv
<1> QED
  BY <1>1, Invariance, PTL

(* Every open descriptor has exactly one owner, a buffer, an allocation    *)
(* under way, or nobody after an allocation that failed                    *)
(* (dma_alloc.cpp:100-147, rknn_type.h:152-159).                           *)
THEOREM DescriptorsAreAccounted == Spec => []DescriptorsAccounted
<1>1. BufInv => DescriptorsAccounted
  <2> SUFFICES ASSUME BufInv PROVE DescriptorsAccounted
    OBVIOUS
  <2>1. Accounted /\ Numbered /\ lost \subseteq Fds
    BY DEF BufInv, TypeOK
  <2>2. ASSUME NEW p \in Holdings
        PROVE  p[1] \in Owners /\ Has[p[1]] = p[2] /\ p[2] # 0 /\ p = <<p[1], p[2]>>
    <3>1. CASE \E b \in Buffers : dma[b].len # 0 /\ p = <<b, dma[b].fd>>
      BY <2>1, <3>1, HasOf, OwnersAre, Constants DEF HasReads, BufferHas, Numbered
    <3>2. CASE \E t \in Threads : alloc[t].at \in {"ioctl", "mmap", "close"}
                                  /\ p = <<<<t, "heap">>, alloc[t].heap>>
      <4>1. PICK t \in Threads : alloc[t].at \in {"ioctl", "mmap", "close"}
                                /\ p = <<<<t, "heap">>, alloc[t].heap>>
        BY <3>2
      <4>2. alloc[t].heap \in Fds /\ alloc[t].heap # 0
        BY <2>1, <4>1, Constants DEF Numbered
      <4>3. <<t, "heap">> \in Owners /\ Has[<<t, "heap">>] = alloc[t].heap
        BY <4>1, HasOf, OwnersAre DEF HasReads, HeapHas
      <4> QED
        BY <4>1, <4>2, <4>3
    <3>3. CASE \E t \in Threads : alloc[t].at = "mmap" /\ p = <<<<t, "got">>, alloc[t].got>>
      <4>1. PICK t \in Threads : alloc[t].at = "mmap"
                                /\ p = <<<<t, "got">>, alloc[t].got>>
        BY <3>3
      <4>2. alloc[t].got \in Fds /\ alloc[t].got # 0
        BY <2>1, <4>1, Constants DEF Numbered
      <4>3. <<t, "got">> \in Owners /\ Has[<<t, "got">>] = alloc[t].got
        BY <4>1, HasOf, OwnersAre DEF HasReads, GotHas
      <4> QED
        BY <4>1, <4>2, <4>3
    <3>4. CASE \E f \in lost : p = <<<<f, "lost">>, f>>
      BY <2>1, <3>4, HasOf, OwnersAre, Constants DEF HasReads
    <3> QED
      BY <3>1, <3>2, <3>3, <3>4 DEF Holdings
  <2>3. ASSUME NEW o \in Owners, Has[o] # 0 PROVE <<o, Has[o]>> \in Holdings
    <3>1. CASE o \in Buffers
      BY <2>3, <3>1, HasOf DEF HasReads, BufferHas, Holdings
    <3>2. CASE \E t \in Threads : o = <<t, "heap">>
      BY <2>3, <3>2, HasOf DEF HasReads, HeapHas, Holdings
    <3>3. CASE \E t \in Threads : o = <<t, "got">>
      BY <2>3, <3>3, HasOf DEF HasReads, GotHas, Holdings
    <3>4. CASE \E f \in Fds : o = <<f, "lost">>
      BY <2>3, <3>4, HasOf DEF HasReads, Holdings
    <3> QED
      BY <3>1, <3>2, <3>3, <3>4, OwnersAre
  <2>4. \A f \in open : f # 0
    BY Constants DEF BufInv, TypeOK
  <2>5. {p[2] : p \in Holdings} \subseteq open
    BY <2>1, <2>2 DEF Accounted
  <2>6. ASSUME NEW f \in open PROVE \E p \in Holdings : p[2] = f
    <3>1. PICK o \in Owners : Has[o] = f
      BY <2>1 DEF Accounted
    <3> QED
      BY <2>3, <2>4, <3>1
  <2>7. \A p, q \in Holdings : p[2] = q[2] => p = q
    BY <2>1, <2>2 DEF Accounted
  <2> QED
    BY <2>5, <2>6, <2>7 DEF DescriptorsAccounted
<1> QED
  BY <1>1, Invariance, PTL

(* A quotient is at most b when the dividend is at most b times the        *)
(* divisor.                                                                *)
LEMMA DivBound ==
    ASSUME NEW a \in Nat, NEW b \in Nat, NEW w \in Nat \ {0}, a <= b * w
    PROVE  a \div w \in Nat /\ a \div w <= b
<1> DEFINE q == a \div w
<1>1. q \in Nat /\ w * q <= a
  OBVIOUS
<1> HIDE DEF q
<1>2. ASSUME q > b PROVE FALSE
  <2>1. q - (b + 1) \in Nat
    BY <1>1, <1>2
  <2>2. w * (q - (b + 1)) \in Nat
    BY <2>1
  <2>3. w * q = w * (q - (b + 1)) + w * b + w /\ w * b = b * w
    BY <1>1
  <2> QED
    BY <1>1, <2>2, <2>3
<1> QED
  BY <1>1, <1>2 DEF q

(* A product grows with its factor.                                        *)
LEMMA ProductGrows ==
    ASSUME NEW m \in Nat, NEW a \in Nat, NEW b \in Nat, a <= b
    PROVE  m * a <= m * b
<1>1. m * (b - a) \in Nat /\ m * b = m * a + m * (b - a) /\ m * a \in Nat
  OBVIOUS
<1> QED
  BY <1>1

(* The picture scaled into the network's input is never larger than that   *)
(* input (inference.cpp:226-230).                                          *)
LEMMA LetterboxFits ==
    ASSUME NEW d, d.width \in Nat \ {0}, d.height \in Nat \ {0}
    PROVE  ResizeSize(d) <= ModelSize
<1> DEFINE w == d.width
           h == d.height
<1>1. ModelW \in Nat /\ ModelH \in Nat /\ w \in Nat \ {0} /\ h \in Nat \ {0}
  BY ModelAssumption
<1> HIDE DEF w, h
<1>2. CASE ModelW * h <= ModelH * w
  <2> DEFINE q == (h * ModelW) \div w
  <2>1. h * ModelW \in Nat /\ h * ModelW <= ModelH * w
    BY <1>1, <1>2
  <2>2. q \in Nat /\ q <= ModelH
    BY <1>1, <2>1, DivBound
  <2> HIDE DEF q
  <2>3. ModelW * q <= ModelW * ModelH /\ ModelW * q \in Nat /\ ModelW * ModelH \in Nat
    BY <1>1, <2>2, ProductGrows
  <2>4. ResizeSize(d) = ModelW * q * 3
    BY <1>2 DEF ResizeSize, q, w, h
  <2> QED
    BY <2>3, <2>4 DEF ModelSize
<1>3. CASE ~ (ModelW * h <= ModelH * w)
  <2> DEFINE q == (w * ModelH) \div h
  <2>1. w * ModelH \in Nat /\ w * ModelH <= ModelW * h
    BY <1>1, <1>3
  <2>2. q \in Nat /\ q <= ModelW
    BY <1>1, <2>1, DivBound
  <2> HIDE DEF q
  <2>3. ModelH * q <= ModelH * ModelW /\ ModelH * q \in Nat /\ ModelH * ModelW \in Nat
    BY <1>1, <2>2, ProductGrows
  <2>4. q * ModelH = ModelH * q /\ ModelW * ModelH = ModelH * ModelW
    BY <1>1, <2>2
  <2>5. ResizeSize(d) = q * ModelH * 3
    BY <1>3 DEF ResizeSize, q, w, h
  <2> QED
    BY <2>3, <2>4, <2>5 DEF ModelSize
<1> QED
  BY <1>2, <1>3

(* Every use of a buffer is inside its mapping, at every sequence of       *)
(* geometries (main.cpp:234-256, inference.cpp:226-277).                   *)
THEOREM BuffersFit == Spec => []FitsBuffer
<1>1. BufInv => FitsBuffer
  <2> SUFFICES ASSUME BufInv PROVE FitsBuffer
    OBVIOUS
  <2>1. Sized /\ Busy /\ cur \in Inferences
    BY DEF BufInv, TypeOK
  <2>2. \A b \in Buffers : dma[b].len # 0 => dma[b].size = dma[b].len
    BY <2>1 DEF Sized
  <2>3. opc = "copy" => dma[Src(cur)].len = YuvSize(picture)
    BY <2>1, <2>2, Constants DEF Sized, Filling
  <2>4. ASSUME NEW i \in Inferences, wpc[i] \in {"run", "draw", "callback"}
        PROVE  dma[Src(i)].len # 0 /\ dma[Src(i)].len = StrideSize(dma[Src(i)])
    BY <2>1, <2>4 DEF Sized, Busy, BusyAt, Working
  <2>5. ASSUME NEW i \in Inferences, wpc[i] = "run"
        PROVE  /\ dma[Rgba(i)].len = RgbaSize(dma[Src(i)])
               /\ ResizeSize(dma[Src(i)]) <= dma[<<i, "resize_img">>].len
               /\ dma[<<i, "input_img">>].len = ModelSize
    <3>1. /\ dma[Rgba(i)].len # 0 /\ dma[Rgba(i)].width = dma[Src(i)].width
          /\ dma[Rgba(i)].height = dma[Src(i)].height
          /\ dma[<<i, "resize_img">>].len # 0 /\ dma[<<i, "input_img">>].len # 0
          /\ \E g \in Geometries : HasShape(dma[Src(i)], g)
      BY <2>1, <2>5 DEF Busy, BusyAt, Working
    <3>2. RgbaSize(dma[Rgba(i)]) = RgbaSize(dma[Src(i)])
      BY <3>1 DEF RgbaSize
    <3>3. /\ dma[<<i, "resize_img">>].len = ModelSize /\ dma[<<i, "input_img">>].len = ModelSize
          /\ dma[Rgba(i)].len = RgbaSize(dma[Rgba(i)])
      <4>1. /\ <<i, "resize_img">> \in Buffers /\ <<i, "input_img">> \in Buffers
            /\ Rgba(i) \in Buffers
        BY Constants DEF Kinds
      <4> QED
        BY <2>1, <2>2, <3>1, <4>1 DEF Sized
    <3>4. dma[Src(i)].width \in Nat \ {0} /\ dma[Src(i)].height \in Nat \ {0}
      BY <3>1, GeometryAssumption DEF HasShape
    <3>5. ResizeSize(dma[Src(i)]) <= ModelSize
      BY <3>4, LetterboxFits
    <3> QED
      BY <3>2, <3>3, <3>5
  <2> QED
    BY <2>2, <2>3, <2>4, <2>5 DEF FitsBuffer, StrideSize
<1> QED
  BY <1>1, Invariance, PTL

(* When main has ended, only what failed allocations left open is open, no *)
(* buffer is mapped, no inference has anything (inference.cpp:391-422).    *)
THEOREM EverythingGivenBack == Spec => []AllGivenBack
<1>1. BufInv => AllGivenBack
  <2> SUFFICES ASSUME BufInv, opc = "end"
               PROVE  /\ open = lost
                      /\ \A b \in Buffers : dma[b].len = 0
                      /\ \A i \in Inferences : held[i] = {} /\ wpc[i] \in {"none", "gone"}
    BY DEF AllGivenBack
  <2>1. /\ TypeOK /\ AllocsFollow /\ Accounted /\ Lifecycle
    BY DEF BufInv
  <2>2. \A i \in Inferences : Clean(i)
    BY <2>1 DEF Lifecycle, Leaving, ToRelease
  <2>3. \A b \in Buffers : dma[b].len = 0
    BY <2>2, Constants DEF Clean
  <2>4. \A t \in Threads : alloc[t].at = "none"
    BY <2>1, <2>2, Constants DEF AllocsFollow, AllocFollows, Allocates, Clean
  <2>5. ASSUME NEW f \in open PROVE f \in lost
    <3>1. PICK o \in Owners : Has[o] = f
      BY <2>1 DEF Accounted
    <3>2. f # 0
      BY <2>1, Constants DEF TypeOK
    <3>3. ~ (o \in Buffers) /\ \A t \in Threads : o # <<t, "heap">> /\ o # <<t, "got">>
      <4>1. \A b \in Buffers : Has[b] = 0
        BY <2>3, HasOf DEF HasReads, BufferHas
      <4>2. \A t \in Threads : Has[<<t, "heap">>] = 0 /\ Has[<<t, "got">>] = 0
        BY <2>4, HasOf DEF HasReads, HeapHas, GotHas
      <4> QED
        BY <3>1, <3>2, <4>1, <4>2
    <3>4. PICK e \in Fds : o = <<e, "lost">>
      BY <3>3, OwnersAre
    <3> QED
      BY <3>1, <3>2, <3>4, HasOf DEF HasReads
  <2>6. ASSUME NEW f \in lost PROVE f \in open
    <3>1. f \in Fds /\ f # 0 /\ Has[<<f, "lost">>] = f /\ <<f, "lost">> \in Owners
      BY <2>1, HasOf, OwnersAre, Constants DEF HasReads, TypeOK
    <3> QED
      BY <2>1, <3>1 DEF Accounted
  <2> QED
    BY <2>2, <2>3, <2>5, <2>6 DEF Clean
<1> QED
  BY <1>1, Invariance, PTL

(* What an inference draws is inside its picture, and every text on its    *)
(* background (label_render.cpp:146-186, 362-477).                         *)
THEOREM DrawingIsInside == Spec => []LabelsInside
<1>1. BufInv => LabelsInside
  <2> SUFFICES ASSUME BufInv, NEW i \in Inferences, wpc[i] = "draw"
               PROVE  LET w == dma[Src(i)].width_stride
                          h == dma[Src(i)].height_stride
                      IN  /\ \A d \in Detections :
                                /\ DetectionBackground(w, h, d[1], d[2], d[3], d[4])
                                      \subseteq Bytes(i)
                                /\ DetectionText(w, h, d[1], d[2], d[3], d[4])
                                      \subseteq DetectionBackground(w, h, d[1], d[2], d[3], d[4])
                          /\ FPSBackground(w, h, FPSImage, 10, 10) \subseteq Bytes(i)
                          /\ FPSText(w, h, FPSImage, 10, 10)
                                \subseteq FPSBackground(w, h, FPSImage, 10, 10)
    BY DEF LabelsInside
  <2> DEFINE w == dma[Src(i)].width_stride
             h == dma[Src(i)].height_stride
  <2>1. Sized /\ Busy
    BY DEF BufInv
  <2>2. /\ dma[Src(i)].len = StrideSize(dma[Src(i)])
        /\ \E g \in Geometries : HasShape(dma[Src(i)], g)
    BY <2>1 DEF Sized, Busy, BusyAt, Working
  <2>3. w \in Nat /\ h \in Nat /\ w % 2 = 0 /\ h % 2 = 0
    BY <2>2, GeometryAssumption DEF HasShape
  <2>4. Bytes(i) = 0..((w * h * 3) \div 2 - 1)
    BY <2>2 DEF Bytes, StrideSize
  <2> HIDE DEF w, h
  <2>5. ASSUME NEW d \in Detections
        PROVE  /\ DetectionBackground(w, h, d[1], d[2], d[3], d[4]) \subseteq Bytes(i)
               /\ DetectionText(w, h, d[1], d[2], d[3], d[4])
                     \subseteq DetectionBackground(w, h, d[1], d[2], d[3], d[4])
    <3>1. d[1] \in Nat \X Nat /\ d[2] \in Nat \X Nat /\ d[3] \in Int /\ d[4] \in Int
      BY DetectionAssumption
    <3> DEFINE label == d[1]
               conf == d[2]
               box_x == d[3]
               box_y == d[4]
    <3>2. label \in Nat \X Nat /\ conf \in Nat \X Nat /\ box_x \in Int /\ box_y \in Int
      BY <3>1
    <3> HIDE DEF label, conf, box_x, box_y
    <3>3. /\ DetectionBackground(w, h, label, conf, box_x, box_y)
                \subseteq 0..((w * h * 3) \div 2 - 1)
          /\ DetectionText(w, h, label, conf, box_x, box_y)
                \subseteq DetectionBackground(w, h, label, conf, box_x, box_y)
      BY <2>3, <3>2, DetectionOnBackground
    <3> QED
      BY <2>4, <3>3 DEF label, conf, box_x, box_y
  <2>6. /\ FPSBackground(w, h, FPSImage, 10, 10) \subseteq Bytes(i)
        /\ FPSText(w, h, FPSImage, 10, 10) \subseteq FPSBackground(w, h, FPSImage, 10, 10)
    <3> DEFINE iw == FPSImage[1]
               ih == FPSImage[2]
    <3>1. iw \in Nat /\ ih \in Nat
      BY DetectionAssumption
    <3> HIDE DEF iw, ih
    <3>2. /\ 10 - 2 \in Int /\ iw + 4 \in Nat /\ ih + 4 \in Nat
          /\ 10 - 2 + 2 <= 10 /\ 10 + iw + 2 <= 10 - 2 + (iw + 4)
          /\ 10 + ih + 2 <= 10 - 2 + (ih + 4) /\ iw + 4 \in Int /\ ih + 4 \in Int /\ 10 \in Int
      BY <3>1
    <3>3. FillRectYUV420SP(w, h, 10 - 2, 10 - 2, iw + 4, ih + 4)
             \subseteq 0..((w * h * 3) \div 2 - 1)
      BY <2>3, <3>2, FillStaysInside
    <3>4. BlitRgbaToYUV420SP(w, h, iw, ih, 10, 10)
             \subseteq FillRectYUV420SP(w, h, 10 - 2, 10 - 2, iw + 4, ih + 4)
      BY <2>3, <3>1, <3>2, TextOnBackground
    <3> QED
      BY <2>4, <3>3, <3>4 DEF FPSBackground, FPSText, iw, ih
  <2> QED
    BY <2>5, <2>6 DEF w, h
<1> QED
  BY <1>1, Invariance, PTL
=============================================================================
